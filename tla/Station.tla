------------------------------ MODULE Station ------------------------------
(***************************************************************************)
(* The life of one station process: main.cpp from its command line to its  *)
(* exit, with the socket endpoints it opens (unix_socket_transport.cpp)    *)
(* and the frame decoder of its read loop (frame.cpp).  Everything runs on *)
(* one thread, which blocks in accept and in read.                         *)
(*                                                                         *)
(* The session is reduced to whether it goes on after a frame (Session.tla *)
(* has the rest), and the audio channel to whether stopping it hands its   *)
(* endpoint back (BulkChannel.tla has the rest).  Outside are the clients  *)
(* that connect, send and leave, and whoever else uses the file system.    *)
(***************************************************************************)
EXTENDS Naturals, Sequences, FiniteSets, SequencesExt

CONSTANTS
  None,          \* no path, no peer, no exit code
  Paths,         \* the socket paths a host may name
  Clients,       \* processes that may connect
  MaxFrames,     \* bound of the model: frames sent over a session
  MaxChunk       \* bound of the model: parts of frames one read returns

ASSUME StationAssumption ==
  /\ None \notin Paths \cup Clients \cup Nat
  /\ MaxFrames \in Nat /\ MaxChunk \in Nat

Endpoint == {"control", "audio"}
AcceptAt == [control |-> "accept control", audio |-> "accept audio"]

\* A frame is a request a session may make, or one the decoder rejects: by its
\* length, as soon as the header is there, or by its type, once it is whole.
FrameKind == {"hello", "ask", "bye", "length", "type"}
Malformed == {"length", "type"}

VARIABLES
  path,          \* --listen (None: standard streams) and --bulk (None: absent)
  at,            \* where main is
  code,          \* its exit code
  made,          \* the endpoints that exist and will unlink their path
  listening,     \* the endpoints whose listener is open
  queued,        \* clients in the backlog of each endpoint
  peer,          \* whom each endpoint serves
  channel,       \* the audio endpoint has moved into a channel
  stream,        \* halves of frames on the control connection, unread
  buffer,        \* buffer_ of the decoder
  session,       \* "greeting", "live" or "over"
  handled,       \* history: the frames the session was given, by number
  sent,          \* history: the kinds of the frames sent
  cut,           \* history: the last of them stopped half-way
  gone,          \* the clients that have closed their connections
  files          \* who made the socket file at each path

endpointVars == <<made, listening, queued, peer, channel>>
loopVars == <<stream, buffer, session, handled>>
outsideVars == <<sent, cut, gone>>
vars == <<path, at, code, endpointVars, loopVars, outsideVars, files>>

StationInit ==
  /\ path \in [Endpoint -> Paths \cup {None}]
  /\ at = "control" /\ code = None
  /\ made = {} /\ listening = {}
  /\ queued = [e \in Endpoint |-> << >>]
  /\ peer = [e \in Endpoint |-> None]
  /\ channel = FALSE
  /\ stream = << >> /\ buffer = << >> /\ session = "greeting" /\ handled = << >>
  /\ sent = << >> /\ cut = FALSE /\ gone = {}
  /\ files \in [Paths -> {"nobody", "other"}]

\* return from main: its objects are still to be destroyed.
Leave(exitCode) == at' = "closing" /\ code' = exitCode

-----------------------------------------------------------------------------
(* Start-up. *)

\* Mutant: whatever occupies the path is cleared first.
PrepareClobbering(e) ==
  /\ files' = [files EXCEPT ![path[e]] = "station"]
  /\ made' = made \cup {e} /\ listening' = listening \cup {e}
  /\ at' = AcceptAt[e]
  /\ UNCHANGED code

\* prepare: binds a path that nothing occupies and listens on it.  It can fail
\* with a free path too (a path too long, no socket, no listener), and leaves
\* then no file behind.
Prepare(e) ==
  \/ /\ files[path[e]] = "nobody"
     /\ files' = [files EXCEPT ![path[e]] = "station"]
     /\ made' = made \cup {e} /\ listening' = listening \cup {e}
     /\ at' = AcceptAt[e]
     /\ UNCHANGED code
  \/ Leave(2) /\ UNCHANGED <<files, made, listening>>

\* The standard streams need no set-up: whoever started the station has them.
OpenControl ==
  /\ at = "control"
  /\ \/ /\ path["control"] = None
        /\ \E c \in Clients : peer' = [peer EXCEPT !["control"] = c]
        /\ at' = "audio"
        /\ UNCHANGED <<code, files, made, listening>>
     \/ path["control"] # None /\ Prepare("control") /\ UNCHANGED peer
  /\ UNCHANGED <<path, queued, channel, loopVars, outsideVars>>

OpenAudio ==
  /\ at = "audio"
  /\ \/ path["audio"] = None /\ at' = "profile" /\ UNCHANGED <<code, files, made, listening>>
     \/ path["audio"] # None /\ Prepare("audio")
  /\ UNCHANGED <<path, queued, peer, channel, loopVars, outsideVars>>

\* Mutant: the listener stays open.
AcceptListening(e) ==
  /\ at = AcceptAt[e]
  /\ queued[e] # << >>
  /\ peer' = [peer EXCEPT ![e] = Head(queued[e])]
  /\ queued' = [queued EXCEPT ![e] = Tail(@)]
  /\ at' = IF e = "control" THEN "audio" ELSE "profile"
  /\ UNCHANGED <<listening, path, code, made, channel, loopVars, outsideVars, files>>

\* acceptOne: serves the first in the backlog and closes the listener, which
\* resets the others.
Accept(e) ==
  /\ at = AcceptAt[e]
  /\ queued[e] # << >>
  /\ peer' = [peer EXCEPT ![e] = Head(queued[e])]
  /\ queued' = [queued EXCEPT ![e] = << >>]
  /\ listening' = listening \ {e}
  /\ at' = IF e = "control" THEN "audio" ELSE "profile"
  /\ UNCHANGED <<path, code, made, channel, loopVars, outsideVars, files>>

AcceptFails(e) ==
  /\ at = AcceptAt[e]
  /\ Leave(2)
  /\ UNCHANGED <<path, endpointVars, loopVars, outsideVars, files>>

\* A profile that was named and cannot be read ends the station.
LoadProfile ==
  /\ at = "profile"
  /\ \/ at' = "read" /\ UNCHANGED code
     \/ Leave(2)
  /\ UNCHANGED <<path, endpointVars, loopVars, outsideVars, files>>

-----------------------------------------------------------------------------
(* The read loop. *)

\* Mutant: a read replaces what the decoder has kept.
ReadReplacing(length) ==
  /\ at = "read"
  /\ length =< Len(stream)
  /\ buffer' = SubSeq(stream, 1, length)
  /\ stream' = SubSeq(stream, length + 1, Len(stream))
  /\ at' = "decode"
  /\ UNCHANGED <<path, code, endpointVars, session, handled, outsideVars, files>>

\* A read returns as soon as there is anything; the decoder is fed with it.
Read(length) ==
  /\ at = "read"
  /\ length =< Len(stream)
  /\ buffer' = buffer \o SubSeq(stream, 1, length)
  /\ stream' = SubSeq(stream, length + 1, Len(stream))
  /\ at' = "decode"
  /\ UNCHANGED <<path, code, endpointVars, session, handled, outsideVars, files>>

\* Mutant: the end of the stream is taken for a read to be tried again.
ReadAgain ==
  /\ at = "read"
  /\ stream = << >> /\ peer["control"] \in gone
  /\ UNCHANGED vars

\* Zero bytes: the peer has closed its end.
ReadEnds ==
  /\ at = "read"
  /\ stream = << >> /\ peer["control"] \in gone
  /\ Leave(0)
  /\ UNCHANGED <<path, endpointVars, loopVars, outsideVars, files>>

\* The peer has closed its end with replies unread, which resets the connection.
ReadFails ==
  /\ at = "read"
  /\ peer["control"] \in gone
  /\ Leave(1)
  /\ UNCHANGED <<path, endpointVars, loopVars, outsideVars, files>>

NextKind == sent[Head(buffer).frame]
Violates ==
  \/ buffer # << >> /\ NextKind = "length"
  \/ Len(buffer) > 1 /\ NextKind = "type"

\* decoder.next without a frame: more bytes are needed.
NeedMore ==
  /\ at = "decode"
  /\ Len(buffer) < 2 /\ ~ Violates
  /\ at' = "read"
  /\ UNCHANGED <<path, code, endpointVars, loopVars, outsideVars, files>>

DecodeFails ==
  /\ at = "decode"
  /\ Violates
  /\ Leave(1)
  /\ UNCHANGED <<path, endpointVars, loopVars, outsideVars, files>>

\* Session::handle: a BYE, or anything but HELLO for a greeting, is the last.
SessionAfter(kind) ==
  CASE kind = "bye" -> "over"
    [] kind # "bye" /\ session = "greeting" -> IF kind = "hello" THEN "live" ELSE "over"
    [] OTHER -> session

\* Mutant: the frames that follow the last one are handled as well.
HandleOn ==
  /\ at = "decode"
  /\ Len(buffer) > 1 /\ ~ Violates
  /\ buffer' = SubSeq(buffer, 3, Len(buffer))
  /\ handled' = Append(handled, Head(buffer).frame)
  /\ session' = SessionAfter(NextKind)
  /\ UNCHANGED channel
  /\ IF session' = "over" /\ Len(buffer') < 2 THEN Leave(0) ELSE UNCHANGED <<at, code>>
  /\ UNCHANGED <<path, made, listening, queued, peer, stream, outsideVars, files>>

\* decoder.next with a frame, which the session answers; that the reply could
\* not be written is not looked at.  A request may be the one that finds the
\* engine and makes the audio channel.
HandleFrame ==
  /\ at = "decode"
  /\ Len(buffer) > 1 /\ ~ Violates
  /\ buffer' = SubSeq(buffer, 3, Len(buffer))
  /\ handled' = Append(handled, Head(buffer).frame)
  /\ session' = SessionAfter(NextKind)
  /\ \/ UNCHANGED channel
     \/ session = "live" /\ NextKind = "ask" /\ "audio" \in made /\ channel' = TRUE
  /\ IF session' = "over" THEN Leave(0) ELSE UNCHANGED <<at, code>>
  /\ UNCHANGED <<path, made, listening, queued, peer, stream, outsideVars, files>>

\* A reply to standard output that nobody reads raises SIGPIPE, which ends the
\* process on the spot unless it was started with the signal ignored.
BrokenPipe ==
  /\ at = "decode"
  /\ Len(buffer) > 1 /\ ~ Violates
  /\ path["control"] = None /\ peer["control"] \in gone
  /\ at' = "exited"
  /\ UNCHANGED <<path, code, endpointVars, loopVars, outsideVars, files>>

-----------------------------------------------------------------------------
(* The end: the destructors, in the reverse order of construction. *)

Unlink(e) == files' = IF e \in made THEN [files EXCEPT ![path[e]] = "nobody"] ELSE files

\* The audio endpoint goes with its owner: main, or a channel that was stopped
\* in time.
CloseAudio ==
  /\ at = "closing"
  /\ Unlink("audio")
  /\ at' = "closing control"
  /\ UNCHANGED <<path, code, endpointVars, loopVars, outsideVars>>

\* A channel that was not stopped in time is released and takes its endpoint
\* with it.
ReleaseAudio ==
  /\ at = "closing"
  /\ channel
  /\ at' = "closing control"
  /\ UNCHANGED <<path, code, endpointVars, loopVars, outsideVars, files>>

CloseControl ==
  /\ at = "closing control"
  /\ Unlink("control")
  /\ at' = "exited"
  /\ listening' = {}
  /\ queued' = [e \in Endpoint |-> << >>]
  /\ UNCHANGED <<path, code, made, peer, channel, loopVars, outsideVars>>

-----------------------------------------------------------------------------
(* Outside. *)

Waits(c, e) == \E i \in DOMAIN queued[e] : queued[e][i] = c

Connect(c, e) ==
  /\ e \in listening /\ c \notin gone
  /\ ~ Waits(c, e)
  /\ queued' = [queued EXCEPT ![e] = Append(@, c)]
  /\ UNCHANGED <<path, at, code, made, listening, peer, channel, loopVars, outsideVars, files>>

\* A frame on the control connection; its first half may be all there is when
\* the sender goes away.
Halves(n) == <<[frame |-> n, half |-> 1], [frame |-> n, half |-> 2]>>

SendFrame(kind) ==
  /\ peer["control"] # None /\ peer["control"] \notin gone
  /\ Len(sent) < MaxFrames
  /\ sent' = Append(sent, kind)
  /\ \/ stream' = stream \o Halves(Len(sent')) /\ UNCHANGED <<cut, gone>>
     \/ /\ stream' = Append(stream, Halves(Len(sent'))[1])
        /\ cut' = TRUE
        /\ gone' = gone \cup {peer["control"]}
  /\ UNCHANGED <<path, at, code, endpointVars, buffer, session, handled, files>>

Depart(c) ==
  /\ c \notin gone
  /\ gone' = gone \cup {c}
  /\ UNCHANGED <<path, at, code, endpointVars, loopVars, sent, cut, files>>

\* Somebody else uses one of the paths, or stops using it.  A file of the
\* station's is left alone.
OtherBinds(p) ==
  /\ files[p] = "nobody"
  /\ files' = [files EXCEPT ![p] = "other"]
  /\ UNCHANGED <<path, at, code, endpointVars, loopVars, outsideVars>>

OtherUnlinks(p) ==
  /\ files[p] = "other"
  /\ files' = [files EXCEPT ![p] = "nobody"]
  /\ UNCHANGED <<path, at, code, endpointVars, loopVars, outsideVars>>

-----------------------------------------------------------------------------

Main ==
  \/ OpenControl \/ OpenAudio \/ LoadProfile
  \/ \E e \in Endpoint : Accept(e)
  \/ \E length \in 1 .. MaxChunk : Read(length)
  \/ ReadEnds \/ NeedMore \/ DecodeFails \/ HandleFrame
  \/ CloseAudio \/ CloseControl

Fault == ReadFails \/ BrokenPipe \/ ReleaseAudio \/ \E e \in Endpoint : AcceptFails(e)

Outside ==
  \/ \E c \in Clients, e \in Endpoint : Connect(c, e)
  \/ \E kind \in FrameKind : SendFrame(kind)
  \/ \E c \in Clients : Depart(c)
  \/ \E p \in Paths : OtherBinds(p) \/ OtherUnlinks(p)

StationNext == Main \/ Fault \/ Outside

\* The process runs when it is not blocked.  Clients owe nothing, not even to
\* connect, and no fault need happen.
StationSpec == StationInit /\ [][StationNext]_vars /\ WF_vars(Main)

-----------------------------------------------------------------------------
(* Properties that hold. *)

\* The type invariant; while the station serves its peer nobody waits for a turn,
\* whoever else came in while it was starting (transport.hpp:10).
StationInv ==
  /\ path \in [Endpoint -> Paths \cup {None}]
  /\ code \in {None, 0, 1, 2}
  /\ made \subseteq Endpoint /\ listening \subseteq made
  /\ queued \in [Endpoint -> Seq(Clients)] /\ peer \in [Endpoint -> Clients \cup {None}]
  /\ channel \in BOOLEAN /\ session \in {"greeting", "live", "over"}
  /\ handled \in Seq(Nat) /\ sent \in Seq(FrameKind)
  /\ gone \subseteq Clients /\ files \in [Paths -> {"nobody", "station", "other"}]
  /\ at \in {"read", "decode"} => \A e \in Endpoint : queued[e] = << >>

\* unix_socket_transport.cpp:64: what occupies a path is the host's to clear,
\* so the station never removes or takes over a file that it did not make,
\* also when it fails half-way and when both endpoints have the same path.
NeverClobbers ==
  [][\A p \in Paths : files[p] = "other" => files'[p] = "other" \/ OtherUnlinks(p)]_vars

\* The frame that ends a session: BYE, or a first frame that is no HELLO.
IsLast(n) == sent[n] = "bye" \/ (n = 1 /\ sent[n] # "hello")

\* frame.hpp:50: however the stream is cut, the session is given the frames in
\* order, each once, and none at or behind a violation or behind its last.
HandledInOrder ==
  \A i \in DOMAIN handled :
    /\ handled[i] = i
    /\ sent[i] \notin Malformed
    /\ i < Len(handled) => ~ IsLast(i)

\* main.cpp:17: a station that ends with 0 has given the session every whole
\* frame its peer sent, up to the one that ended it.
CleanEndIsComplete ==
  code = 0 => \/ session = "over"
              \/ Len(handled) = IF cut THEN Len(sent) - 1 ELSE Len(sent)

\* Once it serves a session, a station ends when its peer has gone.
ServiceEnds ==
  (at \in {"read", "decode"} /\ peer["control"] \in gone) ~> at = "exited"

-----------------------------------------------------------------------------
(* Statements of the comments that the code does not keep. *)

\* unix_socket_transport.cpp:35: the socket file is the station's to remove.
PathsRemoved == at = "exited" => \A p \in Paths : files[p] # "station"

\* main.cpp:191: accepting first is so that a station can be shut down while a
\* host declines to connect its audio.
DecliningHostEnds == (peer["control"] # None /\ peer["control"] \in gone) ~> at = "exited"

=============================================================================
