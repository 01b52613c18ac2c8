--------------------------- MODULE StationProofs ---------------------------
(***************************************************************************)
(* Theorems about the station process: for any paths, any clients and any  *)
(* number of frames cut anywhere, it leaves the files of others alone, has *)
(* nobody waiting while it serves, and gives its session the frames of its *)
(* peer in order, all of them when it ends with 0.                         *)
(***************************************************************************)
EXTENDS Station, SequenceTheorems, TLAPS

Start == {"control", "accept control", "audio", "accept audio", "profile"}
Serving == {"read", "decode"}
End == {"closing", "closing control", "exited"}
Half == [frame : Nat, half : {1, 2}]

\* Types, by what they are about: the process, its endpoints, the stream.
ProcessTypes ==
  /\ path \in [Endpoint -> Paths \cup {None}]
  /\ at \in Start \cup Serving \cup End
  /\ code \in {None, 0, 1, 2}
  /\ made \subseteq Endpoint /\ listening \subseteq made
  /\ channel \in BOOLEAN
  /\ files \in [Paths -> {"nobody", "station", "other"}]

ClientTypes ==
  /\ queued \in [Endpoint -> Seq(Clients)]
  /\ peer \in [Endpoint -> Clients \cup {None}]
  /\ gone \subseteq Clients

StreamTypes ==
  /\ stream \in Seq(Half) /\ buffer \in Seq(Half)
  /\ session \in {"greeting", "live", "over"}
  /\ handled \in Seq(Nat) /\ sent \in Seq(FrameKind) /\ cut \in BOOLEAN

\* A listener is open while its endpoint is accepting, or after a failure; only
\* then can anybody be waiting.
ListenersInv ==
  \A e \in Endpoint :
    /\ e \in listening => at \in {AcceptAt[e], "closing", "closing control"}
    /\ queued[e] # << >> => e \in listening

\* What the station made is there, under its own name, until it takes it down.
FilesInv ==
  /\ at = "control" => made = {}
  /\ at \in {"accept control", "audio"} => "audio" \notin made
  /\ \A e \in made :
       /\ path[e] \in Paths
       /\ at \notin {"closing control", "exited"} => files[path[e]] = "station"
  /\ "control" \in made /\ at = "closing control" => files[path["control"]] = "station"
  /\ made = Endpoint => path["control"] # path["audio"]

\* What the peer has sent and the session has not been given, in halves.
Coming == buffer \o stream
Missing == IF cut THEN 1 ELSE 0

\* The halves of the frames behind the first done ones, in order.
Follow(halves, done) ==
  \A i \in 1 .. Len(halves) :
    i \in {2 * (halves[i].frame - done) - 1, 2 * (halves[i].frame - done)}

FlowInv ==
  /\ Len(Coming) = 2 * (Len(sent) - Len(handled)) - Missing
  /\ Follow(Coming, Len(handled))
  /\ cut => peer["control"] \in gone

\* Where main is tells what the decoder holds and how the session stands.
PhaseInv ==
  /\ at \in {"control", "accept control"} => peer["control"] = None
  /\ at \in Start => buffer = << >> /\ handled = << >>
  /\ at = "read" => Len(buffer) < 2
  /\ at \notin End => code = None /\ session # "over"
  /\ session = "greeting" <=> handled = << >>

\* The frame that is the last one ends the session.
LastInv == handled # << >> /\ IsLast(Len(handled)) => session = "over"

\* A clean end without a last frame: the peer has gone, and nothing of it is left.
EndInv ==
  code = 0 /\ session # "over" =>
    peer["control"] \in gone /\ Len(sent) - Len(handled) = Missing

LEMMA AcceptNames == AcceptAt["control"] = "accept control" /\ AcceptAt["audio"] = "accept audio"
BY DEF AcceptAt

LEMMA NoneIsNoCode == None # 0
<1>1. None \notin Nat /\ 0 \in Nat
  BY StationAssumption
<1>2. QED
  BY <1>1

LEMMA EmptyQueues == [e \in Endpoint |-> << >>] \in [Endpoint -> Seq(Clients)]
<1>1. << >> \in Seq(Clients)
  OBVIOUS
<1>2. QED
  BY <1>1, Zenon

LEMMA Types_Init == StationInit => ProcessTypes /\ ClientTypes /\ StreamTypes
<1>. SUFFICES ASSUME StationInit PROVE ProcessTypes /\ ClientTypes /\ StreamTypes
  OBVIOUS
<1>1. ProcessTypes
  BY DEF StationInit, ProcessTypes, Start
<1>2. ClientTypes
  <2>1. peer \in [Endpoint -> Clients \cup {None}]
    BY DEF StationInit
  <2>2. QED
    BY <2>1, EmptyQueues DEF StationInit, ClientTypes
<1>3. StreamTypes
  BY EmptySeq DEF StationInit, StreamTypes
<1>4. QED
  BY <1>1, <1>2, <1>3

LEMMA Endpoints_Init == StationInit => ListenersInv /\ FilesInv
BY DEF StationInit, ListenersInv, FilesInv, Endpoint

LEMMA HalvesTyped == \A n \in Nat : Halves(n) \in Seq(Half) /\ Halves(n)[1] \in Half
BY DEF Halves, Half

LEMMA Process_Step == ProcessTypes /\ [StationNext]_vars => ProcessTypes'
<1>. SUFFICES ASSUME ProcessTypes, [StationNext]_vars PROVE ProcessTypes'
  OBVIOUS
<1>. USE DEF ProcessTypes, Start, Serving, End, endpointVars, loopVars, outsideVars
<1>1. ASSUME NEW e \in Endpoint, Prepare(e), path[e] # None, UNCHANGED <<path, channel>>
      PROVE ProcessTypes'
  <2>1. AcceptAt[e] \in Start
    BY AcceptNames DEF Endpoint
  <2>2. QED
    BY <1>1, <2>1 DEF Prepare, Leave
<1>2. CASE OpenControl
  BY <1>1, <1>2 DEF OpenControl, Endpoint
<1>3. CASE OpenAudio
  BY <1>1, <1>3 DEF OpenAudio, Endpoint
<1>4. ASSUME NEW e \in Endpoint, Accept(e) PROVE ProcessTypes'
  BY <1>4 DEF Accept
<1>5. CASE LoadProfile \/ ReadEnds \/ NeedMore \/ DecodeFails \/ ReadFails \/ BrokenPipe \/ ReleaseAudio
  BY <1>5 DEF LoadProfile, ReadEnds, NeedMore, DecodeFails, ReadFails, BrokenPipe, ReleaseAudio, Leave
<1>6. ASSUME NEW e \in Endpoint, AcceptFails(e) PROVE ProcessTypes'
  BY <1>6 DEF AcceptFails, Leave
<1>7. ASSUME NEW length \in 1 .. MaxChunk, Read(length) PROVE ProcessTypes'
  BY <1>7 DEF Read
<1>8. CASE HandleFrame
  BY <1>8 DEF HandleFrame, Leave
<1>9. CASE CloseAudio \/ CloseControl
  <2>1. \A e \in Endpoint : Unlink(e) => files' \in [Paths -> {"nobody", "station", "other"}]
    BY DEF Unlink
  <2>2. QED
    BY <1>9, <2>1 DEF CloseAudio, CloseControl, Endpoint
<1>10. ASSUME NEW p \in Paths, OtherBinds(p) \/ OtherUnlinks(p) PROVE ProcessTypes'
  BY <1>10 DEF OtherBinds, OtherUnlinks
<1>11. CASE UNCHANGED <<path, at, code, made, listening, channel, files>>
  BY <1>11
<1>12. QED
  BY <1>2, <1>3, <1>4, <1>5, <1>6, <1>7, <1>8, <1>9, <1>10, <1>11
     DEF StationNext, Main, Fault, Outside, Connect, SendFrame, Depart, vars

LEMMA Clients_Step == ClientTypes /\ [StationNext]_vars => ClientTypes'
<1>. SUFFICES ASSUME ClientTypes, [StationNext]_vars PROVE ClientTypes'
  OBVIOUS
<1>. USE DEF ClientTypes, endpointVars, loopVars, outsideVars
<1>1. CASE OpenControl
  BY <1>1 DEF OpenControl
<1>2. ASSUME NEW e \in Endpoint, Accept(e) PROVE ClientTypes'
  <2>1. queued[e] \in Seq(Clients) /\ Head(queued[e]) \in Clients
    BY <1>2 DEF Accept
  <2>2. QED
    BY <1>2, <2>1 DEF Accept
<1>3. CASE CloseControl
  BY <1>3, EmptyQueues DEF CloseControl
<1>4. ASSUME NEW c \in Clients, NEW e \in Endpoint, Connect(c, e) PROVE ClientTypes'
  <2>1. Append(queued[e], c) \in Seq(Clients)
    OBVIOUS
  <2>2. QED
    BY <1>4, <2>1 DEF Connect
<1>5. ASSUME NEW kind \in FrameKind, SendFrame(kind) PROVE ClientTypes'
  <2>1. peer["control"] # None /\ peer["control"] \in Clients \cup {None}
    BY <1>5 DEF SendFrame, Endpoint
  <2>2. QED
    BY <1>5, <2>1 DEF SendFrame
<1>6. ASSUME NEW c \in Clients, Depart(c) PROVE ClientTypes'
  BY <1>6 DEF Depart
<1>7. CASE UNCHANGED <<queued, peer, gone>>
  BY <1>7
<1>8. QED
  BY <1>1, <1>2, <1>3, <1>4, <1>5, <1>6, <1>7
     DEF StationNext, Main, Fault, Outside, OpenAudio, AcceptFails, LoadProfile, Read, ReadEnds,
         ReadFails, NeedMore, DecodeFails, HandleFrame, BrokenPipe, CloseAudio, ReleaseAudio,
         OtherBinds, OtherUnlinks, vars

LEMMA Stream_Step == StreamTypes /\ [StationNext]_vars => StreamTypes'
<1>. SUFFICES ASSUME StreamTypes, [StationNext]_vars PROVE StreamTypes'
  OBVIOUS
<1>. USE DEF StreamTypes, endpointVars, loopVars, outsideVars
<1>1. ASSUME NEW length \in 1 .. MaxChunk, Read(length) PROVE StreamTypes'
  <2>1. length \in 1 .. Len(stream) /\ Len(stream) \in Nat
    BY <1>1, StationAssumption DEF Read
  <2>2. /\ SubSeq(stream, 1, length) \in Seq(Half)
        /\ SubSeq(stream, length + 1, Len(stream)) \in Seq(Half)
    BY <2>1
  <2>3. QED
    BY <1>1, <2>2 DEF Read
<1>2. CASE HandleFrame
  <2>1. Len(buffer) \in Nat /\ Len(buffer) > 1 /\ Head(buffer) \in Half
    BY <1>2 DEF HandleFrame
  <2>2. SubSeq(buffer, 3, Len(buffer)) \in Seq(Half)
    BY <2>1
  <2>3. Append(handled, Head(buffer).frame) \in Seq(Nat)
    BY <2>1 DEF Half
  <2>4. SessionAfter(NextKind) \in {"greeting", "live", "over"}
    BY DEF SessionAfter
  <2>5. QED
    BY <1>2, <2>2, <2>3, <2>4 DEF HandleFrame
<1>3. ASSUME NEW kind \in FrameKind, SendFrame(kind) PROVE StreamTypes'
  <2>1. sent' \in Seq(FrameKind) /\ Len(sent') \in Nat
    BY <1>3 DEF SendFrame
  <2>2. stream \o Halves(Len(sent')) \in Seq(Half)
    BY <2>1, HalvesTyped
  <2>3. Append(stream, Halves(Len(sent'))[1]) \in Seq(Half)
    BY <2>1, HalvesTyped
  <2>4. QED
    BY <1>3, <2>1, <2>2, <2>3 DEF SendFrame
<1>4. CASE UNCHANGED <<stream, buffer, session, handled, sent, cut>>
  BY <1>4
<1>5. QED
  BY <1>1, <1>2, <1>3, <1>4
     DEF StationNext, Main, Fault, Outside, OpenControl, OpenAudio, Accept, AcceptFails,
         LoadProfile, ReadEnds, ReadFails, NeedMore, DecodeFails, BrokenPipe, CloseAudio,
         ReleaseAudio, CloseControl, Connect, Depart, OtherBinds, OtherUnlinks, vars

LEMMA Listeners_Step ==
  ProcessTypes /\ ClientTypes /\ ListenersInv /\ [StationNext]_vars => ListenersInv'
<1>. SUFFICES ASSUME ProcessTypes, ClientTypes, ListenersInv, [StationNext]_vars
              PROVE  ListenersInv'
  OBVIOUS
<1>. USE AcceptNames DEF ListenersInv, Endpoint, endpointVars, loopVars, outsideVars
<1>1. /\ listening \subseteq Endpoint
      /\ queued \in [Endpoint -> Seq(Clients)]
  BY DEF ProcessTypes, ClientTypes
<1>2. ASSUME NEW e \in Endpoint, Prepare(e), at \in {"control", "audio"}, UNCHANGED queued
      PROVE ListenersInv'
  BY <1>2 DEF Prepare, Leave
<1>3. CASE OpenControl
  BY <1>2, <1>3 DEF OpenControl
<1>4. CASE OpenAudio
  BY <1>2, <1>4 DEF OpenAudio
<1>5. ASSUME NEW e \in Endpoint, Accept(e) PROVE ListenersInv'
  <2>1. \A d \in Endpoint : d # e => d \notin listening /\ queued[d] = << >>
    BY <1>5 DEF Accept
  <2>2. listening' = {}
    BY <1>1, <1>5, <2>1 DEF Accept
  <2>3. \A d \in Endpoint : queued'[d] = << >>
    BY <1>1, <1>5, <2>1 DEF Accept
  <2>4. QED
    BY <2>2, <2>3
<1>6. CASE LoadProfile \/ ReadEnds \/ NeedMore \/ DecodeFails \/ ReadFails \/ BrokenPipe \/ ReleaseAudio
  BY <1>6 DEF LoadProfile, ReadEnds, NeedMore, DecodeFails, ReadFails, BrokenPipe, ReleaseAudio, Leave
<1>7. ASSUME NEW e \in Endpoint, AcceptFails(e) PROVE ListenersInv'
  BY <1>7 DEF AcceptFails, Leave
<1>8. ASSUME NEW length \in 1 .. MaxChunk, Read(length) PROVE ListenersInv'
  BY <1>8 DEF Read
<1>9. CASE HandleFrame
  BY <1>9 DEF HandleFrame, Leave
<1>10. CASE CloseAudio \/ CloseControl
  BY <1>10 DEF CloseAudio, CloseControl
<1>11. ASSUME NEW c \in Clients, NEW e \in Endpoint, Connect(c, e) PROVE ListenersInv'
  BY <1>1, <1>11 DEF Connect
<1>12. CASE UNCHANGED <<at, listening, queued>>
  BY <1>12
<1>13. QED
  BY <1>3, <1>4, <1>5, <1>6, <1>7, <1>8, <1>9, <1>10, <1>11, <1>12
     DEF StationNext, Main, Fault, Outside, SendFrame, Depart, OtherBinds, OtherUnlinks, vars

LEMMA Files_Step == ProcessTypes /\ FilesInv /\ [StationNext]_vars => FilesInv'
<1>. SUFFICES ASSUME ProcessTypes, FilesInv, [StationNext]_vars PROVE FilesInv'
  OBVIOUS
<1>. USE AcceptNames DEF FilesInv, Endpoint, endpointVars, loopVars, outsideVars
<1>1. /\ path \in [Endpoint -> Paths \cup {None}] /\ made \subseteq Endpoint
      /\ files \in [Paths -> {"nobody", "station", "other"}]
  BY DEF ProcessTypes
<1>2. CASE OpenControl
  BY <1>1, <1>2 DEF OpenControl, Prepare, Leave
<1>3. CASE OpenAudio
  <2>1. CASE path["audio"] = None
    BY <1>1, <1>3, <2>1 DEF OpenAudio, Prepare, Leave
  <2>2. CASE path["audio"] # None /\ Leave(2) /\ UNCHANGED <<files, made, listening>>
    BY <1>1, <1>3, <2>2 DEF OpenAudio, Leave
  <2>3. CASE path["audio"] # None /\ files[path["audio"]] = "nobody" /\ at' = AcceptAt["audio"]
    <3>1. /\ path["audio"] \in Paths /\ at = "audio" /\ "audio" \notin made
          /\ UNCHANGED path /\ made' = made \cup {"audio"} /\ at' = "accept audio"
          /\ files' = [files EXCEPT ![path["audio"]] = "station"]
      BY <1>1, <1>3, <2>3 DEF OpenAudio, Prepare, Leave
    <3>2. "control" \in made => path["control"] # path["audio"]
      BY <1>1, <2>3, <3>1
    <3>3. \A e \in made' : path[e] \in Paths /\ files'[path[e]] = "station"
      BY <1>1, <3>1
    <3>4. QED
      BY <3>1, <3>2, <3>3
  <2>4. QED
    BY <1>3, <2>1, <2>2, <2>3 DEF OpenAudio, Prepare
<1>4. ASSUME NEW e \in Endpoint, Accept(e) PROVE FilesInv'
  BY <1>4 DEF Accept
<1>5. CASE LoadProfile \/ ReadEnds \/ NeedMore \/ DecodeFails \/ ReadFails \/ BrokenPipe \/ ReleaseAudio
  BY <1>5 DEF LoadProfile, ReadEnds, NeedMore, DecodeFails, ReadFails, BrokenPipe, ReleaseAudio, Leave
<1>6. ASSUME NEW e \in Endpoint, AcceptFails(e) PROVE FilesInv'
  BY <1>6 DEF AcceptFails, Leave
<1>7. ASSUME NEW length \in 1 .. MaxChunk, Read(length) PROVE FilesInv'
  BY <1>7 DEF Read
<1>8. CASE HandleFrame
  BY <1>8 DEF HandleFrame, Leave
<1>9. CASE CloseAudio
  BY <1>1, <1>9 DEF CloseAudio, Unlink
<1>10. CASE CloseControl
  BY <1>1, <1>10 DEF CloseControl
<1>11. ASSUME NEW p \in Paths, OtherBinds(p) \/ OtherUnlinks(p) PROVE FilesInv'
  <2>1. UNCHANGED <<path, at, made>>
    BY <1>11 DEF OtherBinds, OtherUnlinks
  <2>2. \A q \in Paths : files[q] = "station" => files'[q] = "station"
    BY <1>1, <1>11 DEF OtherBinds, OtherUnlinks
  <2>3. QED
    BY <2>1, <2>2
<1>12. CASE UNCHANGED <<path, at, made, files>>
  BY <1>12
<1>13. QED
  BY <1>2, <1>3, <1>4, <1>5, <1>6, <1>7, <1>8, <1>9, <1>10, <1>11, <1>12
     DEF StationNext, Main, Fault, Outside, SendFrame, Depart, Connect, vars

-----------------------------------------------------------------------------
(* What comes in. *)

\* A read moves halves from the stream to the buffer and changes nothing else.
LEMMA ReadKeeps ==
  ASSUME NEW b \in Seq(Half), NEW s \in Seq(Half), NEW n \in 1 .. Len(s)
  PROVE  (b \o SubSeq(s, 1, n)) \o SubSeq(s, n + 1, Len(s)) = b \o s
<1>. DEFINE read == SubSeq(s, 1, n)
            left == SubSeq(s, n + 1, Len(s))
<1>1. read \o left = SubSeq(s, 1, Len(s))
  BY ConcatAdjacentSubSeq
<1>2. SubSeq(s, 1, Len(s)) = s
  BY SubSeqFull
<1>3. read \in Seq(Half) /\ left \in Seq(Half)
  OBVIOUS
<1>4. (b \o read) \o left = b \o (read \o left)
  <2>. HIDE DEF read, left
  <2>1. QED
    BY <1>3, ConcatAssociative, SMTT(60)
<1>5. QED
  BY <1>1, <1>2, <1>4, Zenon

\* A frame taken from the buffer leaves the halves of the later frames.
LEMMA TakeFollows ==
  ASSUME NEW b \in Seq(Half), NEW s \in Seq(Half), NEW done \in Nat,
         Len(b) > 1, Follow(b \o s, done)
  PROVE  LET left == SubSeq(b, 3, Len(b))
         IN  /\ Head(b).frame = done + 1
             /\ Len(left \o s) = Len(b \o s) - 2
             /\ Follow(left \o s, done + 1)
<1>. DEFINE left == SubSeq(b, 3, Len(b))
<1>1. /\ left \in Seq(Half) /\ Len(left) = Len(b) - 2
      /\ \A i \in 1 .. Len(b) - 2 : left[i] = b[i + 2]
  <2>1. \A i \in 3 .. Len(b) : b[i] \in Half
    OBVIOUS
  <2>2. /\ left \in Seq(Half)
        /\ Len(left) = IF 3 <= Len(b) THEN Len(b) - 3 + 1 ELSE 0
        /\ \A i \in 1 .. Len(b) - 3 + 1 : left[i] = b[3 + i - 1]
    <3>. HIDE DEF left
    <3>1. QED
      BY <2>1, SubSeqProperties DEF left
  <2>3. QED
    BY <2>2, SMTT(30)
<1>2. /\ Len(b \o s) = Len(b) + Len(s)
      /\ \A i \in 1 .. Len(b) + Len(s) : (b \o s)[i] = IF i =< Len(b) THEN b[i] ELSE s[i - Len(b)]
  BY ConcatProperties
<1>3. /\ Len(left \o s) = Len(left) + Len(s)
      /\ \A i \in 1 .. Len(left) + Len(s) :
           (left \o s)[i] = IF i =< Len(left) THEN left[i] ELSE s[i - Len(left)]
  BY <1>1, ConcatProperties
<1>4. \A i \in 1 .. Len(b) + Len(s) - 2 : (left \o s)[i] = (b \o s)[i + 2]
  BY <1>1, <1>2, <1>3
<1>5. /\ b \o s \in Seq(Half)
      /\ \A i \in 1 .. Len(b \o s) : (b \o s)[i].frame \in Nat
  <2>1. b \o s \in Seq(Half)
    BY ConcatProperties
  <2>2. \A i \in 1 .. Len(b \o s) : (b \o s)[i] \in Half
    BY <2>1
  <2>3. QED
    BY <2>1, <2>2 DEF Half
<1>6. Head(b).frame = done + 1
  <2>1. Head(b) = (b \o s)[1] /\ 1 \in 1 .. Len(b \o s)
    BY <1>2
  <2>2. QED
    BY <1>5, <2>1, SMTT(30) DEF Follow
<1>7. Follow(left \o s, done + 1)
  <2>1. ASSUME NEW i \in 1 .. Len(left \o s)
        PROVE  i \in {2 * ((left \o s)[i].frame - (done + 1)) - 1,
                      2 * ((left \o s)[i].frame - (done + 1))}
    <3>1. i + 2 \in 1 .. Len(b \o s) /\ (left \o s)[i] = (b \o s)[i + 2]
      BY <1>1, <1>2, <1>3, <1>4
    <3>2. i + 2 \in {2 * ((b \o s)[i + 2].frame - done) - 1, 2 * ((b \o s)[i + 2].frame - done)}
      BY <3>1 DEF Follow
    <3>. DEFINE frame == (b \o s)[i + 2].frame
    <3>3. frame \in Nat /\ i \in Nat
      BY <1>3, <1>5, <3>1
    <3>4. i \in {2 * (frame - (done + 1)) - 1, 2 * (frame - (done + 1))}
      <4>. HIDE DEF frame
      <4>1. i + 2 \in {2 * (frame - done) - 1, 2 * (frame - done)}
        BY <3>2 DEF frame
      <4>2. QED
        BY <3>3, <4>1
    <3>5. QED
      BY <3>1, <3>4
  <2>2. QED
    BY <2>1 DEF Follow
<1>8. QED
  BY <1>1, <1>2, <1>3, <1>6, <1>7

\* One half more, of the frame it belongs to.
LEMMA AppendFollows ==
  ASSUME NEW h \in Seq(Half), NEW done \in Nat, NEW x \in Half, Follow(h, done),
         Len(h) + 1 \in {2 * (x.frame - done) - 1, 2 * (x.frame - done)}
  PROVE  Follow(Append(h, x), done)
BY DEF Follow

LEMMA ConcatAppend ==
  ASSUME NEW b \in Seq(Half), NEW s \in Seq(Half), NEW x \in Half
  PROVE  b \o Append(s, x) = Append(b \o s, x)
BY AppendIsConcat, ConcatAssociative, ConcatProperties

LEMMA Flow_Init == StationInit => FlowInv /\ PhaseInv /\ LastInv /\ EndInv /\ HandledInOrder
<1>. SUFFICES ASSUME StationInit PROVE FlowInv /\ PhaseInv /\ LastInv /\ EndInv /\ HandledInOrder
  OBVIOUS
<1>. USE DEF StationInit
<1>1. FlowInv
  <2>1. Coming = << >> /\ Missing = 0 /\ cut = FALSE
    BY DEF Coming, Missing
  <2>2. QED
    BY <2>1 DEF FlowInv, Follow
<1>2. PhaseInv
  BY DEF PhaseInv, Start, End, Endpoint
<1>3. LastInv /\ EndInv /\ HandledInOrder
  BY StationAssumption DEF LastInv, EndInv, HandledInOrder
<1>4. QED
  BY <1>1, <1>2, <1>3

LEMMA Flow_Step ==
  ClientTypes /\ StreamTypes /\ PhaseInv /\ FlowInv /\ [StationNext]_vars => FlowInv'
<1>. SUFFICES ASSUME ClientTypes, StreamTypes, PhaseInv, FlowInv, [StationNext]_vars
              PROVE  FlowInv'
  OBVIOUS
<1>. USE DEF endpointVars, loopVars, outsideVars
<1>1. /\ buffer \in Seq(Half) /\ stream \in Seq(Half) /\ Len(handled) \in Nat
      /\ sent \in Seq(FrameKind) /\ Len(sent) \in Nat /\ cut \in BOOLEAN
      /\ Coming \in Seq(Half) /\ Len(Coming) \in Nat
  <2>1. buffer \o stream \in Seq(Half)
    BY ConcatProperties DEF StreamTypes
  <2>2. QED
    BY <2>1 DEF StreamTypes, Coming
<1>2. ASSUME UNCHANGED <<Coming, sent, handled, cut>>, cut => peer'["control"] \in gone'
      PROVE  FlowInv'
  BY <1>2 DEF FlowInv, Missing
<1>3. CASE OpenControl \/ \E e \in Endpoint : Accept(e)
  <2>1. UNCHANGED <<Coming, sent, handled, cut, gone>>
    BY <1>3 DEF OpenControl, Accept, Coming
  <2>2. cut => peer'["control"] \in gone'
    <3>1. ASSUME cut, at \in {"control", "accept control"} PROVE FALSE
      BY <3>1, StationAssumption DEF PhaseInv, FlowInv, ClientTypes
    <3>2. ASSUME at \notin {"control", "accept control"} PROVE peer'["control"] = peer["control"]
      BY <1>3, <3>2, AcceptNames DEF OpenControl, Accept, ClientTypes, Endpoint
    <3>3. QED
      BY <2>1, <3>1, <3>2 DEF FlowInv
  <2>3. QED
    BY <1>2, <2>1, <2>2
<1>4. ASSUME NEW length \in 1 .. MaxChunk, Read(length) PROVE FlowInv'
  <2>1. length \in 1 .. Len(stream)
    BY <1>1, <1>4, StationAssumption DEF Read
  <2>2. Coming' = Coming
    BY <1>1, <1>4, <2>1, ReadKeeps DEF Read, Coming
  <2>3. QED
    BY <1>2, <1>4, <2>2 DEF Read, FlowInv
<1>5. CASE HandleFrame
  <2>. DEFINE left == SubSeq(buffer, 3, Len(buffer))
  <2>1. /\ Len(buffer) > 1 /\ UNCHANGED <<sent, cut, peer, gone>>
        /\ Coming' = left \o stream /\ handled' = Append(handled, Head(buffer).frame)
    BY <1>5 DEF HandleFrame, Coming
  <2>2. /\ Len(left \o stream) = Len(Coming) - 2
        /\ Follow(left \o stream, Len(handled) + 1)
    BY <1>1, <2>1, TakeFollows DEF Coming, FlowInv
  <2>3. Len(handled') = Len(handled) + 1
    BY <2>1 DEF StreamTypes
  <2>. HIDE DEF left
  <2>4. Len(Coming') = 2 * (Len(sent') - Len(handled')) - Missing'
    BY <1>1, <2>1, <2>2, <2>3 DEF FlowInv, Missing
  <2>5. QED
    BY <2>1, <2>2, <2>3, <2>4 DEF FlowInv
<1>6. ASSUME NEW kind \in FrameKind, SendFrame(kind) PROVE FlowInv'
  <2>. DEFINE n == Len(sent')
              first == Halves(n)[1]
              second == Halves(n)[2]
  <2>1. sent' = Append(sent, kind) /\ n = Len(sent) + 1 /\ Len(sent') = n
        /\ UNCHANGED <<handled, peer, buffer>>
    BY <1>1, <1>6 DEF SendFrame
  <2>2. cut = FALSE
    BY <1>1, <1>6 DEF SendFrame, FlowInv
  <2>3. /\ first \in Half /\ first.frame = n /\ second \in Half /\ second.frame = n
        /\ Halves(n) = <<first, second>>
    BY <1>1, <2>1 DEF Halves, Half
  <2>4. Len(Coming) = 2 * (Len(sent) - Len(handled))
    BY <1>1, <2>2 DEF FlowInv, Missing
  <2>. HIDE DEF n, first, second
  <2>5. Append(Coming, first) \in Seq(Half) /\ Len(Append(Coming, first)) = Len(Coming) + 1
    BY <1>1, <2>3
  <2>6. Follow(Append(Coming, first), Len(handled))
    <3>1. Len(Coming) + 1 = 2 * (first.frame - Len(handled)) - 1
      BY <1>1, <2>1, <2>3, <2>4
    <3>2. QED
      BY <1>1, <2>3, <3>1, AppendFollows DEF FlowInv
  <2>7. CASE stream' = stream \o Halves(n) /\ UNCHANGED <<cut, gone>>
    <3>1. stream' = Append(Append(stream, first), second)
      BY <1>1, <2>3, <2>7
    <3>2. Append(stream, first) \in Seq(Half)
      BY <1>1, <2>3
    <3>3. Coming' = Append(Append(Coming, first), second)
      BY <1>1, <2>1, <2>3, <3>1, <3>2, ConcatAppend, SMTT(30) DEF Coming
    <3>4. Len(Append(Coming, first)) + 1 = 2 * (second.frame - Len(handled))
      BY <1>1, <2>1, <2>3, <2>4, <2>5
    <3>5. Follow(Coming', Len(handled))
      BY <1>1, <2>3, <2>5, <2>6, <3>3, <3>4, AppendFollows
    <3>6. Len(Coming') = 2 * (Len(sent') - Len(handled')) - Missing'
      <4>1. Len(Coming') = Len(Coming) + 2
        BY <1>1, <2>3, <2>5, <3>3
      <4>2. Missing' = 0
        BY <2>2, <2>7 DEF Missing
      <4>3. QED
        BY <1>1, <2>1, <2>4, <4>1, <4>2
    <3>7. QED
      BY <2>1, <2>2, <2>7, <3>5, <3>6 DEF FlowInv
  <2>8. CASE /\ stream' = Append(stream, first) /\ cut' = TRUE
             /\ gone' = gone \cup {peer["control"]}
    <3>1. Coming' = Append(Coming, first)
      BY <1>1, <2>1, <2>3, <2>8, ConcatAppend DEF Coming
    <3>2. Len(Coming') = 2 * (Len(sent') - Len(handled')) - Missing'
      <4>1. Missing' = 1 /\ Len(Coming') = Len(Coming) + 1
        BY <2>5, <2>8, <3>1 DEF Missing
      <4>2. QED
        <5>1. Len(sent') = Len(sent) + 1 /\ Len(handled') = Len(handled)
          BY <2>1
        <5>2. QED
          BY <1>1, <2>4, <4>1, <5>1
    <3>3. QED
      BY <2>1, <2>6, <2>8, <3>1, <3>2 DEF FlowInv
  <2>9. QED
    BY <1>6, <2>7, <2>8 DEF SendFrame, n, first
<1>7. ASSUME NEW c \in Clients, Depart(c) PROVE FlowInv'
  BY <1>2, <1>7 DEF Depart, Coming, FlowInv
<1>8. CASE UNCHANGED <<buffer, stream, sent, handled, cut, peer, gone>>
  BY <1>2, <1>8 DEF Coming, FlowInv
<1>9. QED
  BY <1>3, <1>4, <1>5, <1>6, <1>7, <1>8
     DEF StationNext, Main, Fault, Outside, OpenAudio, AcceptFails, LoadProfile, ReadEnds, ReadFails,
         NeedMore, DecodeFails, BrokenPipe, CloseAudio, ReleaseAudio, CloseControl, Connect,
         OtherBinds, OtherUnlinks, vars

\* The frame the session is given next, and what the session makes of it.
LEMMA NextFrame ==
  ASSUME StreamTypes, FlowInv, HandleFrame
  PROVE  LET n == Len(handled) + 1
         IN  /\ Head(buffer).frame = n /\ n \in DOMAIN sent
             /\ handled' = Append(handled, n) /\ Len(handled') = n
             /\ NextKind = sent[n] /\ sent[n] \notin Malformed /\ sent[n] \in FrameKind
<1>. DEFINE n == Len(handled) + 1
<1>1. /\ buffer \in Seq(Half) /\ stream \in Seq(Half) /\ Len(handled) \in Nat /\ Len(sent) \in Nat
      /\ handled \in Seq(Nat) /\ Len(buffer) \in Nat /\ Len(stream) \in Nat
      /\ Len(Coming) = Len(buffer) + Len(stream)
  BY ConcatProperties DEF StreamTypes, Coming
<1>2. Len(buffer) > 1 /\ ~ Violates /\ handled' = Append(handled, Head(buffer).frame)
  BY DEF HandleFrame
<1>3. Head(buffer).frame = n
  BY <1>1, <1>2, TakeFollows DEF FlowInv, Coming
<1>4. n \in 1 .. Len(sent)
  BY <1>1, <1>2 DEF FlowInv, Missing
<1>5. NextKind = sent[n] /\ sent[n] \in FrameKind
  BY <1>3, <1>4 DEF NextKind, StreamTypes
<1>6. sent[n] \notin Malformed
  <2>1. buffer # << >>
    BY <1>1, <1>2
  <2>2. QED
    BY <1>2, <1>5, <2>1 DEF Violates, Malformed
<1>7. QED
  BY <1>1, <1>2, <1>3, <1>4, <1>5, <1>6 DEF StreamTypes

LEMMA LenOfHandled ==
  ASSUME StreamTypes
  PROVE  /\ Len(buffer) \in Nat /\ Len(handled) \in Nat /\ Len(sent) \in Nat
         /\ handled = << >> <=> Len(handled) = 0
BY DEF StreamTypes

\* What a frame makes of a session.
LEMMA SessionChanges ==
  ASSUME StreamTypes, FlowInv, PhaseInv, HandleFrame
  PROVE  /\ session' \in {"live", "over"} /\ handled' # << >>
         /\ IsLast(Len(handled))' => session' = "over"
<1>1. /\ handled' = Append(handled, Len(handled) + 1) /\ Len(handled') = Len(handled) + 1
      /\ NextKind = sent[Len(handled) + 1] /\ sent' = sent /\ session' = SessionAfter(NextKind)
  BY NextFrame DEF HandleFrame, outsideVars
<1>2. session \in {"greeting", "live", "over"}
  BY DEF StreamTypes
<1>3. Len(handled) = 0 => session = "greeting"
  BY LenOfHandled DEF PhaseInv
<1>4. session' \in {"live", "over"}
  BY <1>1, <1>2 DEF SessionAfter
<1>5. handled' # << >>
  <2>1. Len(handled') # 0 /\ Len(<< >>) = 0
    BY <1>1, LenOfHandled
  <2>2. QED
    BY <2>1
<1>6. ASSUME NextKind = "bye" PROVE session' = "over"
  BY <1>1, <1>6 DEF SessionAfter
<1>7. ASSUME Len(handled) = 0, NextKind # "hello" PROVE session' = "over"
  BY <1>1, <1>3, <1>7 DEF SessionAfter
<1>8. IsLast(Len(handled))' => NextKind = "bye" \/ (Len(handled) = 0 /\ NextKind # "hello")
  BY <1>1, LenOfHandled DEF IsLast
<1>9. QED
  BY <1>4, <1>5, <1>6, <1>7, <1>8

LEMMA Phase_Step ==
  ClientTypes /\ StreamTypes /\ FlowInv /\ PhaseInv /\ [StationNext]_vars => PhaseInv'
<1>. SUFFICES ASSUME ClientTypes, StreamTypes, FlowInv, PhaseInv, [StationNext]_vars
              PROVE  PhaseInv'
  OBVIOUS
<1>. USE DEF endpointVars, loopVars, outsideVars
<1>1. CASE OpenControl
  BY <1>1, AcceptNames DEF OpenControl, Prepare, Leave, PhaseInv, Start, End
<1>2. CASE OpenAudio
  BY <1>2, AcceptNames DEF OpenAudio, Prepare, Leave, PhaseInv, Start, End
<1>3. ASSUME NEW e \in Endpoint, Accept(e) PROVE PhaseInv'
  BY <1>3, AcceptNames DEF Accept, Endpoint, PhaseInv, Start, End
<1>4. CASE LoadProfile
  <2>1. buffer = << >> /\ Len(buffer) = 0
    BY <1>4 DEF LoadProfile, PhaseInv, Start
  <2>2. QED
    <3>1. /\ at' \in {"read", "closing"} /\ UNCHANGED <<buffer, handled, session>>
          /\ at' # "closing" => code' = code
      BY <1>4 DEF LoadProfile, Leave
    <3>2. code = None /\ session # "over"
      BY <1>4 DEF LoadProfile, PhaseInv, End
    <3>3. Len(buffer') < 2
      BY <2>1, <3>1
    <3>4. QED
      BY <3>1, <3>2, <3>3 DEF PhaseInv, Start, End
<1>5. CASE NeedMore
  BY <1>5 DEF NeedMore, PhaseInv, Start, End
<1>6. CASE ReadEnds \/ ReadFails \/ DecodeFails \/ BrokenPipe
  BY <1>6 DEF ReadEnds, ReadFails, DecodeFails, BrokenPipe, Leave, PhaseInv, Start, End
<1>7. ASSUME NEW e \in Endpoint, AcceptFails(e) PROVE PhaseInv'
  BY <1>7 DEF AcceptFails, Leave, PhaseInv, Start, End
<1>8. ASSUME NEW length \in 1 .. MaxChunk, Read(length) PROVE PhaseInv'
  BY <1>8 DEF Read, PhaseInv, Start, End
<1>9. CASE HandleFrame
  <2>1. session' \in {"live", "over"} /\ handled' # << >>
    BY <1>9, SessionChanges
  <2>2. /\ at = "decode" /\ peer' = peer
        /\ IF session' = "over" THEN at' = "closing" /\ code' = 0 ELSE UNCHANGED <<at, code>>
    BY <1>9 DEF HandleFrame, Leave
  <2>3. QED
    BY <2>1, <2>2 DEF PhaseInv, Start, End
<1>10. CASE CloseAudio \/ ReleaseAudio \/ CloseControl
  BY <1>10 DEF CloseAudio, ReleaseAudio, CloseControl, PhaseInv, Start, End
<1>11. CASE UNCHANGED <<at, code, peer, buffer, session, handled>>
  BY <1>11 DEF PhaseInv
<1>12. QED
  BY <1>1, <1>2, <1>3, <1>4, <1>5, <1>6, <1>7, <1>8, <1>9, <1>10, <1>11
     DEF StationNext, Main, Fault, Outside, Connect, SendFrame, Depart, OtherBinds, OtherUnlinks, vars

LEMMA Last_Step ==
  StreamTypes /\ FlowInv /\ PhaseInv /\ LastInv /\ [StationNext]_vars => LastInv'
<1>. SUFFICES ASSUME StreamTypes, FlowInv, PhaseInv, LastInv, [StationNext]_vars PROVE LastInv'
  OBVIOUS
<1>. USE DEF endpointVars, loopVars, outsideVars
<1>1. CASE HandleFrame
  BY <1>1, SessionChanges DEF LastInv
<1>2. ASSUME NEW kind \in FrameKind, SendFrame(kind) PROVE LastInv'
  <2>1. sent' = Append(sent, kind) /\ UNCHANGED <<session, handled>>
    BY <1>2 DEF SendFrame
  <2>2. Len(Coming) \in Nat
    BY ConcatProperties DEF StreamTypes, Coming
  <2>3. Len(handled) =< Len(sent)
    BY <2>2, LenOfHandled DEF FlowInv, Missing
  <2>4. handled # << >> => sent'[Len(handled)] = sent[Len(handled)]
    BY <2>1, <2>3, LenOfHandled DEF StreamTypes
  <2>5. QED
    BY <2>1, <2>4 DEF LastInv, IsLast
<1>3. CASE UNCHANGED <<handled, sent, session>>
  BY <1>3 DEF LastInv, IsLast
<1>4. QED
  BY <1>1, <1>2, <1>3
     DEF StationNext, Main, Fault, Outside, OpenControl, OpenAudio, Accept, AcceptFails, LoadProfile,
         Read, ReadEnds, ReadFails, NeedMore, DecodeFails, BrokenPipe, CloseAudio, ReleaseAudio,
         CloseControl, Connect, Depart, OtherBinds, OtherUnlinks, vars

LEMMA End_Step ==
  StreamTypes /\ FlowInv /\ PhaseInv /\ EndInv /\ [StationNext]_vars => EndInv'
<1>. SUFFICES ASSUME StreamTypes, FlowInv, PhaseInv, EndInv, [StationNext]_vars PROVE EndInv'
  OBVIOUS
<1>. USE DEF endpointVars, loopVars, outsideVars
<1>1. ASSUME code' # 0 PROVE EndInv'
  BY <1>1 DEF EndInv
<1>2. ASSUME code' = code, at \notin End PROVE EndInv'
  BY <1>1, <1>2, NoneIsNoCode DEF PhaseInv
<1>3. ASSUME Leave(1) \/ Leave(2) PROVE EndInv'
  BY <1>1, <1>3 DEF Leave
<1>4. CASE OpenControl \/ OpenAudio
  <2>1. at \notin End /\ (code' = code \/ Leave(2))
    BY <1>4 DEF OpenControl, OpenAudio, Prepare, End
  <2>2. QED
    BY <1>2, <1>3, <2>1
<1>5. ASSUME NEW e \in Endpoint, Accept(e) \/ AcceptFails(e) PROVE EndInv'
  <2>1. at \notin End /\ (code' = code \/ Leave(2))
    BY <1>5, AcceptNames DEF Accept, AcceptFails, End, Endpoint
  <2>2. QED
    BY <1>2, <1>3, <2>1
<1>6. CASE LoadProfile \/ NeedMore \/ DecodeFails \/ ReadFails \/ BrokenPipe
  <2>1. at \notin End /\ (code' = code \/ Leave(2) \/ Leave(1))
    BY <1>6 DEF LoadProfile, NeedMore, DecodeFails, ReadFails, BrokenPipe, End
  <2>2. QED
    BY <1>2, <1>3, <2>1
<1>7. ASSUME NEW length \in 1 .. MaxChunk, Read(length) PROVE EndInv'
  BY <1>2, <1>7 DEF Read, End
<1>8. CASE ReadEnds
  <2>1. /\ Len(buffer) < 2 /\ stream = << >> /\ peer["control"] \in gone
        /\ UNCHANGED <<peer, gone, sent, handled, cut>>
    BY <1>8 DEF ReadEnds, PhaseInv
  <2>2. Len(Coming) = Len(buffer)
    BY <2>1, ConcatProperties DEF StreamTypes, Coming
  <2>3. cut \in BOOLEAN
    BY DEF StreamTypes
  <2>4. Len(sent) - Len(handled) = Missing
    BY <2>1, <2>2, <2>3, LenOfHandled DEF FlowInv, Missing
  <2>5. QED
    BY <2>1, <2>4 DEF EndInv, Missing
<1>9. CASE HandleFrame
  <2>1. session' = "over" \/ (at = "decode" /\ code' = code)
    BY <1>9 DEF HandleFrame
  <2>2. QED
    BY <1>2, <2>1 DEF EndInv, End
<1>10. ASSUME NEW kind \in FrameKind, SendFrame(kind) PROVE EndInv'
  BY <1>10 DEF SendFrame, EndInv
<1>11. ASSUME NEW c \in Clients, Depart(c) PROVE EndInv'
  BY <1>11 DEF Depart, EndInv, Missing
<1>12. CASE UNCHANGED <<code, session, peer, gone, sent, handled, cut>>
  BY <1>12 DEF EndInv, Missing
<1>13. QED
  BY <1>4, <1>5, <1>6, <1>7, <1>8, <1>9, <1>10, <1>11, <1>12
     DEF StationNext, Main, Fault, Outside, CloseAudio, ReleaseAudio, CloseControl, Connect,
         OtherBinds, OtherUnlinks, vars

LEMMA Order_Step ==
  StreamTypes /\ FlowInv /\ PhaseInv /\ LastInv /\ HandledInOrder /\ [StationNext]_vars => HandledInOrder'
<1>. SUFFICES ASSUME StreamTypes, FlowInv, PhaseInv, LastInv, HandledInOrder, [StationNext]_vars
              PROVE  HandledInOrder'
  OBVIOUS
<1>. USE DEF endpointVars, loopVars, outsideVars
<1>1. /\ handled \in Seq(Nat) /\ Len(handled) \in Nat /\ sent \in Seq(FrameKind) /\ Len(sent) \in Nat
      /\ Len(Coming) \in Nat /\ cut \in BOOLEAN
  BY ConcatProperties DEF StreamTypes, Coming
<1>2. CASE HandleFrame
  <2>. DEFINE n == Len(handled) + 1
  <2>1. /\ handled' = Append(handled, n) /\ Len(handled') = n
        /\ sent[n] \notin Malformed /\ sent' = sent
    BY <1>2, NextFrame DEF HandleFrame
  <2>2. handled # << >> => ~ IsLast(Len(handled))
    BY <1>2 DEF PhaseInv, LastInv, HandleFrame, End
  <2>3. ASSUME NEW i \in DOMAIN handled'
        PROVE  handled'[i] = i /\ sent[i] \notin Malformed /\ (i < n => ~ IsLast(i))
    <3>1. i \in 1 .. n
      BY <1>1, <2>1
    <3>2. CASE i = n
      BY <1>1, <2>1, <3>2
    <3>3. CASE i \in 1 .. Len(handled)
      <4>1. i \in DOMAIN handled /\ handled'[i] = handled[i]
        BY <1>1, <2>1, <3>3
      <4>2. i < Len(handled) => ~ IsLast(i)
        BY <4>1 DEF HandledInOrder
      <4>3. ~ IsLast(i)
        BY <1>1, <2>2, <3>3, <4>2
      <4>4. QED
        BY <4>1, <4>3 DEF HandledInOrder
    <3>4. QED
      BY <1>1, <3>1, <3>2, <3>3
  <2>. HIDE DEF n
  <2>4. QED
    BY <2>1, <2>3 DEF HandledInOrder, IsLast
<1>3. ASSUME NEW kind \in FrameKind, SendFrame(kind) PROVE HandledInOrder'
  <2>1. sent' = Append(sent, kind) /\ handled' = handled
    BY <1>3 DEF SendFrame
  <2>2. \A i \in DOMAIN handled : sent'[i] = sent[i]
    BY <1>1, <2>1 DEF FlowInv, Missing
  <2>3. QED
    BY <2>1, <2>2 DEF HandledInOrder, IsLast
<1>4. CASE UNCHANGED <<handled, sent>>
  BY <1>4 DEF HandledInOrder, IsLast
<1>5. QED
  BY <1>2, <1>3, <1>4
     DEF StationNext, Main, Fault, Outside, OpenControl, OpenAudio, Accept, AcceptFails, LoadProfile,
         Read, ReadEnds, ReadFails, NeedMore, DecodeFails, BrokenPipe, CloseAudio, ReleaseAudio,
         CloseControl, Connect, Depart, OtherBinds, OtherUnlinks, vars

-----------------------------------------------------------------------------
(* The theorems. *)

StationIInv ==
  /\ ProcessTypes /\ ClientTypes /\ StreamTypes /\ ListenersInv /\ FilesInv
  /\ FlowInv /\ PhaseInv /\ LastInv /\ EndInv /\ HandledInOrder

LEMMA StationIInvHolds == StationSpec => []StationIInv
<1>1. StationInit => StationIInv
  BY Types_Init, Endpoints_Init, Flow_Init DEF StationIInv
<1>2. StationIInv /\ [StationNext]_vars => StationIInv'
  BY Process_Step, Clients_Step, Stream_Step, Listeners_Step, Files_Step, Flow_Step, Phase_Step,
     Last_Step, End_Step, Order_Step DEF StationIInv
<1>3. QED
  BY <1>1, <1>2, PTL DEF StationSpec

\* Type correctness, and that nobody waits for a turn while the station serves.
THEOREM StationInvHolds == StationSpec => []StationInv
<1>1. StationIInv => StationInv
  <2>. SUFFICES ASSUME StationIInv PROVE StationInv
    OBVIOUS
  <2>1. at \in Serving => \A e \in Endpoint : queued[e] = << >>
    BY DEF StationIInv, ListenersInv, AcceptAt, Endpoint, Serving
  <2>2. QED
    BY <2>1 DEF StationIInv, StationInv, ProcessTypes, ClientTypes, StreamTypes, Serving
<1>2. QED
  BY <1>1, StationIInvHolds, PTL

\* Frames are handled in order, each once, none at a violation or behind the last.
THEOREM FramesInOrder == StationSpec => []HandledInOrder
<1>1. StationIInv => HandledInOrder
  BY DEF StationIInv
<1>2. QED
  BY <1>1, StationIInvHolds, PTL

\* A station that ends with 0 has handled every whole frame, up to the last.
THEOREM CleanEndComplete == StationSpec => []CleanEndIsComplete
<1>1. StationIInv => CleanEndIsComplete
  BY LenOfHandled DEF StationIInv, EndInv, Missing, CleanEndIsComplete, StreamTypes
<1>2. QED
  BY <1>1, StationIInvHolds, PTL

\* The station removes and takes over no file but its own.
THEOREM ForeignFilesKept == StationSpec => NeverClobbers
<1>. DEFINE Kept == \A p \in Paths : files[p] = "other" => files'[p] = "other" \/ OtherUnlinks(p)
<1>1. StationIInv /\ [StationNext]_vars => [Kept]_vars
  <2>. SUFFICES ASSUME ProcessTypes, FilesInv, StationNext PROVE Kept
    BY DEF StationIInv
  <2>. USE DEF ProcessTypes
  <2>1. CASE UNCHANGED files
    BY <2>1
  <2>2. ASSUME NEW e \in Endpoint, Prepare(e) PROVE Kept
    BY <2>2 DEF Prepare
  <2>3. ASSUME NEW e \in Endpoint, Unlink(e), files[path[e]] = "station" \/ e \notin made PROVE Kept
    BY <2>3 DEF Unlink
  <2>4. CASE OpenControl \/ OpenAudio
    BY <2>1, <2>2, <2>4 DEF OpenControl, OpenAudio, Endpoint
  <2>5. CASE CloseAudio \/ CloseControl
    BY <2>3, <2>5 DEF CloseAudio, CloseControl, FilesInv, Endpoint
  <2>6. ASSUME NEW p \in Paths, OtherBinds(p) \/ OtherUnlinks(p) PROVE Kept
    BY <2>6 DEF OtherBinds, OtherUnlinks
  <2>7. QED
    BY <2>1, <2>4, <2>5, <2>6
       DEF StationNext, Main, Fault, Outside, Accept, AcceptFails, LoadProfile, Read, ReadEnds,
           ReadFails, NeedMore, DecodeFails, HandleFrame, BrokenPipe, ReleaseAudio, Connect,
           SendFrame, Depart
<1>2. QED
  BY <1>1, StationIInvHolds, PTL DEF StationSpec, NeverClobbers

=============================================================================
