---------------------------- MODULE RelayClient ----------------------------
(***************************************************************************)
(* The host's side of a session: class Relay of client.dart over the frame *)
(* decoder of frame.dart, a transport that delivers bytes in chunks of any *)
(* length, and a station that answers every request it reads once, in      *)
(* order (Session.tla), as late as it likes.                               *)
(*                                                                         *)
(* All of Relay runs on one isolate, so a step is one turn of its event    *)
(* loop: a call of _request up to its await, a chunk, the end of the       *)
(* stream, a timer.  The protocol has no request identifiers; requests are *)
(* numbered here so that the model can tell whose reply a caller is given. *)
(***************************************************************************)
EXTENDS Naturals, Sequences, FiniteSets

CONSTANTS
  MaxRequests,     \* bound of the model: requests over a session
  MaxOutstanding,  \* how many calls the host has in progress at once
  MaxChunk,        \* bound of the model: parts of frames in one chunk
  Kinds,           \* the kinds of requests the host makes
  Garbage          \* malformed frames the peer may send: "type", "text"

Request == 1 .. MaxRequests

\* Requests that check the type of their reply, and those that take any reply but
\* ERROR for success; "bye" ends the session.
Checked == {"hello", "caps", "open", "diag"}
Unchecked == {"post", "set", "close", "bye"}

ASSUME ClientAssumption ==
  /\ MaxRequests \in Nat /\ MaxOutstanding \in Nat /\ MaxChunk \in Nat
  /\ Kinds \subseteq Checked \cup Unchecked
  /\ Garbage \subseteq {"type", "text"}

VARIABLES
  asked,        \* the kinds of the requests made, in order
  outcome,      \* how each of them stands
  answer,       \* history: whose reply each was given; 0: none
  handedOut,    \* history: whose replies were given out, in order
  waiter,       \* the request of _waiter, or 0
  queued,       \* _queued
  failure,      \* _failure, or "none"
  buffer,       \* _buffer of the decoder, in halves of frames
  disposed,     \* the subscription is cancelled and the transport closed
  ended,        \* the incoming stream has reported its end
  toStation, fromStation,   \* requests, and halves of frames, on the way
  station       \* "serving" or "gone"

callVars == <<asked, outcome, answer, handedOut>>
wireVars == <<toStation, fromStation, station>>
clientVars == <<callVars, waiter, queued, failure, buffer, disposed, ended>>
relayVars == <<clientVars, wireVars>>

ClientInit ==
  /\ asked = << >> /\ outcome = << >> /\ answer = << >> /\ handedOut = << >>
  /\ waiter = 0 /\ queued = << >> /\ failure = "none" /\ buffer = << >>
  /\ disposed = FALSE /\ ended = FALSE
  /\ toStation = << >> /\ fromStation = << >> /\ station = "serving"

Outstanding == {n \in DOMAIN outcome : outcome[n] = "waiting"}

-----------------------------------------------------------------------------
(* Frames: [re, kind], cut in two halves that chunks need not keep together   *)
(* and the decoder tells apart by their place: a frame starts where the last  *)
(* one ends.                                                                  *)

Frame(re, kind) == [re |-> re, kind |-> kind]
Halves(frame) == <<frame, frame>>
Malformed(frame) == frame.kind \in {"type", "text"}

\* The frames that are complete in a run of halves, and what follows them.
Complete(halves) == [i \in 1 .. Len(halves) \div 2 |-> halves[2 * i]]
Rest(halves) == SubSeq(halves, 2 * (Len(halves) \div 2) + 1, Len(halves))

\* How a request of some kind ends that is given a frame (_request and its
\* callers).
OutcomeOf(kind, frame) ==
  IF frame.kind = "error" \/ (kind \in Checked /\ frame.kind # kind)
  THEN "raised" ELSE "returned"

-----------------------------------------------------------------------------
(* Relay. *)

\* Mutant: a reply that is already there is taken before the failure is looked at.
AskQueueFirst(kind) ==
  LET n == Len(asked) + 1
  IN  /\ asked' = Append(asked, kind)
      /\ \/ /\ queued # << >>
            /\ queued' = Tail(queued)
            /\ outcome' = Append(outcome, OutcomeOf(kind, Head(queued)))
            /\ answer' = Append(answer, Head(queued).re)
            /\ handedOut' = Append(handedOut, Head(queued).re)
            /\ UNCHANGED <<waiter, toStation>>
         \/ /\ queued = << >>
            /\ waiter' = IF failure = "none" THEN n ELSE waiter
            /\ toStation' = IF failure = "none" /\ ~ disposed THEN Append(toStation, n) ELSE toStation
            /\ outcome' = Append(outcome, IF failure = "none" THEN "waiting" ELSE "refused")
            /\ answer' = Append(answer, 0)
            /\ UNCHANGED <<queued, handedOut>>
      /\ UNCHANGED <<failure, buffer, disposed, ended, fromStation, station>>

\* _request: refused at once on a failed channel; otherwise sent, which does
\* nothing on a closed transport, and given the oldest reply that is already
\* there, or registered to wait, in place of any request that was.
Ask(kind) ==
  LET n == Len(asked) + 1
  IN  /\ asked' = Append(asked, kind)
      /\ \/ /\ failure # "none"
            /\ outcome' = Append(outcome, "refused")
            /\ answer' = Append(answer, 0)
            /\ UNCHANGED <<waiter, queued, handedOut, toStation>>
         \/ /\ failure = "none"
            /\ toStation' = IF disposed THEN toStation ELSE Append(toStation, n)
            /\ \/ /\ queued # << >>
                  /\ queued' = Tail(queued)
                  /\ outcome' = Append(outcome, OutcomeOf(kind, Head(queued)))
                  /\ answer' = Append(answer, Head(queued).re)
                  /\ handedOut' = Append(handedOut, Head(queued).re)
                  /\ UNCHANGED waiter
               \/ /\ queued = << >>
                  /\ waiter' = n
                  /\ outcome' = Append(outcome, "waiting")
                  /\ answer' = Append(answer, 0)
                  /\ UNCHANGED <<queued, handedOut>>
      /\ UNCHANGED <<failure, buffer, disposed, ended, fromStation, station>>

\* _fail: only the first failure counts, and it ends the wait in progress.
Fail(error) ==
  \/ failure # "none" /\ UNCHANGED <<failure, waiter, outcome>>
  \/ /\ failure = "none"
     /\ failure' = error
     /\ waiter' = 0
     /\ outcome' = IF waiter = 0 THEN outcome ELSE [outcome EXCEPT ![waiter] = "failed"]

\* The frames of a chunk: the first ends the wait in progress, the others queue.
Distribute(frames) ==
  \/ /\ waiter # 0 /\ frames # << >>
     /\ waiter' = 0
     /\ outcome' = [outcome EXCEPT ![waiter] = OutcomeOf(asked[waiter], Head(frames))]
     /\ answer' = [answer EXCEPT ![waiter] = Head(frames).re]
     /\ handedOut' = Append(handedOut, Head(frames).re)
     /\ queued' = queued \o Tail(frames)
  \/ /\ waiter = 0 \/ frames = << >>
     /\ queued' = queued \o frames
     /\ UNCHANGED <<waiter, outcome, answer, handedOut>>

\* Mutant: what was decoded stays in the buffer as well.
DecodeKeeping(halves) ==
  LET frames == Complete(halves)
      bad == {i \in DOMAIN frames : Malformed(frames[i])}
  IN  [frames |-> IF bad = {} THEN frames ELSE << >>,
       left |-> halves,
       thrown |-> IF bad = {} THEN "none"
                  ELSE frames[CHOOSE i \in bad : \A j \in bad : i =< j].kind]

\* FrameDecoder.add.  A malformed frame is thrown, which loses the complete
\* frames before it and leaves all of the buffer in place, so that every later
\* call throws again.
Decode(halves) ==
  LET frames == Complete(halves)
      bad == {i \in DOMAIN frames : Malformed(frames[i])}
  IN  [frames |-> IF bad = {} THEN frames ELSE << >>,
       left |-> IF bad = {} THEN Rest(halves) ELSE halves,
       thrown |-> IF bad = {} THEN "none"
                  ELSE frames[CHOOSE i \in bad : \A j \in bad : i =< j].kind]

\* _onBytes.  It catches a ProtocolViolation, which an unknown type or bad JSON
\* is; text that is not UTF-8 is thrown as a FormatException and goes past it
\* to the zone, which is taken to survive.
Bytes(length) ==
  LET decoded == Decode(buffer \o SubSeq(fromStation, 1, length))
  IN  /\ ~ disposed
      /\ length =< Len(fromStation)
      /\ fromStation' = SubSeq(fromStation, length + 1, Len(fromStation))
      /\ buffer' = decoded.left
      /\ \/ decoded.thrown = "none" /\ Distribute(decoded.frames) /\ UNCHANGED failure
         \/ /\ decoded.thrown = "type"
            /\ Fail("violation")
            /\ UNCHANGED <<answer, handedOut, queued>>
         \/ /\ decoded.thrown = "text"
            /\ UNCHANGED <<failure, outcome, answer, handedOut, waiter, queued>>
      /\ UNCHANGED <<asked, disposed, ended, toStation, station>>

\* onDone or onError: the stream's last event, after everything the station
\* had written.
StreamEnds ==
  /\ ~ disposed /\ ~ ended
  /\ station = "gone" /\ fromStation = << >>
  /\ ended' = TRUE
  /\ Fail("closed")
  /\ UNCHANGED <<asked, answer, handedOut, queued, buffer, disposed, wireVars>>

\* Mutant: the timer of a request that is no longer _waiter is ignored.
TimeoutOfWaiter(n) ==
  /\ n \in Outstanding
  /\ waiter = n
  /\ outcome' = [outcome EXCEPT ![n] = "timedOut"]
  /\ waiter' = 0
  /\ UNCHANGED <<asked, answer, handedOut, queued, failure, buffer, disposed, ended, wireVars>>

\* Mutant: the timed-out request stays registered as _waiter.
TimeoutKeepsWaiter(n) ==
  /\ n \in Outstanding
  /\ outcome' = [outcome EXCEPT ![n] = "timedOut"]
  /\ UNCHANGED <<waiter, asked, answer, handedOut, queued, failure, buffer, disposed, ended,
                 wireVars>>

\* The timer of a request goes off, whether or not it is still _waiter.
Timeout(n) ==
  /\ n \in Outstanding
  /\ outcome' = [outcome EXCEPT ![n] = "timedOut"]
  /\ waiter' = IF waiter = n THEN 0 ELSE waiter
  /\ UNCHANGED <<asked, answer, handedOut, queued, failure, buffer, disposed, ended, wireVars>>

\* A shutdown has begun; its BYE has ended, one way or another.
SaidBye == \E n \in DOMAIN asked : asked[n] = "bye"
ByeOver == \E n \in DOMAIN asked : asked[n] = "bye" /\ n \notin Outstanding

\* Mutant: shutdown lets go of the transport only when BYE was answered.
DisposeAnswered ==
  /\ ~ disposed
  /\ \E n \in DOMAIN asked : asked[n] = "bye" /\ outcome[n] = "returned"
  /\ disposed' = TRUE
  /\ UNCHANGED <<callVars, waiter, queued, failure, buffer, ended, wireVars>>

\* dispose, which shutdown calls when its BYE has ended, however it ended.  The
\* stream reports nothing any more, so a request that waits is left to its timer.
Dispose ==
  /\ ~ disposed
  /\ ByeOver
  /\ disposed' = TRUE
  /\ UNCHANGED <<callVars, waiter, queued, failure, buffer, ended, wireVars>>

\* A host that drops the connection without a farewell.
DisposeAbruptly ==
  /\ ~ disposed
  /\ disposed' = TRUE
  /\ UNCHANGED <<callVars, waiter, queued, failure, buffer, ended, wireVars>>

-----------------------------------------------------------------------------
(* The station. *)

\* Session::handle answers every request once: BYE with BYE and the end of the
\* session, any other with its reply, or with ERROR, which may be fatal.
Serve ==
  /\ station = "serving" /\ toStation # << >>
  /\ LET n == Head(toStation)
     IN  \/ /\ fromStation' = fromStation \o Halves(Frame(n, asked[n]))
            /\ station' = IF asked[n] = "bye" THEN "gone" ELSE station
         \/ /\ asked[n] # "bye"
            /\ fromStation' = fromStation \o Halves(Frame(n, "error"))
            /\ station' \in {station, "gone"}
  /\ toStation' = Tail(toStation)
  /\ UNCHANGED clientVars

\* A peer that is not a station, or bytes damaged on the way.
Garble(kind) ==
  /\ station = "serving"
  /\ \A i \in DOMAIN fromStation : ~ Malformed(fromStation[i])
  /\ \A i \in DOMAIN buffer : ~ Malformed(buffer[i])
  /\ fromStation' = fromStation \o Halves(Frame(0, kind))
  /\ UNCHANGED <<clientVars, toStation, station>>

StationLeaves ==
  /\ station = "serving"
  /\ station' = "gone"
  /\ UNCHANGED <<clientVars, toStation, fromStation>>

-----------------------------------------------------------------------------

ClientNext ==
  \/ \E kind \in Kinds :
       Len(asked) < MaxRequests /\ Cardinality(Outstanding) < MaxOutstanding /\ Ask(kind)
  \/ \E length \in 1 .. MaxChunk : Bytes(length)
  \/ StreamEnds
  \/ \E n \in Request : Timeout(n)
  \/ Dispose \/ DisposeAbruptly
  \/ Serve \/ StationLeaves
  \/ \E kind \in Garbage : Garble(kind)

\* A timer that is due fires, and shutdown's code after its await runs.  The
\* station and the transport owe nothing.
ClientFairness ==
  /\ \A n \in Request : WF_relayVars(Timeout(n))
  /\ WF_relayVars(Dispose)

ClientSpec == ClientInit /\ [][ClientNext]_relayVars /\ ClientFairness

-----------------------------------------------------------------------------
(* Properties that hold. *)

\* The type invariant; a reply never lies in the queue while the newest request,
\* which should have it, waits for one (client.dart:129); a channel that has
\* failed leaves nobody registered to wait on it (client.dart:144).
ClientInv ==
  /\ asked \in Seq(Kinds)
  /\ Len(outcome) = Len(asked) /\ Len(answer) = Len(asked)
  /\ \A n \in DOMAIN outcome :
       outcome[n] \in {"waiting", "returned", "raised", "failed", "refused", "timedOut"}
  /\ waiter \in {0} \cup Outstanding
  /\ failure \in {"none", "violation", "closed"}
  /\ disposed \in BOOLEAN /\ ended \in BOOLEAN /\ station \in {"serving", "gone"}
  /\ queued # << >> => waiter = 0
  /\ failure # "none" => waiter = 0

\* frame.dart:110: however the bytes are cut into chunks, replies are given out
\* in the order they were sent, and none of them twice.
RepliesOnceInOrder ==
  \A i, j \in DOMAIN handedOut : i < j => handedOut[i] < handedOut[j]

\* As long as no request has timed out or been replaced as _waiter, no caller is
\* given the reply to another's request (client.dart:3).
PairedUntilTimeout ==
  (/\ \A n \in DOMAIN outcome : outcome[n] # "timedOut"
   /\ Outstanding \subseteq {waiter}) =>
    \A n \in DOMAIN answer : answer[n] \in {0, n}

\* frame.dart:123: after a violation the decoder's state is meaningless, so
\* nothing it might still produce reaches a caller.
NothingAfterFailure == [][failure # "none" => handedOut' = handedOut /\ failure' = failure]_relayVars

\* Every call ends, also one that was replaced as _waiter, and one that was
\* waiting when the transport was closed.
CallsEnd == \A n \in Request : (n \in Outstanding) ~> (n \notin Outstanding)

\* client.dart:340: a host that shuts down gets its transport closed, also if
\* the station never answers.
ShutdownEnds == SaidBye ~> disposed

-----------------------------------------------------------------------------
(* Statements of the docs that the code does not keep. *)

\* client.dart:3: the protocol is paired; a caller is given its own reply.
RepliesPaired == \A n \in DOMAIN answer : outcome[n] = "returned" => answer[n] = n

=============================================================================
