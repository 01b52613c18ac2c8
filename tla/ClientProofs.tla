----------------------------- MODULE ClientProofs -----------------------------
(***************************************************************************)
(* Theorems about the client, first with any station and then with the     *)
(* session in the station's place.                                         *)
(*                                                                         *)
(* With any station: for any number of requests, any number of them        *)
(* outstanding and any bytes that come in, nobody is left registered to    *)
(* wait on a channel that has failed or beside a reply that is there, and  *)
(* a channel that has failed gives nothing out any more.  For these,       *)
(* nothing is needed of what a chunk holds.  Then, that replies are given  *)
(* out once, in order, and to whom they are for as long as nobody gave up  *)
(* waiting.  There all that is on its way from the station's input to the  *)
(* callers is put in one line, and every step either takes from its front, *)
(* adds to its end, or moves something in it from one buffer to the next   *)
(* without changing the line.                                              *)
(*                                                                         *)
(* With the session: each does to the other only what the other's module   *)
(* allows, so that every theorem about either of them holds of the two     *)
(* together, and the handles that open calls return are real ones, whoever *)
(* has stopped waiting for what.  The three facts need each other.  The    *)
(* station gives every request one reply of its type; so the numbers in    *)
(* the line say whose reply a call is given; so the handle it carries is   *)
(* one the station has opened; so what the host asks for next is a request *)
(* the session knows.                                                      *)
(***************************************************************************)
EXTENDS HostStation, SessionProofs

Outcomes == {"waiting", "returned", "raised", "failed", "refused", "timedOut"}
IsSeq(s) == \E S : s \in Seq(S)

\* One entry of outcome and of answer for each request.
ClientTypes ==
  /\ asked \in Seq(Kinds)
  /\ outcome \in Seq(Outcomes) /\ Len(outcome) = Len(asked)
  /\ IsSeq(answer) /\ Len(answer) = Len(asked)
  /\ failure \in {"none", "violation", "closed"}
  /\ disposed \in BOOLEAN /\ ended \in BOOLEAN /\ station \in {"serving", "gone"}

\* Who is registered is waiting, for a reply that is not there yet.
WaiterInv ==
  /\ waiter \in {0} \cup Outstanding
  /\ queued # << >> => waiter = 0
  /\ failure # "none" => waiter = 0

LEMMA AppendTo ==
  ASSUME NEW s, IsSeq(s), NEW x
  PROVE  IsSeq(Append(s, x)) /\ Len(Append(s, x)) = Len(s) + 1
<1>1. PICK S : s \in Seq(S)
  BY DEF IsSeq
<1>2. s \in Seq(S \cup {x}) /\ x \in S \cup {x}
  BY <1>1
<1>3. Append(s, x) \in Seq(S \cup {x}) /\ Len(Append(s, x)) = Len(s) + 1
  BY <1>2
<1>4. QED
  BY <1>3 DEF IsSeq

LEMMA ReplaceIn ==
  ASSUME NEW s, IsSeq(s), NEW i \in 1 .. Len(s), NEW x
  PROVE  IsSeq([s EXCEPT ![i] = x]) /\ Len([s EXCEPT ![i] = x]) = Len(s)
<1>1. PICK S : s \in Seq(S)
  BY DEF IsSeq
<1>2. s \in Seq(S \cup {x}) /\ x \in S \cup {x}
  BY <1>1
<1>3. [s EXCEPT ![i] = x] \in Seq(S \cup {x}) /\ Len([s EXCEPT ![i] = x]) = Len(s)
  BY <1>2
<1>4. QED
  BY <1>3 DEF IsSeq

LEMMA OutcomeOfReply == \A kind, frame : OutcomeOf(kind, frame) \in {"raised", "returned"}
BY DEF OutcomeOf

LEMMA Client_Init == ClientInit => ClientTypes /\ WaiterInv
<1>. SUFFICES ASSUME ClientInit PROVE ClientTypes /\ WaiterInv
  OBVIOUS
<1>1. << >> \in Seq(Kinds) /\ << >> \in Seq(Outcomes)
  OBVIOUS
<1>2. ClientTypes
  BY <1>1 DEF ClientInit, ClientTypes, IsSeq
<1>3. WaiterInv
  BY DEF ClientInit, WaiterInv
<1>4. QED
  BY <1>2, <1>3

LEMMA AskKeeps ==
  ASSUME ClientTypes, WaiterInv, NEW kind \in Kinds, Ask(kind)
  PROVE  ClientTypes' /\ WaiterInv'
<1>. DEFINE n == Len(asked) + 1
<1>1. /\ asked' \in Seq(Kinds) /\ Len(asked') = n /\ Len(asked) \in Nat
      /\ Len(outcome) = Len(asked) /\ outcome \in Seq(Outcomes)
  BY DEF Ask, ClientTypes
<1>2. \E o \in Outcomes : outcome' = Append(outcome, o)
  BY OutcomeOfReply DEF Ask, Outcomes
<1>3. outcome' \in Seq(Outcomes) /\ Len(outcome') = n
  BY <1>1, <1>2
<1>4. \E x : answer' = Append(answer, x)
  BY DEF Ask
<1>5. IsSeq(answer') /\ Len(answer') = n
  BY <1>1, <1>4, AppendTo DEF ClientTypes
<1>6. ClientTypes'
  BY <1>1, <1>3, <1>5 DEF ClientTypes, Ask
<1>7. \A m \in Outstanding : m \in Outstanding'
  BY <1>1, <1>2 DEF Outstanding
<1>8. waiter' \in {0} \cup Outstanding'
  <2>1. CASE waiter' = waiter
    BY <1>7, <2>1 DEF WaiterInv
  <2>2. CASE waiter' = n /\ outcome' = Append(outcome, "waiting")
    BY <1>1, <2>2 DEF Outstanding
  <2>3. QED
    BY <2>1, <2>2 DEF Ask
<1>9. QED
  BY <1>6, <1>8 DEF Ask, WaiterInv

\* What ends the wait in progress leaves the other requests as they are.
LEMMA EndsWait ==
  ASSUME ClientTypes, WaiterInv, waiter # 0, NEW o \in Outcomes \ {"waiting"},
         outcome' = [outcome EXCEPT ![waiter] = o]
  PROVE  /\ waiter \in 1 .. Len(asked)
         /\ outcome' \in Seq(Outcomes) /\ Len(outcome') = Len(outcome)
BY DEF ClientTypes, WaiterInv, Outstanding

LEMMA FailKeeps ==
  ASSUME ClientTypes, WaiterInv, NEW error \in {"violation", "closed"}, Fail(error),
         UNCHANGED <<asked, answer, queued, disposed, station>>, ended' \in BOOLEAN
  PROVE  ClientTypes' /\ WaiterInv'
<1>1. CASE failure # "none"
  BY <1>1 DEF Fail, ClientTypes, WaiterInv, Outstanding
<1>2. CASE failure = "none"
  <2>1. failure' = error /\ waiter' = 0
    BY <1>2 DEF Fail
  <2>2. outcome' \in Seq(Outcomes) /\ Len(outcome') = Len(outcome)
    BY <1>2, EndsWait DEF Fail, ClientTypes, Outcomes
  <2>3. QED
    BY <2>1, <2>2 DEF ClientTypes, WaiterInv
<1>3. QED
  BY <1>1, <1>2

LEMMA DistributeKeeps ==
  ASSUME ClientTypes, WaiterInv, NEW frames, Distribute(frames),
         UNCHANGED <<asked, failure, disposed, ended, station>>
  PROVE  ClientTypes' /\ WaiterInv'
<1>1. CASE waiter # 0 /\ frames # << >>
  <2>1. /\ waiter' = 0 /\ answer' = [answer EXCEPT ![waiter] = Head(frames).re]
        /\ outcome' = [outcome EXCEPT ![waiter] = OutcomeOf(asked[waiter], Head(frames))]
    BY <1>1 DEF Distribute
  <2>2. OutcomeOf(asked[waiter], Head(frames)) \in Outcomes \ {"waiting"}
    BY OutcomeOfReply DEF Outcomes
  <2>3. /\ waiter \in 1 .. Len(asked)
        /\ outcome' \in Seq(Outcomes) /\ Len(outcome') = Len(outcome)
    BY <1>1, <2>1, <2>2, EndsWait
  <2>4. IsSeq(answer') /\ Len(answer') = Len(answer)
    BY <2>1, <2>3, ReplaceIn DEF ClientTypes
  <2>5. QED
    BY <2>1, <2>3, <2>4 DEF ClientTypes, WaiterInv
<1>2. CASE waiter = 0 \/ frames = << >>
  <2>1. UNCHANGED <<waiter, outcome, answer>> /\ queued' = queued \o frames
    BY <1>2 DEF Distribute
  <2>2. waiter # 0 => queued' = << >>
    <3>1. << >> \o << >> = << >>
      OBVIOUS
    <3>2. QED
      BY <1>2, <2>1, <3>1 DEF WaiterInv
  <2>3. QED
    BY <2>1, <2>2 DEF ClientTypes, WaiterInv, Outstanding
<1>3. QED
  BY <1>1, <1>2

LEMMA Client_Step ==
  ClientTypes /\ WaiterInv /\ [ClientNext]_relayVars => ClientTypes' /\ WaiterInv'
<1>. SUFFICES ASSUME ClientTypes, WaiterInv, [ClientNext]_relayVars PROVE ClientTypes' /\ WaiterInv'
  OBVIOUS
<1>. USE DEF clientVars, callVars, wireVars
<1>1. ASSUME NEW kind \in Kinds, Ask(kind) PROVE ClientTypes' /\ WaiterInv'
  BY <1>1, AskKeeps
<1>2. ASSUME NEW length \in 1 .. MaxChunk, Bytes(length) PROVE ClientTypes' /\ WaiterInv'
  <2>. DEFINE decoded == Decode(buffer \o SubSeq(fromStation, 1, length))
  <2>1. UNCHANGED <<asked, disposed, ended, station>>
    BY <1>2 DEF Bytes
  <2>2. CASE Distribute(decoded.frames) /\ UNCHANGED failure
    BY <2>1, <2>2, DistributeKeeps
  <2>3. CASE Fail("violation") /\ UNCHANGED <<answer, handedOut, queued>>
    BY <2>1, <2>3, FailKeeps DEF ClientTypes
  <2>4. CASE UNCHANGED <<failure, outcome, answer, handedOut, waiter, queued>>
    BY <2>1, <2>4 DEF ClientTypes, WaiterInv, Outstanding
  <2>5. QED
    BY <1>2, <2>2, <2>3, <2>4 DEF Bytes
<1>3. CASE StreamEnds
  BY <1>3, FailKeeps DEF StreamEnds
<1>4. ASSUME NEW n \in Request, Timeout(n) PROVE ClientTypes' /\ WaiterInv'
  <2>1. n \in DOMAIN outcome /\ outcome' = [outcome EXCEPT ![n] = "timedOut"]
    BY <1>4 DEF Timeout, Outstanding
  <2>2. outcome' \in Seq(Outcomes) /\ Len(outcome') = Len(outcome)
    BY <2>1 DEF ClientTypes, Outcomes
  <2>3. waiter' \in {0} \cup Outstanding'
    BY <1>4, <2>1 DEF Timeout, WaiterInv, Outstanding, ClientTypes
  <2>4. QED
    BY <1>4, <2>2, <2>3 DEF Timeout, ClientTypes, WaiterInv
<1>5. CASE Dispose \/ DisposeAbruptly
  BY <1>5 DEF Dispose, DisposeAbruptly, ClientTypes, WaiterInv, Outstanding
<1>6. CASE Serve \/ StationLeaves
  BY <1>6 DEF Serve, StationLeaves, ClientTypes, WaiterInv, Outstanding
<1>7. ASSUME NEW kind \in Garbage, Garble(kind) PROVE ClientTypes' /\ WaiterInv'
  BY <1>7 DEF Garble, ClientTypes, WaiterInv, Outstanding
<1>8. CASE UNCHANGED relayVars
  BY <1>8 DEF relayVars, ClientTypes, WaiterInv, Outstanding
<1>9. QED
  BY <1>1, <1>2, <1>3, <1>4, <1>5, <1>6, <1>7, <1>8 DEF ClientNext

LEMMA WaiterInvHolds == ClientSpec => [](ClientTypes /\ WaiterInv)
BY Client_Init, Client_Step, PTL DEF ClientSpec

\* Nobody is registered beside a reply that is there, or on a failed channel.
THEOREM ClientInvHolds == ClientSpec => []ClientInv
<1>1. ClientTypes /\ WaiterInv => ClientInv
  BY DEF ClientTypes, WaiterInv, ClientInv, Outcomes
<1>2. QED
  BY <1>1, WaiterInvHolds, PTL

\* A channel that has failed gives nothing out, and keeps its first failure.
THEOREM FailureIsFinal == ClientSpec => NothingAfterFailure
<1>. DEFINE Final == failure # "none" => handedOut' = handedOut /\ failure' = failure
<1>1. WaiterInv /\ [ClientNext]_relayVars => [Final]_relayVars
  <2>. SUFFICES ASSUME failure # "none", waiter = 0, ClientNext
                PROVE  handedOut' = handedOut /\ failure' = failure
    BY DEF WaiterInv
  <2>. USE DEF clientVars, callVars, wireVars
  <2>1. ASSUME NEW kind \in Kinds, Ask(kind) PROVE handedOut' = handedOut /\ failure' = failure
    BY <2>1 DEF Ask
  <2>2. ASSUME NEW length \in 1 .. MaxChunk, Bytes(length)
        PROVE  handedOut' = handedOut /\ failure' = failure
    BY <2>2 DEF Bytes, Distribute, Fail
  <2>3. CASE StreamEnds
    BY <2>3 DEF StreamEnds, Fail
  <2>4. QED
    BY <2>1, <2>2, <2>3
       DEF ClientNext, Timeout, Dispose, DisposeAbruptly, Serve, StationLeaves, Garble
<1>2. QED
  BY <1>1, WaiterInvHolds, PTL DEF ClientSpec, NothingAfterFailure

-----------------------------------------------------------------------------
(* Whose replies are on their way: those queued, those in the frames that   *)
(* come in, and the requests the station has not read, in this order.       *)

FrameKinds == Kinds \cup {"error", "type", "text"}

\* Only what is malformed answers no request.
Frames == {frame \in [re : Nat, kind : FrameKinds] : frame.re = 0 => Malformed(frame)}

Numbers(frames) == [i \in 1 .. Len(frames) |-> frames[i].re]

InFlight(replies, halves, requests) ==
  (Numbers(replies) \o Numbers(Complete(halves))) \o requests

\* Numbers rise from one to the next, but for those of malformed frames, up to n.
Ordered(numbers, n) ==
  /\ \A i, j \in 1 .. Len(numbers) :
       i < j /\ numbers[i] # 0 /\ numbers[j] # 0 => numbers[i] < numbers[j]
  /\ \A i \in 1 .. Len(numbers) : numbers[i] =< n

\* u is s, of length m, followed by t, of length n.
Follows(u, s, m, t, n) ==
  /\ Len(u) = m + n
  /\ \A i \in 1 .. m : u[i] = s[i]
  /\ \A j \in 1 .. n : u[m + j] = t[j]
  /\ \A i \in 1 .. m + n : i \in 1 .. m \/ (i - m \in 1 .. n /\ m + (i - m) = i)

LEMMA Joined ==
  ASSUME NEW S, NEW s \in Seq(S), NEW t \in Seq(S), NEW m, NEW n, m = Len(s), n = Len(t)
  PROVE  m \in Nat /\ n \in Nat /\ s \o t \in Seq(S) /\ Follows(s \o t, s, m, t, n)
<1>1. m \in Nat /\ n \in Nat
  BY LenProperties
<1>2. \A j \in 1 .. n : m + j \in 1 .. m + n /\ ~ m + j =< m /\ (m + j) - m = j
  BY <1>1
<1>3. \A i \in 1 .. m : i \in 1 .. m + n /\ i =< m
  BY <1>1
<1>4. \A i \in 1 .. m + n : i \in 1 .. m \/ (i - m \in 1 .. n /\ m + (i - m) = i)
  BY <1>1
<1>5. QED
  BY <1>1, <1>2, <1>3, <1>4, ConcatProperties DEF Follows

LEMMA NumbersType ==
  ASSUME NEW s \in Seq(Frames)
  PROVE  Numbers(s) \in Seq(Nat) /\ Len(Numbers(s)) = Len(s)
<1>1. \A i \in 1 .. Len(s) : s[i].re \in Nat
  BY DEF Frames
<1>2. QED
  BY <1>1 DEF Numbers

LEMMA NumbersJoined ==
  ASSUME NEW s \in Seq(Frames), NEW t \in Seq(Frames)
  PROVE  Numbers(s \o t) = Numbers(s) \o Numbers(t)
<1>1. s \o t \in Seq(Frames) /\ Len(s \o t) = Len(s) + Len(t)
  OBVIOUS
<1>2. /\ Numbers(s) \in Seq(Nat) /\ Len(Numbers(s)) = Len(s)
      /\ Numbers(t) \in Seq(Nat) /\ Len(Numbers(t)) = Len(t)
      /\ Numbers(s \o t) \in Seq(Nat) /\ Len(Numbers(s \o t)) = Len(s) + Len(t)
  BY <1>1, NumbersType
<1>. DEFINE x == Numbers(s)
            y == Numbers(t)
            z == Numbers(s \o t)
<1>3. /\ \A i \in 1 .. Len(s) : x[i] = s[i].re
      /\ \A i \in 1 .. Len(t) : y[i] = t[i].re
      /\ \A i \in 1 .. Len(s) + Len(t) : z[i] = (s \o t)[i].re
  BY <1>1 DEF Numbers
<1>. HIDE DEF x, y, z
<1>4. x \in Seq(Nat) /\ y \in Seq(Nat) /\ z \in Seq(Nat)
      /\ Len(x) = Len(s) /\ Len(y) = Len(t) /\ Len(z) = Len(s) + Len(t)
  BY <1>2 DEF x, y, z
<1>5. /\ x \o y \in Seq(Nat) /\ Follows(x \o y, x, Len(s), y, Len(t))
      /\ Follows(s \o t, s, Len(s), t, Len(t))
  BY <1>4, Joined, Zenon
<1>6. ASSUME NEW i \in 1 .. Len(s) + Len(t)
      PROVE  z[i] = (x \o y)[i]
  <2>1. CASE i \in 1 .. Len(s)
    <3>1. z[i] = (s \o t)[i].re /\ x[i] = s[i].re
      BY <1>3, <2>1, Zenon
    <3>2. (s \o t)[i] = s[i] /\ (x \o y)[i] = x[i]
      BY <1>5, <2>1, Zenon DEF Follows
    <3>3. QED
      BY <3>1, <3>2
  <2>2. CASE i - Len(s) \in 1 .. Len(t) /\ Len(s) + (i - Len(s)) = i
    <3>1. z[i] = (s \o t)[i].re
      BY <1>3, Zenon
    <3>2. (s \o t)[i] = t[i - Len(s)] /\ (x \o y)[i] = y[i - Len(s)]
      <4>1. /\ (s \o t)[Len(s) + (i - Len(s))] = t[i - Len(s)]
            /\ (x \o y)[Len(s) + (i - Len(s))] = y[i - Len(s)]
        BY <1>5, <2>2, Zenon DEF Follows
      <4>2. QED
        BY <2>2, <4>1
    <3>3. QED
      BY <1>3, <2>2, <3>1, <3>2
  <2>3. QED
    BY <1>5, <2>1, <2>2, Zenon DEF Follows
<1>7. QED
  <2>1. Len(x \o y) = Len(z)
    BY <1>4, <1>5, Zenon DEF Follows
  <2>2. z = x \o y
    BY <1>4, <1>5, <1>6, <2>1, SeqEqual
  <2>3. QED
    BY <2>2 DEF x, y, z

LEMMA HalfOf ==
  ASSUME NEW n \in Nat
  PROVE  /\ n \div 2 \in Nat /\ n - 2 * (n \div 2) \in {0, 1} /\ 2 * (n \div 2) \in 0 .. n
         /\ \A k \in 1 .. n \div 2 : 2 * k \in 1 .. n
OBVIOUS

LEMMA CompleteType ==
  ASSUME NEW h \in Seq(Frames)
  PROVE  /\ Complete(h) \in Seq(Frames) /\ Len(Complete(h)) = Len(h) \div 2
         /\ \A k \in 1 .. Len(h) \div 2 : Complete(h)[k] = h[2 * k]
<1>1. \A k \in 1 .. Len(h) \div 2 : h[2 * k] \in Frames
  BY HalfOf
<1>2. QED
  BY <1>1, HalfOf DEF Complete

\* What is decoded at once, and what is decoded later with what follows, is what
\* would be decoded of all of it.
LEMMA ReadOn ==
  ASSUME NEW h \in Seq(Frames), NEW r \in Seq(Frames), (Len(h) + Len(r)) % 2 = 0
  PROVE  /\ Rest(h) \in Seq(Frames) /\ (Len(Rest(h)) + Len(r)) % 2 = 0
         /\ Complete(h \o r) = Complete(h) \o Complete(Rest(h) \o r)
<1>. DEFINE left == Rest(h)
<1>1. PICK q \in Nat : q = Len(h) \div 2 /\ 2 * q \in 0 .. Len(h)
  BY HalfOf
<1>2. Len(h) \in Nat /\ Len(r) \in Nat
  OBVIOUS
<1>3. /\ left \in Seq(Frames) /\ Len(left) = Len(h) - 2 * q
      /\ \A i \in 1 .. Len(left) : left[i] = h[2 * q + i]
  <2>1. \A i \in 2 * q + 1 .. Len(h) : h[i] \in Frames
    BY <1>1
  <2>2. left = SubSeq(h, 2 * q + 1, Len(h))
    BY <1>1 DEF Rest
  <2>3. /\ left \in Seq(Frames)
        /\ Len(left) = IF 2 * q + 1 =< Len(h) THEN (Len(h) - (2 * q + 1)) + 1 ELSE 0
        /\ \A i \in 1 .. (Len(h) - (2 * q + 1)) + 1 : left[i] = h[((2 * q + 1) + i) - 1]
    BY <1>1, <1>2, <2>1, <2>2, SubSeqProperties
  <2>4. Len(left) = Len(h) - 2 * q
    <3>. HIDE DEF left
    <3>1. CASE 2 * q + 1 =< Len(h)
      <4>1. Len(left) = (Len(h) - (2 * q + 1)) + 1
        BY <2>3, <3>1, Zenon
      <4>2. QED
        BY <1>1, <1>2, <4>1
    <3>2. CASE ~ 2 * q + 1 =< Len(h)
      <4>1. Len(left) = 0
        BY <2>3, <3>2, Zenon
      <4>2. QED
        BY <1>1, <1>2, <3>2, <4>1
    <3>3. QED
      BY <3>1, <3>2
  <2>5. \A i \in 1 .. Len(h) - 2 * q : ((2 * q + 1) + i) - 1 = 2 * q + i
    BY <1>1
  <2>6. (Len(h) - (2 * q + 1)) + 1 = Len(h) - 2 * q
    BY <1>1, <1>2
  <2>7. QED
    BY <2>3, <2>4, <2>5, <2>6
<1>. HIDE DEF left
<1>4. (Len(left) + Len(r)) % 2 = 0 /\ Len(left) \in Nat
  BY <1>1, <1>2, <1>3
<1>. DEFINE all == h \o r
            rest == left \o r
<1>. HIDE DEF all, rest
<1>5. /\ all \in Seq(Frames) /\ Len(all) = Len(h) + Len(r)
      /\ \A i \in 1 .. Len(h) : all[i] = h[i]
      /\ \A j \in 1 .. Len(r) : all[Len(h) + j] = r[j]
  <2>1. all \in Seq(Frames) /\ Follows(all, h, Len(h), r, Len(r))
    BY Joined, Zenon DEF all
  <2>2. QED
    BY <2>1, Zenon DEF Follows
<1>6. /\ rest \in Seq(Frames) /\ Len(rest) = Len(left) + Len(r)
      /\ \A i \in 1 .. Len(left) : rest[i] = left[i]
      /\ \A j \in 1 .. Len(r) : rest[Len(left) + j] = r[j]
      /\ \A i \in 1 .. Len(rest) :
           \/ i \in 1 .. Len(left)
           \/ i - Len(left) \in 1 .. Len(r) /\ Len(left) + (i - Len(left)) = i
  <2>1. rest \in Seq(Frames) /\ Follows(rest, left, Len(left), r, Len(r))
    BY <1>3, Joined, Zenon DEF rest
  <2>2. QED
    BY <2>1, Zenon DEF Follows
<1>7. ASSUME NEW i \in 1 .. Len(rest) PROVE rest[i] = all[2 * q + i]
  <2>1. CASE i \in 1 .. Len(left)
    <3>1. 2 * q + i \in 1 .. Len(h)
      BY <1>1, <1>2, <1>3, <2>1
    <3>2. QED
      BY <1>3, <1>5, <1>6, <2>1, <3>1
  <2>2. CASE i - Len(left) \in 1 .. Len(r) /\ Len(left) + (i - Len(left)) = i
    <3>1. rest[i] = r[i - Len(left)]
      BY <1>6, <2>2
    <3>2. all[Len(h) + (i - Len(left))] = r[i - Len(left)]
      BY <1>5, <2>2
    <3>3. Len(h) + (i - Len(left)) = 2 * q + i
      BY <1>1, <1>2, <1>3, <1>4
    <3>4. QED
      BY <3>1, <3>2, <3>3
  <2>3. QED
    BY <1>6, <2>1, <2>2
<1>8. PICK m \in Nat : m = Len(rest) \div 2 /\ Len(all) \div 2 = q + m
      /\ \A k \in 1 .. m : 2 * k \in 1 .. Len(rest)
  <2>1. Len(rest) \in Nat /\ Len(all) = Len(rest) + 2 * q
    BY <1>1, <1>2, <1>3, <1>4, <1>5, <1>6
  <2>2. Len(all) \div 2 = q + Len(rest) \div 2
    BY <1>1, <2>1
  <2>3. QED
    BY <2>1, <2>2, HalfOf
<1>9. /\ Complete(all) \in Seq(Frames) /\ Len(Complete(all)) = q + m
      /\ \A k \in 1 .. q + m : Complete(all)[k] = all[2 * k]
  BY <1>5, <1>8, CompleteType
<1>. DEFINE first == Complete(h)
            later == Complete(rest)
<1>10. /\ first \in Seq(Frames) /\ Len(first) = q
       /\ later \in Seq(Frames) /\ Len(later) = m
       /\ \A k \in 1 .. q : first[k] = h[2 * k]
       /\ \A k \in 1 .. m : later[k] = rest[2 * k]
  BY <1>1, <1>6, <1>8, CompleteType
<1>. HIDE DEF first, later
<1>11. /\ first \o later \in Seq(Frames) /\ Len(first \o later) = q + m
       /\ \A k \in 1 .. q : (first \o later)[k] = first[k]
       /\ \A k \in 1 .. m : (first \o later)[q + k] = later[k]
  <2>1. first \o later \in Seq(Frames) /\ Follows(first \o later, first, q, later, m)
    BY <1>10, Joined, Zenon
  <2>2. QED
    BY <2>1, Zenon DEF Follows
<1>12. ASSUME NEW k \in 1 .. q + m
       PROVE  Complete(all)[k] = (first \o later)[k]
  <2>1. CASE k \in 1 .. q
    <3>1. 2 * k \in 1 .. Len(h)
      BY <1>1, <2>1, HalfOf
    <3>2. QED
      BY <1>5, <1>9, <1>10, <1>11, <2>1, <3>1, ZenonT(30)
  <2>2. CASE k \notin 1 .. q
    <3>1. k - q \in 1 .. m /\ 2 * q + 2 * (k - q) = 2 * k /\ q + (k - q) = k
      BY <1>1, <1>8, <2>2
    <3>2. (first \o later)[k] = later[k - q]
      BY <1>11, <3>1
    <3>3. later[k - q] = rest[2 * (k - q)] /\ 2 * (k - q) \in 1 .. Len(rest)
      BY <1>8, <1>10, <3>1
    <3>4. rest[2 * (k - q)] = all[2 * k]
      BY <1>7, <3>1, <3>3
    <3>5. QED
      BY <1>9, <3>2, <3>3, <3>4
  <2>3. QED
    BY <2>1, <2>2
<1>13. Complete(all) = first \o later
  BY <1>9, <1>11, <1>12, SeqEqual
<1>14. QED
  BY <1>3, <1>4, <1>13 DEF all, rest, first, later, left

\* A frame that is written behind whole frames is the next to be decoded.
LEMMA Written ==
  ASSUME NEW h \in Seq(Frames), Len(h) % 2 = 0, NEW frame \in Frames
  PROVE  /\ Halves(frame) \in Seq(Frames) /\ Len(Halves(frame)) = 2
         /\ Complete(h \o Halves(frame)) = Complete(h) \o <<frame>>
<1>. DEFINE two == Halves(frame)
<1>1. two \in Seq(Frames) /\ Len(two) = 2 /\ two[2] = frame
  BY DEF Halves
<1>. HIDE DEF two
<1>2. (Len(h) + Len(two)) % 2 = 0
  BY <1>1
<1>3. Complete(h \o two) = Complete(h) \o Complete(Rest(h) \o two)
  BY <1>1, <1>2, ReadOn
<1>4. Rest(h) = << >>
  <2>1. 2 * (Len(h) \div 2) = Len(h) /\ Len(h) \in Nat
    OBVIOUS
  <2>2. QED
    BY <2>1, SubSeqEmpty DEF Rest
<1>5. Rest(h) \o two = two
  BY <1>1, <1>4, ConcatEmptySeq
<1>6. Complete(two) = <<frame>>
  BY <1>1 DEF Complete
<1>7. QED
  BY <1>1, <1>3, <1>5, <1>6 DEF two

-----------------------------------------------------------------------------
(* How the steps move the numbers. *)

LEMMA NumbersConcat ==
  /\ \A s, t \in Seq(Nat) : s \o t \in Seq(Nat)
  /\ \A s, t, u \in Seq(Nat) : (s \o t) \o u = s \o (t \o u)
  /\ <<0>> \in Seq(Nat)
<1>1. ASSUME NEW s \in Seq(Nat), NEW t \in Seq(Nat) PROVE s \o t \in Seq(Nat)
  BY ConcatProperties
<1>2. ASSUME NEW s \in Seq(Nat), NEW t \in Seq(Nat), NEW u \in Seq(Nat)
      PROVE  (s \o t) \o u = s \o (t \o u)
  BY ConcatAssociative, SMTT(30)
<1>3. <<0>> \in Seq(Nat)
  OBVIOUS
<1>4. QED
  BY <1>1, <1>2, <1>3, Zenon

LEMMA InFlightType ==
  ASSUME NEW q \in Seq(Frames), NEW h \in Seq(Frames), NEW t \in Seq(Nat)
  PROVE  /\ InFlight(q, h, t) \in Seq(Nat)
         /\ Numbers(q) \in Seq(Nat) /\ Numbers(Complete(h)) \in Seq(Nat)
         /\ Numbers(q) \o Numbers(Complete(h)) \in Seq(Nat)
         /\ InFlight(q, h, t) = Numbers(q) \o (Numbers(Complete(h)) \o t)
<1>1. Numbers(q) \in Seq(Nat) /\ Numbers(Complete(h)) \in Seq(Nat)
  BY NumbersType, CompleteType, Zenon
<1>2. /\ Numbers(q) \o Numbers(Complete(h)) \in Seq(Nat)
      /\ (Numbers(q) \o Numbers(Complete(h))) \o t \in Seq(Nat)
  BY <1>1, NumbersConcat, Zenon
<1>3. (Numbers(q) \o Numbers(Complete(h))) \o t = Numbers(q) \o (Numbers(Complete(h)) \o t)
  BY <1>1, NumbersConcat, ZenonT(30)
<1>4. QED
  BY <1>1, <1>2, <1>3, Zenon DEF InFlight

\* What is decoded is queued.
LEMMA Received ==
  ASSUME NEW q \in Seq(Frames), NEW h \in Seq(Frames), NEW r \in Seq(Frames), NEW t \in Seq(Nat),
         (Len(h) + Len(r)) % 2 = 0
  PROVE  InFlight(q \o Complete(h), Rest(h) \o r, t) = InFlight(q, h \o r, t)
<1>. DEFINE first == Complete(h)
            later == Complete(Rest(h) \o r)
<1>1. /\ Rest(h) \in Seq(Frames) /\ Complete(h \o r) = first \o later
  BY ReadOn, Zenon
<1>2. first \in Seq(Frames) /\ later \in Seq(Frames)
  BY <1>1, CompleteType, ConcatProperties, Zenon
<1>. HIDE DEF first, later
<1>3. /\ Numbers(q \o first) = Numbers(q) \o Numbers(first)
      /\ Numbers(first \o later) = Numbers(first) \o Numbers(later)
  BY <1>2, NumbersJoined, Zenon
<1>4. Numbers(q) \in Seq(Nat) /\ Numbers(first) \in Seq(Nat) /\ Numbers(later) \in Seq(Nat)
  BY <1>2, NumbersType, Zenon
<1>5. (Numbers(q) \o Numbers(first)) \o Numbers(later)
        = Numbers(q) \o (Numbers(first) \o Numbers(later))
  BY <1>4, NumbersConcat, ZenonT(30)
<1>6. QED
  BY <1>1, <1>3, <1>5, Zenon DEF InFlight, first, later

\* A reply that is handed out is the next.
LEMMA HandedOut ==
  ASSUME NEW q \in Seq(Frames), q # << >>, NEW h \in Seq(Frames), NEW t \in Seq(Nat)
  PROVE  /\ Head(q) \in Frames /\ Tail(q) \in Seq(Frames) /\ Head(q).re \in Nat
         /\ InFlight(q, h, t) = <<Head(q).re>> \o InFlight(Tail(q), h, t)
<1>1. Head(q) \in Frames /\ Tail(q) \in Seq(Frames) /\ Head(q).re \in Nat
  BY DEF Frames
<1>2. <<Head(q)>> \in Seq(Frames) /\ q = <<Head(q)>> \o Tail(q)
  <2>1. <<Head(q)>> \in Seq(Frames) /\ Len(<<Head(q)>>) = 1 /\ <<Head(q)>>[1] = q[1]
    BY <1>1
  <2>2. Len(q) \in Nat \ {0} /\ Len(Tail(q)) = Len(q) - 1
        /\ \A i \in 1 .. Len(q) - 1 : Tail(q)[i] = q[i + 1]
    BY HeadTailProperties
  <2>. DEFINE one == <<Head(q)>>
              tail == Tail(q)
  <2>. HIDE DEF one, tail
  <2>3. one \o tail \in Seq(Frames) /\ Follows(one \o tail, one, 1, tail, Len(q) - 1)
    BY <1>1, <2>1, <2>2, Joined DEF one, tail
  <2>4. Len(one \o tail) = Len(q)
    BY <2>2, <2>3 DEF Follows
  <2>5. ASSUME NEW i \in 1 .. Len(q) PROVE q[i] = (one \o tail)[i]
    <3>1. CASE i = 1
      <4>1. (one \o tail)[1] = one[1]
        BY <2>3 DEF Follows
      <4>2. QED
        BY <2>1, <3>1, <4>1 DEF one
    <3>2. CASE i # 1
      <4>1. i - 1 \in 1 .. Len(q) - 1 /\ 1 + (i - 1) = i /\ (i - 1) + 1 = i
        BY <2>2, <3>2
      <4>2. (one \o tail)[1 + (i - 1)] = tail[i - 1] /\ tail[i - 1] = q[(i - 1) + 1]
        BY <2>2, <2>3, <4>1, Zenon DEF Follows, tail
      <4>3. QED
        BY <4>1, <4>2
    <3>3. QED
      BY <3>1, <3>2
  <2>6. q = one \o tail
    BY <2>3, <2>4, <2>5, SeqEqual
  <2>7. QED
    BY <2>1, <2>6 DEF one, tail
<1>3. Numbers(<<Head(q)>>) = <<Head(q).re>>
  BY <1>1 DEF Numbers
<1>4. Numbers(q) = <<Head(q).re>> \o Numbers(Tail(q))
  BY <1>1, <1>2, <1>3, NumbersJoined, Zenon
<1>5. /\ <<Head(q).re>> \in Seq(Nat) /\ Numbers(Tail(q)) \in Seq(Nat)
      /\ Numbers(Complete(h)) \o t \in Seq(Nat)
  <2>1. <<Head(q).re>> \in Seq(Nat)
    BY <1>1
  <2>2. QED
    BY <1>1, <2>1, NumbersType, CompleteType, NumbersConcat, Zenon
<1>6. /\ InFlight(q, h, t) = Numbers(q) \o (Numbers(Complete(h)) \o t)
      /\ InFlight(Tail(q), h, t) = Numbers(Tail(q)) \o (Numbers(Complete(h)) \o t)
  BY <1>1, InFlightType, ZenonT(30)
<1>7. (<<Head(q).re>> \o Numbers(Tail(q))) \o (Numbers(Complete(h)) \o t)
        = <<Head(q).re>> \o (Numbers(Tail(q)) \o (Numbers(Complete(h)) \o t))
  BY <1>5, NumbersConcat, ZenonT(30)
<1>8. QED
  BY <1>1, <1>4, <1>6, <1>7, Zenon

\* A request that is served becomes a reply.
LEMMA FrameServed ==
  ASSUME NEW q \in Seq(Frames), NEW h \in Seq(Frames), Len(h) % 2 = 0,
         NEW t \in Seq(Nat), t # << >>, NEW frame \in Frames, frame.re = Head(t)
  PROVE  InFlight(q, h \o Halves(frame), Tail(t)) = InFlight(q, h, t)
<1>1. Head(t) \in Nat /\ Tail(t) \in Seq(Nat) /\ <<Head(t)>> \in Seq(Nat)
      /\ <<frame>> \in Seq(Frames) /\ t = <<Head(t)>> \o Tail(t)
  OBVIOUS
<1>2. Complete(h \o Halves(frame)) = Complete(h) \o <<frame>> /\ Complete(h) \in Seq(Frames)
  BY Written, CompleteType, Zenon
<1>3. Numbers(<<frame>>) = <<Head(t)>>
  BY DEF Numbers
<1>4. Numbers(Complete(h) \o <<frame>>) = Numbers(Complete(h)) \o <<Head(t)>>
  BY <1>1, <1>2, <1>3, NumbersJoined, Zenon
<1>5. Numbers(q) \in Seq(Nat) /\ Numbers(Complete(h)) \in Seq(Nat)
  BY <1>2, NumbersType, Zenon
<1>6. /\ (Numbers(Complete(h)) \o <<Head(t)>>) \o Tail(t)
           = Numbers(Complete(h)) \o (<<Head(t)>> \o Tail(t))
      /\ Numbers(Complete(h)) \o <<Head(t)>> \in Seq(Nat)
  BY <1>1, <1>5, NumbersConcat, ZenonT(30)
<1>7. (Numbers(q) \o (Numbers(Complete(h)) \o <<Head(t)>>)) \o Tail(t)
        = Numbers(q) \o ((Numbers(Complete(h)) \o <<Head(t)>>) \o Tail(t))
  BY <1>1, <1>5, <1>6, NumbersConcat, ZenonT(30)
<1>8. InFlight(q, h, t) = Numbers(q) \o (Numbers(Complete(h)) \o t)
  BY InFlightType, Zenon
<1>9. QED
  BY <1>1, <1>2, <1>4, <1>6, <1>7, <1>8, Zenon DEF InFlight

\* A request that is sent is the last.
LEMMA Sent ==
  ASSUME NEW q \in Seq(Frames), NEW h \in Seq(Frames), NEW t \in Seq(Nat), NEW n \in Nat
  PROVE  InFlight(q, h, Append(t, n)) = Append(InFlight(q, h, t), n)
<1>. DEFINE a == Numbers(q) \o Numbers(Complete(h))
<1>1. a \in Seq(Nat)
  BY InFlightType, Zenon
<1>. HIDE DEF a
<1>2. a \o Append(t, n) = Append(a \o t, n)
  BY <1>1
<1>3. QED
  BY <1>2 DEF InFlight, a

\* A malformed frame comes in behind what the station has answered.
LEMMA Garbled ==
  ASSUME NEW q \in Seq(Frames), NEW h \in Seq(Frames), Len(h) % 2 = 0,
         NEW t \in Seq(Nat), NEW frame \in Frames, frame.re = 0
  PROVE  \E a \in Seq(Nat) : /\ InFlight(q, h, t) = a \o t
                             /\ InFlight(q, h \o Halves(frame), t) = (a \o <<0>>) \o t
<1>1. /\ Complete(h \o Halves(frame)) = Complete(h) \o <<frame>>
      /\ Complete(h) \in Seq(Frames) /\ <<0>> \in Seq(Nat)
  BY Written, CompleteType, NumbersConcat, Zenon
<1>2. <<frame>> \in Seq(Frames)
  OBVIOUS
<1>3. Numbers(<<frame>>) = <<0>>
  BY DEF Numbers
<1>4. Numbers(Complete(h) \o <<frame>>) = Numbers(Complete(h)) \o <<0>>
  BY <1>1, <1>3, <1>2, NumbersJoined, Zenon
<1>5. /\ Numbers(q) \in Seq(Nat) /\ Numbers(Complete(h)) \in Seq(Nat)
      /\ Numbers(q) \o Numbers(Complete(h)) \in Seq(Nat)
  BY InFlightType, Zenon
<1>6. Numbers(q) \o (Numbers(Complete(h)) \o <<0>>)
        = (Numbers(q) \o Numbers(Complete(h))) \o <<0>>
  BY <1>1, <1>5, NumbersConcat, ZenonT(30)
<1>7. QED
  BY <1>1, <1>4, <1>5, <1>6, Zenon DEF InFlight

-----------------------------------------------------------------------------

LEMMA OrderedAppended ==
  ASSUME NEW s \in Seq(Nat), NEW m \in Nat, Ordered(s, m), NEW n \in Nat, m < n
  PROVE  Ordered(Append(s, n), n)
<1>1. /\ Len(s) \in Nat /\ Len(Append(s, n)) = Len(s) + 1 /\ Append(s, n)[Len(s) + 1] = n
      /\ \A i \in 1 .. Len(s) : Append(s, n)[i] = s[i] /\ s[i] \in Nat /\ s[i] < n
  BY DEF Ordered
<1>2. \A i \in 1 .. Len(s) + 1 : i = Len(s) + 1 \/ i \in 1 .. Len(s)
  BY <1>1
<1>. DEFINE u == Append(s, n)
<1>. HIDE DEF u
<1>3. ASSUME NEW i \in 1 .. Len(u), NEW j \in 1 .. Len(u), i < j, u[i] # 0, u[j] # 0
      PROVE  u[i] < u[j]
  <2>1. i \in 1 .. Len(s)
    BY <1>1, <1>3 DEF u
  <2>2. CASE j = Len(s) + 1
    BY <1>1, <2>1, <2>2 DEF u
  <2>3. CASE j \in 1 .. Len(s)
    <3>1. u[i] = s[i] /\ u[j] = s[j]
      BY <1>1, <2>1, <2>3 DEF u
    <3>2. QED
      BY <1>3, <2>1, <2>3, <3>1 DEF Ordered
  <2>4. QED
    BY <1>1, <1>2, <2>2, <2>3 DEF u
<1>4. ASSUME NEW i \in 1 .. Len(u) PROVE u[i] =< n
  BY <1>1, <1>2 DEF u
<1>5. QED
  BY <1>3, <1>4, Zenon DEF Ordered, u

LEMMA OrderedInserted ==
  ASSUME NEW n, NEW s \in Seq(Nat), NEW a \in Seq(Nat), NEW t \in Seq(Nat),
         Ordered(s \o (a \o t), n), n \in Nat
  PROVE  Ordered(s \o ((a \o <<0>>) \o t), n)
<1>. DEFINE b == s \o a
            c == b \o <<0>>
<1>1. b \in Seq(Nat) /\ <<0>> \in Seq(Nat) /\ c \in Seq(Nat)
  BY NumbersConcat, Zenon
<1>2. s \o (a \o t) = b \o t
  BY NumbersConcat, Zenon
<1>3. s \o ((a \o <<0>>) \o t) = c \o t
  <2>1. a \o <<0>> \in Seq(Nat)
    BY <1>1, NumbersConcat, Zenon
  <2>2. s \o ((a \o <<0>>) \o t) = (s \o (a \o <<0>>)) \o t
    BY <2>1, NumbersConcat, ZenonT(30)
  <2>3. s \o (a \o <<0>>) = c
    <3>1. PICK zero \in Seq(Nat) : zero = <<0>>
      BY <1>1
    <3>2. (s \o a) \o zero = s \o (a \o zero)
      BY NumbersConcat, ZenonT(30)
    <3>3. QED
      BY <3>1, <3>2
  <2>4. QED
    BY <2>2, <2>3
<1>. HIDE DEF b
<1>4. PICK k \in Nat : k = Len(b) /\ Len(c) = k + 1 /\ c[k + 1] = 0
                       /\ \A i \in 1 .. k : c[i] = b[i]
  <2>1. Len(b) \in Nat /\ Len(c) = Len(b) + 1 /\ c[Len(b) + 1] = 0
        /\ \A i \in 1 .. Len(b) : c[i] = b[i]
    BY <1>1
  <2>2. QED
    BY <2>1
<1>. HIDE DEF c
<1>. DEFINE u == b \o t
            v == c \o t
<1>5. /\ u \in Seq(Nat) /\ Follows(u, b, k, t, Len(t))
      /\ v \in Seq(Nat) /\ Follows(v, c, k + 1, t, Len(t)) /\ Len(t) \in Nat
  BY <1>1, <1>4, Joined, Zenon
<1>. HIDE DEF u, v
<1>6. Len(u) = k + Len(t) /\ Len(v) = k + 1 + Len(t) /\ Ordered(u, n)
  BY <1>2, <1>5 DEF Follows, u
<1>7. ASSUME NEW i \in 1 .. Len(v), v[i] # 0
      PROVE  \/ i =< k /\ i \in 1 .. Len(u) /\ v[i] = u[i]
             \/ i > k + 1 /\ i - 1 \in 1 .. Len(u) /\ v[i] = u[i - 1]
  <2>1. CASE i \in 1 .. k
    <3>1. v[i] = c[i] /\ u[i] = b[i]
      BY <1>4, <1>5, <2>1 DEF Follows
    <3>2. QED
      BY <1>4, <1>5, <1>6, <2>1, <3>1
  <2>2. CASE i = k + 1
    <3>1. v[i] = c[i]
      <4>1. i \in 1 .. k + 1
        BY <1>4, <2>2
      <4>2. QED
        BY <1>5, <4>1, Zenon DEF Follows
    <3>2. QED
      BY <1>4, <1>7, <2>2, <3>1
  <2>3. CASE i - (k + 1) \in 1 .. Len(t)
    <3>1. (k + 1) + (i - (k + 1)) = i /\ k + (i - (k + 1)) = i - 1
      BY <1>4
    <3>2. v[(k + 1) + (i - (k + 1))] = t[i - (k + 1)] /\ u[k + (i - (k + 1))] = t[i - (k + 1)]
      BY <1>5, <2>3, Zenon DEF Follows
    <3>3. v[i] = u[i - 1]
      BY <3>1, <3>2
    <3>4. QED
      BY <1>4, <1>5, <1>6, <2>3, <3>3
  <2>4. QED
    BY <1>4, <1>5, <1>6, <2>1, <2>2, <2>3, SMTT(30)
<1>8. ASSUME NEW i \in 1 .. Len(v) PROVE v[i] =< n
  <2>1. v[i] \in Nat
    BY <1>5
  <2>2. CASE v[i] = 0
    BY <2>2
  <2>3. CASE v[i] # 0
    BY <1>6, <1>7, <2>3 DEF Ordered
  <2>4. QED
    BY <2>2, <2>3
<1>9. \A i \in 1 .. Len(v) : v[i] # 0 =>
         \E x \in 1 .. Len(u) : v[i] = u[x] /\ ((x = i /\ i =< k) \/ (x = i - 1 /\ i > k + 1))
  <2>1. SUFFICES ASSUME NEW i \in 1 .. Len(v), v[i] # 0
                 PROVE  \E x \in 1 .. Len(u) :
                          v[i] = u[x] /\ ((x = i /\ i =< k) \/ (x = i - 1 /\ i > k + 1))
    OBVIOUS
  <2>2. QED
    BY <1>7, <2>1
<1>10. ASSUME NEW i \in 1 .. Len(v), NEW j \in 1 .. Len(v), i < j, v[i] # 0, v[j] # 0
      PROVE  v[i] < v[j]
  <2>1. PICK x \in 1 .. Len(u) : v[i] = u[x] /\ ((x = i /\ i =< k) \/ (x = i - 1 /\ i > k + 1))
    BY <1>9, <1>10
  <2>2. PICK y \in 1 .. Len(u) : v[j] = u[y] /\ ((y = j /\ j =< k) \/ (y = j - 1 /\ j > k + 1))
    BY <1>9, <1>10
  <2>3. x < y
    BY <1>4, <1>10, <2>1, <2>2
  <2>4. QED
    BY <1>6, <1>10, <2>1, <2>2, <2>3 DEF Ordered
<1>11. QED
  BY <1>3, <1>8, <1>10, Zenon DEF Ordered, v

LEMMA OrderedSent ==
  ASSUME NEW o \in Seq(Nat), NEW l \in Seq(Nat), NEW m \in Nat, Ordered(o \o l, m)
  PROVE  Ordered(o \o Append(l, m + 1), m + 1) /\ Ordered(o \o l, m + 1)
<1>1. o \o l \in Seq(Nat) /\ o \o Append(l, m + 1) = Append(o \o l, m + 1)
  OBVIOUS
<1>2. m + 1 \in Nat /\ m < m + 1
  OBVIOUS
<1>3. Ordered(Append(o \o l, m + 1), m + 1)
  BY <1>1, <1>2, OrderedAppended, Zenon
<1>4. Ordered(o \o l, m + 1)
  <2>. DEFINE u == o \o l
  <2>. HIDE DEF u
  <2>1. Ordered(u, m) /\ \A i \in 1 .. Len(u) : u[i] \in Nat
    BY <1>1 DEF u
  <2>2. \A k \in Nat : k =< m => k =< m + 1
    OBVIOUS
  <2>3. Ordered(u, m + 1)
    BY <2>1, <2>2, Zenon DEF Ordered
  <2>4. QED
    BY <2>3 DEF u
<1>5. QED
  BY <1>1, <1>3, <1>4

LEMMA TakenOut ==
  ASSUME NEW o \in Seq(Nat), NEW x \in Nat, NEW l \in Seq(Nat)
  PROVE  Append(o, x) \o l = o \o (<<x>> \o l) /\ Append(o, x) \in Seq(Nat)
<1>1. <<x>> \in Seq(Nat) /\ Append(o, x) = o \o <<x>>
  BY AppendIsConcat
<1>2. QED
  BY <1>1, NumbersConcat

\* All that is on its way is for one request, or malformed.
AllFor(l, w) == \A i \in 1 .. Len(l) : l[i] \in {0, w}

\* Then the first is all there is: none is answered twice.
LEMMA OnlyOne ==
  ASSUME NEW o \in Seq(Nat), NEW l \in Seq(Nat), NEW x \in Nat \ {0}, NEW n, NEW w,
         Ordered(o \o (<<x>> \o l), n), AllFor(<<x>> \o l, w)
  PROVE  x = w /\ AllFor(l, 0)
<1>1. <<x>> \in Seq(Nat) /\ Len(<<x>>) = 1 /\ <<x>>[1] = x /\ Len(o) \in Nat /\ Len(l) \in Nat
  OBVIOUS
<1>. DEFINE u == <<x>> \o l
            v == o \o u
<1>2. u \in Seq(Nat) /\ Follows(u, <<x>>, 1, l, Len(l))
  BY <1>1, Joined
<1>. HIDE DEF u
<1>3. Len(u) = 1 + Len(l) /\ u[1] = x /\ \A j \in 1 .. Len(l) : u[1 + j] = l[j]
  BY <1>1, <1>2 DEF Follows
<1>4. v \in Seq(Nat) /\ Follows(v, o, Len(o), u, 1 + Len(l))
  BY <1>2, <1>3, Joined
<1>. HIDE DEF v
<1>5. Len(v) = Len(o) + (1 + Len(l)) /\ \A j \in 1 .. 1 + Len(l) : v[Len(o) + j] = u[j]
  BY <1>4 DEF Follows
<1>6. Ordered(v, n) /\ AllFor(u, w)
  BY DEF u, v
<1>7. x = w
  BY <1>1, <1>3, <1>6 DEF AllFor
<1>8. ASSUME NEW j \in 1 .. Len(l) PROVE l[j] = 0
  <2>1. 1 + j \in 1 .. 1 + Len(l) /\ 1 \in 1 .. 1 + Len(l)
    BY <1>1
  <2>2. l[j] \in {0, w} /\ l[j] \in Nat
    BY <1>3, <1>6, <2>1 DEF AllFor
  <2>3. v[Len(o) + (1 + j)] = l[j] /\ v[Len(o) + 1] = x
    BY <1>3, <1>5, <2>1
  <2>4. /\ Len(o) + 1 \in 1 .. Len(v) /\ Len(o) + (1 + j) \in 1 .. Len(v)
        /\ Len(o) + 1 < Len(o) + (1 + j)
    BY <1>1, <1>5
  <2>5. l[j] # 0 => x < l[j]
    BY <1>6, <2>3, <2>4 DEF Ordered
  <2>6. QED
    BY <1>7, <2>2, <2>5
<1>9. QED
  BY <1>7, <1>8 DEF AllFor

LEMMA AllForSent ==
  ASSUME NEW l \in Seq(Nat), NEW n \in Nat, AllFor(l, 0)
  PROVE  AllFor(l, n) /\ AllFor(Append(l, n), n)
<1>1. /\ Len(Append(l, n)) = Len(l) + 1 /\ Append(l, n)[Len(l) + 1] = n
      /\ \A i \in 1 .. Len(l) : Append(l, n)[i] = l[i]
      /\ \A i \in 1 .. Len(l) + 1 : i \in 1 .. Len(l) \/ i = Len(l) + 1
  OBVIOUS
<1>2. QED
  BY <1>1, Zenon DEF AllFor

LEMMA AllForInserted ==
  ASSUME NEW a \in Seq(Nat), NEW t \in Seq(Nat), NEW w, AllFor(a \o t, w)
  PROVE  AllFor((a \o <<0>>) \o t, w)
<1>. DEFINE c == a \o <<0>>
            u == a \o t
            v == c \o t
            k == Len(a)
<1>1. k \in Nat /\ c \in Seq(Nat) /\ Len(c) = k + 1 /\ c[k + 1] = 0
      /\ \A i \in 1 .. k : c[i] = a[i]
  OBVIOUS
<1>. HIDE DEF c, k
<1>2. /\ Follows(u, a, k, t, Len(t)) /\ Follows(v, c, k + 1, t, Len(t)) /\ Len(t) \in Nat
  BY <1>1, Joined, Zenon DEF k
<1>. HIDE DEF u, v
<1>3. AllFor(u, w) /\ Len(u) = k + Len(t) /\ Len(v) = (k + 1) + Len(t)
  BY <1>2, Zenon DEF u, Follows
<1>4. \A i \in 1 .. k : i \in 1 .. k + 1 /\ i \in 1 .. k + Len(t) /\ i # k + 1
  BY <1>1, <1>2
<1>5. \A j \in 1 .. Len(t) : k + j \in 1 .. k + Len(t)
  BY <1>1, <1>2
<1>6. ASSUME NEW i \in 1 .. k + 1 PROVE v[i] \in {0, w}
  <2>1. v[i] = c[i]
    BY <1>2, Zenon DEF Follows
  <2>2. CASE i = k + 1
    BY <1>1, <2>1, <2>2
  <2>3. CASE i \in 1 .. k
    <3>1. u[i] = a[i] /\ c[i] = a[i]
      BY <1>1, <1>2, <2>3, Zenon DEF Follows
    <3>2. QED
      BY <1>3, <1>4, <2>1, <2>3, <3>1, Zenon DEF AllFor
  <2>4. QED
    BY <1>1, <2>2, <2>3
<1>7. ASSUME NEW j \in 1 .. Len(t) PROVE v[(k + 1) + j] \in {0, w}
  <2>1. v[(k + 1) + j] = t[j] /\ u[k + j] = t[j]
    BY <1>2, Zenon DEF Follows
  <2>2. QED
    BY <1>3, <1>5, <2>1, Zenon DEF AllFor
<1>8. ASSUME NEW i \in 1 .. Len(v) PROVE v[i] \in {0, w}
  <2>1. \/ i \in 1 .. k + 1
        \/ i - (k + 1) \in 1 .. Len(t) /\ (k + 1) + (i - (k + 1)) = i
    BY <1>2, <1>3, Zenon DEF Follows
  <2>2. CASE i - (k + 1) \in 1 .. Len(t) /\ (k + 1) + (i - (k + 1)) = i
    <3>1. v[(k + 1) + (i - (k + 1))] \in {0, w}
      BY <1>7, <2>2, Zenon
    <3>2. QED
      BY <2>2, <3>1
  <2>3. QED
    BY <1>6, <2>1, <2>2, Zenon
<1>9. QED
  BY <1>8, Zenon DEF AllFor, v, c

-----------------------------------------------------------------------------
(* The invariant, and the steps that keep it. *)

WireTypes ==
  /\ queued \in Seq(Frames) /\ \A i \in 1 .. Len(queued) : queued[i].re # 0
  /\ buffer \in Seq(Frames) /\ fromStation \in Seq(Frames)
  /\ (Len(buffer) + Len(fromStation)) % 2 = 0
  /\ toStation \in Seq(Nat) /\ \A i \in 1 .. Len(toStation) : toStation[i] \in 1 .. Len(asked)
  /\ handedOut \in Seq(Nat) /\ \A i \in 1 .. Len(handedOut) : handedOut[i] # 0

InFlightNow == InFlight(queued, buffer \o fromStation, toStation)

\* Replies were given out, and are on their way, in the order of the requests.
OrderInv == Ordered(handedOut \o InFlightNow, Len(asked))

\* As long as nobody has given up, and nobody was replaced as waiter.
Prompt ==
  /\ \A n \in DOMAIN outcome : outcome[n] # "timedOut"
  /\ Outstanding \subseteq {waiter}

PairInv ==
  Prompt => /\ \A n \in DOMAIN answer : answer[n] \in {0, n}
            /\ failure = "none" => AllFor(InFlightNow, waiter)

RepliesInv == WireTypes /\ OrderInv /\ PairInv

LEMMA WireFacts ==
  ASSUME WireTypes
  PROVE  /\ buffer \o fromStation \in Seq(Frames)
         /\ Len(buffer \o fromStation) % 2 = 0
         /\ InFlightNow \in Seq(Nat)
<1>1. buffer \o fromStation \in Seq(Frames)
      /\ Len(buffer \o fromStation) = Len(buffer) + Len(fromStation)
  BY ConcatProperties DEF WireTypes
<1>2. QED
  BY <1>1, InFlightType DEF WireTypes, InFlightNow

LEMMA Replies_Init == ClientInit => RepliesInv
<1>. SUFFICES ASSUME ClientInit PROVE RepliesInv
  OBVIOUS
<1>1. WireTypes
  BY DEF ClientInit, WireTypes
<1>2. handedOut \o InFlightNow = << >>
  <2>1. Complete(<< >> \o << >>) = << >> /\ Numbers(<< >>) = << >>
    BY DEF Complete, Numbers
  <2>2. InFlight(<< >>, << >> \o << >>, << >>) = << >>
    BY <2>1 DEF InFlight
  <2>3. QED
    BY <2>2 DEF ClientInit, InFlightNow
<1>3. InFlightNow = << >>
  BY <1>1, <1>2, WireFacts, ConcatEqualIffEmpty DEF WireTypes
<1>4. OrderInv
  BY <1>2 DEF OrderInv, Ordered
<1>5. PairInv
  BY <1>3 DEF PairInv, AllFor, ClientInit
<1>6. QED
  BY <1>1, <1>4, <1>5 DEF RepliesInv

\* A step that touches none of this, but for outcomes that take away promptness.
LEMMA RepliesKept ==
  ASSUME RepliesInv, UNCHANGED <<queued, buffer, fromStation, toStation, asked, handedOut, answer>>,
         Prompt' => Prompt, failure' = "none" => failure = "none" /\ waiter' = waiter
  PROVE  RepliesInv'
<1>1. WireTypes' /\ InFlightNow' = InFlightNow
  BY DEF RepliesInv, WireTypes, InFlightNow
<1>2. QED
  BY <1>1 DEF RepliesInv, OrderInv, PairInv

LEMMA WaitEnded ==
  ASSUME ClientTypes, WaiterInv, waiter # 0, waiter' = 0, NEW o, o \notin {"waiting", "timedOut"},
         outcome' = [outcome EXCEPT ![waiter] = o], Prompt'
  PROVE  Prompt
<1>1. waiter \in DOMAIN outcome /\ outcome[waiter] = "waiting" /\ DOMAIN outcome' = DOMAIN outcome
      /\ 0 \notin DOMAIN outcome
  BY DEF ClientTypes, WaiterInv, Outstanding
<1>2. ASSUME NEW n \in DOMAIN outcome, n # waiter PROVE outcome'[n] = outcome[n]
  BY <1>1, <1>2
<1>3. ASSUME NEW n \in DOMAIN outcome PROVE outcome[n] # "timedOut"
  BY <1>1, <1>2 DEF Prompt
<1>4. ASSUME NEW n \in Outstanding PROVE n = waiter
  BY <1>1, <1>2, <1>4 DEF Prompt, Outstanding
<1>5. QED
  BY <1>3, <1>4 DEF Prompt

\* A new request changes what the others know only if it is refused.
LEMMA AskedBefore ==
  ASSUME ClientTypes, WaiterInv, NEW kind \in Kinds, Ask(kind), Prompt'
  PROVE  /\ Prompt
         /\ waiter' = Len(asked) + 1 => waiter = 0
<1>. DEFINE n == Len(asked) + 1
<1>1. /\ Len(outcome) = Len(asked) /\ DOMAIN outcome = 1 .. Len(asked) /\ Len(asked) \in Nat
      /\ outcome \in Seq(Outcomes)
  BY DEF ClientTypes
<1>2. \E o \in Outcomes : outcome' = Append(outcome, o)
  BY OutcomeOfReply DEF Ask, Outcomes
<1>3. /\ DOMAIN outcome' = 1 .. n
      /\ \A m \in 1 .. Len(asked) : m \in 1 .. n /\ outcome'[m] = outcome[m] /\ m # n
  BY <1>1, <1>2
<1>4. \A m \in DOMAIN outcome : outcome[m] # "timedOut"
  BY <1>1, <1>3 DEF Prompt
<1>5. Outstanding \subseteq Outstanding'
  BY <1>1, <1>3 DEF Outstanding
<1>6. waiter' = waiter \/ (waiter' = n /\ queued = << >>)
  BY DEF Ask
<1>7. waiter \in {0} \cup Outstanding /\ n \notin Outstanding /\ 0 # n
  BY <1>1 DEF WaiterInv, Outstanding
<1>8. CASE waiter' = waiter
  <2>1. waiter # n
    BY <1>7
  <2>2. QED
    BY <1>4, <1>5, <1>8, <2>1 DEF Prompt
<1>9. CASE waiter' = n
  <2>1. Outstanding \subseteq {n}
    BY <1>5, <1>9 DEF Prompt
  <2>2. Outstanding = {}
    BY <1>7, <2>1
  <2>3. QED
    BY <1>4, <1>7, <2>2 DEF Prompt
<1>10. QED
  BY <1>6, <1>8, <1>9

LEMMA AskReplies ==
  ASSUME ClientTypes, WaiterInv, RepliesInv, NEW kind \in Kinds, Ask(kind)
  PROVE  RepliesInv'
<1>. DEFINE n == Len(asked) + 1
            h == buffer \o fromStation
            l == InFlightNow
<1>1. /\ Len(asked) \in Nat /\ n \in Nat /\ Len(asked') = n
      /\ UNCHANGED <<failure, buffer, fromStation>>
  BY DEF Ask, ClientTypes
<1>2. WireTypes /\ OrderInv /\ PairInv /\ h \in Seq(Frames) /\ l \in Seq(Nat)
  BY WireFacts DEF RepliesInv
<1>3. /\ queued \in Seq(Frames) /\ handedOut \in Seq(Nat) /\ toStation \in Seq(Nat)
      /\ \A i \in 1 .. Len(queued) : queued[i].re # 0
  BY <1>2 DEF WireTypes
<1>4. /\ toStation' \in Seq(Nat) /\ \A i \in 1 .. Len(toStation') : toStation'[i] \in 1 .. n
      /\ toStation' = toStation \/ toStation' = Append(toStation, n)
  <2>1. toStation' = toStation \/ toStation' = Append(toStation, n)
    BY DEF Ask
  <2>2. \A k \in 1 .. Len(asked) : k \in 1 .. n
    BY <1>1
  <2>3. n \in 1 .. n
    BY <1>1
  <2>4. \A i \in 1 .. Len(toStation) : toStation[i] \in 1 .. n
    BY <1>2, <2>2, Zenon DEF WireTypes
  <2>5. CASE toStation' = Append(toStation, n)
    <3>1. /\ toStation' \in Seq(Nat) /\ Len(toStation') = Len(toStation) + 1
          /\ toStation'[Len(toStation) + 1] = n
          /\ \A i \in 1 .. Len(toStation) : toStation'[i] = toStation[i]
          /\ \A i \in 1 .. Len(toStation) + 1 : i \in 1 .. Len(toStation) \/ i = Len(toStation) + 1
      BY <1>1, <1>3, <2>5
    <3>2. QED
      BY <2>1, <2>3, <2>4, <3>1, Zenon
  <2>6. QED
    BY <1>3, <2>1, <2>4, <2>5, Zenon
<1>. HIDE DEF n
<1>5. \A q \in Seq(Frames) : InFlight(q, h, toStation') \in
        {InFlight(q, h, toStation), Append(InFlight(q, h, toStation), n)}
  <2>1. SUFFICES ASSUME NEW q \in Seq(Frames)
                 PROVE  InFlight(q, h, toStation') \in
                          {InFlight(q, h, toStation), Append(InFlight(q, h, toStation), n)}
    OBVIOUS
  <2>2. InFlight(q, h, Append(toStation, n)) = Append(InFlight(q, h, toStation), n)
    BY <1>1, <1>2, <1>3, Sent, ZenonT(30)
  <2>3. QED
    BY <1>4, <2>2, Zenon
<1>6. CASE UNCHANGED <<queued, handedOut>> /\ answer' = Append(answer, 0)
  <2>1. WireTypes'
    BY <1>1, <1>2, <1>4, <1>6 DEF WireTypes
  <2>2. InFlightNow' = l \/ InFlightNow' = Append(l, n)
    <3>1. InFlightNow' = InFlight(queued, h, toStation')
      BY <1>1, <1>6 DEF InFlightNow
    <3>2. QED
      BY <1>3, <1>5, <3>1, Zenon DEF InFlightNow
  <2>3. Ordered(handedOut \o l, n) /\ Ordered(handedOut \o Append(l, n), n)
    BY <1>1, <1>2, <1>3, OrderedSent, Zenon DEF OrderInv, n
  <2>4. OrderInv'
    BY <1>1, <1>6, <2>2, <2>3, Zenon DEF OrderInv
  <2>5. ASSUME Prompt' PROVE \A m \in DOMAIN answer' : answer'[m] \in {0, m}
    <3>1. Prompt
      BY <2>5, AskedBefore, Zenon
    <3>2. \A m \in DOMAIN answer : answer[m] \in {0, m}
      BY <1>2, <3>1, Zenon DEF PairInv
    <3>3. PICK S : answer \in Seq(S)
      BY DEF ClientTypes, IsSeq
    <3>4. QED
      BY <1>6, <3>2, <3>3
  <2>6. ASSUME Prompt', failure' = "none" PROVE AllFor(InFlightNow', waiter')
    <3>1. Prompt /\ failure = "none" /\ (waiter' = Len(asked) + 1 => waiter = 0)
      BY <1>1, <2>6, AskedBefore, Zenon
    <3>2. AllFor(l, waiter)
      BY <1>2, <3>1, Zenon DEF PairInv
    <3>3. CASE queued # << >>
      <4>1. queued' = Tail(queued) /\ queued' = queued
        BY <1>6, <3>1, <3>3, Zenon DEF Ask
      <4>2. FALSE
        <5>1. Len(Tail(queued)) = Len(queued) - 1 /\ Len(queued) \in Nat
          BY <1>3, <3>3
        <5>2. QED
          BY <4>1, <5>1
      <4>3. QED
        BY <4>2
    <3>4. CASE queued = << >>
      <4>1. waiter' = n /\ AllFor(l, 0)
        BY <3>1, <3>2, <3>4, Zenon DEF Ask, n
      <4>2. AllFor(l, n) /\ AllFor(Append(l, n), n)
        BY <1>1, <1>2, <4>1, AllForSent
      <4>3. QED
        BY <2>2, <4>1, <4>2, Zenon
    <3>5. QED
      BY <3>3, <3>4
  <2>7. QED
    BY <2>1, <2>4, <2>5, <2>6, Zenon DEF RepliesInv, PairInv
<1>7. CASE /\ queued # << >> /\ queued' = Tail(queued) /\ failure = "none" /\ UNCHANGED waiter
           /\ handedOut' = Append(handedOut, Head(queued).re)
  <2>. DEFINE x == Head(queued).re
              k == InFlight(Tail(queued), h, toStation)
  <2>1. x \in Nat \ {0} /\ Tail(queued) \in Seq(Frames) /\ l = <<x>> \o k
    <3>1. x \in Nat /\ Tail(queued) \in Seq(Frames) /\ l = <<x>> \o k
      BY <1>2, <1>3, <1>7, HandedOut, Zenon DEF InFlightNow
    <3>2. Head(queued) = queued[1] /\ 1 \in 1 .. Len(queued)
      BY <1>3, <1>7
    <3>3. QED
      BY <1>3, <3>1, <3>2
  <2>2. k \in Seq(Nat)
    BY <1>2, <1>3, <2>1, InFlightType, Zenon
  <2>3. InFlightNow' = k \/ InFlightNow' = Append(k, n)
    <3>1. InFlightNow' = InFlight(Tail(queued), h, toStation')
      BY <1>1, <1>7 DEF InFlightNow
    <3>2. QED
      BY <1>5, <2>1, <3>1, Zenon
  <2>. HIDE DEF x, k
  <2>4. /\ Append(handedOut, x) \in Seq(Nat)
        /\ Append(handedOut, x) \o k = handedOut \o l
    BY <1>3, <2>1, <2>2, TakenOut
  <2>5. OrderInv'
    <3>1. Ordered(Append(handedOut, x) \o k, Len(asked))
      BY <1>2, <2>4, Zenon DEF OrderInv
    <3>2. /\ Ordered(Append(handedOut, x) \o k, n)
          /\ Ordered(Append(handedOut, x) \o Append(k, n), n)
      BY <1>1, <2>2, <2>4, <3>1, OrderedSent, Zenon DEF n
    <3>3. QED
      BY <1>1, <1>7, <2>3, <3>2, Zenon DEF OrderInv, x
  <2>6. WireTypes'
    <3>1. \A i \in 1 .. Len(Tail(queued)) : Tail(queued)[i].re # 0
      BY <1>3, <1>7
    <3>2. \A i \in 1 .. Len(Append(handedOut, x)) : Append(handedOut, x)[i] # 0
      <4>1. \A i \in 1 .. Len(handedOut) : handedOut[i] # 0
        BY <1>2 DEF WireTypes
      <4>2. QED
        BY <1>3, <2>1, <4>1, SMTT(30)
    <3>3. QED
      BY <1>1, <1>2, <1>4, <1>7, <2>1, <2>4, <3>1, <3>2 DEF WireTypes, x
  <2>7. ~ Prompt'
    <3>1. SUFFICES ASSUME Prompt' PROVE FALSE
      OBVIOUS
    <3>2. Prompt /\ waiter = 0
      BY <1>7, <3>1, AskedBefore, Zenon DEF WaiterInv
    <3>3. AllFor(<<x>> \o k, 0) /\ Ordered(handedOut \o (<<x>> \o k), Len(asked))
      BY <1>2, <1>7, <2>1, <3>2, Zenon DEF PairInv, OrderInv
    <3>4. x = 0
      BY <1>3, <2>1, <2>2, <3>3, OnlyOne
    <3>5. QED
      BY <2>1, <3>4
  <2>8. QED
    BY <2>5, <2>6, <2>7 DEF RepliesInv, PairInv
<1>8. QED
  BY <1>6, <1>7, Zenon DEF Ask

\* A chunk is cut off the stream and put behind what is in the buffer.
ChunkCut(b, f, length) ==
  \E h, r \in Seq(Frames) :
    /\ h = b \o SubSeq(f, 1, length) /\ r = SubSeq(f, length + 1, Len(f))
    /\ b \o f = h \o r /\ (Len(h) + Len(r)) % 2 = 0

LEMMA ChunkTaken ==
  ASSUME NEW b \in Seq(Frames), NEW f \in Seq(Frames), (Len(b) + Len(f)) % 2 = 0,
         NEW length \in Nat, length =< Len(f)
  PROVE  ChunkCut(b, f, length)
<1>. DEFINE c == SubSeq(f, 1, length)
            r == SubSeq(f, length + 1, Len(f))
<1>1. Len(f) \in Nat /\ Len(b) \in Nat
  OBVIOUS
<1>2. c \in Seq(Frames) /\ r \in Seq(Frames)
  <2>1. /\ \A i \in 1 .. length : f[i] \in Frames
        /\ \A i \in length + 1 .. Len(f) : f[i] \in Frames
    BY <1>1
  <2>2. QED
    BY <1>1, <2>1, SubSeqProperties
<1>3. c \o r = f
  <2>1. SubSeq(f, 1, length) \o SubSeq(f, length + 1, Len(f)) = SubSeq(f, 1, Len(f))
    <3>1. 1 \in 1 .. Len(f) + 1 /\ length \in 1 - 1 .. Len(f) /\ Len(f) \in length .. Len(f)
      BY <1>1
    <3>2. QED
      BY <3>1, ConcatAdjacentSubSeq
  <2>2. QED
    BY <2>1, SubSeqFull
<1>. HIDE DEF c, r
<1>4. (b \o c) \o r = b \o f /\ b \o c \in Seq(Frames)
  <2>1. (b \o c) \o r = b \o (c \o r)
    BY <1>2, ConcatAssociative, SMTT(30)
  <2>2. QED
    BY <1>2, <1>3, <2>1
<1>5. (Len(b \o c) + Len(r)) % 2 = 0
  <2>1. Len(b \o c) + Len(r) = Len((b \o c) \o r)
    <3>. DEFINE bc == b \o c
    <3>1. bc \in Seq(Frames)
      BY <1>4
    <3>. HIDE DEF bc
    <3>2. Len(bc \o r) = Len(bc) + Len(r)
      BY <1>2, <3>1, ConcatProperties
    <3>3. QED
      BY <3>2 DEF bc
  <2>2. Len(b \o f) = Len(b) + Len(f)
    BY ConcatProperties
  <2>3. QED
    BY <1>4, <2>1, <2>2
<1>6. QED
  BY <1>2, <1>4, <1>5, Zenon DEF c, r, ChunkCut

\* What is decoded reaches the waiter or the queue, and the rest stays.
LEMMA DistributeReplies ==
  ASSUME ClientTypes, WaiterInv, RepliesInv, NEW h \in Seq(Frames), NEW r \in Seq(Frames),
         buffer \o fromStation = h \o r, (Len(h) + Len(r)) % 2 = 0,
         buffer' = Rest(h), fromStation' = r,
         \A k \in 1 .. Len(Complete(h)) : ~ Malformed(Complete(h)[k]),
         Distribute(Complete(h)), UNCHANGED <<asked, toStation, failure>>
  PROVE  RepliesInv'
<1>. DEFINE frames == Complete(h)
            next == Rest(h) \o r
            all == queued \o frames
<1>1. WireTypes /\ OrderInv /\ PairInv /\ InFlightNow \in Seq(Nat)
  BY WireFacts DEF RepliesInv
<1>2. /\ queued \in Seq(Frames) /\ handedOut \in Seq(Nat) /\ toStation \in Seq(Nat)
      /\ \A i \in 1 .. Len(queued) : queued[i].re # 0
  BY <1>1 DEF WireTypes
<1>3. /\ frames \in Seq(Frames) /\ Rest(h) \in Seq(Frames)
      /\ (Len(Rest(h)) + Len(r)) % 2 = 0
  BY CompleteType, ReadOn, Zenon
<1>4. next \in Seq(Frames)
  BY <1>3, ConcatProperties
<1>5. InFlightNow = InFlight(all, next, toStation)
  <2>1. InFlight(all, next, toStation) = InFlight(queued, h \o r, toStation)
    BY <1>2, Received, Zenon
  <2>2. QED
    BY <2>1, Zenon DEF InFlightNow
<1>6. \A k \in 1 .. Len(frames) : frames[k].re # 0
  <2>1. \A k \in 1 .. Len(frames) : frames[k] \in Frames
    BY <1>3, ElementOfSeq
  <2>2. QED
    BY <2>1, Zenon DEF Frames
<1>. HIDE DEF frames, next
<1>7. all \in Seq(Frames) /\ \A i \in 1 .. Len(all) : all[i].re # 0
  <2>1. all \in Seq(Frames) /\ Follows(all, queued, Len(queued), frames, Len(frames))
    BY <1>2, <1>3, Joined, Zenon
  <2>. HIDE DEF all
  <2>2. ASSUME NEW i \in 1 .. Len(queued) + Len(frames) PROVE all[i].re # 0
    <3>1. CASE i \in 1 .. Len(queued)
      BY <1>2, <2>1, <3>1, Zenon DEF Follows
    <3>2. CASE i - Len(queued) \in 1 .. Len(frames) /\ Len(queued) + (i - Len(queued)) = i
      <4>1. all[Len(queued) + (i - Len(queued))] = frames[i - Len(queued)]
        BY <2>1, <3>2, Zenon DEF Follows
      <4>2. QED
        BY <1>6, <3>2, <4>1, Zenon
    <3>3. QED
      BY <2>1, <3>1, <3>2, Zenon DEF Follows
  <2>3. QED
    BY <2>1, <2>2, Zenon DEF Follows
<1>8. CASE waiter = 0 \/ frames = << >>
  <2>1. queued' = all /\ UNCHANGED <<waiter, outcome, answer, handedOut>>
    BY <1>8 DEF Distribute, frames
  <2>2. InFlightNow' = InFlightNow
    BY <1>5, <2>1 DEF InFlightNow, next
  <2>3. WireTypes'
    BY <1>1, <1>3, <1>7, <2>1 DEF WireTypes
  <2>4. Prompt' = Prompt
    BY <2>1 DEF Prompt, Outstanding
  <2>5. QED
    BY <1>1, <2>1, <2>2, <2>3, <2>4 DEF RepliesInv, OrderInv, PairInv
<1>9. CASE waiter # 0 /\ frames # << >>
  <2>. DEFINE x == Head(frames).re
              k == InFlight(Tail(frames), next, toStation)
  <2>1. /\ waiter' = 0 /\ answer' = [answer EXCEPT ![waiter] = x]
        /\ handedOut' = Append(handedOut, x)
        /\ outcome' = [outcome EXCEPT ![waiter] = OutcomeOf(asked[waiter], Head(frames))]
        /\ queued' = queued \o Tail(frames)
    BY <1>9 DEF Distribute, frames
  <2>2. x \in Nat \ {0} /\ Tail(frames) \in Seq(Frames)
        /\ \A i \in 1 .. Len(Tail(frames)) : Tail(frames)[i].re # 0
    <3>1. Tail(frames) \in Seq(Frames) /\ Head(frames) = frames[1] /\ frames[1] \in Frames
          /\ 1 \in 1 .. Len(frames) /\ Len(Tail(frames)) = Len(frames) - 1 /\ Len(frames) \in Nat
          /\ \A i \in 1 .. Len(frames) - 1 : Tail(frames)[i] = frames[i + 1]
      BY <1>3, <1>9
    <3>2. \A i \in 1 .. Len(frames) - 1 : i + 1 \in 1 .. Len(frames)
      BY <3>1
    <3>3. frames[1].re \in Nat
      BY <3>1 DEF Frames
    <3>4. QED
      BY <1>6, <3>1, <3>2, <3>3
  <2>3. queued = << >> /\ all = frames /\ queued' = Tail(frames)
    <3>1. queued = << >>
      BY <1>9 DEF WaiterInv
    <3>2. QED
      BY <1>3, <2>1, <2>2, <3>1, ConcatEmptySeq
  <2>4. InFlightNow = <<x>> \o k /\ InFlightNow' = k
    <3>1. InFlightNow' = k
      BY <2>3 DEF InFlightNow, next
    <3>2. InFlight(frames, next, toStation) = <<x>> \o k
      BY <1>2, <1>3, <1>4, <1>9, HandedOut, ZenonT(30)
    <3>3. QED
      BY <1>5, <2>3, <3>1, <3>2, Zenon
  <2>5. k \in Seq(Nat)
    BY <1>2, <1>4, <2>2, InFlightType, Zenon
  <2>. HIDE DEF x, k
  <2>6. /\ Append(handedOut, x) \in Seq(Nat)
        /\ Append(handedOut, x) \o k = handedOut \o (<<x>> \o k)
    BY <1>2, <2>2, <2>5, TakenOut
  <2>7. OrderInv'
    BY <1>1, <2>1, <2>4, <2>6, Zenon DEF OrderInv
  <2>8. WireTypes'
    <3>1. \A i \in 1 .. Len(Append(handedOut, x)) : Append(handedOut, x)[i] # 0
      <4>1. \A i \in 1 .. Len(handedOut) : handedOut[i] # 0
        BY <1>1 DEF WireTypes
      <4>2. QED
        BY <1>2, <2>2, <4>1
    <3>2. QED
      BY <1>1, <1>3, <2>1, <2>2, <2>3, <2>6, <3>1 DEF WireTypes
  <2>9. ASSUME Prompt'
        PROVE  (\A n \in DOMAIN answer' : answer'[n] \in {0, n}) /\ AllFor(InFlightNow', waiter')
    <3>1. Prompt
      <4>1. OutcomeOf(asked[waiter], Head(frames)) \notin {"waiting", "timedOut"}
        BY OutcomeOfReply
      <4>2. QED
        BY <1>9, <2>1, <2>9, <4>1, WaitEnded, Zenon
    <3>2. failure = "none"
      BY <1>9 DEF WaiterInv
    <3>3. AllFor(<<x>> \o k, waiter) /\ Ordered(handedOut \o (<<x>> \o k), Len(asked))
      BY <1>1, <2>4, <3>1, <3>2, Zenon DEF PairInv, OrderInv
    <3>4. x = waiter /\ AllFor(k, 0)
      BY <1>2, <2>2, <2>5, <3>3, OnlyOne
    <3>5. \A n \in DOMAIN answer : answer[n] \in {0, n}
      BY <1>1, <3>1, Zenon DEF PairInv
    <3>6. QED
      BY <2>1, <2>4, <3>4, <3>5
  <2>10. QED
    BY <2>7, <2>8, <2>9 DEF RepliesInv, PairInv
<1>10. QED
  BY <1>8, <1>9

LEMMA BytesReplies ==
  ASSUME ClientTypes, WaiterInv, RepliesInv, NEW length \in Nat, Bytes(length)
  PROVE  RepliesInv'
<1>1. WireTypes /\ OrderInv /\ PairInv
  BY DEF RepliesInv
<1>2. PICK h, r \in Seq(Frames) :
        /\ h = buffer \o SubSeq(fromStation, 1, length)
        /\ r = SubSeq(fromStation, length + 1, Len(fromStation))
        /\ buffer \o fromStation = h \o r /\ (Len(h) + Len(r)) % 2 = 0
  <2>1. length =< Len(fromStation)
    BY DEF Bytes
  <2>2. QED
    <3>1. ChunkCut(buffer, fromStation, length)
      BY <1>1, <2>1, ChunkTaken, Zenon DEF WireTypes
    <3>2. QED
      BY <3>1, Zenon DEF ChunkCut
<1>. DEFINE frames == Complete(h)
            bad == {i \in DOMAIN frames : Malformed(frames[i])}
<1>3. /\ fromStation' = r /\ buffer' = Decode(h).left /\ UNCHANGED <<asked, toStation>>
      /\ \/ Decode(h).thrown = "none" /\ Distribute(Decode(h).frames) /\ UNCHANGED failure
         \/ Decode(h).thrown = "type" /\ Fail("violation") /\ UNCHANGED <<answer, handedOut, queued>>
         \/ UNCHANGED <<failure, outcome, answer, handedOut, waiter, queued>>
            /\ Decode(h).thrown = "text"
  BY <1>2 DEF Bytes
<1>4. CASE bad = {}
  <2>1. Decode(h).frames = frames /\ Decode(h).left = Rest(h) /\ Decode(h).thrown = "none"
    BY <1>4 DEF Decode
  <2>2. \A k \in 1 .. Len(frames) : ~ Malformed(frames[k])
    <3>1. DOMAIN frames = 1 .. Len(frames)
      BY CompleteType, LenProperties
    <3>2. QED
      BY <1>4, <3>1
  <2>3. QED
    BY <1>2, <1>3, <2>1, <2>2, DistributeReplies
<1>5. CASE bad # {}
  <2>1. Decode(h).frames = << >> /\ Decode(h).left = h
    BY <1>5 DEF Decode
  <2>2. InFlightNow' = InFlight(queued', buffer \o fromStation, toStation)
    BY <1>2, <1>3, <2>1 DEF InFlightNow
  <2>3. queued' = queued /\ handedOut' = handedOut /\ answer' = answer
    <3>1. queued \o << >> = queued
      BY <1>1 DEF WireTypes
    <3>2. QED
      BY <1>3, <2>1, <3>1 DEF Distribute
  <2>4. InFlightNow' = InFlightNow
    BY <2>2, <2>3 DEF InFlightNow
  <2>5. WireTypes'
    BY <1>1, <1>2, <1>3, <2>1, <2>3 DEF WireTypes
  <2>6. ASSUME Prompt' PROVE Prompt /\ (failure' = "none" => failure = "none" /\ waiter' = waiter)
    <3>1. CASE UNCHANGED <<failure, outcome, waiter>>
      BY <2>6, <3>1 DEF Prompt, Outstanding
    <3>2. CASE Fail("violation") /\ failure = "none"
      <4>1. failure' = "violation" /\ waiter' = 0
        BY <3>2 DEF Fail
      <4>2. CASE waiter = 0
        <5>1. outcome' = outcome
          BY <3>2, <4>2 DEF Fail
        <5>2. QED
          BY <2>6, <4>1, <4>2, <5>1 DEF Prompt, Outstanding
      <4>3. CASE waiter # 0
        <5>1. outcome' = [outcome EXCEPT ![waiter] = "failed"]
          BY <3>2, <4>3 DEF Fail
        <5>2. "failed" \notin {"waiting", "timedOut"}
          OBVIOUS
        <5>3. QED
          BY <2>6, <4>1, <4>3, <5>1, <5>2, WaitEnded
      <4>4. QED
        BY <4>2, <4>3
    <3>3. QED
      BY <1>3, <2>1, <3>1, <3>2 DEF Distribute, Fail
  <2>7. QED
    BY <1>1, <1>3, <2>3, <2>4, <2>5, <2>6 DEF RepliesInv, OrderInv, PairInv
<1>6. QED
  BY <1>4, <1>5

\* A frame that is written goes behind all that is still to be decoded.
LEMMA FrameBehind ==
  ASSUME NEW b \in Seq(Frames), NEW f \in Seq(Frames), NEW g \in Seq(Frames), Len(g) = 2
  PROVE  /\ f \o g \in Seq(Frames) /\ Len(f \o g) = Len(f) + 2
         /\ b \o (f \o g) = (b \o f) \o g
<1>1. f \o g \in Seq(Frames) /\ Len(f \o g) = Len(f) + Len(g)
  BY ConcatProperties
<1>2. \A s, t, u \in Seq(Frames) : (s \o t) \o u = s \o (t \o u)
  <2>1. ASSUME NEW s \in Seq(Frames), NEW t \in Seq(Frames), NEW u \in Seq(Frames)
        PROVE  (s \o t) \o u = s \o (t \o u)
    BY ConcatAssociative, SMTT(30)
  <2>2. QED
    BY <2>1, Zenon
<1>3. QED
  BY <1>1, <1>2, ZenonT(30)

\* What the station writes is the reply to the oldest request it has not read,
\* and the number stays in its place.
LEMMA ServeReplies ==
  ASSUME ClientAssumption, ClientTypes, RepliesInv, Serve
  PROVE  RepliesInv'
<1>. DEFINE n == Head(toStation)
            h == buffer \o fromStation
<1>1. /\ WireTypes /\ OrderInv /\ PairInv /\ h \in Seq(Frames) /\ Len(h) % 2 = 0
  BY WireFacts DEF RepliesInv
<1>2. /\ buffer \in Seq(Frames) /\ fromStation \in Seq(Frames) /\ queued \in Seq(Frames)
      /\ toStation \in Seq(Nat) /\ toStation # << >>
      /\ \A i \in 1 .. Len(toStation) : toStation[i] \in 1 .. Len(asked)
  BY <1>1 DEF WireTypes, Serve
<1>3. /\ n \in 1 .. Len(asked) /\ Tail(toStation) \in Seq(Nat)
      /\ \A i \in 1 .. Len(Tail(toStation)) : Tail(toStation)[i] \in 1 .. Len(asked)
  BY <1>2
<1>4. n \in Nat /\ n # 0 /\ asked[n] \in Kinds
  BY <1>3 DEF ClientTypes
<1>. HIDE DEF n
<1>5. PICK frame \in Frames : frame.re = n /\ fromStation' = fromStation \o Halves(frame)
  <2>1. Frame(n, asked[n]) \in Frames /\ Frame(n, "error") \in Frames
    BY <1>4 DEF Frame, Frames, FrameKinds
  <2>2. Frame(n, asked[n]).re = n /\ Frame(n, "error").re = n
    BY DEF Frame
  <2>3. \/ fromStation' = fromStation \o Halves(Frame(n, asked[n]))
        \/ fromStation' = fromStation \o Halves(Frame(n, "error"))
    BY DEF Serve, n
  <2>4. QED
    BY <2>1, <2>2, <2>3, Zenon
<1>6. /\ toStation' = Tail(toStation)
      /\ UNCHANGED <<asked, outcome, answer, handedOut, waiter, queued, failure, buffer>>
  BY DEF Serve, clientVars, callVars
<1>7. Halves(frame) \in Seq(Frames) /\ Len(Halves(frame)) = 2
  BY DEF Halves
<1>8. /\ fromStation' \in Seq(Frames) /\ Len(fromStation') = Len(fromStation) + 2
      /\ buffer \o fromStation' = h \o Halves(frame)
  <2>. DEFINE g == Halves(frame)
  <2>1. g \in Seq(Frames) /\ Len(g) = 2
    BY <1>7
  <2>. HIDE DEF g
  <2>2. /\ fromStation \o g \in Seq(Frames) /\ Len(fromStation \o g) = Len(fromStation) + 2
        /\ buffer \o (fromStation \o g) = h \o g
    BY <1>2, <2>1, FrameBehind, ZenonT(30)
  <2>3. QED
    BY <1>5, <2>2 DEF g
<1>9. InFlightNow' = InFlightNow
  <2>1. InFlight(queued, h \o Halves(frame), Tail(toStation)) = InFlight(queued, h, toStation)
    BY <1>1, <1>2, <1>5, FrameServed, Zenon DEF n
  <2>2. InFlightNow' = InFlight(queued, h \o Halves(frame), Tail(toStation))
    BY <1>6, <1>8 DEF InFlightNow
  <2>3. QED
    BY <2>1, <2>2, Zenon DEF InFlightNow
<1>10. WireTypes'
  <2>1. (Len(buffer) + (Len(fromStation) + 2)) % 2 = 0
    BY <1>1, <1>2 DEF WireTypes
  <2>2. QED
    BY <1>1, <1>3, <1>6, <1>8, <2>1 DEF WireTypes
<1>11. QED
  BY <1>1, <1>6, <1>9, <1>10 DEF RepliesInv, OrderInv, PairInv, Prompt, Outstanding

\* A malformed frame stands for no request, wherever it comes in.
LEMMA GarbleReplies ==
  ASSUME ClientAssumption, ClientTypes, RepliesInv, NEW kind \in Garbage, Garble(kind)
  PROVE  RepliesInv'
<1>. DEFINE frame == Frame(0, kind)
            h == buffer \o fromStation
<1>1. /\ WireTypes /\ OrderInv /\ PairInv /\ h \in Seq(Frames) /\ Len(h) % 2 = 0
  BY WireFacts DEF RepliesInv
<1>2. /\ buffer \in Seq(Frames) /\ fromStation \in Seq(Frames) /\ queued \in Seq(Frames)
      /\ toStation \in Seq(Nat) /\ handedOut \in Seq(Nat) /\ Len(asked) \in Nat
  BY <1>1 DEF WireTypes, ClientTypes
<1>3. frame \in Frames /\ frame.re = 0
  BY DEF Frame, Frames, FrameKinds, Malformed, ClientAssumption
<1>4. /\ fromStation' = fromStation \o Halves(frame)
      /\ UNCHANGED <<asked, outcome, answer, handedOut, waiter, queued, failure, buffer, toStation>>
  BY DEF Garble, clientVars, callVars
<1>. HIDE DEF frame
<1>5. Halves(frame) \in Seq(Frames) /\ Len(Halves(frame)) = 2
  BY <1>3 DEF Halves
<1>6. /\ fromStation' \in Seq(Frames) /\ Len(fromStation') = Len(fromStation) + 2
      /\ buffer \o fromStation' = h \o Halves(frame)
  <2>. DEFINE g == Halves(frame)
  <2>1. g \in Seq(Frames) /\ Len(g) = 2
    BY <1>5
  <2>. HIDE DEF g
  <2>2. /\ fromStation \o g \in Seq(Frames) /\ Len(fromStation \o g) = Len(fromStation) + 2
        /\ buffer \o (fromStation \o g) = h \o g
    BY <1>2, <2>1, FrameBehind, ZenonT(30)
  <2>3. QED
    BY <1>4, <2>2 DEF g
<1>7. PICK a \in Seq(Nat) : /\ InFlightNow = a \o toStation
                            /\ InFlightNow' = (a \o <<0>>) \o toStation
  <2>1. InFlightNow' = InFlight(queued, h \o Halves(frame), toStation)
    BY <1>4, <1>6 DEF InFlightNow
  <2>2. InFlightNow = InFlight(queued, h, toStation)
    BY DEF InFlightNow
  <2>. HIDE DEF h
  <2>3. \E a \in Seq(Nat) :
          /\ InFlight(queued, h, toStation) = a \o toStation
          /\ InFlight(queued, h \o Halves(frame), toStation) = (a \o <<0>>) \o toStation
    BY <1>1, <1>2, <1>3, Garbled, ZenonT(30)
  <2>4. QED
    BY <2>1, <2>2, <2>3
<1>8. WireTypes'
  <2>1. (Len(buffer) + (Len(fromStation) + 2)) % 2 = 0
    BY <1>1, <1>2 DEF WireTypes
  <2>2. QED
    BY <1>1, <1>4, <1>6, <2>1 DEF WireTypes
<1>9. OrderInv'
  <2>1. Ordered(handedOut \o (a \o toStation), Len(asked))
    BY <1>1, <1>7 DEF OrderInv
  <2>2. Ordered(handedOut \o ((a \o <<0>>) \o toStation), Len(asked))
    BY <1>2, <2>1, OrderedInserted
  <2>3. QED
    BY <1>4, <1>7, <2>2 DEF OrderInv
<1>10. PairInv'
  <2>1. Prompt' = Prompt
    BY <1>4 DEF Prompt, Outstanding
  <2>2. ASSUME AllFor(InFlightNow, waiter) PROVE AllFor(InFlightNow', waiter)
    <3>1. AllFor(a \o toStation, waiter)
      BY <1>7, <2>2
    <3>2. AllFor((a \o <<0>>) \o toStation, waiter)
      BY <1>2, <3>1, AllForInserted
    <3>3. QED
      BY <1>7, <3>2
  <2>3. QED
    BY <1>1, <1>4, <2>1, <2>2 DEF PairInv
<1>11. QED
  BY <1>8, <1>9, <1>10 DEF RepliesInv

LEMMA Replies_Step ==
  ASSUME ClientAssumption, ClientTypes, WaiterInv, RepliesInv, [ClientNext]_relayVars
  PROVE  RepliesInv'
<1>. USE DEF clientVars, callVars, wireVars
<1>1. ASSUME NEW kind \in Kinds, Ask(kind) PROVE RepliesInv'
  BY <1>1, AskReplies
<1>2. ASSUME NEW length \in 1 .. MaxChunk, Bytes(length) PROVE RepliesInv'
  <2>1. length \in Nat
    BY DEF ClientAssumption
  <2>2. QED
    BY <1>2, <2>1, BytesReplies
<1>3. CASE StreamEnds
  <2>1. /\ UNCHANGED <<queued, buffer, fromStation, toStation, asked, handedOut, answer>>
        /\ Fail("closed")
    BY <1>3 DEF StreamEnds
  <2>2. CASE UNCHANGED <<failure, waiter, outcome>>
    BY <2>1, <2>2, RepliesKept DEF Prompt, Outstanding
  <2>3. CASE failure' = "closed" /\ waiter' = 0 /\ waiter = 0 /\ outcome' = outcome
    BY <2>1, <2>3, RepliesKept DEF Prompt, Outstanding
  <2>4. CASE /\ failure' = "closed" /\ waiter' = 0 /\ waiter # 0
             /\ outcome' = [outcome EXCEPT ![waiter] = "failed"]
    <3>1. "failed" \notin {"waiting", "timedOut"}
      OBVIOUS
    <3>2. Prompt' => Prompt
      BY <2>4, <3>1, WaitEnded
    <3>3. QED
      BY <2>1, <2>4, <3>2, RepliesKept
  <2>5. QED
    BY <2>1, <2>2, <2>3, <2>4 DEF Fail
<1>4. ASSUME NEW n \in Request, Timeout(n) PROVE RepliesInv'
  <2>1. /\ UNCHANGED <<queued, buffer, fromStation, toStation, asked, handedOut, answer, failure>>
        /\ n \in DOMAIN outcome /\ outcome' = [outcome EXCEPT ![n] = "timedOut"]
    BY <1>4 DEF Timeout, Outstanding
  <2>2. ~ Prompt'
    BY <2>1 DEF Prompt
  <2>3. WireTypes' /\ InFlightNow' = InFlightNow
    BY <2>1 DEF RepliesInv, WireTypes, InFlightNow
  <2>4. QED
    BY <2>1, <2>2, <2>3 DEF RepliesInv, OrderInv, PairInv
<1>5. CASE Dispose \/ DisposeAbruptly \/ StationLeaves \/ UNCHANGED relayVars
  <2>1. /\ UNCHANGED <<queued, buffer, fromStation, toStation, asked, handedOut, answer>>
        /\ UNCHANGED <<failure, waiter, outcome>>
    BY <1>5 DEF Dispose, DisposeAbruptly, StationLeaves, relayVars
  <2>2. Prompt' = Prompt
    BY <2>1 DEF Prompt, Outstanding
  <2>3. QED
    BY <2>1, <2>2, RepliesKept
<1>6. CASE Serve
  BY <1>6, ServeReplies
<1>7. ASSUME NEW kind \in Garbage, Garble(kind) PROVE RepliesInv'
  BY <1>7, GarbleReplies
<1>8. QED
  BY <1>1, <1>2, <1>3, <1>4, <1>5, <1>6, <1>7 DEF ClientNext

LEMMA RepliesInvHolds == ClientSpec => []RepliesInv
<1>1. ClientTypes /\ WaiterInv /\ RepliesInv /\ [ClientNext]_relayVars => RepliesInv'
  BY ClientAssumption, Replies_Step
<1>2. QED
  BY <1>1, Replies_Init, WaiterInvHolds, PTL DEF ClientSpec

LEMMA HandedOutInOrder == RepliesInv => RepliesOnceInOrder
<1>. SUFFICES ASSUME RepliesInv PROVE RepliesOnceInOrder
  OBVIOUS
<1>. DEFINE l == InFlightNow
            u == handedOut \o l
<1>1. /\ handedOut \in Seq(Nat) /\ l \in Seq(Nat) /\ Ordered(u, Len(asked))
      /\ \A i \in 1 .. Len(handedOut) : handedOut[i] # 0
  BY WireFacts DEF RepliesInv, WireTypes, OrderInv
<1>. HIDE DEF l
<1>2. /\ Len(u) = Len(handedOut) + Len(l) /\ Len(handedOut) \in Nat /\ Len(l) \in Nat
      /\ \A i \in 1 .. Len(handedOut) : u[i] = handedOut[i]
  BY <1>1
<1>. HIDE DEF u
<1>3. \A i \in 1 .. Len(handedOut) : i \in 1 .. Len(u)
  BY <1>2
<1>4. DOMAIN handedOut = 1 .. Len(handedOut)
  BY <1>1
<1>5. QED
  BY <1>1, <1>2, <1>3, <1>4 DEF Ordered, RepliesOnceInOrder

\* However the bytes are cut into chunks, whatever comes in between, and whoever
\* has stopped waiting: replies are given out in the order of their requests, and
\* none twice.
THEOREM RepliesHandedOutOnce == ClientSpec => []RepliesOnceInOrder
BY HandedOutInOrder, RepliesInvHolds, PTL

\* As long as nobody has given up waiting, each caller is given its own reply.
THEOREM PromptCallsArePaired == ClientSpec => []PairedUntilTimeout
<1>1. RepliesInv => PairedUntilTimeout
  BY DEF RepliesInv, PairInv, Prompt, PairedUntilTimeout
<1>2. QED
  BY <1>1, RepliesInvHolds, PTL

-----------------------------------------------------------------------------
(* The client and the session. *)

Elements(s) == {s[i] : i \in 1 .. Len(s)}

\* The frames on their way from the station to a caller.
OnWire == Elements(queued) \cup Elements(buffer) \cup Elements(fromStation)

\* The station has handled this request, and it was an open call with a handle.
Handled(k) == k \in 1 .. Len(asked) /\ \A i \in 1 .. Len(toStation) : toStation[i] # k
Acknowledged(handle) == [reply |-> [type |-> "OPEN_ACK", handle |-> handle], call |-> NotCalled]
Done(k) == answered[k] # Unanswered
Acked(k) == \E h \in Handle : answered[k] = Acknowledged(h)

Genuine(frame) == Handled(frame.re) /\ (frame.kind = "open" => Acked(frame.re))

LEMMA AnswersAnswer ==
  /\ \A r, c : [reply |-> r, call |-> c] # Unanswered
  /\ \A h : Acknowledged(h) # Unanswered
BY DEF Unanswered, Acknowledged

\* Some request to close this target has been made.
CloseAsked(h) == \E m \in 1 .. Len(asked) : asked[m] = "close" /\ target[m] = h

RequestTypes ==
  /\ Len(asked) =< MaxRequests
  /\ target \in Seq(Handle) /\ Len(target) = Len(asked)
  /\ IsSeq(answered) /\ Len(answered) = Len(asked)
  /\ nextHandle + Len(toStation) =< Len(asked) + 1
  /\ station = "serving" => ~ finished

WireGenuine == \A frame \in OnWire : Genuine(frame)

\* What callers were given: nothing twice, and open calls what belongs to them.
AnswersGenuine ==
  /\ \A n \in 1 .. Len(asked) :
       /\ answer[n] # 0 => Handled(answer[n]) /\ answer[n] \in Elements(handedOut)
       /\ asked[n] = "open" /\ outcome[n] = "returned" => answer[n] # 0 /\ Acked(answer[n])
  /\ \A n, m \in 1 .. Len(asked) : answer[n] = answer[m] /\ answer[n] # 0 => n = m

\* No number was acknowledged twice, and its target is there until somebody asks
\* for it to be closed.
AcksDistinct ==
  \A k \in 1 .. Len(asked) : \A h \in Handle :
    answered[k] = Acknowledged(h) =>
      /\ h < nextHandle
      /\ \A l \in 1 .. Len(asked) : answered[l] = Acknowledged(h) => l = k
      /\ h \in Listed \/ CloseAsked(h)

ClientPart == ClientTypes /\ WaiterInv /\ RepliesInv

HostStationInv ==
  /\ SessionInv /\ ClientPart
  /\ RequestTypes /\ WireGenuine /\ AnswersGenuine /\ AcksDistinct

-----------------------------------------------------------------------------
(* The station is what the client takes it to be. *)

\* Every request is answered once, with a reply of its type or with ERROR, and
\* BYE, which is never refused, is the one that ends a session that answers.
LEMMA RequestAnswered ==
  ASSUME NEW kind \in Checked \cup Unchecked, NEW handle, HandleRequest(kind, handle)
  PROVE  /\ ~ finished
         /\ \/ reply'.type = "ERROR" /\ kind # "bye"
            \/ reply'.type = ReplyTo[kind] /\ (finished' <=> kind = "bye")
<1>. USE DEF Checked, Unchecked, ReplyTo
<1>1. CASE kind = "bye" /\ Bye
  BY <1>1 DEF Bye
<1>2. CASE kind # "hello" /\ kind # "bye" /\ BadGreeting
  BY <1>2 DEF BadGreeting, SendError
<1>3. ASSUME NEW reason, kind # "bye", Live, Refuse(reason)
      PROVE  ~ finished /\ reply'.type = "ERROR" /\ kind # "bye"
  BY <1>3 DEF Live, Refuse, SendError
<1>4. ASSUME NEW offer, kind = "hello", Hello(offer)
      PROVE  /\ ~ finished
             /\ reply'.type = "ERROR" \/ (reply'.type = "HELLO_ACK" /\ ~ finished')
  BY <1>4 DEF Hello, SendError
<1>5. CASE kind = "hello" /\ Unsupported
  BY <1>3, <1>5 DEF Unsupported
<1>6. CASE kind = "caps" /\ CapsRequest
  BY <1>6 DEF CapsRequest, Live, SendCaps, Served
<1>7. CASE kind = "open" /\ Open(TRUE)
  <2>1. Live /\ ~ Refuse("BAD_ARGUMENT") => UNCHANGED finished
    BY <1>7 DEF Open, Served
  <2>2. Live /\ (reply'.type = "ERROR" \/ (reply'.type = "OPEN_ACK" /\ finished' = finished))
    BY <1>7 DEF Open, Served, SendError, Refuse
  <2>3. QED
    BY <1>7, <2>2 DEF Live
<1>8. ASSUME NEW role, NEW shape, Drive(handle, TRUE, role, shape)
      PROVE  /\ ~ finished
             /\ reply'.type = "ERROR" \/ (reply'.type = "STATUS" /\ ~ finished')
  BY <1>8 DEF Drive, Deliver, Live, Served, SendError, SendStatus, Refuse
<1>9. CASE kind = "post" /\ Post(handle, TRUE)
  BY <1>8, <1>9 DEF Post
<1>10. CASE kind = "set" /\ Set(handle, TRUE)
  BY <1>8, <1>10 DEF Set
<1>11. CASE kind = "close" /\ Close(handle)
  BY <1>11 DEF Close, Live, Served, SendError, SendStatus, Refuse
<1>12. CASE kind = "diag" /\ DiagRequest("true", "absent")
  BY <1>12 DEF DiagRequest, Live, SendError, SendDiagnostics
<1>13. CASE kind = "hello" /\ \E offer \in Offers : Hello(offer)
  BY <1>4, <1>13
<1>14. QED
  BY <1>1, <1>2, <1>5, <1>6, <1>7, <1>9, <1>10, <1>11, <1>12, <1>13, Zenon DEF HandleRequest

\* An acknowledged open call takes the next handle, and nothing is called.
LEMMA OpenAnswered ==
  ASSUME SessionInv, NEW kind, NEW handle, HandleRequest(kind, handle),
         reply'.type = "OPEN_ACK"
  PROVE  /\ kind = "open" /\ TakeHandle /\ held' = held \cup {nextHandle}
         /\ [reply |-> reply', call |-> call'] = Acknowledged(nextHandle)
<1>1. CASE kind = "open" /\ Open(TRUE)
  <2>1. /\ TakeHandle /\ reply' = [type |-> "OPEN_ACK", handle |-> nextHandle]
        /\ held' = held \cup {nextHandle} /\ call' = NotCalled
    BY <1>1 DEF Open, SendError, Refuse, NoCall
  <2>2. QED
    BY <1>1, <2>1 DEF Acknowledged
<1>2. CASE kind = "bye" /\ Bye
  BY <1>2 DEF Bye
<1>3. CASE kind # "hello" /\ kind # "bye" /\ BadGreeting
  BY <1>3 DEF BadGreeting, SendError
<1>4. ASSUME NEW offer, Hello(offer) PROVE FALSE
  BY <1>4 DEF Hello, SendError
<1>5. CASE kind = "hello" /\ Unsupported
  BY <1>5 DEF Unsupported, Refuse, SendError
<1>6. CASE kind = "caps" /\ CapsRequest
  BY <1>6 DEF CapsRequest, SendCaps
<1>7. ASSUME NEW role, NEW shape, Drive(handle, TRUE, role, shape) PROVE FALSE
  BY <1>7 DEF Drive, Deliver, SendError, SendStatus, Refuse
<1>8. CASE kind = "close" /\ Close(handle)
  BY <1>8 DEF Close, SendError, SendStatus, Refuse
<1>9. CASE kind = "diag" /\ DiagRequest("true", "absent")
  BY <1>9 DEF DiagRequest, SendError, SendDiagnostics
<1>10. QED
  BY <1>1, <1>2, <1>3, <1>4, <1>5, <1>6, <1>7, <1>8, <1>9 DEF HandleRequest, Post, Set

LEMMA NextRequest ==
  ASSUME ClientAssumption, ClientPart, HandleNext
  PROVE  /\ Head(toStation) \in 1 .. Len(asked) /\ asked[Head(toStation)] \in Kinds
         /\ Len(asked) \in Nat /\ Kinds \subseteq Checked \cup Unchecked
         /\ HandleRequest(asked[Head(toStation)], target[Head(toStation)])
         /\ toStation \in Seq(Nat) /\ toStation # << >>
<1>1. /\ toStation \in Seq(Nat) /\ \A i \in 1 .. Len(toStation) : toStation[i] \in 1 .. Len(asked)
      /\ toStation # << >> /\ asked \in Seq(Kinds)
  BY DEF ClientPart, ClientTypes, RepliesInv, WireTypes, HandleNext
<1>2. Head(toStation) \in 1 .. Len(asked)
  BY <1>1
<1>3. asked[Head(toStation)] \in Kinds /\ Len(asked) \in Nat
  BY <1>1, <1>2
<1>4. QED
  BY <1>1, <1>2, <1>3, Zenon DEF HandleNext, ClientAssumption

LEMMA StationServes ==
  ASSUME ClientAssumption, ClientPart, HandleNext
  PROVE  /\ Serve
         /\ FrameOf(Head(toStation), reply') \in Frames
         /\ FrameOf(Head(toStation), reply').re = Head(toStation)
         /\ FrameOf(Head(toStation), reply').kind = "open" => reply'.type = "OPEN_ACK"
<1>. DEFINE n == Head(toStation)
            kind == asked[n]
<1>1. /\ kind \in Checked \cup Unchecked
      /\ HandleRequest(kind, target[n])
      /\ kind \in Kinds /\ n \in Nat \ {0}
  BY NextRequest
<1>2. /\ station = "serving" /\ toStation # << >>
      /\ fromStation' = fromStation \o Halves(FrameOf(n, reply'))
      /\ station' = IF finished' THEN "gone" ELSE station
      /\ toStation' = Tail(toStation) /\ UNCHANGED clientVars
  BY DEF HandleNext
<1>. HIDE DEF n
<1>3. \/ reply'.type = "ERROR" /\ kind # "bye"
      \/ reply'.type = ReplyTo[kind] /\ (finished' <=> kind = "bye")
  BY <1>1, RequestAnswered
<1>4. CASE reply'.type = "ERROR" /\ kind # "bye"
  <2>1. FrameOf(n, reply') = Frame(n, "error")
    BY <1>4 DEF FrameOf
  <2>2. /\ Frame(n, "error").kind # "open" /\ Frame(n, "error").re = n
        /\ Frame(n, "error") \in Frames
    BY <1>1 DEF Frame, Frames, FrameKinds
  <2>3. QED
    BY <1>2, <1>4, <2>1, <2>2 DEF Serve, n
<1>5. CASE reply'.type = ReplyTo[kind] /\ reply'.type # "ERROR" /\ (finished' <=> kind = "bye")
  <2>1. FrameOf(n, reply') = Frame(n, kind)
    BY <1>5 DEF FrameOf
  <2>2. Frame(n, kind).kind = kind /\ Frame(n, kind).re = n /\ Frame(n, kind) \in Frames
    BY <1>1 DEF Frame, Frames, FrameKinds
  <2>3. kind = "open" => reply'.type = "OPEN_ACK"
    BY <1>5 DEF ReplyTo
  <2>4. station' = IF kind = "bye" THEN "gone" ELSE station
    BY <1>2, <1>5
  <2>5. QED
    BY <1>2, <2>1, <2>2, <2>3, <2>4 DEF Serve, n
<1>6. reply'.type = ReplyTo[kind] => reply'.type # "ERROR"
  BY <1>1 DEF ReplyTo, Checked, Unchecked
<1>7. QED
  BY <1>3, <1>4, <1>5, <1>6

\* There are as many handles left as there are requests.
LEMMA HandleLeft ==
  ASSUME ClientAssumption, HostStationAssumption, SessionInv, ClientPart, RequestTypes, HandleNext
  PROVE  nextHandle =< MaxHandle /\ nextHandle \notin Listed
<1>1. /\ nextHandle \in 1 .. MaxHandle + 1 /\ \A h \in Listed : h < nextHandle
      /\ MaxHandle \in Nat
  BY SessionAssumption DEF SessionInv, HandleInv
<1>2. Len(asked) \in Nat /\ Len(toStation) \in Nat /\ Len(toStation) >= 1
  BY NextRequest
<1>3. nextHandle =< Len(asked) /\ Len(asked) =< MaxRequests /\ MaxRequests =< MaxHandle
  BY <1>1, <1>2, HostStationAssumption DEF RequestTypes
<1>4. QED
  BY <1>1, <1>2, <1>3, ClientAssumption DEF ClientAssumption

LEMMA SessionServes ==
  ASSUME ClientAssumption, HostStationAssumption, SessionInv, ClientPart, RequestTypes, HandleNext
  PROVE  SessionNext
<1>. DEFINE n == Head(toStation)
            kind == asked[n]
            handle == target[n]
<1>1. /\ n \in 1 .. Len(asked) /\ HandleRequest(kind, handle)
      /\ Len(asked) \in Nat /\ toStation \in Seq(Nat) /\ toStation # << >>
  BY NextRequest
<1>2. handle \in HandleFields
  BY <1>1, HostStationAssumption DEF RequestTypes
<1>3. nextHandle =< MaxHandle /\ nextHandle \notin Listed
  BY HandleLeft
<1>. HIDE DEF n, kind, handle
<1>4. "true" \in Switch /\ "absent" \in Switch /\ TRUE \in BOOLEAN
  BY DEF Switch
<1>5. QED
  BY <1>1, <1>2, <1>3, <1>4, Zenon DEF HandleRequest, SessionNext

\* A step of the two together is one the client may take, and one the session may.
LEMMA ServesAsExpected_Step ==
  ASSUME ClientAssumption, ClientPart, [HostStationNext]_hostStationVars
  PROVE  [ClientNext]_relayVars
<1>1. ASSUME NEW kind \in Kinds, NEW handle, AskAbout(kind, handle) PROVE ClientNext
  BY <1>1 DEF AskAbout, ClientNext
<1>2. CASE ClientRuns
  BY <1>2 DEF ClientRuns, ClientNext
<1>3. CASE HandleNext
  BY <1>3, StationServes DEF ClientNext
<1>4. CASE UNCHANGED hostStationVars
  BY <1>4, Zenon DEF hostStationVars
<1>5. QED
  BY <1>1, <1>2, <1>3, <1>4 DEF HostStationNext

LEMMA SessionInside_Step ==
  ASSUME ClientAssumption, HostStationAssumption, SessionInv, ClientPart, RequestTypes,
         [HostStationNext]_hostStationVars
  PROVE  [SessionNext]_vars
<1>1. ASSUME NEW kind, NEW handle, AskAbout(kind, handle) PROVE UNCHANGED vars
  BY <1>1, Zenon DEF AskAbout
<1>2. CASE ClientRuns
  BY <1>2, Zenon DEF ClientRuns
<1>3. CASE HandleNext
  BY <1>3, SessionServes
<1>4. CASE UNCHANGED hostStationVars
  BY <1>4, Zenon DEF hostStationVars
<1>5. QED
  BY <1>1, <1>2, <1>3, <1>4, Zenon DEF HostStationNext

-----------------------------------------------------------------------------
(* What a step of the client gives to whom. *)

LEMMA ElementsOfTail ==
  ASSUME NEW S, NEW s \in Seq(S), s # << >>
  PROVE  Elements(Tail(s)) \subseteq Elements(s) /\ Head(s) \in Elements(s)
<1>1. /\ Len(Tail(s)) = Len(s) - 1 /\ Len(s) \in Nat \ {0} /\ Head(s) = s[1]
      /\ \A i \in 1 .. Len(s) - 1 : Tail(s)[i] = s[i + 1]
  OBVIOUS
<1>2. 1 \in 1 .. Len(s) /\ \A i \in 1 .. Len(s) - 1 : i + 1 \in 1 .. Len(s)
  BY <1>1
<1>3. QED
  BY <1>1, <1>2 DEF Elements

LEMMA ElementsJoined ==
  ASSUME NEW s \in Seq(Frames), NEW t \in Seq(Frames)
  PROVE  Elements(s \o t) = Elements(s) \cup Elements(t)
<1>1. PICK m, n : m = Len(s) /\ n = Len(t)
  OBVIOUS
<1>2. m \in Nat /\ n \in Nat /\ Follows(s \o t, s, m, t, n)
  BY <1>1, Joined, Zenon
<1>3. \A i \in 1 .. m : i \in 1 .. m + n
  BY <1>2
<1>4. \A j \in 1 .. n : m + j \in 1 .. m + n
  BY <1>2
<1>5. ASSUME NEW x \in Elements(s \o t) PROVE x \in Elements(s) \cup Elements(t)
  <2>1. PICK i \in 1 .. m + n : x = (s \o t)[i]
    BY <1>2, <1>5, Zenon DEF Elements, Follows
  <2>2. CASE i \in 1 .. m
    BY <1>1, <1>2, <2>1, <2>2, Zenon DEF Elements, Follows
  <2>3. CASE i - m \in 1 .. n /\ m + (i - m) = i
    <3>1. x = t[i - m]
      BY <1>2, <2>1, <2>3, Zenon DEF Follows
    <3>2. QED
      BY <1>1, <2>3, <3>1, Zenon DEF Elements
  <2>4. QED
    BY <1>2, <2>1, <2>2, <2>3, Zenon DEF Follows
<1>6. ASSUME NEW x \in Elements(s) PROVE x \in Elements(s \o t)
  <2>1. PICK i \in 1 .. m : x = s[i]
    BY <1>1, <1>6, Zenon DEF Elements
  <2>2. QED
    BY <1>2, <1>3, <2>1, Zenon DEF Elements, Follows
<1>7. ASSUME NEW x \in Elements(t) PROVE x \in Elements(s \o t)
  <2>1. PICK j \in 1 .. n : x = t[j]
    BY <1>1, <1>7, Zenon DEF Elements
  <2>2. QED
    BY <1>2, <1>4, <2>1, Zenon DEF Elements, Follows
<1>8. QED
  BY <1>5, <1>6, <1>7

LEMMA ElementsOfPart ==
  ASSUME NEW S, NEW s \in Seq(S), NEW a \in Nat \ {0}, NEW b \in Nat, b =< Len(s)
  PROVE  SubSeq(s, a, b) \in Seq(S) /\ Elements(SubSeq(s, a, b)) \subseteq Elements(s)
<1>1. Len(s) \in Nat /\ \A i \in a .. b : i \in 1 .. Len(s) /\ s[i] \in S
  OBVIOUS
<1>2. SubSeq(s, a, b) \in Seq(S) /\ \A i \in 1 .. Len(SubSeq(s, a, b)) :
        SubSeq(s, a, b)[i] = s[a + i - 1] /\ a + i - 1 \in a .. b
  <2>1. CASE a =< b
    <3>1. /\ SubSeq(s, a, b) \in Seq(S) /\ Len(SubSeq(s, a, b)) = b - a + 1
          /\ \A i \in 1 .. b - a + 1 : SubSeq(s, a, b)[i] = s[a + i - 1]
      BY <1>1, <2>1, SubSeqProperties
    <3>2. \A i \in 1 .. b - a + 1 : a + i - 1 \in a .. b
      BY <2>1
    <3>3. QED
      BY <3>1, <3>2, Zenon
  <2>2. CASE ~ a =< b
    <3>1. SubSeq(s, a, b) = << >>
      BY <1>1, <2>2, SubSeqEmpty
    <3>2. QED
      BY <3>1
  <2>3. QED
    BY <2>1, <2>2
<1>3. QED
  BY <1>1, <1>2, Zenon DEF Elements

LEMMA ElementsDecoded ==
  ASSUME NEW h \in Seq(Frames)
  PROVE  Elements(Complete(h)) \subseteq Elements(h) /\ Elements(Rest(h)) \subseteq Elements(h)
<1>1. /\ Len(Complete(h)) = Len(h) \div 2 /\ Len(h) \in Nat
      /\ \A k \in 1 .. Len(h) \div 2 : Complete(h)[k] = h[2 * k]
  BY CompleteType
<1>2. \A k \in 1 .. Len(h) \div 2 : 2 * k \in 1 .. Len(h)
  BY <1>1, HalfOf
<1>3. Elements(Complete(h)) \subseteq Elements(h)
  BY <1>1, <1>2, Zenon DEF Elements
<1>4. 2 * (Len(h) \div 2) + 1 \in Nat \ {0}
  BY <1>1, HalfOf
<1>5. Len(h) =< Len(h)
  BY <1>1
<1>6. QED
  BY <1>1, <1>3, <1>4, <1>5, ElementsOfPart, Zenon DEF Rest

LEMMA OnWireType ==
  ASSUME ClientPart
  PROVE  /\ queued \in Seq(Frames) /\ buffer \in Seq(Frames) /\ fromStation \in Seq(Frames)
         /\ Len(asked) \in Nat /\ Len(outcome) = Len(asked) /\ DOMAIN outcome = 1 .. Len(asked)
         /\ waiter # 0 => waiter \in 1 .. Len(asked)
BY DEF ClientPart, ClientTypes, RepliesInv, WireTypes, WaiterInv, Outstanding

\* How a call stands that was given no reply.
Unfinished == {"waiting", "refused", "failed", "timedOut"}

\* A new call is given nothing yet, or the oldest reply that is there.
LEMMA AskGives ==
  ASSUME ClientPart, NEW kind \in Kinds, Ask(kind)
  PROVE  /\ OnWire' \subseteq OnWire
         /\ asked' = Append(asked, kind)
         /\ toStation' = toStation \/ toStation' = Append(toStation, Len(asked) + 1)
         /\ \/ /\ handedOut' = handedOut /\ answer' = Append(answer, 0)
               /\ \E o \in Unfinished : outcome' = Append(outcome, o)
            \/ \E frame \in OnWire :
                 /\ handedOut' = Append(handedOut, frame.re) /\ answer' = Append(answer, frame.re)
                 /\ outcome' = Append(outcome, OutcomeOf(kind, frame))
<1>1. UNCHANGED <<buffer, fromStation>> /\ asked' = Append(asked, kind)
      /\ (toStation' = toStation \/ toStation' = Append(toStation, Len(asked) + 1))
  BY DEF Ask
<1>2. CASE UNCHANGED <<queued, handedOut>> /\ answer' = Append(answer, 0)
  <2>1. OnWire' = OnWire
    BY <1>1, <1>2 DEF OnWire
  <2>2. \E o \in Unfinished : outcome' = Append(outcome, o)
    <3>1. queued # << >> => Tail(queued) # queued
      <4>1. queued # << >> => Len(Tail(queued)) = Len(queued) - 1 /\ Len(queued) \in Nat
        BY OnWireType
      <4>2. QED
        BY <4>1
    <3>2. \/ outcome' = Append(outcome, "refused") \/ outcome' = Append(outcome, "waiting")
      BY <1>2, <3>1, Zenon DEF Ask
    <3>3. QED
      BY <3>2 DEF Unfinished
  <2>3. QED
    BY <1>1, <1>2, <2>1, <2>2
<1>3. CASE /\ queued # << >> /\ queued' = Tail(queued)
           /\ outcome' = Append(outcome, OutcomeOf(kind, Head(queued)))
           /\ answer' = Append(answer, Head(queued).re)
           /\ handedOut' = Append(handedOut, Head(queued).re)
  <2>1. Elements(queued') \subseteq Elements(queued) /\ Head(queued) \in Elements(queued)
    BY <1>3, OnWireType, ElementsOfTail
  <2>2. OnWire' \subseteq OnWire /\ Head(queued) \in OnWire
    BY <1>1, <2>1 DEF OnWire
  <2>3. QED
    BY <1>1, <1>3, <2>2
<1>4. QED
  BY <1>2, <1>3 DEF Ask

\* A turn of the event loop gives a reply to the registered call, if to any.
LEMMA RunsGive ==
  ASSUME ClientAssumption, ClientPart, ClientRuns
  PROVE  /\ OnWire' \subseteq OnWire /\ UNCHANGED <<asked, toStation>>
         /\ \/ /\ UNCHANGED <<answer, handedOut>>
               /\ \A n \in 1 .. Len(asked) : outcome'[n] = outcome[n] \/ outcome'[n] \in Unfinished
            \/ \E frame \in OnWire, w \in 1 .. Len(asked) :
                 /\ handedOut' = Append(handedOut, frame.re)
                 /\ answer' = [answer EXCEPT ![w] = frame.re]
                 /\ outcome' = [outcome EXCEPT ![w] = OutcomeOf(asked[w], frame)]
<1>. USE DEF clientVars, callVars, wireVars
<1>1. ASSUME NEW e, Fail(e), UNCHANGED <<answer, handedOut>>
      PROVE  \A n \in 1 .. Len(asked) : outcome'[n] = outcome[n] \/ outcome'[n] \in Unfinished
  BY <1>1, OnWireType DEF Fail, Unfinished
<1>2. ASSUME NEW length \in 1 .. MaxChunk, Bytes(length)
      PROVE  /\ OnWire' \subseteq OnWire /\ UNCHANGED <<asked, toStation>>
             /\ \/ /\ UNCHANGED <<answer, handedOut>>
                   /\ \A n \in 1 .. Len(asked) : outcome'[n] = outcome[n] \/ outcome'[n] \in Unfinished
                \/ \E frame \in OnWire, w \in 1 .. Len(asked) :
                     /\ handedOut' = Append(handedOut, frame.re)
                     /\ answer' = [answer EXCEPT ![w] = frame.re]
                     /\ outcome' = [outcome EXCEPT ![w] = OutcomeOf(asked[w], frame)]
  <2>. DEFINE c == SubSeq(fromStation, 1, length)
              h == buffer \o c
  <2>1. length \in Nat /\ length =< Len(fromStation) /\ 1 \in Nat \ {0} /\ length + 1 \in Nat \ {0}
        /\ Len(fromStation) \in Nat /\ Len(fromStation) =< Len(fromStation)
    BY <1>2, OnWireType DEF Bytes, ClientAssumption
  <2>2. c \in Seq(Frames) /\ Elements(c) \subseteq Elements(fromStation)
    BY <2>1, OnWireType, ElementsOfPart, Zenon
  <2>3. Elements(fromStation') \subseteq Elements(fromStation)
    <3>1. fromStation' = SubSeq(fromStation, length + 1, Len(fromStation))
      BY <1>2 DEF Bytes
    <3>2. QED
      BY <2>1, <3>1, OnWireType, ElementsOfPart, Zenon
  <2>. HIDE DEF c
  <2>4. h \in Seq(Frames) /\ Elements(h) \subseteq OnWire
    <3>1. Elements(h) = Elements(buffer) \cup Elements(c)
      BY <2>2, OnWireType, ElementsJoined, Zenon
    <3>2. QED
      BY <2>2, <3>1, OnWireType, ConcatProperties DEF OnWire
  <2>5. /\ buffer' = Decode(h).left /\ UNCHANGED <<asked, toStation>>
        /\ \/ Distribute(Decode(h).frames) /\ UNCHANGED failure
           \/ Fail("violation") /\ UNCHANGED <<answer, handedOut, queued>>
           \/ UNCHANGED <<failure, outcome, answer, handedOut, waiter, queued>>
    BY <1>2 DEF Bytes, c
  <2>. HIDE DEF h
  <2>6. /\ Decode(h).left = h \/ Decode(h).left = Rest(h)
        /\ Decode(h).frames = << >> \/ Decode(h).frames = Complete(h)
    BY DEF Decode
  <2>7. Elements(buffer') \subseteq OnWire
    BY <2>4, <2>5, <2>6, ElementsDecoded
  <2>8. Decode(h).frames \in Seq(Frames) /\ Elements(Decode(h).frames) \subseteq OnWire
    <3>1. Elements(<< >>) = {} /\ << >> \in Seq(Frames)
      BY DEF Elements
    <3>2. Complete(h) \in Seq(Frames) /\ Elements(Complete(h)) \subseteq OnWire
      BY <2>4, ElementsDecoded, CompleteType
    <3>3. QED
      BY <2>6, <3>1, <3>2
  <2>9. CASE UNCHANGED <<answer, handedOut, queued>>
             /\ (Fail("violation") \/ UNCHANGED outcome)
    <3>1. OnWire' \subseteq OnWire
      BY <2>3, <2>7, <2>9 DEF OnWire
    <3>2. QED
      BY <1>1, <2>5, <2>9, <3>1
  <2>10. CASE Distribute(Decode(h).frames)
    <3>. DEFINE frames == Decode(h).frames
    <3>. HIDE DEF frames
    <3>1. CASE waiter = 0 \/ frames = << >>
      <4>1. queued' = queued \o frames /\ UNCHANGED <<outcome, answer, handedOut>>
        BY <2>10, <3>1 DEF Distribute, frames
      <4>2. Elements(queued') \subseteq OnWire
        BY <2>8, <4>1, OnWireType, ElementsJoined DEF OnWire, frames
      <4>3. OnWire' \subseteq OnWire
        BY <2>3, <2>7, <4>2 DEF OnWire
      <4>4. QED
        BY <2>5, <4>1, <4>3
    <3>2. CASE waiter # 0 /\ frames # << >>
      <4>1. /\ handedOut' = Append(handedOut, Head(frames).re)
            /\ answer' = [answer EXCEPT ![waiter] = Head(frames).re]
            /\ outcome' = [outcome EXCEPT ![waiter] = OutcomeOf(asked[waiter], Head(frames))]
            /\ queued' = queued \o Tail(frames)
        BY <2>10, <3>2 DEF Distribute, frames
      <4>2. Head(frames) \in OnWire /\ Elements(Tail(frames)) \subseteq OnWire
            /\ Tail(frames) \in Seq(Frames)
        BY <2>8, <3>2, ElementsOfTail, HeadTailProperties DEF frames
      <4>3. Elements(queued') \subseteq OnWire
        <5>1. Elements(queued \o Tail(frames)) = Elements(queued) \cup Elements(Tail(frames))
          BY <4>2, OnWireType, ElementsJoined, Zenon
        <5>2. QED
          BY <4>1, <4>2, <5>1 DEF OnWire
      <4>4. OnWire' \subseteq OnWire
        BY <2>3, <2>7, <4>3 DEF OnWire
      <4>5. waiter \in 1 .. Len(asked)
        BY <3>2, OnWireType
      <4>6. QED
        BY <2>5, <4>1, <4>2, <4>4, <4>5
    <3>3. QED
      BY <3>1, <3>2
  <2>11. QED
    BY <2>5, <2>9, <2>10
<1>3. CASE StreamEnds
  BY <1>1, <1>3 DEF StreamEnds, OnWire
<1>4. ASSUME NEW n \in Request, Timeout(n)
      PROVE  \A m \in 1 .. Len(asked) : outcome'[m] = outcome[m] \/ outcome'[m] \in Unfinished
  BY <1>4, OnWireType DEF Timeout, Unfinished
<1>5. ASSUME NEW n \in Request, Timeout(n)
      PROVE  UNCHANGED <<asked, toStation, answer, handedOut, queued, buffer, fromStation>>
  BY <1>5 DEF Timeout
<1>6. CASE Dispose \/ DisposeAbruptly \/ StationLeaves
  BY <1>6 DEF Dispose, DisposeAbruptly, StationLeaves, OnWire
<1>7. QED
  BY <1>2, <1>3, <1>4, <1>5, <1>6 DEF ClientRuns, OnWire

-----------------------------------------------------------------------------
(* Steps of the host. *)

LEMMA Appended ==
  \A s : \A x : IsSeq(s) =>
    /\ Len(s) \in Nat /\ IsSeq(Append(s, x)) /\ Len(Append(s, x)) = Len(s) + 1
    /\ \A i \in 1 .. Len(s) : Append(s, x)[i] = s[i]
    /\ Append(s, x)[Len(s) + 1] = x
<1>. SUFFICES ASSUME NEW s, NEW x, IsSeq(s)
     PROVE  /\ Len(s) \in Nat /\ IsSeq(Append(s, x)) /\ Len(Append(s, x)) = Len(s) + 1
            /\ \A i \in 1 .. Len(s) : Append(s, x)[i] = s[i]
            /\ Append(s, x)[Len(s) + 1] = x
  OBVIOUS
<1>1. PICK S : s \in Seq(S)
  BY DEF IsSeq
<1>2. QED
  BY <1>1, AppendTo

\* What is given out was not given out before.
LEMMA GivenOutOnce ==
  ASSUME RepliesInv, RepliesInv', NEW x \in Nat, handedOut' = Append(handedOut, x)
  PROVE  /\ x \notin Elements(handedOut) /\ x \in Elements(handedOut')
         /\ Elements(handedOut) \subseteq Elements(handedOut')
<1>1. handedOut \in Seq(Nat)
  BY DEF RepliesInv, WireTypes
<1>2. RepliesOnceInOrder'
  BY HandedOutInOrder, PTL
<1>3. /\ Len(handedOut) \in Nat /\ DOMAIN handedOut' = 1 .. Len(handedOut) + 1
      /\ Len(handedOut') = Len(handedOut) + 1 /\ handedOut'[Len(handedOut) + 1] = x
      /\ \A i \in 1 .. Len(handedOut) : handedOut'[i] = handedOut[i]
  BY <1>1
<1>4. \A i \in 1 .. Len(handedOut) : handedOut[i] < x
  <2>1. \A i \in 1 .. Len(handedOut) : handedOut'[i] < handedOut'[Len(handedOut) + 1]
    BY <1>2, <1>3 DEF RepliesOnceInOrder
  <2>2. QED
    BY <1>3, <2>1
<1>5. QED
  BY <1>3, <1>4 DEF Elements

\* A step on which what has been done on a request stays done.
StaysDone == \A k : Handled(k) => Handled(k)' /\ (Acked(k) => Acked(k)')

LEMMA NothingWritten == WireGenuine /\ StaysDone /\ OnWire' \subseteq OnWire => WireGenuine'
BY DEF WireGenuine, StaysDone, Genuine

LEMMA GivenHandles ==
  ASSUME BackendAssumption, ClientPart, AnswersGenuine, NEW kind \in Kinds, NEW handle,
         AskAbout(kind, handle)
  PROVE  handle \in Handle
<1>1. 0 \in Handle
  BY BackendAssumption DEF Handle
<1>2. ASSUME NEW n \in OpenCalls PROVE HandleOf(n) \in Handle
  <2>1. n \in 1 .. Len(asked) /\ asked[n] = "open" /\ outcome[n] = "returned"
    BY OnWireType DEF OpenCalls, ClientPart, ClientTypes
  <2>2. PICK h \in Handle : answered[answer[n]] = Acknowledged(h)
    BY <2>1 DEF AnswersGenuine, Acked
  <2>3. QED
    BY <2>2 DEF HandleOf, Acknowledged
<1>3. QED
  BY <1>1, <1>2 DEF AskAbout, Given

LEMMA AskEffect ==
  ASSUME SessionInv, ClientPart, RequestTypes, NEW kind \in Kinds, NEW handle \in Handle,
         AskAbout(kind, handle)
  PROVE  /\ Len(asked) \in Nat /\ Len(asked') = Len(asked) + 1
         /\ asked'[Len(asked) + 1] = kind /\ answered'[Len(asked) + 1] = Unanswered
         /\ \A k \in 1 .. Len(asked) : /\ k \in 1 .. Len(asked') /\ k # Len(asked) + 1
                                       /\ asked'[k] = asked[k] /\ answered'[k] = answered[k]
                                       /\ target'[k] = target[k]
         /\ \A k \in 1 .. Len(asked') : k \in 1 .. Len(asked) \/ k = Len(asked) + 1
         /\ RequestTypes' /\ StaysDone /\ OnWire' \subseteq OnWire
<1>. DEFINE m == Len(asked)
<1>1. /\ asked \in Seq(Kinds) /\ target \in Seq(Handle) /\ Len(target) = m
      /\ IsSeq(answered) /\ Len(answered) = m /\ m \in Nat
      /\ toStation \in Seq(Nat)
  BY DEF ClientPart, ClientTypes, RequestTypes, RepliesInv, WireTypes
<1>2. /\ asked' = Append(asked, kind) /\ target' = Append(target, handle)
      /\ answered' = Append(answered, Unanswered) /\ UNCHANGED vars /\ m < MaxRequests
      /\ OnWire' \subseteq OnWire
      /\ toStation' = toStation \/ toStation' = Append(toStation, m + 1)
  BY AskGives DEF AskAbout
<1>3. /\ IsSeq(answered') /\ Len(answered') = m + 1 /\ answered'[m + 1] = Unanswered
      /\ \A k \in 1 .. m : answered'[k] = answered[k]
  <2>1. /\ IsSeq(Append(answered, Unanswered)) /\ Len(Append(answered, Unanswered)) = m + 1
        /\ Append(answered, Unanswered)[m + 1] = Unanswered
        /\ \A k \in 1 .. m : Append(answered, Unanswered)[k] = answered[k]
    <3>1. /\ IsSeq(Append(answered, Unanswered)) /\ Len(Append(answered, Unanswered)) = Len(answered) + 1
          /\ Append(answered, Unanswered)[Len(answered) + 1] = Unanswered
          /\ \A k \in 1 .. Len(answered) : Append(answered, Unanswered)[k] = answered[k]
      <4>1. IsSeq(answered)
        BY <1>1
      <4>2. QED
        BY <4>1, Appended
    <3>2. Len(answered) = m
      BY <1>1
    <3>3. QED
      BY <3>1, <3>2, Zenon
  <2>2. answered' = Append(answered, Unanswered)
    BY <1>2
  <2>3. QED
    BY <2>1, <2>2, Zenon
<1>4. /\ Len(asked') = m + 1 /\ asked'[m + 1] = kind /\ \A k \in 1 .. m : asked'[k] = asked[k]
      /\ target' \in Seq(Handle) /\ Len(target') = m + 1
      /\ \A k \in 1 .. m : target'[k] = target[k]
  BY <1>1, <1>2
<1>5. /\ \A k \in 1 .. m : k \in 1 .. m + 1 /\ k # m + 1
      /\ \A k \in 1 .. m + 1 : k \in 1 .. m \/ k = m + 1
  BY <1>1
<1>6. RequestTypes'
  <2>1. UNCHANGED <<nextHandle, finished, station>>
    BY <1>2 DEF vars, backendVars, handleVars, AskAbout, Ask
  <2>2. Len(toStation') \in Nat /\ Len(toStation') =< Len(toStation) + 1 /\ Len(toStation) \in Nat
    BY <1>1, <1>2
  <2>3. nextHandle \in Int
    BY SessionAssumption DEF SessionInv, HandleInv
  <2>4. QED
    BY <1>1, <1>2, <1>3, <1>4, <2>1, <2>2, <2>3, ClientAssumption DEF RequestTypes, ClientAssumption
<1>7. ASSUME NEW k, Handled(k) PROVE Handled(k)' /\ (Acked(k) => Acked(k)')
  <2>1. k \in 1 .. m /\ k \in 1 .. m + 1 /\ k # m + 1 /\ answered'[k] = answered[k]
    BY <1>3, <1>5, <1>7 DEF Handled
  <2>2. \A i \in 1 .. Len(toStation) : toStation[i] # k
    BY <1>7 DEF Handled
  <2>3. CASE toStation' = Append(toStation, m + 1)
    <3>1. /\ Len(toStation) \in Nat /\ Len(toStation') = Len(toStation) + 1
          /\ toStation'[Len(toStation) + 1] = m + 1
          /\ \A i \in 1 .. Len(toStation) : toStation'[i] = toStation[i]
      BY <1>1, <2>3
    <3>2. \A i \in 1 .. Len(toStation') : i \in 1 .. Len(toStation) \/ i = Len(toStation) + 1
      BY <3>1
    <3>3. QED
      BY <1>4, <2>1, <2>2, <3>1, <3>2, Zenon DEF Handled, Acked
  <2>4. CASE toStation' = toStation
    BY <1>4, <2>1, <2>2, <2>4, Zenon DEF Handled, Acked
  <2>5. QED
    BY <1>2, <2>3, <2>4
<1>8. QED
  BY <1>1, <1>2, <1>3, <1>4, <1>5, <1>6, <1>7, Zenon DEF StaysDone

\* What callers were given stays theirs when nothing more is given out.
LEMMA AnswersKept ==
  ASSUME AnswersGenuine, StaysDone, handedOut' = handedOut,
         \A n \in 1 .. Len(asked') :
           \/ /\ n \in 1 .. Len(asked) /\ answer'[n] = answer[n] /\ asked'[n] = asked[n]
              /\ outcome'[n] = "returned" => outcome[n] = "returned"
           \/ answer'[n] = 0 /\ outcome'[n] # "returned"
  PROVE  AnswersGenuine'
<1>1. ASSUME NEW n \in 1 .. Len(asked'), NEW x, x = answer'[n], x # 0
      PROVE  /\ n \in 1 .. Len(asked) /\ answer[n] = x
             /\ Handled(x)' /\ x \in Elements(handedOut')
             /\ Acked(x) => Acked(x)'
  BY <1>1, Zenon DEF AnswersGenuine, StaysDone
<1>2. ASSUME NEW n \in 1 .. Len(asked'), asked'[n] = "open", outcome'[n] = "returned"
      PROVE  \E x : x = answer'[n] /\ x # 0 /\ Acked(x)'
  <2>1. /\ n \in 1 .. Len(asked) /\ answer'[n] = answer[n] /\ answer[n] # 0 /\ Acked(answer[n])
    BY <1>2, Zenon DEF AnswersGenuine
  <2>2. PICK x : x = answer'[n]
    OBVIOUS
  <2>3. x = answer[n] /\ x # 0
    BY <2>1, <2>2
  <2>4. Acked(x)
    BY <2>1, <2>3 DEF Acked
  <2>5. QED
    BY <1>1, <2>2, <2>3, <2>4
<1>3. \A n, m \in 1 .. Len(asked') : answer'[n] = answer'[m] /\ answer'[n] # 0 => n = m
  BY <1>1, Zenon DEF AnswersGenuine
<1>4. QED
  BY <1>1, <1>2, <1>3 DEF AnswersGenuine, Handled, Acked

\* A reply belongs to the one it is given to.
LEMMA AnswerGiven ==
  ASSUME RepliesInv, RepliesInv', WireGenuine, AnswersGenuine, StaysDone, Len(asked) \in Nat,
         NEW frame \in OnWire, NEW w \in 1 .. Len(asked'),
         handedOut' = Append(handedOut, frame.re),
         answer'[w] = frame.re, outcome'[w] = OutcomeOf(asked'[w], frame),
         \A n \in 1 .. Len(asked') : n # w =>
           /\ n \in 1 .. Len(asked) /\ answer'[n] = answer[n] /\ asked'[n] = asked[n]
           /\ outcome'[n] = outcome[n]
  PROVE  AnswersGenuine'
<1>1. PICK r : r = frame.re
  OBVIOUS
<1>2. Handled(r) /\ (frame.kind = "open" => Acked(r))
  BY <1>1 DEF WireGenuine, Genuine, Handled, Acked
<1>3. r \in Nat /\ r # 0
  BY <1>2 DEF Handled
<1>4. r \notin Elements(handedOut) /\ r \in Elements(handedOut')
      /\ Elements(handedOut) \subseteq Elements(handedOut')
  BY <1>1, <1>3, GivenOutOnce
<1>5. ASSUME NEW n \in 1 .. Len(asked'), NEW x, x = answer'[n], x # 0
      PROVE  /\ Handled(x)' /\ x \in Elements(handedOut')
             /\ n = w => x = r
             /\ n # w => /\ x # r /\ n \in 1 .. Len(asked) /\ answer[n] = x
  <2>1. CASE n = w
    BY <1>1, <1>2, <1>4, <1>5, <2>1, Zenon DEF StaysDone
  <2>2. CASE n # w
    <3>1. n \in 1 .. Len(asked) /\ answer[n] = x
      BY <1>5, <2>2
    <3>2. Handled(answer[n]) /\ answer[n] \in Elements(handedOut)
      BY <1>5, <3>1 DEF AnswersGenuine
    <3>3. Handled(x) /\ x \in Elements(handedOut)
      BY <3>1, <3>2 DEF Handled
    <3>4. QED
      BY <1>4, <2>2, <3>1, <3>3, Zenon DEF StaysDone
  <2>3. QED
    BY <2>1, <2>2
<1>6. ASSUME NEW n \in 1 .. Len(asked'), asked'[n] = "open", outcome'[n] = "returned"
      PROVE  \E x : x = answer'[n] /\ x # 0 /\ Acked(x)'
  <2>1. CASE n = w
    <3>1. frame.kind = "open"
      BY <1>6, <2>1 DEF OutcomeOf, Checked
    <3>2. QED
      BY <1>1, <1>2, <1>3, <2>1, <3>1, Zenon DEF StaysDone
  <2>2. CASE n # w
    <3>1. /\ n \in 1 .. Len(asked) /\ answer'[n] = answer[n] /\ asked[n] = "open"
          /\ outcome[n] = "returned"
      BY <1>6, <2>2
    <3>2. answer[n] # 0 /\ Acked(answer[n]) /\ Handled(answer[n])
      BY <3>1 DEF AnswersGenuine
    <3>3. PICK x : x = answer[n]
      OBVIOUS
    <3>4. Acked(x) /\ Handled(x) /\ x # 0
      BY <3>2, <3>3 DEF Acked, Handled
    <3>5. Acked(x)' /\ x = answer'[n]
      BY <3>1, <3>3, <3>4 DEF StaysDone
    <3>6. QED
      BY <3>4, <3>5
  <2>3. QED
    BY <2>1, <2>2
<1>7. ASSUME NEW n \in 1 .. Len(asked'), NEW k \in 1 .. Len(asked'),
             answer'[n] = answer'[k], answer'[n] # 0
      PROVE  n = k
  <2>1. PICK x : x = answer'[n]
    OBVIOUS
  <2>2. x = answer'[k] /\ x # 0
    BY <1>7, <2>1
  <2>3. /\ n = w => x = r
        /\ n # w => x # r /\ n \in 1 .. Len(asked) /\ answer[n] = x
    BY <1>5, <2>1, <2>2, Zenon
  <2>4. /\ k = w => x = r
        /\ k # w => x # r /\ k \in 1 .. Len(asked) /\ answer[k] = x
    BY <1>5, <2>2, Zenon
  <2>5. CASE n # w /\ k # w
    <3>1. /\ answer[n] = answer[k] /\ answer[n] # 0
          /\ n \in 1 .. Len(asked) /\ k \in 1 .. Len(asked)
      BY <2>2, <2>3, <2>4, <2>5
    <3>2. QED
      BY <3>1, Zenon DEF AnswersGenuine
  <2>6. QED
    BY <2>3, <2>4, <2>5
<1>8. \A n \in 1 .. Len(asked') : answer'[n] # 0 =>
        /\ answer'[n] \in 1 .. Len(asked') /\ answer'[n] \in Elements(handedOut')
        /\ \A i \in 1 .. Len(toStation') : toStation'[i] # answer'[n]
  BY <1>5 DEF Handled
<1>9. \A n \in 1 .. Len(asked') : asked'[n] = "open" /\ outcome'[n] = "returned" =>
        answer'[n] # 0 /\ \E h \in Handle : answered'[answer'[n]] = Acknowledged(h)
  BY <1>6 DEF Acked
<1>10. QED
  BY <1>7, <1>8, <1>9, Zenon DEF AnswersGenuine, Handled, Acked

LEMMA HostAsks ==
  ASSUME SessionInv, ClientPart, RepliesInv', RequestTypes, WireGenuine, AnswersGenuine,
         AcksDistinct, NEW kind \in Kinds, NEW handle \in Handle, AskAbout(kind, handle)
  PROVE  RequestTypes' /\ WireGenuine' /\ AnswersGenuine' /\ AcksDistinct'
<1>. DEFINE m == Len(asked)
<1>1. /\ m \in Nat /\ Len(asked') = m + 1
      /\ asked'[m + 1] = kind /\ answered'[m + 1] = Unanswered
      /\ \A k \in 1 .. m : /\ k \in 1 .. Len(asked') /\ k # m + 1
                           /\ asked'[k] = asked[k] /\ answered'[k] = answered[k]
                           /\ target'[k] = target[k]
      /\ \A k \in 1 .. Len(asked') : k \in 1 .. m \/ k = m + 1
      /\ RequestTypes' /\ StaysDone /\ OnWire' \subseteq OnWire
  BY AskEffect
<1>2. WireGenuine'
  BY <1>1, NothingWritten
<1>3. /\ IsSeq(answer) /\ Len(answer) = m /\ IsSeq(outcome) /\ Len(outcome) = m
      /\ m + 1 \in 1 .. Len(asked')
  BY <1>1 DEF ClientPart, ClientTypes, IsSeq
<1>4. ASSUME NEW x, NEW o, answer' = Append(answer, x), outcome' = Append(outcome, o)
      PROVE  /\ answer'[m + 1] = x /\ outcome'[m + 1] = o
             /\ \A n \in 1 .. m : answer'[n] = answer[n] /\ outcome'[n] = outcome[n]
  <2>1. /\ Append(answer, x)[Len(answer) + 1] = x
        /\ \A n \in 1 .. Len(answer) : Append(answer, x)[n] = answer[n]
    <3>1. IsSeq(answer)
      BY <1>3
    <3>2. QED
      BY <3>1, Appended
  <2>2. /\ Append(outcome, o)[Len(outcome) + 1] = o
        /\ \A n \in 1 .. Len(outcome) : Append(outcome, o)[n] = outcome[n]
    <3>1. IsSeq(outcome)
      BY <1>3
    <3>2. QED
      BY <3>1, Appended
  <2>3. QED
    BY <1>3, <1>4, <2>1, <2>2
<1>5. AnswersGenuine'
  <2>1. ASSUME handedOut' = handedOut, NEW o \in Unfinished,
               answer' = Append(answer, 0), outcome' = Append(outcome, o)
        PROVE  AnswersGenuine'
    <3>1. /\ answer'[m + 1] = 0 /\ outcome'[m + 1] = o
          /\ \A n \in 1 .. m : answer'[n] = answer[n] /\ outcome'[n] = outcome[n]
      BY <1>4, <2>1, Zenon
    <3>2. ASSUME NEW n \in 1 .. Len(asked')
          PROVE  \/ /\ n \in 1 .. m /\ answer'[n] = answer[n] /\ asked'[n] = asked[n]
                    /\ outcome'[n] = "returned" => outcome[n] = "returned"
                 \/ answer'[n] = 0 /\ outcome'[n] # "returned"
      BY <1>1, <2>1, <3>1 DEF Unfinished
    <3>3. QED
      BY <1>1, <2>1, <3>2, AnswersKept
  <2>2. ASSUME NEW frame \in OnWire, handedOut' = Append(handedOut, frame.re),
               answer' = Append(answer, frame.re),
               outcome' = Append(outcome, OutcomeOf(kind, frame))
        PROVE  AnswersGenuine'
    <3>1. /\ answer'[m + 1] = frame.re /\ outcome'[m + 1] = OutcomeOf(kind, frame)
          /\ \A n \in 1 .. m : answer'[n] = answer[n] /\ outcome'[n] = outcome[n]
      BY <1>4, <2>2, Zenon
    <3>2. outcome'[m + 1] = OutcomeOf(asked'[m + 1], frame)
      BY <1>1, <3>1
    <3>3. \A n \in 1 .. Len(asked') : n # m + 1 =>
            /\ n \in 1 .. m /\ answer'[n] = answer[n] /\ asked'[n] = asked[n]
            /\ outcome'[n] = outcome[n]
      BY <1>1, <3>1, Zenon
    <3>4. QED
      BY <1>1, <1>3, <2>2, <3>1, <3>2, <3>3, AnswerGiven DEF ClientPart
  <2>3. \/ /\ handedOut' = handedOut /\ answer' = Append(answer, 0)
           /\ \E o \in Unfinished : outcome' = Append(outcome, o)
        \/ \E frame \in OnWire :
             /\ handedOut' = Append(handedOut, frame.re) /\ answer' = Append(answer, frame.re)
             /\ outcome' = Append(outcome, OutcomeOf(kind, frame))
    BY AskGives DEF AskAbout
  <2>4. QED
    BY <2>1, <2>2, <2>3, Zenon
<1>6. /\ nextHandle' = nextHandle /\ Listed' = Listed
  BY DEF AskAbout, vars, backendVars, handleVars, Listed
<1>7. ASSUME NEW h, CloseAsked(h) PROVE CloseAsked(h)'
  BY <1>1, <1>7, Zenon DEF CloseAsked
<1>8. ASSUME NEW k \in 1 .. Len(asked'), NEW h \in Handle, answered'[k] = Acknowledged(h)
      PROVE  k \in 1 .. m /\ answered[k] = Acknowledged(h)
  BY <1>1, <1>8, AnswersAnswer
<1>9. AcksDistinct'
  BY <1>6, <1>7, <1>8, Zenon DEF AcksDistinct
<1>10. QED
  BY <1>1, <1>2, <1>5, <1>9

LEMMA HostRuns ==
  ASSUME ClientPart, RepliesInv', RequestTypes, WireGenuine, AnswersGenuine, AcksDistinct,
         ClientRuns
  PROVE  RequestTypes' /\ WireGenuine' /\ AnswersGenuine' /\ AcksDistinct'
<1>1. /\ UNCHANGED <<vars, target, answered, asked, toStation>> /\ OnWire' \subseteq OnWire
      /\ station' = "serving" => station = "serving"
      /\ Len(asked) \in Nat /\ Len(answer) = Len(asked) /\ Len(outcome) = Len(asked)
      /\ IsSeq(answer) /\ outcome \in Seq(Outcomes)
  <2>1. station' = "serving" => station = "serving"
    BY DEF ClientRuns, Bytes, StreamEnds, Dispose, DisposeAbruptly, StationLeaves, Timeout, wireVars
  <2>2. UNCHANGED <<vars, target, answered, asked, toStation>> /\ OnWire' \subseteq OnWire
    BY ClientAssumption, RunsGive DEF ClientRuns
  <2>3. QED
    BY <2>1, <2>2 DEF ClientPart, ClientTypes
<1>2. UNCHANGED <<nextHandle, finished, Listed>>
  BY <1>1 DEF vars, backendVars, handleVars, Listed
<1>3. RequestTypes'
  BY <1>1, <1>2 DEF RequestTypes
<1>4. StaysDone
  BY <1>1 DEF StaysDone, Handled, Acked
<1>5. WireGenuine'
  BY <1>1, <1>4, NothingWritten
<1>6. AnswersGenuine'
  <2>1. ASSUME UNCHANGED <<answer, handedOut>>,
               \A n \in 1 .. Len(asked) : outcome'[n] = outcome[n] \/ outcome'[n] \in Unfinished
        PROVE  AnswersGenuine'
    <3>1. \A n \in 1 .. Len(asked) : outcome'[n] = "returned" => outcome[n] = "returned"
      BY <2>1 DEF Unfinished
    <3>2. QED
      BY <1>1, <1>4, <2>1, <3>1, AnswersKept
  <2>2. ASSUME NEW frame \in OnWire, NEW w \in 1 .. Len(asked),
               handedOut' = Append(handedOut, frame.re),
               answer' = [answer EXCEPT ![w] = frame.re],
               outcome' = [outcome EXCEPT ![w] = OutcomeOf(asked[w], frame)]
        PROVE  AnswersGenuine'
    <3>1. DOMAIN answer = 1 .. Len(asked) /\ DOMAIN outcome = 1 .. Len(asked)
      BY <1>1 DEF IsSeq
    <3>2. /\ answer'[w] = frame.re /\ outcome'[w] = OutcomeOf(asked[w], frame)
          /\ \A n \in 1 .. Len(asked) : n # w => answer'[n] = answer[n] /\ outcome'[n] = outcome[n]
      BY <2>2, <3>1
    <3>3. asked' = asked
      BY <1>1
    <3>4. /\ w \in 1 .. Len(asked') /\ outcome'[w] = OutcomeOf(asked'[w], frame)
          /\ \A n \in 1 .. Len(asked') : n # w =>
               /\ n \in 1 .. Len(asked) /\ answer'[n] = answer[n] /\ asked'[n] = asked[n]
               /\ outcome'[n] = outcome[n]
      BY <3>2, <3>3
    <3>5. RepliesInv
      BY DEF ClientPart
    <3>6. QED
      BY <1>1, <1>4, <2>2, <3>2, <3>4, <3>5, AnswerGiven
  <2>3. \/ /\ UNCHANGED <<answer, handedOut>>
           /\ \A n \in 1 .. Len(asked) : outcome'[n] = outcome[n] \/ outcome'[n] \in Unfinished
        \/ \E frame \in OnWire, w \in 1 .. Len(asked) :
             /\ handedOut' = Append(handedOut, frame.re)
             /\ answer' = [answer EXCEPT ![w] = frame.re]
             /\ outcome' = [outcome EXCEPT ![w] = OutcomeOf(asked[w], frame)]
    BY ClientAssumption, RunsGive, Zenon
  <2>4. QED
    BY <2>1, <2>2, <2>3
<1>7. AcksDistinct'
  BY <1>1, <1>2 DEF AcksDistinct, CloseAsked
<1>8. QED
  BY <1>3, <1>5, <1>6, <1>7

-----------------------------------------------------------------------------
(* Steps of the station. *)

\* Requests are on their way in the order they were made.
LEMMA RequestsRise ==
  ASSUME RepliesInv
  PROVE  \A i, j \in 1 .. Len(toStation) : i < j => toStation[i] < toStation[j]
<1>. DEFINE a == Numbers(queued) \o Numbers(Complete(buffer \o fromStation))
            t == toStation
            b == handedOut \o a
            u == b \o t
<1>1. /\ handedOut \in Seq(Nat) /\ t \in Seq(Nat) /\ \A i \in 1 .. Len(t) : t[i] # 0
      /\ queued \in Seq(Frames) /\ buffer \o fromStation \in Seq(Frames)
      /\ Ordered(handedOut \o InFlightNow, Len(asked))
  BY WireFacts DEF RepliesInv, WireTypes, OrderInv
<1>2. a \in Seq(Nat) /\ InFlightNow = a \o t
  BY <1>1, InFlightType, Zenon DEF InFlightNow, InFlight
<1>. HIDE DEF a
<1>3. b \in Seq(Nat) /\ u = handedOut \o (a \o t)
  BY <1>1, <1>2, NumbersConcat, Zenon
<1>. HIDE DEF b
<1>4. Ordered(u, Len(asked))
  <2>1. u = handedOut \o InFlightNow
    BY <1>2, <1>3
  <2>2. QED
    BY <1>1, <2>1
<1>5. Len(b) \in Nat /\ Len(t) \in Nat /\ Follows(u, b, Len(b), t, Len(t))
  BY <1>1, <1>3, Joined, Zenon
<1>. HIDE DEF u
<1>6. Len(u) = Len(b) + Len(t) /\ \A j \in 1 .. Len(t) : u[Len(b) + j] = t[j]
  BY <1>5 DEF Follows
<1>7. \A j \in 1 .. Len(t) : Len(b) + j \in 1 .. Len(u)
  BY <1>5, <1>6
<1>8. ASSUME NEW i \in 1 .. Len(t), NEW j \in 1 .. Len(t), i < j PROVE t[i] < t[j]
  <2>1. Len(b) + i < Len(b) + j
    BY <1>5, <1>8
  <2>2. u[Len(b) + i] = t[i] /\ u[Len(b) + j] = t[j] /\ t[i] # 0 /\ t[j] # 0
    BY <1>1, <1>6
  <2>3. u[Len(b) + i] < u[Len(b) + j]
    BY <1>4, <1>7, <2>1, <2>2 DEF Ordered
  <2>4. QED
    BY <2>2, <2>3
<1>9. QED
  BY <1>8

\* What a request that opens nothing does to the targets.
LEMMA RequestEffect ==
  ASSUME SessionInv, NEW kind, NEW handle, HandleRequest(kind, handle),
         reply'.type # "OPEN_ACK"
  PROVE  \/ UNCHANGED <<nextHandle, live>> /\ (kind = "close" => reply'.type = "ERROR")
         \/ /\ kind = "close" /\ handle \in Handle /\ DropHandle(handle)
            /\ held' = held \ {handle} /\ nextHandle' = nextHandle
            /\ reply'.type = "STATUS"
<1>. USE DEF handleVars
<1>1. CASE kind = "bye" /\ Bye
  BY <1>1 DEF Bye, UntouchedBackend
<1>2. CASE kind # "hello" /\ kind # "bye" /\ BadGreeting
  BY <1>2 DEF BadGreeting, UntouchedBackend, SendError
<1>3. ASSUME NEW reason, Refuse(reason)
      PROVE  UNCHANGED <<nextHandle, live>> /\ reply'.type = "ERROR"
  BY <1>3 DEF Refuse, UntouchedBackend, SendError
<1>4. ASSUME NEW offer, Hello(offer) PROVE UNCHANGED <<nextHandle, live>>
  BY <1>4 DEF Hello, UntouchedBackend
<1>5. CASE kind = "hello" /\ Unsupported
  BY <1>3, <1>5 DEF Unsupported
<1>6. CASE kind = "caps" /\ CapsRequest
  BY <1>6 DEF CapsRequest
<1>7. CASE kind = "open" /\ Open(TRUE)
  <2>1. nextHandle # 0
    BY SessionAssumption DEF SessionInv, HandleInv
  <2>2. QED
    BY <1>3, <1>7, <2>1 DEF Open
<1>8. ASSUME NEW role, NEW shape, Drive(handle, TRUE, role, shape)
      PROVE  UNCHANGED <<nextHandle, live>>
  BY <1>3, <1>8 DEF Drive
<1>9. CASE kind = "close" /\ Close(handle)
  <2>1. ReadableHandle(handle) => handle \in Handle
    BY BackendAssumption DEF ReadableHandle, Handle
  <2>2. CASE Refuse("BAD_ARGUMENT")
    BY <1>3, <2>2
  <2>3. CASE ReadableHandle(handle) /\ DropHandle(handle) /\ SendStatus(handle)
             /\ held' = held \ {handle} /\ nextHandle' = nextHandle
    BY <1>9, <2>1, <2>3 DEF SendStatus
  <2>4. QED
    BY <1>9, <2>2, <2>3 DEF Close
<1>10. CASE kind = "diag" /\ DiagRequest("true", "absent")
  BY <1>10 DEF DiagRequest
<1>11. QED
  BY <1>1, <1>2, <1>4, <1>5, <1>6, <1>7, <1>8, <1>9, <1>10 DEF HandleRequest, Post, Set

\* Handling a request answers that one, which nothing on its way answers yet.
LEMMA HandleEffect ==
  ASSUME ClientAssumption, ClientPart, RequestTypes, HandleNext,
         NEW n, n = Head(toStation), NEW did, did = [reply |-> reply', call |-> call']
  PROVE  /\ n \in 1 .. Len(asked) /\ Len(asked) \in Nat
         /\ UNCHANGED <<clientVars, target>>
         /\ Len(toStation') = Len(toStation) - 1 /\ Len(toStation) \in Nat
         /\ IsSeq(answered') /\ Len(answered') = Len(asked) /\ answered'[n] = did
         /\ \A k \in 1 .. Len(asked) : k # n => answered'[k] = answered[k]
         /\ Handled(n)' /\ \A k : Handled(k) => k # n /\ Handled(k)'
<1>1. /\ n \in 1 .. Len(asked) /\ Len(asked) \in Nat
      /\ toStation \in Seq(Nat) /\ toStation # << >>
  BY NextRequest
<1>2. /\ UNCHANGED <<clientVars, target>> /\ toStation' = Tail(toStation)
      /\ answered' = [answered EXCEPT ![n] = did]
      /\ asked' = asked
  BY DEF HandleNext, clientVars, callVars
<1>3. IsSeq(answered) /\ Len(answered) = Len(asked)
  BY DEF RequestTypes
<1>4. IsSeq(answered') /\ Len(answered') = Len(asked)
  <2>1. n \in 1 .. Len(answered) /\ IsSeq(answered)
    BY <1>1, <1>3
  <2>2. IsSeq([answered EXCEPT ![n] = did]) /\ Len([answered EXCEPT ![n] = did]) = Len(answered)
    BY <2>1, ReplaceIn
  <2>3. QED
    BY <1>2, <1>3, <2>2
<1>5. answered'[n] = did /\ \A k \in 1 .. Len(asked) : k # n => answered'[k] = answered[k]
  <2>1. DOMAIN answered = 1 .. Len(asked)
    BY <1>3 DEF IsSeq
  <2>2. QED
    BY <1>1, <1>2, <2>1
<1>6. /\ Len(toStation) \in Nat \ {0} /\ Len(toStation') = Len(toStation) - 1
      /\ toStation[1] = n
      /\ \A i \in 1 .. Len(toStation) - 1 : toStation'[i] = toStation[i + 1]
  BY <1>1, <1>2, HeadTailProperties
<1>7. /\ 1 \in 1 .. Len(toStation)
      /\ \A i \in 1 .. Len(toStation) - 1 : i + 1 \in 1 .. Len(toStation) /\ 1 < i + 1
  BY <1>6
<1>8. \A i \in 1 .. Len(toStation') : toStation'[i] # n
  <2>1. ASSUME NEW i \in 1 .. Len(toStation) - 1 PROVE toStation'[i] # n
    <3>1. toStation[1] < toStation[i + 1] /\ toStation[1] \in Nat
      BY <1>1, <1>7, RequestsRise DEF ClientPart
    <3>2. QED
      BY <1>6, <3>1
  <2>2. QED
    BY <1>6, <2>1
<1>9. ASSUME NEW k, Handled(k) PROVE k # n /\ Handled(k)'
  <2>1. k \in 1 .. Len(asked) /\ \A i \in 1 .. Len(toStation) : toStation[i] # k
    BY <1>9 DEF Handled
  <2>2. k # n /\ \A i \in 1 .. Len(toStation) - 1 : toStation'[i] # k
    BY <1>6, <1>7, <2>1
  <2>3. QED
    BY <1>2, <1>6, <2>1, <2>2 DEF Handled
<1>10. QED
  BY <1>1, <1>2, <1>4, <1>5, <1>6, <1>8, <1>9 DEF Handled

\* The targets move with what was acknowledged.
LEMMA TargetsMove ==
  ASSUME NoWrap, ClientAssumption, HostStationAssumption, SessionInv, ClientPart, RequestTypes,
         HandleNext,
         NEW n, n = Head(toStation), NEW did, did = [reply |-> reply', call |-> call']
  PROVE  \/ /\ did = Acknowledged(nextHandle) /\ nextHandle \in Handle
            /\ nextHandle' = nextHandle + 1 /\ Listed' = Listed \cup {nextHandle}
         \/ /\ \A h \in Handle : did # Acknowledged(h)
            /\ FrameOf(n, reply').kind # "open"
            /\ nextHandle' = nextHandle
            /\ \/ Listed' = Listed /\ (asked[n] = "close" => did.reply.type = "ERROR")
               \/ /\ asked[n] = "close" /\ did.reply.type = "STATUS"
                  /\ Listed' = Listed \ {target[n]}
<1>1. HandleRequest(asked[n], target[n])
  BY NextRequest
<1>2. /\ nextHandle =< MaxHandle /\ nextHandle \notin Listed
      /\ nextHandle \in 1 .. MaxHandle + 1 /\ MaxHandle \in Nat
      /\ HandleSpace \in Nat \ {0} /\ MaxHandle < HandleSpace - 1 /\ Handle = 0 .. HandleSpace - 1
  BY HandleLeft, BackendAssumption, SessionAssumption
     DEF SessionInv, HandleInv, NoWrap, Handle
<1>3. CASE reply'.type = "OPEN_ACK"
  <2>1. did = Acknowledged(nextHandle) /\ TakeHandle /\ held' = held \cup {nextHandle}
    BY <1>1, <1>3, OpenAnswered
  <2>2. Listed' = Listed \cup {nextHandle}
    BY <1>2, <2>1, OpenEffect
  <2>3. nextHandle' = nextHandle + 1 /\ nextHandle \in Handle
    <3>1. nextHandle + 1 \in Nat /\ nextHandle + 1 < HandleSpace /\ nextHandle \in Handle
      BY <1>2
    <3>2. (nextHandle + 1) % HandleSpace = nextHandle + 1
      BY <1>2, <3>1, SmallMod
    <3>3. QED
      BY <2>1, <3>1, <3>2, Zenon DEF TakeHandle
  <2>4. QED
    BY <2>1, <2>2, <2>3
<1>4. CASE reply'.type # "OPEN_ACK"
  <2>1. \A h \in Handle : did # Acknowledged(h)
    BY <1>4 DEF Acknowledged
  <2>2. FrameOf(n, reply').kind # "open"
    BY <1>4, StationServes
  <2>3. /\ nextHandle' = nextHandle
        /\ \/ Listed' = Listed /\ (asked[n] = "close" => did.reply.type = "ERROR")
           \/ /\ asked[n] = "close" /\ did.reply.type = "STATUS"
              /\ Listed' = Listed \ {target[n]}
    <3>1. CASE UNCHANGED <<nextHandle, live>> /\ (asked[n] = "close" => reply'.type = "ERROR")
      BY <3>1 DEF Listed
    <3>2. CASE /\ asked[n] = "close" /\ target[n] \in Handle /\ DropHandle(target[n])
               /\ held' = held \ {target[n]} /\ nextHandle' = nextHandle
               /\ reply'.type = "STATUS"
      <4>1. Listed' = Listed \ {target[n]}
        BY <3>2, CloseEffect
      <4>2. QED
        BY <3>2, <4>1
    <3>3. QED
      BY <1>1, <1>4, <3>1, <3>2, RequestEffect
  <2>4. QED
    BY <2>1, <2>2, <2>3
<1>5. QED
  BY <1>3, <1>4

LEMMA StationHandles ==
  ASSUME NoWrap, ClientAssumption, HostStationAssumption, HostStationInv, RepliesInv', HandleNext
  PROVE  RequestTypes' /\ WireGenuine' /\ AnswersGenuine' /\ AcksDistinct'
<1>. DEFINE m == Len(asked)
<1>. USE DEF HostStationInv
<1>0. PICK n, did, frame : /\ n = Head(toStation) /\ did = [reply |-> reply', call |-> call']
                          /\ frame = FrameOf(n, reply')
  OBVIOUS
<1>1. /\ n \in 1 .. m /\ m \in Nat
      /\ UNCHANGED <<clientVars, target>>
      /\ Len(toStation') = Len(toStation) - 1 /\ Len(toStation) \in Nat
      /\ IsSeq(answered') /\ Len(answered') = m /\ answered'[n] = did
      /\ \A k \in 1 .. m : k # n => answered'[k] = answered[k]
      /\ Handled(n)' /\ \A k : Handled(k) => k # n /\ Handled(k)'
  BY <1>0, HandleEffect
<1>2. \/ /\ did = Acknowledged(nextHandle) /\ nextHandle \in Handle
         /\ nextHandle' = nextHandle + 1 /\ Listed' = Listed \cup {nextHandle}
      \/ /\ \A h \in Handle : did # Acknowledged(h)
         /\ frame.kind # "open"
         /\ nextHandle' = nextHandle
         /\ \A h \in Listed : h \in Listed' \/ (asked[n] = "close" /\ target[n] = h)
  BY <1>0, TargetsMove
<1>3. /\ fromStation' = fromStation \o Halves(frame) /\ frame \in Frames /\ frame.re = n
      /\ station' = IF finished' THEN "gone" ELSE station
  BY <1>0, StationServes DEF HandleNext
<1>4. UNCHANGED <<asked, answer, outcome, handedOut, queued, buffer>>
  BY <1>1 DEF clientVars, callVars
<1>5. nextHandle \in Nat /\ \A h \in Handle : h \in Nat
  BY BackendAssumption, SessionAssumption DEF SessionInv, HandleInv, Handle
<1>6. RequestTypes'
  <2>1. nextHandle' \in Nat /\ nextHandle' =< nextHandle + 1
    BY <1>2, <1>5
  <2>2. nextHandle' + Len(toStation') =< m + 1
    BY <1>1, <1>5, <2>1 DEF RequestTypes
  <2>3. QED
    BY <1>1, <1>3, <1>4, <2>2 DEF RequestTypes
<1>7. StaysDone
  <2>1. ASSUME NEW k, Handled(k), Acked(k) PROVE Acked(k)'
    <3>1. k \in 1 .. m /\ k # n
      BY <1>1, <2>1 DEF Handled
    <3>2. QED
      BY <1>1, <2>1, <3>1 DEF Acked
  <2>2. QED
    BY <1>1, <2>1, Zenon DEF StaysDone
<1>8. frame.kind = "open" => Acked(n)'
  BY <1>1, <1>2 DEF Acked
<1>9. WireGenuine'
  <2>1. OnWire' \subseteq OnWire \cup {frame}
    <3>1. Halves(frame) \in Seq(Frames) /\ Elements(Halves(frame)) \subseteq {frame}
      BY <1>3 DEF Halves, Elements
    <3>2. fromStation \in Seq(Frames)
      BY OnWireType
    <3>3. Elements(fromStation') = Elements(fromStation) \cup Elements(Halves(frame))
      <4>1. Elements(fromStation \o Halves(frame)) = Elements(fromStation) \cup Elements(Halves(frame))
        BY <3>1, <3>2, ElementsJoined, Zenon
      <4>2. QED
        BY <1>3, <4>1
    <3>4. QED
      BY <1>4, <3>1, <3>3 DEF OnWire
  <2>2. ASSUME NEW f \in OnWire' PROVE Handled(f.re)' /\ (f.kind = "open" => Acked(f.re)')
    <3>1. PICK r : r = f.re
      OBVIOUS
    <3>2. CASE f = frame
      <4>1. r = n
        BY <1>3, <3>1, <3>2
      <4>2. Handled(r)' /\ (f.kind = "open" => Acked(r)')
        BY <1>1, <1>8, <3>2, <4>1
      <4>3. QED
        BY <3>1, <4>2
    <3>3. CASE f \in OnWire
      <4>1. Handled(f.re) /\ (f.kind = "open" => Acked(f.re))
        BY <3>3, Zenon DEF WireGenuine, Genuine
      <4>2. QED
        BY <1>7, <4>1, Zenon DEF StaysDone
    <3>4. QED
      BY <2>1, <3>2, <3>3
  <2>3. QED
    BY <2>2 DEF WireGenuine, Genuine
<1>10. AnswersGenuine'
  BY <1>4, <1>7, AnswersKept
<1>11. ASSUME NEW h, CloseAsked(h) PROVE CloseAsked(h)'
  BY <1>1, <1>4, <1>11 DEF CloseAsked
<1>12. ASSUME did = Acknowledged(nextHandle), nextHandle \in Handle,
              nextHandle' = nextHandle + 1, Listed' = Listed \cup {nextHandle}
       PROVE  AcksDistinct'
  <2>1. ASSUME NEW h \in Handle, did = Acknowledged(h) PROVE h = nextHandle
    BY <1>12, <2>1 DEF Acknowledged
  <2>2. ASSUME NEW k \in 1 .. m, NEW h \in Handle, answered'[k] = Acknowledged(h)
        PROVE  /\ k = n => h = nextHandle
               /\ k # n => answered[k] = Acknowledged(h) /\ h < nextHandle
    BY <1>1, <2>1, <2>2 DEF AcksDistinct
  <2>3. ASSUME NEW k \in 1 .. m, NEW h \in Handle, answered'[k] = Acknowledged(h),
               NEW l \in 1 .. m, answered'[l] = Acknowledged(h)
        PROVE  l = k
    <3>1. CASE k # n /\ l # n
      <4>1. answered[k] = Acknowledged(h) /\ answered[l] = Acknowledged(h)
        BY <2>2, <2>3, <3>1
      <4>2. QED
        BY <4>1, Zenon DEF AcksDistinct
    <3>2. (k = n => h = nextHandle) /\ (k # n => h < nextHandle)
          /\ (l = n => h = nextHandle) /\ (l # n => h < nextHandle)
      BY <2>2, <2>3
    <3>3. ~ (h = nextHandle /\ h < nextHandle)
      BY <1>5
    <3>4. QED
      BY <3>1, <3>2, <3>3
  <2>4. ASSUME NEW k \in 1 .. m, NEW h \in Handle, answered'[k] = Acknowledged(h)
        PROVE  h < nextHandle' /\ (h \in Listed' \/ CloseAsked(h)')
    <3>1. CASE k = n
      <4>1. h = nextHandle
        BY <2>2, <2>4, <3>1
      <4>2. QED
        BY <1>5, <1>12, <4>1
    <3>2. CASE k # n
      <4>1. h < nextHandle /\ (h \in Listed \/ CloseAsked(h))
        BY <2>2, <2>4, <3>2, Zenon DEF AcksDistinct
      <4>2. QED
        BY <1>5, <1>11, <1>12, <4>1
    <3>3. QED
      BY <3>1, <3>2
  <2>5. asked' = asked
    BY <1>4
  <2>6. \A k \in 1 .. Len(asked') : \A h \in Handle : answered'[k] = Acknowledged(h) =>
          /\ h < nextHandle'
          /\ \A l \in 1 .. Len(asked') : answered'[l] = Acknowledged(h) => l = k
          /\ h \in Listed' \/ CloseAsked(h)'
    BY <2>3, <2>4, <2>5
  <2>7. QED
    BY <2>6, Zenon DEF AcksDistinct
<1>13. ASSUME \A h \in Handle : did # Acknowledged(h), nextHandle' = nextHandle,
              \A h \in Listed : h \in Listed' \/ (asked[n] = "close" /\ target[n] = h)
       PROVE  AcksDistinct'
  <2>1. ASSUME NEW k \in 1 .. m, NEW h \in Handle, answered'[k] = Acknowledged(h)
        PROVE  answered[k] = Acknowledged(h)
    BY <1>1, <1>13, <2>1
  <2>2. ASSUME NEW h \in Listed PROVE h \in Listed' \/ CloseAsked(h)'
    BY <1>1, <1>4, <1>13, <2>2 DEF CloseAsked
  <2>3. asked' = asked
    BY <1>4
  <2>4. ASSUME NEW k \in 1 .. m, NEW h \in Handle, answered'[k] = Acknowledged(h)
        PROVE  /\ h < nextHandle' /\ (h \in Listed' \/ CloseAsked(h)')
               /\ \A l \in 1 .. m : answered'[l] = Acknowledged(h) => l = k
    <3>1. /\ answered[k] = Acknowledged(h) /\ h < nextHandle /\ (h \in Listed \/ CloseAsked(h))
          /\ \A l \in 1 .. m : answered[l] = Acknowledged(h) => l = k
      BY <2>1, <2>4, Zenon DEF AcksDistinct
    <3>2. QED
      BY <1>11, <1>13, <2>1, <2>2, <3>1
  <2>5. \A k \in 1 .. Len(asked') : \A h \in Handle : answered'[k] = Acknowledged(h) =>
          /\ h < nextHandle'
          /\ \A l \in 1 .. Len(asked') : answered'[l] = Acknowledged(h) => l = k
          /\ h \in Listed' \/ CloseAsked(h)'
    BY <2>3, <2>4
  <2>6. QED
    BY <2>5, Zenon DEF AcksDistinct
<1>14. QED
  BY <1>2, <1>6, <1>9, <1>10, <1>12, <1>13

-----------------------------------------------------------------------------
(* The two together. *)

\* What ServesAsExpected needs by itself: nothing of what the requests name.
LEMMA ClientPart_Init == HostStationInit => ClientPart
<1>1. HostStationInit => ClientInit
  BY DEF HostStationInit
<1>2. QED
  BY <1>1, Client_Init, Replies_Init DEF ClientPart

LEMMA ClientPart_Step == ClientPart /\ [HostStationNext]_hostStationVars => ClientPart'
<1>. SUFFICES ASSUME ClientPart, [HostStationNext]_hostStationVars PROVE ClientPart'
  OBVIOUS
<1>1. [ClientNext]_relayVars
  BY ClientAssumption, ServesAsExpected_Step
<1>2. ClientTypes' /\ WaiterInv'
  BY <1>1, Client_Step DEF ClientPart
<1>3. RepliesInv'
  BY <1>1, ClientAssumption, Replies_Step DEF ClientPart
<1>4. QED
  BY <1>2, <1>3 DEF ClientPart

\* The session of Session.tla is a station as RelayClient.tla takes it to be: it
\* gives every request one reply, in order, of the request's type or ERROR, and
\* none after the end of the session.  So what is proved of the client there
\* holds of it with this station.
THEOREM StationIsAsExpected == HostStationSpec => ServesAsExpected
<1>1. HostStationInit => ClientInit
  BY DEF HostStationInit
<1>2. ClientPart /\ [HostStationNext]_hostStationVars => [ClientNext]_relayVars
  BY ClientAssumption, ServesAsExpected_Step
<1>3. QED
  BY <1>1, <1>2, ClientPart_Init, ClientPart_Step, PTL DEF HostStationSpec, ServesAsExpected

LEMMA HostStation_Init == HostStationInit => HostStationInv
<1>. SUFFICES ASSUME HostStationInit PROVE HostStationInv
  OBVIOUS
<1>1. SessionInv /\ ClientPart
  BY SessionInv_Init, ClientPart_Init DEF HostStationInit
<1>2. /\ asked = << >> /\ target = << >> /\ answered = << >> /\ toStation = << >>
      /\ queued = << >> /\ buffer = << >> /\ fromStation = << >>
      /\ nextHandle = 1 /\ finished = FALSE
  BY DEF HostStationInit, ClientInit, SessionInit, BackendInit
<1>3. Len(<< >>) = 0 /\ 1 .. 0 = {}
  OBVIOUS
<1>4. RequestTypes
  BY <1>2, <1>3, ClientAssumption DEF RequestTypes, IsSeq, ClientAssumption
<1>5. Elements(<< >>) = {}
  BY <1>3 DEF Elements
<1>6. WireGenuine
  BY <1>2, <1>5 DEF WireGenuine, OnWire
<1>7. AnswersGenuine /\ AcksDistinct
  BY <1>2, <1>3 DEF AnswersGenuine, AcksDistinct
<1>8. QED
  BY <1>1, <1>4, <1>6, <1>7 DEF HostStationInv

LEMMA HostStation_Step ==
  NoWrap /\ HostStationInv /\ [HostStationNext]_hostStationVars => HostStationInv'
<1>. SUFFICES ASSUME NoWrap, HostStationInv, [HostStationNext]_hostStationVars
     PROVE  HostStationInv'
  OBVIOUS
<1>. USE DEF HostStationInv
<1>1. ClientPart'
  BY ClientPart_Step
<1>2. SessionInv'
  <2>1. [SessionNext]_vars
    BY ClientAssumption, HostStationAssumption, SessionInside_Step
  <2>2. QED
    BY <2>1, SessionInv_Step
<1>3. RequestTypes' /\ WireGenuine' /\ AnswersGenuine' /\ AcksDistinct'
  <2>1. RepliesInv'
    BY <1>1 DEF ClientPart
  <2>2. ASSUME NEW kind \in Kinds, NEW handle, AskAbout(kind, handle)
        PROVE  RequestTypes' /\ WireGenuine' /\ AnswersGenuine' /\ AcksDistinct'
    <3>1. handle \in Handle
      BY <2>2, BackendAssumption, GivenHandles
    <3>2. QED
      BY <2>1, <2>2, <3>1, HostAsks
  <2>3. CASE ClientRuns
    BY <2>1, <2>3, HostRuns
  <2>4. CASE HandleNext
    BY <2>1, <2>4, ClientAssumption, HostStationAssumption, StationHandles
  <2>5. CASE UNCHANGED hostStationVars
    <3>1. /\ UNCHANGED <<asked, outcome, answer, handedOut, queued, buffer, fromStation, toStation,
                         station, target, answered, nextHandle, finished, live>>
      BY <2>5 DEF hostStationVars, relayVars, clientVars, callVars, wireVars, vars, backendVars,
                  handleVars
    <3>2. UNCHANGED <<OnWire, Listed>> /\ StaysDone
      BY <3>1 DEF OnWire, Listed, StaysDone, Handled, Acked
    <3>3. WireGenuine'
      BY <3>2, NothingWritten
    <3>4. AnswersGenuine'
      BY <3>1, <3>2, AnswersKept
    <3>5. RequestTypes' /\ AcksDistinct'
      BY <3>1, <3>2 DEF RequestTypes, AcksDistinct, CloseAsked
    <3>6. QED
      BY <3>3, <3>4, <3>5
  <2>6. QED
    BY <2>2, <2>3, <2>4, <2>5 DEF HostStationNext
<1>4. QED
  BY <1>1, <1>2, <1>3

\* The host, too, is one that Session.tla allows: every step of the two is a step
\* of the session, or leaves it alone, so that all that is proved of a session,
\* its implementing HostView.tla included, holds of it behind this client.
THEOREM SessionBehindClient ==
  ASSUME NoWrap
  PROVE  HostStationSpec => SessionSpec
<1>1. HostStationInit => SessionInit
  BY DEF HostStationInit
<1>2. HostStationInv /\ [HostStationNext]_hostStationVars => [SessionNext]_vars
  BY ClientAssumption, HostStationAssumption, SessionInside_Step DEF HostStationInv
<1>3. HostStationInv /\ [HostStationNext]_hostStationVars => HostStationInv'
  BY NoWrap, HostStation_Step
<1>4. QED
  BY <1>1, <1>2, <1>3, HostStation_Init, PTL DEF HostStationSpec, SessionSpec

\* Every handle an open call returned is one the station opened, no two calls
\* were given the same, and its target is there until it is asked to be closed,
\* also after calls have timed out and replies went to calls that came later.
THEOREM HandlesGivenAreReal ==
  ASSUME NoWrap
  PROVE  HostStationSpec => []HandlesAreReal
<1>1. HostStationInv => HandlesAreReal
  <2>. SUFFICES ASSUME HostStationInv PROVE HandlesAreReal
    OBVIOUS
  <2>. USE DEF HostStationInv
  <2>1. ASSUME NEW n \in OpenCalls
        PROVE  /\ n \in 1 .. Len(asked) /\ answer[n] \in 1 .. Len(asked) /\ HandleOf(n) \in Handle
               /\ answered[answer[n]] = Acknowledged(HandleOf(n))
    <3>1. n \in 1 .. Len(asked) /\ asked[n] = "open" /\ outcome[n] = "returned"
      BY OnWireType DEF OpenCalls, ClientPart, ClientTypes
    <3>2. answer[n] # 0 /\ Handled(answer[n]) /\ Acked(answer[n])
      BY <3>1 DEF AnswersGenuine
    <3>3. PICK h \in Handle : answered[answer[n]] = Acknowledged(h)
      BY <3>2 DEF Acked
    <3>4. HandleOf(n) = h
      BY <3>3 DEF HandleOf, Acknowledged
    <3>5. QED
      BY <3>1, <3>2, <3>3, <3>4 DEF Handled
  <2>2. ASSUME NEW n \in OpenCalls, NEW m \in OpenCalls, HandleOf(n) = HandleOf(m) PROVE n = m
    <3>1. answer[n] = answer[m]
      BY <2>1, <2>2 DEF AcksDistinct
    <3>2. answer[n] # 0
      BY <2>1
    <3>3. QED
      BY <2>1, <3>1, <3>2 DEF AnswersGenuine
  <2>3. ASSUME NEW n \in OpenCalls
        PROVE  HandleOf(n) \in Listed
               \/ \E m \in DOMAIN asked : asked[m] = "close" /\ target[m] = HandleOf(n)
    <3>1. HandleOf(n) \in Listed \/ CloseAsked(HandleOf(n))
      BY <2>1 DEF AcksDistinct
    <3>2. DOMAIN asked = 1 .. Len(asked)
      BY DEF ClientPart, ClientTypes
    <3>3. QED
      BY <3>1, <3>2 DEF CloseAsked
  <2>4. QED
    BY <2>2, <2>3 DEF HandlesAreReal
<1>2. HostStationInv /\ [HostStationNext]_hostStationVars => HostStationInv'
  BY NoWrap, HostStation_Step
<1>3. QED
  BY <1>1, <1>2, HostStation_Init, PTL DEF HostStationSpec

-----------------------------------------------------------------------------
(* What a host knows that was never disturbed.  Beside the numbers of the      *)
(* requests, what was done on each now matters: a frame on its way says it, a  *)
(* call that was given the frame ended by it, and the targets are those that   *)
(* the acknowledged OPENs made and no carried out CLOSE has removed.           *)

Refused(k) == answered[k].reply.type = "ERROR"

\* A reply to request k ends a call of the kind of n without an exception.
Fits(n, k) == ~ Refused(k) /\ (asked[n] \in Checked => asked[k] = asked[n])

Closed(h) ==
  \E m \in 1 .. Len(asked) : /\ asked[m] = "close" /\ target[m] = h
                             /\ Done(m) /\ ~ Refused(m)

Opened(h) == \E k \in 1 .. Len(asked) : answered[k] = Acknowledged(h)

WireTells ==
  \A frame \in OnWire :
    /\ Done(frame.re)
    /\ frame.kind = IF Refused(frame.re) THEN "error" ELSE asked[frame.re]

OutcomesTell ==
  \A n \in 1 .. Len(asked) : outcome[n] \in {"returned", "raised"} =>
    /\ answer[n] # 0 /\ Done(answer[n])
    /\ (outcome[n] = "returned") <=> Fits(n, answer[n])

DoneRight ==
  \A k \in 1 .. Len(asked) : Done(k) =>
    /\ Handled(k)
    /\ asked[k] \in {"post", "set"} => (Refused(k) <=> answered[k].call = NotCalled)
    /\ answered[k].call # NotCalled => answered[k].call.handle = target[k]
    /\ asked[k] = "open" => Acked(k) \/ Refused(k)
    /\ Acked(k) => asked[k] = "open"

ListedExactly ==
  /\ \A h \in Handle : h \in Listed <=> Opened(h) /\ ~ Closed(h)
  /\ \A m \in 1 .. Len(asked) : asked[m] = "close" => Opened(target[m])

KnowsInv == HostStationInv /\ WireTells /\ OutcomesTell /\ DoneRight /\ ListedExactly

\* What happens on one request, and what the frame says of it.
LEMMA RequestDone ==
  ASSUME NEW kind, NEW handle, HandleRequest(kind, handle)
  PROVE  /\ kind \in {"post", "set"} => (reply'.type = "ERROR" <=> call' = NotCalled)
         /\ call' # NotCalled => call'.handle = handle
<1>1. CASE kind = "bye" /\ Bye
  BY <1>1 DEF Bye, UntouchedBackend, NoCall
<1>2. CASE kind # "hello" /\ kind # "bye" /\ BadGreeting
  BY <1>2 DEF BadGreeting, UntouchedBackend, NoCall, SendError
<1>3. ASSUME NEW reason, Refuse(reason) PROVE reply'.type = "ERROR" /\ call' = NotCalled
  BY <1>3 DEF Refuse, UntouchedBackend, NoCall, SendError
<1>4. ASSUME NEW offer, Hello(offer) PROVE call' = NotCalled
  BY <1>4 DEF Hello, UntouchedBackend, NoCall
<1>5. CASE kind = "hello" /\ Unsupported
  BY <1>3, <1>5 DEF Unsupported
<1>6. CASE kind = "caps" /\ CapsRequest
  BY <1>6 DEF CapsRequest, NoCall
<1>7. CASE kind = "open" /\ Open(TRUE)
  BY <1>7 DEF Open, NoCall
<1>8. ASSUME NEW role, NEW shape, Drive(handle, TRUE, role, shape)
      PROVE  /\ reply'.type = "ERROR" <=> call' = NotCalled
             /\ call' # NotCalled => call'.handle = handle
  <2>1. CASE Refuse("BAD_ARGUMENT")
    BY <1>3, <2>1
  <2>2. CASE Deliver(handle, role, shape)
    <3>1. ASSUME NEW reason, SendError(reason), NoCall PROVE reply'.type = "ERROR" /\ call' = NotCalled
      BY <3>1 DEF SendError, NoCall
    <3>2. ASSUME Call(role, shape, handle), SendStatus(handle)
          PROVE  reply'.type = "STATUS" /\ call' # NotCalled /\ call'.handle = handle
      BY <3>2 DEF Call, SendStatus, NotCalled
    <3>3. QED
      BY <2>2, <3>1, <3>2 DEF Deliver
  <2>3. QED
    BY <1>8, <2>1, <2>2 DEF Drive
<1>9. CASE kind = "close" /\ Close(handle)
  BY <1>3, <1>9 DEF Close, NoCall
<1>10. CASE kind = "diag" /\ DiagRequest("true", "absent")
  BY <1>10 DEF DiagRequest, NoCall
<1>11. QED
  BY <1>1, <1>2, <1>4, <1>5, <1>6, <1>7, <1>8, <1>9, <1>10 DEF HandleRequest, Post, Set

LEMMA FrameTells ==
  ASSUME ClientAssumption, SessionInv, ClientPart, HandleNext,
         NEW n, n = Head(toStation), NEW did, did = [reply |-> reply', call |-> call'],
         NEW frame, frame = FrameOf(n, reply')
  PROVE  /\ frame.kind = IF did.reply.type = "ERROR" THEN "error" ELSE asked[n]
         /\ asked[n] \in {"post", "set"} => (did.reply.type = "ERROR" <=> did.call = NotCalled)
         /\ did.call # NotCalled => did.call.handle = target[n]
         /\ did.reply.type = "OPEN_ACK" <=> asked[n] = "open" /\ did.reply.type # "ERROR"
<1>1. asked[n] \in Checked \cup Unchecked /\ HandleRequest(asked[n], target[n])
  BY NextRequest
<1>2. reply'.type = "ERROR" \/ reply'.type = ReplyTo[asked[n]]
  BY <1>1, RequestAnswered
<1>3. ReplyTo["open"] = "OPEN_ACK"
  BY DEF ReplyTo
<1>4. reply'.type = "OPEN_ACK" => asked[n] = "open"
  BY <1>1, OpenAnswered
<1>5. frame.kind = IF reply'.type = "ERROR" THEN "error" ELSE asked[n]
  BY <1>2 DEF FrameOf, Frame
<1>6. /\ asked[n] \in {"post", "set"} => (reply'.type = "ERROR" <=> call' = NotCalled)
      /\ call' # NotCalled => call'.handle = target[n]
  BY <1>1, RequestDone
<1>7. did.reply = reply' /\ did.call = call'
  OBVIOUS
<1>8. QED
  BY <1>2, <1>3, <1>4, <1>5, <1>6, <1>7

-----------------------------------------------------------------------------
(* Steps after which the host still knows what it knew. *)

\* What was done on the requests that were handled stays as it was.
StaysTold == \A k : Handled(k) => asked'[k] = asked[k] /\ answered'[k] = answered[k]

LEMMA WireStill ==
  ASSUME WireTells, WireGenuine, StaysTold, OnWire' \subseteq OnWire
  PROVE  WireTells'
<1>1. ASSUME NEW frame \in OnWire', NEW r, r = frame.re
      PROVE  /\ answered'[r] # Unanswered
             /\ frame.kind = IF answered'[r].reply.type = "ERROR" THEN "error" ELSE asked'[r]
  <2>1. frame \in OnWire
    BY <1>1
  <2>2. Handled(r)
    BY <1>1, <2>1 DEF WireGenuine, Genuine, Handled
  <2>3. answered[r] # Unanswered /\ frame.kind = IF answered[r].reply.type = "ERROR" THEN "error" ELSE asked[r]
    BY <1>1, <2>1 DEF WireTells, Done, Refused
  <2>4. QED
    BY <2>2, <2>3 DEF StaysTold
<1>2. QED
  BY <1>1 DEF WireTells, Done, Refused

\* A call ends as what was done on the request of its reply makes it end.
LEMMA OutcomesStill ==
  ASSUME OutcomesTell, WireTells, WireGenuine, AnswersGenuine, StaysTold,
         \A k \in 1 .. Len(asked) : asked[k] # "error",
         \A n \in 1 .. Len(asked') : outcome'[n] \notin Unfinished =>
           \/ /\ n \in 1 .. Len(asked) /\ answer'[n] = answer[n] /\ asked'[n] = asked[n]
              /\ outcome'[n] = outcome[n]
           \/ \E frame \in OnWire :
                answer'[n] = frame.re /\ outcome'[n] = OutcomeOf(asked'[n], frame)
  PROVE  OutcomesTell'
<1>1. ASSUME NEW n \in 1 .. Len(asked'), outcome'[n] \in {"returned", "raised"},
             NEW x, x = answer'[n]
      PROVE  /\ x # 0 /\ answered'[x] # Unanswered
             /\ (outcome'[n] = "returned") <=>
                  /\ answered'[x].reply.type # "ERROR"
                  /\ asked'[n] \in Checked => asked'[x] = asked'[n]
  <2>1. outcome'[n] \notin Unfinished
    BY <1>1 DEF Unfinished
  <2>2. CASE /\ n \in 1 .. Len(asked) /\ answer'[n] = answer[n] /\ asked'[n] = asked[n]
             /\ outcome'[n] = outcome[n]
    <3>1. /\ x # 0 /\ answered[x] # Unanswered
          /\ (outcome[n] = "returned") <=>
               /\ answered[x].reply.type # "ERROR"
               /\ asked[n] \in Checked => asked[x] = asked[n]
      BY <1>1, <2>2 DEF OutcomesTell, Done, Fits, Refused
    <3>2. Handled(x)
      BY <1>1, <2>2, <3>1 DEF AnswersGenuine, Handled
    <3>3. QED
      BY <2>2, <3>1, <3>2 DEF StaysTold
  <2>3. ASSUME NEW frame \in OnWire, answer'[n] = frame.re, outcome'[n] = OutcomeOf(asked'[n], frame)
        PROVE  /\ x # 0 /\ answered'[x] # Unanswered
               /\ (outcome'[n] = "returned") <=>
                    /\ answered'[x].reply.type # "ERROR"
                    /\ asked'[n] \in Checked => asked'[x] = asked'[n]
    <3>1. Handled(x) /\ x \in 1 .. Len(asked)
      BY <1>1, <2>3 DEF WireGenuine, Genuine, Handled
    <3>2. answered[x] # Unanswered /\ frame.kind = IF answered[x].reply.type = "ERROR" THEN "error" ELSE asked[x]
      BY <1>1, <2>3 DEF WireTells, Done, Refused
    <3>3. asked'[x] = asked[x] /\ answered'[x] = answered[x] /\ asked[x] # "error"
      BY <3>1 DEF StaysTold
    <3>4. x # 0
      BY <3>1
    <3>5. QED
      BY <2>3, <3>2, <3>3, <3>4 DEF OutcomeOf
  <2>4. QED
    BY <2>1, <2>2, <2>3
<1>2. QED
  BY <1>1 DEF OutcomesTell, Done, Fits, Refused

LEMMA KindsAreNoError == ClientAssumption /\ ClientPart => \A k \in 1 .. Len(asked) : asked[k] # "error"
BY DEF ClientAssumption, ClientPart, ClientTypes, Checked, Unchecked

\* What is asked about was opened.
LEMMA GivenOpened ==
  ASSUME ClientPart, AnswersGenuine, NEW kind \in {"post", "set", "close"}, NEW handle,
         AskAbout(kind, handle)
  PROVE  Opened(handle)
<1>1. PICK n \in OpenCalls : handle = HandleOf(n)
  BY DEF AskAbout, Given
<1>2. n \in 1 .. Len(asked) /\ asked[n] = "open" /\ outcome[n] = "returned"
  BY <1>1, OnWireType DEF OpenCalls, ClientPart, ClientTypes
<1>3. answer[n] # 0 /\ Handled(answer[n]) /\ Acked(answer[n])
  BY <1>2 DEF AnswersGenuine
<1>4. PICK h \in Handle : answered[answer[n]] = Acknowledged(h)
  BY <1>3 DEF Acked
<1>5. HandleOf(n) = h
  BY <1>4 DEF HandleOf, Acknowledged
<1>6. answer[n] \in 1 .. Len(asked)
  BY <1>3 DEF Handled
<1>7. QED
  BY <1>1, <1>4, <1>5, <1>6 DEF Opened

LEMMA AskKnows ==
  ASSUME ClientAssumption, KnowsInv, NEW kind \in Kinds, NEW handle \in Handle,
         AskAbout(kind, handle)
  PROVE  WireTells' /\ OutcomesTell' /\ DoneRight' /\ ListedExactly'
<1>. DEFINE m == Len(asked)
<1>. USE DEF KnowsInv, HostStationInv
<1>1. /\ m \in Nat /\ Len(asked') = m + 1
      /\ asked'[m + 1] = kind /\ answered'[m + 1] = Unanswered
      /\ \A k \in 1 .. m : /\ k \in 1 .. Len(asked') /\ k # m + 1
                           /\ asked'[k] = asked[k] /\ answered'[k] = answered[k]
                           /\ target'[k] = target[k]
      /\ \A k \in 1 .. Len(asked') : k \in 1 .. m \/ k = m + 1
      /\ StaysDone /\ OnWire' \subseteq OnWire
  BY AskEffect
<1>2. StaysTold
  BY <1>1, Zenon DEF StaysTold, Handled
<1>3. WireTells'
  BY <1>1, <1>2, WireStill
<1>4. /\ IsSeq(answer) /\ Len(answer) = m /\ IsSeq(outcome) /\ Len(outcome) = m
  BY DEF ClientPart, ClientTypes, IsSeq
<1>5. ASSUME NEW x, NEW o, answer' = Append(answer, x), outcome' = Append(outcome, o)
      PROVE  /\ answer'[m + 1] = x /\ outcome'[m + 1] = o
             /\ \A n \in 1 .. m : answer'[n] = answer[n] /\ outcome'[n] = outcome[n]
  <2>1. /\ Append(answer, x)[Len(answer) + 1] = x
        /\ \A n \in 1 .. Len(answer) : Append(answer, x)[n] = answer[n]
    <3>1. IsSeq(answer)
      BY <1>4
    <3>2. QED
      BY <3>1, Appended
  <2>2. /\ Append(outcome, o)[Len(outcome) + 1] = o
        /\ \A n \in 1 .. Len(outcome) : Append(outcome, o)[n] = outcome[n]
    <3>1. IsSeq(outcome)
      BY <1>4
    <3>2. QED
      BY <3>1, Appended
  <2>3. QED
    BY <1>4, <1>5, <2>1, <2>2
<1>6. ASSUME NEW n \in 1 .. Len(asked'), outcome'[n] \notin Unfinished
      PROVE  \/ /\ n \in 1 .. m /\ answer'[n] = answer[n] /\ asked'[n] = asked[n]
                /\ outcome'[n] = outcome[n]
             \/ \E frame \in OnWire :
                  answer'[n] = frame.re /\ outcome'[n] = OutcomeOf(asked'[n], frame)
  <2>1. ASSUME NEW o \in Unfinished, answer' = Append(answer, 0), outcome' = Append(outcome, o)
        PROVE  n \in 1 .. m /\ answer'[n] = answer[n] /\ asked'[n] = asked[n] /\ outcome'[n] = outcome[n]
    <3>1. /\ outcome'[m + 1] = o
          /\ \A l \in 1 .. m : answer'[l] = answer[l] /\ outcome'[l] = outcome[l]
      BY <1>5, <2>1, Zenon
    <3>2. QED
      BY <1>1, <1>6, <2>1, <3>1
  <2>2. ASSUME NEW frame \in OnWire, answer' = Append(answer, frame.re),
               outcome' = Append(outcome, OutcomeOf(kind, frame))
        PROVE  \/ /\ n \in 1 .. m /\ answer'[n] = answer[n] /\ asked'[n] = asked[n]
                  /\ outcome'[n] = outcome[n]
               \/ answer'[n] = frame.re /\ outcome'[n] = OutcomeOf(asked'[n], frame)
    <3>1. /\ answer'[m + 1] = frame.re /\ outcome'[m + 1] = OutcomeOf(kind, frame)
          /\ \A l \in 1 .. m : answer'[l] = answer[l] /\ outcome'[l] = outcome[l]
      BY <1>5, <2>2, Zenon
    <3>2. QED
      BY <1>1, <3>1
  <2>3. \/ answer' = Append(answer, 0) /\ \E o \in Unfinished : outcome' = Append(outcome, o)
        \/ \E frame \in OnWire :
             /\ answer' = Append(answer, frame.re)
             /\ outcome' = Append(outcome, OutcomeOf(kind, frame))
    BY AskGives DEF AskAbout
  <2>4. QED
    BY <2>1, <2>2, <2>3
<1>7. OutcomesTell'
  BY <1>2, <1>6, KindsAreNoError, OutcomesStill
<1>8. DoneRight'
  <2>1. ASSUME NEW k \in 1 .. Len(asked'), answered'[k] # Unanswered
        PROVE  /\ k \in 1 .. m /\ Done(k) /\ Handled(k) /\ Handled(k)'
               /\ asked'[k] = asked[k] /\ answered'[k] = answered[k] /\ target'[k] = target[k]
    BY <1>1, <2>1 DEF DoneRight, Done, StaysDone
  <2>2. QED
    BY <2>1 DEF DoneRight, Done, Acked, Refused, Handled
<1>9. ListedExactly'
  <2>1. Listed' = Listed
    BY DEF AskAbout, vars, backendVars, handleVars, Listed
  <2>2. ASSUME NEW h PROVE Opened(h)' <=> Opened(h)
    BY <1>1, AnswersAnswer DEF Opened
  <2>3. ASSUME NEW h PROVE Closed(h)' <=> Closed(h)
    BY <1>1 DEF Closed, Done, Refused
  <2>4. target'[m + 1] = handle
    BY DEF AskAbout, RequestTypes
  <2>5. kind = "close" => Opened(handle)
    BY GivenOpened
  <2>6. ASSUME NEW k \in 1 .. Len(asked'), asked'[k] = "close", NEW h, h = target'[k]
        PROVE  Opened(h)
    BY <1>1, <2>4, <2>5, <2>6 DEF ListedExactly, Opened
  <2>7. ASSUME NEW k \in 1 .. Len(asked'), asked'[k] = "close"
        PROVE  \E l \in 1 .. Len(asked') : answered'[l] = Acknowledged(target'[k])
    <3>1. PICK h : h = target'[k]
      OBVIOUS
    <3>2. Opened(h)'
      BY <2>2, <2>6, <2>7, <3>1
    <3>3. QED
      BY <3>1, <3>2 DEF Opened
  <2>8. \A h \in Handle : h \in Listed' <=> Opened(h)' /\ ~ Closed(h)'
    BY <2>1, <2>2, <2>3 DEF ListedExactly
  <2>9. QED
    BY <2>7, <2>8 DEF ListedExactly, Opened, Closed
<1>10. QED
  BY <1>3, <1>7, <1>8, <1>9

LEMMA RunsKnow ==
  ASSUME ClientAssumption, KnowsInv, ClientRuns
  PROVE  WireTells' /\ OutcomesTell' /\ DoneRight' /\ ListedExactly'
<1>. USE DEF KnowsInv, HostStationInv
<1>1. /\ UNCHANGED <<vars, target, answered, asked, toStation>> /\ OnWire' \subseteq OnWire
  BY RunsGive DEF ClientRuns
<1>2. UNCHANGED Listed /\ StaysTold
  BY <1>1 DEF vars, backendVars, handleVars, Listed, StaysTold
<1>3. WireTells'
  BY <1>1, <1>2, WireStill
<1>4. /\ DOMAIN answer = 1 .. Len(asked) /\ DOMAIN outcome = 1 .. Len(asked)
  BY OnWireType DEF ClientPart, ClientTypes, IsSeq
<1>5. ASSUME NEW n \in 1 .. Len(asked'), outcome'[n] \notin Unfinished
      PROVE  \/ /\ n \in 1 .. Len(asked) /\ answer'[n] = answer[n] /\ asked'[n] = asked[n]
                /\ outcome'[n] = outcome[n]
             \/ \E frame \in OnWire :
                  answer'[n] = frame.re /\ outcome'[n] = OutcomeOf(asked'[n], frame)
  <2>1. n \in 1 .. Len(asked) /\ asked' = asked
    BY <1>1
  <2>2. CASE UNCHANGED answer /\ (outcome'[n] = outcome[n] \/ outcome'[n] \in Unfinished)
    BY <1>5, <2>1, <2>2
  <2>3. ASSUME NEW frame \in OnWire, NEW w \in 1 .. Len(asked),
               answer' = [answer EXCEPT ![w] = frame.re],
               outcome' = [outcome EXCEPT ![w] = OutcomeOf(asked[w], frame)]
        PROVE  \/ answer'[n] = answer[n] /\ outcome'[n] = outcome[n]
               \/ answer'[n] = frame.re /\ outcome'[n] = OutcomeOf(asked'[n], frame)
    BY <1>4, <2>1, <2>3
  <2>4. \/ UNCHANGED answer /\ (outcome'[n] = outcome[n] \/ outcome'[n] \in Unfinished)
        \/ \E frame \in OnWire, w \in 1 .. Len(asked) :
             /\ answer' = [answer EXCEPT ![w] = frame.re]
             /\ outcome' = [outcome EXCEPT ![w] = OutcomeOf(asked[w], frame)]
    BY <2>1, RunsGive
  <2>5. QED
    BY <2>1, <2>2, <2>3, <2>4
<1>6. OutcomesTell'
  BY <1>2, <1>5, KindsAreNoError, OutcomesStill
<1>7. DoneRight' /\ ListedExactly'
  BY <1>1, <1>2 DEF DoneRight, ListedExactly, Done, Handled, Acked, Refused, Opened, Closed
<1>8. QED
  BY <1>3, <1>6, <1>7

LEMMA HandleKnows ==
  ASSUME NoWrap, ClientAssumption, HostStationAssumption, KnowsInv, HandleNext
  PROVE  WireTells' /\ OutcomesTell' /\ DoneRight' /\ ListedExactly'
<1>. DEFINE m == Len(asked)
<1>. USE DEF KnowsInv, HostStationInv
<1>0. PICK n, did, frame : /\ n = Head(toStation) /\ did = [reply |-> reply', call |-> call']
                          /\ frame = FrameOf(n, reply')
  OBVIOUS
<1>1. /\ n \in 1 .. m /\ m \in Nat
      /\ UNCHANGED <<clientVars, target>> /\ answered'[n] = did
      /\ \A k \in 1 .. m : k # n => answered'[k] = answered[k]
      /\ Handled(n)' /\ \A k : Handled(k) => k # n /\ Handled(k)'
  BY <1>0, HandleEffect
<1>2. UNCHANGED <<asked, answer, outcome, queued, buffer, target>>
  BY <1>1 DEF clientVars, callVars
<1>3. /\ frame.kind = IF did.reply.type = "ERROR" THEN "error" ELSE asked[n]
      /\ asked[n] \in {"post", "set"} => (did.reply.type = "ERROR" <=> did.call = NotCalled)
      /\ did.call # NotCalled => did.call.handle = target[n]
      /\ did.reply.type = "OPEN_ACK" <=> asked[n] = "open" /\ did.reply.type # "ERROR"
  BY <1>0, FrameTells
<1>4. \/ /\ did = Acknowledged(nextHandle) /\ nextHandle \in Handle
         /\ nextHandle' = nextHandle + 1 /\ Listed' = Listed \cup {nextHandle}
      \/ /\ \A h \in Handle : did # Acknowledged(h)
         /\ frame.kind # "open"
         /\ nextHandle' = nextHandle
         /\ \/ Listed' = Listed /\ (asked[n] = "close" => did.reply.type = "ERROR")
            \/ /\ asked[n] = "close" /\ did.reply.type = "STATUS"
               /\ Listed' = Listed \ {target[n]}
  BY <1>0, TargetsMove
<1>5. did # Unanswered /\ answered[n] = Unanswered
  <2>1. did # Unanswered
    BY <1>0, AnswersAnswer
  <2>2. ~ Handled(n)
    BY <1>1
  <2>3. QED
    BY <1>1, <2>1, <2>2 DEF DoneRight, Done
<1>6. StaysTold
  BY <1>1, <1>2 DEF StaysTold, Handled
<1>7. frame.re = n /\ Elements(fromStation') = Elements(fromStation) \cup Elements(Halves(frame))
      /\ Elements(Halves(frame)) \subseteq {frame}
  <2>1. fromStation' = fromStation \o Halves(frame) /\ frame \in Frames /\ frame.re = n
    BY <1>0, StationServes DEF HandleNext
  <2>2. Halves(frame) \in Seq(Frames) /\ Elements(Halves(frame)) \subseteq {frame}
    BY <2>1 DEF Halves, Elements
  <2>3. fromStation \in Seq(Frames)
    BY OnWireType
  <2>4. Elements(fromStation \o Halves(frame)) = Elements(fromStation) \cup Elements(Halves(frame))
    BY <2>2, <2>3, ElementsJoined, Zenon
  <2>5. QED
    BY <2>1, <2>2, <2>4
<1>8. WireTells'
  <2>1. ASSUME NEW f \in OnWire', NEW r, r = f.re
        PROVE  /\ answered'[r] # Unanswered
               /\ f.kind = IF answered'[r].reply.type = "ERROR" THEN "error" ELSE asked'[r]
    <3>1. CASE f = frame
      BY <1>1, <1>2, <1>3, <1>5, <1>7, <2>1, <3>1
    <3>2. CASE f \in OnWire
      <4>1. Handled(r)
        BY <2>1, <3>2 DEF WireGenuine, Genuine, Handled
      <4>2. answered[r] # Unanswered /\ f.kind = IF answered[r].reply.type = "ERROR" THEN "error" ELSE asked[r]
        BY <2>1, <3>2 DEF WireTells, Done, Refused
      <4>3. QED
        BY <1>6, <4>1, <4>2 DEF StaysTold
    <3>3. QED
      BY <1>2, <1>7, <2>1, <3>1, <3>2 DEF OnWire
  <2>2. QED
    BY <2>1 DEF WireTells, Done, Refused
<1>9. OutcomesTell'
  <2>1. \A k \in 1 .. Len(asked') :
          k \in 1 .. m /\ answer'[k] = answer[k] /\ asked'[k] = asked[k] /\ outcome'[k] = outcome[k]
    BY <1>2
  <2>2. QED
    BY <1>6, <2>1, KindsAreNoError, OutcomesStill
<1>10. DoneRight'
  <2>1. ASSUME NEW k \in 1 .. m, answered'[k] # Unanswered
        PROVE  /\ Handled(k)'
               /\ asked[k] \in {"post", "set"} =>
                    (answered'[k].reply.type = "ERROR" <=> answered'[k].call = NotCalled)
               /\ answered'[k].call # NotCalled => answered'[k].call.handle = target[k]
               /\ asked[k] = "open" => Acked(k)' \/ answered'[k].reply.type = "ERROR"
               /\ Acked(k)' => asked[k] = "open"
    <3>1. CASE k = n
      <4>1. asked[n] = "open" => Acked(n)' \/ did.reply.type = "ERROR"
        <5>1. did = Acknowledged(nextHandle) /\ nextHandle \in Handle => Acked(n)'
          BY <1>1 DEF Acked
        <5>2. asked[n] = "open" /\ did.reply.type # "ERROR" => frame.kind = "open"
          BY <1>3
        <5>3. QED
          BY <1>4, <5>1, <5>2
      <4>2. Acked(n)' => asked[n] = "open"
        <5>1. Acked(n)' => did.reply.type = "OPEN_ACK"
          BY <1>1 DEF Acked, Acknowledged
        <5>2. QED
          BY <1>3, <5>1
      <4>3. QED
        BY <1>1, <1>3, <3>1, <4>1, <4>2
    <3>2. CASE k # n
      <4>1. answered'[k] = answered[k]
        BY <1>1, <3>2
      <4>2. QED
        BY <1>1, <2>1, <4>1 DEF DoneRight, Done, Refused, Acked
    <3>3. QED
      BY <3>1, <3>2
  <2>2. QED
    BY <1>2, <2>1 DEF DoneRight, Done, Refused, Acked
<1>11. ASSUME NEW h \in Handle PROVE Opened(h)' <=> Opened(h) \/ did = Acknowledged(h)
  <2>1. answered[n] # Acknowledged(h)
    BY <1>5, AnswersAnswer
  <2>2. QED
    BY <1>1, <1>2, <2>1 DEF Opened
<1>12. ASSUME NEW h
       PROVE  Closed(h)' <=>
                Closed(h) \/ (asked[n] = "close" /\ target[n] = h /\ did.reply.type # "ERROR")
  BY <1>1, <1>2, <1>5 DEF Closed, Done, Refused
<1>13. Listed \subseteq Handle /\ \A k \in 1 .. m : target[k] \in Handle
  BY DEF SessionInv, SwitchInv, SessionTypeOK, Listed, RequestTypes
<1>14. \A h \in Handle : h \in Listed' <=> Opened(h)' /\ ~ Closed(h)'
  <2>1. CASE /\ did = Acknowledged(nextHandle) /\ nextHandle \in Handle
             /\ Listed' = Listed \cup {nextHandle}
    <3>1. asked[n] # "close"
      BY <1>3, <2>1 DEF Acknowledged
    <3>2. ASSUME NEW h \in Handle PROVE did = Acknowledged(h) <=> h = nextHandle
      BY <2>1 DEF Acknowledged
    <3>3. ~ Closed(nextHandle)
      <4>1. Closed(nextHandle) => Opened(nextHandle)
        BY DEF Closed, ListedExactly
      <4>2. Opened(nextHandle) => nextHandle < nextHandle
        BY <2>1 DEF Opened, AcksDistinct
      <4>3. nextHandle \in Int
        BY SessionAssumption DEF SessionInv, HandleInv
      <4>4. QED
        BY <4>1, <4>2, <4>3
    <3>4. QED
      BY <1>11, <1>12, <2>1, <3>1, <3>2, <3>3 DEF ListedExactly
  <2>2. CASE /\ \A h \in Handle : did # Acknowledged(h)
             /\ \/ Listed' = Listed /\ (asked[n] = "close" => did.reply.type = "ERROR")
                \/ /\ asked[n] = "close" /\ did.reply.type = "STATUS"
                   /\ Listed' = Listed \ {target[n]}
    BY <1>11, <1>12, <2>2 DEF ListedExactly
  <2>3. QED
    BY <1>4, <2>1, <2>2
<1>15. ASSUME NEW k \in 1 .. m, asked[k] = "close" PROVE Opened(target[k])'
  <2>1. PICK h \in Handle : h = target[k]
    BY <1>13
  <2>2. Opened(h)'
    BY <1>11, <1>15, <2>1 DEF ListedExactly
  <2>3. QED
    BY <1>2, <2>1, <2>2 DEF Opened
<1>16. ListedExactly'
  BY <1>2, <1>14, <1>15 DEF ListedExactly, Opened, Closed
<1>17. QED
  BY <1>8, <1>9, <1>10, <1>16

LEMMA Knows_Init == HostStationInit => KnowsInv
<1>. SUFFICES ASSUME HostStationInit PROVE KnowsInv
  OBVIOUS
<1>1. HostStationInv
  BY HostStation_Init
<1>2. /\ asked = << >> /\ queued = << >> /\ buffer = << >> /\ fromStation = << >> /\ live = << >>
  BY DEF HostStationInit, ClientInit, SessionInit, BackendInit
<1>3. Len(<< >>) = 0 /\ 1 .. 0 = {} /\ DOMAIN << >> = {}
  OBVIOUS
<1>4. OnWire = {} /\ Listed = {} /\ 1 .. Len(asked) = {}
  BY <1>2, <1>3 DEF OnWire, Elements, Listed
<1>5. QED
  BY <1>1, <1>4 DEF KnowsInv, WireTells, OutcomesTell, DoneRight, ListedExactly, Opened

LEMMA Knows_Step ==
  NoWrap /\ KnowsInv /\ [HostStationNext]_hostStationVars => KnowsInv'
<1>. SUFFICES ASSUME NoWrap, KnowsInv, [HostStationNext]_hostStationVars PROVE KnowsInv'
  OBVIOUS
<1>1. HostStationInv'
  BY HostStation_Step DEF KnowsInv
<1>2. ASSUME NEW kind \in Kinds, NEW handle, AskAbout(kind, handle)
      PROVE  WireTells' /\ OutcomesTell' /\ DoneRight' /\ ListedExactly'
  <2>1. handle \in Handle
    BY <1>2, BackendAssumption, GivenHandles DEF KnowsInv, HostStationInv
  <2>2. QED
    BY <1>2, <2>1, ClientAssumption, AskKnows
<1>3. CASE ClientRuns
  BY <1>1, <1>3, ClientAssumption, RunsKnow DEF KnowsInv
<1>4. CASE HandleNext
  BY <1>1, <1>4, ClientAssumption, HostStationAssumption, HandleKnows DEF KnowsInv
<1>5. CASE UNCHANGED hostStationVars
  <2>1. UNCHANGED <<asked, outcome, answer, queued, buffer, fromStation, toStation, target, answered, live>>
    BY <1>5 DEF hostStationVars, relayVars, clientVars, callVars, wireVars, vars, backendVars,
                handleVars
  <2>2. UNCHANGED <<OnWire, Listed>>
    BY <2>1 DEF OnWire, Listed
  <2>3. WireTells' /\ OutcomesTell' /\ DoneRight' /\ ListedExactly'
    BY <2>1, <2>2
       DEF KnowsInv, WireTells, OutcomesTell, DoneRight, ListedExactly, Done, Fits, Refused,
           Handled, Acked, Opened, Closed
  <2>4. QED
    BY <1>1, <2>3 DEF KnowsInv
<1>6. QED
  BY <1>1, <1>2, <1>3, <1>4, <1>5 DEF HostStationNext, KnowsInv

\* A host none of whose calls has timed out or failed knows what the station has:
\* the targets it holds are the station's, a call of POST or SET that returned was
\* carried out and one that raised was not, on the target that was named.
THEOREM HostKnowsAlways ==
  ASSUME NoWrap
  PROVE  HostStationSpec => []HostKnows
<1>1. KnowsInv => HostKnows
  <2>. SUFFICES ASSUME KnowsInv, Undisturbed PROVE HostKnows
    BY DEF HostKnows
  <2>. USE DEF KnowsInv, HostStationInv
  <2>1. /\ Len(asked) \in Nat /\ DOMAIN asked = 1 .. Len(asked)
        /\ DOMAIN outcome = 1 .. Len(asked) /\ DOMAIN answer = 1 .. Len(asked)
    BY OnWireType DEF ClientPart, ClientTypes, IsSeq
  <2>2. \A n \in 1 .. Len(asked) : answer[n] \in {0, n}
    BY <2>1 DEF Undisturbed, ClientPart, RepliesInv, PairInv, Prompt, Outstanding
  <2>3. \A n \in 1 .. Len(asked) :
          /\ answer[n] = n /\ Done(n) /\ ((outcome[n] = "returned") <=> ~ Refused(n))
    BY <2>1, <2>2 DEF Undisturbed, OutcomesTell, Fits
  <2>4. /\ OpenCalls = {n \in 1 .. Len(asked) : asked[n] = "open" /\ ~ Refused(n)}
        /\ \A n \in OpenCalls : HandleOf(n) = answered[n].reply.handle
    BY <2>1, <2>3 DEF OpenCalls, HandleOf
  <2>5. ASSUME NEW h PROVE Closed(h) <=> \E k \in DOMAIN asked :
                             asked[k] = "close" /\ outcome[k] = "returned" /\ target[k] = h
    BY <2>1, <2>3 DEF Closed
  <2>6. ASSUME NEW n \in OpenCalls PROVE HandleOf(n) \in Handle /\ Opened(HandleOf(n))
    <3>1. PICK h \in Handle : answered[n] = Acknowledged(h)
      BY <2>3, <2>4 DEF DoneRight, Acked
    <3>2. HandleOf(n) = h
      BY <2>4, <3>1 DEF Acknowledged
    <3>3. QED
      BY <2>4, <3>1, <3>2 DEF Opened
  <2>7. ASSUME NEW h \in Handle, Opened(h) PROVE \E n \in OpenCalls : HandleOf(n) = h
    <3>1. PICK n \in 1 .. Len(asked) : answered[n] = Acknowledged(h)
      BY <2>7 DEF Opened
    <3>2. asked[n] = "open" /\ ~ Refused(n)
      BY <2>3, <3>1 DEF DoneRight, Acked, Refused, Acknowledged
    <3>3. HandleOf(n) = h
      BY <2>4, <3>1, <3>2 DEF Acknowledged
    <3>4. QED
      BY <2>4, <3>2, <3>3
  <2>8. Listed \subseteq Handle
    BY DEF SessionInv, SwitchInv, SessionTypeOK, Listed
  <2>9. Listed = {HandleOf(n) : n \in {k \in OpenCalls : ~ Closed(HandleOf(k))}}
    BY <2>6, <2>7, <2>8 DEF ListedExactly
  <2>10. \A n \in DOMAIN asked :
           /\ asked[n] \in {"post", "set"} =>
                ((outcome[n] = "returned") <=> (answered[n].call # NotCalled))
           /\ answered[n].call # NotCalled => answered[n].call.handle = target[n]
    BY <2>1, <2>3 DEF DoneRight
  <2>11. QED
    BY <2>5, <2>9, <2>10 DEF HostKnows
<1>2. KnowsInv /\ [HostStationNext]_hostStationVars => KnowsInv'
  BY NoWrap, Knows_Step
<1>3. QED
  BY <1>1, <1>2, Knows_Init, PTL DEF HostStationSpec

=============================================================================
