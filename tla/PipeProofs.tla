----------------------------- MODULE PipeProofs -----------------------------
(***************************************************************************)
(* What the host hears over the named pipe, for any sizes of requests,     *)
(* replies and buffers and any number of requests: the bytes on their way  *)
(* from the station to the host are in three places, and together they are *)
(* the bytes written, in order, until something is thrown away.            *)
(***************************************************************************)
EXTENDS PipeTransport, SequenceTheorems, TLAPS

LEMMA MinOfTwo ==
  ASSUME NEW m \in Nat, NEW n \in Nat
  PROVE  Min({m, n}) \in Nat /\ Min({m, n}) =< m /\ Min({m, n}) =< n
         /\ (Min({m, n}) = m \/ Min({m, n}) = n)
<1>1. CASE m =< n
  <2>1. \A x \in {m, n} : (\A y \in {m, n} : x =< y) <=> x = m
    BY <1>1
  <2>2. Min({m, n}) = m
    BY <1>1, <2>1 DEF Min
  <2>3. QED
    BY <1>1, <2>2
<1>2. CASE n =< m
  <2>1. \A x \in {m, n} : (\A y \in {m, n} : x =< y) <=> x = n
    BY <1>2
  <2>2. Min({m, n}) = n
    BY <1>2, <2>1 DEF Min
  <2>3. QED
    BY <1>2, <2>2
<1>3. QED
  BY <1>1, <1>2

-----------------------------------------------------------------------------

Bytes == Seq(Nat)

PipeTypes ==
  /\ handle \in {None, "open", "closed"}
  /\ server \in {"created", "serving", "flushing", "gone"}
  /\ worker \in {"peek", "read", "finally", "stopped"}
  /\ heard \in Bytes /\ toHost \in Bytes /\ port \in Seq(Bytes)
  /\ written \in Nat /\ wanted \in Nat
  /\ done \in BOOLEAN /\ killed \in BOOLEAN

\* The end of the worker has been reported.
Ended == done \/ \E k \in 1 .. Len(port) : port[k] = End

\* Who is in which state when: the worker that a connected host starts runs
\* until it has reported its end, and reports it only when it was told to stop
\* or has found the pipe broken and empty.
PipeControl ==
  /\ handle = None => worker = "stopped" /\ ~ Ended /\ server \in {"created", "gone"}
  /\ handle = "closed" => killed
  /\ worker = "read" /\ HostThere => wanted \in 1 .. Len(toHost)
  /\ Ended => worker = "stopped"
  /\ (Ended \/ worker = "finally") /\ ~ killed => server = "gone" /\ toHost = << >>

\* What is heard, what is in the port and what is in the pipe, laid out: message
\* k of the port starts after byte pos[k - 1], each byte has the number of its
\* place, and nothing comes after a report of the end.
LaidOut(pos, said, messages, waiting, ended) ==
  /\ pos \in [0 .. Len(messages) -> Nat]
  /\ pos[0] = Len(said)
  /\ \A i \in 1 .. Len(said) : said[i] = i
  /\ \A k \in 1 .. Len(messages) : pos[k] = pos[k - 1] + Len(messages[k])
  /\ \A k \in 1 .. Len(messages) :
       \A i \in 1 .. Len(messages[k]) : messages[k][i] = pos[k - 1] + i
  /\ \A k \in 1 .. Len(messages) :
       messages[k] = End => \A l \in k - 1 .. Len(messages) : pos[l] = pos[Len(messages)]
  /\ \A i \in 1 .. Len(waiting) : waiting[i] = pos[Len(messages)] + i
  /\ ended => \A l \in 0 .. Len(messages) : pos[l] = pos[Len(messages)]

\* Nothing that was written is missing, unless it was thrown away behind a host
\* that had closed its end.
Laid(pos) ==
  /\ LaidOut(pos, heard, port, toHost, done)
  /\ pos[Len(port)] + Len(toHost) = written \/ (server = "gone" /\ handle = "closed")

PipeInv == PipeTypes /\ PipeControl /\ \E pos : Laid(pos)

-----------------------------------------------------------------------------

LEMMA PipeInv_Init == PipeInit => PipeInv
<1>. SUFFICES ASSUME PipeInit PROVE PipeInv
  OBVIOUS
<1>1. /\ handle = None /\ port = << >> /\ heard = << >> /\ done = FALSE /\ worker = "stopped"
      /\ wanted = 0 /\ killed = FALSE /\ server = "created" /\ written = 0 /\ toHost = << >>
  BY DEF PipeInit
<1>2. PipeTypes
  <2>1. << >> \in Bytes /\ << >> \in Seq(Bytes)
    BY DEF Bytes
  <2>2. QED
    BY <1>1, <2>1 DEF PipeTypes
<1>3. PipeControl
  BY <1>1, PipeAssumption DEF PipeControl, Ended, HostThere
<1>4. Laid([k \in 0 .. 0 |-> 0])
  BY <1>1 DEF Laid, LaidOut
<1>5. QED
  BY <1>2, <1>3, <1>4 DEF PipeInv

\* The sequences that the steps of the reading make.
LEMMA BytesMoved ==
  /\ End \in Bytes
  /\ \A s, t \in Bytes : s \o t \in Bytes
  /\ \A s \in Bytes, n \in Nat : Append(s, n) \in Bytes
  /\ \A s \in Bytes : \A n \in 0 .. Len(s) :
       SubSeq(s, 1, n) \in Bytes /\ SubSeq(s, n + 1, Len(s)) \in Bytes
<1>1. \A s \in Bytes : \A n \in 0 .. Len(s) :
        SubSeq(s, 1, n) \in Bytes /\ SubSeq(s, n + 1, Len(s)) \in Bytes
  BY DEF Bytes
<1>2. \A s, t \in Bytes : s \o t \in Bytes
  BY DEF Bytes
<1>3. QED
  BY <1>1, <1>2 DEF Bytes, End

LEMMA MessagesMoved ==
  ASSUME NEW S, NEW s \in Seq(S)
  PROVE  /\ s # << >> => Head(s) \in S /\ Tail(s) \in Seq(S)
         /\ \A e \in S : Append(s, e) \in Seq(S)
         /\ \A e \in S : s \o <<e, e>> \in Seq(S)
OBVIOUS

LEMMA PipeTypes_Step == PipeInv /\ [PipeNext]_vars => PipeTypes'
<1>. SUFFICES ASSUME PipeInv, [PipeNext]_vars PROVE PipeTypes'
  OBVIOUS
<1>1. PipeTypes
  BY DEF PipeInv
<1>2. CASE UNCHANGED vars
  BY <1>1, <1>2 DEF PipeTypes, vars, hostVars, streamVars, workerVars, stationVars, pipeVars
<1>3. CASE HostCalls
  BY <1>1, <1>3 DEF PipeTypes, HostCalls, Connect, Send, Close,
     hostVars, streamVars, workerVars, stationVars, pipeVars
<1>4. CASE WriteOn \/ WriteFails
  BY <1>1, <1>4 DEF PipeTypes, WriteOn, WriteFails,
     hostVars, streamVars, workerVars, stationVars, pipeVars
<1>5. CASE Hear
  <2>1. Head(port) \in Bytes /\ port' \in Seq(Bytes)
    BY <1>1, <1>5, MessagesMoved DEF Hear, PipeTypes
  <2>2. heard' \in Bytes /\ done' \in BOOLEAN
    BY <1>1, <1>5, <2>1, BytesMoved DEF Hear, PipeTypes
  <2>3. QED
    BY <1>1, <1>5, <2>1, <2>2
       DEF Hear, PipeTypes, hostVars, workerVars, stationVars, pipeVars
<1>6. CASE Peek
  <2>1. wanted' \in Nat
    <3>1. CASE UNCHANGED wanted
      BY <1>1, <3>1 DEF PipeTypes
    <3>2. CASE wanted' = Min({Len(toHost), Capacity})
      <4>1. Len(toHost) \in Nat /\ Capacity \in Nat
        BY <1>1, PipeAssumption DEF PipeTypes, Bytes
      <4>2. QED
        BY <3>2, <4>1, MinOfTwo
    <3>3. QED
      BY <1>6, <3>1, <3>2 DEF Peek
  <2>2. QED
    BY <1>1, <1>6, <2>1 DEF Peek, PipeTypes, hostVars, streamVars, stationVars, pipeVars
<1>7. CASE ReadWaiting
  <2>1. port' \in Seq(Bytes) /\ toHost' \in Bytes
    <3>1. CASE HostThere /\ Readable
      <4>1. wanted \in 1 .. Len(toHost)
        BY <1>7, <3>1 DEF PipeInv, PipeControl, ReadWaiting
      <4>2. wanted \in 0 .. Len(toHost)
        BY <1>1, <4>1 DEF PipeTypes, Bytes
      <4>3. /\ SubSeq(toHost, 1, wanted) \in Bytes
            /\ SubSeq(toHost, wanted + 1, Len(toHost)) \in Bytes
        BY <1>1, <4>2, BytesMoved, Zenon DEF PipeTypes
      <4>4. PICK chunk \in Bytes : port' = Append(port, chunk)
        BY <1>7, <3>1, <4>3, Zenon DEF ReadWaiting
      <4>5. port \in Seq(Bytes)
        BY <1>1 DEF PipeTypes
      <4>6. port' \in Seq(Bytes)
        BY <4>4, <4>5
      <4>7. QED
        BY <1>7, <3>1, <4>3, <4>6, Zenon DEF ReadWaiting
    <3>2. CASE ~ (HostThere /\ Readable)
      BY <1>1, <1>7, <3>2 DEF ReadWaiting, PipeTypes
    <3>3. QED
      BY <3>1, <3>2
  <2>2. worker' \in {"peek", "finally"}
    BY <1>7 DEF ReadWaiting
  <2>3. QED
    BY <1>1, <1>7, <2>1, <2>2 DEF ReadWaiting, PipeTypes, hostVars, stationVars
<1>8. CASE Finally \/ KillTakesEffect
  <2>1. port' \in Seq(Bytes)
    <3>1. End \in Bytes /\ port \in Seq(Bytes)
      BY <1>1, BytesMoved DEF PipeTypes
    <3>2. Append(port, End) \in Seq(Bytes) /\ port \o <<End, End>> \in Seq(Bytes)
      <4>. HIDE DEF End
      <4>1. QED
        BY <3>1
    <3>3. QED
      BY <1>8, <3>2, Zenon DEF Finally, KillTakesEffect
  <2>2. QED
    BY <1>1, <1>8, <2>1 DEF Finally, KillTakesEffect, PipeTypes, hostVars, stationVars, pipeVars
<1>9. CASE AcceptOne \/ Read \/ LeaveLoop \/ Crash
  BY <1>1, <1>9 DEF AcceptOne, Read, LeaveLoop, Crash, PipeTypes,
     hostVars, streamVars, workerVars, stationVars, pipeVars
<1>10. CASE Write \/ Disconnect
  <2>1. written' \in Nat /\ toHost' \in Bytes
    <3>1. CASE Disconnect
      BY <1>1, <3>1, BytesMoved DEF Disconnect, PipeTypes, End
    <3>2. CASE Write
      <4>1. written + 1 \in Nat
        BY <1>1 DEF PipeTypes
      <4>2. Append(toHost, written + 1) \in Bytes
        BY <1>1, <4>1, BytesMoved, Zenon DEF PipeTypes
      <4>3. \/ toHost' = Append(toHost, written + 1) /\ written' = written + 1
            \/ UNCHANGED <<toHost, written>>
        BY <3>2, Zenon DEF Write
      <4>4. QED
        BY <1>1, <4>1, <4>2, <4>3, Zenon DEF PipeTypes
    <3>3. QED
      BY <1>10, <3>1, <3>2
  <2>2. QED
    BY <1>1, <1>10, <2>1 DEF Write, Disconnect, PipeTypes, hostVars, streamVars, workerVars
<1>11. QED
  BY <1>2, <1>3, <1>4, <1>5, <1>6, <1>7, <1>8, <1>9, <1>10
     DEF PipeNext, HostRuns, Worker, StationRuns

-----------------------------------------------------------------------------

\* A message that is taken or added brings no report of the end with it.
LEMMA EndedAfter ==
  ASSUME PipeTypes
  PROVE  /\ Hear /\ Ended' => Ended
         /\ \A chunk : port' = Append(port, chunk) /\ done' = done /\ chunk # End /\ Ended' => Ended
         /\ UNCHANGED streamVars => Ended' = Ended
<1>1. port \in Seq(Bytes) /\ Len(port) \in Nat
  BY DEF PipeTypes
<1>2. ASSUME Hear, Ended' PROVE Ended
  <2>1. port # << >> /\ port' = Tail(port) /\ Len(port') = Len(port) - 1
    BY <1>1, <1>2 DEF Hear
  <2>2. done' => done \/ port[1] = End
    <3>1. Head(port) = port[1]
      BY <1>1, <2>1
    <3>2. done' = done \/ Head(port) = End
      BY <1>2, Zenon DEF Hear
    <3>3. QED
      BY <3>1, <3>2
  <2>3. ASSUME NEW k \in 1 .. Len(port'), port'[k] = End PROVE Ended
    <3>1. k + 1 \in 1 .. Len(port) /\ port[k + 1] = port'[k]
      BY <1>1, <2>1
    <3>2. QED
      BY <2>3, <3>1 DEF Ended
  <2>4. 1 \in 1 .. Len(port)
    BY <1>1, <2>1
  <2>5. QED
    BY <1>2, <2>2, <2>3, <2>4, Zenon DEF Ended
<1>3. ASSUME NEW chunk, port' = Append(port, chunk), done' = done, chunk # End, Ended'
      PROVE  Ended
  <2>1. Len(port') = Len(port) + 1 /\ port'[Len(port) + 1] = chunk
        /\ \A k \in 1 .. Len(port) : port'[k] = port[k]
    BY <1>1, <1>3
  <2>2. \A k \in 1 .. Len(port') : k \in 1 .. Len(port) \/ k = Len(port) + 1
    BY <1>1, <2>1
  <2>3. QED
    BY <1>3, <2>1, <2>2, Zenon DEF Ended
<1>4. ASSUME UNCHANGED streamVars PROVE Ended' = Ended
  BY <1>4 DEF streamVars, Ended
<1>5. QED
  BY <1>2, <1>3, <1>4, Zenon

LEMMA PipeControl_Step == PipeInv /\ [PipeNext]_vars => PipeControl'
<1>. SUFFICES ASSUME PipeInv, [PipeNext]_vars PROVE PipeControl'
  OBVIOUS
<1>. USE DEF PipeControl, HostThere, StationThere
<1>1. PipeTypes /\ PipeControl /\ toHost \in Seq(Nat)
  BY DEF PipeInv, PipeTypes, Bytes
<1>2. CASE UNCHANGED vars
  BY <1>1, <1>2, EndedAfter DEF vars, hostVars, streamVars, workerVars, stationVars, pipeVars
<1>3. CASE Connect \/ Send \/ Close \/ WriteOn \/ WriteFails
  <2>1. Ended' = Ended
    BY <1>1, <1>3, EndedAfter DEF Connect, Send, Close, WriteOn, WriteFails
  <2>2. UNCHANGED <<toHost, wanted, server>>
    BY <1>3 DEF Connect, Send, Close, WriteOn, WriteFails, workerVars, stationVars, pipeVars
  <2>3. CASE Connect
    BY <1>1, <2>1, <2>2, <2>3, PipeAssumption DEF Connect
  <2>4. CASE Close
    BY <1>1, <2>1, <2>2, <2>4, PipeAssumption DEF Close
  <2>5. CASE Send \/ WriteOn \/ WriteFails
    BY <1>1, <2>1, <2>2, <2>5 DEF Send, WriteOn, WriteFails, workerVars
  <2>6. QED
    BY <1>3, <2>3, <2>4, <2>5
<1>4. CASE Hear
  BY <1>1, <1>4, EndedAfter DEF Hear, hostVars, workerVars, stationVars, pipeVars
<1>5. CASE Peek
  <2>1. Ended' = Ended /\ UNCHANGED <<handle, killed, server, toHost>> /\ worker = "peek"
    BY <1>1, <1>5, EndedAfter DEF Peek, hostVars, stationVars, pipeVars
  <2>2. CASE /\ ~ HostThere \/ (~ StationThere /\ ~ Readable)
             /\ worker' = "finally" /\ UNCHANGED wanted
    BY <1>1, <2>1, <2>2 DEF Readable, PipeTypes
  <2>3. CASE /\ HostThere /\ Readable /\ worker' = "read"
             /\ wanted' = Min({Len(toHost), Capacity})
    <3>1. Len(toHost) \in Nat \ {0} /\ Capacity \in Nat \ {0}
      BY <1>1, <2>3, PipeAssumption DEF Readable
    <3>2. wanted' \in 1 .. Len(toHost)
      BY <2>3, <3>1, MinOfTwo
    <3>3. QED
      BY <1>1, <2>1, <2>3, <3>2
  <2>4. QED
    BY <1>5, <2>2, <2>3 DEF Peek
<1>6. CASE ReadWaiting
  <2>1. /\ worker = "read" /\ UNCHANGED <<handle, done, killed, server>>
        /\ handle # None /\ ~ Ended
    BY <1>1, <1>6 DEF ReadWaiting, hostVars, stationVars
  <2>2. CASE HostThere /\ Readable
    <3>1. PICK chunk : chunk # End /\ port' = Append(port, chunk)
      <4>1. wanted \in 1 .. Len(toHost)
        BY <1>1, <2>1, <2>2
      <4>2. SubSeq(toHost, 1, wanted) # End
        BY <1>1, <4>1 DEF End
      <4>3. QED
        BY <1>6, <2>2, <4>2, Zenon DEF ReadWaiting
    <3>2. ~ Ended' /\ worker' = "peek"
      BY <1>1, <1>6, <2>1, <2>2, <3>1, EndedAfter, Zenon DEF ReadWaiting
    <3>3. QED
      BY <1>1, <2>1, <3>2
  <2>3. CASE ~ (HostThere /\ Readable)
    <3>1. UNCHANGED streamVars /\ worker' = "finally"
      BY <1>6, <2>3, Zenon DEF ReadWaiting, streamVars
    <3>2. ~ Ended'
      BY <1>1, <2>1, <3>1, EndedAfter, Zenon
    <3>3. ~ HostThere
      BY <1>1, <2>1, <2>3 DEF Readable
    <3>4. killed
      BY <1>1, <2>1, <3>3 DEF PipeTypes
    <3>5. QED
      BY <1>1, <2>1, <3>1, <3>2, <3>4, Zenon
  <2>4. QED
    BY <2>2, <2>3
<1>7. CASE Finally \/ KillTakesEffect
  <2>1. /\ worker # "stopped" /\ worker' = "stopped"
        /\ worker = "finally" \/ killed
        /\ UNCHANGED <<handle, killed, server, toHost>>
    BY <1>7 DEF Finally, KillTakesEffect, hostVars, stationVars, pipeVars
  <2>2. QED
    BY <1>1, <2>1, Zenon
<1>8. CASE AcceptOne \/ Read \/ LeaveLoop \/ Crash
  <2>1. Ended' = Ended /\ UNCHANGED <<handle, worker, wanted, killed, toHost>>
    BY <1>1, <1>8, EndedAfter DEF AcceptOne, Read, LeaveLoop, Crash, hostVars, workerVars, pipeVars
  <2>2. \/ server' = server
        \/ server' = "gone" /\ server # "gone"
        \/ server' \in {"serving", "flushing"} /\ handle # None
           /\ server \in {"created", "serving"}
    BY <1>1, <1>8 DEF AcceptOne, Read, LeaveLoop, Crash
  <2>3. QED
    BY <1>1, <2>1, <2>2
<1>9. CASE Write
  <2>1. Ended' = Ended /\ UNCHANGED <<handle, worker, wanted, killed, server>>
        /\ server = "serving"
    BY <1>1, <1>9, EndedAfter DEF Write, hostVars, workerVars
  <2>2. wanted \in 1 .. Len(toHost) => wanted \in 1 .. Len(toHost')
    BY <1>1, <1>9 DEF Write, PipeTypes
  <2>3. QED
    BY <1>1, <2>1, <2>2, Zenon
<1>10. CASE Disconnect
  <2>1. /\ Ended' = Ended /\ UNCHANGED <<handle, worker, wanted, killed>>
        /\ server = "flushing" /\ server' = "gone" /\ toHost' = << >>
        /\ (toHost = << >> \/ ~ HostThere)
    BY <1>1, <1>10, EndedAfter DEF Disconnect, hostVars, workerVars
  <2>2. QED
    BY <1>1, <2>1
<1>11. QED
  BY <1>2, <1>3, <1>4, <1>5, <1>6, <1>7, <1>8, <1>9, <1>10
     DEF PipeNext, HostCalls, HostRuns, Worker, StationRuns

-----------------------------------------------------------------------------
(* The layout of the bytes, step by step. *)

LEMMA LaidKept ==
  ASSUME NEW pos, Laid(pos), UNCHANGED <<port, heard, done, toHost, written>>,
         server = "gone" /\ handle = "closed" => server' = "gone" /\ handle' = "closed"
  PROVE  Laid(pos)'
BY DEF Laid

\* There is such a layout, and the port ends at byte at.
LaidTo(at, said, messages, waiting, ended) ==
  \E pos : LaidOut(pos, said, messages, waiting, ended) /\ pos[Len(messages)] = at

LEMMA LaidAt ==
  ASSUME NEW said, NEW messages \in Seq(Bytes), NEW waiting, NEW ended, NEW pos,
         LaidOut(pos, said, messages, waiting, ended)
  PROVE  pos[Len(messages)] \in Nat
<1>1. pos \in [0 .. Len(messages) -> Nat]
  BY Zenon DEF LaidOut
<1>2. QED
  BY <1>1

\* A message put into the port starts where the last one ends.
LEMMA LaidPosted ==
  ASSUME NEW said \in Bytes, NEW messages \in Seq(Bytes), NEW waiting \in Bytes, NEW ended,
         NEW pos, LaidOut(pos, said, messages, waiting, ended),
         NEW chunk \in Bytes, NEW left \in Bytes, Len(waiting) = Len(chunk) + Len(left),
         \A i \in 1 .. Len(chunk) : chunk[i] = waiting[i],
         \A i \in 1 .. Len(left) : left[i] = waiting[Len(chunk) + i],
         chunk = End \/ ~ (ended \/ \E k \in 1 .. Len(messages) : messages[k] = End)
  PROVE  LaidTo(pos[Len(messages)] + Len(chunk), said, Append(messages, chunk), left, ended)
<1>. DEFINE n == Len(messages)
            new == [k \in 0 .. n + 1 |-> IF k =< n THEN pos[k] ELSE pos[n] + Len(chunk)]
            after == Append(messages, chunk)
<1>1. /\ n \in Nat /\ pos \in [0 .. n -> Nat] /\ pos[n] \in Nat
      /\ Len(chunk) \in Nat /\ Len(left) \in Nat
  <2>1. n \in Nat /\ pos \in [0 .. n -> Nat]
    BY DEF LaidOut
  <2>2. Len(chunk) \in Nat /\ Len(left) \in Nat
    BY DEF Bytes
  <2>3. QED
    BY <2>1, <2>2
<1>2. /\ Len(after) = n + 1 /\ after[n + 1] = chunk
      /\ \A k \in 1 .. n : after[k] = messages[k]
  OBVIOUS
<1>3. /\ new \in [0 .. n + 1 -> Nat] /\ new[n + 1] = pos[n] + Len(chunk)
      /\ \A k \in 0 .. n : new[k] = pos[k]
  BY <1>1
<1>4. /\ pos[0] = Len(said) /\ \A i \in 1 .. Len(said) : said[i] = i
      /\ \A k \in 1 .. n : pos[k] = pos[k - 1] + Len(messages[k])
      /\ \A k \in 1 .. n : \A i \in 1 .. Len(messages[k]) : messages[k][i] = pos[k - 1] + i
      /\ \A k \in 1 .. n : messages[k] = End => \A l \in k - 1 .. n : pos[l] = pos[n]
      /\ \A i \in 1 .. Len(waiting) : waiting[i] = pos[n] + i
      /\ ended => \A l \in 0 .. n : pos[l] = pos[n]
  BY Zenon DEF LaidOut
<1>5. (ended \/ \E k \in 1 .. n : messages[k] = End) => Len(chunk) = 0
  BY DEF End
<1>. HIDE DEF new, n, after
<1>6. /\ \A k \in 1 .. n : k \in 0 .. n /\ k - 1 \in 0 .. n
      /\ \A k \in 1 .. n + 1 : k = n + 1 \/ k \in 1 .. n
      /\ \A k \in 0 .. n + 1 : k = n + 1 \/ k \in 0 .. n
      /\ n \in 0 .. n /\ (n + 1) - 1 = n
  BY <1>1
<1>7. \A i \in 1 .. Len(chunk) : chunk[i] = pos[n] + i
  BY <1>1, <1>4
<1>8. ASSUME NEW k \in 1 .. n + 1
      PROVE  /\ new[k] = new[k - 1] + Len(after[k])
             /\ \A i \in 1 .. Len(after[k]) : after[k][i] = new[k - 1] + i
  <2>1. CASE k = n + 1
    <3>1. new[k - 1] = pos[n] /\ new[k] = pos[n] + Len(chunk) /\ after[k] = chunk
      BY <1>2, <1>3, <1>6, <2>1
    <3>2. QED
      BY <1>7, <3>1
  <2>2. CASE k \in 1 .. n
    <3>1. new[k - 1] = pos[k - 1] /\ new[k] = pos[k] /\ after[k] = messages[k]
      BY <1>2, <1>3, <1>6, <2>2
    <3>2. QED
      BY <1>4, <2>2, <3>1
  <2>3. QED
    BY <1>6, <2>1, <2>2
<1>9. \A k \in 1 .. n + 1 :
        /\ new[k] = new[k - 1] + Len(after[k])
        /\ \A i \in 1 .. Len(after[k]) : after[k][i] = new[k - 1] + i
  BY <1>8
<1>10. ASSUME NEW k \in 1 .. n + 1, after[k] = End, NEW l \in k - 1 .. n + 1
       PROVE  new[l] = new[n + 1]
  <2>1. new[n + 1] = pos[n]
    <3>1. Len(chunk) = 0
      <4>1. CASE k = n + 1
        BY <1>2, <1>10, <4>1 DEF End
      <4>2. CASE k \in 1 .. n
        BY <1>2, <1>5, <1>10, <4>2, Zenon
      <4>3. QED
        BY <1>6, <4>1, <4>2
    <3>2. QED
      BY <1>1, <1>3, <3>1
  <2>2. CASE l = n + 1
    BY <2>2
  <2>3. CASE k = n + 1 /\ l # n + 1
    <3>1. l = n
      BY <1>1, <2>3
    <3>2. QED
      BY <1>3, <1>6, <2>1, <3>1
  <2>4. CASE k \in 1 .. n /\ l # n + 1
    <3>1. l \in k - 1 .. n /\ l \in 0 .. n
      BY <1>1, <2>4
    <3>2. messages[k] = End
      BY <1>2, <1>10, <2>4
    <3>3. new[l] = pos[l] /\ pos[l] = pos[n]
      BY <1>3, <1>4, <2>4, <3>1, <3>2, Zenon
    <3>4. QED
      BY <2>1, <3>3
  <2>5. QED
    BY <1>6, <2>2, <2>3, <2>4
<1>11. ASSUME NEW i \in 1 .. Len(left) PROVE left[i] = new[n + 1] + i
  <2>1. Len(chunk) + i \in 1 .. Len(waiting)
    BY <1>1
  <2>2. left[i] = pos[n] + (Len(chunk) + i)
    BY <1>4, <2>1
  <2>3. QED
    BY <1>1, <1>3, <2>2
<1>12. ASSUME ended, NEW l \in 0 .. n + 1 PROVE new[l] = new[n + 1]
  <2>1. new[n + 1] = pos[n]
    BY <1>1, <1>3, <1>5, <1>12
  <2>2. CASE l \in 0 .. n
    BY <1>3, <1>4, <1>12, <2>1, <2>2
  <2>3. QED
    BY <1>6, <2>2
<1>13. new[0] = Len(said)
  BY <1>1, <1>3, <1>4
<1>14. LaidOut(new, said, after, left, ended)
  <2>1. Len(after) = n + 1
    BY <1>2
  <2>2. QED
    BY <1>3, <1>4, <1>9, <1>10, <1>11, <1>12, <1>13, <2>1, Zenon DEF LaidOut
<1>15. QED
  BY <1>2, <1>3, <1>14, Zenon DEF LaidTo, after, n

\* What is heard next is the first message of the port.
LEMMA LaidHeard ==
  ASSUME NEW said \in Bytes, NEW messages \in Seq(Bytes), messages # << >>, NEW waiting,
         NEW ended, NEW pos, LaidOut(pos, said, messages, waiting, ended),
         NEW endedNow, endedNow => ended \/ Head(messages) = End
  PROVE  LaidTo(pos[Len(messages)], said \o Head(messages), Tail(messages), waiting, endedNow)
<1>. DEFINE n == Len(messages)
            new == [k \in 0 .. n - 1 |-> pos[k + 1]]
            after == Tail(messages)
            first == Head(messages)
            now == said \o first
<1>1. /\ n \in Nat \ {0} /\ pos \in [0 .. n -> Nat]
      /\ said \in Seq(Nat) /\ first = messages[1] /\ first \in Seq(Nat)
  BY DEF LaidOut, Bytes
<1>2. Len(after) = n - 1 /\ \A k \in 1 .. n - 1 : after[k] = messages[k + 1]
  OBVIOUS
<1>3. /\ new \in [0 .. n - 1 -> Nat]
      /\ \A k \in 0 .. n - 1 : new[k] = pos[k + 1]
  BY <1>1
<1>4. new[n - 1] = pos[n] /\ new[0] = pos[1]
  BY <1>1, <1>3
<1>5. /\ pos[0] = Len(said) /\ \A i \in 1 .. Len(said) : said[i] = i
      /\ \A k \in 1 .. n : pos[k] = pos[k - 1] + Len(messages[k])
      /\ \A k \in 1 .. n : \A i \in 1 .. Len(messages[k]) : messages[k][i] = pos[k - 1] + i
      /\ \A k \in 1 .. n : messages[k] = End => \A l \in k - 1 .. n : pos[l] = pos[n]
      /\ \A i \in 1 .. Len(waiting) : waiting[i] = pos[n] + i
      /\ ended => \A l \in 0 .. n : pos[l] = pos[n]
  BY Zenon DEF LaidOut
<1>6. /\ Len(now) = Len(said) + Len(first) /\ Len(said) \in Nat /\ Len(first) \in Nat
      /\ \A i \in 1 .. Len(said) : now[i] = said[i]
      /\ \A i \in Len(said) + 1 .. Len(said) + Len(first) : now[i] = first[i - Len(said)]
  <2>. HIDE DEF first
  <2>1. QED
    BY <1>1
<1>. HIDE DEF new, n, after, first, now
<1>7. /\ pos[1] = pos[0] + Len(first)
      /\ \A i \in 1 .. Len(first) : first[i] = pos[0] + i
      /\ first = End => \A l \in 0 .. n : pos[l] = pos[n]
  <2>1. 1 \in 1 .. n /\ 1 - 1 = 0
    BY <1>1
  <2>2. QED
    BY <1>1, <1>5, <2>1
<1>8. new[0] = Len(now) /\ \A i \in 1 .. Len(now) : now[i] = i
  <2>1. new[0] = Len(now)
    BY <1>4, <1>5, <1>6, <1>7
  <2>2. ASSUME NEW i \in 1 .. Len(now) PROVE now[i] = i
    <3>1. CASE i \in 1 .. Len(said)
      BY <1>5, <1>6, <3>1
    <3>2. CASE i \in Len(said) + 1 .. Len(said) + Len(first)
      <4>1. i - Len(said) \in 1 .. Len(first) /\ Len(said) + (i - Len(said)) = i
        BY <1>6, <3>2
      <4>2. QED
        BY <1>5, <1>6, <1>7, <3>2, <4>1
    <3>3. i \in 1 .. Len(said) \/ i \in Len(said) + 1 .. Len(said) + Len(first)
      BY <1>6
    <3>4. QED
      BY <3>1, <3>2, <3>3
  <2>3. QED
    BY <2>1, <2>2
<1>9. \A k \in 1 .. n - 1 :
        /\ k + 1 \in 1 .. n /\ (k + 1) - 1 = k
        /\ k \in 0 .. n - 1 /\ k - 1 \in 0 .. n - 1 /\ (k - 1) + 1 = k
  BY <1>1
<1>10. ASSUME NEW k \in 1 .. n - 1
       PROVE  new[k] = pos[k + 1] /\ new[k - 1] = pos[k] /\ after[k] = messages[k + 1]
  BY <1>2, <1>3, <1>9
<1>11. \A k \in 1 .. n - 1 : new[k] = new[k - 1] + Len(after[k])
  BY <1>5, <1>9, <1>10
<1>12. \A k \in 1 .. n - 1 : \A i \in 1 .. Len(after[k]) : after[k][i] = new[k - 1] + i
  BY <1>5, <1>9, <1>10
<1>13. \A k \in 1 .. n - 1 : after[k] = End => \A l \in k - 1 .. n - 1 : new[l] = new[n - 1]
  <2>1. SUFFICES ASSUME NEW k \in 1 .. n - 1, after[k] = End, NEW l \in k - 1 .. n - 1
                 PROVE  new[l] = new[n - 1]
    OBVIOUS
  <2>2. l + 1 \in (k + 1) - 1 .. n /\ l \in 0 .. n - 1
    BY <1>1
  <2>3. messages[k + 1] = End /\ k + 1 \in 1 .. n
    BY <1>9, <1>10, <2>1
  <2>4. QED
    BY <1>3, <1>4, <1>5, <2>2, <2>3
<1>14. endedNow => \A l \in 0 .. n - 1 : new[l] = new[n - 1]
  <2>1. endedNow => \A l \in 0 .. n : pos[l] = pos[n]
    BY <1>5, <1>7 DEF first
  <2>2. \A l \in 0 .. n - 1 : l + 1 \in 0 .. n
    BY <1>1
  <2>3. QED
    BY <1>3, <1>4, <2>1, <2>2
<1>15. \A i \in 1 .. Len(waiting) : waiting[i] = new[n - 1] + i
  BY <1>4, <1>5
<1>16. LaidOut(new, now, after, waiting, endedNow)
  <2>1. Len(after) = n - 1
    BY <1>2
  <2>2. QED
    BY <1>3, <1>8, <1>11, <1>12, <1>13, <1>14, <1>15, <2>1, Zenon DEF LaidOut
<1>17. QED
  BY <1>2, <1>4, <1>16, Zenon DEF LaidTo, after, n, now, first

\* Bytes leave the pipe for the port, or a report of the end is put into it.
LEMMA LaidRead ==
  ASSUME PipeInv, worker = "read", HostThere, Readable, ReadWaiting
  PROVE  \E pos : Laid(pos)'
<1>1. PipeTypes /\ PipeControl /\ wanted \in 1 .. Len(toHost) /\ toHost \in Seq(Nat)
  BY DEF PipeInv, PipeControl, PipeTypes, Bytes
<1>2. PICK pos : Laid(pos)
  BY DEF PipeInv
<1>3. PICK chunk, left : /\ chunk = SubSeq(toHost, 1, wanted)
                         /\ left = SubSeq(toHost, wanted + 1, Len(toHost))
  OBVIOUS
<1>4. /\ port' = Append(port, chunk) /\ toHost' = left
      /\ UNCHANGED <<handle, heard, done, server, written>>
  BY <1>3, Zenon DEF ReadWaiting, hostVars, stationVars
<1>5. /\ chunk \in Seq(Nat) /\ Len(chunk) = wanted
      /\ \A i \in 1 .. wanted : chunk[i] = toHost[i]
  BY <1>1, <1>3, SubSeqProperties
<1>6. /\ left \in Seq(Nat) /\ Len(left) = Len(toHost) - wanted
      /\ \A i \in 1 .. Len(left) : left[i] = toHost[wanted + i]
  <2>1. wanted + 1 \in 1 .. Len(toHost) + 1
    BY <1>1
  <2>2. QED
    BY <1>1, <1>3, <2>1, SubSeqProperties
<1>7. ~ Ended
  BY <1>1 DEF PipeControl
<1>8. LaidTo(pos[Len(port)] + Len(chunk), heard, Append(port, chunk), left, done)
  <2>1. heard \in Bytes /\ port \in Seq(Bytes) /\ toHost \in Bytes /\ chunk \in Bytes /\ left \in Bytes
    BY <1>1, <1>5, <1>6 DEF PipeTypes, Bytes
  <2>2. LaidOut(pos, heard, port, toHost, done)
    BY <1>2 DEF Laid
  <2>3. /\ Len(toHost) = Len(chunk) + Len(left)
        /\ \A i \in 1 .. Len(chunk) : chunk[i] = toHost[i]
        /\ \A i \in 1 .. Len(left) : left[i] = toHost[Len(chunk) + i]
    BY <1>1, <1>5, <1>6
  <2>4. ~ (done \/ \E k \in 1 .. Len(port) : port[k] = End)
    BY <1>7 DEF Ended
  <2>5. QED
    BY <2>1, <2>2, <2>3, <2>4, LaidPosted, Zenon
<1>9. PICK new : /\ LaidOut(new, heard', port', toHost', done')
                 /\ new[Len(port')] = pos[Len(port)] + Len(chunk)
  BY <1>4, <1>8, Zenon DEF LaidTo
<1>10. /\ written' = written
       /\ new[Len(port')] + Len(toHost') = pos[Len(port)] + Len(toHost)
  <2>1. PICK at \in Nat : at = pos[Len(port)]
    BY <1>1, <1>2, LaidAt, Zenon DEF Laid, PipeTypes
  <2>2. (at + Len(chunk)) + Len(left) = at + Len(toHost)
    BY <1>1, <1>5, <1>6
  <2>3. QED
    BY <1>4, <1>9, <2>1, <2>2, Zenon
<1>11. Laid(new)'
  BY <1>2, <1>4, <1>9, <1>10, Zenon DEF Laid
<1>12. QED
  BY <1>11

LEMMA LaidEndPosted ==
  ASSUME NEW said \in Bytes, NEW messages \in Seq(Bytes), NEW waiting \in Bytes, NEW ended,
         NEW pos, LaidOut(pos, said, messages, waiting, ended)
  PROVE  LaidTo(pos[Len(messages)], said, Append(messages, End), waiting, ended)
<1>1. End \in Bytes /\ Len(End) = 0 /\ pos[Len(messages)] \in Nat
  <2>1. Len(End) = 0
    BY DEF End
  <2>2. QED
    BY <2>1, BytesMoved, LaidAt, Zenon
<1>2. Len(waiting) = Len(End) + Len(waiting) /\ \A i \in 1 .. Len(waiting) : Len(End) + i = i
  BY <1>1 DEF Bytes
<1>3. \A i \in 1 .. Len(End) : End[i] = waiting[i]
  BY <1>1
<1>4. \A i \in 1 .. Len(waiting) : waiting[i] = waiting[Len(End) + i]
  BY <1>2
<1>5. LaidTo(pos[Len(messages)] + Len(End), said, Append(messages, End), waiting, ended)
  BY <1>1, <1>2, <1>3, <1>4, LaidPosted, Zenon
<1>6. pos[Len(messages)] + Len(End) = pos[Len(messages)]
  BY <1>1
<1>7. QED
  BY <1>5, <1>6, Zenon

LEMMA LaidEnded ==
  ASSUME PipeInv, Finally \/ KillTakesEffect
  PROVE  \E pos : Laid(pos)'
<1>1. /\ PipeTypes /\ heard \in Bytes /\ port \in Seq(Bytes) /\ toHost \in Bytes
  BY DEF PipeInv, PipeTypes
<1>2. PICK pos : Laid(pos)
  BY DEF PipeInv
<1>3. UNCHANGED <<handle, heard, done, server, written, toHost>>
  BY DEF Finally, KillTakesEffect, hostVars, stationVars, pipeVars
<1>4. LaidOut(pos, heard, port, toHost, done)
  BY <1>2 DEF Laid
<1>5. PICK one : /\ LaidOut(one, heard, Append(port, End), toHost, done)
                 /\ one[Len(Append(port, End))] = pos[Len(port)]
  <2>1. LaidTo(pos[Len(port)], heard, Append(port, End), toHost, done)
    BY <1>1, <1>4, LaidEndPosted, Zenon
  <2>2. QED
    BY <2>1, Zenon DEF LaidTo
<1>6. Append(port, End) \in Seq(Bytes)
  BY <1>1, MessagesMoved, BytesMoved, Zenon
<1>7. PICK two : /\ LaidOut(two, heard, Append(Append(port, End), End), toHost, done)
                 /\ two[Len(Append(Append(port, End), End))] = pos[Len(port)]
  <2>1. LaidTo(one[Len(Append(port, End))], heard, Append(Append(port, End), End), toHost, done)
    BY <1>1, <1>5, <1>6, LaidEndPosted, Zenon
  <2>2. QED
    BY <1>5, <2>1, Zenon DEF LaidTo
<1>8. port \o <<End, End>> = Append(Append(port, End), End)
  BY <1>1
<1>9. port' = Append(port, End) \/ port' = Append(Append(port, End), End)
  BY <1>8 DEF Finally, KillTakesEffect
<1>10. PICK new : /\ LaidOut(new, heard, port', toHost, done)
                  /\ new[Len(port')] = pos[Len(port)]
  BY <1>5, <1>7, <1>9, Zenon
<1>11. Laid(new)'
  BY <1>2, <1>3, <1>10, Zenon DEF Laid
<1>12. QED
  BY <1>11

LEMMA LaidStep == PipeInv /\ [PipeNext]_vars => (\E pos : Laid(pos))'
<1>. SUFFICES ASSUME PipeInv, [PipeNext]_vars PROVE \E pos : Laid(pos)'
  OBVIOUS
<1>1. PipeTypes /\ PipeControl
  BY DEF PipeInv
<1>2. PICK pos : Laid(pos)
  BY DEF PipeInv
<1>3. ASSUME UNCHANGED <<port, heard, done, toHost, written>>,
             server = "gone" /\ handle = "closed" => server' = "gone" /\ handle' = "closed"
      PROVE  \E new : Laid(new)'
  BY <1>2, <1>3, LaidKept, Zenon
<1>4. CASE UNCHANGED vars
  BY <1>3, <1>4 DEF vars, hostVars, streamVars, workerVars, stationVars, pipeVars
<1>5. CASE HostCalls \/ WriteOn \/ WriteFails
  <2>1. UNCHANGED <<port, heard, done, toHost, written, server>>
    BY <1>5 DEF HostCalls, Connect, Send, Close, WriteOn, WriteFails,
       streamVars, stationVars, pipeVars
  <2>2. handle = "closed" => handle' = "closed"
    BY <1>1, <1>5, PipeAssumption DEF HostCalls, Connect, Send, Close, WriteOn, WriteFails,
       hostVars, HostThere
  <2>3. QED
    BY <1>3, <2>1, <2>2
<1>6. CASE Peek \/ AcceptOne \/ Read \/ LeaveLoop \/ Crash
  <2>1. UNCHANGED <<port, heard, done, toHost, written, handle>>
    BY <1>6 DEF Peek, AcceptOne, Read, LeaveLoop, Crash,
       hostVars, streamVars, stationVars, pipeVars
  <2>2. server = "gone" => server' = "gone"
    BY <1>6 DEF Peek, AcceptOne, Read, LeaveLoop, Crash, stationVars
  <2>3. QED
    BY <1>3, <2>1, <2>2
<1>7. CASE ReadWaiting
  <2>1. CASE HostThere /\ Readable
    BY <1>7, <2>1, LaidRead DEF ReadWaiting
  <2>2. CASE ~ (HostThere /\ Readable)
    <3>1. UNCHANGED <<port, heard, done, toHost, written, handle, server>>
      BY <1>7, <2>2, Zenon DEF ReadWaiting, hostVars, stationVars
    <3>2. QED
      BY <1>3, <3>1
  <2>3. QED
    BY <2>1, <2>2
<1>8. CASE Finally \/ KillTakesEffect
  BY <1>8, LaidEnded
<1>9. CASE Hear
  <2>1. /\ port # << >> /\ port' = Tail(port)
        /\ UNCHANGED <<handle, server, toHost, written>>
        /\ heard \in Bytes /\ port \in Seq(Bytes)
    BY <1>1, <1>9 DEF Hear, hostVars, stationVars, pipeVars, PipeTypes
  <2>2. heard' = heard \o Head(port) /\ (done' => done \/ Head(port) = End)
    <3>1. CASE Head(port) = End
      <4>1. heard \o End = heard
        BY <2>1 DEF Bytes, End
      <4>2. QED
        BY <1>9, <3>1, <4>1 DEF Hear
    <3>2. CASE Head(port) # End
      BY <1>9, <3>2 DEF Hear
    <3>3. QED
      BY <3>1, <3>2
  <2>3. LaidOut(pos, heard, port, toHost, done)
    BY <1>2 DEF Laid
  <2>4. PICK new : /\ LaidOut(new, heard \o Head(port), Tail(port), toHost, done')
                   /\ new[Len(Tail(port))] = pos[Len(port)]
    <3>1. LaidTo(pos[Len(port)], heard \o Head(port), Tail(port), toHost, done')
      BY <2>1, <2>2, <2>3, LaidHeard, Zenon
    <3>2. QED
      BY <3>1, Zenon DEF LaidTo
  <2>5. Laid(new)'
    BY <1>2, <2>1, <2>2, <2>4, Zenon DEF Laid
  <2>6. QED
    BY <2>5
<1>10. CASE Write
  <2>1. /\ server = "serving" /\ UNCHANGED <<port, heard, done, handle, server>>
        /\ toHost \in Seq(Nat) /\ written \in Nat
    BY <1>1, <1>10 DEF Write, hostVars, streamVars, PipeTypes, Bytes
  <2>2. CASE UNCHANGED <<toHost, written>>
    BY <1>3, <2>1, <2>2
  <2>3. CASE toHost' = Append(toHost, written + 1) /\ written' = written + 1
    <3>1. PICK at \in Nat : at = pos[Len(port)]
      BY <1>1, <1>2, LaidAt, Zenon DEF Laid, PipeTypes
    <3>2. /\ Len(toHost') = Len(toHost) + 1 /\ toHost'[Len(toHost) + 1] = written + 1
          /\ \A i \in 1 .. Len(toHost) : toHost'[i] = toHost[i]
      BY <2>1, <2>3
    <3>3. at + Len(toHost) = written
      BY <1>2, <2>1, <3>1 DEF Laid
    <3>4. \A i \in 1 .. Len(toHost') : toHost'[i] = at + i
      <4>1. \A i \in 1 .. Len(toHost) : toHost[i] = at + i
        BY <1>2, <3>1, Zenon DEF Laid, LaidOut
      <4>2. \A i \in 1 .. Len(toHost') : i \in 1 .. Len(toHost) \/ i = Len(toHost) + 1
        BY <2>1, <3>2
      <4>3. QED
        BY <2>1, <3>2, <3>3, <4>1, <4>2, SMTT(30)
    <3>5. LaidOut(pos, heard, port, toHost', done)
      BY <1>2, <3>1, <3>4, Zenon DEF Laid, LaidOut
    <3>6. at + Len(toHost') = written'
      BY <2>1, <2>3, <3>3, <3>2
    <3>7. Laid(pos)'
      BY <2>1, <3>1, <3>5, <3>6, Zenon DEF Laid
    <3>8. QED
      BY <3>7
  <2>4. QED
    BY <1>10, <2>2, <2>3, Zenon DEF Write
<1>11. CASE Disconnect
  <2>1. /\ server = "flushing" /\ server' = "gone" /\ toHost' = << >>
        /\ UNCHANGED <<port, heard, done, handle, written>>
        /\ toHost = << >> \/ ~ HostThere
    BY <1>11 DEF Disconnect, hostVars, streamVars
  <2>2. CASE toHost = << >>
    BY <1>3, <2>1, <2>2
  <2>3. CASE ~ HostThere
    <3>1. handle = "closed"
      BY <1>1, <2>1, <2>3 DEF PipeTypes, PipeControl, HostThere
    <3>2. \A i \in 1 .. Len(<< >>) : << >>[i] = pos[Len(port)] + i
      OBVIOUS
    <3>3. LaidOut(pos, heard, port, << >>, done)
      BY <1>2, <3>2, Zenon DEF Laid, LaidOut
    <3>4. Laid(pos)'
      BY <2>1, <3>1, <3>3, Zenon DEF Laid
    <3>5. QED
      BY <3>4
  <2>4. QED
    BY <2>1, <2>2, <2>3
<1>12. QED
  BY <1>4, <1>5, <1>6, <1>7, <1>8, <1>9, <1>10, <1>11
     DEF PipeNext, HostRuns, Worker, StationRuns

-----------------------------------------------------------------------------

LEMMA PipeHeard == PipeInv => HeardInOrder
<1>. SUFFICES ASSUME PipeInv PROVE HeardInOrder
  OBVIOUS
<1>1. PipeTypes /\ PipeControl /\ heard \in Seq(Nat) /\ port \in Seq(Bytes)
  BY DEF PipeInv, PipeTypes, Bytes
<1>2. PICK pos : Laid(pos)
  BY DEF PipeInv
<1>3. heard = [i \in 1 .. Len(heard) |-> i]
  BY <1>1, <1>2 DEF Laid, LaidOut
<1>4. ASSUME done, ~ killed PROVE server = "gone" /\ Len(heard) = written
  <2>1. server = "gone" /\ toHost = << >> /\ handle # "closed"
    BY <1>1, <1>4 DEF PipeControl, Ended
  <2>2. Len(port) \in Nat /\ pos \in [0 .. Len(port) -> Nat] /\ pos[0] = Len(heard)
    BY <1>1, <1>2 DEF Laid, LaidOut
  <2>3. pos[0] = pos[Len(port)]
    BY <1>2, <1>4, <2>2 DEF Laid, LaidOut
  <2>4. pos[Len(port)] + Len(toHost) = written
    BY <1>2, <2>1 DEF Laid
  <2>5. QED
    BY <2>1, <2>2, <2>3, <2>4
<1>5. QED
  BY <1>3, <1>4 DEF HeardInOrder

\* The host hears what the station wrote, in order; its stream ends only when
\* the station has gone or the host has closed it; and unless the host has, it
\* has by then heard everything that was written: for buffers, requests and
\* replies of any size and any number of them, wherever the station leaves,
\* crashes or the worker is stopped.
THEOREM HeardAlways == PipeSpec => []HeardInOrder
<1>1. PipeInv /\ [PipeNext]_vars => PipeInv'
  BY PipeTypes_Step, PipeControl_Step, LaidStep DEF PipeInv
<1>2. QED
  BY PipeInv_Init, <1>1, PipeHeard, PTL DEF PipeSpec

=============================================================================
