----------------------------- MODULE AudioProofs -----------------------------
(***************************************************************************)
(* What holds of the audio path for every capacity, every size of call and *)
(* of chunk and every interleaving.                                        *)
(*                                                                         *)
(* The ring of RingBuffer.tla by itself is a race-free first-in first-out  *)
(* queue.  The argument is the inductive invariant RingInv; the only       *)
(* arithmetic beyond linear is removal of the two uses of %.               *)
(*                                                                         *)
(* The channel of BulkChannel.tla inherits RingInv from the ring it uses;  *)
(* Delivery adds how far the worker's current chunk has got.               *)
(***************************************************************************)
EXTENDS BulkChannel, Integers, TLAPS


\* A number below twice the slots, taken back into the array.
Wrapped(x) == IF x < slots THEN x ELSE x - slots

\* For such numbers % is at most one subtraction.
LEMMA Wrap ==
  ASSUME NEW s \in Nat \ {0}, NEW x \in Nat, x < 2 * s
  PROVE  x % s = IF x < s THEN x ELSE x - s
<1>1. CASE x < s
  BY <1>1, SMT
<1>2. CASE s =< x
  <2>1. x % s = x - s
    BY <1>2, SMT
  <2>2. QED
    BY <1>2, <2>1
<1>3. QED
  BY <1>1, <1>2

LEMMA WrapSlots ==
  ASSUME NEW x \in Nat, x < 2 * slots
  PROVE  x % slots = Wrapped(x)
<1>1. PICK s \in Nat \ {0} : s = slots
  BY RingAssumption DEF slots
<1>2. x % s = IF x < s THEN x ELSE x - s
  BY <1>1, Wrap
<1>3. QED
  BY <1>1, <1>2, Zenon DEF Wrapped

\* What both calls compute from two indices is the distance between them.
LEMMA UsedIsGap ==
  ASSUME NEW h \in Slot, NEW t \in Slot
  PROVE  Used(h, t) = Gap(t, h) /\ Gap(t, h) \in Slot
<1>1. h + slots - t \in Nat /\ h + slots - t < 2 * slots
  BY RingAssumption DEF Slot, slots
<1>2. Used(h, t) = Wrapped(h + slots - t)
  BY <1>1, WrapSlots DEF Used
<1>3. QED
  BY <1>2, RingAssumption DEF Gap, Slot, slots, Wrapped

\* Advancing an index by at most the capacity, as the two publishing stores do.
LEMMA Advance ==
  ASSUME NEW a \in Slot, NEW n \in 0 .. Capacity
  PROVE  /\ (a + n) % slots = Wrapped(a + n)
         /\ Wrapped(a + n) \in Slot
<1>1. a + n \in Nat /\ a + n < 2 * slots
  BY RingAssumption DEF Slot, slots
<1>2. (a + n) % slots = Wrapped(a + n)
  BY <1>1, WrapSlots
<1>3. QED
  BY <1>2, RingAssumption DEF Slot, slots, Wrapped

\* Slots at different offsets from one index are different slots.
LEMMA SlotAtFacts ==
  ASSUME NEW a \in Slot
  PROVE  /\ \A i \in 0 .. Capacity : SlotAt(a, i) \in Slot
         /\ \A i, j \in 0 .. Capacity : SlotAt(a, i) = SlotAt(a, j) => i = j
BY RingAssumption DEF SlotAt, Slot, slots

\* Distances after one end of them advances.
LEMMA GapForward ==
  ASSUME NEW a \in Slot, NEW b \in Slot, NEW n \in Nat, Gap(a, b) + n =< Capacity
  PROVE  Gap(a, Wrapped(b + n)) = Gap(a, b) + n
BY RingAssumption DEF Gap, Wrapped, Slot, slots

LEMMA GapBackward ==
  ASSUME NEW a \in Slot, NEW b \in Slot, NEW n \in Nat, n =< Gap(a, b)
  PROVE  Gap(Wrapped(a + n), b) = Gap(a, b) - n
BY RingAssumption DEF Gap, Wrapped, Slot, slots

\* Offsets from an advanced index, and offsets past a distance.
LEMMA SlotAtAdvanced ==
  ASSUME NEW a \in Slot, NEW n \in Nat, NEW k \in Nat, n + k =< Capacity
  PROVE  SlotAt(Wrapped(a + n), k) = SlotAt(a, n + k)
BY RingAssumption DEF SlotAt, Wrapped, Slot, slots

LEMMA SlotAtPast ==
  ASSUME NEW a \in Slot, NEW b \in Slot, NEW k \in Nat, Gap(a, b) + k =< Capacity
  PROVE  SlotAt(a, Gap(a, b) + k) = SlotAt(b, k)
BY RingAssumption DEF SlotAt, Gap, Slot, slots

-----------------------------------------------------------------------------

\* The invariant holds when the channel is constructed.
LEMMA RingInit_Inv == RingInit => RingInv
BY RingAssumption
   DEF RingInit, RingInv, RingTypeOK, IndicesAgree, BytesInPlace,
       FirstInFirstOut, Gap, Slot, SlotAt, slots, Least

\* The size a write settles on fits in the space the producer saw.
LEMMA TakenFits ==
  ASSUME RingTypeOK, NEW n \in Nat, Taken(n) > 0
  PROVE  Taken(n) \in Nat /\ Taken(n) + Gap(seenTail, head) =< Capacity
<1>1. head \in Slot /\ seenTail \in Slot
  BY DEF RingTypeOK
<1>2. Used(head, seenTail) = Gap(seenTail, head) /\ Gap(seenTail, head) \in Slot
  BY <1>1, UsedIsGap
<1>3. QED
  BY <1>2, RingAssumption DEF Taken, Least, Slot, slots

\* The size a read settles on is covered by the bytes the consumer saw.
LEMMA AvailableCovered ==
  ASSUME RingTypeOK, NEW m \in Nat, Available(m) > 0
  PROVE  Available(m) \in Nat /\ Available(m) =< Gap(tail, seenHead)
<1>1. tail \in Slot /\ seenHead \in Slot
  BY DEF RingTypeOK
<1>2. Used(seenHead, tail) = Gap(tail, seenHead) /\ Gap(tail, seenHead) \in Slot
  BY <1>1, UsedIsGap
<1>3. QED
  BY <1>2, RingAssumption DEF Available, Least, Slot, slots

LEMMA BeginWrite_Inv ==
  ASSUME RingInv, NEW n \in Nat, BeginWrite(n)
  PROVE  RingInv'
<1>1. Taken(n) \in Nat /\ Taken(n) + Gap(seenTail, head) =< Capacity
  BY TakenFits DEF RingInv, BeginWrite
<1>2. QED
  BY <1>1, RingAssumption
     DEF RingInv, RingTypeOK, IndicesAgree, BytesInPlace, FirstInFirstOut,
         BeginWrite, consumerVars, Gap, SlotAt

\* What the invariant says of the numbers involved, with the definitions that
\* state it folded away.
LEMMA RingFacts ==
  ASSUME RingInv
  PROVE  /\ head \in Slot /\ tail \in Slot /\ seenHead \in Slot /\ seenTail \in Slot
         /\ accepted \in Nat /\ drained \in Nat
         /\ toWrite \in Nat /\ written \in 0 .. toWrite /\ toRead \in Nat
         /\ Gap(tail, head) \in Nat /\ Gap(tail, seenHead) \in Nat
         /\ Gap(seenTail, head) \in Nat
         /\ accepted = drained + Gap(tail, head)
         /\ Gap(tail, seenHead) =< Gap(tail, head)
         /\ Gap(tail, head) =< Gap(seenTail, head)
         /\ Gap(seenTail, head) + toWrite =< Capacity
         /\ Gap(tail, head) + toWrite =< Capacity
         /\ toRead =< Gap(tail, seenHead)
BY RingAssumption DEF RingInv, RingTypeOK, IndicesAgree, Gap, Slot, slots

LEMMA CopyIn_Inv ==
  ASSUME RingInv, CopyIn
  PROVE  RingInv'
<1>. DEFINE s == SlotAt(head, written)
<1>1. /\ storage' = [storage EXCEPT ![s] = accepted + written + 1]
      /\ written' = written + 1 /\ written \in Nat /\ written < toWrite
      /\ UNCHANGED <<head, seenHead, toWrite, accepted, tail, seenTail, toRead,
                     out, drained, received>>
  BY RingFacts DEF CopyIn, consumerVars
<1>2. /\ storage \in [Slot -> Nat] /\ written =< Capacity
      /\ \A i \in 0 .. written - 1 : SlotAt(head, i) # s
      /\ \A k \in 0 .. Gap(tail, head) - 1 : SlotAt(tail, k) # s
      /\ s \in Slot
  <2>1. storage \in [Slot -> Nat]
    BY DEF RingInv, RingTypeOK
  <2>2. written =< Capacity
    BY <1>1, RingFacts, RingAssumption
  <2>3. s \in Slot
    BY <1>1, <2>2, RingFacts, SlotAtFacts
  <2>4. ASSUME NEW i \in 0 .. written - 1
        PROVE  SlotAt(head, i) # s
    <3>1. i \in 0 .. Capacity /\ written \in 0 .. Capacity /\ i # written
      BY <1>1, <2>2, RingAssumption
    <3>2. QED
      BY <3>1, RingFacts, SlotAtFacts
  <2>5. ASSUME NEW k \in 0 .. Gap(tail, head) - 1
        PROVE  SlotAt(tail, k) # s
    <3>1. Gap(tail, head) + written =< Capacity
      BY <1>1, RingFacts, RingAssumption
    <3>2. s = SlotAt(tail, Gap(tail, head) + written)
      BY <1>1, <3>1, RingFacts, SlotAtPast
    <3>3. k \in 0 .. Capacity /\ Gap(tail, head) + written \in 0 .. Capacity
          /\ k # Gap(tail, head) + written
      BY <1>1, <3>1, RingFacts, RingAssumption
    <3>4. QED
      BY <3>2, <3>3, RingFacts, SlotAtFacts
  <2>6. QED
    BY <2>1, <2>2, <2>3, <2>4, <2>5
<1>3. /\ storage'[s] = accepted + written + 1
      /\ \A t \in Slot : t # s => storage'[t] = storage[t]
  BY <1>1, <1>2
<1>. HIDE DEF s
<1>4. RingTypeOK'
  BY <1>1, <1>2, RingFacts DEF RingInv, RingTypeOK
<1>5. IndicesAgree'
  BY <1>1 DEF RingInv, IndicesAgree, Gap
<1>6. BytesInPlace'
  <2>1. \A k \in 0 .. Gap(tail, head) - 1 : SlotAt(tail, k) \in Slot
    BY RingFacts, SlotAtFacts, RingAssumption
  <2>2. \A i \in 0 .. written - 1 : SlotAt(head, i) \in Slot
    BY <1>1, <1>2, RingFacts, SlotAtFacts, RingAssumption
  <2>3. \A k \in 0 .. Gap(tail, head) - 1 : storage'[SlotAt(tail, k)] = drained + k + 1
    BY <1>2, <1>3, <2>1 DEF RingInv, BytesInPlace
  <2>4. \A i \in 0 .. written - 1 : storage'[SlotAt(head, i)] = accepted + i + 1
    BY <1>2, <1>3, <2>2 DEF RingInv, BytesInPlace
  <2>5. \A i \in 0 .. written' - 1 : storage'[SlotAt(head, i)] = accepted + i + 1
    BY <1>1, <1>3, <2>4 DEF s
  <2>6. Gap(tail, head)' = Gap(tail, head)
        /\ (\A i : SlotAt(head, i)' = SlotAt(head, i))
        /\ (\A i : SlotAt(tail, i)' = SlotAt(tail, i))
    BY <1>1
  <2>7. QED
    BY <1>1, <2>3, <2>5, <2>6 DEF RingInv, BytesInPlace
<1>7. FirstInFirstOut'
  BY <1>1 DEF RingInv, FirstInFirstOut
<1>8. QED
  BY <1>4, <1>5, <1>6, <1>7 DEF RingInv

LEMMA PublishHead_Inv ==
  ASSUME RingInv, PublishHead
  PROVE  RingInv'
<1>. DEFINE g == Gap(tail, head)
<1>1. /\ written = toWrite /\ accepted' = accepted + toWrite
      /\ toWrite' = 0 /\ written' = 0
      /\ UNCHANGED <<storage, seenHead, tail, seenTail, toRead, out, drained, received>>
  BY DEF PublishHead, consumerVars
<1>2. head' = Wrapped(head + toWrite) /\ head' \in Slot
  <2>1. head \in Slot /\ toWrite \in 0 .. Capacity
    BY RingFacts, RingAssumption
  <2>2. QED
    BY <2>1, Advance DEF PublishHead
<1>3. /\ Gap(tail, head') = g + toWrite
      /\ Gap(seenTail, head') = Gap(seenTail, head) + toWrite
  BY <1>2, RingFacts, GapForward
<1>4. RingTypeOK'
  BY <1>1, <1>2, RingFacts DEF RingInv, RingTypeOK
<1>5. IndicesAgree'
  <2>1. /\ Gap(tail, head)' = g + toWrite
        /\ Gap(seenTail, head)' = Gap(seenTail, head) + toWrite
        /\ Gap(tail, seenHead)' = Gap(tail, seenHead)
    BY <1>1, <1>3
  <2>2. QED
    BY <1>1, <2>1, RingFacts DEF IndicesAgree
<1>6. BytesInPlace'
  <2>1. ASSUME NEW k \in 0 .. g + toWrite - 1
        PROVE  storage[SlotAt(tail, k)] = drained + k + 1
    <3>1. CASE k < g
      BY <3>1, RingFacts DEF RingInv, BytesInPlace
    <3>2. CASE g =< k
      <4>1. PICK i \in 0 .. toWrite - 1 : k = g + i
        <5>1. k - g \in 0 .. toWrite - 1 /\ k = g + (k - g)
          BY <3>2, RingFacts
        <5>2. QED
          BY <5>1
      <4>2. i \in Nat /\ Gap(tail, head) + i =< Capacity
        BY RingFacts, RingAssumption
      <4>3. SlotAt(tail, Gap(tail, head) + i) = SlotAt(head, i)
        BY <4>2, RingFacts, SlotAtPast
      <4>4. storage[SlotAt(head, i)] = accepted + i + 1
        BY <1>1 DEF RingInv, BytesInPlace
      <4>5. storage[SlotAt(tail, k)] = accepted + i + 1
        BY <4>1, <4>3, <4>4
      <4>6. QED
        BY <4>1, <4>2, <4>5, RingFacts
    <3>3. QED
      BY <3>1, <3>2, RingFacts
  <2>2. Gap(tail, head)' = g + toWrite
    BY <1>1, <1>3
  <2>3. \A k \in 0 .. Gap(tail, head)' - 1 : storage'[SlotAt(tail, k)'] = drained' + k + 1
    <3>1. \A k \in 0 .. g + toWrite - 1 : storage'[SlotAt(tail', k)] = drained' + k + 1
      <4>. HIDE DEF g
      <4>. QED
        BY <1>1, <2>1
    <3>2. \A k : SlotAt(tail, k)' = SlotAt(tail', k)
      BY DEF SlotAt
    <3>3. ASSUME NEW k \in 0 .. Gap(tail, head)' - 1
          PROVE  storage'[SlotAt(tail, k)'] = drained' + k + 1
      <4>1. k \in 0 .. g + toWrite - 1
        BY <2>2, RingFacts
      <4>2. storage'[SlotAt(tail', k)] = drained' + k + 1
        BY <3>1, <4>1, Zenon
      <4>3. QED
        BY <3>2, <4>2, Zenon
    <3>4. QED
      BY <3>3, Zenon
  <2>4. \A i \in 0 .. written' - 1 : storage'[SlotAt(head, i)'] = accepted' + i + 1
    BY <1>1
  <2>5. QED
    BY <1>1, <2>3, <2>4 DEF RingInv, BytesInPlace
<1>7. FirstInFirstOut'
  BY <1>1 DEF RingInv, FirstInFirstOut
<1>8. QED
  BY <1>4, <1>5, <1>6, <1>7 DEF RingInv

LEMMA SeeHead_Inv ==
  ASSUME RingInv, SeeHead
  PROVE  RingInv'
<1>1. /\ seenHead' = head
      /\ UNCHANGED <<storage, head, tail, seenTail, toWrite, written, toRead, out,
                     accepted, drained, received>>
  BY DEF SeeHead, consumerVars
<1>2. RingTypeOK' /\ BytesInPlace' /\ FirstInFirstOut'
  BY <1>1 DEF RingInv, RingTypeOK, BytesInPlace, FirstInFirstOut, Gap, SlotAt
<1>3. IndicesAgree'
  <2>1. /\ Gap(tail, head)' = Gap(tail, head)
        /\ Gap(seenTail, head)' = Gap(seenTail, head)
        /\ Gap(tail, seenHead)' = Gap(tail, head)
    BY <1>1
  <2>2. QED
    BY <1>1, <2>1, RingFacts DEF IndicesAgree
<1>4. QED
  BY <1>2, <1>3 DEF RingInv

LEMMA SeeTail_Inv ==
  ASSUME RingInv, SeeTail
  PROVE  RingInv'
<1>1. /\ seenTail' = tail
      /\ UNCHANGED <<storage, head, tail, seenHead, toWrite, written, toRead, out,
                     accepted, drained, received>>
  BY DEF SeeTail, producerVars
<1>2. RingTypeOK' /\ BytesInPlace' /\ FirstInFirstOut'
  BY <1>1 DEF RingInv, RingTypeOK, BytesInPlace, FirstInFirstOut, Gap, SlotAt
<1>3. IndicesAgree'
  <2>1. /\ Gap(tail, head)' = Gap(tail, head)
        /\ Gap(seenTail, head)' = Gap(tail, head)
        /\ Gap(tail, seenHead)' = Gap(tail, seenHead)
    BY <1>1
  <2>2. QED
    BY <1>1, <2>1, RingFacts DEF IndicesAgree
<1>4. QED
  BY <1>2, <1>3 DEF RingInv

LEMMA BeginRead_Inv ==
  ASSUME RingInv, NEW m \in Nat, BeginRead(m)
  PROVE  RingInv'
<1>1. Available(m) \in Nat /\ Available(m) =< Gap(tail, seenHead)
  BY AvailableCovered DEF RingInv, BeginRead
<1>2. /\ toRead' = Available(m) /\ out' = << >>
      /\ UNCHANGED <<storage, head, tail, seenHead, seenTail, toWrite, written,
                     accepted, drained, received>>
  BY DEF BeginRead, producerVars
<1>3. RingTypeOK' /\ IndicesAgree' /\ FirstInFirstOut'
  BY <1>1, <1>2 DEF RingInv, RingTypeOK, IndicesAgree, FirstInFirstOut, Gap
<1>4. BytesInPlace'
  BY <1>1, <1>2 DEF RingInv, BytesInPlace, Gap, SlotAt
<1>5. QED
  BY <1>3, <1>4 DEF RingInv

LEMMA CopyOut_Inv ==
  ASSUME RingInv, CopyOut
  PROVE  RingInv'
<1>. DEFINE n == Len(out)
<1>1. /\ n < toRead /\ n \in Nat /\ out \in Seq(Nat)
      /\ out' = Append(out, storage[SlotAt(tail, n)])
      /\ UNCHANGED <<storage, head, tail, seenHead, seenTail, toWrite, written,
                     toRead, accepted, drained, received>>
  BY DEF CopyOut, producerVars, RingInv, RingTypeOK
<1>2. n \in 0 .. Gap(tail, head) - 1
  BY <1>1, RingFacts
<1>3. storage[SlotAt(tail, n)] = drained + n + 1
  BY <1>2 DEF RingInv, BytesInPlace
<1>4. out' \in Seq(Nat) /\ Len(out') = n + 1 /\ \A i \in 1 .. Len(out') : out'[i] = drained + i
  <2>1. drained + n + 1 \in Nat /\ out' = Append(out, drained + n + 1)
    BY <1>1, <1>3, RingFacts
  <2>2. \A i \in 1 .. n : out[i] = drained + i
    BY <1>1, RingFacts, SMTT(30) DEF RingInv, BytesInPlace
  <2>3. out' \in Seq(Nat) /\ Len(out') = n + 1
    BY <1>1, <2>1
  <2>4. ASSUME NEW i \in 1 .. n + 1
        PROVE  out'[i] = drained + i
    <3>1. CASE i = n + 1
      BY <1>1, <2>1, <3>1, RingFacts
    <3>2. CASE i \in 1 .. n
      BY <1>1, <2>1, <2>2, <3>2
    <3>3. QED
      BY <1>1, <3>1, <3>2
  <2>5. QED
    BY <2>3, <2>4
<1>5. RingTypeOK' /\ IndicesAgree' /\ FirstInFirstOut'
  BY <1>1, <1>4 DEF RingInv, RingTypeOK, IndicesAgree, FirstInFirstOut, Gap
<1>6. BytesInPlace'
  <2>1. \A k \in 0 .. Gap(tail', head') - 1 : storage'[SlotAt(tail', k)] = drained' + k + 1
    BY <1>1 DEF RingInv, BytesInPlace
  <2>2. \A i \in 0 .. written' - 1 : storage'[SlotAt(head', i)] = accepted' + i + 1
    BY <1>1 DEF RingInv, BytesInPlace
  <2>3. toRead' > 0 => /\ Len(out') =< toRead'
                       /\ \A i \in 1 .. Len(out') : out'[i] = drained' + i
    BY <1>1, <1>4, SMTT(30) DEF RingInv, RingTypeOK
  <2>4. QED
    BY <1>1, <2>1, <2>2, <2>3 DEF BytesInPlace, Gap, SlotAt, slots
<1>7. QED
  BY <1>5, <1>6 DEF RingInv

\* The tail of a concatenation is its second half.
LEMMA SecondOfConcat ==
  ASSUME NEW S, NEW a \in Seq(S), NEW b \in Seq(S),
         NEW i \in Nat, i - Len(a) \in 1 .. Len(b)
  PROVE  (a \o b)[i] = b[i - Len(a)]
<1>1. Len(a) \in Nat /\ Len(b) \in Nat
  OBVIOUS
<1>2. i \in 1 .. Len(a) + Len(b) /\ ~ (i =< Len(a))
  BY <1>1
<1>3. QED
  BY <1>2

LEMMA PublishTail_Inv ==
  ASSUME RingInv, PublishTail
  PROVE  RingInv'
<1>. DEFINE g == Gap(tail, head)
<1>1. /\ toRead > 0 /\ Len(out) = toRead
      /\ drained' = drained + toRead /\ toRead' = 0 /\ received' = received \o out
      /\ UNCHANGED <<storage, seenTail, out, head, seenHead, toWrite, written, accepted>>
  BY DEF PublishTail, producerVars
<1>2. tail' = Wrapped(tail + toRead) /\ tail' \in Slot
  <2>1. tail \in Slot /\ toRead \in 0 .. Capacity
    BY RingFacts, RingAssumption
  <2>2. QED
    BY <2>1, Advance DEF PublishTail
<1>3. /\ Gap(tail', head) = g - toRead
      /\ Gap(tail', seenHead) = Gap(tail, seenHead) - toRead
  BY <1>2, RingFacts, GapBackward
<1>4. /\ received \in Seq(Nat) /\ out \in Seq(Nat)
      /\ Len(received) = drained /\ \A i \in 1 .. drained : received[i] = i
      /\ \A i \in 1 .. toRead : out[i] = drained + i
  BY <1>1 DEF RingInv, RingTypeOK, BytesInPlace, FirstInFirstOut
<1>5. received' \in Seq(Nat) /\ Len(received') = drained + toRead
  BY <1>1, <1>4
<1>6. RingTypeOK'
  BY <1>1, <1>2, <1>5, RingFacts DEF RingInv, RingTypeOK
<1>7. IndicesAgree'
  <2>1. /\ Gap(tail, head)' = g - toRead
        /\ Gap(seenTail, head)' = Gap(seenTail, head)
        /\ Gap(tail, seenHead)' = Gap(tail, seenHead) - toRead
    BY <1>1, <1>3
  <2>2. QED
    BY <1>1, <2>1, RingFacts, SMTT(30) DEF IndicesAgree
<1>8. BytesInPlace'
  <2>1. ASSUME NEW k \in 0 .. g - toRead - 1
        PROVE  storage[SlotAt(tail', k)] = drained + toRead + k + 1
    <3>1. k \in Nat /\ toRead + k =< Capacity /\ toRead + k \in 0 .. g - 1
      BY RingFacts, RingAssumption
    <3>2. SlotAt(tail', k) = SlotAt(tail, toRead + k)
      BY <1>2, <3>1, RingFacts, SlotAtAdvanced
    <3>3. storage[SlotAt(tail, toRead + k)] = drained + (toRead + k) + 1
      BY <3>1 DEF RingInv, BytesInPlace
    <3>4. QED
      BY <3>1, <3>2, <3>3, RingFacts
  <2>2. Gap(tail, head)' = g - toRead /\ \A i : SlotAt(head, i)' = SlotAt(head, i)
    BY <1>1, <1>3
  <2>3. \A k \in 0 .. Gap(tail, head)' - 1 : storage'[SlotAt(tail, k)'] = drained' + k + 1
    <3>1. \A k \in 0 .. g - toRead - 1 : storage'[SlotAt(tail', k)] = drained' + k + 1
      <4>. HIDE DEF g
      <4>. QED
        BY <1>1, <2>1
    <3>2. \A k : SlotAt(tail, k)' = SlotAt(tail', k)
      BY DEF SlotAt
    <3>3. QED
      BY <2>2, <3>1, <3>2
  <2>4. QED
    BY <1>1, <2>2, <2>3 DEF RingInv, BytesInPlace
<1>9. FirstInFirstOut'
  <2>1. ASSUME NEW i \in 1 .. drained + toRead
        PROVE  received'[i] = i
    <3>1. CASE i \in 1 .. drained
      BY <1>1, <1>4, <3>1
    <3>2. CASE i \in drained + 1 .. drained + toRead
      <4>1. i - drained \in 1 .. toRead /\ i \in Nat /\ i > drained
        BY <3>2, RingFacts
      <4>2. received'[i] = out[i - drained]
        <5>1. received \o out = received'
          BY <1>1
        <5>2. Len(received) \in Nat /\ i \in Nat /\ i - Len(received) \in 1 .. Len(out)
          BY <1>1, <1>4, <4>1
        <5>3. QED
          BY <1>4, <5>1, <5>2, SecondOfConcat
      <4>3. QED
        BY <1>4, <4>1, <4>2, RingFacts, SMTT(30)
    <3>3. QED
      BY <3>1, <3>2, RingFacts
  <2>2. QED
    BY <1>1, <1>5, <2>1 DEF FirstInFirstOut
<1>10. QED
  BY <1>6, <1>7, <1>8, <1>9 DEF RingInv

-----------------------------------------------------------------------------

\* No step of either thread, and no index becoming visible, breaks the ring.
LEMMA RingStep_Inv == RingInv /\ [RingNext]_ringVars => RingInv'
<1>. SUFFICES ASSUME RingInv, [RingNext]_ringVars
              PROVE  RingInv'
  OBVIOUS
<1>1. ASSUME NEW n \in OfferSizes, BeginWrite(n) PROVE RingInv'
  BY <1>1, BeginWrite_Inv, RingAssumption
<1>2. CASE CopyIn
  BY <1>2, CopyIn_Inv
<1>3. CASE PublishHead
  BY <1>3, PublishHead_Inv
<1>4. CASE SeeHead
  BY <1>4, SeeHead_Inv
<1>5. ASSUME NEW m \in ReadSizes, BeginRead(m) PROVE RingInv'
  BY <1>5, BeginRead_Inv, RingAssumption
<1>6. CASE CopyOut
  BY <1>6, CopyOut_Inv
<1>7. CASE PublishTail
  BY <1>7, PublishTail_Inv
<1>8. CASE SeeTail
  BY <1>8, SeeTail_Inv
<1>9. CASE UNCHANGED ringVars
  BY <1>9 DEF ringVars, producerVars, consumerVars, RingInv, RingTypeOK, IndicesAgree,
             BytesInPlace, FirstInFirstOut, Gap, SlotAt
<1>10. QED
  BY <1>1, <1>2, <1>3, <1>4, <1>5, <1>6, <1>7, <1>8, <1>9 DEF RingNext

\* Whatever the capacity, the sizes of the calls and the interleaving, the ring
\* is consistent at every step.
THEOREM RingInvariant == RingSpec => []RingInv
BY RingInit_Inv, RingStep_Inv, PTL DEF RingSpec

\* What read returns is what write accepted, in order, once each.
THEOREM RingFirstInFirstOut == RingSpec => []FirstInFirstOut
<1>1. RingInv => FirstInFirstOut
  BY DEF RingInv
<1>2. QED
  BY <1>1, RingInvariant, PTL

\* The two threads never copy into and out of one slot at the same time: the
\* slots being written are offsets from Gap(tail, head) on, seen from tail, and
\* those being read are below it.
THEOREM RingNoRace == RingSpec => []NoRace
<1>1. RingInv => NoRace
  <2>. SUFFICES ASSUME RingInv,
                       NEW i \in 0 .. toWrite - 1, NEW j \in 0 .. toRead - 1,
                       SlotAt(head, i) = SlotAt(tail, j)
                PROVE  FALSE
    BY DEF NoRace, WriteRegion, ReadRegion
  <2>1. i \in Nat /\ Gap(tail, head) + i =< Capacity
    BY RingFacts, RingAssumption
  <2>2. SlotAt(tail, Gap(tail, head) + i) = SlotAt(tail, j)
    BY <2>1, RingFacts, SlotAtPast
  <2>3. j \in 0 .. Capacity /\ Gap(tail, head) + i \in 0 .. Capacity
        /\ j # Gap(tail, head) + i
    BY <2>1, RingFacts, RingAssumption
  <2>4. QED
    BY <2>2, <2>3, RingFacts, SlotAtFacts
<1>2. QED
  BY <1>1, RingInvariant, PTL

-----------------------------------------------------------------------------
(* The channel uses the ring as the ring allows. *)

LEMMA BulkStepIsRingStep == [BulkNext]_vars => [RingNext]_ringVars
<1>. SUFFICES ASSUME [BulkNext]_vars PROVE RingNext \/ UNCHANGED ringVars
  OBVIOUS
<1>1. ASSUME Engine PROVE RingNext \/ UNCHANGED ringVars
  BY <1>1 DEF Engine, Offer, EngineCopies, EnginePublishes, CountRefused, RingNext
<1>2. ASSUME Worker PROVE RingNext \/ UNCHANGED ringVars
  BY <1>2, BulkAssumption
     DEF Worker, CheckStopping, Idle, WorkerReads, WorkerTakes, Send, SendReturns, SendFails,
         CountForwarded, Finish, Exit, RingNext
<1>3. ASSUME Station \/ Host \/ SeeStopping PROVE UNCHANGED ringVars
  BY <1>3 DEF Station, Stop, WorkerFinished, GiveUp, Free, Host, HostStalls, HostResumes,
              HostLeaves, SeeStopping
<1>4. ASSUME SeeIndex PROVE RingNext
  BY <1>4 DEF SeeIndex, RingNext
<1>5. CASE UNCHANGED vars
  BY <1>5 DEF vars
<1>6. QED
  BY <1>1, <1>2, <1>3, <1>4, <1>5 DEF BulkNext

\* The engine and the worker together never do anything to the ring that its
\* two callers may not do, so all that is proved of the ring holds here.
THEOREM ChannelUsesRing == BulkSpec => UsesRing
<1>1. BulkInit => RingInit
  BY DEF BulkInit
<1>2. QED
  BY <1>1, BulkStepIsRingStep, PTL DEF BulkSpec, UsesRing, RingSpec

-----------------------------------------------------------------------------
(* Shutting down. *)

\* The channel is never freed under a worker that has not ended, whichever of
\* the two ways stop takes (bulk_channel.cpp:89-110).
THEOREM NeverFreedUnderWorker == BulkSpec => []FreedAfterWorker
<1>1. BulkInit => FreedAfterWorker
  BY DEF BulkInit, FreedAfterWorker
<1>2. FreedAfterWorker /\ [BulkNext]_vars => FreedAfterWorker'
  <2>. SUFFICES ASSUME FreedAfterWorker, [BulkNext]_vars PROVE FreedAfterWorker'
    OBVIOUS
  <2>. USE DEF FreedAfterWorker
  <2>1. CASE Engine
    BY <2>1 DEF Engine, Offer, EngineCopies, EnginePublishes, CountRefused, workerVars, stationVars
  <2>2. CASE Worker
    BY <2>2 DEF Worker, CheckStopping, Idle, WorkerReads, WorkerTakes, Send, SendReturns,
                SendFails, CountForwarded, Finish, Exit, stationVars, workerVars
  <2>3. CASE Station
    BY <2>3 DEF Station, Stop, WorkerFinished, GiveUp, Free, workerVars
  <2>4. CASE Host \/ SeeStopping \/ SeeIndex
    BY <2>4 DEF Host, HostStalls, HostResumes, HostLeaves, SeeStopping, SeeIndex,
                workerVars, stationVars
  <2>5. CASE UNCHANGED vars
    BY <2>5 DEF vars, workerVars, stationVars
  <2>6. QED
    BY <2>1, <2>2, <2>3, <2>4, <2>5 DEF BulkNext
<1>3. QED
  BY <1>1, <1>2, PTL DEF BulkSpec

-----------------------------------------------------------------------------
(* What arrives. *)

\* How far the worker's chunk has got.  While a read of the ring is in progress
\* all the earlier chunks have arrived; otherwise out is the chunk that ends at
\* drained, of which the first sent bytes have arrived.
Delivery ==
  /\ worker \in {"check", "read", "send", "count", "finish", "notify", "exited"}
  /\ sent \in Nat /\ arrived \in Seq(Nat) /\ forwarded \in Nat
  /\ toRead > 0 => worker = "read" /\ Len(arrived) = drained
  /\ toRead = 0 => /\ sent =< Len(out)
                   /\ Len(arrived) + Len(out) = drained + sent
                   /\ sent =< Len(arrived)
                   /\ \A i \in 1 .. Len(out) : out[i] + Len(out) = drained + i
  /\ (toRead = 0 /\ worker \in {"check", "read", "count"}) => sent = Len(out)
  /\ drained = forwarded + InHand
  /\ HostHearsInOrder

DeliveryInv == RingInv /\ Delivery

LEMMA Delivery_Init == BulkInit => DeliveryInv
<1>. SUFFICES ASSUME BulkInit PROVE DeliveryInv
  OBVIOUS
<1>1. RingInv
  BY RingInit_Inv DEF BulkInit
<1>2. Delivery
  BY DEF BulkInit, RingInit, Delivery, InHand, HostHearsInOrder
<1>3. QED
  BY <1>1, <1>2 DEF DeliveryInv

\* The variables Delivery is about.
deliveryVars == <<workerVars, toRead, out, drained>>

LEMMA Delivery_Unchanged ==
  ASSUME Delivery, UNCHANGED deliveryVars PROVE Delivery'
BY DEF Delivery, deliveryVars, workerVars, InHand, HostHearsInOrder

\* Everybody but the worker leaves the chunk alone.
LEMMA OthersLeaveChunk ==
  ASSUME Engine \/ Station \/ Host \/ SeeStopping \/ SeeIndex \/ UNCHANGED vars
  PROVE  UNCHANGED deliveryVars
<1>1. ASSUME Engine PROVE UNCHANGED deliveryVars
  BY <1>1 DEF Engine, Offer, EngineCopies, EnginePublishes, CountRefused, BeginWrite, CopyIn,
              PublishHead, ringVars, consumerVars, deliveryVars
<1>2. ASSUME Station \/ Host \/ SeeStopping PROVE UNCHANGED deliveryVars
  BY <1>2 DEF Station, Stop, WorkerFinished, GiveUp, Free, Host, HostStalls, HostResumes,
              HostLeaves, SeeStopping, ringVars, consumerVars, deliveryVars
<1>3. ASSUME SeeIndex PROVE UNCHANGED deliveryVars
  BY <1>3 DEF SeeIndex, SeeHead, SeeTail, consumerVars, deliveryVars
<1>4. ASSUME UNCHANGED vars PROVE UNCHANGED deliveryVars
  BY <1>4 DEF vars, ringVars, consumerVars, deliveryVars
<1>5. QED
  BY <1>1, <1>2, <1>3, <1>4

LEMMA Reads_Delivery == ASSUME DeliveryInv, WorkerReads PROVE Delivery'
<1>1. worker = "read" /\ UNCHANGED workerVars
  BY DEF WorkerReads
<1>2. toRead \in Nat /\ drained \in Nat /\ out \in Seq(Nat)
  BY DEF DeliveryInv, RingInv, RingTypeOK
<1>3. toRead' > 0 /\ drained' = drained /\ toRead' \in Nat
  <2>1. CASE BeginRead(DrainBytes)
    <3>1. Available(DrainBytes) \in Nat
      BY <2>1, AvailableCovered, BulkAssumption DEF BeginRead, DeliveryInv, RingInv
    <3>2. QED
      BY <2>1, <3>1 DEF BeginRead
  <2>2. CASE CopyOut
    BY <1>2, <2>2 DEF CopyOut
  <2>3. QED
    BY <2>1, <2>2 DEF WorkerReads
<1>4. Len(arrived) = drained
  BY <1>1, <1>2 DEF DeliveryInv, Delivery
<1>5. QED
  BY <1>1, <1>2, <1>3, <1>4 DEF DeliveryInv, Delivery, workerVars, InHand, HostHearsInOrder

LEMMA Takes_Delivery == ASSUME DeliveryInv, WorkerTakes PROVE Delivery'
<1>1. /\ worker = "read" /\ worker' = "send" /\ sent' = 0
      /\ UNCHANGED <<forwarded, arrived, out>>
      /\ toRead > 0 /\ Len(out) = toRead /\ drained' = drained + toRead /\ toRead' = 0
  BY DEF WorkerTakes, PublishTail
<1>2. toRead \in Nat /\ drained \in Nat /\ out \in Seq(Nat)
  BY DEF DeliveryInv, RingInv, RingTypeOK
<1>3. \A i \in 1 .. Len(out) : out[i] = drained + i
  BY <1>1 DEF DeliveryInv, RingInv, BytesInPlace
<1>4. Len(arrived) = drained /\ forwarded = drained /\ arrived \in Seq(Nat) /\ forwarded \in Nat
  BY <1>1, <1>2 DEF DeliveryInv, Delivery, InHand
<1>5. InHand' = Len(out)
  BY <1>1 DEF InHand
<1>6. \A i \in 1 .. Len(out') : out'[i] + Len(out') = drained' + i
  BY <1>1, <1>2, <1>3
<1>7. HostHearsInOrder'
  BY <1>1 DEF DeliveryInv, Delivery, HostHearsInOrder
<1>8. QED
  BY <1>1, <1>2, <1>4, <1>5, <1>6, <1>7 DEF Delivery

LEMMA Send_Delivery == ASSUME DeliveryInv, Send PROVE Delivery'
<1>1. /\ worker = "send" /\ sent < Len(out)
      /\ arrived' = Append(arrived, out[sent + 1]) /\ sent' = sent + 1
      /\ UNCHANGED <<worker, forwarded, toRead, out, drained>>
  BY DEF Send, ringVars, consumerVars
<1>2. /\ toRead = 0 /\ drained \in Nat /\ out \in Seq(Nat)
      /\ sent \in Nat /\ arrived \in Seq(Nat) /\ forwarded \in Nat
      /\ Len(arrived) + Len(out) = drained + sent /\ sent =< Len(arrived)
      /\ \A i \in 1 .. Len(out) : out[i] + Len(out) = drained + i
      /\ drained = forwarded + InHand
  BY <1>1 DEF DeliveryInv, RingInv, RingTypeOK, Delivery
<1>3. sent + 1 \in 1 .. Len(out) /\ out[sent + 1] \in Nat
  BY <1>1, <1>2, SMTT(30)
<1>4. out[sent + 1] = Len(arrived) + 1
  <2>1. out[sent + 1] + Len(out) = drained + (sent + 1)
    BY <1>2, <1>3
  <2>2. Len(arrived) \in Nat /\ Len(out) \in Nat
    BY <1>2
  <2>3. QED
    BY <1>2, <1>3, <2>1, <2>2, SMTT(30)
<1>5. arrived' \in Seq(Nat) /\ Len(arrived') = Len(arrived) + 1
  BY <1>1, <1>2, <1>3
<1>6. HostHearsInOrder'
  <2>1. ASSUME NEW i \in 1 .. Len(arrived') PROVE arrived'[i] = i
    <3>1. CASE i = Len(arrived) + 1
      BY <1>1, <1>2, <1>4, <3>1
    <3>2. CASE i # Len(arrived) + 1
      <4>1. i \in 1 .. Len(arrived)
        BY <1>2, <1>5, <2>1, <3>2
      <4>2. arrived'[i] = arrived[i]
        BY <1>1, <1>2, <1>3, <4>1
      <4>3. QED
        BY <4>1, <4>2 DEF DeliveryInv, Delivery, HostHearsInOrder
    <3>3. QED
      BY <3>1, <3>2
  <2>2. QED
    BY <2>1 DEF HostHearsInOrder
<1>7. InHand' = InHand
  BY <1>1 DEF InHand
<1>8. /\ sent' \in Nat /\ sent' =< Len(out') /\ sent' =< Len(arrived')
      /\ Len(arrived') + Len(out') = drained' + sent'
  <2>1. Len(arrived) \in Nat /\ Len(out) \in Nat
    BY <1>2
  <2>2. out' = out /\ drained' = drained /\ sent' = sent + 1 /\ Len(arrived') = Len(arrived) + 1
    BY <1>1, <1>5
  <2>3. /\ Len(arrived) + Len(out) = drained + sent /\ sent \in Nat /\ drained \in Nat
        /\ sent < Len(out) /\ sent =< Len(arrived)
    BY <1>1, <1>2
  <2>4. /\ sent + 1 =< Len(out) /\ sent + 1 =< Len(arrived) + 1
        /\ (Len(arrived) + 1) + Len(out) = drained + (sent + 1)
    BY <2>1, <2>3
  <2>5. QED
    BY <2>2, <2>3, <2>4
<1>9. /\ worker' = "send" /\ toRead' = 0 /\ forwarded' \in Nat
      /\ drained' = forwarded' + InHand'
      /\ \A i \in 1 .. Len(out') : out'[i] + Len(out') = drained' + i
  BY <1>1, <1>2, <1>7
<1>10. QED
  BY <1>5, <1>6, <1>8, <1>9 DEF Delivery

LEMMA WorkerStep_Delivery ==
  ASSUME DeliveryInv, Worker PROVE Delivery'
<1>1. /\ toRead \in Nat /\ drained \in Nat /\ out \in Seq(Nat) /\ sent \in Nat
      /\ forwarded \in Nat /\ Len(out) \in Nat
  BY DEF DeliveryInv, RingInv, RingTypeOK, Delivery
<1>2. CASE CheckStopping \/ Idle \/ SendReturns \/ SendFails \/ Finish \/ Exit
  <2>1. /\ UNCHANGED <<sent, forwarded, arrived, toRead, out, drained>>
        /\ worker # "read" => toRead = 0
    BY <1>1, <1>2 DEF CheckStopping, Idle, SendReturns, SendFails, Finish, Exit, ringVars,
                      consumerVars, DeliveryInv, Delivery
  <2>2. InHand' = InHand
    BY <1>1, <1>2, <2>1 DEF CheckStopping, Idle, SendReturns, SendFails, Finish, Exit, InHand,
                      DeliveryInv, Delivery
  <2>3. toRead = 0
    BY <1>1, <1>2, <2>1 DEF CheckStopping, Idle, SendReturns, SendFails, Finish, Exit
  <2>4. /\ worker' \in {"check", "read", "send", "count", "finish", "notify", "exited"}
        /\ worker' \in {"check", "read", "count"} => sent = Len(out)
    BY <1>1, <1>2, <2>3 DEF CheckStopping, Idle, SendReturns, SendFails, Finish, Exit,
                            DeliveryInv, Delivery
  <2>5. QED
    BY <1>1, <2>1, <2>2, <2>3, <2>4 DEF DeliveryInv, Delivery, HostHearsInOrder
<1>3. CASE CountForwarded
  <2>1. /\ worker = "count" /\ worker' = "check" /\ forwarded' = forwarded + Len(out)
        /\ UNCHANGED <<sent, arrived, toRead, out, drained>>
    BY <1>3 DEF CountForwarded, ringVars, consumerVars
  <2>2. toRead = 0 /\ InHand = Len(out) /\ InHand' = 0
    BY <1>1, <2>1 DEF DeliveryInv, Delivery, InHand
  <2>3. QED
    BY <1>1, <2>1, <2>2 DEF DeliveryInv, Delivery, HostHearsInOrder
<1>4. QED
  BY <1>2, <1>3, Reads_Delivery, Takes_Delivery, Send_Delivery DEF Worker

LEMMA Delivery_Step == DeliveryInv /\ [BulkNext]_vars => DeliveryInv'
<1>. SUFFICES ASSUME DeliveryInv, [BulkNext]_vars PROVE DeliveryInv'
  OBVIOUS
<1>1. RingInv'
  BY BulkStepIsRingStep, RingStep_Inv DEF DeliveryInv
<1>2. CASE Worker
  BY <1>1, <1>2, WorkerStep_Delivery DEF DeliveryInv
<1>3. CASE ~ Worker
  BY <1>1, <1>3, OthersLeaveChunk, Delivery_Unchanged DEF DeliveryInv, BulkNext
<1>4. QED
  BY <1>2, <1>3

\* What reaches the host is the engine's audio from the first accepted byte on,
\* without a hole or a repeat, wherever writes are cut and whoever stops.
THEOREM HostHearsEngine == BulkSpec => []HostHearsInOrder
<1>1. DeliveryInv => HostHearsInOrder
  BY DEF DeliveryInv, Delivery
<1>2. QED
  BY <1>1, Delivery_Init, Delivery_Step, PTL DEF BulkSpec

-----------------------------------------------------------------------------
(* The two counters. *)

\* The engine's side of the account: every byte offered is dropped, refused but
\* not counted yet, being copied, or accepted.
SinkLedger ==
  /\ offered \in Nat /\ dropped \in Nat /\ refused \in Nat
  /\ offered = dropped + refused + toWrite + accepted

LEMMA TakenSplits ==
  ASSUME RingInv, NEW n \in Nat
  PROVE  Taken(n) \in Nat /\ Taken(n) =< n
<1>1. Used(head, seenTail) \in Slot
  BY UsedIsGap DEF RingInv, RingTypeOK
<1>2. slots - 1 - Used(head, seenTail) \in Nat
  BY <1>1, RingAssumption DEF Slot, slots
<1>3. QED
  BY <1>2 DEF Taken, Least

LEMMA SinkLedger_Step ==
  ASSUME RingInv, SinkLedger, [BulkNext]_vars PROVE SinkLedger'
<1>1. toWrite \in Nat /\ accepted \in Nat
  BY DEF RingInv, RingTypeOK
<1>. USE DEF SinkLedger
<1>2. ASSUME NEW n \in OfferSizes, Offer(n) PROVE SinkLedger'
  <2>1. n \in Nat /\ Taken(n) \in Nat /\ Taken(n) =< n
    BY TakenSplits, RingAssumption
  <2>2. toWrite = 0 /\ refused = 0
    BY <1>1, <1>2 DEF Offer, InSink
  <2>3. /\ toWrite' = Taken(n) /\ accepted' = accepted /\ dropped' = dropped
        /\ offered' = offered + n /\ refused' = n - Taken(n)
    BY <1>2, <2>2 DEF Offer, BeginWrite, ringVars, producerVars
  <2>4. QED
    BY <1>1, <2>1, <2>2, <2>3
<1>3. CASE EngineCopies
  BY <1>3 DEF EngineCopies, CopyIn, sinkVars
<1>4. CASE EnginePublishes
  BY <1>1, <1>4 DEF EnginePublishes, PublishHead, sinkVars
<1>5. CASE CountRefused
  BY <1>1, <1>5 DEF CountRefused, ringVars, producerVars
<1>6. CASE Worker
  <2>1. UNCHANGED <<toWrite, accepted, sinkVars>>
    BY <1>6 DEF Worker, CheckStopping, Idle, WorkerReads, WorkerTakes, Send, SendReturns,
                SendFails, CountForwarded, Finish, Exit, BeginRead, CopyOut, PublishTail,
                ringVars, producerVars
  <2>2. QED
    BY <2>1 DEF sinkVars
<1>7. CASE Station \/ Host \/ SeeStopping \/ SeeIndex \/ UNCHANGED vars
  <2>1. UNCHANGED <<toWrite, accepted, sinkVars>>
    BY <1>7 DEF Station, Stop, WorkerFinished, GiveUp, Free, Host, HostStalls, HostResumes,
                HostLeaves, SeeStopping, SeeIndex, SeeHead, SeeTail, vars, ringVars, producerVars
  <2>2. QED
    BY <2>1 DEF sinkVars
<1>8. QED
  BY <1>2, <1>3, <1>4, <1>5, <1>6, <1>7 DEF BulkNext, Engine

\* The counters of DIAG_REPLY account for every byte: none is counted twice and
\* none is in neither count but those still queued or in somebody's hands.
THEOREM EveryByteAccounted == BulkSpec => []Ledger
<1>. DEFINE Inv == DeliveryInv /\ SinkLedger
<1>1. BulkInit => Inv
  BY Delivery_Init DEF BulkInit, RingInit, SinkLedger
<1>2. Inv /\ [BulkNext]_vars => Inv'
  BY Delivery_Step, SinkLedger_Step DEF DeliveryInv
<1>3. Inv => Ledger
  <2>. SUFFICES ASSUME Inv PROVE Ledger
    OBVIOUS
  <2>1. /\ drained \in Nat /\ out \in Seq(Nat) /\ toRead \in Nat /\ Len(out) \in Nat
        /\ sent \in Nat /\ arrived \in Seq(Nat) /\ forwarded \in Nat /\ Len(arrived) \in Nat
    BY DEF DeliveryInv, RingInv, RingTypeOK, Delivery
  <2>2. forwarded =< Len(arrived)
    <3>1. CASE toRead > 0
      BY <2>1, <3>1 DEF DeliveryInv, Delivery, InHand
    <3>2. CASE toRead = 0 /\ sent < Len(out)
      <4>1. worker \notin {"check", "read", "count"}
        BY <2>1, <3>2 DEF DeliveryInv, Delivery
      <4>2. InHand = Len(out)
        BY <3>2, <4>1 DEF DeliveryInv, Delivery, InHand
      <4>3. QED
        BY <2>1, <3>2, <4>2 DEF DeliveryInv, Delivery
    <3>3. CASE toRead = 0 /\ sent = Len(out)
      BY <2>1, <3>3 DEF DeliveryInv, Delivery, InHand
    <3>4. QED
      BY <2>1, <3>1, <3>2, <3>3 DEF DeliveryInv, Delivery
  <2>3. QED
    BY <2>2 DEF DeliveryInv, Delivery, SinkLedger, Ledger
<1>4. QED
  BY <1>1, <1>2, <1>3, PTL DEF BulkSpec

-----------------------------------------------------------------------------
(* The types of the channel. *)

\* What of the types the invariants above do not say.
FlagTypes ==
  /\ host \in {"reading", "stalled", "gone"}
  /\ stopping \in BOOLEAN /\ seenStopping \in BOOLEAN /\ finished \in BOOLEAN
  /\ station \in {"serving", "waiting", "joining", "freed", "released"}

LEMMA FlagTypes_Step == FlagTypes /\ [BulkNext]_vars => FlagTypes'
<1>. SUFFICES ASSUME FlagTypes, [BulkNext]_vars PROVE FlagTypes'
  OBVIOUS
<1>. USE DEF FlagTypes, workerVars, stationVars
<1>1. CASE Engine
  BY <1>1 DEF Engine, Offer, EngineCopies, EnginePublishes, CountRefused
<1>2. CASE Worker
  BY <1>2 DEF Worker, CheckStopping, Idle, WorkerReads, WorkerTakes, Send, SendReturns,
              SendFails, CountForwarded, Finish, Exit
<1>3. CASE Station
  BY <1>3 DEF Station, Stop, WorkerFinished, GiveUp, Free
<1>4. CASE Host \/ SeeStopping \/ SeeIndex
  BY <1>4 DEF Host, HostStalls, HostResumes, HostLeaves, SeeStopping, SeeIndex
<1>5. CASE UNCHANGED vars
  BY <1>5 DEF vars
<1>6. QED
  BY <1>1, <1>2, <1>3, <1>4, <1>5 DEF BulkNext

\* A chunk is never longer than what has been taken from the ring, and that
\* never more than what has gone in: so each byte of it is one of those.
LEMMA ChunkIsAccepted == DeliveryInv => out \in Seq(1 .. accepted)
<1>. SUFFICES ASSUME DeliveryInv PROVE out \in Seq(1 .. accepted)
  OBVIOUS
<1>1. /\ toRead \in Nat /\ drained \in Nat /\ accepted \in Nat /\ sent \in Nat
      /\ out \in Seq(Nat) /\ Len(out) \in Nat /\ Len(arrived) \in Nat
      /\ head \in Slot /\ tail \in Slot /\ seenHead \in Slot
  BY DEF DeliveryInv, RingInv, RingTypeOK, Delivery
<1>2. /\ Gap(tail, head) \in Nat /\ Gap(tail, seenHead) \in Nat
  BY <1>1, RingAssumption DEF Gap, Slot, slots
<1>3. /\ accepted = drained + Gap(tail, head)
      /\ toRead =< Gap(tail, head)
  BY <1>1, <1>2 DEF DeliveryInv, RingInv, IndicesAgree
<1>4. ASSUME NEW i \in 1 .. Len(out) PROVE out[i] \in 1 .. accepted
  <2>1. CASE toRead > 0
    <3>1. out[i] = drained + i /\ i =< toRead
      BY <1>1, <2>1 DEF DeliveryInv, RingInv, BytesInPlace
    <3>2. QED
      BY <1>1, <1>2, <1>3, <3>1
  <2>2. CASE toRead = 0
    <3>1. Len(out) =< drained /\ out[i] + Len(out) = drained + i
      BY <1>1, <2>2 DEF DeliveryInv, Delivery
    <3>2. out[i] \in Nat
      BY <1>1
    <3>3. QED
      BY <1>1, <1>2, <1>3, <3>1, <3>2
  <2>3. QED
    BY <1>1, <2>1, <2>2
<1>5. QED
  BY <1>1, <1>4

\* Everything in the channel has its type: no counter goes below zero, also
\* where the code subtracts, and the chunk a worker has in hand, or is still
\* copying out, is made of bytes the ring has accepted, never of filler.
THEOREM ChannelTypes == BulkSpec => []BulkTypeOK
<1>. DEFINE Inv == DeliveryInv /\ SinkLedger /\ FlagTypes
<1>1. BulkInit => Inv
  <2>1. BulkInit => DeliveryInv
    BY Delivery_Init
  <2>2. BulkInit => SinkLedger
    BY DEF BulkInit, RingInit, SinkLedger
  <2>3. BulkInit => FlagTypes
    BY DEF BulkInit, FlagTypes
  <2>4. QED
    BY <2>1, <2>2, <2>3
<1>2. Inv /\ [BulkNext]_vars => Inv'
  BY Delivery_Step, SinkLedger_Step, FlagTypes_Step DEF DeliveryInv
<1>3. Inv => BulkTypeOK
  BY ChunkIsAccepted DEF DeliveryInv, RingInv, Delivery, SinkLedger, FlagTypes, BulkTypeOK
<1>4. QED
  BY <1>1, <1>2, <1>3, PTL DEF BulkSpec

-----------------------------------------------------------------------------
(* The ring is the queue of ByteQueue.tla. *)

\* What lies between the two indices are the bytes accepted and not yet drained.
Queued(a, d) == [k \in 1 .. a - d |-> d + k]

LEMMA QueuedType ==
  ASSUME NEW a \in Nat, NEW d \in Nat, a - d \in Nat
  PROVE  /\ Queued(a, d) \in Seq(Nat) /\ Len(Queued(a, d)) = a - d
         /\ \A k \in 1 .. a - d : Queued(a, d)[k] = d + k
BY DEF Queued

LEMMA SameSequence ==
  ASSUME NEW s \in Seq(Nat), NEW t \in Seq(Nat), Len(s) = Len(t),
         \A k \in 1 .. Len(s) : s[k] = t[k]
  PROVE  s = t
OBVIOUS

LEMMA Joined ==
  ASSUME NEW s \in Seq(Nat), NEW t \in Seq(Nat)
  PROVE  /\ s \o t \in Seq(Nat) /\ Len(s \o t) = Len(s) + Len(t)
         /\ \A k \in 1 .. Len(s) : (s \o t)[k] = s[k]
         /\ \A k \in Len(s) + 1 .. Len(s) + Len(t) : (s \o t)[k] = t[k - Len(s)]
OBVIOUS

LEMMA QueuedMore ==
  ASSUME NEW a \in Nat, NEW d \in Nat, NEW n \in Nat, a - d \in Nat
  PROVE  Queued(a + n, d) = Queued(a, d) \o [i \in 1 .. n |-> a + i]
<1>. DEFINE s == Queued(a, d)
            t == [i \in 1 .. n |-> a + i]
            u == Queued(a + n, d)
<1>1. PICK l \in Nat : l = a - d
  OBVIOUS
<1>2. (a + n) - d = l + n /\ a + n \in Nat /\ a = d + l
  BY <1>1
<1>3. /\ s \in Seq(Nat) /\ Len(s) = l /\ \A k \in 1 .. l : s[k] = d + k
  BY <1>1, QueuedType
<1>4. /\ u \in Seq(Nat) /\ Len(u) = l + n /\ \A k \in 1 .. l + n : u[k] = d + k
  BY <1>2, QueuedType
<1>5. t \in Seq(Nat) /\ Len(t) = n /\ \A i \in 1 .. n : t[i] = a + i
  OBVIOUS
<1>. HIDE DEF s, t, u
<1>6. /\ s \o t \in Seq(Nat) /\ Len(s \o t) = l + n
      /\ \A k \in 1 .. l : (s \o t)[k] = s[k]
      /\ \A k \in l + 1 .. l + n : (s \o t)[k] = t[k - l]
  <2>1. s \in Seq(Nat) /\ t \in Seq(Nat) /\ Len(s) = l /\ Len(t) = n
    BY <1>3, <1>5
  <2>2. QED
    BY <2>1, Joined
<1>7. ASSUME NEW k \in 1 .. l + n PROVE (s \o t)[k] = d + k
  <2>1. k \in 1 .. l \/ (k \in l + 1 .. l + n /\ k - l \in 1 .. n)
    OBVIOUS
  <2>2. k \in 1 .. l => (s \o t)[k] = d + k
    BY <1>3, <1>6
  <2>3. ASSUME k \in l + 1 .. l + n, k - l \in 1 .. n PROVE (s \o t)[k] = d + k
    <3>1. (s \o t)[k] = t[k - l] /\ t[k - l] = a + (k - l)
      BY <1>5, <1>6, <2>3
    <3>2. a + (k - l) = d + k
      BY <1>2
    <3>3. QED
      BY <3>1, <3>2
  <2>4. QED
    BY <2>1, <2>2, <2>3
<1>8. u = s \o t
  BY <1>4, <1>6, <1>7, SameSequence
<1>9. QED
  BY <1>8 DEF s, t, u

LEMMA QueuedLess ==
  ASSUME NEW a \in Nat, NEW d \in Nat, NEW n \in Nat, (a - d) - n \in Nat
  PROVE  /\ SubSeq(Queued(a, d), n + 1, a - d) = Queued(a, d + n)
         /\ SubSeq(Queued(a, d), 1, n) \in Seq(Nat) /\ Len(SubSeq(Queued(a, d), 1, n)) = n
         /\ \A i \in 1 .. n : SubSeq(Queued(a, d), 1, n)[i] = d + i
<1>. DEFINE s == Queued(a, d)
            u == Queued(a, d + n)
<1>1. PICK l \in Nat : l = (a - d) - n
  OBVIOUS
<1>2. a - d = l + n /\ a - (d + n) = l /\ d + n \in Nat
  BY <1>1
<1>3. s \in Seq(Nat) /\ Len(s) = l + n /\ \A k \in 1 .. l + n : s[k] = d + k
  BY <1>2, QueuedType
<1>4. u \in Seq(Nat) /\ Len(u) = l /\ \A k \in 1 .. l : u[k] = d + n + k
  BY <1>2, QueuedType
<1>. HIDE DEF s, u
<1>5. PICK c : c = SubSeq(s, n + 1, l + n)
  OBVIOUS
<1>6. c \in Seq(Nat) /\ Len(c) = l /\ \A i \in 1 .. l : c[i] = s[n + i]
  BY <1>3, <1>5
<1>7. ASSUME NEW i \in 1 .. l PROVE c[i] = u[i]
  BY <1>3, <1>4, <1>6
<1>8. c = u
  BY <1>4, <1>6, <1>7, SameSequence
<1>9. /\ SubSeq(s, 1, n) \in Seq(Nat) /\ Len(SubSeq(s, 1, n)) = n
      /\ \A i \in 1 .. n : SubSeq(s, 1, n)[i] = d + i
  BY <1>3
<1>10. QED
  BY <1>2, <1>5, <1>8, <1>9 DEF s, u

LEMMA ContentsNumbered ==
  RingInv => /\ Contents = Queued(accepted, drained)
             /\ accepted \in Nat /\ drained \in Nat /\ accepted - drained \in 0 .. Capacity
<1>. SUFFICES ASSUME RingInv
     PROVE  /\ Contents = Queued(accepted, drained)
            /\ accepted \in Nat /\ drained \in Nat /\ accepted - drained \in 0 .. Capacity
  OBVIOUS
<1>1. /\ accepted \in Nat /\ drained \in Nat /\ head \in Slot /\ tail \in Slot
      /\ accepted = drained + Gap(tail, head)
  BY DEF RingInv, RingTypeOK, IndicesAgree
<1>2. Gap(tail, head) \in 0 .. Capacity
  BY <1>1, RingAssumption DEF Gap, Slot, slots
<1>3. accepted - drained = Gap(tail, head)
  BY <1>1, <1>2
<1>4. ASSUME NEW k \in 1 .. accepted - drained PROVE storage[SlotAt(tail, k - 1)] = drained + k
  <2>1. k - 1 \in 0 .. Gap(tail, head) - 1
    BY <1>2, <1>3, <1>4
  <2>2. storage[SlotAt(tail, k - 1)] = drained + (k - 1) + 1
    BY <2>1 DEF RingInv, BytesInPlace
  <2>3. QED
    BY <1>1, <1>2, <1>3, <1>4, <2>2
<1>5. Contents = Queued(accepted, drained)
  BY <1>4 DEF Contents, Queued
<1>6. QED
  BY <1>1, <1>2, <1>3, <1>5

\* The contents before and after a step, as numbers.
LEMMA ContentsBoth ==
  ASSUME RingInv, RingInv'
  PROVE  /\ Contents = Queued(accepted, drained) /\ Contents' = Queued(accepted', drained')
         /\ accepted \in Nat /\ drained \in Nat /\ accepted - drained \in 0 .. Capacity
         /\ accepted' - drained' \in 0 .. Capacity
<1>1. (RingInv => /\ Contents = Queued(accepted, drained)
                  /\ accepted \in Nat /\ drained \in Nat
                  /\ accepted - drained \in 0 .. Capacity)'
  BY ContentsNumbered, PTL
<1>2. QED
  BY <1>1, ContentsNumbered

LEMMA QueueAccepts ==
  ASSUME RingInv, RingInv', PublishHead
  PROVE  \E n \in 1 .. Capacity : Queue!Accept(n)
<1>1. PICK n : n = toWrite
  OBVIOUS
<1>2. /\ accepted \in Nat /\ drained \in Nat /\ accepted - drained \in 0 .. Capacity
      /\ Contents = Queued(accepted, drained) /\ Contents' = Queued(accepted', drained')
      /\ accepted' - drained' \in 0 .. Capacity
  BY ContentsBoth
<1>3. n \in Nat \ {0} /\ accepted' = accepted + n /\ drained' = drained /\ received' = received
  BY <1>1 DEF PublishHead, consumerVars, RingInv, RingTypeOK
<1>4. Len(Contents) = accepted - drained
  <2>1. accepted \in Nat /\ drained \in Nat /\ accepted - drained \in Nat
    BY <1>2
  <2>2. Len(Queued(accepted, drained)) = accepted - drained
    BY <2>1, QueuedType
  <2>3. QED
    BY <1>2, <2>2
<1>5. n \in 1 .. Capacity - Len(Contents) /\ n \in 1 .. Capacity
  BY <1>2, <1>3, <1>4, RingAssumption
<1>6. Contents' = Contents \o [i \in 1 .. n |-> accepted + i]
  <2>1. accepted \in Nat /\ drained \in Nat /\ n \in Nat /\ accepted - drained \in Nat
    BY <1>2, <1>3
  <2>2. Queued(accepted + n, drained) = Queued(accepted, drained) \o [i \in 1 .. n |-> accepted + i]
    BY <2>1, QueuedMore
  <2>3. Contents' = Queued(accepted + n, drained)
    BY <1>2, <1>3
  <2>4. QED
    BY <1>2, <2>2, <2>3
<1>7. QED
  BY <1>3, <1>5, <1>6 DEF Queue!Accept

LEMMA QueueDelivers ==
  ASSUME RingInv, RingInv', PublishTail
  PROVE  \E n \in 1 .. Capacity : Queue!Deliver(n)
<1>1. PICK n : n = toRead
  OBVIOUS
<1>2. /\ accepted \in Nat /\ drained \in Nat /\ accepted - drained \in 0 .. Capacity
      /\ Contents = Queued(accepted, drained) /\ Contents' = Queued(accepted', drained')
      /\ accepted' - drained' \in 0 .. Capacity
  BY ContentsBoth
<1>3. /\ n \in Nat \ {0} /\ accepted' = accepted /\ drained' = drained + n
      /\ received' = received \o out /\ Len(out) = n /\ out \in Seq(Nat)
      /\ \A i \in 1 .. n : out[i] = drained + i
  BY <1>1 DEF PublishTail, producerVars, RingInv, RingTypeOK, BytesInPlace
<1>4. Len(Contents) = accepted - drained
  <2>1. accepted \in Nat /\ drained \in Nat /\ accepted - drained \in Nat
    BY <1>2
  <2>2. Len(Queued(accepted, drained)) = accepted - drained
    BY <2>1, QueuedType
  <2>3. QED
    BY <1>2, <2>2
<1>5. n \in 1 .. Len(Contents) /\ n \in 1 .. Capacity /\ (accepted - drained) - n \in Nat
  BY <1>2, <1>3, <1>4, RingAssumption
<1>6. /\ Contents' = SubSeq(Contents, n + 1, Len(Contents))
      /\ SubSeq(Contents, 1, n) \in Seq(Nat) /\ Len(SubSeq(Contents, 1, n)) = n
      /\ \A i \in 1 .. n : SubSeq(Contents, 1, n)[i] = drained + i
  <2>1. accepted \in Nat /\ drained \in Nat /\ n \in Nat /\ (accepted - drained) - n \in Nat
    BY <1>2, <1>3, <1>5
  <2>2. SubSeq(Queued(accepted, drained), n + 1, accepted - drained) = Queued(accepted, drained + n)
    BY <2>1, QueuedLess, ZenonT(30)
  <2>3. SubSeq(Queued(accepted, drained), 1, n) \in Seq(Nat)
    BY <2>1, QueuedLess, ZenonT(30)
  <2>4. Len(SubSeq(Queued(accepted, drained), 1, n)) = n
    <3>1. accepted - drained \in Nat
      BY <2>1
    <3>2. Queued(accepted, drained) \in Seq(Nat) /\ Len(Queued(accepted, drained)) = accepted - drained
      BY <2>1, <3>1, QueuedType
    <3>3. QED
      BY <2>1, <3>2
  <2>5. \A i \in 1 .. n : SubSeq(Queued(accepted, drained), 1, n)[i] = drained + i
    BY <2>1, QueuedLess, ZenonT(30)
  <2>6. Contents' = Queued(accepted, drained + n)
    BY <1>2, <1>3
  <2>7. QED
    BY <1>2, <1>4, <2>2, <2>3, <2>4, <2>5, <2>6
<1>7. out = SubSeq(Contents, 1, n)
  BY <1>3, <1>6, SameSequence
<1>8. QED
  BY <1>3, <1>5, <1>6, <1>7 DEF Queue!Deliver

LEMMA Queue_Step ==
  RingInv /\ RingInv' /\ [RingNext]_ringVars => [Queue!Next]_(Queue!vars)
<1>. SUFFICES ASSUME RingInv, RingInv', [RingNext]_ringVars PROVE [Queue!Next]_(Queue!vars)
  OBVIOUS
<1>1. CASE PublishHead
  BY <1>1, QueueAccepts DEF Queue!Next
<1>2. CASE PublishTail
  BY <1>2, QueueDelivers DEF Queue!Next
<1>3. CASE UNCHANGED <<accepted, drained, received>>
  <2>1. Contents' = Contents
    BY <1>3, ContentsBoth
  <2>2. QED
    BY <1>3, <2>1 DEF Queue!vars
<1>4. CASE ~ PublishHead /\ ~ PublishTail
  BY <1>3, <1>4 DEF RingNext, BeginWrite, CopyIn, SeeHead, BeginRead, CopyOut, SeeTail, ringVars,
                    producerVars, consumerVars
<1>5. QED
  BY <1>1, <1>2, <1>4

\* The ring is the bounded queue that ring_buffer.hpp describes: publishing an
\* index is the step at which bytes are accepted or handed out, and what the two
\* threads do between these is nobody's business but theirs.
THEOREM RingIsQueue == RingSpec => ImplementsQueue
<1>1. RingInit => Queue!Init
  <2>. SUFFICES ASSUME RingInit PROVE Queue!Init
    OBVIOUS
  <2>1. accepted = 0 /\ drained = 0 /\ received = << >>
    BY DEF RingInit
  <2>2. Contents = << >>
    BY <2>1 DEF Contents
  <2>3. QED
    BY <2>1, <2>2 DEF Queue!Init
<1>2. QED
  BY <1>1, RingInit_Inv, RingStep_Inv, Queue_Step, PTL DEF RingSpec, ImplementsQueue, Queue!Spec

\* So is the ring in the channel, with the engine and the worker at its ends.
THEOREM ChannelIsQueue == BulkSpec => ImplementsQueue
BY ChannelUsesRing, RingIsQueue, PTL DEF UsesRing

=============================================================================
