----------------------------- MODULE RingBuffer -----------------------------
(***************************************************************************)
(* The lock-free byte queue of src/relay/bulk/ring_buffer.cpp: one producer*)
(* (the engine's audio thread, in write) and one consumer (the channel's   *)
(* worker, in read), which share a slot array and two atomic indices.      *)
(*                                                                         *)
(* Each call is three kinds of step: load the indices and decide how much  *)
(* to move, copy byte by byte, publish the new index.  The steps of the two*)
(* threads interleave.  A load of the other thread's index need not see its*)
(* latest value: seenHead and seenTail are what the other thread sees now, *)
(* and SeeHead and SeeTail bring them up to date at any time.              *)
(*                                                                         *)
(* The k-th byte accepted is the number k; 0 is the filler the constructor *)
(* writes.  Sizes stay far below 2^64 (the queue is 128 KiB), so index     *)
(* arithmetic does not overflow and is not reduced.                        *)
(***************************************************************************)
EXTENDS Naturals, Sequences

CONSTANTS
  Capacity,      \* usable bytes: capacity() of the code
  OfferSizes,    \* how many bytes one write may be offered
  ReadSizes,     \* how many bytes one read may ask for
  MaxBytes       \* bound of the model: bytes accepted over a run

ASSUME RingAssumption ==
  /\ Capacity \in Nat
  /\ OfferSizes \subseteq Nat
  /\ ReadSizes \subseteq Nat
  /\ MaxBytes \in Nat

VARIABLES
  storage,       \* the slots
  head,          \* next slot to write; owned by the producer
  tail,          \* next slot to read; owned by the consumer
  seenHead,      \* the value of head a load by the consumer returns
  seenTail,      \* the value of tail a load by the producer returns
  toWrite,       \* bytes the write in progress has decided to take; 0: none
  written,       \* how many of them are copied in
  toRead,        \* bytes the read in progress has decided to take; 0: none
  out,           \* the bytes the last or current read has copied out
  accepted,      \* history: bytes published by the producer
  drained,       \* history: bytes released by the consumer
  received       \* history: every byte handed to the consumer, in order

producerVars == <<head, seenHead, toWrite, written, accepted>>
consumerVars == <<tail, seenTail, toRead, out, drained, received>>
ringVars == <<storage, producerVars, consumerVars>>

slots == Capacity + 1
Slot == 0 .. Capacity

Least(a, b) == IF a < b THEN a ELSE b

\* The slot a memcpy at offset i of a run starting at start touches: the first
\* run ends with the array, the second starts at slot 0.
SlotAt(start, i) ==
  LET firstRun == slots - start
  IN  IF i < firstRun THEN start + i ELSE i - firstRun

\* Bytes between two indices, as both calls and size() compute it.
Used(h, t) == (h + slots - t) % slots

\* Mutant: the spare slot is handed out too, so a full ring looks empty.
TakenWithoutSpare(n) == Least(n, slots - Used(head, seenTail))

\* What write takes of n bytes, and read of a buffer of m, with the index of
\* the other side they loaded.
Taken(n) == Least(n, slots - 1 - Used(head, seenTail))
Available(m) == Least(m, Used(seenHead, tail))

RingInit ==
  /\ storage = [s \in Slot |-> 0]
  /\ head = 0 /\ tail = 0 /\ seenHead = 0 /\ seenTail = 0
  /\ toWrite = 0 /\ written = 0
  /\ toRead = 0 /\ out = << >>
  /\ accepted = 0 /\ drained = 0 /\ received = << >>

-----------------------------------------------------------------------------
(* The producer: RingBuffer::write. *)

\* Loads both indices and settles on a size.  A write that can take nothing
\* returns 0 and leaves no trace, so it is not a step here.
BeginWrite(n) ==
  /\ toWrite = 0
  /\ Taken(n) > 0
  /\ toWrite' = Taken(n)
  /\ written' = 0
  /\ UNCHANGED <<storage, head, seenHead, accepted, consumerVars>>

CopyIn ==
  /\ written < toWrite
  /\ storage' = [storage EXCEPT ![SlotAt(head, written)] = accepted + written + 1]
  /\ written' = written + 1
  /\ UNCHANGED <<head, seenHead, toWrite, accepted, consumerVars>>

\* Mutant: head is published while bytes are still being copied.
PublishHeadEarly ==
  /\ toWrite > 0
  /\ head' = (head + toWrite) % slots
  /\ accepted' = accepted + toWrite
  /\ toWrite' = 0
  /\ written' = 0
  /\ UNCHANGED <<storage, seenHead, consumerVars>>

\* The release store of head, after which write returns.
PublishHead ==
  /\ toWrite > 0
  /\ written = toWrite
  /\ head' = (head + toWrite) % slots
  /\ accepted' = accepted + toWrite
  /\ toWrite' = 0
  /\ written' = 0
  /\ UNCHANGED <<storage, seenHead, consumerVars>>

\* The store becomes visible to the consumer.
SeeHead ==
  /\ seenHead # head
  /\ seenHead' = head
  /\ UNCHANGED <<storage, head, toWrite, written, accepted, consumerVars>>

-----------------------------------------------------------------------------
(* The consumer: RingBuffer::read. *)

BeginRead(m) ==
  /\ toRead = 0
  /\ Available(m) > 0
  /\ toRead' = Available(m)
  /\ out' = << >>
  /\ UNCHANGED <<storage, tail, seenTail, drained, received, producerVars>>

CopyOut ==
  /\ Len(out) < toRead
  /\ out' = Append(out, storage[SlotAt(tail, Len(out))])
  /\ UNCHANGED <<storage, tail, seenTail, toRead, drained, received, producerVars>>

\* Mutant: the space is given back before the bytes are copied out of it.
PublishTailEarly ==
  /\ toRead > 0
  /\ tail' = (tail + toRead) % slots
  /\ drained' = drained + toRead
  /\ received' = received \o out
  /\ toRead' = 0
  /\ UNCHANGED <<storage, seenTail, out, producerVars>>

\* The release store of tail, after which read returns.
PublishTail ==
  /\ toRead > 0
  /\ Len(out) = toRead
  /\ tail' = (tail + toRead) % slots
  /\ drained' = drained + toRead
  /\ received' = received \o out
  /\ toRead' = 0
  /\ UNCHANGED <<storage, seenTail, out, producerVars>>

SeeTail ==
  /\ seenTail # tail
  /\ seenTail' = tail
  /\ UNCHANGED <<storage, tail, toRead, out, drained, received, producerVars>>

-----------------------------------------------------------------------------

RingNext ==
  \/ \E n \in OfferSizes : accepted + n =< MaxBytes /\ BeginWrite(n)
  \/ CopyIn
  \/ PublishHead
  \/ SeeHead
  \/ \E m \in ReadSizes : BeginRead(m)
  \/ CopyOut
  \/ PublishTail
  \/ SeeTail

RingSpec == RingInit /\ [][RingNext]_ringVars

-----------------------------------------------------------------------------
(* Properties. *)

RingTypeOK ==
  /\ storage \in [Slot -> Nat]
  /\ head \in Slot /\ tail \in Slot /\ seenHead \in Slot /\ seenTail \in Slot
  /\ toWrite \in Nat /\ written \in 0 .. toWrite
  /\ toRead \in Nat /\ out \in Seq(Nat)
  /\ accepted \in Nat /\ drained \in Nat /\ received \in Seq(Nat)

\* The slots the producer may be copying into now, and the consumer out of.
WriteRegion == {SlotAt(head, i) : i \in 0 .. toWrite - 1}
ReadRegion == {SlotAt(tail, i) : i \in 0 .. toRead - 1}

\* The two memcpys never touch one slot at the same time (a data race, which
\* ring_buffer.hpp rules out by who owns which index), however stale the index
\* each side loaded was.
NoRace == WriteRegion \cap ReadRegion = {}

\* What read hands out is exactly the accepted bytes, in order, none lost and
\* none twice, across wrap-around: the queue is first-in first-out.
FirstInFirstOut ==
  /\ Len(received) = drained
  /\ \A i \in 1 .. Len(received) : received[i] = i

\* How far index b is ahead of index a, going forward around the array.
Gap(a, b) == IF b >= a THEN b - a ELSE b + slots - a

\* How the shared indices, the stale views of them and the two calls in
\* progress fit together.  A view is never ahead of the index it shows, so the
\* producer sees at most the free space there is and the consumer at most the
\* bytes there are; what each call took still fits when it is published.
IndicesAgree ==
  /\ accepted = drained + Gap(tail, head)
  /\ Gap(tail, seenHead) =< Gap(tail, head)
  /\ Gap(tail, head) =< Gap(seenTail, head)
  /\ toWrite + Gap(seenTail, head) =< Capacity
  /\ toRead =< Gap(tail, seenHead)

\* Every byte that counts is where it should be: the queued ones in the slots
\* from tail on, those of the write in progress from head on, those of the read
\* in progress in the caller's buffer.
BytesInPlace ==
  /\ \A k \in 0 .. Gap(tail, head) - 1 : storage[SlotAt(tail, k)] = drained + k + 1
  /\ \A i \in 0 .. written - 1 : storage[SlotAt(head, i)] = accepted + i + 1
  /\ toRead > 0 => /\ Len(out) =< toRead
                   /\ \A i \in 1 .. Len(out) : out[i] = drained + i

\* The inductive invariant of the ring: what a write or a read cut off at any
\* step by the other thread leaves behind is still a consistent queue.
RingInv == RingTypeOK /\ IndicesAgree /\ BytesInPlace /\ FirstInFirstOut

\* The bytes queued now, oldest first.
Contents == [k \in 1 .. accepted - drained |-> storage[SlotAt(tail, k - 1)]]

\* Every behaviour of the ring is one of the bounded queue ring_buffer.hpp
\* describes: a write is the step that publishes head, a read the one that
\* publishes tail, everything else is invisible.
Queue == INSTANCE ByteQueue WITH queue <- Contents
ImplementsQueue == Queue!Spec

=============================================================================
