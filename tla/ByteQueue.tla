------------------------------ MODULE ByteQueue ------------------------------
(***************************************************************************)
(* What src/relay/bulk/ring_buffer.hpp promises, without indices, slots or *)
(* memory ordering: a bounded first-in first-out queue of bytes.  Accepting*)
(* takes what fits and says how much; reading hands out what is there, in  *)
(* order, each byte once.                                                  *)
(*                                                                         *)
(* The k-th byte the queue ever accepts is the number k, so that order,    *)
(* loss and duplication are visible whatever the bytes are.                *)
(***************************************************************************)
EXTENDS Naturals, Sequences

CONSTANT Capacity           \* usable bytes of the queue

VARIABLES
  queue,                    \* bytes accepted and not yet read, oldest first
  accepted,                 \* how many bytes were ever accepted
  received                  \* every byte handed to the consumer, in order

vars == <<queue, accepted, received>>

Init ==
  /\ queue = << >>
  /\ accepted = 0
  /\ received = << >>

\* Some bytes are taken.  How many is up to the implementation, which may be
\* looking at an old picture of the free space; it never takes more than fits.
Accept(n) ==
  /\ n \in 1 .. Capacity - Len(queue)
  /\ queue' = queue \o [i \in 1 .. n |-> accepted + i]
  /\ accepted' = accepted + n
  /\ UNCHANGED received

\* Some of the oldest bytes are handed out.
Deliver(n) ==
  /\ n \in 1 .. Len(queue)
  /\ received' = received \o SubSeq(queue, 1, n)
  /\ queue' = SubSeq(queue, n + 1, Len(queue))
  /\ UNCHANGED accepted

Next == \E n \in 1 .. Capacity : Accept(n) \/ Deliver(n)

Spec == Init /\ [][Next]_vars

=============================================================================
