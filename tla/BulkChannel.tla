---------------------------- MODULE BulkChannel ----------------------------
(***************************************************************************)
(* The audio channel of src/relay/bulk/bulk_channel.cpp around the ring of *)
(* RingBuffer.tla, with everything that touches it:                        *)
(*                                                                         *)
(*   the engine   calls the sink (receive) on its own audio thread;        *)
(*   the worker   (run) moves bytes from the ring to the host's endpoint;  *)
(*   the host     reads its audio, stalls, or closes its end;              *)
(*   the station  shuts the channel down (disposeBulk, which calls stop).  *)
(*                                                                         *)
(* The engine is external: it obeys sink.hpp, which lets it call the sink  *)
(* until the relay is gone.  The host is external too, and owes nothing.   *)
(***************************************************************************)
EXTENDS RingBuffer

CONSTANTS
  DrainBytes,    \* kDrainBytes: most the worker forwards in one write
  MaxOffered     \* bound of the model: bytes offered over a run

ASSUME BulkAssumption == DrainBytes \in Nat \ {0} /\ DrainBytes \in ReadSizes

VARIABLES
  refused,       \* bytes of the current receive that did not fit, not counted yet
  offered,       \* history: bytes the engine has offered
  dropped,       \* dropped_
  worker,        \* where the worker thread is
  sent,          \* bytes of the chunk the endpoint has taken so far
  forwarded,     \* forwarded_
  arrived,       \* history: the bytes the endpoint took, in order
  host,          \* what the host does with its end
  stopping,      \* stopping_
  seenStopping,  \* what the worker's relaxed load of it returns
  finished,      \* finished_
  station        \* how far the station is in disposing of the channel

sinkVars == <<refused, offered, dropped>>
workerVars == <<worker, sent, forwarded, arrived, finished>>
stationVars == <<stopping, station>>
vars == <<ringVars, sinkVars, workerVars, stationVars, host, seenStopping>>

BulkInit ==
  /\ RingInit
  /\ refused = 0 /\ offered = 0 /\ dropped = 0
  /\ worker = "check" /\ sent = 0 /\ forwarded = 0 /\ arrived = << >>
  /\ host = "reading"
  /\ stopping = FALSE /\ seenStopping = FALSE /\ finished = FALSE
  /\ station = "serving"

-----------------------------------------------------------------------------
(* The engine's thread: BulkChannel::receive. *)

InSink == toWrite > 0 \/ refused > 0

\* A call that offers n bytes: the ring takes what fits, and the rest is
\* refused at once.
Offer(n) ==
  /\ ~ InSink
  /\ station # "freed"
  /\ offered' = offered + n
  /\ refused' = n - Taken(n)
  /\ \/ BeginWrite(n)
     \/ Taken(n) = 0 /\ UNCHANGED ringVars
  /\ UNCHANGED <<dropped, workerVars, stationVars, host, seenStopping>>

EngineCopies == CopyIn /\ UNCHANGED <<sinkVars, workerVars, stationVars, host, seenStopping>>

EnginePublishes ==
  PublishHead /\ UNCHANGED <<sinkVars, workerVars, stationVars, host, seenStopping>>

\* Mutant: the sink waits for the worker to be done with the endpoint.
CountRefusedWaiting ==
  /\ toWrite = 0
  /\ refused > 0
  /\ worker # "send"
  /\ dropped' = dropped + refused
  /\ refused' = 0
  /\ UNCHANGED <<ringVars, offered, workerVars, stationVars, host, seenStopping>>

\* The ring's write has returned short: the difference is counted.
CountRefused ==
  /\ toWrite = 0
  /\ refused > 0
  /\ dropped' = dropped + refused
  /\ refused' = 0
  /\ UNCHANGED <<ringVars, offered, workerVars, stationVars, host, seenStopping>>

-----------------------------------------------------------------------------
(* The worker's thread: BulkChannel::run and markFinished. *)

CheckStopping ==
  /\ worker = "check"
  /\ worker' = IF seenStopping THEN "finish" ELSE "read"
  /\ UNCHANGED <<ringVars, sinkVars, sent, forwarded, arrived, finished,
                 stationVars, host, seenStopping>>

\* Mutant: an empty queue is taken for the end of the audio.
IdleQuits ==
  /\ worker = "read"
  /\ toRead = 0
  /\ Available(DrainBytes) = 0
  /\ worker' = "finish"
  /\ UNCHANGED <<ringVars, sinkVars, sent, forwarded, arrived, finished,
                 stationVars, host, seenStopping>>

\* The queue looks empty: sleep, and look again.
Idle ==
  /\ worker = "read"
  /\ toRead = 0
  /\ Available(DrainBytes) = 0
  /\ worker' = "check"
  /\ UNCHANGED <<ringVars, sinkVars, sent, forwarded, arrived, finished,
                 stationVars, host, seenStopping>>

WorkerReads ==
  /\ worker = "read"
  /\ BeginRead(DrainBytes) \/ CopyOut
  /\ UNCHANGED <<sinkVars, workerVars, stationVars, host, seenStopping>>

\* Mutant: a new chunk goes out from where the last one ended.
WorkerTakesNoReset ==
  /\ worker = "read"
  /\ PublishTail
  /\ worker' = "send"
  /\ UNCHANGED <<sent, sinkVars, forwarded, arrived, finished, stationVars, host, seenStopping>>

\* The ring's read has returned a chunk, which the worker copies.
WorkerTakes ==
  /\ worker = "read"
  /\ PublishTail
  /\ worker' = "send"
  /\ sent' = 0
  /\ UNCHANGED <<sinkVars, forwarded, arrived, finished, stationVars, host, seenStopping>>

\* The endpoint's write makes progress while the host reads; otherwise the
\* worker is blocked in it.  Progress is by byte: a write may be cut anywhere.
Send ==
  /\ worker = "send"
  /\ host = "reading"
  /\ sent < Len(out)
  /\ arrived' = Append(arrived, out[sent + 1])
  /\ sent' = sent + 1
  /\ UNCHANGED <<ringVars, sinkVars, worker, forwarded, finished, stationVars,
                 host, seenStopping>>

\* Mutant: the bytes count as forwarded even if the host was gone.
SendReturnsBlind ==
  /\ worker = "send"
  /\ sent = Len(out) \/ host = "gone"
  /\ worker' = "count"
  /\ UNCHANGED <<ringVars, sinkVars, sent, forwarded, arrived, finished,
                 stationVars, host, seenStopping>>

\* The write has returned true.
SendReturns ==
  /\ worker = "send"
  /\ sent = Len(out)
  /\ worker' = "count"
  /\ UNCHANGED <<ringVars, sinkVars, sent, forwarded, arrived, finished,
                 stationVars, host, seenStopping>>

\* The host has closed its end and the write returns false, whatever part of
\* the chunk had gone out: the worker leaves its loop.
SendFails ==
  /\ worker = "send"
  /\ host = "gone"
  /\ sent < Len(out)
  /\ worker' = "finish"
  /\ UNCHANGED <<ringVars, sinkVars, sent, forwarded, arrived, finished,
                 stationVars, host, seenStopping>>

CountForwarded ==
  /\ worker = "count"
  /\ forwarded' = forwarded + Len(out)
  /\ worker' = "check"
  /\ UNCHANGED <<ringVars, sinkVars, sent, arrived, finished, stationVars,
                 host, seenStopping>>

\* markFinished: the flag under the mutex, then the notification, which is
\* still a use of the channel.
Finish ==
  /\ worker = "finish"
  /\ finished' = TRUE
  /\ worker' = "notify"
  /\ UNCHANGED <<ringVars, sinkVars, sent, forwarded, arrived, stationVars,
                 host, seenStopping>>

Exit ==
  /\ worker = "notify"
  /\ worker' = "exited"
  /\ UNCHANGED <<ringVars, sinkVars, sent, forwarded, arrived, finished,
                 stationVars, host, seenStopping>>

-----------------------------------------------------------------------------
(* The station's thread: disposeBulk and BulkChannel::stop. *)

\* Mutant: stopping empties the queue as well, from a third thread.
StopFlushing ==
  /\ station = "serving"
  /\ stopping' = TRUE
  /\ station' = "waiting"
  /\ tail' = head /\ drained' = accepted
  /\ UNCHANGED <<storage, producerVars, seenTail, toRead, out, received, sinkVars,
                 workerVars, host, seenStopping>>

\* stop asks the worker to end, and waits.
Stop ==
  /\ station = "serving"
  /\ stopping' = TRUE
  /\ station' = "waiting"
  /\ UNCHANGED <<ringVars, sinkVars, workerVars, host, seenStopping>>

\* The wait for the worker's flag ends well.
WorkerFinished ==
  /\ station = "waiting"
  /\ finished
  /\ station' = "joining"
  /\ UNCHANGED <<ringVars, sinkVars, workerVars, stopping, host, seenStopping>>

\* Mutant: the wait has no time limit unless the host is gone.
GiveUpWhenGone ==
  /\ station = "waiting"
  /\ ~ finished
  /\ host = "gone"
  /\ station' = "released"
  /\ UNCHANGED <<ringVars, sinkVars, workerVars, stopping, host, seenStopping>>

\* kStopGrace has passed without it: the thread is detached and the channel
\* released, never freed.  How long the worker needs is not bounded, so this
\* may come at any time.
GiveUp ==
  /\ station = "waiting"
  /\ ~ finished
  /\ station' = "released"
  /\ UNCHANGED <<ringVars, sinkVars, workerVars, stopping, host, seenStopping>>

\* Mutant: finished_ is taken for the end of the thread, which is not joined.
FreeUnjoined ==
  /\ station = "joining"
  /\ station' = "freed"
  /\ UNCHANGED <<ringVars, sinkVars, workerVars, stopping, host, seenStopping>>

\* join returns once the thread has ended, stop returns true, and the caller
\* frees the channel.
Free ==
  /\ station = "joining"
  /\ worker = "exited"
  /\ station' = "freed"
  /\ UNCHANGED <<ringVars, sinkVars, workerVars, stopping, host, seenStopping>>

-----------------------------------------------------------------------------
(* The host, and the visibility of relaxed and release stores. *)

HostStalls ==
  /\ host = "reading"
  /\ host' = "stalled"
  /\ UNCHANGED <<ringVars, sinkVars, workerVars, stationVars, seenStopping>>

HostResumes ==
  /\ host = "stalled"
  /\ host' = "reading"
  /\ UNCHANGED <<ringVars, sinkVars, workerVars, stationVars, seenStopping>>

HostLeaves ==
  /\ host # "gone"
  /\ host' = "gone"
  /\ UNCHANGED <<ringVars, sinkVars, workerVars, stationVars, seenStopping>>

SeeStopping ==
  /\ seenStopping # stopping
  /\ seenStopping' = stopping
  /\ UNCHANGED <<ringVars, sinkVars, workerVars, stationVars, host>>

SeeIndex ==
  /\ SeeHead \/ SeeTail
  /\ UNCHANGED <<sinkVars, workerVars, stationVars, host, seenStopping>>

-----------------------------------------------------------------------------

Engine ==
  \/ \E n \in OfferSizes : /\ offered + n =< MaxOffered
                           /\ accepted + n =< MaxBytes
                           /\ Offer(n)
  \/ EngineCopies
  \/ EnginePublishes
  \/ CountRefused

Worker ==
  \/ CheckStopping \/ Idle \/ WorkerReads \/ WorkerTakes
  \/ Send \/ SendReturns \/ SendFails \/ CountForwarded
  \/ Finish \/ Exit

Station == Stop \/ WorkerFinished \/ GiveUp \/ Free

Host == HostStalls \/ HostResumes \/ HostLeaves

BulkNext == Engine \/ Worker \/ Station \/ Host \/ SeeStopping \/ SeeIndex

\* A call into the sink runs to its end: the engine's audio thread is not
\* stopped inside it.  Nothing else is assumed of any thread.
EngineFairness == WF_vars(EngineCopies \/ EnginePublishes \/ CountRefused)

\* The operating system runs the worker and the station, a timed wait ends, and
\* the hardware makes every store visible.  The station need not ever stop the
\* channel, and the host owes nothing.
ThreadFairness ==
  /\ WF_vars(Worker)
  /\ WF_vars(WorkerFinished \/ GiveUp \/ Free)
  /\ WF_vars(SeeStopping)
  /\ WF_vars(SeeIndex)

BulkSpec == BulkInit /\ [][BulkNext]_vars /\ EngineFairness /\ ThreadFairness

-----------------------------------------------------------------------------
(* Properties. *)

\* The type invariant.  0 being the filler, a chunk in the worker's buffer holds
\* only bytes that the ring has accepted (bulk_channel.cpp:64).
BulkTypeOK ==
  /\ RingTypeOK
  /\ out \in Seq(1 .. accepted)
  /\ refused \in Nat /\ offered \in Nat /\ dropped \in Nat
  /\ worker \in {"check", "read", "send", "count", "finish", "notify", "exited"}
  /\ sent \in Nat /\ forwarded \in Nat /\ arrived \in Seq(Nat)
  /\ host \in {"reading", "stalled", "gone"}
  /\ stopping \in BOOLEAN /\ seenStopping \in BOOLEAN /\ finished \in BOOLEAN
  /\ station \in {"serving", "waiting", "joining", "freed", "released"}

\* Bytes the worker has taken from the ring that are not counted as forwarded:
\* the chunk in hand, or the one a failed write left behind.
InHand ==
  IF worker \in {"send", "count"} \/ (worker \in {"finish", "notify", "exited"} /\ sent < Len(out))
  THEN Len(out) ELSE 0

\* The host's audio is the engine's, byte for byte from the first accepted one:
\* whatever it loses is refused at the sink or cut off at the end, never a hole
\* or a repeat in the middle, across stalls, short writes and the shutdown.
HostHearsInOrder == \A i \in 1 .. Len(arrived) : arrived[i] = i

\* The two counters DIAG_REPLY shows account for every byte offered: what is in
\* neither is queued, in the sink call in progress, or in the worker's hand
\* (after a failed write it stays there: the bytes are not reported at all).
Ledger ==
  /\ offered = dropped + refused + toWrite + accepted
  /\ drained = forwarded + InHand
  /\ forwarded =< Len(arrived)

\* bulk_channel.hpp: memory the worker may still touch is not freed.
FreedAfterWorker == station = "freed" => worker = "exited"

\* The channel's ring is used as RingBuffer.tla allows and no other way.
UsesRing == RingSpec

\* sink.hpp: the sink never blocks the engine, also while the worker is stuck in
\* a write to a host that has stopped reading.
SinkReturns == InSink ~> ~ InSink

\* Shutting the station down ends however the host behaves, also if it has
\* stopped reading in the middle of a write.
StopEnds == (station = "waiting") ~> (station \in {"freed", "released"})

\* While a host reads and the channel is not being stopped, everything queued
\* gets through: the worker does not fall asleep on a full queue.
AudioFlows ==
  <>[](host = "reading" /\ station = "serving") => <>[](forwarded = accepted)

=============================================================================
