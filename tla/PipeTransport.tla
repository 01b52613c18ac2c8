---------------------------- MODULE PipeTransport ----------------------------
(***************************************************************************)
(* The named pipe from both ends: the station's NamedPipeTransport         *)
(* (src/relay/transport/named_pipe_transport.cpp) as main and its session  *)
(* use it, and the host's (lib/src/relay/transports/                       *)
(* named_pipe_transport.dart), whose reading is done by a worker isolate   *)
(* that polls the pipe and posts what it finds to the host's isolate.      *)
(*                                                                         *)
(* The pipe is the operating system's: a buffer of limited size each way,  *)
(* closed by either end.  What one end has written outlives a closed       *)
(* handle but not a disconnection, and calls on one handle that was opened *)
(* for synchronous use, as the host's is, exclude each other.  The bytes   *)
(* the station writes are numbered; those of the host are only counted.    *)
(***************************************************************************)
EXTENDS Integers, SequencesExt

CONSTANTS
  MaxRequests,   \* bound of the model: requests over a session
  Ahead,         \* how many requests the host sends before it has the replies
  RequestSize, ReplySize,
  Capacity,      \* of the pipe's buffers, and of one read: kMaxIoChunk
  None           \* no handle yet

ASSUME PipeAssumption ==
  /\ {MaxRequests, Ahead} \subseteq Nat
  /\ {RequestSize, ReplySize, Capacity} \subseteq Nat \ {0}
  /\ None \notin {"open", "closed"}

VARIABLES
  handle,        \* _handle: None, "open" or "closed"
  closed,        \* _closed
  closeCalled,   \* history: the host has called close
  sending,       \* bytes the WriteFile in progress still has to write
  requests,      \* history: how many requests the host has sent
  port,          \* messages to the host's isolate: chunks, or End
  heard,         \* history: the bytes added to the controller
  done,          \* controller.isClosed
  worker,        \* the read loop: "peek", "read", "finally", "stopped"
  wanted,        \* its wanted
  killed,        \* the isolate has been told to stop
  server,        \* pipe_: "created", "serving", "flushing", "gone"
  toStation,     \* bytes in the pipe
  toHost,        \* bytes in the pipe, by number
  got,           \* bytes the station has read
  pending,       \* bytes of a reply still to be written
  written        \* bytes the station has written

hostVars == <<handle, closed, closeCalled, sending, requests>>
streamVars == <<port, heard, done>>
workerVars == <<worker, wanted, killed>>
stationVars == <<server, got, pending, written>>
pipeVars == <<toStation, toHost>>
vars == <<hostVars, streamVars, workerVars, stationVars, pipeVars>>

\* Both the null at the end of the read loop and the message of its exit.
End == << >>

PipeInit ==
  /\ handle = None /\ closed = FALSE /\ closeCalled = FALSE /\ sending = 0 /\ requests = 0
  /\ port = << >> /\ heard = << >> /\ done = FALSE
  /\ worker = "stopped" /\ wanted = 0 /\ killed = FALSE
  /\ server = "created" /\ got = 0 /\ pending = 0 /\ written = 0
  /\ toStation = 0 /\ toHost = << >>

HostThere == handle = "open"
StationThere == server # "gone"

-----------------------------------------------------------------------------
(* The host's isolate.  A WriteFile that finds no room blocks it. *)

Connect ==
  /\ handle = None /\ server = "created"
  /\ handle' = "open"
  /\ worker' = "peek"
  /\ UNCHANGED <<closed, closeCalled, sending, requests, streamVars, wanted, killed,
                 stationVars, pipeVars>>

Send ==
  /\ HostThere /\ ~ closed /\ sending = 0
  /\ requests < MaxRequests /\ (requests + 1 - Ahead) * ReplySize =< Len(heard)
  /\ sending' = RequestSize
  /\ requests' = requests + 1
  /\ UNCHANGED <<handle, closed, closeCalled, streamVars, workerVars, stationVars, pipeVars>>

WriteOn ==
  /\ sending > 0 /\ StationThere /\ toStation < Capacity
  /\ toStation' = toStation + 1
  /\ sending' = sending - 1
  /\ UNCHANGED <<handle, closed, closeCalled, requests, streamVars, workerVars, stationVars,
                 toHost>>

\* A write that fails marks the transport as closed.
WriteFails ==
  /\ sending > 0 /\ ~ StationThere
  /\ sending' = 0
  /\ closed' = TRUE
  /\ UNCHANGED <<handle, closeCalled, requests, streamVars, workerVars, stationVars, pipeVars>>

\* A message from the worker, or of its exit.
Hear ==
  /\ sending = 0 /\ port # << >>
  /\ port' = Tail(port)
  /\ IF Head(port) = End THEN done' = TRUE /\ UNCHANGED heard
     ELSE heard' = heard \o Head(port) /\ UNCHANGED done
  /\ UNCHANGED <<hostVars, workerVars, stationVars, pipeVars>>

\* close: nothing more on a transport that is marked as closed; otherwise the
\* worker is told to stop, and the handle is closed without waiting for it.
Close ==
  /\ handle # None /\ sending = 0 /\ ~ closeCalled
  /\ closeCalled' = TRUE
  /\ IF closed THEN UNCHANGED <<closed, killed, handle>>
     ELSE closed' = TRUE /\ killed' = TRUE /\ handle' = "closed"
  /\ UNCHANGED <<sending, requests, streamVars, worker, wanted, stationVars, pipeVars>>

-----------------------------------------------------------------------------
(* The worker.  It cannot use the handle while the host's isolate is in     *)
(* WriteFile; while nothing is waiting it sleeps and asks again.            *)

Readable == toHost # << >>

\* Mutant: a question that fails is asked again.
PeekOn ==
  /\ worker = "peek" /\ sending = 0
  /\ HostThere /\ Readable
  /\ worker' = "read"
  /\ wanted' = Min({Len(toHost), Capacity})
  /\ UNCHANGED <<hostVars, streamVars, killed, stationVars, pipeVars>>

Peek ==
  /\ worker = "peek" /\ sending = 0
  /\ \/ /\ ~ HostThere \/ (~ StationThere /\ ~ Readable)
        /\ worker' = "finally"
        /\ UNCHANGED wanted
     \/ /\ HostThere /\ Readable
        /\ worker' = "read"
        /\ wanted' = Min({Len(toHost), Capacity})
  /\ UNCHANGED <<hostVars, streamVars, killed, stationVars, pipeVars>>

ReadWaiting ==
  /\ worker = "read" /\ sending = 0
  /\ IF HostThere /\ Readable
     THEN /\ port' = Append(port, SubSeq(toHost, 1, wanted))
          /\ toHost' = SubSeq(toHost, wanted + 1, Len(toHost))
          /\ worker' = "peek"
     ELSE /\ worker' = "finally"
          /\ UNCHANGED <<port, toHost>>
  /\ UNCHANGED <<hostVars, heard, done, wanted, killed, stationVars, toStation>>

Finally ==
  /\ worker = "finally"
  /\ worker' = "stopped"
  /\ port' = port \o <<End, End>>
  /\ UNCHANGED <<hostVars, heard, done, wanted, killed, stationVars, pipeVars>>

\* Isolate.kill takes effect between any two steps of the loop; only the exit
\* is reported then.
KillTakesEffect ==
  /\ killed /\ worker # "stopped"
  /\ worker' = "stopped"
  /\ port' = Append(port, End)
  /\ UNCHANGED <<hostVars, heard, done, wanted, killed, stationVars, pipeVars>>

-----------------------------------------------------------------------------
(* The station: acceptOne, then main's loop of reading, handling and        *)
(* writing, then the destructor.                                            *)

\* A host that has come and gone before this makes ConnectNamedPipe fail.
AcceptOne ==
  /\ server = "created" /\ handle # None
  /\ server' = IF HostThere THEN "serving" ELSE "flushing"
  /\ UNCHANGED <<hostVars, streamVars, workerVars, got, pending, written, pipeVars>>

\* Mutant: the first bytes of a request are answered.
ReadAnswering ==
  /\ server = "serving" /\ pending = 0
  /\ \/ \E n \in 1 .. Min({toStation, Capacity}) :
          /\ toStation' = toStation - n
          /\ got' = got + n
          /\ pending' = ReplySize
          /\ UNCHANGED server
     \/ /\ toStation = 0 /\ ~ HostThere
        /\ server' = "flushing"
        /\ UNCHANGED <<toStation, got, pending>>
  /\ UNCHANGED <<hostVars, streamVars, workerVars, written, toHost>>

\* read returns what there is, and 0 when there is nothing more and the host
\* has gone, which ends the loop.  Every whole request is owed a reply.
Read ==
  /\ server = "serving" /\ pending = 0
  /\ \/ \E n \in 1 .. Min({toStation, Capacity}) :
          /\ toStation' = toStation - n
          /\ got' = got + n
          /\ pending' = ReplySize * ((got + n) \div RequestSize - got \div RequestSize)
          /\ UNCHANGED server
     \/ /\ toStation = 0 /\ ~ HostThere
        /\ server' = "flushing"
        /\ UNCHANGED <<toStation, got, pending>>
  /\ UNCHANGED <<hostVars, streamVars, workerVars, written, toHost>>

\* write: as much as there is room for at a time; it gives up when the host has
\* gone, which the session does not look at.
Write ==
  /\ server = "serving" /\ pending > 0
  /\ \/ /\ HostThere /\ Len(toHost) < Capacity
        /\ toHost' = Append(toHost, written + 1)
        /\ written' = written + 1
        /\ pending' = pending - 1
     \/ /\ ~ HostThere
        /\ pending' = 0
        /\ UNCHANGED <<toHost, written>>
  /\ UNCHANGED <<hostVars, streamVars, workerVars, server, got, toStation>>

\* The session ends with a reply, or in a violation.
LeaveLoop ==
  /\ server = "serving" /\ pending = 0
  /\ server' = "flushing"
  /\ UNCHANGED <<hostVars, streamVars, workerVars, got, pending, written, pipeVars>>

\* Mutant: no FlushFileBuffers.
DisconnectAtOnce ==
  /\ server = "flushing"
  /\ server' = "gone"
  /\ toHost' = << >>
  /\ UNCHANGED <<hostVars, streamVars, workerVars, got, pending, written, toStation>>

\* The destructor: FlushFileBuffers returns when the host has read everything,
\* or has gone; DisconnectNamedPipe throws away what is unread.
Disconnect ==
  /\ server = "flushing"
  /\ toHost = << >> \/ ~ HostThere
  /\ server' = "gone"
  /\ toHost' = << >>
  /\ UNCHANGED <<hostVars, streamVars, workerVars, got, pending, written, toStation>>

\* The station's process ends anywhere, which closes its handle and no more.
Crash ==
  /\ StationThere
  /\ server' = "gone"
  /\ UNCHANGED <<hostVars, streamVars, workerVars, got, pending, written, pipeVars>>

-----------------------------------------------------------------------------

HostCalls == Connect \/ Send \/ Close
HostRuns == WriteOn \/ WriteFails \/ Hear
Worker == Peek \/ ReadWaiting \/ Finally \/ KillTakesEffect
StationRuns == AcceptOne \/ Read \/ Write \/ Disconnect

PipeNext == HostCalls \/ HostRuns \/ Worker \/ StationRuns \/ LeaveLoop \/ Crash

\* Isolates and processes are scheduled, and system calls that can return do.
\* Nobody has to connect, send, close, end a session or crash.
PipeFairness == WF_vars(HostRuns) /\ WF_vars(Worker) /\ WF_vars(StationRuns)

PipeSpec == PipeInit /\ [][PipeNext]_vars /\ PipeFairness

-----------------------------------------------------------------------------
(* Properties *)

\* The host hears what the station wrote, in order; its stream ends only when
\* the station has gone or the host has closed it; and unless the host has, it
\* has by then heard everything that was written, also when the station left
\* right after writing or crashed (named_pipe_transport.cpp:26, .dart:200-225).
HeardInOrder ==
  /\ heard = [i \in 1 .. Len(heard) |-> i]
  /\ done /\ ~ killed => server = "gone" /\ Len(heard) = written

\* The departure of either end is noticed by the other: the host's stream ends,
\* the station leaves.  A close stops the worker, also one that does nothing
\* because a send has failed: then the worker's own peek fails
\* (named_pipe_transport.dart:196-208, 308-327, .cpp:84-97).
DepartureNoticed ==
  /\ (server = "gone" /\ handle # None) ~> done
  /\ (handle = "closed") ~> (server = "gone")
  /\ closeCalled ~> (worker = "stopped")

\* With one request at a time, a send ends, whatever the sizes of requests,
\* replies and buffers: the host's isolate is not blocked for good by a station
\* that is itself blocked by the host.
SendEnds == (sending > 0) ~> (sending = 0)

=============================================================================
