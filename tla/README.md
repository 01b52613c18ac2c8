# A verification of the Oak-Barrels relay

Oak-Barrels is a relay between a host program and an audio engine that happens
to be installed on the machine. The host starts a *station* (C++, `src/src/relay`)
and talks to it with a small Dart client (`src/lib/src/relay`) in length-prefixed
frames. The station searches the places the host names, binds an engine with a
profile the host supplies, and passes actions to it; audio comes back from the
engine over a second connection. This directory holds TLA+ models of these
parts, the TLC runs that check them, and TLAPS proofs about them.

Paths below are relative to the repository; `session.cpp:188` is line 188 of
`src/relay/session.cpp` there.

## Inventory

| Part | State | Operations | Talks to |
| --- | --- | --- | --- |
| Ring buffer (`bulk/ring_buffer`) | slots, `head_`, `tail_` (atomics) | `write`, `read`, `size` | one producer thread, one consumer thread |
| Bulk channel (`bulk/bulk_channel`) | ring, worker thread, `stopping_`, `finished_`, two counters, endpoint | `receive` (the sink), `run`, `stop` | engine's thread calls in, worker writes to the host, station stops it |
| Profiles and prober (`probe/profile`, `probe/prober`) | none beyond the bound engine | `parseProfiles`, `bindFirstAvailable`, `bindingFor`, `addressFor` | candidates of the scanner, loader |
| Backends (`backend.hpp`, `discovery/discovery_backend`, `probe/probing_backend`) | `probed_`, `scan_`, `attempt_`, `bulk_`, `nextHandle_`, `liveHandles_` | claims, open, post, set, close, counts | session above, prober and channel below |
| Session (`session`) | `finished_`, `negotiated_`, `revision_`, two diagnostic switches | `handle`, one handler per message | frames from the read loop, backend, replies |
| Station process (`main.cpp`) | endpoints, decoder, exit code | start-up, read loop, destruction | transports, session |
| Frame codec (`protocol/frame`) | `buffer_`, sticky `error_` | `feed`, `next` | read loop |
| JSON (`protocol/json`) | none | `parseDocument`, `dump`, `Value::set`, `asInt` | session, profiles |
| Scanner, module formats (`discovery`) | none beyond the result | `scanForCandidates`, `identifyModuleFormat` | file system |
| Loader (`binding/dynamic_library`) | a module handle | `load`, move, `resolve`, destruction | platform |
| Station transports (`transport`) | descriptors, path | prepare, accept, read, write | operating system |
| Client (`client.dart`, `frame.dart`) | `_waiter`, `_queued`, `_failure`, decoder buffer | one method per request, `shutdown`, `dispose` | a transport, the host's own code |
| Host transports (`transports/*.dart`) | a socket, a process, or a pipe with a worker isolate | `connect`, `send`, `close` | client |

What makes each part correct, and what is hard about it:

- **Ring and channel.** Two threads share memory without a lock, each deciding
  on an index of the other's that may be stale. Bytes arrive in order, once; the
  copies never meet; the engine is never blocked; everything refused is counted;
  the channel can be shut down in bounded time whatever the host does, and its
  memory outlives its worker.
- **Scanner.** A recursion over roots and directories tests one limit at three
  places and another at one. What it opens is what the host's roots give leave to
  see, in a fixed order, and a result that is not marked as truncated leaves
  nothing out.
- **Prober, loader.** Modules are mapped and unmapped while they are tried, and one
  is moved twice on its way into the bound engine. Each is mapped exactly while
  somebody owns it; which engine is bound does not depend on how it was found.
- **Backends, session.** One thread, but any message may come at any time, the
  disk changes between requests, and two lists (profiles that fit, addresses
  that resolved) must agree. What is claimed is true and stays true; the engine
  is only called as its profile declares; errors have no effect; the backend's
  handles are the host's.
- **JSON.** Everything a peer sends goes through one recursive descent with a
  limit on its depth. It accepts exactly the grammar up to that depth, and what
  is written back means the same.
- **Client.** No request identifiers: a reply is matched to a request by order
  alone, across time limits, requests made without waiting, chunks cut anywhere,
  a failing channel and a shutdown. Nobody waits for ever, and replies go to
  those who asked, as far as that can be had.
- **Station process.** Start-up can fail at several places with socket files
  already made; the wrong client may come first; the stream may be cut, broken
  off or malformed anywhere. Whole requests are answered in order, foreign files
  are not touched, and the process ends when its host does.
- **Named pipe.** Four parties share it: the host's isolate, which blocks in its
  writes, a worker isolate that polls for what to read on the same handle, the
  station, and the system's limited buffers. Nothing is lost when either end
  leaves right after writing, either end notices that the other has gone, and
  nobody blocks for good.

## Modules

| Module | Models | Builds on |
| --- | --- | --- |
| `ByteQueue` | what `ring_buffer.hpp` promises: a bounded queue | |
| `RingBuffer` | `ring_buffer.cpp`, step by step | refines `ByteQueue` |
| `BulkChannel` | `bulk_channel.cpp`, its four parties | extends `RingBuffer` |
| `AudioProofs` | theorems about the ring and the channel | `BulkChannel` |
| `Scanner` | `scanner.cpp`, `module_format.cpp`, entry by entry | |
| `Prober` | `profile.cpp`, `prober.cpp`, as functions of what was found | |
| `ProberProofs` | theorems about what the prober's functions return | `Prober` |
| `Binder` | `prober.cpp`, `dynamic_library.cpp`, step by step | extends `Scanner`, `Prober` |
| `BinderProofs` | theorems about the search and the binder | `Binder`, `ProberProofs` |
| `EngineBackend` | the three backends | extends `Prober` |
| `HostView` | what `session.hpp` and `backend.hpp` let a host rely on | |
| `Session` | `session.cpp` over a backend | extends `EngineBackend`, refines `HostView` |
| `SessionProofs` | theorems about the session | `Session`, `ProberProofs` |
| `Json` | `json.cpp`: the parser and the writer, and the grammar | |
| `JsonProofs` | theorems about the parser and the writer | `Json`, `ProberProofs` |
| `RelayClient` | `client.dart`, `frame.dart`, with a transport and a station | |
| `HostStation` | the client over the session | extends `RelayClient`, `Session` |
| `ClientProofs` | theorems about the client, alone and over the session | `HostStation`, `SessionProofs` |
| `Station` | `main.cpp`, `unix_socket_transport.cpp`, `frame.cpp` | |
| `StationProofs` | theorems about the station process | `Station` |
| `PipeTransport` | `named_pipe_transport.cpp`, `named_pipe_transport.dart` | |
| `PipeProofs` | a theorem about the pipe | `PipeTransport` |
| `MC*` | bounds and inputs of the runs | the module of that name; `MCDiscovery` of `Binder`, `MCPipe` of `PipeTransport` |

### How they correspond to the code

**RingBuffer.** A call of `write` is `BeginWrite` (both loads and the decision),
`CopyIn` per byte, `PublishHead` (the store, and the return); `read` is
`BeginRead`, `CopyOut`, `PublishTail`. Each side owns one index and sees the
other through `seenHead`/`seenTail`, which `SeeHead`/`SeeTail` update at any
later time: that covers every staleness an acquire load of a release store
allows. The k-th byte accepted is the number k, so that a loss, a repeat or a
swap shows. A slot's address is computed as by the two `memcpy` runs.

**BulkChannel.** The engine's calls are `Offer` to `CountRefused`; the worker's
loop is `CheckStopping`, `Idle`, `WorkerReads`, `WorkerTakes`, `Send`...,
`Finish` and `Exit` (the flag and the notification are two steps, since the
channel is still in use between them); `disposeBulk` and `stop` are `Stop`,
`WorkerFinished`/`GiveUp` and `Free`. The endpoint takes one byte per step, so
that a write can be cut anywhere; the host may stall, resume or leave.

**Scanner.** The recursion of `walk` is a stack with, for each directory being
walked, what is left of its sorted listing; a step is one turn of the loop over
entries, or of the loop over roots. The three tests of the limit on files are in
`TakeRoot`, `Walk` and `StopShort`, where the code has them. The one inside
`walk` can only be met together with the depth, since its callers have tested
before; it is kept as the code has it. A path is a sequence of numbered names, and
`Sorted` puts each at the place that its rank among the others gives it. A
directory may be one that cannot be read, an entry a link or a socket.
`IdentifyModuleFormat` works on what the checks look at: how many bytes were
read, the magic, where an MZ header points and what is there. Limits are
tested as numbers of files and levels; file names that cannot be converted and
errors in the middle of a listing are left out.

**Binder.** `Load` is a candidate loaded or not, `TryProfile` one profile asked
about with all its symbols, `Discard` and `Destroy` the destructors, `Adopt` the
two moves, `MakeEngine` the constructor of `BoundEngine`, whose two loops are recursive
functions. `mapped` is the
loader's count of references to each file.

**Prober** has no state. A module is whether it loads and what it exports.
Profiles are sequences of bindings `[role, symbol, shape]`, in file order, and
`BindingFor` and `Address` follow the two separate walks of `bindingFor` and of
the constructor.

**EngineBackend.** One set of variables serves the three classes; `Kind` is the
choice `main` makes. `EnsureProbed` is `ensureProbed`/`ensureScanned`: the
search returns any member of `Scans`, once. Handles are numbers modulo
`HandleSpace` (2^32 in the code) and `live` is the list of them, from which a close
removes one that is equal.

**Session.** One action per way a decoded frame can be handled, each the whole
call with its reply. JSON members are what their handler tells apart: a switch is
absent, true, false or of another type; a handle field is any integer, with 0
standing for "no number" too. `AsInt` is the narrowing of a revision number.
The last reply and the last engine call are kept in `reply` and `call`;
`held` is the host's own account.

**Json.** A text is a sequence of symbols: brackets, `:`, `,` and white space by
their names in RFC 8259, and one for each whole string, number or literal.
`ParseValue` is a function of the depth and the position: what `parseValue`
returns there, and where it stops. `Turn` is one turn of the loop of `parseArray`
or `parseObject`, `Turns` the loop, `SetMember` is `Value::set`, `Dump` is
`writeValue`. All of them are recursive functions, so that they can be reasoned
about. `Means` is the reference: it derives values for spans of the text from the
inside out, a list of n items from one of n - 1, with white space between any
two symbols, and knows neither a position to go on from nor an order. It shares
no definition with the parser but the shape of values.

**RelayClient.** A step is one turn of the isolate's event loop. Requests are
numbered, which the protocol does not do, to tell whose reply is whose. Frames
travel in halves, told apart by their place alone, so that a chunk may end inside one. `Decode` returns what
`FrameDecoder.add` returns, keeps and throws: a violation loses the good frames
before it and stays in the buffer. All types of request that check the type of
their reply are "caps"; `post`, `set` and `close` are "post". An exception that
`_onBytes` does not catch is taken not to end the isolate.

**Station.** `at` is where `main` is. Accepting, reading, decoding one frame and
each group of destructors is a step. A frame in the buffer is
its halves;
violations by length show at the header, those by type when the frame is whole.
An endpoint can fail to be made although its path is free (`Prepare`), whatever
the call that failed.
The session is reduced to whether it goes on, and the audio channel to whether
it gives its endpoint back. Socket files know who made them; nobody else is
assumed to remove a file the station made.

**HostStation.** `AskAbout` is a request of the host with one of the handles its
`open` calls returned, `HandleNext` one turn of the station's loop: the request
runs through the handler of `Session` that the code would choose, and its reply
goes back as the client sees it. `answered` keeps what the station did on each
request, beside `answer`, which has whose reply the caller was given.

**PipeTransport.** `Send`, `WriteOn` and `WriteFails` are a call of `send`, whose
`WriteFile` waits for room; `Hear` is a message from the worker; `Close` is
`close`. The worker's loop is `Peek`, `ReadWaiting` and `Finally`, and
`KillTakesEffect` may end it between any two of these. `AcceptOne`, `Read`, `Write`,
`LeaveLoop` and `Disconnect` are the station's end of the pipe under `main` and
the session. The pipe itself is the system's: what is written outlives a closed
handle and does not outlive a disconnection, and two calls on one synchronous
handle exclude each other. Bytes to the host are numbered, bytes to the station
counted.

### Where the modules meet

`BulkChannel` extends `RingBuffer` and is shown to use it only as that module
allows (`UsesRing`), so the ring's theorems hold of the ring inside the channel.
`Session` extends the backend and the prober, so that a request runs through all
three. `bulk` of `EngineBackend` and `channel` of `Station` are the existence of
the channel that `BulkChannel` models from `BulkInit` on; `ReleaseAudio` is its
`GiveUp`, `CloseAudio` its `Free`.

`Binder` runs over the candidates that `Scanner` finds, and its outcome is the one
`Prober` says in an expression (`BindsAsProber`, proved as `BinderFollowsProber`). So the search that is one choice
among `Scans` in the session stands for the walk and the loop.

`Serve` of `RelayClient` is a station in one line: one request, one reply, in
order. `HostStation` puts the session in its place. It is proved to be such a
station (`ServesAsExpected`, by `StationIsAsExpected`), and the session to meet
nothing behind the client that its own specification leaves out
(`SessionBehindClient`). So what is proved of either alone holds of the two
together. What needs both is stated there (`HandlesAreReal`, `HostKnows`) and
proved too.

`PipeTransport` takes the place of what `RelayClient` has for a transport (chunks
of any length, then the end of the stream) and of what `Station` has for a
connection. It shows that the pipe behaves so: bytes in order, all of them
before the end unless the host itself closes.

## Runs

| Run | Bounds | Distinct states |
| --- | --- | --- |
| `ring` | capacity 3, 14 bytes accepted | 2,253 |
| `bulk` | capacity 2, at most 7 bytes offered, chunks of 2 | 127,134 |
| `discovery` | 168 disks of at most 8 entries, 3 lists of roots, 12 pairs of limits, 3 profile files | 185,442 |
| `session` | 5 profile files, 4 outcomes of a search, handles mod 8, 3 opens | 7,358 |
| `json` | all texts of up to 4 symbols out of 10, and those one symbol away from 4 documents, depth limit 2 | 24,418 |
| `client` | 3 requests, 2 at a time, chunks of 3 halves | 107,040 |
| `host_station` | 5 requests, one at a time, chunks of 2 halves, an engine found or not | 1,108,662 |
| `station` | 2 paths, 2 clients, 2 frames, chunks of 3 halves | 296,480 |
| `pipe` | 3 requests of 4 bytes, replies of 3, buffers of 2, one request at a time | 3,693 |

The other three runs use the same modules to show one statement of the
documentation violated each (see *Divergences*).

**ring**: `RingInv` (the inductive invariant), `NoRace` (the copies never touch
one slot), `ImplementsQueue`. Fourteen bytes take the indices more than three
times around four slots, and writes and reads of several sizes make every copy
wrap at every place.

**bulk**: `HostHearsInOrder`, `Ledger`, `FreedAfterWorker`, `UsesRing`, and the
liveness properties `SinkReturns`, `StopEnds`, `AudioFlows`; `BulkTypeOK` has the
types, and that no filler gets into a chunk. Offers of one and
three bytes against a queue of two make it fill, refuse a part, refuse
everything, and wrap; seven bytes are three chunks, so that a failure in one is
followed by another.

**discovery**: `ExaminesInOrder` (what is opened is what may be seen, in order, up
to the limit), `UntruncatedIsComplete`, `BindsAsProber`, `MappedExactly`. The
disks have links out of them, a directory that cannot be read, one too deep, and
modules at the borders of the header that is read. Roots come in either order, one
inside another, and twice. Limits of 0, 1, 2 and 4 files bite at every place
where they are tested.

**session**: `SwitchInv` (types, no identification without diagnostics, no search
unasked), `ClaimsProved`, `EngineCalledAsDeclared`, `HandlesAgree`,
`AnswersStable`, `ErrorsHaveNoEffect`, `ImplementsHostView`. The profile files
include two profiles with different symbols and shapes for one role in both
orders, a profile only some modules satisfy, and an audio role that is no sink.
Three targets, with a fourth number that is never given and two that fit no
handle, are enough to have one open, one closed, one unknown. One offer, of
revision 9, is narrowed to revision 1, as in the code.

**json**: `ParsesGrammar`. Four symbols are enough for every pair of neighbours
inside a container; the documents have containers in containers up to the limit
and beyond it, a name that occurs twice, and white space wherever it may be.

**client**: `ClientInv` (types; nobody is registered to wait beside a reply that is
there, or on a channel that has failed), `RepliesOnceInOrder`,
`PairedUntilTimeout`, `NothingAfterFailure`, `CallsEnd`, `ShutdownEnds`. Three
requests are enough for a late reply to meet the next request and for that one's
to meet the one after. In this run "bye" stands for the requests that do not
check the type of their reply; `client_paired` has "post" as well.

**host_station**: `HandlesAreReal`, `HostKnows`, `ServesAsExpected`. Five requests
are a greeting, two opens, a close and a post; since the requests follow each
other after time-outs as well, replies arrive at the wrong calls in many ways.

**station**: `StationInv` (types; nobody waits for a turn while a session is
served), `HandledInOrder`, `CleanEndIsComplete`, `NeverClobbers`, `ServiceEnds`. Both
endpoints range over two paths and none, so they may have one path each, the same
one, or one that is taken. Two frames are enough for one behind a last one or a
violation, and three halves for a chunk that ends one frame and holds another.

**pipe**: `HeardInOrder`, `DepartureNoticed`, `SendEnds`. Requests and replies are
larger than the buffers, so that both ends block in the middle of either. With
two requests sent ahead of the replies `SendEnds` fails, and so it should: see
below.

`CHECK_DEADLOCK FALSE` is set throughout: a queue at its bound, a session or a
process that is over, has nothing left to do.

### Fairness

- `BulkChannel`: weak fairness of the engine's steps inside a call (its thread is
  not stopped there), of the worker and of the station's wait (threads are
  scheduled, and a timed wait ends), and of the visibility of stores. None for
  offering audio, for the host, or for stopping at all. `GiveUp` may come at any
  time, since 250 ms bound nothing about the worker.
- `RelayClient`: weak fairness of each timer, and of the code after `shutdown`'s
  await. None for the station, for delivery, or for the host's calls.
- `Station`: weak fairness of `main` where it is not blocked. None for clients,
  and none for faults.
- `PipeTransport`: weak fairness of the host's isolate inside a call and for its
  messages, of the worker, and of the station's calls: threads run, and a call that
  can return does. None for connecting, sending, closing, for the session's end
  or for a crash.

`Session`, `RingBuffer`, `Binder`, `Json` and `HostStation` have no liveness of their
own: a session answers in the same step, a ring is driven by others, a search and
a parse are one call each that ends by itself, and what must eventually happen
to a host is stated over the client alone.

## Proofs

All theorems are checked by TLAPS for every value of the constants, under the
assumptions named in the modules, which TLC evaluates in the runs:
`RingAssumption`, `BulkAssumption`, `ScannerAssumption` (a disk is a finite tree,
roots are not empty, limits are natural numbers), `BinderAssumption`,
`BackendAssumption`, `SessionAssumption`, `ClientAssumption`, `HostStationAssumption`
(handles are among the values a handle field may have, and no more requests are
made than there are handles), `StationAssumption`, `PipeAssumption`, `JsonAssumption`
(a string or a number is not a bracket, and nothing in a text is its end).

Some theorems assume `NoWrap` beside, that fewer targets are opened than a handle
has values. After 2^32 opens the counter comes back to 0, which the session takes
for a failure while the backend lists it (`probing_backend.cpp:104`); without
`NoWrap` they are false of the code.

**Ring.** `RingInvariant` proves `[]RingInv`, from which `RingNoRace` and
`RingFirstInFirstOut` follow. `RingInv` has four parts: types, `IndicesAgree`,
`BytesInPlace`, `FirstInFirstOut`. That reads are in order is not inductive
alone: it needs that every queued byte lies in its slot; that needs the copies in
progress to stay off each other's slots; and that needs the order of the four
indices around the array, each view no further than the index it shows. The
lemmas on `SlotAt` and `Gap` carry the modular arithmetic, so that the steps for
the actions need none. `RingIsQueue` is the refinement: under the mapping the
queue is what lies between the published indices, so publishing an index is
the abstract step, and all others stutter.

**Channel.** `ChannelUsesRing` shows every step of the channel to be a step of the
ring or none, which brings `RingInv` in, and `ImplementsQueue` with it
(`ChannelIsQueue`). `HostHearsEngine` uses `Delivery`: what has arrived is what was
received up to the chunk in hand plus what has gone out of that. From the same
invariant comes `ChannelTypes`: no counter goes below zero, and a chunk holds
accepted bytes only, numbers from 1 to `accepted`, since it is never longer than
what has been drained, or may be (`ChunkIsAccepted`). `EveryByteAccounted` adds `SinkLedger` for the engine's side.
`NeverFreedUnderWorker` needs neither: only a worker that has left lets the
station past its join.

**Prober.** `BindsWhatIsProved` says of `BindFirstAvailable` that what it binds loads
and satisfies the profiles it is bound with; `AddressMatchesBinding` that in an
engine whose profiles are all satisfied the two walks of the prober end at the
same binding. The functions are recursive over the natural numbers, so the proofs
first show that there is such a function (`RecursionToN`), since its definition is a
`CHOOSE`, and then argue by a least counterexample (`LeastNumber`, `InductionToN`),
which the library's well-founded induction gives as a statement about sets.

**Session.** `SessionInv` is `SwitchInv` (the switches), `HandleInv` (the
backend's list is the host's, and the next number is beyond all of it) and
`EngineIsFound` (nothing is bound before the search). From it follow `SwitchesHold`,
`StableAnswers`, and under `NoWrap` `TargetsAgree`, `HarmlessErrors` and
`SessionImplementsHostView`. `ClaimInv` adds `EngineBinds` (the bound engine is
what the prober made of some outcome of the scan) and `ReportAgrees`; with the two
theorems about the prober it gives `ClaimsHold` and `CallsAreDeclared`, under
`NoWrap` too, since what is called for a target depends on its being listed.

**Binder.** `ModulesMappedExactly` uses `BinderInv`: beside `MappedExactly` it says
that the loop's local and the attempt own a module in turns, each only at its
own stages (`OwnersTakeTurns`), without which giving one up might leave
another mapped. `BinderFollowsProber` takes `BindingInv`: at each turn of the loop
all candidates before it either did not load or satisfied nothing, the profiles
kept so far are those of the ones asked about that the module satisfies, and
`loaded` counts just what was loaded (`LoopInv`). That the constructor's two nested
loops give a role the address `Address` gives it is a statement about places in
the list of profiles: both return the first place that resolves
(`FirstResolved`).

**Search.** `SearchInOrder` and `SearchComplete` relate a walk by a stack to what a
host can say of the outcome: the reachable files, sorted. The order of paths is
shown to be a strict total order on sequences of numbers (`Sorts`, with `LeftOf` for
paths of which neither leads through the other), and a sorted listing of a finite
set to be the only one, which begins with any ordered listing that leaves out only
what sorts behind it (`OrderedUnique`, `OrderedBegins`). `SearchInv` then says of a root being walked:
the directories on the stack are one inside the other, each with its entries still
to do in order (`Framed`); the files found are in order, all before everything
pending; and each file allowed that is not found lies below something pending
(`Found`). What has been examined is therefore always a prefix of the listing, and
all of it when nothing is pending. Once the limit is reached and marked, the walk
returns through its callers, of whose stacks nothing is known any more nor needed:
that is the other case of the invariant. A file too deep is only passed over by a
call that marks the result, so an unmarked one has them all (`AllAllowed`).

**Client.** `ClientInvHolds` uses `ClientTypes` and `WaiterInv`. That nobody is
registered beside a queued reply has to hold in every state of the loop, whatever
a chunk contains, so the proof needs nothing of the decoder.
`FailureIsFinal` follows: with nobody registered, a chunk that is still decoded
finds no one to give a reply to. `RepliesHandedOutOnce` puts all that is between
the station's input and the callers in one line: replies given out, replies
queued, frames in the decoder and on the way, requests not yet served. The numbers
in it rise (`OrderInv`), and every step takes from the front, adds to the end, or
moves a frame from one part to the next. `PairInv` says of the line that, as long
as nobody has given up or been replaced, all that is in it is for the request waiting,
which gives `PromptCallsArePaired`. Both are part of `RepliesInv`.

**Client and session.** `HostStationInv` joins the client's invariants to those of
the session and follows a handle: the reply a call was given is one the station made
(`WireGenuine`, `AnswersGenuine`), an `OPEN_ACK` among them has the handle of a target
opened then, no two the same (`AcksDistinct`), and so the next request with that
handle is one the session allows. From it come `SessionBehindClient` and
`HandlesGivenAreReal`, under `NoWrap`; `StationIsAsExpected` needs only the client's part
and no such assumption. `HostKnowsAlways` strengthens it
to `KnowsInv`: from the type of a reply the host can tell what the station did on
the request (`WireTells`, `OutcomesTell`), and the backend's list is what has been
opened and not closed by those requests (`ListedExactly`).

**Station process.** `StationIInv` has ten parts. `ListenersInv` and `FilesInv`
give `StationInvHolds` and `ForeignFilesKept`: an endpoint that was made has its
own path, with the station's file there until the destructor has run, so that
an unlink meets no other's. `FlowInv` says that the halves in the buffer and in the
stream are those of the frames behind the handled ones, in order and without a
gap; reading moves them, handling takes two off the front, sending appends.
With `PhaseInv` (what the buffer holds and how the session stands at each place of
`main`), `LastInv` and `EndInv` it gives `FramesInOrder` and `CleanEndComplete`.

**Pipe.** `HeardAlways` uses `PipeInv`: some positions cut the bytes the station has
written into what was heard, what lies in the messages to the host's isolate
and what waits in the pipe (`Laid`), without a gap until something is thrown away;
and the end of the stream is behind all of them, said only by a worker that found
the pipe broken and empty.

**JSON.** `ParserIsGrammar` compares two tables, from the limit on depth up: what
parses at each position, and the spans the grammar derives, each of which begins
where exactly its value parses (`Agrees`, `ParserAgrees`). One level is
`DepthAgrees`. For that turn n of a loop is compared with the lists of n items that
begin where the loop did: every such list is what the loop has after n turns
(`ListsParsed`), and a loop that has not failed has one (`TurnsListed`), so it
ends behind the bracket that ends the container (`LoopEnds`). Since the table has
one entry for a position, no text means two values. That white space is skipped
to the one place where a separator can stand is `Separation` and `Separated`; that
`Value::set`, member by member, leaves what `Merge` says of all members at once
is `MergeStep`: the first of each name by rank, the last by value. `ReadsBack` goes
the other way, also by levels: what a part is written as is derived as that part
wherever it stands in a longer text (`SpansShift`), parts with commas between them are
a list (`WrittenList`), and a list between brackets is a container
(`WrittenContainer`); an object has no name twice, so merging leaves it alone
(`MergeDistinct`). What the parser returns is such a value (`SpansInValues`), which
gives `ParserFollowsGrammar`. Each recursive function is first shown to satisfy its
defining equation (`TurnsFacts` to `WithCommasFacts`). The induction is over
depths and turns, numbers below a bound; no text or value is argued about by its
structure.

**Model-checked only.** Liveness under fairness (`SinkReturns`, `StopEnds`,
`AudioFlows`, `CallsEnd`, `ShutdownEnds`, `ServiceEnds`, `DepartureNoticed`,
`SendEnds`), for which the prover would need `ENABLED`. Every other property of a
passing run is stated by a theorem, `AnswersStable` and the other action
properties included.

## Divergences

Each has a run that shows it; `PROJECT.json` has the quotations.

- `client_paired`: the reply to a request that timed out is given to the next
  one, and so on from then.
- `station_paths`: a station on standard streams dies of SIGPIPE when its host
  goes first, and leaves its audio socket file. A channel that does not stop in
  time has the same effect on the file.
- `station_declining`: a station waiting for its audio connection does not
  notice that its host has gone.

Noted while modelling, without a run:

- The audio class is offered for as long as the channel exists, also after its
  worker has ended (`probing_backend.cpp:62`), where `bulk_channel.hpp:12` has it
  offered while the channel is running.
- `{"identify": false}` alone gets a report out of a station whose diagnostics are
  off (`session.cpp:351`), where `RELAY_PROTOCOL.md:307` asks for an opt-in; it does
  not switch identification off either (`session.cpp:343`).
- A revision number is narrowed to `int` before it is compared
  (`session.cpp:188`), so 4294967297 offers revision 1 (`RELAY_PROTOCOL.md:140`). A
  number beyond 64 bits is converted all the same (`json.cpp:418`), which C++
  leaves undefined; handles are checked for their range behind that
  (`session.cpp:47`), revisions are not.
- A payload that is not UTF-8 is thrown past the client's handler
  (`frame.dart:175`): the session does not fail, and each later chunk throws again.
- `NO_ENGINE` also answers where candidates were found and none fits, which the
  protocol calls `INCOMPATIBLE_ENGINE` (`probing_backend.cpp:97`).
- A profile may call its own class `engine.bulk.pcm` (`probing_backend.cpp:61`), and
  the count of resolved symbols is one of roles (`prober.hpp:49`).
- A scan may be marked as truncated although nothing was left out: the limit was
  met with only links behind it, or a directory too deep is empty. Roots that
  overlap have their files examined, and offered, twice.
- The client does not keep callers from having two requests outstanding
  (`client.dart:155`). Over the named pipe that can block both ends for good: the
  host's isolate waits in `WriteFile` for a station that waits for room for its
  reply, and the worker that would make room cannot use the handle meanwhile.
  With `Ahead = 2` TLC shows it as a violation of `SendEnds`.
- After a send has failed, `close` returns at once (`named_pipe_transport.dart:310`):
  the worker finds the pipe broken and ends, but the handle and the two receive
  ports are never released, which `transport.dart:31` says a close does. In an
  ordinary close the worker is told to stop and the handle is closed without
  waiting for that, unlike the comment beside it says.
- The exit code is 0 after a fatal greeting and after half a frame
  (`main.cpp:275`).
- The engine may be inside the sink when the channel is freed, which only its own
  contract rules out (`probing_backend.cpp:22`, `sink.hpp:29`).
- The station unlinks its path at the end without looking whose file is there by
  then (`unix_socket_transport.cpp:36`).

## Not modelled

- What is inside JSON strings, numbers and literals: escapes, code points, the
  conversion of numbers, and the comparison of values.
- Parsing of profile files beyond what it lets through (`WellFormed`).
- What the loader and the system's calls do inside, wide strings, the syntax of
  options, and all that is only reported: feature strings, the transcript,
  `max_candidates`.
- The host's socket and process transports, which pass on what `dart:io` does.
- A reply that blocks the station because a host that is still there does not
  read: `HandleFrame` of `Station` always finishes. `ServiceEnds` is about a host that
  has gone; over the pipe the block is modelled (`PipeTransport`).
- That the worker isolate's messages and its exit reach the host's isolate by two
  ports, and what is added to a controller that is closed
  (`named_pipe_transport.dart:280`): `Hear` takes both from one queue.
- An error in the middle of a listing (`scanner.cpp:48`), which empties the listing,
  as a directory that cannot be read does.
- Build files, release workflows, the reference host and the tests.

## Plan

Done, in this order: the ring with its abstract queue and proofs; the channel with
its proofs; prober, backend and session with `HostView` and proofs; the client;
the station process; scanner and binder with the proof of what is mapped;
`HostStation`; `PipeTransport`; `Json`; the proofs about the station process and
the client; the proofs that the ring is its abstract queue, of what the session
claims and calls, of the order of replies, of the client over the session, of
the pipe, of the binder against the prober, of the search, and of the JSON parser
and writer against the grammar.

To come:

1. The scalars of JSON, over the characters that tell them apart.
2. The parser of profile files, against `WellFormed`.
3. What the client and the pipe promise of each other, as one composition: the
   pipe in the place of the client's transport.
