---------------------------- MODULE EngineBackend ----------------------------
(***************************************************************************)
(* The three implementations of the interface src/relay/backend.hpp that a *)
(* session talks to, chosen once by main: NullBackend when the host        *)
(* nominated no place to search, DiscoveryBackend when it gave places but  *)
(* no profiles, ProbingBackend when it gave both.                          *)
(*                                                                         *)
(* Nothing is looked for until a request needs the answer; then the search *)
(* runs once and its outcome is kept.  What it finds is whatever is on the *)
(* disk at that moment, so it is any member of Scans.                      *)
(***************************************************************************)
EXTENDS Prober, FiniteSetsExt

CONSTANTS
  ProfileFiles,    \* the profile files a host may pass; << >>: none
  Scans,           \* what a search may find
  BulkClass,       \* kBulkCapabilityClass
  HandleSpace      \* numbers a handle variable can hold: 2^32 in the code

ASSUME BackendAssumption ==
  /\ ProfileFiles \subseteq Seq(Profile)
  /\ \A file \in ProfileFiles : \A i \in DOMAIN file : WellFormed(file[i])
  /\ \A found \in Scans : found.candidates \in Seq(Image)
  /\ HandleSpace \in Nat /\ HandleSpace > 1

VARIABLES
  rooted,          \* the host nominated places to search
  profiles,        \* profiles_
  audioEndpoint,   \* audioEndpoint_ is there
  probed,          \* probed_, scanned_
  scan,            \* scan_, result_
  engine,          \* attempt_.engine
  bulk,            \* bulk_ is there: the channel of BulkChannel.tla runs
  nextHandle,      \* nextHandle_
  live,            \* liveHandles_
  call             \* history: the engine call of the last request, or NotCalled

probeVars == <<rooted, profiles, audioEndpoint, probed, scan, engine, bulk>>
handleVars == <<nextHandle, live>>
backendVars == <<probeVars, handleVars, call>>

Handle == 0 .. HandleSpace - 1

Kind ==
  IF ~ rooted THEN "null" ELSE IF profiles = << >> THEN "discovery" ELSE "probing"

NoScan == [examined |-> 0, truncated |-> FALSE, candidates |-> << >>]

NotCalled == << >>

BackendInit ==
  /\ rooted \in BOOLEAN
  /\ profiles \in ProfileFiles
  /\ audioEndpoint \in BOOLEAN
  /\ probed = FALSE
  /\ scan = NoScan
  /\ engine = Unbound
  /\ bulk = FALSE
  /\ nextHandle = 1
  /\ live = << >>
  /\ call = NotCalled

-----------------------------------------------------------------------------
(* Steps of a request; each names the variables it settles. *)

NoCall == call' = NotCalled

Call(role, shape, handle) ==
  call' = [role |-> role, shape |-> shape, handle |-> handle,
           symbol |-> AddressFor(engine', role, shape)]

\* The audio channel is made when the host connected one and the engine binds
\* the bulk role, and torn down again when the engine's binding is not a sink.
\* Either way the endpoint is used up.
StartBulk ==
  IF Kind = "probing" /\ audioEndpoint /\ HasBinding(engine'.profiles, "bulk")
  THEN /\ audioEndpoint' = FALSE
       /\ bulk' = (AddressFor(engine', "bulk", "sink") # None)
  ELSE UNCHANGED <<audioEndpoint, bulk>>

\* Mutant: the outcome is not kept.
ProbeEachTime ==
  /\ probed' = (Kind # "null")
  /\ \E found \in Scans :
       /\ scan' = found
       /\ engine' = IF Kind = "probing"
                    THEN BindFirstAvailable(found.candidates, profiles) ELSE Unbound
       /\ StartBulk
  /\ UNCHANGED <<rooted, profiles>>

\* ensureProbed and ensureScanned.
EnsureProbed ==
  \/ /\ Kind = "null" \/ probed
     /\ UNCHANGED probeVars
  \/ /\ Kind # "null" /\ ~ probed
     /\ probed' = TRUE
     /\ \E found \in Scans :
          /\ scan' = found
          /\ engine' = IF Kind = "probing"
                       THEN BindFirstAvailable(found.candidates, profiles) ELSE Unbound
          /\ StartBulk
     /\ UNCHANGED <<rooted, profiles>>

\* Only ProbingBackend looks for an engine to open or drive a target; the other
\* two know that they have none.
EnsureEngine == IF Kind = "probing" THEN EnsureProbed ELSE UNCHANGED probeVars

\* capabilityClasses and bulkChannel, once probed.
Claims == [classes |-> Classes(engine) \cup (IF bulk THEN {BulkClass} ELSE {}),
           bulk |-> bulk]

\* Mutant: a target can be opened without an engine.
TakeHandleUnbound ==
  /\ nextHandle' = (nextHandle + 1) % HandleSpace
  /\ live' = Append(live, nextHandle)

\* Mutant: the number is not moved on.
TakeHandleSame ==
  /\ Bound(engine')
  /\ live' = Append(live, nextHandle)
  /\ UNCHANGED nextHandle

\* openTarget with an engine: the next number, whatever it is.
TakeHandle ==
  /\ Bound(engine')
  /\ nextHandle' = (nextHandle + 1) % HandleSpace
  /\ live' = Append(live, nextHandle)

\* Mutant: the handle stays in the list.
KeepHandle(handle) == UNCHANGED live

Listed == {live[i] : i \in DOMAIN live}

\* closeTarget of ProbingBackend erases the first entry with the number, if there
\* is one; that of the others, which never list a handle, does nothing.
DropHandle(handle) ==
  \/ handle \notin Listed /\ UNCHANGED live
  \/ \E i \in DOMAIN live :
       /\ live[i] = handle
       /\ \A j \in 1 .. i - 1 : live[j] # handle
       /\ live' = SubSeq(live, 1, i - 1) \o SubSeq(live, i + 1, Len(live))

\* targetCount
TargetCount == Len(live)

=============================================================================
