------------------------------- MODULE Binder -------------------------------
(***************************************************************************)
(* One search of a ProbingBackend from the disk to the bound engine: the   *)
(* walk of Scanner.tla, then the loop of bindFirstAvailable over what it   *)
(* found, in which modules are mapped into the process, asked for symbols, *)
(* unmapped, or handed over to the engine (src/relay/probe/prober.cpp,     *)
(* src/relay/binding/dynamic_library.cpp); and the end of the engine.      *)
(*                                                                         *)
(* Prober.tla says the outcome in one expression, which the session works  *)
(* with; here it is worked out step by step.                               *)
(***************************************************************************)
EXTENDS Scanner, Prober

CONSTANTS
  ProfileLists,  \* what parseProfiles may have let through
  Modules        \* the loader's view of a kind of file: [loads, exports]

ASSUME BinderAssumption ==
  /\ ProfileLists \subseteq Seq(Profile)
  /\ None \notin STRING
  /\ \A list \in ProfileLists : \A i \in DOMAIN list : WellFormed(list[i])
  /\ \A d \in Disks : None \notin DOMAIN d

VARIABLES
  profiles,
  at,          \* "scan", "load", "try", "return" or "gone"
  tried,       \* how many candidates the loop is past
  library,     \* the path of the module the loop's local holds, or None
  satisfied,   \* the profiles the module has satisfied
  profile,     \* how many profiles it has been asked for
  mapped,      \* the loader's count of references to each file
  attempt      \* BindingAttempt: engine, candidatesLoaded, profilesTried

bindVars == <<profiles, at, tried, library, satisfied, profile, mapped, attempt>>
binderVars == <<scanVars, bindVars>>

Exports(path) == Modules[disk[path]].exports

\* No library, nothing bound.
NoEngine == [library |-> None, profiles |-> << >>, addresses |-> << >>]

\* Mutant: the last binding that resolves is the one kept.
AddAddressOver(addresses, binding, exports) ==
  IF binding.symbol \notin exports THEN addresses
  ELSE << <<binding.role, binding.symbol>> >> \o
       SelectSeq(addresses, LAMBDA entry : entry[1] # binding.role)

\* A binding resolved: one address per role, the first that resolves.
AddAddress(addresses, binding, exports) ==
  IF binding.symbol \notin exports \/ \E i \in DOMAIN addresses : addresses[i][1] = binding.role
  THEN addresses
  ELSE Append(addresses, <<binding.role, binding.symbol>>)

\* The constructor of BoundEngine: its inner loop and its outer one.
AddAddresses(addresses, bindings, exports) ==
  LET after[n \in 0 .. Len(bindings)] ==
        IF n = 0 THEN addresses ELSE AddAddress(after[n - 1], bindings[n], exports)
  IN  after[Len(bindings)]

Addresses(list, exports) ==
  LET after[n \in 0 .. Len(list)] ==
        IF n = 0 THEN << >> ELSE AddAddresses(after[n - 1], list[n].bindings, exports)
  IN  after[Len(list)]

MakeEngine(path, list) ==
  [library |-> path, profiles |-> list, addresses |-> Addresses(list, Exports(path))]

BinderInit ==
  /\ ScanInit
  /\ profiles \in ProfileLists
  /\ at = "scan"
  /\ tried = 0
  /\ library = None
  /\ satisfied = << >>
  /\ profile = 0
  /\ mapped = [p \in DOMAIN disk |-> 0]
  /\ attempt = [engine |-> NoEngine, loaded |-> 0, tried |-> 0]

Search ==
  /\ at = "scan"
  /\ ScanNext
  /\ UNCHANGED bindVars

\* bindFirstAvailable begins; without profiles it returns at once.
Searched ==
  /\ at = "scan" /\ Scanned
  /\ at' = IF profiles = << >> THEN "return" ELSE "load"
  /\ UNCHANGED <<scanVars, profiles, tried, library, satisfied, profile, mapped, attempt>>

\* DynamicLibrary::load, and the loop's next turn when it fails.
Load ==
  /\ at = "load" /\ tried < Len(candidates)
  /\ LET path == candidates[tried + 1]
     IN  IF Modules[disk[path]].loads
         THEN /\ at' = "try"
              /\ library' = path
              /\ mapped' = [mapped EXCEPT ![path] = @ + 1]
              /\ attempt' = [attempt EXCEPT !.loaded = @ + 1]
              /\ satisfied' = << >>
              /\ profile' = 0
              /\ UNCHANGED tried
         ELSE /\ tried' = tried + 1
              /\ UNCHANGED <<at, library, mapped, attempt, satisfied, profile>>
  /\ UNCHANGED <<scanVars, profiles>>

NothingFits ==
  /\ at = "load" /\ tried = Len(candidates)
  /\ at' = "return"
  /\ UNCHANGED <<scanVars, profiles, tried, library, satisfied, profile, mapped, attempt>>

TryProfile ==
  /\ at = "try" /\ profile < Len(profiles)
  /\ profile' = profile + 1
  /\ attempt' = [attempt EXCEPT !.tried = @ + 1]
  /\ satisfied' = IF Satisfied(profiles[profile + 1], Exports(library))
                  THEN Append(satisfied, profiles[profile + 1]) ELSE satisfied
  /\ UNCHANGED <<scanVars, profiles, at, tried, library, mapped>>

\* Mutant: the module goes on being mapped.
DiscardMapped ==
  /\ at = "try" /\ profile = Len(profiles) /\ satisfied = << >>
  /\ at' = "load"
  /\ tried' = tried + 1
  /\ library' = None
  /\ UNCHANGED <<scanVars, profiles, satisfied, profile, mapped, attempt>>

\* No profile fits: the local goes out of scope, and its destructor unmaps.
Discard ==
  /\ at = "try" /\ profile = Len(profiles) /\ satisfied = << >>
  /\ at' = "load"
  /\ tried' = tried + 1
  /\ library' = None
  /\ mapped' = [mapped EXCEPT ![library] = @ - 1]
  /\ UNCHANGED <<scanVars, profiles, satisfied, profile, attempt>>

\* The library is moved into the engine, and the engine into the attempt.
Adopt ==
  /\ at = "try" /\ profile = Len(profiles) /\ satisfied # << >>
  /\ at' = "return"
  /\ attempt' = [attempt EXCEPT !.engine = MakeEngine(library, satisfied)]
  /\ library' = None
  /\ UNCHANGED <<scanVars, profiles, tried, satisfied, profile, mapped>>

\* The backend is destroyed, and its attempt with it.
Destroy ==
  /\ at = "return"
  /\ at' = "gone"
  /\ attempt' = [attempt EXCEPT !.engine = NoEngine]
  /\ mapped' = IF attempt.engine.library = None THEN mapped
               ELSE [mapped EXCEPT ![attempt.engine.library] = @ - 1]
  /\ UNCHANGED <<scanVars, profiles, tried, library, satisfied, profile>>

BinderNext ==
  \/ Search \/ Searched \/ Load \/ NothingFits \/ TryProfile \/ Discard \/ Adopt
  \/ Destroy

BinderSpec == BinderInit /\ [][BinderNext]_binderVars

-----------------------------------------------------------------------------
(* Properties *)

\* The candidates as Prober.tla has them.
Seen == [i \in DOMAIN candidates |-> Modules[disk[candidates[i]]]]

\* The loop and the constructor end where Prober.tla says: with the first
\* candidate that loads and satisfies a profile, all the profiles it satisfies,
\* and for each role the first symbol that resolves; and the loop has loaded
\* just what comes before it (prober.cpp:21-41, 93-131).
BindsAsProber ==
  at = "return" =>
    LET engine == attempt.engine
        usable == Usable(Seen, profiles)
        bound == BindFirstAvailable(Seen, profiles)
    IN  /\ engine.profiles = bound.profiles
        /\ \A role \in Role :
             {engine.addresses[i][2] : i \in {j \in DOMAIN engine.addresses :
                                                engine.addresses[j][1] = role}}
               = {Address(bound.profiles, bound.exports, role)} \ {None}
        /\ engine.library # None => engine.library = candidates[Min(usable)]
        /\ profiles # << >> =>
             attempt.loaded = Cardinality({i \in DOMAIN Seen :
               Seen[i].loads /\ \A c \in usable : i =< c})

\* A file is mapped exactly as often as somebody in the process owns it: never
\* two at a time, so that a module no profile fits is gone before the
\* next is loaded; the bound engine's for as long as it can be called; none in
\* the end (dynamic_library.cpp:15-41).
MappedExactly ==
  /\ library = None \/ attempt.engine.library = None
  /\ \A path \in DOMAIN disk :
       mapped[path] = IF path \in {library, attempt.engine.library} THEN 1 ELSE 0

=============================================================================
