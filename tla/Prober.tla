------------------------------- MODULE Prober -------------------------------
(***************************************************************************)
(* How src/relay/probe decides which module is the engine and which of its *)
(* symbols answers which request: profiles in file order, candidates in    *)
(* scan order.  Everything here is a function of what was found; the state *)
(* that remembers the outcome is in EngineBackend.tla.                     *)
(*                                                                         *)
(* A module is what the platform's loader shows of it: whether it loads,   *)
(* and the symbols it exports.                                             *)
(***************************************************************************)
EXTENDS Integers, Sequences, FiniteSets

CONSTANT None              \* no such binding, no such address

Role == {"post", "set", "bulk"}
Shape == {"level", "name", "sink"}

Binding == [role : Role, symbol : STRING, shape : Shape]
Profile == [class : STRING, bindings : Seq(Binding)]

\* What the loader shows of a module.
Image == [loads : BOOLEAN, exports : SUBSET STRING]

\* What parseProfiles lets through: a profile that requires something, and
\* never two bindings for one role.
WellFormed(profile) ==
  /\ profile \in Profile
  /\ profile.bindings # << >>
  /\ \A i, j \in DOMAIN profile.bindings :
       profile.bindings[i].role = profile.bindings[j].role => i = j

\* Mutant: one resolved symbol is enough.
SatisfiedBySome(profile, exports) ==
  \E i \in DOMAIN profile.bindings : profile.bindings[i].symbol \in exports

\* A module satisfies a profile when every symbol the profile names resolves.
Satisfied(profile, exports) ==
  \A i \in DOMAIN profile.bindings : profile.bindings[i].symbol \in exports

\* The places of the bindings in a list of profiles, in file order.
Places(profiles) ==
  UNION {{<<i, j>> : j \in DOMAIN profiles[i].bindings} : i \in DOMAIN profiles}

Before(p, q) == p[1] < q[1] \/ (p[1] = q[1] /\ p[2] < q[2])

Foremost(places) == CHOOSE p \in places : \A q \in places : p = q \/ Before(p, q)

At(profiles, p) == profiles[p[1]].bindings[p[2]]

PlacesFor(profiles, role) == {p \in Places(profiles) : At(profiles, p).role = role}

HasBinding(profiles, role) == PlacesFor(profiles, role) # {}

\* BoundEngine::bindingFor: the first profile that binds the role.
BindingFor(profiles, role) == At(profiles, Foremost(PlacesFor(profiles, role)))

\* Mutant: a later profile's symbol replaces an earlier one's.
LastAddress(profiles, exports, role) ==
  LET resolved == {p \in PlacesFor(profiles, role) : At(profiles, p).symbol \in exports}
  IN  IF resolved = {} THEN None
      ELSE At(profiles, CHOOSE p \in resolved : \A q \in resolved : p = q \/ Before(q, p)).symbol

\* What the constructor's loop leaves in addresses_ for a role: the first
\* symbol that resolves.
Address(profiles, exports, role) ==
  LET resolved == {p \in PlacesFor(profiles, role) : At(profiles, p).symbol \in exports}
  IN  IF resolved = {} THEN None ELSE At(profiles, Foremost(resolved)).symbol

\* addressFor: the address to call a role at, if the first binding for the role
\* takes the arguments of this shape.
AddressFor(engine, role, shape) ==
  IF HasBinding(engine.profiles, role) /\ BindingFor(engine.profiles, role).shape = shape
  THEN Address(engine.profiles, engine.exports, role) ELSE None

\* A bound engine: the module's exports and the profiles it satisfied.
Unbound == [exports |-> {}, profiles |-> << >>]

Bound(engine) == engine.profiles # << >>

Classes(engine) == {engine.profiles[i].class : i \in DOMAIN engine.profiles}

\* addresses_.size(): the roles that have an address.
ResolvedCount(engine) ==
  Cardinality({r \in Role : Address(engine.profiles, engine.exports, r) # None})

\* The loop over the profiles: for each n, those of the first n that are satisfied.
SatisfiedAmong(profiles, exports) ==
  LET first[n \in 0 .. Len(profiles)] ==
        IF n = 0 THEN << >>
        ELSE IF Satisfied(profiles[n], exports) THEN Append(first[n - 1], profiles[n])
        ELSE first[n - 1]
  IN  first

SatisfiedBy(profiles, exports) == SatisfiedAmong(profiles, exports)[Len(profiles)]

\* The candidates that load and satisfy at least one profile.
Usable(candidates, profiles) ==
  {c \in DOMAIN candidates : /\ candidates[c].loads
                             /\ SatisfiedBy(profiles, candidates[c].exports) # << >>}

\* bindFirstAvailable: the first usable candidate in scan order, with every
\* profile it satisfies.
BindFirstAvailable(candidates, profiles) ==
  LET usable == Usable(candidates, profiles)
      first == CHOOSE c \in usable : \A d \in usable : c =< d
  IN  IF usable = {} THEN Unbound
      ELSE [exports |-> candidates[first].exports,
            profiles |-> SatisfiedBy(profiles, candidates[first].exports)]

=============================================================================
