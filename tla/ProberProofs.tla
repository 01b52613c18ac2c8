---------------------------- MODULE ProberProofs ----------------------------
(***************************************************************************)
(* What the functions of Prober.tla return, for every list of profiles,    *)
(* every list of candidates and every set of exports.                      *)
(*                                                                         *)
(* The induction the proofs need is the least-number principle, stated     *)
(* about sets: a counterexample would have a least one.                    *)
(***************************************************************************)
EXTENDS Prober, WellFoundedInduction, TLAPS

lessThan == OpToRel(<, Nat)

LEMMA LessThanWellFounded == IsWellFoundedOn(lessThan, Nat)
BY NatLessThanWellFounded, Zenon DEF lessThan

LEMMA LessThanRelates == \A m, n \in Nat : m < n => <<m, n>> \in lessThan
BY DEF lessThan, OpToRel

\* A set of natural numbers that is not empty has a least element.
LEMMA LeastNumber ==
  ASSUME NEW T, T \subseteq Nat, T # {}
  PROVE  \E n \in T : \A m \in T : n =< m
<1>1. PICK n \in T : \A m \in T : ~ (<<m, n>> \in lessThan)
  BY LessThanWellFounded, WFMin
<1>2. \A m \in T : n =< m
  <2>1. TAKE m \in T
  <2>2. m \in Nat /\ n \in Nat
    OBVIOUS
  <2>3. ~ (m < n)
    BY <1>1, <2>2, LessThanRelates, Zenon
  <2>4. QED
    BY <2>2, <2>3
<1>3. QED
  BY <1>2

\* Induction up to a number: a set of the numbers up to n that holds 0, and with
\* each number the next, holds them all.
LEMMA InductionToN ==
  ASSUME NEW n \in Nat, NEW G, 0 \in G, \A k \in 1 .. n : k - 1 \in G => k \in G
  PROVE  \A k \in 0 .. n : k \in G
<1>. DEFINE Bad == {k \in 0 .. n : k \notin G}
<1>1. SUFFICES ASSUME Bad # {} PROVE FALSE
  OBVIOUS
<1>2. PICK m \in Bad : \A l \in Bad : m =< l
  <2>1. Bad \subseteq Nat
    OBVIOUS
  <2>. HIDE DEF Bad
  <2>2. QED
    BY <1>1, <2>1, LeastNumber
<1>3. m \in 1 .. n /\ m - 1 \in 0 .. n /\ m - 1 \notin Bad
  BY <1>2
<1>4. QED
  BY <1>2, <1>3

\* The functions on 0 .. n that have a value at 0 and follow a step from each
\* number to the next; there is one.
Recursions(V, base, n, step) ==
  {f \in [0 .. n -> V] : f[0] = base /\ \A k \in 1 .. n : f[k] = step[k][f[k - 1]]}

LEMMA RecursionToN ==
  ASSUME NEW V, NEW base \in V, NEW n \in Nat, NEW step \in [1 .. n -> [V -> V]]
  PROVE  \E f : f \in Recursions(V, base, n, step)
<1>. DEFINE Defined(m) == \E f \in [0 .. m -> V] :
              f[0] = base /\ \A k \in 1 .. m : f[k] = step[k][f[k - 1]]
<1>1. \A m \in 0 .. n : Defined(m)
  <2>. DEFINE G == {m \in 0 .. n : Defined(m)}
  <2>1. Defined(0)
    <3>. DEFINE f == [k \in 0 .. 0 |-> base]
    <3>1. f \in [0 .. 0 -> V] /\ f[0] = base
      OBVIOUS
    <3>. HIDE DEF f
    <3>2. QED
      BY <3>1
  <2>2. ASSUME NEW m \in 1 .. n, Defined(m - 1) PROVE Defined(m)
    <3>1. PICK g \in [0 .. m - 1 -> V] :
             g[0] = base /\ \A k \in 1 .. m - 1 : g[k] = step[k][g[k - 1]]
      BY <2>2
    <3>. DEFINE f == [k \in 0 .. m |-> IF k = m THEN step[m][g[m - 1]] ELSE g[k]]
    <3>2. f \in [0 .. m -> V] /\ f[0] = base
      BY <3>1
    <3>3. \A k \in 1 .. m : f[k] = step[k][f[k - 1]]
      BY <3>1
    <3>. HIDE DEF f
    <3>4. QED
      BY <3>2, <3>3
  <2>. HIDE DEF Defined
  <2>3. 0 \in G /\ \A m \in 1 .. n : m - 1 \in G => m \in G
    BY <2>1, <2>2
  <2>4. \A m \in 0 .. n : m \in G
    <3>. HIDE DEF G
    <3>1. QED
      BY <2>3, InductionToN
  <2>5. QED
    BY <2>4
<1>2. Defined(n)
  BY <1>1
<1>3. QED
  BY <1>2 DEF Recursions

-----------------------------------------------------------------------------
(* The profiles a module satisfies. *)

\* The loop: it starts with none, and each turn appends its profile or does not.
LEMMA SatisfiedAmongFacts ==
  ASSUME NEW list \in Seq(Profile), NEW exports
  PROVE  /\ SatisfiedAmong(list, exports)[0] = << >>
         /\ \A k \in 0 .. Len(list) : SatisfiedAmong(list, exports)[k] \in
              Seq({p \in {list[i] : i \in DOMAIN list} : Satisfied(p, exports)})
         /\ \A k \in 1 .. Len(list) :
              SatisfiedAmong(list, exports)[k] =
                IF Satisfied(list[k], exports)
                THEN Append(SatisfiedAmong(list, exports)[k - 1], list[k])
                ELSE SatisfiedAmong(list, exports)[k - 1]
<1>. DEFINE V == Seq({p \in {list[i] : i \in DOMAIN list} : Satisfied(p, exports)})
            n == Len(list)
            step == [k \in 1 .. n |->
                       [v \in V |-> IF Satisfied(list[k], exports) THEN Append(v, list[k]) ELSE v]]
            Def(f) == [k \in 0 .. n |->
                         IF k = 0 THEN << >>
                         ELSE IF Satisfied(list[k], exports) THEN Append(f[k - 1], list[k])
                         ELSE f[k - 1]]
            first == CHOOSE f : f = Def(f)
<1>1. /\ n \in Nat /\ << >> \in V
      /\ \A k \in 1 .. n, v \in V : Satisfied(list[k], exports) => Append(v, list[k]) \in V
  OBVIOUS
<1>2. PICK f \in [0 .. n -> V] :
         f[0] = << >> /\ \A k \in 1 .. n : f[k] = step[k][f[k - 1]]
  <2>. HIDE DEF V, n
  <2>1. step \in [1 .. n -> [V -> V]]
    BY <1>1
  <2>. HIDE DEF step, first, Def
  <2>2. \E f : f \in Recursions(V, << >>, n, step)
    BY <1>1, <2>1, RecursionToN, Zenon
  <2>3. QED
    BY <2>2 DEF Recursions
<1>3. f = Def(f)
  <2>. HIDE DEF V, n
  <2>1. \A k \in 1 .. n : k \in 0 .. n /\ k - 1 \in 0 .. n /\ k # 0
    BY <1>1
  <2>2. f[0] = << >> /\ 0 \in 0 .. n
    BY <1>1, <1>2
  <2>3. ASSUME NEW k \in 1 .. n
        PROVE  f[k] = IF Satisfied(list[k], exports) THEN Append(f[k - 1], list[k])
                      ELSE f[k - 1]
    <3>1. f[k - 1] \in V
      BY <1>2, <2>1
    <3>2. f[k] = step[k][f[k - 1]]
      BY <1>2
    <3>3. QED
      BY <3>1, <3>2
  <2>4. /\ f = [k \in 0 .. n |-> f[k]]
        /\ \A k \in 0 .. n : k = 0 \/ k \in 1 .. n
    BY <1>1, <1>2
  <2>5. \A k \in 0 .. n :
          f[k] = IF k = 0 THEN << >>
                 ELSE IF Satisfied(list[k], exports) THEN Append(f[k - 1], list[k])
                 ELSE f[k - 1]
    BY <2>2, <2>3, <2>4
  <2>6. QED
    BY <2>4, <2>5, Zenon
<1>4. first = Def(first)
  <2>. HIDE DEF Def
  <2>1. QED
    BY <1>3
<1>5. /\ first[0] = << >>
      /\ \A k \in 1 .. n :
           first[k] = IF Satisfied(list[k], exports) THEN Append(first[k - 1], list[k])
                      ELSE first[k - 1]
  <2>. HIDE DEF V, n, step, first
  <2>1. first[0] = << >>
    BY <1>1, <1>4
  <2>2. ASSUME NEW k \in 1 .. n
        PROVE  first[k] = IF Satisfied(list[k], exports) THEN Append(first[k - 1], list[k])
                          ELSE first[k - 1]
    <3>1. k \in 0 .. n /\ k # 0
      BY <1>1
    <3>2. first[k] = Def(first)[k]
      BY <1>4, Zenon
    <3>3. QED
      BY <3>1, <3>2
  <2>3. QED
    BY <2>1, <2>2
<1>6. \A k \in 0 .. n : first[k] \in V
  <2>. DEFINE G == {k \in 0 .. n : first[k] \in V}
  <2>. HIDE DEF V, n, step, first
  <2>1. 0 \in G /\ \A k \in 1 .. n : k - 1 \in G => k \in G
    BY <1>1, <1>5
  <2>2. \A k \in 0 .. n : k \in G
    <3>. HIDE DEF G
    <3>1. QED
      BY <1>1, <2>1, InductionToN
  <2>3. QED
    BY <2>2
<1>7. SatisfiedAmong(list, exports) = first
  BY DEF SatisfiedAmong
<1>8. QED
  <2>. HIDE DEF V, n, step, first
  <2>1. /\ n = Len(list)
        /\ V = Seq({p \in {list[i] : i \in DOMAIN list} : Satisfied(p, exports)})
    BY DEF n, V
  <2>2. QED
    BY <1>5, <1>6, <1>7, <2>1, Zenon

LEMMA SatisfiedByFacts ==
  ASSUME NEW list \in Seq(Profile), NEW exports
  PROVE  SatisfiedBy(list, exports) \in
           Seq({p \in {list[i] : i \in DOMAIN list} : Satisfied(p, exports)})
<1>1. Len(list) \in 0 .. Len(list)
  OBVIOUS
<1>2. QED
  BY <1>1, SatisfiedAmongFacts DEF SatisfiedBy

-----------------------------------------------------------------------------
(* The first of the places where a role is bound. *)

LEMMA ForemostIsFirst ==
  ASSUME NEW places, places \subseteq Nat \X Nat, places # {}
  PROVE  /\ Foremost(places) \in places
         /\ \A q \in places : Foremost(places) = q \/ Before(Foremost(places), q)
<1>. DEFINE Rows == {p[1] : p \in places}
<1>1. PICK r \in Rows : \A s \in Rows : r =< s
  <2>1. Rows \subseteq Nat /\ Rows # {}
    OBVIOUS
  <2>. HIDE DEF Rows
  <2>2. QED
    BY <2>1, LeastNumber
<1>. DEFINE Columns == {p[2] : p \in {q \in places : q[1] = r}}
<1>2. PICK c \in Columns : \A d \in Columns : c =< d
  <2>1. Columns \subseteq Nat /\ Columns # {}
    BY <1>1
  <2>. HIDE DEF Columns
  <2>2. QED
    BY <2>1, LeastNumber
<1>3. PICK p \in places : p[1] = r /\ p[2] = c
  BY <1>2
<1>4. ASSUME NEW q \in places PROVE p = q \/ Before(p, q)
  <2>1. q[1] \in Nat /\ q[2] \in Nat /\ q = <<q[1], q[2]>> /\ p = <<p[1], p[2]>>
    OBVIOUS
  <2>2. r =< q[1] /\ (q[1] = r => c =< q[2])
    BY <1>1, <1>2
  <2>3. r \in Nat /\ c \in Nat
    BY <1>3
  <2>4. QED
    BY <1>3, <2>1, <2>2, <2>3 DEF Before
<1>5. QED
  BY <1>4 DEF Foremost

-----------------------------------------------------------------------------
(* The two lists of BoundEngine. *)

\* When every profile is satisfied, the address kept for a role is that of the
\* very binding whose shape is checked, so no symbol is called with the
\* arguments of another one's shape (prober.cpp:28-30).
THEOREM AddressMatchesBinding ==
  ASSUME NEW list, NEW exports, NEW role,
         \A i \in DOMAIN list : Satisfied(list[i], exports),
         HasBinding(list, role)
  PROVE  Address(list, exports, role) = BindingFor(list, role).symbol
<1>1. \A p \in PlacesFor(list, role) : At(list, p).symbol \in exports
  <2>1. SUFFICES ASSUME NEW p \in Places(list) PROVE At(list, p).symbol \in exports
    BY DEF PlacesFor
  <2>2. PICK i \in DOMAIN list : \E j \in DOMAIN list[i].bindings : p = <<i, j>>
    BY DEF Places
  <2>3. PICK j \in DOMAIN list[i].bindings : At(list, p) = list[i].bindings[j]
    BY <2>2 DEF At
  <2>4. QED
    BY <2>3 DEF Satisfied
<1>2. {p \in PlacesFor(list, role) : At(list, p).symbol \in exports} = PlacesFor(list, role)
  BY <1>1
<1>3. QED
  BY <1>2 DEF Address, BindingFor, HasBinding

\* The engine has a binding for a role exactly when HasBinding says so, and
\* bindingFor returns one of them.
LEMMA BindingForIsListed ==
  ASSUME NEW list \in Seq(Profile), NEW role, HasBinding(list, role)
  PROVE  \E i \in DOMAIN list : \E b \in DOMAIN list[i].bindings :
           list[i].bindings[b] = BindingFor(list, role) /\ BindingFor(list, role).role = role
<1>1. PlacesFor(list, role) \subseteq Nat \X Nat
  <2>1. ASSUME NEW i \in DOMAIN list, NEW j \in DOMAIN list[i].bindings
        PROVE  i \in Nat /\ j \in Nat
    <3>1. i \in Nat /\ list[i] \in Profile
      OBVIOUS
    <3>2. list[i].bindings \in Seq(Binding)
      BY <3>1 DEF Profile
    <3>3. QED
      BY <3>1, <3>2
  <2>2. QED
    BY <2>1 DEF PlacesFor, Places
<1>2. Foremost(PlacesFor(list, role)) \in PlacesFor(list, role)
  BY <1>1, ForemostIsFirst, Zenon DEF HasBinding
<1>3. PICK i \in DOMAIN list : \E j \in DOMAIN list[i].bindings :
         Foremost(PlacesFor(list, role)) = <<i, j>>
  BY <1>2 DEF PlacesFor, Places
<1>4. PICK j \in DOMAIN list[i].bindings : Foremost(PlacesFor(list, role)) = <<i, j>>
  BY <1>3
<1>5. BindingFor(list, role) = list[i].bindings[j] /\ BindingFor(list, role).role = role
  <2>1. At(list, <<i, j>>) = list[i].bindings[j]
    BY DEF At
  <2>2. At(list, Foremost(PlacesFor(list, role))).role = role
    BY <1>2, Zenon DEF PlacesFor
  <2>3. QED
    BY <1>4, <2>1, <2>2, Zenon DEF BindingFor
<1>6. QED
  BY <1>5

-----------------------------------------------------------------------------
(* The engine that is bound. *)

\* Every profile of a bound engine is one of the host's file and has all its
\* symbols among the engine's exports.
Proved(anEngine, file) ==
  /\ anEngine.profiles \in Seq(Profile)
  /\ \A i \in DOMAIN anEngine.profiles :
       /\ \E j \in DOMAIN file : file[j] = anEngine.profiles[i]
       /\ Satisfied(anEngine.profiles[i], anEngine.exports)

\* And it is one of the candidates, one that loads.
ProvedAmong(anEngine, candidates, file) ==
  /\ Proved(anEngine, file)
  /\ Bound(anEngine) => \E c \in DOMAIN candidates :
       candidates[c].loads /\ candidates[c].exports = anEngine.exports

\* bindFirstAvailable binds nothing, or one of the candidates, one that loads,
\* with profiles of the file that its own exports satisfy: no class is claimed
\* for a module that was not seen to export every symbol of it (prober.hpp:40).
THEOREM BindsWhatIsProved ==
  ASSUME NEW candidates \in Seq(Image), NEW file \in Seq(Profile),
         NEW anEngine, anEngine = BindFirstAvailable(candidates, file)
  PROVE  ProvedAmong(anEngine, candidates, file)
<1>. DEFINE usable == Usable(candidates, file)
            first == CHOOSE c \in usable : \A d \in usable : c =< d
<1>1. CASE usable = {}
  <2>1. anEngine = Unbound
    BY <1>1 DEF BindFirstAvailable
  <2>2. QED
    BY <2>1 DEF Unbound, Bound, Proved, ProvedAmong
<1>2. CASE usable # {}
  <2>1. first \in usable
    <3>1. usable \subseteq Nat
      BY DEF Usable
    <3>. HIDE DEF usable
    <3>2. QED
      BY <1>2, <3>1, LeastNumber
  <2>2. first \in DOMAIN candidates /\ candidates[first].loads
    BY <2>1 DEF Usable
  <2>3. anEngine = [exports |-> candidates[first].exports,
                    profiles |-> SatisfiedBy(file, candidates[first].exports)]
    BY <1>2, Zenon DEF BindFirstAvailable
  <2>. HIDE DEF first, usable
  <2>4. anEngine.exports = candidates[first].exports
        /\ anEngine.profiles = SatisfiedBy(file, anEngine.exports)
    BY <2>3
  <2>5. anEngine.profiles \in
          Seq({p \in {file[i] : i \in DOMAIN file} : Satisfied(p, anEngine.exports)})
    BY <2>4, SatisfiedByFacts
  <2>6. Proved(anEngine, file)
    BY <2>5 DEF Proved
  <2>7. QED
    BY <2>2, <2>4, <2>6 DEF ProvedAmong
<1>3. QED
  BY <1>1, <1>2

=============================================================================
