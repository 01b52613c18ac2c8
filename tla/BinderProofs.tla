---------------------------- MODULE BinderProofs ----------------------------
(***************************************************************************)
(* Theorems about the search for modules and the binding of one, for any   *)
(* disk, roots, limits, profiles and exports.                              *)
(*                                                                         *)
(* First, what is mapped into the process is what somebody owns.  Second,  *)
(* the loops over candidates, profiles and bindings end with the engine    *)
(* that Prober.tla says in one expression.  Third, the walk examines what  *)
(* may be seen in the order of paths, and leaves nothing out of a result   *)
(* that it does not mark as truncated.                                     *)
(***************************************************************************)
EXTENDS Binder, ProberProofs, FiniteSetTheorems

\* The loop's local owns a module only while that module is asked for its
\* symbols, and the attempt owns one only after the loop.
OwnersTakeTurns ==
  /\ at \in {"scan", "load", "try", "return", "gone"}
  /\ at # "try" => library = None
  /\ at # "return" => attempt.engine.library = None
  /\ None \notin DOMAIN disk
  /\ mapped \in [DOMAIN disk -> Int]
  /\ DOMAIN attempt = {"engine", "loaded", "tried"}

BinderInv == OwnersTakeTurns /\ MappedExactly

LEMMA BinderInv_Init == BinderInit => BinderInv
BY BinderAssumption
   DEF BinderInit, ScanInit, NoEngine, BinderInv, OwnersTakeTurns, MappedExactly

\* The search leaves the disk alone.
LEMMA ScanKeepsDisk == ScanNext => UNCHANGED disk
BY DEF ScanNext, TakeRoot, Return, StopShort, Skip, Descend, Examine, inputVars

\* Giving up the only module that is mapped leaves none.
LEMMA ReleaseLast ==
  ASSUME NEW S, NEW f \in [S -> Int], NEW owned,
         \A p \in S : f[p] = IF p = owned THEN 1 ELSE 0
  PROVE  /\ [f EXCEPT ![owned] = @ - 1] \in [S -> Int]
         /\ \A p \in S : [f EXCEPT ![owned] = @ - 1][p] = 0
<1>1. ASSUME NEW p \in S PROVE [f EXCEPT ![owned] = @ - 1][p] = 0
  <2>1. CASE p = owned
    <3>1. f[p] = 1
      BY <2>1
    <3>2. [f EXCEPT ![owned] = @ - 1][p] = f[p] - 1
      BY <2>1
    <3>3. QED
      BY <3>1, <3>2
  <2>2. CASE p # owned
    BY <2>2
  <2>3. QED
    BY <2>1, <2>2
<1>2. [f EXCEPT ![owned] = @ - 1] = [p \in S |-> 0]
  BY <1>1
<1>3. [p \in S |-> 0] \in [S -> Int]
  OBVIOUS
<1>4. QED
  BY <1>1, <1>2, <1>3, Zenon

LEMMA BinderInv_Step == BinderInv /\ [BinderNext]_binderVars => BinderInv'
<1>. SUFFICES ASSUME BinderInv, [BinderNext]_binderVars PROVE BinderInv'
  OBVIOUS
<1>. USE DEF BinderInv, OwnersTakeTurns, MappedExactly
<1>1. CASE Search
  BY <1>1, ScanKeepsDisk DEF Search, bindVars
<1>2. CASE Searched \/ NothingFits
  BY <1>2 DEF Searched, NothingFits, scanVars, inputVars
<1>3. CASE TryProfile
  <2>1. attempt'.engine = attempt.engine /\ DOMAIN attempt' = DOMAIN attempt
    BY <1>3 DEF TryProfile
  <2>2. QED
    BY <1>3, <2>1 DEF TryProfile, scanVars, inputVars
<1>4. CASE Load
  <2>1. attempt'.engine = attempt.engine /\ DOMAIN attempt' = DOMAIN attempt
    BY <1>4 DEF Load
  <2>2. QED
    BY <1>4, <2>1 DEF Load, scanVars, inputVars
<1>5. CASE Discard
  <2>1. /\ attempt.engine.library = None
        /\ library' = None /\ at' = "load" /\ UNCHANGED <<disk, attempt>>
        /\ mapped' = [mapped EXCEPT ![library] = @ - 1]
    BY <1>5 DEF Discard, scanVars, inputVars
  <2>2. mapped' \in [DOMAIN disk -> Int] /\ \A p \in DOMAIN disk : mapped'[p] = 0
    BY <2>1, ReleaseLast
  <2>3. QED
    BY <2>1, <2>2
<1>6. CASE Adopt
  <2>1. attempt'.engine.library = library /\ DOMAIN attempt' = DOMAIN attempt
    BY <1>6 DEF Adopt, MakeEngine
  <2>2. QED
    BY <1>6, <2>1 DEF Adopt, scanVars, inputVars
<1>7. CASE Destroy
  <2>1. attempt'.engine.library = None /\ DOMAIN attempt' = DOMAIN attempt
    BY <1>7 DEF Destroy, NoEngine
  <2>2. /\ library = None /\ library' = None /\ at' = "gone" /\ UNCHANGED disk
        /\ mapped' = IF attempt.engine.library = None THEN mapped
                     ELSE [mapped EXCEPT ![attempt.engine.library] = @ - 1]
    BY <1>7 DEF Destroy, scanVars, inputVars
  <2>3. mapped' \in [DOMAIN disk -> Int] /\ \A p \in DOMAIN disk : mapped'[p] = 0
    BY <2>2, ReleaseLast
  <2>4. QED
    BY <2>1, <2>2, <2>3
<1>8. CASE UNCHANGED binderVars
  BY <1>8 DEF binderVars, bindVars, scanVars, inputVars
<1>9. QED
  BY <1>1, <1>2, <1>3, <1>4, <1>5, <1>6, <1>7, <1>8 DEF BinderNext

\* A file is mapped exactly as often as the loop or the bound engine owns it.
THEOREM ModulesMappedExactly == BinderSpec => []MappedExactly
<1>1. BinderInv => MappedExactly
  BY DEF BinderInv
<1>2. QED
  BY <1>1, BinderInv_Init, BinderInv_Step, PTL DEF BinderSpec

-----------------------------------------------------------------------------
(* The constructor of BoundEngine. *)

RoleAddress == Role \X STRING

\* What the inner loop, over the bindings of one profile, has after each turn.
InnerTurns(base, bindings, exports) ==
  {f \in [0 .. Len(bindings) -> Seq(RoleAddress)] :
     /\ f[0] = base
     /\ \A k \in 1 .. Len(bindings) : f[k] = AddAddress(f[k - 1], bindings[k], exports)
     /\ AddAddresses(base, bindings, exports) = f[Len(bindings)]}

LEMMA AddAddressesFacts ==
  ASSUME NEW base \in Seq(RoleAddress), NEW bindings \in Seq(Binding), NEW exports
  PROVE  \E f : f \in InnerTurns(base, bindings, exports)
<1>. DEFINE V == Seq(RoleAddress)
            n == Len(bindings)
            step == [k \in 1 .. n |-> [v \in V |-> AddAddress(v, bindings[k], exports)]]
            Def(f) == [k \in 0 .. n |->
                         IF k = 0 THEN base ELSE AddAddress(f[k - 1], bindings[k], exports)]
            after == CHOOSE f : f = Def(f)
<1>1. /\ n \in Nat
      /\ \A k \in 1 .. n, v \in V : AddAddress(v, bindings[k], exports) \in V
  <2>1. n \in Nat
    OBVIOUS
  <2>2. ASSUME NEW k \in 1 .. n, NEW v \in V PROVE AddAddress(v, bindings[k], exports) \in V
    <3>1. bindings[k] \in Binding
      OBVIOUS
    <3>2. <<bindings[k].role, bindings[k].symbol>> \in RoleAddress
      BY <3>1 DEF Binding, RoleAddress
    <3>3. Append(v, <<bindings[k].role, bindings[k].symbol>>) \in V
      BY <3>2
    <3>4. QED
      BY <3>3 DEF AddAddress
  <2>3. QED
    BY <2>1, <2>2
<1>2. PICK f \in [0 .. n -> V] :
         f[0] = base /\ \A k \in 1 .. n : f[k] = step[k][f[k - 1]]
  <2>0. base \in V
    OBVIOUS
  <2>. HIDE DEF V, n
  <2>1. step \in [1 .. n -> [V -> V]]
    BY <1>1
  <2>. HIDE DEF step, after, Def
  <2>2. \E f : f \in Recursions(V, base, n, step)
    BY <1>1, <2>0, <2>1, RecursionToN, Zenon
  <2>3. QED
    BY <2>2 DEF Recursions
<1>3. ASSUME NEW k \in 1 .. n PROVE f[k] = AddAddress(f[k - 1], bindings[k], exports)
  <2>. HIDE DEF V, n
  <2>1. k - 1 \in 0 .. n
    BY <1>1
  <2>2. f[k - 1] \in V
    BY <1>2, <2>1
  <2>3. f[k] = step[k][f[k - 1]]
    BY <1>2
  <2>4. QED
    BY <2>2, <2>3
<1>4. f = Def(f)
  <2>. HIDE DEF V, n
  <2>1. /\ f = [k \in 0 .. n |-> f[k]]
        /\ \A k \in 0 .. n : k = 0 \/ k \in 1 .. n
        /\ \A k \in 1 .. n : k # 0
    BY <1>1, <1>2
  <2>2. \A k \in 0 .. n :
          f[k] = IF k = 0 THEN base ELSE AddAddress(f[k - 1], bindings[k], exports)
    BY <1>2, <1>3, <2>1
  <2>3. QED
    BY <2>1, <2>2, Zenon
<1>5. after = Def(after)
  <2>. HIDE DEF Def
  <2>1. QED
    BY <1>4
<1>6. AddAddresses(base, bindings, exports) = after[n]
  BY DEF AddAddresses
<1>7. /\ after[0] = base
      /\ \A k \in 1 .. n : after[k] = AddAddress(after[k - 1], bindings[k], exports)
  <2>. HIDE DEF V, n, step, after
  <2>1. after[0] = base
    BY <1>1, <1>5
  <2>2. ASSUME NEW k \in 1 .. n PROVE after[k] = AddAddress(after[k - 1], bindings[k], exports)
    <3>1. k \in 0 .. n /\ k # 0
      BY <1>1
    <3>2. after[k] = Def(after)[k]
      BY <1>5, Zenon
    <3>3. QED
      BY <3>1, <3>2
  <2>3. QED
    BY <2>1, <2>2
<1>8. after \in [0 .. n -> V]
  <2>. DEFINE G == {k \in 0 .. n : after[k] \in V}
  <2>0. base \in V
    OBVIOUS
  <2>. HIDE DEF V, n, step, after
  <2>1. 0 \in G /\ \A k \in 1 .. n : k - 1 \in G => k \in G
    BY <1>1, <1>7, <2>0
  <2>2. \A k \in 0 .. n : k \in G
    <3>. HIDE DEF G
    <3>1. QED
      BY <1>1, <2>1, InductionToN
  <2>3. after = [k \in 0 .. n |-> after[k]]
    BY <1>5
  <2>4. QED
    BY <2>2, <2>3
<1>9. QED
  <2>. HIDE DEF V, n, step, after
  <2>1. n = Len(bindings) /\ V = Seq(RoleAddress)
    BY DEF n, V
  <2>2. QED
    BY <1>6, <1>7, <1>8, <2>1, Zenon DEF InnerTurns

\* A place whose symbol is an address for a role.
Answers(list, exports, role, p) ==
  At(list, p).role = role /\ At(list, p).symbol \in exports

\* Of the places looked at, the addresses have for each role the first whose
\* symbol resolves, and nothing else.
FirstResolved(addresses, list, exports, handled) ==
  \A role :
    \/ /\ \A x \in DOMAIN addresses : addresses[x][1] # role
       /\ \A p \in handled : ~ Answers(list, exports, role, p)
    \/ \E q \in handled :
         /\ Answers(list, exports, role, q)
         /\ \A p \in handled : Answers(list, exports, role, p) => p = q \/ Before(q, p)
         /\ \E x \in DOMAIN addresses : addresses[x][1] = role
         /\ \A x \in DOMAIN addresses :
              addresses[x][1] = role => addresses[x][2] = At(list, q).symbol

LEMMA NextPlace ==
  ASSUME NEW addresses \in Seq(RoleAddress), NEW list, NEW exports, NEW handled, NEW place,
         At(list, place) \in Binding,
         \A p \in handled : Before(p, place),
         FirstResolved(addresses, list, exports, handled)
  PROVE  FirstResolved(AddAddress(addresses, At(list, place), exports), list, exports,
                       handled \cup {place})
<1>. DEFINE binding == At(list, place)
            taken == \E i \in DOMAIN addresses : addresses[i][1] = binding.role
            after == AddAddress(addresses, binding, exports)
            Was(role) ==
              \/ /\ \A x \in DOMAIN addresses : addresses[x][1] # role
                 /\ \A p \in handled : ~ Answers(list, exports, role, p)
              \/ \E q \in handled :
                   /\ Answers(list, exports, role, q)
                   /\ \A p \in handled : Answers(list, exports, role, p) => p = q \/ Before(q, p)
                   /\ \E x \in DOMAIN addresses : addresses[x][1] = role
                   /\ \A x \in DOMAIN addresses :
                        addresses[x][1] = role => addresses[x][2] = At(list, q).symbol
            Is(role) ==
              \/ /\ \A x \in DOMAIN after : after[x][1] # role
                 /\ \A p \in handled \cup {place} : ~ Answers(list, exports, role, p)
              \/ \E q \in handled \cup {place} :
                   /\ Answers(list, exports, role, q)
                   /\ \A p \in handled \cup {place} :
                        Answers(list, exports, role, p) => p = q \/ Before(q, p)
                   /\ \E x \in DOMAIN after : after[x][1] = role
                   /\ \A x \in DOMAIN after :
                        after[x][1] = role => after[x][2] = At(list, q).symbol
<1>1. SUFFICES ASSUME NEW role PROVE Is(role)
  BY DEF FirstResolved
<1>2. Was(role)
  BY DEF FirstResolved
<1>3. CASE binding.symbol \notin exports \/ taken
  <2>1. after = addresses
    BY <1>3 DEF AddAddress
  <2>2. CASE Answers(list, exports, role, place)
    <3>1. \E x \in DOMAIN addresses : addresses[x][1] = role
      BY <1>3, <2>2 DEF Answers
    <3>. HIDE DEF after, binding
    <3>2. PICK q \in handled :
                 /\ Answers(list, exports, role, q)
                 /\ \A p \in handled : Answers(list, exports, role, p) => p = q \/ Before(q, p)
                 /\ \E x \in DOMAIN addresses : addresses[x][1] = role
                 /\ \A x \in DOMAIN addresses :
                      addresses[x][1] = role => addresses[x][2] = At(list, q).symbol
      BY <1>2, <3>1, Zenon
    <3>3. Before(q, place)
      BY <3>2
    <3>4. QED
      BY <2>1, <3>2, <3>3, Zenon
  <2>3. CASE ~ Answers(list, exports, role, place)
    <3>. HIDE DEF after, binding
    <3>1. QED
      BY <1>2, <2>1, <2>3, Zenon
  <2>4. QED
    BY <2>2, <2>3
<1>4. CASE ~ (binding.symbol \notin exports \/ taken)
  <2>1. /\ binding.symbol \in exports
        /\ \A i \in DOMAIN addresses : addresses[i][1] # binding.role
        /\ after = Append(addresses, <<binding.role, binding.symbol>>)
    BY <1>4 DEF AddAddress
  <2>2. /\ \A x \in DOMAIN addresses : x \in DOMAIN after /\ after[x] = addresses[x]
        /\ Len(after) \in DOMAIN after
        /\ after[Len(after)][1] = binding.role /\ after[Len(after)][2] = binding.symbol
        /\ \A x \in DOMAIN after : x \in DOMAIN addresses \/ x = Len(after)
    <3>1. <<binding.role, binding.symbol>> \in RoleAddress
      BY DEF RoleAddress, Binding
    <3>2. PICK e \in RoleAddress : e = <<binding.role, binding.symbol>>
      BY <3>1
    <3>3. e[1] = binding.role /\ e[2] = binding.symbol
      BY <3>2
    <3>4. after = Append(addresses, e)
      BY <2>1, <3>2
    <3>. HIDE DEF after, binding
    <3>5. QED
      BY <3>3, <3>4
  <2>3. CASE role = binding.role
    <3>1. \A p \in handled : ~ Answers(list, exports, role, p)
      BY <1>2, <2>1, <2>3
    <3>2. Answers(list, exports, role, place)
      BY <2>1, <2>3 DEF Answers
    <3>3. \A x \in DOMAIN after : after[x][1] = role => after[x][2] = At(list, place).symbol
      <4>. HIDE DEF after
      <4>1. QED
        BY <2>1, <2>2, <2>3
    <3>4. \E x \in DOMAIN after : after[x][1] = role
      <4>. HIDE DEF after
      <4>1. QED
        BY <2>2, <2>3
    <3>. HIDE DEF after, binding
    <3>5. QED
      BY <3>1, <3>2, <3>3, <3>4, Zenon
  <2>4. CASE role # binding.role
    <3>1. ~ Answers(list, exports, role, place)
      BY <2>4 DEF Answers
    <3>2. \A x \in DOMAIN after :
            after[x][1] = role => x \in DOMAIN addresses /\ after[x] = addresses[x]
      <4>. HIDE DEF after
      <4>1. QED
        BY <2>2, <2>4
    <3>3. \A x \in DOMAIN addresses : x \in DOMAIN after /\ after[x] = addresses[x]
      BY <2>2
    <3>. HIDE DEF after, binding
    <3>4. QED
      BY <1>2, <3>1, <3>2, <3>3, ZenonT(30)
  <2>5. QED
    BY <2>3, <2>4
<1>5. QED
  BY <1>3, <1>4

\* The places before the j-th binding of the i-th profile, and that one.
Upto(list, i, j) == {p \in Places(list) : p[1] < i \/ (p[1] = i /\ p[2] =< j)}

LEMMA PlacesAreNumbers ==
  ASSUME NEW list \in Seq(Profile)
  PROVE  \A p \in Places(list) :
           /\ p = <<p[1], p[2]>> /\ p[1] \in 1 .. Len(list)
           /\ list[p[1]].bindings \in Seq(Binding)
           /\ p[2] \in 1 .. Len(list[p[1]].bindings)
<1>1. SUFFICES ASSUME NEW i \in DOMAIN list, NEW j \in DOMAIN list[i].bindings
      PROVE  /\ i \in 1 .. Len(list) /\ list[i].bindings \in Seq(Binding)
             /\ j \in 1 .. Len(list[i].bindings)
  BY DEF Places
<1>2. i \in 1 .. Len(list) /\ list[i] \in Profile
  OBVIOUS
<1>3. list[i].bindings \in Seq(Binding)
  BY <1>2 DEF Profile
<1>4. QED
  BY <1>2, <1>3

\* The inner loop takes the addresses from one profile's first place to its last.
LEMMA NextProfile ==
  ASSUME NEW base \in Seq(RoleAddress), NEW list \in Seq(Profile), NEW exports,
         NEW i \in 1 .. Len(list),
         FirstResolved(base, list, exports, Upto(list, i, 0))
  PROVE  /\ AddAddresses(base, list[i].bindings, exports) \in Seq(RoleAddress)
         /\ FirstResolved(AddAddresses(base, list[i].bindings, exports), list, exports,
                          Upto(list, i, Len(list[i].bindings)))
<1>0. PICK bindings \in Seq(Binding) : bindings = list[i].bindings
  <2>1. list[i] \in Profile
    OBVIOUS
  <2>2. QED
    BY <2>1 DEF Profile
<1>. DEFINE n == Len(bindings)
<1>1. n \in Nat /\ i \in Nat
  OBVIOUS
<1>2. PICK f \in [0 .. n -> Seq(RoleAddress)] :
        /\ f[0] = base
        /\ \A k \in 1 .. n : f[k] = AddAddress(f[k - 1], bindings[k], exports)
        /\ AddAddresses(base, bindings, exports) = f[n]
  <2>1. \E f : f \in InnerTurns(base, bindings, exports)
    BY AddAddressesFacts, Zenon
  <2>2. QED
    BY <2>1 DEF InnerTurns
<1>. DEFINE G == {k \in 0 .. n : FirstResolved(f[k], list, exports, Upto(list, i, k))}
<1>3. 0 \in G
  BY <1>1, <1>2
<1>4. ASSUME NEW k \in 1 .. n, k - 1 \in G PROVE k \in G
  <2>1. k - 1 \in 0 .. n /\ k \in 0 .. n
    BY <1>1
  <2>2. f[k - 1] \in Seq(RoleAddress)
    BY <1>2, <2>1
  <2>3. FirstResolved(f[k - 1], list, exports, Upto(list, i, k - 1))
    BY <1>4
  <2>4. PICK place : place = <<i, k>>
    OBVIOUS
  <2>5. At(list, place) = bindings[k] /\ At(list, place) \in Binding
    BY <1>0, <1>1, <2>4 DEF At
  <2>6. place \in Places(list)
    BY <1>0, <1>1, <2>4 DEF Places
  <2>7. \A p \in Upto(list, i, k - 1) : Before(p, place)
    BY <1>1, <2>4, PlacesAreNumbers DEF Upto, Before
  <2>8. Upto(list, i, k) = Upto(list, i, k - 1) \cup {place}
    <3>1. ASSUME NEW p \in Places(list)
          PROVE  (p[1] < i \/ (p[1] = i /\ p[2] =< k)) <=>
                 ((p[1] < i \/ (p[1] = i /\ p[2] =< k - 1)) \/ p = place)
      <4>1. p = <<p[1], p[2]>> /\ p[1] \in Nat /\ p[2] \in Nat
        BY PlacesAreNumbers
      <4>2. p = place <=> p[1] = i /\ p[2] = k
        BY <2>4, <4>1
      <4>3. QED
        BY <1>1, <4>1, <4>2
    <3>2. QED
      BY <2>6, <3>1 DEF Upto
  <2>9. FirstResolved(AddAddress(f[k - 1], At(list, place), exports), list, exports,
                      Upto(list, i, k - 1) \cup {place})
    BY <2>2, <2>3, <2>5, <2>7, NextPlace
  <2>10. f[k] = AddAddress(f[k - 1], At(list, place), exports)
    BY <1>2, <2>5
  <2>11. QED
    BY <2>1, <2>8, <2>9, <2>10
<1>5. \A k \in 0 .. n : k \in G
  <2>. HIDE DEF G, n
  <2>1. QED
    BY <1>1, <1>3, <1>4, InductionToN
<1>6. n \in G /\ f[n] \in Seq(RoleAddress)
  BY <1>1, <1>2, <1>5
<1>7. QED
  BY <1>0, <1>2, <1>6

\* The outer loop.
LEMMA AddressesFacts ==
  ASSUME NEW list \in Seq(Profile), NEW exports
  PROVE  \E f \in [0 .. Len(list) -> Seq(RoleAddress)] :
           /\ f[0] = << >>
           /\ \A k \in 1 .. Len(list) : f[k] = AddAddresses(f[k - 1], list[k].bindings, exports)
           /\ Addresses(list, exports) = f[Len(list)]
<1>. DEFINE V == Seq(RoleAddress)
            n == Len(list)
            step == [k \in 1 .. n |-> [v \in V |-> AddAddresses(v, list[k].bindings, exports)]]
            Def(f) == [k \in 0 .. n |->
                         IF k = 0 THEN << >> ELSE AddAddresses(f[k - 1], list[k].bindings, exports)]
            after == CHOOSE f : f = Def(f)
<1>1. /\ n \in Nat /\ << >> \in V
      /\ \A k \in 1 .. n, v \in V : AddAddresses(v, list[k].bindings, exports) \in V
  <2>1. n \in Nat /\ << >> \in V
    OBVIOUS
  <2>2. ASSUME NEW k \in 1 .. n, NEW v \in V
        PROVE  AddAddresses(v, list[k].bindings, exports) \in V
    <3>1. list[k] \in Profile
      OBVIOUS
    <3>2. PICK bindings \in Seq(Binding) : bindings = list[k].bindings
      BY <3>1 DEF Profile
    <3>3. PICK f \in [0 .. Len(bindings) -> Seq(RoleAddress)] :
             AddAddresses(v, bindings, exports) = f[Len(bindings)]
      <4>1. \E f : f \in InnerTurns(v, bindings, exports)
        BY AddAddressesFacts, Zenon
      <4>2. QED
        BY <4>1 DEF InnerTurns
    <3>4. Len(bindings) \in 0 .. Len(bindings)
      OBVIOUS
    <3>5. QED
      BY <3>2, <3>3, <3>4
  <2>3. QED
    BY <2>1, <2>2
<1>2. PICK f \in [0 .. n -> V] :
         f[0] = << >> /\ \A k \in 1 .. n : f[k] = step[k][f[k - 1]]
  <2>. HIDE DEF V, n
  <2>1. step \in [1 .. n -> [V -> V]]
    BY <1>1
  <2>. HIDE DEF step, after, Def
  <2>2. \E f : f \in Recursions(V, << >>, n, step)
    BY <1>1, <2>1, RecursionToN, Zenon
  <2>3. QED
    BY <2>2 DEF Recursions
<1>3. ASSUME NEW k \in 1 .. n PROVE f[k] = AddAddresses(f[k - 1], list[k].bindings, exports)
  <2>. HIDE DEF V, n
  <2>1. k - 1 \in 0 .. n
    BY <1>1
  <2>2. f[k - 1] \in V
    BY <1>2, <2>1
  <2>3. f[k] = step[k][f[k - 1]]
    BY <1>2
  <2>4. QED
    BY <2>2, <2>3
<1>4. f = Def(f)
  <2>. HIDE DEF V, n
  <2>1. /\ f = [k \in 0 .. n |-> f[k]]
        /\ \A k \in 0 .. n : k = 0 \/ k \in 1 .. n
        /\ \A k \in 1 .. n : k # 0
    BY <1>1, <1>2
  <2>2. \A k \in 0 .. n :
          f[k] = IF k = 0 THEN << >> ELSE AddAddresses(f[k - 1], list[k].bindings, exports)
    BY <1>2, <1>3, <2>1
  <2>3. QED
    BY <2>1, <2>2, Zenon
<1>5. after = Def(after)
  <2>. HIDE DEF Def
  <2>1. QED
    BY <1>4
<1>6. Addresses(list, exports) = after[n]
  BY DEF Addresses
<1>7. /\ after[0] = << >>
      /\ \A k \in 1 .. n : after[k] = AddAddresses(after[k - 1], list[k].bindings, exports)
  <2>. HIDE DEF V, n, step, after
  <2>1. after[0] = << >>
    BY <1>1, <1>5
  <2>2. ASSUME NEW k \in 1 .. n
        PROVE  after[k] = AddAddresses(after[k - 1], list[k].bindings, exports)
    <3>1. k \in 0 .. n /\ k # 0
      BY <1>1
    <3>2. after[k] = Def(after)[k]
      BY <1>5, Zenon
    <3>3. QED
      BY <3>1, <3>2
  <2>3. QED
    BY <2>1, <2>2
<1>8. after \in [0 .. n -> V]
  <2>. DEFINE G == {k \in 0 .. n : after[k] \in V}
  <2>. HIDE DEF V, n, step, after
  <2>1. 0 \in G /\ \A k \in 1 .. n : k - 1 \in G => k \in G
    BY <1>1, <1>7
  <2>2. \A k \in 0 .. n : k \in G
    <3>. HIDE DEF G
    <3>1. QED
      BY <1>1, <2>1, InductionToN
  <2>3. after = [k \in 0 .. n |-> after[k]]
    BY <1>5
  <2>4. QED
    BY <2>2, <2>3
<1>9. QED
  <2>. HIDE DEF V, n, step, after
  <2>1. n = Len(list) /\ V = Seq(RoleAddress)
    BY DEF n, V
  <2>2. QED
    BY <1>6, <1>7, <1>8, <2>1, Zenon

\* Both loops together look at every place.
LEMMA AddressesResolveFirst ==
  ASSUME NEW list \in Seq(Profile), NEW exports
  PROVE  /\ Addresses(list, exports) \in Seq(RoleAddress)
         /\ FirstResolved(Addresses(list, exports), list, exports, Places(list))
<1>. DEFINE n == Len(list)
<1>1. n \in Nat
  OBVIOUS
<1>2. PICK f \in [0 .. n -> Seq(RoleAddress)] :
        /\ f[0] = << >>
        /\ \A k \in 1 .. n : f[k] = AddAddresses(f[k - 1], list[k].bindings, exports)
        /\ Addresses(list, exports) = f[n]
  BY AddressesFacts, Zenon
<1>. DEFINE Till(k) == {p \in Places(list) : p[1] =< k}
            G == {k \in 0 .. n : FirstResolved(f[k], list, exports, Till(k))}
<1>3. 0 \in G
  <2>1. Till(0) = {}
    BY PlacesAreNumbers
  <2>2. FirstResolved(f[0], list, exports, {})
    BY <1>2 DEF FirstResolved
  <2>3. QED
    BY <1>1, <2>1, <2>2
<1>4. ASSUME NEW k \in 1 .. n, k - 1 \in G PROVE k \in G
  <2>1. k - 1 \in 0 .. n /\ k \in 0 .. n /\ f[k - 1] \in Seq(RoleAddress)
    BY <1>1, <1>2
  <2>2. Till(k - 1) = Upto(list, k, 0)
    BY <1>1, PlacesAreNumbers DEF Upto
  <2>3. Till(k) = Upto(list, k, Len(list[k].bindings))
    BY <1>1, PlacesAreNumbers DEF Upto
  <2>4. FirstResolved(f[k - 1], list, exports, Upto(list, k, 0))
    BY <1>4, <2>2
  <2>. HIDE DEF Till
  <2>5. FirstResolved(AddAddresses(f[k - 1], list[k].bindings, exports), list, exports,
                      Upto(list, k, Len(list[k].bindings)))
    BY <2>1, <2>4, NextProfile, Zenon
  <2>6. QED
    BY <1>2, <2>1, <2>3, <2>5
<1>5. \A k \in 0 .. n : k \in G
  <2>. HIDE DEF G, n
  <2>1. QED
    BY <1>1, <1>3, <1>4, InductionToN
<1>6. n \in G /\ f[n] \in Seq(RoleAddress)
  BY <1>1, <1>2, <1>5
<1>7. Till(n) = Places(list)
  BY PlacesAreNumbers
<1>8. QED
  BY <1>2, <1>6, <1>7

\* For each role the addresses are what Prober.tla calls the role's address.
LEMMA AddressesAsProber ==
  ASSUME NEW list \in Seq(Profile), NEW exports, NEW role, None \notin STRING
  PROVE  {Addresses(list, exports)[i][2] :
            i \in {j \in DOMAIN Addresses(list, exports) : Addresses(list, exports)[j][1] = role}}
           = {Address(list, exports, role)} \ {None}
<1>1. PICK addresses : addresses = Addresses(list, exports)
  OBVIOUS
<1>. DEFINE resolved == {p \in PlacesFor(list, role) : At(list, p).symbol \in exports}
<1>2. \A p \in Places(list) : p \in resolved <=> Answers(list, exports, role, p)
  BY DEF Answers, PlacesFor
<1>3. resolved \subseteq Places(list)
  BY DEF PlacesFor
<1>4. Address(list, exports, role) =
        IF resolved = {} THEN None ELSE At(list, Foremost(resolved)).symbol
  BY DEF Address
<1>5. FirstResolved(addresses, list, exports, Places(list))
  BY <1>1, AddressesResolveFirst
<1>6. \/ /\ \A x \in DOMAIN addresses : addresses[x][1] # role
         /\ \A p \in Places(list) : ~ Answers(list, exports, role, p)
      \/ \E q \in Places(list) :
           /\ Answers(list, exports, role, q)
           /\ \A p \in Places(list) : Answers(list, exports, role, p) => p = q \/ Before(q, p)
           /\ \E x \in DOMAIN addresses : addresses[x][1] = role
           /\ \A x \in DOMAIN addresses :
                addresses[x][1] = role => addresses[x][2] = At(list, q).symbol
  BY <1>5 DEF FirstResolved
<1>. HIDE DEF resolved
<1>7. CASE resolved = {}
  <2>1. Address(list, exports, role) = None
    BY <1>4, <1>7
  <2>2. \A x \in DOMAIN addresses : addresses[x][1] # role
    BY <1>2, <1>6, <1>7
  <2>3. QED
    BY <1>1, <2>1, <2>2
<1>8. CASE resolved # {}
  <2>1. PICK q \in Places(list) :
           /\ Answers(list, exports, role, q)
           /\ \A p \in Places(list) : Answers(list, exports, role, p) => p = q \/ Before(q, p)
           /\ \E x \in DOMAIN addresses : addresses[x][1] = role
           /\ \A x \in DOMAIN addresses :
                addresses[x][1] = role => addresses[x][2] = At(list, q).symbol
    BY <1>2, <1>3, <1>6, <1>8, Zenon
  <2>2. q \in resolved /\ \A p \in resolved : p = q \/ Before(q, p)
    BY <1>2, <1>3, <2>1
  <2>3. resolved \subseteq Nat \X Nat
    BY <1>3, PlacesAreNumbers
  <2>4. /\ Foremost(resolved) \in resolved
        /\ \A p \in resolved : Foremost(resolved) = p \/ Before(Foremost(resolved), p)
    BY <1>8, <2>3, ForemostIsFirst, Zenon
  <2>5. Foremost(resolved) = q
    <3>1. PICK r \in resolved : r = Foremost(resolved)
      BY <2>4
    <3>2. r[1] \in Nat /\ r[2] \in Nat /\ q[1] \in Nat /\ q[2] \in Nat
      BY <2>2, <2>3
    <3>3. (r = q \/ Before(r, q)) /\ (r = q \/ Before(q, r))
      BY <2>2, <2>4, <3>1
    <3>4. QED
      BY <3>1, <3>2, <3>3 DEF Before
  <2>6. Address(list, exports, role) = At(list, q).symbol
    BY <1>4, <1>8, <2>5
  <2>7. At(list, q).symbol # None
    <3>1. At(list, q) \in Binding
      <4>1. q = <<q[1], q[2]>> /\ list[q[1]].bindings \in Seq(Binding)
            /\ q[2] \in 1 .. Len(list[q[1]].bindings)
        BY PlacesAreNumbers
      <4>2. list[q[1]].bindings[q[2]] \in Binding
        BY <4>1
      <4>3. QED
        BY <4>2 DEF At
    <3>2. At(list, q).symbol \in STRING
      BY <3>1 DEF Binding
    <3>3. QED
      BY <3>2
  <2>8. QED
    BY <1>1, <2>1, <2>6, <2>7, Zenon
<1>9. QED
  BY <1>7, <1>8

-----------------------------------------------------------------------------
(* The loop of bindFirstAvailable. *)

Loads(c) == Modules[disk[candidates[c]]].loads
Fits(c) == SatisfiedBy(profiles, Exports(candidates[c])) # << >>
LoadedOf(n) == {i \in 1 .. n : Loads(i)}

LoopTypes ==
  /\ candidates \in Seq(DOMAIN disk)
  /\ profiles \in Seq(Profile)
  /\ tried \in 0 .. Len(candidates)
  /\ profile \in 0 .. Len(profiles)

\* What the loop is past loads not, or fits no profile.
NoneSoFar == \A c \in 1 .. tried : ~ (Loads(c) /\ Fits(c))

Trying ==
  /\ tried + 1 \in DOMAIN candidates
  /\ library = candidates[tried + 1]
  /\ Loads(tried + 1)
  /\ satisfied = SatisfiedAmong(profiles, Exports(library))[profile]

BindsFirst(c) ==
  /\ c \in DOMAIN candidates /\ Loads(c) /\ Fits(c)
  /\ \A d \in DOMAIN candidates : Loads(d) /\ Fits(d) => c =< d
  /\ attempt.engine = MakeEngine(candidates[c], SatisfiedBy(profiles, Exports(candidates[c])))
  /\ attempt.loaded = Cardinality(LoadedOf(c))

BindsNothing ==
  /\ \A c \in DOMAIN candidates : ~ (Loads(c) /\ Fits(c))
  /\ attempt.engine = NoEngine
  /\ profiles # << >> => attempt.loaded = Cardinality(LoadedOf(Len(candidates)))

LoopInv ==
  /\ at = "scan" => tried = 0 /\ attempt.engine = NoEngine /\ attempt.loaded = 0
  /\ at \in {"load", "try"} => attempt.engine = NoEngine /\ profiles # << >> /\ NoneSoFar
  /\ at = "load" => attempt.loaded = Cardinality(LoadedOf(tried))
  /\ at = "try" => Trying /\ attempt.loaded = Cardinality(LoadedOf(tried + 1))
  /\ at = "return" => BindsNothing \/ \E c \in DOMAIN candidates : BindsFirst(c)

BindingInv == BinderInv /\ LoopTypes /\ LoopInv

\* Of one more candidate, counted when it loads.
LEMMA LoadedNext ==
  ASSUME NEW n \in Nat
  PROVE  /\ Loads(n + 1) => Cardinality(LoadedOf(n + 1)) = Cardinality(LoadedOf(n)) + 1
         /\ ~ Loads(n + 1) => LoadedOf(n + 1) = LoadedOf(n)
<1>1. \A i \in Int : i \in 1 .. n + 1 <=> (i \in 1 .. n \/ i = n + 1)
  OBVIOUS
<1>2. IsFiniteSet(LoadedOf(n)) /\ n + 1 \notin LoadedOf(n)
  <2>1. IsFiniteSet(1 .. n)
    BY FS_Interval
  <2>2. LoadedOf(n) \subseteq 1 .. n
    BY DEF LoadedOf
  <2>3. IsFiniteSet(LoadedOf(n))
    BY <2>1, <2>2, FS_Subset
  <2>4. QED
    BY <2>2, <2>3
<1>3. Loads(n + 1) => LoadedOf(n + 1) = LoadedOf(n) \cup {n + 1}
  BY <1>1 DEF LoadedOf
<1>4. ~ Loads(n + 1) => LoadedOf(n + 1) = LoadedOf(n)
  BY <1>1 DEF LoadedOf
<1>5. Cardinality(LoadedOf(n) \cup {n + 1}) = Cardinality(LoadedOf(n)) + 1
  BY <1>2, FS_AddElement
<1>6. QED
  BY <1>3, <1>4, <1>5

LEMMA BindingInv_Init == BinderInit => BindingInv
<1>. SUFFICES ASSUME BinderInit PROVE BindingInv
  OBVIOUS
<1>1. BinderInv
  BY BinderInv_Init
<1>2. LoopTypes
  BY BinderAssumption DEF BinderInit, ScanInit, LoopTypes
<1>3. LoopInv
  BY DEF BinderInit, LoopInv
<1>4. QED
  BY <1>1, <1>2, <1>3 DEF BindingInv

\* The search finds files and nothing else.
LEMMA CandidatesAreFiles ==
  candidates \in Seq(DOMAIN disk) /\ ScanNext => candidates' \in Seq(DOMAIN disk)
<1>. SUFFICES ASSUME candidates \in Seq(DOMAIN disk), ScanNext
     PROVE  candidates' \in Seq(DOMAIN disk)
  OBVIOUS
<1>1. CASE Examine
  <2>1. PICK e \in DOMAIN disk : e = Entry
    BY <1>1 DEF Examine, IsFile
  <2>2. Append(candidates, e) \in Seq(DOMAIN disk)
    OBVIOUS
  <2>3. candidates' = candidates \/ candidates' = Append(candidates, e)
    BY <1>1, <2>1 DEF Examine
  <2>4. QED
    BY <2>2, <2>3
<1>2. CASE ~ Examine
  BY <1>2 DEF ScanNext, TakeRoot, Return, StopShort, Skip, Descend, inputVars, resultVars
<1>3. QED
  BY <1>1, <1>2

LEMMA LoopTypes_Step == BindingInv /\ [BinderNext]_binderVars => LoopTypes'
<1>. SUFFICES ASSUME BindingInv, [BinderNext]_binderVars PROVE LoopTypes'
  OBVIOUS
<1>. USE DEF BindingInv, LoopTypes
<1>1. CASE Search
  <2>1. candidates' \in Seq(DOMAIN disk) /\ disk' = disk
    BY <1>1, CandidatesAreFiles, ScanKeepsDisk DEF Search
  <2>2. /\ profiles' = profiles /\ tried' = tried /\ profile' = profile
        /\ tried = 0
    BY <1>1 DEF Search, bindVars, LoopInv
  <2>3. QED
    BY <2>1, <2>2
<1>2. CASE ~ Search
  <2>1. candidates' = candidates /\ disk' = disk /\ profiles' = profiles
    BY <1>2 DEF BinderNext, Searched, Load, NothingFits, TryProfile, Discard, Adopt, Destroy,
                binderVars, bindVars, scanVars, inputVars, resultVars
  <2>2. tried' \in 0 .. Len(candidates)
    BY <1>2 DEF BinderNext, Searched, Load, NothingFits, TryProfile, Discard, Adopt, Destroy,
                binderVars, bindVars, LoopInv, Trying
  <2>3. profile' \in 0 .. Len(profiles)
    BY <1>2 DEF BinderNext, Searched, Load, NothingFits, TryProfile, Discard, Adopt, Destroy,
                binderVars, bindVars
  <2>4. QED
    BY <2>1, <2>2, <2>3
<1>3. QED
  BY <1>1, <1>2

\* While the disk, the candidates and the profiles stay, so does the answer to
\* every question about them.
LEMMA AskedTheSame ==
  UNCHANGED <<disk, candidates, profiles>> =>
    \A c : (Loads(c) <=> Loads(c)') /\ (Fits(c) <=> Fits(c)') /\ LoadedOf(c)' = LoadedOf(c)
<1>. SUFFICES ASSUME UNCHANGED <<disk, candidates, profiles>>, NEW c
     PROVE  (Loads(c) <=> Loads(c)') /\ (Fits(c) <=> Fits(c)') /\ LoadedOf(c)' = LoadedOf(c)
  OBVIOUS
<1>1. \A d : Loads(d) <=> Loads(d)'
  BY DEF Loads
<1>2. Fits(c) <=> Fits(c)'
  BY DEF Fits, Exports
<1>3. LoadedOf(c)' = LoadedOf(c)
  BY <1>1 DEF LoadedOf
<1>4. QED
  BY <1>1, <1>2, <1>3

\* Without profiles nothing fits.
LEMMA NothingFitsNone == profiles = << >> => \A c : ~ Fits(c)
<1>1. << >> \in Seq(Profile) /\ Len(<< >>) = 0
  OBVIOUS
<1>2. \A exports : SatisfiedBy(<< >>, exports) = << >>
  BY <1>1, SatisfiedAmongFacts DEF SatisfiedBy
<1>3. QED
  BY <1>2 DEF Fits

LEMMA LoopInv_Search == LoopInv /\ Search => LoopInv'
BY DEF LoopInv, Search, bindVars

LEMMA LoopInv_Searched == BindingInv /\ Searched => LoopInv'
<1>. SUFFICES ASSUME BindingInv, Searched PROVE LoopInv'
  OBVIOUS
<1>1. UNCHANGED <<disk, candidates, profiles, attempt, tried>>
  BY DEF Searched, scanVars, inputVars, resultVars
<1>2. tried = 0 /\ attempt.engine = NoEngine /\ attempt.loaded = 0
  BY DEF Searched, BindingInv, LoopInv
<1>3. CASE profiles = << >>
  <2>1. at' = "return"
    BY <1>3 DEF Searched
  <2>2. BindsNothing'
    BY <1>1, <1>2, <1>3, AskedTheSame, NothingFitsNone DEF BindsNothing
  <2>3. QED
    BY <2>1, <2>2 DEF LoopInv
<1>4. CASE profiles # << >>
  <2>1. at' = "load"
    BY <1>4 DEF Searched
  <2>2. NoneSoFar'
    BY <1>1, <1>2 DEF NoneSoFar
  <2>3. LoadedOf(tried)' = {}
    BY <1>1, <1>2 DEF LoadedOf
  <2>4. (attempt.loaded = Cardinality(LoadedOf(tried)))'
    BY <1>1, <1>2, <2>3, FS_EmptySet
  <2>5. QED
    BY <1>1, <1>2, <1>4, <2>1, <2>2, <2>4 DEF LoopInv
<1>5. QED
  BY <1>3, <1>4

LEMMA LoopInv_Load == BindingInv /\ Load => LoopInv'
<1>. SUFFICES ASSUME BindingInv, Load PROVE LoopInv'
  OBVIOUS
<1>1. UNCHANGED <<disk, candidates, profiles>>
  BY DEF Load, scanVars, inputVars, resultVars
<1>2. /\ at = "load" /\ attempt.engine = NoEngine /\ profiles # << >> /\ NoneSoFar
      /\ attempt.loaded = Cardinality(LoadedOf(tried))
      /\ tried \in Nat /\ tried + 1 \in DOMAIN candidates
      /\ profiles \in Seq(Profile)
      /\ DOMAIN attempt = {"engine", "loaded", "tried"}
  BY DEF Load, BindingInv, BinderInv, OwnersTakeTurns, LoopInv, LoopTypes
<1>3. CASE Loads(tried + 1)
  <2>1. /\ at' = "try" /\ library' = candidates[tried + 1] /\ tried' = tried
        /\ attempt' = [attempt EXCEPT !.loaded = @ + 1] /\ satisfied' = << >> /\ profile' = 0
    BY <1>3 DEF Load, Loads
  <2>2. attempt'.engine = NoEngine /\ attempt'.loaded = attempt.loaded + 1
    BY <1>2, <2>1
  <2>3. NoneSoFar'
    BY <1>1, <1>2, <2>1, AskedTheSame DEF NoneSoFar
  <2>4. Trying'
    <3>1. SatisfiedAmong(profiles, Exports(library)')[0] = << >>
      BY <1>2, SatisfiedAmongFacts
    <3>2. Modules[disk'[candidates'[tried' + 1]]].loads
      BY <1>1, <1>3, <2>1 DEF Loads
    <3>3. (satisfied = SatisfiedAmong(profiles, Exports(library))[profile])'
      BY <1>1, <2>1, <3>1
    <3>4. QED
      BY <1>1, <1>2, <2>1, <3>2, <3>3 DEF Trying, Loads
  <2>5. (attempt.loaded = Cardinality(LoadedOf(tried + 1)))'
    <3>1. PICK n \in Nat : n = tried
      BY <1>2
    <3>2. Cardinality(LoadedOf(n + 1)) = Cardinality(LoadedOf(n)) + 1
      BY <1>3, <3>1, LoadedNext
    <3>3. LoadedOf(tried + 1)' = LoadedOf(n + 1)
      BY <1>1, <2>1, <3>1 DEF LoadedOf, Loads
    <3>4. QED
      BY <1>2, <2>2, <3>1, <3>2, <3>3
  <2>6. QED
    BY <1>1, <1>2, <2>1, <2>2, <2>3, <2>4, <2>5 DEF LoopInv
<1>4. CASE ~ Loads(tried + 1)
  <2>1. at' = "load" /\ tried' = tried + 1 /\ attempt' = attempt
    BY <1>2, <1>4 DEF Load, Loads
  <2>2. NoneSoFar'
    <3>1. \A c \in 1 .. tried + 1 : c \in 1 .. tried \/ c = tried + 1
      BY <1>2
    <3>2. \A c \in 1 .. tried + 1 : ~ (Loads(c) /\ Fits(c))
      BY <1>2, <1>4, <3>1 DEF NoneSoFar
    <3>3. QED
      BY <1>1, <2>1, <3>2, AskedTheSame DEF NoneSoFar
  <2>3. (attempt.loaded = Cardinality(LoadedOf(tried)))'
    <3>1. LoadedOf(tried + 1) = LoadedOf(tried)
      <4>1. PICK n \in Nat : n = tried
        BY <1>2
      <4>2. QED
        BY <1>4, <4>1, LoadedNext
    <3>2. LoadedOf(tried)' = LoadedOf(tried + 1)
      BY <1>1, <2>1 DEF LoadedOf, Loads
    <3>3. QED
      BY <1>2, <2>1, <3>1, <3>2
  <2>4. QED
    BY <1>1, <1>2, <2>1, <2>2, <2>3 DEF LoopInv
<1>5. QED
  BY <1>3, <1>4

LEMMA LoopInv_NothingFits == BindingInv /\ NothingFits => LoopInv'
<1>. SUFFICES ASSUME BindingInv, NothingFits PROVE LoopInv'
  OBVIOUS
<1>1. UNCHANGED <<disk, candidates, profiles, attempt>> /\ at' = "return"
  BY DEF NothingFits, scanVars, inputVars, resultVars
<1>2. /\ attempt.engine = NoEngine /\ NoneSoFar /\ tried = Len(candidates)
      /\ attempt.loaded = Cardinality(LoadedOf(tried))
      /\ DOMAIN candidates = 1 .. Len(candidates)
  BY DEF NothingFits, BindingInv, LoopInv, LoopTypes
<1>3. \A c \in DOMAIN candidates : ~ (Loads(c) /\ Fits(c))
  BY <1>2 DEF NoneSoFar
<1>4. LoadedOf(Len(candidates))' = LoadedOf(tried)
  BY <1>1, <1>2 DEF LoadedOf, Loads
<1>5. BindsNothing'
  BY <1>1, <1>2, <1>3, <1>4, AskedTheSame DEF BindsNothing
<1>6. QED
  BY <1>1, <1>5 DEF LoopInv

LEMMA LoopInv_TryProfile == BindingInv /\ TryProfile => LoopInv'
<1>. SUFFICES ASSUME BindingInv, TryProfile PROVE LoopInv'
  OBVIOUS
<1>1. /\ UNCHANGED <<disk, candidates, profiles, tried, library, at>>
      /\ at = "try" /\ profile' = profile + 1 /\ profile < Len(profiles)
      /\ attempt' = [attempt EXCEPT !.tried = @ + 1]
  BY DEF TryProfile, scanVars, inputVars, resultVars
<1>2. /\ attempt.engine = NoEngine /\ profiles # << >> /\ NoneSoFar
      /\ Trying /\ attempt.loaded = Cardinality(LoadedOf(tried + 1))
      /\ profiles \in Seq(Profile) /\ profile \in Nat
      /\ DOMAIN attempt = {"engine", "loaded", "tried"}
  BY <1>1 DEF BindingInv, BinderInv, OwnersTakeTurns, LoopInv, LoopTypes
<1>3. attempt'.engine = attempt.engine /\ attempt'.loaded = attempt.loaded
  BY <1>1, <1>2
<1>4. NoneSoFar'
  BY <1>1, <1>2, AskedTheSame DEF NoneSoFar
<1>5. Trying'
  <2>1. PICK exports : exports = Exports(library)
    OBVIOUS
  <2>2. profile + 1 \in 1 .. Len(profiles) /\ (profile + 1) - 1 = profile
    BY <1>1, <1>2
  <2>3. SatisfiedAmong(profiles, exports)[profile + 1] =
          IF Satisfied(profiles[profile + 1], exports)
          THEN Append(SatisfiedAmong(profiles, exports)[profile], profiles[profile + 1])
          ELSE SatisfiedAmong(profiles, exports)[profile]
    <3>1. PICK k \in 1 .. Len(profiles) : k = profile + 1
      BY <2>2
    <3>2. SatisfiedAmong(profiles, exports)[k] =
            IF Satisfied(profiles[k], exports)
            THEN Append(SatisfiedAmong(profiles, exports)[k - 1], profiles[k])
            ELSE SatisfiedAmong(profiles, exports)[k - 1]
      BY <1>2, SatisfiedAmongFacts
    <3>3. QED
      BY <2>2, <3>1, <3>2
  <2>4. satisfied' = SatisfiedAmong(profiles, exports)[profile + 1]
    BY <1>2, <2>1, <2>3 DEF TryProfile, Trying
  <2>5. Exports(library)' = exports
    BY <1>1, <2>1 DEF Exports
  <2>6. (satisfied = SatisfiedAmong(profiles, Exports(library))[profile])'
    BY <1>1, <2>4, <2>5
  <2>7. Modules[disk'[candidates'[tried' + 1]]].loads
    BY <1>1, <1>2 DEF Trying, Loads
  <2>8. (tried + 1 \in DOMAIN candidates /\ library = candidates[tried + 1])'
    BY <1>1, <1>2 DEF Trying
  <2>9. QED
    BY <2>6, <2>7, <2>8 DEF Trying, Loads
<1>6. (attempt.loaded = Cardinality(LoadedOf(tried + 1)))'
  <2>1. LoadedOf(tried + 1)' = LoadedOf(tried + 1)
    BY <1>1 DEF LoadedOf, Loads
  <2>2. QED
    BY <1>2, <1>3, <2>1
<1>7. QED
  BY <1>1, <1>2, <1>3, <1>4, <1>5, <1>6 DEF LoopInv

\* With every profile tried, what the module has satisfied is what SatisfiedBy says.
LEMMA TriedThemAll ==
  BindingInv /\ at = "try" /\ profile = Len(profiles) =>
    /\ satisfied = SatisfiedBy(profiles, Exports(library))
    /\ library = candidates[tried + 1] /\ tried + 1 \in DOMAIN candidates /\ Loads(tried + 1)
    /\ Fits(tried + 1) <=> satisfied # << >>
BY DEF BindingInv, LoopInv, Trying, SatisfiedBy, Fits

LEMMA LoopInv_Discard == BindingInv /\ Discard => LoopInv'
<1>. SUFFICES ASSUME BindingInv, Discard PROVE LoopInv'
  OBVIOUS
<1>1. /\ UNCHANGED <<disk, candidates, profiles, attempt>>
      /\ at = "try" /\ at' = "load" /\ tried' = tried + 1
      /\ profile = Len(profiles) /\ satisfied = << >>
  BY DEF Discard, scanVars, inputVars, resultVars
<1>2. /\ attempt.engine = NoEngine /\ profiles # << >> /\ NoneSoFar
      /\ attempt.loaded = Cardinality(LoadedOf(tried + 1)) /\ tried \in Nat
  BY <1>1 DEF BindingInv, LoopInv, LoopTypes
<1>3. ~ Fits(tried + 1)
  BY <1>1, TriedThemAll
<1>4. NoneSoFar'
  <2>1. \A c \in 1 .. tried + 1 : c \in 1 .. tried \/ c = tried + 1
    BY <1>2
  <2>2. \A c \in 1 .. tried + 1 : ~ (Loads(c) /\ Fits(c))
    BY <1>2, <1>3, <2>1 DEF NoneSoFar
  <2>3. QED
    BY <1>1, <2>2, AskedTheSame DEF NoneSoFar
<1>5. (attempt.loaded = Cardinality(LoadedOf(tried)))'
  <2>1. LoadedOf(tried)' = LoadedOf(tried + 1)
    BY <1>1 DEF LoadedOf, Loads
  <2>2. QED
    BY <1>1, <1>2, <2>1
<1>6. QED
  BY <1>1, <1>2, <1>4, <1>5 DEF LoopInv

LEMMA LoopInv_Adopt == BindingInv /\ Adopt => LoopInv'
<1>. SUFFICES ASSUME BindingInv, Adopt PROVE LoopInv'
  OBVIOUS
<1>1. /\ UNCHANGED <<disk, candidates, profiles>>
      /\ at = "try" /\ at' = "return"
      /\ profile = Len(profiles) /\ satisfied # << >>
      /\ attempt' = [attempt EXCEPT !.engine = MakeEngine(library, satisfied)]
  BY DEF Adopt, scanVars, inputVars, resultVars
<1>2. /\ NoneSoFar
      /\ attempt.loaded = Cardinality(LoadedOf(tried + 1)) /\ tried \in Nat
      /\ DOMAIN attempt = {"engine", "loaded", "tried"}
      /\ candidates \in Seq(DOMAIN disk)
  BY <1>1 DEF BindingInv, BinderInv, OwnersTakeTurns, LoopInv, LoopTypes
<1>3. PICK c \in DOMAIN candidates : c = tried + 1
  BY <1>1, TriedThemAll
<1>4. /\ satisfied = SatisfiedBy(profiles, Exports(candidates[c])) /\ library = candidates[c]
      /\ Loads(c) /\ Fits(c)
  BY <1>1, <1>3, TriedThemAll
<1>5. \A d \in DOMAIN candidates : Loads(d) /\ Fits(d) => c =< d
  <2>1. \A d \in DOMAIN candidates : d \in 1 .. tried \/ c =< d
    BY <1>2, <1>3
  <2>2. QED
    BY <1>2, <2>1 DEF NoneSoFar
<1>6. attempt'.loaded = attempt.loaded /\ attempt'.engine = MakeEngine(library, satisfied)
  BY <1>1, <1>2
<1>7. (attempt.engine = MakeEngine(candidates[c], SatisfiedBy(profiles, Exports(candidates[c]))))'
  <2>1. MakeEngine(library, satisfied)
          = MakeEngine(candidates[c], SatisfiedBy(profiles, Exports(candidates[c])))
    BY <1>4
  <2>2. MakeEngine(candidates[c], SatisfiedBy(profiles, Exports(candidates[c])))'
          = MakeEngine(candidates[c], SatisfiedBy(profiles, Exports(candidates[c])))
    BY <1>1 DEF MakeEngine, Exports
  <2>3. QED
    BY <1>6, <2>1, <2>2
<1>8. LoadedOf(c)' = LoadedOf(c)
  BY <1>1, AskedTheSame
<1>9. (attempt.loaded = Cardinality(LoadedOf(c)))'
  BY <1>2, <1>3, <1>6, <1>8
<1>10. /\ \A d : (Loads(d) <=> Loads(d)') /\ (Fits(d) <=> Fits(d)')
       /\ DOMAIN candidates' = DOMAIN candidates
  BY <1>1, AskedTheSame
<1>11. BindsFirst(c)'
  BY <1>3, <1>4, <1>5, <1>7, <1>9, <1>10 DEF BindsFirst
<1>12. (\E d \in DOMAIN candidates : BindsFirst(d))'
  BY <1>3, <1>10, <1>11
<1>13. QED
  BY <1>1, <1>12 DEF LoopInv

LEMMA LoopInv_Destroy == BindingInv /\ Destroy => LoopInv'
BY DEF Destroy, LoopInv

LEMMA BindingInv_Step == BindingInv /\ [BinderNext]_binderVars => BindingInv'
<1>. SUFFICES ASSUME BindingInv, [BinderNext]_binderVars PROVE BindingInv'
  OBVIOUS
<1>1. BinderInv' /\ LoopTypes'
  BY BinderInv_Step, LoopTypes_Step DEF BindingInv
<1>2. CASE UNCHANGED binderVars
  <2>1. UNCHANGED <<disk, candidates, profiles, at, tried, library, satisfied, profile, attempt>>
    BY <1>2 DEF binderVars, bindVars, scanVars, inputVars, resultVars
  <2>2. (LoopInv)' <=> LoopInv
    BY <2>1 DEF LoopInv, NoneSoFar, Trying, BindsNothing, BindsFirst, LoadedOf, Loads, Fits,
                Exports, MakeEngine
  <2>3. QED
    BY <1>1, <2>2 DEF BindingInv
<1>3. CASE BinderNext
  <2>1. LoopInv'
    BY <1>3, LoopInv_Search, LoopInv_Searched, LoopInv_Load, LoopInv_NothingFits,
       LoopInv_TryProfile, LoopInv_Discard, LoopInv_Adopt, LoopInv_Destroy
       DEF BinderNext, BindingInv
  <2>2. QED
    BY <1>1, <2>1 DEF BindingInv
<1>4. QED
  BY <1>2, <1>3

\* The candidates Prober.tla calls usable.
LEMMA UsableHere == Usable(Seen, profiles) = {c \in DOMAIN candidates : Loads(c) /\ Fits(c)}
<1>1. DOMAIN Seen = DOMAIN candidates
  BY DEF Seen
<1>2. ASSUME NEW c \in DOMAIN candidates
      PROVE  Seen[c].loads = Loads(c) /\ Seen[c].exports = Exports(candidates[c])
  BY DEF Seen, Loads, Exports
<1>3. QED
  BY <1>1, <1>2 DEF Usable, Fits

LEMMA NothingBoundAsProber ==
  ASSUME BindingInv, BindsNothing, at = "return"
  PROVE  BindsAsProber
<1>1. Usable(Seen, profiles) = {}
  BY UsableHere DEF BindsNothing
<1>2. BindFirstAvailable(Seen, profiles) = Unbound
  BY <1>1 DEF BindFirstAvailable
<1>3. attempt.engine = NoEngine
  BY DEF BindsNothing
<1>4. \A role : Address(<< >>, {}, role) = None
  BY DEF Address, PlacesFor, Places
<1>5. \A role : {attempt.engine.addresses[i][2] :
                   i \in {j \in DOMAIN attempt.engine.addresses :
                            attempt.engine.addresses[j][1] = role}}
                = {Address(Unbound.profiles, Unbound.exports, role)} \ {None}
  BY <1>3, <1>4 DEF NoEngine, Unbound
<1>6. attempt.engine.profiles = Unbound.profiles /\ attempt.engine.library = None
  BY <1>3 DEF NoEngine, Unbound
<1>7. profiles # << >> =>
        attempt.loaded = Cardinality({i \in DOMAIN Seen :
          Seen[i].loads /\ \A c \in Usable(Seen, profiles) : i =< c})
  <2>1. {i \in DOMAIN Seen : Seen[i].loads /\ \A c \in Usable(Seen, profiles) : i =< c}
          = LoadedOf(Len(candidates))
    <3>1. DOMAIN Seen = 1 .. Len(candidates)
      BY DEF Seen, BindingInv, LoopTypes
    <3>2. \A i \in DOMAIN Seen : Seen[i].loads = Loads(i)
      BY DEF Seen, Loads
    <3>3. QED
      BY <1>1, <3>1, <3>2 DEF LoadedOf
  <2>2. QED
    BY <2>1 DEF BindsNothing
<1>8. QED
  BY <1>1, <1>2, <1>5, <1>6, <1>7 DEF BindsAsProber

LEMMA FirstBoundAsProber ==
  ASSUME BindingInv, at = "return", NEW c \in DOMAIN candidates, BindsFirst(c)
  PROVE  BindsAsProber
<1>. DEFINE usable == Usable(Seen, profiles)
            bound == BindFirstAvailable(Seen, profiles)
            least == CHOOSE d \in usable : \A e \in usable : d =< e
<1>1. candidates \in Seq(DOMAIN disk) /\ c \in Nat /\ DOMAIN candidates = 1 .. Len(candidates)
  BY DEF BindingInv, LoopTypes
<1>2. c \in usable /\ usable \subseteq Nat /\ \A e \in usable : c =< e
  BY <1>1, UsableHere DEF BindsFirst
<1>3. least = c
  <2>. HIDE DEF usable
  <2>1. least \in usable /\ \A e \in usable : least =< e
    BY <1>2
  <2>. HIDE DEF least
  <2>2. QED
    BY <1>2, <2>1
<1>4. Min(usable) = c
  <2>1. Min(usable) = least
    BY DEF Min
  <2>2. QED
    BY <1>3, <2>1
<1>5. PICK exports : exports = Exports(candidates[c])
  OBVIOUS
<1>6. Seen[c].exports = exports
  BY <1>5 DEF Seen, Exports
<1>7. bound = [exports |-> exports, profiles |-> SatisfiedBy(profiles, exports)]
  <2>1. bound = IF usable = {} THEN Unbound
                ELSE [exports |-> Seen[least].exports,
                      profiles |-> SatisfiedBy(profiles, Seen[least].exports)]
    BY DEF BindFirstAvailable
  <2>. HIDE DEF usable, bound, least
  <2>2. QED
    BY <1>2, <1>3, <1>6, <2>1
<1>8. PICK list : list = SatisfiedBy(profiles, exports)
  OBVIOUS
<1>9. list \in Seq(Profile)
  <2>1. profiles \in Seq(Profile)
    BY DEF BindingInv, LoopTypes
  <2>2. list \in Seq({p \in {profiles[i] : i \in DOMAIN profiles} : Satisfied(p, exports)})
    BY <1>8, <2>1, SatisfiedByFacts
  <2>3. {p \in {profiles[i] : i \in DOMAIN profiles} : Satisfied(p, exports)} \subseteq Profile
    BY <2>1
  <2>4. QED
    BY <2>2, <2>3
<1>10. attempt.engine = [library |-> candidates[c], profiles |-> list,
                         addresses |-> Addresses(list, exports)]
  BY <1>5, <1>8 DEF BindsFirst, MakeEngine
<1>11. \A role : {Addresses(list, exports)[i][2] :
                    i \in {j \in DOMAIN Addresses(list, exports) :
                             Addresses(list, exports)[j][1] = role}}
                 = {Address(list, exports, role)} \ {None}
  BY <1>9, AddressesAsProber, BinderAssumption
<1>12. {i \in DOMAIN Seen : Seen[i].loads /\ \A d \in usable : i =< d} = LoadedOf(c)
  <2>1. DOMAIN Seen = 1 .. Len(candidates)
    BY <1>1 DEF Seen
  <2>2. \A i \in DOMAIN Seen : Seen[i].loads = Loads(i)
    BY DEF Seen, Loads
  <2>. HIDE DEF usable
  <2>3. \A i \in 1 .. Len(candidates) : (\A d \in usable : i =< d) <=> i \in 1 .. c
    BY <1>1, <1>2
  <2>4. \A i \in 1 .. c : i \in 1 .. Len(candidates)
    BY <1>1
  <2>5. QED
    BY <2>1, <2>2, <2>3, <2>4 DEF LoadedOf
<1>13. attempt.loaded = Cardinality(LoadedOf(c))
  BY DEF BindsFirst
<1>. HIDE DEF usable, bound, least
<1>14. /\ attempt.engine.profiles = bound.profiles
       /\ attempt.engine.library = candidates[Min(usable)]
  BY <1>4, <1>7, <1>8, <1>10
<1>15. \A role : {attempt.engine.addresses[i][2] :
                    i \in {j \in DOMAIN attempt.engine.addresses :
                             attempt.engine.addresses[j][1] = role}}
                 = {Address(bound.profiles, bound.exports, role)} \ {None}
  <2>1. /\ attempt.engine.addresses = Addresses(list, exports)
        /\ bound.profiles = list /\ bound.exports = exports
    BY <1>7, <1>8, <1>10
  <2>2. PICK addresses : addresses = Addresses(list, exports)
    OBVIOUS
  <2>3. PICK kept : kept = attempt.engine.addresses
    OBVIOUS
  <2>4. \A role : {kept[i][2] : i \in {j \in DOMAIN kept : kept[j][1] = role}}
                   = {Address(list, exports, role)} \ {None}
    <3>1. kept = addresses
      BY <2>1, <2>2, <2>3
    <3>2. \A role : {addresses[i][2] : i \in {j \in DOMAIN addresses : addresses[j][1] = role}}
                     = {Address(list, exports, role)} \ {None}
      BY <1>11, <2>2, Zenon
    <3>3. QED
      BY <3>1, <3>2, Zenon
  <2>5. QED
    BY <2>1, <2>3, <2>4, ZenonT(30)
<1>16. QED
  BY <1>12, <1>13, <1>14, <1>15 DEF BindsAsProber, usable, bound

\* The search, the loop and the constructor, step by step, end with the engine
\* that the expression in Prober.tla names: the first candidate that loads and
\* satisfies a profile, all the profiles it satisfies, and for each role the
\* first symbol in file order that resolves; what was loaded on the way is just
\* what comes before it (prober.cpp:21-41, 93-131).
THEOREM BinderFollowsProber == BinderSpec => []BindsAsProber
<1>1. BindingInv => BindsAsProber
  <2>. SUFFICES ASSUME BindingInv, at = "return" PROVE BindsAsProber
    BY DEF BindsAsProber
  <2>1. BindsNothing \/ \E c \in DOMAIN candidates : BindsFirst(c)
    BY DEF BindingInv, LoopInv
  <2>2. QED
    BY <2>1, NothingBoundAsProber, FirstBoundAsProber
<1>2. QED
  BY <1>1, BindingInv_Init, BindingInv_Step, PTL DEF BinderSpec

-----------------------------------------------------------------------------
(* The order of paths. *)

Path == Seq(Nat)

\* One path branches off before the other.
LeftOf(p, q) ==
  \E i \in DOMAIN p \cap DOMAIN q :
    p[i] < q[i] /\ \A j \in 1 .. i - 1 : p[j] = q[j]

LEMMA PrefixByNames ==
  ASSUME NEW s \in Path, NEW t \in Path
  PROVE  /\ IsPrefix(s, t) <=> Len(s) =< Len(t) /\ \A i \in 1 .. Len(s) : s[i] = t[i]
         /\ IsStrictPrefix(s, t) <=> Len(s) < Len(t) /\ \A i \in 1 .. Len(s) : s[i] = t[i]
<1>. USE DEF Path
<1>1. CASE Len(s) =< Len(t)
  <2>1. /\ SubSeq(s, 1, Len(s)) \in Seq(Nat) /\ Len(SubSeq(s, 1, Len(s))) = Len(s)
        /\ \A i \in 1 .. Len(s) : SubSeq(s, 1, Len(s))[i] = s[i]
    OBVIOUS
  <2>2. /\ SubSeq(t, 1, Len(s)) \in Seq(Nat) /\ Len(SubSeq(t, 1, Len(s))) = Len(s)
        /\ \A i \in 1 .. Len(s) : SubSeq(t, 1, Len(s))[i] = t[i]
    BY <1>1
  <2>3. SubSeq(s, 1, Len(s)) = SubSeq(t, 1, Len(s)) <=> \A i \in 1 .. Len(s) : s[i] = t[i]
    <3>1. PICK a \in Seq(Nat) : a = SubSeq(s, 1, Len(s))
      BY <2>1
    <3>2. PICK b \in Seq(Nat) : b = SubSeq(t, 1, Len(s))
      BY <2>2
    <3>3. a = b <=> \A i \in 1 .. Len(s) : a[i] = b[i]
      BY <2>1, <2>2, <3>1, <3>2
    <3>4. QED
      BY <2>1, <2>2, <3>1, <3>2, <3>3
  <2>4. s = t <=> Len(s) = Len(t) /\ \A i \in 1 .. Len(s) : s[i] = t[i]
    BY SMTT(30)
  <2>5. IsPrefix(s, t) <=> \A i \in 1 .. Len(s) : s[i] = t[i]
    BY <1>1, <2>3 DEF IsPrefix
  <2>6. QED
    BY <1>1, <2>4, <2>5 DEF IsStrictPrefix
<1>2. CASE ~ (Len(s) =< Len(t))
  BY <1>2 DEF IsPrefix, IsStrictPrefix
<1>3. QED
  BY <1>1, <1>2

LEMMA SortsCases ==
  ASSUME NEW p \in Path, NEW q \in Path
  PROVE  Sorts(p, q) <=> IsStrictPrefix(p, q) \/ LeftOf(p, q)
BY DEF Sorts, LeftOf

LEMMA LeftOfPlace ==
  ASSUME NEW p \in Path, NEW q \in Path, LeftOf(p, q)
  PROVE  \E i \in Nat \ {0} : /\ i =< Len(p) /\ i =< Len(q) /\ p[i] < q[i]
                              /\ \A j \in 1 .. i - 1 : p[j] = q[j]
<1>1. PICK i \in DOMAIN p \cap DOMAIN q : p[i] < q[i] /\ \A j \in 1 .. i - 1 : p[j] = q[j]
  BY DEF LeftOf
<1>2. i \in Nat \ {0} /\ i =< Len(p) /\ i =< Len(q)
  BY DEF Path
<1>3. QED
  BY <1>1, <1>2

LEMMA LeftOfHere ==
  ASSUME NEW p \in Path, NEW q \in Path, NEW i \in Nat \ {0}, i =< Len(p), i =< Len(q),
         p[i] < q[i], \A j \in 1 .. i - 1 : p[j] = q[j]
  PROVE  LeftOf(p, q)
<1>1. i \in DOMAIN p \cap DOMAIN q
  BY DEF Path
<1>2. QED
  BY <1>1 DEF LeftOf

\* What branches off stays apart, however far it goes on.
LEMMA LeftOfExtends ==
  ASSUME NEW p \in Path, NEW q \in Path, NEW r \in Path, NEW s \in Path,
         LeftOf(p, q), IsPrefix(p, r), IsPrefix(q, s)
  PROVE  LeftOf(r, s)
<1>1. PICK i \in Nat \ {0} : /\ i =< Len(p) /\ i =< Len(q) /\ p[i] < q[i]
                             /\ \A j \in 1 .. i - 1 : p[j] = q[j]
  BY LeftOfPlace
<1>2. /\ Len(p) =< Len(r) /\ \A j \in 1 .. Len(p) : p[j] = r[j]
      /\ Len(q) =< Len(s) /\ \A j \in 1 .. Len(q) : q[j] = s[j]
  BY PrefixByNames
<1>3. /\ Len(p) \in Nat /\ Len(q) \in Nat /\ Len(r) \in Nat /\ Len(s) \in Nat
  BY DEF Path
<1>4. i =< Len(r) /\ i =< Len(s) /\ r[i] < s[i]
  BY <1>1, <1>2, <1>3
<1>5. \A j \in 1 .. i - 1 : r[j] = s[j]
  BY <1>1, <1>2, <1>3
<1>6. QED
  BY <1>4, <1>5, LeftOfHere

LEMMA LeftOfApart ==
  ASSUME NEW p \in Path, NEW q \in Path, LeftOf(p, q)
  PROVE  ~ IsPrefix(p, q) /\ ~ IsPrefix(q, p) /\ p # q
<1>1. PICK i \in Nat \ {0} : i =< Len(p) /\ i =< Len(q) /\ p[i] < q[i]
  BY LeftOfPlace
<1>2. Len(p) \in Nat /\ Len(q) \in Nat /\ i \in 1 .. Len(p) /\ i \in 1 .. Len(q)
      /\ p[i] \in Nat /\ q[i] \in Nat /\ p[i] # q[i]
  BY <1>1 DEF Path
<1>3. QED
  BY <1>2, PrefixByNames

LEMMA SortsIrreflexive == ASSUME NEW p \in Path PROVE ~ Sorts(p, p)
<1>1. ~ LeftOf(p, p)
  BY LeftOfApart
<1>2. QED
  BY <1>1, SortsCases DEF IsStrictPrefix

LEMMA SortsTotal ==
  ASSUME NEW p \in Path, NEW q \in Path, p # q
  PROVE  Sorts(p, q) \/ Sorts(q, p)
<1>. DEFINE Differ == {i \in Nat \ {0} : i =< Len(p) /\ i =< Len(q) /\ p[i] # q[i]}
<1>0. Len(p) \in Nat /\ Len(q) \in Nat
  BY DEF Path
<1>1. CASE Differ # {}
  <2>1. PICK i \in Differ : \A j \in Differ : i =< j
    <3>1. Differ \subseteq Nat
      OBVIOUS
    <3>. HIDE DEF Differ
    <3>2. QED
      BY <1>1, <3>1, LeastNumber
  <2>2. \A j \in 1 .. i - 1 : p[j] = q[j]
    BY <1>0, <2>1
  <2>3. p[i] \in Nat /\ q[i] \in Nat /\ (p[i] < q[i] \/ q[i] < p[i])
    BY <2>1 DEF Path
  <2>4. LeftOf(p, q) \/ LeftOf(q, p)
    BY <2>1, <2>2, <2>3, LeftOfHere
  <2>5. QED
    BY <2>4, SortsCases
<1>2. CASE Differ = {}
  <2>1. \A i \in Nat \ {0} : i =< Len(p) /\ i =< Len(q) => p[i] = q[i]
    BY <1>2
  <2>2. Len(p) # Len(q)
    <3>1. SUFFICES ASSUME Len(p) = Len(q) PROVE FALSE
      OBVIOUS
    <3>2. \A i \in 1 .. Len(p) : p[i] = q[i]
      BY <1>0, <2>1, <3>1
    <3>3. p = q
      BY <3>1, <3>2 DEF Path
    <3>4. QED
      BY <3>3
  <2>3. IsStrictPrefix(p, q) \/ IsStrictPrefix(q, p)
    BY <1>0, <2>1, <2>2, PrefixByNames
  <2>4. QED
    BY <2>3, SortsCases
<1>3. QED
  BY <1>1, <1>2

LEMMA SortsTransitive ==
  ASSUME NEW p \in Path, NEW q \in Path, NEW r \in Path, Sorts(p, q), Sorts(q, r)
  PROVE  Sorts(p, r)
<1>0. Len(p) \in Nat /\ Len(q) \in Nat /\ Len(r) \in Nat
  BY DEF Path
<1>1. CASE IsStrictPrefix(p, q) /\ IsStrictPrefix(q, r)
  <2>1. IsStrictPrefix(p, r)
    BY <1>0, <1>1, PrefixByNames
  <2>2. QED
    BY <2>1, SortsCases
<1>2. CASE IsStrictPrefix(p, q) /\ LeftOf(q, r)
  <2>1. /\ Len(p) < Len(q) /\ \A i \in 1 .. Len(p) : p[i] = q[i]
    BY <1>2, PrefixByNames
  <2>2. PICK i \in Nat \ {0} : /\ i =< Len(q) /\ i =< Len(r) /\ q[i] < r[i]
                               /\ \A j \in 1 .. i - 1 : q[j] = r[j]
    BY <1>2, LeftOfPlace
  <2>3. CASE i =< Len(p)
    <3>1. p[i] < r[i] /\ \A j \in 1 .. i - 1 : p[j] = r[j]
      BY <1>0, <2>1, <2>2, <2>3
    <3>2. LeftOf(p, r)
      BY <2>2, <2>3, <3>1, LeftOfHere
    <3>3. QED
      BY <3>2, SortsCases
  <2>4. CASE Len(p) < i
    <3>1. Len(p) < Len(r) /\ \A j \in 1 .. Len(p) : p[j] = r[j]
      BY <1>0, <2>1, <2>2, <2>4
    <3>2. IsStrictPrefix(p, r)
      BY <3>1, PrefixByNames
    <3>3. QED
      BY <3>2, SortsCases
  <2>5. QED
    BY <1>0, <2>3, <2>4
<1>3. CASE LeftOf(p, q) /\ IsStrictPrefix(q, r)
  <2>1. IsPrefix(p, p) /\ IsPrefix(q, r)
    BY <1>3, PrefixByNames DEF IsStrictPrefix
  <2>2. LeftOf(p, r)
    BY <1>3, <2>1, LeftOfExtends
  <2>3. QED
    BY <2>2, SortsCases
<1>4. CASE LeftOf(p, q) /\ LeftOf(q, r)
  <2>1. PICK i \in Nat \ {0} : /\ i =< Len(p) /\ i =< Len(q) /\ p[i] < q[i]
                               /\ \A j \in 1 .. i - 1 : p[j] = q[j]
    BY <1>4, LeftOfPlace
  <2>2. PICK k \in Nat \ {0} : /\ k =< Len(q) /\ k =< Len(r) /\ q[k] < r[k]
                               /\ \A j \in 1 .. k - 1 : q[j] = r[j]
    BY <1>4, LeftOfPlace
  <2>3. CASE i < k
    <3>1. i =< Len(r) /\ p[i] < r[i] /\ \A j \in 1 .. i - 1 : p[j] = r[j]
      BY <1>0, <2>1, <2>2, <2>3
    <3>2. LeftOf(p, r)
      BY <2>1, <3>1, LeftOfHere
    <3>3. QED
      BY <3>2, SortsCases
  <2>4. CASE i = k
    <3>1. p[i] \in Nat /\ q[i] \in Nat /\ r[i] \in Nat
      <4>1. i \in 1 .. Len(p) /\ i \in 1 .. Len(q) /\ i \in 1 .. Len(r)
        BY <1>0, <2>1, <2>2, <2>4
      <4>2. QED
        BY <4>1 DEF Path
    <3>2. p[i] < r[i] /\ \A j \in 1 .. i - 1 : p[j] = r[j]
      BY <2>1, <2>2, <2>4, <3>1
    <3>3. LeftOf(p, r)
      BY <2>1, <2>2, <2>4, <3>2, LeftOfHere
    <3>4. QED
      BY <3>3, SortsCases
  <2>5. CASE k < i
    <3>1. k =< Len(p) /\ p[k] < r[k] /\ \A j \in 1 .. k - 1 : p[j] = r[j]
      BY <1>0, <2>1, <2>2, <2>5
    <3>2. LeftOf(p, r)
      BY <2>2, <3>1, LeftOfHere
    <3>3. QED
      BY <3>2, SortsCases
  <2>6. QED
    BY <2>3, <2>4, <2>5
<1>5. QED
  BY <1>1, <1>2, <1>3, <1>4, SortsCases

\* Of two entries of one directory the one that comes first branches off.
LEMMA SortsSideBySide ==
  ASSUME NEW p \in Path, NEW q \in Path, Len(p) = Len(q), Sorts(p, q)
  PROVE  LeftOf(p, q)
<1>1. ~ IsStrictPrefix(p, q)
  <2>1. Len(p) \in Nat
    BY DEF Path
  <2>2. QED
    BY <2>1, PrefixByNames
<1>2. QED
  BY <1>1, SortsCases

-----------------------------------------------------------------------------
(* Sorted listings. *)

Ordered(s) == \A i, j \in DOMAIN s : i < j => Sorts(s[i], s[j])

Lists(s, S) == (\A i \in DOMAIN s : s[i] \in S) /\ \A p \in S : \E i \in DOMAIN s : s[i] = p

\* The paths of a set before one of them, and how many they are.
InFront(S, p) == {q \in S : Sorts(q, p)}

LEMMA RankGrows ==
  ASSUME NEW S \in SUBSET Path, IsFiniteSet(S), NEW p \in S, NEW q \in S, Sorts(p, q)
  PROVE  Cardinality(InFront(S, p)) < Cardinality(InFront(S, q))
<1>1. InFront(S, p) \cup {p} \subseteq InFront(S, q)
  BY SortsTransitive DEF InFront
<1>2. p \notin InFront(S, p)
  BY SortsIrreflexive DEF InFront
<1>3. InFront(S, p) \subseteq S /\ InFront(S, q) \subseteq S
  BY DEF InFront
<1>4. IsFiniteSet(InFront(S, p)) /\ IsFiniteSet(InFront(S, q))
  BY <1>3, FS_Subset
<1>5. Cardinality(InFront(S, p) \cup {p}) = Cardinality(InFront(S, p)) + 1
  BY <1>2, <1>4, FS_AddElement
<1>6. Cardinality(InFront(S, p) \cup {p}) =< Cardinality(InFront(S, q))
  BY <1>1, <1>4, FS_Subset
<1>7. Cardinality(InFront(S, p)) \in Nat /\ Cardinality(InFront(S, q)) \in Nat
  BY <1>4, FS_CardinalityType
<1>8. QED
  BY <1>5, <1>6, <1>7

\* Each number below the size of a set is the rank of one of its paths.
LEMMA RankTaken ==
  ASSUME NEW S \in SUBSET Path, IsFiniteSet(S), NEW i \in 1 .. Cardinality(S)
  PROVE  \E p \in S : Cardinality(InFront(S, p)) = i - 1
<1>1. PICK n \in Nat : n = Cardinality(S)
  BY FS_CardinalityType
<1>. DEFINE rank == [p \in S |-> Cardinality(InFront(S, p))]
            T == 0 .. n - 1
<1>2. ASSUME NEW p \in S PROVE Cardinality(InFront(S, p)) \in T
  <2>1. InFront(S, p) \subseteq S \ {p}
    BY SortsIrreflexive DEF InFront
  <2>2. IsFiniteSet(S \ {p}) /\ Cardinality(S \ {p}) = n - 1
    BY <1>1, FS_RemoveElement
  <2>3. Cardinality(InFront(S, p)) =< n - 1 /\ Cardinality(InFront(S, p)) \in Nat
    BY <2>1, <2>2, FS_Subset, FS_CardinalityType
  <2>4. QED
    BY <2>3
<1>3. rank \in [S -> T]
  BY <1>2
<1>4. ASSUME NEW p \in S, NEW q \in S, p # q PROVE rank[p] # rank[q]
  <2>1. p \in Path /\ q \in Path
    OBVIOUS
  <2>2. Sorts(p, q) \/ Sorts(q, p)
    BY <1>4, <2>1, SortsTotal
  <2>3. Cardinality(InFront(S, p)) \in Int /\ Cardinality(InFront(S, q)) \in Int
    BY <1>2
  <2>4. QED
    BY <2>2, <2>3, RankGrows
<1>5. IsFiniteSet(T) /\ Cardinality(T) = n
  <2>1. PICK m \in Int : m = n - 1
    OBVIOUS
  <2>2. IsFiniteSet(0 .. m) /\ Cardinality(0 .. m) = IF 0 > m THEN 0 ELSE m - 0 + 1
    BY FS_Interval
  <2>3. QED
    BY <2>1, <2>2
<1>6. rank \in Injection(S, T)
  BY <1>3, <1>4 DEF Injection, IsInjective
<1>7. rank \in Surjection(S, T)
  BY <1>1, <1>5, <1>6, FS_Injection
<1>8. i - 1 \in T
  BY <1>1
<1>9. \E p \in S : rank[p] = i - 1
  BY <1>7, <1>8 DEF Surjection
<1>10. QED
  BY <1>9

LEMMA SortedFacts ==
  ASSUME NEW S \in SUBSET Path, IsFiniteSet(S)
  PROVE  /\ Sorted(S) \in Seq(S) /\ DOMAIN Sorted(S) = 1 .. Cardinality(S)
         /\ Ordered(Sorted(S)) /\ Lists(Sorted(S), S)
<1>1. PICK n \in Nat : n = Cardinality(S)
  BY FS_CardinalityType
<1>2. DOMAIN Sorted(S) = 1 .. n
  BY <1>1 DEF Sorted
<1>3. ASSUME NEW i \in 1 .. n
      PROVE  Sorted(S)[i] \in S /\ Cardinality(InFront(S, Sorted(S)[i])) = i - 1
  <2>1. \E p \in S : Cardinality(InFront(S, p)) = i - 1
    BY <1>1, RankTaken
  <2>2. Sorted(S)[i] = CHOOSE p \in S : Cardinality(InFront(S, p)) = i - 1
    BY <1>1 DEF Sorted, InFront
  <2>3. QED
    BY <2>1, <2>2
<1>4. Sorted(S) \in Seq(S)
  <2>1. \A i \in 1 .. n : (CHOOSE p \in S : Cardinality(InFront(S, p)) = i - 1) \in S
    BY <1>1, RankTaken
  <2>2. Sorted(S) = [i \in 1 .. n |-> CHOOSE p \in S : Cardinality(InFront(S, p)) = i - 1]
    BY <1>1 DEF Sorted, InFront
  <2>3. Sorted(S) \in [1 .. n -> S]
    BY <2>1, <2>2
  <2>4. QED
    BY <2>3
<1>5. Ordered(Sorted(S))
  <2>1. SUFFICES ASSUME NEW i \in 1 .. n, NEW j \in 1 .. n, i < j
                 PROVE  Sorts(Sorted(S)[i], Sorted(S)[j])
    BY <1>2 DEF Ordered
  <2>2. PICK p \in S : p = Sorted(S)[i]
    BY <1>3
  <2>3. PICK q \in S : q = Sorted(S)[j]
    BY <1>3
  <2>4. Cardinality(InFront(S, p)) = i - 1 /\ Cardinality(InFront(S, q)) = j - 1
    BY <1>3, <2>2, <2>3
  <2>5. p # q /\ ~ Sorts(q, p)
    <3>1. p # q
      BY <2>1, <2>4
    <3>2. Sorts(q, p) => Cardinality(InFront(S, q)) < Cardinality(InFront(S, p))
      BY RankGrows
    <3>3. QED
      BY <2>1, <2>4, <3>1, <3>2
  <2>6. Sorts(p, q)
    BY <2>5, SortsTotal
  <2>7. QED
    BY <2>2, <2>3, <2>6
<1>6. ASSUME NEW p \in S PROVE \E i \in 1 .. n : Sorted(S)[i] = p
  <2>1. PICK c \in Nat : c = Cardinality(InFront(S, p))
    <3>1. InFront(S, p) \subseteq S
      BY DEF InFront
    <3>2. QED
      BY <3>1, FS_Subset, FS_CardinalityType
  <2>2. c < n
    <3>1. InFront(S, p) \subseteq S \ {p}
      BY SortsIrreflexive DEF InFront
    <3>2. IsFiniteSet(S \ {p}) /\ Cardinality(S \ {p}) = n - 1
      BY <1>1, FS_RemoveElement
    <3>3. c =< n - 1
      BY <2>1, <3>1, <3>2, FS_Subset
    <3>4. QED
      BY <3>3
  <2>3. c + 1 \in 1 .. n
    BY <2>2
  <2>4. PICK q \in S : q = Sorted(S)[c + 1]
    BY <1>3, <2>3
  <2>5. Cardinality(InFront(S, q)) = c
    BY <1>3, <2>3, <2>4
  <2>6. q = p
    <3>1. Sorts(p, q) => Cardinality(InFront(S, p)) < Cardinality(InFront(S, q))
      BY RankGrows
    <3>2. Sorts(q, p) => Cardinality(InFront(S, q)) < Cardinality(InFront(S, p))
      BY RankGrows
    <3>3. ~ Sorts(p, q) /\ ~ Sorts(q, p)
      BY <2>1, <2>5, <3>1, <3>2
    <3>4. QED
      BY <3>3, SortsTotal
  <2>7. QED
    BY <2>3, <2>4, <2>6
<1>7. QED
  BY <1>1, <1>2, <1>3, <1>4, <1>5, <1>6 DEF Lists

\* An ordered listing that leaves out only what comes behind all of it is how
\* every ordered listing of the whole begins.
LEMMA OrderedBegins ==
  ASSUME NEW part \in Seq(Path), NEW whole \in Seq(Path), Ordered(part), Ordered(whole),
         \A i \in DOMAIN part : \E j \in DOMAIN whole : whole[j] = part[i],
         \A j \in DOMAIN whole : \/ \E i \in DOMAIN part : whole[j] = part[i]
                                 \/ \A i \in DOMAIN part : Sorts(part[i], whole[j])
  PROVE  \A i \in 1 .. Len(part) : i =< Len(whole) /\ whole[i] = part[i]
<1>0. /\ Len(part) \in Nat /\ Len(whole) \in Nat
      /\ DOMAIN part = 1 .. Len(part) /\ DOMAIN whole = 1 .. Len(whole)
      /\ \A i \in DOMAIN part : part[i] \in Path
      /\ \A i \in DOMAIN whole : whole[i] \in Path
  OBVIOUS
<1>. DEFINE Wrong == {i \in 1 .. Len(part) : ~ (i =< Len(whole) /\ whole[i] = part[i])}
<1>1. SUFFICES ASSUME Wrong # {} PROVE FALSE
  OBVIOUS
<1>2. PICK i \in Wrong : \A j \in Wrong : i =< j
  <2>1. Wrong \subseteq Nat
    OBVIOUS
  <2>. HIDE DEF Wrong
  <2>2. QED
    BY <1>1, <2>1, LeastNumber
<1>3. /\ i \in 1 .. Len(part) /\ ~ (i =< Len(whole) /\ whole[i] = part[i])
      /\ \A j \in 1 .. i - 1 : j \in 1 .. Len(part) /\ j \in 1 .. Len(whole) /\ whole[j] = part[j]
  <2>1. \A j \in 1 .. i - 1 : j \in 1 .. Len(part) /\ ~ (j \in Wrong)
    BY <1>0, <1>2
  <2>2. QED
    BY <1>0, <1>2, <2>1
<1>. HIDE DEF Wrong
<1>4. PICK k \in 1 .. Len(whole) : whole[k] = part[i]
  BY <1>0, <1>3
<1>5. k > i
  <2>1. ~ (k \in 1 .. i - 1)
    <3>1. SUFFICES ASSUME k \in 1 .. i - 1 PROVE FALSE
      OBVIOUS
    <3>2. part[k] = part[i] /\ k < i /\ k \in 1 .. Len(part)
      BY <1>0, <1>3, <1>4, <3>1
    <3>3. Sorts(part[k], part[i])
      BY <1>0, <1>3, <3>2 DEF Ordered
    <3>4. QED
      BY <1>0, <1>3, <3>2, <3>3, SortsIrreflexive
  <2>2. k # i
    BY <1>0, <1>3, <1>4
  <2>3. QED
    BY <1>3, <2>1, <2>2
<1>6. i \in 1 .. Len(whole) /\ Sorts(whole[i], whole[k])
  BY <1>0, <1>3, <1>4, <1>5 DEF Ordered
<1>7. PICK p \in Path : p = part[i]
  BY <1>0, <1>3
<1>8. PICK q \in Path : q = whole[i]
  BY <1>0, <1>6
<1>9. Sorts(q, p)
  BY <1>4, <1>6, <1>7, <1>8
<1>10. ~ Sorts(p, q)
  BY <1>9, SortsTransitive, SortsIrreflexive
<1>11. PICK m \in 1 .. Len(part) : q = part[m]
  <2>1. i \in DOMAIN part /\ i \in DOMAIN whole
    BY <1>0, <1>3, <1>6
  <2>2. QED
    BY <1>0, <1>7, <1>8, <1>10, <2>1
<1>12. CASE m < i
  <2>1. whole[m] = q /\ m \in 1 .. Len(whole)
    BY <1>3, <1>11, <1>12
  <2>2. Sorts(whole[m], whole[i])
    BY <1>0, <1>6, <1>12, <2>1 DEF Ordered
  <2>3. QED
    BY <1>8, <2>1, <2>2, SortsIrreflexive
<1>13. CASE m = i
  BY <1>7, <1>9, <1>11, <1>13, SortsIrreflexive
<1>14. CASE m > i
  <2>1. Sorts(part[i], part[m])
    BY <1>0, <1>3, <1>14 DEF Ordered
  <2>2. QED
    BY <1>7, <1>10, <1>11, <2>1
<1>15. QED
  BY <1>3, <1>12, <1>13, <1>14

LEMMA OrderedUnique ==
  ASSUME NEW s \in Seq(Path), NEW t \in Seq(Path), Ordered(s), Ordered(t),
         NEW S, Lists(s, S), Lists(t, S)
  PROVE  s = t
<1>1. /\ \A i \in DOMAIN s : \E j \in DOMAIN t : t[j] = s[i]
      /\ \A j \in DOMAIN t : \E i \in DOMAIN s : s[i] = t[j]
  BY DEF Lists
<1>2. \A i \in 1 .. Len(s) : i =< Len(t) /\ t[i] = s[i]
  BY <1>1, OrderedBegins
<1>3. \A i \in 1 .. Len(t) : i =< Len(s) /\ s[i] = t[i]
  BY <1>1, OrderedBegins
<1>4. Len(s) \in Nat /\ Len(t) \in Nat
  OBVIOUS
<1>5. Len(s) = Len(t)
  <2>1. Len(s) > 0 => Len(s) =< Len(t)
    BY <1>2, <1>4
  <2>2. Len(t) > 0 => Len(t) =< Len(s)
    BY <1>3, <1>4
  <2>3. QED
    BY <1>4, <2>1, <2>2
<1>6. QED
  BY <1>2, <1>5

-----------------------------------------------------------------------------
(* Listings one behind the other. *)

BeginsWith(s, t) == Len(s) =< Len(t) /\ \A i \in 1 .. Len(s) : t[i] = s[i]

LEMMA PrefixOfListing ==
  ASSUME NEW s \in Seq(Path), NEW t \in Seq(Path), BeginsWith(s, t)
  PROVE  IsPrefix(s, t)
<1>1. /\ SubSeq(s, 1, Len(s)) \in Seq(Path) /\ Len(SubSeq(s, 1, Len(s))) = Len(s)
      /\ \A i \in 1 .. Len(s) : SubSeq(s, 1, Len(s))[i] = s[i]
  OBVIOUS
<1>2. /\ SubSeq(t, 1, Len(s)) \in Seq(Path) /\ Len(SubSeq(t, 1, Len(s))) = Len(s)
      /\ \A i \in 1 .. Len(s) : SubSeq(t, 1, Len(s))[i] = t[i]
  BY DEF BeginsWith
<1>3. PICK a \in Seq(Path) : a = SubSeq(s, 1, Len(s))
  BY <1>1
<1>4. PICK b \in Seq(Path) : b = SubSeq(t, 1, Len(s))
  BY <1>2
<1>5. Len(a) = Len(b) /\ \A i \in 1 .. Len(a) : a[i] = b[i]
  BY <1>1, <1>2, <1>3, <1>4 DEF BeginsWith
<1>6. a = b
  BY <1>5, SMTT(30)
<1>7. QED
  BY <1>3, <1>4, <1>6 DEF IsPrefix, BeginsWith

LEMMA JoinedListings ==
  ASSUME NEW s \in Seq(Path), NEW t \in Seq(Path)
  PROVE  /\ s \o t \in Seq(Path) /\ Len(s \o t) = Len(s) + Len(t)
         /\ \A k \in 1 .. Len(s) : (s \o t)[k] = s[k]
         /\ \A k \in 1 .. Len(t) : (s \o t)[Len(s) + k] = t[k]
OBVIOUS

LEMMA AppendJoined ==
  ASSUME NEW s \in Seq(Path), NEW t \in Seq(Path), NEW p \in Path
  PROVE  Append(s \o t, p) = s \o Append(t, p)
<1>1. PICK n \in Nat : n = Len(s)
  OBVIOUS
<1>2. PICK m \in Nat : m = Len(t)
  OBVIOUS
<1>3. PICK u \in Seq(Path) : u = s \o t
  BY JoinedListings
<1>4. /\ Len(u) = n + m
      /\ \A k \in 1 .. n : u[k] = s[k]
      /\ \A k \in 1 .. m : u[n + k] = t[k]
  BY <1>1, <1>2, <1>3, JoinedListings
<1>5. PICK a \in Seq(Path) : a = Append(u, p)
  <2>1. Append(u, p) \in Seq(Path)
    OBVIOUS
  <2>2. QED
    BY <2>1
<1>6. /\ Len(a) = n + m + 1 /\ a[n + m + 1] = p
      /\ \A k \in 1 .. n + m : a[k] = u[k]
  BY <1>4, <1>5
<1>7. PICK v \in Seq(Path) : v = Append(t, p)
  <2>1. Append(t, p) \in Seq(Path)
    OBVIOUS
  <2>2. QED
    BY <2>1
<1>8. Len(v) = m + 1 /\ v[m + 1] = p /\ \A k \in 1 .. m : v[k] = t[k]
  BY <1>2, <1>7
<1>9. PICK b \in Seq(Path) : b = s \o v
  BY JoinedListings
<1>10. /\ Len(b) = n + Len(v)
       /\ \A k \in 1 .. n : b[k] = s[k]
       /\ \A k \in 1 .. Len(v) : b[n + k] = v[k]
  BY <1>1, <1>9, JoinedListings, SMTT(30)
<1>11. Len(b) = n + m + 1
  BY <1>8, <1>10
<1>12. ASSUME NEW i \in 1 .. n + m + 1 PROVE a[i] = b[i]
  <2>1. CASE i \in 1 .. n
    BY <1>4, <1>6, <1>10, <2>1
  <2>2. CASE i = n + m + 1
    <3>1. PICK k \in 1 .. Len(v) : k = m + 1
      BY <1>8
    <3>2. b[n + k] = v[k] /\ n + k = i
      BY <1>10, <2>2, <3>1, SMTT(30)
    <3>3. QED
      BY <1>6, <1>8, <2>2, <3>1, <3>2
  <2>3. CASE i > n /\ i =< n + m
    <3>1. PICK k \in 1 .. m : k = i - n
      BY <2>3
    <3>2. n + k = i /\ k \in 1 .. Len(v)
      BY <1>8, <3>1
    <3>3. a[i] = t[k]
      BY <1>4, <1>6, <2>3, <3>1, <3>2
    <3>4. b[i] = t[k]
      BY <1>8, <1>10, <3>1, <3>2
    <3>5. QED
      BY <3>3, <3>4
  <2>4. QED
    BY <2>1, <2>2, <2>3
<1>13. a = b
  BY <1>6, <1>11, <1>12
<1>14. QED
  BY <1>3, <1>5, <1>7, <1>9, <1>13

LEMMA BeginsWithJoined ==
  ASSUME NEW s \in Seq(Path), NEW t \in Seq(Path), NEW u \in Seq(Path), BeginsWith(t, u)
  PROVE  BeginsWith(s \o t, s \o u)
<1>1. /\ Len(s) \in Nat /\ Len(t) \in Nat /\ Len(u) \in Nat
      /\ Len(t) =< Len(u) /\ \A i \in 1 .. Len(t) : u[i] = t[i]
  BY DEF BeginsWith
<1>2. PICK a : a = s \o t
  OBVIOUS
<1>3. PICK b : b = s \o u
  OBVIOUS
<1>4. /\ Len(a) = Len(s) + Len(t) /\ Len(b) = Len(s) + Len(u)
      /\ \A k \in 1 .. Len(s) : a[k] = s[k] /\ b[k] = s[k]
      /\ \A k \in 1 .. Len(t) : a[Len(s) + k] = t[k]
      /\ \A k \in 1 .. Len(u) : b[Len(s) + k] = u[k]
  BY <1>2, <1>3, JoinedListings
<1>5. ASSUME NEW i \in 1 .. Len(a) PROVE b[i] = a[i]
  <2>1. CASE i =< Len(s)
    BY <1>1, <1>4, <2>1
  <2>2. CASE i > Len(s)
    <3>1. PICK k \in 1 .. Len(t) : i = Len(s) + k
      <4>1. i - Len(s) \in 1 .. Len(t) /\ i = Len(s) + (i - Len(s))
        BY <1>1, <1>4, <2>2
      <4>2. QED
        BY <4>1
    <3>2. k \in 1 .. Len(u)
      BY <1>1
    <3>3. QED
      BY <1>1, <1>4, <3>1, <3>2
  <2>3. QED
    BY <1>1, <1>4, <2>1, <2>2
<1>6. QED
  BY <1>1, <1>2, <1>3, <1>4, <1>5 DEF BeginsWith

LEMMA BeginsWithTransitive ==
  ASSUME NEW s \in Seq(Path), NEW t \in Seq(Path), NEW u \in Seq(Path),
         BeginsWith(s, t), BeginsWith(t, u)
  PROVE  BeginsWith(s, u)
BY DEF BeginsWith

\* What FlattenSeq has put together after each of its arguments.
Chains(seqs) ==
  {F \in [0 .. Len(seqs) -> Seq(Path)] :
     /\ F[0] = << >>
     /\ \A k \in 1 .. Len(seqs) : F[k] = F[k - 1] \o seqs[k]
     /\ FlattenSeq(seqs) = F[Len(seqs)]}

LEMMA FlattenFacts ==
  ASSUME NEW seqs \in Seq(Seq(Path))
  PROVE  \E F : F \in Chains(seqs)
<1>. DEFINE V == Seq(Path)
            n == Len(seqs)
            step == [k \in 1 .. n |-> [v \in V |-> v \o seqs[k]]]
            Def(f) == [i \in 1 .. n |-> IF i = 1 THEN seqs[i] ELSE f[i - 1] \o seqs[i]]
            flatten == CHOOSE f : f = Def(f)
<1>1. /\ n \in Nat /\ << >> \in V /\ \A k \in 1 .. n : seqs[k] \in V
      /\ \A v \in V, w \in V : v \o w \in V
  BY JoinedListings
<1>2. PICK F \in [0 .. n -> V] :
         F[0] = << >> /\ \A k \in 1 .. n : F[k] = step[k][F[k - 1]]
  <2>. HIDE DEF V, n
  <2>1. step \in [1 .. n -> [V -> V]]
    BY <1>1
  <2>. HIDE DEF step
  <2>2. \E f : f \in Recursions(V, << >>, n, step)
    BY <1>1, <2>1, RecursionToN, Zenon
  <2>3. QED
    BY <2>2 DEF Recursions
<1>3. ASSUME NEW k \in 1 .. n PROVE F[k] = F[k - 1] \o seqs[k]
  <2>. HIDE DEF V, n
  <2>1. k - 1 \in 0 .. n
    BY <1>1
  <2>2. F[k - 1] \in V
    BY <1>2, <2>1
  <2>3. F[k] = step[k][F[k - 1]]
    BY <1>2
  <2>4. QED
    BY <2>2, <2>3
<1>4. ASSUME 1 \in 1 .. n PROVE F[1] = seqs[1]
  <2>1. F[1] = << >> \o seqs[1]
    <3>. HIDE DEF V, n, step
    <3>1. PICK k \in 1 .. n : k = 1 /\ k - 1 = 0
      BY <1>4
    <3>2. F[k] = F[k - 1] \o seqs[k]
      BY <1>3
    <3>3. QED
      BY <1>2, <3>1, <3>2
  <2>2. seqs[1] \in Seq(Path)
    BY <1>1, <1>4
  <2>3. PICK s \in Seq(Path) : s = seqs[1]
    BY <2>2
  <2>4. << >> \o s = s
    OBVIOUS
  <2>5. QED
    BY <2>1, <2>3, <2>4
<1>. DEFINE g == [i \in 1 .. n |-> F[i]]
<1>5. g = Def(g)
  <2>. HIDE DEF V, n, step, flatten
  <2>1. ASSUME NEW i \in 1 .. n
        PROVE  F[i] = IF i = 1 THEN seqs[i] ELSE g[i - 1] \o seqs[i]
    <3>1. CASE i = 1
      BY <1>4, <3>1
    <3>2. CASE i # 1
      <4>1. i - 1 \in 1 .. n
        BY <1>1, <3>2
      <4>2. QED
        BY <1>3, <3>2, <4>1
    <3>3. QED
      BY <3>1, <3>2
  <2>. HIDE DEF g
  <2>2. g = [i \in 1 .. n |-> F[i]]
    BY DEF g
  <2>3. QED
    BY <2>1, <2>2, Zenon
<1>6. flatten = Def(flatten)
  <2>. HIDE DEF Def, g
  <2>1. QED
    BY <1>5
<1>7. \A k \in 1 .. n : flatten[k] = F[k]
  <2>. DEFINE G == {k \in 0 .. n : k = 0 \/ flatten[k] = F[k]}
  <2>. HIDE DEF V, n, step, flatten, g
  <2>1. ASSUME NEW k \in 1 .. n, k - 1 \in G PROVE k \in G
    <3>1. flatten[k] = Def(flatten)[k]
      BY <1>6, Zenon
    <3>2. flatten[k] = IF k = 1 THEN seqs[k] ELSE flatten[k - 1] \o seqs[k]
      BY <3>1
    <3>3. k \in 0 .. n /\ (k = 1 \/ k - 1 # 0)
      BY <1>1
    <3>4. CASE k = 1
      BY <1>4, <3>2, <3>3, <3>4
    <3>5. CASE k # 1
      <4>1. flatten[k - 1] = F[k - 1]
        BY <2>1, <3>3, <3>5
      <4>2. flatten[k] = F[k]
        BY <1>3, <3>2, <3>5, <4>1
      <4>3. QED
        BY <3>3, <4>2
    <3>6. QED
      BY <3>4, <3>5
  <2>2. 0 \in G
    BY <1>1
  <2>3. \A k \in 0 .. n : k \in G
    <3>. HIDE DEF G
    <3>1. QED
      BY <1>1, <2>1, <2>2, InductionToN
  <2>4. QED
    BY <1>1, <2>3
<1>8. FlattenSeq(seqs) = F[n]
  <2>1. CASE n = 0
    <3>1. FlattenSeq(seqs) = seqs
      BY <2>1 DEF FlattenSeq
    <3>2. seqs = << >>
      BY <2>1
    <3>3. QED
      BY <1>2, <2>1, <3>1, <3>2
  <2>2. CASE n # 0
    <3>1. FlattenSeq(seqs) = flatten[n]
      BY <2>2 DEF FlattenSeq
    <3>. HIDE DEF V, n, step, flatten, g
    <3>2. n \in 1 .. n
      BY <1>1, <2>2
    <3>3. QED
      BY <1>7, <3>1, <3>2
  <2>3. QED
    BY <2>1, <2>2
<1>9. QED
  <2>1. F \in [0 .. Len(seqs) -> Seq(Path)]
    OBVIOUS
  <2>2. \A k \in 1 .. Len(seqs) : F[k] = F[k - 1] \o seqs[k]
    BY <1>3
  <2>3. QED
    BY <1>2, <1>8, <2>1, <2>2, Zenon DEF Chains

\* Each of them begins the later ones.
LEMMA ChainGrows ==
  ASSUME NEW seqs \in Seq(Seq(Path)), NEW F \in Chains(seqs),
         NEW k \in 0 .. Len(seqs), NEW m \in 0 .. Len(seqs), k =< m
  PROVE  BeginsWith(F[k], F[m])
<1>1. PICK n \in Nat : n = Len(seqs)
  OBVIOUS
<1>2. /\ F \in [0 .. n -> Seq(Path)]
      /\ \A i \in 1 .. n : F[i] = F[i - 1] \o seqs[i] /\ seqs[i] \in Seq(Path)
  BY <1>1 DEF Chains
<1>. DEFINE G == {i \in 0 .. n : i < k \/ BeginsWith(F[k], F[i])}
<1>3. ASSUME NEW s \in Seq(Path) PROVE BeginsWith(s, s)
  BY DEF BeginsWith
<1>4. 0 \in G
  <2>1. CASE k = 0
    BY <1>1, <1>2, <1>3, <2>1
  <2>2. CASE k # 0
    BY <1>1, <2>2
  <2>3. QED
    BY <2>1, <2>2
<1>5. ASSUME NEW i \in 1 .. n, i - 1 \in G PROVE i \in G
  <2>0. i \in 0 .. n /\ i - 1 \in 0 .. n
    OBVIOUS
  <2>1. CASE i < k
    BY <2>0, <2>1
  <2>2. CASE i = k
    BY <1>1, <1>2, <1>3, <2>0, <2>2
  <2>3. CASE i > k
    <3>1. BeginsWith(F[k], F[i - 1])
      BY <1>1, <1>5, <2>3
    <3>2. PICK s \in Seq(Path) : s = F[i - 1]
      BY <1>2, <2>0
    <3>3. PICK t \in Seq(Path) : t = seqs[i]
      BY <1>2
    <3>4. BeginsWith(s, s \o t)
      BY JoinedListings DEF BeginsWith
    <3>5. s \o t \in Seq(Path) /\ F[i] = s \o t /\ F[k] \in Seq(Path)
      BY <1>1, <1>2, <3>2, <3>3, JoinedListings
    <3>6. BeginsWith(F[k], F[i])
      BY <3>1, <3>2, <3>4, <3>5, BeginsWithTransitive
    <3>7. QED
      BY <2>0, <3>6
  <2>4. QED
    BY <1>1, <2>1, <2>2, <2>3
<1>6. \A i \in 0 .. n : i \in G
  <2>. HIDE DEF G
  <2>1. QED
    BY <1>4, <1>5, InductionToN
<1>7. m \in G
  BY <1>1, <1>6
<1>8. QED
  BY <1>7

-----------------------------------------------------------------------------
(* What a walk has before it. *)

Frames == Seq(Seq(Path))

Pending(frames) == UNION {{frames[l][i] : i \in DOMAIN frames[l]} : l \in DOMAIN frames}

\* The entries of a frame are as many names below the root as there are frames
\* up to it; the inner frames are walked before the rest of the outer ones.
Framed(root, frames) ==
  /\ \A l \in DOMAIN frames : \A i \in DOMAIN frames[l] : Len(frames[l][i]) = Len(root) + l
  /\ \A l \in DOMAIN frames : \A i, j \in DOMAIN frames[l] :
       i < j => LeftOf(frames[l][i], frames[l][j])
  /\ \A l, m \in DOMAIN frames : l < m =>
       \A i \in DOMAIN frames[l], j \in DOMAIN frames[m] : LeftOf(frames[m][j], frames[l][i])

LEMMA PendingMeans ==
  ASSUME NEW frames, NEW e
  PROVE  e \in Pending(frames) <=> \E l \in DOMAIN frames : \E i \in DOMAIN frames[l] : frames[l][i] = e
BY DEF Pending

LEMMA FrontFacts ==
  ASSUME NEW frames \in Frames, frames # << >>
  PROVE  /\ Front(frames) \in Frames
         /\ Len(frames) \in Nat \ {0} /\ Len(Front(frames)) = Len(frames) - 1
         /\ DOMAIN frames = 1 .. Len(frames) /\ DOMAIN Front(frames) = 1 .. Len(frames) - 1
         /\ \A l \in 1 .. Len(frames) - 1 : Front(frames)[l] = frames[l]
         /\ Last(frames) \in Seq(Path) /\ Last(frames) = frames[Len(frames)]
<1>. USE DEF Frames
<1>1. PICK n \in Nat \ {0} : n = Len(frames)
  OBVIOUS
<1>2. DOMAIN frames = 1 .. n /\ frames[n] \in Seq(Path)
  BY <1>1
<1>3. /\ SubSeq(frames, 1, n - 1) \in Frames /\ Len(SubSeq(frames, 1, n - 1)) = n - 1
      /\ \A l \in 1 .. n - 1 : SubSeq(frames, 1, n - 1)[l] = frames[l]
  BY <1>1
<1>4. PICK t \in Frames : t = SubSeq(frames, 1, n - 1)
  BY <1>3
<1>5. DOMAIN t = 1 .. Len(t)
  OBVIOUS
<1>6. QED
  BY <1>1, <1>2, <1>3, <1>4, <1>5 DEF Front, Last

LEMMA AppendFacts ==
  ASSUME NEW frames \in Frames, NEW s \in Seq(Path)
  PROVE  /\ Append(frames, s) \in Frames
         /\ Len(frames) \in Nat /\ Len(Append(frames, s)) = Len(frames) + 1
         /\ DOMAIN frames = 1 .. Len(frames) /\ DOMAIN Append(frames, s) = 1 .. Len(frames) + 1
         /\ \A l \in 1 .. Len(frames) : Append(frames, s)[l] = frames[l]
         /\ Append(frames, s)[Len(frames) + 1] = s /\ Append(frames, s) # << >>
<1>1. /\ Append(frames, s) \in Frames
      /\ Len(frames) \in Nat /\ Len(Append(frames, s)) = Len(frames) + 1
      /\ DOMAIN frames = 1 .. Len(frames) /\ DOMAIN Append(frames, s) = 1 .. Len(frames) + 1
      /\ \A l \in 1 .. Len(frames) : Append(frames, s)[l] = frames[l]
      /\ Append(frames, s)[Len(frames) + 1] = s
  BY DEF Frames
<1>2. Append(frames, s) # << >>
  <2>1. SUFFICES ASSUME Append(frames, s) = << >> PROVE FALSE
    OBVIOUS
  <2>2. Len(Append(frames, s)) = 0
    BY <2>1
  <2>3. QED
    BY <1>1, <2>2
<1>3. QED
  BY <1>1, <1>2

LEMMA TailFacts ==
  ASSUME NEW s \in Seq(Path), s # << >>
  PROVE  /\ Tail(s) \in Seq(Path) /\ Head(s) \in Path /\ Head(s) = s[1]
         /\ Len(s) \in Nat \ {0} /\ DOMAIN s = 1 .. Len(s) /\ DOMAIN Tail(s) = 1 .. Len(s) - 1
         /\ \A i \in 1 .. Len(s) - 1 : Tail(s)[i] = s[i + 1]
<1>1. /\ Tail(s) \in Seq(Path) /\ Len(s) \in Nat \ {0} /\ Len(Tail(s)) = Len(s) - 1
      /\ \A i \in 1 .. Len(s) - 1 : Tail(s)[i] = s[i + 1]
  OBVIOUS
<1>2. s[1] \in Path /\ Head(s) = s[1] /\ DOMAIN s = 1 .. Len(s)
  OBVIOUS
<1>3. PICK t \in Seq(Path) : t = Tail(s)
  BY <1>1
<1>4. DOMAIN t = 1 .. Len(t)
  OBVIOUS
<1>5. QED
  BY <1>1, <1>2, <1>3, <1>4

\* A frame with nothing left in it makes no difference.
LEMMA FrameDropped ==
  ASSUME NEW root, NEW frames \in Frames, frames # << >>, Last(frames) = << >>,
         Framed(root, frames)
  PROVE  Framed(root, Front(frames)) /\ Pending(Front(frames)) = Pending(frames)
<1>1. PICK n \in Nat \ {0} : n = Len(frames)
  BY FrontFacts
<1>2. PICK rest : rest = Front(frames)
  OBVIOUS
<1>3. /\ DOMAIN frames = 1 .. n /\ DOMAIN rest = 1 .. n - 1 /\ frames[n] = << >>
      /\ \A l \in 1 .. n - 1 : rest[l] = frames[l] /\ l \in 1 .. n
  BY <1>1, <1>2, FrontFacts
<1>4. DOMAIN frames[n] = {} /\ n \in 1 .. n
  BY <1>3
<1>5. Framed(root, rest)
  BY <1>3 DEF Framed
<1>6. \A l \in 1 .. n : l = n \/ l \in 1 .. n - 1
  OBVIOUS
<1>7. Pending(rest) = Pending(frames)
  BY <1>3, <1>4, <1>6 DEF Pending
<1>8. QED
  BY <1>2, <1>5, <1>7

Elements(s) == {s[i] : i \in DOMAIN s}

\* One more frame, all of it before the rest.
LEMMA FramePushed ==
  ASSUME NEW root, NEW frames \in Frames, NEW s \in Seq(Path), Framed(root, frames),
         \A i \in DOMAIN s : Len(s[i]) = Len(root) + Len(frames) + 1,
         \A i, j \in DOMAIN s : i < j => LeftOf(s[i], s[j]),
         \A i \in DOMAIN s, e \in Pending(frames) : LeftOf(s[i], e)
  PROVE  /\ Framed(root, Append(frames, s))
         /\ Pending(Append(frames, s)) = Pending(frames) \cup Elements(s)
<1>1. PICK n \in Nat : n = Len(frames)
  BY AppendFacts
<1>2. PICK more : more = Append(frames, s)
  OBVIOUS
<1>3. PICK m \in Nat : m = n + 1
  OBVIOUS
<1>4. /\ DOMAIN frames = 1 .. n /\ DOMAIN more = 1 .. m /\ more[m] = s
      /\ \A l \in 1 .. n : more[l] = frames[l]
  BY <1>1, <1>2, <1>3, AppendFacts
<1>5. /\ \A l \in 1 .. m : l = m \/ l \in 1 .. n
      /\ m \in 1 .. m /\ \A l \in 1 .. n : l \in 1 .. m /\ l < m /\ l # m
  BY <1>3
<1>6. Pending(more) = Pending(frames) \cup Elements(s)
  <2>. USE DEF Elements
  <2>1. ASSUME NEW e \in Pending(more)
        PROVE  e \in Pending(frames) \/ \E i \in DOMAIN s : s[i] = e
    <3>1. PICK l \in 1 .. m : \E i \in DOMAIN more[l] : more[l][i] = e
      BY <1>4, PendingMeans
    <3>2. l = m => \E i \in DOMAIN s : s[i] = e
      BY <1>4, <3>1
    <3>3. l \in 1 .. n => e \in Pending(frames)
      BY <1>4, <3>1, PendingMeans
    <3>4. QED
      BY <1>5, <3>2, <3>3
  <2>2. ASSUME NEW e \in Pending(frames) PROVE e \in Pending(more)
    <3>1. PICK l \in 1 .. n : \E i \in DOMAIN frames[l] : frames[l][i] = e
      BY <1>4, PendingMeans
    <3>2. l \in DOMAIN more /\ more[l] = frames[l]
      BY <1>4, <1>5
    <3>3. QED
      BY <3>1, <3>2, PendingMeans
  <2>3. ASSUME NEW i \in DOMAIN s PROVE s[i] \in Pending(more)
    <3>1. m \in DOMAIN more /\ i \in DOMAIN more[m] /\ more[m][i] = s[i]
      BY <1>4, <1>5
    <3>2. QED
      BY <3>1, PendingMeans
  <2>4. QED
    BY <2>1, <2>2, <2>3
<1>7. \A l \in DOMAIN more : \A i \in DOMAIN more[l] : Len(more[l][i]) = Len(root) + l
  <2>1. \A i \in DOMAIN s : Len(s[i]) = Len(root) + m
    <3>1. ASSUME NEW i \in DOMAIN s PROVE Len(root) + n + 1 = Len(root) + m
      BY <1>1, <1>3
    <3>2. QED
      BY <1>1, <3>1
  <2>2. QED
    BY <1>4, <1>5, <2>1, ZenonT(30) DEF Framed
<1>8. \A l \in DOMAIN more : \A i, j \in DOMAIN more[l] :
        i < j => LeftOf(more[l][i], more[l][j])
  BY <1>4, <1>5 DEF Framed
<1>9. ASSUME NEW l \in DOMAIN more, NEW k \in DOMAIN more, l < k,
             NEW i \in DOMAIN more[l], NEW j \in DOMAIN more[k]
      PROVE  LeftOf(more[k][j], more[l][i])
  <2>1. l \in 1 .. n
    BY <1>3, <1>4, <1>5, <1>9
  <2>2. CASE k \in 1 .. n
    BY <1>4, <1>9, <2>1, <2>2 DEF Framed
  <2>3. CASE k = m
    <3>1. more[l][i] \in Pending(frames)
      BY <1>4, <2>1 DEF Pending
    <3>2. QED
      BY <1>4, <2>3, <3>1
  <2>4. QED
    BY <1>4, <1>5, <2>2, <2>3
<1>10. QED
  BY <1>2, <1>6, <1>7, <1>8, <1>9 DEF Framed

\* The entry at hand comes before all the others.
LEMMA FirstTaken ==
  ASSUME NEW root \in Path, NEW frames \in Frames, frames # << >>, Last(frames) # << >>,
         Framed(root, frames)
  PROVE  LET entry == Head(Last(frames))
             rest == Append(Front(frames), Tail(Last(frames)))
         IN  /\ rest \in Frames /\ Len(rest) = Len(frames)
             /\ Framed(root, rest) /\ Pending(frames) = {entry} \cup Pending(rest)
             /\ \A e \in Pending(rest) : LeftOf(entry, e)
             /\ entry \in Path /\ Len(entry) = Len(root) + Len(frames)
<1>1. PICK n \in Nat \ {0} : n = Len(frames)
  BY FrontFacts
<1>2. PICK front \in Frames : front = Front(frames)
  BY FrontFacts
<1>3. PICK last \in Seq(Path) : last = Last(frames) /\ last # << >>
  BY FrontFacts
<1>4. PICK tail \in Seq(Path) : tail = Tail(last)
  BY <1>3, TailFacts
<1>5. PICK entry \in Path : entry = Head(last)
  BY <1>3, TailFacts
<1>6. PICK rest : rest = Append(front, tail)
  OBVIOUS
<1>7. PICK k \in Nat \ {0} : k = Len(last)
  BY <1>3, TailFacts
<1>8. /\ DOMAIN frames = 1 .. n /\ frames[n] = last
      /\ Len(front) = n - 1 /\ DOMAIN front = 1 .. n - 1
      /\ \A l \in 1 .. n - 1 : front[l] = frames[l]
  BY <1>1, <1>2, <1>3, FrontFacts
<1>9. /\ DOMAIN last = 1 .. k /\ DOMAIN tail = 1 .. k - 1 /\ last[1] = entry
      /\ \A i \in 1 .. k - 1 : tail[i] = last[i + 1]
  BY <1>3, <1>4, <1>5, <1>7, TailFacts
<1>10. /\ rest \in Frames /\ Len(rest) = n /\ DOMAIN rest = 1 .. n /\ rest[n] = tail
       /\ \A l \in 1 .. n - 1 : rest[l] = frames[l]
  <2>1. /\ Append(front, tail) \in Frames
        /\ Len(Append(front, tail)) = Len(front) + 1
        /\ DOMAIN Append(front, tail) = 1 .. Len(front) + 1
        /\ \A l \in 1 .. Len(front) : Append(front, tail)[l] = front[l]
        /\ Append(front, tail)[Len(front) + 1] = tail
    BY AppendFacts
  <2>2. n - 1 + 1 = n
    OBVIOUS
  <2>3. QED
    BY <1>6, <1>8, <2>1, <2>2
<1>11. /\ \A l \in 1 .. n : l = n \/ l \in 1 .. n - 1
       /\ n \in 1 .. n /\ \A l \in 1 .. n - 1 : l \in 1 .. n /\ l < n /\ l # n
  OBVIOUS
<1>12. /\ 1 \in 1 .. k /\ \A i \in 1 .. k - 1 : i + 1 \in 1 .. k /\ 1 < i + 1
       /\ \A i \in 1 .. k : i = 1 \/ (i - 1 \in 1 .. k - 1 /\ tail[i - 1] = last[i])
       /\ \A i, j \in 1 .. k - 1 : i < j => i + 1 < j + 1
  BY <1>9
<1>13. Len(entry) = Len(root) + n
  BY <1>8, <1>9, <1>11, <1>12 DEF Framed
<1>14. \A l \in DOMAIN rest : \A i \in DOMAIN rest[l] : Len(rest[l][i]) = Len(root) + l
  BY <1>8, <1>9, <1>10, <1>11, <1>12, SMTT(30) DEF Framed
<1>15. \A l \in DOMAIN rest : \A i, j \in DOMAIN rest[l] :
         i < j => LeftOf(rest[l][i], rest[l][j])
  <2>1. \A i, j \in 1 .. k : i < j => LeftOf(last[i], last[j])
    BY <1>8, <1>9, <1>11 DEF Framed
  <2>2. \A i, j \in 1 .. k - 1 : i < j => LeftOf(tail[i], tail[j])
    BY <1>9, <1>12, <2>1
  <2>3. ASSUME NEW l \in 1 .. n - 1, NEW i \in DOMAIN frames[l], NEW j \in DOMAIN frames[l], i < j
        PROVE  LeftOf(frames[l][i], frames[l][j])
    BY <1>8, <1>11, <2>3 DEF Framed
  <2>4. QED
    BY <1>9, <1>10, <1>11, <2>2, <2>3
<1>16. ASSUME NEW l \in 1 .. n, NEW m \in 1 .. n, l < m,
              NEW i \in DOMAIN rest[l], NEW j \in DOMAIN rest[m]
       PROVE  LeftOf(rest[m][j], rest[l][i])
  <2>1. l \in 1 .. n - 1 /\ rest[l] = frames[l]
    BY <1>10, <1>11, <1>16
  <2>2. PICK o \in DOMAIN frames[m] : frames[m][o] = rest[m][j]
    <3>1. CASE m = n
      <4>1. j \in 1 .. k - 1 /\ rest[m][j] = last[j + 1] /\ j + 1 \in 1 .. k
        BY <1>9, <1>10, <1>12, <3>1
      <4>2. QED
        BY <1>8, <1>9, <3>1, <4>1
    <3>2. CASE m # n
      BY <1>10, <1>11, <3>2
    <3>3. QED
      BY <3>1, <3>2
  <2>3. QED
    BY <1>8, <1>16, <2>1, <2>2 DEF Framed
<1>17. Framed(root, rest)
  BY <1>10, <1>14, <1>15, <1>16 DEF Framed
<1>18. Pending(frames) = {entry} \cup Pending(rest)
  <2>1. ASSUME NEW e \in Pending(frames) PROVE e = entry \/ e \in Pending(rest)
    <3>1. PICK l \in 1 .. n : \E i \in DOMAIN frames[l] : frames[l][i] = e
      BY <1>8 DEF Pending
    <3>2. CASE l = n
      <4>1. PICK i \in 1 .. k : last[i] = e
        BY <1>8, <1>9, <3>1, <3>2
      <4>2. i = 1 => e = entry
        BY <1>9, <4>1
      <4>3. i # 1 => i - 1 \in DOMAIN rest[n] /\ rest[n][i - 1] = e
        BY <1>9, <1>10, <1>12, <4>1
      <4>4. QED
        BY <1>10, <1>11, <4>2, <4>3, PendingMeans
    <3>3. CASE l \in 1 .. n - 1
      BY <1>10, <1>11, <3>1, <3>3 DEF Pending
    <3>4. QED
      BY <1>11, <3>2, <3>3
  <2>2. entry \in Pending(frames)
    BY <1>8, <1>9, <1>11, <1>12 DEF Pending
  <2>3. ASSUME NEW e \in Pending(rest) PROVE e \in Pending(frames)
    <3>1. PICK l \in 1 .. n : \E i \in DOMAIN rest[l] : rest[l][i] = e
      BY <1>10 DEF Pending
    <3>2. CASE l = n
      <4>1. PICK i \in 1 .. k - 1 : tail[i] = e
        BY <1>9, <1>10, <3>1, <3>2
      <4>2. i + 1 \in DOMAIN frames[n] /\ frames[n][i + 1] = e
        BY <1>8, <1>9, <1>12, <4>1
      <4>3. QED
        BY <1>8, <1>11, <4>2, PendingMeans
    <3>3. CASE l \in 1 .. n - 1
      BY <1>8, <1>10, <1>11, <3>1, <3>3 DEF Pending
    <3>4. QED
      BY <1>11, <3>2, <3>3
  <2>4. QED
    BY <2>1, <2>2, <2>3
<1>19. ASSUME NEW e \in Pending(rest) PROVE LeftOf(entry, e)
  <2>1. PICK l \in 1 .. n : \E i \in DOMAIN rest[l] : rest[l][i] = e
    BY <1>10 DEF Pending
  <2>2. CASE l = n
    <3>1. PICK i \in 1 .. k - 1 : tail[i] = e
      BY <1>9, <1>10, <2>1, <2>2
    <3>2. e = last[i + 1] /\ i + 1 \in 1 .. k /\ 1 < i + 1
      BY <1>9, <1>12, <3>1
    <3>3. QED
      BY <1>8, <1>9, <1>11, <1>12, <3>2 DEF Framed
  <2>3. CASE l \in 1 .. n - 1
    BY <1>8, <1>9, <1>10, <1>11, <1>12, <2>1, <2>3, SMTT(30) DEF Framed
  <2>4. QED
    BY <1>11, <2>2, <2>3
<1>20. QED
  BY <1>1, <1>2, <1>3, <1>4, <1>5, <1>6, <1>10, <1>13, <1>17, <1>18, <1>19

-----------------------------------------------------------------------------
(* The disk below a root. *)

Inputs == disk \in Disks /\ roots \in RootLists /\ limits \in LimitChoices

LEMMA InputFacts ==
  ASSUME Inputs
  PROVE  /\ IsFiniteSet(DOMAIN disk) /\ \A p \in DOMAIN disk : p \in Path /\ p # << >>
         /\ \A p \in DOMAIN disk : \A n \in 1 .. Len(p) : SubSeq(p, 1, n) \in DOMAIN disk
         /\ \A i \in DOMAIN roots : roots[i] \in Path /\ roots[i] # << >>
         /\ limits.files \in Nat /\ limits.depth \in Nat /\ Len(roots) \in Nat
         /\ DOMAIN roots = 1 .. Len(roots)
<1>1. /\ IsFiniteSet(DOMAIN disk) /\ DOMAIN disk \subseteq Seq(Nat) \ {<< >>}
      /\ \A p \in DOMAIN disk : \A n \in 1 .. Len(p) : SubSeq(p, 1, n) \in DOMAIN disk
  BY ScannerAssumption DEF Inputs
<1>2. roots \in Seq(Seq(Nat) \ {<< >>})
  BY ScannerAssumption DEF Inputs
<1>3. \A i \in DOMAIN roots : roots[i] \in Seq(Nat) \ {<< >>}
  BY <1>2
<1>4. Len(roots) \in Nat /\ DOMAIN roots = 1 .. Len(roots)
  BY <1>2
<1>5. limits \in [files : Nat, depth : Nat]
  BY ScannerAssumption DEF Inputs
<1>6. QED
  BY <1>1, <1>3, <1>4, <1>5 DEF Path

LEMMA PrefixTransitive ==
  ASSUME NEW p \in Path, NEW q \in Path, NEW r \in Path, IsPrefix(p, q), IsPrefix(q, r)
  PROVE  IsPrefix(p, r)
<1>1. Len(p) \in Nat /\ Len(q) \in Nat /\ Len(r) \in Nat
  BY DEF Path
<1>2. QED
  BY <1>1, PrefixByNames

LEMMA BeginningOf ==
  ASSUME NEW p \in Path, NEW n \in 0 .. Len(p)
  PROVE  /\ SubSeq(p, 1, n) \in Path /\ Len(SubSeq(p, 1, n)) = n
         /\ IsPrefix(SubSeq(p, 1, n), p)
<1>1. /\ SubSeq(p, 1, n) \in Path /\ Len(SubSeq(p, 1, n)) = n
      /\ \A i \in 1 .. n : SubSeq(p, 1, n)[i] = p[i]
  BY DEF Path
<1>2. PICK s \in Path : s = SubSeq(p, 1, n)
  BY <1>1
<1>3. Len(s) =< Len(p) /\ \A i \in 1 .. Len(s) : s[i] = p[i]
  BY <1>1, <1>2 DEF Path
<1>4. QED
  BY <1>1, <1>2, <1>3, PrefixByNames

LEMMA PrefixIsBeginning ==
  ASSUME NEW p \in Path, NEW q \in Path, IsPrefix(q, p)
  PROVE  Len(q) \in 0 .. Len(p) /\ q = SubSeq(p, 1, Len(q))
<1>1. Len(q) \in 0 .. Len(p) /\ \A i \in 1 .. Len(q) : q[i] = p[i]
  <2>1. Len(q) =< Len(p) /\ \A i \in 1 .. Len(q) : q[i] = p[i]
    BY PrefixByNames
  <2>2. QED
    BY <2>1 DEF Path
<1>2. PICK n \in 0 .. Len(p) : n = Len(q)
  BY <1>1
<1>3. /\ SubSeq(p, 1, n) \in Path /\ Len(SubSeq(p, 1, n)) = n
      /\ \A i \in 1 .. n : SubSeq(p, 1, n)[i] = p[i]
  BY DEF Path
<1>4. PICK s \in Path : s = SubSeq(p, 1, n)
  BY <1>3
<1>5. s = q
  BY <1>1, <1>2, <1>3, <1>4 DEF Path
<1>6. QED
  BY <1>1, <1>2, <1>4, <1>5

\* A path leads through paths.
LEMMA Ancestors ==
  ASSUME Inputs, NEW p \in DOMAIN disk, NEW q \in Path, IsPrefix(q, p), q # << >>
  PROVE  q \in DOMAIN disk
<1>1. p \in Path
  BY InputFacts
<1>2. Len(q) \in 0 .. Len(p) /\ q = SubSeq(p, 1, Len(q))
  BY <1>1, PrefixIsBeginning
<1>3. Len(q) \in 1 .. Len(p)
  <2>1. Len(q) # 0
    BY DEF Path
  <2>2. QED
    BY <1>2, <2>1
<1>4. QED
  BY <1>2, <1>3, InputFacts

\* Of the entries of a directory each path below it goes through one.
LEMMA EntriesFacts ==
  ASSUME Inputs, NEW d \in Path, d # << >>, disk[d] # "locked"
  PROVE  /\ Entries(d) \in Seq(Path)
         /\ \A i \in DOMAIN Entries(d) :
              /\ Entries(d)[i] \in DOMAIN disk /\ IsStrictPrefix(d, Entries(d)[i])
              /\ Len(Entries(d)[i]) = Len(d) + 1
              /\ \A q \in Path : IsStrictPrefix(q, Entries(d)[i]) => IsPrefix(q, d)
         /\ \A i, j \in DOMAIN Entries(d) : i < j => LeftOf(Entries(d)[i], Entries(d)[j])
         /\ \A p \in DOMAIN disk : IsStrictPrefix(d, p) =>
              \E i \in DOMAIN Entries(d) : IsPrefix(Entries(d)[i], p)
<1>. DEFINE S == {p \in DOMAIN disk : Front(p) = d}
<1>1. PICK s : s = Entries(d)
  OBVIOUS
<1>2. s = Sorted(S)
  BY <1>1 DEF Entries
<1>3. S \in SUBSET Path /\ IsFiniteSet(S) /\ S \subseteq DOMAIN disk
  BY InputFacts, FS_Subset
<1>4. s \in Seq(S) /\ Ordered(s) /\ Lists(s, S)
  <2>. HIDE DEF S
  <2>1. QED
    BY <1>2, <1>3, SortedFacts
<1>5. Len(d) \in Nat \ {0}
  BY DEF Path
<1>6. ASSUME NEW p \in S
      PROVE  /\ p \in DOMAIN disk /\ p \in Path /\ IsStrictPrefix(d, p) /\ Len(p) = Len(d) + 1
             /\ \A q \in Path : IsStrictPrefix(q, p) => IsPrefix(q, d)
  <2>1. p \in Path /\ p # << >> /\ p \in DOMAIN disk
    BY InputFacts
  <2>2. Len(p) \in Nat \ {0} /\ Len(p) - 1 \in 0 .. Len(p)
    BY <2>1 DEF Path
  <2>3. d = SubSeq(p, 1, Len(p) - 1)
    BY DEF Front
  <2>4. IsPrefix(d, p) /\ Len(d) = Len(p) - 1
    BY <2>1, <2>2, <2>3, BeginningOf
  <2>5. \A i \in 1 .. Len(d) : d[i] = p[i]
    BY <2>1, <2>4, PrefixByNames
  <2>6. IsStrictPrefix(d, p)
    BY <1>5, <2>1, <2>2, <2>4, <2>5, PrefixByNames
  <2>7. ASSUME NEW q \in Path, IsStrictPrefix(q, p) PROVE IsPrefix(q, d)
    <3>1. Len(q) < Len(p) /\ \A i \in 1 .. Len(q) : q[i] = p[i]
      BY <2>1, <2>7, PrefixByNames
    <3>2. Len(q) \in Nat
      BY DEF Path
    <3>3. Len(q) =< Len(d) /\ \A i \in 1 .. Len(q) : q[i] = d[i]
      BY <2>2, <2>4, <2>5, <3>1, <3>2
    <3>4. QED
      BY <3>3, PrefixByNames
  <2>8. QED
    BY <2>1, <2>2, <2>4, <2>6, <2>7
<1>7. ASSUME NEW p \in DOMAIN disk, IsStrictPrefix(d, p)
      PROVE  \E q \in S : IsPrefix(q, p)
  <2>1. p \in Path
    BY InputFacts
  <2>2. Len(d) < Len(p) /\ Len(p) \in Nat /\ \A i \in 1 .. Len(d) : d[i] = p[i]
    BY <1>7, <2>1, PrefixByNames DEF Path
  <2>3. PICK n \in 1 .. Len(p) : n = Len(d) + 1
    BY <1>5, <2>2
  <2>4. PICK q : q = SubSeq(p, 1, n)
    OBVIOUS
  <2>5. n \in 0 .. Len(p)
    OBVIOUS
  <2>6. q \in DOMAIN disk /\ q \in Path /\ Len(q) = n /\ IsPrefix(q, p)
    BY <2>1, <2>3, <2>4, <2>5, BeginningOf, InputFacts
  <2>7. Len(d) \in 0 .. Len(q) /\ n - 1 = Len(d)
    BY <1>5, <2>3, <2>6
  <2>8. \A i \in 1 .. Len(d) : d[i] = q[i]
    <3>1. \A i \in 1 .. Len(q) : q[i] = p[i]
      BY <2>1, <2>6, PrefixByNames
    <3>2. QED
      BY <2>2, <2>6, <2>7, <3>1
  <2>9. IsPrefix(d, q)
    BY <2>6, <2>7, <2>8, PrefixByNames
  <2>10. d = SubSeq(q, 1, Len(d))
    BY <2>6, <2>9, PrefixIsBeginning
  <2>11. Front(q) = d
    BY <2>6, <2>7, <2>10 DEF Front
  <2>12. QED
    BY <2>6, <2>11
<1>. HIDE DEF S
<1>8. /\ s \in Seq(Path) /\ \A i \in DOMAIN s : s[i] \in S
  BY <1>3, <1>4 DEF Lists
<1>9. ASSUME NEW i \in DOMAIN s, NEW j \in DOMAIN s, i < j PROVE LeftOf(s[i], s[j])
  <2>1. Sorts(s[i], s[j]) /\ s[i] \in Path /\ s[j] \in Path /\ Len(s[i]) = Len(s[j])
    BY <1>4, <1>6, <1>8, <1>9 DEF Ordered
  <2>2. QED
    BY <2>1, SortsSideBySide
<1>10. ASSUME NEW p \in DOMAIN disk, IsStrictPrefix(d, p)
       PROVE  \E i \in DOMAIN s : IsPrefix(s[i], p)
  BY <1>4, <1>7, <1>10 DEF Lists
<1>11. QED
  BY <1>1, <1>6, <1>8, <1>9, <1>10

-----------------------------------------------------------------------------
(* What a walk has behind it. *)

\* From the root to a path through directories alone.
ClearTo(root, p) ==
  /\ IsPrefix(root, p)
  /\ \A q \in DOMAIN disk : IsPrefix(root, q) /\ IsStrictPrefix(q, p) => disk[q] = "directory"

Allowed(root) == Within(root, limits.depth)

\* The files opened since the root was taken are in order, before all that is
\* still to do, and left out is only what is still to do, or, after a cut, too
\* deep.
Found(root, files, todo, cut) ==
  /\ Ordered(files) /\ \A i \in DOMAIN files : files[i] \in Allowed(root)
  /\ \A e \in todo : e \in DOMAIN disk /\ ClearTo(root, e)
  /\ \A i \in DOMAIN files, e \in todo : LeftOf(files[i], e)
  /\ \A p \in Reachable(root) :
       p \in Allowed(root) \/ ~ cut =>
         (\E i \in DOMAIN files : files[i] = p) \/ (\E e \in todo : IsPrefix(e, p))

LEMMA ReachableMeans ==
  ASSUME NEW root, NEW p
  PROVE  p \in Reachable(root) <=>
           p \in DOMAIN disk /\ IsFile(p) /\ IsStrictPrefix(root, p) /\ ClearTo(root, p)
BY DEF Reachable, ClearTo, IsStrictPrefix

LEMMA AllowedMeans ==
  ASSUME NEW root, NEW p
  PROVE  p \in Allowed(root) <=>
           p \in Reachable(root) /\ Len(p) - Len(root) - 1 =< limits.depth
BY DEF Allowed, Within

LEMMA FilesAreOther ==
  ASSUME NEW p, IsFile(p)
  PROVE  ~ IsDirectory(p) /\ disk[p] # "directory" /\ disk[p] # "locked"
BY ScannerAssumption DEF IsFile, IsDirectory

\* Below an entry there is that entry, when it is a file, or else what is in it.
LEMMA BelowEntry ==
  ASSUME NEW root, NEW e \in DOMAIN disk, ClearTo(root, e),
         NEW p \in Reachable(root), IsPrefix(e, p)
  PROVE  (p = e /\ IsFile(e)) \/ (IsStrictPrefix(e, p) /\ disk[e] = "directory")
<1>1. IsFile(p) /\ ClearTo(root, p)
  BY ReachableMeans
<1>2. CASE p = e
  BY <1>1, <1>2
<1>3. CASE p # e
  <2>1. IsStrictPrefix(e, p)
    BY <1>3 DEF IsStrictPrefix
  <2>2. QED
    BY <1>1, <2>1 DEF ClearTo
<1>4. QED
  BY <1>2, <1>3

\* An entry with nothing to find at it or below it is done.
LEMMA FoundNothing ==
  ASSUME NEW root, NEW files, NEW e, NEW rest, NEW cut, NEW cutNow, cut => cutNow,
         Found(root, files, {e} \cup rest, cut),
         \A p \in Reachable(root) : IsPrefix(e, p) => ~ (p \in Allowed(root) \/ ~ cutNow)
  PROVE  Found(root, files, rest, cutNow)
<1>1. ASSUME NEW p \in Reachable(root), p \in Allowed(root) \/ ~ cutNow
      PROVE  (\E i \in DOMAIN files : files[i] = p) \/ (\E f \in rest : IsPrefix(f, p))
  <2>1. ~ IsPrefix(e, p)
    BY <1>1
  <2>2. p \in Allowed(root) \/ ~ cut
    BY <1>1
  <2>3. (\E i \in DOMAIN files : files[i] = p) \/ (\E f \in {e} \cup rest : IsPrefix(f, p))
    BY <2>2 DEF Found
  <2>4. QED
    BY <2>1, <2>3
<1>2. QED
  BY <1>1 DEF Found

LEMMA FoundFile ==
  ASSUME Inputs, NEW root \in Path, NEW files \in Seq(Path), NEW e, NEW rest, NEW cut,
         Found(root, files, {e} \cup rest, cut), IsFile(e),
         Len(root) < Len(e), Len(e) - Len(root) - 1 =< limits.depth,
         \A f \in rest : LeftOf(e, f)
  PROVE  Found(root, Append(files, e), rest, cut)
<1>1. e \in DOMAIN disk /\ ClearTo(root, e)
  BY DEF Found
<1>2. e \in Path
  BY <1>1, InputFacts
<1>3. e \in Allowed(root)
  <2>1. root # e
    BY <1>2 DEF Path
  <2>2. IsStrictPrefix(root, e)
    BY <1>1, <2>1 DEF ClearTo, IsStrictPrefix
  <2>3. QED
    BY <1>1, <2>2, ReachableMeans, AllowedMeans
<1>4. PICK n \in Nat : n = Len(files)
  OBVIOUS
<1>5. PICK more \in Seq(Path) : more = Append(files, e)
  <2>1. Append(files, e) \in Seq(Path)
    BY <1>2
  <2>2. QED
    BY <2>1
<1>6. PICK m \in Nat : m = n + 1
  OBVIOUS
<1>7. /\ DOMAIN files = 1 .. n /\ DOMAIN more = 1 .. m /\ more[m] = e
      /\ \A i \in 1 .. n : more[i] = files[i] /\ files[i] \in Path
      /\ \A i \in 1 .. m : i = m \/ i \in 1 .. n
      /\ m \in 1 .. m /\ \A i \in 1 .. n : i \in 1 .. m
      /\ \A i \in 1 .. m : ~ (m < i)
  BY <1>2, <1>4, <1>5, <1>6
<1>8. \A i \in 1 .. n : LeftOf(files[i], e)
  BY <1>7 DEF Found
<1>9. Ordered(more)
  <2>1. \A i, j \in 1 .. n : i < j => Sorts(files[i], files[j])
    BY <1>7 DEF Found, Ordered
  <2>2. \A i \in 1 .. n : Sorts(files[i], e)
    BY <1>2, <1>7, <1>8, SortsCases
  <2>3. QED
    BY <1>7, <2>1, <2>2 DEF Ordered
<1>10. \A i \in DOMAIN more : more[i] \in Allowed(root)
  <2>1. \A i \in 1 .. n : files[i] \in Allowed(root)
    BY <1>7 DEF Found
  <2>2. QED
    BY <1>3, <1>7, <2>1
<1>11. \A f \in rest : f \in DOMAIN disk /\ ClearTo(root, f)
  BY DEF Found
<1>12. \A i \in DOMAIN more, f \in rest : LeftOf(more[i], f)
  <2>1. \A i \in 1 .. n, f \in rest : LeftOf(files[i], f)
    BY <1>7 DEF Found
  <2>2. QED
    BY <1>7, <2>1
<1>13. ASSUME NEW p \in Reachable(root), p \in Allowed(root) \/ ~ cut
       PROVE  (\E i \in DOMAIN more : more[i] = p) \/ (\E f \in rest : IsPrefix(f, p))
  <2>1. \/ \E i \in 1 .. n : files[i] = p
        \/ IsPrefix(e, p)
        \/ \E f \in rest : IsPrefix(f, p)
    BY <1>7, <1>13 DEF Found
  <2>2. ASSUME IsPrefix(e, p) PROVE p = e
    BY <1>1, <2>2, BelowEntry, FilesAreOther
  <2>3. QED
    BY <1>7, <2>1, <2>2
<1>14. QED
  BY <1>5, <1>9, <1>10, <1>11, <1>12, <1>13 DEF Found

\* A directory that is read is done when its entries are.
LEMMA FoundEntries ==
  ASSUME Inputs, NEW root \in Path, NEW files \in Seq(Path), NEW e, NEW rest, NEW cut,
         Found(root, files, {e} \cup rest, cut), disk[e] = "directory",
         \A f \in rest : f \in Path /\ LeftOf(e, f),
         NEW s \in Seq(Path), s = Entries(e)
  PROVE  /\ Found(root, files, rest \cup Elements(s), cut)
         /\ \A i \in DOMAIN s, f \in rest : LeftOf(s[i], f)
<1>1. e \in DOMAIN disk /\ ClearTo(root, e)
  BY DEF Found
<1>2. e \in Path /\ e # << >> /\ disk[e] # "locked"
  BY <1>1, InputFacts
<1>4. /\ \A i \in DOMAIN s :
           /\ s[i] \in DOMAIN disk /\ s[i] \in Path /\ IsStrictPrefix(e, s[i])
           /\ \A q \in Path : IsStrictPrefix(q, s[i]) => IsPrefix(q, e)
      /\ \A p \in DOMAIN disk : IsStrictPrefix(e, p) => \E i \in DOMAIN s : IsPrefix(s[i], p)
  BY <1>2, EntriesFacts
<1>5. ASSUME NEW p \in Path, NEW f \in Path, LeftOf(p, f), NEW i \in DOMAIN s, p = e
      PROVE  LeftOf(s[i], f)
  <2>1. s[i] \in Path /\ IsPrefix(p, s[i]) /\ IsPrefix(f, f)
    BY <1>4, <1>5, PrefixByNames DEF IsStrictPrefix
  <2>2. QED
    BY <1>5, <2>1, LeftOfExtends
<1>6. ASSUME NEW p \in Path, LeftOf(p, e), NEW i \in DOMAIN s
      PROVE  LeftOf(p, s[i])
  <2>1. s[i] \in Path /\ IsPrefix(e, s[i]) /\ IsPrefix(p, p)
    BY <1>4, PrefixByNames DEF IsStrictPrefix
  <2>2. QED
    BY <1>2, <1>6, <2>1, LeftOfExtends
<1>7. ASSUME NEW i \in DOMAIN s PROVE ClearTo(root, s[i])
  <2>1. IsPrefix(root, e) /\ IsPrefix(e, s[i]) /\ s[i] \in Path
    BY <1>1, <1>4 DEF ClearTo, IsStrictPrefix
  <2>2. IsPrefix(root, s[i])
    BY <1>2, <2>1, PrefixTransitive
  <2>3. ASSUME NEW q \in DOMAIN disk, IsPrefix(root, q), IsStrictPrefix(q, s[i])
        PROVE  disk[q] = "directory"
    <3>1. IsPrefix(q, e)
      BY <1>4, <2>3, InputFacts
    <3>2. q = e \/ IsStrictPrefix(q, e)
      BY <3>1 DEF IsStrictPrefix
    <3>3. QED
      BY <1>1, <2>3, <3>2 DEF ClearTo
  <2>4. QED
    BY <2>2, <2>3 DEF ClearTo
<1>8. ASSUME NEW p \in Reachable(root), p \in Allowed(root) \/ ~ cut
      PROVE  \/ \E i \in DOMAIN files : files[i] = p
             \/ \E f \in rest \cup Elements(s) : IsPrefix(f, p)
  <2>. USE DEF Elements
  <2>1. \/ \E i \in DOMAIN files : files[i] = p
        \/ IsPrefix(e, p)
        \/ \E f \in rest : IsPrefix(f, p)
    BY <1>8 DEF Found
  <2>2. ASSUME IsPrefix(e, p) PROVE \E i \in DOMAIN s : IsPrefix(s[i], p)
    <3>1. IsStrictPrefix(e, p)
      <4>1. ~ IsFile(e)
        BY FilesAreOther
      <4>2. QED
        BY <1>1, <2>2, <4>1, BelowEntry
    <3>2. p \in DOMAIN disk
      BY ReachableMeans
    <3>3. QED
      BY <1>4, <3>1, <3>2
  <2>3. QED
    BY <2>1, <2>2
<1>9. Ordered(files) /\ \A i \in DOMAIN files : files[i] \in Allowed(root)
  BY DEF Found
<1>10. ASSUME NEW f \in rest \cup Elements(s)
       PROVE  /\ f \in DOMAIN disk /\ ClearTo(root, f)
              /\ \A i \in DOMAIN files : LeftOf(files[i], f)
  <2>1. CASE f \in rest
    BY <2>1 DEF Found
  <2>2. CASE f \notin rest
    <3>1. PICK i \in DOMAIN s : f = s[i]
      BY <2>2 DEF Elements
    <3>2. \A j \in DOMAIN files : files[j] \in Path /\ LeftOf(files[j], e)
      BY DEF Found
    <3>3. QED
      BY <1>4, <1>6, <1>7, <3>1, <3>2
  <2>3. QED
    BY <2>1, <2>2
<1>11. Found(root, files, rest \cup Elements(s), cut)
  BY <1>8, <1>9, <1>10 DEF Found
<1>12. \A i \in DOMAIN s, f \in rest : LeftOf(s[i], f)
  BY <1>2, <1>5
<1>13. QED
  BY <1>11, <1>12

-----------------------------------------------------------------------------
(* The candidates among the files. *)

LEMMA LesserOf ==
  ASSUME NEW a \in Nat, NEW b \in Nat
  PROVE  Min({a, b}) = IF a =< b THEN a ELSE b
<1>1. PICK m \in {a, b} : \A x \in {a, b} : m =< x
  <2>1. a =< b \/ b =< a
    OBVIOUS
  <2>2. QED
    BY <2>1
<1>2. Min({a, b}) \in {a, b} /\ \A x \in {a, b} : Min({a, b}) =< x
  BY <1>1 DEF Min
<1>3. QED
  BY <1>2

\* The first bytes, as far as they are read, tell what the whole file is.
LEMMA LoadableIsModule ==
  ASSUME NEW p, IsFile(p)
  PROVE  Loadable(p) <=> IsModule(p)
<1>1. PICK c : c = Content[disk[p]]
  OBVIOUS
<1>2. c.size \in Nat /\ c.pointer \in Nat /\ HeaderBytes \in Nat /\ HeaderBytes >= 64
  BY <1>1, ScannerAssumption DEF IsFile
<1>3. PICK got \in Nat : got = Min({c.size, HeaderBytes})
  BY <1>2, LesserOf
<1>4. got = IF c.size =< HeaderBytes THEN c.size ELSE HeaderBytes
  BY <1>2, <1>3, LesserOf
<1>5. (got >= 4 <=> c.size >= 4) /\ (got >= 64 <=> c.size >= 64)
  BY <1>2, <1>4
<1>6. c.pointer + 4 =< got <=> \A i \in 0 .. 3 : c.pointer + i < got
  <2>1. c.pointer + 4 =< got => \A i \in 0 .. 3 : c.pointer + i < got
    BY <1>2
  <2>2. (\A i \in 0 .. 3 : c.pointer + i < got) => c.pointer + 3 < got
    <3>1. 3 \in 0 .. 3
      OBVIOUS
    <3>2. QED
      BY <3>1
  <2>3. c.pointer + 3 < got => c.pointer + 4 =< got
    BY <1>2
  <2>4. QED
    BY <2>1, <2>2, <2>3
<1>7. Loadable(p) <=> got >= 4 /\ (c.magic \in {"elf", "macho"} \/ LooksLikePortableExecutable(c, got))
  BY <1>1, <1>3 DEF Loadable, IdentifyModuleFormat
<1>8. LooksLikePortableExecutable(c, got) <=>
        c.magic = "MZ" /\ c.signed /\ c.size >= 64 /\ \A i \in 0 .. 3 : c.pointer + i < got
  BY <1>5, <1>6 DEF LooksLikePortableExecutable
<1>9. IsModule(p) <=> \/ c.magic \in {"elf", "macho"} /\ c.size >= 4
                      \/ /\ c.magic = "MZ" /\ c.signed /\ c.size >= 64
                         /\ \A i \in 0 .. 3 : c.pointer + i < got
  BY <1>1, <1>3 DEF IsModule
<1>10. c.size >= 64 => c.size >= 4
  BY <1>2
<1>11. QED
  BY <1>5, <1>7, <1>8, <1>9, <1>10

\* The places of the candidates among the files.
Picks(picked, files, Wanted) ==
  {place \in [DOMAIN picked -> DOMAIN files] :
    /\ \A i, j \in DOMAIN picked : i < j => place[i] < place[j]
    /\ \A i \in DOMAIN picked : picked[i] = files[place[i]]
    /\ {place[i] : i \in DOMAIN picked} = {n \in DOMAIN files : files[n] \in Wanted}}

LEMMA PickedNext ==
  ASSUME NEW picked \in Seq(Path), NEW files \in Seq(Path), NEW file \in Path,
         NEW Wanted, NEW place \in Picks(picked, files, Wanted)
  PROVE  \E after : after \in Picks(IF file \in Wanted THEN Append(picked, file) ELSE picked,
                                     Append(files, file), Wanted)
<1>1. PICK n \in Nat : n = Len(files)
  OBVIOUS
<1>2. PICK m \in Nat : m = Len(picked)
  OBVIOUS
<1>3. PICK more \in Seq(Path) : more = Append(files, file)
  <2>1. Append(files, file) \in Seq(Path)
    OBVIOUS
  <2>2. QED
    BY <2>1
<1>4. PICK last \in Nat : last = n + 1
  OBVIOUS
<1>5. /\ DOMAIN files = 1 .. n /\ DOMAIN more = 1 .. last /\ more[last] = file
      /\ \A i \in 1 .. n : more[i] = files[i]
  BY <1>1, <1>3, <1>4
<1>6. /\ \A i \in 1 .. last : i = last \/ i \in 1 .. n
      /\ last \in 1 .. last /\ \A i \in 1 .. n : i \in 1 .. last /\ i # last /\ i < last
  BY <1>4
<1>7. /\ place \in [1 .. m -> 1 .. n]
      /\ \A i, j \in 1 .. m : i < j => place[i] < place[j]
      /\ \A i \in 1 .. m : picked[i] = files[place[i]]
      /\ \A k \in 1 .. n : files[k] \in Wanted <=> \E i \in 1 .. m : place[i] = k
  <2>1. DOMAIN picked = 1 .. m
    BY <1>2
  <2>2. {place[i] : i \in 1 .. m} = {k \in 1 .. n : files[k] \in Wanted}
    BY <1>5, <2>1 DEF Picks
  <2>3. \A k \in 1 .. n : files[k] \in Wanted <=> \E i \in 1 .. m : place[i] = k
    <3>1. ASSUME NEW k \in 1 .. n
          PROVE  files[k] \in Wanted <=> k \in {place[i] : i \in 1 .. m}
      BY <2>2
    <3>2. QED
      BY <3>1
  <2>4. QED
    BY <1>5, <2>1, <2>3 DEF Picks
<1>8. CASE file \in Wanted
  <2>1. PICK now \in Seq(Path) : now = Append(picked, file)
    <3>1. Append(picked, file) \in Seq(Path)
      OBVIOUS
    <3>2. QED
      BY <3>1
  <2>2. PICK top \in Nat : top = m + 1
    OBVIOUS
  <2>3. /\ DOMAIN now = 1 .. top /\ now[top] = file
        /\ \A i \in 1 .. m : now[i] = picked[i]
    BY <1>2, <2>1, <2>2
  <2>4. /\ \A i \in 1 .. top : i = top \/ i \in 1 .. m
        /\ top \in 1 .. top /\ \A i \in 1 .. m : i \in 1 .. top /\ i # top /\ ~ (top < i)
    BY <2>2
  <2>5. PICK after : after = [i \in 1 .. top |-> IF i = top THEN last ELSE place[i]]
    OBVIOUS
  <2>6. /\ after \in [1 .. top -> 1 .. last] /\ after[top] = last
        /\ \A i \in 1 .. m : after[i] = place[i] /\ place[i] \in 1 .. n
    BY <1>6, <1>7, <2>4, <2>5
  <2>7. ASSUME NEW i \in 1 .. top, NEW j \in 1 .. top, i < j PROVE after[i] < after[j]
    <3>1. i \in 1 .. m
      BY <2>4, <2>7, SMTT(30)
    <3>2. CASE j = top
      BY <1>6, <2>6, <3>1, <3>2
    <3>3. CASE j \in 1 .. m
      BY <1>7, <2>6, <2>7, <3>1, <3>3
    <3>4. QED
      BY <2>4, <3>2, <3>3
  <2>8. \A i \in 1 .. top : now[i] = more[after[i]]
    <3>1. now[top] = more[after[top]]
      BY <1>5, <2>3, <2>6
    <3>2. \A i \in 1 .. m : now[i] = more[after[i]]
      BY <1>5, <1>7, <2>3, <2>6
    <3>3. QED
      BY <2>4, <3>1, <3>2
  <2>9. ASSUME NEW k PROVE k \in {after[i] : i \in 1 .. top}
                             <=> k \in {x \in 1 .. last : more[x] \in Wanted}
    <3>1. CASE k = last
      BY <1>5, <1>6, <1>8, <2>4, <2>6, <3>1
    <3>2. CASE k \in 1 .. n
      <4>1. more[k] \in Wanted <=> \E i \in 1 .. m : place[i] = k
        BY <1>5, <1>7, <3>2
      <4>2. k # last /\ k \in 1 .. last
        BY <1>6, <3>2
      <4>3. (\E i \in 1 .. top : after[i] = k) <=> \E i \in 1 .. m : place[i] = k
        BY <2>4, <2>6, <4>2
      <4>4. QED
        BY <4>1, <4>2, <4>3
    <3>3. CASE k \notin 1 .. last
      BY <2>6, <3>3
    <3>4. QED
      BY <1>6, <3>1, <3>2, <3>3
  <2>10. after \in Picks(now, more, Wanted)
    <3>1. {after[i] : i \in 1 .. top} = {x \in 1 .. last : more[x] \in Wanted}
      BY <2>9
    <3>2. QED
      BY <1>5, <2>3, <2>6, <2>7, <2>8, <3>1 DEF Picks
  <2>11. QED
    BY <1>3, <1>8, <2>1, <2>10
<1>9. CASE file \notin Wanted
  <2>1. DOMAIN picked = 1 .. m
    BY <1>2
  <2>2. place \in [1 .. m -> 1 .. last] /\ \A i \in 1 .. m : place[i] \in 1 .. n
    BY <1>6, <1>7
  <2>3. \A i \in 1 .. m : picked[i] = more[place[i]]
    BY <1>5, <1>7, <2>2
  <2>4. ASSUME NEW k PROVE k \in {place[i] : i \in 1 .. m}
                             <=> k \in {x \in 1 .. last : more[x] \in Wanted}
    <3>1. CASE k = last
      BY <1>5, <1>6, <1>9, <2>2, <3>1
    <3>2. CASE k \in 1 .. n
      <4>1. k \in 1 .. last /\ more[k] = files[k]
        BY <1>5, <1>6, <3>2
      <4>2. more[k] \in Wanted <=> \E i \in 1 .. m : place[i] = k
        BY <1>7, <3>2, <4>1
      <4>3. QED
        BY <4>1, <4>2
    <3>3. CASE k \notin 1 .. last
      BY <2>2, <3>3
    <3>4. QED
      BY <1>6, <3>1, <3>2, <3>3
  <2>5. {place[i] : i \in 1 .. m} = {x \in 1 .. last : more[x] \in Wanted}
    BY <2>4
  <2>6. place \in Picks(picked, more, Wanted)
    BY <1>5, <1>7, <2>1, <2>2, <2>3, <2>5 DEF Picks
  <2>7. QED
    BY <1>3, <1>9, <2>6
<1>10. QED
  BY <1>8, <1>9

-----------------------------------------------------------------------------
(* The search as a whole. *)

\* For each root what it gives leave to see, and what that puts together.
Listings == [i \in DOMAIN roots |-> Sorted(Allowed(roots[i]))]

AllAllowed(n) == \A i \in 1 .. n : Reachable(roots[i]) = Allowed(roots[i])

BetweenRoots(F) ==
  /\ stack = << >>
  /\ examined = F[next]
  /\ ~ truncated => AllAllowed(next)

InRoot(F) ==
  /\ stack # << >> /\ stack \in Frames /\ next \in 1 .. Len(roots)
  /\ Framed(roots[next], stack) /\ Len(stack) =< limits.depth + 1
  /\ \E files \in Seq(Path) :
       examined = F[next - 1] \o files /\ Found(roots[next], files, Pending(stack), truncated)
  /\ ~ truncated => AllAllowed(next - 1)

Walking(F) == BetweenRoots(F) \/ InRoot(F)

ScanTypes ==
  /\ Inputs
  /\ next \in 0 .. Len(roots)
  /\ examined \in Seq(Path) /\ candidates \in Seq(Path) /\ truncated \in BOOLEAN
  /\ Len(examined) =< limits.files

\* Until a full result cuts the search short, it is on its way through the
\* listings.
SearchInv ==
  /\ ScanTypes
  /\ CandidatesPicked
  /\ \A F \in Chains(Listings) :
       /\ BeginsWith(examined, F[Len(roots)])
       /\ (Full /\ truncated) \/ Walking(F)

LEMMA AllowedFacts ==
  ASSUME Inputs, NEW root
  PROVE  /\ Allowed(root) \in SUBSET Path /\ IsFiniteSet(Allowed(root))
         /\ Sorted(Allowed(root)) \in Seq(Path)
         /\ Ordered(Sorted(Allowed(root))) /\ Lists(Sorted(Allowed(root)), Allowed(root))
<1>1. Allowed(root) \subseteq DOMAIN disk
  BY AllowedMeans, ReachableMeans
<1>2. Allowed(root) \in SUBSET Path /\ IsFiniteSet(Allowed(root))
  BY <1>1, InputFacts, FS_Subset
<1>3. PICK S \in SUBSET Path : S = Allowed(root) /\ IsFiniteSet(S)
  BY <1>2
<1>4. Sorted(S) \in Seq(S) /\ Ordered(Sorted(S)) /\ Lists(Sorted(S), S)
  BY <1>3, SortedFacts
<1>5. Sorted(S) \in Seq(Path)
  BY <1>3, <1>4
<1>6. QED
  BY <1>2, <1>3, <1>4, <1>5

LEMMA ListingsFacts ==
  ASSUME Inputs
  PROVE  /\ Listings \in Seq(Seq(Path)) /\ Len(Listings) = Len(roots)
         /\ \A k \in 1 .. Len(roots) : Listings[k] = Sorted(Allowed(roots[k]))
<1>1. PICK n \in Nat : n = Len(roots) /\ DOMAIN roots = 1 .. n
  BY InputFacts
<1>2. Listings = [i \in 1 .. n |-> Sorted(Allowed(roots[i]))]
  BY <1>1 DEF Listings
<1>3. \A i \in 1 .. n : Sorted(Allowed(roots[i])) \in Seq(Path)
  BY AllowedFacts
<1>4. Listings \in [1 .. n -> Seq(Path)]
  BY <1>2, <1>3
<1>5. QED
  BY <1>1, <1>2, <1>4, SMTT(30)

LEMMA ChainFacts ==
  ASSUME Inputs, NEW F \in Chains(Listings)
  PROVE  /\ F \in [0 .. Len(roots) -> Seq(Path)] /\ F[0] = << >>
         /\ \A k \in 1 .. Len(roots) : F[k] = F[k - 1] \o Sorted(Allowed(roots[k]))
         /\ \A k, m \in 0 .. Len(roots) : k =< m => BeginsWith(F[k], F[m])
<1>1. PICK s \in Seq(Seq(Path)) : s = Listings
  BY ListingsFacts
<1>2. Len(s) = Len(roots) /\ \A k \in 1 .. Len(roots) : s[k] = Sorted(Allowed(roots[k]))
  BY <1>1, ListingsFacts
<1>3. F \in Chains(s)
  BY <1>1
<1>4. \A k, m \in 0 .. Len(s) : k =< m => BeginsWith(F[k], F[m])
  BY <1>3, ChainGrows
<1>5. /\ F \in [0 .. Len(s) -> Seq(Path)] /\ F[0] = << >>
      /\ \A k \in 1 .. Len(s) : F[k] = F[k - 1] \o s[k]
  BY <1>3 DEF Chains
<1>6. QED
  BY <1>2, <1>4, <1>5

\* While the disk, the roots and the limits stay, so does all that is said of
\* them.
LEMMA InputsStay ==
  ASSUME UNCHANGED inputVars
  PROVE  /\ \A root : Reachable(root)' = Reachable(root) /\ Allowed(root)' = Allowed(root)
         /\ \A root, files, todo, cut :
              Found(root, files, todo, cut) => Found(root, files, todo, cut)'
         /\ \A n : AllAllowed(n) => AllAllowed(n)'
         /\ Listings' = Listings
         /\ Inputs => Inputs'
         /\ \A p : IsModule(p)' <=> IsModule(p)
<1>0. disk' = disk /\ roots' = roots /\ limits' = limits
  BY DEF inputVars
<1>1. ASSUME NEW root PROVE Reachable(root)' = Reachable(root)
  BY <1>0 DEF Reachable, IsFile
<1>2. ASSUME NEW root PROVE Allowed(root)' = Allowed(root)
  BY <1>0, <1>1 DEF Allowed, Within
<1>3. ASSUME NEW root, NEW p PROVE ClearTo(root, p) => ClearTo(root, p)'
  BY <1>0 DEF ClearTo
<1>4. ASSUME NEW root, NEW files, NEW todo, NEW cut, Found(root, files, todo, cut)
      PROVE  Found(root, files, todo, cut)'
  <2>1. PICK R : R = Reachable(root) /\ R = Reachable(root)'
    BY <1>1
  <2>2. PICK A : A = Allowed(root) /\ A = Allowed(root)'
    BY <1>2
  <2>3. QED
    BY <1>0, <1>3, <1>4, <2>1, <2>2 DEF Found
<1>5. ASSUME NEW n, AllAllowed(n) PROVE AllAllowed(n)'
  BY <1>0, <1>1, <1>2, <1>5 DEF AllAllowed
<1>6. Listings' = Listings
  <2>1. ASSUME NEW i PROVE Sorted(Allowed(roots[i]))' = Sorted(Allowed(roots[i]))
    BY <1>0, <1>2 
  <2>2. QED
    BY <1>0, <2>1 DEF Listings
<1>7. Inputs => Inputs'
  BY <1>0 DEF Inputs
<1>8. ASSUME NEW p PROVE IsModule(p)' <=> IsModule(p)
  BY <1>0 DEF IsModule
<1>9. QED
  BY <1>1, <1>2, <1>4, <1>5, <1>6, <1>7, <1>8

\* What has been found is how the listing of the root begins.
LEMMA FoundBegins ==
  ASSUME Inputs, NEW root \in Path, NEW files \in Seq(Path), NEW todo, NEW cut,
         Found(root, files, todo, cut)
  PROVE  BeginsWith(files, Sorted(Allowed(root)))
<1>1. PICK whole \in Seq(Path) : whole = Sorted(Allowed(root))
  BY AllowedFacts
<1>2. Ordered(whole) /\ Lists(whole, Allowed(root)) /\ Ordered(files)
  BY <1>1, AllowedFacts DEF Found
<1>3. \A i \in DOMAIN files : \E j \in DOMAIN whole : whole[j] = files[i]
  BY <1>2 DEF Lists, Found
<1>4. ASSUME NEW j \in DOMAIN whole
      PROVE  \/ \E i \in DOMAIN files : whole[j] = files[i]
             \/ \A i \in DOMAIN files : Sorts(files[i], whole[j])
  <2>1. PICK p : p = whole[j] /\ p \in Allowed(root) /\ p \in Reachable(root)
    BY <1>2, AllowedMeans DEF Lists
  <2>2. p \in Path
    BY <2>1
  <2>3. (\E i \in DOMAIN files : files[i] = p) \/ (\E e \in todo : IsPrefix(e, p))
    BY <2>1 DEF Found
  <2>4. ASSUME NEW e \in todo, IsPrefix(e, p), NEW i \in DOMAIN files
        PROVE  Sorts(files[i], p)
    <3>1. e \in Path /\ files[i] \in Path /\ LeftOf(files[i], e)
      BY InputFacts DEF Found
    <3>2. IsPrefix(files[i], files[i])
      BY <3>1, PrefixByNames
    <3>3. LeftOf(files[i], p)
      BY <2>2, <2>4, <3>1, <3>2, LeftOfExtends
    <3>4. QED
      BY <2>2, <3>1, <3>3, SortsCases
  <2>5. QED
    BY <2>1, <2>3, <2>4
<1>5. \A i \in 1 .. Len(files) : i =< Len(whole) /\ whole[i] = files[i]
  BY <1>2, <1>3, <1>4, OrderedBegins
<1>6. Len(files) \in Nat /\ Len(whole) \in Nat
  OBVIOUS
<1>7. Len(files) > 0 => Len(files) =< Len(whole)
  BY <1>5, <1>6
<1>8. QED
  BY <1>1, <1>5, <1>6, <1>7 DEF BeginsWith

\* With nothing to do any more it is that listing.
LEMMA FoundAll ==
  ASSUME Inputs, NEW root \in Path, NEW files \in Seq(Path), NEW cut,
         Found(root, files, {}, cut)
  PROVE  files = Sorted(Allowed(root)) /\ (~ cut => Reachable(root) = Allowed(root))
<1>1. PICK whole \in Seq(Path) : whole = Sorted(Allowed(root))
  BY AllowedFacts
<1>2. Ordered(whole) /\ Lists(whole, Allowed(root)) /\ Ordered(files)
  BY <1>1, AllowedFacts DEF Found
<1>3. \A i \in DOMAIN files : files[i] \in Allowed(root)
  BY DEF Found
<1>4. \A p \in Reachable(root) : p \in Allowed(root) \/ ~ cut => \E i \in DOMAIN files : files[i] = p
  BY DEF Found
<1>5. \A p \in Allowed(root) : p \in Reachable(root)
  BY AllowedMeans
<1>6. Lists(files, Allowed(root))
  BY <1>3, <1>4, <1>5 DEF Lists
<1>7. files = whole
  BY <1>2, <1>6, OrderedUnique
<1>8. ~ cut => Reachable(root) = Allowed(root)
  BY <1>3, <1>4, <1>5, SMTT(30)
<1>9. QED
  BY <1>1, <1>7, <1>8

LEMMA WalkingBegins ==
  ASSUME ScanTypes, NEW F \in Chains(Listings), Walking(F)
  PROVE  BeginsWith(examined, F[Len(roots)])
<1>0. PICK n \in Nat : n = Len(roots)
  BY InputFacts DEF ScanTypes
<1>1. /\ F \in [0 .. n -> Seq(Path)] /\ F[0] = << >>
      /\ \A k \in 1 .. n : F[k] = F[k - 1] \o Sorted(Allowed(roots[k]))
      /\ \A k, m \in 0 .. n : k =< m => BeginsWith(F[k], F[m])
  BY <1>0, ChainFacts DEF ScanTypes
<1>2. next \in 0 .. n /\ n \in 0 .. n /\ next =< n
  BY <1>0 DEF ScanTypes
<1>3. CASE BetweenRoots(F)
  BY <1>0, <1>1, <1>2, <1>3 DEF BetweenRoots
<1>4. CASE InRoot(F)
  <2>1. PICK k \in 1 .. n : k = next
    BY <1>0, <1>4 DEF InRoot
  <2>2. PICK root \in Path : root = roots[k]
    BY <1>0, InputFacts DEF ScanTypes
  <2>3. PICK files \in Seq(Path) :
           examined = F[k - 1] \o files /\ Found(root, files, Pending(stack), truncated)
    BY <1>4, <2>1, <2>2 DEF InRoot
  <2>4. PICK whole \in Seq(Path) : whole = Sorted(Allowed(root))
    BY AllowedFacts DEF ScanTypes
  <2>5. BeginsWith(files, whole)
    BY <2>3, <2>4, FoundBegins DEF ScanTypes
  <2>6. PICK before \in Seq(Path) : before = F[k - 1]
    <3>1. k - 1 \in 0 .. n
      BY <1>0
    <3>2. QED
      BY <1>1, <3>1
  <2>7. BeginsWith(before \o files, before \o whole)
    BY <2>5, BeginsWithJoined
  <2>8. k \in 0 .. n /\ k =< n
    BY <1>0
  <2>9. BeginsWith(F[k], F[n])
    BY <1>1, <1>2, <2>8
  <2>10. F[k] = before \o whole
    BY <1>1, <2>2, <2>4, <2>6
  <2>11. F[k] \in Seq(Path) /\ F[n] \in Seq(Path)
    BY <1>1, <1>2, <2>8
  <2>12. PICK a \in Seq(Path) : a = examined
    BY DEF ScanTypes
  <2>13. BeginsWith(a, F[k])
    BY <2>3, <2>6, <2>7, <2>10, <2>12
  <2>14. QED
    BY <1>0, <2>9, <2>11, <2>12, <2>13, BeginsWithTransitive
<1>5. QED
  BY <1>3, <1>4 DEF Walking

LEMMA PendingPaths ==
  ASSUME NEW frames \in Frames
  PROVE  \A e \in Pending(frames) : e \in Path
BY DEF Frames, Pending

\* A call of walk: its directory's entries are put before the rest, unless it
\* is too deep, and then what is in it is too deep as well.
LEMMA WalkInto ==
  ASSUME Inputs, NEW root \in Path, NEW below \in Frames, NEW e, NEW files \in Seq(Path),
         Framed(root, below), Len(below) =< limits.depth + 1,
         Found(root, files, {e} \cup Pending(below), truncated),
         \A f \in Pending(below) : LeftOf(e, f),
         Len(e) = Len(root) + Len(below), IsDirectory(e), ~ Full, truncated \in BOOLEAN,
         Walk(e, below)
  PROVE  /\ stack' \in Frames /\ stack' # << >> /\ Framed(root, stack')
         /\ Len(stack') =< limits.depth + 1
         /\ truncated' \in BOOLEAN /\ (truncated => truncated')
         /\ Found(root, files, Pending(stack'), truncated')
<1>1. e \in DOMAIN disk /\ e \in Path /\ e # << >> /\ ClearTo(root, e)
  BY InputFacts DEF Found
<1>2. PICK depth \in Nat : depth = limits.depth
  BY InputFacts
<1>3. PICK n \in Nat : n = Len(below)
  BY AppendFacts DEF Frames
<1>4. PICK base \in Nat : base = Len(root)
  BY DEF Path
<1>5. ~ IsFile(e)
  BY FilesAreOther
<1>6. CASE Len(below) > limits.depth
  <2>1. truncated' = TRUE /\ stack' = below
    BY <1>6 DEF Walk
  <2>2. below # << >>
    <3>1. n > 0
      BY <1>2, <1>3, <1>6
    <3>2. QED
      BY <1>3, <3>1
  <2>3. ASSUME NEW p \in Reachable(root), IsPrefix(e, p) PROVE p \notin Allowed(root)
    <3>1. IsStrictPrefix(e, p)
      BY <1>1, <1>5, <2>3, BelowEntry
    <3>2. p \in Path
      BY InputFacts, ReachableMeans
    <3>3. Len(e) < Len(p) /\ Len(p) \in Nat
      BY <1>1, <3>1, <3>2, PrefixByNames DEF Path
    <3>4. ~ (Len(p) - Len(root) - 1 =< limits.depth)
      BY <1>2, <1>3, <1>4, <1>6, <3>3
    <3>5. QED
      BY <3>4, AllowedMeans
  <2>4. \A p \in Reachable(root) : IsPrefix(e, p) => ~ (p \in Allowed(root) \/ ~ TRUE)
    BY <2>3
  <2>5. Found(root, files, Pending(below), TRUE)
    BY <2>4, FoundNothing
  <2>6. QED
    BY <2>1, <2>2, <2>5
<1>7. CASE ~ (Len(below) > limits.depth)
  <2>1. truncated' = truncated /\ stack' = Append(below, Entries(e))
    BY <1>7 DEF Walk
  <2>2. n + 1 =< depth + 1
    BY <1>2, <1>3, <1>7
  <2>3. CASE disk[e] = "directory"
    <3>1. PICK s \in Seq(Path) : s = Entries(e)
      BY <1>1, <2>3, EntriesFacts
    <3>2. /\ \A i \in DOMAIN s : Len(s[i]) = Len(e) + 1
          /\ \A i, j \in DOMAIN s : i < j => LeftOf(s[i], s[j])
      BY <1>1, <2>3, <3>1, EntriesFacts
    <3>3. /\ Found(root, files, Pending(below) \cup Elements(s), truncated)
          /\ \A i \in DOMAIN s, f \in Pending(below) : LeftOf(s[i], f)
      <4>1. PICK P : P = Pending(below) /\ \A f \in P : f \in Path /\ LeftOf(e, f)
        BY PendingPaths
      <4>2. Found(root, files, {e} \cup P, truncated)
        BY <4>1
      <4>3. /\ Found(root, files, P \cup Elements(s), truncated)
            /\ \A i \in DOMAIN s, f \in P : LeftOf(s[i], f)
        BY <2>3, <3>1, <4>1, <4>2, FoundEntries, ZenonT(30)
      <4>4. QED
        BY <4>1, <4>3
    <3>4. \A i \in DOMAIN s : Len(s[i]) = Len(root) + Len(below) + 1
      BY <3>2
    <3>5. /\ Framed(root, Append(below, s))
          /\ Pending(Append(below, s)) = Pending(below) \cup Elements(s)
      BY <3>2, <3>3, <3>4, FramePushed
    <3>6. /\ Append(below, s) \in Frames /\ Len(Append(below, s)) = n + 1
          /\ Append(below, s) # << >>
      BY <1>3, AppendFacts
    <3>7. QED
      BY <1>2, <2>1, <2>2, <3>1, <3>3, <3>5, <3>6
  <2>4. CASE disk[e] = "locked"
    <3>1. PICK s \in Seq(Path) : s = Entries(e) /\ DOMAIN s = {}
      <4>1. Entries(e) = << >> /\ << >> \in Seq(Path)
        BY <2>4 DEF Entries
      <4>2. PICK s \in Seq(Path) : s = << >>
        BY <4>1
      <4>3. DOMAIN s = {}
        BY <4>2
      <4>4. QED
        BY <4>1, <4>2, <4>3
    <3>2. ASSUME NEW p \in Reachable(root), IsPrefix(e, p) PROVE FALSE
      BY <1>1, <1>5, <2>4, <3>2, BelowEntry
    <3>3. Found(root, files, Pending(below), truncated)
      BY <3>2, FoundNothing
    <3>4. /\ Framed(root, Append(below, s))
          /\ Pending(Append(below, s)) = Pending(below) \cup Elements(s)
      <4>1. /\ \A i \in DOMAIN s : Len(s[i]) = Len(root) + Len(below) + 1
            /\ \A i, j \in DOMAIN s : i < j => LeftOf(s[i], s[j])
            /\ \A i \in DOMAIN s, f \in Pending(below) : LeftOf(s[i], f)
        BY <3>1
      <4>2. QED
        BY <4>1, FramePushed
    <3>5. Pending(Append(below, s)) = Pending(below)
      BY <3>1, <3>4 DEF Elements
    <3>6. /\ Append(below, s) \in Frames /\ Len(Append(below, s)) = n + 1
          /\ Append(below, s) # << >>
      BY <1>3, AppendFacts
    <3>7. QED
      BY <1>2, <2>1, <2>2, <3>1, <3>3, <3>4, <3>5, <3>6
  <2>5. QED
    BY <2>3, <2>4 DEF IsDirectory
<1>8. QED
  BY <1>6, <1>7

LEMMA InRootFacts ==
  ASSUME ScanTypes, NEW F, InRoot(F)
  PROVE  \E root \in Path, files \in Seq(Path) :
           /\ root = roots[next] /\ root # << >> /\ examined = F[next - 1] \o files
           /\ Found(root, files, Pending(stack), truncated)
<1>1. roots[next] \in Path /\ roots[next] # << >>
  BY InputFacts DEF ScanTypes, InRoot
<1>2. QED
  BY <1>1 DEF InRoot

\* A step into a root or within it.
LEMMA ComesIntoRoot ==
  ASSUME NEW F, UNCHANGED inputVars, NEW k \in 1 .. Len(roots), next' = k,
         ~ truncated' => AllAllowed(k - 1),
         NEW root, root = roots[k], NEW files \in Seq(Path),
         examined' = F[k - 1] \o files,
         stack' # << >>, stack' \in Frames, Framed(root, stack'),
         Len(stack') =< limits.depth + 1,
         Found(root, files, Pending(stack'), truncated')
  PROVE  InRoot(F)'
<1>1. PICK todo : todo = Pending(stack')
  OBVIOUS
<1>2. PICK cut : cut = truncated'
  OBVIOUS
<1>3. PICK before : before = k - 1
  OBVIOUS
<1>4. Found(root, files, todo, cut)
  BY <1>1, <1>2
<1>5. Found(root, files, todo, cut)'
  BY <1>4, InputsStay
<1>6. roots' = roots /\ limits' = limits
  BY DEF inputVars
<1>7. examined' = F[before] \o files /\ before = next' - 1 /\ root = roots'[next']
  BY <1>3, <1>6
<1>8. \E fs \in Seq(Path) :
        examined' = F[next' - 1] \o fs /\ Found(roots[next], fs, Pending(stack), truncated)'
  BY <1>1, <1>2, <1>5, <1>7
<1>9. ~ truncated' => AllAllowed(next - 1)'
  <2>1. ~ truncated' => AllAllowed(before)
    BY <1>3
  <2>2. AllAllowed(before) => AllAllowed(before)'
    BY InputsStay
  <2>3. QED
    BY <1>7, <2>1, <2>2
<1>10. QED
  BY <1>6, <1>7, <1>8, <1>9 DEF InRoot

LEMMA StaysInRoot ==
  ASSUME NEW F, next \in 1 .. Len(roots), UNCHANGED inputVars, next' = next,
         ~ truncated => AllAllowed(next - 1), truncated => truncated',
         NEW root, root = roots[next], NEW files \in Seq(Path),
         examined' = F[next - 1] \o files,
         stack' # << >>, stack' \in Frames, Framed(root, stack'),
         Len(stack') =< limits.depth + 1,
         Found(root, files, Pending(stack'), truncated')
  PROVE  InRoot(F)'
<1>1. PICK k \in 1 .. Len(roots) : k = next
  OBVIOUS
<1>2. next' = k /\ (~ truncated' => AllAllowed(k - 1)) /\ root = roots[k]
      /\ examined' = F[k - 1] \o files
  BY <1>1
<1>3. QED
  BY <1>2, ComesIntoRoot

\* A step from a root to the end of it.
LEMMA ComesBetweenRoots ==
  ASSUME NEW F, UNCHANGED inputVars, stack' = << >>, examined' = F[next'],
         NEW n, n = next', ~ truncated' => AllAllowed(n)
  PROVE  BetweenRoots(F)'
<1>1. AllAllowed(n) => AllAllowed(n)'
  BY InputsStay
<1>2. ~ truncated' => AllAllowed(next)'
  BY <1>1
<1>3. QED
  BY <1>2 DEF BetweenRoots

LEMMA Walking_Return ==
  ASSUME ScanTypes, NEW F \in Chains(Listings), Walking(F), Return
  PROVE  Walking(F)'
<1>1. /\ stack # << >> /\ Last(stack) = << >> /\ stack' = Front(stack)
      /\ UNCHANGED inputVars /\ next' = next /\ examined' = examined /\ truncated' = truncated
  BY DEF Return, resultVars
<1>2. InRoot(F)
  BY <1>1 DEF Walking, BetweenRoots
<1>3. PICK root \in Path, files \in Seq(Path) :
         /\ root = roots[next] /\ root # << >> /\ examined = F[next - 1] \o files
         /\ Found(root, files, Pending(stack), truncated)
  BY <1>2, InRootFacts
<1>4. /\ stack \in Frames /\ next \in 1 .. Len(roots) /\ Framed(root, stack)
      /\ Len(stack) =< limits.depth + 1 /\ (~ truncated => AllAllowed(next - 1))
  BY <1>2, <1>3 DEF InRoot
<1>5. /\ stack' \in Frames /\ Len(stack') = Len(stack) - 1 /\ Len(stack) \in Nat
      /\ Framed(root, stack') /\ Pending(stack') = Pending(stack)
  BY <1>1, <1>4, FrontFacts, FrameDropped
<1>6. limits.depth \in Nat /\ Len(roots) \in Nat
  BY InputFacts DEF ScanTypes
<1>7. CASE stack' # << >>
  <2>1. Len(stack') =< limits.depth + 1
    BY <1>4, <1>5, <1>6
  <2>2. InRoot(F)'
    BY <1>1, <1>3, <1>4, <1>5, <1>7, <2>1, StaysInRoot
  <2>3. QED
    BY <2>2 DEF Walking
<1>8. CASE stack' = << >>
  <2>1. Pending(stack) = {}
    BY <1>5, <1>8 DEF Pending
  <2>2. PICK cut : cut = truncated
    OBVIOUS
  <2>3. Found(root, files, {}, cut)
    BY <1>3, <2>1, <2>2
  <2>4. files = Sorted(Allowed(root)) /\ (~ cut => Reachable(root) = Allowed(root))
    BY <2>3, FoundAll DEF ScanTypes
  <2>5. PICK k \in 1 .. Len(roots) : k = next
    BY <1>4
  <2>6. F[k] = F[k - 1] \o Sorted(Allowed(roots[k]))
    BY ChainFacts DEF ScanTypes
  <2>7. examined' = F[next']
    BY <1>1, <1>3, <2>4, <2>5, <2>6
  <2>8. ~ truncated' => AllAllowed(k)
    <3>1. \A i \in 1 .. k : i = k \/ i \in 1 .. k - 1
      OBVIOUS
    <3>2. QED
      BY <1>1, <1>3, <1>4, <2>2, <2>4, <2>5, <3>1 DEF AllAllowed
  <2>9. BetweenRoots(F)'
    BY <1>1, <1>8, <2>5, <2>7, <2>8, ComesBetweenRoots
  <2>10. QED
    BY <2>9 DEF Walking
<1>9. QED
  BY <1>7, <1>8

\* What the three steps at an entry have in common.
LEMMA AtEntryFacts ==
  ASSUME ScanTypes, NEW F \in Chains(Listings), Walking(F), AtEntry
  PROVE  /\ InRoot(F) /\ next \in 1 .. Len(roots) /\ (~ truncated => AllAllowed(next - 1))
         /\ AfterEntry \in Frames /\ AfterEntry # << >> /\ Len(AfterEntry) =< limits.depth + 1
         /\ \A e \in Pending(AfterEntry) : LeftOf(Entry, e)
         /\ \E root \in Path, files \in Seq(Path) :
              /\ root = roots[next] /\ root # << >> /\ examined = F[next - 1] \o files
              /\ Found(root, files, {Entry} \cup Pending(AfterEntry), truncated)
              /\ Framed(root, AfterEntry)
              /\ Entry \in Path /\ Len(Entry) = Len(root) + Len(AfterEntry)
              /\ Len(root) < Len(Entry) /\ Len(Entry) - Len(root) - 1 =< limits.depth
<1>1. InRoot(F) /\ stack # << >> /\ Last(stack) # << >>
  BY DEF AtEntry, Walking, BetweenRoots
<1>2. PICK root \in Path, files \in Seq(Path) :
         /\ root = roots[next] /\ root # << >> /\ examined = F[next - 1] \o files
         /\ Found(root, files, Pending(stack), truncated)
  BY <1>1, InRootFacts
<1>3. /\ stack \in Frames /\ next \in 1 .. Len(roots) /\ Framed(root, stack)
      /\ Len(stack) =< limits.depth + 1 /\ (~ truncated => AllAllowed(next - 1))
  BY <1>1, <1>2 DEF InRoot
<1>4. PICK rest : rest = AfterEntry
  OBVIOUS
<1>5. PICK entry : entry = Entry
  OBVIOUS
<1>6. /\ rest \in Frames /\ Len(rest) = Len(stack)
      /\ Framed(root, rest) /\ Pending(stack) = {entry} \cup Pending(rest)
      /\ \A e \in Pending(rest) : LeftOf(entry, e)
      /\ entry \in Path /\ Len(entry) = Len(root) + Len(stack)
  BY <1>1, <1>3, <1>4, <1>5, FirstTaken DEF AfterEntry, Entry
<1>7. Len(stack) \in Nat \ {0} /\ Len(root) \in Nat /\ limits.depth \in Nat
  BY <1>1, <1>3, FrontFacts, InputFacts DEF Path, ScanTypes
<1>8. rest # << >>
  <2>1. Len(rest) # 0
    BY <1>6, <1>7
  <2>2. QED
    BY <2>1
<1>9. Len(root) < Len(entry) /\ Len(entry) - Len(root) - 1 =< limits.depth
  BY <1>3, <1>6, <1>7
<1>10. Found(root, files, {entry} \cup Pending(rest), truncated)
  BY <1>2, <1>6
<1>11. QED
  BY <1>1, <1>2, <1>3, <1>4, <1>5, <1>6, <1>8, <1>9, <1>10

LEMMA Walking_Skip ==
  ASSUME ScanTypes, NEW F \in Chains(Listings), Walking(F), Skip
  PROVE  Walking(F)'
<1>1. /\ AtEntry /\ ~ IsDirectory(Entry) /\ ~ IsFile(Entry) /\ stack' = AfterEntry
      /\ UNCHANGED inputVars /\ next' = next /\ examined' = examined /\ truncated' = truncated
  BY DEF Skip, resultVars
<1>2. PICK root \in Path, files \in Seq(Path) :
         /\ root = roots[next] /\ root # << >> /\ examined = F[next - 1] \o files
         /\ Found(root, files, {Entry} \cup Pending(AfterEntry), truncated)
         /\ Framed(root, AfterEntry)
  BY <1>1, AtEntryFacts
<1>3. PICK e : e = Entry
  OBVIOUS
<1>4. PICK rest : rest = Pending(AfterEntry)
  OBVIOUS
<1>5. PICK cut : cut = truncated
  OBVIOUS
<1>6. Found(root, files, {e} \cup rest, cut)
  BY <1>2, <1>3, <1>4, <1>5
<1>7. e \in DOMAIN disk /\ ClearTo(root, e)
  BY <1>6 DEF Found
<1>8. ASSUME NEW p \in Reachable(root), IsPrefix(e, p) PROVE FALSE
  <2>1. IsFile(e) \/ disk[e] = "directory"
    BY <1>7, <1>8, BelowEntry
  <2>2. QED
    BY <1>1, <1>3, <1>7, <2>1 DEF IsDirectory
<1>9. Found(root, files, rest, cut)
  <2>1. \A p \in Reachable(root) : IsPrefix(e, p) => ~ (p \in Allowed(root) \/ ~ cut)
    BY <1>8
  <2>2. cut => cut
    OBVIOUS
  <2>3. QED
    BY <1>6, <2>1, <2>2, FoundNothing, Zenon
<1>10. Found(root, files, Pending(stack'), truncated')
  BY <1>1, <1>4, <1>5, <1>9
<1>11. /\ next \in 1 .. Len(roots) /\ (~ truncated => AllAllowed(next - 1))
       /\ stack' \in Frames /\ stack' # << >> /\ Len(stack') =< limits.depth + 1
       /\ Framed(root, stack') /\ examined' = F[next - 1] \o files
  BY <1>1, <1>2, AtEntryFacts
<1>12. InRoot(F)'
  BY <1>1, <1>2, <1>10, <1>11, StaysInRoot
<1>13. QED
  BY <1>12 DEF Walking

LEMMA Walking_Examine ==
  ASSUME ScanTypes, NEW F \in Chains(Listings), Walking(F), Examine
  PROVE  Walking(F)'
<1>1. /\ AtEntry /\ IsFile(Entry) /\ stack' = AfterEntry
      /\ UNCHANGED inputVars /\ next' = next /\ truncated' = truncated
      /\ examined' = Append(examined, Entry)
  BY DEF Examine
<1>2. PICK root \in Path, files \in Seq(Path) :
         /\ root = roots[next] /\ root # << >> /\ examined = F[next - 1] \o files
         /\ Found(root, files, {Entry} \cup Pending(AfterEntry), truncated)
         /\ Framed(root, AfterEntry)
         /\ Entry \in Path
         /\ Len(root) < Len(Entry) /\ Len(Entry) - Len(root) - 1 =< limits.depth
  BY <1>1, AtEntryFacts
<1>3. PICK e \in Path : e = Entry
  BY <1>2
<1>4. PICK rest : rest = Pending(AfterEntry)
  OBVIOUS
<1>5. PICK cut : cut = truncated
  OBVIOUS
<1>6. Found(root, files, {e} \cup rest, cut)
  BY <1>2, <1>3, <1>4, <1>5
<1>7. \A f \in rest : LeftOf(e, f)
  BY <1>1, <1>3, <1>4, AtEntryFacts
<1>8. Found(root, Append(files, e), rest, cut)
  BY <1>1, <1>2, <1>3, <1>6, <1>7, FoundFile DEF ScanTypes
<1>9. PICK more \in Seq(Path) : more = Append(files, e)
  <2>1. Append(files, e) \in Seq(Path)
    OBVIOUS
  <2>2. QED
    BY <2>1
<1>10. Found(root, more, Pending(stack'), truncated')
  BY <1>1, <1>4, <1>5, <1>8, <1>9
<1>11. /\ next \in 1 .. Len(roots) /\ (~ truncated => AllAllowed(next - 1))
       /\ stack' \in Frames /\ stack' # << >> /\ Len(stack') =< limits.depth + 1
       /\ Framed(root, stack')
  BY <1>1, <1>2, AtEntryFacts
<1>12. examined' = F[next - 1] \o more
  <2>1. PICK k \in 0 .. Len(roots) : k = next - 1
    BY <1>11, InputFacts DEF ScanTypes
  <2>2. PICK s \in Seq(Path) : s = F[k]
    BY ChainFacts DEF ScanTypes
  <2>3. Append(s \o files, e) = s \o Append(files, e)
    BY AppendJoined
  <2>4. examined' = Append(s \o files, e)
    BY <1>1, <1>2, <1>3, <2>1, <2>2
  <2>5. QED
    BY <1>9, <2>1, <2>2, <2>3, <2>4
<1>13. InRoot(F)'
  BY <1>1, <1>2, <1>10, <1>11, <1>12, StaysInRoot
<1>14. QED
  BY <1>13 DEF Walking

LEMMA Walking_Descend ==
  ASSUME ScanTypes, NEW F \in Chains(Listings), Walking(F), Descend
  PROVE  Walking(F)'
<1>1. /\ AtEntry /\ ~ Full /\ IsDirectory(Entry) /\ Walk(Entry, AfterEntry)
      /\ UNCHANGED inputVars /\ next' = next /\ examined' = examined
  BY DEF Descend
<1>2. PICK root \in Path, files \in Seq(Path) :
         /\ root = roots[next] /\ root # << >> /\ examined = F[next - 1] \o files
         /\ Found(root, files, {Entry} \cup Pending(AfterEntry), truncated)
         /\ Framed(root, AfterEntry) /\ Len(Entry) = Len(root) + Len(AfterEntry)
  BY <1>1, AtEntryFacts
<1>3. PICK e : e = Entry
  OBVIOUS
<1>4. PICK below \in Frames : below = AfterEntry
  BY <1>1, AtEntryFacts
<1>5. /\ Found(root, files, {e} \cup Pending(below), truncated)
      /\ Framed(root, below) /\ Len(e) = Len(root) + Len(below)
      /\ Len(below) =< limits.depth + 1 /\ \A f \in Pending(below) : LeftOf(e, f)
      /\ IsDirectory(e) /\ Walk(e, below)
  BY <1>1, <1>2, <1>3, <1>4, AtEntryFacts
<1>6. /\ stack' \in Frames /\ stack' # << >> /\ Framed(root, stack')
      /\ Len(stack') =< limits.depth + 1 /\ (truncated => truncated')
      /\ Found(root, files, Pending(stack'), truncated')
  BY <1>1, <1>5, WalkInto DEF ScanTypes
<1>7. /\ next \in 1 .. Len(roots) /\ (~ truncated => AllAllowed(next - 1))
      /\ examined' = F[next - 1] \o files
  BY <1>1, <1>2, AtEntryFacts
<1>8. InRoot(F)'
  BY <1>1, <1>2, <1>6, <1>7, StaysInRoot
<1>9. QED
  BY <1>8 DEF Walking

LEMMA NothingToDo ==
  /\ << >> \in Frames /\ Len(<< >>) = 0 /\ << >> \in Seq(Path)
  /\ \A root : Framed(root, << >>)
  /\ Pending(<< >>) = {}
BY DEF Frames, Framed, Pending

LEMMA JoinedWithNothing ==
  ASSUME NEW s \in Seq(Path)
  PROVE  s \o << >> = s
OBVIOUS

\* A root begins as the one entry there is to do.
LEMMA FoundAtFirst ==
  ASSUME Inputs, NEW root \in Path, IsDirectory(root), NEW cut
  PROVE  Found(root, << >>, {root}, cut)
<1>1. PICK files \in Seq(Path) : files = << >> /\ DOMAIN files = {}
  <2>1. << >> \in Seq(Path) /\ DOMAIN << >> = {}
    OBVIOUS
  <2>2. QED
    BY <2>1
<1>2. IsPrefix(root, root)
  BY PrefixByNames
<1>3. ASSUME NEW q \in DOMAIN disk, IsPrefix(root, q), IsStrictPrefix(q, root) PROVE FALSE
  <2>1. q \in Path
    BY InputFacts
  <2>2. Len(root) =< Len(q) /\ Len(q) < Len(root)
    BY <1>3, <2>1, PrefixByNames
  <2>3. Len(root) \in Nat /\ Len(q) \in Nat
    BY <2>1 DEF Path
  <2>4. QED
    BY <2>2, <2>3
<1>4. ClearTo(root, root)
  BY <1>2, <1>3 DEF ClearTo
<1>5. \A p \in Reachable(root) : IsPrefix(root, p)
  BY ReachableMeans DEF IsStrictPrefix
<1>6. root \in DOMAIN disk
  BY DEF IsDirectory
<1>7. Found(root, files, {root}, cut)
  BY <1>1, <1>4, <1>5, <1>6 DEF Found, Ordered
<1>8. QED
  BY <1>1, <1>7

\* What is no directory has nothing below it.
LEMMA NothingBelow ==
  ASSUME Inputs, NEW root \in Path, root # << >>, ~ IsDirectory(root)
  PROVE  Reachable(root) = {} /\ Allowed(root) = {}
<1>1. ASSUME NEW p \in Reachable(root) PROVE FALSE
  <2>1. p \in DOMAIN disk /\ IsStrictPrefix(root, p) /\ ClearTo(root, p) /\ IsPrefix(root, p)
    BY ReachableMeans DEF IsStrictPrefix
  <2>2. root \in DOMAIN disk
    BY <2>1, Ancestors
  <2>3. IsPrefix(root, root)
    BY PrefixByNames
  <2>4. disk[root] = "directory"
    BY <2>1, <2>2, <2>3 DEF ClearTo
  <2>5. QED
    BY <2>2, <2>4 DEF IsDirectory
<1>2. QED
  BY <1>1, AllowedMeans

LEMMA Walking_TakeRoot ==
  ASSUME ScanTypes, NEW F \in Chains(Listings), Walking(F), TakeRoot, ~ Full
  PROVE  Walking(F)'
<1>1. /\ stack = << >> /\ next < Len(roots) /\ next' = next + 1
      /\ UNCHANGED inputVars /\ examined' = examined
      /\ IF IsDirectory(roots[next + 1]) THEN Walk(roots[next + 1], << >>)
         ELSE UNCHANGED <<stack, truncated>>
  BY DEF TakeRoot
<1>2. examined = F[next] /\ (~ truncated => AllAllowed(next))
  BY <1>1 DEF Walking, BetweenRoots, InRoot
<1>3. next \in 0 .. Len(roots) /\ Len(roots) \in Nat /\ limits.depth \in Nat
  BY InputFacts DEF ScanTypes
<1>4. PICK k \in 1 .. Len(roots) : k = next + 1 /\ k - 1 = next
  <2>1. next + 1 \in 1 .. Len(roots)
    BY <1>1, <1>3
  <2>2. PICK k \in 1 .. Len(roots) : k = next + 1
    BY <2>1
  <2>3. k - 1 = next
    BY <1>3, <2>2
  <2>4. QED
    BY <2>2, <2>3
<1>5. PICK root \in Path : root = roots[k] /\ root # << >>
  BY InputFacts DEF ScanTypes
<1>6. F[k - 1] \in Seq(Path) /\ F[k] = F[k - 1] \o Sorted(Allowed(root))
  <2>1. k - 1 \in 0 .. Len(roots)
    BY <1>3, <1>4
  <2>2. QED
    BY <1>5, <2>1, ChainFacts DEF ScanTypes
<1>7. CASE IsDirectory(root)
  <2>1. Walk(root, << >>)
    BY <1>1, <1>4, <1>5, <1>7
  <2>2. PICK none \in Frames : none = << >>
    BY NothingToDo
  <2>3. PICK files \in Seq(Path) : files = << >>
    BY NothingToDo
  <2>4. /\ Framed(root, none) /\ Len(none) = 0 /\ Pending(none) = {}
    BY <2>2, NothingToDo
  <2>5. Len(none) =< limits.depth + 1 /\ Len(root) = Len(root) + Len(none)
    BY <1>3, <2>4 DEF Path
  <2>6. PICK cut : cut = truncated
    OBVIOUS
  <2>7. Found(root, files, {root}, cut)
    BY <1>7, <2>3, FoundAtFirst DEF ScanTypes
  <2>8. {root} \cup Pending(none) = {root}
    BY <2>4
  <2>9. /\ Found(root, files, {root} \cup Pending(none), truncated)
        /\ \A f \in Pending(none) : LeftOf(root, f)
        /\ Walk(root, none) /\ truncated \in BOOLEAN /\ Inputs
    BY <2>1, <2>2, <2>4, <2>6, <2>7, <2>8 DEF ScanTypes
  <2>10. /\ stack' \in Frames /\ stack' # << >> /\ Framed(root, stack')
         /\ Len(stack') =< limits.depth + 1 /\ (truncated => truncated')
         /\ Found(root, files, Pending(stack'), truncated')
    BY <1>7, <2>4, <2>5, <2>9, WalkInto
  <2>11. examined' = F[k - 1] \o files
    BY <1>1, <1>2, <1>4, <1>6, <2>3, JoinedWithNothing
  <2>12. next' = k /\ (~ truncated' => AllAllowed(k - 1))
    BY <1>1, <1>2, <1>4, <2>10
  <2>13. InRoot(F)'
    BY <1>1, <1>5, <2>10, <2>11, <2>12, ComesIntoRoot
  <2>14. QED
    BY <2>13 DEF Walking
<1>8. CASE ~ IsDirectory(root)
  <2>1. stack' = << >> /\ truncated' = truncated
    BY <1>1, <1>4, <1>5, <1>8
  <2>2. Reachable(root) = {} /\ Allowed(root) = {}
    BY <1>5, <1>8, NothingBelow DEF ScanTypes
  <2>3. PICK s \in Seq(Path) : s = Sorted(Allowed(root))
    BY AllowedFacts DEF ScanTypes
  <2>4. s = << >>
    <3>1. Lists(s, {})
      BY <2>2, <2>3, AllowedFacts DEF ScanTypes
    <3>2. \A i \in DOMAIN s : FALSE
      BY <3>1 DEF Lists
    <3>3. Len(s) = 0
      BY <3>2
    <3>4. QED
      BY <3>3
  <2>5. examined' = F[next']
    BY <1>1, <1>2, <1>4, <1>6, <2>3, <2>4, JoinedWithNothing
  <2>6. ~ truncated' => AllAllowed(k)
    <3>1. \A i \in 1 .. k : i = k \/ i \in 1 .. k - 1
      OBVIOUS
    <3>2. QED
      BY <1>2, <1>4, <1>5, <2>1, <2>2, <3>1 DEF AllAllowed
  <2>7. k = next'
    BY <1>1, <1>4
  <2>8. BetweenRoots(F)'
    BY <1>1, <2>1, <2>5, <2>6, <2>7, ComesBetweenRoots
  <2>9. QED
    BY <2>8 DEF Walking
<1>9. QED
  BY <1>7, <1>8

LEMMA ScanTypes_Init == ScanInit => ScanTypes
<1>. SUFFICES ASSUME ScanInit PROVE ScanTypes
  OBVIOUS
<1>1. Inputs
  BY DEF ScanInit, Inputs
<1>2. limits.files \in Nat /\ Len(roots) \in Nat
  BY <1>1, InputFacts
<1>3. PICK none \in Seq(Path) : none = << >> /\ Len(none) = 0
  BY NothingToDo
<1>4. next \in 0 .. Len(roots) /\ examined = none /\ candidates = none /\ truncated \in BOOLEAN
  <2>1. next \in 0 .. Len(roots) /\ truncated \in BOOLEAN
    <3>1. next = 0 /\ truncated \in BOOLEAN
      BY DEF ScanInit
    <3>2. QED
      BY <1>2, <3>1
  <2>2. examined = none /\ candidates = none
    BY <1>3, Zenon DEF ScanInit
  <2>3. QED
    BY <2>1, <2>2
<1>5. Len(examined) =< limits.files
  BY <1>2, <1>3, <1>4
<1>6. QED
  BY <1>1, <1>3, <1>4, <1>5 DEF ScanTypes

LEMMA ScanTypes_Step == ScanTypes /\ ScanNext => ScanTypes'
<1>. SUFFICES ASSUME ScanTypes, ScanNext PROVE ScanTypes'
  OBVIOUS
<1>1. UNCHANGED inputVars
  BY DEF ScanNext, TakeRoot, Return, StopShort, Skip, Descend, Examine
<1>2. Inputs' /\ roots' = roots /\ limits' = limits
  BY <1>1, InputsStay DEF ScanTypes, inputVars
<1>3. Len(roots) \in Nat /\ limits.files \in Nat /\ next \in 0 .. Len(roots)
  BY InputFacts DEF ScanTypes
<1>4. next' \in 0 .. Len(roots)
  <2>1. CASE TakeRoot
    BY <1>3, <2>1 DEF TakeRoot
  <2>2. CASE ~ TakeRoot
    BY <1>3, <2>2 DEF ScanNext, Return, StopShort, Skip, Descend, Examine
  <2>3. QED
    BY <2>1, <2>2
<1>5. truncated' \in BOOLEAN
  BY DEF ScanNext, TakeRoot, Return, StopShort, Skip, Descend, Examine, Walk, resultVars, ScanTypes
<1>6. /\ examined' \in Seq(Path) /\ candidates' \in Seq(Path)
      /\ Len(examined') =< limits.files
  <2>1. CASE Examine
    <3>1. PICK e \in Path : e = Entry
      BY <2>1, InputFacts DEF Examine, IsFile, ScanTypes
    <3>2. PICK s \in Seq(Path) : s = examined
      BY DEF ScanTypes
    <3>3. PICK c \in Seq(Path) : c = candidates
      BY DEF ScanTypes
    <3>4. /\ Append(s, e) \in Seq(Path) /\ Append(c, e) \in Seq(Path)
          /\ Len(Append(s, e)) = Len(s) + 1 /\ Len(s) \in Nat
      OBVIOUS
    <3>5. examined' = Append(s, e) /\ (candidates' = c \/ candidates' = Append(c, e))
      <4>1. candidates' = IF Loadable(Entry) THEN Append(candidates, Entry) ELSE candidates
        BY <2>1 DEF Examine
      <4>2. examined' = Append(examined, Entry)
        BY <2>1 DEF Examine
      <4>3. QED
        BY <3>1, <3>2, <3>3, <4>1, <4>2
    <3>6. Len(s) < limits.files
      BY <1>3, <2>1, <3>2, <3>4 DEF Examine, Full
    <3>7. Len(examined') =< limits.files
      BY <1>3, <3>4, <3>5, <3>6
    <3>8. examined' \in Seq(Path) /\ candidates' \in Seq(Path)
      BY <3>4, <3>5
    <3>9. QED
      BY <3>7, <3>8
  <2>2. CASE ~ Examine
    <3>1. examined' = examined /\ candidates' = candidates
      BY <2>2 DEF ScanNext, TakeRoot, Return, StopShort, Skip, Descend, resultVars
    <3>2. QED
      BY <3>1 DEF ScanTypes
  <2>3. QED
    BY <2>1, <2>2
<1>7. QED
  BY <1>2, <1>4, <1>5, <1>6 DEF ScanTypes

\* CandidatesPicked, of the modules on the disk.
Wanted == {p \in Path : IsModule(p)}

LEMMA PickedMeans ==
  examined \in Seq(Path) =>
    (CandidatesPicked <=> \E place : place \in Picks(candidates, examined, Wanted))
<1>. SUFFICES ASSUME examined \in Seq(Path)
     PROVE  CandidatesPicked <=> \E place : place \in Picks(candidates, examined, Wanted)
  OBVIOUS
<1>1. {n \in DOMAIN examined : IsModule(examined[n])} = {n \in DOMAIN examined : examined[n] \in Wanted}
  BY DEF Wanted
<1>2. QED
  BY <1>1 DEF CandidatesPicked, Picks

LEMMA PickedMeansThen ==
  (examined \in Seq(Path))' =>
    (CandidatesPicked <=> \E place : place \in Picks(candidates, examined, Wanted))'
BY PickedMeans, PTL

LEMMA Picked_Init == ScanInit => CandidatesPicked
<1>. SUFFICES ASSUME ScanInit PROVE CandidatesPicked
  OBVIOUS
<1>1. PICK none \in Seq(Path) : none = << >> /\ DOMAIN none = {}
  <2>1. << >> \in Seq(Path) /\ DOMAIN << >> = {}
    OBVIOUS
  <2>2. QED
    BY <2>1
<1>2. candidates = none /\ examined = none
  BY <1>1 DEF ScanInit
<1>3. none \in Picks(none, none, Wanted)
  <2>1. none \in [DOMAIN none -> DOMAIN none]
    BY <1>1
  <2>2. QED
    BY <1>1, <2>1 DEF Picks
<1>4. QED
  BY <1>1, <1>2, <1>3, PickedMeans

LEMMA Picked_Same ==
  ASSUME examined \in Seq(Path), CandidatesPicked, UNCHANGED <<inputVars, examined, candidates>>
  PROVE  CandidatesPicked'
<1>1. PICK place : place \in Picks(candidates, examined, Wanted)
  BY PickedMeans
<1>2. Wanted' = Wanted
  BY InputsStay DEF Wanted
<1>3. place \in Picks(candidates', examined', Wanted')
  BY <1>1, <1>2
<1>4. QED
  BY <1>3, PickedMeansThen

LEMMA Picked_Examine ==
  ASSUME ScanTypes, CandidatesPicked, Examine
  PROVE  CandidatesPicked'
<1>1. UNCHANGED inputVars /\ IsFile(Entry)
  BY DEF Examine
<1>2. PICK e \in Path : e = Entry
  BY <1>1, InputFacts DEF IsFile, ScanTypes
<1>3. PICK s \in Seq(Path) : s = examined
  BY DEF ScanTypes
<1>4. PICK c \in Seq(Path) : c = candidates
  BY DEF ScanTypes
<1>5. PICK place : place \in Picks(c, s, Wanted)
  BY <1>3, <1>4, PickedMeans
<1>6. PICK W : W = Wanted
  OBVIOUS
<1>7. PICK after : after \in Picks(IF e \in W THEN Append(c, e) ELSE c, Append(s, e), W)
  BY <1>5, <1>6, PickedNext
<1>8. e \in W <=> Loadable(Entry)
  BY <1>1, <1>2, <1>6, LoadableIsModule DEF Wanted
<1>9. examined' = Append(s, e) /\ candidates' = IF e \in W THEN Append(c, e) ELSE c
  BY <1>2, <1>3, <1>4, <1>8 DEF Examine
<1>10. Wanted' = W
  BY <1>1, <1>6, InputsStay DEF Wanted
<1>11. after \in Picks(candidates', examined', Wanted')
  BY <1>7, <1>9, <1>10
<1>12. examined' \in Seq(Path)
  <2>1. Append(s, e) \in Seq(Path)
    OBVIOUS
  <2>2. QED
    BY <1>9, <2>1
<1>13. QED
  BY <1>11, <1>12, PickedMeansThen

LEMMA SearchInv_Init == ScanInit => SearchInv
<1>. SUFFICES ASSUME ScanInit PROVE SearchInv
  OBVIOUS
<1>1. ScanTypes /\ CandidatesPicked
  BY ScanTypes_Init, Picked_Init
<1>2. ASSUME NEW F \in Chains(Listings)
      PROVE  BeginsWith(examined, F[Len(roots)]) /\ Walking(F)
  <2>1. F[0] = << >>
    BY <1>1, ChainFacts DEF ScanTypes
  <2>2. AllAllowed(0)
    BY DEF AllAllowed
  <2>3. stack = << >> /\ examined = << >> /\ next = 0
    BY DEF ScanInit
  <2>4. BetweenRoots(F)
    BY <2>1, <2>2, <2>3 DEF BetweenRoots
  <2>5. Walking(F)
    BY <2>4 DEF Walking
  <2>6. QED
    BY <1>1, <2>5, WalkingBegins
<1>3. QED
  BY <1>1, <1>2 DEF SearchInv

\* Without a step of the search nothing of this changes.
LEMMA SearchInv_Same == SearchInv /\ UNCHANGED scanVars => SearchInv'
<1>. SUFFICES ASSUME SearchInv, UNCHANGED scanVars PROVE SearchInv'
  OBVIOUS
<1>1. /\ UNCHANGED inputVars /\ next' = next /\ stack' = stack /\ examined' = examined
      /\ candidates' = candidates /\ truncated' = truncated
      /\ disk' = disk /\ roots' = roots /\ limits' = limits
  BY DEF scanVars, resultVars, inputVars
<1>2. ScanTypes /\ CandidatesPicked
  BY DEF SearchInv
<1>3. ScanTypes'
  BY <1>1, <1>2, InputsStay DEF ScanTypes
<1>4. CandidatesPicked'
  BY <1>1, <1>2, Picked_Same DEF ScanTypes
<1>5. ASSUME NEW F \in Chains(Listings), Walking(F) PROVE Walking(F)'
  <2>1. CASE BetweenRoots(F)
    <3>1. PICK n : n = next
      OBVIOUS
    <3>2. stack' = << >> /\ examined' = F[next'] /\ n = next' /\ (~ truncated' => AllAllowed(n))
      BY <1>1, <2>1, <3>1 DEF BetweenRoots
    <3>3. BetweenRoots(F)'
      BY <1>1, <3>2, ComesBetweenRoots
    <3>4. QED
      BY <3>3 DEF Walking
  <2>2. CASE InRoot(F)
    <3>1. PICK root \in Path, files \in Seq(Path) :
             /\ root = roots[next] /\ examined = F[next - 1] \o files
             /\ Found(root, files, Pending(stack), truncated)
      BY <1>2, <2>2, InRootFacts
    <3>2. /\ stack # << >> /\ stack \in Frames /\ next \in 1 .. Len(roots)
          /\ Framed(root, stack) /\ Len(stack) =< limits.depth + 1
          /\ (~ truncated => AllAllowed(next - 1))
      BY <2>2, <3>1 DEF InRoot
    <3>3. InRoot(F)'
      BY <1>1, <3>1, <3>2, StaysInRoot
    <3>4. QED
      BY <3>3 DEF Walking
  <2>3. QED
    BY <1>5, <2>1, <2>2 DEF Walking
<1>6. Listings' = Listings /\ (Full' <=> Full)
  BY <1>1, InputsStay DEF Full
<1>7. ASSUME NEW F \in Chains(Listings)
      PROVE  BeginsWith(examined, F[Len(roots)])' /\ ((Full /\ truncated) \/ Walking(F))'
  BY <1>1, <1>5, <1>6 DEF SearchInv
<1>8. \A F \in Chains(Listings)' :
         BeginsWith(examined, F[Len(roots)])' /\ ((Full /\ truncated) \/ Walking(F))'
  BY <1>6, <1>7
<1>9. QED
  BY <1>3, <1>4, <1>8 DEF SearchInv

LEMMA WalkingBeginsThen ==
  \A F : (ScanTypes /\ F \in Chains(Listings) /\ Walking(F))'
           => BeginsWith(examined, F[Len(roots)])'
<1>1. \A F : (ScanTypes /\ F \in Chains(Listings) /\ Walking(F))
               => BeginsWith(examined, F[Len(roots)])
  BY WalkingBegins
<1>2. (\A F : (ScanTypes /\ F \in Chains(Listings) /\ Walking(F))
               => BeginsWith(examined, F[Len(roots)]))'
  BY <1>1, PTL
<1>3. QED
  BY <1>2

LEMMA SearchInv_Step == SearchInv /\ ScanNext => SearchInv'
<1>. SUFFICES ASSUME SearchInv, ScanNext PROVE SearchInv'
  OBVIOUS
<1>1. ScanTypes /\ CandidatesPicked
  BY DEF SearchInv
<1>2. ScanTypes'
  BY <1>1, ScanTypes_Step
<1>3. UNCHANGED inputVars /\ roots' = roots /\ limits' = limits
  BY DEF ScanNext, TakeRoot, Return, StopShort, Skip, Descend, Examine, inputVars
<1>4. CandidatesPicked'
  <2>1. CASE Examine
    BY <1>1, <2>1, Picked_Examine
  <2>2. CASE ~ Examine
    <3>1. examined' = examined /\ candidates' = candidates
      BY <2>2 DEF ScanNext, TakeRoot, Return, StopShort, Skip, Descend, resultVars
    <3>2. QED
      BY <1>1, <1>3, <3>1, Picked_Same DEF ScanTypes
  <2>3. QED
    BY <2>1, <2>2
<1>5. Listings' = Listings
  BY <1>3, InputsStay
<1>6. ASSUME NEW F \in Chains(Listings)
      PROVE  BeginsWith(examined, F[Len(roots)])' /\ ((Full /\ truncated) \/ Walking(F))'
  <2>1. BeginsWith(examined, F[Len(roots)]) /\ ((Full /\ truncated) \/ Walking(F))
    BY DEF SearchInv
  <2>2. CASE Full
    <3>1. examined' = examined
      BY <2>2 DEF ScanNext, TakeRoot, Return, StopShort, Skip, Descend, Examine, resultVars
    <3>2. Full' /\ BeginsWith(examined, F[Len(roots)])'
      BY <1>3, <2>1, <2>2, <3>1 DEF Full
    <3>3. CASE truncated
      <4>1. truncated'
        BY <3>3 DEF ScanNext, TakeRoot, Return, StopShort, Skip, Descend, Examine, Walk, resultVars
      <4>2. QED
        BY <3>2, <4>1
    <3>4. CASE ~ truncated
      <4>1. CASE Return
        BY <1>1, <2>1, <3>2, <3>4, <4>1, Walking_Return
      <4>2. CASE TakeRoot \/ StopShort
        <5>1. truncated'
          BY <2>2, <4>2 DEF TakeRoot, StopShort
        <5>2. QED
          BY <3>2, <5>1
      <4>3. QED
        BY <2>2, <4>1, <4>2 DEF ScanNext, Skip, Descend, Examine
    <3>5. QED
      BY <3>3, <3>4
  <2>3. CASE ~ Full
    <3>1. Walking(F)
      BY <2>1, <2>3
    <3>2. Walking(F)'
      <4>1. ~ StopShort
        BY <2>3 DEF StopShort
      <4>2. QED
        BY <1>1, <2>3, <3>1, <4>1, Walking_Return, Walking_TakeRoot, Walking_Skip,
           Walking_Descend, Walking_Examine DEF ScanNext
    <3>3. F \in Chains(Listings)'
      BY <1>5
    <3>4. BeginsWith(examined, F[Len(roots)])'
      BY <1>2, <3>2, <3>3, WalkingBeginsThen
    <3>5. QED
      BY <3>2, <3>4
  <2>4. QED
    BY <2>2, <2>3
<1>7. \A F \in Chains(Listings)' :
         BeginsWith(examined, F[Len(roots)])' /\ ((Full /\ truncated) \/ Walking(F))'
  BY <1>5, <1>6
<1>8. QED
  BY <1>2, <1>4, <1>7 DEF SearchInv

LEMMA SearchInv_Binder == SearchInv /\ [BinderNext]_binderVars => SearchInv'
<1>. SUFFICES ASSUME SearchInv, [BinderNext]_binderVars PROVE SearchInv'
  OBVIOUS
<1>1. CASE Search
  BY <1>1, SearchInv_Step DEF Search
<1>2. CASE ~ Search
  <2>1. UNCHANGED scanVars
    BY <1>2 DEF BinderNext, Searched, Load, NothingFits, TryProfile, Discard, Adopt, Destroy,
                binderVars
  <2>2. QED
    BY <2>1, SearchInv_Same
<1>3. QED
  BY <1>1, <1>2

\* What has been put together for all the roots is the last of a chain.
LEMMA AllowedChain ==
  ASSUME ScanTypes
  PROVE  \E F \in Chains(Listings) : AllowedFiles = F[Len(roots)] /\ F[Len(roots)] \in Seq(Path)
<1>1. PICK s \in Seq(Seq(Path)) : s = Listings /\ Len(s) = Len(roots)
  BY ListingsFacts DEF ScanTypes
<1>2. PICK F : F \in Chains(s)
  BY <1>1, FlattenFacts
<1>3. FlattenSeq(s) = F[Len(s)] /\ F[Len(s)] \in Seq(Path)
  <2>1. Len(s) \in 0 .. Len(s)
    OBVIOUS
  <2>2. QED
    BY <1>2, <2>1 DEF Chains
<1>4. AllowedFiles = FlattenSeq(Listings)
  BY DEF AllowedFiles, InOrder, Listings, Allowed
<1>5. QED
  BY <1>1, <1>2, <1>3, <1>4

\* The search opens the files that are reachable from the roots within the
\* depth limit, each once per root, in one fixed order, follows no link out of
\* them, opens never more than the limit, and stops short of none it may open;
\* the candidates are the modules among them in that order
\* (scanner.hpp:154-165, module_format.hpp:39-44).
THEOREM SearchInOrder == BinderSpec => []ExaminesInOrder
<1>1. SearchInv => ExaminesInOrder
  <2>. SUFFICES ASSUME SearchInv PROVE ExaminesInOrder
    OBVIOUS
  <2>0. ScanTypes /\ CandidatesPicked
    BY DEF SearchInv
  <2>1. PICK F \in Chains(Listings) : AllowedFiles = F[Len(roots)] /\ F[Len(roots)] \in Seq(Path)
    BY <2>0, AllowedChain
  <2>2. BeginsWith(examined, F[Len(roots)]) /\ ((Full /\ truncated) \/ Walking(F))
    BY DEF SearchInv
  <2>3. PICK all \in Seq(Path) : all = AllowedFiles /\ all = F[Len(roots)]
    BY <2>1
  <2>4. PICK files \in Seq(Path) : files = examined
    BY <2>0 DEF ScanTypes
  <2>5. BeginsWith(files, all)
    BY <2>2, <2>3, <2>4
  <2>6. IsPrefix(files, all)
    BY <2>5, PrefixOfListing
  <2>7. /\ limits.files \in Nat /\ Len(all) \in Nat /\ Len(files) \in Nat
        /\ Len(files) =< limits.files /\ Len(files) =< Len(all)
    BY <2>0, <2>4, <2>5, InputFacts DEF ScanTypes, BeginsWith
  <2>8. ASSUME Scanned PROVE Len(files) = Min({limits.files, Len(all)})
    <3>1. Full \/ files = all
      BY <2>2, <2>3, <2>4, <2>8 DEF Scanned, Walking, BetweenRoots, InRoot
    <3>2. Full => Len(files) = limits.files
      BY <2>4, <2>7 DEF Full
    <3>3. Min({limits.files, Len(all)}) = IF limits.files =< Len(all) THEN limits.files ELSE Len(all)
      BY <2>7, LesserOf
    <3>4. CASE Full
      BY <2>7, <3>2, <3>3, <3>4
    <3>5. CASE files = all
      BY <2>7, <3>3, <3>5
    <3>6. QED
      BY <3>1, <3>4, <3>5
  <2>9. QED
    BY <2>0, <2>3, <2>4, <2>6, <2>7, <2>8 DEF ExaminesInOrder
<1>2. BinderInit => SearchInv
  BY SearchInv_Init DEF BinderInit
<1>3. QED
  BY <1>1, <1>2, SearchInv_Binder, PTL DEF BinderSpec

\* A result that is not marked as truncated leaves out no reachable file,
\* neither by depth nor by count nor by a root not visited (scanner.hpp:150).
THEOREM SearchComplete == BinderSpec => []UntruncatedIsComplete
<1>1. SearchInv => UntruncatedIsComplete
  <2>. SUFFICES ASSUME SearchInv, Scanned, ~ truncated PROVE examined = AllFiles
    BY DEF UntruncatedIsComplete
  <2>1. ScanTypes
    BY DEF SearchInv
  <2>2. PICK F \in Chains(Listings) : AllowedFiles = F[Len(roots)]
    BY <2>1, AllowedChain
  <2>3. examined = AllowedFiles /\ AllAllowed(Len(roots))
    BY <2>2 DEF SearchInv, Scanned, Walking, BetweenRoots, InRoot
  <2>4. \A i \in DOMAIN roots : Reachable(roots[i]) = Within(roots[i], limits.depth)
    BY <2>1, <2>3, InputFacts DEF AllAllowed, Allowed, ScanTypes
  <2>5. AllFiles = AllowedFiles
    <3>1. [i \in DOMAIN roots |-> Sorted(Reachable(roots[i]))]
            = [i \in DOMAIN roots |-> Sorted(Within(roots[i], limits.depth))]
      BY <2>4
    <3>2. QED
      BY <3>1 DEF AllFiles, AllowedFiles, InOrder
  <2>6. QED
    BY <2>3, <2>5
<1>2. BinderInit => SearchInv
  BY SearchInv_Init DEF BinderInit
<1>3. QED
  BY <1>1, <1>2, SearchInv_Binder, PTL DEF BinderSpec

=============================================================================
