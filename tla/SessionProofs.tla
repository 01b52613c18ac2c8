---------------------------- MODULE SessionProofs ----------------------------
(***************************************************************************)
(* What holds of a session for every profile file, every outcome of a      *)
(* search, every sequence of frames and every width of the integers.       *)
(***************************************************************************)
EXTENDS Session, ProberProofs, FiniteSetTheorems, SequenceTheorems

\* No OPEN is given the last number a handle can hold, so none wraps to 0.
NoWrap == MaxHandle < HandleSpace - 1

-----------------------------------------------------------------------------
(* Types, and the two switches. *)

LEMMA SelectRevisionType ==
  ASSUME NEW offer PROVE SelectRevision(offer) \in {0} \cup supportedRevisions
<1>. DEFINE S == {0} \cup {r \in supportedRevisions : r \in {AsInt(n) : n \in offer}}
<1>1. \E x \in S : \A y \in S : x >= y
  <2>1. CASE 1 \in S
    BY <2>1 DEF supportedRevisions
  <2>2. CASE 1 \notin S
    <3>1. S = {0}
      BY <2>2 DEF supportedRevisions
    <3>2. QED
      BY <3>1
  <2>3. QED
    BY <2>1, <2>2
<1>2. Max(S) \in S
  BY <1>1 DEF Max
<1>3. QED
  BY <1>2 DEF SelectRevision

\* Erasing one entry of a list moves the later ones down.
Erased(s, i) == SubSeq(s, 1, i - 1) \o SubSeq(s, i + 1, Len(s))

LEMMA ErasedList ==
  ASSUME NEW S, NEW s \in Seq(S), NEW i \in 1 .. Len(s)
  PROVE  /\ Erased(s, i) \in Seq(S) /\ Len(Erased(s, i)) = Len(s) - 1
         /\ \A k \in 1 .. Len(s) - 1 :
              Erased(s, i)[k] = IF k < i THEN s[k] ELSE s[k + 1]
<1>. DEFINE u == SubSeq(s, 1, i - 1)
            v == SubSeq(s, i + 1, Len(s))
<1>1. i \in Int /\ Len(s) \in Nat /\ i >= 1 /\ i <= Len(s) /\ \A k \in 1 .. Len(s) : s[k] \in S
  OBVIOUS
<1>2. u \in Seq(S) /\ Len(u) = i - 1 /\ \A k \in 1 .. i - 1 : u[k] = s[k]
  <2>1. \A k \in 1 .. i - 1 : s[k] \in S
    BY <1>1
  <2>2. /\ u \in Seq(S) /\ Len(u) = IF 1 <= i - 1 THEN i - 1 - 1 + 1 ELSE 0
        /\ \A k \in 1 .. i - 1 - 1 + 1 : u[k] = s[1 + k - 1]
    BY <1>1, <2>1, SubSeqProperties
  <2>. HIDE DEF u
  <2>3. QED
    BY <1>1, <2>2
<1>3. v \in Seq(S) /\ Len(v) = Len(s) - i /\ \A k \in 1 .. Len(s) - i : v[k] = s[i + k]
  <2>1. \A k \in i + 1 .. Len(s) : s[k] \in S
    BY <1>1
  <2>2. /\ v \in Seq(S) /\ Len(v) = IF i + 1 <= Len(s) THEN Len(s) - (i + 1) + 1 ELSE 0
        /\ \A k \in 1 .. Len(s) - (i + 1) + 1 : v[k] = s[i + 1 + k - 1]
    BY <1>1, <2>1, SubSeqProperties
  <2>. HIDE DEF v
  <2>3. Len(v) = Len(s) - i
    BY <1>1, <2>2
  <2>4. ASSUME NEW k \in 1 .. Len(s) - i PROVE v[k] = s[i + k]
    <3>1. k \in 1 .. Len(s) - (i + 1) + 1 /\ i + 1 + k - 1 = i + k
      BY <1>1
    <3>2. QED
      BY <2>2, <3>1, Zenon
  <2>5. QED
    BY <2>2, <2>3, <2>4
<1>. DEFINE t == u \o v
<1>4. Erased(s, i) = t
  BY DEF Erased
<1>5. /\ t \in Seq(S) /\ Len(t) = Len(u) + Len(v)
      /\ \A k \in 1 .. Len(u) + Len(v) : t[k] = IF k <= Len(u) THEN u[k] ELSE v[k - Len(u)]
  <2>. HIDE DEF u, v
  <2>1. QED
    BY <1>2, <1>3, ConcatProperties
<1>. HIDE DEF t, u, v
<1>6. PICK n \in Nat : n = Len(s)
  OBVIOUS
<1>7. i \in 1 .. n
  BY <1>6
<1>8. Len(t) = n - 1
  <2>1. Len(t) = (i - 1) + (n - i)
    BY <1>2, <1>3, <1>5, <1>6, Zenon
  <2>2. QED
    BY <1>7, <2>1
<1>9. ASSUME NEW k \in 1 .. n - 1
      PROVE  t[k] = IF k < i THEN s[k] ELSE s[k + 1]
  <2>1. k \in 1 .. (i - 1) + (n - i)
    BY <1>7
  <2>2. t[k] = IF k <= i - 1 THEN u[k] ELSE v[k - (i - 1)]
    BY <1>2, <1>3, <1>5, <1>6, <2>1, Zenon
  <2>3. k < i => k \in 1 .. i - 1 /\ k <= i - 1
    BY <1>7
  <2>4. ~ (k < i) => /\ k - (i - 1) \in 1 .. n - i /\ i + (k - (i - 1)) = k + 1
                     /\ ~ (k <= i - 1)
    BY <1>7
  <2>5. k < i => t[k] = s[k]
    BY <1>2, <2>2, <2>3, Zenon
  <2>6. ~ (k < i) => t[k] = s[k + 1]
    BY <1>3, <1>6, <2>2, <2>4, Zenon
  <2>7. QED
    BY <2>5, <2>6
<1>10. QED
  BY <1>4, <1>5, <1>6, <1>8, <1>9, Zenon

\* Taking and dropping handles keeps the counters' types.
LEMMA HandleStepTypes ==
  ASSUME nextHandle \in Handle, live \in Seq(Handle)
  PROVE  /\ TakeHandle => nextHandle' \in Handle /\ live' \in Seq(Handle)
         /\ \A h \in Handle : DropHandle(h) => live' \in Seq(Handle)
<1>1. HandleSpace \in Nat /\ HandleSpace > 1
  BY BackendAssumption
<1>2. (nextHandle + 1) % HandleSpace \in Handle
  BY <1>1 DEF Handle
<1>3. TakeHandle => nextHandle' \in Handle /\ live' \in Seq(Handle)
  BY <1>2 DEF TakeHandle
<1>4. ASSUME NEW h, DropHandle(h) PROVE live' \in Seq(Handle)
  <2>1. CASE UNCHANGED live
    BY <2>1
  <2>2. CASE \E i \in 1 .. Len(live) : live' = Erased(live, i)
    BY <2>2, ErasedList
  <2>3. DOMAIN live = 1 .. Len(live)
    OBVIOUS
  <2>4. QED
    BY <1>4, <2>1, <2>2, <2>3 DEF DropHandle, Erased
<1>5. QED
  BY <1>3, <1>4

LEMMA ProbeTypes ==
  ASSUME SessionTypeOK, EnsureProbed
  PROVE  /\ rooted' \in BOOLEAN /\ audioEndpoint' \in BOOLEAN
         /\ probed' \in BOOLEAN /\ bulk' \in BOOLEAN
BY DEF SessionTypeOK, EnsureProbed, StartBulk, probeVars

LEMMA EngineTypes ==
  ASSUME SessionTypeOK, EnsureEngine
  PROVE  /\ rooted' \in BOOLEAN /\ audioEndpoint' \in BOOLEAN
         /\ probed' \in BOOLEAN /\ bulk' \in BOOLEAN
BY ProbeTypes DEF SessionTypeOK, EnsureEngine, probeVars

LEMMA SwitchInv_Init == SessionInit => SwitchInv
<1>. SUFFICES ASSUME SessionInit PROVE SwitchInv
  OBVIOUS
<1>1. 1 \in Handle /\ HandleSpace \in Nat
  BY BackendAssumption DEF Handle
<1>2. QED
  <2>1. live \in Seq(Handle) /\ nextHandle \in Handle /\ held \subseteq Handle
    BY <1>1 DEF SessionInit, BackendInit
  <2>2. QED
    BY <2>1 DEF SessionInit, BackendInit, SwitchInv, SessionTypeOK, IdentifyNeedsDiagnose,
                LooksOnlyWhenAsked

\* A search is made only where there is a place to search.
LEMMA ProbeNeedsRoots ==
  ASSUME EnsureProbed \/ EnsureEngine
  PROVE  rooted' = rooted /\ (probed' => probed \/ rooted)
BY DEF EnsureProbed, EnsureEngine, Kind, probeVars

LEMMA SwitchInv_Step == SwitchInv /\ [SessionNext]_vars => SwitchInv'
<1>. SUFFICES ASSUME SwitchInv, [SessionNext]_vars PROVE SwitchInv'
  OBVIOUS
<1>. USE DEF SwitchInv
<1>1. CASE Bye \/ BadGreeting \/ MalformedPayload \/ Unsupported
  <2>1. finished' \in BOOLEAN /\ UNCHANGED <<probeVars, handleVars, switchVars, negotiationVars, held>>
    BY <1>1, Zenon DEF Bye, BadGreeting, MalformedPayload, Unsupported, Refuse, UntouchedBackend,
                SessionTypeOK
  <2>2. QED
    BY <2>1 DEF probeVars, handleVars, switchVars, negotiationVars, SessionTypeOK,
                IdentifyNeedsDiagnose, LooksOnlyWhenAsked
<1>2. ASSUME NEW offer \in Offers, Hello(offer) PROVE SwitchInv'
  BY <1>2, SelectRevisionType
     DEF Hello, UntouchedBackend, probeVars, handleVars, switchVars, SessionTypeOK,
         IdentifyNeedsDiagnose, LooksOnlyWhenAsked
<1>3. CASE CapsRequest
  BY <1>3, ProbeTypes, ProbeNeedsRoots
     DEF CapsRequest, Live, Served, handleVars, switchVars, negotiationVars,
         SessionTypeOK, IdentifyNeedsDiagnose, LooksOnlyWhenAsked
<1>4. ASSUME NEW hasKind \in BOOLEAN, Open(hasKind) PROVE SwitchInv'
  <2>1. CASE Refuse("BAD_ARGUMENT")
    BY <2>1 DEF Refuse, UntouchedBackend, probeVars, handleVars, switchVars,
                negotiationVars, SessionTypeOK, IdentifyNeedsDiagnose, LooksOnlyWhenAsked
  <2>2. CASE ~ Refuse("BAD_ARGUMENT")
    <3>1. EnsureEngine /\ Served /\ negotiated
      BY <1>4, <2>2 DEF Open, Live
    <3>2. nextHandle' \in Handle /\ live' \in Seq(Handle) /\ held' \subseteq Handle
      BY <1>4, <2>2, HandleStepTypes DEF Open, handleVars, SessionTypeOK
    <3>3. QED
      BY <3>1, <3>2, EngineTypes, ProbeNeedsRoots
         DEF Served, switchVars, negotiationVars, SessionTypeOK, IdentifyNeedsDiagnose,
             LooksOnlyWhenAsked
  <2>3. QED
    BY <2>1, <2>2
<1>5. ASSUME NEW field \in HandleFields, NEW argsOK \in BOOLEAN,
             NEW role, NEW shape, Drive(field, argsOK, role, shape)
      PROVE  SwitchInv'
  <2>1. CASE Refuse("BAD_ARGUMENT")
    BY <2>1 DEF Refuse, UntouchedBackend, probeVars, handleVars, switchVars,
                negotiationVars, SessionTypeOK, IdentifyNeedsDiagnose, LooksOnlyWhenAsked
  <2>2. CASE ~ Refuse("BAD_ARGUMENT")
    <3>1. EnsureEngine /\ Served /\ negotiated /\ UNCHANGED <<handleVars, held>>
      BY <1>5, <2>2 DEF Drive, Deliver, Live
    <3>2. QED
      BY <3>1, EngineTypes, ProbeNeedsRoots
         DEF Served, handleVars, switchVars, negotiationVars, SessionTypeOK,
             IdentifyNeedsDiagnose, LooksOnlyWhenAsked
  <2>3. QED
    BY <2>1, <2>2
<1>6. ASSUME NEW field \in HandleFields, Close(field) PROVE SwitchInv'
  <2>1. CASE Refuse("BAD_ARGUMENT")
    BY <2>1 DEF Refuse, UntouchedBackend, probeVars, handleVars, switchVars,
                negotiationVars, SessionTypeOK, IdentifyNeedsDiagnose, LooksOnlyWhenAsked
  <2>2. CASE ~ Refuse("BAD_ARGUMENT")
    <3>1. /\ ReadableHandle(field) /\ DropHandle(field) /\ held' = held \ {field}
          /\ Served /\ UNCHANGED <<probeVars, nextHandle>>
      BY <1>6, <2>2 DEF Close
    <3>2. field \in Handle
      BY <3>1, BackendAssumption DEF ReadableHandle, Handle
    <3>3. live' \in Seq(Handle)
      BY <3>1, <3>2, HandleStepTypes DEF SessionTypeOK
    <3>4. QED
      BY <3>1, <3>3 DEF Served, probeVars, switchVars, negotiationVars, SessionTypeOK,
                        IdentifyNeedsDiagnose, LooksOnlyWhenAsked
  <2>3. QED
    BY <2>1, <2>2
<1>7. ASSUME NEW enable \in Switch, NEW identify \in Switch, DiagRequest(enable, identify)
      PROVE  SwitchInv'
  <2>1. /\ negotiated /\ UNCHANGED <<handleVars, held, negotiationVars, finished>>
        /\ UNCHANGED probeVars \/ EnsureProbed
        /\ diagnosticsEnabled' = DiagnoseAfter(enable)
    BY <1>7 DEF DiagRequest, Live
  <2>2. diagnosticsEnabled' \in BOOLEAN
    BY <2>1 DEF DiagnoseAfter, SessionTypeOK
  <2>3. identifyEnabled' \in BOOLEAN /\ (identifyEnabled' => diagnosticsEnabled')
    <3>1. IdentifyAfter(enable) \in BOOLEAN /\ (IdentifyAfter(enable) => diagnosticsEnabled')
      BY <2>1 DEF IdentifyAfter, DiagnoseAfter, SessionTypeOK, IdentifyNeedsDiagnose
    <3>2. \/ identifyEnabled' = IdentifyAfter(enable)
          \/ /\ identifyEnabled' = (identify = "true" \/ IdentifyAfter(enable))
             /\ identify = "true" => diagnosticsEnabled'
      BY <1>7 DEF DiagRequest
    <3>3. QED
      BY <3>1, <3>2
  <2>4. /\ rooted' \in BOOLEAN /\ audioEndpoint' \in BOOLEAN
        /\ probed' \in BOOLEAN /\ bulk' \in BOOLEAN
        /\ rooted' = rooted /\ (probed' => probed \/ rooted)
    BY <2>1, ProbeTypes, ProbeNeedsRoots DEF probeVars, SessionTypeOK
  <2>5. QED
    BY <2>1, <2>2, <2>3, <2>4
       DEF handleVars, negotiationVars, SessionTypeOK, IdentifyNeedsDiagnose, LooksOnlyWhenAsked
<1>8. CASE UNCHANGED vars
  BY <1>8 DEF vars, backendVars, probeVars, handleVars, switchVars, negotiationVars,
              SessionTypeOK, IdentifyNeedsDiagnose, LooksOnlyWhenAsked
<1>9. QED
  BY <1>1, <1>2, <1>3, <1>4, <1>5, <1>6, <1>7, <1>8 DEF SessionNext, Post, Set

\* What the session's handlers read before they act stays in order: the types,
\* the two switches, and that nothing is searched unasked.
THEOREM SwitchesHold == SessionSpec => []SwitchInv
BY SwitchInv_Init, SwitchInv_Step, PTL DEF SessionSpec

\* The state of a session keeps its types, whatever the peer sends.
THEOREM SessionTypes == SessionSpec => []SessionTypeOK
<1>1. SwitchInv => SessionTypeOK
  BY DEF SwitchInv
<1>2. QED
  BY <1>1, SwitchInv_Init, SwitchInv_Step, PTL DEF SessionSpec

\* No sequence of DIAG_REQUESTs leaves identification on with diagnosis off.
THEOREM IdentifyOnlyDiagnosing == SessionSpec => []IdentifyNeedsDiagnose
<1>1. SwitchInv => IdentifyNeedsDiagnose
  BY DEF SwitchInv
<1>2. QED
  BY <1>1, SwitchInv_Init, SwitchInv_Step, PTL DEF SessionSpec

\* The station looks at the disk only for a host that said where, and only for
\* a request of a negotiated session.
THEOREM NoUnaskedSearch == SessionSpec => []LooksOnlyWhenAsked
<1>1. SwitchInv => LooksOnlyWhenAsked
  BY DEF SwitchInv
<1>2. QED
  BY <1>1, SwitchInv_Init, SwitchInv_Step, PTL DEF SessionSpec

-----------------------------------------------------------------------------
(* Handles. *)

\* While no number wraps, the next handle is above every handle in use, so the
\* list and the host's account of its targets move together.
HandleInv ==
  /\ nextHandle \in 1 .. MaxHandle + 1
  /\ \A h \in Listed : h < nextHandle
  /\ \A i, j \in DOMAIN live : live[i] = live[j] => i = j
  /\ IsFiniteSet(held)
  /\ HandlesAgree

\* There is no engine before the search that finds it.
EngineIsFound == Bound(engine) => probed

SessionInv == SwitchInv /\ HandleInv /\ EngineIsFound

\* A request leaves the backend alone or makes the search.
LEMMA EngineIsFound_Step ==
  ASSUME EngineIsFound, UNCHANGED probeVars \/ EnsureProbed \/ EnsureEngine
  PROVE  EngineIsFound'
<1>1. UNCHANGED probeVars \/ EnsureProbed
  BY DEF EnsureEngine
<1>2. CASE UNCHANGED probeVars
  BY <1>2 DEF EngineIsFound, probeVars, Bound
<1>3. CASE EnsureProbed /\ probed'
  BY <1>3 DEF EngineIsFound
<1>4. QED
  BY <1>1, <1>2, <1>3 DEF EnsureProbed

LEMMA SmallMod == ASSUME NEW s \in Nat \ {0}, NEW x \in Nat, x < s PROVE x % s = x
BY SMT

\* The effect of an OPEN that is acknowledged.
LEMMA OpenEffect ==
  ASSUME NoWrap, SessionInv, nextHandle =< MaxHandle, TakeHandle,
         held' = held \cup {nextHandle}
  PROVE  HandleInv' /\ Listed' = Listed \cup {nextHandle} /\ nextHandle \notin Listed
<1>1. /\ nextHandle \in 1 .. MaxHandle + 1 /\ live \in Seq(Handle)
      /\ \A h \in Listed : h < nextHandle
      /\ \A i, j \in DOMAIN live : live[i] = live[j] => i = j
      /\ IsFiniteSet(held) /\ Listed = held /\ Len(live) = Cardinality(held)
      /\ MaxHandle \in Nat /\ HandleSpace \in Nat /\ MaxHandle < HandleSpace - 1
      /\ Handle = 0 .. HandleSpace - 1
  BY BackendAssumption, SessionAssumption
     DEF SessionInv, SwitchInv, SessionTypeOK, HandleInv, HandlesAgree, NoWrap, Handle
<1>2. nextHandle \in Handle /\ nextHandle \notin Listed
  BY <1>1
<1>3. nextHandle' = nextHandle + 1
  <2>1. HandleSpace \in Nat \ {0} /\ nextHandle + 1 \in Nat /\ nextHandle + 1 < HandleSpace
    BY <1>1
  <2>2. (nextHandle + 1) % HandleSpace = nextHandle + 1
    BY <2>1, SmallMod
  <2>3. QED
    BY <2>2, Zenon DEF TakeHandle
<1>4. /\ live' \in Seq(Handle) /\ Len(live') = Len(live) + 1
      /\ \A i \in 1 .. Len(live) : live'[i] = live[i]
      /\ live'[Len(live) + 1] = nextHandle
  BY <1>1, <1>2 DEF TakeHandle
<1>5. /\ DOMAIN live' = 1 .. Len(live) + 1 /\ DOMAIN live = 1 .. Len(live)
      /\ Len(live) \in Nat
  BY <1>1, <1>4
<1>6. Listed' = Listed \cup {nextHandle}
  <2>1. \A h \in Listed' : h \in Listed \cup {nextHandle}
    BY <1>4, <1>5 DEF Listed
  <2>2. \A h \in Listed \cup {nextHandle} : h \in Listed'
    BY <1>4, <1>5 DEF Listed
  <2>3. QED
    BY <2>1, <2>2
<1>7. \A h \in Listed' : h < nextHandle'
  <2>1. Listed \subseteq Nat
    BY <1>1 DEF Listed
  <2>2. QED
    BY <1>1, <1>3, <1>6, <2>1
<1>8. \A i, j \in DOMAIN live' : live'[i] = live'[j] => i = j
  <2>1. \A i \in 1 .. Len(live) : live'[i] \in Listed /\ live'[i] # nextHandle
    BY <1>2, <1>4, <1>5 DEF Listed
  <2>2. \A i \in DOMAIN live' : i \in 1 .. Len(live) \/ i = Len(live) + 1
    BY <1>5
  <2>3. QED
    BY <1>1, <1>4, <1>5, <2>1, <2>2
<1>9. IsFiniteSet(held') /\ Cardinality(held') = Cardinality(held) + 1
  BY <1>1, <1>2, FS_AddElement, Zenon
<1>10. nextHandle' \in 1 .. MaxHandle + 1
  BY <1>1, <1>3
<1>11. Listed' = held' /\ Len(live') = Cardinality(held')
  BY <1>1, <1>4, <1>6, <1>9
<1>12. QED
  BY <1>2, <1>6, <1>7, <1>8, <1>9, <1>10, <1>11 DEF HandleInv, HandlesAgree

\* The effect of a CLOSE with a readable handle.
LEMMA CloseEffect ==
  ASSUME SessionInv, NEW h \in Handle, DropHandle(h), held' = held \ {h},
         nextHandle' = nextHandle
  PROVE  HandleInv' /\ Listed' = Listed \ {h}
<1>1. /\ live \in Seq(Handle) /\ nextHandle \in 1 .. MaxHandle + 1
      /\ \A k \in Listed : k < nextHandle
      /\ \A i, j \in DOMAIN live : live[i] = live[j] => i = j
      /\ IsFiniteSet(held) /\ Listed = held /\ Len(live) = Cardinality(held)
  BY DEF SessionInv, SwitchInv, SessionTypeOK, HandleInv, HandlesAgree
<1>2. CASE h \notin Listed
  <2>1. UNCHANGED <<nextHandle, live, held>>
    BY <1>1, <1>2 DEF DropHandle, Listed
  <2>2. Listed' = Listed
    BY <2>1 DEF Listed
  <2>3. QED
    BY <1>1, <1>2, <2>1, <2>2 DEF HandleInv, HandlesAgree
<1>3. CASE h \in Listed
  <2>1. PICK i \in 1 .. Len(live) : live[i] = h /\ live' = Erased(live, i)
    <3>1. DOMAIN live = 1 .. Len(live)
      BY <1>1
    <3>2. QED
      BY <1>3, <3>1, Zenon DEF DropHandle, Erased
  <2>2. /\ live' \in Seq(Handle) /\ Len(live') = Len(live) - 1
        /\ \A k \in 1 .. Len(live) - 1 : live'[k] = IF k < i THEN live[k] ELSE live[k + 1]
    BY <1>1, <2>1, ErasedList, Zenon
  <2>3. /\ DOMAIN live' = 1 .. Len(live) - 1 /\ DOMAIN live = 1 .. Len(live)
        /\ Len(live) \in Nat /\ i \in 1 .. Len(live)
    BY <1>1, <2>2
  <2>4. Listed' = Listed \ {h}
    <3>1. ASSUME NEW k \in DOMAIN live' PROVE live'[k] \in Listed \ {h}
      <4>1. CASE k < i
        BY <1>1, <2>1, <2>2, <2>3, <4>1 DEF Listed
      <4>2. CASE ~ (k < i)
        <5>1. live'[k] = live[k + 1] /\ k + 1 \in DOMAIN live /\ k + 1 # i
          BY <2>2, <2>3, <4>2
        <5>2. QED
          BY <1>1, <2>1, <5>1 DEF Listed
      <4>3. QED
        BY <4>1, <4>2
    <3>2. ASSUME NEW j \in DOMAIN live, live[j] # h
          PROVE  \E k \in DOMAIN live' : live'[k] = live[j]
      <4>1. CASE j < i
        BY <2>2, <2>3, <4>1
      <4>2. CASE ~ (j < i)
        <5>1. j - 1 \in DOMAIN live' /\ ~ (j - 1 < i) /\ (j - 1) + 1 = j
          BY <2>1, <2>3, <3>2, <4>2
        <5>2. live'[j - 1] = live[j]
          BY <2>2, <2>3, <5>1
        <5>3. QED
          BY <5>1, <5>2
      <4>3. QED
        BY <4>1, <4>2
    <3>3. \A x \in Listed' : x \in Listed \ {h}
      BY <3>1 DEF Listed
    <3>4. \A x \in Listed \ {h} : x \in Listed'
      BY <3>2 DEF Listed
    <3>5. QED
      BY <3>3, <3>4
  <2>5. \A j, k \in DOMAIN live' : live'[j] = live'[k] => j = k
    <3>1. ASSUME NEW j \in DOMAIN live', NEW k \in DOMAIN live', live'[j] = live'[k]
          PROVE  j = k
      <4>. DEFINE from(n) == IF n < i THEN n ELSE n + 1
      <4>1. /\ live'[j] = live[from(j)] /\ live'[k] = live[from(k)]
            /\ from(j) \in DOMAIN live /\ from(k) \in DOMAIN live
        BY <2>2, <2>3
      <4>2. from(j) = from(k)
        <5>. HIDE DEF from
        <5>1. QED
          BY <1>1, <3>1, <4>1
      <4>3. QED
        BY <2>3, <4>2
    <3>2. QED
      BY <3>1
  <2>6. IsFiniteSet(held') /\ Cardinality(held') = Cardinality(held) - 1
    BY <1>1, <1>3, FS_RemoveElement, Zenon
  <2>7. Listed' = held' /\ Len(live') = Cardinality(held')
    BY <1>1, <2>2, <2>4, <2>6
  <2>8. \A k \in Listed' : k < nextHandle'
    BY <1>1, <2>4
  <2>9. QED
    BY <1>1, <2>4, <2>5, <2>6, <2>7, <2>8 DEF HandleInv, HandlesAgree
<1>4. QED
  BY <1>2, <1>3

\* What one frame can do to the session, as far as handles and the end of the
\* session go.  Every later proof is a case analysis of this.
LEMMA FrameEffect ==
  ASSUME NoWrap, SessionInv, [SessionNext]_vars
  PROVE  \/ UNCHANGED vars
         \/ /\ UNCHANGED <<probeVars, handleVars, held, negotiated>>
            /\ finished' = TRUE /\ ~ finished /\ call' = NotCalled
         \/ /\ UNCHANGED <<probeVars, handleVars, held, finished>>
            /\ negotiated' = TRUE /\ ~ negotiated /\ ~ finished /\ call' = NotCalled
         \/ /\ Live /\ UNCHANGED <<negotiated, finished, handleVars, held>>
            /\ UNCHANGED probeVars \/ EnsureProbed
            /\ call' = NotCalled \/ reply'.type = "STATUS"
         \/ /\ Live /\ UNCHANGED <<negotiated, finished>>
            /\ EnsureEngine /\ Bound(engine') /\ TakeHandle /\ call' = NotCalled
            /\ nextHandle =< MaxHandle /\ nextHandle \notin Listed
            /\ held' = held \cup {nextHandle} /\ reply'.type = "OPEN_ACK"
         \/ /\ Live /\ UNCHANGED <<negotiated, finished, probeVars, nextHandle>>
            /\ \E h \in Handle \ {0} : DropHandle(h) /\ held' = held \ {h}
            /\ call' = NotCalled /\ reply'.type = "STATUS"
<1>1. CASE Bye \/ BadGreeting
  BY <1>1, Zenon DEF Bye, BadGreeting, UntouchedBackend, negotiationVars, NoCall
<1>2. ASSUME NEW r, Live, Refuse(r)
      PROVE  /\ Live /\ UNCHANGED <<negotiated, finished, handleVars, held, probeVars>>
             /\ call' = NotCalled
  BY <1>2, Zenon DEF Refuse, UntouchedBackend, negotiationVars, NoCall
<1>3. ASSUME NEW offer \in Offers, Hello(offer)
      PROVE  \/ /\ UNCHANGED <<probeVars, handleVars, held, negotiated>>
                /\ finished' = TRUE /\ ~ finished /\ call' = NotCalled
             \/ /\ UNCHANGED <<probeVars, handleVars, held, finished>>
                /\ negotiated' = TRUE /\ ~ negotiated /\ ~ finished /\ call' = NotCalled
  BY <1>3, Zenon DEF Hello, UntouchedBackend, NoCall
<1>4. CASE CapsRequest
  BY <1>4, Zenon DEF CapsRequest, Served, negotiationVars, NoCall
<1>5. ASSUME NEW hasKind \in BOOLEAN, nextHandle =< MaxHandle, nextHandle \notin Listed, Open(hasKind)
      PROVE  \/ /\ Live /\ UNCHANGED <<negotiated, finished, handleVars, held>>
                /\ UNCHANGED probeVars \/ EnsureProbed
                /\ call' = NotCalled
             \/ /\ Live /\ UNCHANGED <<negotiated, finished>>
                /\ EnsureEngine /\ Bound(engine') /\ TakeHandle /\ call' = NotCalled
                /\ held' = held \cup {nextHandle} /\ reply'.type = "OPEN_ACK"
  <2>1. nextHandle # 0
    BY SessionAssumption DEF SessionInv, HandleInv
  <2>2. CASE Refuse("BAD_ARGUMENT")
    BY <1>2, <1>5, <2>2 DEF Open
  <2>3. CASE ~ Refuse("BAD_ARGUMENT")
    <3>1. Live /\ EnsureEngine /\ UNCHANGED <<negotiated, finished>> /\ call' = NotCalled
      BY <1>5, <2>3 DEF Open, Served, negotiationVars, NoCall
    <3>2. UNCHANGED probeVars \/ EnsureProbed
      BY <3>1 DEF EnsureEngine
    <3>3. \/ UNCHANGED <<handleVars, held>>
          \/ /\ TakeHandle /\ held' = held \cup {nextHandle}
             /\ reply' = [type |-> "OPEN_ACK", handle |-> nextHandle]
      BY <1>5, <2>1, <2>3 DEF Open
    <3>4. QED
      BY <3>1, <3>2, <3>3 DEF TakeHandle
  <2>4. QED
    BY <2>2, <2>3
<1>6. ASSUME NEW field \in HandleFields, NEW argsOK \in BOOLEAN,
             NEW role, NEW shape, Drive(field, argsOK, role, shape)
      PROVE  /\ Live /\ UNCHANGED <<negotiated, finished, handleVars, held>>
             /\ UNCHANGED probeVars \/ EnsureProbed
             /\ call' = NotCalled \/ reply'.type = "STATUS"
  <2>1. CASE Refuse("BAD_ARGUMENT")
    BY <1>2, <1>6, <2>1 DEF Drive
  <2>2. CASE ~ Refuse("BAD_ARGUMENT")
    <3>1. Live /\ Deliver(field, role, shape) /\ UNCHANGED <<negotiated, finished, handleVars, held>>
      BY <1>6, <2>2 DEF Drive, Served, negotiationVars
    <3>2. UNCHANGED probeVars \/ EnsureProbed
      BY <3>1 DEF Deliver, EnsureEngine
    <3>3. call' = NotCalled \/ reply'.type = "STATUS"
      BY <3>1 DEF Deliver, NoCall, SendStatus
    <3>4. QED
      BY <3>1, <3>2, <3>3
  <2>3. QED
    BY <2>1, <2>2
<1>7. ASSUME NEW field \in HandleFields, Close(field)
      PROVE  \/ /\ Live /\ UNCHANGED <<negotiated, finished, handleVars, held, probeVars>>
                /\ call' = NotCalled
             \/ /\ Live /\ UNCHANGED <<negotiated, finished, probeVars, nextHandle>>
                /\ \E h \in Handle \ {0} : DropHandle(h) /\ held' = held \ {h}
                /\ call' = NotCalled /\ reply'.type = "STATUS"
  <2>1. CASE Refuse("BAD_ARGUMENT")
    BY <1>2, <1>7, <2>1 DEF Close
  <2>2. CASE ~ Refuse("BAD_ARGUMENT")
    <3>1. /\ Live /\ ReadableHandle(field) /\ DropHandle(field) /\ held' = held \ {field}
          /\ UNCHANGED <<negotiated, finished, probeVars, nextHandle>> /\ call' = NotCalled
          /\ reply' = [type |-> "STATUS", handle |-> field]
      BY <1>7, <2>2 DEF Close, Served, negotiationVars, NoCall, SendStatus
    <3>2. field \in Handle \ {0}
      BY <3>1, BackendAssumption DEF ReadableHandle, Handle
    <3>3. QED
      BY <3>1, <3>2
  <2>3. QED
    BY <2>1, <2>2
<1>8. ASSUME NEW enable \in Switch, NEW identify \in Switch, DiagRequest(enable, identify)
      PROVE  /\ Live /\ UNCHANGED <<negotiated, finished, handleVars, held>>
             /\ UNCHANGED probeVars \/ EnsureProbed
             /\ call' = NotCalled
  BY <1>8 DEF DiagRequest, negotiationVars, NoCall
<1>9. CASE MalformedPayload \/ Unsupported
  BY <1>2, <1>9 DEF MalformedPayload, Unsupported
<1>10. QED
  BY <1>1, <1>3, <1>4, <1>5, <1>6, <1>7, <1>8, <1>9, Zenon DEF SessionNext, Post, Set

LEMMA SessionInv_Step == NoWrap /\ SessionInv /\ [SessionNext]_vars => SessionInv'
<1>. SUFFICES ASSUME NoWrap, SessionInv, [SessionNext]_vars PROVE SessionInv'
  OBVIOUS
<1>1. SwitchInv'
  BY SwitchInv_Step DEF SessionInv
<1>2. UNCHANGED <<handleVars, held>> => HandleInv'
  BY DEF SessionInv, HandleInv, HandlesAgree, Listed, handleVars
<1>3. UNCHANGED vars => UNCHANGED <<handleVars, held>>
  BY DEF vars, backendVars
<1>4. TakeHandle /\ nextHandle =< MaxHandle /\ nextHandle \notin Listed
      /\ held' = held \cup {nextHandle} => HandleInv'
  BY OpenEffect
<1>5. \A h \in Handle : DropHandle(h) /\ held' = held \ {h} /\ nextHandle' = nextHandle
        => HandleInv'
  BY CloseEffect
<1>6. HandleInv'
  BY <1>2, <1>3, <1>4, <1>5, FrameEffect, Zenon
<1>7. UNCHANGED vars => UNCHANGED probeVars
  BY DEF vars, backendVars
<1>8. UNCHANGED probeVars \/ EnsureProbed \/ EnsureEngine
  BY <1>7, FrameEffect, Zenon
<1>9. EngineIsFound'
  BY <1>8, EngineIsFound_Step DEF SessionInv
<1>10. QED
  BY <1>1, <1>6, <1>9 DEF SessionInv

LEMMA SessionInv_Init == SessionInit => SessionInv
<1>. SUFFICES ASSUME SessionInit PROVE SessionInv
  OBVIOUS
<1>1. nextHandle = 1 /\ live = << >> /\ held = {}
  BY DEF SessionInit, BackendInit
<1>2. Listed = {} /\ Len(live) = 0 /\ DOMAIN live = {}
  BY <1>1 DEF Listed
<1>3. HandleInv
  BY <1>1, <1>2, SessionAssumption, FS_EmptySet DEF HandleInv, HandlesAgree
<1>4. EngineIsFound
  <2>1. engine = Unbound
    BY Zenon DEF SessionInit, BackendInit
  <2>2. QED
    BY <2>1 DEF EngineIsFound, Bound, Unbound
<1>5. QED
  BY <1>3, <1>4, SwitchInv_Init DEF SessionInv

\* As long as no handle number wraps, the station and the host agree on which
\* targets are open, after any mixture of OPENs and CLOSEs.
THEOREM TargetsAgree ==
  ASSUME NoWrap
  PROVE  SessionSpec => []HandlesAgree
<1>1. SessionInv => HandlesAgree
  BY DEF SessionInv, HandleInv
<1>2. SessionInv /\ [SessionNext]_vars => SessionInv'
  BY NoWrap, SessionInv_Step
<1>3. QED
  BY <1>1, <1>2, SessionInv_Init, PTL DEF SessionSpec

-----------------------------------------------------------------------------
(* What a step may never do. *)

\* Once the search has been made, no frame changes what the host was told: no
\* class appears or disappears, and no second search replaces the first.
THEOREM StableAnswers == SessionSpec => AnswersStable
<1>1. EnsureProbed /\ probed => UNCHANGED probeVars
  BY DEF EnsureProbed
<1>2. ASSUME probed, [SessionNext]_vars PROVE UNCHANGED probeVars
  <2>1. EnsureEngine => UNCHANGED probeVars
    BY <1>1, <1>2 DEF EnsureEngine
  <2>2. ASSUME NEW r, Refuse(r) PROVE UNCHANGED probeVars
    BY <2>2 DEF Refuse, UntouchedBackend
  <2>3. CASE Bye \/ BadGreeting \/ \E offer \in Offers : Hello(offer)
    BY <2>3, Zenon DEF Bye, BadGreeting, Hello, UntouchedBackend
  <2>4. CASE MalformedPayload \/ Unsupported \/ CapsRequest
    BY <1>1, <1>2, <2>2, <2>4 DEF MalformedPayload, Unsupported, CapsRequest
  <2>5. ASSUME NEW hasKind \in BOOLEAN, Open(hasKind) PROVE UNCHANGED probeVars
    BY <2>1, <2>2, <2>5 DEF Open
  <2>6. ASSUME NEW field, NEW argsOK, NEW role, NEW shape, Drive(field, argsOK, role, shape)
        PROVE  UNCHANGED probeVars
    BY <2>1, <2>2, <2>6 DEF Drive, Deliver
  <2>7. ASSUME NEW field, Close(field) PROVE UNCHANGED probeVars
    BY <2>2, <2>7, Zenon DEF Close
  <2>8. ASSUME NEW enable, NEW identify, DiagRequest(enable, identify) PROVE UNCHANGED probeVars
    BY <1>1, <1>2, <2>8, Zenon DEF DiagRequest
  <2>9. CASE UNCHANGED vars
    BY <2>9 DEF vars, backendVars
  <2>10. QED
    BY <1>2, <2>3, <2>4, <2>5, <2>6, <2>7, <2>8, <2>9, Zenon DEF SessionNext, Post, Set
<1>3. [SessionNext]_vars => [probed => Claims' = Claims /\ scan' = scan]_vars
  BY <1>2 DEF Claims, Classes, probeVars
<1>4. QED
  BY <1>3, PTL DEF SessionSpec, AnswersStable

\* A frame answered with ERROR has neither called the engine nor opened or
\* closed a target, as long as no handle number wraps.
THEOREM HarmlessErrors ==
  ASSUME NoWrap
  PROVE  SessionSpec => ErrorsHaveNoEffect
<1>1. ASSUME SessionInv, [SessionNext]_vars
      PROVE  [(reply' # None /\ reply'.type = "ERROR") =>
                call' = NotCalled /\ UNCHANGED <<handleVars, held>>]_vars
  <2>1. SUFFICES ASSUME ~ UNCHANGED vars, reply'.type = "ERROR"
                 PROVE  call' = NotCalled /\ UNCHANGED <<handleVars, held>>
    OBVIOUS
  <2>2. "ERROR" # "STATUS" /\ "ERROR" # "OPEN_ACK"
    OBVIOUS
  <2>3. QED
    BY <1>1, <2>1, <2>2, NoWrap, FrameEffect, Zenon
<1>2. SessionInv /\ [SessionNext]_vars => SessionInv'
  BY NoWrap, SessionInv_Step
<1>3. QED
  BY <1>1, <1>2, SessionInv_Init, PTL DEF SessionSpec, ErrorsHaveNoEffect

-----------------------------------------------------------------------------
(* What the engine is asked to do, and what is claimed for it. *)

\* The engine is the one that the kept search binds, and the channel is there
\* only if that engine has a sink for it.
EngineBinds ==
  /\ profiles \in ProfileFiles
  /\ scan.candidates \in Seq(Image)
  /\ engine = Unbound \/ (probed /\ engine = BindFirstAvailable(scan.candidates, profiles))
  /\ bulk => probed /\ AddressFor(engine, "bulk", "sink") # None

LEMMA EngineBinds_Init == SessionInit => EngineBinds
BY DEF SessionInit, BackendInit, NoScan, EngineBinds

LEMMA EngineBinds_Step ==
  ASSUME EngineBinds, UNCHANGED probeVars \/ EnsureProbed
  PROVE  EngineBinds'
<1>1. CASE UNCHANGED probeVars
  BY <1>1 DEF probeVars, EngineBinds
<1>2. CASE ~ UNCHANGED probeVars
  <2>1. ~ probed /\ probed' /\ profiles' = profiles
    BY <1>2, Zenon DEF EnsureProbed
  <2>2. PICK found \in Scans :
          /\ scan' = found
          /\ engine' = IF Kind = "probing"
                       THEN BindFirstAvailable(found.candidates, profiles) ELSE Unbound
          /\ StartBulk
    BY <1>2, Zenon DEF EnsureProbed
  <2>3. scan'.candidates \in Seq(Image)
    BY <2>2, BackendAssumption, Zenon
  <2>4. engine' = Unbound \/ engine' = BindFirstAvailable(scan'.candidates, profiles)
    BY <2>2, Zenon
  <2>5. ~ bulk
    BY <2>1 DEF EngineBinds
  <2>6. bulk' => AddressFor(engine', "bulk", "sink") # None
    BY <2>2, <2>5, Zenon DEF StartBulk
  <2>7. QED
    BY <2>1, <2>3, <2>4, <2>6, Zenon DEF EngineBinds
<1>3. QED
  BY <1>1, <1>2

\* What is claimed of the engine's profiles was seen of its module.
LEMMA EngineProvedAmong ==
  ASSUME EngineBinds
  PROVE  ProvedAmong(engine, scan.candidates, profiles)
<1>1. CASE engine = Unbound
  BY <1>1 DEF Unbound, Bound, Proved, ProvedAmong
<1>2. CASE engine = BindFirstAvailable(scan.candidates, profiles)
  <2>1. profiles \in Seq(Profile) /\ scan.candidates \in Seq(Image)
    BY BackendAssumption DEF EngineBinds
  <2>2. QED
    BY <1>2, <2>1, BindsWhatIsProved, Zenon
<1>3. QED
  BY <1>1, <1>2 DEF EngineBinds

LEMMA EngineProved == EngineBinds => Proved(engine, profiles)
BY EngineProvedAmong DEF ProvedAmong

\* The address for a role and a shape is a symbol that the engine exports and
\* that one of its profiles declares for just that role and shape.
Declared(anEngine, role, symbol, shape) ==
  /\ symbol \in anEngine.exports
  /\ \E i \in DOMAIN anEngine.profiles : \E b \in DOMAIN anEngine.profiles[i].bindings :
       anEngine.profiles[i].bindings[b] = [role |-> role, symbol |-> symbol, shape |-> shape]

LEMMA AddressDeclared ==
  ASSUME NEW anEngine, NEW file, Proved(anEngine, file), NEW role, NEW shape,
         AddressFor(anEngine, role, shape) # None
  PROVE  Declared(anEngine, role, AddressFor(anEngine, role, shape), shape)
<1>. DEFINE list == anEngine.profiles
            symbol == AddressFor(anEngine, role, shape)
<1>1. /\ HasBinding(list, role) /\ BindingFor(list, role).shape = shape
      /\ symbol = Address(list, anEngine.exports, role)
  BY Zenon DEF AddressFor
<1>2. list \in Seq(Profile) /\ \A i \in DOMAIN list : Satisfied(list[i], anEngine.exports)
  BY Zenon DEF Proved
<1>3. symbol = BindingFor(list, role).symbol
  BY <1>1, <1>2, AddressMatchesBinding, Zenon
<1>. HIDE DEF symbol, list
<1>4. PICK i \in DOMAIN list : \E b \in DOMAIN list[i].bindings :
        list[i].bindings[b] = BindingFor(list, role) /\ BindingFor(list, role).role = role
  BY <1>1, <1>2, BindingForIsListed, Zenon
<1>5. PICK b \in DOMAIN list[i].bindings :
        list[i].bindings[b] = BindingFor(list, role) /\ BindingFor(list, role).role = role
  BY <1>4
<1>6. list[i].bindings[b] \in Binding
  <2>1. list[i] \in Profile
    BY <1>2
  <2>2. list[i].bindings \in Seq(Binding)
    BY <2>1 DEF Profile
  <2>3. QED
    BY <2>2
<1>7. list[i].bindings[b] = [role |-> role, symbol |-> symbol, shape |-> shape]
  BY <1>1, <1>3, <1>5, <1>6 DEF Binding
<1>8. symbol \in anEngine.exports
  BY <1>2, <1>3, <1>5, Zenon DEF Satisfied
<1>9. QED
  BY <1>7, <1>8, Zenon DEF list, symbol, Declared

\* What a frame does to the record of the call.
Called(handle, role, shape) ==
  /\ handle \in Listed /\ UNCHANGED <<handleVars, held>>
  /\ AddressFor(engine', role, shape) # None
  /\ call' = [role |-> role, shape |-> shape, handle |-> handle,
              symbol |-> AddressFor(engine', role, shape)]

LEMMA CallEffect ==
  ASSUME SessionNext
  PROVE  call' = NotCalled \/ \E handle, role, shape : Called(handle, role, shape)
<1>1. ASSUME NEW r, Refuse(r) PROVE call' = NotCalled
  BY <1>1, Zenon DEF Refuse, UntouchedBackend, NoCall
<1>2. CASE Bye \/ BadGreeting \/ MalformedPayload \/ Unsupported \/ CapsRequest
  BY <1>1, <1>2, Zenon DEF Bye, BadGreeting, MalformedPayload, Unsupported, CapsRequest,
                    UntouchedBackend, NoCall
<1>3. ASSUME NEW offer, Hello(offer) PROVE call' = NotCalled
  BY <1>3, Zenon DEF Hello, UntouchedBackend, NoCall
<1>4. ASSUME NEW hasKind, Open(hasKind) PROVE call' = NotCalled
  BY <1>1, <1>4, Zenon DEF Open, NoCall
<1>5. ASSUME NEW field, NEW argsOK, NEW role, NEW shape, Drive(field, argsOK, role, shape)
      PROVE  call' = NotCalled \/ Called(field, role, shape)
  BY <1>1, <1>5, Zenon DEF Drive, Deliver, NoCall, Call, Called
<1>6. ASSUME NEW field, Close(field) PROVE call' = NotCalled
  BY <1>1, <1>6, Zenon DEF Close, NoCall
<1>7. ASSUME NEW enable, NEW identify, DiagRequest(enable, identify) PROVE call' = NotCalled
  BY <1>7, Zenon DEF DiagRequest, NoCall
<1>8. QED
  BY <1>2, <1>3, <1>4, <1>5, <1>6, <1>7, Zenon DEF SessionNext, Post, Set

\* What a report says of the targets.
LEMMA ReportEffect ==
  ASSUME SessionNext, reply'.type = "DIAG_REPLY"
  PROVE  reply'.targets = Len(live) /\ UNCHANGED <<handleVars, held>>
<1>1. ASSUME NEW r, Refuse(r) PROVE FALSE
  BY <1>1 DEF Refuse, SendError
<1>2. CASE Bye \/ BadGreeting \/ MalformedPayload \/ Unsupported \/ CapsRequest
  BY <1>1, <1>2 DEF Bye, BadGreeting, MalformedPayload, Unsupported, CapsRequest,
                    SendError, SendCaps
<1>3. ASSUME NEW offer, Hello(offer) PROVE FALSE
  BY <1>3 DEF Hello, SendError
<1>4. ASSUME NEW hasKind, Open(hasKind) PROVE FALSE
  BY <1>1, <1>4 DEF Open, SendError
<1>5. ASSUME NEW field, NEW argsOK, NEW role, NEW shape, Drive(field, argsOK, role, shape)
      PROVE  FALSE
  BY <1>1, <1>5 DEF Drive, Deliver, SendError, SendStatus
<1>6. ASSUME NEW field, Close(field) PROVE FALSE
  BY <1>1, <1>6 DEF Close, SendStatus
<1>7. ASSUME NEW enable, NEW identify, DiagRequest(enable, identify)
      PROVE  reply'.targets = Len(live) /\ UNCHANGED <<handleVars, held>>
  <2>1. UNCHANGED <<handleVars, held>> /\ (SendError("DIAG_DISABLED") \/ SendDiagnostics)
    BY <1>7, Zenon DEF DiagRequest
  <2>2. ~ SendError("DIAG_DISABLED")
    BY DEF SendError
  <2>3. QED
    BY <2>1, <2>2 DEF SendDiagnostics, TargetCount
<1>8. QED
  BY <1>2, <1>3, <1>4, <1>5, <1>6, <1>7, Zenon DEF SessionNext, Post, Set

\* The last report still tells how many targets the host holds.
ReportAgrees ==
  (reply # None /\ reply.type = "DIAG_REPLY") => reply.targets = Cardinality(held)

ClaimInv == SessionInv /\ EngineBinds /\ EngineCalledAsDeclared /\ ReportAgrees

LEMMA ClaimInv_Init == SessionInit => ClaimInv
<1>1. SessionInit => EngineCalledAsDeclared /\ ReportAgrees
  BY DEF SessionInit, BackendInit, EngineCalledAsDeclared, ReportAgrees
<1>2. QED
  BY <1>1, SessionInv_Init, EngineBinds_Init DEF ClaimInv

LEMMA ClaimInv_Step == NoWrap /\ ClaimInv /\ [SessionNext]_vars => ClaimInv'
<1>. SUFFICES ASSUME NoWrap, ClaimInv, [SessionNext]_vars PROVE ClaimInv'
  OBVIOUS
<1>1. SessionInv' /\ SessionInv
  BY SessionInv_Step DEF ClaimInv
<1>2. UNCHANGED vars => UNCHANGED <<probeVars, handleVars, held, call, reply, engine>>
  BY DEF vars, backendVars, probeVars
<1>3. EngineBinds'
  <2>1. UNCHANGED probeVars \/ EnsureProbed \/ EnsureEngine
    BY <1>1, <1>2, FrameEffect, Zenon
  <2>2. UNCHANGED probeVars \/ EnsureProbed
    BY <2>1 DEF EnsureEngine
  <2>3. QED
    BY <2>2, EngineBinds_Step DEF ClaimInv
<1>4. EngineCalledAsDeclared'
  <2>1. CASE UNCHANGED vars
    <3>1. held' = held /\ call' = call /\ engine' = engine /\ EngineCalledAsDeclared
      BY <1>2, <2>1 DEF ClaimInv
    <3>2. QED
      BY <3>1 DEF EngineCalledAsDeclared
  <2>2. CASE call' = NotCalled
    BY <2>2, Zenon DEF EngineCalledAsDeclared
  <2>3. ASSUME NEW handle, NEW role, NEW shape, Called(handle, role, shape)
        PROVE  EngineCalledAsDeclared'
    <3>1. Proved(engine, profiles)'
      BY <1>3, EngineProved, PTL
    <3>2. PICK symbol : symbol = AddressFor(engine', role, shape)
      OBVIOUS
    <3>3. Declared(engine', role, symbol, shape)
      BY <2>3, <3>1, <3>2, AddressDeclared, Zenon DEF Called
    <3>4. /\ call'.role = role /\ call'.shape = shape /\ call'.handle = handle
          /\ call'.symbol = symbol
      BY <2>3, <3>2 DEF Called
    <3>5. handle \in held'
      BY <1>1, <2>3 DEF SessionInv, HandleInv, HandlesAgree, Called
    <3>6. QED
      BY <3>3, <3>4, <3>5, Zenon DEF EngineCalledAsDeclared, Declared
  <2>4. QED
    BY <2>1, <2>2, <2>3, CallEffect, Zenon
<1>5. ReportAgrees'
  <2>1. CASE UNCHANGED vars
    BY <1>2, <2>1, Zenon DEF ClaimInv, ReportAgrees
  <2>2. CASE SessionNext
    <3>1. SUFFICES ASSUME reply'.type = "DIAG_REPLY"
                   PROVE  reply'.targets = Cardinality(held')
      BY DEF ReportAgrees
    <3>2. reply'.targets = Len(live) /\ held' = held
      BY <2>2, <3>1, ReportEffect
    <3>3. QED
      BY <1>1, <3>2 DEF SessionInv, HandleInv, HandlesAgree
  <2>3. QED
    BY <2>1, <2>2
<1>6. QED
  BY <1>1, <1>3, <1>4, <1>5 DEF ClaimInv

\* Every class the host is told of was proved on the module that is bound, the
\* channel it is promised has a sink, and the count of targets in a report is
\* right, whatever is found and whatever the host asks.
THEOREM ClaimsHold ==
  ASSUME NoWrap
  PROVE  SessionSpec => []ClaimsProved
<1>1. ASSUME ClaimInv PROVE ClaimsProved
  <2>1. /\ Proved(engine, profiles)
        /\ Bound(engine) => \E c \in DOMAIN scan.candidates :
             scan.candidates[c].loads /\ scan.candidates[c].exports = engine.exports
    BY <1>1, EngineProvedAmong, Zenon DEF ClaimInv, ProvedAmong
  <2>2. ASSUME bulk
        PROVE  \E i \in DOMAIN engine.profiles : \E b \in DOMAIN engine.profiles[i].bindings :
                 engine.profiles[i].bindings[b].role = "bulk"
                 /\ engine.profiles[i].bindings[b].shape = "sink"
    <3>1. AddressFor(engine, "bulk", "sink") # None
      BY <1>1, <2>2 DEF ClaimInv, EngineBinds
    <3>2. PICK symbol : symbol = AddressFor(engine, "bulk", "sink")
      OBVIOUS
    <3>3. Declared(engine, "bulk", symbol, "sink")
      BY <2>1, <3>1, <3>2, AddressDeclared, Zenon
    <3>4. QED
      BY <3>3 DEF Declared
  <2>3. QED
    BY <1>1, <2>1, <2>2, Zenon
       DEF ClaimsProved, ClaimInv, ReportAgrees, Proved, Satisfied
<1>2. ClaimInv /\ [SessionNext]_vars => ClaimInv'
  BY NoWrap, ClaimInv_Step
<1>3. QED
  BY <1>1, <1>2, ClaimInv_Init, PTL DEF SessionSpec

\* The engine is only ever called for a target the host holds, at a symbol it
\* exports, with arguments of the shape declared for that very symbol.
THEOREM CallsAreDeclared ==
  ASSUME NoWrap
  PROVE  SessionSpec => []EngineCalledAsDeclared
<1>1. ClaimInv => EngineCalledAsDeclared
  BY DEF ClaimInv
<1>2. ClaimInv /\ [SessionNext]_vars => ClaimInv'
  BY NoWrap, ClaimInv_Step
<1>3. QED
  BY <1>1, <1>2, ClaimInv_Init, PTL DEF SessionSpec

-----------------------------------------------------------------------------
(* The session implements HostView. *)

LEMMA View_Init == SessionInit => View!Init
<1>. SUFFICES ASSUME SessionInit PROVE View!Init
  OBVIOUS
<1>1. ~ finished /\ ~ negotiated /\ ~ probed
  BY DEF SessionInit, BackendInit
<1>2. Listed = {}
  BY DEF SessionInit, BackendInit, Listed
<1>3. QED
  BY <1>1, <1>2 DEF View!Init, phaseView, verdictView

\* A search settles the verdict, once.
LEMMA VerdictStep ==
  ASSUME SwitchInv, EnsureProbed \/ UNCHANGED probeVars
  PROVE  \/ verdictView' = verdictView
         \/ /\ verdictView = "unknown"
            /\ verdictView' \in {"none", "engine"}
<1>1. CASE UNCHANGED probeVars
  BY <1>1 DEF verdictView, probeVars, Bound
<1>2. CASE EnsureProbed /\ probed' /\ ~ probed
  BY <1>2 DEF verdictView
<1>3. QED
  BY <1>1, <1>2 DEF EnsureProbed

LEMMA View_Step ==
  ASSUME NoWrap, SessionInv, [SessionNext]_vars
  PROVE  [View!Next]_<<phaseView, verdictView, Listed>>
<1>1. /\ negotiated \in BOOLEAN /\ finished \in BOOLEAN
      /\ live \in Seq(Handle) /\ nextHandle # 0
  BY SessionAssumption DEF SessionInv, SwitchInv, SessionTypeOK, HandleInv
<1>2. UNCHANGED handleVars => Listed' = Listed
  BY DEF Listed, handleVars
<1>3. UNCHANGED probeVars => verdictView' = verdictView
  BY DEF verdictView, probeVars, Bound
<1>4. UNCHANGED <<negotiated, finished>> => phaseView' = phaseView
  BY DEF phaseView
<1>5. Live => phaseView = "live"
  BY DEF Live, phaseView
<1>6. CASE UNCHANGED vars
  BY <1>2, <1>3, <1>4, <1>6 DEF vars, backendVars, negotiationVars
<1>7. CASE /\ UNCHANGED <<probeVars, handleVars, held, negotiated>>
           /\ finished' = TRUE /\ ~ finished /\ call' = NotCalled
  <2>1. phaseView # "over" /\ phaseView' = "over"
    BY <1>7 DEF phaseView
  <2>2. QED
    BY <1>2, <1>3, <1>7, <2>1 DEF View!Next, View!End
<1>8. CASE /\ UNCHANGED <<probeVars, handleVars, held, finished>>
           /\ negotiated' = TRUE /\ ~ negotiated /\ ~ finished /\ call' = NotCalled
  <2>1. phaseView = "greeting" /\ phaseView' = "live"
    BY <1>8 DEF phaseView
  <2>2. QED
    BY <1>2, <1>3, <1>8, <2>1 DEF View!Next, View!Agree
<1>9. CASE /\ Live /\ UNCHANGED <<negotiated, finished, handleVars, held>>
           /\ UNCHANGED probeVars \/ EnsureProbed
  <2>1. phaseView = "live" /\ phaseView' = phaseView /\ Listed' = Listed
    BY <1>2, <1>4, <1>5, <1>9
  <2>2. \/ verdictView' = verdictView
        \/ /\ verdictView = "unknown"
           /\ verdictView' \in {"none", "engine"}
    BY <1>9, VerdictStep DEF SessionInv
  <2>3. QED
    BY <2>1, <2>2 DEF View!Next, View!Settle
<1>10. CASE /\ Live /\ UNCHANGED <<negotiated, finished>>
            /\ EnsureEngine /\ Bound(engine') /\ TakeHandle /\ call' = NotCalled
            /\ nextHandle =< MaxHandle /\ nextHandle \notin Listed
            /\ held' = held \cup {nextHandle} /\ reply'.type = "OPEN_ACK"
  <2>1. phaseView = "live" /\ phaseView' = phaseView
    BY <1>4, <1>5, <1>10
  <2>2. Listed' = Listed \cup {nextHandle} /\ nextHandle \notin Listed
    BY <1>10, OpenEffect
  <2>3. verdictView # "none" /\ verdictView' = "engine"
    <3>1. UNCHANGED probeVars \/ EnsureProbed
      BY <1>10 DEF EnsureEngine
    <3>2. CASE UNCHANGED probeVars
      <4>1. engine' = engine /\ probed' = probed /\ probed
        BY <1>10, <3>2 DEF SessionInv, EngineIsFound, probeVars, Bound
      <4>2. QED
        BY <1>10, <4>1 DEF verdictView, Bound
    <3>3. CASE EnsureProbed /\ ~ probed /\ probed'
      BY <1>10, <3>3 DEF verdictView
    <3>4. QED
      BY <3>1, <3>2, <3>3 DEF EnsureProbed
  <2>4. View!OpenTarget
    BY <1>1, <2>1, <2>2, <2>3 DEF View!OpenTarget
  <2>5. QED
    BY <2>4 DEF View!Next
<1>11. CASE /\ Live /\ UNCHANGED <<negotiated, finished, probeVars, nextHandle>>
            /\ \E h \in Handle \ {0} : DropHandle(h) /\ held' = held \ {h}
            /\ call' = NotCalled /\ reply'.type = "STATUS"
  <2>1. phaseView = "live" /\ phaseView' = phaseView /\ verdictView' = verdictView
    BY <1>3, <1>4, <1>5, <1>11
  <2>2. PICK h \in Handle : DropHandle(h) /\ held' = held \ {h}
    BY <1>11
  <2>3. Listed' = Listed \ {h}
    BY <1>11, <2>2, CloseEffect
  <2>4. CASE h \in Listed
    BY <2>1, <2>3, <2>4 DEF View!Next, View!CloseTarget
  <2>5. CASE h \notin Listed
    BY <2>1, <2>3, <2>5
  <2>6. QED
    BY <2>4, <2>5
<1>12. QED
  BY <1>6, <1>7, <1>8, <1>9, <1>10, <1>11, FrameEffect, Zenon

\* Whatever the peer sends and the search finds, a host sees the session that
\* HostView.tla describes.
THEOREM SessionImplementsHostView ==
  ASSUME NoWrap
  PROVE  SessionSpec => ImplementsHostView
<1>1. SessionInv /\ [SessionNext]_vars => SessionInv'
  BY NoWrap, SessionInv_Step
<1>2. SessionInv /\ [SessionNext]_vars => [View!Next]_<<phaseView, verdictView, Listed>>
  BY NoWrap, View_Step
<1>3. QED
  BY <1>1, <1>2, SessionInv_Init, View_Init, PTL
     DEF SessionSpec, ImplementsHostView, View!Spec, View!hostVars

=============================================================================
