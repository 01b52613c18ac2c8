----------------------------- MODULE JsonProofs -----------------------------
(***************************************************************************)
(* The parser of Json.tla accepts exactly what the grammar derives, up to  *)
(* its limit on depth, for every text and every limit, and returns what    *)
(* the grammar says; what the writer writes is read back as it was.        *)
(*                                                                         *)
(* The parser goes from left to right and from the outside in, the grammar *)
(* from the inside out.  They are compared level by level, from the limit  *)
(* up; at each level, turn n of a loop with the lists of n items.          *)
(***************************************************************************)
EXTENDS Json, ProberProofs, SequenceTheorems, FiniteSetTheorems

Text == Seq(STRING \ {"end"})

-----------------------------------------------------------------------------
(* Positions and white space. *)

LEMMA SymFacts ==
  ASSUME NEW s \in Text
  PROVE  /\ Len(s) \in Nat /\ DOMAIN s = 1 .. Len(s)
         /\ \A i \in 1 .. Len(s) : Sym(s, i) = s[i] /\ s[i] \in STRING /\ s[i] # "end"
         /\ \A i : i \notin 1 .. Len(s) => Sym(s, i) = "end"
BY DEF Text, Sym

LEMMA LeastIsMin ==
  ASSUME NEW S, S \subseteq Nat, NEW k \in S, \A i \in S : k =< i
  PROVE  Min(S) = k
<1>1. \A x \in S : (\A y \in S : x =< y) => x = k
  <2>1. TAKE x \in S
  <2>2. x \in Nat /\ k \in Nat
    OBVIOUS
  <2>3. QED
    BY <2>2
<1>2. QED
  BY <1>1 DEF Min

LEMMA SkipTo ==
  ASSUME NEW s \in Text, NEW at \in 1 .. Len(s) + 1, NEW k \in at .. Len(s) + 1,
         Blank(s, at, k - 1), Sym(s, k) # "ws"
  PROVE  SkipWhitespace(s, at) = k
<1>. DEFINE S == {i \in at .. Len(s) + 1 : Sym(s, i) # "ws"}
<1>0. Len(s) \in Nat
  BY SymFacts
<1>1. S \subseteq Nat /\ k \in S
  BY <1>0
<1>2. \A i \in S : k =< i
  <2>1. \A i \in at .. k - 1 : i \in 1 .. Len(s) /\ Sym(s, i) = "ws"
    BY <1>0, SymFacts DEF Blank
  <2>2. QED
    BY <1>0, <2>1
<1>. HIDE DEF S
<1>3. Min(S) = k
  BY <1>1, <1>2, LeastIsMin
<1>4. QED
  BY <1>3 DEF SkipWhitespace, S

LEMMA SkipFacts ==
  ASSUME NEW s \in Text, NEW at \in 1 .. Len(s) + 1
  PROVE  /\ SkipWhitespace(s, at) \in at .. Len(s) + 1
         /\ Blank(s, at, SkipWhitespace(s, at) - 1)
         /\ Sym(s, SkipWhitespace(s, at)) # "ws"
<1>. DEFINE S == {i \in at .. Len(s) + 1 : Sym(s, i) # "ws"}
<1>0. Len(s) \in Nat
  BY SymFacts
<1>1. S \subseteq Nat /\ Len(s) + 1 \in S
  BY <1>0, SymFacts
<1>2. PICK k \in S : \A i \in S : k =< i
  <2>. HIDE DEF S
  <2>1. QED
    BY <1>1, LeastNumber
<1>3. Blank(s, at, k - 1)
  <2>1. ASSUME NEW i \in at .. k - 1, s[i] # "ws"
        PROVE  FALSE
    <3>1. i \in 1 .. Len(s) /\ i < k /\ k \in Nat /\ i \in Nat
      BY <1>0, <2>1
    <3>2. i \in S
      BY <1>0, <2>1, <3>1, SymFacts
    <3>3. QED
      BY <1>2, <3>1, <3>2
  <2>2. QED
    BY <2>1 DEF Blank
<1>4. SkipWhitespace(s, at) = k
  BY <1>3, SkipTo
<1>5. QED
  BY <1>3, <1>4

-----------------------------------------------------------------------------
(* Recursive functions do what their definitions say. *)

LEMMA TurnsFacts ==
  ASSUME NEW s \in Text, NEW values, NEW kind, NEW at
  PROVE  /\ DOMAIN Turns(s, values, kind, at) = 0 .. Len(s)
         /\ Turns(s, values, kind, at)[0] = Going(<< >>, at)
         /\ \A n \in 1 .. Len(s) :
              Turns(s, values, kind, at)[n] = Turn(s, values, kind, Turns(s, values, kind, at)[n - 1])
<1>. DEFINE Step(loop) == Turn(s, values, kind, loop)
            Def(f, m) == [n \in 0 .. m |-> IF n = 0 THEN Going(<< >>, at) ELSE Step(f[n - 1])]
            G == {m \in 0 .. Len(s) : \E f : f = Def(f, m)}
            loop == Turns(s, values, kind, at)
<1>0. Len(s) \in Nat
  BY SymFacts
<1>1. loop = CHOOSE f : f = Def(f, Len(s))
  BY DEF Turns
<1>. HIDE DEF Step
<1>2. 0 \in G
  <2>. DEFINE f == [n \in 0 .. 0 |-> Going(<< >>, at)]
  <2>1. f = Def(f, 0)
    OBVIOUS
  <2>. HIDE DEF f, Def
  <2>2. QED
    BY <1>0, <2>1
<1>3. ASSUME NEW m \in 1 .. Len(s), m - 1 \in G PROVE m \in G
  <2>1. PICK g : g = Def(g, m - 1)
    BY <1>3
  <2>. DEFINE f == [n \in 0 .. m |-> IF n = m THEN Step(g[m - 1]) ELSE g[n]]
  <2>2. f = Def(f, m)
    <3>1. ASSUME NEW n \in 0 .. m
          PROVE  f[n] = IF n = 0 THEN Going(<< >>, at) ELSE Step(f[n - 1])
      <4>1. CASE n = m
        BY <4>1, <1>3
      <4>2. CASE n # m
        <5>1. n \in 0 .. m - 1 /\ (n # 0 => n - 1 \in 0 .. m /\ n - 1 # m)
          BY <4>2, <1>3
        <5>2. g[n] = IF n = 0 THEN Going(<< >>, at) ELSE Step(g[n - 1])
          BY <2>1, <5>1
        <5>3. QED
          BY <5>1, <5>2, <4>2
      <4>3. QED
        BY <4>1, <4>2
    <3>2. f = [n \in 0 .. m |-> f[n]]
      OBVIOUS
    <3>. HIDE DEF f
    <3>3. QED
      BY <3>1, <3>2
  <2>. HIDE DEF f, Def
  <2>3. QED
    BY <2>2
<1>. HIDE DEF G
<1>4. Len(s) \in G
  <2>1. \A m \in 0 .. Len(s) : m \in G
    BY <1>0, <1>2, <1>3, InductionToN
  <2>2. QED
    BY <1>0, <2>1
<1>5. loop = Def(loop, Len(s))
  <2>. HIDE DEF Def
  <2>1. QED
    BY <1>1, <1>4 DEF G
<1>. HIDE DEF loop
<1>6. /\ DOMAIN loop = 0 .. Len(s)
      /\ loop[0] = Going(<< >>, at)
      /\ \A n \in 1 .. Len(s) : loop[n] = Step(loop[n - 1])
  <2>. DEFINE r == Def(loop, Len(s))
  <2>1. /\ DOMAIN r = 0 .. Len(s)
        /\ r[0] = Going(<< >>, at)
        /\ \A n \in 1 .. Len(s) : r[n] = Step(loop[n - 1])
    BY <1>0
  <2>. HIDE DEF Def
  <2>2. QED
    BY <1>5, <2>1
<1>7. QED
  BY <1>6 DEF loop, Step

LEMMA ParseValueFacts ==
  ASSUME NEW s \in Text
  PROVE  /\ \A at \in 1 .. Len(s) + 1 : ParseValue(s)[MaxParseDepth + 1][at] = Failed
         /\ \A depth \in 0 .. MaxParseDepth, at \in 1 .. Len(s) + 1 :
              ParseValue(s)[depth][at] = ParseAt(s, ParseValue(s)[depth + 1], at)
<1>. DEFINE Top == MaxParseDepth + 1
            Row(depth, below) ==
              [at \in 1 .. Len(s) + 1 |-> IF depth > MaxParseDepth THEN Failed ELSE ParseAt(s, below, at)]
            Def(f, low) == [depth \in low .. Top |-> Row(depth, f[depth + 1])]
            G == {m \in 0 .. Top : \E f : f = Def(f, Top - m)}
            whole == ParseValue(s)
<1>0. MaxParseDepth \in Nat /\ Len(s) \in Nat
  BY SymFacts, JsonAssumption
<1>1. whole = CHOOSE f : f = Def(f, 0)
  BY DEF ParseValue
<1>2. \A x, y : Row(Top, x) = Row(Top, y)
  BY <1>0
<1>3. /\ \A x : \A at \in 1 .. Len(s) + 1 : Row(Top, x)[at] = Failed
      /\ \A x : \A depth \in 0 .. MaxParseDepth, at \in 1 .. Len(s) + 1 : Row(depth, x)[at] = ParseAt(s, x, at)
  BY <1>0
<1>. HIDE DEF Row
<1>4. 0 \in G
  <2>. DEFINE f == [d \in Top .. Top |-> Row(Top, 0)]
  <2>1. f = Def(f, Top - 0)
    BY <1>0, <1>2
  <2>. HIDE DEF f, Def
  <2>2. QED
    BY <1>0, <2>1
<1>5. ASSUME NEW m \in 1 .. Top, m - 1 \in G PROVE m \in G
  <2>. DEFINE low == Top - m
  <2>0. low \in 0 .. MaxParseDepth /\ Top - (m - 1) = low + 1
    BY <1>0
  <2>1. PICK g : g = Def(g, low + 1)
    BY <1>5, <2>0
  <2>. DEFINE f == [d \in low .. Top |-> IF d = low THEN Row(low, g[low + 1]) ELSE g[d]]
  <2>. HIDE DEF low
  <2>2. f = Def(f, low)
    <3>1. ASSUME NEW d \in low .. Top PROVE f[d] = Row(d, f[d + 1])
      <4>1. CASE d = low
        BY <1>0, <2>0, <4>1
      <4>2. CASE d # low
        <5>1. d \in low + 1 .. Top /\ f[d] = g[d]
          BY <1>0, <2>0, <4>2
        <5>2. g[d] = Row(d, g[d + 1])
          BY <2>1, <5>1
        <5>3. CASE d = Top
          BY <1>2, <5>1, <5>2, <5>3
        <5>4. CASE d # Top
          <6>1. d + 1 \in low .. Top /\ d + 1 # low
            BY <1>0, <2>0, <5>1, <5>4
          <6>2. QED
            BY <5>1, <5>2, <6>1
        <5>5. QED
          BY <5>3, <5>4
      <4>3. QED
        BY <4>1, <4>2
    <3>2. f = [d \in low .. Top |-> f[d]]
      OBVIOUS
    <3>. HIDE DEF f
    <3>3. QED
      BY <3>1, <3>2
  <2>. HIDE DEF f, Def
  <2>3. QED
    BY <2>2 DEF low
<1>. HIDE DEF G
<1>6. Top \in G
  <2>1. \A m \in 0 .. Top : m \in G
    BY <1>0, <1>4, <1>5, InductionToN
  <2>2. QED
    BY <1>0, <2>1
<1>7. whole = Def(whole, 0)
  <2>. HIDE DEF Def, whole
  <2>1. Top - Top = 0
    BY <1>0
  <2>2. QED
    BY <1>1, <1>6, <2>1 DEF G
<1>8. /\ whole[Top] = Row(Top, whole[Top + 1])
      /\ \A d \in 0 .. MaxParseDepth : whole[d] = Row(d, whole[d + 1])
  <2>. HIDE DEF whole
  <2>. DEFINE r == Def(whole, 0)
  <2>1. \A d \in 0 .. Top : r[d] = Row(d, whole[d + 1])
    BY <1>0
  <2>. HIDE DEF Def
  <2>2. QED
    BY <1>0, <1>7, <2>1
<1>9. \A at \in 1 .. Len(s) + 1 : whole[Top][at] = Failed
  <2>. HIDE DEF whole, Top
  <2>1. QED
    BY <1>3, <1>8
<1>10. \A depth \in 0 .. MaxParseDepth, at \in 1 .. Len(s) + 1 :
         whole[depth][at] = ParseAt(s, whole[depth + 1], at)
  <2>. HIDE DEF whole, Top
  <2>1. QED
    BY <1>3, <1>8
<1>11. QED
  BY <1>9, <1>10

LEMMA SpansFacts ==
  ASSUME NEW s \in Text
  PROVE  /\ Spans(s)[MaxParseDepth + 1] = {}
         /\ \A depth \in 0 .. MaxParseDepth :
              Spans(s)[depth] =
                {Span(i, i, Scalar(s[i])) : i \in {i \in DOMAIN s : s[i] \in Strings \cup Others}}
                \cup Containers(s, "array", Spans(s)[depth + 1])
                \cup Containers(s, "object", Spans(s)[depth + 1])
<1>. DEFINE Top == MaxParseDepth + 1
            Row(depth, below) ==
              IF depth > MaxParseDepth THEN {}
              ELSE {Span(i, i, Scalar(s[i])) : i \in {i \in DOMAIN s : s[i] \in Strings \cup Others}}
                   \cup Containers(s, "array", below)
                   \cup Containers(s, "object", below)
            Def(f, low) == [depth \in low .. Top |-> Row(depth, f[depth + 1])]
            G == {m \in 0 .. Top : \E f : f = Def(f, Top - m)}
            whole == Spans(s)
<1>0. MaxParseDepth \in Nat /\ Len(s) \in Nat
  BY SymFacts, JsonAssumption
<1>1. whole = CHOOSE f : f = Def(f, 0)
  BY DEF Spans
<1>2. \A x, y : Row(Top, x) = Row(Top, y)
  BY <1>0
<1>3. /\ \A x : Row(Top, x) = {}
      /\ \A x : \A depth \in 0 .. MaxParseDepth :
           Row(depth, x) =
             {Span(i, i, Scalar(s[i])) : i \in {i \in DOMAIN s : s[i] \in Strings \cup Others}}
             \cup Containers(s, "array", x)
             \cup Containers(s, "object", x)
  BY <1>0
<1>. HIDE DEF Row
<1>4. 0 \in G
  <2>. DEFINE f == [d \in Top .. Top |-> Row(Top, 0)]
  <2>1. f = Def(f, Top - 0)
    BY <1>0, <1>2
  <2>. HIDE DEF f, Def
  <2>2. QED
    BY <1>0, <2>1
<1>5. ASSUME NEW m \in 1 .. Top, m - 1 \in G PROVE m \in G
  <2>. DEFINE low == Top - m
  <2>0. low \in 0 .. MaxParseDepth /\ Top - (m - 1) = low + 1
    BY <1>0
  <2>1. PICK g : g = Def(g, low + 1)
    BY <1>5, <2>0
  <2>. DEFINE f == [d \in low .. Top |-> IF d = low THEN Row(low, g[low + 1]) ELSE g[d]]
  <2>. HIDE DEF low
  <2>2. f = Def(f, low)
    <3>1. ASSUME NEW d \in low .. Top PROVE f[d] = Row(d, f[d + 1])
      <4>1. CASE d = low
        BY <1>0, <2>0, <4>1
      <4>2. CASE d # low
        <5>1. d \in low + 1 .. Top /\ f[d] = g[d]
          BY <1>0, <2>0, <4>2
        <5>2. g[d] = Row(d, g[d + 1])
          BY <2>1, <5>1
        <5>3. CASE d = Top
          BY <1>2, <5>1, <5>2, <5>3
        <5>4. CASE d # Top
          <6>1. d + 1 \in low .. Top /\ d + 1 # low
            BY <1>0, <2>0, <5>1, <5>4
          <6>2. QED
            BY <5>1, <5>2, <6>1
        <5>5. QED
          BY <5>3, <5>4
      <4>3. QED
        BY <4>1, <4>2
    <3>2. f = [d \in low .. Top |-> f[d]]
      OBVIOUS
    <3>. HIDE DEF f
    <3>3. QED
      BY <3>1, <3>2
  <2>. HIDE DEF f, Def
  <2>3. QED
    BY <2>2 DEF low
<1>. HIDE DEF G
<1>6. Top \in G
  <2>1. \A m \in 0 .. Top : m \in G
    BY <1>0, <1>4, <1>5, InductionToN
  <2>2. QED
    BY <1>0, <2>1
<1>7. whole = Def(whole, 0)
  <2>. HIDE DEF Def, whole
  <2>1. Top - Top = 0
    BY <1>0
  <2>2. QED
    BY <1>1, <1>6, <2>1 DEF G
<1>8. /\ whole[Top] = Row(Top, whole[Top + 1])
      /\ \A d \in 0 .. MaxParseDepth : whole[d] = Row(d, whole[d + 1])
  <2>. HIDE DEF whole
  <2>. DEFINE r == Def(whole, 0)
  <2>1. \A d \in 0 .. Top : r[d] = Row(d, whole[d + 1])
    BY <1>0
  <2>. HIDE DEF Def
  <2>2. QED
    BY <1>0, <1>7, <2>1
<1>9. QED
  BY <1>0, <1>3, <1>8 DEF whole, Top

LEMMA ValuesFacts ==
  /\ Values[MaxParseDepth + 1] = {}
  /\ \A depth \in 0 .. MaxParseDepth :
       Values[depth] =
         [kind : {"scalar"}, of : Strings \cup Others]
         \cup [kind : {"array"}, of : Seq(Values[depth + 1])]
         \cup [kind : {"object"},
               of : {members \in Seq(Strings \X Values[depth + 1]) :
                       \A i, j \in DOMAIN members : members[i][1] = members[j][1] => i = j}]
<1>. DEFINE Top == MaxParseDepth + 1
            Row(depth, below) ==
              IF depth > MaxParseDepth THEN {}
              ELSE [kind : {"scalar"}, of : Strings \cup Others]
                   \cup [kind : {"array"}, of : Seq(below)]
                   \cup [kind : {"object"},
                         of : {members \in Seq(Strings \X below) :
                                 \A i, j \in DOMAIN members : members[i][1] = members[j][1] => i = j}]
            Def(f, low) == [depth \in low .. Top |-> Row(depth, f[depth + 1])]
            G == {m \in 0 .. Top : \E f : f = Def(f, Top - m)}
            whole == Values
<1>0. MaxParseDepth \in Nat
  BY JsonAssumption
<1>1. whole = CHOOSE f : f = Def(f, 0)
  BY DEF Values
<1>2. \A x, y : Row(Top, x) = Row(Top, y)
  BY <1>0
<1>3. /\ \A x : Row(Top, x) = {}
      /\ \A x : \A depth \in 0 .. MaxParseDepth :
           Row(depth, x) =
             [kind : {"scalar"}, of : Strings \cup Others]
             \cup [kind : {"array"}, of : Seq(x)]
             \cup [kind : {"object"},
                   of : {members \in Seq(Strings \X x) :
                           \A i, j \in DOMAIN members : members[i][1] = members[j][1] => i = j}]
  <2>1. \A x : Row(Top, x) = {}
    BY <1>0
  <2>2. ASSUME NEW depth \in 0 .. MaxParseDepth
        PROVE  ~ (depth > MaxParseDepth)
    BY <1>0
  <2>3. QED
    BY <2>1, <2>2, Zenon
<1>. HIDE DEF Row
<1>4. 0 \in G
  <2>. DEFINE f == [d \in Top .. Top |-> Row(Top, 0)]
  <2>1. f = Def(f, Top - 0)
    BY <1>0, <1>2
  <2>. HIDE DEF f, Def
  <2>2. QED
    BY <1>0, <2>1
<1>5. ASSUME NEW m \in 1 .. Top, m - 1 \in G PROVE m \in G
  <2>. DEFINE low == Top - m
  <2>0. low \in 0 .. MaxParseDepth /\ Top - (m - 1) = low + 1
    BY <1>0
  <2>1. PICK g : g = Def(g, low + 1)
    BY <1>5, <2>0
  <2>. DEFINE f == [d \in low .. Top |-> IF d = low THEN Row(low, g[low + 1]) ELSE g[d]]
  <2>. HIDE DEF low
  <2>2. f = Def(f, low)
    <3>1. ASSUME NEW d \in low .. Top PROVE f[d] = Row(d, f[d + 1])
      <4>1. CASE d = low
        BY <1>0, <2>0, <4>1
      <4>2. CASE d # low
        <5>1. d \in low + 1 .. Top /\ f[d] = g[d]
          BY <1>0, <2>0, <4>2
        <5>2. g[d] = Row(d, g[d + 1])
          BY <2>1, <5>1
        <5>3. CASE d = Top
          BY <1>2, <5>1, <5>2, <5>3
        <5>4. CASE d # Top
          <6>1. d + 1 \in low .. Top /\ d + 1 # low
            BY <1>0, <2>0, <5>1, <5>4
          <6>2. QED
            BY <5>1, <5>2, <6>1
        <5>5. QED
          BY <5>3, <5>4
      <4>3. QED
        BY <4>1, <4>2
    <3>2. f = [d \in low .. Top |-> f[d]]
      OBVIOUS
    <3>. HIDE DEF f
    <3>3. QED
      BY <3>1, <3>2
  <2>. HIDE DEF f, Def
  <2>3. QED
    BY <2>2 DEF low
<1>. HIDE DEF G
<1>6. Top \in G
  <2>1. \A m \in 0 .. Top : m \in G
    BY <1>0, <1>4, <1>5, InductionToN
  <2>2. QED
    BY <1>0, <2>1
<1>7. whole = Def(whole, 0)
  <2>. HIDE DEF Def, whole
  <2>1. Top - Top = 0
    BY <1>0
  <2>2. QED
    BY <1>1, <1>6, <2>1 DEF G
<1>8. /\ whole[Top] = Row(Top, whole[Top + 1])
      /\ \A d \in 0 .. MaxParseDepth : whole[d] = Row(d, whole[d + 1])
  <2>. HIDE DEF whole
  <2>. DEFINE r == Def(whole, 0)
  <2>1. \A d \in 0 .. Top : r[d] = Row(d, whole[d + 1])
    BY <1>0
  <2>. HIDE DEF Def
  <2>2. QED
    BY <1>0, <1>7, <2>1
<1>9. QED
  BY <1>0, <1>3, <1>8 DEF whole, Top

LEMMA DumpFacts ==
  ASSUME NEW depth \in 0 .. MaxParseDepth, NEW value \in Values[depth]
  PROVE  Dump[depth][value] =
           IF value.kind = "scalar" THEN <<value.of>>
           ELSE <<Begin(value.kind)>>
                \o WithCommas([i \in DOMAIN value.of |->
                     IF value.kind = "array" THEN Dump[depth + 1][value.of[i]]
                     ELSE <<value.of[i][1], "nameSeparator">> \o Dump[depth + 1][value.of[i][2]]])[Len(value.of)]
                \o <<End(value.kind)>>
<1>. DEFINE Top == MaxParseDepth + 1
            Written(v, below) ==
              IF v.kind = "scalar" THEN <<v.of>>
              ELSE <<Begin(v.kind)>>
                   \o WithCommas([i \in DOMAIN v.of |->
                        IF v.kind = "array" THEN below[v.of[i]]
                        ELSE <<v.of[i][1], "nameSeparator">> \o below[v.of[i][2]]])[Len(v.of)]
                   \o <<End(v.kind)>>
            Row(d, below) == [v \in Values[d] |-> Written(v, below)]
            Def(f, low) == [d \in low .. Top |-> Row(d, f[d + 1])]
            G == {m \in 0 .. Top : \E f : f = Def(f, Top - m)}
            whole == Dump
<1>0. MaxParseDepth \in Nat
  BY JsonAssumption
<1>1. whole = CHOOSE f : f = Def(f, 0)
  BY DEF Dump
<1>. HIDE DEF Written
<1>2. \A x, y : Row(Top, x) = Row(Top, y)
  BY ValuesFacts
<1>3. \A d, x : \A v \in Values[d] : Row(d, x)[v] = Written(v, x)
  OBVIOUS
<1>. HIDE DEF Row
<1>4. 0 \in G
  <2>. DEFINE f == [d \in Top .. Top |-> Row(Top, 0)]
  <2>1. f = Def(f, Top - 0)
    BY <1>0, <1>2
  <2>. HIDE DEF f, Def
  <2>2. QED
    BY <1>0, <2>1
<1>5. ASSUME NEW m \in 1 .. Top, m - 1 \in G PROVE m \in G
  <2>. DEFINE low == Top - m
  <2>0. low \in 0 .. MaxParseDepth /\ Top - (m - 1) = low + 1
    BY <1>0
  <2>1. PICK g : g = Def(g, low + 1)
    BY <1>5, <2>0
  <2>. DEFINE f == [d \in low .. Top |-> IF d = low THEN Row(low, g[low + 1]) ELSE g[d]]
  <2>. HIDE DEF low
  <2>2. f = Def(f, low)
    <3>1. ASSUME NEW d \in low .. Top PROVE f[d] = Row(d, f[d + 1])
      <4>1. CASE d = low
        BY <1>0, <2>0, <4>1
      <4>2. CASE d # low
        <5>1. d \in low + 1 .. Top /\ f[d] = g[d]
          BY <1>0, <2>0, <4>2
        <5>2. g[d] = Row(d, g[d + 1])
          BY <2>1, <5>1
        <5>3. CASE d = Top
          BY <1>2, <5>1, <5>2, <5>3
        <5>4. CASE d # Top
          <6>1. d + 1 \in low .. Top /\ d + 1 # low
            BY <1>0, <2>0, <5>1, <5>4
          <6>2. QED
            BY <5>1, <5>2, <6>1
        <5>5. QED
          BY <5>3, <5>4
      <4>3. QED
        BY <4>1, <4>2
    <3>2. f = [d \in low .. Top |-> f[d]]
      OBVIOUS
    <3>. HIDE DEF f
    <3>3. QED
      BY <3>1, <3>2
  <2>. HIDE DEF f, Def
  <2>3. QED
    BY <2>2 DEF low
<1>. HIDE DEF G
<1>6. Top \in G
  <2>1. \A m \in 0 .. Top : m \in G
    BY <1>0, <1>4, <1>5, InductionToN
  <2>2. QED
    BY <1>0, <2>1
<1>7. whole = Def(whole, 0)
  <2>. HIDE DEF Def, whole
  <2>1. Top - Top = 0
    BY <1>0
  <2>2. QED
    BY <1>1, <1>6, <2>1 DEF G
<1>8. /\ whole[Top] = Row(Top, whole[Top + 1])
      /\ \A d \in 0 .. MaxParseDepth : whole[d] = Row(d, whole[d + 1])
  <2>. HIDE DEF whole
  <2>. DEFINE r == Def(whole, 0)
  <2>1. \A d \in 0 .. Top : r[d] = Row(d, whole[d + 1])
    BY <1>0
  <2>. HIDE DEF Def
  <2>2. QED
    BY <1>0, <1>7, <2>1
<1>9. QED
  <2>1. Dump[depth][value] = Written(value, Dump[depth + 1])
    BY <1>0, <1>3, <1>8 DEF whole, Top
  <2>2. QED
    BY <2>1 DEF Written

LEMMA ListsFacts ==
  ASSUME NEW s \in Text, NEW items
  PROVE  /\ 1 \in 1 .. Len(s) =>
              Lists(s, items)[1] = {Span(item.from, item.to, <<item.value>>) : item \in items}
         /\ \A n \in 2 .. Len(s) :
              Lists(s, items)[n] =
                UNION {{Span(list.from, item.to, Append(list.value, item.value)) :
                          item \in {item \in items : Separates(s, "valueSeparator", list.to, item.from)}} :
                       list \in Lists(s, items)[n - 1]}
<1>. DEFINE Base == {Span(item.from, item.to, <<item.value>>) : item \in items}
            Step(lists) ==
              UNION {{Span(list.from, item.to, Append(list.value, item.value)) :
                        item \in {item \in items : Separates(s, "valueSeparator", list.to, item.from)}} :
                     list \in lists}
            Def(f, m) == [n \in 1 .. m |-> IF n = 1 THEN Base ELSE Step(f[n - 1])]
            G == {m \in 0 .. Len(s) : \E f : f = Def(f, m)}
            whole == Lists(s, items)
<1>0. Len(s) \in Nat
  BY SymFacts
<1>1. whole = CHOOSE f : f = Def(f, Len(s))
  BY DEF Lists
<1>. HIDE DEF Step, Base
<1>2. 0 \in G
  <2>. DEFINE f == [n \in 1 .. 0 |-> Base]
  <2>1. f = Def(f, 0)
    OBVIOUS
  <2>. HIDE DEF f, Def
  <2>2. QED
    BY <1>0, <2>1
<1>3. ASSUME NEW m \in 1 .. Len(s), m - 1 \in G PROVE m \in G
  <2>1. PICK g : g = Def(g, m - 1)
    BY <1>3
  <2>. DEFINE last == IF m = 1 THEN Base ELSE Step(g[m - 1])
              f == [n \in 1 .. m |-> IF n = m THEN last ELSE g[n]]
  <2>2. f = Def(f, m)
    <3>1. ASSUME NEW n \in 1 .. m
          PROVE  f[n] = IF n = 1 THEN Base ELSE Step(f[n - 1])
      <4>1. CASE n = m
        BY <4>1, <1>3
      <4>2. CASE n # m
        <5>1. n \in 1 .. m - 1 /\ (n # 1 => n - 1 \in 1 .. m /\ n - 1 # m)
          BY <4>2, <1>3
        <5>2. g[n] = IF n = 1 THEN Base ELSE Step(g[n - 1])
          BY <2>1, <5>1
        <5>3. QED
          BY <5>1, <5>2, <4>2
      <4>3. QED
        BY <4>1, <4>2
    <3>2. f = [n \in 1 .. m |-> f[n]]
      OBVIOUS
    <3>. HIDE DEF f
    <3>3. QED
      BY <3>1, <3>2
  <2>. HIDE DEF f, Def
  <2>3. QED
    BY <2>2
<1>. HIDE DEF G
<1>4. Len(s) \in G
  <2>1. \A m \in 0 .. Len(s) : m \in G
    BY <1>0, <1>2, <1>3, InductionToN
  <2>2. QED
    BY <1>0, <2>1
<1>5. whole = Def(whole, Len(s))
  <2>. HIDE DEF Def
  <2>1. QED
    BY <1>1, <1>4 DEF G
<1>6. /\ 1 \in 1 .. Len(s) => whole[1] = Base
      /\ \A n \in 2 .. Len(s) : whole[n] = Step(whole[n - 1])
  <2>. HIDE DEF whole
  <2>. DEFINE r == Def(whole, Len(s))
  <2>1. /\ 1 \in 1 .. Len(s) => r[1] = Base
        /\ \A n \in 2 .. Len(s) : r[n] = Step(whole[n - 1])
    BY <1>0
  <2>. HIDE DEF Def
  <2>2. QED
    BY <1>5, <2>1
<1>7. QED
  BY <1>6 DEF Base, Step

LEMMA WithCommasFacts ==
  ASSUME NEW parts, NEW n \in Nat, Len(parts) = n
  PROVE  /\ WithCommas(parts)[0] = << >>
         /\ \A k \in 1 .. n :
              WithCommas(parts)[k] =
                WithCommas(parts)[k - 1] \o (IF k = 1 THEN << >> ELSE <<"valueSeparator">>) \o parts[k]
<1>. DEFINE Row(k, x) == IF k = 0 THEN << >>
                         ELSE x \o (IF k = 1 THEN << >> ELSE <<"valueSeparator">>) \o parts[k]
            Def(f, m) == [k \in 0 .. m |-> Row(k, f[k - 1])]
            G == {m \in 0 .. n : \E f : f = Def(f, m)}
            whole == WithCommas(parts)
<1>1. whole = CHOOSE f : f = Def(f, n)
  BY DEF WithCommas
<1>2. /\ \A x : Row(0, x) = << >>
      /\ \A x : \A k \in 1 .. n :
           Row(k, x) = x \o (IF k = 1 THEN << >> ELSE <<"valueSeparator">>) \o parts[k]
  OBVIOUS
<1>. HIDE DEF Row
<1>3. 0 \in G
  <2>. DEFINE f == [k \in 0 .. 0 |-> << >>]
  <2>1. f = Def(f, 0)
    BY <1>2
  <2>. HIDE DEF f, Def
  <2>2. QED
    BY <2>1
<1>4. ASSUME NEW m \in 1 .. n, m - 1 \in G PROVE m \in G
  <2>1. PICK g : g = Def(g, m - 1)
    BY <1>4
  <2>. DEFINE f == [k \in 0 .. m |-> IF k = m THEN Row(m, g[m - 1]) ELSE g[k]]
  <2>2. f = Def(f, m)
    <3>1. ASSUME NEW k \in 0 .. m
          PROVE  f[k] = Row(k, f[k - 1])
      <4>1. CASE k = m
        BY <4>1, <1>4
      <4>2. CASE k # m
        <5>1. k \in 0 .. m - 1 /\ (k # 0 => k - 1 \in 0 .. m /\ k - 1 # m)
          BY <4>2, <1>4
        <5>2. g[k] = Row(k, g[k - 1])
          BY <2>1, <5>1
        <5>3. k = 0 => Row(k, g[k - 1]) = Row(k, f[k - 1])
          BY <1>2
        <5>4. f[k] = g[k] /\ (k # 0 => f[k - 1] = g[k - 1])
          BY <5>1, <4>2
        <5>. HIDE DEF f
        <5>5. QED
          BY <5>2, <5>3, <5>4
      <4>3. QED
        BY <4>1, <4>2
    <3>2. f = [k \in 0 .. m |-> f[k]]
      OBVIOUS
    <3>. HIDE DEF f
    <3>3. QED
      BY <3>1, <3>2
  <2>. HIDE DEF f, Def
  <2>3. QED
    BY <2>2
<1>. HIDE DEF G
<1>5. n \in G
  <2>1. \A m \in 0 .. n : m \in G
    BY <1>3, <1>4, InductionToN
  <2>2. QED
    BY <2>1
<1>6. whole = Def(whole, n)
  <2>. HIDE DEF Def
  <2>1. QED
    BY <1>1, <1>5 DEF G
<1>. HIDE DEF whole
<1>7. \A k \in 0 .. n : whole[k] = Row(k, whole[k - 1])
  <2>. DEFINE r == Def(whole, n)
  <2>1. \A k \in 0 .. n : r[k] = Row(k, whole[k - 1])
    OBVIOUS
  <2>. HIDE DEF Def
  <2>2. QED
    BY <1>6, <2>1
<1>8. whole[0] = << >>
  BY <1>2, <1>7
<1>9. ASSUME NEW k \in 1 .. n
      PROVE  whole[k] = whole[k - 1] \o (IF k = 1 THEN << >> ELSE <<"valueSeparator">>) \o parts[k]
  <2>1. whole[k] = Row(k, whole[k - 1])
    BY <1>7
  <2>2. QED
    BY <1>2, <2>1
<1>10. QED
  BY <1>8, <1>9 DEF whole

-----------------------------------------------------------------------------
(* A table of what parses at each position, and the spans the grammar has. *)

\* Spans of the text that begin with something that can begin an item.
Typed(s, spans) ==
  \A p \in spans : /\ p = Span(p.from, p.to, p.value)
                   /\ p.from \in 1 .. Len(s) /\ p.to \in p.from .. Len(s)
                   /\ s[p.from] \notin {"ws", "endArray", "endObject"}

\* What parses at a position is the span that begins there, and the only one.
Agrees(s, table, spans) ==
  /\ Typed(s, spans)
  /\ \A p \in spans : table[p.from] = Parsed(p.value, p.to + 1)
  /\ \A at \in 1 .. Len(s) + 1 : table[at] = Failed \/ \E p \in spans : p.from = at

LEMMA Records ==
  /\ Failed.is = "failed"
  /\ \A v, at : /\ Parsed(v, at).is = "parsed" /\ Parsed(v, at).value = v /\ Parsed(v, at).at = at
                /\ Going(v, at).is = "going" /\ Going(v, at).value = v /\ Going(v, at).at = at
  /\ \A from, to, v : /\ Span(from, to, v).from = from /\ Span(from, to, v).to = to
                      /\ Span(from, to, v).value = v
BY DEF Failed, Parsed, Going, Span

LEMMA BracketFacts ==
  /\ "end" \notin Strings \cup Others
  /\ \A x \in Structure : x \notin Strings \cup Others
  /\ Strings \cup Others \subseteq STRING
  /\ \A kind \in {"array", "object"} :
       /\ Begin(kind) \in {"beginArray", "beginObject"}
       /\ End(kind) \in {"endArray", "endObject"}
BY JsonAssumption DEF Structure, Begin, End

\* A symbol between two positions, white space apart, is where the parser looks.
LEMMA Separation ==
  ASSUME NEW s \in Text, NEW symbol, symbol \notin {"ws", "end"},
         NEW left \in 1 .. Len(s), NEW right \in left + 1 .. Len(s), s[right] # "ws",
         Separates(s, symbol, left, right)
  PROVE  /\ SkipWhitespace(s, left + 1) \in left + 1 .. right - 1
         /\ Sym(s, SkipWhitespace(s, left + 1)) = symbol
         /\ SkipWhitespace(s, SkipWhitespace(s, left + 1) + 1) = right
<1>0. Len(s) \in Nat
  BY SymFacts
<1>1. PICK i \in left + 1 .. right - 1 :
        s[i] = symbol /\ Blank(s, left + 1, i - 1) /\ Blank(s, i + 1, right - 1)
  BY DEF Separates
<1>2. /\ left + 1 \in 1 .. Len(s) + 1 /\ i \in left + 1 .. Len(s) + 1 /\ i \in 1 .. Len(s)
      /\ i + 1 \in 1 .. Len(s) + 1 /\ right \in i + 1 .. Len(s) + 1
      /\ right \in 1 .. Len(s)
  BY <1>0
<1>3. Sym(s, i) = symbol /\ Sym(s, right) = s[right]
  BY <1>1, <1>2, SymFacts
<1>4. SkipWhitespace(s, left + 1) = i
  BY <1>1, <1>2, <1>3, SkipTo
<1>5. SkipWhitespace(s, i + 1) = right
  BY <1>1, <1>2, <1>3, SkipTo
<1>6. QED
  BY <1>3, <1>4, <1>5

LEMMA Separated ==
  ASSUME NEW s \in Text, NEW symbol, symbol # "end", NEW left \in 1 .. Len(s),
         Sym(s, SkipWhitespace(s, left + 1)) = symbol
  PROVE  /\ SkipWhitespace(s, left + 1) \in left + 1 .. Len(s)
         /\ SkipWhitespace(s, SkipWhitespace(s, left + 1) + 1) \in left + 2 .. Len(s) + 1
         /\ Separates(s, symbol, left, SkipWhitespace(s, SkipWhitespace(s, left + 1) + 1))
<1>. DEFINE i == SkipWhitespace(s, left + 1)
            right == SkipWhitespace(s, i + 1)
<1>0. Len(s) \in Nat /\ left + 1 \in 1 .. Len(s) + 1
  BY SymFacts
<1>1. i \in left + 1 .. Len(s) + 1 /\ Blank(s, left + 1, i - 1)
  BY <1>0, SkipFacts
<1>. HIDE DEF i
<1>2. i \in 1 .. Len(s) /\ s[i] = symbol
  BY <1>0, <1>1, SymFacts DEF i
<1>3. i + 1 \in 1 .. Len(s) + 1
  BY <1>0, <1>2
<1>4. right \in i + 1 .. Len(s) + 1 /\ Blank(s, i + 1, right - 1)
  BY <1>3, SkipFacts
<1>. HIDE DEF right
<1>5. Separates(s, symbol, left, right)
  <2>1. i \in left + 1 .. right - 1
    BY <1>0, <1>1, <1>2, <1>4
  <2>2. QED
    BY <1>1, <1>2, <1>4, <2>1 DEF Separates
<1>6. i \in left + 1 .. Len(s) /\ right \in left + 2 .. Len(s) + 1
  BY <1>0, <1>1, <1>2, <1>4
<1>7. QED
  BY <1>5, <1>6 DEF i, right

-----------------------------------------------------------------------------
(* Items. *)

ItemTable(s, values, kind) == [at \in 1 .. Len(s) + 1 |-> ParseItem(s, values, kind, at)]

LEMMA ItemsOfObject ==
  ASSUME NEW s, NEW spans, NEW q
  PROVE  q \in Items(s, "object", spans) <=>
           \E p \in spans, i \in DOMAIN s :
             /\ s[i] \in Strings /\ Separates(s, "nameSeparator", i, p.from)
             /\ q = Span(i, p.to, <<s[i], p.value>>)
BY DEF Items

LEMMA ItemsAgree ==
  ASSUME NEW s \in Text, NEW values, NEW spans, Agrees(s, values, spans),
         NEW kind \in {"array", "object"}
  PROVE  Agrees(s, ItemTable(s, values, kind), Items(s, kind, spans))
<1>. DEFINE table == ItemTable(s, values, kind)
            items == Items(s, kind, spans)
<1>0. Len(s) \in Nat /\ DOMAIN s = 1 .. Len(s)
  BY SymFacts
<1>1. \A at \in 1 .. Len(s) + 1 : table[at] = ParseItem(s, values, kind, at)
  BY <1>0 DEF ItemTable
<1>. HIDE DEF table
<1>2. CASE kind = "array"
  <2>1. items = spans /\ \A at : ParseItem(s, values, kind, at) = values[at]
    BY <1>2 DEF Items, ParseItem
  <2>2. \A p \in spans : p.from \in 1 .. Len(s) + 1
    BY <1>0 DEF Agrees, Typed
  <2>3. QED
    BY <1>1, <2>1, <2>2 DEF Agrees, table
<1>3. CASE kind = "object"
  <2>. DEFINE colon(at) == SkipWhitespace(s, at + 1)
              behind(at) == SkipWhitespace(s, colon(at) + 1)
  <2>1. \A at : ParseItem(s, values, kind, at) =
                IF Sym(s, at) \in Strings /\ Sym(s, colon(at)) = "nameSeparator"
                   /\ values[behind(at)].is = "parsed"
                THEN Parsed(<<Sym(s, at), values[behind(at)].value>>, values[behind(at)].at)
                ELSE Failed
    BY <1>3 DEF ParseItem
  <2>2. ASSUME NEW q \in items
        PROVE  /\ q = Span(q.from, q.to, q.value)
               /\ q.from \in 1 .. Len(s) /\ q.to \in q.from .. Len(s)
               /\ s[q.from] \notin {"ws", "endArray", "endObject"}
               /\ table[q.from] = Parsed(q.value, q.to + 1)
    <3>1. PICK p \in spans, i \in DOMAIN s :
            /\ s[i] \in Strings /\ Separates(s, "nameSeparator", i, p.from)
            /\ q = Span(i, p.to, <<s[i], p.value>>)
      BY <1>3, ItemsOfObject
    <3>2. /\ p.from \in 1 .. Len(s) /\ p.to \in p.from .. Len(s) /\ s[p.from] # "ws"
          /\ values[p.from] = Parsed(p.value, p.to + 1)
      BY DEF Agrees, Typed
    <3>3. i < p.from /\ i \in 1 .. Len(s)
      <4>1. \E j \in i + 1 .. p.from - 1 : TRUE
        BY <3>1 DEF Separates
      <4>2. QED
        BY <1>0, <3>2, <4>1
    <3>4. p.from \in i + 1 .. Len(s)
      BY <1>0, <3>2, <3>3
    <3>5. Sym(s, colon(i)) = "nameSeparator" /\ behind(i) = p.from
      <4>1. "nameSeparator" \notin {"ws", "end"}
        OBVIOUS
      <4>2. QED
        BY <3>1, <3>2, <3>3, <3>4, <4>1, Separation
    <3>6. q.from = i /\ q.to = p.to /\ q.value = <<s[i], p.value>>
      BY <3>1, Records
    <3>. HIDE DEF behind, colon
    <3>7. table[i] = Parsed(<<s[i], p.value>>, p.to + 1)
      <4>1. Sym(s, i) = s[i] /\ i \in 1 .. Len(s) + 1
        BY <1>0, <3>3, SymFacts
      <4>2. values[behind(i)].is = "parsed" /\ values[behind(i)].value = p.value
            /\ values[behind(i)].at = p.to + 1
        BY <3>2, <3>5, Records
      <4>3. QED
        BY <1>1, <2>1, <3>1, <3>5, <4>1, <4>2
    <3>8. s[i] \notin {"ws", "endArray", "endObject"}
      BY <3>1, BracketFacts DEF Structure
    <3>9. p.to \in i .. Len(s)
      BY <1>0, <3>2, <3>3
    <3>10. QED
      BY <3>1, <3>3, <3>6, <3>7, <3>8, <3>9
  <2>3. ASSUME NEW at \in 1 .. Len(s) + 1, table[at] # Failed
        PROVE  \E q \in items : q.from = at
    <3>1. /\ Sym(s, at) \in Strings /\ Sym(s, colon(at)) = "nameSeparator"
          /\ values[behind(at)].is = "parsed"
      BY <1>1, <2>1, <2>3
    <3>2. at \in 1 .. Len(s) /\ s[at] = Sym(s, at)
      BY <3>1, SymFacts, BracketFacts
    <3>3. /\ behind(at) \in 1 .. Len(s) + 1
          /\ Separates(s, "nameSeparator", at, behind(at))
      <4>1. /\ behind(at) \in at + 2 .. Len(s) + 1
            /\ Separates(s, "nameSeparator", at, behind(at))
        BY <3>1, <3>2, Separated
      <4>2. QED
        BY <1>0, <3>2, <4>1
    <3>. HIDE DEF behind, colon
    <3>4. PICK p \in spans : p.from = behind(at)
      BY <3>1, <3>3, Records DEF Agrees
    <3>5. Span(at, p.to, <<s[at], p.value>>) \in items
      BY <1>0, <1>3, <3>1, <3>2, <3>3, <3>4, ItemsOfObject
    <3>6. QED
      BY <3>5, Records
  <2>4. QED
    BY <2>2, <2>3 DEF Agrees, Typed, table
<1>4. QED
  BY <1>2, <1>3

-----------------------------------------------------------------------------
(* Lists. *)

LEMMA ListsTyped ==
  ASSUME NEW s \in Text, NEW items, Typed(s, items), NEW n \in 1 .. Len(s)
  PROVE  \A l \in Lists(s, items)[n] :
           /\ l = Span(l.from, l.to, l.value)
           /\ l.from \in 1 .. Len(s) /\ l.to \in l.from + n - 1 .. Len(s)
           /\ s[l.from] \notin {"ws", "endArray", "endObject"}
           /\ \E item \in items : item.from = l.from
           /\ l.value \in Seq({item.value : item \in items}) /\ Len(l.value) = n
<1>. DEFINE Elements == {item.value : item \in items}
            Good(m, l) ==
              /\ l = Span(l.from, l.to, l.value)
              /\ l.from \in 1 .. Len(s) /\ l.to \in l.from + m - 1 .. Len(s)
              /\ s[l.from] \notin {"ws", "endArray", "endObject"}
              /\ \E item \in items : item.from = l.from
              /\ l.value \in Seq(Elements) /\ Len(l.value) = m
            G == {m \in 0 .. Len(s) : m = 0 \/ \A l \in Lists(s, items)[m] : Good(m, l)}
<1>0. Len(s) \in Nat
  BY SymFacts
<1>1. ASSUME NEW m \in 1 .. Len(s), m - 1 \in G PROVE m \in G
  <2>1. CASE m = 1
    <3>1. ASSUME NEW l \in Lists(s, items)[1] PROVE Good(1, l)
      <4>1. 1 \in 1 .. Len(s)
        BY <1>0
      <4>2. PICK item \in items : l = Span(item.from, item.to, <<item.value>>)
        BY <4>1, ListsFacts
      <4>3. l.from = item.from /\ l.to = item.to /\ l.value = <<item.value>>
        BY <4>2, Records
      <4>4. item.value \in Elements
        OBVIOUS
      <4>. HIDE DEF Elements
      <4>5. l.value \in Seq(Elements) /\ Len(l.value) = 1
        BY <4>3, <4>4
      <4>6. /\ item.from \in 1 .. Len(s) /\ item.to \in item.from .. Len(s)
            /\ s[item.from] \notin {"ws", "endArray", "endObject"}
        BY DEF Typed
      <4>7. QED
        BY <1>0, <4>2, <4>3, <4>5, <4>6
    <3>. HIDE DEF Good
    <3>2. QED
      BY <2>1, <3>1
  <2>2. CASE m # 1
    <3>1. m \in 2 .. Len(s) /\ m - 1 \in 1 .. Len(s)
      BY <1>0, <2>2
    <3>2. ASSUME NEW l \in Lists(s, items)[m] PROVE Good(m, l)
      <4>1. PICK list \in Lists(s, items)[m - 1], item \in items :
              /\ Separates(s, "valueSeparator", list.to, item.from)
              /\ l = Span(list.from, item.to, Append(list.value, item.value))
        BY <3>1, ListsFacts
      <4>2. Good(m - 1, list)
        <5>. HIDE DEF Good
        <5>1. m - 1 # 0
          BY <3>1
        <5>2. QED
          BY <1>1, <5>1
      <4>3. l.from = list.from /\ l.to = item.to /\ l.value = Append(list.value, item.value)
        BY <4>1 DEF Span
      <4>4. item.value \in Elements
        OBVIOUS
      <4>. HIDE DEF Elements
      <4>5. l.value \in Seq(Elements) /\ Len(l.value) = m
        <5>1. list.value \in Seq(Elements) /\ Len(list.value) = m - 1
          BY <4>2
        <5>2. QED
          BY <4>3, <4>4, <5>1
      <4>6. item.from \in 1 .. Len(s) /\ item.to \in item.from .. Len(s)
        BY DEF Typed
      <4>7. list.to < item.from
        <5>1. \E j \in list.to + 1 .. item.from - 1 : TRUE
          BY <4>1 DEF Separates
        <5>2. list.to \in list.from + (m - 1) - 1 .. Len(s) /\ list.from \in 1 .. Len(s)
          BY <4>2
        <5>3. QED
          BY <1>0, <4>6, <5>1, <5>2
      <4>8. item.to \in list.from + m - 1 .. Len(s)
        <5>1. list.to \in list.from + (m - 1) - 1 .. Len(s) /\ list.from \in 1 .. Len(s)
          BY <4>2
        <5>2. QED
          BY <1>0, <4>6, <4>7, <5>1
      <4>9. QED
        BY <4>1, <4>2, <4>3, <4>5, <4>8
    <3>. HIDE DEF Good
    <3>3. QED
      BY <3>2
  <2>3. QED
    BY <2>1, <2>2
<1>2. \A m \in 0 .. Len(s) : m \in G
  <2>1. 0 \in G
    BY <1>0
  <2>. HIDE DEF G
  <2>2. QED
    BY <1>0, <1>1, <2>1, InductionToN
<1>3. \A l \in Lists(s, items)[n] : Good(n, l)
  <2>. HIDE DEF Good
  <2>1. n \in 0 .. Len(s) /\ n # 0
    BY <1>0
  <2>2. n \in G
    <3>. HIDE DEF G
    <3>1. QED
      BY <1>2, <2>1
  <2>3. QED
    BY <2>1, <2>2
<1>4. QED
  BY <1>3

-----------------------------------------------------------------------------
(* Members of one name. *)

LEMMA GreatestIsMax ==
  ASSUME NEW S, S \subseteq Nat, NEW k \in S, \A i \in S : i =< k
  PROVE  Max(S) = k
<1>1. \A x \in S : (\A y \in S : x >= y) => x = k
  <2>1. TAKE x \in S
  <2>2. x \in Nat /\ k \in Nat
    OBVIOUS
  <2>3. QED
    BY <2>2
<1>2. \A y \in S : k >= y
  BY Z3
<1>3. QED
  BY <1>1, <1>2 DEF Max

LEMMA MaxInSet ==
  ASSUME NEW n \in Nat, NEW S \in SUBSET (1 .. n), S # {}
  PROVE  Max(S) \in S /\ \A i \in S : i =< Max(S)
<1>. DEFINE T == {n - i : i \in S}
<1>0. \A i \in S : i \in 1 .. n
  OBVIOUS
<1>1. T \subseteq Nat /\ T # {}
  <2>1. \A i \in S : n - i \in Nat
    BY <1>0
  <2>2. QED
    BY <2>1
<1>2. PICK m \in T : \A l \in T : m =< l
  <2>. HIDE DEF T
  <2>1. QED
    BY <1>1, LeastNumber
<1>3. PICK k \in S : m = n - k
  BY <1>2
<1>4. \A i \in S : i =< k
  <2>1. TAKE i \in S
  <2>2. n - i \in T
    OBVIOUS
  <2>3. i \in Nat /\ k \in Nat
    BY <1>0
  <2>4. n - k =< n - i
    <3>. HIDE DEF T
    <3>1. QED
      BY <1>2, <1>3, <2>2
  <2>5. QED
    BY <2>3, <2>4
<1>5. S \subseteq Nat
  BY <1>0
<1>6. Max(S) = k
  BY <1>4, <1>5, GreatestIsMax
<1>7. QED
  BY <1>4, <1>6

\* The elements of a set of positions below one of them.
Below(F, i) == {j \in F : j < i}
Rank(F, i) == Cardinality(Below(F, i))

LEMMA RankFacts ==
  ASSUME NEW n \in Nat, NEW F, \A j \in F : j \in 1 .. n
  PROVE  /\ IsFiniteSet(F) /\ Cardinality(F) \in Nat
         /\ \A i \in F : Rank(F, i) \in 0 .. Cardinality(F) - 1
         /\ \A i, k \in F : Rank(F, i) = Rank(F, k) => i = k
         /\ \A m \in 0 .. Cardinality(F) - 1 : \E i \in F : Rank(F, i) = m
<1>0. \A j \in F : j \in 1 .. n
  OBVIOUS
<1>1. IsFiniteSet(F) /\ Cardinality(F) \in Nat
  <2>0. F \in SUBSET (1 .. n)
    OBVIOUS
  <2>1. IsFiniteSet(1 .. n)
    BY FS_Interval
  <2>2. IsFiniteSet(F)
    BY <2>0, <2>1, FS_Subset
  <2>3. QED
    BY <2>2, FS_CardinalityType
<1>2. ASSUME NEW i
      PROVE  IsFiniteSet(Below(F, i)) /\ Rank(F, i) \in Nat /\ Rank(F, i) =< Cardinality(F)
  <2>1. Below(F, i) \in SUBSET F
    BY DEF Below
  <2>2. IsFiniteSet(Below(F, i)) /\ Cardinality(Below(F, i)) =< Cardinality(F)
    BY <1>1, <2>1, FS_Subset
  <2>3. QED
    BY <2>2, FS_CardinalityType DEF Rank
<1>3. ASSUME NEW i \in F, NEW k, k > i, k \in Nat
      PROVE  Rank(F, i) < Rank(F, k)
  <2>1. /\ i \notin Below(F, i)
        /\ Below(F, i) \cup {i} \in SUBSET Below(F, k)
    BY <1>0, <1>3 DEF Below
  <2>2. /\ IsFiniteSet(Below(F, i) \cup {i})
        /\ Cardinality(Below(F, i) \cup {i}) = Cardinality(Below(F, i)) + 1
    BY <1>2, <2>1, FS_AddElement
  <2>3. Cardinality(Below(F, i) \cup {i}) =< Cardinality(Below(F, k))
    BY <1>2, <2>1, FS_Subset
  <2>4. QED
    BY <1>2, <2>2, <2>3 DEF Rank
<1>4. \A i \in F : Rank(F, i) \in 0 .. Cardinality(F) - 1
  <2>1. TAKE i \in F
  <2>2. n + 1 > i /\ n + 1 \in Nat
    OBVIOUS
  <2>3. Rank(F, i) < Rank(F, n + 1)
    BY <1>3, <2>2
  <2>4. QED
    BY <1>1, <1>2, <2>3
<1>5. \A i, k \in F : Rank(F, i) = Rank(F, k) => i = k
  <2>1. TAKE i, k \in F
  <2>2. i \in Nat /\ k \in Nat
    OBVIOUS
  <2>3. i = k \/ k > i \/ i > k
    BY <2>2
  <2>4. QED
    BY <1>2, <1>3, <2>2, <2>3
<1>6. \A m \in 0 .. Cardinality(F) - 1 : \E i \in F : Rank(F, i) = m
  <2>. DEFINE G == {l \in 0 .. n : \A m \in 0 .. Rank(F, l + 1) - 1 : \E i \in F : Rank(F, i) = m}
  <2>1. 0 \in G
    <3>1. Below(F, 0 + 1) = {}
      BY <1>0 DEF Below
    <3>2. Rank(F, 0 + 1) = 0
      BY <3>1, FS_EmptySet DEF Rank
    <3>3. QED
      BY <3>2
  <2>2. ASSUME NEW l \in 1 .. n, l - 1 \in G PROVE l \in G
    <3>0. (l - 1) + 1 = l
      OBVIOUS
    <3>1. \A m \in 0 .. Rank(F, l) - 1 : \E i \in F : Rank(F, i) = m
      BY <2>2, <3>0
    <3>2. CASE l \in F
      <4>1. Below(F, l + 1) = Below(F, l) \cup {l} /\ l \notin Below(F, l)
        <5>1. (\A j \in F : j < l + 1 <=> j < l \/ j = l) /\ ~ (l < l)
          BY <1>0
        <5>2. QED
          BY <3>2, <5>1, Zenon DEF Below
      <4>2. Rank(F, l + 1) = Rank(F, l) + 1
        BY <1>2, <4>1, FS_AddElement DEF Rank
      <4>3. \A m \in 0 .. Rank(F, l + 1) - 1 : m = Rank(F, l) \/ m \in 0 .. Rank(F, l) - 1
        BY <1>2, <4>2
      <4>4. QED
        BY <3>1, <3>2, <4>3
    <3>3. CASE l \notin F
      <4>1. Below(F, l + 1) = Below(F, l)
        BY <1>0, <3>3 DEF Below
      <4>2. Rank(F, l + 1) = Rank(F, l)
        BY <4>1 DEF Rank
      <4>3. QED
        BY <3>1, <4>2
    <3>4. QED
      BY <3>2, <3>3
  <2>. HIDE DEF G
  <2>3. n \in G
    <3>1. \A l \in 0 .. n : l \in G
      BY <2>1, <2>2, InductionToN
    <3>2. QED
      BY <3>1
  <2>4. Below(F, n + 1) = F
    BY <1>0 DEF Below
  <2>5. Rank(F, n + 1) = Cardinality(F)
    BY <2>4 DEF Rank
  <2>6. QED
    BY <2>3, <2>5 DEF G
<1>7. QED
  BY <1>1, <1>4, <1>5, <1>6

Firsts(r) == {i \in DOMAIN r : \A j \in 1 .. i - 1 : r[j][1] # r[i][1]}
Same(r, key) == {i \in DOMAIN r : r[i][1] = key}

LEMMA MergeFacts ==
  ASSUME NEW S, NEW r \in Seq(S)
  PROVE  /\ Len(r) \in Nat /\ DOMAIN r = 1 .. Len(r)
         /\ Firsts(r) \in SUBSET (1 .. Len(r))
         /\ Cardinality(Firsts(r)) \in Nat
         /\ DOMAIN Merge(r) = 1 .. Cardinality(Firsts(r))
         /\ Merge(r) = [n \in 1 .. Cardinality(Firsts(r)) |-> Merge(r)[n]]
         /\ \A i \in Firsts(r) : /\ Rank(Firsts(r), i) + 1 \in 1 .. Cardinality(Firsts(r))
                                 /\ Merge(r)[Rank(Firsts(r), i) + 1] = r[Max(Same(r, r[i][1]))]
         /\ \A n \in 1 .. Cardinality(Firsts(r)) : \E i \in Firsts(r) : n = Rank(Firsts(r), i) + 1
<1>. DEFINE F == Firsts(r)
            c == Cardinality(F)
            Nth(n) == CHOOSE i \in F : Cardinality(Below(F, i)) = n - 1
            merged == [n \in 1 .. c |-> r[Max(Same(r, r[Nth(n)][1]))]]
<1>0. Len(r) \in Nat /\ DOMAIN r = 1 .. Len(r)
  OBVIOUS
<1>1. F \in SUBSET (1 .. Len(r))
  BY <1>0 DEF Firsts
<1>2. Merge(r) = merged
  BY DEF Merge, Firsts, Below, Same
<1>. HIDE DEF F
<1>3. /\ c \in Nat
      /\ \A i \in F : Rank(F, i) \in 0 .. c - 1
      /\ \A i, k \in F : Rank(F, i) = Rank(F, k) => i = k
      /\ \A m \in 0 .. c - 1 : \E i \in F : Rank(F, i) = m
  BY <1>0, <1>1, RankFacts
<1>4. ASSUME NEW i \in F PROVE Nth(Rank(F, i) + 1) = i
  <2>1. Rank(F, i) \in Nat
    BY <1>3
  <2>2. (Rank(F, i) + 1) - 1 = Rank(F, i)
    BY <2>1
  <2>3. \A k \in F : Cardinality(Below(F, k)) = (Rank(F, i) + 1) - 1 <=> k = i
    BY <1>3, <2>2 DEF Rank
  <2>4. QED
    BY <2>3
<1>. HIDE DEF Nth
<1>5. ASSUME NEW i \in F
      PROVE  Rank(F, i) + 1 \in 1 .. c /\ merged[Rank(F, i) + 1] = r[Max(Same(r, r[i][1]))]
  <2>1. Rank(F, i) + 1 \in 1 .. c
    BY <1>3
  <2>2. QED
    BY <1>4, <2>1
<1>6. ASSUME NEW n \in 1 .. c PROVE \E i \in F : n = Rank(F, i) + 1
  <2>1. n - 1 \in 0 .. c - 1
    BY <1>3
  <2>2. PICK i \in F : Rank(F, i) = n - 1
    BY <1>3, <2>1
  <2>3. QED
    BY <1>3, <2>2
<1>7. DOMAIN merged = 1 .. c /\ merged = [n \in 1 .. c |-> merged[n]]
  OBVIOUS
<1>. HIDE DEF c, merged
<1>8. QED
  BY <1>0, <1>1, <1>2, <1>3, <1>5, <1>6, <1>7 DEF c, F

\* Every name occurs first somewhere, and last.
LEMMA NameFacts ==
  ASSUME NEW S, NEW r \in Seq(S), NEW k \in DOMAIN r
  PROVE  /\ \E i \in Firsts(r) : i =< k /\ r[i][1] = r[k][1]
         /\ Max(Same(r, r[k][1])) \in Same(r, r[k][1])
         /\ \A i \in Same(r, r[k][1]) : i =< Max(Same(r, r[k][1]))
<1>0. Len(r) \in Nat /\ DOMAIN r = 1 .. Len(r)
  OBVIOUS
<1>1. Same(r, r[k][1]) \subseteq Nat /\ k \in Same(r, r[k][1])
  BY <1>0 DEF Same
<1>2. PICK i \in Same(r, r[k][1]) : \A j \in Same(r, r[k][1]) : i =< j
  BY <1>1, LeastNumber
<1>3. i \in 1 .. Len(r) /\ r[i][1] = r[k][1] /\ i =< k
  BY <1>0, <1>1, <1>2 DEF Same
<1>4. ASSUME NEW j \in 1 .. i - 1, r[j][1] = r[i][1] PROVE FALSE
  <2>1. j \in Same(r, r[k][1]) /\ j < i
    BY <1>0, <1>3, <1>4 DEF Same
  <2>2. QED
    BY <1>2, <1>3, <2>1
<1>5. i \in Firsts(r)
  BY <1>0, <1>3, <1>4 DEF Firsts
<1>6. Same(r, r[k][1]) \in SUBSET (1 .. Len(r)) /\ Same(r, r[k][1]) # {}
  BY <1>0, <1>1 DEF Same
<1>7. /\ Max(Same(r, r[k][1])) \in Same(r, r[k][1])
      /\ \A j \in Same(r, r[k][1]) : j =< Max(Same(r, r[k][1]))
  BY <1>0, <1>6, MaxInSet
<1>8. QED
  BY <1>3, <1>5, <1>7

\* What merging returns: members of the list, each name once.
LEMMA MergeType ==
  ASSUME NEW S, NEW r \in Seq(S)
  PROVE  /\ Merge(r) \in Seq(S)
         /\ Len(Merge(r)) = Cardinality(Firsts(r))
         /\ \A i \in Firsts(r) : Merge(r)[Rank(Firsts(r), i) + 1][1] = r[i][1]
         /\ \A m, n \in DOMAIN Merge(r) : Merge(r)[m][1] = Merge(r)[n][1] => m = n
<1>. DEFINE F == Firsts(r)
            c == Cardinality(F)
<1>1. /\ Len(r) \in Nat /\ DOMAIN r = 1 .. Len(r) /\ F \in SUBSET (1 .. Len(r)) /\ c \in Nat
      /\ DOMAIN Merge(r) = 1 .. c /\ Merge(r) = [n \in 1 .. c |-> Merge(r)[n]]
      /\ \A i \in F : Merge(r)[Rank(F, i) + 1] = r[Max(Same(r, r[i][1]))]
      /\ \A n \in 1 .. c : \E i \in F : n = Rank(F, i) + 1
  BY MergeFacts
<1>. HIDE DEF c, F
<1>2. ASSUME NEW i \in F
      PROVE  Merge(r)[Rank(F, i) + 1] \in S /\ Merge(r)[Rank(F, i) + 1][1] = r[i][1]
  <2>1. i \in DOMAIN r
    BY <1>1
  <2>2. Max(Same(r, r[i][1])) \in Same(r, r[i][1])
    BY <2>1, NameFacts
  <2>3. Max(Same(r, r[i][1])) \in DOMAIN r /\ r[Max(Same(r, r[i][1]))][1] = r[i][1]
    BY <2>2 DEF Same
  <2>4. r[Max(Same(r, r[i][1]))] \in S
    BY <2>3
  <2>5. Merge(r)[Rank(F, i) + 1] = r[Max(Same(r, r[i][1]))]
    BY <1>1
  <2>6. QED
    BY <2>3, <2>4, <2>5
<1>3. \A n \in 1 .. c : Merge(r)[n] \in S
  BY <1>1, <1>2
<1>4. Merge(r) \in Seq(S) /\ Len(Merge(r)) = c
  <2>1. Merge(r) \in [1 .. c -> S]
    BY <1>1, <1>3
  <2>2. QED
    BY <1>1, <2>1
<1>5. ASSUME NEW m \in 1 .. c, NEW n \in 1 .. c, Merge(r)[m][1] = Merge(r)[n][1]
      PROVE  m = n
  <2>1. PICK i \in F : m = Rank(F, i) + 1
    BY <1>1
  <2>2. PICK k \in F : n = Rank(F, k) + 1
    BY <1>1
  <2>3. r[i][1] = r[k][1]
    BY <1>2, <1>5, <2>1, <2>2
  <2>4. i \in Nat /\ k \in Nat /\ i \in 1 .. Len(r) /\ k \in 1 .. Len(r)
    BY <1>1
  <2>5. ~ (i < k) /\ ~ (k < i)
    <3>1. /\ \A j \in 1 .. i - 1 : r[j][1] # r[i][1]
          /\ \A j \in 1 .. k - 1 : r[j][1] # r[k][1]
      BY DEF F, Firsts
    <3>2. QED
      BY <2>3, <2>4, <3>1
  <2>6. i = k
    BY <2>4, <2>5
  <2>7. QED
    BY <2>1, <2>2, <2>6
<1>6. QED
  BY <1>1, <1>2, <1>4, <1>5 DEF F, c

LEMMA MergeEmpty == Merge(<< >>) = << >>
<1>1. << >> \in Seq({})
  OBVIOUS
<1>2. Firsts(<< >>) = {}
  BY DEF Firsts
<1>3. Merge(<< >>) \in Seq({}) /\ Len(Merge(<< >>)) = 0
  BY <1>1, <1>2, MergeType, FS_EmptySet
<1>4. QED
  BY <1>3

\* Merging one more member is what Value::set does.
LEMMA MergeStep ==
  ASSUME NEW S, NEW r \in Seq(S), NEW m \in S, m = <<m[1], m[2]>>
  PROVE  Merge(Append(r, m)) = SetMember(Merge(r), m[1], m[2])
<1>. DEFINE q == Append(r, m)
            F == Firsts(r)
            c == Cardinality(F)
            N == Len(r)
            known == \E k \in 1 .. N : r[k][1] = m[1]
            same == {n \in DOMAIN Merge(r) : Merge(r)[n][1] = m[1]}
<1>0. /\ N \in Nat /\ DOMAIN r = 1 .. N
      /\ q \in Seq(S) /\ DOMAIN q = 1 .. N + 1 /\ q[N + 1] = m
      /\ \A i \in 1 .. N : q[i] = r[i]
  OBVIOUS
<1>. HIDE DEF q, N, c
<1>1. /\ \A i \in F : i \in 1 .. N
      /\ c \in Nat /\ IsFiniteSet(F)
      /\ DOMAIN Merge(r) = 1 .. c /\ Merge(r) = [n \in 1 .. c |-> Merge(r)[n]]
      /\ \A i \in F : /\ Rank(F, i) + 1 \in 1 .. c
                      /\ Merge(r)[Rank(F, i) + 1] = r[Max(Same(r, r[i][1]))]
      /\ \A n \in 1 .. c : \E i \in F : n = Rank(F, i) + 1
      /\ \A i \in F : Merge(r)[Rank(F, i) + 1][1] = r[i][1]
      /\ \A i, n \in DOMAIN Merge(r) : Merge(r)[i][1] = Merge(r)[n][1] => i = n
  <2>1. F \in SUBSET (1 .. N)
    BY <1>0, MergeFacts DEF N
  <2>2. IsFiniteSet(F)
    <3>1. \A i \in F : i \in 1 .. N
      BY <2>1
    <3>. HIDE DEF F
    <3>2. QED
      BY <1>0, <3>1, RankFacts
  <2>3. QED
    BY <2>1, <2>2, MergeFacts, MergeType, Zenon DEF c
<1>11. \A i \in F : Merge(r)[Rank(F, i) + 1] = r[Max(Same(r, r[i][1]))]
  BY <1>1, Zenon
<1>12. \A n \in 1 .. c : \E i \in F : n = Rank(F, i) + 1
  BY <1>1, Zenon
<1>13. \A i \in F : Merge(r)[Rank(F, i) + 1][1] = r[i][1]
  BY <1>1, Zenon
<1>14. \A i \in F : i \in 1 .. N
  BY <1>1, Zenon
<1>2. SetMember(Merge(r), m[1], m[2]) =
        IF same = {} THEN Append(Merge(r), m) ELSE [Merge(r) EXCEPT ![Min(same)] = m]
  BY DEF SetMember
<1>3. /\ \A i \in Firsts(q) : i \in 1 .. N + 1
      /\ DOMAIN Merge(q) = 1 .. Cardinality(Firsts(q))
      /\ Merge(q) = [n \in 1 .. Cardinality(Firsts(q)) |-> Merge(q)[n]]
      /\ \A i \in Firsts(q) : Merge(q)[Rank(Firsts(q), i) + 1] = q[Max(Same(q, q[i][1]))]
  <2>1. Len(q) = N + 1
    BY <1>0
  <2>2. Firsts(q) \in SUBSET (1 .. N + 1)
    BY <1>0, <2>1, MergeFacts
  <2>3. QED
    BY <1>0, <2>2, MergeFacts, Zenon
<1>4. Firsts(q) = F \cup (IF known THEN {} ELSE {N + 1})
  <2>1. ASSUME NEW i \in 1 .. N PROVE i \in Firsts(q) <=> i \in F
    <3>1. \A j \in 1 .. i - 1 : q[j] = r[j]
      BY <1>0
    <3>2. q[i] = r[i] /\ i \in DOMAIN q /\ i \in DOMAIN r
      BY <1>0
    <3>3. QED
      BY <3>1, <3>2 DEF Firsts
  <2>2. N + 1 \in Firsts(q) <=> ~ known
    <3>1. (N + 1) - 1 = N /\ N + 1 \in DOMAIN q
      BY <1>0
    <3>2. QED
      BY <1>0, <3>1 DEF Firsts
  <2>3. \A i \in 1 .. N + 1 : i \in 1 .. N \/ i = N + 1
    BY <1>0
  <2>4. N + 1 \notin F
    BY <1>0, <1>1
  <2>. HIDE DEF F, known
  <2>5. QED
    BY <1>1, <1>3, <2>1, <2>2, <2>3, <2>4
<1>5. \A i \in F : Rank(Firsts(q), i) = Rank(F, i)
  <2>1. TAKE i \in F
  <2>2. ~ (N + 1 < i)
    BY <1>0, <1>1
  <2>. HIDE DEF F, known
  <2>3. Below(Firsts(q), i) = Below(F, i)
    BY <1>4, <2>2, Zenon DEF Below
  <2>4. QED
    BY <2>3 DEF Rank
<1>6. \A key : Same(q, key) = Same(r, key) \cup (IF m[1] = key THEN {N + 1} ELSE {})
  <2>1. TAKE key
  <2>2. \A i \in 1 .. N + 1 : i \in 1 .. N \/ i = N + 1
    BY <1>0
  <2>3. \A i \in 1 .. N : i \in 1 .. N + 1
    BY <1>0
  <2>4. N + 1 \in 1 .. N + 1 /\ N + 1 \notin 1 .. N
    BY <1>0
  <2>5. QED
    BY <1>0, <2>2, <2>3, <2>4 DEF Same
<1>7. ASSUME NEW i \in F, r[i][1] # m[1]
      PROVE  Merge(q)[Rank(F, i) + 1] = Merge(r)[Rank(F, i) + 1]
  <2>1. q[i] = r[i] /\ i \in Firsts(q)
    BY <1>0, <1>1, <1>4
  <2>2. Same(q, q[i][1]) = Same(r, r[i][1])
    BY <1>6, <1>7, <2>1
  <2>3. Max(Same(r, r[i][1])) \in 1 .. N
    <3>1. i \in DOMAIN r
      BY <1>0, <1>1
    <3>2. QED
      BY <1>0, <3>1, NameFacts DEF Same
  <2>4. Merge(q)[Rank(F, i) + 1] = q[Max(Same(r, r[i][1]))]
    BY <1>3, <1>5, <2>1, <2>2
  <2>5. q[Max(Same(r, r[i][1]))] = r[Max(Same(r, r[i][1]))]
    BY <1>0, <2>3
  <2>6. QED
    BY <1>11, <2>4, <2>5
<1>8. ASSUME NEW i \in Firsts(q), q[i][1] = m[1]
      PROVE  Merge(q)[Rank(Firsts(q), i) + 1] = m
  <2>1. N + 1 \in Same(q, m[1])
    BY <1>6
  <2>2. \A k \in Same(q, m[1]) : k =< N + 1 /\ k \in Nat
    BY <1>0 DEF Same
  <2>3. Max(Same(q, m[1])) = N + 1
    <3>1. Same(q, m[1]) \subseteq Nat
      BY <2>2
    <3>2. QED
      BY <2>1, <2>2, <3>1, GreatestIsMax
  <2>4. Merge(q)[Rank(Firsts(q), i) + 1] = q[Max(Same(q, q[i][1]))]
    BY <1>3, Zenon
  <2>5. QED
    BY <1>0, <1>8, <2>3, <2>4
<1>9. CASE known
  <2>1. PICK k \in 1 .. N : r[k][1] = m[1]
    BY <1>9
  <2>2. PICK i \in F : r[i][1] = m[1]
    <3>1. k \in DOMAIN r
      BY <1>0
    <3>2. \E i \in Firsts(r) : i =< k /\ r[i][1] = r[k][1]
      BY <3>1, NameFacts
    <3>3. QED
      BY <2>1, <3>2
  <2>. DEFINE n == Rank(F, i) + 1
  <2>3. n \in 1 .. c /\ Merge(r)[n][1] = m[1]
    BY <1>1, <2>2
  <2>4. same = {n}
    BY <1>1, <2>3
  <2>5. Min(same) = n
    <3>1. n \in Nat
      BY <1>1, <2>3
    <3>. HIDE DEF n
    <3>2. same \subseteq Nat /\ n \in same /\ \A l \in same : n =< l
      BY <2>4, <3>1
    <3>3. QED
      BY <3>2, LeastIsMin
  <2>6. Firsts(q) = F
    BY <1>4, <1>9
  <2>7. Merge(q)[n] = m
    BY <1>0, <1>1, <1>8, <2>2, <2>6
  <2>8. ASSUME NEW l \in 1 .. c, l # n PROVE Merge(q)[l] = Merge(r)[l]
    <3>1. PICK j \in F : l = Rank(F, j) + 1
      BY <1>1
    <3>2. r[j][1] # m[1]
      <4>1. \A i1, i2 \in 1 .. c : Merge(r)[i1][1] = Merge(r)[i2][1] => i1 = i2
        BY <1>1
      <4>2. Merge(r)[l][1] = r[j][1]
        BY <1>13, <3>1
      <4>. HIDE DEF n, F
      <4>3. QED
        BY <2>3, <2>8, <4>1, <4>2
    <3>3. QED
      BY <1>7, <3>1, <3>2
  <2>9. SetMember(Merge(r), m[1], m[2]) = [Merge(r) EXCEPT ![n] = m]
    BY <1>2, <2>4, <2>5
  <2>. HIDE DEF n, F, same, known
  <2>10. Merge(q) = [l \in 1 .. c |-> IF l = n THEN m ELSE Merge(r)[l]]
    BY <1>3, <2>6, <2>7, <2>8 DEF c
  <2>11. [Merge(r) EXCEPT ![n] = m] = [l \in 1 .. c |-> IF l = n THEN m ELSE Merge(r)[l]]
    BY <1>1, <2>3
  <2>12. QED
    BY <2>9, <2>10, <2>11 DEF q
<1>10. CASE ~ known
  <2>1. ASSUME NEW i \in F PROVE r[i][1] # m[1]
    BY <1>1, <1>10
  <2>2. same = {}
    <3>1. ASSUME NEW n \in 1 .. c, Merge(r)[n][1] = m[1] PROVE FALSE
      <4>1. PICK i \in F : n = Rank(F, i) + 1
        BY <1>1
      <4>2. QED
        BY <1>1, <2>1, <3>1, <4>1
    <3>2. QED
      BY <1>1, <3>1
  <2>3. Firsts(q) = F \cup {N + 1} /\ N + 1 \notin F
    BY <1>0, <1>1, <1>4, <1>10
  <2>4. Cardinality(Firsts(q)) = c + 1
    <3>1. IsFiniteSet(F)
      BY <1>1
    <3>. HIDE DEF F
    <3>2. QED
      BY <2>3, <3>1, FS_AddElement DEF c
  <2>5. Rank(Firsts(q), N + 1) = c
    <3>1. \A i \in F : i < N + 1
      BY <1>0, <1>1
    <3>2. ~ (N + 1 < N + 1)
      BY <1>0
    <3>. HIDE DEF F, known
    <3>3. Below(Firsts(q), N + 1) = F
      BY <2>3, <3>1, <3>2, Zenon DEF Below
    <3>4. QED
      BY <3>3 DEF Rank, c
  <2>6. Merge(q)[c + 1] = m
    BY <1>0, <1>8, <2>3, <2>5
  <2>7. \A n \in 1 .. c : Merge(q)[n] = Merge(r)[n]
    BY <1>7, <1>12, <2>1
  <2>8. Append(Merge(r), m) = [n \in 1 .. c + 1 |-> IF n = c + 1 THEN m ELSE Merge(r)[n]]
    <3>1. Merge(r) \in Seq(S) /\ Len(Merge(r)) = c
      BY MergeType DEF c
    <3>. DEFINE a == Append(Merge(r), m)
    <3>2. /\ a \in Seq(S) /\ Len(a) = c + 1 /\ a[c + 1] = m
          /\ \A n \in 1 .. c : a[n] = Merge(r)[n]
      BY <3>1
    <3>. HIDE DEF a
    <3>3. a = [n \in 1 .. c + 1 |-> a[n]]
      BY <3>2
    <3>4. \A n \in 1 .. c + 1 : a[n] = IF n = c + 1 THEN m ELSE Merge(r)[n]
      BY <1>1, <3>2
    <3>5. QED
      BY <3>3, <3>4 DEF a
  <2>. HIDE DEF F, same, known, c
  <2>9. Merge(q) = [n \in 1 .. c + 1 |-> IF n = c + 1 THEN m ELSE Merge(r)[n]]
    <3>1. \A n \in 1 .. c + 1 : n = c + 1 \/ n \in 1 .. c
      BY <1>1
    <3>2. QED
      BY <1>3, <2>4, <2>6, <2>7, <3>1
  <2>10. QED
    BY <1>2, <2>2, <2>8, <2>9 DEF q
<1>15. QED
  BY <1>9, <1>10

LEMMA MergeDistinct ==
  ASSUME NEW S, NEW r \in Seq(S), \A i, j \in DOMAIN r : r[i][1] = r[j][1] => i = j
  PROVE  Merge(r) = r
<1>0. Len(r) \in Nat /\ DOMAIN r = 1 .. Len(r)
  OBVIOUS
<1>1. Firsts(r) = 1 .. Len(r)
  <2>1. ASSUME NEW i \in 1 .. Len(r), NEW j \in 1 .. i - 1 PROVE r[j][1] # r[i][1]
    <3>1. j \in 1 .. Len(r) /\ j # i
      BY <1>0
    <3>2. QED
      BY <1>0, <3>1
  <2>2. QED
    BY <1>0, <2>1 DEF Firsts
<1>2. ASSUME NEW i \in 1 .. Len(r) PROVE Rank(Firsts(r), i) + 1 = i
  <2>1. Below(1 .. Len(r), i) = 1 .. i - 1
    BY <1>0 DEF Below
  <2>2. Cardinality(1 .. i - 1) = i - 1
    BY <1>0, FS_Interval
  <2>3. QED
    BY <1>0, <1>1, <2>1, <2>2 DEF Rank
<1>3. ASSUME NEW i \in 1 .. Len(r) PROVE Merge(r)[i] = r[i]
  <2>1. Same(r, r[i][1]) = {i}
    BY <1>0 DEF Same
  <2>2. Max({i}) = i
    <3>1. {i} \subseteq Nat /\ \A j \in {i} : j =< i
      BY <1>0
    <3>2. QED
      BY <3>1, GreatestIsMax
  <2>3. \A k \in Firsts(r) : Merge(r)[Rank(Firsts(r), k) + 1] = r[Max(Same(r, r[k][1]))]
    BY MergeFacts
  <2>4. QED
    BY <1>1, <1>2, <2>1, <2>2, <2>3
<1>4. Cardinality(Firsts(r)) = Len(r)
  BY <1>0, <1>1, FS_Interval
<1>5. Merge(r) = [n \in 1 .. Len(r) |-> Merge(r)[n]]
  BY <1>4, MergeFacts
<1>6. r = [n \in 1 .. Len(r) |-> r[n]]
  BY <1>0
<1>7. QED
  BY <1>3, <1>5, <1>6

-----------------------------------------------------------------------------
(* The loops. *)

\* What a loop has made of the items of a list.
Built(kind, raw) == IF kind = "array" THEN raw ELSE Merge(raw)

\* Where a loop stands behind a list.
After(s, kind, to, raw) ==
  LET behind == SkipWhitespace(s, to + 1)
  IN  CASE Sym(s, behind) = "valueSeparator" -> Going(Built(kind, raw), behind + 1)
        [] Sym(s, behind) = End(kind)        -> Parsed(Container(kind, Built(kind, raw)), behind + 1)
        [] OTHER                             -> Failed

ItemValues(items) == {item.value : item \in items}

LEMMA BuiltEmpty == \A kind : Built(kind, << >>) = << >>
BY MergeEmpty DEF Built

LEMMA BuiltStep ==
  ASSUME NEW s, NEW spans, NEW kind \in {"array", "object"},
         NEW raw \in Seq(ItemValues(Items(s, kind, spans))), NEW item \in Items(s, kind, spans)
  PROVE  Built(kind, Append(raw, item.value)) = Add(kind, Built(kind, raw), item.value)
<1>1. CASE kind = "array"
  BY <1>1 DEF Built, Add
<1>2. CASE kind = "object"
  <2>1. PICK p \in spans, i \in DOMAIN s : item = Span(i, p.to, <<s[i], p.value>>)
    BY <1>2, ItemsOfObject
  <2>2. item.value = <<s[i], p.value>>
    BY <2>1, Records
  <2>3. item.value = <<item.value[1], item.value[2]>>
    BY <2>2
  <2>4. item.value \in ItemValues(Items(s, kind, spans))
    BY DEF ItemValues
  <2>5. Merge(Append(raw, item.value)) = SetMember(Merge(raw), item.value[1], item.value[2])
    BY <2>3, <2>4, MergeStep
  <2>6. QED
    BY <1>2, <2>5 DEF Built, Add
<1>3. QED
  BY <1>1, <1>2

\* One turn, with the items so far and the next one, if there is one.
LEMMA TurnTakes ==
  ASSUME NEW s \in Text, NEW values, NEW spans, Agrees(s, values, spans),
         NEW kind \in {"array", "object"},
         NEW raw \in Seq(ItemValues(Items(s, kind, spans))), NEW at \in 1 .. Len(s) + 1
  PROVE  /\ \A item \in Items(s, kind, spans) :
              item.from = SkipWhitespace(s, at) =>
                Turn(s, values, kind, Going(Built(kind, raw), at)) =
                  After(s, kind, item.to, Append(raw, item.value))
         /\ (\A item \in Items(s, kind, spans) : item.from # SkipWhitespace(s, at)) =>
              Turn(s, values, kind, Going(Built(kind, raw), at)) = Failed
<1>. DEFINE from == SkipWhitespace(s, at)
            found == ParseItem(s, values, kind, from)
            now == Turn(s, values, kind, Going(Built(kind, raw), at))
            next == Add(kind, Built(kind, raw), found.value)
            behind == SkipWhitespace(s, found.at)
            items == Items(s, kind, spans)
<1>1. from \in 1 .. Len(s) + 1
  <2>1. Len(s) \in Nat /\ from \in at .. Len(s) + 1
    BY SymFacts, SkipFacts
  <2>. HIDE DEF from
  <2>2. QED
    BY <2>1
<1>2. now = IF found.is = "failed" THEN Failed
            ELSE CASE Sym(s, behind) = "valueSeparator" -> Going(next, behind + 1)
                   [] Sym(s, behind) = End(kind)        -> Parsed(Container(kind, next), behind + 1)
                   [] OTHER                             -> Failed
  BY DEF Turn, Going
<1>3. Agrees(s, ItemTable(s, values, kind), items)
  BY ItemsAgree
<1>4. ItemTable(s, values, kind)[from] = found
  <2>. HIDE DEF from
  <2>1. QED
    BY <1>1 DEF ItemTable
<1>. HIDE DEF from, found, now, items
<1>5. ASSUME NEW item \in items, item.from = from
      PROVE  now = After(s, kind, item.to, Append(raw, item.value))
  <2>1. found = Parsed(item.value, item.to + 1)
    BY <1>3, <1>4, <1>5 DEF Agrees
  <2>2. found.is = "parsed" /\ found.value = item.value /\ found.at = item.to + 1
    BY <2>1, Records
  <2>3. next = Built(kind, Append(raw, item.value))
    BY <2>2, BuiltStep DEF items
  <2>4. QED
    BY <1>2, <2>2, <2>3 DEF After
<1>6. ASSUME \A item \in items : item.from # from PROVE now = Failed
  <2>1. found = Failed
    BY <1>1, <1>3, <1>4, <1>6 DEF Agrees
  <2>2. QED
    BY <1>2, <2>1, Records
<1>7. QED
  BY <1>5, <1>6 DEF now, items, from

LEMMA AfterFacts ==
  ASSUME NEW s, NEW kind \in {"array", "object"}, NEW to, NEW raw
  PROVE  LET behind == SkipWhitespace(s, to + 1)
         IN  /\ Sym(s, behind) = "valueSeparator" =>
                  After(s, kind, to, raw) = Going(Built(kind, raw), behind + 1)
             /\ Sym(s, behind) = End(kind) =>
                  After(s, kind, to, raw) = Parsed(Container(kind, Built(kind, raw)), behind + 1)
             /\ Sym(s, behind) \notin {"valueSeparator", End(kind)} => After(s, kind, to, raw) = Failed
             /\ After(s, kind, to, raw).is = "going" => Sym(s, behind) = "valueSeparator"
             /\ After(s, kind, to, raw).is = "parsed" => Sym(s, behind) = End(kind)
<1>. DEFINE behind == SkipWhitespace(s, to + 1)
<1>1. End(kind) # "valueSeparator"
  BY DEF End
<1>. HIDE DEF behind
<1>2. /\ Sym(s, behind) = "valueSeparator" =>
           After(s, kind, to, raw) = Going(Built(kind, raw), behind + 1)
      /\ Sym(s, behind) = End(kind) =>
           After(s, kind, to, raw) = Parsed(Container(kind, Built(kind, raw)), behind + 1)
      /\ Sym(s, behind) \notin {"valueSeparator", End(kind)} => After(s, kind, to, raw) = Failed
  BY <1>1 DEF After, behind
<1>3. QED
  BY <1>1, <1>2, Records DEF behind

\* A list that begins where the loop does is what its turns have parsed.
LEMMA ListsParsed ==
  ASSUME NEW s \in Text, NEW values, NEW spans, Agrees(s, values, spans),
         NEW kind \in {"array", "object"},
         NEW inside \in 1 .. Len(s) + 1, Sym(s, inside) # "ws"
  PROVE  \A n \in 1 .. Len(s) : \A l \in Lists(s, Items(s, kind, spans))[n] :
           l.from = inside =>
             Turns(s, values, kind, inside)[n] = After(s, kind, l.to, l.value)
<1>. DEFINE items == Items(s, kind, spans)
            loop == Turns(s, values, kind, inside)
            G == {n \in 0 .. Len(s) :
                    n # 0 => \A l \in Lists(s, items)[n] :
                               l.from = inside => loop[n] = After(s, kind, l.to, l.value)}
<1>0. /\ Len(s) \in Nat
      /\ loop[0] = Going(<< >>, inside)
      /\ \A n \in 1 .. Len(s) : loop[n] = Turn(s, values, kind, loop[n - 1])
  BY SymFacts, TurnsFacts
<1>. HIDE DEF loop
<1>1. Typed(s, items)
  BY ItemsAgree DEF Agrees
<1>2. SkipWhitespace(s, inside) = inside
  <2>1. inside \in inside .. Len(s) + 1 /\ Blank(s, inside, inside - 1)
    BY <1>0 DEF Blank
  <2>2. QED
    BY <2>1, SkipTo
<1>3. ASSUME NEW n \in 1 .. Len(s), n - 1 \in G, NEW l \in Lists(s, items)[n], l.from = inside
      PROVE  loop[n] = After(s, kind, l.to, l.value)
  <2>1. CASE n = 1
    <3>1. PICK item \in items : l = Span(item.from, item.to, <<item.value>>)
      BY <1>0, <2>1, ListsFacts
    <3>2. item.from = inside /\ l.to = item.to /\ l.value = <<item.value>>
      BY <1>3, <3>1, Records
    <3>. DEFINE none == << >>
    <3>3. none \in Seq(ItemValues(items)) /\ Append(none, item.value) = <<item.value>>
      OBVIOUS
    <3>4. loop[1] = Turn(s, values, kind, Going(Built(kind, none), inside))
      <4>1. 1 \in 1 .. Len(s) /\ 1 - 1 = 0
        BY <1>0, <2>1
      <4>2. QED
        BY <1>0, <4>1, BuiltEmpty
    <3>. HIDE DEF items, none
    <3>5. Turn(s, values, kind, Going(Built(kind, none), inside)) =
            After(s, kind, item.to, Append(none, item.value))
      <4>1. none \in Seq(ItemValues(Items(s, kind, spans)))
        BY <3>3 DEF items
      <4>2. item \in Items(s, kind, spans) /\ item.from = SkipWhitespace(s, inside)
        BY <1>2, <3>2 DEF items
      <4>3. QED
        BY <4>1, <4>2, TurnTakes
    <3>6. QED
      BY <2>1, <3>2, <3>3, <3>4, <3>5
  <2>2. CASE n # 1
    <3>0. n \in 2 .. Len(s) /\ n - 1 \in 1 .. Len(s)
      BY <1>0, <2>2
    <3>1. PICK list \in Lists(s, items)[n - 1], item \in items :
            /\ Separates(s, "valueSeparator", list.to, item.from)
            /\ l = Span(list.from, item.to, Append(list.value, item.value))
      BY <3>0, ListsFacts
    <3>2. l.from = list.from /\ l.to = item.to /\ l.value = Append(list.value, item.value)
      BY <3>1 DEF Span
    <3>. DEFINE behind == SkipWhitespace(s, list.to + 1)
    <3>3. /\ list.from \in 1 .. Len(s) /\ list.to \in list.from + (n - 1) - 1 .. Len(s)
          /\ list.value \in Seq(ItemValues(items))
      BY <1>1, <3>0, ListsTyped DEF ItemValues
    <3>4. item.from \in 1 .. Len(s) /\ s[item.from] # "ws"
      BY <1>1 DEF Typed
    <3>5. list.to \in 1 .. Len(s) /\ item.from \in list.to + 1 .. Len(s)
      <4>1. list.to \in 1 .. Len(s)
        BY <1>0, <3>0, <3>3
      <4>2. \E i \in list.to + 1 .. item.from - 1 : TRUE
        BY <3>1 DEF Separates
      <4>3. QED
        BY <1>0, <3>4, <4>1, <4>2
    <3>6. /\ behind \in list.to + 1 .. item.from - 1
          /\ Sym(s, behind) = "valueSeparator" /\ SkipWhitespace(s, behind + 1) = item.from
      <4>1. "valueSeparator" \notin {"ws", "end"}
        OBVIOUS
      <4>2. QED
        BY <3>1, <3>4, <3>5, <4>1, Separation
    <3>. HIDE DEF items
    <3>7. loop[n - 1] = After(s, kind, list.to, list.value)
      BY <1>3, <3>0, <3>2
    <3>8. loop[n - 1] = Going(Built(kind, list.value), behind + 1)
      BY <3>6, <3>7, AfterFacts
    <3>9. behind + 1 \in 1 .. Len(s) + 1
      <4>. HIDE DEF behind
      <4>1. QED
        BY <1>0, <3>4, <3>5, <3>6
    <3>10. Turn(s, values, kind, Going(Built(kind, list.value), behind + 1)) =
             After(s, kind, item.to, Append(list.value, item.value))
      BY <3>3, <3>6, <3>9, TurnTakes DEF items
    <3>11. loop[n] = Turn(s, values, kind, loop[n - 1])
      BY <1>0
    <3>12. QED
      BY <3>2, <3>8, <3>10, <3>11
  <2>3. QED
    BY <2>1, <2>2
<1>4. \A n \in 0 .. Len(s) : n \in G
  <2>1. 0 \in G
    BY <1>0
  <2>2. \A n \in 1 .. Len(s) : n - 1 \in G => n \in G
    BY <1>0, <1>3
  <2>. HIDE DEF G
  <2>3. QED
    BY <1>0, <2>1, <2>2, InductionToN
<1>5. ASSUME NEW n \in 1 .. Len(s), NEW l \in Lists(s, items)[n], l.from = inside
      PROVE  loop[n] = After(s, kind, l.to, l.value)
  <2>1. n \in G /\ n # 0
    <3>. HIDE DEF G
    <3>1. QED
      BY <1>0, <1>4
  <2>2. QED
    BY <1>5, <2>1
<1>6. QED
  BY <1>5 DEF loop

\* What turns have parsed is a list; one that goes on has an item of each turn.
LEMMA TurnsListed ==
  ASSUME NEW s \in Text, NEW values, NEW spans, Agrees(s, values, spans),
         NEW kind \in {"array", "object"},
         NEW inside \in 1 .. Len(s) + 1, Sym(s, inside) # "ws"
  PROVE  \A n \in 1 .. Len(s) :
           \/ Turns(s, values, kind, inside)[n] = Failed
           \/ \E m \in 1 .. n : \E l \in Lists(s, Items(s, kind, spans))[m] :
                /\ l.from = inside
                /\ Turns(s, values, kind, inside)[n] = After(s, kind, l.to, l.value)
                /\ After(s, kind, l.to, l.value).is = "going" => m = n
<1>. DEFINE items == Items(s, kind, spans)
            loop == Turns(s, values, kind, inside)
            Listed(n) == \E m \in 1 .. n : \E l \in Lists(s, items)[m] :
                           /\ l.from = inside
                           /\ loop[n] = After(s, kind, l.to, l.value)
                           /\ After(s, kind, l.to, l.value).is = "going" => m = n
            G == {n \in 0 .. Len(s) : n # 0 => loop[n] = Failed \/ Listed(n)}
<1>0. /\ Len(s) \in Nat
      /\ loop[0] = Going(<< >>, inside)
      /\ \A n \in 1 .. Len(s) : loop[n] = Turn(s, values, kind, loop[n - 1])
  BY SymFacts, TurnsFacts
<1>. HIDE DEF loop
<1>1. Typed(s, items)
  BY ItemsAgree DEF Agrees
<1>2. SkipWhitespace(s, inside) = inside
  <2>1. inside \in inside .. Len(s) + 1 /\ Blank(s, inside, inside - 1)
    BY <1>0 DEF Blank
  <2>2. QED
    BY <2>1, SkipTo
<1>3. ASSUME NEW n \in 1 .. Len(s), n - 1 \in G, loop[n] # Failed
      PROVE  Listed(n)
  <2>0. loop[n] = Turn(s, values, kind, loop[n - 1])
    BY <1>0
  <2>1. CASE n = 1
    <3>. DEFINE none == << >>
    <3>1. none \in Seq(ItemValues(items)) /\ \A x : Append(none, x) = <<x>>
      OBVIOUS
    <3>2. loop[1] = Turn(s, values, kind, Going(Built(kind, none), inside))
      BY <1>0, <2>0, <2>1, BuiltEmpty
    <3>. HIDE DEF none
    <3>3. none \in Seq(ItemValues(Items(s, kind, spans)))
      BY <3>1
    <3>. HIDE DEF items
    <3>4. PICK item \in items : item.from = inside
      BY <1>2, <1>3, <2>1, <3>2, <3>3, TurnTakes DEF items
    <3>5. loop[1] = After(s, kind, item.to, Append(none, item.value))
      BY <1>2, <3>2, <3>3, <3>4, TurnTakes DEF items
    <3>6. Append(none, item.value) = <<item.value>>
      BY <3>1
    <3>. DEFINE l == Span(item.from, item.to, <<item.value>>)
    <3>7. l \in Lists(s, items)[1]
      BY <1>0, <2>1, ListsFacts
    <3>8. l.from = inside /\ l.to = item.to /\ l.value = <<item.value>>
      BY <3>4, Records
    <3>. HIDE DEF l
    <3>9. loop[1] = After(s, kind, l.to, l.value)
      BY <3>5, <3>6, <3>8
    <3>10. QED
      BY <2>1, <3>7, <3>8, <3>9
  <2>2. CASE n # 1
    <3>0. n \in 2 .. Len(s) /\ n - 1 \in 1 .. Len(s) /\ n - 1 # 0
      BY <1>0, <2>2
    <3>1. loop[n - 1] # Failed
      <4>1. Turn(s, values, kind, Failed) = Failed
        BY Records DEF Turn
      <4>2. QED
        BY <1>3, <2>0, <4>1
    <3>2. PICK m \in 1 .. n - 1 : \E l \in Lists(s, items)[m] :
                           /\ l.from = inside
                           /\ loop[n - 1] = After(s, kind, l.to, l.value)
                           /\ After(s, kind, l.to, l.value).is = "going" => m = n - 1
      BY <1>3, <3>0, <3>1
    <3>3. PICK l \in Lists(s, items)[m] :
                           /\ l.from = inside
                           /\ loop[n - 1] = After(s, kind, l.to, l.value)
                           /\ After(s, kind, l.to, l.value).is = "going" => m = n - 1
      BY <3>2
    <3>4. CASE After(s, kind, l.to, l.value).is # "going"
      <4>1. loop[n] = loop[n - 1]
        BY <2>0, <3>3, <3>4 DEF Turn
      <4>2. m \in 1 .. n
        BY <3>0
      <4>3. loop[n] = After(s, kind, l.to, l.value)
        BY <3>3, <4>1
      <4>4. QED
        BY <3>3, <3>4, <4>2, <4>3
    <3>5. CASE After(s, kind, l.to, l.value).is = "going"
      <4>. DEFINE behind == SkipWhitespace(s, l.to + 1)
                  next == SkipWhitespace(s, behind + 1)
      <4>1. l \in Lists(s, items)[n - 1]
        BY <3>3, <3>5
      <4>2. l.from \in 1 .. Len(s) /\ l.to \in l.from + (n - 1) - 1 .. Len(s)
            /\ l.value \in Seq(ItemValues(items))
        BY <1>1, <3>0, <4>1, ListsTyped DEF ItemValues
      <4>3. l.to \in 1 .. Len(s)
        BY <1>0, <3>0, <4>2
      <4>4. Sym(s, behind) = "valueSeparator"
        BY <3>5, AfterFacts
      <4>5. loop[n - 1] = Going(Built(kind, l.value), behind + 1)
        BY <3>3, <4>4, AfterFacts
      <4>6. /\ behind \in l.to + 1 .. Len(s)
            /\ Separates(s, "valueSeparator", l.to, next)
        BY <4>3, <4>4, Separated
      <4>7. behind + 1 \in 1 .. Len(s) + 1
        <5>. HIDE DEF behind
        <5>1. QED
          BY <1>0, <4>3, <4>6
      <4>8. l.value \in Seq(ItemValues(Items(s, kind, spans)))
        BY <4>2
      <4>. HIDE DEF items
      <4>9. PICK item \in items : item.from = next
        BY <1>3, <2>0, <4>5, <4>7, <4>8, TurnTakes DEF items
      <4>10. loop[n] = After(s, kind, item.to, Append(l.value, item.value))
        BY <2>0, <4>5, <4>7, <4>8, <4>9, TurnTakes DEF items
      <4>. DEFINE more == Span(l.from, item.to, Append(l.value, item.value))
      <4>11. more \in Lists(s, items)[n]
        BY <3>0, <4>1, <4>6, <4>9, ListsFacts
      <4>12. more.from = inside /\ more.to = item.to /\ more.value = Append(l.value, item.value)
        BY <3>3 DEF Span
      <4>. HIDE DEF more
      <4>13. loop[n] = After(s, kind, more.to, more.value)
        BY <4>10, <4>12
      <4>14. n \in 1 .. n
        BY <1>0
      <4>15. QED
        BY <4>11, <4>12, <4>13, <4>14
    <3>6. QED
      BY <3>4, <3>5
  <2>3. QED
    BY <2>1, <2>2
<1>. HIDE DEF Listed
<1>4. \A n \in 0 .. Len(s) : n \in G
  <2>1. 0 \in G
    BY <1>0
  <2>2. \A n \in 1 .. Len(s) : n - 1 \in G => n \in G
    BY <1>0, <1>3
  <2>. HIDE DEF G
  <2>3. QED
    BY <1>0, <2>1, <2>2, InductionToN
<1>5. ASSUME NEW n \in 1 .. Len(s) PROVE loop[n] = Failed \/ Listed(n)
  <2>1. n \in G /\ n # 0
    <3>. HIDE DEF G
    <3>1. QED
      BY <1>0, <1>4
  <2>2. QED
    BY <2>1
<1>6. QED
  BY <1>5 DEF loop, Listed

\* After as many turns as there are symbols a loop has ended.
LEMMA LoopEnds ==
  ASSUME NEW s \in Text, NEW values, NEW spans, Agrees(s, values, spans),
         NEW kind \in {"array", "object"},
         NEW inside \in 2 .. Len(s) + 1, Sym(s, inside) # "ws"
  PROVE  LET end == Turns(s, values, kind, inside)[Len(s)]
             Behind(l) == SkipWhitespace(s, l.to + 1)
             Ends(l) == /\ l.from = inside /\ Sym(s, Behind(l)) = End(kind)
                        /\ end = Parsed(Container(kind, Built(kind, l.value)), Behind(l) + 1)
         IN  /\ end = Failed \/ \E n \in 1 .. Len(s) : \E l \in Lists(s, Items(s, kind, spans))[n] : Ends(l)
             /\ \A n \in 1 .. Len(s) : \A l \in Lists(s, Items(s, kind, spans))[n] :
                  l.from = inside /\ Sym(s, Behind(l)) = End(kind) => Ends(l)
<1>. DEFINE loop == Turns(s, values, kind, inside)
            end == loop[Len(s)]
            items == Items(s, kind, spans)
            Behind(l) == SkipWhitespace(s, l.to + 1)
            Ends(l) == /\ l.from = inside /\ Sym(s, Behind(l)) = End(kind)
                       /\ end = Parsed(Container(kind, Built(kind, l.value)), Behind(l) + 1)
<1>0. /\ Len(s) \in Nat \ {0} /\ inside \in 1 .. Len(s) + 1 /\ Len(s) \in 1 .. Len(s)
      /\ \A n \in 1 .. Len(s) : loop[n] = Turn(s, values, kind, loop[n - 1])
  <2>1. Len(s) \in Nat /\ \A n \in 1 .. Len(s) : loop[n] = Turn(s, values, kind, loop[n - 1])
    BY SymFacts, TurnsFacts
  <2>. HIDE DEF loop
  <2>2. QED
    BY <2>1
<1>1. Typed(s, items)
  BY ItemsAgree DEF Agrees
<1>2. ASSUME end # Failed PROVE \E n \in 1 .. Len(s) : \E l \in Lists(s, items)[n] : Ends(l)
  <2>1. PICK n \in 1 .. Len(s) : \E l \in Lists(s, items)[n] :
          /\ l.from = inside
          /\ end = After(s, kind, l.to, l.value)
          /\ After(s, kind, l.to, l.value).is = "going" => n = Len(s)
    BY <1>0, <1>2, TurnsListed
  <2>2. PICK l \in Lists(s, items)[n] :
          /\ l.from = inside
          /\ end = After(s, kind, l.to, l.value)
          /\ After(s, kind, l.to, l.value).is = "going" => n = Len(s)
    BY <2>1
  <2>3. l.to \in l.from + n - 1 .. Len(s)
    BY <1>1, ListsTyped
  <2>4. n # Len(s)
    <3>. HIDE DEF loop, items
    <3>1. inside \in 2 .. Len(s) + 1 /\ l.from = inside
      BY <2>2
    <3>2. QED
      BY <1>0, <2>3, <3>1
  <2>5. Sym(s, Behind(l)) = End(kind)
    <3>. DEFINE after == After(s, kind, l.to, l.value)
    <3>1. after # Failed /\ after.is # "going"
      BY <1>2, <2>2, <2>4
    <3>2. Sym(s, Behind(l)) = "valueSeparator" => after = Going(Built(kind, l.value), Behind(l) + 1)
      BY AfterFacts
    <3>3. Sym(s, Behind(l)) \notin {"valueSeparator", End(kind)} => after = Failed
      BY AfterFacts
    <3>. HIDE DEF after, Behind
    <3>4. QED
      BY <3>1, <3>2, <3>3, Records
  <2>6. Ends(l)
    BY <2>2, <2>5, AfterFacts
  <2>7. QED
    BY <2>6
<1>3. ASSUME NEW n \in 1 .. Len(s), NEW l \in Lists(s, items)[n],
             l.from = inside, Sym(s, Behind(l)) = End(kind)
      PROVE  Ends(l)
  <2>. DEFINE done == Parsed(Container(kind, Built(kind, l.value)), Behind(l) + 1)
  <2>1. loop[n] = done
    <3>1. loop[n] = After(s, kind, l.to, l.value)
      BY <1>0, <1>3, ListsParsed
    <3>2. QED
      BY <1>3, <3>1, AfterFacts
  <2>2. done.is # "going"
    BY Records
  <2>. DEFINE G == {m \in 0 .. Len(s) : m >= n => loop[m] = done}
  <2>. HIDE DEF done, loop
  <2>3. \A m \in 0 .. Len(s) : m \in G
    <3>1. 0 \in G
      BY <1>0
    <3>2. ASSUME NEW m \in 1 .. Len(s), m - 1 \in G PROVE m \in G
      <4>1. CASE m - 1 >= n
        <5>1. loop[m] = Turn(s, values, kind, done)
          BY <1>0, <3>2, <4>1
        <5>2. QED
          BY <2>2, <5>1 DEF Turn
      <4>2. CASE ~ (m - 1 >= n)
        <5>1. m >= n => m = n
          BY <1>0, <4>2
        <5>2. QED
          BY <1>0, <2>1, <5>1
      <4>3. QED
        BY <4>1, <4>2
    <3>. HIDE DEF G
    <3>3. QED
      BY <1>0, <3>1, <3>2, InductionToN
  <2>4. end = done
    <3>1. Len(s) \in G /\ Len(s) >= n
      <4>. HIDE DEF G
      <4>1. QED
        BY <1>0, <2>3
    <3>2. QED
      BY <3>1
  <2>5. QED
    BY <1>3, <2>4 DEF done
<1>4. QED
  BY <1>2, <1>3

-----------------------------------------------------------------------------
(* Containers, and the values of a depth. *)

LEMMA InContainers ==
  ASSUME NEW s, NEW kind, NEW spans, NEW p
  PROVE  p \in Containers(s, kind, spans) <=>
           \E from, to \in DOMAIN s :
             /\ from < to /\ s[from] = Begin(kind) /\ s[to] = End(kind)
             /\ \E items \in Inside(s, kind, spans, from, to) : p = Span(from, to, Meant(kind, items))
BY DEF Containers

LEMMA InInside ==
  ASSUME NEW s, NEW kind, NEW spans, NEW from, NEW to, NEW items
  PROVE  items \in Inside(s, kind, spans, from, to) <=>
           \/ items = << >> /\ Blank(s, from + 1, to - 1)
           \/ \E n \in DOMAIN s : \E l \in Lists(s, Items(s, kind, spans))[n] :
                /\ from < l.from /\ Blank(s, from + 1, l.from - 1)
                /\ l.to < to /\ Blank(s, l.to + 1, to - 1)
                /\ items = l.value
BY DEF Inside

LEMMA ParseContainerIs ==
  ASSUME NEW s, NEW values, NEW kind \in {"array", "object"}, NEW at, s[at] = Begin(kind)
  PROVE  LET inside == SkipWhitespace(s, at + 1)
         IN  ParseContainer(s, values, at) =
               IF Sym(s, inside) = End(kind) THEN Parsed(Container(kind, << >>), inside + 1)
               ELSE Turns(s, values, kind, inside)[Len(s)]
<1>1. (IF s[at] = "beginArray" THEN "array" ELSE "object") = kind
  BY DEF Begin
<1>2. QED
  BY <1>1 DEF ParseContainer

LEMMA MeantIs == \A kind, items : Meant(kind, items) = Container(kind, Built(kind, items))
BY DEF Meant, Built

LEMMA ContainerParsed ==
  ASSUME NEW s \in Text, NEW values, NEW spans, Agrees(s, values, spans),
         NEW kind \in {"array", "object"}, NEW p \in Containers(s, kind, spans)
  PROVE  /\ p = Span(p.from, p.to, p.value)
         /\ p.from \in 1 .. Len(s) /\ p.to \in p.from .. Len(s)
         /\ s[p.from] = Begin(kind)
         /\ ParseContainer(s, values, p.from) = Parsed(p.value, p.to + 1)
<1>0. Len(s) \in Nat /\ DOMAIN s = 1 .. Len(s)
  BY SymFacts
<1>1. PICK from \in 1 .. Len(s), to \in 1 .. Len(s) :
        /\ from < to /\ s[from] = Begin(kind) /\ s[to] = End(kind)
        /\ \E items \in Inside(s, kind, spans, from, to) : p = Span(from, to, Meant(kind, items))
  BY <1>0, InContainers
<1>2. PICK items \in Inside(s, kind, spans, from, to) : p = Span(from, to, Meant(kind, items))
  BY <1>1
<1>3. p.from = from /\ p.to = to /\ p.value = Container(kind, Built(kind, items))
  BY <1>2, MeantIs, Records
<1>. DEFINE inside == SkipWhitespace(s, from + 1)
<1>4. from + 1 \in 1 .. Len(s) + 1 /\ to \in from + 1 .. Len(s) + 1
  BY <1>0, <1>1
<1>5. Sym(s, to) = End(kind) /\ End(kind) \notin {"ws", "valueSeparator"}
  BY <1>1, SymFacts DEF End
<1>6. ParseContainer(s, values, from) = Parsed(p.value, to + 1)
  <2>1. CASE items = << >> /\ Blank(s, from + 1, to - 1)
    <3>1. inside = to
      BY <1>4, <1>5, <2>1, SkipTo
    <3>2. p.value = Container(kind, << >>)
      BY <1>3, <2>1, BuiltEmpty
    <3>3. QED
      BY <1>1, <1>5, <3>1, <3>2, ParseContainerIs
  <2>2. CASE ~ (items = << >> /\ Blank(s, from + 1, to - 1))
    <3>1. PICK n \in 1 .. Len(s) : \E l \in Lists(s, Items(s, kind, spans))[n] :
            /\ from < l.from /\ Blank(s, from + 1, l.from - 1)
            /\ l.to < to /\ Blank(s, l.to + 1, to - 1)
            /\ items = l.value
      BY <1>0, <2>2, InInside
    <3>2. PICK l \in Lists(s, Items(s, kind, spans))[n] :
            /\ from < l.from /\ Blank(s, from + 1, l.from - 1)
            /\ l.to < to /\ Blank(s, l.to + 1, to - 1)
            /\ items = l.value
      BY <3>1
    <3>3. Typed(s, Items(s, kind, spans))
      BY ItemsAgree DEF Agrees
    <3>4. /\ l.from \in 1 .. Len(s) /\ l.to \in l.from + n - 1 .. Len(s)
          /\ s[l.from] \notin {"ws", "endArray", "endObject"}
      BY <3>3, ListsTyped
    <3>5. /\ l.from \in from + 1 .. Len(s) + 1 /\ l.from \in 2 .. Len(s) + 1
          /\ l.to \in 1 .. Len(s) /\ l.to + 1 \in 1 .. Len(s) + 1 /\ to \in l.to + 1 .. Len(s) + 1
      <4>1. \A a \in 1 .. Len(s) : from < a => a \in from + 1 .. Len(s) + 1 /\ a \in 2 .. Len(s) + 1
        BY <1>0
      <4>2. l.to \in 1 .. Len(s)
        BY <1>0, <3>4
      <4>3. \A a \in 1 .. Len(s) : a < to => a + 1 \in 1 .. Len(s) + 1 /\ to \in a + 1 .. Len(s) + 1
        BY <1>0
      <4>4. QED
        BY <3>2, <3>4, <4>1, <4>2, <4>3
    <3>6. Sym(s, l.from) \notin {"ws", "endArray", "endObject"}
      BY <3>4, SymFacts
    <3>7. inside = l.from
      BY <1>4, <3>2, <3>5, <3>6, SkipTo
    <3>8. SkipWhitespace(s, l.to + 1) = to
      BY <1>5, <3>2, <3>5, SkipTo
    <3>9. Turns(s, values, kind, l.from)[Len(s)] = Parsed(Container(kind, Built(kind, l.value)), to + 1)
      BY <1>5, <3>5, <3>6, <3>8, LoopEnds
    <3>10. Sym(s, inside) # End(kind)
      BY <3>6, <3>7, BracketFacts
    <3>11. ParseContainer(s, values, from) = Turns(s, values, kind, inside)[Len(s)]
      BY <1>1, <3>10, ParseContainerIs
    <3>12. QED
      BY <1>3, <3>2, <3>7, <3>9, <3>11
  <2>3. QED
    BY <2>1, <2>2
<1>7. to \in from .. Len(s)
  BY <1>0, <1>1
<1>8. s[from] = Begin(kind) /\ p = Span(p.from, p.to, p.value)
  BY <1>1, <1>2, Records
<1>9. QED
  BY <1>3, <1>6, <1>7, <1>8

LEMMA ContainerListed ==
  ASSUME NEW s \in Text, NEW values, NEW spans, Agrees(s, values, spans),
         NEW kind \in {"array", "object"}, NEW at \in 1 .. Len(s), s[at] = Begin(kind),
         ParseContainer(s, values, at) # Failed
  PROVE  \E p \in Containers(s, kind, spans) : p.from = at
<1>. DEFINE inside == SkipWhitespace(s, at + 1)
<1>0. Len(s) \in Nat /\ DOMAIN s = 1 .. Len(s) /\ at + 1 \in 1 .. Len(s) + 1
  BY SymFacts
<1>1. inside \in at + 1 .. Len(s) + 1 /\ Blank(s, at + 1, inside - 1) /\ Sym(s, inside) # "ws"
  BY <1>0, SkipFacts
<1>2. SUFFICES \E to \in 1 .. Len(s) :
                 /\ at < to /\ s[to] = End(kind)
                 /\ \E items : items \in Inside(s, kind, spans, at, to)
  <2>1. PICK to \in 1 .. Len(s) :
                 /\ at < to /\ s[to] = End(kind)
                 /\ \E items : items \in Inside(s, kind, spans, at, to)
    BY <1>2
  <2>2. PICK items : items \in Inside(s, kind, spans, at, to)
    BY <2>1
  <2>3. Span(at, to, Meant(kind, items)) \in Containers(s, kind, spans)
    BY <1>0, <2>1, <2>2, InContainers
  <2>4. QED
    BY <2>3, Records
<1>3. CASE Sym(s, inside) = End(kind)
  <2>1. inside \in 1 .. Len(s) /\ s[inside] = End(kind)
    BY <1>3, SymFacts DEF End
  <2>2. << >> \in Inside(s, kind, spans, at, inside)
    BY <1>1, InInside
  <2>3. at < inside
    <3>. HIDE DEF inside
    <3>1. QED
      BY <1>0, <1>1
  <2>4. QED
    BY <2>1, <2>2, <2>3
<1>4. CASE Sym(s, inside) # End(kind)
  <2>1. Turns(s, values, kind, inside)[Len(s)] # Failed
    BY <1>4, ParseContainerIs
  <2>2. inside \in 2 .. Len(s) + 1
    <3>. HIDE DEF inside
    <3>1. QED
      BY <1>0, <1>1
  <2>3. PICK n \in 1 .. Len(s) : \E l \in Lists(s, Items(s, kind, spans))[n] :
          l.from = inside /\ Sym(s, SkipWhitespace(s, l.to + 1)) = End(kind)
    <3>. HIDE DEF inside
    <3>1. QED
      BY <1>1, <2>1, <2>2, LoopEnds
  <2>4. PICK l \in Lists(s, Items(s, kind, spans))[n] :
          l.from = inside /\ Sym(s, SkipWhitespace(s, l.to + 1)) = End(kind)
    BY <2>3
  <2>. DEFINE to == SkipWhitespace(s, l.to + 1)
  <2>5. l.from \in 1 .. Len(s) /\ l.to \in l.from + n - 1 .. Len(s)
    <3>1. Typed(s, Items(s, kind, spans))
      BY ItemsAgree DEF Agrees
    <3>2. QED
      BY <3>1, ListsTyped
  <2>6. l.to + 1 \in 1 .. Len(s) + 1 /\ l.to >= l.from
    BY <1>0, <2>5
  <2>7. to \in l.to + 1 .. Len(s) + 1 /\ Blank(s, l.to + 1, to - 1)
    BY <2>6, SkipFacts
  <2>8. to \in 1 .. Len(s) /\ s[to] = End(kind)
    BY <2>4, SymFacts DEF End
  <2>. HIDE DEF to, inside
  <2>9. at < l.from /\ l.to < to /\ at < to
    BY <1>0, <1>1, <2>4, <2>5, <2>6, <2>7
  <2>10. n \in DOMAIN s
    BY <1>0
  <2>11. l.value \in Inside(s, kind, spans, at, to)
    BY <1>1, <2>4, <2>7, <2>9, <2>10, InInside
  <2>12. QED
    BY <2>8, <2>9, <2>11
<1>5. QED
  BY <1>3, <1>4

\* One depth: if the table of the next one agrees with its spans, so does this.
LEMMA DepthAgrees ==
  ASSUME NEW s \in Text, NEW values, NEW spans, Agrees(s, values, spans),
         NEW table, \A at \in 1 .. Len(s) + 1 : table[at] = ParseAt(s, values, at)
  PROVE  Agrees(s, table,
                {Span(i, i, Scalar(s[i])) : i \in {i \in DOMAIN s : s[i] \in Strings \cup Others}}
                \cup Containers(s, "array", spans) \cup Containers(s, "object", spans))
<1>. DEFINE Scalars == {Span(i, i, Scalar(s[i])) : i \in {i \in DOMAIN s : s[i] \in Strings \cup Others}}
            Kinds == {"array", "object"}
            all == Scalars \cup Containers(s, "array", spans) \cup Containers(s, "object", spans)
<1>0. Len(s) \in Nat /\ DOMAIN s = 1 .. Len(s)
  BY SymFacts
<1>1. ASSUME NEW p \in Scalars
      PROVE  /\ p = Span(p.from, p.to, p.value)
             /\ p.from \in 1 .. Len(s) /\ p.to \in p.from .. Len(s)
             /\ s[p.from] \notin {"ws", "endArray", "endObject"}
             /\ table[p.from] = Parsed(p.value, p.to + 1)
  <2>1. PICK i \in DOMAIN s : s[i] \in Strings \cup Others /\ p = Span(i, i, Scalar(s[i]))
    OBVIOUS
  <2>2. p.from = i /\ p.to = i /\ p.value = Scalar(s[i])
    BY <2>1, Records
  <2>3. s[i] \notin {"ws", "endArray", "endObject", "beginArray", "beginObject"}
    BY <2>1, BracketFacts DEF Structure
  <2>4. Sym(s, i) = s[i] /\ i \in 1 .. Len(s) + 1
    BY <1>0, <2>1, SymFacts
  <2>5. ParseAt(s, values, i) = Parsed(Scalar(s[i]), i + 1)
    BY <2>1, <2>3, <2>4 DEF ParseAt
  <2>6. QED
    BY <1>0, <2>1, <2>2, <2>3, <2>4, <2>5
<1>2. ASSUME NEW at \in 1 .. Len(s), NEW kind \in Kinds, s[at] = Begin(kind)
      PROVE  table[at] = ParseContainer(s, values, at)
  <2>1. Sym(s, at) = s[at] /\ at \in 1 .. Len(s) + 1
    BY <1>0, SymFacts
  <2>2. Begin(kind) \in {"beginArray", "beginObject"} /\ Begin(kind) \notin Strings \cup Others
    BY BracketFacts DEF Structure
  <2>3. QED
    BY <1>2, <2>1, <2>2 DEF ParseAt
<1>3. ASSUME NEW kind \in Kinds, NEW p \in Containers(s, kind, spans)
      PROVE  /\ p = Span(p.from, p.to, p.value)
             /\ p.from \in 1 .. Len(s) /\ p.to \in p.from .. Len(s)
             /\ s[p.from] \notin {"ws", "endArray", "endObject"}
             /\ table[p.from] = Parsed(p.value, p.to + 1)
  <2>1. /\ p = Span(p.from, p.to, p.value)
        /\ p.from \in 1 .. Len(s) /\ p.to \in p.from .. Len(s)
        /\ s[p.from] = Begin(kind)
        /\ ParseContainer(s, values, p.from) = Parsed(p.value, p.to + 1)
    BY ContainerParsed
  <2>2. Begin(kind) \notin {"ws", "endArray", "endObject"}
    BY DEF Begin
  <2>3. QED
    BY <1>2, <2>1, <2>2
<1>4. ASSUME NEW at \in 1 .. Len(s) + 1, table[at] # Failed
      PROVE  \E p \in all : p.from = at
  <2>1. ParseAt(s, values, at) # Failed
    BY <1>4
  <2>2. \/ Sym(s, at) \in {"beginArray", "beginObject"} \cup Strings \cup Others
    BY <2>1 DEF ParseAt
  <2>3. at \in 1 .. Len(s) /\ Sym(s, at) = s[at]
    BY <2>2, SymFacts, BracketFacts
  <2>4. CASE s[at] \in Strings \cup Others
    <3>1. Span(at, at, Scalar(s[at])) \in Scalars
      BY <1>0, <2>3, <2>4
    <3>2. QED
      BY <3>1, Records
  <2>5. CASE s[at] \in {"beginArray", "beginObject"}
    <3>1. PICK kind \in Kinds : s[at] = Begin(kind)
      BY <2>5 DEF Begin
    <3>2. ParseContainer(s, values, at) # Failed
      BY <1>2, <1>4, <2>3, <3>1
    <3>3. \E p \in Containers(s, kind, spans) : p.from = at
      BY <2>3, <3>1, <3>2, ContainerListed
    <3>4. QED
      BY <3>3
  <2>6. QED
    BY <2>2, <2>3, <2>4, <2>5
<1>5. \A p \in all : \/ p \in Scalars \/ \E kind \in Kinds : p \in Containers(s, kind, spans)
  OBVIOUS
<1>. HIDE DEF Scalars, all, Kinds
<1>6. Agrees(s, table, all)
  BY <1>1, <1>3, <1>4, <1>5 DEF Agrees, Typed
<1>7. QED
  BY <1>6 DEF all, Scalars

LEMMA ParserAgrees ==
  ASSUME NEW s \in Text
  PROVE  \A depth \in 0 .. MaxParseDepth + 1 : Agrees(s, ParseValue(s)[depth], Spans(s)[depth])
<1>. DEFINE Top == MaxParseDepth + 1
            G == {m \in 0 .. Top : Agrees(s, ParseValue(s)[Top - m], Spans(s)[Top - m])}
<1>0. MaxParseDepth \in Nat
  BY JsonAssumption
<1>1. 0 \in G
  <2>1. Top - 0 = Top
    BY <1>0
  <2>2. Agrees(s, ParseValue(s)[Top], Spans(s)[Top])
    BY ParseValueFacts, SpansFacts DEF Agrees, Typed
  <2>3. QED
    BY <1>0, <2>1, <2>2
<1>2. ASSUME NEW m \in 1 .. Top, m - 1 \in G PROVE m \in G
  <2>1. Top - m \in 0 .. MaxParseDepth /\ Top - (m - 1) = (Top - m) + 1
    BY <1>0
  <2>. DEFINE depth == Top - m
  <2>2. Agrees(s, ParseValue(s)[depth + 1], Spans(s)[depth + 1])
    BY <1>2, <2>1
  <2>. HIDE DEF depth
  <2>3. Agrees(s, ParseValue(s)[depth], Spans(s)[depth])
    <3>1. depth \in 0 .. MaxParseDepth
      BY <2>1 DEF depth
    <3>2. \A at \in 1 .. Len(s) + 1 :
            ParseValue(s)[depth][at] = ParseAt(s, ParseValue(s)[depth + 1], at)
      BY <3>1, ParseValueFacts
    <3>3. Spans(s)[depth] =
            {Span(i, i, Scalar(s[i])) : i \in {i \in DOMAIN s : s[i] \in Strings \cup Others}}
            \cup Containers(s, "array", Spans(s)[depth + 1])
            \cup Containers(s, "object", Spans(s)[depth + 1])
      BY <3>1, SpansFacts
    <3>4. QED
      BY <2>2, <3>2, <3>3, DepthAgrees
  <2>4. QED
    BY <1>0, <2>3 DEF depth
<1>3. \A m \in 0 .. Top : m \in G
  <2>. HIDE DEF G
  <2>1. QED
    BY <1>0, <1>1, <1>2, InductionToN
<1>4. ASSUME NEW depth \in 0 .. Top PROVE Agrees(s, ParseValue(s)[depth], Spans(s)[depth])
  <2>1. Top - depth \in 0 .. Top /\ Top - (Top - depth) = depth
    BY <1>0
  <2>2. QED
    BY <1>3, <2>1
<1>5. QED
  BY <1>4

-----------------------------------------------------------------------------
(* Documents. *)

Whole(s) == {p \in Spans(s)[0] : Blank(s, 1, p.from - 1) /\ Blank(s, p.to + 1, Len(s))}

LEMMA DocumentMeans ==
  ASSUME NEW s \in Text
  PROVE  \/ ParseDocument(s) = Failed /\ Means(s) = {}
         \/ \E v : /\ Means(s) = {v}
                   /\ ParseDocument(s).is = "parsed" /\ ParseDocument(s).value = v
<1>. DEFINE table == ParseValue(s)[0]
            first == SkipWhitespace(s, 1)
            found == table[first]
            doc == ParseDocument(s)
            spans == Spans(s)[0]
            end == Len(s) + 1
<1>0. Len(s) \in Nat /\ 1 \in 1 .. end
  BY SymFacts
<1>1. Agrees(s, table, spans)
  <2>1. 0 \in 0 .. MaxParseDepth + 1
    BY JsonAssumption
  <2>2. QED
    BY <2>1, ParserAgrees
<1>2. first \in 1 .. end /\ Blank(s, 1, first - 1)
  BY <1>0, SkipFacts
<1>3. doc = IF found.is = "parsed" /\ SkipWhitespace(s, found.at) > Len(s) THEN found ELSE Failed
  BY DEF ParseDocument
<1>4. Means(s) = {p.value : p \in Whole(s)}
  BY DEF Means, Whole
<1>. HIDE DEF table, doc, spans
<1>5. ASSUME NEW p \in Whole(s)
      PROVE  doc = Parsed(p.value, p.to + 1)
  <2>1. /\ p \in spans
        /\ Blank(s, 1, p.from - 1) /\ Blank(s, p.to + 1, Len(s))
    BY DEF Whole, spans
  <2>2. /\ p.from \in 1 .. Len(s) /\ p.to \in p.from .. Len(s) /\ s[p.from] # "ws"
        /\ table[p.from] = Parsed(p.value, p.to + 1)
    BY <1>1, <2>1 DEF Agrees, Typed
  <2>3. first = p.from
    <3>1. p.from \in 1 .. end /\ Sym(s, p.from) # "ws"
      BY <1>0, <2>2, SymFacts
    <3>2. QED
      BY <1>0, <2>1, <3>1, SkipTo
  <2>4. SkipWhitespace(s, p.to + 1) = end
    <3>1. p.to + 1 \in 1 .. end /\ end \in p.to + 1 .. end /\ end - 1 = Len(s)
      BY <1>0, <2>2
    <3>2. Sym(s, end) # "ws"
      BY <1>0, SymFacts
    <3>3. QED
      BY <2>1, <3>1, <3>2, SkipTo
  <2>5. found.is = "parsed" /\ found.at = p.to + 1
    BY <2>2, <2>3, Records
  <2>6. QED
    BY <1>0, <1>3, <2>2, <2>3, <2>4, <2>5
<1>6. ASSUME doc # Failed PROVE Whole(s) # {}
  <2>1. found.is = "parsed" /\ SkipWhitespace(s, found.at) > Len(s)
    BY <1>3, <1>6
  <2>2. PICK p \in spans : p.from = first
    BY <1>1, <1>2, <2>1, Records DEF Agrees
  <2>3. found = Parsed(p.value, p.to + 1) /\ p.to \in p.from .. Len(s) /\ p.from \in 1 .. Len(s)
    BY <1>1, <2>2 DEF Agrees, Typed
  <2>4. found.at = p.to + 1 /\ p.to + 1 \in 1 .. end
    BY <1>0, <2>3, Records
  <2>5. /\ SkipWhitespace(s, p.to + 1) \in p.to + 1 .. end
        /\ Blank(s, p.to + 1, SkipWhitespace(s, p.to + 1) - 1)
    BY <2>4, SkipFacts
  <2>6. SkipWhitespace(s, p.to + 1) - 1 = Len(s)
    BY <1>0, <2>1, <2>4, <2>5
  <2>7. p \in Whole(s)
    BY <1>2, <2>2, <2>5, <2>6 DEF Whole, spans
  <2>8. QED
    BY <2>7
<1>7. CASE Whole(s) = {}
  <2>1. Means(s) = {}
    BY <1>4, <1>7
  <2>2. QED
    BY <1>6, <1>7, <2>1 DEF doc
<1>8. CASE Whole(s) # {}
  <2>1. PICK p : p \in Whole(s)
    BY <1>8
  <2>2. doc.is = "parsed" /\ doc.value = p.value
    BY <1>5, <2>1, Records
  <2>3. \A q \in Whole(s) : q.value = p.value
    BY <1>5, <2>2, Records
  <2>4. Means(s) = {p.value}
    BY <1>4, <2>1, <2>3
  <2>5. QED
    BY <2>2, <2>4 DEF doc
<1>9. QED
  BY <1>7, <1>8

-----------------------------------------------------------------------------
(* The values the parser returns. *)

LEMMA InsideListed ==
  ASSUME NEW s \in Text, NEW kind, NEW spans, Typed(s, Items(s, kind, spans)), NEW from, NEW to,
         NEW items \in Inside(s, kind, spans, from, to)
  PROVE  items \in Seq(ItemValues(Items(s, kind, spans)))
<1>1. CASE items = << >>
  BY <1>1
<1>2. CASE items # << >>
  <2>1. PICK n \in 1 .. Len(s) : \E l \in Lists(s, Items(s, kind, spans))[n] : items = l.value
    BY <1>2, InInside, SymFacts
  <2>2. PICK l \in Lists(s, Items(s, kind, spans))[n] : items = l.value
    BY <2>1
  <2>3. QED
    BY <2>2, ListsTyped DEF ItemValues
<1>3. QED
  BY <1>1, <1>2

LEMMA WiderSeq == ASSUME NEW S, NEW T, S \subseteq T, NEW x \in Seq(S) PROVE x \in Seq(T)
OBVIOUS

LEMMA ContainerValues ==
  ASSUME NEW s \in Text, NEW values, NEW spans, Agrees(s, values, spans),
         NEW kind \in {"array", "object"}, NEW V, \A p \in spans : p.value \in V,
         NEW p \in Containers(s, kind, spans)
  PROVE  p.value \in [kind : {"array"}, of : Seq(V)]
                     \cup [kind : {"object"},
                           of : {members \in Seq(Strings \X V) :
                                   \A i, j \in DOMAIN members : members[i][1] = members[j][1] => i = j}]
<1>1. PICK from \in DOMAIN s, to \in DOMAIN s :
        \E items \in Inside(s, kind, spans, from, to) : p = Span(from, to, Meant(kind, items))
  BY InContainers
<1>2. PICK items \in Inside(s, kind, spans, from, to) : p = Span(from, to, Meant(kind, items))
  BY <1>1
<1>3. p.value = Container(kind, Built(kind, items))
  BY <1>2, MeantIs, Records
<1>4. items \in Seq(ItemValues(Items(s, kind, spans)))
  <2>1. Typed(s, Items(s, kind, spans))
    BY ItemsAgree DEF Agrees
  <2>2. QED
    BY <2>1, InsideListed
<1>5. CASE kind = "array"
  <2>1. ItemValues(Items(s, kind, spans)) \subseteq V
    BY <1>5 DEF Items, ItemValues
  <2>2. items \in Seq(V)
    BY <1>4, <2>1, WiderSeq
  <2>3. QED
    BY <1>3, <1>5, <2>2 DEF Container, Built
<1>6. CASE kind = "object"
  <2>1. ItemValues(Items(s, kind, spans)) \subseteq Strings \X V
    <3>1. ASSUME NEW q \in Items(s, kind, spans) PROVE q.value \in Strings \X V
      <4>1. PICK r \in spans, i \in DOMAIN s : s[i] \in Strings /\ q = Span(i, r.to, <<s[i], r.value>>)
        BY <1>6, ItemsOfObject
      <4>2. QED
        BY <4>1, Records
    <3>2. QED
      BY <3>1 DEF ItemValues
  <2>2. items \in Seq(Strings \X V)
    BY <1>4, <2>1, WiderSeq
  <2>3. /\ Merge(items) \in Seq(Strings \X V)
        /\ \A i, j \in DOMAIN Merge(items) : Merge(items)[i][1] = Merge(items)[j][1] => i = j
    BY <2>2, MergeType
  <2>4. p.value = [kind |-> "object", of |-> Merge(items)]
    BY <1>3, <1>6 DEF Container, Built
  <2>. DEFINE Distinct == {members \in Seq(Strings \X V) :
                             \A i, j \in DOMAIN members : members[i][1] = members[j][1] => i = j}
  <2>5. Merge(items) \in Distinct
    BY <2>3
  <2>. HIDE DEF Distinct
  <2>6. p.value \in [kind : {"object"}, of : Distinct]
    BY <2>4, <2>5
  <2>7. QED
    BY <2>6 DEF Distinct
<1>7. QED
  BY <1>5, <1>6

LEMMA SpansInValues ==
  ASSUME NEW s \in Text
  PROVE  \A depth \in 0 .. MaxParseDepth + 1 : \A p \in Spans(s)[depth] : p.value \in Values[depth]
<1>. DEFINE Top == MaxParseDepth + 1
            In(depth) == \A p \in Spans(s)[depth] : p.value \in Values[depth]
            G == {m \in 0 .. Top : In(Top - m)}
<1>0. MaxParseDepth \in Nat
  BY JsonAssumption
<1>1. 0 \in G
  <2>1. Top - 0 = Top
    BY <1>0
  <2>2. In(Top)
    BY SpansFacts
  <2>. HIDE DEF In
  <2>3. QED
    BY <1>0, <2>1, <2>2
<1>2. ASSUME NEW m \in 1 .. Top, m - 1 \in G PROVE m \in G
  <2>1. Top - m \in 0 .. MaxParseDepth /\ Top - (m - 1) = (Top - m) + 1
        /\ (Top - m) + 1 \in 0 .. Top
    BY <1>0
  <2>. DEFINE depth == Top - m
  <2>2. In(depth + 1)
    <3>. HIDE DEF In
    <3>1. QED
      BY <1>2, <2>1
  <2>3. depth \in 0 .. MaxParseDepth /\ depth + 1 \in 0 .. Top
    BY <2>1
  <2>. HIDE DEF depth
  <2>4. In(depth)
    <3>1. TAKE p \in Spans(s)[depth]
    <3>. DEFINE V == Values[depth + 1]
                Scalars == [kind : {"scalar"}, of : Strings \cup Others]
                Arrays == [kind : {"array"}, of : Seq(V)]
                Objects == [kind : {"object"},
                            of : {members \in Seq(Strings \X V) :
                                    \A i, j \in DOMAIN members : members[i][1] = members[j][1] => i = j}]
    <3>2. Values[depth] = Scalars \cup Arrays \cup Objects
      BY <2>3, ValuesFacts
    <3>3. \/ \E i \in DOMAIN s : s[i] \in Strings \cup Others /\ p = Span(i, i, Scalar(s[i]))
          \/ \E kind \in {"array", "object"} : p \in Containers(s, kind, Spans(s)[depth + 1])
      BY <2>3, SpansFacts
    <3>4. CASE \E i \in DOMAIN s : s[i] \in Strings \cup Others /\ p = Span(i, i, Scalar(s[i]))
      <4>1. p.value \in Scalars
        BY <3>4, Records DEF Scalar
      <4>2. QED
        BY <3>2, <4>1
    <3>5. CASE \E kind \in {"array", "object"} : p \in Containers(s, kind, Spans(s)[depth + 1])
      <4>1. PICK kind \in {"array", "object"} : p \in Containers(s, kind, Spans(s)[depth + 1])
        BY <3>5
      <4>2. Agrees(s, ParseValue(s)[depth + 1], Spans(s)[depth + 1])
        BY <2>3, ParserAgrees
      <4>3. \A q \in Spans(s)[depth + 1] : q.value \in V
        BY <2>2
      <4>. HIDE DEF V
      <4>4. p.value \in Arrays \cup Objects
        BY <4>1, <4>2, <4>3, ContainerValues
      <4>5. QED
        BY <3>2, <4>4
    <3>6. QED
      BY <3>3, <3>4, <3>5
  <2>. HIDE DEF In
  <2>5. QED
    BY <1>0, <2>4 DEF depth
<1>. HIDE DEF In
<1>3. \A m \in 0 .. Top : m \in G
  <2>. HIDE DEF G
  <2>1. QED
    BY <1>0, <1>1, <1>2, InductionToN
<1>4. ASSUME NEW depth \in 0 .. Top PROVE In(depth)
  <2>1. Top - depth \in 0 .. Top /\ Top - (Top - depth) = depth
    BY <1>0
  <2>2. QED
    BY <1>3, <2>1
<1>5. QED
  BY <1>4 DEF In

-----------------------------------------------------------------------------
(* A text within a longer one means what it means on its own. *)

\* t stands in s, behind its first o symbols.
Embeds(t, s, o) ==
  /\ o \in Nat /\ o + Len(t) =< Len(s)
  /\ \A i \in 1 .. Len(t) : s[o + i] = t[i]

Shift(p, o) == Span(p.from + o, p.to + o, p.value)

Carried(spans, more, o) == \A p \in spans : Shift(p, o) \in more

LEMMA BlankShift ==
  ASSUME NEW s \in Text, NEW t \in Text, NEW o, Embeds(t, s, o),
         NEW a \in Nat \ {0}, NEW b \in Int, b =< Len(t), Blank(t, a, b)
  PROVE  Blank(s, a + o, b + o)
<1>0. Len(s) \in Nat /\ Len(t) \in Nat /\ o \in Nat
  BY SymFacts DEF Embeds
<1>1. ASSUME NEW i \in a + o .. b + o PROVE s[i] = "ws"
  <2>1. i - o \in a .. b /\ i - o \in 1 .. Len(t) /\ o + (i - o) = i
    BY <1>0
  <2>2. t[i - o] = "ws"
    BY <2>1 DEF Blank
  <2>3. QED
    BY <2>1, <2>2 DEF Embeds
<1>2. QED
  BY <1>1 DEF Blank

LEMMA SeparatesShift ==
  ASSUME NEW s \in Text, NEW t \in Text, NEW o, Embeds(t, s, o), NEW symbol,
         NEW left \in 1 .. Len(t), NEW right \in 1 .. Len(t), Separates(t, symbol, left, right)
  PROVE  Separates(s, symbol, left + o, right + o)
<1>0. Len(s) \in Nat /\ Len(t) \in Nat /\ o \in Nat
  BY SymFacts DEF Embeds
<1>1. PICK i \in left + 1 .. right - 1 :
        t[i] = symbol /\ Blank(t, left + 1, i - 1) /\ Blank(t, i + 1, right - 1)
  BY DEF Separates
<1>2. /\ i \in 1 .. Len(t) /\ left + 1 \in Nat \ {0} /\ i - 1 \in Int /\ i - 1 =< Len(t)
      /\ i + 1 \in Nat \ {0} /\ right - 1 \in Int /\ right - 1 =< Len(t)
  BY <1>0
<1>3. Blank(s, (left + 1) + o, (i - 1) + o) /\ Blank(s, (i + 1) + o, (right - 1) + o)
  BY <1>1, <1>2, BlankShift
<1>4. /\ (left + 1) + o = (left + o) + 1 /\ (i - 1) + o = (i + o) - 1
      /\ (i + 1) + o = (i + o) + 1 /\ (right - 1) + o = (right + o) - 1
      /\ i + o = o + i
  BY <1>0
<1>5. s[i + o] = symbol
  BY <1>1, <1>2, <1>4 DEF Embeds
<1>6. i + o \in (left + o) + 1 .. (right + o) - 1
  BY <1>0
<1>7. QED
  BY <1>3, <1>4, <1>5, <1>6 DEF Separates

LEMMA ItemsShift ==
  ASSUME NEW s \in Text, NEW t \in Text, NEW o, Embeds(t, s, o),
         NEW kind \in {"array", "object"}, NEW spans, Typed(t, spans),
         NEW more, Carried(spans, more, o)
  PROVE  Carried(Items(t, kind, spans), Items(s, kind, more), o)
<1>0. /\ Len(s) \in Nat /\ Len(t) \in Nat /\ o \in Nat /\ o + Len(t) =< Len(s)
      /\ DOMAIN s = 1 .. Len(s) /\ DOMAIN t = 1 .. Len(t)
  BY SymFacts DEF Embeds
<1>1. CASE kind = "array"
  BY <1>1 DEF Items, Carried
<1>2. CASE kind = "object"
  <2>1. ASSUME NEW q \in Items(t, kind, spans) PROVE Shift(q, o) \in Items(s, kind, more)
    <3>1. PICK p \in spans, i \in DOMAIN t :
            /\ t[i] \in Strings /\ Separates(t, "nameSeparator", i, p.from)
            /\ q = Span(i, p.to, <<t[i], p.value>>)
      BY <1>2, ItemsOfObject
    <3>2. p.from \in 1 .. Len(t) /\ p.to \in p.from .. Len(t)
      BY DEF Typed
    <3>3. Separates(s, "nameSeparator", i + o, p.from + o)
      BY <1>0, <3>1, <3>2, SeparatesShift
    <3>4. i + o \in DOMAIN s /\ i + o = o + i
      BY <1>0
    <3>5. s[i + o] = t[i]
      BY <1>0, <3>4 DEF Embeds
    <3>6. Shift(p, o) \in more
      BY DEF Carried
    <3>7. Shift(p, o).from = p.from + o /\ Shift(p, o).to = p.to + o /\ Shift(p, o).value = p.value
      BY Records DEF Shift
    <3>8. Shift(q, o) = Span(i + o, p.to + o, <<t[i], p.value>>)
      BY <3>1, Records DEF Shift
    <3>9. QED
      BY <1>2, <3>1, <3>3, <3>4, <3>5, <3>6, <3>7, <3>8, ItemsOfObject
  <2>2. QED
    BY <2>1 DEF Carried
<1>3. QED
  BY <1>1, <1>2

LEMMA ListsShift ==
  ASSUME NEW s \in Text, NEW t \in Text, NEW o, Embeds(t, s, o),
         NEW items, Typed(t, items), NEW more, Carried(items, more, o)
  PROVE  \A n \in 1 .. Len(t) : Carried(Lists(t, items)[n], Lists(s, more)[n], o)
<1>. DEFINE G == {n \in 0 .. Len(t) : n # 0 => Carried(Lists(t, items)[n], Lists(s, more)[n], o)}
<1>0. Len(s) \in Nat /\ Len(t) \in Nat /\ o \in Nat /\ o + Len(t) =< Len(s)
  BY SymFacts DEF Embeds
<1>1. ASSUME NEW n \in 1 .. Len(t), n - 1 \in G, NEW l \in Lists(t, items)[n]
      PROVE  Shift(l, o) \in Lists(s, more)[n]
  <2>0. \A p : Shift(p, o).from = p.from + o /\ Shift(p, o).to = p.to + o /\ Shift(p, o).value = p.value
    BY Records DEF Shift
  <2>1. CASE n = 1
    <3>0. 1 \in 1 .. Len(t) /\ 1 \in 1 .. Len(s)
      BY <1>0, <2>1
    <3>1. PICK item \in items : l = Span(item.from, item.to, <<item.value>>)
      BY <2>1, <3>0, ListsFacts
    <3>2. Shift(item, o) \in more
      BY DEF Carried
    <3>3. Shift(l, o) = Span(item.from + o, item.to + o, <<item.value>>)
      BY <3>1, Records DEF Shift
    <3>4. Shift(l, o) = Span(Shift(item, o).from, Shift(item, o).to, <<Shift(item, o).value>>)
      BY <2>0, <3>3
    <3>5. Lists(s, more)[1] = {Span(x.from, x.to, <<x.value>>) : x \in more}
      BY <3>0, ListsFacts
    <3>6. QED
      BY <2>1, <3>2, <3>4, <3>5
  <2>2. CASE n # 1
    <3>0. n \in 2 .. Len(t) /\ n \in 2 .. Len(s) /\ n - 1 # 0 /\ n - 1 \in 1 .. Len(t)
      BY <1>0, <2>2
    <3>1. PICK list \in Lists(t, items)[n - 1], item \in items :
            /\ Separates(t, "valueSeparator", list.to, item.from)
            /\ l = Span(list.from, item.to, Append(list.value, item.value))
      BY <3>0, ListsFacts
    <3>2. Shift(item, o) \in more
      BY DEF Carried
    <3>3. Shift(list, o) \in Lists(s, more)[n - 1]
      BY <1>1, <3>0 DEF Carried
    <3>4. list.to \in 1 .. Len(t) /\ item.from \in 1 .. Len(t)
      <4>1. list.from \in 1 .. Len(t) /\ list.to \in list.from + (n - 1) - 1 .. Len(t)
        BY <3>0, ListsTyped
      <4>2. list.to \in 1 .. Len(t)
        BY <1>0, <3>0, <4>1
      <4>3. QED
        BY <4>2 DEF Typed
    <3>5. Separates(s, "valueSeparator", list.to + o, item.from + o)
      BY <3>1, <3>4, SeparatesShift
    <3>6. l.from = list.from /\ l.to = item.to /\ l.value = Append(list.value, item.value)
      BY <3>1 DEF Span
    <3>7. Shift(l, o) = Span(list.from + o, item.to + o, Append(list.value, item.value))
      BY <3>6 DEF Shift
    <3>8. Span(Shift(list, o).from, Shift(item, o).to, Append(Shift(list, o).value, Shift(item, o).value))
            \in Lists(s, more)[n]
      <4>1. Separates(s, "valueSeparator", Shift(list, o).to, Shift(item, o).from)
        BY <2>0, <3>5
      <4>. HIDE DEF Shift
      <4>2. QED
        BY <3>0, <3>2, <3>3, <4>1, ListsFacts
    <3>9. QED
      BY <2>0, <3>7, <3>8
  <2>3. QED
    BY <2>1, <2>2
<1>2. \A n \in 0 .. Len(t) : n \in G
  <2>1. 0 \in G
    BY <1>0
  <2>2. \A n \in 1 .. Len(t) : n - 1 \in G => n \in G
    BY <1>0, <1>1 DEF Carried
  <2>. HIDE DEF G
  <2>3. QED
    BY <1>0, <2>1, <2>2, InductionToN
<1>3. ASSUME NEW n \in 1 .. Len(t) PROVE Carried(Lists(t, items)[n], Lists(s, more)[n], o)
  <2>1. n \in G /\ n # 0
    <3>. HIDE DEF G
    <3>1. QED
      BY <1>0, <1>2
  <2>2. QED
    BY <2>1
<1>4. QED
  BY <1>3

LEMMA ContainersShift ==
  ASSUME NEW s \in Text, NEW t \in Text, NEW o, Embeds(t, s, o),
         NEW kind \in {"array", "object"}, NEW spans, Typed(t, spans), Typed(t, Items(t, kind, spans)),
         NEW more, Carried(spans, more, o)
  PROVE  Carried(Containers(t, kind, spans), Containers(s, kind, more), o)
<1>0. /\ Len(s) \in Nat /\ Len(t) \in Nat /\ o \in Nat /\ o + Len(t) =< Len(s)
      /\ DOMAIN s = 1 .. Len(s) /\ DOMAIN t = 1 .. Len(t)
  BY SymFacts DEF Embeds
<1>1. ASSUME NEW p \in Containers(t, kind, spans)
      PROVE  Shift(p, o) \in Containers(s, kind, more)
  <2>1. PICK from \in 1 .. Len(t), to \in 1 .. Len(t) :
          /\ from < to /\ t[from] = Begin(kind) /\ t[to] = End(kind)
          /\ \E items \in Inside(t, kind, spans, from, to) : p = Span(from, to, Meant(kind, items))
    BY <1>0, InContainers
  <2>2. PICK items \in Inside(t, kind, spans, from, to) : p = Span(from, to, Meant(kind, items))
    BY <2>1
  <2>3. /\ from + o \in DOMAIN s /\ to + o \in DOMAIN s /\ from + o < to + o
        /\ from + o = o + from /\ to + o = o + to
    BY <1>0, <2>1
  <2>4. s[from + o] = Begin(kind) /\ s[to + o] = End(kind)
    BY <2>1, <2>3 DEF Embeds
  <2>5. items \in Inside(s, kind, more, from + o, to + o)
    <3>1. CASE items = << >> /\ Blank(t, from + 1, to - 1)
      <4>1. from + 1 \in Nat \ {0} /\ to - 1 \in Int /\ to - 1 =< Len(t)
            /\ (from + 1) + o = (from + o) + 1 /\ (to - 1) + o = (to + o) - 1
        BY <1>0
      <4>2. Blank(s, (from + o) + 1, (to + o) - 1)
        BY <3>1, <4>1, BlankShift
      <4>3. QED
        BY <3>1, <4>2, InInside
    <3>2. CASE ~ (items = << >> /\ Blank(t, from + 1, to - 1))
      <4>1. PICK n \in 1 .. Len(t) : \E l \in Lists(t, Items(t, kind, spans))[n] :
              /\ from < l.from /\ Blank(t, from + 1, l.from - 1)
              /\ l.to < to /\ Blank(t, l.to + 1, to - 1)
              /\ items = l.value
        BY <1>0, <3>2, InInside
      <4>2. PICK l \in Lists(t, Items(t, kind, spans))[n] :
              /\ from < l.from /\ Blank(t, from + 1, l.from - 1)
              /\ l.to < to /\ Blank(t, l.to + 1, to - 1)
              /\ items = l.value
        BY <4>1
      <4>3. l.from \in 1 .. Len(t) /\ l.to \in 1 .. Len(t)
        <5>1. l.from \in 1 .. Len(t) /\ l.to \in l.from + n - 1 .. Len(t)
          BY ListsTyped
        <5>2. QED
          BY <1>0, <5>1
      <4>4. Shift(l, o) \in Lists(s, Items(s, kind, more))[n]
        <5>1. Carried(Items(t, kind, spans), Items(s, kind, more), o)
          BY ItemsShift
        <5>2. QED
          BY <5>1, ListsShift DEF Carried
      <4>5. Shift(l, o).from = l.from + o /\ Shift(l, o).to = l.to + o /\ Shift(l, o).value = items
        BY <4>2, Records DEF Shift
      <4>. DEFINE a == l.from
                  b == l.to
      <4>6. a \in 1 .. Len(t) /\ b \in 1 .. Len(t) /\ from < a /\ b < to
        BY <4>2, <4>3
      <4>7. Blank(t, from + 1, a - 1) /\ Blank(t, b + 1, to - 1)
        BY <4>2
      <4>. HIDE DEF a, b
      <4>8. /\ from + 1 \in Nat \ {0} /\ a - 1 \in Int /\ a - 1 =< Len(t)
            /\ b + 1 \in Nat \ {0} /\ to - 1 \in Int /\ to - 1 =< Len(t)
            /\ (from + 1) + o = (from + o) + 1 /\ (a - 1) + o = (a + o) - 1
            /\ (b + 1) + o = (b + o) + 1 /\ (to - 1) + o = (to + o) - 1
            /\ from + o < a + o /\ b + o < to + o /\ n \in DOMAIN s
        BY <1>0, <4>6
      <4>9. Blank(s, (from + 1) + o, (a - 1) + o) /\ Blank(s, (b + 1) + o, (to - 1) + o)
        BY <4>7, <4>8, BlankShift
      <4>10. Blank(s, (from + o) + 1, (a + o) - 1) /\ Blank(s, (b + o) + 1, (to + o) - 1)
        BY <4>8, <4>9
      <4>11. QED
        BY <4>4, <4>5, <4>8, <4>10, InInside DEF a, b
    <3>3. QED
      BY <3>1, <3>2
  <2>6. Shift(p, o) = Span(from + o, to + o, Meant(kind, items))
    BY <2>2, Records DEF Shift
  <2>7. QED
    BY <2>3, <2>4, <2>5, <2>6, InContainers
<1>2. QED
  BY <1>1 DEF Carried

LEMMA SpansShift ==
  ASSUME NEW s \in Text, NEW t \in Text, NEW o, Embeds(t, s, o)
  PROVE  \A depth \in 0 .. MaxParseDepth + 1 : Carried(Spans(t)[depth], Spans(s)[depth], o)
<1>. DEFINE Top == MaxParseDepth + 1
            Here(depth) == Carried(Spans(t)[depth], Spans(s)[depth], o)
            G == {m \in 0 .. Top : Here(Top - m)}
<1>0. /\ MaxParseDepth \in Nat /\ Len(s) \in Nat /\ Len(t) \in Nat /\ o \in Nat /\ o + Len(t) =< Len(s)
      /\ DOMAIN s = 1 .. Len(s) /\ DOMAIN t = 1 .. Len(t)
  BY JsonAssumption, SymFacts DEF Embeds
<1>1. 0 \in G
  <2>1. Top - 0 = Top
    BY <1>0
  <2>2. Here(Top)
    BY SpansFacts DEF Carried
  <2>. HIDE DEF Here
  <2>3. QED
    BY <1>0, <2>1, <2>2
<1>2. ASSUME NEW m \in 1 .. Top, m - 1 \in G PROVE m \in G
  <2>1. Top - m \in 0 .. MaxParseDepth /\ Top - (m - 1) = (Top - m) + 1
        /\ (Top - m) + 1 \in 0 .. Top
    BY <1>0
  <2>. DEFINE depth == Top - m
  <2>2. Here(depth + 1)
    <3>. HIDE DEF Here
    <3>1. QED
      BY <1>2, <2>1
  <2>3. depth \in 0 .. MaxParseDepth /\ depth + 1 \in 0 .. Top
    BY <2>1
  <2>. HIDE DEF depth
  <2>4. ASSUME NEW p \in Spans(t)[depth] PROVE Shift(p, o) \in Spans(s)[depth]
    <3>1. Agrees(t, ParseValue(t)[depth + 1], Spans(t)[depth + 1])
      BY <2>3, ParserAgrees
    <3>2. Spans(s)[depth] =
            {Span(i, i, Scalar(s[i])) : i \in {i \in DOMAIN s : s[i] \in Strings \cup Others}}
            \cup Containers(s, "array", Spans(s)[depth + 1])
            \cup Containers(s, "object", Spans(s)[depth + 1])
      BY <2>3, SpansFacts
    <3>3. \/ \E i \in DOMAIN t : t[i] \in Strings \cup Others /\ p = Span(i, i, Scalar(t[i]))
          \/ \E kind \in {"array", "object"} : p \in Containers(t, kind, Spans(t)[depth + 1])
      BY <2>3, SpansFacts
    <3>4. CASE \E i \in DOMAIN t : t[i] \in Strings \cup Others /\ p = Span(i, i, Scalar(t[i]))
      <4>1. PICK i \in DOMAIN t : t[i] \in Strings \cup Others /\ p = Span(i, i, Scalar(t[i]))
        BY <3>4
      <4>2. i + o \in DOMAIN s /\ i + o = o + i
        BY <1>0
      <4>3. s[i + o] = t[i]
        BY <1>0, <4>2 DEF Embeds
      <4>4. Shift(p, o) = Span(i + o, i + o, Scalar(s[i + o]))
        BY <4>1, <4>3, Records DEF Shift
      <4>5. QED
        BY <3>2, <4>1, <4>2, <4>3, <4>4
    <3>5. CASE \E kind \in {"array", "object"} : p \in Containers(t, kind, Spans(t)[depth + 1])
      <4>1. PICK kind \in {"array", "object"} : p \in Containers(t, kind, Spans(t)[depth + 1])
        BY <3>5
      <4>2. Typed(t, Spans(t)[depth + 1]) /\ Typed(t, Items(t, kind, Spans(t)[depth + 1]))
        <5>1. Agrees(t, ItemTable(t, ParseValue(t)[depth + 1], kind), Items(t, kind, Spans(t)[depth + 1]))
          BY <3>1, ItemsAgree
        <5>2. QED
          BY <3>1, <5>1 DEF Agrees
      <4>3. Shift(p, o) \in Containers(s, kind, Spans(s)[depth + 1])
        BY <2>2, <4>1, <4>2, ContainersShift DEF Carried
      <4>4. QED
        BY <3>2, <4>1, <4>3
    <3>6. QED
      BY <3>3, <3>4, <3>5
  <2>5. Here(depth)
    BY <2>4 DEF Carried
  <2>. HIDE DEF Here
  <2>6. QED
    BY <1>0, <2>5 DEF depth
<1>. HIDE DEF Here
<1>3. \A m \in 0 .. Top : m \in G
  <2>1. Top \in Nat
    BY <1>0
  <2>. HIDE DEF G, Top
  <2>2. QED
    BY <1>1, <1>2, <2>1, InductionToN
<1>4. ASSUME NEW depth \in 0 .. Top PROVE Here(depth)
  <2>1. Top - depth \in 0 .. Top /\ Top - (Top - depth) = depth
    BY <1>0
  <2>2. QED
    BY <1>3, <2>1
<1>5. QED
  BY <1>4 DEF Here

-----------------------------------------------------------------------------
(* What the writer writes. *)

LEMMA ConcatEmbeds ==
  ASSUME NEW u \in Text, NEW v \in Text
  PROVE  /\ u \o v \in Text /\ Len(u \o v) = Len(u) + Len(v)
         /\ Embeds(u, u \o v, 0) /\ Embeds(v, u \o v, Len(u))
<1>. DEFINE S == STRING \ {"end"}
            w == u \o v
<1>1. u \in Seq(S) /\ v \in Seq(S)
  BY DEF Text
<1>. HIDE DEF S
<1>2. /\ w \in Seq(S) /\ Len(w) = Len(u) + Len(v) /\ Len(u) \in Nat /\ Len(v) \in Nat
      /\ \A i \in 1 .. Len(u) : w[i] = u[i]
      /\ \A i \in 1 .. Len(v) : w[Len(u) + i] = v[i]
  BY <1>1
<1>. HIDE DEF w
<1>3. Embeds(u, w, 0) /\ Embeds(v, w, Len(u))
  BY <1>2 DEF Embeds
<1>4. QED
  BY <1>2, <1>3 DEF w, S, Text

LEMMA EmbedsThrough ==
  ASSUME NEW t \in Text, NEW u \in Text, NEW s \in Text, NEW o, NEW a, Embeds(t, u, o), Embeds(u, s, a)
  PROVE  Embeds(t, s, o + a)
<1>1. Len(t) \in Nat /\ Len(u) \in Nat /\ Len(s) \in Nat /\ o \in Nat /\ a \in Nat
      /\ o + Len(t) =< Len(u) /\ a + Len(u) =< Len(s)
  BY SymFacts DEF Embeds
<1>2. ASSUME NEW i \in 1 .. Len(t) PROVE s[(o + a) + i] = t[i]
  <2>1. o + i \in 1 .. Len(u) /\ (o + a) + i = a + (o + i)
    BY <1>1
  <2>2. QED
    BY <2>1 DEF Embeds
<1>3. QED
  BY <1>1, <1>2 DEF Embeds

LEMMA SymbolText ==
  ASSUME NEW x \in STRING \ {"end"}
  PROVE  <<x>> \in Text /\ Len(<<x>>) = 1 /\ <<x>>[1] = x
BY DEF Text

LEMMA SeparatorText ==
  ASSUME NEW sep, sep = <<"valueSeparator">>
  PROVE  sep \in Text /\ Len(sep) = 1 /\ sep[1] = "valueSeparator"
<1>. DEFINE x == "valueSeparator"
<1>1. x \in STRING
  BY JsonAssumption DEF Structure
<1>2. x # "end"
  OBVIOUS
<1>3. sep = <<x>>
  OBVIOUS
<1>. HIDE DEF x
<1>4. sep \in Text /\ Len(sep) = 1 /\ sep[1] = x
  BY <1>1, <1>2, <1>3, SymbolText
<1>5. QED
  BY <1>4 DEF x

LEMMA SpansTyped ==
  ASSUME NEW s \in Text, NEW depth \in 0 .. MaxParseDepth + 1, NEW kind \in {"array", "object"}
  PROVE  /\ Typed(s, Spans(s)[depth])
         /\ Typed(s, Items(s, kind, Spans(s)[depth]))
<1>1. Agrees(s, ParseValue(s)[depth], Spans(s)[depth])
  BY ParserAgrees
<1>2. Agrees(s, ItemTable(s, ParseValue(s)[depth], kind), Items(s, kind, Spans(s)[depth]))
  BY <1>1, ItemsAgree
<1>3. QED
  BY <1>1, <1>2 DEF Agrees

\* Items and lists of a text are those of a longer one that it stands in.
LEMMA PartsCarried ==
  ASSUME NEW s \in Text, NEW t \in Text, NEW o, Embeds(t, s, o),
         NEW depth \in 0 .. MaxParseDepth + 1, NEW kind \in {"array", "object"}
  PROVE  /\ Carried(Items(t, kind, Spans(t)[depth]), Items(s, kind, Spans(s)[depth]), o)
         /\ \A n \in 1 .. Len(t) :
              Carried(Lists(t, Items(t, kind, Spans(t)[depth]))[n],
                      Lists(s, Items(s, kind, Spans(s)[depth]))[n], o)
<1>1. Carried(Spans(t)[depth], Spans(s)[depth], o)
  BY SpansShift
<1>2. Typed(t, Spans(t)[depth]) /\ Typed(t, Items(t, kind, Spans(t)[depth]))
  BY SpansTyped
<1>3. Carried(Items(t, kind, Spans(t)[depth]), Items(s, kind, Spans(s)[depth]), o)
  BY <1>1, <1>2, ItemsShift
<1>4. QED
  BY <1>2, <1>3, ListsShift

\* Parts with commas between them are a list.
LEMMA WrittenList ==
  ASSUME NEW depth \in 0 .. MaxParseDepth + 1, NEW kind \in {"array", "object"},
         NEW S, NEW items \in Seq(S), NEW parts, Len(parts) = Len(items),
         \A k \in 1 .. Len(items) :
           /\ parts[k] \in Text /\ Len(parts[k]) >= 1
           /\ Span(1, Len(parts[k]), items[k]) \in Items(parts[k], kind, Spans(parts[k])[depth])
  PROVE  \A k \in 1 .. Len(items) :
           LET w == WithCommas(parts)[k]
           IN  /\ w \in Text /\ Len(w) >= k
               /\ Span(1, Len(w), SubSeq(items, 1, k)) \in Lists(w, Items(w, kind, Spans(w)[depth]))[k]
<1>. DEFINE n == Len(items)
            Listed(k) == LET w == WithCommas(parts)[k]
                         IN  /\ w \in Text /\ Len(w) >= k
                             /\ Span(1, Len(w), SubSeq(items, 1, k)) \in
                                  Lists(w, Items(w, kind, Spans(w)[depth]))[k]
            G == {k \in 0 .. n : k # 0 => Listed(k)}
            sep == <<"valueSeparator">>
<1>0. n \in Nat
  OBVIOUS
<1>1. /\ WithCommas(parts)[0] = << >>
      /\ \A k \in 1 .. n :
           WithCommas(parts)[k] =
             WithCommas(parts)[k - 1] \o (IF k = 1 THEN << >> ELSE sep) \o parts[k]
  BY <1>0, WithCommasFacts
<1>2. ASSUME NEW k \in 1 .. n, k - 1 \in G PROVE Listed(k)
  <2>. DEFINE p == parts[k]
              w == WithCommas(parts)[k]
  <2>1. /\ p \in Text /\ Len(p) \in Nat /\ Len(p) >= 1
        /\ Span(1, Len(p), items[k]) \in Items(p, kind, Spans(p)[depth])
    BY SymFacts
  <2>2. CASE k = 1
    <3>1. w = << >> \o << >> \o p
      <4>1. WithCommas(parts)[k] = WithCommas(parts)[k - 1] \o (IF k = 1 THEN << >> ELSE sep) \o parts[k]
        BY <1>1
      <4>2. k - 1 = 0
        BY <2>2
      <4>. HIDE DEF sep
      <4>3. QED
        BY <1>1, <2>2, <4>1, <4>2
    <3>2. << >> \o << >> \o p = p
      <4>1. p \in Seq(STRING)
        BY <2>1 DEF Text
      <4>. HIDE DEF p
      <4>2. QED
        BY <4>1
    <3>3. w = p
      BY <3>1, <3>2
    <3>4. SubSeq(items, 1, 1) = <<items[1]>>
      <4>1. 1 \in 1 .. n
        BY <1>0, <2>2
      <4>2. /\ SubSeq(items, 1, 1) \in Seq(S) /\ Len(SubSeq(items, 1, 1)) = 1
            /\ SubSeq(items, 1, 1)[1] = items[1]
        BY <4>1
      <4>3. \A x \in Seq(S) : Len(x) = 1 => x = <<x[1]>>
        OBVIOUS
      <4>4. QED
        BY <4>2, <4>3
    <3>. DEFINE item == Span(1, Len(p), items[k])
    <3>5. /\ item.from = 1 /\ item.to = Len(p) /\ item.value = items[k]
          /\ item \in Items(p, kind, Spans(p)[depth])
      BY <2>1, Records
    <3>. HIDE DEF item
    <3>6. Span(item.from, item.to, <<item.value>>) \in Lists(p, Items(p, kind, Spans(p)[depth]))[1]
      <4>1. 1 \in 1 .. Len(p)
        BY <2>1
      <4>. HIDE DEF p
      <4>2. Lists(p, Items(p, kind, Spans(p)[depth]))[1] =
              {Span(x.from, x.to, <<x.value>>) : x \in Items(p, kind, Spans(p)[depth])}
        BY <2>1, <4>1, ListsFacts
      <4>3. QED
        BY <3>5, <4>2
    <3>7. Span(1, Len(p), SubSeq(items, 1, k)) \in Lists(p, Items(p, kind, Spans(p)[depth]))[k]
      BY <2>2, <3>4, <3>5, <3>6
    <3>8. QED
      BY <2>1, <2>2, <3>3, <3>7
  <2>3. CASE k # 1
    <3>. DEFINE u == WithCommas(parts)[k - 1]
                uc == u \o sep
                sub == SubSeq(items, 1, k - 1)
                list == Span(1, Len(u), sub)
                item == Span(1, Len(p), items[k])
    <3>0. k - 1 # 0 /\ k - 1 \in 1 .. n
      BY <1>0, <2>3
    <3>1. /\ u \in Text /\ Len(u) \in Nat /\ Len(u) >= k - 1
          /\ list \in Lists(u, Items(u, kind, Spans(u)[depth]))[k - 1]
      <4>1. Listed(k - 1)
        <5>. HIDE DEF Listed
        <5>1. QED
          BY <1>2, <3>0
      <4>2. QED
        BY <4>1, SymFacts
    <3>2. w = uc \o p
      BY <1>1, <2>3
    <3>3. sep \in Text /\ Len(sep) = 1 /\ sep[1] = "valueSeparator"
      BY SeparatorText
    <3>. HIDE DEF sep, u, p, w
    <3>4. /\ uc \in Text /\ Len(uc) = Len(u) + 1
          /\ Embeds(u, uc, 0) /\ Embeds(sep, uc, Len(u))
      BY <3>1, <3>3, ConcatEmbeds
    <3>. HIDE DEF uc
    <3>5. /\ w \in Text /\ Len(w) = Len(u) + 1 + Len(p)
          /\ Embeds(uc, w, 0) /\ Embeds(p, w, Len(u) + 1)
      BY <2>1, <3>2, <3>4, ConcatEmbeds
    <3>6. Embeds(u, w, 0)
      <4>1. Embeds(u, w, 0 + 0)
        BY <3>1, <3>4, <3>5, EmbedsThrough
      <4>2. QED
        BY <4>1
    <3>7. w[Len(u) + 1] = "valueSeparator"
      <4>1. Embeds(sep, w, Len(u) + 0)
        BY <3>3, <3>4, <3>5, EmbedsThrough
      <4>2. (Len(u) + 0) + 1 = Len(u) + 1 /\ 1 \in 1 .. Len(sep)
        BY <3>1, <3>3
      <4>3. QED
        BY <3>3, <4>1, <4>2 DEF Embeds
    <3>8. list \in Lists(w, Items(w, kind, Spans(w)[depth]))[k - 1]
      <4>1. k - 1 \in 1 .. Len(u)
        BY <1>0, <3>0, <3>1
      <4>2. Shift(list, 0) \in Lists(w, Items(w, kind, Spans(w)[depth]))[k - 1]
        BY <3>1, <3>5, <3>6, <4>1, PartsCarried DEF Carried
      <4>3. Shift(list, 0) = list
        BY <3>1, Records DEF Shift
      <4>4. QED
        BY <4>2, <4>3
    <3>9. Shift(item, Len(u) + 1) \in Items(w, kind, Spans(w)[depth])
      BY <2>1, <3>5, PartsCarried DEF Carried
    <3>10. /\ Shift(item, Len(u) + 1).from = Len(u) + 2 /\ Shift(item, Len(u) + 1).to = Len(w)
           /\ Shift(item, Len(u) + 1).value = items[k]
      <4>1. 1 + (Len(u) + 1) = Len(u) + 2 /\ Len(p) + (Len(u) + 1) = Len(w)
        BY <2>1, <3>1, <3>5
      <4>2. QED
        BY <4>1, Records DEF Shift
    <3>11. Separates(w, "valueSeparator", Len(u), Len(u) + 2)
      <4>1. Len(u) + 1 \in Len(u) + 1 .. (Len(u) + 2) - 1
        BY <3>1
      <4>2. Blank(w, Len(u) + 1, (Len(u) + 1) - 1) /\ Blank(w, (Len(u) + 1) + 1, (Len(u) + 2) - 1)
        BY <3>1 DEF Blank
      <4>3. QED
        BY <3>7, <4>1, <4>2 DEF Separates
    <3>12. list.from = 1 /\ list.to = Len(u) /\ list.value = sub
      BY DEF Span
    <3>13. k \in 2 .. Len(w) /\ Len(w) >= k
      BY <1>0, <2>1, <2>3, <3>1, <3>5
    <3>14. Append(sub, items[k]) = SubSeq(items, 1, k)
      <4>1. /\ sub \in Seq(S) /\ Len(sub) = k - 1
            /\ \A i \in 1 .. k - 1 : sub[i] = items[i]
        BY <1>0, <3>0
      <4>2. items[k] \in S
        OBVIOUS
      <4>. HIDE DEF sub
      <4>3. /\ Append(sub, items[k]) \in Seq(S) /\ Len(Append(sub, items[k])) = k
            /\ \A i \in 1 .. k : Append(sub, items[k])[i] = items[i]
        BY <4>1, <4>2
      <4>4. /\ SubSeq(items, 1, k) \in Seq(S) /\ Len(SubSeq(items, 1, k)) = k
            /\ \A i \in 1 .. k : SubSeq(items, 1, k)[i] = items[i]
        BY <1>0
      <4>5. QED
        BY <4>3, <4>4
    <3>. DEFINE next == Shift(item, Len(u) + 1)
    <3>. HIDE DEF list, sub, next
    <3>15. Span(list.from, next.to, Append(list.value, next.value)) \in
             Lists(w, Items(w, kind, Spans(w)[depth]))[k]
      <4>1. Separates(w, "valueSeparator", list.to, next.from)
        BY <3>10, <3>11, <3>12 DEF next
      <4>2. next \in Items(w, kind, Spans(w)[depth])
        BY <3>9 DEF next
      <4>3. QED
        BY <3>5, <3>8, <3>13, <4>1, <4>2, ListsFacts
    <3>16. Span(1, Len(w), SubSeq(items, 1, k)) \in Lists(w, Items(w, kind, Spans(w)[depth]))[k]
      BY <3>10, <3>12, <3>14, <3>15 DEF next
    <3>17. QED
      BY <3>5, <3>13, <3>16 DEF w
  <2>4. QED
    BY <2>2, <2>3
<1>. HIDE DEF Listed
<1>3. \A k \in 0 .. n : k \in G
  <2>1. 0 \in G
    BY <1>0
  <2>2. \A k \in 1 .. n : k - 1 \in G => k \in G
    BY <1>0, <1>2
  <2>. HIDE DEF G, n
  <2>3. QED
    BY <1>0, <2>1, <2>2, InductionToN
<1>4. \A k \in 1 .. n : Listed(k)
  <2>1. TAKE k \in 1 .. n
  <2>2. k \in 0 .. n /\ k # 0
    BY <1>0
  <2>3. QED
    BY <1>3, <2>2
<1>5. QED
  BY <1>4 DEF Listed

LEMMA BracketText ==
  ASSUME NEW kind \in {"array", "object"}
  PROVE  /\ <<Begin(kind)>> \in Text /\ Len(<<Begin(kind)>>) = 1 /\ <<Begin(kind)>>[1] = Begin(kind)
         /\ <<End(kind)>> \in Text /\ Len(<<End(kind)>>) = 1 /\ <<End(kind)>>[1] = End(kind)
<1>1. Begin(kind) \in STRING \ {"end"} /\ End(kind) \in STRING \ {"end"}
  BY JsonAssumption DEF Structure, Begin, End
<1>2. QED
  BY <1>1, SymbolText

\* A list between brackets is a container.
LEMMA WrittenContainer ==
  ASSUME NEW depth \in 0 .. MaxParseDepth + 1, NEW kind \in {"array", "object"},
         NEW S, NEW items \in Seq(S), NEW parts, Len(parts) = Len(items),
         \A k \in 1 .. Len(items) :
           /\ parts[k] \in Text /\ Len(parts[k]) >= 1
           /\ Span(1, Len(parts[k]), items[k]) \in Items(parts[k], kind, Spans(parts[k])[depth])
  PROVE  LET t == <<Begin(kind)>> \o WithCommas(parts)[Len(items)] \o <<End(kind)>>
         IN  /\ t \in Text /\ Len(t) >= 1
             /\ Span(1, Len(t), Meant(kind, items)) \in Containers(t, kind, Spans(t)[depth])
<1>. DEFINE n == Len(items)
            w == WithCommas(parts)[n]
            open == <<Begin(kind)>>
            close == <<End(kind)>>
            front == open \o w
            t == front \o close
            none == << >>
<1>0. n \in Nat
  OBVIOUS
<1>1. n = 0 => w = none /\ items = none
  <2>1. WithCommas(parts)[0] = none
    <3>. HIDE DEF n
    <3>1. QED
      BY <1>0, WithCommasFacts DEF n
  <2>2. n = 0 => items = none
    OBVIOUS
  <2>. HIDE DEF n, none
  <2>3. QED
    BY <2>1, <2>2
<1>2. n # 0 => /\ w \in Text /\ Len(w) >= n
               /\ Span(1, Len(w), items) \in Lists(w, Items(w, kind, Spans(w)[depth]))[n]
  <2>1. SUFFICES ASSUME n # 0 PROVE /\ w \in Text /\ Len(w) >= n
               /\ Span(1, Len(w), items) \in Lists(w, Items(w, kind, Spans(w)[depth]))[n]
    OBVIOUS
  <2>2. n \in 1 .. n
    BY <1>0, <2>1
  <2>3. /\ w \in Text /\ Len(w) >= n
        /\ Span(1, Len(w), SubSeq(items, 1, n)) \in Lists(w, Items(w, kind, Spans(w)[depth]))[n]
    <3>. HIDE DEF n
    <3>1. \A k \in 1 .. Len(items) :
           LET v == WithCommas(parts)[k]
           IN  /\ v \in Text /\ Len(v) >= k
               /\ Span(1, Len(v), SubSeq(items, 1, k)) \in Lists(v, Items(v, kind, Spans(v)[depth]))[k]
      BY WrittenList
    <3>2. QED
      BY <2>2, <3>1 DEF n
  <2>4. SubSeq(items, 1, n) = items
    BY <1>0
  <2>5. QED
    BY <2>3, <2>4
<1>3. none \in Text /\ Len(none) = 0
  BY DEF Text
<1>4. w \in Text /\ Len(w) \in Nat
  <2>1. w \in Text
    <3>. HIDE DEF none, w
    <3>1. QED
      BY <1>1, <1>2, <1>3
  <2>2. QED
    BY <2>1, SymFacts
<1>5. /\ open \in Text /\ Len(open) = 1 /\ open[1] = Begin(kind)
      /\ close \in Text /\ Len(close) = 1 /\ close[1] = End(kind)
  BY BracketText
<1>. HIDE DEF n, w, open, close, none
<1>6. /\ front \in Text /\ Len(front) = 1 + Len(w)
      /\ Embeds(open, front, 0) /\ Embeds(w, front, 1)
  BY <1>4, <1>5, ConcatEmbeds
<1>. HIDE DEF front
<1>7. /\ t \in Text /\ Len(t) = Len(w) + 2
      /\ Embeds(front, t, 0) /\ Embeds(close, t, 1 + Len(w))
  <2>1. /\ t \in Text /\ Len(t) = Len(front) + Len(close)
        /\ Embeds(front, t, 0) /\ Embeds(close, t, Len(front))
    BY <1>5, <1>6, ConcatEmbeds
  <2>2. Len(front) = 1 + Len(w) /\ Len(front) + Len(close) = Len(w) + 2
    BY <1>4, <1>5, <1>6
  <2>3. QED
    BY <2>1, <2>2
<1>. HIDE DEF t
<1>8. t[1] = Begin(kind) /\ t[Len(t)] = End(kind)
  <2>1. Embeds(open, t, 0 + 0)
    BY <1>5, <1>6, <1>7, EmbedsThrough
  <2>2. t[(0 + 0) + 1] = open[1] /\ t[(1 + Len(w)) + 1] = close[1]
    BY <1>5, <1>7, <2>1 DEF Embeds
  <2>3. (1 + Len(w)) + 1 = Len(t) /\ (0 + 0) + 1 = 1
    BY <1>4, <1>7
  <2>4. QED
    BY <1>5, <2>2, <2>3
<1>9. Embeds(w, t, 1)
  <2>1. Embeds(w, t, 1 + 0) /\ 1 + 0 = 1
    BY <1>4, <1>6, <1>7, EmbedsThrough
  <2>2. Embeds(w, t, 0 + 1) /\ 0 + 1 = 1
    BY <1>4, <1>6, <1>7, EmbedsThrough
  <2>3. QED
    BY <2>1
<1>10. items \in Inside(t, kind, Spans(t)[depth], 1, Len(t))
  <2>1. CASE n = 0
    <3>1. Len(t) = 2
      BY <1>1, <1>3, <1>7, <2>1
    <3>2. Blank(t, 1 + 1, Len(t) - 1)
      BY <3>1 DEF Blank
    <3>3. QED
      BY <1>1, <2>1, <3>2, InInside DEF none
  <2>2. CASE n # 0
    <3>. DEFINE l == Span(1, Len(w), items)
    <3>1. n \in 1 .. Len(w) /\ l \in Lists(w, Items(w, kind, Spans(w)[depth]))[n]
      BY <1>0, <1>2, <1>4, <2>2
    <3>2. Shift(l, 1) \in Lists(t, Items(t, kind, Spans(t)[depth]))[n]
      BY <1>4, <1>7, <1>9, <3>1, PartsCarried DEF Carried
    <3>3. Shift(l, 1).from = 2 /\ Shift(l, 1).to = Len(w) + 1 /\ Shift(l, 1).value = items
      <4>1. 1 + 1 = 2
        OBVIOUS
      <4>2. QED
        BY <4>1, Records DEF Shift
    <3>. HIDE DEF l
    <3>4. /\ 1 < Shift(l, 1).from /\ Shift(l, 1).to < Len(t)
          /\ Blank(t, 1 + 1, Shift(l, 1).from - 1) /\ Blank(t, Shift(l, 1).to + 1, Len(t) - 1)
      BY <1>4, <1>7, <3>3 DEF Blank
    <3>5. n \in DOMAIN t
      BY <1>4, <1>7, <3>1, SymFacts
    <3>6. QED
      BY <3>2, <3>3, <3>4, <3>5, InInside
  <2>3. QED
    BY <2>1, <2>2
<1>11. Span(1, Len(t), Meant(kind, items)) \in Containers(t, kind, Spans(t)[depth])
  <2>1. 1 \in DOMAIN t /\ Len(t) \in DOMAIN t /\ 1 < Len(t)
    BY <1>4, <1>7, SymFacts
  <2>2. QED
    BY <1>8, <1>10, <2>1, InContainers
<1>12. Len(t) >= 1
  BY <1>4, <1>7
<1>13. QED
  BY <1>7, <1>11, <1>12 DEF t, front, open, close, w, n

\* A name, a colon and what a value is written as are a member.
LEMMA NamedPart ==
  ASSUME NEW depth \in 0 .. MaxParseDepth + 1, NEW key \in Strings, NEW v, NEW u \in Text, Len(u) >= 1,
         Span(1, Len(u), v) \in Spans(u)[depth]
  PROVE  LET p == <<key, "nameSeparator">> \o u
         IN  /\ p \in Text /\ Len(p) >= 1
             /\ Span(1, Len(p), <<key, v>>) \in Items(p, "object", Spans(p)[depth])
<1>. DEFINE x == "nameSeparator"
            head == <<key, x>>
            p == head \o u
            q == Span(1, Len(u), v)
<1>1. x \in STRING \ {"end"} /\ key \in STRING \ {"end"}
  BY JsonAssumption DEF Structure
<1>. HIDE DEF x
<1>2. head \in Text /\ Len(head) = 2 /\ head[1] = key /\ head[2] = x
  BY <1>1 DEF Text
<1>3. Len(u) \in Nat
  BY SymFacts
<1>. HIDE DEF head
<1>4. /\ p \in Text /\ Len(p) = 2 + Len(u)
      /\ Embeds(head, p, 0) /\ Embeds(u, p, 2)
  <2>1. /\ p \in Text /\ Len(p) = Len(head) + Len(u)
        /\ Embeds(head, p, 0) /\ Embeds(u, p, Len(head))
    BY <1>2, ConcatEmbeds
  <2>2. QED
    BY <1>2, <2>1
<1>. HIDE DEF p
<1>5. p[1] = key /\ p[2] = x
  <2>1. p[0 + 1] = head[1] /\ p[0 + 2] = head[2]
    BY <1>2, <1>4 DEF Embeds
  <2>2. QED
    BY <1>2, <2>1
<1>6. Shift(q, 2) \in Spans(p)[depth]
  BY <1>4, SpansShift DEF Carried
<1>7. Shift(q, 2).from = 3 /\ Shift(q, 2).to = Len(p) /\ Shift(q, 2).value = v
  <2>1. 1 + 2 = 3 /\ Len(u) + 2 = Len(p)
    BY <1>3, <1>4
  <2>2. QED
    BY <2>1, Records DEF Shift
<1>. DEFINE r == Shift(q, 2)
<1>. HIDE DEF r, q
<1>8. Separates(p, x, 1, r.from)
  <2>1. 2 \in 1 + 1 .. r.from - 1 /\ Blank(p, 1 + 1, 2 - 1) /\ Blank(p, 2 + 1, r.from - 1)
    BY <1>7 DEF r, Blank
  <2>2. QED
    BY <1>5, <2>1 DEF Separates
<1>9. Span(1, r.to, <<p[1], r.value>>) \in Items(p, "object", Spans(p)[depth])
  <2>1. 1 \in DOMAIN p /\ r \in Spans(p)[depth] /\ p[1] \in Strings
    BY <1>3, <1>4, <1>5, <1>6, SymFacts DEF r
  <2>2. QED
    BY <1>8, <2>1, ItemsOfObject DEF x
<1>10. Span(1, Len(p), <<key, v>>) \in Items(p, "object", Spans(p)[depth])
  BY <1>5, <1>7, <1>9 DEF r
<1>11. Len(p) >= 1
  BY <1>3, <1>4
<1>12. QED
  BY <1>4, <1>10, <1>11 DEF p, head, x

\* What a value is written as is derived as that value.
Written(depth, value) ==
  /\ Dump[depth][value] \in Text /\ Len(Dump[depth][value]) >= 1
  /\ Span(1, Len(Dump[depth][value]), value) \in Spans(Dump[depth][value])[depth]

LEMMA ScalarWritten ==
  ASSUME NEW depth \in 0 .. MaxParseDepth, NEW x \in Strings \cup Others
  PROVE  Written(depth, Scalar(x))
<1>. DEFINE v == Scalar(x)
            t == <<x>>
<1>1. v.kind = "scalar" /\ v.of = x /\ v \in [kind : {"scalar"}, of : Strings \cup Others]
  BY DEF Scalar
<1>2. v \in Values[depth]
  BY <1>1, ValuesFacts
<1>. HIDE DEF v
<1>3. Dump[depth][v] = t
  BY <1>1, <1>2, DumpFacts
<1>4. x \in STRING \ {"end"}
  BY JsonAssumption
<1>5. t \in Text /\ Len(t) = 1 /\ t[1] = x
  BY <1>4, SymbolText
<1>. HIDE DEF t
<1>6. Span(1, 1, Scalar(t[1])) \in Spans(t)[depth]
  <2>1. 1 \in DOMAIN t /\ t[1] \in Strings \cup Others
    BY <1>5, SymFacts
  <2>2. QED
    BY <1>5, <2>1, SpansFacts
<1>7. Span(1, Len(t), v) \in Spans(t)[depth]
  BY <1>5, <1>6 DEF v
<1>8. QED
  BY <1>3, <1>5, <1>7 DEF Written, v

\* A container is, if its parts are, one level down.
LEMMA ContainerWritten ==
  ASSUME NEW depth \in 0 .. MaxParseDepth, NEW kind \in {"array", "object"},
         NEW S, NEW items \in Seq(S), Container(kind, items) \in Values[depth],
         Meant(kind, items) = Container(kind, items),
         NEW parts,
         parts = [i \in 1 .. Len(items) |-> IF kind = "array" THEN Dump[depth + 1][items[i]]
                    ELSE <<items[i][1], "nameSeparator">> \o Dump[depth + 1][items[i][2]]],
         \A i \in 1 .. Len(items) :
           /\ parts[i] \in Text /\ Len(parts[i]) >= 1
           /\ Span(1, Len(parts[i]), items[i]) \in Items(parts[i], kind, Spans(parts[i])[depth + 1])
  PROVE  Written(depth, Container(kind, items))
<1>. DEFINE v == Container(kind, items)
            t == <<Begin(kind)>> \o WithCommas(parts)[Len(items)] \o <<End(kind)>>
            made == [i \in DOMAIN v.of |->
                       IF v.kind = "array" THEN Dump[depth + 1][v.of[i]]
                       ELSE <<v.of[i][1], "nameSeparator">> \o Dump[depth + 1][v.of[i][2]]]
<1>1. v.kind = kind /\ v.of = items /\ v.kind # "scalar" /\ DOMAIN v.of = 1 .. Len(items)
  BY DEF Container
<1>2. made = parts
  BY <1>1
<1>. HIDE DEF v
<1>3. Dump[depth][v] = t
  <2>1. v \in Values[depth]
    BY DEF v
  <2>2. Dump[depth][v] = IF v.kind = "scalar" THEN <<v.of>>
           ELSE <<Begin(v.kind)>> \o WithCommas(made)[Len(v.of)] \o <<End(v.kind)>>
    BY <2>1, DumpFacts
  <2>. HIDE DEF made
  <2>3. QED
    BY <1>1, <1>2, <2>2
<1>4. Len(parts) = Len(items)
  <2>1. parts = [i \in 1 .. Len(items) |-> parts[i]] /\ Len(items) \in Nat
    OBVIOUS
  <2>2. parts \in [1 .. Len(items) -> Text]
    BY <2>1
  <2>3. QED
    BY <2>1, <2>2
<1>5. depth + 1 \in 0 .. MaxParseDepth + 1
  BY JsonAssumption
<1>6. /\ t \in Text /\ Len(t) >= 1
      /\ Span(1, Len(t), Meant(kind, items)) \in Containers(t, kind, Spans(t)[depth + 1])
  BY <1>4, <1>5, WrittenContainer
<1>. HIDE DEF t
<1>7. Span(1, Len(t), v) \in Spans(t)[depth]
  <2>1. Span(1, Len(t), v) \in Containers(t, kind, Spans(t)[depth + 1])
    BY <1>6 DEF v
  <2>2. QED
    BY <1>6, <2>1, SpansFacts
<1>8. QED
  BY <1>3, <1>6, <1>7 DEF Written, v

LEMMA ArrayWritten ==
  ASSUME NEW depth \in 0 .. MaxParseDepth, \A x \in Values[depth + 1] : Written(depth + 1, x),
         NEW items \in Seq(Values[depth + 1]), Container("array", items) \in Values[depth]
  PROVE  Written(depth, Container("array", items))
<1>. DEFINE V == Values[depth + 1]
            kind == "array"
            parts == [i \in 1 .. Len(items) |-> IF kind = "array" THEN Dump[depth + 1][items[i]]
                        ELSE <<items[i][1], "nameSeparator">> \o Dump[depth + 1][items[i][2]]]
<1>1. \A spans, s : Items(s, kind, spans) = spans
  BY DEF Items
<1>2. Meant(kind, items) = Container(kind, items)
  BY DEF Meant
<1>3. ASSUME NEW i \in 1 .. Len(items)
      PROVE  /\ parts[i] \in Text /\ Len(parts[i]) >= 1
             /\ Span(1, Len(parts[i]), items[i]) \in Items(parts[i], kind, Spans(parts[i])[depth + 1])
  <2>1. parts[i] = Dump[depth + 1][items[i]] /\ items[i] \in V
    OBVIOUS
  <2>. HIDE DEF parts, kind
  <2>2. QED
    BY <1>1, <2>1 DEF Written
<1>4. kind \in {"array", "object"} /\ items \in Seq(V) /\ Container(kind, items) \in Values[depth]
  OBVIOUS
<1>. HIDE DEF V, kind
<1>5. Written(depth, Container(kind, items))
  <2>. DEFINE p == parts
  <2>1. /\ p = parts
        /\ \A i \in 1 .. Len(items) :
             /\ p[i] \in Text /\ Len(p[i]) >= 1
             /\ Span(1, Len(p[i]), items[i]) \in Items(p[i], kind, Spans(p[i])[depth + 1])
    <3>. HIDE DEF parts
    <3>1. QED
      BY <1>3
  <2>. HIDE DEF p
  <2>2. QED
    BY <1>2, <1>4, <2>1, ContainerWritten
<1>6. QED
  BY <1>5 DEF kind

LEMMA ObjectWritten ==
  ASSUME NEW depth \in 0 .. MaxParseDepth, \A x \in Values[depth + 1] : Written(depth + 1, x),
         NEW items \in Seq(Strings \X Values[depth + 1]), Container("object", items) \in Values[depth],
         \A i, j \in DOMAIN items : items[i][1] = items[j][1] => i = j
  PROVE  Written(depth, Container("object", items))
<1>. DEFINE V == Values[depth + 1]
            S == Strings \X V
            kind == "object"
            parts == [i \in 1 .. Len(items) |-> IF kind = "array" THEN Dump[depth + 1][items[i]]
                        ELSE <<items[i][1], "nameSeparator">> \o Dump[depth + 1][items[i][2]]]
<1>1. depth + 1 \in 0 .. MaxParseDepth + 1
  BY JsonAssumption
<1>2. Meant(kind, items) = Container(kind, items)
  <2>1. Merge(items) = items
    <3>. HIDE DEF S
    <3>1. items \in Seq(S)
      BY DEF S
    <3>2. QED
      BY <3>1, MergeDistinct
  <2>2. QED
    BY <2>1 DEF Meant
<1>3. ASSUME NEW i \in 1 .. Len(items)
      PROVE  /\ parts[i] \in Text /\ Len(parts[i]) >= 1
             /\ Span(1, Len(parts[i]), items[i]) \in Items(parts[i], kind, Spans(parts[i])[depth + 1])
  <2>. DEFINE key == items[i][1]
              v == items[i][2]
              u == Dump[depth + 1][v]
  <2>1. parts[i] = <<key, "nameSeparator">> \o u
    OBVIOUS
  <2>2. key \in Strings /\ v \in V /\ items[i] = <<key, v>>
    <3>1. items[i] \in Strings \X V
      OBVIOUS
    <3>. HIDE DEF V
    <3>2. QED
      BY <3>1
  <2>3. u \in Text /\ Len(u) >= 1 /\ Span(1, Len(u), v) \in Spans(u)[depth + 1]
    BY <2>2 DEF Written
  <2>. HIDE DEF parts, key, v, u
  <2>4. /\ parts[i] \in Text /\ Len(parts[i]) >= 1
        /\ Span(1, Len(parts[i]), <<key, v>>) \in Items(parts[i], "object", Spans(parts[i])[depth + 1])
    BY <1>1, <2>1, <2>2, <2>3, NamedPart
  <2>5. QED
    BY <2>2, <2>4
<1>4. kind \in {"array", "object"} /\ items \in Seq(S) /\ Container(kind, items) \in Values[depth]
  OBVIOUS
<1>. HIDE DEF S, V, kind
<1>5. Written(depth, Container(kind, items))
  <2>. DEFINE p == parts
  <2>1. /\ p = parts
        /\ \A i \in 1 .. Len(items) :
             /\ p[i] \in Text /\ Len(p[i]) >= 1
             /\ Span(1, Len(p[i]), items[i]) \in Items(p[i], kind, Spans(p[i])[depth + 1])
    <3>. HIDE DEF parts
    <3>1. QED
      BY <1>3
  <2>. HIDE DEF p
  <2>2. QED
    BY <1>2, <1>4, <2>1, ContainerWritten
<1>6. QED
  BY <1>5 DEF kind

LEMMA WrittenMeans == \A depth \in 0 .. MaxParseDepth + 1 : \A v \in Values[depth] : Written(depth, v)
<1>. DEFINE Top == MaxParseDepth + 1
            All(depth) == \A v \in Values[depth] : Written(depth, v)
            G == {m \in 0 .. Top : All(Top - m)}
<1>0. MaxParseDepth \in Nat
  BY JsonAssumption
<1>1. 0 \in G
  <2>1. Top - 0 = Top
    BY <1>0
  <2>2. All(Top)
    BY ValuesFacts
  <2>. HIDE DEF All
  <2>3. QED
    BY <1>0, <2>1, <2>2
<1>2. ASSUME NEW m \in 1 .. Top, m - 1 \in G PROVE m \in G
  <2>1. Top - m \in 0 .. MaxParseDepth /\ Top - (m - 1) = (Top - m) + 1
    BY <1>0
  <2>. DEFINE depth == Top - m
  <2>2. All(depth + 1)
    <3>. HIDE DEF All
    <3>1. QED
      BY <1>2, <2>1
  <2>3. depth \in 0 .. MaxParseDepth
    BY <2>1
  <2>. HIDE DEF depth
  <2>4. ASSUME NEW v \in Values[depth] PROVE Written(depth, v)
    <3>. DEFINE V == Values[depth + 1]
                Scalars == [kind : {"scalar"}, of : Strings \cup Others]
                Arrays == [kind : {"array"}, of : Seq(V)]
                Objects == [kind : {"object"},
                            of : {members \in Seq(Strings \X V) :
                                    \A i, j \in DOMAIN members : members[i][1] = members[j][1] => i = j}]
    <3>1. Values[depth] = Scalars \cup Arrays \cup Objects
      BY <2>3, ValuesFacts
    <3>2. CASE v \in Scalars
      <4>1. v.of \in Strings \cup Others /\ v = Scalar(v.of)
        BY <3>2 DEF Scalar
      <4>2. QED
        BY <2>3, <4>1, ScalarWritten
    <3>3. CASE v \in Arrays
      <4>1. v.of \in Seq(V) /\ v = Container("array", v.of)
        BY <3>3 DEF Container
      <4>2. QED
        BY <2>2, <2>3, <4>1, ArrayWritten
    <3>4. CASE v \in Objects
      <4>1. /\ v.of \in Seq(Strings \X V) /\ v = Container("object", v.of)
            /\ \A i, j \in DOMAIN v.of : v.of[i][1] = v.of[j][1] => i = j
        BY <3>4 DEF Container
      <4>2. QED
        BY <2>2, <2>3, <4>1, ObjectWritten
    <3>5. QED
      BY <3>1, <3>2, <3>3, <3>4
  <2>5. All(depth)
    BY <2>4
  <2>. HIDE DEF All
  <2>6. QED
    BY <1>0, <2>5 DEF depth
<1>. HIDE DEF All
<1>3. \A m \in 0 .. Top : m \in G
  <2>1. Top \in Nat
    BY <1>0
  <2>. HIDE DEF G, Top
  <2>2. QED
    BY <1>1, <1>2, <2>1, InductionToN
<1>4. ASSUME NEW depth \in 0 .. Top PROVE All(depth)
  <2>1. Top - depth \in 0 .. Top /\ Top - (Top - depth) = depth
    BY <1>0
  <2>2. QED
    BY <1>3, <2>1
<1>5. QED
  BY <1>4 DEF All

-----------------------------------------------------------------------------
(* The theorems. *)

\* The parser returns a value for exactly the texts the grammar derives within
\* the limit on depth, and it is the one value they mean (json.cpp:43-159): it
\* refuses no text it should accept, and white space, commas, brackets of the
\* other kind and repeated names never lead it to another value.
THEOREM ParserIsGrammar ==
  ASSUME NEW s \in Seq(STRING \ {"end"})
  PROVE  \/ ParseDocument(s) = Failed /\ Means(s) = {}
         \/ \E v : /\ Means(s) = {v}
                   /\ ParseDocument(s).is = "parsed" /\ ParseDocument(s).value = v
BY DocumentMeans DEF Text

\* The writer's text for a value nested no deeper than the limit is accepted by
\* the parser, which gives the value back (json.cpp:326-365, json.hpp:87-92).
THEOREM ReadsBack ==
  ASSUME NEW v \in Values[0]
  PROVE  /\ Means(Dump[0][v]) = {v}
         /\ ParseDocument(Dump[0][v]).is = "parsed" /\ ParseDocument(Dump[0][v]).value = v
<1>. DEFINE t == Dump[0][v]
            p == Span(1, Len(t), v)
<1>1. t \in Text /\ p \in Spans(t)[0] /\ Len(t) \in Nat
  <2>1. 0 \in 0 .. MaxParseDepth + 1
    BY JsonAssumption
  <2>2. t \in Text /\ p \in Spans(t)[0]
    BY <2>1, WrittenMeans DEF Written
  <2>3. QED
    BY <2>2, SymFacts
<1>. HIDE DEF t
<1>2. p.from = 1 /\ p.to = Len(t) /\ p.value = v
  BY Records
<1>3. Blank(t, 1, p.from - 1) /\ Blank(t, p.to + 1, Len(t))
  BY <1>1, <1>2 DEF Blank
<1>. HIDE DEF p
<1>4. v \in Means(t)
  BY <1>1, <1>2, <1>3 DEF Means
<1>5. PICK w : /\ Means(t) = {w}
               /\ ParseDocument(t).is = "parsed" /\ ParseDocument(t).value = w
  BY <1>1, <1>4, DocumentMeans
<1>6. w = v
  BY <1>4, <1>5
<1>7. QED
  BY <1>5, <1>6 DEF t

\* The result is that of the one call of parse.
Answered == text \in Texts /\ (result = << >> \/ result = <<ParseDocument(text)>>)

LEMMA AnswerFollowsGrammar == Answered => ParsesGrammar
<1>. SUFFICES ASSUME Answered, result # << >>
              PROVE  \/ result = <<Failed>> /\ Means(text) = {}
                     \/ \E value \in Means(text) :
                          /\ result[1].is = "parsed" /\ result[1].value = value
                          /\ Means(text) = {value}
                          /\ value \in Values[0] /\ Means(Dump[0][value]) = {value}
  BY DEF ParsesGrammar
<1>1. text \in Text /\ result = <<ParseDocument(text)>>
  BY JsonAssumption DEF Answered, Text
<1>2. CASE ParseDocument(text) = Failed /\ Means(text) = {}
  BY <1>1, <1>2
<1>3. ASSUME NEW v, Means(text) = {v},
             ParseDocument(text).is = "parsed", ParseDocument(text).value = v
      PROVE  \E value \in Means(text) :
               /\ result[1].is = "parsed" /\ result[1].value = value
               /\ Means(text) = {value}
               /\ value \in Values[0] /\ Means(Dump[0][value]) = {value}
  <2>1. v \in Values[0]
    <3>1. PICK p \in Spans(text)[0] : p.value = v
      BY <1>3 DEF Means
    <3>2. 0 \in 0 .. MaxParseDepth + 1
      BY JsonAssumption
    <3>3. QED
      BY <1>1, <3>1, <3>2, SpansInValues
  <2>2. Means(Dump[0][v]) = {v}
    BY <2>1, ReadsBack
  <2>3. result[1] = ParseDocument(text)
    BY <1>1
  <2>4. QED
    BY <1>3, <2>1, <2>2, <2>3
<1>4. QED
  BY <1>1, <1>2, <1>3, DocumentMeans

\* What parse returns, for every limit and every text there may be: the value
\* the text means by the grammar, within the limit, or an error when it has
\* none; and what is written of it is read back the same (json.hpp:12-15, 70,
\* 87-92).
THEOREM ParserFollowsGrammar == JsonSpec => []ParsesGrammar
<1>1. JsonInit => Answered
  BY DEF JsonInit, Answered
<1>2. Answered /\ [Parse]_<<text, result>> => Answered'
  <2>. SUFFICES ASSUME Answered, [Parse]_<<text, result>> PROVE Answered'
    OBVIOUS
  <2>1. CASE Parse
    BY <2>1 DEF Parse, Answered
  <2>2. CASE UNCHANGED <<text, result>>
    BY <2>2 DEF Answered
  <2>3. QED
    BY <2>1, <2>2
<1>3. QED
  BY <1>1, <1>2, AnswerFollowsGrammar, PTL DEF JsonSpec

=============================================================================
