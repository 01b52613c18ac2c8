-------------------------------- MODULE Json --------------------------------
(***************************************************************************)
(* The recursive descent of src/relay/protocol/json.cpp through objects    *)
(* and arrays, Value::set, which it builds objects with, and the writer.   *)
(* A text is a sequence of symbols: the structural ones, by their names in *)
(* RFC 8259, "ws" for white space, and one for each whole string, number   *)
(* or literal, well-formed or not; what is inside those is left out.       *)
(*                                                                         *)
(* What begins at a position is Parsed, with the value and the position    *)
(* behind it, or Failed; a loop that will take another turn is Going.      *)
(* parseArray and parseObject differ in their brackets, in what a turn of  *)
(* their loop parses and how it is added; kind tells them apart.           *)
(***************************************************************************)
EXTENDS Integers, SequencesExt

CONSTANTS
  MaxParseDepth,     \* kMaxParseDepth: 64 in the code
  Strings, Others,   \* symbols of well-formed strings, numbers and literals
  Texts              \* bound of the model: the texts to be parsed

Structure == {"beginArray", "endArray", "beginObject", "endObject",
              "nameSeparator", "valueSeparator", "ws"}

\* A string or a number is no bracket; "end" is what stands behind every text.
ASSUME JsonAssumption ==
  /\ MaxParseDepth \in Nat
  /\ Structure \cup Strings \cup Others \subseteq STRING \ {"end"}
  /\ Structure \cap (Strings \cup Others) = {}
  /\ Texts \subseteq Seq(STRING \ {"end"})

VARIABLES text, result

Failed == [is |-> "failed"]
Parsed(value, at) == [is |-> "parsed", value |-> value, at |-> at]
Going(items, at) == [is |-> "going", value |-> items, at |-> at]

Scalar(symbol) == [kind |-> "scalar", of |-> symbol]
Container(kind, items) == [kind |-> kind, of |-> items]

Begin(kind) == IF kind = "array" THEN "beginArray" ELSE "beginObject"
End(kind) == IF kind = "array" THEN "endArray" ELSE "endObject"

-----------------------------------------------------------------------------
(* The parser. *)

\* The symbol at a position, or "end".
Sym(s, at) == IF at \in DOMAIN s THEN s[at] ELSE "end"

SkipWhitespace(s, at) == Min({i \in at .. Len(s) + 1 : Sym(s, i) # "ws"})

\* Mutant: a name that is there already is added again.
SetAgain(members, key, value) == Append(members, <<key, value>>)

\* Value::set: a later occurrence takes the place of an earlier.
SetMember(members, key, value) ==
  LET same == {i \in DOMAIN members : members[i][1] = key}
  IN  IF same = {} THEN Append(members, <<key, value>>)
      ELSE [members EXCEPT ![Min(same)] = <<key, value>>]

Add(kind, items, item) ==
  IF kind = "array" THEN Append(items, item) ELSE SetMember(items, item[1], item[2])

\* What one turn of a loop parses: a value, or a name with its value. values has
\* what parseValue returns at each position, one level down.
ParseItem(s, values, kind, at) ==
  LET colon == SkipWhitespace(s, at + 1)
      value == values[SkipWhitespace(s, colon + 1)]
  IN  IF kind = "array" THEN values[at]
      ELSE IF Sym(s, at) \in Strings /\ Sym(s, colon) = "nameSeparator" /\ value.is = "parsed"
      THEN Parsed(<<Sym(s, at), value.value>>, value.at) ELSE Failed

\* The loops of parseArray and parseObject, one turn.
Turn(s, values, kind, loop) ==
  LET item == ParseItem(s, values, kind, SkipWhitespace(s, loop.at))
      items == Add(kind, loop.value, item.value)
      behind == SkipWhitespace(s, item.at)
  IN  IF loop.is # "going" THEN loop
      ELSE IF item.is = "failed" THEN Failed
      ELSE CASE Sym(s, behind) = "valueSeparator" -> Going(items, behind + 1)
             [] Sym(s, behind) = End(kind)        -> Parsed(Container(kind, items), behind + 1)
             [] OTHER                             -> Failed

\* The state of a loop after each of its turns; it has at most one for each symbol.
Turns(s, values, kind, at) ==
  LET loop[n \in 0 .. Len(s)] ==
        IF n = 0 THEN Going(<< >>, at) ELSE Turn(s, values, kind, loop[n - 1])
  IN  loop

\* parseArray, parseObject.
ParseContainer(s, values, at) ==
  LET kind == IF s[at] = "beginArray" THEN "array" ELSE "object"
      inside == SkipWhitespace(s, at + 1)
  IN  IF Sym(s, inside) = End(kind) THEN Parsed(Container(kind, << >>), inside + 1)
      ELSE Turns(s, values, kind, inside)[Len(s)]

\* parseValue above the limit.
ParseAt(s, values, at) ==
  CASE Sym(s, at) \in {"beginArray", "beginObject"} -> ParseContainer(s, values, at)
    [] Sym(s, at) \in Strings \cup Others            -> Parsed(Scalar(Sym(s, at)), at + 1)
    [] OTHER                                         -> Failed

\* parseValue, at each depth and each position.
ParseValue(s) ==
  LET values[depth \in 0 .. MaxParseDepth + 1] ==
        [at \in 1 .. Len(s) + 1 |->
           IF depth > MaxParseDepth THEN Failed ELSE ParseAt(s, values[depth + 1], at)]
  IN  values

\* parseDocument: one value, and nothing behind it.
ParseDocument(s) ==
  LET value == ParseValue(s)[0][SkipWhitespace(s, 1)]
  IN  IF value.is = "parsed" /\ SkipWhitespace(s, value.at) > Len(s) THEN value ELSE Failed

-----------------------------------------------------------------------------
(* The writer. *)

\* Values the parser can return at a depth: no object has two members of a name.
Values ==
  LET values[depth \in 0 .. MaxParseDepth + 1] ==
        IF depth > MaxParseDepth THEN {}
        ELSE [kind : {"scalar"}, of : Strings \cup Others]
             \cup [kind : {"array"}, of : Seq(values[depth + 1])]
             \cup [kind : {"object"},
                   of : {members \in Seq(Strings \X values[depth + 1]) :
                           \A i, j \in DOMAIN members : members[i][1] = members[j][1] => i = j}]
  IN  values

\* The loops of writeValue, after n parts: a comma before each but the first.
WithCommas(parts) ==
  LET written[n \in 0 .. Len(parts)] ==
        IF n = 0 THEN << >>
        ELSE written[n - 1] \o (IF n = 1 THEN << >> ELSE <<"valueSeparator">>) \o parts[n]
  IN  written

\* writeValue, for the values of each depth.
Dump ==
  LET dump[depth \in 0 .. MaxParseDepth + 1] ==
        [value \in Values[depth] |->
           IF value.kind = "scalar" THEN <<value.of>>
           ELSE LET Part(item) == IF value.kind = "array" THEN dump[depth + 1][item]
                                  ELSE <<item[1], "nameSeparator">> \o dump[depth + 1][item[2]]
                IN  <<Begin(value.kind)>>
                    \o WithCommas([i \in DOMAIN value.of |-> Part(value.of[i])])[Len(value.of)]
                    \o <<End(value.kind)>>]
  IN  dump

JsonInit == text \in Texts /\ result = << >>

Parse ==
  /\ result = << >>
  /\ result' = <<ParseDocument(text)>>
  /\ UNCHANGED text

JsonSpec == JsonInit /\ [][Parse]_<<text, result>>

-----------------------------------------------------------------------------
(* What a text means by the grammar of RFC 8259: the grammar derives values  *)
(* from the inside out, each for a span of the text.  Nothing here runs from *)
(* left to right, or knows of a position to go on from.                      *)

Span(from, to, value) == [from |-> from, to |-> to, value |-> value]

Blank(s, from, to) == \A i \in from .. to : s[i] = "ws"

\* Between two positions stands this symbol, with white space around it.
Separates(s, symbol, left, right) ==
  \E i \in left + 1 .. right - 1 :
    s[i] = symbol /\ Blank(s, left + 1, i - 1) /\ Blank(s, i + 1, right - 1)

\* What a container lists: values, or names with values.
Items(s, kind, spans) ==
  IF kind = "array" THEN spans
  ELSE UNION {{Span(i, span.to, <<s[i], span.value>>) :
                 i \in {i \in DOMAIN s : s[i] \in Strings /\ Separates(s, "nameSeparator", i, span.from)}} :
              span \in spans}

\* Lists of n items: an item, or a list, a comma and one more.
Lists(s, items) ==
  LET lists[n \in 1 .. Len(s)] ==
        IF n = 1 THEN {Span(item.from, item.to, <<item.value>>) : item \in items}
        ELSE UNION {{Span(list.from, item.to, Append(list.value, item.value)) :
                       item \in {item \in items : Separates(s, "valueSeparator", list.to, item.from)}} :
                    list \in lists[n - 1]}
  IN  lists

\* Of several members with one name the last counts (json.hpp:12), at the place
\* of the first.
Merge(members) ==
  LET firsts == {i \in DOMAIN members : \A j \in 1 .. i - 1 : members[j][1] # members[i][1]}
      Nth(n) == CHOOSE i \in firsts : Cardinality({j \in firsts : j < i}) = n - 1
      LastOf(key) == members[Max({i \in DOMAIN members : members[i][1] = key})]
  IN  [n \in 1 .. Cardinality(firsts) |-> LastOf(members[Nth(n)][1])]

Meant(kind, items) == Container(kind, IF kind = "array" THEN items ELSE Merge(items))

\* The lists that fill the space between two brackets, the empty one included.
Inside(s, kind, spans, from, to) ==
  {items \in {<< >>} : Blank(s, from + 1, to - 1)}
  \cup UNION {{list.value : list \in {list \in Lists(s, Items(s, kind, spans))[n] :
                                         /\ from < list.from /\ Blank(s, from + 1, list.from - 1)
                                         /\ list.to < to /\ Blank(s, list.to + 1, to - 1)}} :
              n \in DOMAIN s}

Containers(s, kind, spans) ==
  UNION {UNION {{Span(from, to, Meant(kind, items)) : items \in Inside(s, kind, spans, from, to)} :
                to \in {to \in DOMAIN s : from < to /\ s[to] = End(kind)}} :
         from \in {from \in DOMAIN s : s[from] = Begin(kind)}}

\* The values at each depth, from the limit up.
Spans(s) ==
  LET spans[depth \in 0 .. MaxParseDepth + 1] ==
        IF depth > MaxParseDepth THEN {}
        ELSE {Span(i, i, Scalar(s[i])) : i \in {i \in DOMAIN s : s[i] \in Strings \cup Others}}
             \cup Containers(s, "array", spans[depth + 1])
             \cup Containers(s, "object", spans[depth + 1])
  IN  spans

\* The values of a whole text.
Means(s) ==
  {span.value : span \in {span \in Spans(s)[0] : /\ Blank(s, 1, span.from - 1)
                                                 /\ Blank(s, span.to + 1, Len(s))}}

\* The parser accepts the texts of the grammar that are nested no deeper than
\* the limit and refuses all others, with white space between any two symbols,
\* and the value it returns is the one the text means, as does the text the
\* value is written as (json.hpp:12-15, 70, 87-92).
ParsesGrammar ==
  result # << >> =>
    \/ result = <<Failed>> /\ Means(text) = {}
    \/ \E value \in Means(text) :
         /\ result[1].is = "parsed" /\ result[1].value = value
         /\ Means(text) = {value}
         /\ value \in Values[0] /\ Means(Dump[0][value]) = {value}

=============================================================================
