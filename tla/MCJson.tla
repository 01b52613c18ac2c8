------------------------------- MODULE MCJson -------------------------------
(***************************************************************************)
(* Every text of up to four symbols, and longer ones that are one symbol   *)
(* away from a document with nested containers and a name that is repeated.*)
(***************************************************************************)
EXTENDS Json

Symbols == Structure \cup Strings \cup Others \cup {"bad"}

Brackets(kind, inside) == <<Begin(kind)>> \o inside \o <<End(kind)>>
Member(key, inside) == <<key, "nameSeparator">> \o inside
And(left, right) == left \o <<"valueSeparator">> \o right
Spaced(s) == [i \in 1 .. 2 * Len(s) + 1 |-> IF i % 2 = 1 THEN "ws" ELSE s[i \div 2]]

One == <<"1">>
None(kind) == Brackets(kind, << >>)

Documents == {
  Brackets("object", And(And(Member("a", One), Member("b", One)), Member("a", None("array")))),
  Brackets("array", And(And(One, Brackets("array", And(<<"a">>, None("object")))), One)),
  Spaced(Brackets("object", Member("a", None("object")))),
  Brackets("object", Member("a", Brackets("array", Brackets("object", Member("a", One)))))}

Near(d) ==
  {d} \cup {[d EXCEPT ![i] = s] : i \in DOMAIN d, s \in Symbols}
      \cup {RemoveAt(d, i) : i \in DOMAIN d}
      \cup {InsertAt(d, i, s) : i \in 1 .. Len(d) + 1, s \in Symbols}

MCTexts ==
  UNION {[1 .. n -> Symbols \ {"b"}] : n \in 0 .. 4} \cup UNION {Near(d) : d \in Documents}

=============================================================================
