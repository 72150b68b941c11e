------------------------------- MODULE MCCJson -------------------------------
(* Small texts and tables for CJson: one table with up to two entries, and *)
(* one with up to one that it may refer to, and that may refer back.       *)
EXTENDS JsonTrees

CONSTANTS a, b, outer, inner, Boolean

TableValue(t) == Value("table", {t})
Other == Value("function", {})

Contents(keys, values, n) ==
  {c \in SUBSET (keys \X values) :
     /\ Cardinality(c) <= n
     /\ \A d, e \in c : d[1] = e[1] => d = e}

InnerContents == Contents({1, a}, {Value("string", {b}), TableValue(outer)}, 1)
OuterContents ==
  Contents({1, 2, 4, a, b}, {Value("null", {}), TableValue(inner)}, 2)
    \union Contents({0, Boolean}, {Other, TableValue(inner)}, 1)

MCHeaps ==
  {[t \in {outer, inner} |-> IF t = outer THEN o ELSE i] :
     o \in OuterContents, i \in InnerContents}
MCRoots == {TableValue(outer), Value("string", {a}), Other}
=============================================================================
