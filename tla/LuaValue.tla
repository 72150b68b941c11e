------------------------------ MODULE LuaValue ------------------------------
(***************************************************************************)
(* The values of Lua programs (lobject.h): a value is a tuple that starts  *)
(* with its type.  The numbers are integers, without the negative zero,    *)
(* infinities and fractions of a lua_Number.                               *)
(***************************************************************************)
EXTENDS Integers, SequencesExt, TLC

CONSTANT Collation   \* the strings the programs compare, in the order of strcoll

Nil       == <<"nil">>
Dead      == <<"dead">>
Bool(b)   == <<"boolean", b>>
Num(n)    == <<"number", n>>
Str(s)    == <<"string", s>>
Table(id) == <<"table", id>>

Falsy(v)  == v \in {Nil, Bool(FALSE)}

(* luaV_tonumber: a numeral in a string counts as the number it spells. *)
Numerals == -99 .. 99   \* bound of the model: the strings that are numerals
ToNumber(v) ==
    IF v[1] = "string" /\ Len(v) = 2 /\ \E n \in Numerals : ToString(n) = v[2]
    THEN Num(CHOOSE n \in Numerals : ToString(n) = v[2])
    ELSE IF v[1] = "number" THEN v ELSE Nil

(* l_strcmp *)
Position(s) == SelectInSeq(Collation, LAMBDA w : w = s)

(* The order of two numbers or two strings. *)
Precedes(v1, v2, orEqual) ==
    \/ v1 # v2 /\ (IF v1[1] = "number" THEN v1[2] < v2[2] ELSE Position(v1[2]) < Position(v2[2]))
    \/ v1 = v2 /\ orEqual

(* What lua_isstring accepts is a string from then on. *)
AsString(v) == IF v[1] = "number" THEN Str(ToString(v[2])) ELSE v

Stringable(v) == v[1] \in {"string", "number"}

(* Lists of values. *)
FirstOf(vals)   == IF vals = <<>> THEN Nil ELSE vals[1]
Repeat(v, n)    == [i \in 1 .. (IF n < 0 THEN 0 ELSE n) |-> v] \o <<>>
Adjust(vals, n) == SubSeq(vals \o Repeat(Nil, n), 1, n)

(* What is compared of the answer of a chunk: tables and functions by their *)
(* type alone, and an error by its being one.                               *)
View(v) == IF v[1] \in {"nil", "boolean", "number", "string"} THEN v
           ELSE IF v[1] \in {"builtin", "cfunction"} THEN <<"function">> ELSE <<v[1]>>
ViewAnswer(a) == IF a[1] = "return" THEN <<"return", [i \in DOMAIN a[2] |-> View(a[2][i])]>>
                 ELSE <<"error">>
=============================================================================
