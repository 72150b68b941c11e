----------------------------- MODULE JsonGrammar -----------------------------
(***************************************************************************)
(* What JSON texts mean, stated without a parser, and that CJson's decode  *)
(* agrees with it.                                                         *)
(***************************************************************************)
EXTENDS CJson

Kinds == {"array", "object"}
Opening(kind) == Token(IF kind = "object" THEN "T_OBJ_BEGIN" ELSE "T_ARR_BEGIN")
Closing(kind) == Token(EndOf(kind))
Comma1 == <<Token("T_COMMA")>>

(* What the entries of a container make: of the members of an object with  *)
(* the same name the last one counts.                                      *)
Numbered(items) == {<<i, items[i]>> : i \in DOMAIN items}
LastWins(members) ==
  {members[i] : i \in {i \in DOMAIN members :
                         \A j \in DOMAIN members : j > i => members[j][1] # members[i][1]}}
Container(kind, entries) ==
  Value(kind, IF kind = "array" THEN Numbered(entries) ELSE LastWins(entries))

(***************************************************************************)
(* A text is paired with what it means.                                    *)
(***************************************************************************)
Scalars ==
  {<<<<Token("T_NULL")>>, Value("null", {})>>}
    \union {<<<<StringToken(s)>>, Value("string", {s})>> : s \in Texts}

Bracketed(kind, lists) ==
  {<<<<Opening(kind)>> \o x[1] \o <<Closing(kind)>>, Container(kind, x[2])>> : x \in lists}

Named(values) ==
  {<<<<StringToken(x[1]), Token("T_COLON")>> \o x[2][1], <<x[1], x[2][2]>>>> :
     x \in Texts \X values}

Joined(entries, lists) ==
  {<<x[1][1] \o Comma1 \o x[2][1], <<x[1][2]>> \o x[2][2]>> : x \in entries \X lists}

(* The texts of n tokens, from the shorter ones: of values, and of what    *)
(* stands between the brackets of a container.                             *)
TextsOfLength(n, shorter) ==
  LET values == IF n = 0 THEN {}
                ELSE IF n = 1 THEN Scalars
                ELSE UNION {Bracketed(kind, shorter[n - 2].lists[kind]) : kind \in Kinds}
      Values(m) == IF m = n THEN values ELSE shorter[m].values
      Entries(kind, m) == IF kind = "array" THEN Values(m)
                          ELSE IF m < 2 THEN {} ELSE Named(Values(m - 2))
      Single(kind) == {<<x[1], <<x[2]>>>> : x \in Entries(kind, n)}
      Longer(kind) == UNION {Joined(Entries(kind, m), shorter[n - 1 - m].lists[kind]) :
                               m \in 1 .. (n - 2)}
  IN  [values |-> values,
       lists |-> [kind \in Kinds |-> IF n = 0 THEN {<<<<>>, <<>>>>}
                                     ELSE Single(kind) \union Longer(kind)]]

Grammar[n \in Nat] == TextsOfLength(n, [m \in 0 .. (n - 1) |-> Grammar[m]])

Documents ==
  {<<Append(x[1], Token("T_END")), x[2]>> :
     x \in UNION {Grammar[n].values : n \in 1 .. (MaxTokens - 1)}}

Prefixes == UNION {{SubSeq(d[1], 1, i) : i \in 0 .. Len(d[1])} : d \in Documents}

(* The brackets that are open at the end of a text. *)
Opened(ts) ==
  LET Count(types) == Cardinality({i \in DOMAIN ts : ts[i].type \in types})
  IN  Count({"T_OBJ_BEGIN", "T_ARR_BEGIN"}) - Count({"T_OBJ_END", "T_ARR_END"})

(* decode returns what the text means, reads all of it, and refuses a text *)
(* at the first token with which no JSON text goes on.  Texts nested too   *)
(* deep, for the setting or for the stack, are refused where they become   *)
(* so and nowhere else.                                                    *)
DecodesGrammar ==
  op = "decode" =>
    /\ pc = "returned" => <<read, LastOf(stack)>> \in Documents
    /\ pc = "syntax" => read \notin Prefixes
    /\ pc = "nesting" =>
         \/ Opened(read) > cfg.decodeDepth
         \/ Len(stack) + (IF LastOf(read).type = "T_OBJ_BEGIN" THEN 2 ELSE 1) > MaxCStack
    /\ pc \notin {"nesting", "syntax"} => Opened(read) <= cfg.decodeDepth
=============================================================================
