------------------------------ MODULE JsonTrees ------------------------------
(***************************************************************************)
(* The JSON texts of a Lua value, stated without an encoder, that CJson's  *)
(* encode agrees with it, and that JsonGrammar reads the value back.       *)
(***************************************************************************)
EXTENDS JsonGrammar

(* Texts one after another, with commas: FirstOf(parts)[i] has those of the *)
(* first i parts.                                                          *)
Separator(i) == IF i = 1 THEN <<>> ELSE <<Token("T_COMMA")>>
WithPart(texts, i, part) == {x \o Separator(i) \o y : x \in texts, y \in part}

FirstOf(parts) ==
  LET first[i \in 0 .. Len(parts)] ==
        IF i = 0 THEN {<<>>} ELSE WithPart(first[i - 1], i, parts[i])
  IN  first

(* The texts of a value, if those of a table t are inner[t]. *)
ValueTexts(v, inner) ==
  CASE v.type \in {"nil", "null"} -> {<<Token("T_NULL")>>}
    [] v.type = "string" -> {<<StringToken(s)>> : s \in v.of}
    [] v.type = "table" -> UNION {inner[t] : t \in v.of}
    [] OTHER -> {}

(* The texts of an entry of a table that holds c: of an item of an array,  *)
(* or of a member, which needs a key that is a string or a number.         *)
EntryTexts(c, k, inner) ==
  IF ArrayLength(c) > 0 THEN ValueTexts(At(c, k), inner)
  ELSE {<<StringToken(k), Token("T_COLON")>> \o y :
          y \in IF k \in Texts \union Nat THEN ValueTexts(At(c, k), inner) ELSE {}}

Parts(c, keys, inner) == [i \in 1 .. Len(keys) |-> EntryTexts(c, keys[i], inner)]

(* All items of an array, with null where it has a hole, or all members in *)
(* any order.                                                              *)
KeyOrders(c) ==
  IF ArrayLength(c) > 0 THEN {[i \in 1 .. ArrayLength(c) |-> i]} ELSE Orders(KeysOf(c))

KindOf(c) == IF ArrayLength(c) > 0 THEN "array" ELSE "object"

TableTexts(c, convert, inner) ==
  IF Sparse(c) /\ ~convert THEN {}
  ELSE {<<Opening(KindOf(c))>> \o x \o <<Closing(KindOf(c))>> :
          x \in UNION {FirstOf(Parts(c, keys, inner))[Len(keys)] : keys \in KeyOrders(c)}}

TextsOfAll(h, convert, inner) == [t \in DOMAIN h |-> TableTexts(h[t], convert, inner)]

(* The texts of the tables of h that are nested no deeper than d. *)
Nested(h, convert, depths) ==
  LET nested[d \in 0 .. depths] ==
        IF d = 0 THEN [t \in DOMAIN h |-> {}] ELSE TextsOfAll(h, convert, nested[d - 1])
  IN  nested

TextsOf(v) ==
  ValueTexts(v, Nested(heap, cfg.convert, cfg.encodeDepth)[cfg.encodeDepth])

(* encode returns a text of its argument, with nothing in it of the calls  *)
(* before, and refuses exactly what has none: values and keys without a    *)
(* JSON form, sparse arrays, and tables nested too deep or in themselves.  *)
EncodesTree ==
  op = "encode" =>
    /\ pc = "returned" => LastOf(stack).of \subseteq TextsOf(stack[1])
    /\ pc = "refused" => TextsOf(stack[1]) = {}
    /\ pc = "nesting" => TextsOf(stack[1]) = {} \/ Len(stack) + 2 > MaxCStack

(***************************************************************************)
(* What such a text reads back as, stated without texts: nil is null, an   *)
(* array has null where it has a hole, and everything else is as it was.   *)
(***************************************************************************)
Null == Value("null", {})

ValueRead(v, inner) ==
  CASE v.type = "string" -> Value("string", v.of)
    [] v.type = "table" -> inner[CHOOSE t \in v.of : TRUE]
    [] OTHER -> Null

Filled(c, inner) == {<<e[1], ValueRead(e[2], inner)>> : e \in c}
Holes(c) == {<<i, Null>> : i \in (UNION {1 .. k : k \in KeysOf(c)}) \ KeysOf(c)}

TableRead(c, inner) ==
  IF c # {} /\ ArrayKeys(c) /\ ~Sparse(c)
  THEN Value("array", Filled(c, inner) \union Holes(c))
  ELSE Value("object", Filled(c, inner))

(* The tables of h, unfolded d deep. *)
Unfolded(h, depths) ==
  LET unfolded[d \in 0 .. depths] ==
        [t \in DOMAIN h |-> IF d = 0 THEN Nil ELSE TableRead(h[t], unfolded[d - 1])]
  IN  unfolded

ReadBack(v) == ValueRead(v, Unfolded(heap, cfg.encodeDepth)[cfg.encodeDepth])

(* What encode returns is a JSON text, which decode accepts within its own *)
(* limit of depth (DecodesGrammar), and it means the value again, whatever *)
(* the order of its members was.  Nothing is said of                       *)
(* texts longer than the model's, and of those in which a number was a key *)
(* and is written as a string that is not one of the model's.              *)
EncodedReadsBack ==
  op = "encode" /\ pc = "returned" =>
    \A s \in LastOf(stack).of :
      s \in Seq(Tokens) /\ Len(s) < MaxTokens =>
        <<Append(s, Token("T_END")), ReadBack(stack[1])>> \in Documents
=============================================================================
