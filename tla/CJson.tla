-------------------------------- MODULE CJson --------------------------------
(***************************************************************************)
(* The JSON module of a machine (lua_cjson.c): decode, which turns a text  *)
(* into values on the Lua stack, encode, which turns a value into a text   *)
(* in a buffer that is kept from call to call, and the settings they share.*)
(*                                                                         *)
(* A text is a sequence of tokens.  Numbers, booleans and null take the    *)
(* same way through the code and are one token; so do the strings that are *)
(* left.  A number as a key of an object is written as a string: no table  *)
(* has a number and a string of the same spelling as keys.  T_END is the   *)
(* end of the text or a NUL in it: the code looks at nothing behind it.    *)
(***************************************************************************)
EXTENDS Naturals, Sequences, FiniteSets

CONSTANTS
  Texts,        \* strings
  NoText,       \* no string
  Heaps,        \* what encode's tables can hold: functions from tables to
                \* sets of pairs of a key and a value
  Roots,        \* what encode is called with
  Depths,       \* what encode_max_depth and decode_max_depth are set to
  DefaultDepth, \* DEFAULT_ENCODE_MAX_DEPTH, DEFAULT_DECODE_MAX_DEPTH
  SparseRatio, SparseSafe, \* encode_sparse_ratio, encode_sparse_safe
  MinStack,     \* LUA_MINSTACK
  MaxCStack,    \* LUAI_MAXCSTACK
  MaxInt,       \* INT_MAX
  MaxTokens     \* bound of the model: tokens of a text, its end included

ASSUME CJsonAssumption ==
  /\ NoText \notin Texts
  /\ Depths \subseteq Nat \ {0} /\ DefaultDepth \in Depths
  /\ SparseRatio \in Nat /\ SparseSafe \in Nat
  /\ MinStack \in Nat /\ MinStack >= 2
  /\ MaxCStack \in Nat /\ MaxCStack > MinStack + 1
  /\ MaxTokens \in Nat \ {0}

(* Tables are finite, have one value for a key and refer to tables that    *)
(* are there.                                                              *)
IsLuaValue(v, h) ==
  /\ v.type = "string" => \E s \in Texts : v.of = {s}
  /\ v.type = "table" => \E t \in DOMAIN h : v.of = {t}

ASSUME HeapsAssumption ==
  \A h \in Heaps :
    /\ \A v \in Roots : IsLuaValue(v, h)
    /\ \A t \in DOMAIN h :
         /\ IsFiniteSet(h[t])
         /\ \A e \in h[t] : IsLuaValue(e[2], h)
         /\ \A d, e \in h[t] : d[1] = e[1] => d[2] = e[2]

(* lua_array_length keeps the greatest key in an int.  What a key above    *)
(* INT_MAX becomes there is undefined in C: no table has one.              *)
ASSUME KeysAssumption ==
  \A h \in Heaps : \A t \in DOMAIN h : \A e \in h[t] :
    e[1] \in Nat => e[1] <= MaxInt

VARIABLES
  op,       \* the function that runs: "idle", "decode" or "encode", or
            \* "refused" for a call with the wrong arguments
  pc,       \* what it does next
  cfg,      \* json_config_t: its settings
  kept,     \* cfg->encode_buf: tokens, or NoBuffer
  local,    \* local_encode_buf, in the same way
  tmp,      \* json->tmp is allocated
  read,     \* history: the tokens that decode has read
  open,     \* the containers decode is in, which are its C frames
  depth,    \* json->current_depth
  stack,    \* the Lua stack from the function's base on
  reserved, \* L->ci->top, from the base
  heap,     \* encode's tables
  frames    \* the tables encode is in, which are its C frames

jsonVars == <<op, pc, cfg, kept, local, tmp, read, open, depth, stack,
              reserved, heap, frames>>
decodeVars == <<tmp, read, open, depth>>
encodeVars == <<kept, local, heap, frames>>

Value(type, of) == [type |-> type, of |-> of]
Nil == Value("nil", {})
Message == Value("message", {})

Token(type) == [type |-> type, text |-> NoText]
StringToken(text) == [type |-> "T_STRING", text |-> text]
Tokens ==
  {Token(type) : type \in {"T_OBJ_BEGIN", "T_OBJ_END", "T_ARR_BEGIN", "T_ARR_END",
                           "T_NULL", "T_COLON", "T_COMMA", "T_END", "T_ERROR"}}
    \union {StringToken(text) : text \in Texts}

NoBuffer == <<Token("none")>>
Leftover == <<Token("leftover")>>

LastOf(s) == s[Len(s)]
Without(s, n) == SubSeq(s, 1, Len(s) - n)
Replaced(s, v) == Append(Without(s, 1), v)

JsonInit ==
  /\ op = "idle" /\ pc = "start"
  /\ cfg = [keep |-> TRUE, convert |-> FALSE,
            encodeDepth |-> DefaultDepth, decodeDepth |-> DefaultDepth]
  /\ kept = <<>> /\ local = NoBuffer /\ tmp = FALSE
  /\ read = <<>> /\ open = <<>> /\ depth = 0
  /\ stack = <<>> /\ reserved = 0
  /\ heap = <<>> /\ frames = <<>>

(* lua_checkstack *)
HasRoom(slots) == Len(stack) + slots <= MaxCStack
Reserve(slots) ==
  IF reserved < Len(stack) + slots THEN Len(stack) + slots ELSE reserved

(* luaL_error, after the buffers that are not kept have been freed.  The   *)
(* pieces of a message are pushed by luaO_pushvfstring, which grows the    *)
(* stack for them; what is left of them is one string.                     *)
Raise_KeepsTmp(why, pushed) ==
  /\ pc' = why
  /\ stack' = Append(pushed, Message)
  /\ local' = NoBuffer
  /\ UNCHANGED tmp
Raise(why, pushed) ==
  /\ pc' = why
  /\ stack' = Append(pushed, Message)
  /\ local' = NoBuffer
  /\ tmp' = FALSE

(* luaL_argcheck and luaL_checklstring: not one argument, or, for decode,  *)
(* one that is no text or is UTF-16.  The buffers have not been touched.   *)
RefuseCall(arguments) ==
  /\ op = "idle"
  /\ op' = "refused" /\ pc' = "argument"
  /\ stack' = [i \in 1 .. arguments + 1 |->
                 IF i <= arguments THEN Value("argument", {}) ELSE Message]
  /\ reserved' = arguments + MinStack
  /\ UNCHANGED <<cfg, decodeVars, encodeVars>>

(***************************************************************************)
(* Decoding.                                                               *)
(***************************************************************************)
DecodeCall ==
  /\ op = "idle"
  /\ op' = "decode" /\ pc' = "value"
  /\ tmp' = TRUE
  /\ stack' = <<Value("argument", {})>> /\ reserved' = 1 + MinStack
  /\ UNCHANGED <<cfg, encodeVars, read, open, depth>>

(* json_next_token: the text ends when there is no room in the model. *)
NextToken(state, t) ==
  /\ op = "decode" /\ pc = state
  /\ Len(read) = MaxTokens - 1 => t.type = "T_END"
  /\ read' = Append(read, t)
  /\ UNCHANGED <<op, cfg, kept, heap, frames>>

SyntaxError ==
  /\ Raise("syntax", stack)
  /\ UNCHANGED <<open, depth, reserved>>

(* Slots for a table and one of its values, and for a key. *)
Slots_SameForAll(kind) == 2
Slots(kind) == IF kind = "object" THEN 3 ELSE 2

(* json_decode_descend and lua_newtable *)
Descend(kind) ==
  /\ depth' = depth + 1
  /\ IF depth + 1 <= cfg.decodeDepth /\ HasRoom(Slots(kind))
     THEN /\ reserved' = Reserve(Slots(kind))
          /\ stack' = Append(stack, Value(kind, {}))
          /\ open' = Append(open, kind)
          /\ pc' = "first"
          /\ UNCHANGED <<tmp, local>>
     ELSE Raise("nesting", stack) /\ UNCHANGED <<reserved, open>>

PushValue(v) ==
  /\ stack' = Append(stack, v)
  /\ pc' = "store"
  /\ UNCHANGED <<tmp, local, open, depth, reserved>>

(* json_process_value *)
ProcessValue(t) ==
  CASE t.type = "T_STRING" -> PushValue(Value("string", {t.text}))
    [] t.type = "T_NULL" -> PushValue(Value("null", {}))
    [] t.type = "T_OBJ_BEGIN" -> Descend("object")
    [] t.type = "T_ARR_BEGIN" -> Descend("array")
    [] OTHER -> SyntaxError

PushKey(t) ==
  IF t.type = "T_STRING"
  THEN /\ stack' = Append(stack, Value("string", {t.text}))
       /\ pc' = "colon"
       /\ UNCHANGED <<tmp, local, open, depth, reserved>>
  ELSE SyntaxError

(* json_decode_ascend, and the return from the container's function. *)
Ascend == depth - 1

Close ==
  /\ depth' = Ascend
  /\ open' = Without(open, 1)
  /\ pc' = "store"
  /\ UNCHANGED <<tmp, local, stack, reserved>>

CloseEmpty_KeepsDepth ==
  /\ open' = Without(open, 1)
  /\ pc' = "store"
  /\ UNCHANGED <<tmp, local, depth, stack, reserved>>
CloseEmpty == Close

EndOf(kind) == IF kind = "object" THEN "T_OBJ_END" ELSE "T_ARR_END"

ReadValue(t) == NextToken("value", t) /\ ProcessValue(t)

ReadFirst(t) ==
  /\ NextToken("first", t)
  /\ IF t.type = EndOf(LastOf(open)) THEN CloseEmpty
     ELSE IF LastOf(open) = "object" THEN PushKey(t) ELSE ProcessValue(t)

ReadKey(t) == NextToken("key", t) /\ PushKey(t)

ReadColon(t) ==
  /\ NextToken("colon", t)
  /\ IF t.type = "T_COLON"
     THEN pc' = "value" /\ UNCHANGED <<tmp, local, open, depth, stack, reserved>>
     ELSE SyntaxError

AfterComma_First(kind) == "first"
AfterComma(kind) == IF kind = "object" THEN "key" ELSE "value"

ReadComma(t) ==
  /\ NextToken("comma", t)
  /\ CASE t.type = EndOf(LastOf(open)) -> Close
       [] t.type = "T_COMMA" ->
            /\ pc' = AfterComma(LastOf(open))
            /\ UNCHANGED <<tmp, local, open, depth, stack, reserved>>
       [] OTHER -> SyntaxError

ReadEnd(t) ==
  /\ NextToken("end", t)
  /\ IF t.type = "T_END"
     THEN /\ pc' = "returned" /\ tmp' = FALSE
          /\ UNCHANGED <<local, open, depth, stack, reserved>>
     ELSE SyntaxError

(* lua_rawset and lua_rawseti: a key that comes again gets the new value. *)
Stored(table, k, v) ==
  [table EXCEPT !.of = {e \in @ : e[1] # k} \union {<<k, v>>}]

StoreMember ==
  LET n == Len(stack)
  IN  Replaced(Without(stack, 2),
               Stored(stack[n - 2], CHOOSE text \in stack[n - 1].of : TRUE, stack[n]))

StoreItem ==
  LET n == Len(stack)
  IN  Replaced(Without(stack, 1),
               Stored(stack[n - 1], Cardinality(stack[n - 1].of) + 1, stack[n]))

Store ==
  /\ op = "decode" /\ pc = "store"
  /\ IF open = <<>> THEN pc' = "end" /\ UNCHANGED stack
     ELSE /\ stack' = IF LastOf(open) = "object" THEN StoreMember ELSE StoreItem
          /\ pc' = "comma"
  /\ UNCHANGED <<op, cfg, encodeVars, decodeVars, reserved>>

(***************************************************************************)
(* Encoding.                                                               *)
(***************************************************************************)
ResetBuffer_Not == IF cfg.keep THEN UNCHANGED <<kept, local>>
                   ELSE local' = <<>> /\ UNCHANGED kept
ResetBuffer == IF cfg.keep THEN kept' = <<>> /\ UNCHANGED local
               ELSE local' = <<>> /\ UNCHANGED kept

EncodeCall(v, h) ==
  /\ op = "idle"
  /\ op' = "encode" /\ pc' = "data"
  /\ ResetBuffer
  /\ heap' = h
  /\ stack' = <<v>> /\ reserved' = 1 + MinStack
  /\ UNCHANGED <<cfg, decodeVars, frames>>

Buffer == IF cfg.keep THEN kept ELSE local

Emit(ts) ==
  IF cfg.keep THEN kept' = kept \o ts /\ UNCHANGED local
  ELSE local' = local \o ts /\ UNCHANGED kept

Encoding(state) ==
  /\ op = "encode" /\ pc = state
  /\ UNCHANGED <<op, cfg, heap, read, open, depth>>

(* A table with the entries c. *)
KeysOf(c) == {e[1] : e \in c}
At(c, k) == IF k \in KeysOf(c) THEN (CHOOSE e \in c : e[1] = k)[2] ELSE Nil

(* lua_array_length *)
ArrayKeys(c) == \A k \in KeysOf(c) : k \in Nat \ {0}
MaxKey_Counted(c) == Cardinality(KeysOf(c))
MaxKey(c) ==
  IF KeysOf(c) = {} THEN 0 ELSE CHOOSE k \in KeysOf(c) : \A j \in KeysOf(c) : j <= k
Sparse(c) ==
  /\ ArrayKeys(c)
  /\ SparseRatio > 0
  /\ MaxKey(c) > Cardinality(KeysOf(c)) * SparseRatio
  /\ MaxKey(c) > SparseSafe
ArrayLength(c) == IF ArrayKeys(c) /\ ~Sparse(c) THEN MaxKey(c) ELSE 0

(* lua_next visits the keys in the order of the table's nodes. *)
Orders(S) ==
  {s \in [1 .. Cardinality(S) -> S] : \A i, j \in DOMAIN s : s[i] = s[j] => i = j}

EnterTable(t) ==
  IF Len(frames) + 1 > cfg.encodeDepth \/ ~HasRoom(3)
  THEN Raise("nesting", stack) /\ UNCHANGED <<kept, reserved, frames>>
  ELSE /\ reserved' = Reserve(3)
       /\ IF Sparse(heap[t]) /\ ~cfg.convert
          THEN Raise("refused", stack) /\ UNCHANGED <<kept, frames>>
          ELSE LET length == ArrayLength(heap[t])
                   kind == IF length > 0 THEN "array" ELSE "object"
               IN  /\ \E left \in IF length > 0 THEN {[i \in 1 .. length |-> i]}
                                  ELSE Orders(KeysOf(heap[t])) :
                        frames' = Append(frames, [table |-> t, kind |-> kind,
                                                  left |-> left, comma |-> FALSE])
                   /\ Emit(<<Token(IF length > 0 THEN "T_ARR_BEGIN" ELSE "T_OBJ_BEGIN")>>)
                   /\ stack' = IF length > 0 THEN stack ELSE Append(stack, Nil)
                   /\ pc' = "loop"
                   /\ UNCHANGED tmp

(* json_append_data *)
AppendData ==
  LET v == LastOf(stack)
  IN  /\ Encoding("data")
      /\ CASE v.type = "table" -> \E t \in v.of : EnterTable(t)
           [] v.type \in {"string", "null", "nil"} ->
                /\ \E text \in IF v.type = "string" THEN v.of ELSE {NoText} :
                     Emit(<<IF v.type = "string" THEN StringToken(text)
                            ELSE Token("T_NULL")>>)
                /\ pc' = "done"
                /\ UNCHANGED <<stack, reserved, frames, tmp>>
           [] OTHER -> Raise("refused", stack) /\ UNCHANGED <<kept, reserved, frames>>

Comma(f) == IF f.comma THEN <<Token("T_COMMA")>> ELSE <<>>

(* One turn of the loops of json_append_array and json_append_object. *)
Advanced(f) == [f EXCEPT !.left = Tail(@), !.comma = TRUE]

NextItem ==
  LET f == LastOf(frames)
      k == Head(f.left)
  IN  /\ Encoding("loop")
      /\ f.kind = "array" /\ f.left # <<>>
      /\ Emit(Comma(f))
      /\ stack' = Append(stack, At(heap[f.table], k))
      /\ frames' = Replaced(frames, Advanced(f))
      /\ pc' = "data"
      /\ UNCHANGED <<reserved, tmp>>

(* A key that is neither a string nor a number is refused. *)
NextMember ==
  LET f == LastOf(frames)
      k == Head(f.left)
      pushed == Replaced(stack, Value("string", {k})) \o <<At(heap[f.table], k)>>
  IN  /\ Encoding("loop")
      /\ f.kind = "object" /\ f.left # <<>>
      /\ frames' = Replaced(frames, Advanced(f))
      /\ IF k \in Texts \union Nat
         THEN /\ Emit(Comma(f) \o <<StringToken(k), Token("T_COLON")>>)
              /\ stack' = pushed /\ pc' = "data"
              /\ UNCHANGED tmp
         ELSE /\ Raise("refused", pushed)
              /\ kept' = IF cfg.keep THEN kept \o Comma(f) ELSE kept
      /\ UNCHANGED reserved

PopItem ==
  /\ Encoding("done") /\ frames # <<>>
  /\ stack' = Without(stack, 1)
  /\ pc' = "loop"
  /\ UNCHANGED <<kept, local, frames, reserved, tmp>>

CloseTable ==
  LET f == LastOf(frames)
  IN  /\ Encoding("loop")
      /\ f.left = <<>>
      /\ Emit(<<Token(EndOf(f.kind))>>)
      /\ stack' = IF f.kind = "object" THEN Without(stack, 1) ELSE stack
      /\ frames' = Without(frames, 1)
      /\ pc' = "done"
      /\ UNCHANGED <<reserved, tmp>>

EncodeReturn ==
  /\ Encoding("done") /\ frames = <<>>
  /\ stack' = Append(stack, Value("json", {Buffer}))
  /\ local' = NoBuffer
  /\ pc' = "returned"
  /\ UNCHANGED <<kept, frames, reserved, tmp>>

(* The script goes on, perhaps from a pcall.  What is left in the buffer   *)
(* is forgotten.                                                           *)
Finish ==
  /\ pc \in {"returned", "syntax", "nesting", "refused", "argument"}
  /\ op' = "idle" /\ pc' = "start"
  /\ kept' = IF kept \in {NoBuffer, <<>>} THEN kept ELSE Leftover
  /\ read' = <<>> /\ open' = <<>> /\ depth' = 0
  /\ stack' = <<>> /\ reserved' = 0
  /\ heap' = <<>> /\ frames' = <<>>
  /\ UNCHANGED <<cfg, local, tmp>>

(***************************************************************************)
(* Settings.                                                               *)
(***************************************************************************)
Setting(new) ==
  /\ op = "idle"
  /\ cfg' = new
  /\ UNCHANGED <<op, pc, local, decodeVars, stack, reserved, heap, frames>>

SetDepths(e, d) ==
  Setting([cfg EXCEPT !.encodeDepth = e, !.decodeDepth = d]) /\ UNCHANGED kept

SetSparse(convert) == Setting([cfg EXCEPT !.convert = convert]) /\ UNCHANGED kept

KeptAfter(keep) == IF keep = cfg.keep THEN kept
                   ELSE IF keep THEN <<>> ELSE NoBuffer

SetKeepBuffer(keep) ==
  Setting([cfg EXCEPT !.keep = keep]) /\ kept' = KeptAfter(keep)

-----------------------------------------------------------------------------
DecodeStep ==
  \/ DecodeCall
  \/ \E t \in Tokens : \/ ReadValue(t) \/ ReadFirst(t) \/ ReadKey(t)
                       \/ ReadColon(t) \/ ReadComma(t) \/ ReadEnd(t)
  \/ Store

EncodeStep ==
  \/ \E v \in Roots, h \in Heaps : EncodeCall(v, h)
  \/ AppendData \/ NextItem \/ NextMember \/ PopItem \/ CloseTable
  \/ EncodeReturn

SettingStep ==
  \/ \E e, d \in Depths : SetDepths(e, d)
  \/ \E b \in BOOLEAN : SetSparse(b) \/ SetKeepBuffer(b)

JsonNext ==
  \/ DecodeStep \/ EncodeStep \/ Finish \/ SettingStep
  \/ \E arguments \in 0 .. 2 : RefuseCall(arguments)

JsonSpec == JsonInit /\ [][JsonNext]_jsonVars

-----------------------------------------------------------------------------
(***************************************************************************)
(* Properties.                                                             *)
(***************************************************************************)

(* Everything that decode and encode push, an error message included, is   *)
(* within the slots that lua_checkstack gave them, at every depth.         *)
SlotsReserved == op # "idle" => Len(stack) <= reserved /\ reserved <= MaxCStack

(* current_depth is the number of containers that are open, empty ones     *)
(* included, and never above the limit; only the refusal counts one more.  *)
DepthBalanced ==
  /\ op = "decode" => depth = Len(open) + (IF pc = "nesting" THEN 1 ELSE 0)
  /\ Len(open) <= cfg.decodeDepth

(* The parser's buffer is freed on every way out of decode, encode's       *)
(* private one on every way out of encode, and the kept one is allocated   *)
(* exactly while the setting says so.                                      *)
BuffersOwned ==
  /\ tmp = (op = "decode" /\ pc \notin {"returned", "syntax", "nesting"})
  /\ (local # NoBuffer) =
       (op = "encode" /\ ~cfg.keep /\ pc \notin {"returned", "nesting", "refused"})
  /\ (kept = NoBuffer) = ~cfg.keep
=============================================================================
