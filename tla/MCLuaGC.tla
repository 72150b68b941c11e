------------------------------ MODULE MCLuaGC ------------------------------
(* Small heaps for LuaGC: one with a weak table, userdata and a string, one *)
(* with a coroutine and closures that share upvalues.                      *)
EXTENDS LuaGC, TLC

CONSTANTS main, table, udata, string, thread, c1, c2, upval

TableObj == {main, table, udata, string}
TableKind ==
  (main :> "thread") @@ (table :> "table")
    @@ (udata :> "udata") @@ (string :> "string")

UpvalObj == {main, thread, c1, c2, upval}
UpvalKind ==
  (main :> "thread") @@ (thread :> "thread")
    @@ (c1 :> "closure") @@ (c2 :> "closure") @@ (upval :> "upval")
PairObj == {main, thread, c1, upval}
PairKind == [o \in PairObj |-> UpvalKind[o]]
UpvalSymmetry == Permutations({c1, c2})
=============================================================================
