---------------------------- MODULE MCLuaManager ----------------------------
(***************************************************************************)
(* Small instances of LuaManager: a script encrypted under the key that    *)
(* the application sets, an unencrypted one, an asset that does not exist  *)
(* and an empty one.                                                       *)
(***************************************************************************)
EXTENDS LuaManager, TLC

CONSTANTS t1, t2, encrypted, plain, missing, empty, k1, o1, o2, o3

MCThread == {t1, t2}
MCObj == {o1, o2, o3}
MCSymmetry == Permutations(MCThread) \union Permutations(MCObj)
MCFile == {encrypted, plain, missing, empty}
MCFewObj == {o1, o2}
MCFewFiles == {encrypted, missing}
MCKey == {BlankKey, k1}

MCAsset ==
  [f \in MCFile |->
     CASE f = encrypted -> k1
       [] f = plain     -> Plain
       [] f = missing   -> Missing
       [] OTHER         -> Empty]
MCFewAssets == [f \in MCFewFiles |-> MCAsset[f]]
=============================================================================
