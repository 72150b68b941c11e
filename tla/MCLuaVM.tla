------------------------------ MODULE MCLuaVM -------------------------------
(* The corpus of LuaPrograms, compiled and run with small limits, so that  *)
(* constants that do not fit an operand, constructors of several batches,  *)
(* and both stack overflows are met.                                       *)
EXTENDS LuaVM, LuaMatch, LuaCheck

(* These make keys collide. *)
Hash(key) ==
    CASE key[1] = "boolean" -> IF key[2] THEN 1 ELSE 0
      [] key[1] \in {"string", "cfunction"} -> Len(key[2])
      [] OTHER -> IF key[2] < 0 THEN -key[2] ELSE key[2]

Strings == <<"", "a", "ab", "b", "f", "t">>
Ref == INSTANCE LuaLibPrograms

MCChunks ==
    LET corpus == Ref!Corpus(MaxStack) \o Ref!LibCorpus
        Made(p, c) == [err |-> c.err, bad |-> c.bad, proto |-> ProtoOf(c),
                       ok |-> CheckAll(ProtoOf(c)), answer |-> p.answer]
    IN  [i \in DOMAIN corpus |-> Made(corpus[i], Compile(corpus[i].tokens))]
=============================================================================
