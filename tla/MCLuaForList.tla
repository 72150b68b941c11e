---------------------------- MODULE MCLuaForList ----------------------------
(* One chunk: a generic `for' with four expressions, of which it uses three: *)
(*   for i, v in next, t, nil, 99 do local z = 7; r = z end                  *)
EXTENDS LuaVM, LuaMatch, LuaCheck

(* These make keys collide. *)
Hash(key) ==
    CASE key[1] = "boolean" -> IF key[2] THEN 1 ELSE 0
      [] key[1] \in {"string", "cfunction"} -> Len(key[2])
      [] OTHER -> IF key[2] < 0 THEN -key[2] ELSE key[2]

Strings == <<"", "a", "ab", "b", "f", "t">>
Ref == INSTANCE LuaPrograms

MCForList ==
    LET body == <<Ref!Loc1("z", Ref!N(7)), Ref!Set1("r", Ref!V("z"))>>
        in   == <<Ref!V("next"), Ref!V("t"), Ref!NIL, Ref!N(99)>>
        c    == Compile(Ref!BlockTokens(<<Ref!Loc1("t", Ref!New(<<Ref!Item(<<>>, Ref!N(5))>>)),
                                          Ref!ForIn(<<"i", "v">>, in, body)>>))
    IN  <<[err |-> c.err, bad |-> c.bad, proto |-> ProtoOf(c), ok |-> CheckAll(ProtoOf(c)),
           answer |-> <<"return", <<>>>>]>>
=============================================================================
