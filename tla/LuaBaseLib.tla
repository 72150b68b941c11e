----------------------------- MODULE LuaBaseLib -----------------------------
(***************************************************************************)
(* The functions of the base and the coroutine library (lbaselib.c) that   *)
(* work on the machine alone: no input or output, no loading of chunks, no *)
(* environments.  A C function is called with its own frame on top and     *)
(* answers what the machine is to do next:                                 *)
(*   Give    it returns the values vals                                    *)
(*   Raise   it raises the error value f                                   *)
(*   Call    it calls f with vals and returns what kind says               *)
(*   Again   it goes round its loop once more                              *)
(*   Resume, Yield   it switches threads                                   *)
(***************************************************************************)
EXTENDS LuaMachine

CONSTANT MaxCStack   \* LUAI_MAXCSTACK: the values a C function may have

Answer(act, m, f, vals, kind) == [act |-> act, m |-> m, f |-> f, vals |-> vals, kind |-> kind]
Give(m, vals)   == Answer("give", m, Nil, vals, "")
Raise(m, v)     == Answer("raise", m, v, <<>>, "")
Call(m, f, vals, kind) == Answer("call", m, f, vals, kind)

None == <<"none">>
Arg(args, n)  == IF n <= Len(args) THEN args[n] ELSE None
IsTable(v)    == v[1] = "table"
IsFunction(v) == TypeOf(v) = "function"
Opt(v, default) == IF v \in {None, Nil} THEN default ELSE v

(* luaL_where: a string error gets the position of the Lua function at that *)
(* level; no program here asks for a level that a tail call has hidden.     *)
Where(m, level, v) ==
    LET d == Depth(m) - level
    IN  IF v[1] = "string" /\ d >= 1 /\ IsLua(CurTh(m).frames[d].cl)
        THEN <<"string", "where", v>> ELSE v

LError(m, s) == Raise(m, Where(m, 1, Str(s)))
BadArg(m)    == LError(m, "bad argument")

(* luaG_ordererror *)
OrderMessage(v1, v2) ==
    Str(IF TypeOf(v1) = TypeOf(v2) THEN "attempt to compare two " \o TypeOf(v1) \o " values"
        ELSE "attempt to compare " \o TypeOf(v1) \o " with " \o TypeOf(v2))

(* The function of the frame calls f, and k is what it remembers meanwhile. *)
CallBack(m, k, f, vals) == Call(SetTop(m, [Top(m) EXCEPT !.k = k]), f, vals, "back")

(* Its loop goes on in a step of its own. *)
Again(m, k) == Answer("again", SetTop(m, [Top(m) EXCEPT !.k = k]), Nil, <<>>, "")

-----------------------------------------------------------------------------
(* Tables and values. *)

GetMetatable(m, args) ==
    LET v == args[1]
        field == Metamethod(m, v, "__metatable")
    IN  IF args = <<>> THEN BadArg(m)
        ELSE IF MetaOf(m, v) = 0 THEN Give(m, <<Nil>>)
        ELSE Give(m, <<IF field # Nil THEN field ELSE Table(MetaOf(m, v))>>)

SetMetatable(m, args) ==
    LET t  == Arg(args, 1)
        mt == Arg(args, 2)
    IN  IF ~IsTable(t) \/ ~(mt = Nil \/ IsTable(mt)) THEN BadArg(m)
        ELSE IF Metamethod(m, t, "__metatable") # Nil THEN LError(m, "cannot change a protected metatable")
        ELSE Give([m EXCEPT !.tab = [@ EXCEPT ![t[2]] =
                      [@ EXCEPT !.meta = IF mt = Nil THEN 0 ELSE mt[2]]]], <<t>>)

LRawGet(m, args) ==
    IF ~IsTable(Arg(args, 1)) \/ Len(args) < 2 THEN BadArg(m)
    ELSE Give(m, <<RawGet(m, args[1], args[2])>>)

LRawSet(m, args) ==
    IF ~IsTable(Arg(args, 1)) \/ Len(args) < 3 THEN BadArg(m)
    ELSE IF args[2] = Nil THEN Raise(m, Str("table index is nil"))
    ELSE Give(RawSet(m, args[1], args[2], args[3]), <<args[1]>>)

LType(m, args)     == IF args = <<>> THEN BadArg(m) ELSE Give(m, <<Str(TypeOf(args[1]))>>)
LRawEqual(m, args) == IF Len(args) < 2 THEN BadArg(m) ELSE Give(m, <<Bool(args[1] = args[2])>>)
LToNumber(m, args) == IF args = <<>> THEN BadArg(m) ELSE Give(m, <<ToNumber(args[1])>>)

(* The address an object is printed with is the object itself. *)
LToString(m, args) ==
    LET v == args[1]
        h == Metamethod(m, v, "__tostring")
        text == CASE v[1] = "number"  -> Str(ToString(v[2]))
                  [] v[1] = "string"  -> v
                  [] v[1] = "boolean" -> Str(IF v[2] THEN "true" ELSE "false")
                  [] v[1] = "nil"     -> Str("nil")
                  [] OTHER            -> <<"string", "address", v>>
    IN  IF args = <<>> THEN BadArg(m)
        ELSE IF h # Nil THEN Call(m, h, <<v>>, "one") ELSE Give(m, <<text>>)

IPairs(m, args) ==
    IF IsTable(Arg(args, 1)) THEN Give(m, <<CFunction("ipairsaux", 0), args[1], Num(0)>>)
    ELSE BadArg(m)

IPairsAux(m, args) ==
    LET i == ToNumber(Arg(args, 2))
        v == RawGet(m, args[1], Num(i[2] + 1))
    IN  IF i = Nil \/ ~IsTable(args[1]) THEN BadArg(m)
        ELSE Give(m, IF v = Nil THEN <<>> ELSE <<Num(i[2] + 1), v>>)

(* next and pairs *)
LNext(m, args) ==
    LET entry == NextEntry(m.tab[args[1][2]], Opt(Arg(args, 2), Nil))
    IN  IF ~IsTable(Arg(args, 1)) THEN BadArg(m)
        ELSE IF entry = <<<<"invalid">>>> THEN Raise(m, Str("invalid key to 'next'"))
        ELSE Give(m, entry)

Pairs(m, args) ==
    IF IsTable(Arg(args, 1)) THEN Give(m, <<CFunction("next", 1), args[1], Nil>>)
    ELSE BadArg(m)

(* unpack(t, i, e): e is a border of t where it is not given, and there    *)
(* must be room for the values above the arguments (lua_checkstack).       *)
Unpack(m, args) ==
    LET t == Arg(args, 1)
        i == ToNumber(Opt(Arg(args, 2), Num(1)))
        e == ToNumber(Opt(Arg(args, 3), Num(GetN(m.tab[t[2]]))))
    IN  IF ~IsTable(t) \/ i = Nil \/ e = Nil THEN BadArg(m)
        ELSE IF i[2] > e[2] THEN Give(m, <<>>)
        ELSE IF Len(args) + e[2] - i[2] + 1 > MaxCStack THEN LError(m, "too many results to unpack")
        ELSE Give(m, [j \in 1 .. e[2] - i[2] + 1 |-> RawGet(m, t, Num(i[2] + j - 1))])

Select(m, args) ==
    LET n == Len(args)
        k == ToNumber(args[1])
        i == IF k[2] < 0 THEN n + k[2] ELSE IF k[2] > n THEN n ELSE k[2]
    IN  IF args = <<>> THEN BadArg(m)
        ELSE IF args[1] = Str("#") THEN Give(m, <<Num(n - 1)>>)
        ELSE IF k = Nil \/ i < 1 THEN BadArg(m)
        ELSE Give(m, SubSeq(args, i + 1, n))

-----------------------------------------------------------------------------
(* Errors. *)

LAssert(m, args) ==
    LET message == AsString(Opt(Arg(args, 2), Str("assertion failed!")))
    IN  IF args = <<>> THEN BadArg(m)
        ELSE IF ~Falsy(args[1]) THEN Give(m, args)
        ELSE IF message[1] # "string" THEN BadArg(m)
        ELSE Raise(m, Where(m, 1, message))

LuaError(m, args) ==
    LET v == Opt(Arg(args, 1), Nil)
        level == ToNumber(Opt(Arg(args, 2), Num(1)))
    IN  IF level = Nil THEN BadArg(m)
        ELSE Raise(m, IF level[2] > 0 THEN Where(m, level[2], AsString(v)) ELSE v)

PCall(m, args) ==
    IF args = <<>> THEN BadArg(m) ELSE Call(m, args[1], Tail(args), "protected")

(* The frame of xpcall remembers the handler of the errors of its call. *)
XPCall(m, args) ==
    IF Len(args) < 2 THEN BadArg(m)
    ELSE Call(SetTop(m, [Top(m) EXCEPT !.handler = args[2]]), args[1], <<>>, "protected")

-----------------------------------------------------------------------------
(* Coroutines. *)

CoStatus(m, co) ==
    LET t == m.th[co]
    IN  IF co \notin DOMAIN m.th THEN "dead"
        ELSE IF co = Cur(m) THEN "running"
        ELSE IF t.status = "yield" THEN "suspended"
        ELSE IF t.status = "error" THEN "dead"
        ELSE IF t.frames # <<>> THEN "normal"
        ELSE IF t.stack = <<>> THEN "dead"
        ELSE "suspended"

IsThread(v) == v[1] = "thread"

CoCreate(m, args, wrap) ==
    LET id == Len(m.th) + 1
    IN  IF ~IsLua(Arg(args, 1)) THEN BadArg(m)
        ELSE Give([m EXCEPT !.th = Append(@, Thread(<<args[1]>>))],
                  <<IF wrap THEN CFunction("auxwrap", id) ELSE <<"thread", id>>>>)

CoResume(m, args) ==
    IF ~IsThread(Arg(args, 1)) THEN BadArg(m)
    ELSE Answer("resume", m, args[1], Tail(args), "")

LCoStatus(m, args) ==
    IF ~IsThread(Arg(args, 1)) THEN BadArg(m)
    ELSE Give(m, <<Str(CoStatus(m, args[1][2]))>>)

CoRunning(m) == Give(m, <<IF Len(m.run) = 1 THEN Nil ELSE <<"thread", Cur(m)>>>>)

-----------------------------------------------------------------------------
BaseFuncs ==
    <<"assert", "error", "getmetatable", "ipairs", "next", "pairs", "pcall", "rawequal", "rawget",
      "rawset", "select", "setmetatable", "tonumber", "tostring", "type", "unpack", "xpcall">>
CoFuncs == <<"create", "resume", "running", "status", "wrap", "yield">>

BaseCall(m, f, args) ==
    CASE f[2] = "assert"   -> LAssert(m, args)
      [] f[2] = "error"    -> LuaError(m, args)
      [] f[2] = "getmetatable" -> GetMetatable(m, args)
      [] f[2] = "ipairs"   -> IPairs(m, args)
      [] f[2] = "ipairsaux" -> IPairsAux(m, args)
      [] f[2] = "next"     -> LNext(m, args)
      [] f[2] = "pairs"    -> Pairs(m, args)
      [] f[2] = "pcall"    -> PCall(m, args)
      [] f[2] = "rawequal" -> LRawEqual(m, args)
      [] f[2] = "rawget"   -> LRawGet(m, args)
      [] f[2] = "rawset"   -> LRawSet(m, args)
      [] f[2] = "select"   -> Select(m, args)
      [] f[2] = "setmetatable" -> SetMetatable(m, args)
      [] f[2] = "tonumber" -> LToNumber(m, args)
      [] f[2] = "tostring" -> LToString(m, args)
      [] f[2] = "type"     -> LType(m, args)
      [] f[2] = "unpack"   -> Unpack(m, args)
      [] f[2] = "xpcall"   -> XPCall(m, args)
      [] f[2] = "create"   -> CoCreate(m, args, FALSE)
      [] f[2] = "wrap"     -> CoCreate(m, args, TRUE)
      [] f[2] = "resume"   -> CoResume(m, args)
      [] f[2] = "auxwrap"  -> Answer("resume", m, <<"thread", f[3]>>, args, "")
      [] f[2] = "running"  -> CoRunning(m)
      [] f[2] = "status"   -> LCoStatus(m, args)
      [] OTHER             -> Answer("yield", m, Nil, args, "")

(* luaL_register *)
Register(names, t) == FoldLeft(LAMBDA s, name : Set(s, Str(name), CFunction(name, 0)), t, names)
=============================================================================
