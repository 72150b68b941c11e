------------------------------- MODULE LuaDo --------------------------------
(***************************************************************************)
(* Calls, results, errors and coroutines of the virtual machine (ldo.c),   *)
(* with the operations of lvm.c that may call a metamethod.  These call    *)
(* each other in C: here each of them leaves what it calls last in m.todo, *)
(* and one action of LuaVM does it next.  A call pushes a frame; what its  *)
(* results are for, when it returns, is in its ret:                        *)
(*   call       the results of CALL, in registers of the calling function  *)
(*   set        one result of a metamethod, in a register                  *)
(*   test       one result of a comparison; nottest negates it             *)
(*   drop       no result: __newindex                                      *)
(*   concat     the result of __concat, and the concatenation goes on      *)
(*   for        the results of an iterator                                 *)
(*   protected  what pcall or xpcall called;  one  what tostring called    *)
(*   back       what a library function called that goes on afterwards     *)
(*   handler    the new error value, from the handler of xpcall            *)
(*   resume     the end of a coroutine;  host  the end of the chunk        *)
(* All of them but call and resume are calls of luaD_call, which nests the *)
(* C stack and which no coroutine can yield across.                        *)
(***************************************************************************)
EXTENDS LuaTableLib, LuaStringLib, LuaPackageLib

CONSTANTS
    MaxCCalls,     \* LUAI_MAXCCALLS: the nesting of C calls
    MaxCalls,      \* LUAI_MAXCALLS: the nesting of calls
    MaxTagLoop     \* MAXTAGLOOP: the length of a chain of __index tables

ErrErr == Str("error in error handling")

(* What is to be done next, in place of the next instruction. *)
Ask(m, op, v, vals, ret) == [m EXCEPT !.todo = [op |-> op, v |-> v, vals |-> vals, ret |-> ret]]
NoRet == Ret("none", 0, 0)
Error(m, v)                == Ask(m, "error", v, <<>>, NoRet)
Throw(m, v)                == Ask(m, "throw", v, <<>>, NoRet)
Return(m, vals)            == Ask(m, "return", Nil, vals, NoRet)
Invoke(m, f, args, ret)    == Ask(m, "call", f, args, ret)
BackToResumer(m, ok, vals) == Ask(m, "resumer", Bool(ok), vals, NoRet)
Concat(m, b, last)         == Ask(m, "concat", Nil, <<b, last>>, NoRet)
GetTable(m, t, key, a, loop) == Ask(m, "gettable", t, <<key, loop>>, Ret("set", a, 1))
SetTable(m, t, key, v, loop) == Ask(m, "settable", t, <<key, v, loop>>, NoRet)

-----------------------------------------------------------------------------
(* Errors. *)

(* luaG_runerror adds the position of a Lua function that runs. *)
RunError(m, s) == Error(m, Where(m, 0, Str(s)))

(* The frame of the innermost pcall or xpcall of the running thread that    *)
(* has made its call: an error in its own arguments is not its to catch.    *)
Protector(m) ==
    SelectLastInSeq(CurTh(m).frames,
                    LAMBDA f : IsC(f.cl) /\ f.cl[2] \in {"pcall", "xpcall"} /\ f.nC # 0)

(* luaG_errormsg: the handler is called where the error is raised. *)
ErrorMsg(m, v) ==
    LET i == Protector(m)
        h == IF i = 0 THEN Nil ELSE CurTh(m).frames[i].handler
    IN  IF h = Nil THEN Throw(m, v)
        ELSE IF TypeOf(h) # "function" THEN Throw(m, ErrErr)
        ELSE Invoke(m, h, <<v>>, Ret("handler", 0, 1))

(* restore_stack_limit *)
RestoreLimit(t) ==
    IF t.size > MaxCalls /\ Len(t.frames) + 1 < MaxCalls THEN [t EXCEPT !.size = MaxCalls] ELSE t

(* The running coroutine stops, and the C function that resumed it returns *)
(* its status and vals, or raises them when it is a wrapped coroutine.     *)
Resumed(m, ok, vals) ==
    LET r == [m EXCEPT !.run = Front(@)]
    IN  IF Top(r).cl[2] = "resume" THEN Return(r, <<Bool(ok)>> \o vals)
        ELSE IF ok THEN Return(r, vals)
        ELSE Error(r, Where(r, 1, AsString(vals[1])))

(* mutants: the protected call does not close the upvalues of what it unwinds; *)
(* it does not restore the nesting of C calls.                                 *)
Unwind_LeavesOpen(m, v) ==
    LET i == Protector(m)
        t == CurTh(m)
    IN  IF i # 0
        THEN Return(SetTh(m, RestoreLimit([t EXCEPT !.frames = SubSeq(@, 1, i), !.nC = t.frames[i].nC])),
                    <<Bool(FALSE), v>>)
        ELSE IF Len(m.run) > 1
        THEN BackToResumer(SetTh(m, [t EXCEPT !.status = "error", !.nC = @ - 1]), FALSE, <<v>>)
        ELSE [m EXCEPT !.ans = <<"error", v>>]
Unwind_KeepsDepth(m, v) ==
    LET i == Protector(m)
        t == CurTh(m)
    IN  IF i # 0
        THEN Return(SetTh(CloseFrames(m, i + 1), RestoreLimit([t EXCEPT !.frames = SubSeq(@, 1, i)])),
                    <<Bool(FALSE), v>>)
        ELSE IF Len(m.run) > 1
        THEN BackToResumer(SetTh(m, [t EXCEPT !.status = "error", !.nC = @ - 1]), FALSE, <<v>>)
        ELSE [m EXCEPT !.ans = <<"error", v>>]

(* luaD_throw: to luaD_pcall, to lua_resume, or to the host. *)
Unwind(m, v) ==
    LET i == Protector(m)
        t == CurTh(m)
        closed == CloseFrames(m, i + 1)
    IN  IF i # 0
        THEN Return(SetTh(closed, RestoreLimit([t EXCEPT !.frames = SubSeq(@, 1, i),
                                                         !.nC = t.frames[i].nC])),
                    <<Bool(FALSE), v>>)
        ELSE IF Len(m.run) > 1
        THEN BackToResumer(SetTh(m, [t EXCEPT !.status = "error", !.nC = @ - 1]), FALSE, <<v>>)
        ELSE [m EXCEPT !.ans = <<"error", v>>]

-----------------------------------------------------------------------------
(* Calls. *)

(* adjust_varargs and the rest of luaD_precall for a Lua function: `arg' is *)
(* the table of the extra arguments, made only for a function that needs it *)
(* and does not use `...'.                                                  *)
LuaFrame(m, p, f, args, ret) ==
    LET np    == p.numparams
        extra == IF p.vararg = {} THEN <<>> ELSE SubSeq(args, np + 1, Len(args))
        needs == "NEEDSARG" \in p.vararg
        arg   == SetKnown([NewTable(Len(extra), 1) EXCEPT !.arr = extra],
                          Str("n"), Num(Len(extra)))
        regs  == Adjust(args, np) \o (IF needs THEN <<Table(Len(m.tab) + 1)>> ELSE <<>>)
    IN  Push(IF needs THEN [m EXCEPT !.tab = Append(@, arg)] ELSE m,
             Frame(f, Adjust(regs, p.maxstack), extra, ret))

ProtoOfClosure(m, f) == m.cl[f[2]].p

(* lua_yield *)
Yield(m, vals) ==
    LET t == CurTh(m)
    IN  IF t.nC > t.baseC THEN Error(m, Str("attempt to yield across metamethod/C-call boundary"))
        ELSE BackToResumer(SetTh(m, [t EXCEPT !.status = "yield", !.nC = @ - 1]), TRUE, vals)

(* mutant: a coroutine that an error has ended is resumed. *)
Resume_Any(m, co, args) ==
    LET t  == m.th[co]
        nC == CurTh(m).nC + 1
        on == [m EXCEPT !.run = Append(@, co),
                        !.th[co] = [t EXCEPT !.status = "ok", !.stack = <<>>, !.nC = nC, !.baseC = nC]]
    IN  IF co \in Range(m.run) \/ (t.frames = <<>> /\ t.stack = <<>>)
        THEN BackToResumer([m EXCEPT !.run = Append(@, co)], FALSE, <<Str("dead")>>)
        ELSE IF t.status = "ok"
        THEN LuaFrame(on, ProtoOfClosure(m, t.stack[1]), t.stack[1], args, Ret("resume", 0, -1))
        ELSE Return(on, args)

(* auxresume and lua_resume.  A coroutine that is refused for the depth of *)
(* the C stack before it started loses what was on its stack.              *)
Resume(m, co, args) ==
    LET t    == m.th[co]
        nC   == CurTh(m).nC
        st   == CoStatus(m, co)
        Refuse(n, s) == BackToResumer([n EXCEPT !.run = Append(@, co)], FALSE, <<Str(s)>>)
        first == t.status = "ok"
        on   == [m EXCEPT !.run = Append(@, co),
                          !.th[co] = [t EXCEPT !.status = "ok", !.stack = <<>>,
                                               !.nC = nC + 1, !.baseC = nC + 1]]
    IN  IF st # "suspended" THEN Refuse(m, "cannot resume " \o st \o " coroutine")
        ELSE IF nC >= MaxCCalls
        THEN Refuse([m EXCEPT !.th[co] = [t EXCEPT !.stack = <<>>, !.nC = nC]], "C stack overflow")
        ELSE IF first THEN LuaFrame(on, ProtoOfClosure(m, t.stack[1]), t.stack[1], args, Ret("resume", 0, -1))
        ELSE Return(on, args)

(* The call of a C function, whose frame is on top, and what it answers. *)
Obey(c) ==
    CASE c.act = "give"   -> Return(c.m, c.vals)
      [] c.act = "raise"  -> Error(c.m, c.f)
      [] c.act = "call"   -> Invoke(SetTop(c.m, [Top(c.m) EXCEPT !.nC = CurTh(c.m).nC]),
                                    c.f, c.vals, Ret(c.kind, 0, -1))
      [] c.act = "resume" -> Resume(c.m, c.f[2], c.vals)
      [] c.act = "again"  -> Ask(c.m, "again", Nil, <<>>, NoRet)
      [] c.act = "yield"  -> Yield(c.m, c.vals)

CCall(m, f, args) ==
    CASE f[2] \in Range(TableFuncs)   -> TableCall(m, f[2], args)
      [] f[2] \in Range(StringFuncs)  -> StringCall(m, f, args)
      [] f[2] \in Range(PackageFuncs) -> PackageCall(m, f[2], args)
      [] OTHER                        -> BaseCall(m, f, args)
CallC(m, f, args) == Obey(CCall(m, f, args))

(* The function whose frame is on top goes on with the results of its call. *)
GoOn(m, vals) ==
    LET k == Top(m).k
        f == Top(m).cl[2]
        v == FirstOf(vals)
    IN  Obey(CASE f \in {"foreach", "foreachi"} -> ForEachBack(m, k, v)
               [] f = "sort"    -> SortBack(m, k, ~Falsy(v))
               [] f = "gsub"    -> GSubBack(m, k, v)
               [] OTHER         -> RequireBack(m, k, v))

(* The next round of its loop. *)
GoRound(m) ==
    LET k == Top(m).k
    IN  Obey(IF Top(m).cl[2] = "sort" THEN SortBack(m, k, k.less) ELSE GSub(m, k))

(* growCI: the array of frames doubles; past its limit there is room to    *)
(* handle the overflow, and past that room there is none.                  *)
GrowCI(m) == IF Depth(m) + 1 < CurTh(m).size THEN m
             ELSE [m EXCEPT !.th[Cur(m)].size = 2 * @]

(* luaD_precall: a value that is no function calls its __call handler. *)
Enter(m, g, f, args, ret) ==
    IF g # m /\ CurTh(m).size > MaxCalls THEN Throw(m, ErrErr)
    ELSE IF g # m /\ CurTh(g).size > MaxCalls THEN RunError(g, "stack overflow")
    ELSE IF IsLua(f) THEN LuaFrame(g, ProtoOfClosure(m, f), f, args, ret)
    ELSE Ask(Push(g, Frame(f, <<>>, <<>>, ret)), "c", f, args, ret)

Precall(m, f, args, ret) ==
    LET isF == TypeOf(f) = "function"
        tm  == IF isF THEN f ELSE Metamethod(m, f, "__call")
    IN  IF TypeOf(tm) = "function"
        THEN Enter(m, GrowCI(m), tm, (IF isF THEN <<>> ELSE <<f>>) \o args, ret)
        ELSE RunError(m, "attempt to call a " \o TypeOf(f) \o " value")

(* luaD_call *)
Nested(ret) == ret.k \notin {"call", "resume"}
CallD(m, f, args, ret) ==
    LET n == [m EXCEPT !.th[Cur(m)].nC = @ + 1]
        depth == CurTh(n).nC
    IN  IF depth = MaxCCalls THEN RunError(n, "C stack overflow")
        ELSE IF depth >= MaxCCalls + MaxCCalls \div 8 THEN Throw(n, ErrErr)
        ELSE Precall(n, f, args, ret)

-----------------------------------------------------------------------------
(* Results.  Instr is the instruction that made the call; pc is past it. *)

CodeOf(m)  == ProtoOfClosure(m, Top(m).cl).code
Instr(m)   == CodeOf(m)[Top(m).pc - 1]
Goto(m, pc) == SetTop(m, [Top(m) EXCEPT !.pc = pc])
SkipNext(m) == Goto(m, Top(m).pc + 1)
TakeJump(m) == Goto(m, CodeOf(m)[Top(m).pc].b)

(* A comparison with the expected outcome takes the jump that follows. *)
Branch(m, outcome) == IF outcome THEN TakeJump(m) ELSE SkipNext(m)

(* The registers from a on are the results; the ones above are lost. *)
SetResults(m, a, n, vals) ==
    LET kept == SubSeq(Top(m).regs, 1, a)
        size == ProtoOfClosure(m, Top(m).cl).maxstack
        regs == kept \o (IF n = MultRet THEN vals ELSE Adjust(vals, n))
    IN  SetTop(m, [Top(m) EXCEPT !.regs = regs \o Repeat(Dead, size - Len(regs)),
                                 !.top = IF n = MultRet THEN a + Len(vals) ELSE -1])

(* luaV_concat: the last two of the operands, or as many strings as there  *)
(* are.  regs b .. last remain.                                            *)
ConcatStep(m, b, last) ==
    LET v1 == Top(m).regs[last]
        v2 == Top(m).regs[last + 1]
        tm == BinTM(m, v1, v2, "__concat")
        joined == Str(AsString(v1)[2] \o AsString(v2)[2])
    IN  IF last = b THEN SetReg(m, Instr(m).a, v2)
        ELSE IF Stringable(v1) /\ Stringable(v2) THEN Concat(SetReg(m, last - 1, joined), b, last - 1)
        ELSE IF tm = Nil
        THEN RunError(m, "attempt to concatenate a "
                         \o TypeOf(IF Stringable(v1) THEN v2 ELSE v1) \o " value")
        ELSE Invoke(m, tm, <<v1, v2>>, Ret("concat", last - 1, b))

(* luaD_poscall: a function is done, its frame goes and its results are delivered. *)
Deliver(m0, ret, vals) ==
    LET m == IF Nested(ret) THEN [m0 EXCEPT !.th[Cur(m0)].nC = @ - 1] ELSE m0
        v == FirstOf(vals)
        a == ret.a
    IN  CASE ret.k = "call"    -> SetResults(m, a, ret.n, vals)
          [] ret.k = "set"     -> SetReg(m, a, v)
          [] ret.k = "test"    -> Branch(m, Falsy(v) = (Instr(m).a = 0))
          [] ret.k = "nottest" -> Branch(m, Falsy(v) = (Instr(m).a = 1))
          [] ret.k = "drop"    -> m
          [] ret.k = "concat"  -> Concat(SetReg(m, a, v), ret.n, a)
          [] ret.k = "for"     ->
                LET r == SetResults(m, a + 3, ret.n, vals)
                IN  IF v = Nil THEN SkipNext(r) ELSE TakeJump(SetReg(r, a + 2, v))
          [] ret.k = "protected" -> Return(m, <<Bool(TRUE)>> \o vals)
          [] ret.k = "one"     -> Return(m, <<v>>)
          [] ret.k = "back"    -> GoOn(m, vals)
          [] ret.k = "handler" -> Throw(m, v)
          [] ret.k = "resume"  ->
                BackToResumer([m EXCEPT !.th[Cur(m)].nC = @ - 1], TRUE, vals)
          [] ret.k = "host"    -> [m EXCEPT !.ans = <<"return", vals>>]

-----------------------------------------------------------------------------
(* Operations with metamethods (lvm.c). *)

TypeError(m, v, what) == RunError(m, "attempt to " \o what \o " a " \o TypeOf(v) \o " value")

(* mutant: the length of a chain of __index tables is not counted. *)
Index_Uncounted(m, t, key, a, loop) ==
    LET raw == RawGet(m, t, key)
        tm  == Metamethod(m, t, "__index")
    IN  IF IsTable(t) /\ (raw # Nil \/ tm = Nil) THEN SetReg(m, a, raw)
        ELSE IF tm = Nil THEN TypeError(m, t, "index")
        ELSE IF TypeOf(tm) = "function" THEN Invoke(m, tm, <<t, key>>, Ret("set", a, 1))
        ELSE GetTable(m, tm, key, a, loop)

(* luaV_gettable *)
Index(m, t, key, a, loop) ==
    LET raw == RawGet(m, t, key)
        tm  == IF IsTable(t) THEN FastTM(m, MetaOf(m, t), "__index") ELSE Metamethod(m, t, "__index")
        n   == IF IsTable(t) /\ raw = Nil THEN Learn(m, MetaOf(m, t), "__index") ELSE m
    IN  IF loop = MaxTagLoop THEN RunError(m, "loop in gettable")
        ELSE IF IsTable(t) /\ (raw # Nil \/ tm = Nil) THEN SetReg(n, a, raw)
        ELSE IF tm = Nil THEN TypeError(m, t, "index")
        ELSE IF TypeOf(tm) = "function" THEN Invoke(n, tm, <<t, key>>, Ret("set", a, 1))
        ELSE GetTable(n, tm, key, a, loop + 1)

(* luaV_settable: the key is in the table before a handler is asked. *)
NewIndex(m, t, key, v, loop) ==
    LET raw  == RawGet(m, t, key)
        made == RawSet(m, t, key, raw)
        tm   == IF IsTable(t) THEN FastTM(made, MetaOf(m, t), "__newindex")
                ELSE Metamethod(m, t, "__newindex")
        n    == IF ~IsTable(t) THEN m
                ELSE IF raw = Nil THEN Learn(made, MetaOf(m, t), "__newindex") ELSE made
    IN  IF loop = MaxTagLoop THEN RunError(m, "loop in settable")
        ELSE IF IsTable(t) /\ raw = Nil /\ key = Nil THEN RunError(m, "table index is nil")
        ELSE IF IsTable(t) /\ (raw # Nil \/ tm = Nil) THEN SetTab(n, t, [Place(n.tab[t[2]], key, v) EXCEPT !.absent = {}])
        ELSE IF tm = Nil THEN TypeError(m, t, "index")
        ELSE IF TypeOf(tm) = "function" THEN Invoke(n, tm, <<t, key, v>>, Ret("drop", 0, 0))
        ELSE SetTable(n, tm, key, v, loop + 1)

(* Arith and the arithmetic instructions. *)
EventOf(op) ==
    CASE op = "ADD" -> "__add" [] op = "SUB" -> "__sub" [] op = "MUL" -> "__mul"
      [] op = "MOD" -> "__mod" [] op = "POW" -> "__pow" [] op = "UNM" -> "__unm"

Arith(m, op, a, v1, v2) ==
    LET n1 == ToNumber(v1)
        n2 == ToNumber(v2)
        tm == BinTM(m, v1, v2, EventOf(op))
    IN  IF n1 # Nil /\ n2 # Nil THEN SetReg(m, a, Num(NumArith(op, n1[2], n2[2])))
        ELSE IF tm # Nil THEN Invoke(m, tm, <<v1, v2>>, Ret("set", a, 1))
        ELSE TypeError(m, IF n1 = Nil THEN v1 ELSE v2, "perform arithmetic on")

(* equalobj: handlers are asked only of two different tables. *)
EqualObj(m, v1, v2) ==
    LET both == IsTable(v1) /\ IsTable(v2)
        tm == CompTM(m, v1, v2)
        n  == Learn(m, MetaOf(m, v1), "__eq")
        n2 == IF FastTM(m, MetaOf(m, v1), "__eq") = Nil THEN n ELSE Learn(n, MetaOf(m, v2), "__eq")
    IN  IF v1 = v2 \/ ~both THEN Branch(m, (v1 = v2) = (Instr(m).a = 1))
        ELSE IF tm = Nil THEN Branch(n2, Instr(m).a = 0)
        ELSE Invoke(n2, tm, <<v1, v2>>, Ret("test", 0, 1))

OrderError(m, v1, v2) == Error(m, Where(m, 0, OrderMessage(v1, v2)))

(* luaV_lessthan, lessequal: `<=' falls back on `not (b < a)'. *)
LessThan(m, v1, v2, orEqual) ==
    LET le == IF orEqual THEN OrderTM(m, v1, v2, "__le") ELSE Nil
        lt == OrderTM(m, v1, v2, "__lt")
    IN  IF TypeOf(v1) # TypeOf(v2) THEN OrderError(m, v1, v2)
        ELSE IF Stringable(v1) THEN Branch(m, Precedes(v1, v2, orEqual) = (Instr(m).a = 1))
        ELSE IF le # Nil THEN Invoke(m, le, <<v1, v2>>, Ret("test", 0, 1))
        ELSE IF lt = Nil THEN OrderError(m, v1, v2)
        ELSE IF orEqual THEN Invoke(m, lt, <<v2, v1>>, Ret("nottest", 0, 1))
        ELSE Invoke(m, lt, <<v1, v2>>, Ret("test", 0, 1))

-----------------------------------------------------------------------------
(* luaL_openlibs, for the libraries above: 1 the globals, 2 coroutine,      *)
(* 3 table, 4 string, 5 the metatable of strings, 6 package and its tables  *)
(* 7 loaded, 8 preload and 9 loaders.                                       *)
LibsOpen ==
    LET WithTables(t, fields) == FoldLeft(LAMBDA s, f : Set(s, Str(f[1]), Table(f[2])), t, fields)
        libs == << <<"coroutine", 2>>, <<"table", 3>>, <<"string", 4>>, <<"package", 6>> >>
    IN  << WithTables(Set(Register(BaseFuncs, NewTable(0, 2)), Str("require"), CFunction("require", 0)),
                  << <<"_G", 1>> >> \o libs),
           Register(CoFuncs, NewTable(0, Len(CoFuncs))),
           Register(TableFuncs, NewTable(0, Len(TableFuncs))),
           Register(SelectSeq(StringFuncs, LAMBDA f : f # "gmatchaux"), NewTable(0, Len(StringFuncs))),
           WithTables(NewTable(0, 1), << <<"__index", 4>> >>),
           WithTables(NewTable(0, 2), << <<"loaders", 9>>, <<"loaded", 7>>, <<"preload", 8>> >>),
           WithTables(NewTable(0, 2), << <<"_G", 1>> >> \o libs),
           NewTable(0, 0),
           [NewTable(4, 0) EXCEPT !.arr = <<CFunction("preload", 0)>> \o Repeat(CFunction("noloader", 0), 3)] >>
=============================================================================
