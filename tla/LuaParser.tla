----------------------------- MODULE LuaParser -----------------------------
(***************************************************************************)
(* The parser of the Lua compiler (lparser.c).  It reads the tokens of a   *)
(* chunk by recursive descent and has LuaCode emit the code as it goes,    *)
(* with no syntax tree in between.  The result is the prototype of the     *)
(* main function.                                                          *)
(*                                                                         *)
(* The compiler state is one record x:                                     *)
(*   t     the tokens not yet read, the last of them "EOS"                 *)
(*   fs    the function being compiled (FuncState and its Proto)           *)
(*   prev  the functions that enclose it, the outermost first              *)
(*   e     the expression the last rule has read                           *)
(*   n     the number of expressions the last list had                     *)
(* A syntax error, which the code throws, leaves its message in fs.err and *)
(* the end of the source in t, so that every rule comes to its end.        *)
(***************************************************************************)
EXTENDS LuaCode

EOS == [tk |-> "EOS", v |-> ""]

Tok(x)    == Head(x.t).tk
Skip(x)   == IF Len(x.t) = 1 THEN x ELSE [x EXCEPT !.t = Tail(@)]
NameOf(x) == IF Tok(x) = "NAME" THEN Head(x.t).v ELSE ""
Fail(x, what) == [x EXCEPT !.t = <<EOS>>, !.fs.err = IF @ = "" THEN what ELSE @]
Expect(x, tk) == IF Tok(x) = tk THEN Skip(x) ELSE Fail(x, tk)
Optional(x, tk) == IF Tok(x) = tk THEN Skip(x) ELSE x

NoExp == Exp("VOID", 0)
IsOpen(e) == e.k \in {"CALL", "VARARG"}

(* open_func. *)
NewFuncState ==
    [code |-> <<>>, lasttarget |-> 0, jpc |-> {}, freereg |-> 0, k |-> <<>>, p |-> <<>>,
     upvalues |-> <<>>, act |-> <<>>, bl |-> <<>>, numparams |-> 0, vararg |-> {},
     maxstack |-> 2, bad |-> {}, err |-> ""]

(* close_func: the final return; what remains is the prototype. *)
CloseFunc(fs) == CodeReturn(Claim([fs EXCEPT !.act = <<>>], fs.bl = <<>>, "close_func"), 0, 0)

ProtoOf(fs) ==
    [code |-> fs.code, k |-> fs.k, p |-> fs.p, nups |-> Len(fs.upvalues),
     numparams |-> fs.numparams, vararg |-> fs.vararg, maxstack |-> fs.maxstack]

-----------------------------------------------------------------------------
(* Variables. *)

AdjustLocalVars(x, names) == [x EXCEPT !.fs.act = @ \o names]

CodeString(x, s) ==
    LET fs == AddK(x.fs, <<"string", s>>)
    IN  [x EXCEPT !.fs = fs, !.e = Exp("K", KIndex(fs, <<"string", s>>))]

CheckName(x) == CodeString(Expect(x, "NAME"), NameOf(x))

(* searchvar: the innermost active variable of that name. *)
SearchVar(fs, n) == SelectLastInSeq(fs.act, LAMBDA v : v = n) - 1

(* markupval: the block that declares the variable must close it. *)
MarkUpval(fs, level) ==
    LET j == SelectLastInSeq(fs.bl, LAMBDA b : b.nactvar <= level)
    IN  IF j = 0 THEN fs ELSE [fs EXCEPT !.bl[j].upval = TRUE]

(* indexupvalue: the upvalue that captures variable e of the outer function. *)
UpvalueOf(fs, e) == SelectInSeq(fs.upvalues, LAMBDA u : u.k = e.k /\ u.info = e.info)
IndexUpvalue(fs, e) ==
    IF UpvalueOf(fs, e) # 0 THEN fs
    ELSE [fs EXCEPT !.upvalues = Append(@, [k |-> e.k, info |-> e.info])]

(* singlevaraux at level i of the functions being compiled; it may mark a  *)
(* block of an outer one and add an upvalue to each one in between.        *)
RECURSIVE SingleVarAux(_, _, _)
SingleVarAux(fss, n, i) ==
    IF i = 0 THEN [fss |-> fss, e |-> Exp("GLOBAL", NoReg)]
    ELSE LET v     == SearchVar(fss[i], n)
             outer == SingleVarAux(fss, n, i - 1)
             fs    == IndexUpvalue(outer.fss[i], outer.e)
         IN  IF v >= 0 THEN [fss |-> IF i = Len(fss) THEN fss
                                     ELSE [fss EXCEPT ![i] = MarkUpval(@, v)],
                             e |-> Exp("LOCAL", v)]
             ELSE IF outer.e.k = "GLOBAL" THEN outer
             ELSE [fss |-> [outer.fss EXCEPT ![i] = fs],
                   e |-> Exp("UPVAL", UpvalueOf(fs, outer.e) - 1)]

SingleVar(x) ==
    LET n == NameOf(x)
        r == SingleVarAux(Append(x.prev, x.fs), n, Len(x.prev) + 1)
        y == [Expect(x, "NAME") EXCEPT !.fs = Last(r.fss), !.prev = Front(r.fss), !.e = r.e]
        g == CodeString(y, n)
    IN  IF Tok(x) # "NAME" THEN Fail(x, "name")
        ELSE IF r.e.k = "GLOBAL" THEN [g EXCEPT !.e = Exp("GLOBAL", g.e.info)] ELSE y

(* adjust_assign: nvars values out of the x.n expressions that were read. *)
AdjustAssign(x, nvars) ==
    LET extra == nvars - x.n
        wanted == IF extra + 1 < 0 THEN 0 ELSE extra + 1
        open  == SetReturns(x, wanted)
        last  == IF x.e.k = "VOID" THEN x ELSE Exp2NextReg(x)
        reg   == last.fs.freereg
    IN  IF IsOpen(x.e)
        THEN [open EXCEPT !.fs = IF wanted > 1 THEN ReserveRegs(@, wanted - 1) ELSE @]
        ELSE [last EXCEPT !.fs =
                IF extra > 0 THEN CodeNil(ReserveRegs(@, extra), reg, extra) ELSE @]

-----------------------------------------------------------------------------
(* Blocks. *)

EnterBlock(x, isbreakable) ==
    [x EXCEPT !.fs = [Claim(@, @.freereg = NActVar(@), "enterblock") EXCEPT
        !.bl = Append(@, [breaklist |-> {}, isbreakable |-> isbreakable,
                          nactvar |-> NActVar(x.fs), upval |-> FALSE])]]

LeaveBlock(x) ==
    LET b   == Last(x.fs.bl)
        out == [x.fs EXCEPT !.bl = Front(@), !.act = SubSeq(@, 1, b.nactvar)]
        fs  == IF b.upval THEN Code(out, Ins("CLOSE", b.nactvar, 0, 0)) ELSE out
    IN  [x EXCEPT !.fs =
            PatchToHere([Claim(fs, ~b.isbreakable \/ ~b.upval, "leaveblock")
                            EXCEPT !.freereg = NActVar(fs)], b.breaklist)]

RECURSIVE Chunk(_)
Block(x) ==
    LET y == Chunk(EnterBlock(x, FALSE))
    IN  LeaveBlock([y EXCEPT !.fs = Claim(@, Last(@.bl).breaklist = {}, "block")])

-----------------------------------------------------------------------------
(* Expressions. *)

RECURSIVE SubExpr(_, _)
Expr(x) == SubExpr(x, 0)

YIndex(x) == Expect(Exp2Val(Expr(Skip(x))), "]")
Field(x)  == LET y == Exp2AnyReg(x) IN Indexed(y.e, CheckName(Skip(y)))

RECURSIVE ExpListRest(_)
ExpListRest(x) ==
    IF Tok(x) # "," THEN x
    ELSE ExpListRest([Expr(Skip(Exp2NextReg(x))) EXCEPT !.n = x.n + 1])
ExpList1(x) == ExpListRest([Expr(x) EXCEPT !.n = 1])

(* A constructor keeps the list item that is still to be stored in x.e. *)
RecField(x, cc) ==
    LET reg == x.fs.freereg
        key == Exp2RK(Expect(IF Tok(x) = "NAME" THEN CheckName(x) ELSE YIndex(x), "="))
        val == Exp2RK(Expr(key))
        fs  == Code(val.fs, Ins("SETTABLE", cc.reg, RK(key.e), RK(val.e)))
    IN  [x |-> [val EXCEPT !.fs = [fs EXCEPT !.freereg = reg], !.e = NoExp],
         cc |-> [cc EXCEPT !.nh = @ + 1]]

ListField(x, cc) == [x |-> Expr(x), cc |-> [cc EXCEPT !.na = @ + 1, !.tostore = @ + 1]]

CloseListField(x, cc) ==
    LET y == [Exp2NextReg(x) EXCEPT !.e = NoExp]
    IN  IF x.e.k = "VOID" THEN [x |-> x, cc |-> cc]
        ELSE IF cc.tostore = FieldsPerFlush
        THEN [x |-> [y EXCEPT !.fs = SetList(@, cc.reg, cc.na, cc.tostore)],
              cc |-> [cc EXCEPT !.tostore = 0]]
        ELSE [x |-> y, cc |-> cc]

LastListField(x, cc) ==
    LET y == IF IsOpen(x.e) THEN SetReturns(x, MultRet)
             ELSE IF x.e.k # "VOID" THEN Exp2NextReg(x) ELSE x
    IN  IF cc.tostore = 0 THEN x
        ELSE [y EXCEPT !.fs =
                SetList(@, cc.reg, cc.na, IF IsOpen(x.e) THEN MultRet ELSE cc.tostore)]

RECURSIVE Fields(_, _)
Fields(x, cc) ==
    LET c == CloseListField(x, cc)
        item == IF Tok(x) = "[" \/ (Tok(x) = "NAME" /\ x.t[2].tk = "=")
                THEN RecField(c.x, c.cc) ELSE ListField(c.x, c.cc)
    IN  IF Tok(x) = "}" THEN [x |-> x, cc |-> cc]
        ELSE IF Tok(item.x) \in {",", ";"} THEN Fields(Skip(item.x), item.cc)
        ELSE item

Constructor(x0) ==
    LET pc == Pc(x0.fs)
        x  == Exp2NextReg(Relocable([x0 EXCEPT !.e = NoExp], Ins("NEWTABLE", 0, 0, 0)))
        r  == Fields([Expect(x, "{") EXCEPT !.e = NoExp],
                     [reg |-> x.e.info, na |-> 0, nh |-> 0, tostore |-> 0])
        y  == LastListField(Expect(r.x, "}"), r.cc)
        na == IF IsOpen(r.x.e) /\ r.cc.tostore > 0 THEN r.cc.na - 1 ELSE r.cc.na
    IN  [y EXCEPT !.fs = SetArg(SetArg(@, pc, "b", Int2fb(na)), pc, "c", Int2fb(r.cc.nh)), !.e = x.e]

(* parlist, after the names it has read: `...' brings the parameter `arg'. *)
RECURSIVE Params(_, _)
Params(x, names) ==
    LET Done(y, all, flags) ==
            LET z == [AdjustLocalVars(y, all) EXCEPT !.fs.vararg = flags]
            IN  [z EXCEPT !.fs = ReserveRegs([@ EXCEPT !.numparams =
                    NActVar(z.fs) - (IF "HASARG" \in flags THEN 1 ELSE 0)], NActVar(z.fs))]
        y == Skip(x)
    IN  CASE Tok(x) = ")" /\ names = <<>> -> Done(x, names, {})
          [] Tok(x) = "NAME" /\ Tok(y) = "," -> Params(Skip(y), Append(names, NameOf(x)))
          [] Tok(x) = "NAME" -> Done(y, Append(names, NameOf(x)), {})
          [] Tok(x) = "..."  -> Done(y, Append(names, "arg"), {"HASARG", "NEEDSARG", "ISVARARG"})
          [] OTHER -> Fail(x, "parameter")

(* pushclosure: CLOSURE, and one pseudo-instruction for each upvalue. *)
PushClosure(x, func) ==
    LET y == Relocable([x EXCEPT !.fs.p = Append(@, ProtoOf(func)), !.e = NoExp],
                       Ins("CLOSURE", 0, Len(x.fs.p), 0))
    IN  [y EXCEPT !.fs.code = @ \o [i \in DOMAIN func.upvalues |->
            Ins(IF func.upvalues[i].k = "LOCAL" THEN "MOVE" ELSE "GETUPVAL",
                0, func.upvalues[i].info, 0)]]

Body(x, needself) ==
    LET open == Expect([x EXCEPT !.prev = Append(@, x.fs), !.fs = NewFuncState], "(")
        pars == Params(IF needself THEN AdjustLocalVars(open, <<"self">>) ELSE open, <<>>)
        y    == Expect(Chunk(Expect(pars, ")")), "end")
        func == CloseFunc(y.fs)
        fs   == [Last(y.prev) EXCEPT !.bad = @ \cup func.bad, !.err = IF @ = "" THEN func.err ELSE @]
    IN  PushClosure([y EXCEPT !.prev = Front(@), !.fs = fs], func)

FuncArgs(x) ==
    LET base == x.e.info
        y    == Skip(x)
        args == CASE Tok(x) = "(" /\ Tok(y) = ")" -> [Skip(y) EXCEPT !.e = NoExp]
                  [] Tok(x) = "(" -> Expect(SetReturns(ExpList1(y), MultRet), ")")
                  [] Tok(x) = "{" -> Constructor(x)
                  [] Tok(x) = "STRING" -> CodeString(y, Head(x.t).v)
                  [] OTHER -> Fail(x, "arguments")
        z    == IF IsOpen(args.e) \/ args.e.k = "VOID" THEN args ELSE Exp2NextReg(args)
        n    == IF IsOpen(args.e) THEN MultRet ELSE z.fs.freereg - (base + 1)
        fs   == Claim(z.fs, x.e.k = "NONRELOC", "funcargs")
    IN  [z EXCEPT !.fs = [Code(fs, Ins("CALL", base, n + 1, 2)) EXCEPT !.freereg = base + 1],
                  !.e = Exp("CALL", Pc(fs))]

PrefixExp(x) ==
    CASE Tok(x) = "(" -> DischargeVars(Expect(Expr(Skip(x)), ")"))
      [] OTHER        -> SingleVar(x)

RECURSIVE PrimaryRest(_)
PrimaryRest(x) ==
    LET key == CheckName(Skip(x))
        any == Exp2AnyReg(x)
    IN  CASE Tok(x) = "." -> PrimaryRest(Field(x))
          [] Tok(x) = "[" -> PrimaryRest(Indexed(any.e, YIndex(any)))
          [] Tok(x) = ":" -> PrimaryRest(FuncArgs(Self([key EXCEPT !.e = x.e], key.e)))
          [] Tok(x) \in {"(", "STRING", "{"} -> PrimaryRest(FuncArgs(Exp2NextReg(x)))
          [] OTHER -> x
PrimaryExp(x) == PrimaryRest(PrefixExp(x))

SimpleExp(x) ==
    LET y == Skip(x)
        v == Head(x.t).v
    IN  CASE Tok(x) = "NUMBER" -> [y EXCEPT !.e = Exp("KNUM", v)]
          [] Tok(x) = "STRING" -> CodeString(y, v)
          [] Tok(x) = "nil"    -> [y EXCEPT !.e = Exp("NIL", 0)]
          [] Tok(x) = "true"   -> [y EXCEPT !.e = Exp("TRUE", 0)]
          [] Tok(x) = "false"  -> [y EXCEPT !.e = Exp("FALSE", 0)]
          [] Tok(x) = "..." /\ x.fs.vararg = {} -> Fail(x, "vararg")
          [] Tok(x) = "..."    ->
                [y EXCEPT !.fs = Code([@ EXCEPT !.vararg = @ \ {"NEEDSARG"}],
                                      Ins("VARARG", 0, 1, 0)),
                          !.e = Exp("VARARG", Pc(x.fs))]
          [] Tok(x) = "{"        -> Constructor(x)
          [] Tok(x) = "function" -> Body(y, FALSE)
          [] OTHER -> PrimaryExp(x)

(* The priority table: what an operator binds on its left and its right. *)
LeftPriority ==
    [op \in {"+", "-", "*", "/", "%", "^", "..", "==", "~=", "<", "<=", ">", ">=", "and", "or"} |->
        CASE op \in {"+", "-"} -> 6 [] op \in {"*", "/", "%"} -> 7 [] op = "^" -> 10
          [] op = ".." -> 5 [] op = "and" -> 2 [] op = "or" -> 1 [] OTHER -> 3]
RightPriority ==
    [op \in DOMAIN LeftPriority |->
        CASE op = "^" -> 9 [] op = ".." -> 4 [] OTHER -> LeftPriority[op]]
UnaryPriority == 8

RECURSIVE Operators(_, _)
Operators(x, limit) ==
    LET op == Tok(x)
        v  == Infix(op, Skip(x))
        v2 == SubExpr(v, RightPriority[op])
    IN  IF op \in DOMAIN LeftPriority /\ LeftPriority[op] > limit
        THEN Operators(Posfix(op, v.e, v2), limit)
        ELSE x

SubExpr(x, limit) ==
    Operators(IF Tok(x) \in {"not", "-", "#"}
              THEN Prefix(Tok(x), SubExpr(Skip(x), UnaryPriority))
              ELSE SimpleExp(x), limit)

-----------------------------------------------------------------------------
(* Statements. *)

(* check_conflict: a local variable that is assigned to and also indexes an *)
(* earlier target of the same assignment is copied for that target.         *)
CheckConflict(x, lhs) ==
    LET reg == x.e.info
        Safe(r) == IF r = reg THEN x.fs.freereg ELSE r
        new == [i \in DOMAIN lhs |->
                   IF lhs[i].k = "INDEXED"
                   THEN [lhs[i] EXCEPT !.info = Safe(@), !.aux = Safe(@)] ELSE lhs[i]]
    IN  [lhs |-> new,
         x |-> IF new = lhs THEN x
               ELSE [x EXCEPT !.fs = ReserveRegs(Code(@, Ins("MOVE", @.freereg, reg, 0)), 1)]]

RECURSIVE Targets(_, _)
Targets(x, lhs) ==
    LET y == PrimaryExp(Skip(x))
        c == IF y.e.k = "LOCAL" THEN CheckConflict(y, lhs) ELSE [lhs |-> lhs, x |-> y]
    IN  IF Last(lhs).k \notin {"LOCAL", "UPVAL", "GLOBAL", "INDEXED"}
        THEN [lhs |-> lhs, x |-> Fail(x, "syntax error")]
        ELSE IF Tok(x) = "," THEN Targets(c.x, Append(c.lhs, y.e))
        ELSE [lhs |-> lhs, x |-> x]

(* The values are stored from the last target to the first. *)
StoreAll(x, lhs) ==
    FoldRight(LAMBDA var, y : StoreVar(var, [y EXCEPT !.e = Exp("NONRELOC", y.fs.freereg - 1)]),
              lhs, x)

Assignment(x0) ==
    LET r     == Targets(x0, <<x0.e>>)
        nvars == Len(r.lhs)
        x     == ExpList1(Expect(r.x, "="))
        more  == AdjustAssign(x, nvars)
    IN  IF r.x.fs.err # "" THEN r.x
        ELSE IF x.n = nvars THEN StoreAll(StoreVar(Last(r.lhs), SetOneRet(x)), Front(r.lhs))
        ELSE StoreAll([more EXCEPT !.fs.freereg = IF x.n > nvars THEN @ - (x.n - nvars) ELSE @],
                      r.lhs)

(* A condition, with the jumps taken when it is false in x.e.f. *)
Cond(x) ==
    LET y == Expr(x)
    IN  GoIfTrue([y EXCEPT !.e.k = IF @ = "NIL" THEN "FALSE" ELSE @])

BreakStat(x) ==
    LET j  == SelectLastInSeq(x.fs.bl, LAMBDA b : b.isbreakable)
        up == \E i \in j + 1 .. Len(x.fs.bl) : x.fs.bl[i].upval
        fs == IF up THEN Code(x.fs, Ins("CLOSE", x.fs.bl[j].nactvar, 0, 0)) ELSE x.fs
    IN  IF j = 0 THEN Fail(x, "break")
        ELSE [x EXCEPT !.fs = [Jump(fs) EXCEPT !.bl[j].breaklist = @ \cup JumpList(fs)]]

JumpBack(x, target) == [x EXCEPT !.fs = PatchList(Jump(@), JumpList(@), target)]
JumpHere(x, list)   == [x EXCEPT !.fs = PatchToHere(@, list)]

WhileStat(x) ==
    LET init == Pc(x.fs)
        c == Cond([Skip(x) EXCEPT !.fs = GetLabel(@)])
        b == JumpBack(Block(Expect(EnterBlock(c, TRUE), "do")), init)
    IN  JumpHere(LeaveBlock(Expect(b, "end")), c.e.f)

RepeatStat(x) ==
    LET init == Pc(x.fs)
        open == EnterBlock(EnterBlock([Skip(x) EXCEPT !.fs = GetLabel(@)], TRUE), FALSE)
        c    == Cond(Expect(Chunk(open), "until"))
        plain == [LeaveBlock(c) EXCEPT !.fs = PatchList(@, c.e.f, init)]
        upval == JumpBack(LeaveBlock(JumpHere(BreakStat(c), c.e.f)), init)
    IN  LeaveBlock(IF Last(c.fs.bl).upval THEN upval ELSE plain)

ForBody(x0, control, vars, base, isnum) ==
    LET x    == Expect(AdjustLocalVars(x0, control), "do")
        prep == Pc(x.fs)
        list == IF isnum THEN {prep} ELSE JumpList(x.fs)
        y    == AdjustLocalVars(EnterBlock([x EXCEPT !.fs =
                    IF isnum THEN Code(@, Ins("FORPREP", base, NoJump, 0)) ELSE Jump(@)], FALSE), vars)
        z    == LeaveBlock(Block([y EXCEPT !.fs = ReserveRegs(@, Len(vars))]))
        fs   == PatchToHere(z.fs, list)
        loop == Code(fs, IF isnum THEN Ins("FORLOOP", base, NoJump, 0)
                         ELSE Ins("TFORLOOP", base, 0, Len(vars)))
    IN  IF isnum THEN [z EXCEPT !.fs = PatchList(loop, {Pc(fs)}, prep + 1)]
        ELSE JumpBack([z EXCEPT !.fs = loop], prep + 1)

Exp1(x) == Exp2NextReg(Expr(x))
ForNum(x, var) ==
    LET y == Exp1(Expect(Exp1(Skip(x)), ","))
        one == AddK(y.fs, <<"number", 1>>)
        z == IF Tok(y) = "," THEN Exp1(Skip(y))
             ELSE [y EXCEPT !.fs = ReserveRegs(Code(one,
                      Ins("LOADK", one.freereg, KIndex(one, <<"number", 1>>), 0)), 1)]
    IN  ForBody(z, <<"(for index)", "(for limit)", "(for step)">>, <<var>>, x.fs.freereg, TRUE)

(* A list of names, the first of them at hand. *)
RECURSIVE NameList(_, _)
NameList(x, names) ==
    LET y == Expect(x, "NAME")
        all == Append(names, NameOf(x))
    IN  IF Tok(y) = "," THEN NameList(Skip(y), all) ELSE [x |-> y, names |-> all]

ForList(x, names) ==
    LET y == AdjustAssign(ExpList1(Expect(x, "in")), 3)
    IN  ForBody([y EXCEPT !.fs = CheckStack(@, 3)],
                <<"(for generator)", "(for state)", "(for control)">>, names, x.fs.freereg, FALSE)

ForStat(x) ==
    LET r == NameList(Skip(EnterBlock(x, TRUE)), <<>>)
        y == IF Tok(r.x) = "=" /\ Len(r.names) = 1
             THEN ForNum(r.x, r.names[1]) ELSE ForList(r.x, r.names)
    IN  LeaveBlock(Expect(y, "end"))

(* ifstat, after a condition and its block: flist leads to what follows. *)
RECURSIVE IfRest(_, _, _)
IfRest(x, flist, escapes) ==
    LET out == escapes \cup JumpList(x.fs)
        y   == JumpHere([x EXCEPT !.fs = Jump(@)], flist)
        c   == Cond(Skip(y))
    IN  CASE Tok(x) = "elseif" -> IfRest(Block(Expect(c, "then")), c.e.f, out)
          [] Tok(x) = "else"   -> Expect(JumpHere(Block(Skip(y)), out), "end")
          [] OTHER             -> Expect(JumpHere(x, escapes \cup flist), "end")

IfStat(x) == LET c == Cond(Skip(x)) IN IfRest(Block(Expect(c, "then")), c.e.f, {})

LocalFunc(x) ==
    LET reg == x.fs.freereg
        y == AdjustLocalVars([Expect(x, "NAME") EXCEPT !.fs = ReserveRegs(@, 1)], <<NameOf(x)>>)
    IN  StoreVar(Exp("LOCAL", reg), Body(y, FALSE))

LocalStat(x) ==
    LET r == NameList(x, <<>>)
        y == IF Tok(r.x) = "=" THEN ExpList1(Skip(r.x)) ELSE [r.x EXCEPT !.e = NoExp, !.n = 0]
    IN  AdjustLocalVars(AdjustAssign(y, Len(r.names)), r.names)

RECURSIVE FuncName(_)
FuncName(x) == IF Tok(x) = "." THEN FuncName(Field(x)) ELSE x
FuncStat(x) ==
    LET y == FuncName(SingleVar(Skip(x)))
        method == Tok(y) = ":"
        v == IF method THEN Field(y) ELSE y
    IN  StoreVar(v.e, Body(v, method))

ExprStat(x) ==
    LET y == PrimaryExp(x)
    IN  IF y.e.k = "CALL" THEN [y EXCEPT !.fs = SetArg(@, y.e.info, "c", 1)] ELSE Assignment(y)

BlockFollow == {"else", "elseif", "end", "until", "EOS"}

RetStat(x0) ==
    LET x    == ExpList1(Skip(x0))
        nact == NActVar(x.fs)
        open == SetReturns(x, MultRet)
        tail == IsOpen(x.e) /\ x.e.k = "CALL" /\ x.n = 1
        any  == Exp2AnyReg(x)
        next == Exp2NextReg(x)
        Ret(y, first, n) == [y EXCEPT !.fs = CodeReturn(@, first, n)]
    IN  CASE Tok(Skip(x0)) \in BlockFollow \cup {";"} -> Ret(Skip(x0), 0, 0)
          [] tail -> Ret([open EXCEPT !.fs =
                        SetArg(Claim(@, @.code[x.e.info].a = nact, "tailcall"),
                               x.e.info, "o", "TAILCALL")], nact, MultRet)
          [] IsOpen(x.e) -> Ret(open, nact, MultRet)
          [] x.n = 1 /\ ~IsOpen(x.e) -> Ret(any, any.e.info, 1)
          [] OTHER -> Ret([next EXCEPT !.fs = Claim(@, x.n = @.freereg - nact, "retstat")], nact, x.n)

Statement(x) ==
    LET y == Skip(x)
    IN  CASE Tok(x) = "if"       -> IfStat(x)
          [] Tok(x) = "while"    -> WhileStat(x)
          [] Tok(x) = "do"       -> Expect(Block(y), "end")
          [] Tok(x) = "for"      -> ForStat(x)
          [] Tok(x) = "repeat"   -> RepeatStat(x)
          [] Tok(x) = "function" -> FuncStat(x)
          [] Tok(x) = "local" /\ Tok(y) = "function" -> LocalFunc(Skip(y))
          [] Tok(x) = "local" /\ Tok(y) # "function" -> LocalStat(y)
          [] Tok(x) = "return"   -> RetStat(x)
          [] Tok(x) = "break"    -> BreakStat(y)
          [] OTHER               -> ExprStat(x)

(* After each statement the registers of its temporaries are free again. *)
Chunk(x) ==
    LET y  == Optional(Statement(x), ";")
        ok == y.fs.maxstack >= y.fs.freereg /\ y.fs.freereg >= NActVar(y.fs)
        z  == [y EXCEPT !.fs = [Claim(@, ok, "chunk") EXCEPT !.freereg = NActVar(y.fs)]]
    IN  IF Tok(x) \in BlockFollow THEN x
        ELSE IF Tok(x) \in {"return", "break"} THEN z
        ELSE Chunk(z)

(* luaY_parser: the compiled main function, its fs.err empty when it is valid. *)
Compile(tokens) ==
    LET x == Chunk([t |-> Append(tokens, EOS), prev |-> <<>>, e |-> NoExp, n |-> 0,
                    fs |-> [NewFuncState EXCEPT !.vararg = {"ISVARARG"}]])
        y == Expect(x, "EOS")
    IN  CloseFunc(Claim(y.fs, y.prev = <<>>, "parser"))
=============================================================================
