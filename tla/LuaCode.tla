------------------------------ MODULE LuaCode ------------------------------
(***************************************************************************)
(* The code generator of the Lua compiler (lcode.c): the operators the     *)
(* parser calls to emit instructions, allocate registers, share constants  *)
(* and thread the jumps of boolean expressions.                            *)
(*                                                                         *)
(* Every operator maps a compiler state x to the next one.  Of x this      *)
(* module uses x.fs, the function being compiled, and x.e, the expression  *)
(* descriptor at hand (`expdesc').  The pcs of the model start at 1, so    *)
(* that 0 is NO_JUMP; a jump holds its destination and not an offset; and  *)
(* a patch list, which the code threads through the jumps it links, is the *)
(* set of their pcs.                                                       *)
(***************************************************************************)
EXTENDS Integers, SequencesExt

CONSTANTS
    MaxIndexRK,      \* MAXINDEXRK: the last constant an operand can name
    MaxStack,        \* MAXSTACK: the registers of one function
    FieldsPerFlush   \* LFIELDS_PER_FLUSH: list items stored at a time

ASSUME LuaCodeAssumption ==
    /\ MaxIndexRK \in 0 .. 255 /\ MaxStack \in 3 .. 255
    /\ FieldsPerFlush \in Nat \ {0}

NoJump  == 0
NoReg   == 255
MultRet == -1

(* Constants are numbered from 256 (BITRK) in an operand, registers from 0. *)
RKASK(i)  == 256 + i
ISK(r)    == r >= 256
INDEXK(r) == r - 256

Ins(op, a, b, c) == [o |-> op, a |-> a, b |-> b, c |-> c]
Exp(kind, info)  == [k |-> kind, info |-> info, aux |-> 0, t |-> {}, f |-> {}]
TestModes == {"EQ", "LT", "LE", "TEST", "TESTSET", "TFORLOOP"}

Pc(fs)      == Len(fs.code) + 1
NActVar(fs) == Len(fs.act)
HasJumps(e)  == e.t # {} \/ e.f # {}
IsNumeral(e) == e.k = "KNUM" /\ ~HasJumps(e)

(* A lua_assert of the compiler: one that fails leaves its mark. *)
Claim(fs, holds, what) == IF holds THEN fs ELSE [fs EXCEPT !.bad = @ \cup {what}]

(* SETARG_A and its like: field f of the instruction at pc. *)
SetArg(fs, pc, f, v) == [fs EXCEPT !.code[pc][f] = v]

(* luaO_int2fb and luaO_fb2int: a size as a number below 16 that is halved *)
(* e times and rounded up, which NEWTABLE's operands have place for.       *)
Halved(x, e) == (x + 2^e - 1) \div 2^e
Int2fb(x) ==
    LET e == CHOOSE n \in 0 .. 31 : Halved(x, n) < 16 /\ \A i \in 0 .. n - 1 : Halved(x, i) >= 16
    IN  IF Halved(x, e) < 8 THEN Halved(x, e) ELSE 8 * (e + 1) + Halved(x, e) - 8
Fb2int(x) == IF x < 8 THEN x ELSE ((x % 8) + 8) * 2^((x \div 8) - 1)

-----------------------------------------------------------------------------
(* Jumps. *)

JumpControl(code, pc) ==
    IF pc > 1 /\ code[pc - 1].o \in TestModes THEN pc - 1 ELSE pc

ProducesValue(code, j) == code[JumpControl(code, j)].o = "TESTSET"
NeedValue(code, list)  == \E j \in list : ~ProducesValue(code, j)

PatchTestReg(i, reg) ==
    IF reg \notin {NoReg, i.b} THEN [i EXCEPT !.a = reg] ELSE Ins("TEST", i.b, 0, i.c)

(* A jump that carries a value goes to vtarget and leaves the value in reg, *)
(* the others go to dtarget.                                                *)
PatchListAux(fs, list, vtarget, reg, dtarget) ==
    LET Patch(j, code) ==
            IF ProducesValue(code, j)
            THEN [code EXCEPT ![j].b = vtarget, ![j - 1] = PatchTestReg(@, reg)]
            ELSE [code EXCEPT ![j].b = dtarget]
    IN  Claim([fs EXCEPT !.code = FoldSet(Patch, @, list)],
              dtarget # NoJump \/ ~NeedValue(fs.code, list), "fixjump")

RemoveValues(fs, list) ==
    LET Drop(j, code) == IF ProducesValue(code, j)
                           THEN [code EXCEPT ![j - 1] = PatchTestReg(@, NoReg)] ELSE code
    IN  [fs EXCEPT !.code = FoldSet(Drop, @, list)]

DischargeJpc(fs) == [PatchListAux(fs, fs.jpc, Pc(fs), NoReg, Pc(fs)) EXCEPT !.jpc = {}]
Code(fs, i)      == [DischargeJpc(fs) EXCEPT !.code = Append(@, i)]
GetLabel(fs)     == [fs EXCEPT !.lasttarget = Pc(fs)]
PatchToHere(fs, list) == [GetLabel(fs) EXCEPT !.jpc = @ \cup list]

PatchList(fs, list, target) ==
    IF target = Pc(fs) THEN PatchToHere(fs, list)
    ELSE PatchListAux(Claim(fs, target < Pc(fs), "patchlist"), list, target, NoReg, target)

(* luaK_jump: the new jump takes over the jumps that were pending. *)
Jump(fs)     == Code([fs EXCEPT !.jpc = {}], Ins("JMP", 0, NoJump, 0))
JumpList(fs) == {Pc(fs)} \cup fs.jpc

CondJump(fs, i)  == Jump(Code(fs, i))
CodeLabel(fs, reg, b, skip) == Code(GetLabel(fs), Ins("LOADBOOL", reg, b, skip))
CodeReturn(fs, first, nret) == Code(fs, Ins("RETURN", first, nret + 1, 0))

(* mutant: a LOADNIL is extended even where a jump lands behind it. *)
CodeNil_AcrossLabel(fs, from, n) ==
    LET len == Len(fs.code)
    IN  IF len > 0 /\ fs.code[len].o = "LOADNIL" /\ from = fs.code[len].b + 1
        THEN SetArg(fs, len, "b", from + n - 1)
        ELSE Code(fs, Ins("LOADNIL", from, from + n - 1, 0))

(* luaK_nil extends a preceding LOADNIL, unless a jump lands in between. *)
CodeNil(fs, from, n) ==
    LET last == from + n - 1
        len  == Len(fs.code)
        free == Pc(fs) > fs.lasttarget
    IN  IF free /\ len = 0 /\ from >= NActVar(fs) THEN fs
        ELSE IF /\ free /\ len > 0 /\ fs.code[len].o = "LOADNIL"
                /\ fs.code[len].a <= from /\ from <= fs.code[len].b + 1
        THEN SetArg(fs, len, "b", IF last > fs.code[len].b THEN last ELSE fs.code[len].b)
        ELSE Code(fs, Ins("LOADNIL", from, last, 0))

-----------------------------------------------------------------------------
(* Registers and constants. *)

FreeReg(fs, reg) ==
    IF ISK(reg) \/ reg < NActVar(fs) THEN fs
    ELSE Claim([fs EXCEPT !.freereg = @ - 1], reg = fs.freereg - 1, "freereg")

FreeExp(fs, e) == IF e.k = "NONRELOC" THEN FreeReg(fs, e.info) ELSE fs

(* mutant: the last register reserved is not counted. *)
CheckStack_OneShort(fs, n) ==
    LET size == fs.freereg + n - 1
    IN  IF size <= fs.maxstack THEN fs
        ELSE IF size >= MaxStack THEN [fs EXCEPT !.err = "too complex"]
        ELSE [fs EXCEPT !.maxstack = size]

CheckStack(fs, n) ==
    LET size == fs.freereg + n
    IN  IF size <= fs.maxstack THEN fs
        ELSE IF size >= MaxStack THEN [fs EXCEPT !.err = "too complex"]
        ELSE [fs EXCEPT !.maxstack = size]

ReserveRegs(fs, n) == [CheckStack(fs, n) EXCEPT !.freereg = @ + n]

(* addk: a constant is entered once; KIndex is the place it has. *)
AddK(fs, v)   == IF \E i \in DOMAIN fs.k : fs.k[i] = v THEN fs
                 ELSE [fs EXCEPT !.k = Append(@, v)]
KIndex(fs, v) == (CHOOSE i \in DOMAIN fs.k : fs.k[i] = v) - 1

LiteralOf(e) ==
    CASE e.k = "NIL"   -> <<"nil">>
      [] e.k = "TRUE"  -> <<"boolean", TRUE>>
      [] e.k = "FALSE" -> <<"boolean", FALSE>>
      [] e.k = "KNUM"  -> <<"number", e.info>>

(* luaK_exp2RK turns a literal into a constant of the function. *)
AsConstant(x, v) ==
    LET fs == AddK(x.fs, v)
    IN  [x EXCEPT !.fs = fs, !.e.k = "K", !.e.info = KIndex(fs, v)]

-----------------------------------------------------------------------------
(* Expressions to registers. *)

SetReturns(x, n) ==
    CASE x.e.k = "CALL"   -> [x EXCEPT !.fs = SetArg(@, x.e.info, "c", n + 1)]
      [] x.e.k = "VARARG" ->
            [x EXCEPT !.fs = ReserveRegs(
                SetArg(SetArg(@, x.e.info, "b", n + 1), x.e.info, "a", x.fs.freereg), 1)]
      [] OTHER -> x

SetOneRet(x) ==
    CASE x.e.k = "CALL" ->
            [x EXCEPT !.e.k = "NONRELOC", !.e.info = x.fs.code[x.e.info].a]
      [] x.e.k = "VARARG" ->
            [x EXCEPT !.fs = SetArg(@, x.e.info, "b", 2), !.e.k = "RELOCABLE"]
      [] OTHER -> x

Relocable(x, i) ==
    [x EXCEPT !.fs = Code(@, i), !.e.k = "RELOCABLE", !.e.info = Pc(x.fs)]

DischargeVars(x) ==
    LET e == x.e
    IN  CASE e.k = "LOCAL"   -> [x EXCEPT !.e.k = "NONRELOC"]
          [] e.k = "UPVAL"   -> Relocable(x, Ins("GETUPVAL", 0, e.info, 0))
          [] e.k = "GLOBAL"  -> Relocable(x, Ins("GETGLOBAL", 0, e.info, 0))
          [] e.k = "INDEXED" ->
                Relocable([x EXCEPT !.fs = FreeReg(FreeReg(@, e.aux), e.info)],
                          Ins("GETTABLE", 0, e.info, e.aux))
          [] OTHER -> SetOneRet(x)

Discharge2Reg(x0, reg) ==
    LET x  == DischargeVars(x0)
        e  == x.e
        fs == IF e.k = "KNUM" THEN AddK(x.fs, LiteralOf(e)) ELSE x.fs
        done ==
            CASE e.k = "NIL"   -> CodeNil(fs, reg, 1)
              [] e.k = "TRUE"  -> Code(fs, Ins("LOADBOOL", reg, 1, 0))
              [] e.k = "FALSE" -> Code(fs, Ins("LOADBOOL", reg, 0, 0))
              [] e.k = "K"     -> Code(fs, Ins("LOADK", reg, e.info, 0))
              [] e.k = "KNUM"  -> Code(fs, Ins("LOADK", reg, KIndex(fs, LiteralOf(e)), 0))
              [] e.k = "RELOCABLE" -> SetArg(fs, e.info, "a", reg)
              [] e.k = "NONRELOC" ->
                    IF reg = e.info THEN fs ELSE Code(fs, Ins("MOVE", reg, e.info, 0))
    IN  IF e.k \in {"VOID", "JMP"} THEN x
        ELSE [x EXCEPT !.fs = done, !.e.k = "NONRELOC", !.e.info = reg]

Discharge2AnyReg(x) ==
    IF x.e.k = "NONRELOC" THEN x
    ELSE LET fs == ReserveRegs(x.fs, 1)
         IN  Discharge2Reg([x EXCEPT !.fs = fs], fs.freereg - 1)

(* exp2reg: a jump that lands here without a value goes to a LOADBOOL that *)
(* makes it; the value jumps go past both.                                 *)
Exp2Reg(x0, reg) ==
    LET x    == Discharge2Reg(x0, reg)
        jmp  == x.e.k = "JMP"
        t    == IF jmp THEN x.e.t \cup {x.e.info} ELSE x.e.t
        f    == x.e.f
        need == NeedValue(x.fs.code, t \cup f)
        fj   == IF jmp \/ ~need THEN {} ELSE JumpList(x.fs)
        fs1  == IF jmp \/ ~need THEN x.fs ELSE Jump(x.fs)
        fs2  == IF need THEN CodeLabel(fs1, reg, 0, 1) ELSE fs1
        fs3  == IF need THEN PatchToHere(CodeLabel(fs2, reg, 1, 0), fj) ELSE fs1
        final == Pc(fs3)
        fs4  == PatchListAux(GetLabel(fs3), f, final, reg, IF need THEN Pc(fs1) ELSE NoJump)
        fs5  == PatchListAux(fs4, t, final, reg, IF need THEN Pc(fs2) ELSE NoJump)
    IN  [x EXCEPT !.fs = IF t # {} \/ f # {} THEN fs5 ELSE @, !.e = Exp("NONRELOC", reg)]

Exp2NextReg(x0) ==
    LET x  == DischargeVars(x0)
        fs == ReserveRegs(FreeExp(x.fs, x.e), 1)
    IN  Exp2Reg([x EXCEPT !.fs = fs], fs.freereg - 1)

Exp2AnyReg(x0) ==
    LET x == DischargeVars(x0)
    IN  IF x.e.k = "NONRELOC" /\ ~HasJumps(x.e) THEN x
        ELSE IF x.e.k = "NONRELOC" /\ x.e.info >= NActVar(x.fs) THEN Exp2Reg(x, x.e.info)
        ELSE Exp2NextReg(x)

Exp2Val(x) == IF HasJumps(x.e) THEN Exp2AnyReg(x) ELSE DischargeVars(x)

(* luaK_exp2RK, and the operand it returns. *)
Exp2RK(x0) ==
    LET x == Exp2Val(x0)
    IN  IF x.e.k \in {"KNUM", "TRUE", "FALSE", "NIL"} /\ Len(x.fs.k) <= MaxIndexRK
        THEN AsConstant(x, LiteralOf(x.e))
        ELSE IF x.e.k = "K" /\ x.e.info <= MaxIndexRK THEN x
        ELSE Exp2AnyReg(x)

RK(e) == IF e.k = "K" THEN RKASK(e.info) ELSE e.info

StoreVar(var, x) ==
    LET any == Exp2AnyReg(x)
        rk  == Exp2RK(x)
        Store(y, i) == [y EXCEPT !.fs = FreeExp(Code(@, i), y.e)]
    IN  CASE var.k = "LOCAL"   -> Exp2Reg([x EXCEPT !.fs = FreeExp(@, x.e)], var.info)
          [] var.k = "UPVAL"   -> Store(any, Ins("SETUPVAL", any.e.info, var.info, 0))
          [] var.k = "GLOBAL"  -> Store(any, Ins("SETGLOBAL", any.e.info, var.info, 0))
          [] var.k = "INDEXED" -> Store(rk, Ins("SETTABLE", var.info, var.aux, RK(rk.e)))
          [] OTHER -> [x EXCEPT !.fs = Claim(FreeExp(@, x.e), FALSE, "storevar")]

(* luaK_self, for the name `key' already entered as a constant. *)
Self(x0, key) ==
    LET x    == Exp2AnyReg(x0)
        fs   == FreeExp(x.fs, x.e)
        func == fs.freereg
        y    == Exp2RK([x EXCEPT !.fs = ReserveRegs(fs, 2), !.e = key])
        done == Code(y.fs, Ins("SELF", func, x.e.info, RK(y.e)))
    IN  [x EXCEPT !.fs = FreeExp(done, y.e), !.e.k = "NONRELOC", !.e.info = func]

(* luaK_indexed: the table descriptor t, indexed by the expression at hand. *)
Indexed(t, x0) ==
    LET x == Exp2RK(x0)
    IN  [x EXCEPT !.e = [t EXCEPT !.k = "INDEXED", !.aux = RK(x.e)]]

-----------------------------------------------------------------------------
(* Conditions. *)

InvertJump(x) ==
    LET c  == JumpControl(x.fs.code, x.e.info)
        fs == Claim(x.fs, x.fs.code[c].o \in {"EQ", "LT", "LE"}, "invertjump")
    IN  [x EXCEPT !.fs = SetArg(fs, c, "a", 1 - fs.code[c].a)]

(* jumponcond: `not' before a test is taken back and the test inverted. *)
JumpOnCond(x, cond) ==
    LET len == Len(x.fs.code)
        y   == Discharge2AnyReg(x)
    IN  IF x.e.k = "RELOCABLE" /\ x.fs.code[x.e.info].o = "NOT"
        THEN [x EXCEPT !.fs = CondJump([@ EXCEPT !.code = SubSeq(@, 1, len - 1)],
                  Ins("TEST", x.fs.code[x.e.info].b, 0, 1 - cond))]
        ELSE [y EXCEPT !.fs = CondJump(FreeExp(@, y.e), Ins("TESTSET", NoReg, y.e.info, cond))]

(* The state after the test, and the jump it added to the exits. *)
GoIf(x, cond, never) ==
    LET taken == CASE x.e.k \in never -> x
                   [] x.e.k = "JMP"   -> IF cond = 0 THEN InvertJump(x) ELSE x
                   [] OTHER           -> JumpOnCond(x, cond)
        exit  == CASE x.e.k \in never -> {}
                   [] x.e.k = "JMP"   -> {x.e.info}
                   [] OTHER           -> {Len(taken.fs.code)}
    IN  [x |-> taken, exit |-> exit]

GoIfTrue(x0) ==
    LET g == GoIf(DischargeVars(x0), 0, {"K", "KNUM", "TRUE"})
    IN  [g.x EXCEPT !.fs = PatchToHere(@, g.x.e.t), !.e.t = {}, !.e.f = @ \cup g.exit]

GoIfFalse(x0) ==
    LET g == GoIf(DischargeVars(x0), 1, {"NIL", "FALSE"})
    IN  [g.x EXCEPT !.fs = PatchToHere(@, g.x.e.f), !.e.f = {}, !.e.t = @ \cup g.exit]

CodeNot(x0) ==
    LET x == DischargeVars(x0)
        r == Discharge2AnyReg(x)
        y == CASE x.e.k \in {"NIL", "FALSE"}      -> [x EXCEPT !.e.k = "TRUE"]
               [] x.e.k \in {"K", "KNUM", "TRUE"} -> [x EXCEPT !.e.k = "FALSE"]
               [] x.e.k = "JMP" -> InvertJump(x)
               [] OTHER -> Relocable([r EXCEPT !.fs = FreeExp(@, r.e)],
                                     Ins("NOT", 0, r.e.info, 0))
    IN  [y EXCEPT !.fs = RemoveValues(@, y.e.t \cup y.e.f), !.e.t = y.e.f, !.e.f = y.e.t]

-----------------------------------------------------------------------------
(* Operators.  The numbers of the model are integers: `/' is left out, `%' *)
(* has a positive divisor and `^' no negative exponent.                    *)

NumArith(op, v1, v2) ==
    CASE op = "ADD" -> v1 + v2
      [] op = "SUB" -> v1 - v2
      [] op = "MUL" -> v1 * v2
      [] op = "MOD" -> v1 % v2
      [] op = "POW" -> v1 ^ v2
      [] op = "UNM" -> -v1

Folds(op, e1, e2) ==
    /\ IsNumeral(e1) /\ IsNumeral(e2)
    /\ op \in {"ADD", "SUB", "MUL", "POW", "UNM"} \/ (op = "MOD" /\ e2.info # 0)

CodeArith(op, e1, x) ==
    LET unary == op \in {"UNM", "LEN"}
        y2 == IF unary THEN x ELSE Exp2RK(x)
        y1 == Exp2RK([y2 EXCEPT !.e = e1])
        o1 == RK(y1.e)
        o2 == IF unary THEN 0 ELSE RK(y2.e)
        freed == IF o1 > o2 THEN FreeExp(FreeExp(y1.fs, y1.e), y2.e)
                 ELSE FreeExp(FreeExp(y1.fs, y2.e), y1.e)
    IN  IF Folds(op, e1, x.e) THEN [x EXCEPT !.e = [e1 EXCEPT !.info = NumArith(op, @, x.e.info)]]
        ELSE Relocable([y1 EXCEPT !.fs = freed], Ins(op, 0, o1, o2))

CodeComp(op, cond, e1, x) ==
    LET y1 == Exp2RK([x EXCEPT !.e = e1])
        y2 == Exp2RK([y1 EXCEPT !.e = x.e])
        fs == FreeExp(FreeExp(y2.fs, y2.e), y1.e)
        o1 == RK(y1.e)
        o2 == RK(y2.e)
        i  == IF cond = 0 /\ op # "EQ" THEN Ins(op, 1, o2, o1) ELSE Ins(op, cond, o1, o2)
    IN  [y1 EXCEPT !.fs = CondJump(fs, i), !.e.k = "JMP", !.e.info = Pc(fs) + 1]

Prefix(op, x) ==
    LET zero == Exp("KNUM", 0)
        With(y, arith) == CodeArith(arith, y.e, [y EXCEPT !.e = zero])
    IN  CASE op = "not" -> CodeNot(x)
          [] op = "-"   -> With(IF IsNumeral(x.e) THEN x ELSE Exp2AnyReg(x), "UNM")
          [] op = "#"   -> With(Exp2AnyReg(x), "LEN")

ArithOp == [op \in {"+", "-", "*", "/", "%", "^"} |->
               CASE op = "+" -> "ADD" [] op = "-" -> "SUB" [] op = "*" -> "MUL"
                 [] op = "/" -> "DIV" [] op = "%" -> "MOD" [] op = "^" -> "POW"]

Infix(op, x) ==
    CASE op = "and" -> GoIfTrue(x)
      [] op = "or"  -> GoIfFalse(x)
      [] op = ".."  -> Exp2NextReg(x)
      [] OTHER      -> IF op \in DOMAIN ArithOp /\ IsNumeral(x.e) THEN x ELSE Exp2RK(x)

(* The left operand e1, and the right one at hand. *)
Posfix(op, e1, x) ==
    LET d == DischargeVars(x)
        v == Exp2Val(x)
        n == Exp2NextReg(v)
        chain == v.e.k = "RELOCABLE" /\ v.fs.code[v.e.info].o = "CONCAT"
    IN  CASE op = "and" -> [d EXCEPT !.fs = Claim(@, e1.t = {}, "posfix"), !.e.f = @ \cup e1.f]
          [] op = "or"  -> [d EXCEPT !.fs = Claim(@, e1.f = {}, "posfix"), !.e.t = @ \cup e1.t]
          [] op = ".." /\ chain ->
                [v EXCEPT
                    !.fs = SetArg(FreeExp(Claim(@, e1.info = @.code[v.e.info].b - 1, "concat"), e1),
                                  v.e.info, "b", e1.info),
                    !.e = [e1 EXCEPT !.k = "RELOCABLE", !.info = v.e.info]]
          [] op = ".." -> CodeArith("CONCAT", e1, n)
          [] op = "==" -> CodeComp("EQ", 1, e1, x)
          [] op = "~=" -> CodeComp("EQ", 0, e1, x)
          [] op = "<"  -> CodeComp("LT", 1, e1, x)
          [] op = "<=" -> CodeComp("LE", 1, e1, x)
          [] op = ">"  -> CodeComp("LT", 0, e1, x)
          [] op = ">=" -> CodeComp("LE", 0, e1, x)
          [] OTHER     -> CodeArith(ArithOp[op], e1, x)

SetList(fs, base, nelems, tostore) ==
    LET batch == (nelems - 1) \div FieldsPerFlush + 1
        count == IF tostore = MultRet THEN 0 ELSE tostore
    IN  [Code(Claim(fs, tostore # 0, "setlist"), Ins("SETLIST", base, count, batch))
            EXCEPT !.freereg = base + 1]
=============================================================================
