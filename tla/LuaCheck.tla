------------------------------ MODULE LuaCheck ------------------------------
(***************************************************************************)
(* The verifier of compiled code (ldebug.c, symbexec with NO_REG): the     *)
(* conditions a prototype must meet before the virtual machine may run it. *)
(* The code applies them to precompiled chunks; what the compiler emits is *)
(* trusted, so that its code meets them is a property of the compiler.     *)
(***************************************************************************)
EXTENDS LuaParser

(* luaP_opmodes: what an instruction does with its operands.  An argument  *)
(* is unused (N), used in some way (U), a register (R), or a register or a *)
(* constant (K); x marks the operand Bx that spans B and C.                *)
Mode(a, b, c) == [seta |-> a, b |-> b, c |-> c]
OpModes ==
    [MOVE     |-> Mode(TRUE, "R", "N"),  LOADK     |-> Mode(TRUE, "K", "x"),
     LOADBOOL |-> Mode(TRUE, "U", "U"),  LOADNIL   |-> Mode(TRUE, "R", "N"),
     GETUPVAL |-> Mode(TRUE, "U", "N"),  GETGLOBAL |-> Mode(TRUE, "K", "x"),
     GETTABLE |-> Mode(TRUE, "R", "K"),  SETGLOBAL |-> Mode(FALSE, "K", "x"),
     SETUPVAL |-> Mode(FALSE, "U", "N"), SETTABLE  |-> Mode(FALSE, "K", "K"),
     NEWTABLE |-> Mode(TRUE, "U", "U"),  SELF      |-> Mode(TRUE, "R", "K"),
     ADD |-> Mode(TRUE, "K", "K"), SUB |-> Mode(TRUE, "K", "K"),
     MUL |-> Mode(TRUE, "K", "K"), DIV |-> Mode(TRUE, "K", "K"),
     MOD |-> Mode(TRUE, "K", "K"), POW |-> Mode(TRUE, "K", "K"),
     UNM |-> Mode(TRUE, "R", "N"), NOT |-> Mode(TRUE, "R", "N"),
     LEN |-> Mode(TRUE, "R", "N"), CONCAT |-> Mode(TRUE, "R", "R"),
     JMP |-> Mode(FALSE, "R", "x"), EQ |-> Mode(FALSE, "K", "K"),
     LT  |-> Mode(FALSE, "K", "K"), LE |-> Mode(FALSE, "K", "K"),
     TEST |-> Mode(TRUE, "R", "U"), TESTSET  |-> Mode(TRUE, "R", "U"),
     CALL |-> Mode(TRUE, "U", "U"), TAILCALL |-> Mode(TRUE, "U", "U"),
     RETURN  |-> Mode(FALSE, "U", "N"), FORLOOP  |-> Mode(TRUE, "R", "x"),
     FORPREP |-> Mode(TRUE, "R", "x"),  TFORLOOP |-> Mode(FALSE, "N", "U"),
     SETLIST |-> Mode(FALSE, "U", "U"), CLOSE    |-> Mode(FALSE, "N", "N"),
     CLOSURE |-> Mode(TRUE, "U", "x"),  VARARG   |-> Mode(TRUE, "U", "N")]

JumpOps == {"JMP", "FORLOOP", "FORPREP"}

CheckReg(p, r) == r < p.maxstack
CheckArg(p, r, mode) ==
    CASE mode = "N" -> r = 0
      [] mode = "R" -> CheckReg(p, r)
      [] mode = "K" -> IF ISK(r) THEN INDEXK(r) < Len(p.k) ELSE CheckReg(p, r)
      [] OTHER      -> TRUE

(* luaG_checkopenop: what may follow an instruction with open results. *)
CheckOpenOp(i) == i.o \in {"CALL", "TAILCALL", "RETURN", "SETLIST"} /\ i.b = 0

Precheck(p) ==
    /\ p.maxstack <= MaxStack
    /\ p.numparams + (IF "HASARG" \in p.vararg THEN 1 ELSE 0) <= p.maxstack
    /\ "NEEDSARG" \in p.vararg => "HASARG" \in p.vararg
    /\ p.code # <<>> /\ Last(p.code).o = "RETURN"

CheckOperands(p, i) ==
    CASE i.o \in JumpOps -> i.b \in DOMAIN p.code
      [] OpModes[i.o].c = "x" -> OpModes[i.o].b = "K" => i.b < Len(p.k)
      [] OTHER -> CheckArg(p, i.b, OpModes[i.o].b) /\ CheckArg(p, i.c, OpModes[i.o].c)

CheckInstruction(p, pc) ==
    LET i == p.code[pc]
        a == i.a
        b == i.b
        c == i.c
        Follows(n) == pc + n <= Len(p.code)
        Open == Follows(1) /\ CheckOpenOp(p.code[pc + 1])
        nup  == IF i.o = "CLOSURE" /\ b < Len(p.p) THEN p.p[b + 1].nups ELSE 0
    IN  /\ CheckReg(p, a) /\ CheckOperands(p, i)
        /\ i.o \in TestModes => Follows(2) /\ p.code[pc + 1].o = "JMP"
        /\ CASE i.o = "LOADBOOL" -> c = 1 => Follows(2)
             [] i.o \in {"GETUPVAL", "SETUPVAL"}   -> b < p.nups
             [] i.o \in {"GETGLOBAL", "SETGLOBAL"} -> p.k[b + 1][1] = "string"
             [] i.o = "SELF"     -> CheckReg(p, a + 1)
             [] i.o = "CONCAT"   -> b < c
             [] i.o = "TFORLOOP" -> c >= 1 /\ CheckReg(p, a + 2 + c)
             [] i.o \in {"FORLOOP", "FORPREP"} -> CheckReg(p, a + 3)
             [] i.o \in {"CALL", "TAILCALL"} ->
                    /\ b # 0 => CheckReg(p, a + b - 1)
                    /\ IF c = 0 THEN Open ELSE c > 1 => CheckReg(p, a + c - 2)
             [] i.o = "RETURN"  -> b > 1 => CheckReg(p, a + b - 2)
             [] i.o = "SETLIST" -> b > 0 => CheckReg(p, a + b)
             [] i.o = "CLOSURE" ->
                    /\ b < Len(p.p) /\ Follows(nup + 1)
                    /\ \A j \in 1 .. nup : p.code[pc + j].o \in {"GETUPVAL", "MOVE"}
             [] i.o = "VARARG"  ->
                    /\ "ISVARARG" \in p.vararg /\ "NEEDSARG" \notin p.vararg
                    /\ IF b = 0 THEN Open ELSE b > 1 => CheckReg(p, a + b - 2)
             [] OTHER -> TRUE

CheckCode(p) == Precheck(p) /\ \A pc \in DOMAIN p.code : CheckInstruction(p, pc)

(* LoadFunction checks each function of a chunk after the ones inside it. *)
RECURSIVE CheckAll(_)
CheckAll(p) == CheckCode(p) /\ \A j \in DOMAIN p.p : CheckAll(p.p[j])
=============================================================================
