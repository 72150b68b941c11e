------------------------------- MODULE LuaVM --------------------------------
(***************************************************************************)
(* The virtual machine (lvm.c, luaV_execute): one action for each kind of  *)
(* instruction, and one for each thing an instruction leaves to be done.   *)
(* The chunk is loaded and, where the compiler accepted it, run, one       *)
(* instruction of the running thread in each step, until the host has its  *)
(* results or its error.                                                   *)
(***************************************************************************)
EXTENDS LuaDo

CONSTANT Chunks   \* what the compiler made of each chunk: err, the message it
                  \* refuses it with; bad, the assertions of the compiler that
                  \* failed; proto, the main function; ok, the verdict of the
                  \* verifier on it.  answer is what the chunk is to answer.

(* A chunk is something, whatever else it is: <<>> is none. *)
ASSUME ChunksAssumption == \A c \in DOMAIN Chunks : Chunks[c] # <<>>

VARIABLES
    chunk,       \* the chunk that is run: its place in Chunks
    compiled,    \* the chunk once it is loaded; <<>> before
    threads, running, closures, upvals, tables,   \* the machine: see LuaMachine
    todo,        \* what is to be done before the next instruction
    ans,         \* what the chunk has come to: <<>> before
    tick         \* alternates, so that a jump to itself is a step as any other

vars == <<chunk, compiled, threads, running, closures, upvals, tables, todo, ans, tick>>

M == [th |-> threads, run |-> running, cl |-> closures, uv |-> upvals,
      tab |-> tables, todo |-> todo, ans |-> ans]

Becomes(m) ==
    /\ threads' = m.th /\ running' = m.run /\ closures' = m.cl
    /\ upvals' = m.uv /\ tables' = m.tab
    /\ todo' = m.todo /\ ans' = m.ans /\ tick' = ~tick
    /\ UNCHANGED <<chunk, compiled>>

Init ==
    /\ chunk \in DOMAIN Chunks
    /\ compiled = <<>>
    /\ threads = <<Thread(<<>>)>> /\ running = <<1>>
    /\ closures = <<>> /\ upvals = <<>> /\ tables = LibsOpen
    /\ todo = Idle /\ ans = <<>> /\ tick = FALSE

(* luaL_loadbuffer and lua_pcall: a chunk that does not compile is not run. *)
Load ==
    /\ compiled = <<>>
    /\ compiled' = Chunks[chunk]
    /\ IF compiled'.err = ""
       THEN /\ closures' = <<[p |-> compiled'.proto, upvals |-> <<>>]>>
            /\ todo' = [op |-> "call", v |-> <<"function", 1>>, vals |-> <<>>, ret |-> Ret("host", 0, -1)]
            /\ ans' = ans
       ELSE /\ ans' = <<"error", Str(compiled'.err)>>
            /\ UNCHANGED <<closures, todo>>
    /\ tick' = ~tick
    /\ UNCHANGED <<chunk, threads, running, upvals, tables>>

-----------------------------------------------------------------------------
(* The instruction at hand, its operands, and the machine past it. *)

Fr   == Top(M)
P    == ProtoOfClosure(M, Fr.cl)
I    == P.code[Fr.pc]
Now  == Goto(M, Fr.pc + 1)
R(r) == Fr.regs[r + 1]
K(i) == P.k[i + 1]
RKOf(x) == IF ISK(x) THEN K(INDEXK(x)) ELSE R(x)
Globals == Table(1)

Executing(ops) == compiled # <<>> /\ ans = <<>> /\ todo = Idle /\ I.o \in ops

(* The operands an open instruction takes: B of them, or up to the top. *)
Operands(first, b) == SubSeq(Fr.regs, first + 1, IF b = 0 THEN Fr.top ELSE first + b - 1)

Move == Executing({"MOVE"}) /\ Becomes(SetReg(Now, I.a, R(I.b)))

LoadK == Executing({"LOADK"}) /\ Becomes(SetReg(Now, I.a, K(I.b)))

LoadBool ==
    /\ Executing({"LOADBOOL"})
    /\ LET n == IF I.c # 0 THEN SkipNext(Now) ELSE Now
       IN  Becomes(SetReg(n, I.a, Bool(I.b = 1)))

LoadNil ==
    Executing({"LOADNIL"}) /\ Becomes(SetRegs(Now, I.a, Adjust(<<>>, I.b - I.a + 1)))

GetUpval ==
    /\ Executing({"GETUPVAL"})
    /\ Becomes(SetReg(Now, I.a, ReadUpval(M, closures[Fr.cl[2]].upvals[I.b + 1])))

SetUpval ==
    /\ Executing({"SETUPVAL"})
    /\ Becomes(WriteUpval(Now, closures[Fr.cl[2]].upvals[I.b + 1], R(I.a)))

GetGlobal == Executing({"GETGLOBAL"}) /\ Becomes(GetTable(Now, Globals, K(I.b), I.a, 0))
SetGlobal == Executing({"SETGLOBAL"}) /\ Becomes(SetTable(Now, Globals, K(I.b), R(I.a), 0))
GetField  == Executing({"GETTABLE"}) /\ Becomes(GetTable(Now, R(I.b), RKOf(I.c), I.a, 0))
SetField  == Executing({"SETTABLE"}) /\ Becomes(SetTable(Now, R(I.a), RKOf(I.b), RKOf(I.c), 0))

SelfIndex ==
    /\ Executing({"SELF"})
    /\ Becomes(GetTable(SetReg(Now, I.a + 1, R(I.b)), R(I.b), RKOf(I.c), I.a, 0))

CreateTable ==
    /\ Executing({"NEWTABLE"})
    /\ Becomes(SetReg([Now EXCEPT !.tab = Append(@, NewTable(Fb2int(I.b), Fb2int(I.c)))],
                      I.a, Table(Len(tables) + 1)))

Arithmetic ==
    /\ Executing({"ADD", "SUB", "MUL", "MOD", "POW"})
    /\ Becomes(Arith(Now, I.o, I.a, RKOf(I.b), RKOf(I.c)))

Negate == Executing({"UNM"}) /\ Becomes(Arith(Now, "UNM", I.a, R(I.b), R(I.b)))
Not    == Executing({"NOT"}) /\ Becomes(SetReg(Now, I.a, Bool(Falsy(R(I.b)))))

Length ==
    /\ Executing({"LEN"})
    /\ LET v == R(I.b)
       IN  \/ IsTable(v) /\ Becomes(SetReg(Now, I.a, Num(GetN(tables[v[2]]))))
           \/ v[1] = "string" /\ Becomes(SetReg(Now, I.a, Num(Len(v[2]))))
           \/ v[1] \notin {"table", "string"} /\ Becomes(TypeError(Now, v, "get length of"))

Concatenate == Executing({"CONCAT"}) /\ Becomes(Concat(Now, I.b, I.c))

JumpTo == Executing({"JMP"}) /\ Becomes(Goto(Now, I.b))

Compare ==
    \/ Executing({"EQ"}) /\ Becomes(EqualObj(Now, RKOf(I.b), RKOf(I.c)))
    \/ Executing({"LT"}) /\ Becomes(LessThan(Now, RKOf(I.b), RKOf(I.c), FALSE))
    \/ Executing({"LE"}) /\ Becomes(LessThan(Now, RKOf(I.b), RKOf(I.c), TRUE))

Test ==
    /\ Executing({"TEST"})
    /\ Becomes(Branch(Now, Falsy(R(I.a)) = (I.c = 0)))

TestSet ==
    /\ Executing({"TESTSET"})
    /\ LET taken == Falsy(R(I.b)) = (I.c = 0)
       IN  Becomes(Branch(IF taken THEN SetReg(Now, I.a, R(I.b)) ELSE Now, taken))

CallFunction ==
    /\ Executing({"CALL"})
    /\ Becomes(Precall(Now, R(I.a), Operands(I.a + 1, I.b), Ret("call", I.a, I.c - 1)))

(* The new frame takes the place of the old one, whose upvalues are closed  *)
(* before; a C function is called as usual, and the RETURN that follows     *)
(* passes its results on.                                                   *)
Replaced(m) ==
    LET d == Depth(M)
        c == CloseFrames(m, d)
    IN  IF m.todo = Idle
        THEN [c EXCEPT !.th[Cur(m)].frames =
                 Append(SubSeq(@, 1, d - 1), [Top(m) EXCEPT !.ret = Fr.ret])]
        ELSE m

TailCall ==
    /\ Executing({"TAILCALL"})
    /\ Becomes(Replaced(Precall(Now, R(I.a), Operands(I.a + 1, I.b), Ret("call", I.a, MultRet))))

ReturnFrom ==
    /\ Executing({"RETURN"})
    /\ Becomes(Return(CloseFrames(Now, Depth(M)), Operands(I.a, I.b)))

ForPrep ==
    /\ Executing({"FORPREP"})
    /\ LET n == [j \in 1 .. 3 |-> ToNumber(R(I.a + j - 1))]
       IN  Becomes(IF n[1] = Nil THEN RunError(Now, "'for' initial value must be a number")
                   ELSE IF n[2] = Nil THEN RunError(Now, "'for' limit must be a number")
                   ELSE IF n[3] = Nil THEN RunError(Now, "'for' step must be a number")
                   ELSE Goto(SetRegs(Now, I.a, <<Num(n[1][2] - n[3][2]), n[2], n[3]>>), I.b))

ForLoop ==
    /\ Executing({"FORLOOP"})
    /\ LET step  == R(I.a + 2)[2]
           idx   == R(I.a)[2] + step
           limit == R(I.a + 1)[2]
           again == IF 0 < step THEN idx <= limit ELSE limit <= idx
       IN  Becomes(IF again
                   THEN Goto(SetReg(SetReg(Now, I.a, Num(idx)), I.a + 3, Num(idx)), I.b)
                   ELSE Now)

TForLoop ==
    /\ Executing({"TFORLOOP"})
    /\ Becomes(Invoke(Now, R(I.a), <<R(I.a + 1), R(I.a + 2)>>, Ret("for", I.a, I.c)))

(* The items follow the element at base, and are set from the last one on. *)
SetItems(t, base, items) ==
    FoldLeft(LAMBDA s, j : SetKnown(s, Num(base + j), items[j]), t, Down(Len(items), 1))

SetListItems ==
    /\ Executing({"SETLIST"})
    /\ LET items == Operands(I.a + 1, IF I.b = 0 THEN 0 ELSE I.b + 1)
           base  == (I.c - 1) * FieldsPerFlush
           last  == base + Len(items)
           m     == SetTop(Now, [Top(Now) EXCEPT !.top = -1])
           room  == IF last > Len(tables[R(I.a)[2]].arr) THEN ResizeArray(tables[R(I.a)[2]], last)
                    ELSE tables[R(I.a)[2]]
       IN  Becomes(SetTab(m, R(I.a), SetItems(room, base, items)))

Close == Executing({"CLOSE"}) /\ Becomes(CloseRegs(Now, I.a))

(* One pseudo-instruction for each upvalue says where it comes from: from an *)
(* upvalue of the function that runs, or from a register of its frame, for   *)
(* which an upvalue is made where none is open.                              *)
MakeClosure ==
    /\ Executing({"CLOSURE"})
    /\ LET p == P.p[I.b + 1]
           From(j)   == P.code[Fr.pc + j]
           Shared(j) == From(j).o = "GETUPVAL"
           Local(j)  == OpenUpval(Cur(M), Depth(M), From(j).b)
           uv  == FindUpvals(upvals, {Local(j) : j \in {i \in Nups(p) : ~Shared(i)}})
           ids == [j \in Nups(p) |-> IF Shared(j) THEN closures[Fr.cl[2]].upvals[From(j).b + 1]
                                     ELSE UpvalId(uv, Local(j))]
           made == [Now EXCEPT !.uv = uv, !.cl = Append(@, [p |-> p, upvals |-> ids])]
       IN  Becomes(SetReg(Goto(made, Fr.pc + 1 + p.nups), I.a, <<"function", Len(closures) + 1>>))

Vararg ==
    /\ Executing({"VARARG"})
    /\ LET vals == IF I.b = 0 THEN Fr.va ELSE Adjust(Fr.va, I.b - 1)
           m == SetRegs(Now, I.a, vals)
       IN  Becomes(IF I.b = 0 THEN SetTop(m, [Top(m) EXCEPT !.top = I.a + Len(vals)]) ELSE m)

-----------------------------------------------------------------------------
(* What an instruction, or the action before, has left to be done. *)

Doing(op) == ans = <<>> /\ todo.op = op
Ready == [M EXCEPT !.todo = Idle]

DoCall     == Doing("call") /\ Becomes(CallD(Ready, todo.v, todo.vals, todo.ret))
DoCFunction == Doing("c") /\ Becomes(CallC(Ready, todo.v, todo.vals))
DoAgain    == Doing("again") /\ Becomes(GoRound(Ready))
DoReturn   == Doing("return") /\ Becomes(Deliver(Pop(Ready), Fr.ret, todo.vals))
DoError    == Doing("error") /\ Becomes(ErrorMsg(Ready, todo.v))
DoThrow    == Doing("throw") /\ Becomes(Unwind(Ready, todo.v))
DoResumed  == Doing("resumer") /\ Becomes(Resumed(Ready, todo.v[2], todo.vals))
DoConcat   == Doing("concat") /\ Becomes(ConcatStep(Ready, todo.vals[1], todo.vals[2]))
DoGetTable == Doing("gettable") /\ Becomes(Index(Ready, todo.v, todo.vals[1], todo.ret.a, todo.vals[2]))
DoSetTable == Doing("settable") /\ Becomes(NewIndex(Ready, todo.v, todo.vals[1], todo.vals[2], todo.vals[3]))

Pending ==
    \/ DoCall \/ DoCFunction \/ DoAgain \/ DoReturn \/ DoError \/ DoThrow \/ DoResumed
    \/ DoConcat \/ DoGetTable \/ DoSetTable

Execute ==
    \/ Move \/ LoadK \/ LoadBool \/ LoadNil \/ GetUpval \/ SetUpval
    \/ GetGlobal \/ SetGlobal \/ GetField \/ SetField \/ SelfIndex \/ CreateTable
    \/ Arithmetic \/ Negate \/ Not \/ Length \/ Concatenate
    \/ JumpTo \/ Compare \/ Test \/ TestSet
    \/ CallFunction \/ TailCall \/ ReturnFrom
    \/ ForPrep \/ ForLoop \/ TForLoop
    \/ SetListItems \/ Close \/ MakeClosure \/ Vararg

Done == ans # <<>> /\ UNCHANGED vars

Next == Load \/ Execute \/ Pending \/ Done

(* The host waits in lua_pcall: a machine that is not done takes a step.   *)
(* This is WF_vars(Next), with ans = <<>> for the condition that a step    *)
(* which changes vars is enabled: that it is one is the absence of         *)
(* deadlock.                                                               *)
GoesOn == []<>(ans # <<>>) \/ []<><<TRUE>>_vars

Spec == Init /\ [][Next]_vars /\ GoesOn

-----------------------------------------------------------------------------
(* What the compiler and the machine promise together: a chunk answers what *)
(* its program means, whatever the registers, jumps and constants it was    *)
(* compiled into (lparser.c, lcode.c, lvm.c, ldo.c).                        *)
CodeMeansProgram == ans # <<>> => ViewAnswer(ans) = compiled.answer

(* The assertions of the compiler hold: each statement ends with as many    *)
(* registers in use as there are variables (lparser.c:1332).                *)
AssertionsHold == compiled # <<>> => compiled.bad = {}

(* What the compiler emits passes the verifier that precompiled code has to *)
(* pass (ldebug.c, luaG_checkcode): jumps in the function, registers in the *)
(* frame, open results taken by the next instruction.                       *)
CodeVerifies == compiled # <<>> /\ compiled.err = "" => compiled.ok /\ compiled.bad = {}

(* An open upvalue points to a register of a frame that is there, and no    *)
(* two point to the same: what a return, an error, a break or a dead        *)
(* coroutine leaves behind is closed (lfunc.c).                             *)
UpvaluesInFrames ==
    LET open == {i \in DOMAIN upvals : IsOpenUpval(upvals[i])}
        InFrame(u) == /\ u.th \in DOMAIN threads
                      /\ u.fr \in DOMAIN threads[u.th].frames
                      /\ IsLua(threads[u.th].frames[u.fr].cl)
    IN  /\ \A i \in open : InFrame(upvals[i])
        /\ \A i, j \in open : upvals[i] = upvals[j] => i = j
UpvaluesInRegs ==
    \A i \in DOMAIN upvals :
        LET u == upvals[i]
        IN  IsOpenUpval(u) => u.reg + 1 \in DOMAIN threads[u.th].frames[u.fr].regs
UpvaluesLive == UpvaluesInFrames /\ UpvaluesInRegs

(* A metatable that is remembered to lack an event lacks it: every way to   *)
(* give it a field clears the memory (ltm.c, ltable.c).                     *)
AbsenceTrue == \A i \in DOMAIN tables : AbsentTrue(tables[i])

(* Every key of a table is found where it is, whatever was moved to make    *)
(* room for it: chains start at nodes that are at home and do not merge,    *)
(* the array part and the nodes share no key, and no free node is above     *)
(* lastfree (ltable.c).                                                     *)
TablesSound == \A i \in DOMAIN tables : TableSound(tables[i])

(* Between two instructions the nesting of C calls of every thread is that  *)
(* of the frames that nest, however they were left (ldo.c, nCcalls): a call *)
(* that failed still counts while the handler of its error runs, and no     *)
(* longer.  Nothing nests in a coroutine that waits to be resumed, at a     *)
(* depth nobody knows yet.  And no coroutine runs twice: what resumed it    *)
(* waits in a C function.                                                   *)
NestedIn(frames)   == Cardinality({i \in DOMAIN frames : Nested(frames[i].ret)})
HandlerIn(frames)  == \E i \in DOMAIN frames : frames[i].ret.k = "handler"
AtLevel(n, base, frames) ==
    n >= base + NestedIn(frames) /\ (HandlerIn(frames) \/ n = base + NestedIn(frames))
CallsNest ==
    todo = Idle /\ ans = <<>> /\ compiled # <<>> =>
        /\ \A t \in Range(threads) :
              /\ t.frames # <<>> /\ t.status = "ok" => AtLevel(t.nC, t.baseC, t.frames)
              /\ t.status = "yield" => NestedIn(t.frames) = 0
        /\ IsInjective(running)
        /\ \A i \in 1 .. Len(running) - 1 :
              Last(threads[running[i]].frames).cl[2] \in {"resume", "auxwrap"}

(* A dead coroutine stays as it is: resuming it is refused, and neither it  *)
(* nor the frames an error left on it go on; their variables may still be   *)
(* written by the closures that share them (ldo.c, lua_resume; lbaselib.c,  *)
(* auxresume).                                                              *)
Stage(t) == <<t.status, t.stack, [i \in DOMAIN t.frames |-> <<t.frames[i].cl, t.frames[i].pc>>]>>
DeadStaysDead ==
    [][\A co \in DOMAIN threads :
          CoStatus(M, co) = "dead" => Stage(threads'[co]) = Stage(threads[co])]_vars

(* Every chunk comes to an answer: no jump the compiler patched, no chain   *)
(* of handlers and no nesting of calls goes on for ever.                    *)
Terminates == <>(ans # <<>>)
=============================================================================
