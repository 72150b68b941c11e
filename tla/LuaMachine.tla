----------------------------- MODULE LuaMachine -----------------------------
(***************************************************************************)
(* The state of the virtual machine that runs compiled code: threads with  *)
(* their frames (lstate.h), tables with metatables and the cache of absent *)
(* metamethods (ltable.c, ltm.c), closures and the upvalues they share     *)
(* (lfunc.c).  The operators of this module map a machine m to the next:   *)
(*   m.th   the threads, the main one first                                *)
(*   m.run  the threads that run: each one resumed the next, the last runs *)
(*   m.cl   the Lua closures;  m.uv  the upvalues;  m.tab  the tables      *)
(*   m.todo what is to be done before the next instruction: see LuaDo      *)
(*   m.ans  what the chunk has come to: <<>> while it runs                 *)
(* The arguments a caller pushes are handed to the new frame and not       *)
(* shared with it: registers a call leaves behind hold Dead.               *)
(***************************************************************************)
EXTENDS LuaCode, LuaTable

CONSTANT BasicCI   \* BASIC_CI_SIZE: the frames a thread starts with room for

CFunction(name, arg) == <<"cfunction", name, arg>>

TypeOf(v)  == IF v[1] = "cfunction" THEN "function" ELSE v[1]
IsLua(v)   == v[1] = "function"
IsC(v)     == v[1] = "cfunction"

-----------------------------------------------------------------------------
(* Threads and frames.  top is -1 while L->top stands at the end of the    *)
(* frame, and the number of live registers after open results.             *)

(* What becomes of the results of a function: see Deliver in LuaDo. *)
Ret(kind, a, n) == [k |-> kind, a |-> a, n |-> n]

Frame(f, regs, varargs, ret) ==
    [cl |-> f, pc |-> 1, regs |-> regs, top |-> -1, va |-> varargs, ret |-> ret,
     handler |-> Nil, nC |-> 0, k |-> <<>>]

Thread(stack) ==
    [frames |-> <<>>, status |-> "ok", stack |-> stack, size |-> BasicCI, nC |-> 0, baseC |-> 0]

Idle      == [op |-> "none"]

Cur(m)    == Last(m.run)
CurTh(m)  == m.th[Cur(m)]
Depth(m)  == Len(CurTh(m).frames)
Top(m)    == Last(CurTh(m).frames)
SetTh(m, t)     == [m EXCEPT !.th[Cur(m)] = t]
SetTop(m, f)    == [m EXCEPT !.th[Cur(m)].frames = Append(Front(@), f)]
Push(m, f)      == [m EXCEPT !.th[Cur(m)].frames = Append(@, f)]
Pop(m)          == [m EXCEPT !.th[Cur(m)].frames = Front(@)]

(* Writing the registers from r on; the frame grows where it has to. *)
Write(regs, r, vals) ==
    SubSeq(regs \o Repeat(Dead, r - Len(regs)), 1, r) \o vals
        \o SubSeq(regs, r + Len(vals) + 1, Len(regs))

SetRegs(m, r, vals) == SetTop(m, [Top(m) EXCEPT !.regs = Write(@, r, vals)])
SetReg(m, r, v)     == SetRegs(m, r, <<v>>)

-----------------------------------------------------------------------------
(* Upvalues (lfunc.c): open while the register lives, in that register, and *)
(* closed into a value of their own when it goes.                           *)

OpenUpval(t, f, r) == [th |-> t, fr |-> f, reg |-> r, v |-> Nil]
IsOpenUpval(u)     == u.th # 0
ReadUpval(m, id) ==
    LET u == m.uv[id] IN IF IsOpenUpval(u) THEN m.th[u.th].frames[u.fr].regs[u.reg + 1] ELSE u.v

WriteUpval(m, id, v) ==
    LET u == m.uv[id]
        f == m.th[u.th].frames[u.fr]
    IN  IF IsOpenUpval(u)
        THEN [m EXCEPT !.th[u.th].frames[u.fr] = [f EXCEPT !.regs = Write(@, u.reg, <<v>>)]]
        ELSE [m EXCEPT !.uv[id] = [u EXCEPT !.v = v]]

(* luaF_findupval: closures of one register share one upvalue.  Those of a  *)
(* set that are not there are made; in which order, their addresses alone   *)
(* would tell.                                                              *)
UpvalId(uv, u)       == SelectInSeq(uv, LAMBDA w : w = u)
FindUpvals(uv, open) == uv \o SetToSeq(open \ Range(uv))

(* The upvalues of a function; nups is a lu_byte. *)
Nups(p) == {j \in 1 .. 255 : j <= p.nups}

(* luaF_close: the upvalues of the running thread in the frames from one on, *)
(* or in the frame on top from a register on.                                *)
CloseWhere(m, Goes(_)) ==
    [m EXCEPT !.uv = [id \in DOMAIN m.uv |->
        IF m.uv[id].th = Cur(m) /\ Goes(m.uv[id])
        THEN [th |-> 0, fr |-> 0, reg |-> 0, v |-> ReadUpval(m, id)] ELSE m.uv[id]]]
CloseFrames(m, depth) == CloseWhere(m, LAMBDA u : u.fr >= depth)
CloseRegs(m, r)       == CloseWhere(m, LAMBDA u : u.fr = Depth(m) /\ u.reg >= r)

-----------------------------------------------------------------------------
(* Tables and metamethods (ltm.c).  A metatable remembers in absent the    *)
(* events it was asked for in vain; only those of fasttm are remembered.   *)

RawGet(m, t, key)    == Get(m.tab[t[2]], key)
SetTab(m, t, tab)    == [m EXCEPT !.tab = [@ EXCEPT ![t[2]] = tab]]
RawSet(m, t, key, v) == SetTab(m, t, Set(m.tab[t[2]], key, v))

StringMeta == 5    \* the table that is the metatable of all strings
MetaOf(m, v) == CASE v[1] = "table"  -> m.tab[v[2]].meta
                  [] v[1] = "string" -> StringMeta
                  [] OTHER           -> 0

(* luaT_gettmbyobj *)
Metamethod(m, v, event) ==
    IF MetaOf(m, v) = 0 THEN Nil ELSE RawGet(m, Table(MetaOf(m, v)), Str(event))

(* fasttm, for the metatable mt (0 for none): the handler, Nil when it is absent or *)
(* was absent before; the second operator is the machine that has learnt it.        *)
FastTM(m, mt, event) ==
    IF mt = 0 \/ event \in m.tab[mt].absent THEN Nil ELSE RawGet(m, Table(mt), Str(event))
Learn(m, mt, event) ==
    IF mt = 0 \/ RawGet(m, Table(mt), Str(event)) # Nil THEN m
    ELSE [m EXCEPT !.tab = [@ EXCEPT ![mt] = [@ EXCEPT !.absent = @ \cup {event}]]]

(* get_compTM: an __eq handler both tables have. *)
CompTM(m, t1, t2) ==
    LET tm1 == FastTM(m, MetaOf(m, t1), "__eq")
        tm2 == FastTM(m, MetaOf(m, t2), "__eq")
    IN  IF MetaOf(m, t1) = MetaOf(m, t2) \/ tm1 = tm2 THEN tm1 ELSE Nil

(* call_orderTM: the handler both operands have. *)
OrderTM(m, v1, v2, event) ==
    LET tm == Metamethod(m, v1, event)
    IN  IF tm = Metamethod(m, v2, event) THEN tm ELSE Nil

(* call_binTM: the first operand's handler, or else the second's. *)
BinTM(m, v1, v2, event) ==
    LET tm == Metamethod(m, v1, event)
    IN  IF tm # Nil THEN tm ELSE Metamethod(m, v2, event)
=============================================================================
