------------------------------ MODULE LuaStack ------------------------------
(***************************************************************************)
(* The value stack of one Lua machine, as LuaManager's sequence of native  *)
(* calls drives it from outside and as function calls, errors and the      *)
(* garbage collector move it inside (ldo.c, lapi.c, lgc.c, lvm.c).         *)
(*                                                                         *)
(* Positions are offsets from L->stack, so that luaD_reallocstack's        *)
(* correctstack is the identity.  The values in the slots are left out:    *)
(* who may write where is the question.  Finalizers, which the collector   *)
(* calls above L->top without a check, are LuaGC's.                        *)
(***************************************************************************)
EXTENDS Integers, Sequences

CONSTANTS
  MinStack,   \* LUA_MINSTACK
  ExtraStack, \* EXTRA_STACK
  MaxCStack,  \* LUAI_MAXCSTACK
  FrameSizes, \* values of Proto.maxstacksize
  MaxMissing, \* fixed parameters a call may leave out
  Pieces,     \* pieces an error message may be pushed in
  MaxArgs,    \* bound of the model: arguments of a call inside the machine
  MaxFrames,  \* bound of the model: CallInfos in use
  MaxSize,    \* bound of the model: stacksize
  MaxLeft     \* bound of the model: slots in use when a call begins

BasicStack == 2 * MinStack  \* BASIC_STACK_SIZE

ASSUME SizesAssumption ==
  /\ MinStack \in Nat /\ MinStack >= 3
  /\ ExtraStack \in Nat
  /\ MaxCStack \in Nat
  /\ FrameSizes \subseteq Nat
  /\ \A m \in FrameSizes : m >= 2  \* registers 0 and 1 always exist
  /\ MaxMissing \in Nat
  /\ Pieces \in Nat \ {0}
  /\ MaxArgs \in Nat
  /\ MaxFrames \in Nat
  /\ MaxSize \in Nat
  /\ MaxLeft \in Nat

VARIABLES
  size,   \* L->stacksize
  top,    \* L->top
  frames, \* L->base_ci .. L->ci
  host    \* where LuaManager's call of a script function is

stackVars == <<size, top, frames, host>>

Phases == {"idle", "named", "ready", "running", "returned"}

(* `guarded' frames were called by lua_pcall, which catches their errors. *)
Frame == [kind : {"host", "lua", "C"}, func : Nat, base : Nat, top : Nat,
          guarded : BOOLEAN]

StackTypeOK ==
  /\ size \in Nat
  /\ top \in Nat
  /\ frames \in Seq(Frame) /\ Len(frames) >= 1
  /\ host \in Phases

(* lua_newstate and the library's and the script's chunks have run: a      *)
(* chunk may leave a value on the stack.                                   *)
HostFrame == [kind |-> "host", func |-> 0, base |-> 1, top |-> 1 + MinStack,
              guarded |-> FALSE]

StackInit ==
  /\ size = BasicStack + ExtraStack
  /\ top \in {1, 2}
  /\ frames = <<HostFrame>>
  /\ host = "idle"

Current == frames[Len(frames)]
InLua == host = "running" /\ Current.kind = "lua"
InC == host = "running" /\ Current.kind = "C"

(***************************************************************************)
(* Growing and shrinking.                                                  *)
(***************************************************************************)
StackLast(s) == s - ExtraStack - 1

Realloced(newsize) == newsize + 1 + ExtraStack

(* luaD_checkstack(L, n) and luaD_growstack, with stacksize s and L->top t. *)
Checked_Exact(s, t, n) == IF StackLast(s) < t + n THEN Realloced(t + n) ELSE s
Checked(s, t, n) ==
  IF StackLast(s) <= t + n
  THEN Realloced(IF n <= s THEN 2 * s ELSE s + n)
  ELSE s

(* A collection that reaches this thread halves a stack of which less than *)
(* a quarter is in use; `used' counts what the frames have reserved.       *)
Reserved(fs, t) == {fs[i].top : i \in DOMAIN fs} \union {t}

Shrunk_NoFactor(s, used) ==
  IF used < s /\ 2 * (BasicStack + ExtraStack) < s
  THEN Realloced(s \div 2) ELSE s
Shrunk(s, used) ==
  IF 4 * used < s /\ 2 * (BasicStack + ExtraStack) < s
  THEN Realloced(s \div 2) ELSE s

(* luaC_checkGC: a step of the collector, which may get to traversestack   *)
(* and to checkstacksizes, or may not: what becomes of stacksize s.        *)
Collected(s, fs, t) ==
  {s} \union {Shrunk(s, used) :
               used \in {r \in Reserved(fs, t) :
                           \A p \in Reserved(fs, t) : p <= r}}

MayCollect(fs, t) == size' \in Collected(size, fs, t)

(***************************************************************************)
(* LuaManager's side: pushes with no lua_checkstack before them.           *)
(***************************************************************************)
GetGlobal ==
  /\ host = "idle"
  /\ top < MaxLeft
  /\ host' = "named"
  /\ top' = top + 1
  /\ UNCHANGED <<size, frames>>

PushString ==
  /\ host = "named"
  /\ host' = "ready"
  /\ MayCollect(frames, top)
  /\ top' = top + 1
  /\ UNCHANGED frames

(***************************************************************************)
(* luaD_precall, when stacksize is s.  The function is at position `func'  *)
(* and its arguments reach up to position t, where L->top is.              *)
(***************************************************************************)
Entered(kind, func, base, ftop, guarded) ==
  frames' = Append(frames, [kind |-> kind, func |-> func, base |-> base,
                            top |-> ftop, guarded |-> guarded])

EnterLua_Unchecked(s, func, t, m, guarded) ==
  /\ size' = s
  /\ top' = func + 1 + m
  /\ Entered("lua", func, func + 1, top', guarded)
EnterLua(s, func, t, m, guarded) ==
  /\ size' = Checked(s, t, m)
  /\ top' = func + 1 + m
  /\ Entered("lua", func, func + 1, top', guarded)

(* adjust_varargs: the frame starts above the arguments, with nil for each *)
(* missing one.  Only a function that wants the old-style `arg' table      *)
(* collects when they are in place, and then checks the stack again.       *)
VarargSizes(s, t, m, missing) ==
  {s} \union {Checked(c, t + missing, m) :
               c \in Collected(s, frames, t + missing)}

EnterVararg(s, func, t, m, missing, guarded) ==
  /\ size' \in VarargSizes(Checked(s, t, m), t, m, missing)
  /\ top' = t + missing + m
  /\ Entered("lua", func, t + missing, top', guarded)

EnterC_NoReserve(s, func, t, guarded) ==
  /\ size' = Checked(s, t, 1)
  /\ top' = t
  /\ Entered("C", func, func + 1, t + MinStack, guarded)
EnterC(s, func, t, guarded) ==
  /\ size' = Checked(s, t, MinStack)
  /\ top' = t
  /\ Entered("C", func, func + 1, t + MinStack, guarded)

EnterFunction(s, func, t, guarded) ==
  \/ \E m \in FrameSizes : EnterLua(s, func, t, m, guarded)
  \/ \E m \in FrameSizes, missing \in 0 .. MaxMissing :
       EnterVararg(s, func, t, m, missing, guarded)
  \/ EnterC(s, func, t, guarded)

(* tryfuncTM: an object's __call metamethod takes the object's place, and  *)
(* the object and its arguments move up by one (incr_top).                 *)
CallTM(s, t) == <<Checked(s, t, 1), t + 1>>

Enter(s, func, t, guarded) ==
  /\ Len(frames) < MaxFrames
  /\ \E c \in {<<s, t>>, CallTM(s, t)} :
       EnterFunction(c[1], func, c[2], guarded)
  /\ size' <= MaxSize

(* lua_pcall(L, 1, 1, 0) on the function and the string just pushed. *)
Pcall ==
  /\ host = "ready"
  /\ host' = "running"
  /\ Enter(size, top - 2, top, TRUE)

(* The global is no function: luaG_typeerror pushes the pieces of its      *)
(* message with incr_top, one luaD_checkstack(L, 1) each.                  *)
PushedMessage(t, pieces) ==
  IF pieces = 0 THEN size ELSE Checked(size, t + pieces - 1, 1)

NotCallable ==
  /\ host = "ready"
  /\ host' = "idle"
  /\ \E pieces \in 1 .. Pieces : size' = PushedMessage(top, pieces)
  /\ size' <= MaxSize
  /\ top' = top - 1
  /\ UNCHANGED frames

(* luaD_poscall with one result wanted, which lua_pcall's caller finds on  *)
(* top ...                                                                 *)
ReturnToHost ==
  /\ host = "running"
  /\ Len(frames) = 2
  /\ host' = "returned"
  /\ top' = Current.func + 1
  /\ frames' = <<HostFrame>>
  /\ MayCollect(frames', top')

(* ... and tostring and pop take away.  Converting a number can collect.   *)
ToStringAndPop ==
  /\ host = "returned"
  /\ host' = "idle"
  /\ MayCollect(frames, top)
  /\ top' = top - 1
  /\ UNCHANGED frames

(***************************************************************************)
(* Inside the call.                                                        *)
(***************************************************************************)
(* OP_CALL sets L->top above its arguments, unless the instruction before  *)
(* it left there an open list of values.                                   *)
Callees(t) == {func \in Current.base .. t - 1 : t - func - 1 <= MaxArgs}

LuaCall ==
  /\ InLua
  /\ \E t \in (Current.base + 1 .. Current.top) \union {top} :
       \E func \in Callees(t) : Enter(size, func, t, FALSE)
  /\ UNCHANGED host

(* lua_call and lua_pcall from a C function. *)
CCall ==
  /\ InC
  /\ \E func \in Callees(top), guarded \in BOOLEAN :
       Enter(size, func, top, guarded)
  /\ UNCHANGED host

(* callTMres and callTM: a metamethod and its operands go above L->top,    *)
(* for an instruction or for an API function.                              *)
MetaCall ==
  /\ \/ InC
     \/ InLua /\ top = Current.top
  /\ \E n \in {3, 4} : Enter(Checked(size, top, n), top, top + n, FALSE)
  /\ UNCHANGED host

(* OP_TAILCALL of a Lua function: luaD_precall as above, and then its      *)
(* frame, which begins d slots above its function, replaces the caller's.  *)
ReplaceFrame(d, m) ==
  /\ top' = Current.func + d + m
  /\ frames' = [frames EXCEPT ![Len(frames)].base = Current.func + d,
                              ![Len(frames)].top = top']

TailEnter(s, func, t, m) ==
  \/ /\ size' = Checked(s, t, m)
     /\ ReplaceFrame(1, m)
  \/ \E missing \in 0 .. MaxMissing :
       /\ size' \in VarargSizes(Checked(s, t, m), t, m, missing)
       /\ ReplaceFrame(t + missing - func, m)

TailCall ==
  /\ InLua
  /\ \E t \in (Current.base + 1 .. Current.top) \union {top} :
       \E func \in Callees(t), c \in {<<size, t>>, CallTM(size, t)},
          m \in FrameSizes :
         TailEnter(c[1], func, c[2], m)
  /\ size' <= MaxSize
  /\ UNCHANGED host

(* OP_VARARG with an open result: n values above position a. *)
Vararg ==
  /\ InLua
  /\ top = Current.top
  /\ \E n \in 0 .. Current.base - Current.func - 1,
        a \in Current.base .. Current.top :
       /\ size' = Checked(size, top, n)
       /\ top' = a + n
  /\ size' <= MaxSize
  /\ UNCHANGED <<frames, host>>

(* The next instruction has taken the open values: L->top = L->ci->top. *)
CloseList ==
  /\ InLua
  /\ top # Current.top
  /\ top' = Current.top
  /\ UNCHANGED <<size, frames, host>>

(* A C function keeps to the slots reserved for it, or asks for more.      *)
CPush ==
  /\ InC
  /\ top < Current.top
  /\ top' = top + 1
  /\ UNCHANGED <<size, frames, host>>

CPop ==
  /\ InC
  /\ top > Current.base
  /\ top' = top - 1
  /\ UNCHANGED <<size, frames, host>>

CCheckStack ==
  /\ InC
  /\ \E n \in 1 .. MinStack :
       /\ top - Current.base + n <= MaxCStack
       /\ size' = Checked(size, top, n)
       /\ frames' = [frames EXCEPT ![Len(frames)].top =
                       IF @ < top + n THEN top + n ELSE @]
  /\ size' <= MaxSize
  /\ UNCHANGED <<top, host>>

(* luaD_poscall into a Lua or a C function: n results start where the      *)
(* callee's function was.  A caller that fixed their number has room for   *)
(* them; one that did not (LUA_MULTRET) takes as many as there are.        *)
Caller == frames[Len(frames) - 1]

Return ==
  /\ host = "running"
  /\ Len(frames) > 2
  /\ \/ /\ Caller.kind = "lua"
        /\ top' = Caller.top
        /\ frames' = SubSeq(frames, 1, Len(frames) - 1)
     \/ \E n \in 0 .. top - Current.base :
          /\ top' = Current.func + n
          /\ frames' = [SubSeq(frames, 1, Len(frames) - 1)
                          EXCEPT ![Len(frames) - 1].top =
                            IF Caller.kind = "C" /\ @ < top' THEN top' ELSE @]
     \/ /\ Caller.kind = "C"
        /\ top' \in Current.func .. Caller.top
        /\ frames' = SubSeq(frames, 1, Len(frames) - 1)
  /\ UNCHANGED <<size, host>>

(* An error unwinds to the innermost lua_pcall, which closes the frames    *)
(* above it and leaves the message where its function was.                 *)
Guarded == {i \in DOMAIN frames : frames[i].guarded}

Unwound_CallerToo(i) == SubSeq(frames, 1, i - 2)
Unwound_KeepsCallee(i) == SubSeq(frames, 1, i)
Unwound(i) == SubSeq(frames, 1, i - 1)

SetErrorObj_KeepArgument(func) == top' = func + 2
SetErrorObj(func) == top' = func + 1

Error ==
  /\ host = "running"
  /\ \E pieces \in 0 .. Pieces : size' = PushedMessage(top, pieces)
  /\ size' <= MaxSize
  /\ \E i \in Guarded :
       /\ \A j \in Guarded : j <= i
       /\ SetErrorObj(frames[i].func)
       /\ frames' = Unwound(i)
       /\ host' = IF i = 2 THEN "idle" ELSE "running"

Collect ==
  /\ host = "running"
  /\ MayCollect(frames, top)
  /\ UNCHANGED <<top, frames, host>>

StackNext ==
  \/ GetGlobal \/ PushString \/ Pcall \/ NotCallable
  \/ ReturnToHost \/ ToStringAndPop
  \/ LuaCall \/ MetaCall \/ TailCall \/ Vararg \/ CloseList
  \/ CCall \/ CPush \/ CPop \/ CCheckStack
  \/ Return \/ Error \/ Collect

StackSpec == StackInit /\ [][StackNext]_stackVars

-----------------------------------------------------------------------------
(***************************************************************************)
(* Properties.                                                             *)
(***************************************************************************)

(* The assertion of luaD_precall and of traversestack: the slots reserved  *)
(* for each active function lie inside the stack, however often it was     *)
(* reallocated since, so that a function may use them without checking.    *)
FramesFit == \A i \in DOMAIN frames : frames[i].top <= StackLast(size)

(* LuaState.c pushes the function's name and its argument with no          *)
(* lua_checkstack.  Whatever earlier calls left on the stack and however   *)
(* the collector shrank it, there is room for both.                        *)
HostRoom ==
  /\ top <= StackLast(size)
  /\ host \in {"named", "returned"} => top + 1 <= StackLast(size)
  /\ host = "idle" => top + 2 <= StackLast(size)

(* Outside a call the host's frame is the only one, after an error as      *)
(* after a return.  Inside, frames are stacked: none starts below the      *)
(* function of the one under it, and none reaches down to what the host    *)
(* had on the stack before the call.                                       *)
FramesNested ==
  /\ host = "running" <=> Len(frames) > 1
  /\ frames[1] = HostFrame
  /\ \A i \in 2 .. Len(frames) :
       /\ frames[i - 1].base <= frames[i].func
       /\ frames[i].func < frames[i].base
       /\ frames[i].base <= frames[i].top

(* A call that returns leaves one value where LuaManager pushed the        *)
(* function, a call that fails one message, before or after it entered the *)
(* function: the host's part of the stack is what it was when the call     *)
(* began, wherever the error was raised and whoever caught others before.  *)
CallBalance ==
  [][/\ host = "ready" /\ host' = "running" => frames'[2].func = top - 2
     /\ host = "running" /\ host' = "running" =>
          frames'[2].func = frames[2].func
     /\ host = "running" /\ host' # "running" => top' = frames[2].func + 1
     /\ host = "ready" /\ host' = "idle" => top' = top - 1]_stackVars

(* lua.h and api_incr_top: a C caller has LUA_MINSTACK free slots and      *)
(* pushes only below L->ci->top, unless it calls lua_checkstack.           *)
ApiIncrTop == host \in {"idle", "named"} => top < Current.top
=============================================================================
