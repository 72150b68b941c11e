----------------------------- MODULE LuaManager -----------------------------
(***************************************************************************)
(* LuaManager.java and the LuaState.java objects it creates, as several    *)
(* application threads, the finalizer thread and the activity that owns    *)
(* the manager drive them.  One step is one call that changes shared       *)
(* state: a monitor entry or exit, a read of mDecodeKey, an access to the  *)
(* cache, or one native call on a Lua virtual machine.                     *)
(*                                                                         *)
(* A LuaState object and the virtual machine behind its luaStatePointer    *)
(* are one member of Obj.  The Lua stack of a machine is a sequence of     *)
(* tagged slots: what a slot holds and whose call put it there is all that *)
(* the Java side can tell apart.                                           *)
(***************************************************************************)
EXTENDS Naturals, Sequences

CONSTANTS
  Thread,    \* application threads that call the manager
  NoThread,  \* the monitor is free
  File,      \* asset paths passed as filePath
  NoFile,    \* the thread makes no call
  Key,       \* values of mDecodeKey other than null
  BlankKey,  \* the initial value of mDecodeKey, the empty string
  NoKey,     \* mDecodeKey is null
  Plain,     \* an asset that holds an unencrypted script
  Empty,     \* an asset with no text
  Missing,   \* no such asset: opening it throws
  Asset,     \* Asset[f]: the key f is encrypted under, Plain, Empty or Missing
  Obj,       \* LuaState objects, enough for one per call
  NoState,   \* a null LuaState reference
  MaxCalls   \* bound of the model: calls made to the manager

ASSUME ThreadAssumption == NoThread \notin Thread
ASSUME FileAssumption == NoFile \notin File
ASSUME KeyAssumption ==
  /\ BlankKey \in Key
  /\ NoKey \notin Key
ASSUME AssetAssumption ==
  Asset \in [File -> (Key \ {BlankKey}) \union {Plain, Empty, Missing}]
ASSUME ObjAssumption == NoState \notin Obj
ASSUME MaxCallsAssumption == MaxCalls \in Nat

VARIABLES
  owner,      \* the thread inside the manager's monitor
  depth,      \* how many times the owner has entered it
  pc,         \* pc[t]: the next statement of thread t
  file,       \* file[t]: its filePath argument
  state,      \* state[t]: its local variable luaState, while it is in use
  text,       \* text[t]: createLuaState's local variables data, decodeData
  answer,     \* answer[t]: what its last call returned or threw
  cache,      \* mLuaStateCacheMap
  key,        \* mDecodeKey
  live,       \* the activity still refers to the manager
  calls,      \* calls made so far
  vm,         \* vm[o]: the object o and its virtual machine
  stack,      \* stack[o]: its Lua stack, above the first frame's function
  failures    \* history: how many calls of functions of o have failed

vars == <<owner, depth, pc, file, state, text, answer, cache, key, live,
          calls, vm, stack, failures>>

monitorVars == <<owner, depth>>
localVars == <<file, state, text, answer>>
managerVars == <<cache, key, live, calls>>
machineVars == <<vm, stack, failures>>

Labels == {"idle", "enter", "create", "read", "keyCheck", "decrypt", "open",
           "doString", "put", "noState", "getGlobal", "pushString", "pcall",
           "toString", "pop", "dump", "exit"}

(* The thread is in a native call on its machine, or has one still to make. *)
InNative == {"doString", "getGlobal", "pushString", "pcall", "toString",
             "pop", "dump"}

(* The local variable luaState is read at or after these statements. *)
HoldsState == InNative \union {"read", "keyCheck", "decrypt", "open", "put"}

(* The calls made while the monitor is held. *)
Inside == Labels \ {"idle", "enter"}

Texts == {"blank", "source", "noise"}
SlotKinds == {"chunk", "function", "argument", "result", "nil", "error"}
Slot == [kind : SlotKinds, by : Thread]
AnswerKinds == {"none", "null", "exception", "result", "error"}

(* Not created; created, with a null pointer; lua_open returned; its       *)
(* script has run; its script has failed; finalized and closed.            *)
Machines == {"unborn", "none", "open", "ready", "broken", "closed"}

TypeOK ==
  /\ owner \in Thread \union {NoThread}
  /\ depth \in 0 .. 2
  /\ pc \in [Thread -> Labels]
  /\ file \in [Thread -> File \union {NoFile}]
  /\ state \in [Thread -> Obj \union {NoState}]
  /\ text \in [Thread -> Texts]
  /\ answer \in [Thread -> [kind : AnswerKinds, by : Thread]]
  /\ cache \in [File -> Obj \union {NoState}]
  /\ key \in Key \union {NoKey}
  /\ live \in BOOLEAN
  /\ calls \in 0 .. MaxCalls
  /\ vm \in [Obj -> Machines]
  /\ stack \in [Obj -> Seq(Slot)]
  /\ failures \in [Obj -> Nat]

Init ==
  /\ owner = NoThread
  /\ depth = 0
  /\ pc = [t \in Thread |-> "idle"]
  /\ file = [t \in Thread |-> NoFile]
  /\ state = [t \in Thread |-> NoState]
  /\ text = [t \in Thread |-> "blank"]
  /\ answer = [t \in Thread |-> [kind |-> "none", by |-> t]]
  /\ cache = [f \in File |-> NoState]
  /\ key = BlankKey
  /\ live = TRUE
  /\ calls = 0
  /\ vm = [o \in Obj |-> "unborn"]
  /\ stack = [o \in Obj |-> <<>>]
  /\ failures = [o \in Obj |-> 0]

Goto(t, from, to) ==
  /\ pc[t] = from
  /\ pc' = [pc EXCEPT ![t] = to]

(***************************************************************************)
(* The Java monitor of the manager, which encodeJsonToBytes,               *)
(* decodeBytesToJson and createLuaState synchronize on.  It is reentrant.  *)
(***************************************************************************)
MonitorFree_Unsynchronized(t) == TRUE
MonitorFree(t) == owner \in {NoThread, t}

EnterMonitor(t) ==
  /\ MonitorFree(t)
  /\ owner' = t
  /\ depth' = depth + 1

ExitMonitor(t) ==
  /\ depth' = depth - 1
  /\ owner' = IF depth = 1 THEN NoThread ELSE t

(* A call that ends with an exception leaves every level it entered. *)
UnwindMonitor_OneLevel == depth' = depth - 1 /\ UNCHANGED owner
UnwindMonitor == depth' = 0 /\ owner' = NoThread

(***************************************************************************)
(* What a thread reaches, the finalizer spares.  The activity reaches the  *)
(* manager, a thread inside the manager reaches it through `this', and the *)
(* manager reaches its cache.                                              *)
(***************************************************************************)
ManagerReachable == live \/ \E t \in Thread : pc[t] # "idle"

Reachable_LocalsOnly(o) == \E t \in Thread : state[t] = o
Reachable(o) ==
  \/ \E t \in Thread : state[t] = o
  \/ ManagerReachable /\ \E f \in File : cache[f] = o

(***************************************************************************)
(* The calls of an application thread.                                     *)
(***************************************************************************)

(* encodeJsonToBytes(f, _) or decodeBytesToJson(f, _): the two differ in   *)
(* the name of the global function they call, and in nothing else.         *)
Call(t, f) ==
  /\ live
  /\ calls < MaxCalls
  /\ Goto(t, "idle", "enter")
  /\ calls' = calls + 1
  /\ file' = [file EXCEPT ![t] = f]
  /\ answer' = [answer EXCEPT ![t] = [kind |-> "none", by |-> t]]
  /\ UNCHANGED <<monitorVars, state, text, cache, key, live, machineVars>>

EnterCall(t) ==
  /\ Goto(t, "enter", "create")
  /\ EnterMonitor(t)
  /\ UNCHANGED <<localVars, managerVars, machineVars>>

(* createLuaState finds the file's LuaState in the cache ... *)
CreateHit(t) ==
  /\ Goto(t, "create", "getGlobal")
  /\ cache[file[t]] # NoState
  /\ MonitorFree(t)
  /\ state' = [state EXCEPT ![t] = cache[file[t]]]
  /\ UNCHANGED <<monitorVars, file, text, answer, managerVars, machineVars>>

(* ... or makes a new one, and stays in the monitor for the second time. *)
CreateMiss(t) ==
  /\ Goto(t, "create", "read")
  /\ cache[file[t]] = NoState
  /\ EnterMonitor(t)
  /\ \E o \in Obj :
       /\ vm[o] = "unborn"
       /\ vm' = [vm EXCEPT ![o] = "none"]
       /\ state' = [state EXCEPT ![t] = o]
  /\ UNCHANGED <<file, text, answer, managerVars, stack, failures>>

(* readLuaStringFromAssets: an IOException becomes a RuntimeException that *)
(* no method of the manager catches.                                       *)
ReadThrows(t) ==
  /\ Goto(t, "read", "idle")
  /\ Asset[file[t]] = Missing
  /\ UnwindMonitor
  /\ state' = [state EXCEPT ![t] = NoState]
  /\ file' = [file EXCEPT ![t] = NoFile]
  /\ answer' = [answer EXCEPT ![t] = [kind |-> "exception", by |-> t]]
  /\ UNCHANGED <<text, managerVars, machineVars>>

(* createLuaState gives up: its local luaState is dead from here on. *)
GiveUp(t, from) ==
  /\ Goto(t, from, "noState")
  /\ state' = [state EXCEPT ![t] = NoState]

ReadEmpty(t) ==
  /\ GiveUp(t, "read")
  /\ Asset[file[t]] = Empty
  /\ UNCHANGED <<monitorVars, file, text, answer, managerVars, machineVars>>

ReadAsset(t) ==
  /\ Goto(t, "read", "keyCheck")
  /\ Asset[file[t]] \notin {Missing, Empty}
  /\ text' = [text EXCEPT ![t] =
                IF Asset[file[t]] = Plain THEN "source" ELSE "noise"]
  /\ UNCHANGED <<monitorVars, file, state, answer, managerVars, machineVars>>

(* mDecodeKey is read twice, here and in Decrypt, with no lock in common   *)
(* with setDataKey.  With a null key the asset is taken as it is.          *)
CheckKey(t) ==
  /\ Goto(t, "keyCheck", IF key = NoKey THEN "open" ELSE "decrypt")
  /\ UNCHANGED <<monitorVars, localVars, managerVars, machineVars>>

(* AESCrypt.decrypt answers the empty string for every exception: a null   *)
(* key, text that is not Base64, and nearly always a wrong key, which can  *)
(* also pass the padding check by luck and give noise.                     *)
Decrypted(f, k) ==
  IF k = Asset[f] THEN {"source"}
  ELSE IF k = NoKey \/ Asset[f] = Plain THEN {"blank"}
  ELSE {"blank", "noise"}

Decrypt(t) ==
  /\ pc[t] = "decrypt"
  /\ \E d \in Decrypted(file[t], key) :
       /\ text' = [text EXCEPT ![t] = d]
       /\ \/ d = "blank" /\ GiveUp(t, "decrypt")
          \/ d # "blank" /\ Goto(t, "decrypt", "open") /\ UNCHANGED state
  /\ UNCHANGED <<monitorVars, file, answer, managerVars, machineVars>>

(* initWithData: nativeLuaOpen and nativeOpenlibs. *)
Open(t) ==
  /\ Goto(t, "open", "doString")
  /\ vm' = [vm EXCEPT ![state[t]] = "open"]
  /\ UNCHANGED <<monitorVars, localVars, managerVars, stack, failures>>

Push(o, kind, t) == stack' = [stack EXCEPT ![o] =
                                Append(@, [kind |-> kind, by |-> t])]

(* luaL_dostring runs the text: a chunk may leave a value on the stack,    *)
(* which nobody pops ...                                                   *)
DoStringOK(t) ==
  /\ text[t] = "source"
  /\ Goto(t, "doString", "put")
  /\ vm' = [vm EXCEPT ![state[t]] = "ready"]
  /\ \/ UNCHANGED stack
     \/ Push(state[t], "chunk", t)
  /\ UNCHANGED <<monitorVars, localVars, managerVars, failures>>

(* ... or does not compile or raises an error: noise always, a script when *)
(* it is wrong itself.  The message stays on the stack.                    *)
DoStringFails(t) ==
  /\ GiveUp(t, "doString")
  /\ vm' = [vm EXCEPT ![state[t]] = "broken"]
  /\ Push(state[t], "error", t)
  /\ UNCHANGED <<monitorVars, file, text, answer, managerVars, failures>>

PutState_Forgotten(t) == cache
PutState(t) == [cache EXCEPT ![file[t]] = state[t]]

Put(t) ==
  /\ Goto(t, "put", "getGlobal")
  /\ cache' = PutState(t)
  /\ ExitMonitor(t)
  /\ text' = [text EXCEPT ![t] = "blank"]
  /\ UNCHANGED <<file, state, answer, key, live, calls, machineVars>>

(* createLuaState returned null: so does the call. *)
NoLuaState(t) ==
  /\ Goto(t, "noState", "exit")
  /\ ExitMonitor(t)
  /\ answer' = [answer EXCEPT ![t] = [kind |-> "null", by |-> t]]
  /\ text' = [text EXCEPT ![t] = "blank"]
  /\ UNCHANGED <<file, state, managerVars, machineVars>>

GetGlobal(t) ==
  /\ Goto(t, "getGlobal", "pushString")
  /\ Push(state[t], "function", t)
  /\ UNCHANGED <<monitorVars, localVars, managerVars, vm, failures>>

PushString(t) ==
  /\ Goto(t, "pushString", "pcall")
  /\ Push(state[t], "argument", t)
  /\ UNCHANGED <<monitorVars, localVars, managerVars, vm, failures>>

(* lua_pcall(1, 1) takes the two top slots away and leaves one in their    *)
(* place: the function's result or the error message.                      *)
Returned(o, kind, t) ==
  stack' = [stack EXCEPT ![o] =
              Append(SubSeq(@, 1, Len(@) - 2), [kind |-> kind, by |-> t])]

PcallOK(t) ==
  /\ Goto(t, "pcall", "toString")
  /\ \E kind \in {"result", "nil"} : Returned(state[t], kind, t)
  /\ UNCHANGED <<monitorVars, localVars, managerVars, vm, failures>>

PcallFails(t) ==
  /\ Goto(t, "pcall", "dump")
  /\ Returned(state[t], "error", t)
  /\ failures' = [failures EXCEPT ![state[t]] = @ + 1]
  /\ UNCHANGED <<monitorVars, localVars, managerVars, vm>>

TopSlot_First(s) == s[1]
TopSlot(s) == s[Len(s)]

(* tostring(-1): the slot on top, whatever it is; nil becomes null. *)
ReadString(t) ==
  LET slot == TopSlot(stack[state[t]])
  IN  /\ Goto(t, "toString", "pop")
      /\ answer' = [answer EXCEPT ![t] =
                      [kind |-> IF slot.kind = "nil" THEN "null"
                                ELSE IF slot.kind = "result" THEN "result"
                                ELSE "error",
                       by |-> slot.by]]
      /\ UNCHANGED <<monitorVars, file, state, text, managerVars, machineVars>>

Popped_None(s) == s
Popped(s) == SubSeq(s, 1, Len(s) - 1)

Pop(t) ==
  /\ Goto(t, "pop", "exit")
  /\ stack' = [stack EXCEPT ![state[t]] = Popped(@)]
  /\ state' = [state EXCEPT ![t] = NoState]
  /\ UNCHANGED <<monitorVars, file, text, answer, managerVars, vm, failures>>

(* A failed call logs the whole stack and pops nothing. *)
DumpStack(t) ==
  /\ Goto(t, "dump", "exit")
  /\ state' = [state EXCEPT ![t] = NoState]
  /\ answer' = [answer EXCEPT ![t] = [kind |-> "null", by |-> t]]
  /\ UNCHANGED <<monitorVars, file, text, managerVars, machineVars>>

Exit(t) ==
  /\ Goto(t, "exit", "idle")
  /\ ExitMonitor(t)
  /\ file' = [file EXCEPT ![t] = NoFile]
  /\ UNCHANGED <<state, text, answer, managerVars, machineVars>>

(***************************************************************************)
(* The activity and the Java runtime.                                      *)
(***************************************************************************)

(* setDataKey takes no lock: it can fall between any two steps of a call. *)
SetDataKey(k) ==
  /\ live
  /\ \E t \in Thread : pc[t] = "idle"
  /\ key' = k
  /\ UNCHANGED <<monitorVars, pc, localVars, cache, live, calls, machineVars>>

(* The activity is destroyed: it drops its reference to the manager ... *)
DropManager ==
  /\ live
  /\ live' = FALSE
  /\ UNCHANGED <<monitorVars, pc, localVars, cache, key, calls, machineVars>>

(* ... and a later one builds a new manager.  The model waits for the last *)
(* call on the old manager: two managers share nothing.                    *)
NewManager ==
  /\ ~ManagerReachable
  /\ live' = TRUE
  /\ cache' = [f \in File |-> NoState]
  /\ key' = BlankKey
  /\ UNCHANGED <<monitorVars, pc, localVars, calls, machineVars>>

(* LuaState.finalize, on the finalizer's own thread, once per object, and  *)
(* lua_close frees the machine with its stack.                             *)
Finalize(o) ==
  /\ vm[o] \notin {"unborn", "closed"}
  /\ ~Reachable(o)
  /\ vm' = [vm EXCEPT ![o] = "closed"]
  /\ stack' = [stack EXCEPT ![o] = <<>>]
  /\ failures' = [failures EXCEPT ![o] = 0]
  /\ UNCHANGED <<monitorVars, pc, localVars, managerVars>>

-----------------------------------------------------------------------------
(* The steps of a thread inside the monitor. *)
InsideStep(t) ==
  \/ CreateHit(t) \/ CreateMiss(t)
  \/ ReadThrows(t) \/ ReadEmpty(t) \/ ReadAsset(t)
  \/ CheckKey(t) \/ Decrypt(t)
  \/ Open(t) \/ DoStringOK(t) \/ DoStringFails(t)
  \/ Put(t) \/ NoLuaState(t)
  \/ GetGlobal(t) \/ PushString(t) \/ PcallOK(t) \/ PcallFails(t)
  \/ ReadString(t) \/ Pop(t) \/ DumpStack(t)
  \/ Exit(t)

Next ==
  \/ \E t \in Thread, f \in File : Call(t, f)
  \/ \E t \in Thread : EnterCall(t) \/ InsideStep(t)
  \/ \E k \in Key \union {NoKey} : SetDataKey(k)
  \/ \E o \in Obj : Finalize(o)
  \/ DropManager
  \/ NewManager

Spec == Init /\ [][Next]_vars

(* A thread inside the monitor waits for nothing but its own native calls, *)
(* so the scheduler lets it go on.  Entering the monitor is not fair: a    *)
(* Java monitor hands itself to waiting threads in no particular order.    *)
FairSpec == Spec /\ \A t \in Thread : WF_vars(InsideStep(t))

-----------------------------------------------------------------------------
(***************************************************************************)
(* Properties.                                                             *)
(***************************************************************************)

(* A Lua machine has no lock of its own: encodeJsonToBytes and             *)
(* decodeBytesToJson must never have two threads in native code on one     *)
(* machine, on a cached one as on one that is being loaded.                *)
VMExclusive ==
  \A t, u \in Thread :
    (t # u /\ pc[t] \in InNative /\ pc[u] \in InNative) => state[t] # state[u]

(* LuaState.finalize closes the machine behind luaStatePointer and leaves  *)
(* the pointer as it is: no thread may be in native code on a machine that *)
(* was never opened or that the finalizer has closed.                      *)
NoUseAfterClose ==
  \A t \in Thread :
    pc[t] \in InNative => vm[state[t]] \in {"open", "ready", "broken"}

(* What the cache hands out is a machine whose script has run, for one     *)
(* file only, for as long as the manager can be called.                    *)
CachedIsReady ==
  ManagerReachable =>
    \A f \in File :
      cache[f] # NoState =>
        /\ vm[cache[f]] = "ready"
        /\ \A g \in File : cache[g] = cache[f] => g = f

(* The script of a device keeps its state between calls, so that a second  *)
(* machine for the same file would lose updates: a machine that has run a  *)
(* script and can still be reached is the cached one, or is about to be.   *)
NoOrphanMachine ==
  \A o \in Obj :
    (vm[o] = "ready" /\ Reachable(o)) =>
      \/ \E f \in File : cache[f] = o
      \/ \E t \in Thread : pc[t] = "put" /\ state[t] = o /\ cache[file[t]] = NoState

(* Between two calls a machine's Lua stack holds what the chunk left and   *)
(* one message for every call that failed, and nothing else: a call that   *)
(* succeeds pops its result, a call that fails pops nothing.               *)
InUse(o) == \E t \in Thread : state[t] = o

StackAccounting ==
  \A o \in Obj :
    (vm[o] = "ready" /\ ~InUse(o)) =>
      LET chunks == {i \in DOMAIN stack[o] : stack[o][i].kind = "chunk"}
      IN  /\ chunks \subseteq {1}
          /\ \A i \in DOMAIN stack[o] \ chunks : stack[o][i].kind = "error"
          /\ Len(stack[o]) = failures[o] + (IF chunks = {} THEN 0 ELSE 1)

(* A caller gets the result of its own call, never the result of another   *)
(* one nor a message an earlier failure left on the machine's stack.       *)
AnswerIsOwn ==
  \A t \in Thread : answer[t].by = t /\ answer[t].kind # "error"

(* While a manager lives, a file's LuaState is never replaced nor dropped, *)
(* whatever setDataKey does: put runs at most once per file.               *)
CacheStable ==
  [][\A f \in File :
       (ManagerReachable /\ cache[f] # NoState) => cache'[f] = cache[f]]_vars

(* Every thread that has entered the monitor leaves it, the ones that an   *)
(* exception takes out of createLuaState included.                         *)
MonitorReleased == \A t \in Thread : (owner = t) ~> (owner # t)

(* What the callers see of the manager is the abstract host. *)
Visible(t) == IF answer[t].kind = "error" THEN "result" ELSE answer[t].kind

Host == INSTANCE ScriptHost WITH
          loaded  <- {f \in File : cache[f] # NoState},
          serving <- owner,
          pending <- file,
          answer  <- [t \in Thread |-> Visible(t)]

RefinesHost == Host!HostSpec
=============================================================================
