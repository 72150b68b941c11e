-------------------------- MODULE LuaManagerProofs --------------------------
(***************************************************************************)
(* Theorems about LuaManager for any number of threads, files, keys,       *)
(* objects and calls.  TypeOK is not inductive by itself (nothing in it    *)
(* bounds the monitor's depth), so everything rests on one invariant,      *)
(* IInv, whose conjuncts say who is inside the monitor and how deep, what  *)
(* the locals of a thread at each label refer to, and what the cache       *)
(* refers to.                                                              *)
(***************************************************************************)
EXTENDS LuaManager, SequenceTheorems, TLAPS

(* The statements that run inside createLuaState after its cache lookup    *)
(* failed: the monitor has been entered twice.                             *)
Loading == {"read", "keyCheck", "decrypt", "open", "doString", "put"}
Inner == Loading \union {"noState"}

(* The statements that use the LuaState that createLuaState returned. *)
Using == {"getGlobal", "pushString", "pcall", "toString", "pop", "dump"}

(* The thread inside the monitor is its owner, and its label says how      *)
(* often it has entered.                                                   *)
MonitorInv ==
  /\ \A t \in Thread : pc[t] \in Inside <=> owner = t
  /\ owner = NoThread => depth = 0
  /\ \A t \in Thread : pc[t] \in Inside =>
       depth = IF pc[t] \in Inner THEN 2 ELSE 1

(* A thread has a file while its call lasts, and a LuaState while it still *)
(* reads the local variable.                                               *)
LocalsInv ==
  \A t \in Thread :
    /\ pc[t] = "idle" <=> file[t] = NoFile
    /\ pc[t] \in HoldsState <=> state[t] # NoState

(* A LuaState that is being loaded is not in the cache, and neither is any *)
(* other one for its file.                                                 *)
LoadingInv ==
  \A t \in Thread : pc[t] \in Loading =>
    /\ cache[file[t]] = NoState
    /\ \A f \in File : cache[f] # state[t]
    /\ vm[state[t]] = IF pc[t] = "put" THEN "ready"
                      ELSE IF pc[t] = "doString" THEN "open" ELSE "none"

(* A LuaState in use is the one the cache holds for the file. *)
UsingInv ==
  \A t \in Thread : pc[t] \in Using => state[t] = cache[file[t]]

(* From the push of its function on, a call finds its own slots on top of  *)
(* the stack of the machine it uses.                                       *)
StackInv ==
  \A t \in Thread :
    LET s == stack[state[t]]
    IN  /\ pc[t] = "pushString" => Len(s) >= 1
        /\ pc[t] = "pcall" => Len(s) >= 2
        /\ pc[t] = "toString" =>
             /\ Len(s) >= 1
             /\ TopSlot(s).by = t
             /\ TopSlot(s).kind \in {"result", "nil"}

(* A call has its answer from tostring or from a failure on, not before. *)
ReplyInv ==
  \A t \in Thread :
    /\ pc[t] \in Labels \ {"idle", "pop", "exit"} => answer[t].kind = "none"
    /\ pc[t] \in {"pop", "exit"} => answer[t].kind # "none"

IInv ==
  /\ TypeOK
  /\ MonitorInv
  /\ LocalsInv
  /\ LoadingInv
  /\ UsingInv
  /\ CachedIsReady
  /\ StackInv
  /\ AnswerIsOwn
  /\ ReplyInv

(* The initial state satisfies the invariant. *)
LEMMA InitIInv == Init => IInv
  BY ThreadAssumption, FileAssumption, KeyAssumption, ObjAssumption,
     MaxCallsAssumption
  DEF Init, IInv, TypeOK, MonitorInv, LocalsInv, LoadingInv, UsingInv,
      CachedIsReady, StackInv, AnswerIsOwn, ReplyInv, ManagerReachable, Labels, Inside, Loading, Using,
      Inner, HoldsState, InNative, Texts, AnswerKinds, Machines, Slot

(* Only the owner of the monitor moves inside it. *)
LEMMA MonitorStep == IInv /\ [Next]_vars => MonitorInv'
<1> SUFFICES ASSUME IInv, [Next]_vars
             PROVE  MonitorInv'
  OBVIOUS
<1> USE ThreadAssumption DEF IInv, TypeOK, MonitorInv, Goto,
            monitorVars, localVars, managerVars, machineVars,
            Labels, Inside, Inner, Loading, Using, HoldsState,
            InNative
<1>1. ASSUME NEW t \in Thread, NEW f \in File, Call(t, f)
      PROVE  MonitorInv'
  BY <1>1 DEF Call
<1>2. ASSUME NEW t \in Thread, EnterCall(t)
      PROVE  MonitorInv'
  BY <1>2 DEF EnterCall, EnterMonitor, MonitorFree
<1>3. ASSUME NEW t \in Thread, InsideStep(t)
      PROVE  MonitorInv'
  <2>1. CASE CreateHit(t)
    BY <2>1 DEF CreateHit, MonitorFree
  <2>2. CASE CreateMiss(t)
    BY <2>2 DEF CreateMiss, EnterMonitor, MonitorFree
  <2>3. CASE ReadThrows(t)
    BY <2>3 DEF ReadThrows, UnwindMonitor
  <2>4. CASE ReadEmpty(t)
    BY <2>4 DEF ReadEmpty, GiveUp
  <2>5. CASE ReadAsset(t)
    BY <2>5 DEF ReadAsset
  <2>6. CASE CheckKey(t)
    BY <2>6 DEF CheckKey
  <2>7. CASE Decrypt(t)
    <3>1. ASSUME NEW d \in Decrypted(file[t], key), d = "blank", GiveUp(t, "decrypt")
          PROVE  MonitorInv'
      BY <2>7, <3>1 DEF Decrypt, GiveUp
    <3>2. ASSUME NEW d \in Decrypted(file[t], key), d # "blank",
                 Goto(t, "decrypt", "open"), UNCHANGED state
          PROVE  MonitorInv'
      BY <2>7, <3>2 DEF Decrypt
    <3> QED
      BY <2>7, <3>1, <3>2 DEF Decrypt
  <2>8. CASE Open(t)
    BY <2>8 DEF Open
  <2>9. CASE DoStringOK(t)
    BY <2>9 DEF DoStringOK, Push
  <2>10. CASE DoStringFails(t)
    BY <2>10 DEF DoStringFails, GiveUp, Push
  <2>11. CASE Put(t)
    BY <2>11 DEF Put, PutState, ExitMonitor
  <2>12. CASE NoLuaState(t)
    BY <2>12 DEF NoLuaState, ExitMonitor
  <2>13. CASE GetGlobal(t)
    BY <2>13 DEF GetGlobal, Push
  <2>14. CASE PushString(t)
    BY <2>14 DEF PushString, Push
  <2>15. CASE PcallOK(t)
    BY <2>15 DEF PcallOK, Returned
  <2>16. CASE PcallFails(t)
    BY <2>16 DEF PcallFails, Returned
  <2>17. CASE ReadString(t)
    BY <2>17 DEF ReadString, TopSlot
  <2>18. CASE Pop(t)
    BY <2>18 DEF Pop, Popped
  <2>19. CASE DumpStack(t)
    BY <2>19 DEF DumpStack
  <2>20. CASE Exit(t)
    <3>1. owner = t /\ depth = 1 /\ owner' = NoThread /\ depth' = 0
      <4>1. pc[t] = "exit"
        BY <2>20 DEF Exit
      <4>2. owner = t /\ depth = 1
        BY <4>1
      <4>3. ExitMonitor(t)
        BY <2>20 DEF Exit
      <4> QED
        BY <4>2, <4>3 DEF ExitMonitor
    <3>2. pc' = [pc EXCEPT ![t] = "idle"]
      BY <2>20 DEF Exit
    <3>3. \A u \in Thread : u # t => pc'[u] = pc[u] /\ pc[u] \notin Inside
      BY <3>1, <3>2
    <3>4. \A u \in Thread : pc'[u] \notin Inside
      BY <3>2, <3>3
    <3> QED
      BY <3>1, <3>4
  <2> QED
    BY <1>3, <2>1, <2>2, <2>3, <2>4, <2>5, <2>6, <2>7, <2>8, <2>9, <2>10,
       <2>11, <2>12, <2>13, <2>14, <2>15, <2>16, <2>17, <2>18, <2>19, <2>20 DEF InsideStep
<1>4. ASSUME NEW k \in Key \union {NoKey}, SetDataKey(k)
      PROVE  MonitorInv'
  BY <1>4 DEF SetDataKey
<1>5. ASSUME NEW o \in Obj, Finalize(o)
      PROVE  MonitorInv'
  BY <1>5 DEF Finalize, Reachable
<1>6. CASE DropManager
  BY <1>6 DEF DropManager
<1>7. CASE NewManager
  BY <1>7 DEF NewManager
<1>8. CASE UNCHANGED vars
  BY <1>8 DEF vars
<1> QED
  BY <1>1, <1>2, <1>3, <1>4, <1>5, <1>6, <1>7, <1>8 DEF Next

(* The monitor's depth follows from who is in it, and where. *)
LEMMA DepthType ==
  ASSUME MonitorInv', owner' \in Thread \union {NoThread},
         pc' \in [Thread -> Labels]
  PROVE  depth' \in 0 .. 2
<1>1. CASE owner' = NoThread
  BY <1>1 DEF MonitorInv
<1>2. CASE owner' \in Thread
  BY <1>2 DEF MonitorInv
<1> QED
  BY <1>1, <1>2

(* What the steps do to the typed functions of records and sequences. *)
LEMMA AnswerType ==
  ASSUME answer \in [Thread -> [kind : AnswerKinds, by : Thread]],
         NEW t \in Thread, NEW u \in Thread, NEW k \in AnswerKinds
  PROVE  [answer EXCEPT ![t] = [kind |-> k, by |-> u]]
           \in [Thread -> [kind : AnswerKinds, by : Thread]]
  OBVIOUS

LEMMA PushType ==
  ASSUME stack \in [Obj -> Seq(Slot)], NEW t \in Thread, NEW o,
         NEW k \in SlotKinds, Push(o, k, t)
  PROVE  stack' \in [Obj -> Seq(Slot)]
<1>1. [kind |-> k, by |-> t] \in Slot
  BY DEF Slot
<1>2. ASSUME o \in Obj
      PROVE  Append(stack[o], [kind |-> k, by |-> t]) \in Seq(Slot)
  BY <1>1, <1>2
<1> QED
  BY <1>2 DEF Push

(* The slots below the top of a stack. *)
LEMMA LowerType ==
  ASSUME NEW s \in Seq(Slot), NEW n \in Nat
  PROVE  SubSeq(s, 1, Len(s) - n) \in Seq(Slot)
<1>1. Len(s) \in Nat /\ Len(s) - n \in Int /\ Len(s) - n <= Len(s)
  OBVIOUS
<1>2. CASE Len(s) - n >= 1
  BY <1>1, <1>2, SubSeqProperties
<1>3. CASE Len(s) - n < 1
  BY <1>1, <1>3, SubSeqProperties
<1> QED
  BY <1>1, <1>2, <1>3

LEMMA ReturnedType ==
  ASSUME stack \in [Obj -> Seq(Slot)], NEW t \in Thread, NEW o,
         NEW k \in SlotKinds, Returned(o, k, t)
  PROVE  stack' \in [Obj -> Seq(Slot)]
<1>1. [kind |-> k, by |-> t] \in Slot
  BY DEF Slot
<1>2. ASSUME o \in Obj
      PROVE  Append(SubSeq(stack[o], 1, Len(stack[o]) - 2),
                    [kind |-> k, by |-> t]) \in Seq(Slot)
  BY <1>1, <1>2, LowerType, AppendProperties
<1> QED
  BY <1>2 DEF Returned

(* The type invariant is preserved. *)
LEMMA TypeStep == IInv /\ [Next]_vars => TypeOK'
<1> SUFFICES ASSUME IInv, [Next]_vars
             PROVE  TypeOK'
  OBVIOUS
<1> USE MonitorStep, FileAssumption, ObjAssumption, KeyAssumption,
           MaxCallsAssumption DEF IInv, TypeOK, LocalsInv, Goto,
            monitorVars, localVars, managerVars, machineVars, Labels,
            Texts, AnswerKinds, SlotKinds, Machines
<1>1. ASSUME NEW t \in Thread, NEW f \in File, Call(t, f)
      PROVE  TypeOK'
  <2>1. answer' \in [Thread -> [kind : AnswerKinds, by : Thread]]
    BY <1>1, AnswerType DEF Call
  <2> QED
    BY <1>1, <2>1, DepthType DEF Call
<1>2. ASSUME NEW t \in Thread, EnterCall(t)
      PROVE  TypeOK'
  BY <1>2, DepthType DEF EnterCall, EnterMonitor, MonitorFree
<1>3. ASSUME NEW t \in Thread, InsideStep(t)
      PROVE  TypeOK'
  <2>1. CASE CreateHit(t)
    BY <2>1, DepthType DEF CreateHit, MonitorFree
  <2>2. CASE CreateMiss(t)
    BY <2>2, DepthType DEF CreateMiss, EnterMonitor, MonitorFree
  <2>3. CASE ReadThrows(t)
    <3>1. answer' \in [Thread -> [kind : AnswerKinds, by : Thread]]
      BY <2>3, AnswerType DEF ReadThrows
    <3> QED
      BY <2>3, <3>1, DepthType DEF ReadThrows, UnwindMonitor
  <2>4. CASE ReadEmpty(t)
    BY <2>4, DepthType DEF ReadEmpty, GiveUp
  <2>5. CASE ReadAsset(t)
    BY <2>5, DepthType DEF ReadAsset
  <2>6. CASE CheckKey(t)
    BY <2>6, DepthType DEF CheckKey
  <2>7. CASE Decrypt(t)
    <3>1. ASSUME NEW d \in Decrypted(file[t], key), d = "blank", GiveUp(t, "decrypt"),
                 text' = [text EXCEPT ![t] = d]
          PROVE  TypeOK'
      BY <2>7, <3>1, DepthType DEF Decrypt, GiveUp
    <3>2. ASSUME NEW d \in Decrypted(file[t], key), d # "blank",
                 Goto(t, "decrypt", "open"), UNCHANGED state,
                 text' = [text EXCEPT ![t] = d]
          PROVE  TypeOK'
      <4>1. d \in Texts
        BY <3>2 DEF Decrypted
      <4> QED
        BY <2>7, <3>2, <4>1, DepthType DEF Decrypt
    <3> QED
      BY <2>7, <3>1, <3>2 DEF Decrypt
  <2>8. CASE Open(t)
    BY <2>8, DepthType DEF Open
  <2>9. CASE DoStringOK(t)
    <3>1. stack' \in [Obj -> Seq(Slot)]
      BY <2>9, PushType DEF DoStringOK
    <3> QED
      BY <2>9, <3>1, DepthType DEF DoStringOK
  <2>10. CASE DoStringFails(t)
    <3>1. stack' \in [Obj -> Seq(Slot)]
      BY <2>10, PushType DEF DoStringFails, GiveUp
    <3> QED
      BY <2>10, <3>1, DepthType DEF DoStringFails, GiveUp
  <2>11. CASE Put(t)
    BY <2>11, DepthType DEF Put, PutState, ExitMonitor
  <2>12. CASE NoLuaState(t)
    <3>1. answer' \in [Thread -> [kind : AnswerKinds, by : Thread]]
      BY <2>12, AnswerType DEF NoLuaState
    <3> QED
      BY <2>12, <3>1, DepthType DEF NoLuaState, ExitMonitor
  <2>13. CASE GetGlobal(t)
    <3>1. stack' \in [Obj -> Seq(Slot)]
      BY <2>13, PushType DEF GetGlobal
    <3> QED
      BY <2>13, <3>1, DepthType DEF GetGlobal
  <2>14. CASE PushString(t)
    <3>1. stack' \in [Obj -> Seq(Slot)]
      BY <2>14, PushType DEF PushString
    <3> QED
      BY <2>14, <3>1, DepthType DEF PushString
  <2>15. CASE PcallOK(t)
    <3>1. stack' \in [Obj -> Seq(Slot)]
      BY <2>15, ReturnedType DEF PcallOK
    <3> QED
      BY <2>15, <3>1, DepthType DEF PcallOK
  <2>16. CASE PcallFails(t)
    <3>1. stack' \in [Obj -> Seq(Slot)]
      BY <2>16, ReturnedType DEF PcallFails
    <3>2. ASSUME state[t] \in Obj
          PROVE  failures[state[t]] + 1 \in Nat
      BY <3>2
    <3>3. failures' \in [Obj -> Nat]
      BY <2>16, <3>2 DEF PcallFails
    <3> QED
      BY <2>16, <3>1, <3>3, DepthType DEF PcallFails
  <2>17. CASE ReadString(t)
    <3>1. TopSlot(stack[state[t]]).by \in Thread
      BY <2>17 DEF ReadString, StackInv
    <3> QED
      BY <2>17, <3>1, DepthType DEF ReadString
  <2>18. CASE Pop(t)
    <3>1. ASSUME state[t] \in Obj
          PROVE  Popped(stack[state[t]]) \in Seq(Slot)
      BY <3>1, LowerType DEF Popped
    <3>2. stack' \in [Obj -> Seq(Slot)]
      BY <2>18, <3>1 DEF Pop
    <3> QED
      BY <2>18, <3>2, DepthType DEF Pop
  <2>19. CASE DumpStack(t)
    <3>1. answer' \in [Thread -> [kind : AnswerKinds, by : Thread]]
      BY <2>19, AnswerType DEF DumpStack
    <3> QED
      BY <2>19, <3>1, DepthType DEF DumpStack
  <2>20. CASE Exit(t)
    BY <2>20, DepthType DEF Exit, ExitMonitor
  <2> QED
    BY <1>3, <2>1, <2>2, <2>3, <2>4, <2>5, <2>6, <2>7, <2>8, <2>9, <2>10,
       <2>11, <2>12, <2>13, <2>14, <2>15, <2>16, <2>17, <2>18, <2>19, <2>20 DEF InsideStep
<1>4. ASSUME NEW k \in Key \union {NoKey}, SetDataKey(k)
      PROVE  TypeOK'
  BY <1>4, DepthType DEF SetDataKey
<1>5. ASSUME NEW o \in Obj, Finalize(o)
      PROVE  TypeOK'
  BY <1>5, DepthType DEF Finalize, Reachable
<1>6. CASE DropManager
  BY <1>6, DepthType DEF DropManager
<1>7. CASE NewManager
  BY <1>7, DepthType DEF NewManager
<1>8. CASE UNCHANGED vars
  BY <1>8, DepthType DEF vars
<1> QED
  BY <1>1, <1>2, <1>3, <1>4, <1>5, <1>6, <1>7, <1>8 DEF Next

(* Two facts that most steps rest on: nobody else is inside the monitor,   *)
(* and a thread that still reads its luaState has one.                     *)
LEMMA Alone ==
  ASSUME TypeOK, MonitorInv, NEW t \in Thread,
         NEW a \in Inside, NEW b, Goto(t, a, b)
  PROVE  \A u \in Thread : u # t => pc'[u] \notin Inside
  BY DEF TypeOK, MonitorInv, Goto

LEMMA Holds ==
  ASSUME TypeOK, LocalsInv, NEW t \in Thread, pc[t] \in HoldsState
  PROVE  state[t] \in Obj
  BY DEF TypeOK, LocalsInv

(* A thread's locals follow its label. *)
LEMMA LocalsStep == IInv /\ [Next]_vars => LocalsInv'
<1> SUFFICES ASSUME IInv, [Next]_vars
             PROVE  LocalsInv'
  OBVIOUS
<1> USE FileAssumption, ObjAssumption DEF IInv, TypeOK, LocalsInv, Goto,
            monitorVars, localVars, managerVars, machineVars,
            Labels, Inside, Inner, Loading, Using, HoldsState,
            InNative
<1>1. ASSUME NEW t \in Thread, NEW f \in File, Call(t, f)
      PROVE  LocalsInv'
  BY <1>1 DEF Call
<1>2. ASSUME NEW t \in Thread, EnterCall(t)
      PROVE  LocalsInv'
  BY <1>2 DEF EnterCall, EnterMonitor, MonitorFree
<1>3. ASSUME NEW t \in Thread, InsideStep(t)
      PROVE  LocalsInv'
  <2>1. CASE CreateHit(t)
    BY <2>1 DEF CreateHit, MonitorFree
  <2>2. CASE CreateMiss(t)
    BY <2>2 DEF CreateMiss, EnterMonitor, MonitorFree
  <2>3. CASE ReadThrows(t)
    BY <2>3 DEF ReadThrows, UnwindMonitor
  <2>4. CASE ReadEmpty(t)
    BY <2>4 DEF ReadEmpty, GiveUp
  <2>5. CASE ReadAsset(t)
    BY <2>5 DEF ReadAsset
  <2>6. CASE CheckKey(t)
    BY <2>6 DEF CheckKey
  <2>7. CASE Decrypt(t)
    <3>1. ASSUME NEW d \in Decrypted(file[t], key), d = "blank", GiveUp(t, "decrypt")
          PROVE  LocalsInv'
      BY <2>7, <3>1 DEF Decrypt, GiveUp
    <3>2. ASSUME NEW d \in Decrypted(file[t], key), d # "blank",
                 Goto(t, "decrypt", "open"), UNCHANGED state
          PROVE  LocalsInv'
      BY <2>7, <3>2 DEF Decrypt
    <3> QED
      BY <2>7, <3>1, <3>2 DEF Decrypt
  <2>8. CASE Open(t)
    BY <2>8 DEF Open
  <2>9. CASE DoStringOK(t)
    BY <2>9 DEF DoStringOK, Push
  <2>10. CASE DoStringFails(t)
    BY <2>10 DEF DoStringFails, GiveUp, Push
  <2>11. CASE Put(t)
    BY <2>11 DEF Put, PutState, ExitMonitor
  <2>12. CASE NoLuaState(t)
    BY <2>12 DEF NoLuaState, ExitMonitor
  <2>13. CASE GetGlobal(t)
    BY <2>13 DEF GetGlobal, Push
  <2>14. CASE PushString(t)
    BY <2>14 DEF PushString, Push
  <2>15. CASE PcallOK(t)
    BY <2>15 DEF PcallOK, Returned
  <2>16. CASE PcallFails(t)
    BY <2>16 DEF PcallFails, Returned
  <2>17. CASE ReadString(t)
    BY <2>17 DEF ReadString, TopSlot
  <2>18. CASE Pop(t)
    BY <2>18 DEF Pop, Popped
  <2>19. CASE DumpStack(t)
    BY <2>19 DEF DumpStack
  <2>20. CASE Exit(t)
    BY <2>20 DEF Exit, ExitMonitor
  <2> QED
    BY <1>3, <2>1, <2>2, <2>3, <2>4, <2>5, <2>6, <2>7, <2>8, <2>9, <2>10,
       <2>11, <2>12, <2>13, <2>14, <2>15, <2>16, <2>17, <2>18, <2>19, <2>20 DEF InsideStep
<1>4. ASSUME NEW k \in Key \union {NoKey}, SetDataKey(k)
      PROVE  LocalsInv'
  BY <1>4 DEF SetDataKey
<1>5. ASSUME NEW o \in Obj, Finalize(o)
      PROVE  LocalsInv'
  BY <1>5 DEF Finalize, Reachable
<1>6. CASE DropManager
  BY <1>6 DEF DropManager
<1>7. CASE NewManager
  BY <1>7 DEF NewManager
<1>8. CASE UNCHANGED vars
  BY <1>8 DEF vars
<1> QED
  BY <1>1, <1>2, <1>3, <1>4, <1>5, <1>6, <1>7, <1>8 DEF Next

(* A LuaState being loaded stays out of the cache. *)
LEMMA LoadingStep == IInv /\ [Next]_vars => LoadingInv'
<1> SUFFICES ASSUME IInv, [Next]_vars
             PROVE  LoadingInv'
  OBVIOUS
<1> USE FileAssumption, ObjAssumption DEF IInv, TypeOK, MonitorInv, LocalsInv, LoadingInv, Goto,
            monitorVars, localVars, managerVars, machineVars,
            Labels, Inside, Inner, Loading, Using, HoldsState,
            InNative
<1>1. ASSUME NEW t \in Thread, NEW f \in File, Call(t, f)
      PROVE  LoadingInv'
  BY <1>1 DEF Call
<1>2. ASSUME NEW t \in Thread, EnterCall(t)
      PROVE  LoadingInv'
  BY <1>2 DEF EnterCall, EnterMonitor, MonitorFree
<1>3. ASSUME NEW t \in Thread, InsideStep(t)
      PROVE  LoadingInv'
  <2>1. CASE CreateHit(t)
    BY <2>1 DEF CreateHit, MonitorFree
  <2>2. CASE CreateMiss(t)
    <3> HIDE DEF IInv, TypeOK, MonitorInv, LocalsInv, LoadingInv, Goto
    <3>1. \A f \in File : cache[f] # NoState => vm[cache[f]] = "ready"
      BY <2>2 DEF CreateMiss, Goto, IInv, CachedIsReady, ManagerReachable
    <3>2. \A u \in Thread : u # t => pc'[u] \notin Inside
      BY <2>2, Alone DEF IInv, CreateMiss
    <3>3. PICK o \in Obj : vm[o] = "unborn" /\ vm' = [vm EXCEPT ![o] = "none"]
                          /\ state' = [state EXCEPT ![t] = o]
      BY <2>2 DEF CreateMiss
    <3>4. /\ pc'[t] = "read"
          /\ cache[file[t]] = NoState
          /\ UNCHANGED <<cache, file>>
      BY <2>2 DEF CreateMiss, Goto, IInv, TypeOK
    <3>5. state'[t] = o /\ vm'[o] = "none" /\ \A f \in File : cache[f] # o
      BY <3>1, <3>3 DEF IInv, TypeOK
    <3> QED
      BY <3>2, <3>4, <3>5 DEF LoadingInv
  <2>3. CASE ReadThrows(t)
    BY <2>3 DEF ReadThrows, UnwindMonitor
  <2>4. CASE ReadEmpty(t)
    BY <2>4 DEF ReadEmpty, GiveUp
  <2>5. CASE ReadAsset(t)
    BY <2>5 DEF ReadAsset
  <2>6. CASE CheckKey(t)
    BY <2>6 DEF CheckKey
  <2>7. CASE Decrypt(t)
    <3>1. ASSUME NEW d \in Decrypted(file[t], key), d = "blank", GiveUp(t, "decrypt")
          PROVE  LoadingInv'
      BY <2>7, <3>1 DEF Decrypt, GiveUp
    <3>2. ASSUME NEW d \in Decrypted(file[t], key), d # "blank",
                 Goto(t, "decrypt", "open"), UNCHANGED state
          PROVE  LoadingInv'
      BY <2>7, <3>2 DEF Decrypt
    <3> QED
      BY <2>7, <3>1, <3>2 DEF Decrypt
  <2>8. CASE Open(t)
    <3> HIDE DEF IInv, TypeOK, MonitorInv, LocalsInv, LoadingInv, Goto
    <3>1. \A u \in Thread : u # t => pc'[u] \notin Inside
      BY <2>8, Alone DEF IInv, Open
    <3>2. state[t] \in Obj
      BY <2>8, Holds DEF IInv, Open, Goto
    <3>3. pc[t] = "open" /\ pc'[t] = "doString" /\ UNCHANGED <<cache, file, state>>
      BY <2>8 DEF IInv, TypeOK, Open, Goto
    <3>4. vm'[state[t]] = "open"
      BY <2>8, <3>2 DEF IInv, TypeOK, Open
    <3>5. cache[file[t]] = NoState /\ \A f \in File : cache[f] # state[t]
      BY <3>3 DEF IInv, LoadingInv
    <3> QED
      BY <3>1, <3>3, <3>4, <3>5 DEF LoadingInv
  <2>9. CASE DoStringOK(t)
    <3> HIDE DEF IInv, TypeOK, MonitorInv, LocalsInv, LoadingInv, Goto
    <3>1. \A u \in Thread : u # t => pc'[u] \notin Inside
      BY <2>9, Alone DEF IInv, DoStringOK
    <3>2. state[t] \in Obj
      BY <2>9, Holds DEF IInv, DoStringOK, Goto
    <3>3. pc[t] = "doString" /\ pc'[t] = "put" /\ UNCHANGED <<cache, file, state>>
      BY <2>9 DEF IInv, TypeOK, DoStringOK, Goto
    <3>4. vm'[state[t]] = "ready"
      BY <2>9, <3>2 DEF IInv, TypeOK, DoStringOK
    <3>5. cache[file[t]] = NoState /\ \A f \in File : cache[f] # state[t]
      BY <3>3 DEF IInv, LoadingInv
    <3> QED
      BY <3>1, <3>3, <3>4, <3>5 DEF LoadingInv
  <2>10. CASE DoStringFails(t)
    <3> HIDE DEF IInv, TypeOK, MonitorInv, LocalsInv, LoadingInv, Goto
    <3>1. \A u \in Thread : u # t => pc'[u] \notin Inside
      BY <2>10, Alone DEF IInv, DoStringFails, GiveUp
    <3>2. pc'[t] = "noState"
      BY <2>10 DEF IInv, TypeOK, DoStringFails, GiveUp, Goto
    <3> QED
      BY <3>1, <3>2 DEF LoadingInv
  <2>11. CASE Put(t)
    BY <2>11 DEF Put, PutState, ExitMonitor
  <2>12. CASE NoLuaState(t)
    BY <2>12 DEF NoLuaState, ExitMonitor
  <2>13. CASE GetGlobal(t)
    BY <2>13 DEF GetGlobal, Push
  <2>14. CASE PushString(t)
    BY <2>14 DEF PushString, Push
  <2>15. CASE PcallOK(t)
    BY <2>15 DEF PcallOK, Returned
  <2>16. CASE PcallFails(t)
    BY <2>16 DEF PcallFails, Returned
  <2>17. CASE ReadString(t)
    BY <2>17 DEF ReadString, TopSlot
  <2>18. CASE Pop(t)
    BY <2>18 DEF Pop, Popped
  <2>19. CASE DumpStack(t)
    BY <2>19 DEF DumpStack
  <2>20. CASE Exit(t)
    BY <2>20 DEF Exit, ExitMonitor
  <2> QED
    BY <1>3, <2>1, <2>2, <2>3, <2>4, <2>5, <2>6, <2>7, <2>8, <2>9, <2>10,
       <2>11, <2>12, <2>13, <2>14, <2>15, <2>16, <2>17, <2>18, <2>19, <2>20 DEF InsideStep
<1>4. ASSUME NEW k \in Key \union {NoKey}, SetDataKey(k)
      PROVE  LoadingInv'
  BY <1>4 DEF SetDataKey
<1>5. ASSUME NEW o \in Obj, Finalize(o)
      PROVE  LoadingInv'
  BY <1>5 DEF Finalize, Reachable
<1>6. CASE DropManager
  BY <1>6 DEF DropManager
<1>7. CASE NewManager
  BY <1>7 DEF NewManager
<1>8. CASE UNCHANGED vars
  BY <1>8 DEF vars
<1> QED
  BY <1>1, <1>2, <1>3, <1>4, <1>5, <1>6, <1>7, <1>8 DEF Next

(* A LuaState in use stays in the cache. *)
LEMMA UsingStep == IInv /\ [Next]_vars => UsingInv'
<1> SUFFICES ASSUME IInv, [Next]_vars
             PROVE  UsingInv'
  OBVIOUS
<1> USE FileAssumption, ObjAssumption DEF IInv, TypeOK, MonitorInv, LocalsInv, UsingInv, ManagerReachable,
            Goto,
            monitorVars, localVars, managerVars, machineVars,
            Labels, Inside, Inner, Loading, Using, HoldsState,
            InNative
<1>1. ASSUME NEW t \in Thread, NEW f \in File, Call(t, f)
      PROVE  UsingInv'
  BY <1>1 DEF Call
<1>2. ASSUME NEW t \in Thread, EnterCall(t)
      PROVE  UsingInv'
  BY <1>2 DEF EnterCall, EnterMonitor, MonitorFree
<1>3. ASSUME NEW t \in Thread, InsideStep(t)
      PROVE  UsingInv'
  <2>1. CASE CreateHit(t)
    BY <2>1 DEF CreateHit, MonitorFree
  <2>2. CASE CreateMiss(t)
    BY <2>2 DEF CreateMiss, EnterMonitor, MonitorFree
  <2>3. CASE ReadThrows(t)
    BY <2>3 DEF ReadThrows, UnwindMonitor
  <2>4. CASE ReadEmpty(t)
    BY <2>4 DEF ReadEmpty, GiveUp
  <2>5. CASE ReadAsset(t)
    BY <2>5 DEF ReadAsset
  <2>6. CASE CheckKey(t)
    BY <2>6 DEF CheckKey
  <2>7. CASE Decrypt(t)
    <3>1. ASSUME NEW d \in Decrypted(file[t], key), d = "blank", GiveUp(t, "decrypt")
          PROVE  UsingInv'
      BY <2>7, <3>1 DEF Decrypt, GiveUp
    <3>2. ASSUME NEW d \in Decrypted(file[t], key), d # "blank",
                 Goto(t, "decrypt", "open"), UNCHANGED state
          PROVE  UsingInv'
      BY <2>7, <3>2 DEF Decrypt
    <3> QED
      BY <2>7, <3>1, <3>2 DEF Decrypt
  <2>8. CASE Open(t)
    BY <2>8 DEF Open
  <2>9. CASE DoStringOK(t)
    BY <2>9 DEF DoStringOK, Push
  <2>10. CASE DoStringFails(t)
    BY <2>10 DEF DoStringFails, GiveUp, Push
  <2>11. CASE Put(t)
    BY <2>11 DEF Put, PutState, ExitMonitor
  <2>12. CASE NoLuaState(t)
    BY <2>12 DEF NoLuaState, ExitMonitor
  <2>13. CASE GetGlobal(t)
    BY <2>13 DEF GetGlobal, Push
  <2>14. CASE PushString(t)
    BY <2>14 DEF PushString, Push
  <2>15. CASE PcallOK(t)
    BY <2>15 DEF PcallOK, Returned
  <2>16. CASE PcallFails(t)
    BY <2>16 DEF PcallFails, Returned
  <2>17. CASE ReadString(t)
    BY <2>17 DEF ReadString, TopSlot
  <2>18. CASE Pop(t)
    BY <2>18 DEF Pop, Popped
  <2>19. CASE DumpStack(t)
    BY <2>19 DEF DumpStack
  <2>20. CASE Exit(t)
    BY <2>20 DEF Exit, ExitMonitor
  <2> QED
    BY <1>3, <2>1, <2>2, <2>3, <2>4, <2>5, <2>6, <2>7, <2>8, <2>9, <2>10,
       <2>11, <2>12, <2>13, <2>14, <2>15, <2>16, <2>17, <2>18, <2>19, <2>20 DEF InsideStep
<1>4. ASSUME NEW k \in Key \union {NoKey}, SetDataKey(k)
      PROVE  UsingInv'
  BY <1>4 DEF SetDataKey
<1>5. ASSUME NEW o \in Obj, Finalize(o)
      PROVE  UsingInv'
  BY <1>5 DEF Finalize, Reachable
<1>6. CASE DropManager
  BY <1>6 DEF DropManager
<1>7. CASE NewManager
  BY <1>7 DEF NewManager
<1>8. CASE UNCHANGED vars
  BY <1>8 DEF vars
<1> QED
  BY <1>1, <1>2, <1>3, <1>4, <1>5, <1>6, <1>7, <1>8 DEF Next

(* A cached LuaState stays ready, and its file's own. *)
LEMMA CachedStep == IInv /\ [Next]_vars => CachedIsReady'
<1> SUFFICES ASSUME IInv, [Next]_vars
             PROVE  CachedIsReady'
  OBVIOUS
<1> USE FileAssumption, ObjAssumption DEF IInv, TypeOK, MonitorInv, LocalsInv, LoadingInv, CachedIsReady,
            ManagerReachable, Goto,
            monitorVars, localVars, managerVars, machineVars,
            Labels, Inside, Inner, Loading, Using, HoldsState,
            InNative
<1>1. ASSUME NEW t \in Thread, NEW f \in File, Call(t, f)
      PROVE  CachedIsReady'
  BY <1>1 DEF Call
<1>2. ASSUME NEW t \in Thread, EnterCall(t)
      PROVE  CachedIsReady'
  BY <1>2 DEF EnterCall, EnterMonitor, MonitorFree
<1>3. ASSUME NEW t \in Thread, InsideStep(t)
      PROVE  CachedIsReady'
  <2>1. CASE CreateHit(t)
    BY <2>1 DEF CreateHit, MonitorFree
  <2>2. CASE CreateMiss(t)
    BY <2>2 DEF CreateMiss, EnterMonitor, MonitorFree
  <2>3. CASE ReadThrows(t)
    BY <2>3 DEF ReadThrows, UnwindMonitor
  <2>4. CASE ReadEmpty(t)
    BY <2>4 DEF ReadEmpty, GiveUp
  <2>5. CASE ReadAsset(t)
    BY <2>5 DEF ReadAsset
  <2>6. CASE CheckKey(t)
    BY <2>6 DEF CheckKey
  <2>7. CASE Decrypt(t)
    <3>1. ASSUME NEW d \in Decrypted(file[t], key), d = "blank", GiveUp(t, "decrypt")
          PROVE  CachedIsReady'
      BY <2>7, <3>1 DEF Decrypt, GiveUp
    <3>2. ASSUME NEW d \in Decrypted(file[t], key), d # "blank",
                 Goto(t, "decrypt", "open"), UNCHANGED state
          PROVE  CachedIsReady'
      BY <2>7, <3>2 DEF Decrypt
    <3> QED
      BY <2>7, <3>1, <3>2 DEF Decrypt
  <2>8. CASE Open(t)
    BY <2>8 DEF Open
  <2>9. CASE DoStringOK(t)
    BY <2>9 DEF DoStringOK, Push
  <2>10. CASE DoStringFails(t)
    BY <2>10 DEF DoStringFails, GiveUp, Push
  <2>11. CASE Put(t)
    BY <2>11 DEF Put, PutState, ExitMonitor
  <2>12. CASE NoLuaState(t)
    BY <2>12 DEF NoLuaState, ExitMonitor
  <2>13. CASE GetGlobal(t)
    BY <2>13 DEF GetGlobal, Push
  <2>14. CASE PushString(t)
    BY <2>14 DEF PushString, Push
  <2>15. CASE PcallOK(t)
    BY <2>15 DEF PcallOK, Returned
  <2>16. CASE PcallFails(t)
    BY <2>16 DEF PcallFails, Returned
  <2>17. CASE ReadString(t)
    BY <2>17 DEF ReadString, TopSlot
  <2>18. CASE Pop(t)
    BY <2>18 DEF Pop, Popped
  <2>19. CASE DumpStack(t)
    BY <2>19 DEF DumpStack
  <2>20. CASE Exit(t)
    BY <2>20 DEF Exit, ExitMonitor
  <2> QED
    BY <1>3, <2>1, <2>2, <2>3, <2>4, <2>5, <2>6, <2>7, <2>8, <2>9, <2>10,
       <2>11, <2>12, <2>13, <2>14, <2>15, <2>16, <2>17, <2>18, <2>19, <2>20 DEF InsideStep
<1>4. ASSUME NEW k \in Key \union {NoKey}, SetDataKey(k)
      PROVE  CachedIsReady'
  BY <1>4 DEF SetDataKey
<1>5. ASSUME NEW o \in Obj, Finalize(o)
      PROVE  CachedIsReady'
  BY <1>5 DEF Finalize, Reachable
<1>6. CASE DropManager
  BY <1>6 DEF DropManager
<1>7. CASE NewManager
  BY <1>7 DEF NewManager
<1>8. CASE UNCHANGED vars
  BY <1>8 DEF vars
<1> QED
  BY <1>1, <1>2, <1>3, <1>4, <1>5, <1>6, <1>7, <1>8 DEF Next

(* A call finds its own slots on top of the stack. *)
LEMMA StackStep == IInv /\ [Next]_vars => StackInv'
<1> SUFFICES ASSUME IInv, [Next]_vars
             PROVE  StackInv'
  OBVIOUS
<1> USE FileAssumption, ObjAssumption DEF IInv, TypeOK, MonitorInv, LocalsInv, UsingInv, StackInv, Goto,
            monitorVars, localVars, managerVars, machineVars,
            Labels, Inside, Inner, Loading, Using, HoldsState,
            InNative
<1>1. ASSUME NEW t \in Thread, NEW f \in File, Call(t, f)
      PROVE  StackInv'
  BY <1>1 DEF Call
<1>2. ASSUME NEW t \in Thread, EnterCall(t)
      PROVE  StackInv'
  BY <1>2 DEF EnterCall, EnterMonitor, MonitorFree
<1>3. ASSUME NEW t \in Thread, InsideStep(t)
      PROVE  StackInv'
  <2>1. CASE CreateHit(t)
    BY <2>1 DEF CreateHit, MonitorFree
  <2>2. CASE CreateMiss(t)
    BY <2>2 DEF CreateMiss, EnterMonitor, MonitorFree
  <2>3. CASE ReadThrows(t)
    BY <2>3 DEF ReadThrows, UnwindMonitor
  <2>4. CASE ReadEmpty(t)
    BY <2>4 DEF ReadEmpty, GiveUp
  <2>5. CASE ReadAsset(t)
    BY <2>5 DEF ReadAsset
  <2>6. CASE CheckKey(t)
    BY <2>6 DEF CheckKey
  <2>7. CASE Decrypt(t)
    <3>1. ASSUME NEW d \in Decrypted(file[t], key), d = "blank", GiveUp(t, "decrypt")
          PROVE  StackInv'
      BY <2>7, <3>1 DEF Decrypt, GiveUp
    <3>2. ASSUME NEW d \in Decrypted(file[t], key), d # "blank",
                 Goto(t, "decrypt", "open"), UNCHANGED state
          PROVE  StackInv'
      BY <2>7, <3>2 DEF Decrypt
    <3> QED
      BY <2>7, <3>1, <3>2 DEF Decrypt
  <2>8. CASE Open(t)
    BY <2>8 DEF Open
  <2>9. CASE DoStringOK(t)
    <3> HIDE DEF IInv, TypeOK, MonitorInv, LocalsInv, UsingInv, StackInv, Goto
    <3>1. \A u \in Thread : u # t => pc'[u] \notin Inside
      BY <2>9, Alone DEF IInv, DoStringOK
    <3>2. pc[t] = "doString" /\ pc'[t] = "put"
      BY <2>9 DEF IInv, TypeOK, DoStringOK, Goto
    <3> QED
      BY <3>1, <3>2 DEF StackInv
  <2>10. CASE DoStringFails(t)
    <3> HIDE DEF IInv, TypeOK, MonitorInv, LocalsInv, UsingInv, StackInv, Goto
    <3>1. \A u \in Thread : u # t => pc'[u] \notin Inside
      BY <2>10, Alone DEF IInv, DoStringFails, GiveUp
    <3>2. pc[t] = "doString" /\ pc'[t] = "noState"
      BY <2>10 DEF IInv, TypeOK, DoStringFails, GiveUp, Goto
    <3> QED
      BY <3>1, <3>2 DEF StackInv
  <2>11. CASE Put(t)
    BY <2>11 DEF Put, PutState, ExitMonitor
  <2>12. CASE NoLuaState(t)
    BY <2>12 DEF NoLuaState, ExitMonitor
  <2>13. CASE GetGlobal(t)
    <3> HIDE DEF IInv, TypeOK, MonitorInv, LocalsInv, UsingInv, StackInv, Goto
    <3>1. \A u \in Thread : u # t => pc'[u] \notin Inside
      BY <2>13, Alone DEF IInv, GetGlobal
    <3>2. pc[t] = "getGlobal" /\ pc'[t] = "pushString"
      BY <2>13 DEF IInv, TypeOK, GetGlobal, Goto
    <3>3. state[t] \in Obj /\ stack[state[t]] \in Seq(Slot)
      BY <3>2, Holds DEF IInv, TypeOK
    <3>4. state'[t] = state[t]
          /\ stack'[state[t]] = Append(stack[state[t]], [kind |-> "function", by |-> t])
      BY <2>13, <3>3 DEF GetGlobal, Push, IInv, TypeOK
    <3>5. Len(stack'[state'[t]]) >= 1
      BY <3>3, <3>4
    <3> QED
      BY <3>1, <3>2, <3>5 DEF StackInv
  <2>14. CASE PushString(t)
    <3> HIDE DEF IInv, TypeOK, MonitorInv, LocalsInv, UsingInv, StackInv, Goto
    <3>1. \A u \in Thread : u # t => pc'[u] \notin Inside
      BY <2>14, Alone DEF IInv, PushString
    <3>2. pc[t] = "pushString" /\ pc'[t] = "pcall"
      BY <2>14 DEF IInv, TypeOK, PushString, Goto
    <3>3. state[t] \in Obj /\ stack[state[t]] \in Seq(Slot)
      BY <3>2, Holds DEF IInv, TypeOK
    <3>4. state'[t] = state[t]
          /\ stack'[state[t]] = Append(stack[state[t]], [kind |-> "argument", by |-> t])
      BY <2>14, <3>3 DEF PushString, Push, IInv, TypeOK
    <3>5. Len(stack[state[t]]) >= 1
      BY <3>2 DEF IInv, StackInv
    <3>6. Len(stack'[state'[t]]) >= 2
      BY <3>3, <3>4, <3>5
    <3> QED
      BY <3>1, <3>2, <3>6 DEF StackInv
  <2>15. CASE PcallOK(t)
    <3> HIDE DEF IInv, TypeOK, MonitorInv, LocalsInv, UsingInv, StackInv, Goto
    <3>1. \A u \in Thread : u # t => pc'[u] \notin Inside
      BY <2>15, Alone DEF IInv, PcallOK
    <3>2. pc[t] = "pcall" /\ pc'[t] = "toString"
      BY <2>15 DEF IInv, TypeOK, PcallOK, Goto
    <3>3. state[t] \in Obj /\ stack[state[t]] \in Seq(Slot)
      BY <3>2, Holds DEF IInv, TypeOK
    <3>4. PICK k \in {"result", "nil"} : Returned(state[t], k, t)
      BY <2>15 DEF PcallOK
    <3> DEFINE r == SubSeq(stack[state[t]], 1, Len(stack[state[t]]) - 2)
    <3>5. r \in Seq(Slot)
      BY <3>3, LowerType
    <3>6. /\ state'[t] = state[t]
          /\ stack'[state[t]] = Append(r, [kind |-> k, by |-> t])
      BY <2>15, <3>3, <3>4 DEF PcallOK, Returned, IInv, TypeOK
    <3> HIDE DEF r
    <3>7. /\ Len(stack'[state'[t]]) >= 1
          /\ TopSlot(stack'[state'[t]]) = [kind |-> k, by |-> t]
      BY <3>5, <3>6 DEF TopSlot
    <3> QED
      BY <3>1, <3>2, <3>7 DEF StackInv
  <2>16. CASE PcallFails(t)
    <3> HIDE DEF IInv, TypeOK, MonitorInv, LocalsInv, UsingInv, StackInv, Goto
    <3>1. \A u \in Thread : u # t => pc'[u] \notin Inside
      BY <2>16, Alone DEF IInv, PcallFails
    <3>2. pc[t] = "pcall" /\ pc'[t] = "dump"
      BY <2>16 DEF IInv, TypeOK, PcallFails, Goto
    <3> QED
      BY <3>1, <3>2 DEF StackInv
  <2>17. CASE ReadString(t)
    BY <2>17 DEF ReadString, TopSlot
  <2>18. CASE Pop(t)
    <3> HIDE DEF IInv, TypeOK, MonitorInv, LocalsInv, UsingInv, StackInv, Goto
    <3>1. \A u \in Thread : u # t => pc'[u] \notin Inside
      BY <2>18, Alone DEF IInv, Pop
    <3>2. pc[t] = "pop" /\ pc'[t] = "exit"
      BY <2>18 DEF IInv, TypeOK, Pop, Goto
    <3> QED
      BY <3>1, <3>2 DEF StackInv
  <2>19. CASE DumpStack(t)
    BY <2>19 DEF DumpStack
  <2>20. CASE Exit(t)
    BY <2>20 DEF Exit, ExitMonitor
  <2> QED
    BY <1>3, <2>1, <2>2, <2>3, <2>4, <2>5, <2>6, <2>7, <2>8, <2>9, <2>10,
       <2>11, <2>12, <2>13, <2>14, <2>15, <2>16, <2>17, <2>18, <2>19, <2>20 DEF InsideStep
<1>4. ASSUME NEW k \in Key \union {NoKey}, SetDataKey(k)
      PROVE  StackInv'
  BY <1>4 DEF SetDataKey
<1>5. ASSUME NEW o \in Obj, Finalize(o)
      PROVE  StackInv'
  BY <1>5 DEF Finalize, Reachable
<1>6. CASE DropManager
  BY <1>6 DEF DropManager
<1>7. CASE NewManager
  BY <1>7 DEF NewManager
<1>8. CASE UNCHANGED vars
  BY <1>8 DEF vars
<1> QED
  BY <1>1, <1>2, <1>3, <1>4, <1>5, <1>6, <1>7, <1>8 DEF Next

(* An answer comes from the call's own slot. *)
LEMMA AnswerStep == IInv /\ [Next]_vars => AnswerIsOwn'
<1> SUFFICES ASSUME IInv, [Next]_vars
             PROVE  AnswerIsOwn'
  OBVIOUS
<1> USE DEF IInv, TypeOK, StackInv, AnswerIsOwn, Goto,
            monitorVars, localVars, managerVars, machineVars
<1>1. ASSUME NEW t \in Thread, NEW f \in File, Call(t, f)
      PROVE  AnswerIsOwn'
  BY <1>1 DEF Call
<1>2. ASSUME NEW t \in Thread, EnterCall(t)
      PROVE  AnswerIsOwn'
  BY <1>2 DEF EnterCall, EnterMonitor, MonitorFree
<1>3. ASSUME NEW t \in Thread, InsideStep(t)
      PROVE  AnswerIsOwn'
  <2>1. CASE CreateHit(t)
    BY <2>1 DEF CreateHit, MonitorFree
  <2>2. CASE CreateMiss(t)
    BY <2>2 DEF CreateMiss, EnterMonitor, MonitorFree
  <2>3. CASE ReadThrows(t)
    BY <2>3 DEF ReadThrows, UnwindMonitor
  <2>4. CASE ReadEmpty(t)
    BY <2>4 DEF ReadEmpty, GiveUp
  <2>5. CASE ReadAsset(t)
    BY <2>5 DEF ReadAsset
  <2>6. CASE CheckKey(t)
    BY <2>6 DEF CheckKey
  <2>7. CASE Decrypt(t)
    BY <2>7 DEF Decrypt, GiveUp
  <2>8. CASE Open(t)
    BY <2>8 DEF Open
  <2>9. CASE DoStringOK(t)
    BY <2>9 DEF DoStringOK, Push
  <2>10. CASE DoStringFails(t)
    BY <2>10 DEF DoStringFails, GiveUp, Push
  <2>11. CASE Put(t)
    BY <2>11 DEF Put, PutState, ExitMonitor
  <2>12. CASE NoLuaState(t)
    BY <2>12 DEF NoLuaState, ExitMonitor
  <2>13. CASE GetGlobal(t)
    BY <2>13 DEF GetGlobal, Push
  <2>14. CASE PushString(t)
    BY <2>14 DEF PushString, Push
  <2>15. CASE PcallOK(t)
    BY <2>15 DEF PcallOK, Returned
  <2>16. CASE PcallFails(t)
    BY <2>16 DEF PcallFails, Returned
  <2>17. CASE ReadString(t)
    BY <2>17 DEF ReadString, TopSlot
  <2>18. CASE Pop(t)
    BY <2>18 DEF Pop, Popped
  <2>19. CASE DumpStack(t)
    BY <2>19 DEF DumpStack
  <2>20. CASE Exit(t)
    BY <2>20 DEF Exit, ExitMonitor
  <2> QED
    BY <1>3, <2>1, <2>2, <2>3, <2>4, <2>5, <2>6, <2>7, <2>8, <2>9, <2>10,
       <2>11, <2>12, <2>13, <2>14, <2>15, <2>16, <2>17, <2>18, <2>19, <2>20 DEF InsideStep
<1>4. ASSUME NEW k \in Key \union {NoKey}, SetDataKey(k)
      PROVE  AnswerIsOwn'
  BY <1>4 DEF SetDataKey
<1>5. ASSUME NEW o \in Obj, Finalize(o)
      PROVE  AnswerIsOwn'
  BY <1>5 DEF Finalize, Reachable
<1>6. CASE DropManager
  BY <1>6 DEF DropManager
<1>7. CASE NewManager
  BY <1>7 DEF NewManager
<1>8. CASE UNCHANGED vars
  BY <1>8 DEF vars
<1> QED
  BY <1>1, <1>2, <1>3, <1>4, <1>5, <1>6, <1>7, <1>8 DEF Next

(* An answer is settled once per call. *)
LEMMA ReplyStep == IInv /\ [Next]_vars => ReplyInv'
<1> SUFFICES ASSUME IInv, [Next]_vars
             PROVE  ReplyInv'
  OBVIOUS
<1> USE DEF IInv, TypeOK, ReplyInv, Goto,
            monitorVars, localVars, managerVars, machineVars, Labels
<1>1. ASSUME NEW t \in Thread, NEW f \in File, Call(t, f)
      PROVE  ReplyInv'
  BY <1>1 DEF Call
<1>2. ASSUME NEW t \in Thread, EnterCall(t)
      PROVE  ReplyInv'
  BY <1>2 DEF EnterCall, EnterMonitor, MonitorFree
<1>3. ASSUME NEW t \in Thread, InsideStep(t)
      PROVE  ReplyInv'
  <2>1. CASE CreateHit(t)
    BY <2>1 DEF CreateHit, MonitorFree
  <2>2. CASE CreateMiss(t)
    BY <2>2 DEF CreateMiss, EnterMonitor, MonitorFree
  <2>3. CASE ReadThrows(t)
    BY <2>3 DEF ReadThrows, UnwindMonitor
  <2>4. CASE ReadEmpty(t)
    BY <2>4 DEF ReadEmpty, GiveUp
  <2>5. CASE ReadAsset(t)
    BY <2>5 DEF ReadAsset
  <2>6. CASE CheckKey(t)
    BY <2>6 DEF CheckKey
  <2>7. CASE Decrypt(t)
    <3>1. ASSUME NEW d \in Decrypted(file[t], key), d = "blank", GiveUp(t, "decrypt")
          PROVE  ReplyInv'
      BY <2>7, <3>1 DEF Decrypt, GiveUp
    <3>2. ASSUME NEW d \in Decrypted(file[t], key), d # "blank",
                 Goto(t, "decrypt", "open"), UNCHANGED state
          PROVE  ReplyInv'
      BY <2>7, <3>2 DEF Decrypt
    <3> QED
      BY <2>7, <3>1, <3>2 DEF Decrypt
  <2>8. CASE Open(t)
    BY <2>8 DEF Open
  <2>9. CASE DoStringOK(t)
    BY <2>9 DEF DoStringOK, Push
  <2>10. CASE DoStringFails(t)
    BY <2>10 DEF DoStringFails, GiveUp, Push
  <2>11. CASE Put(t)
    BY <2>11 DEF Put, PutState, ExitMonitor
  <2>12. CASE NoLuaState(t)
    BY <2>12 DEF NoLuaState, ExitMonitor
  <2>13. CASE GetGlobal(t)
    BY <2>13 DEF GetGlobal, Push
  <2>14. CASE PushString(t)
    BY <2>14 DEF PushString, Push
  <2>15. CASE PcallOK(t)
    BY <2>15 DEF PcallOK, Returned
  <2>16. CASE PcallFails(t)
    BY <2>16 DEF PcallFails, Returned
  <2>17. CASE ReadString(t)
    BY <2>17 DEF ReadString, TopSlot
  <2>18. CASE Pop(t)
    BY <2>18 DEF Pop, Popped
  <2>19. CASE DumpStack(t)
    BY <2>19 DEF DumpStack
  <2>20. CASE Exit(t)
    BY <2>20 DEF Exit, ExitMonitor
  <2> QED
    BY <1>3, <2>1, <2>2, <2>3, <2>4, <2>5, <2>6, <2>7, <2>8, <2>9, <2>10,
       <2>11, <2>12, <2>13, <2>14, <2>15, <2>16, <2>17, <2>18, <2>19, <2>20 DEF InsideStep
<1>4. ASSUME NEW k \in Key \union {NoKey}, SetDataKey(k)
      PROVE  ReplyInv'
  BY <1>4 DEF SetDataKey
<1>5. ASSUME NEW o \in Obj, Finalize(o)
      PROVE  ReplyInv'
  BY <1>5 DEF Finalize, Reachable
<1>6. CASE DropManager
  BY <1>6 DEF DropManager
<1>7. CASE NewManager
  BY <1>7 DEF NewManager
<1>8. CASE UNCHANGED vars
  BY <1>8 DEF vars
<1> QED
  BY <1>1, <1>2, <1>3, <1>4, <1>5, <1>6, <1>7, <1>8 DEF Next

-----------------------------------------------------------------------------
(* IInv is inductive. *)
LEMMA NextIInv == IInv /\ [Next]_vars => IInv'
<1> SUFFICES ASSUME IInv, [Next]_vars
             PROVE  IInv'
  OBVIOUS
<1>1. TypeOK' /\ MonitorInv' /\ LocalsInv'
  BY TypeStep, MonitorStep, LocalsStep
<1>2. LoadingInv' /\ UsingInv' /\ CachedIsReady'
  BY LoadingStep, UsingStep, CachedStep
<1>3. StackInv' /\ AnswerIsOwn' /\ ReplyInv'
  BY StackStep, AnswerStep, ReplyStep
<1> QED
  BY <1>1, <1>2, <1>3 DEF IInv

THEOREM Inductive == Spec => []IInv
  BY InitIInv, NextIInv, PTL DEF Spec

(* Every variable keeps its type: the monitor is entered at most twice.    *)
THEOREM TypeCorrect == Spec => []TypeOK
<1>1. IInv => TypeOK
  BY DEF IInv
<1> QED
  BY <1>1, Inductive, PTL

(* Whatever the threads do, at most one of them is in native code on a Lua *)
(* machine: the two synchronized entry points share one monitor.           *)
THEOREM MachinesExclusive == Spec => []VMExclusive
<1>1. IInv => VMExclusive
  BY DEF IInv, MonitorInv, VMExclusive, InNative, Inside, Labels
<1> QED
  BY <1>1, Inductive, PTL

(* The finalizer never closes a machine that a thread still calls.         *)
THEOREM NeverUsedAfterClose == Spec => []NoUseAfterClose
<1>1. ASSUME IInv, NEW t \in Thread, pc[t] \in InNative
      PROVE  vm[state[t]] \in {"open", "ready", "broken"}
  <2>1. CASE pc[t] = "doString"
    BY <1>1, <2>1 DEF IInv, LoadingInv, Loading
  <2>2. CASE pc[t] \in Using
    <3>1. state[t] = cache[file[t]] /\ cache[file[t]] # NoState /\ file[t] \in File
      BY <1>1, <2>2 DEF IInv, UsingInv, LocalsInv, TypeOK, HoldsState, Using, InNative
    <3>2. ManagerReachable
      BY <2>2 DEF ManagerReachable, Using
    <3> QED
      BY <1>1, <3>1, <3>2 DEF IInv, CachedIsReady
  <2> QED
    BY <1>1, <2>1, <2>2 DEF InNative, Using
<1>2. IInv => NoUseAfterClose
  BY <1>1 DEF NoUseAfterClose
<1> QED
  BY <1>2, Inductive, PTL

(* A cached machine has run its script, for one file only, and lives.      *)
THEOREM CacheIsReady == Spec => []CachedIsReady
<1>1. IInv => CachedIsReady
  BY DEF IInv
<1> QED
  BY <1>1, Inductive, PTL

(* No caller holds a second machine for a script that is already cached.   *)
THEOREM NoOrphans == Spec => []NoOrphanMachine
<1>1. ASSUME IInv, NEW o \in Obj, NEW t \in Thread, vm[o] = "ready", state[t] = o
      PROVE  \/ \E f \in File : cache[f] = o
             \/ pc[t] = "put" /\ cache[file[t]] = NoState
  <2>1. pc[t] \in HoldsState /\ file[t] \in File
    BY <1>1, ObjAssumption
    DEF IInv, LocalsInv, TypeOK, HoldsState, InNative
  <2>2. CASE pc[t] \in Loading
    BY <1>1, <2>2 DEF IInv, LoadingInv
  <2>3. CASE pc[t] \in Using
    BY <1>1, <2>1, <2>3 DEF IInv, UsingInv
  <2> QED
    BY <2>1, <2>2, <2>3 DEF HoldsState, InNative, Loading, Using
<1>2. IInv => NoOrphanMachine
  BY <1>1 DEF NoOrphanMachine, Reachable
<1> QED
  BY <1>2, Inductive, PTL

(* No caller is given another call's result or a leftover message.         *)
THEOREM AnswersAreOwn == Spec => []AnswerIsOwn
<1>1. IInv => AnswerIsOwn
  BY DEF IInv
<1> QED
  BY <1>1, Inductive, PTL

-----------------------------------------------------------------------------
(***************************************************************************)
(* A cache entry is written once in the life of a manager.                 *)
(***************************************************************************)
CacheKept == \A f \in File : (ManagerReachable /\ cache[f] # NoState) => cache'[f] = cache[f]

LEMMA CacheKeptStep == IInv /\ [Next]_vars => CacheKept
<1> SUFFICES ASSUME IInv, [Next]_vars
             PROVE  CacheKept
  OBVIOUS
<1>1. CASE \E t \in Thread : Put(t)
  <2>1. PICK t \in Thread : Put(t)
    BY <1>1
  <2>2. cache[file[t]] = NoState
    BY <2>1 DEF Put, Goto, IInv, LoadingInv, Loading
  <2>3. cache' = [cache EXCEPT ![file[t]] = state[t]]
    BY <2>1 DEF Put, PutState
  <2> QED
    BY <2>2, <2>3 DEF CacheKept, IInv, TypeOK
<1>2. CASE NewManager
  BY <1>2 DEF NewManager, CacheKept
<1>3. CASE UNCHANGED cache
  BY <1>3 DEF CacheKept
<1> QED
  BY <1>1, <1>2, <1>3
  DEF Next, vars, localVars, managerVars, InsideStep, Call, EnterCall, CreateHit, CreateMiss, ReadThrows, ReadEmpty,
      ReadAsset, CheckKey, Decrypt, Open, DoStringOK, DoStringFails,
      NoLuaState, GetGlobal, PushString, PcallOK, PcallFails, ReadString, Pop,
      DumpStack, Exit, SetDataKey, Finalize, DropManager

(* mLuaStateCacheMap.put never replaces a LuaState while its manager can   *)
(* still be called, so no script state is lost between calls.              *)
THEOREM CacheNeverReplaced == Spec => CacheStable
<1>1. IInv /\ [Next]_vars =>
        [\A f \in File : (ManagerReachable /\ cache[f] # NoState)
                            => cache'[f] = cache[f]]_vars
  BY CacheKeptStep DEF CacheKept
<1> QED
  BY <1>1, Inductive, PTL DEF Spec, CacheStable

-----------------------------------------------------------------------------
(***************************************************************************)
(* LuaManager implements ScriptHost.                                       *)
(***************************************************************************)
Loaded == {f \in File : cache[f] # NoState}
Shown == [t \in Thread |-> Visible(t)]

LEMMA HostInitStep == Init => Host!HostInit
  BY DEF Init, Host!HostInit, Visible

(* Steps that change neither the cache nor anything a caller sees. *)
LEMMA HostStutter ==
  ASSUME UNCHANGED <<owner, file, answer, cache>>
  PROVE  UNCHANGED Host!hostVars
<1>1. Loaded' = Loaded
  BY DEF Loaded
<1>2. Shown' = Shown
  BY DEF Shown, Visible
<1> QED
  BY <1>1, <1>2 DEF Loaded, Shown, Host!hostVars

(* What a caller sees of an answer is its kind. *)
LEMMA ShownKinds ==
  ASSUME AnswerIsOwn
  PROVE  Shown = [t \in Thread |-> answer[t].kind]
  BY DEF Shown, Visible, AnswerIsOwn

LEMMA ShownKindsNext ==
  ASSUME AnswerIsOwn'
  PROVE  Shown' = [t \in Thread |-> answer'[t].kind]
  BY DEF Shown, Visible, AnswerIsOwn

LEMMA HostStep ==
  ASSUME IInv, IInv', [Next]_vars
  PROVE  [Host!HostNext]_(Host!hostVars)
<1> USE DEF monitorVars, localVars, managerVars, machineVars
<1>1. /\ answer \in [Thread -> [kind : AnswerKinds, by : Thread]]
      /\ file \in [Thread -> File \union {NoFile}]
      /\ pc \in [Thread -> Labels]
      /\ cache \in [File -> Obj \union {NoState}]
  BY DEF IInv, TypeOK
<1>2. /\ Shown = [t \in Thread |-> answer[t].kind]
      /\ Shown' = [t \in Thread |-> answer'[t].kind]
  BY ShownKinds, ShownKindsNext DEF IInv
<1>3. ASSUME NEW t \in Thread, NEW f \in File, Call(t, f)
      PROVE  Host!Ask(t, f)
  <2>1. file[t] = NoFile
    BY <1>3 DEF Call, Goto, IInv, LocalsInv
  <2>2. Shown' = [Shown EXCEPT ![t] = "none"]
    BY <1>1, <1>2, <1>3 DEF Call
  <2>3. file' = [file EXCEPT ![t] = f] /\ UNCHANGED <<owner, cache>>
    BY <1>3 DEF Call
  <2>4. Loaded' = Loaded
    BY <2>3 DEF Loaded
  <2> QED
    BY <2>1, <2>2, <2>3, <2>4 DEF Host!Ask, Shown, Loaded
<1>4. ASSUME NEW t \in Thread, EnterCall(t)
      PROVE  Host!Begin(t)
  <2>1. pc[t] = "enter" /\ owner \in {NoThread, t}
    BY <1>4 DEF EnterCall, EnterMonitor, MonitorFree, Goto
  <2>2. owner = NoThread /\ file[t] # NoFile
    BY <2>1 DEF IInv, MonitorInv, LocalsInv, Inside
  <2>3. owner' = t /\ UNCHANGED <<file, answer, cache>>
    BY <1>4 DEF EnterCall, EnterMonitor
  <2>4. Loaded' = Loaded /\ Shown' = Shown
    BY <2>3 DEF Loaded, Shown, Visible
  <2> QED
    BY <2>2, <2>3, <2>4 DEF Host!Begin, Loaded, Shown
<1>5. ASSUME NEW t \in Thread, ReadThrows(t)
      PROVE  Host!Abort(t)
  <2>1. owner = t /\ Shown[t] = "none"
    BY <1>1, <1>2, <1>5
    DEF ReadThrows, Goto, IInv, MonitorInv, ReplyInv, Inside, Labels
  <2>2. Shown' = [Shown EXCEPT ![t] = "exception"]
    BY <1>1, <1>2, <1>5 DEF ReadThrows
  <2>3. /\ owner' = NoThread
        /\ file' = [file EXCEPT ![t] = NoFile]
        /\ UNCHANGED cache
    BY <1>5 DEF ReadThrows, UnwindMonitor
  <2>4. Loaded' = Loaded
    BY <2>3 DEF Loaded
  <2> QED
    BY <2>1, <2>2, <2>3, <2>4 DEF Host!Abort, Shown, Loaded
<1>6. ASSUME NEW t \in Thread, Put(t)
      PROVE  Host!Load(t)
  <2>1. /\ pc[t] = "put" /\ depth = 2 /\ owner = t
        /\ file[t] \in File /\ state[t] # NoState
    BY <1>1, <1>6, FileAssumption
    DEF Put, Goto, IInv, MonitorInv, LocalsInv, HoldsState, Inside, Inner,
        Loading, Labels
  <2>2. cache[file[t]] = NoState
    BY <2>1 DEF IInv, LoadingInv, Loading
  <2>3. /\ owner' = owner
        /\ cache' = [cache EXCEPT ![file[t]] = state[t]]
        /\ UNCHANGED <<file, answer>>
    BY <1>6, <2>1 DEF Put, PutState, ExitMonitor
  <2>4. Loaded' = Loaded \union {file[t]} /\ file[t] \notin Loaded
    BY <1>1, <2>1, <2>2, <2>3 DEF Loaded
  <2>5. Shown' = Shown
    BY <2>3 DEF Shown, Visible
  <2> QED
    BY <2>1, <2>3, <2>4, <2>5 DEF Host!Load, Loaded, Shown
<1>7. ASSUME NEW t \in Thread, NoLuaState(t) \/ DumpStack(t)
      PROVE  Host!Reply(t, "null")
  <2>1. owner = t /\ Shown[t] = "none"
    BY <1>1, <1>2, <1>7
    DEF NoLuaState, DumpStack, Goto, IInv, MonitorInv, ReplyInv, Inside, Labels
  <2>2. Shown' = [Shown EXCEPT ![t] = "null"]
    <3>1. answer' = [answer EXCEPT ![t] = [kind |-> "null", by |-> t]]
      BY <1>7 DEF NoLuaState, DumpStack
    <3> QED
      BY <1>1, <1>2, <3>1
  <2>3. owner' = owner
    <3>1. CASE NoLuaState(t)
      <4>1. depth = 2
        BY <3>1 DEF NoLuaState, Goto, IInv, MonitorInv, Inside, Inner, Labels
      <4> QED
        BY <2>1, <3>1, <4>1 DEF NoLuaState, ExitMonitor
    <3>2. CASE DumpStack(t)
      BY <3>2 DEF DumpStack
    <3> QED
      BY <1>7, <3>1, <3>2
  <2>4. Loaded' = Loaded /\ UNCHANGED file
    BY <1>7 DEF NoLuaState, DumpStack, Loaded
  <2> QED
    BY <2>1, <2>2, <2>3, <2>4 DEF Host!Reply, Shown, Loaded
<1>8. ASSUME NEW t \in Thread, ReadString(t)
      PROVE  \E a \in {"null", "result"} : Host!Reply(t, a)
  <2>1. owner = t /\ Shown[t] = "none" /\ pc[t] = "toString" /\ file[t] \in File
    BY <1>1, <1>2, <1>8, FileAssumption
    DEF ReadString, Goto, IInv, MonitorInv, LocalsInv, ReplyInv, Inside, Labels
  <2>2. TopSlot(stack[state[t]]).kind \in {"result", "nil"}
    BY <2>1 DEF IInv, StackInv
  <2>3. PICK a \in {"null", "result"} :
             answer' = [answer EXCEPT ![t] =
                          [kind |-> a, by |-> TopSlot(stack[state[t]]).by]]
    BY <1>8, <2>2 DEF ReadString
  <2>4. Shown' = [Shown EXCEPT ![t] = a]
    BY <1>1, <1>2, <2>3
  <2>5. file[t] \in Loaded
    BY <2>1 DEF IInv, UsingInv, LocalsInv, Using, HoldsState, InNative, Loaded
  <2>6. UNCHANGED <<owner, file, cache>> /\ Loaded' = Loaded
    BY <1>8 DEF ReadString, Loaded
  <2>7. Host!Reply(t, a)
    BY <2>1, <2>4, <2>5, <2>6 DEF Host!Reply, Shown, Loaded
  <2> QED
    BY <2>7
<1>9. ASSUME NEW t \in Thread, Exit(t)
       PROVE  Host!Done(t)
  <2>1. owner = t /\ depth = 1 /\ Shown[t] # "none"
    BY <1>1, <1>2, <1>9
    DEF Exit, Goto, IInv, MonitorInv, ReplyInv, Inside, Inner, Loading, Labels
  <2>2. /\ owner' = NoThread
        /\ file' = [file EXCEPT ![t] = NoFile]
        /\ UNCHANGED <<answer, cache>>
    BY <1>9, <2>1 DEF Exit, ExitMonitor
  <2>3. Loaded' = Loaded /\ Shown' = Shown
    BY <2>2 DEF Loaded, Shown, Visible
  <2> QED
    BY <2>1, <2>2, <2>3 DEF Host!Done, Shown, Loaded
<1>10. ASSUME NewManager
       PROVE  Host!Restart
  <2>1. \A t \in Thread : file[t] = NoFile
    BY <1>10 DEF NewManager, ManagerReachable, IInv, LocalsInv
  <2>2. /\ cache' = [f \in File |-> NoState]
        /\ UNCHANGED <<owner, file, answer>>
    BY <1>10 DEF NewManager
  <2>3. Loaded' = {} /\ Shown' = Shown
    BY <2>2 DEF Loaded, Shown, Visible
  <2> QED
    BY <2>1, <2>2, <2>3 DEF Host!Restart, Shown, Loaded
<1>11. CASE UNCHANGED <<owner, file, answer, cache>>
  BY <1>11, HostStutter
<1>12. ASSUME NEW t \in Thread, InsideStep(t)
       PROVE  [Host!HostNext]_(Host!hostVars)
  <2>1. CASE ReadThrows(t)
    BY <1>5, <2>1 DEF Host!HostNext
  <2>2. CASE Put(t)
    BY <1>6, <2>2 DEF Host!HostNext
  <2>3. CASE NoLuaState(t) \/ DumpStack(t)
    BY <1>7, <2>3 DEF Host!HostNext
  <2>4. CASE ReadString(t)
    BY <1>8, <2>4 DEF Host!HostNext
  <2>5. CASE Exit(t)
    BY <1>9, <2>5 DEF Host!HostNext
  <2>6. ASSUME CreateMiss(t)
        PROVE  UNCHANGED <<owner, file, answer, cache>>
    BY <2>6
    DEF CreateMiss, EnterMonitor, Goto, IInv, MonitorInv, Inside, Labels
  <2>7. CASE UNCHANGED <<owner, file, answer, cache>>
    BY <2>7, <1>11
  <2> QED
    BY <1>12, <2>1, <2>2, <2>3, <2>4, <2>5, <2>6, <2>7
    DEF InsideStep, CreateHit, ReadEmpty, ReadAsset, CheckKey, Decrypt, Open,
        DoStringOK, DoStringFails, GetGlobal, PushString, PcallOK,
        PcallFails, Pop
<1> QED
  BY <1>3, <1>4, <1>10, <1>11, <1>12
  DEF Next, vars, Host!HostNext, SetDataKey, Finalize, DropManager

(* For its callers the manager is the abstract host: it serves one request *)
(* at a time, loads a script at most once in its life and answers with a   *)
(* result only once the script is loaded.                                  *)
THEOREM ImplementsHost == Spec => RefinesHost
<1>1. IInv /\ IInv' /\ [Next]_vars => [Host!HostNext]_(Host!hostVars)
  BY HostStep
<1> QED
  BY <1>1, HostInitStep, Inductive, PTL DEF Spec, RefinesHost, Host!HostSpec

-----------------------------------------------------------------------------
(***************************************************************************)
(* StackAccounting.  It speaks of the machines that nobody uses; for it to *)
(* be inductive, the slots that a call in progress owns are counted too,   *)
(* and a machine that has run no script has an empty stack.                *)
(***************************************************************************)
Fresh == {"unborn", "none", "open"}
Owning == Using \union {"put"}

(* The slots a call owns at each statement; an error counts as a failure,  *)
(* so that a call that has failed owns none.                               *)
Own(label) ==
  IF label = "pcall" THEN 2
  ELSE IF label \in {"pushString", "toString", "pop"} THEN 1 ELSE 0

(* Under its n top slots s has what the chunk left, and k messages. *)
Settled(s, n, k) ==
  /\ n <= Len(s)
  /\ \A i \in 1 .. Len(s) - n : s[i].kind = "error" \/ (i = 1 /\ s[i].kind = "chunk")
  /\ Len(s) - n = k + IF Len(s) - n >= 1 /\ s[1].kind = "chunk" THEN 1 ELSE 0

FreshInv ==
  \A o \in Obj : vm[o] \in Fresh => stack[o] = << >> /\ failures[o] = 0

RestInv ==
  \A o \in Obj : (vm[o] = "ready" /\ ~InUse(o)) => Settled(stack[o], 0, failures[o])

BusyInv ==
  \A t \in Thread :
    pc[t] \in Owning => Settled(stack[state[t]], Own(pc[t]), failures[state[t]])

AccountInv == FreshInv /\ RestInv /\ BusyInv

(* Only what is under the top slots counts. *)
LEMMA SettledSame ==
  ASSUME NEW s, NEW r, NEW n, NEW m, NEW k,
         m <= Len(r), Len(r) - m = Len(s) - n,
         \A i \in 1 .. Len(s) - n : r[i] = s[i],
         Len(s) - n \in Nat, Settled(s, n, k)
  PROVE  Settled(r, m, k)
<1>1. ASSUME NEW i \in 1 .. Len(r) - m
      PROVE  r[i].kind = "error" \/ (i = 1 /\ r[i].kind = "chunk")
  BY DEF Settled
<1>2. CASE Len(s) - n >= 1
  <2>1. r[1] = s[1]
    BY <1>2
  <2> QED
    BY <1>1, <2>1 DEF Settled
<1>3. CASE ~(Len(s) - n >= 1)
  BY <1>1, <1>3 DEF Settled
<1> QED
  BY <1>2, <1>3

(* What the native calls do to a settled stack. *)
LEMMA SettledPush ==
  ASSUME NEW s \in Seq(Slot), NEW x \in Slot, NEW n \in Nat, NEW k \in Nat,
         Settled(s, n, k)
  PROVE  Settled(Append(s, x), n + 1, k)
<1> DEFINE r == Append(s, x)
<1>1. Len(r) = Len(s) + 1 /\ Len(s) \in Nat
  OBVIOUS
<1>2. \A i \in 1 .. Len(s) : r[i] = s[i]
  OBVIOUS
<1>3. n <= Len(s)
  BY DEF Settled
<1> HIDE DEF r
<1>4. Len(r) - (n + 1) = Len(s) - n /\ n + 1 <= Len(r) /\ Len(s) - n \in Nat
  BY <1>1, <1>3
<1>5. \A i \in 1 .. Len(s) - n : r[i] = s[i]
  BY <1>1, <1>2
<1>6. Settled(r, n + 1, k)
  BY <1>4, <1>5, SettledSame
<1> QED
  BY <1>6 DEF r

LEMMA SettledLower ==
  ASSUME NEW s \in Seq(Slot), NEW n \in Nat, NEW k \in Nat, Settled(s, n, k)
  PROVE  /\ SubSeq(s, 1, Len(s) - n) \in Seq(Slot)
         /\ Settled(SubSeq(s, 1, Len(s) - n), 0, k)
<1> DEFINE r == SubSeq(s, 1, Len(s) - n)
<1>1. Len(s) \in Nat /\ Len(s) - n \in Nat
  BY DEF Settled
<1>2. r \in Seq(Slot)
  BY LowerType
<1>3. Len(r) = Len(s) - n
  BY <1>1, SubSeqProperties
<1>4. \A i \in 1 .. Len(s) - n : r[i] = s[i]
  BY <1>1, <1>3, SubSeqProperties
<1> HIDE DEF r
<1>5. 0 <= Len(r) /\ Len(r) - 0 = Len(s) - n
  BY <1>1, <1>3
<1>6. Settled(r, 0, k)
  BY <1>1, <1>4, <1>5, SettledSame
<1> QED
  BY <1>2, <1>6 DEF r

(* An error message on a stack whose call owns nothing else is one more. *)
LEMMA SettledError ==
  ASSUME NEW s \in Seq(Slot), NEW x \in Slot, NEW k \in Nat,
         x.kind = "error", Settled(s, 0, k)
  PROVE  Settled(Append(s, x), 0, k + 1)
<1> DEFINE r == Append(s, x)
<1>1. Len(r) = Len(s) + 1 /\ Len(s) \in Nat
  OBVIOUS
<1>2. \A i \in 1 .. Len(s) : r[i] = s[i]
  OBVIOUS
<1>3. r[Len(s) + 1] = x
  OBVIOUS
<1> HIDE DEF r
<1>4. ASSUME NEW i \in 1 .. Len(r) - 0
      PROVE  r[i].kind = "error" \/ (i = 1 /\ r[i].kind = "chunk")
  <2>1. CASE i = Len(s) + 1
    BY <1>3, <2>1
  <2>2. CASE i # Len(s) + 1
    <3>1. i \in 1 .. Len(s) - 0 /\ i \in 1 .. Len(s)
      BY <1>1, <2>2
    <3>2. s[i].kind = "error" \/ (i = 1 /\ s[i].kind = "chunk")
      BY <3>1 DEF Settled
    <3>3. r[i] = s[i]
      BY <1>2, <3>1
    <3> QED
      BY <3>2, <3>3
  <2> QED
    BY <2>1, <2>2
<1>5. Len(s) - 0 = k + IF Len(s) - 0 >= 1 /\ s[1].kind = "chunk" THEN 1 ELSE 0
  BY DEF Settled
<1>6. CASE Len(s) = 0
  <2>1. r[1].kind = "error" /\ Len(r) = 1 /\ k = 0
    BY <1>1, <1>3, <1>5, <1>6
  <2> QED
    BY <1>4, <2>1 DEF Settled, r
<1>7. CASE Len(s) # 0
  <2>1. r[1] = s[1] /\ Len(s) >= 1
    BY <1>1, <1>2, <1>7
  <2>2. Len(r) - 0 = (k + 1) + IF Len(r) - 0 >= 1 /\ r[1].kind = "chunk" THEN 1 ELSE 0
    BY <1>1, <1>5, <2>1
  <2>3. 0 <= Len(r)
    BY <1>1
  <2>4. Settled(r, 0, k + 1)
    BY <1>4, <2>2, <2>3 DEF Settled
  <2> QED
    BY <2>4 DEF r
<1> QED
  BY <1>6, <1>7

LEMMA SettledFirst ==
  /\ Settled(<< >>, 0, 0)
  /\ \A x \in Slot : x.kind = "chunk" => Settled(Append(<< >>, x), 0, 0)
<1>1. Settled(<< >>, 0, 0)
  BY DEF Settled
<1>2. ASSUME NEW x \in Slot, x.kind = "chunk"
      PROVE  Settled(Append(<< >>, x), 0, 0)
  <2>1. Append(<< >>, x) = <<x>> /\ Len(<<x>>) = 1 /\ <<x>>[1] = x
    OBVIOUS
  <2> QED
    BY <1>2, <2>1 DEF Settled
<1> QED
  BY <1>1, <1>2

(* The thread inside the monitor is the only one that has a LuaState. *)
LEMMA Sole ==
  ASSUME IInv, NEW t \in Thread, pc[t] \in Inside
  PROVE  \A u \in Thread : u # t => pc[u] \notin Inside /\ state[u] = NoState
<1>1. \A u \in Thread : u # t => pc[u] \notin Inside
  BY DEF IInv, MonitorInv
<1>2. HoldsState \subseteq Inside
  BY DEF HoldsState, Inside, InNative, Labels
<1> QED
  BY <1>1, <1>2 DEF IInv, LocalsInv

(* A native call of t: its machine stays settled under the slots that the  *)
(* call owns then, and t lets the machine go only when it owns none.       *)
LEMMA MachineStep ==
  ASSUME IInv, AccountInv, NEW t \in Thread, pc[t] \in InNative,
         \A u \in Thread : u # t => pc'[u] = pc[u] /\ state'[u] = state[u],
         \A x \in Obj : x # state[t] =>
           stack'[x] = stack[x] /\ failures'[x] = failures[x] /\ vm'[x] = vm[x],
         vm'[state[t]] \in {"ready", "broken"},
         pc'[t] \in Owning => state'[t] = state[t],
         (vm'[state[t]] = "ready" \/ pc'[t] \in Owning) =>
           Settled(stack'[state[t]], Own(pc'[t]), failures'[state[t]])
  PROVE  AccountInv'
<1>1. pc[t] \in Inside /\ state[t] \in Obj
  BY Holds DEF IInv, InNative, Inside, HoldsState, Labels
<1>2. \A u \in Thread : u # t => pc[u] \notin Inside /\ state[u] = NoState
  BY <1>1, Sole
<1>3. Owning \subseteq Inside
  BY DEF Owning, Using, Inside, Labels
<1>4. FreshInv'
  BY DEF AccountInv, FreshInv, Fresh
<1>5. BusyInv'
  BY <1>2, <1>3 DEF BusyInv
<1>6. ASSUME NEW x \in Obj, vm'[x] = "ready", ~InUse(x)'
      PROVE  Settled(stack'[x], 0, failures'[x])
  <2>1. CASE x = state[t]
    <3>1. pc'[t] \notin Owning
      BY <1>6, <2>1 DEF InUse
    <3>2. Own(pc'[t]) = 0
      BY <3>1 DEF Own, Owning, Using
    <3> QED
      BY <1>6, <2>1, <3>2
  <2>2. CASE x # state[t]
    <3>1. ~InUse(x)
      BY <1>6, <2>2 DEF InUse
    <3> QED
      BY <1>6, <2>2, <3>1 DEF AccountInv, RestInv
  <2> QED
    BY <2>1, <2>2
<1>7. RestInv'
  BY <1>6 DEF RestInv
<1> QED
  BY <1>4, <1>5, <1>7 DEF AccountInv

(* Any other step: the stacks stay as they are, no machine starts or ends  *)
(* running a script, and no thread takes a machine or lets a ready one go. *)
LEMMA Undisturbed ==
  ASSUME AccountInv, UNCHANGED <<stack, failures>>,
         \A x \in Obj : vm'[x] # vm[x] => vm[x] \in Fresh /\ vm'[x] \in Fresh,
         \A x \in Obj : vm[x] = "ready" /\ ~InUse(x)' => ~InUse(x),
         \A u \in Thread : pc'[u] \in Owning =>
           pc[u] \in Owning /\ state'[u] = state[u] /\ Own(pc'[u]) = Own(pc[u])
  PROVE  AccountInv'
<1>1. FreshInv'
  BY DEF AccountInv, FreshInv
<1>2. RestInv'
  <2>1. "ready" \notin Fresh
    BY DEF Fresh
  <2> QED
    BY <2>1 DEF AccountInv, RestInv
<1>3. BusyInv'
  BY DEF AccountInv, BusyInv
<1> QED
  BY <1>1, <1>2, <1>3 DEF AccountInv

(* The machine that a call uses is the cached one, and it is ready. *)
LEMMA ReadyInUse ==
  ASSUME IInv, NEW t \in Thread, pc[t] \in Using
  PROVE  vm[state[t]] = "ready"
<1>1. /\ file[t] \in File /\ state[t] # NoState /\ state[t] = cache[file[t]]
      /\ pc[t] # "idle"
  BY DEF IInv, TypeOK, LocalsInv, UsingInv, Using, HoldsState, InNative
<1> QED
  BY <1>1 DEF IInv, CachedIsReady, ManagerReachable

(* createLuaState gives up before lua_open: its object is not a machine.   *)
LEMMA LetGo ==
  ASSUME IInv, AccountInv, UNCHANGED <<vm, stack, failures>>, NEW t \in Thread,
         pc[t] \in {"read", "decrypt"}, NEW l, pc' = [pc EXCEPT ![t] = l], l \notin Owning,
         state' = [state EXCEPT ![t] = NoState]
  PROVE  AccountInv'
<1>1. vm[state[t]] = "none"
  BY DEF IInv, LoadingInv, Loading
<1>2. \A x \in Obj : vm[x] = "ready" /\ ~InUse(x)' => ~InUse(x)
  BY <1>1 DEF InUse, IInv, TypeOK
<1>3. \A u \in Thread : pc'[u] \in Owning => u # t /\ pc[u] = pc'[u] /\ state'[u] = state[u]
  BY DEF IInv, TypeOK
<1> QED
  BY <1>2, <1>3, Undisturbed

(* The invariant is preserved. *)
LEMMA AccountStep == IInv /\ AccountInv /\ [Next]_vars => AccountInv'
<1> SUFFICES ASSUME IInv, AccountInv, [Next]_vars
             PROVE  AccountInv'
  OBVIOUS
<1> USE DEF monitorVars, localVars, managerVars, machineVars
<1>1. ASSUME NEW t \in Thread, NEW f \in File, Call(t, f)
      PROVE  AccountInv'
  BY <1>1, Undisturbed DEF Call, Goto, IInv, TypeOK, InUse, Owning, Using
<1>2. ASSUME NEW t \in Thread, EnterCall(t)
      PROVE  AccountInv'
  BY <1>2, Undisturbed DEF EnterCall, Goto, IInv, TypeOK, InUse, Owning, Using
<1>3. ASSUME NEW t \in Thread, InsideStep(t)
      PROVE  AccountInv'
  <2>0. /\ pc \in [Thread -> Labels] /\ state \in [Thread -> Obj \union {NoState}]
        /\ vm \in [Obj -> Machines] /\ stack \in [Obj -> Seq(Slot)]
        /\ failures \in [Obj -> Nat]
    BY DEF IInv, TypeOK
  <2>1. CASE CreateHit(t)
    <3> DEFINE o == cache[file[t]]
    <3>1. /\ pc[t] = "create" /\ pc' = [pc EXCEPT ![t] = "getGlobal"]
          /\ o # NoState /\ state' = [state EXCEPT ![t] = o]
          /\ UNCHANGED <<vm, stack, failures>>
      BY <2>1 DEF CreateHit, Goto
    <3>2. o \in Obj /\ file[t] \in File
      BY <3>1 DEF IInv, TypeOK, LocalsInv
    <3>3. vm[o] = "ready"
      BY <3>1, <3>2 DEF IInv, CachedIsReady, ManagerReachable
    <3> HIDE DEF o
    <3>4. state[t] = NoState /\ \A u \in Thread : u # t => state[u] = NoState /\ pc[u] \notin Inside
      BY <3>1, Sole DEF IInv, LocalsInv, HoldsState, InNative, Inside, Labels
    <3>5. ~InUse(o)
      BY <3>2, <3>4, ObjAssumption DEF InUse
    <3>6. Settled(stack[o], 0, failures[o]) /\ Own("getGlobal") = 0
      BY <3>2, <3>3, <3>5 DEF AccountInv, RestInv, Own
    <3>7. pc'[t] = "getGlobal" /\ state'[t] = o /\ \A u \in Thread : u # t => pc'[u] = pc[u]
      BY <2>0, <3>1
    <3>8. \A u \in Thread : u # t => pc'[u] \notin Owning
      BY <3>4, <3>7 DEF Owning, Using, Inside, Labels
    <3>9. BusyInv'
      BY <3>1, <3>6, <3>7, <3>8 DEF BusyInv
    <3>10. \A x \in Obj : ~InUse(x)' => ~InUse(x)
      BY <3>4, ObjAssumption DEF InUse
    <3> QED
      BY <3>1, <3>9, <3>10 DEF AccountInv, FreshInv, RestInv
  <2>2. CASE CreateMiss(t)
    <3>1. PICK o \in Obj : /\ vm[o] = "unborn" /\ vm' = [vm EXCEPT ![o] = "none"]
                           /\ state' = [state EXCEPT ![t] = o]
      BY <2>2 DEF CreateMiss
    <3>2. /\ pc[t] = "create" /\ pc' = [pc EXCEPT ![t] = "read"]
          /\ UNCHANGED <<stack, failures>>
      BY <2>2 DEF CreateMiss, Goto
    <3>3. state[t] = NoState
      BY <3>2 DEF IInv, LocalsInv, HoldsState, InNative
    <3>4. \A x \in Obj : ~InUse(x)' => ~InUse(x)
      BY <2>0, <3>1, <3>3, ObjAssumption DEF InUse
    <3>5. \A x \in Obj : vm'[x] # vm[x] => vm[x] \in Fresh /\ vm'[x] \in Fresh
      BY <2>0, <3>1 DEF Fresh
    <3>6. \A u \in Thread : u # t => pc'[u] = pc[u] /\ state'[u] = state[u]
      BY <2>0, <3>1, <3>2
    <3>7. pc'[t] \notin Owning
      BY <2>0, <3>2 DEF Owning, Using
    <3> QED
      BY <3>2, <3>4, <3>5, <3>6, <3>7, Undisturbed
  <2>3. CASE ReadThrows(t)
    <3>1. /\ pc[t] = "read" /\ pc' = [pc EXCEPT ![t] = "idle"]
          /\ state' = [state EXCEPT ![t] = NoState]
          /\ UNCHANGED <<vm, stack, failures>>
      BY <2>3 DEF ReadThrows, Goto
    <3>2. "idle" \notin Owning
      BY DEF Owning, Using
    <3> QED
      BY <3>1, <3>2, LetGo
  <2>4. CASE ReadEmpty(t)
    <3>1. /\ pc[t] = "read" /\ pc' = [pc EXCEPT ![t] = "noState"]
          /\ state' = [state EXCEPT ![t] = NoState]
          /\ UNCHANGED <<vm, stack, failures>>
      BY <2>4 DEF ReadEmpty, GiveUp, Goto
    <3>2. "noState" \notin Owning
      BY DEF Owning, Using
    <3> QED
      BY <3>1, <3>2, LetGo
  <2>5. CASE ReadAsset(t)
    BY <2>5, <2>0, Undisturbed DEF ReadAsset, Goto, InUse, Owning, Using
  <2>6. CASE CheckKey(t)
    BY <2>6, <2>0, Undisturbed DEF CheckKey, Goto, InUse, Owning, Using
  <2>7. CASE Decrypt(t)
    <3>1. UNCHANGED <<vm, stack, failures>> /\ pc[t] = "decrypt"
      BY <2>7 DEF Decrypt
    <3>2. CASE GiveUp(t, "decrypt")
      <4>1. "noState" \notin Owning
        BY DEF Owning, Using
      <4> QED
        BY <3>1, <3>2, <4>1, LetGo DEF GiveUp, Goto
    <3>3. CASE Goto(t, "decrypt", "open") /\ UNCHANGED state
      BY <2>0, <3>1, <3>3, Undisturbed DEF Goto, InUse, Owning, Using
    <3> QED
      BY <2>7, <3>2, <3>3 DEF Decrypt
  <2>8. CASE Open(t)
    <3>1. /\ pc[t] = "open" /\ pc' = [pc EXCEPT ![t] = "doString"]
          /\ vm' = [vm EXCEPT ![state[t]] = "open"]
          /\ UNCHANGED <<state, stack, failures>>
      BY <2>8 DEF Open, Goto
    <3>2. vm[state[t]] = "none"
      BY <3>1 DEF IInv, LoadingInv, Loading
    <3>3. \A x \in Obj : vm'[x] # vm[x] => vm[x] \in Fresh /\ vm'[x] \in Fresh
      BY <2>0, <3>1, <3>2 DEF Fresh
    <3> QED
      BY <2>0, <3>1, <3>3, Undisturbed DEF InUse, Owning, Using
  <2>9. CASE DoStringOK(t)
    <3>1. /\ pc[t] = "doString" /\ pc' = [pc EXCEPT ![t] = "put"]
          /\ vm' = [vm EXCEPT ![state[t]] = "ready"]
          /\ UNCHANGED <<state, failures>>
          /\ UNCHANGED stack \/ Push(state[t], "chunk", t)
      BY <2>9 DEF DoStringOK, Goto
    <3>2. state[t] \in Obj /\ pc[t] \in InNative
      BY <3>1, Holds DEF IInv, InNative, HoldsState
    <3>3. vm[state[t]] = "open"
      BY <3>1 DEF IInv, LoadingInv, Loading
    <3>4. stack[state[t]] = << >> /\ failures[state[t]] = 0
      BY <3>2, <3>3 DEF AccountInv, FreshInv, Fresh
    <3>5. [kind |-> "chunk", by |-> t] \in Slot
      BY DEF Slot, SlotKinds
    <3>6. stack'[state[t]] \in {<< >>, Append(<< >>, [kind |-> "chunk", by |-> t])}
      BY <2>0, <3>1, <3>2, <3>4 DEF Push
    <3>7. Settled(stack'[state[t]], 0, 0)
      BY <3>5, <3>6, SettledFirst
    <3>8. Own("put") = 0
      BY DEF Own
    <3>9. /\ pc'[t] = "put" /\ state'[t] = state[t]
          /\ \A u \in Thread : u # t => pc'[u] = pc[u] /\ state'[u] = state[u]
          /\ vm'[state[t]] = "ready" /\ failures'[state[t]] = 0
      BY <2>0, <3>1, <3>2, <3>4
    <3>10. \A x \in Obj : x # state[t] =>
             stack'[x] = stack[x] /\ failures'[x] = failures[x] /\ vm'[x] = vm[x]
      BY <2>0, <3>1 DEF Push
    <3>11. Settled(stack'[state[t]], Own(pc'[t]), failures'[state[t]])
      BY <3>7, <3>8, <3>9
    <3> QED
      BY <3>2, <3>9, <3>10, <3>11, MachineStep
  <2>10. CASE DoStringFails(t)
    <3>1. /\ pc[t] = "doString" /\ pc' = [pc EXCEPT ![t] = "noState"]
          /\ vm' = [vm EXCEPT ![state[t]] = "broken"]
          /\ state' = [state EXCEPT ![t] = NoState]
          /\ UNCHANGED failures /\ Push(state[t], "error", t)
      BY <2>10 DEF DoStringFails, GiveUp, Goto
    <3>2. state[t] \in Obj /\ pc[t] \in InNative
      BY <3>1, Holds DEF IInv, InNative, HoldsState
    <3>3. /\ pc'[t] \notin Owning /\ vm'[state[t]] = "broken"
          /\ \A u \in Thread : u # t => pc'[u] = pc[u] /\ state'[u] = state[u]
      BY <2>0, <3>1, <3>2 DEF Owning, Using
    <3>4. \A x \in Obj : x # state[t] =>
            stack'[x] = stack[x] /\ failures'[x] = failures[x] /\ vm'[x] = vm[x]
      BY <2>0, <3>1 DEF Push
    <3> QED
      BY <3>2, <3>3, <3>4, MachineStep
  <2>11. CASE Put(t)
    BY <2>11, <2>0, Undisturbed DEF Put, Goto, InUse, Owning, Using, Own
  <2>12. CASE NoLuaState(t)
    BY <2>12, <2>0, Undisturbed DEF NoLuaState, Goto, InUse, Owning, Using
  <2>13. CASE GetGlobal(t)
    <3>1. /\ pc[t] = "getGlobal" /\ pc' = [pc EXCEPT ![t] = "pushString"]
          /\ UNCHANGED state /\ UNCHANGED vm /\ UNCHANGED failures
      BY <2>13 DEF GetGlobal, Goto
    <3> DEFINE s == stack[state[t]]
               k == failures[state[t]]
    <3>2. /\ state[t] \in Obj /\ pc[t] \in InNative /\ pc[t] \in Using
          /\ s \in Seq(Slot) /\ k \in Nat /\ Own("getGlobal") = 0 /\ Own("pushString") = 1
      BY <2>0, <3>1, Holds DEF IInv, InNative, HoldsState, Using, Own
    <3>3. vm[state[t]] = "ready"
      BY <3>2, ReadyInUse
    <3>4. Settled(s, 0, k)
      BY <3>1, <3>2 DEF AccountInv, BusyInv, Owning
    <3>5. /\ [kind |-> "function", by |-> t] \in Slot
          /\ stack'[state[t]] = Append(s, [kind |-> "function", by |-> t])
          /\ failures'[state[t]] = k
      BY <2>0, <2>13, <3>1, <3>2 DEF GetGlobal, Push, Slot, SlotKinds
    <3>6. Settled(stack'[state[t]], 1, failures'[state[t]])
      <4>1. Settled(Append(s, [kind |-> "function", by |-> t]), 0 + 1, k)
        BY <3>2, <3>4, <3>5, SettledPush
      <4> QED
        BY <3>5, <4>1
    <3>7. /\ pc'[t] = "pushString" /\ vm'[state[t]] = "ready" /\ state'[t] = state[t]
          /\ \A u \in Thread : u # t => pc'[u] = pc[u] /\ state'[u] = state[u]
      BY <2>0, <3>1, <3>3
    <3>8. \A x \in Obj : x # state[t] =>
            stack'[x] = stack[x] /\ failures'[x] = failures[x] /\ vm'[x] = vm[x]
      BY <2>0, <2>13, <3>1 DEF GetGlobal, Push
    <3>9. Settled(stack'[state[t]], Own(pc'[t]), failures'[state[t]])
      BY <3>2, <3>6, <3>7
    <3> QED
      BY <3>2, <3>7, <3>8, <3>9, MachineStep
  <2>14. CASE PushString(t)
    <3>1. /\ pc[t] = "pushString" /\ pc' = [pc EXCEPT ![t] = "pcall"]
          /\ UNCHANGED state /\ UNCHANGED vm /\ UNCHANGED failures
      BY <2>14 DEF PushString, Goto
    <3> DEFINE s == stack[state[t]]
               k == failures[state[t]]
    <3>2. /\ state[t] \in Obj /\ pc[t] \in InNative /\ pc[t] \in Using
          /\ s \in Seq(Slot) /\ k \in Nat /\ Own("pushString") = 1 /\ Own("pcall") = 2
      BY <2>0, <3>1, Holds DEF IInv, InNative, HoldsState, Using, Own
    <3>3. vm[state[t]] = "ready"
      BY <3>2, ReadyInUse
    <3>4. Settled(s, 1, k)
      BY <3>1, <3>2 DEF AccountInv, BusyInv, Owning
    <3>5. /\ [kind |-> "argument", by |-> t] \in Slot
          /\ stack'[state[t]] = Append(s, [kind |-> "argument", by |-> t])
          /\ failures'[state[t]] = k
      BY <2>0, <2>14, <3>1, <3>2 DEF PushString, Push, Slot, SlotKinds
    <3>6. Settled(stack'[state[t]], 2, failures'[state[t]])
      <4>1. Settled(Append(s, [kind |-> "argument", by |-> t]), 1 + 1, k)
        BY <3>2, <3>4, <3>5, SettledPush
      <4> QED
        BY <3>5, <4>1
    <3>7. /\ pc'[t] = "pcall" /\ vm'[state[t]] = "ready" /\ state'[t] = state[t]
          /\ \A u \in Thread : u # t => pc'[u] = pc[u] /\ state'[u] = state[u]
      BY <2>0, <3>1, <3>3
    <3>8. \A x \in Obj : x # state[t] =>
            stack'[x] = stack[x] /\ failures'[x] = failures[x] /\ vm'[x] = vm[x]
      BY <2>0, <2>14, <3>1 DEF PushString, Push
    <3>9. Settled(stack'[state[t]], Own(pc'[t]), failures'[state[t]])
      BY <3>2, <3>6, <3>7
    <3> QED
      BY <3>2, <3>7, <3>8, <3>9, MachineStep
  <2>15. CASE PcallOK(t)
    <3>1. /\ pc[t] = "pcall" /\ pc' = [pc EXCEPT ![t] = "toString"]
          /\ UNCHANGED state /\ UNCHANGED vm /\ UNCHANGED failures
      BY <2>15 DEF PcallOK, Goto
    <3> DEFINE s == stack[state[t]]
               k == failures[state[t]]
    <3>2. /\ state[t] \in Obj /\ pc[t] \in InNative /\ pc[t] \in Using
          /\ s \in Seq(Slot) /\ k \in Nat /\ Own("pcall") = 2 /\ Own("toString") = 1
      BY <2>0, <3>1, Holds DEF IInv, InNative, HoldsState, Using, Own
    <3>3. vm[state[t]] = "ready"
      BY <3>2, ReadyInUse
    <3>4. Settled(s, 2, k)
      BY <3>1, <3>2 DEF AccountInv, BusyInv, Owning
    <3>5. PICK kind \in {"result", "nil"} : Returned(state[t], kind, t)
      BY <2>15 DEF PcallOK
    <3>6. Settled(stack'[state[t]], 1, failures'[state[t]])
      <4> DEFINE r == SubSeq(s, 1, Len(s) - 2)
      <4>1. r \in Seq(Slot) /\ Settled(r, 0, k)
        BY <3>2, <3>4, SettledLower
      <4>2. stack'[state[t]] = Append(r, [kind |-> kind, by |-> t])
        BY <2>0, <3>2, <3>5 DEF Returned
      <4>3. [kind |-> kind, by |-> t] \in Slot
        BY DEF Slot, SlotKinds
      <4> HIDE DEF r
      <4>4. Settled(Append(r, [kind |-> kind, by |-> t]), 0 + 1, k)
        BY <3>2, <4>1, <4>3, SettledPush
      <4> QED
        BY <3>1, <4>2, <4>4
    <3>7. /\ pc'[t] = "toString" /\ vm'[state[t]] = "ready" /\ state'[t] = state[t]
          /\ \A u \in Thread : u # t => pc'[u] = pc[u] /\ state'[u] = state[u]
      BY <2>0, <3>1, <3>3
    <3>8. \A x \in Obj : x # state[t] =>
            stack'[x] = stack[x] /\ failures'[x] = failures[x] /\ vm'[x] = vm[x]
      BY <2>0, <2>15, <3>1 DEF PcallOK, Returned
    <3>9. Settled(stack'[state[t]], Own(pc'[t]), failures'[state[t]])
      BY <3>2, <3>6, <3>7
    <3> QED
      BY <3>2, <3>7, <3>8, <3>9, MachineStep
  <2>16. CASE PcallFails(t)
    <3>1. /\ pc[t] = "pcall" /\ pc' = [pc EXCEPT ![t] = "dump"]
          /\ UNCHANGED state /\ UNCHANGED vm
      BY <2>16 DEF PcallFails, Goto
    <3> DEFINE s == stack[state[t]]
               k == failures[state[t]]
    <3>2. /\ state[t] \in Obj /\ pc[t] \in InNative /\ pc[t] \in Using
          /\ s \in Seq(Slot) /\ k \in Nat /\ Own("pcall") = 2 /\ Own("dump") = 0
      BY <2>0, <3>1, Holds DEF IInv, InNative, HoldsState, Using, Own
    <3>3. vm[state[t]] = "ready"
      BY <3>2, ReadyInUse
    <3>4. Settled(s, 2, k)
      BY <3>1, <3>2 DEF AccountInv, BusyInv, Owning
    <3>5. Returned(state[t], "error", t) /\ failures'[state[t]] = k + 1
      BY <2>0, <2>16, <3>2 DEF PcallFails
    <3>6. Settled(stack'[state[t]], 0, failures'[state[t]])
      <4> DEFINE r == SubSeq(s, 1, Len(s) - 2)
      <4>1. r \in Seq(Slot) /\ Settled(r, 0, k)
        BY <3>2, <3>4, SettledLower
      <4>2. stack'[state[t]] = Append(r, [kind |-> "error", by |-> t])
        BY <2>0, <3>2, <3>5 DEF Returned
      <4>3. [kind |-> "error", by |-> t] \in Slot
        BY DEF Slot, SlotKinds
      <4> HIDE DEF r
      <4>4. Settled(Append(r, [kind |-> "error", by |-> t]), 0, k + 1)
        BY <3>2, <4>1, <4>3, SettledError
      <4> QED
        BY <3>5, <4>2, <4>4
    <3>7. /\ pc'[t] = "dump" /\ vm'[state[t]] = "ready" /\ state'[t] = state[t]
          /\ \A u \in Thread : u # t => pc'[u] = pc[u] /\ state'[u] = state[u]
      BY <2>0, <3>1, <3>3
    <3>8. \A x \in Obj : x # state[t] =>
            stack'[x] = stack[x] /\ failures'[x] = failures[x] /\ vm'[x] = vm[x]
      BY <2>0, <2>16, <3>1 DEF PcallFails, Returned
    <3>9. Settled(stack'[state[t]], Own(pc'[t]), failures'[state[t]])
      BY <3>2, <3>6, <3>7
    <3> QED
      BY <3>2, <3>7, <3>8, <3>9, MachineStep
  <2>17. CASE ReadString(t)
    BY <2>17, <2>0, Undisturbed DEF ReadString, Goto, InUse, Owning, Using, Own
  <2>18. CASE Pop(t)
    <3>1. /\ pc[t] = "pop" /\ pc' = [pc EXCEPT ![t] = "exit"]
          /\ state' = [state EXCEPT ![t] = NoState] /\ UNCHANGED vm /\ UNCHANGED failures
      BY <2>18 DEF Pop, Goto
    <3> DEFINE s == stack[state[t]]
               k == failures[state[t]]
    <3>2. /\ state[t] \in Obj /\ pc[t] \in InNative /\ pc[t] \in Using
          /\ s \in Seq(Slot) /\ k \in Nat /\ Own("pop") = 1 /\ Own("exit") = 0
      BY <2>0, <3>1, Holds DEF IInv, InNative, HoldsState, Using, Own
    <3>3. vm[state[t]] = "ready"
      BY <3>2, ReadyInUse
    <3>4. Settled(s, 1, k)
      BY <3>1, <3>2 DEF AccountInv, BusyInv, Owning
    <3>5. stack'[state[t]] = SubSeq(s, 1, Len(s) - 1) /\ failures'[state[t]] = k
      BY <2>0, <2>18, <3>1, <3>2 DEF Pop, Popped
    <3>6. Settled(stack'[state[t]], 0, failures'[state[t]])
      BY <3>2, <3>4, <3>5, SettledLower
    <3>7. /\ pc'[t] = "exit" /\ vm'[state[t]] = "ready" /\ pc'[t] \notin Owning
          /\ \A u \in Thread : u # t => pc'[u] = pc[u] /\ state'[u] = state[u]
      BY <2>0, <3>1, <3>3 DEF Owning, Using
    <3>8. \A x \in Obj : x # state[t] =>
            stack'[x] = stack[x] /\ failures'[x] = failures[x] /\ vm'[x] = vm[x]
      BY <2>0, <2>18, <3>1 DEF Pop
    <3>9. Settled(stack'[state[t]], Own(pc'[t]), failures'[state[t]])
      BY <3>2, <3>6, <3>7
    <3> QED
      BY <3>2, <3>7, <3>8, <3>9, MachineStep
  <2>19. CASE DumpStack(t)
    <3>1. /\ pc[t] = "dump" /\ pc' = [pc EXCEPT ![t] = "exit"]
          /\ state' = [state EXCEPT ![t] = NoState] /\ UNCHANGED vm /\ UNCHANGED failures
      BY <2>19 DEF DumpStack, Goto
    <3> DEFINE s == stack[state[t]]
               k == failures[state[t]]
    <3>2. /\ state[t] \in Obj /\ pc[t] \in InNative /\ pc[t] \in Using
          /\ s \in Seq(Slot) /\ k \in Nat /\ Own("dump") = 0 /\ Own("exit") = 0
      BY <2>0, <3>1, Holds DEF IInv, InNative, HoldsState, Using, Own
    <3>3. vm[state[t]] = "ready"
      BY <3>2, ReadyInUse
    <3>4. Settled(s, 0, k)
      BY <3>1, <3>2 DEF AccountInv, BusyInv, Owning
    <3>5. UNCHANGED stack
      BY <2>19 DEF DumpStack
    <3>6. Settled(stack'[state[t]], 0, failures'[state[t]])
      BY <3>1, <3>4, <3>5
    <3>7. /\ pc'[t] = "exit" /\ vm'[state[t]] = "ready" /\ pc'[t] \notin Owning
          /\ \A u \in Thread : u # t => pc'[u] = pc[u] /\ state'[u] = state[u]
      BY <2>0, <3>1, <3>3 DEF Owning, Using
    <3>8. \A x \in Obj : x # state[t] =>
            stack'[x] = stack[x] /\ failures'[x] = failures[x] /\ vm'[x] = vm[x]
      BY <2>0, <2>19, <3>1 DEF DumpStack
    <3>9. Settled(stack'[state[t]], Own(pc'[t]), failures'[state[t]])
      BY <3>2, <3>6, <3>7
    <3> QED
      BY <3>2, <3>7, <3>8, <3>9, MachineStep
  <2>20. CASE Exit(t)
    BY <2>20, <2>0, Undisturbed DEF Exit, Goto, InUse, Owning, Using
  <2> QED
    BY <1>3, <2>1, <2>2, <2>3, <2>4, <2>5, <2>6, <2>7, <2>8, <2>9, <2>10,
       <2>11, <2>12, <2>13, <2>14, <2>15, <2>16, <2>17, <2>18, <2>19, <2>20 DEF InsideStep
<1>4. ASSUME NEW k \in Key \union {NoKey}, SetDataKey(k)
      PROVE  AccountInv'
  BY <1>4, Undisturbed DEF SetDataKey, InUse
<1>5. ASSUME NEW o \in Obj, Finalize(o)
      PROVE  AccountInv'
  <2>1. /\ UNCHANGED <<pc, state>>
        /\ vm' = [vm EXCEPT ![o] = "closed"]
        /\ stack' = [stack EXCEPT ![o] = << >>]
        /\ failures' = [failures EXCEPT ![o] = 0]
    BY <1>5 DEF Finalize
  <2>2. \A t \in Thread : state[t] # o
    BY <1>5 DEF Finalize, Reachable
  <2>3. vm'[o] = "closed" /\ \A x \in Obj : x # o =>
          vm'[x] = vm[x] /\ stack'[x] = stack[x] /\ failures'[x] = failures[x]
    BY <2>1 DEF IInv, TypeOK
  <2>4. \A x \in Obj : vm'[x] \in Fresh \union {"ready"} => x # o
    BY <2>3 DEF Fresh
  <2>5. FreshInv'
    BY <2>3, <2>4 DEF AccountInv, FreshInv
  <2>6. RestInv'
    BY <2>1, <2>3, <2>4 DEF AccountInv, RestInv, InUse
  <2>7. BusyInv'
    <3>1. \A t \in Thread : pc[t] \in Owning => state[t] \in Obj
      BY Holds DEF IInv, Owning, Using, HoldsState, InNative
    <3> QED
      BY <2>1, <2>2, <2>3, <3>1 DEF AccountInv, BusyInv
  <2> QED
    BY <2>5, <2>6, <2>7 DEF AccountInv
<1>6. CASE DropManager
  BY <1>6, Undisturbed DEF DropManager, InUse
<1>7. CASE NewManager
  BY <1>7, Undisturbed DEF NewManager, InUse
<1>8. CASE UNCHANGED vars
  BY <1>8, Undisturbed DEF vars, InUse
<1> QED
  BY <1>1, <1>2, <1>3, <1>4, <1>5, <1>6, <1>7, <1>8 DEF Next

(* Between two calls a machine's Lua stack holds what the chunk left and   *)
(* one message per call that failed: LuaManager's calls balance their      *)
(* pushes and pops on every path but the one of a failed pcall.            *)
THEOREM StacksAccounted == Spec => []StackAccounting
<1>1. Init => AccountInv
  BY SettledFirst DEF Init, AccountInv, FreshInv, RestInv, BusyInv, Owning, Using
<1>2. IInv /\ AccountInv => StackAccounting
  <2> SUFFICES ASSUME IInv, AccountInv, NEW o \in Obj, vm[o] = "ready", ~InUse(o)
               PROVE  LET chunks == {i \in DOMAIN stack[o] : stack[o][i].kind = "chunk"}
                      IN  /\ chunks \subseteq {1}
                          /\ \A i \in DOMAIN stack[o] \ chunks : stack[o][i].kind = "error"
                          /\ Len(stack[o]) = failures[o] + (IF chunks = {} THEN 0 ELSE 1)
    BY DEF StackAccounting
  <2> DEFINE s == stack[o]
             chunks == {i \in DOMAIN s : s[i].kind = "chunk"}
  <2>1. Settled(s, 0, failures[o]) /\ s \in Seq(Slot) /\ failures[o] \in Nat
    BY DEF IInv, TypeOK, AccountInv, RestInv
  <2> HIDE DEF s
  <2>2. Len(s) \in Nat /\ Len(s) - 0 = Len(s) /\ DOMAIN s = 1 .. Len(s)
    BY <2>1
  <2>3. \A i \in 1 .. Len(s) : s[i].kind = "error" \/ (i = 1 /\ s[i].kind = "chunk")
    BY <2>1, <2>2 DEF Settled
  <2>4. chunks \subseteq {1} /\ \A i \in DOMAIN s \ chunks : s[i].kind = "error"
    BY <2>2, <2>3
  <2>5. chunks = {} <=> ~(Len(s) >= 1 /\ s[1].kind = "chunk")
    BY <2>2, <2>3
  <2>6. Len(s) = failures[o] + (IF chunks = {} THEN 0 ELSE 1)
    BY <2>1, <2>2, <2>5 DEF Settled
  <2> QED
    BY <2>4, <2>6 DEF s
<1> QED
  BY <1>1, <1>2, Inductive, AccountStep, PTL DEF Spec
=============================================================================
