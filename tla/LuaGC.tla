-------------------------------- MODULE LuaGC --------------------------------
(***************************************************************************)
(* The incremental garbage collector of one Lua machine (lgc.c) and the    *)
(* program that runs between its steps: stacks, tables, userdata, strings, *)
(* closures, and the upvalues they share (lvm.c, lapi.c, lfunc.c,          *)
(* lstring.c).                                                             *)
(*                                                                         *)
(* A reference is a pair <<k, v>>.  In a table k is the key, an object or  *)
(* Index (the array part); elsewhere k is Index.  The slot an open upvalue *)
(* points to is kept in refs with the upvalue and belongs to the thread    *)
(* open[w] as well.  Function prototypes and C closures are left out: what *)
(* they refer to never changes, or is kept as a userdata's is.             *)
(***************************************************************************)
EXTENDS Naturals, FiniteSets

CONSTANTS
  Obj,          \* identities of objects, used again when an object is freed
  Kind,         \* Kind[o]: the type an object with identity o has
  Main,         \* the main thread
  Finalizable,  \* userdata whose metatable has __gc
  Nothing,      \* no object
  Index,        \* a key that is not collectable
  DebugLibrary, \* the program calls debug.setupvalue
  Modes,        \* the __mode values the program gives to tables
  MaxRefs,      \* bound of the model: entries of a table
  MaxStack      \* bound of the model: values the program keeps on a stack

Kinds == {"table", "closure", "udata", "string", "upval", "thread"}

OfKind(k) == {o \in Obj : Kind[o] = k}

ASSUME GCAssumption ==
  /\ Kind \in [Obj -> Kinds]
  /\ Main \in OfKind("thread")
  /\ Finalizable \subseteq OfKind("udata")
  /\ Nothing \notin Obj /\ Index \notin Obj
  /\ DebugLibrary \in BOOLEAN
  /\ Modes \subseteq {"strong", "k", "v", "kv"}
  /\ MaxRefs \in Nat /\ MaxStack \in Nat

VARIABLES
  color,     \* color[o]: its mark bits: "white" is the current white, "dead"
             \* the other one, "free" that o is not allocated
  refs,      \* refs[o]: what it refers to
  mode,      \* mode[o]: the __mode of a table's metatable
  open,      \* open[o]: the thread an open upvalue points into, or Nothing
  basic,     \* G(L)->mt, the metatables of basic types: a table or Nothing
  finalized, \* userdata with FINALIZEDBIT
  tmudata,   \* userdata waiting for their finalizer
  ran,       \* history: userdata whose finalizer has been called
  phase,     \* g->gcstate; atomic's stages are phases of their own
  gray, grayagain, weak, \* the lists of that name
  toSweep,   \* what is left of the list being swept
  full       \* how far luaC_fullgc has come, "no" outside it

gcVars == <<color, refs, mode, open, basic, finalized, tmudata, ran, phase,
            gray, grayagain, weak, toSweep, full>>

heapVars == <<refs, mode, open, basic>>
finalVars == <<finalized, tmudata, ran>>
listVars == <<gray, grayagain, weak>>
cycleVars == <<phase, toSweep, full>>

Whites == {"white", "dead"}

Alloc == {o \in Obj : color[o] # "free"}
Dead(o) == color[o] = "dead"
Weak(o) == Kind[o] = "table" /\ mode[o] # "strong"

(* A thread's stack has the slots its open upvalues point to; its table of *)
(* globals is taken for one more slot.                                     *)
Slots(o) == refs[o] \union UNION {refs[w] : w \in {w \in Obj : open[w] = o}}
Values(o) == {e[2] : e \in Slots(o)}
Keys(o) == {e[1] : e \in refs[o]} \ {Index}

Roots == {Main} \union ({basic} \ {Nothing})

GCInit ==
  /\ color = [o \in Obj |-> IF o = Main THEN "white" ELSE "free"]
  /\ refs = [o \in Obj |-> {}]
  /\ mode = [o \in Obj |-> "strong"]
  /\ open = [o \in Obj |-> Nothing]
  /\ basic = Nothing
  /\ finalized = {} /\ tmudata = {} /\ ran = {}
  /\ phase = "pause"
  /\ gray = {} /\ grayagain = {} /\ weak = {}
  /\ toSweep = {}
  /\ full = "no"

(***************************************************************************)
(* Marking.                                                                *)
(***************************************************************************)

(* reallymarkobject on the white ones of S, with colors c: it goes on      *)
(* through upvalues and userdata, and no further.                          *)
Marked(S, c) ==
  LET WhiteOf(T) == {o \in T : c[o] \in Whites}
      Through(T, k) == WhiteOf(UNION {Values(o) : o \in T \intersect OfKind(k)})
      first == WhiteOf(S)
      second == first \union Through(first, "upval")
  IN  second \union Through(second, "udata")

(* Userdata and closed upvalues become black at once; tables, closures and *)
(* threads are linked in the gray list.                                    *)
Painted(M, c) ==
  [o \in Obj |->
     IF o \notin M THEN c[o]
     ELSE IF Kind[o] = "udata" \/ (Kind[o] = "upval" /\ open[o] = Nothing)
     THEN "black" ELSE "gray"]

Listed(M) == {o \in M : Kind[o] \in {"table", "closure", "thread"}}

(* A thread that runs is the main one, or one it has on its stack. *)
Operands == Values(Main)
Threads == {Main} \union (Operands \intersect OfKind("thread"))

(* What traversing o marks: a weak table's weak side is left out. *)
Traversed(o) ==
  (IF Weak(o) /\ mode[o] # "k" THEN {} ELSE Values(o))
    \union (IF Weak(o) /\ mode[o] # "v" THEN {} ELSE Keys(o))

MarkRoot(c) == Marked(Roots, c)

StartCycle ==
  /\ \/ phase = "pause" /\ full = "no" /\ UNCHANGED full
     \/ phase = "finalize" /\ full = "sweeping" /\ full' = "marking"
  /\ phase' = "propagate"
  /\ color' = Painted(MarkRoot(color), color)
  /\ gray' = Listed(MarkRoot(color))
  /\ grayagain' = {} /\ weak' = {}
  /\ UNCHANGED <<heapVars, finalVars, toSweep>>

Stages == {"upvals", "weaks", "again", "preserve"}

(* Threads stay gray, to be traversed again, and weak tables, to be cleared. *)
Again(o) == IF Kind[o] = "thread" THEN {o} ELSE {}
StaysGray(o) == Kind[o] = "thread" \/ Weak(o)

PropagateMark(o) ==
  LET c == [color EXCEPT ![o] = IF StaysGray(o) THEN "gray" ELSE "black"]
      marked == Marked(Traversed(o), c)
  IN  /\ phase \in {"propagate"} \union Stages
      /\ o \in gray
      /\ color' = Painted(marked, c)
      /\ gray' = (gray \ {o}) \union Listed(marked)
      /\ grayagain' = grayagain \union Again(o)
      /\ weak' = IF Weak(o) THEN weak \union {o} ELSE weak
      /\ UNCHANGED <<heapVars, finalVars, cycleVars>>

(***************************************************************************)
(* atomic: no step of the program falls between its stages, each of which  *)
(* ends with propagateall.                                                 *)
(***************************************************************************)
Stage(from, to) ==
  /\ phase = from
  /\ gray = {}
  /\ phase' = to

(* Upvalues of threads that may be dead: their stacks may not be marked. *)
RemarkUpvals_None == {}
RemarkUpvals ==
  UNION {Values(w) : w \in {w \in Obj : open[w] # Nothing /\ color[w] = "gray"}}

AtomicUpvals ==
  /\ Stage("propagate", "upvals")
  /\ color' = Painted(Marked(RemarkUpvals, color), color)
  /\ gray' = Listed(Marked(RemarkUpvals, color))
  /\ UNCHANGED <<heapVars, finalVars, grayagain, weak, toSweep, full>>

(* The running thread, and the metatables of basic types again. *)
AtomicWeak(th) ==
  /\ Stage("upvals", "weaks")
  /\ color' = Painted(Marked(Roots \union {th}, color), color)
  /\ gray' = weak \union Listed(Marked(Roots \union {th}, color))
  /\ weak' = {}
  /\ UNCHANGED <<heapVars, finalVars, grayagain, toSweep, full>>

AtomicAgain ==
  /\ Stage("weaks", "again")
  /\ gray' = grayagain
  /\ grayagain' = {}
  /\ UNCHANGED <<color, heapVars, finalVars, weak, toSweep, full>>

(* luaC_separateudata: the dead userdata that are not marked finalized. *)
Separated_Dead == {u \in OfKind("udata") : Dead(u) /\ u \notin finalized}
Separated == {u \in OfKind("udata") : color[u] \in Whites /\ u \notin finalized}

(* marktmu: what a finalizer can reach is kept.  Userdata that an earlier  *)
(* collection left in the list are marked again.                           *)
MarkTmu(T) == [o \in Obj |-> IF o \in T THEN "white" ELSE color[o]]

AtomicUserdata ==
  /\ Stage("again", "preserve")
  /\ finalized' = finalized \union Separated
  /\ tmudata' = tmudata \union (Separated \intersect Finalizable)
  /\ LET c == MarkTmu(tmudata')
     IN  /\ color' = Painted(Marked(tmudata', c), c)
         /\ gray' = Listed(Marked(tmudata', c))
  /\ UNCHANGED <<heapVars, ran, grayagain, weak, toSweep, full>>

(* cleartable: strings are values and never cleared; a userdata that is    *)
(* being finalized stays as a key and goes as a value.                     *)
ClearedKey(k) == k # Index /\ Kind[k] # "string" /\ color[k] \in Whites
ClearedValue_Strings(v) == color[v] \in Whites \/ v \in finalized
ClearedValue(v) ==
  /\ Kind[v] # "string"
  /\ color[v] \in Whites \/ v \in finalized

Cleared(t) ==
  {e \in refs[t] : IF e[1] = Index THEN mode[t] # "k" /\ ClearedValue(e[2])
                   ELSE ClearedKey(e[1]) \/ ClearedValue(e[2])}

(* iscleared marks the strings it is asked about: keys, even of an entry   *)
(* that goes because of its value, and values unless the key is gone.      *)
KeptStrings ==
  {s \in OfKind("string") :
     \E t \in weak : \E e \in refs[t] :
        s = e[1] \/ (s = e[2] /\ ~ClearedKey(e[1]))}

(* The flip of the current white condemns what is white. *)
Flipped_Not(c) == c
Flipped(c) == IF c = "white" THEN "dead" ELSE IF c = "dead" THEN "white" ELSE c

(* What stays in the lists is not read before markroot empties them. *)
AtomicClear ==
  /\ Stage("preserve", "sweepstring")
  /\ refs' = [o \in Obj |-> IF o \in weak THEN refs[o] \ Cleared(o) ELSE refs[o]]
  /\ color' = [o \in Obj |-> IF o \in KeptStrings THEN "gray"
                              ELSE Flipped(color[o])]
  /\ toSweep' = OfKind("string") \intersect Alloc
  /\ gray' = {} /\ grayagain' = {} /\ weak' = {}
  /\ UNCHANGED <<mode, open, basic, finalVars, full>>

(***************************************************************************)
(* Sweeping.  The list is swept in parts of GCSWEEPMAX objects, here one.  *)
(***************************************************************************)

(* A dead thread's upvalues that closures still use are closed; a dead     *)
(* upvalue leaves its slot to its thread.                                  *)
SweptUpvals(o) == {w \in Obj : open[w] = o}

Sweep(o) ==
  LET swept == {o} \union SweptUpvals(o)
      freed == {x \in swept : Dead(x)}
      Slot(w) == IF open[w] = o THEN refs[w] ELSE {}
  IN  /\ phase \in {"sweepstring", "sweep"}
      /\ o \in toSweep
      /\ toSweep' = toSweep \ {o}
      /\ color' = [x \in Obj |-> IF x \in freed THEN "free"
                                 ELSE IF x \in swept THEN "white" ELSE color[x]]
      /\ refs' = [x \in Obj |->
                    IF x \in freed THEN {}
                    ELSE IF x = o THEN refs[o] \union UNION {Slot(w) : w \in freed}
                    ELSE refs[x]]
      /\ open' = [x \in Obj |-> IF x \in freed \/ (open[x] = o /\ o \in freed)
                                THEN Nothing ELSE open[x]]
      /\ mode' = [mode EXCEPT ![o] = IF o \in freed THEN "strong" ELSE @]
      /\ finalized' = finalized \ freed
      /\ ran' = ran \ freed
      /\ UNCHANGED <<basic, tmudata, listVars, phase, full>>

(* Open upvalues are in their threads' lists, and userdata that wait for   *)
(* their finalizers in tmudata.                                            *)
SweepList ==
  {o \in Alloc \ tmudata : Kind[o] # "string" /\ open[o] = Nothing}

SweepStringsDone ==
  /\ phase = "sweepstring"
  /\ toSweep = {}
  /\ phase' = "sweep"
  /\ toSweep' = SweepList
  /\ UNCHANGED <<color, heapVars, finalVars, listVars, full>>

SweepDone ==
  /\ phase = "sweep"
  /\ toSweep = {}
  /\ phase' = "finalize"
  /\ UNCHANGED <<color, heapVars, finalVars, listVars, toSweep, full>>

(***************************************************************************)
(* Finalizing.  A finalizer is the program: it gets its userdata on the    *)
(* stack of the thread that runs.                                          *)
(***************************************************************************)
GCTM(u, th) ==
  /\ phase = "finalize" /\ full # "sweeping"
  /\ u \in tmudata
  /\ tmudata' = tmudata \ {u}
  /\ color' = [color EXCEPT ![u] = "white"]
  /\ refs' = [refs EXCEPT ![th] = @ \union {<<Index, u>>}]
  /\ ran' = ran \union {u}
  /\ full' = "no"
  /\ UNCHANGED <<mode, open, basic, finalized, listVars, phase, toSweep>>

EndCycle ==
  /\ phase = "finalize" /\ full # "sweeping"
  /\ tmudata = {}
  /\ phase' = "pause"
  /\ full' = "no"
  /\ UNCHANGED <<color, heapVars, finalVars, listVars, toSweep>>

(***************************************************************************)
(* The program runs between steps, and not inside luaC_fullgc before the   *)
(* first finalizer.                                                        *)
(***************************************************************************)
Running == full = "no" /\ phase \notin Stages

Room(th) == Cardinality(refs[th]) < MaxStack
Pushed(th, v) == [refs EXCEPT ![th] = @ \union {<<Index, v>>}]

(* luaC_fullgc: an unfinished marking is given up and all objects swept to *)
(* white; an unfinished sweep is finished; then a whole cycle follows.     *)
FullGC_KeepsMarks ==
  /\ Running
  /\ full' = IF phase = "propagate" THEN "marking" ELSE "sweeping"
  /\ IF phase = "pause"
     THEN phase' = "sweepstring" /\ toSweep' = OfKind("string") \intersect Alloc
     ELSE UNCHANGED <<phase, toSweep>>
  /\ UNCHANGED <<color, heapVars, finalVars, listVars>>
FullGC ==
  /\ Running
  /\ full' = "sweeping"
  /\ IF phase \in {"pause", "propagate"}
     THEN /\ phase' = "sweepstring"
          /\ toSweep' = OfKind("string") \intersect Alloc
          /\ gray' = {} /\ grayagain' = {} /\ weak' = {}
     ELSE UNCHANGED <<phase, toSweep, listVars>>
  /\ UNCHANGED <<color, heapVars, finalVars>>

(* luaC_barrierback of a black table.  Outside marking, too, it links the  *)
(* table in grayagain, where nothing finds it before markroot empties that *)
(* list.                                                                   *)
Backed(t) ==
  /\ color' = [color EXCEPT ![t] = "gray"]
  /\ grayagain' = IF phase = "propagate" THEN grayagain \union {t} ELSE grayagain

(* luaC_barriert of the key and the value that are stored. *)
BarrierBack_None(t, stored) == UNCHANGED <<color, grayagain>>
BarrierBack(t, stored) ==
  IF color[t] = "black" /\ \E v \in stored : color[v] \in Whites THEN Backed(t)
  ELSE UNCHANGED <<color, grayagain>>

(* luaC_barrierf, for an object that is no table.  It asserts that no cycle *)
(* is at its beginning or its end, which is not so for a userdata that     *)
(* waits for its finalizer, black, and that another one's finalizer has    *)
(* found: such an object is made white, as while the heap is swept.        *)
BarrierF(o, v) ==
  IF color[o] = "black" /\ color[v] \in Whites
  THEN IF phase = "propagate"
       THEN /\ color' = Painted(Marked({v}, color), color)
            /\ gray' = gray \union Listed(Marked({v}, color))
       ELSE /\ color' = [color EXCEPT ![o] = "white"]
            /\ UNCHANGED gray
  ELSE UNCHANGED <<color, gray>>

New(o) ==
  /\ Running /\ Room(Main)
  /\ Kind[o] \in {"table", "udata", "thread"}
  /\ color[o] = "free"
  /\ color' = [color EXCEPT ![o] = "white"]
  /\ refs' = Pushed(Main, o)
  /\ UNCHANGED <<mode, open, basic, finalVars, listVars, cycleVars>>

(* luaS_newlstr finds a string that nothing refers to any more: it is      *)
(* turned into the current white if it is dead.                            *)
Resurrected_Not(o) == color[o]
Resurrected(o) == IF color[o] = "free" \/ Dead(o) THEN "white" ELSE color[o]

NewString(s) ==
  /\ Running /\ Room(Main)
  /\ Kind[s] = "string"
  /\ color' = [color EXCEPT ![s] = IF @ = "free" THEN "white" ELSE Resurrected(s)]
  /\ refs' = Pushed(Main, s)
  /\ UNCHANGED <<mode, open, basic, finalVars, listVars, cycleVars>>

(* What one instruction or call can take out of an object. *)
Readable(p) ==
  IF Kind[p] = "closure"
  THEN UNION {IF Kind[x] = "upval" THEN Values(x) ELSE {x} : x \in Values(p)}
  ELSE Values(p) \union Keys(p)

Get(v) ==
  /\ Running /\ Room(Main)
  /\ v \in ({basic} \ {Nothing}) \union UNION {Readable(p) : p \in Operands}
  /\ refs' = Pushed(Main, v)
  /\ UNCHANGED <<color, mode, open, basic, finalVars, listVars, cycleVars>>

(* Stacks have no barrier: a thread is never black. *)
Give(th, v) ==
  /\ Running /\ Room(th)
  /\ refs' = Pushed(th, v)
  /\ UNCHANGED <<color, mode, open, basic, finalVars, listVars, cycleVars>>

Drop(th, e) ==
  /\ Running
  /\ refs' = [refs EXCEPT ![th] = @ \ {e}]
  /\ UNCHANGED <<color, mode, open, basic, finalVars, listVars, cycleVars>>

SetTable(t, k, v) ==
  LET others == {e \in refs[t] : e[1] # k}
  IN  /\ Running
      /\ Kind[t] = "table"
      /\ Cardinality(others) < MaxRefs
      /\ refs' = [refs EXCEPT ![t] = others \union {<<k, v>>}]
      /\ BarrierBack(t, {k, v} \ {Index})
      /\ UNCHANGED <<mode, open, basic, finalVars, gray, weak, cycleVars>>

Erase(t, e) ==
  /\ Running
  /\ Kind[t] = "table"
  /\ refs' = [refs EXCEPT ![t] = @ \ {e}]
  /\ UNCHANGED <<color, mode, open, basic, finalVars, listVars, cycleVars>>

(* lua_setmetatable of a table, or an assignment to __mode in a metatable  *)
(* it has.  Metatables are no objects of the model: one that is set may be *)
(* white or not.                                                           *)
SetMode(t, m) ==
  /\ Running
  /\ Kind[t] = "table"
  /\ mode' = [mode EXCEPT ![t] = m]
  /\ \/ color[t] = "black" /\ Backed(t)
     \/ UNCHANGED <<color, grayagain>>
  /\ UNCHANGED <<refs, open, basic, finalVars, gray, weak, cycleVars>>

(* lua_setmetatable of a value of a basic type: no barrier, markmt comes   *)
(* again in atomic.                                                        *)
SetBasic(t) ==
  /\ Running
  /\ Kind[t] = "table"
  /\ basic' = t
  /\ UNCHANGED <<color, refs, mode, open, finalVars, listVars, cycleVars>>

ClearBasic ==
  /\ Running
  /\ basic' = Nothing
  /\ UNCHANGED <<color, refs, mode, open, finalVars, listVars, cycleVars>>

(* lua_setfenv of a function or a userdata, lua_setmetatable of a userdata. *)
SetEnv(o, t) ==
  /\ Running
  /\ Kind[o] \in {"closure", "udata"} /\ Kind[t] = "table"
  /\ refs' = [refs EXCEPT ![o] = {e \in @ : Kind[e[2]] # "table"}
                                   \union {<<Index, t>>}]
  /\ BarrierF(o, t)
  /\ UNCHANGED <<mode, open, basic, finalVars, grayagain, weak, cycleVars>>

(***************************************************************************)
(* Closures and upvalues.                                                  *)
(***************************************************************************)

(* OP_CLOSURE in thread th, with an upvalue of an enclosing function ...   *)
NewClosure(c, th) ==
  /\ Running /\ Room(th)
  /\ Kind[c] = "closure" /\ color[c] = "free"

ShareUpval(c, th, w) ==
  /\ NewClosure(c, th)
  /\ color' = [color EXCEPT ![c] = "white"]
  /\ refs' = [refs EXCEPT ![c] = {<<Index, w>>}, ![th] = @ \union {<<Index, c>>}]
  /\ UNCHANGED <<mode, open, basic, finalVars, listVars, cycleVars>>

(* ... with one luaF_findupval finds in th, perhaps dead ... *)
FindUpval(c, th, w) ==
  /\ NewClosure(c, th)
  /\ open[w] = th
  /\ color' = [color EXCEPT ![c] = "white", ![w] = Resurrected(w)]
  /\ refs' = [refs EXCEPT ![c] = {<<Index, w>>}, ![th] = @ \union {<<Index, c>>}]
  /\ UNCHANGED <<mode, open, basic, finalVars, listVars, cycleVars>>

(* ... or with a new one for a slot of th. *)
NewUpval(c, th, w, e) ==
  /\ NewClosure(c, th)
  /\ Kind[w] = "upval" /\ color[w] = "free"
  /\ color' = [color EXCEPT ![c] = "white", ![w] = "white"]
  /\ open' = [open EXCEPT ![w] = th]
  /\ refs' = [refs EXCEPT ![c] = {<<Index, w>>}, ![w] = {e},
                          ![th] = (@ \ {e}) \union {<<Index, c>>}]
  /\ UNCHANGED <<mode, basic, finalVars, listVars, cycleVars>>

(* OP_SETUPVAL's barrier is for the upvalue, debug.setupvalue's for the    *)
(* closure through which it is set.                                        *)
Owners(c, w) == IF DebugLibrary THEN {c, w} ELSE {w}

SetUpval(c, w, v) ==
  /\ Running
  /\ Kind[c] = "closure" /\ Kind[w] = "upval" /\ <<Index, w>> \in refs[c]
  /\ refs' = [refs EXCEPT ![w] = {<<Index, v>>}]
  /\ \E o \in Owners(c, w) : BarrierF(o, v)
  /\ UNCHANGED <<mode, open, basic, finalVars, grayagain, weak, cycleVars>>

(* The function of th that owns the variable assigns it in its register. *)
SetLocal(th, w, v) ==
  /\ Running
  /\ open[w] = th
  /\ refs' = [refs EXCEPT ![w] = {<<Index, v>>}]
  /\ UNCHANGED <<color, mode, open, basic, finalVars, listVars, cycleVars>>

(* luaF_close and luaC_linkupval: the frame with the slot ends.  *)
LinkUpval(w) ==
  IF color[w] # "gray" THEN UNCHANGED <<color, gray>>
  ELSE IF phase = "propagate"
  THEN LET c == [color EXCEPT ![w] = "black"]
           marked == Marked(Values(w), c)
       IN  color' = Painted(marked, c) /\ gray' = gray \union Listed(marked)
  ELSE color' = [color EXCEPT ![w] = "white"] /\ UNCHANGED gray

CloseUpval(th, w) ==
  /\ Running
  /\ open[w] = th
  /\ open' = [open EXCEPT ![w] = Nothing]
  /\ IF Dead(w)
     THEN /\ color' = [color EXCEPT ![w] = "free"]
          /\ refs' = [refs EXCEPT ![w] = {}]
          /\ UNCHANGED gray
     ELSE LinkUpval(w) /\ UNCHANGED refs
  /\ UNCHANGED <<mode, basic, finalVars, grayagain, weak, cycleVars>>

-----------------------------------------------------------------------------
CollectorStep ==
  \/ StartCycle
  \/ \E o \in gray : PropagateMark(o)
  \/ AtomicUpvals \/ (\E th \in Threads : AtomicWeak(th)) \/ AtomicAgain \/ AtomicUserdata \/ AtomicClear
  \/ \E o \in toSweep : Sweep(o)
  \/ SweepStringsDone \/ SweepDone
  \/ \E u \in tmudata, th \in Threads : GCTM(u, th)
  \/ EndCycle

Upvals(th) == {w \in Obj : open[w] = th}

ProgramStep ==
  \/ FullGC
  \/ \E o \in Obj : New(o) \/ NewString(o) \/ Get(o)
  \/ \E th \in Threads : \E v \in Operands : Give(th, v)
  \/ \E th \in Threads : \E e \in refs[th] : Drop(th, e)
  \/ \E t, v \in Operands : \E k \in Operands \union {Index} : SetTable(t, k, v)
  \/ \E t \in Operands : \E e \in refs[t] : Erase(t, e)
  \/ \E t \in Operands, m \in Modes : SetMode(t, m)
  \/ \E t \in Operands : SetBasic(t)
  \/ ClearBasic
  \/ \E o, t \in Operands : SetEnv(o, t)
  \/ \E c \in Obj, th \in Threads :
       \/ \E p \in Operands \intersect OfKind("closure") :
            \E w \in Values(p) \intersect OfKind("upval") : ShareUpval(c, th, w)
       \/ \E w \in Upvals(th) : FindUpval(c, th, w)
       \/ \E w \in Obj, e \in refs[th] : NewUpval(c, th, w, e)
  \/ \E c, v \in Operands : \E w \in Values(c) : SetUpval(c, w, v)
  \/ \E th \in Threads :
       \E w \in Upvals(th) : CloseUpval(th, w) \/ \E v \in Operands : SetLocal(th, w, v)

GCNext == CollectorStep \/ ProgramStep

GCSpec == GCInit /\ [][GCNext]_gcVars
(* The collector works as long as the program allocates. *)
GCFairSpec == GCSpec /\ WF_gcVars(CollectorStep)

-----------------------------------------------------------------------------
(***************************************************************************)
(* Properties.                                                             *)
(***************************************************************************)

GCTypeOK ==
  /\ color \in [Obj -> Whites \union {"gray", "black", "free"}]
  /\ refs \in [Obj -> SUBSET ((Obj \union {Index}) \X Obj)]
  /\ mode \in [Obj -> {"strong", "k", "v", "kv"}]
  /\ open \in [Obj -> OfKind("thread") \union {Nothing}]
  /\ basic \in OfKind("table") \union {Nothing}
  /\ finalized \subseteq OfKind("udata") /\ tmudata \subseteq Finalizable
  /\ ran \subseteq Finalizable
  /\ phase \in {"pause", "propagate", "sweepstring", "sweep", "finalize"}
                 \union Stages
  /\ gray \subseteq Obj /\ grayagain \subseteq Obj /\ weak \subseteq Obj
  /\ toSweep \subseteq Obj
  /\ full \in {"no", "sweeping", "marking"}

All(o) == Values(o) \union Keys(o)
Alive(o) == color[o] # "free" /\ ~Dead(o)

(* checkliveness: whatever the program can take out of an object, through  *)
(* any chain of references, finalizers' userdata included, is allocated    *)
(* and not condemned, between any two steps of the collector.              *)
NoDangling ==
  /\ \A o \in Roots \union tmudata : Alive(o)
  /\ \A o \in Obj : Alive(o) => \A v \in All(o) : Alive(v)

(* The invariant the barriers keep while objects are marked: no black      *)
(* object refers to a white one.  Userdata left over from an earlier       *)
(* collection are black from that one, and marked again later.             *)
TriColor ==
  phase \in {"propagate"} \union Stages =>
    \A o \in Obj \ tmudata :
      color[o] = "black" => \A v \in All(o) : color[v] \notin Whites

(* A gray table, closure or thread is in one list, so that it will be      *)
(* traversed, and in only one, because the lists share their links.        *)
GrayIsListed ==
  phase \in {"propagate"} \union Stages =>
    /\ Listed({o \in Obj : color[o] = "gray"}) = gray \union grayagain \union weak
    /\ gray \intersect (grayagain \union weak) = {}
    /\ grayagain \intersect weak = {}

(* Asserted by the barriers and by luaC_linkupval: outside marking and     *)
(* sweeping there is nothing gray, and nothing black but userdata whose    *)
(* finalizer has not been called yet.                                      *)
PauseIsWhite ==
  phase \in {"pause", "finalize"} =>
    \A o \in Alloc \ tmudata : color[o] = "white"

(* Why that is so (lgc.c, its asserts and barriers): the marks of every     *)
(* phase are in order, whatever the program has stored, linked or closed.  *)
GCInv == GCTypeOK /\ TriColor /\ GrayIsListed /\ PauseIsWhite

(* A weak table loses what has to go and no more: of an entry that atomic  *)
(* removes, the key or the value is an object, no string, that the program *)
(* cannot reach without a weak reference, finalizers that are still to run *)
(* included; or the value is a userdata that was handed to its finalizer.  *)
(* Before the flip only the marks know.                                    *)
Forgotten(x) ==
  \E kept \in SUBSET Obj :
    /\ Roots \union tmudata \subseteq kept /\ x \notin kept
    /\ \A o \in kept : Traversed(o) \subseteq kept

Losable(e) ==
  \E x \in {e[1], e[2]} \ {Index} :
    Kind[x] # "string" /\ (Forgotten(x) \/ (x = e[2] /\ x \in finalized))

WeakKept ==
  [][phase = "preserve" /\ phase' = "sweepstring" =>
       \A t \in Obj : \A e \in refs[t] \ refs'[t] : Losable(e)]_gcVars

(* A finalizer is called once, and before its userdata is freed, through   *)
(* resurrection and collections inside finalizers.                         *)
FinalizedOnce ==
  [][\A u \in Finalizable :
       /\ u \in tmudata /\ u \notin tmudata' => u \notin ran
       /\ color[u] # "free" /\ color'[u] = "free" => u \in ran]_gcVars

(* A full collection leaves no garbage: what is allocated when its         *)
(* finalizers begin is what they and the program can reach.  A table that  *)
(* is weak on one side is the exception: it marks the other side of an     *)
(* entry that cleartable then removes; and so does iscleared with a string *)
(* that is its key.                                                        *)
ReachableFrom(S) ==
  LET Reach[n \in 0 .. Cardinality(Obj)] ==
        IF n = 0 THEN S
        ELSE Reach[n - 1] \union UNION {All(o) : o \in Reach[n - 1]}
  IN  Reach[Cardinality(Obj)]

FullIsComplete ==
  phase = "finalize" /\ full = "marking" /\ (\A t \in Obj : mode[t] \notin {"k", "v"})
    => \A o \in Alloc \ ReachableFrom(Roots \union tmudata) :
         Kind[o] = "string" /\ \E t \in Obj : mode[t] = "kv"

(* Garbage does not stay: it is freed, handed to its finalizer or, a       *)
(* string, asked for again.                                                *)
GarbageCollected ==
  \A o \in Obj :
    (o \in Alloc /\ o \notin ReachableFrom(Roots \union tmudata))
      ~> (o \notin Alloc \/ o \in ReachableFrom(Roots \union tmudata))
=============================================================================
