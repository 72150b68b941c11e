----------------------------- MODULE LuaGCProofs -----------------------------
(***************************************************************************)
(* Theorems about the collector of LuaGC, for any objects of any kinds and *)
(* any program: what can be reached is not freed, the marks are in order   *)
(* in every phase, finalizers run once, weak tables lose no more than they *)
(* have to, and a full collection leaves no garbage.                       *)
(*                                                                         *)
(* NoDangling says what must hold between any two steps, and why it does   *)
(* is spread over the phases: while objects are marked the barriers keep   *)
(* black ones from referring to white ones, atomic then brings the gray    *)
(* ones up to date list by list, the flip relies on nothing dead being     *)
(* left from before, and the sweep on finding everything that is not white.*)
(***************************************************************************)
EXTENDS LuaGC, InductionFacts, FiniteSetTheorems, TLAPS

Colors == Whites \union {"gray", "black", "free"}
Marking == {"propagate"} \union Stages
Sweeping == {"sweepstring", "sweep"}

(* That o refers to v, with refs and open as they are or will be. *)
Refers(r, p, o, v) ==
  \/ \E e \in r[o] : e[2] = v \/ (e[1] = v /\ v # Index)
  \/ \E w \in Obj : p[w] = o /\ \E e \in r[w] : e[2] = v

(* What o refers to has been marked. *)
Done(o) == \A v \in Obj : Refers(refs, open, o, v) => color[v] \notin Whites

(* NoDangling and TriColor in these terms. *)
AliveInv ==
  /\ \A o \in Roots \union tmudata : Alive(o)
  /\ \A o, v \in Obj : Alive(o) /\ Refers(refs, open, o, v) => Alive(v)

BlackInv ==
  phase \in Marking => \A o \in Obj \ tmudata : color[o] = "black" => Done(o)

(* What is free has nothing, and is in no list. *)
FreeInv ==
  \A o \in Obj : color[o] = "free" =>
    refs[o] = {} /\ open[o] = Nothing /\ o \notin finalized /\ o \notin toSweep

(* An open upvalue is in the list of a thread that is there, and in no     *)
(* other, so that it is not swept on its own.                              *)
OpenInv ==
  \A w \in Obj : open[w] # Nothing =>
    /\ Kind[w] = "upval" /\ color[w] # "black" /\ w \notin toSweep
    /\ color[open[w]] # "free"

(* Which kinds refer to which: upvalues only closures, so that marking     *)
(* ends after two levels.                                                  *)
EntryOK(o, e) ==
  /\ Kind[o] # "string"
  /\ Kind[o] # "table" => e[1] = Index
  /\ e[1] # Index => Kind[e[1]] # "upval"
  /\ Kind[e[2]] = "upval" => Kind[o] = "closure"
  /\ Kind[o] = "udata" => Kind[e[2]] = "table"

RefsInv == \A o \in Obj : \A e \in refs[o] : EntryOK(o, e)

(* Who may be gray and black. *)
GrayInv ==
  \A o \in Obj :
    /\ Kind[o] = "thread" => color[o] # "black"
    /\ color[o] = "gray" => Kind[o] # "udata" /\ (Kind[o] = "upval" => open[o] # Nothing)

(* The sweep still comes to all that is not white, and when it is over     *)
(* nothing is dead.                                                        *)
SweepInv ==
  /\ phase = "sweepstring" =>
       \A s \in OfKind("string") : color[s] \in {"free", "white"} \/ s \in toSweep
  /\ phase = "sweep" =>
       \A o \in Obj \ tmudata :
         color[o] \in {"free", "white"} \/ o \in toSweep \/ open[o] \in toSweep
  /\ phase \notin Sweeping => \A o \in Obj : ~Dead(o)

(* What each stage of atomic has brought up to date. *)
AtomicInv ==
  /\ phase \in Stages =>
       \A w \in Obj : open[w] # Nothing /\ color[w] = "gray" => Done(w)
  /\ phase \in {"weaks", "again", "preserve"} =>
       /\ \A o \in Roots : color[o] \notin Whites
       /\ \A t \in weak :
            Kind[t] = "table" /\ \A v \in Traversed(t) : color[v] \notin Whites
  /\ phase \in {"again", "preserve"} =>
       \A o \in grayagain : Kind[o] = "thread" /\ Done(o)
  /\ phase = "preserve" => \A u \in tmudata : color[u] = "black" /\ Done(u)

(* A userdata with a finalizer that is dead, or about to be, had it called. *)
FinalInv ==
  /\ tmudata \union ran \subseteq finalized
  /\ tmudata \intersect ran = {}
  /\ finalized \intersect Finalizable \subseteq tmudata \union ran
  /\ \A u \in Finalizable : Dead(u) => u \in ran
  /\ phase = "preserve" => \A u \in Finalizable : color[u] = "white" => u \in ran

HeapInv == FreeInv /\ OpenInv /\ RefsInv /\ GrayInv
MarkInv == BlackInv /\ GrayIsListed /\ PauseIsWhite
IInv == GCTypeOK /\ AliveInv /\ MarkInv /\ HeapInv /\ SweepInv /\ AtomicInv /\ FinalInv

-----------------------------------------------------------------------------
(***************************************************************************)
(* References.                                                             *)
(***************************************************************************)
LEMMA KindsDiffer ==
  /\ \A o \in Obj : Kind[o] \in Kinds
  /\ Main \in Obj /\ Kind[Main] = "thread"
  /\ \A u \in Finalizable : u \in Obj /\ Kind[u] = "udata"
  /\ Nothing \notin Obj /\ Index \notin Obj
BY GCAssumption DEF OfKind

LEMMA EntryType ==
  ASSUME GCTypeOK, NEW o \in Obj, NEW e \in refs[o]
  PROVE  e[2] \in Obj /\ e[1] \in Obj \union {Index} /\ e = <<e[1], e[2]>>
BY DEF GCTypeOK

LEMMA ValuesRefer ==
  ASSUME GCTypeOK, RefsInv, NEW o \in Obj, NEW v
  PROVE  /\ v \in Values(o) => v \in Obj /\ Refers(refs, open, o, v)
         /\ v \in All(o) <=> Refers(refs, open, o, v)
         /\ Kind[o] # "table" => (v \in Values(o) <=> Refers(refs, open, o, v))
<1>1. v \in Values(o) <=> \/ \E e \in refs[o] : e[2] = v
                          \/ \E w \in Obj : open[w] = o /\ \E e \in refs[w] : e[2] = v
  BY DEF Values, Slots
<1>2. v \in Keys(o) <=> v # Index /\ \E e \in refs[o] : e[1] = v
  BY DEF Keys
<1>3. \A x \in Obj : \A e \in refs[x] : e[2] \in Obj /\ e[1] \in Obj \union {Index}
  BY EntryType
<1> QED
  BY <1>1, <1>2, <1>3 DEF All, Refers, RefsInv, EntryOK

LEMMA ReferredType ==
  ASSUME GCTypeOK, NEW o \in Obj, NEW v, Refers(refs, open, o, v)
  PROVE  v \in Obj
<1>3. \A x \in Obj : \A e \in refs[x] : e[2] \in Obj /\ e[1] \in Obj \union {Index}
  BY EntryType
<1> QED
  BY <1>3 DEF Refers

(* Only threads refer to what open upvalues hold. *)
LEMMA OwnEntries ==
  ASSUME GCTypeOK, NEW o \in Obj, Kind[o] # "thread", NEW v, Refers(refs, open, o, v)
  PROVE  \E e \in refs[o] : e[2] = v \/ (e[1] = v /\ v # Index)
<1>1. \A w \in Obj : open[w] # o
  BY KindsDiffer DEF GCTypeOK, OfKind
<1> QED
  BY <1>1 DEF Refers

LEMMA Restated ==
  GCTypeOK /\ RefsInv => (NoDangling <=> AliveInv) /\ (TriColor <=> BlackInv)
BY ValuesRefer, ReferredType DEF NoDangling, AliveInv, TriColor, BlackInv, Marking, Done

-----------------------------------------------------------------------------
(***************************************************************************)
(* Marking.  reallymarkobject leaves nothing white of what it was given,   *)
(* and what it makes black refers to nothing white.                        *)
(***************************************************************************)
LEMMA MarkedType ==
  ASSUME GCTypeOK, RefsInv, NEW S \in SUBSET Obj, NEW c \in [Obj -> Colors]
  PROVE  /\ Marked(S, c) \in SUBSET Obj
         /\ \A o \in Marked(S, c) : c[o] \in Whites
         /\ \A o \in S : c[o] \in Whites => o \in Marked(S, c)
         /\ \A o \in Marked(S, c) : \A v \in Obj :
              Kind[o] \in {"upval", "udata"} /\ Refers(refs, open, o, v) /\ c[v] \in Whites
                => v \in Marked(S, c)
<1> DEFINE WhiteOf(T) == {o \in T : c[o] \in Whites}
           Through(T, k) == WhiteOf(UNION {Values(o) : o \in T \intersect OfKind(k)})
           first == WhiteOf(S)
           second == first \union Through(first, "upval")
           third == second \union Through(second, "udata")
<1>1. Marked(S, c) = third
  BY DEF Marked
<1>2. \A T \in SUBSET Obj : \A k : \A v : v \in Through(T, k) <=>
        c[v] \in Whites /\ \E o \in T : Kind[o] = k /\ v \in Values(o)
  BY DEF OfKind
<1>3. \A T \in SUBSET Obj : \A k : Through(T, k) \in SUBSET Obj
  BY <1>2, ValuesRefer
<1>4. first \in SUBSET Obj /\ \A v : v \in first <=> v \in S /\ c[v] \in Whites
  OBVIOUS
<1> HIDE DEF first, Through, WhiteOf
<1>5. second \in SUBSET Obj /\ \A v \in second : c[v] \in Whites
  BY <1>2, <1>3, <1>4
<1>6. third \in SUBSET Obj /\ \A v \in third : c[v] \in Whites
  BY <1>2, <1>3, <1>5
<1>7. ASSUME NEW o \in third, Kind[o] \in {"upval", "udata"}, NEW v \in Obj,
             Refers(refs, open, o, v), c[v] \in Whites
      PROVE  v \in third
  <2>1. v \in Values(o)
    BY <1>6, <1>7, ValuesRefer
  <2>2. \A x \in Obj : \A y \in Values(x) :
          (Kind[x] = "udata" => Kind[y] = "table") /\ (Kind[x] = "upval" => Kind[y] # "upval")
    BY ValuesRefer, OwnEntries DEF RefsInv, EntryOK
  <2>3. o \in second
    BY <1>2, <1>5, <1>7, <2>2
  <2>4. CASE Kind[o] = "udata"
    BY <1>2, <1>5, <1>7, <2>1, <2>3, <2>4
  <2>5. CASE Kind[o] = "upval"
    <3>1. o \in first
      BY <1>2, <1>4, <2>2, <2>3, <2>5
    <3> QED
      BY <1>2, <1>4, <1>7, <2>1, <2>5, <3>1
  <2> QED
    BY <1>7, <2>4, <2>5
<1> QED
  BY <1>1, <1>4, <1>6, <1>7

(* From the colors c to d, the objects M have been marked for S. *)
MarkedFor(S, M, c, d) ==
  /\ M \in SUBSET Obj /\ d \in [Obj -> Colors]
  /\ \A o \in Obj : o \notin M => d[o] = c[o]
  /\ \A o \in M :
       /\ c[o] \in Whites /\ d[o] \in {"gray", "black"}
       /\ d[o] = "black" <=> Kind[o] = "udata" \/ (Kind[o] = "upval" /\ open[o] = Nothing)
  /\ \A o \in S : d[o] \notin Whites
  /\ \A o \in M : Kind[o] \in {"upval", "udata"} =>
       \A v \in Obj : Refers(refs, open, o, v) => d[v] \notin Whites
  /\ Listed({o \in Obj : d[o] = "gray"}) = Listed({o \in Obj : c[o] = "gray"}) \union Listed(M)

LEMMA PaintedMarks ==
  ASSUME GCTypeOK, RefsInv, NEW S \in SUBSET Obj, NEW c \in [Obj -> Colors]
  PROVE  MarkedFor(S, Marked(S, c), c, Painted(Marked(S, c), c))
<1> DEFINE M == Marked(S, c)
           d == Painted(M, c)
<1>1. /\ M \in SUBSET Obj
      /\ \A o \in M : c[o] \in Whites
      /\ \A o \in S : c[o] \in Whites => o \in M
      /\ \A o \in M : \A v \in Obj :
           Kind[o] \in {"upval", "udata"} /\ Refers(refs, open, o, v) /\ c[v] \in Whites
                => v \in M
  BY MarkedType
<1> HIDE DEF M
<1>2. \A o \in Obj : d[o] =
        IF o \notin M THEN c[o]
        ELSE IF Kind[o] = "udata" \/ (Kind[o] = "upval" /\ open[o] = Nothing)
        THEN "black" ELSE "gray"
  BY DEF Painted
<1>3. d \in [Obj -> Colors]
  BY <1>2 DEF Painted, Colors
<1> HIDE DEF d
<1>4. \A o \in Obj : Kind[o] \in {"table", "closure", "thread"} =>
        (d[o] = "gray" <=> c[o] = "gray" \/ o \in M)
  BY <1>2
<1>5. Listed({o \in Obj : d[o] = "gray"}) = Listed({o \in Obj : c[o] = "gray"}) \union Listed(M)
  BY <1>1, <1>4 DEF Listed
<1> QED
  BY <1>1, <1>2, <1>3, <1>5 DEF Whites, MarkedFor, M, d
-----------------------------------------------------------------------------
(***************************************************************************)
(* What the program holds, and what it may change.                         *)
(***************************************************************************)
LEMMA TraversedType ==
  ASSUME GCTypeOK, NEW o \in Obj
  PROVE  Traversed(o) \in SUBSET Obj /\ Traversed(o) \subseteq All(o)
<1>1. \A x \in Obj : \A e \in refs[x] : e[2] \in Obj /\ e[1] \in Obj \union {Index}
  BY EntryType
<1>2. Traversed(o) \subseteq All(o)
  BY DEF Traversed, All
<1>3. All(o) \in SUBSET Obj
  BY <1>1 DEF All, Values, Slots, Keys
<1> QED
  BY <1>2, <1>3

LEMMA TraversedSame ==
  ASSUME UNCHANGED heapVars
  PROVE  \A o : Traversed(o)' = Traversed(o)
BY DEF heapVars, Traversed, Values, Slots, Keys, Weak

LEMMA StateTypes ==
  ASSUME IInv
  PROVE  /\ refs \in [Obj -> SUBSET ((Obj \union {Index}) \X Obj)]
         /\ color \in [Obj -> Colors]
         /\ open \in [Obj -> OfKind("thread") \union {Nothing}]
         /\ mode \in [Obj -> {"strong", "k", "v", "kv"}]
BY DEF IInv, GCTypeOK, Colors

(* Only closures refer to upvalues. *)
LEMMA UpvalsHidden ==
  ASSUME IInv, NEW o \in Obj, Kind[o] # "closure", NEW v, Refers(refs, open, o, v)
  PROVE  Kind[v] # "upval"
<1>1. \A w \in Obj : open[w] # Nothing => Kind[w] = "upval"
  BY DEF IInv, HeapInv, OpenInv
<1>2. \A x \in Obj : \A e \in refs[x] :
        (e[1] # Index => Kind[e[1]] # "upval") /\ (Kind[e[2]] = "upval" => Kind[x] = "closure")
  BY DEF IInv, HeapInv, RefsInv, EntryOK
<1> QED
  BY <1>1, <1>2, KindsDiffer DEF Refers

LEMMA OperandsAlive ==
  ASSUME IInv, NEW v \in Operands
  PROVE  v \in Obj /\ Alive(v) /\ Kind[v] # "upval"
<1>1. v \in Obj /\ Refers(refs, open, Main, v)
  BY ValuesRefer, KindsDiffer DEF Operands, IInv, HeapInv
<1>2. Alive(v)
  BY <1>1, KindsDiffer DEF IInv, AliveInv, Roots
<1> QED
  BY <1>1, <1>2, UpvalsHidden, KindsDiffer

LEMMA ThreadsAlive ==
  ASSUME IInv, NEW th \in Threads
  PROVE  /\ th \in Obj /\ Alive(th) /\ Kind[th] = "thread"
         /\ \A w \in Upvals(th) : w \in Obj /\ open[w] = th /\ Kind[w] = "upval"
         /\ \A e \in refs[th] : e \in {Index} \X Obj /\ Alive(e[2]) /\ Kind[e[2]] # "upval"
<1>1. th \in Obj /\ Alive(th) /\ Kind[th] = "thread"
  BY OperandsAlive, KindsDiffer DEF Threads, OfKind, IInv, AliveInv, Roots
<1>2. \A w \in Upvals(th) : w \in Obj /\ open[w] = th /\ Kind[w] = "upval"
  BY <1>1, KindsDiffer DEF Upvals, IInv, HeapInv, OpenInv
<1>3. ASSUME NEW e \in refs[th]
      PROVE  e \in {Index} \X Obj /\ Alive(e[2]) /\ Kind[e[2]] # "upval"
  <2>1. e[2] \in Obj /\ e[1] = Index /\ e = <<e[1], e[2]>>
    BY <1>1, EntryType DEF IInv, HeapInv, RefsInv, EntryOK
  <2> QED
    BY <1>1, <2>1 DEF IInv, AliveInv, HeapInv, RefsInv, EntryOK, Refers
<1> QED
  BY <1>1, <1>2, <1>3

(* All that a step of the program does to what it leaves behind. *)
Mutation ==
  /\ UNCHANGED <<finalVars, phase, toSweep>>
  /\ basic' # Nothing => Alive(basic)'
  /\ \A o \in Obj :
       /\ Alive(o) => Alive(o)'
       /\ Dead(o)' => Dead(o)
  /\ \A o, v \in Obj :
       Alive(o)' /\ Refers(refs', open', o, v) =>
         Alive(v)' \/ (Alive(o) /\ Refers(refs, open, o, v))
  /\ phase = "propagate" =>
       /\ \A o \in Obj : color[o] \in {"gray", "black"} => color'[o] \notin Whites
       /\ \A o, v \in Obj :
            color'[o] = "black" /\ Refers(refs', open', o, v) =>
              color'[v] \notin Whites \/ (color[o] = "black" /\ Refers(refs, open, o, v))
       /\ GrayIsListed'
  /\ phase # "propagate" =>
       \A o \in Obj :
         color'[o] \in {"free", "white"} \/ (color[o] \notin {"free", "white"} /\ open'[o] = open[o])

LEMMA MutationKeeps ==
  ASSUME IInv, Running, GCTypeOK', HeapInv', Mutation
  PROVE  IInv'
<1> USE DEF Mutation
<1>1. AliveInv'
  <2>1. \A o, v \in Obj : Alive(o)' /\ Refers(refs', open', o, v) => Alive(v)'
    BY DEF IInv, AliveInv
  <2>2. Alive(Main)' /\ \A u \in tmudata' : Alive(u)'
    BY KindsDiffer DEF IInv, AliveInv, GCTypeOK, finalVars, Roots
  <2>3. \A o \in Roots' : Alive(o)'
    BY <2>2 DEF Roots
  <2> QED
    BY <2>1, <2>2, <2>3 DEF AliveInv
<1>2. BlackInv'
  <2> SUFFICES ASSUME phase = "propagate", NEW o \in Obj, o \notin tmudata, color'[o] = "black",
                      NEW v \in Obj, Refers(refs', open', o, v)
               PROVE  color'[v] \notin Whites
    BY DEF BlackInv, Marking, Running, finalVars, Done
  <2>1. CASE color[o] = "black" /\ Refers(refs, open, o, v)
    <3>1. color[v] \notin Whites /\ Alive(v)
      BY <2>1 DEF IInv, MarkInv, BlackInv, AliveInv, Done, Marking, Alive, Dead
    <3>2. color[v] \in {"gray", "black"}
      BY <3>1 DEF Alive, Dead, Whites, IInv, GCTypeOK
    <3> QED
      BY <3>2
  <2> QED
    BY <2>1
<1>3. GrayIsListed'
  BY DEF GrayIsListed, Running
<1>4. PauseIsWhite'
  <2> SUFFICES ASSUME phase \in {"pause", "finalize"}, NEW o \in Obj, o \notin tmudata, color'[o] # "free"
               PROVE  color'[o] = "white"
    BY DEF PauseIsWhite, Alloc, finalVars
  <2>1. color[o] \in {"free", "white"}
    BY DEF IInv, MarkInv, PauseIsWhite, Alloc
  <2> QED
    BY <2>1
<1>5. SweepInv'
  <2>1. phase = "sweepstring" =>
          \A s \in OfKind("string") : color'[s] \in {"free", "white"} \/ s \in toSweep
    BY DEF IInv, SweepInv, OfKind
  <2>2. phase = "sweep" =>
          \A o \in Obj \ tmudata :
            color'[o] \in {"free", "white"} \/ o \in toSweep \/ open'[o] \in toSweep
    BY DEF IInv, SweepInv
  <2>3. phase \notin Sweeping => \A o \in Obj : ~Dead(o)'
    BY DEF IInv, SweepInv
  <2> QED
    BY <2>1, <2>2, <2>3 DEF SweepInv, finalVars
<1>6. AtomicInv'
  BY DEF AtomicInv, Running, Stages
<1>7. FinalInv'
  <2>1. \A u \in Finalizable : Dead(u)' => u \in ran
    BY KindsDiffer DEF IInv, FinalInv
  <2>2. phase # "preserve"
    BY DEF Running, Stages
  <2> QED
    BY <2>1, <2>2 DEF IInv, FinalInv, finalVars
<1> QED
  BY <1>1, <1>2, <1>3, <1>4, <1>5, <1>6, <1>7 DEF IInv, MarkInv
-----------------------------------------------------------------------------
(***************************************************************************)
(* The program's steps: stacks.                                            *)
(***************************************************************************)

(* What refers to what depends on the entries of the objects involved. *)
LEMMA RefersMono ==
  ASSUME NEW r, NEW s, NEW p, NEW q, NEW o \in Obj, NEW v, Refers(s, q, o, v),
         \A e \in s[o] : e \in r[o],
         \A w \in Obj : q[w] = o => p[w] = o /\ \A e \in s[w] : e \in r[w]
  PROVE  Refers(r, p, o, v)
BY DEF Refers

(* Values are pushed, the new object among them if there is one. *)
LEMMA PushStep ==
  ASSUME IInv, Running, NEW th \in Threads, NEW v \in Obj, Kind[v] # "upval",
         refs' = Pushed(th, v), Alive(v)', color' \in [Obj -> Colors],
         \A o \in Obj : \/ color'[o] = color[o]
                        \/ /\ color[o] \in {"free", "dead"} /\ color'[o] = "white"
                           /\ refs[o] = {}
                           /\ color[o] = "dead" => Kind[o] = "string",
         UNCHANGED <<mode, open, basic, finalVars, listVars, cycleVars>>
  PROVE  IInv'
<1> USE DEF finalVars, listVars, cycleVars
<1>1. /\ th \in Obj /\ Alive(th) /\ Kind[th] = "thread"
      /\ refs' = [refs EXCEPT ![th] = @ \union {<<Index, v>>}]
  BY ThreadsAlive DEF Pushed
<1>2. refs' \in [Obj -> SUBSET ((Obj \union {Index}) \X Obj)]
  BY <1>1, StateTypes
<1>3. GCTypeOK'
  BY <1>2 DEF IInv, GCTypeOK, Colors
<1>4. \A o \in Obj : refs'[o] = IF o = th THEN refs[o] \union {<<Index, v>>} ELSE refs[o]
  BY <1>1, StateTypes
<1>5. FreeInv'
  BY <1>1, <1>4 DEF FreeInv, IInv, HeapInv, Alive
<1>6. OpenInv'
  BY DEF OpenInv, IInv, HeapInv, GCTypeOK, OfKind
<1>7. RefsInv'
  <2>1. <<Index, v>>[1] = Index /\ <<Index, v>>[2] = v
    OBVIOUS
  <2> QED
    BY <1>1, <1>4, <2>1 DEF RefsInv, EntryOK, IInv, HeapInv
<1>8. GrayInv'
  BY DEF GrayInv, IInv, HeapInv
<1>9. Mutation
  <2>1. basic' # Nothing => Alive(basic)'
    BY DEF IInv, AliveInv, GCTypeOK, Roots, Alive, Dead, OfKind
  <2>2. \A o \in Obj : (Alive(o) => Alive(o)') /\ (Dead(o)' => Dead(o))
    BY DEF Alive, Dead
  <2>3. ASSUME NEW o \in Obj, NEW x \in Obj, Refers(refs', open', o, x)
        PROVE  (o = th /\ x = v) \/ Refers(refs, open, o, x)
    <3>1. <<Index, v>>[1] = Index /\ <<Index, v>>[2] = v
      OBVIOUS
    <3>2. \A w \in Obj : open[w] = o => w # th
      BY <1>1, KindsDiffer DEF IInv, HeapInv, OpenInv
    <3>3. open' = open /\ \A w \in Obj : open[w] = o => refs'[w] = refs[w]
      BY <1>4, <3>2
    <3>4. \A e \in refs'[o] : e \in refs[o] \/ (o = th /\ e = <<Index, v>>)
      BY <1>4
    <3> QED
      BY <2>3, <3>1, <3>3, <3>4 DEF Refers
  <2>4. ASSUME NEW o \in Obj, NEW x \in Obj, Alive(o)', Refers(refs, open, o, x)
        PROVE  Alive(o)
    <3>1. CASE color[o] = "free"
      <4>1. refs[o] = {} /\ \A w \in Obj : open[w] # o
        BY <3>1, KindsDiffer DEF IInv, HeapInv, FreeInv, OpenInv
      <4> QED
        BY <2>4, <4>1 DEF Refers
    <3>2. CASE color[o] = "dead" /\ color'[o] # "dead"
      <4>1. refs[o] = {} /\ \A w \in Obj : open[w] # o
        BY <3>2, KindsDiffer DEF IInv, GCTypeOK, OfKind
      <4> QED
        BY <2>4, <4>1 DEF Refers
    <3> QED
      BY <2>4, <3>1, <3>2 DEF Alive, Dead
  <2>5. \A o, x \in Obj :
          Alive(o)' /\ Refers(refs', open', o, x) =>
            Alive(x)' \/ (Alive(o) /\ Refers(refs, open, o, x))
    BY <2>3, <2>4
  <2>6. ASSUME phase = "propagate"
        PROVE  /\ \A o \in Obj : color[o] \in {"gray", "black"} => color'[o] \notin Whites
               /\ \A o, x \in Obj :
                    color'[o] = "black" /\ Refers(refs', open', o, x) =>
                      color'[x] \notin Whites \/ (color[o] = "black" /\ Refers(refs, open, o, x))
               /\ GrayIsListed'
    <3>1. \A o \in Obj : color[o] \in {"gray", "black"} => color'[o] \notin Whites
      BY DEF Whites
    <3>2. color[th] # "black"
      BY <1>1 DEF IInv, HeapInv, GrayInv
    <3>3. {o \in Obj : color'[o] = "gray"} = {o \in Obj : color[o] = "gray"}
      OBVIOUS
    <3>4. GrayIsListed'
      BY <2>6, <3>3 DEF GrayIsListed, IInv, MarkInv
    <3> QED
      BY <2>3, <3>1, <3>2, <3>4
  <2>7. phase # "propagate" =>
          \A o \in Obj : color'[o] \in {"free", "white"}
                           \/ (color[o] \notin {"free", "white"} /\ open'[o] = open[o])
    OBVIOUS
  <2> QED
    BY <2>1, <2>2, <2>5, <2>6, <2>7 DEF Mutation
<1> QED
  BY <1>3, <1>5, <1>6, <1>7, <1>8, <1>9, MutationKeeps DEF HeapInv

LEMMA MainRuns == Main \in Threads
BY DEF Threads

LEMMA NewStep ==
  ASSUME IInv, NEW o \in Obj, New(o)
  PROVE  IInv'
<1> USE DEF New
<1>1. color' = [color EXCEPT ![o] = "white"] /\ color[o] = "free"
  OBVIOUS
<1>2. color' \in [Obj -> Colors] /\ color'[o] = "white" /\ \A x \in Obj : x # o => color'[x] = color[x]
  BY <1>1 DEF IInv, GCTypeOK, Colors, Whites
<1>3. refs[o] = {}
  BY <1>1 DEF IInv, HeapInv, FreeInv
<1>4. Kind[o] # "upval" /\ Alive(o)'
  BY <1>2 DEF Alive, Dead
<1> QED
  BY <1>1, <1>2, <1>3, <1>4, MainRuns, PushStep

LEMMA NewStringStep ==
  ASSUME IInv, NEW s \in Obj, NewString(s)
  PROVE  IInv'
<1> USE DEF NewString, Resurrected
<1>1. /\ color' \in [Obj -> Colors]
      /\ color'[s] = IF color[s] = "free" \/ Dead(s) THEN "white" ELSE color[s]
      /\ \A x \in Obj : x # s => color'[x] = color[x]
  BY DEF IInv, GCTypeOK, Colors, Whites
<1>2. refs[s] = {}
  BY DEF IInv, HeapInv, RefsInv, EntryOK
<1>3. Kind[s] # "upval" /\ Alive(s)'
  BY <1>1 DEF Alive, Dead
<1> QED
  BY <1>1, <1>2, <1>3, MainRuns, PushStep DEF Dead

LEMMA GetStep ==
  ASSUME IInv, NEW v \in Obj, Get(v)
  PROVE  IInv'
<1>1. /\ color' = color /\ color' \in [Obj -> Colors]
      /\ Running /\ refs' = Pushed(Main, v)
      /\ v \in ({basic} \ {Nothing}) \union UNION {Readable(p) : p \in Operands}
      /\ UNCHANGED <<mode, open, basic, finalVars, listVars, cycleVars>>
  BY DEF Get, IInv, GCTypeOK, Colors
<1>2. Alive(v) /\ Kind[v] # "upval"
  <2>1. CASE v = basic
    BY <2>1, KindsDiffer DEF IInv, AliveInv, Roots, GCTypeOK, OfKind
  <2>2. ASSUME NEW p \in Operands, v \in Readable(p)
        PROVE  Alive(v) /\ Kind[v] # "upval"
    <3>1. p \in Obj /\ Alive(p)
      BY OperandsAlive
    <3>2. \A x, y \in Obj : Alive(x) /\ y \in All(x) => Alive(y)
      BY ValuesRefer DEF IInv, AliveInv, HeapInv
    <3>3. \A x \in Obj : \A y \in Values(x) : y \in Obj /\ y \in All(x)
      BY ValuesRefer DEF IInv, HeapInv, All
    <3>4. \A x, y \in Obj : y \in All(x) /\ Kind[x] # "closure" => Kind[y] # "upval"
      BY ValuesRefer, UpvalsHidden DEF IInv, HeapInv
    <3>5. CASE Kind[p] = "closure"
      <4>1. PICK x \in Values(p) : v \in (IF Kind[x] = "upval" THEN Values(x) ELSE {x})
        BY <2>2, <3>5 DEF Readable
      <4> QED
        BY <3>1, <3>2, <3>3, <3>4, <4>1
    <3>6. CASE Kind[p] # "closure"
      BY <2>2, <3>1, <3>2, <3>4, <3>6 DEF Readable, All
    <3> QED
      BY <3>5, <3>6
  <2> QED
    BY <1>1, <2>1, <2>2
<1>3. Alive(v)'
  BY <1>1, <1>2 DEF Alive, Dead
<1> QED
  BY <1>1, <1>2, <1>3, MainRuns, PushStep

LEMMA GiveStep ==
  ASSUME IInv, NEW th \in Threads, NEW v \in Operands, Give(th, v)
  PROVE  IInv'
<1>1. /\ color' = color /\ color' \in [Obj -> Colors]
      /\ Running /\ refs' = Pushed(th, v)
      /\ UNCHANGED <<mode, open, basic, finalVars, listVars, cycleVars>>
  BY DEF Give, IInv, GCTypeOK, Colors
<1>2. v \in Obj /\ Alive(v) /\ Kind[v] # "upval"
  BY OperandsAlive
<1>3. Alive(v)'
  BY <1>1, <1>2 DEF Alive, Dead
<1> QED
  BY <1>1, <1>2, <1>3, PushStep
-----------------------------------------------------------------------------
(***************************************************************************)
(* Entries that go, and the metatables of basic types.                     *)
(***************************************************************************)
LEMMA LessStep ==
  ASSUME IInv, Running, GCTypeOK',
         \A o \in Obj : \A e \in refs'[o] : e \in refs[o],
         basic' # Nothing => Alive(basic'),
         UNCHANGED <<color, open, finalVars, listVars, cycleVars>>
  PROVE  IInv'
<1> USE DEF finalVars, listVars, cycleVars
<1>1. \A o, v \in Obj : Refers(refs', open', o, v) => Refers(refs, open, o, v)
  BY RefersMono
<1>2. FreeInv'
  <2>1. ASSUME NEW o \in Obj, color'[o] = "free"
        PROVE  /\ refs'[o] = {} /\ open'[o] = Nothing
               /\ o \notin finalized' /\ o \notin toSweep'
    <3>1. refs[o] = {} /\ open[o] = Nothing /\ o \notin finalized /\ o \notin toSweep
      BY <2>1 DEF IInv, HeapInv, FreeInv
    <3>2. \A e \in refs'[o] : FALSE
      BY <3>1
    <3> QED
      BY <3>1, <3>2
  <2> QED
    BY <2>1 DEF FreeInv
<1>3. OpenInv' /\ GrayInv'
  BY DEF OpenInv, GrayInv, IInv, HeapInv
<1>4. RefsInv'
  BY DEF RefsInv, EntryOK, IInv, HeapInv
<1>5. Mutation
  <2>1. phase = "propagate" =>
          \A o \in Obj : color[o] \in {"gray", "black"} => color'[o] \notin Whites
    BY DEF Whites
  <2>2. GrayIsListed'
    BY DEF IInv, MarkInv, GrayIsListed
  <2>3. basic' # Nothing => Alive(basic)'
    BY DEF Alive, Dead
  <2>4. \A o \in Obj : (Alive(o) <=> Alive(o)') /\ (Dead(o) <=> Dead(o)')
    BY DEF Alive, Dead
  <2> QED
    BY <1>1, <2>1, <2>2, <2>3, <2>4 DEF Mutation
<1> QED
  BY <1>2, <1>3, <1>4, <1>5, MutationKeeps DEF HeapInv

LEMMA BasicAlive == ASSUME IInv, basic # Nothing PROVE Alive(basic)
BY DEF IInv, AliveInv, Roots

LEMMA DropStep ==
  ASSUME IInv, NEW th \in Threads, NEW e \in refs[th], Drop(th, e)
  PROVE  IInv'
<1> USE DEF Drop
<1>1. th \in Obj
  BY ThreadsAlive
<1>2. /\ \A o \in Obj : \A x \in refs'[o] : x \in refs[o]
      /\ refs' \in [Obj -> SUBSET ((Obj \union {Index}) \X Obj)]
  BY <1>1, StateTypes
<1>3. GCTypeOK'
  BY <1>2 DEF IInv, GCTypeOK, finalVars, listVars, cycleVars
<1> QED
  BY <1>2, <1>3, BasicAlive, LessStep

LEMMA EraseStep ==
  ASSUME IInv, NEW t \in Operands, NEW e \in refs[t], Erase(t, e)
  PROVE  IInv'
<1> USE DEF Erase
<1>1. t \in Obj
  BY OperandsAlive
<1>2. /\ \A o \in Obj : \A x \in refs'[o] : x \in refs[o]
      /\ refs' \in [Obj -> SUBSET ((Obj \union {Index}) \X Obj)]
  BY <1>1, StateTypes
<1>3. GCTypeOK'
  BY <1>2 DEF IInv, GCTypeOK, finalVars, listVars, cycleVars
<1> QED
  BY <1>2, <1>3, BasicAlive, LessStep

LEMMA SetBasicStep ==
  ASSUME IInv, NEW t \in Operands, SetBasic(t)
  PROVE  IInv'
<1> USE DEF SetBasic
<1>1. t \in OfKind("table") /\ Alive(t)
  BY OperandsAlive DEF OfKind
<1>2. GCTypeOK'
  BY <1>1 DEF IInv, GCTypeOK, finalVars, listVars, cycleVars
<1> QED
  BY <1>1, <1>2, LessStep

LEMMA ClearBasicStep ==
  ASSUME IInv, ClearBasic
  PROVE  IInv'
<1> USE DEF ClearBasic
<1>2. GCTypeOK'
  BY DEF IInv, GCTypeOK, finalVars, listVars, cycleVars
<1> QED
  BY <1>2, LessStep

-----------------------------------------------------------------------------
(***************************************************************************)
(* Stores with a barrier.                                                  *)
(***************************************************************************)

(* A table that gets an entry, or loses some, and is linked back into a    *)
(* list or not.                                                            *)
LEMMA TableStep ==
  ASSUME IInv, Running, GCTypeOK', NEW t \in Operands, Kind[t] = "table",
         NEW k \in Operands \union {Index}, NEW v \in Operands,
         \A o \in Obj : o # t => refs'[o] = refs[o] /\ color'[o] = color[o],
         \A e \in refs'[t] : e \in refs[t] \/ e = <<k, v>>,
         \/ /\ color'[t] = color[t] /\ grayagain' = grayagain
            /\ color[t] = "black" =>
                 \/ \A e \in refs'[t] : e \in refs[t]
                 \/ color[v] \notin Whites /\ (k # Index => color[k] \notin Whites)
         \/ /\ color[t] = "black" /\ color'[t] = "gray"
            /\ grayagain' = IF phase = "propagate" THEN grayagain \union {t} ELSE grayagain,
         UNCHANGED <<open, basic, finalVars, gray, weak, cycleVars>>
  PROVE  IInv'
<1> USE DEF finalVars, cycleVars
<1>1. /\ t \in Obj /\ Alive(t) /\ Kind[t] = "table"
      /\ v \in Obj /\ Alive(v) /\ Kind[v] # "upval"
      /\ k \in Obj \union {Index}
      /\ k # Index => Alive(k) /\ Kind[k] # "upval"
  BY OperandsAlive
<1>2. \A o \in Obj : \A e \in refs'[o] : e \in refs[o] \/ (o = t /\ e = <<k, v>>)
  OBVIOUS
<1>4. <<k, v>>[1] = k /\ <<k, v>>[2] = v
  OBVIOUS
<1>5. /\ \A o \in Obj : o # t => color'[o] = color[o]
      /\ \/ /\ color'[t] = color[t] /\ grayagain' = grayagain
            /\ color[t] = "black" =>
                 \/ \A e \in refs'[t] : e \in refs[t]
                 \/ color[v] \notin Whites /\ (k # Index => color[k] \notin Whites)
         \/ /\ color[t] = "black" /\ color'[t] = "gray"
            /\ grayagain' = IF phase = "propagate" THEN grayagain \union {t} ELSE grayagain
  OBVIOUS
<1>6. UNCHANGED <<open, basic, finalVars, gray, weak, cycleVars>> /\ Running
  OBVIOUS
<1>7. GCTypeOK'
  OBVIOUS
<1>8. FreeInv'
  <2>1. ASSUME NEW o \in Obj, color'[o] = "free"
        PROVE  refs'[o] = {} /\ open'[o] = Nothing /\ o \notin finalized' /\ o \notin toSweep'
    <3>1. o # t /\ color[o] = "free"
      BY <1>1, <1>5, <2>1 DEF Alive
    <3> QED
      BY <1>6, <3>1 DEF IInv, HeapInv, FreeInv
  <2> QED
    BY <2>1 DEF FreeInv
<1>9. OpenInv'
  <2>1. \A w \in Obj : open[w] # Nothing => w # t /\ open[w] \in Obj /\ open[w] # t
    BY <1>1, StateTypes, KindsDiffer DEF OfKind, IInv, HeapInv, OpenInv
  <2> QED
    BY <1>5, <1>6, <2>1 DEF OpenInv, IInv, HeapInv
<1>10. RefsInv'
  <2>1. EntryOK(t, <<k, v>>)
    BY <1>1, <1>4 DEF EntryOK
  <2> QED
    BY <1>2, <2>1 DEF RefsInv, IInv, HeapInv
<1>11. GrayInv'
  BY <1>1, <1>5, <1>6 DEF GrayInv, IInv, HeapInv
<1>12. Mutation
  <2>1. basic' # Nothing => Alive(basic)'
    <3>1. basic # Nothing => basic \in Obj /\ Alive(basic)
      BY BasicAlive DEF IInv, GCTypeOK, OfKind
    <3> QED
      BY <1>1, <1>5, <1>6, <3>1 DEF Alive, Dead
  <2>2. \A o \in Obj : (Alive(o) <=> Alive(o)') /\ (Dead(o)' => Dead(o))
    BY <1>1, <1>5 DEF Alive, Dead
  <2>3. ASSUME NEW o \in Obj, NEW x \in Obj, Refers(refs', open', o, x)
        PROVE  \/ o = t /\ (x = v \/ x = k) /\ ~\A e \in refs'[t] : e \in refs[t]
               \/ Refers(refs, open, o, x)
    <3>1. open' = open /\ \A w \in Obj : open[w] = o => w # t
      BY <1>1, <1>6, KindsDiffer DEF IInv, HeapInv, OpenInv
    <3>2. \A w \in Obj : open[w] = o => refs'[w] = refs[w]
      BY <3>1
    <3> QED
      BY <1>2, <1>4, <2>3, <3>1, <3>2 DEF Refers
  <2>4. \A o, x \in Obj :
          Alive(o)' /\ Refers(refs', open', o, x) =>
            Alive(x)' \/ (Alive(o) /\ Refers(refs, open, o, x))
    BY <1>1, <2>2, <2>3, KindsDiffer
  <2>5. \A o \in Obj : color[o] \in {"gray", "black"} => color'[o] \notin Whites
    BY <1>5 DEF Whites
  <2>6. ASSUME NEW o \in Obj, NEW x \in Obj, color'[o] = "black", Refers(refs', open', o, x)
        PROVE  color'[x] \notin Whites \/ (color[o] = "black" /\ Refers(refs, open, o, x))
    <3>1. color[o] = "black" /\ color'[o] = color[o]
      BY <1>5, <2>6
    <3>2. CASE o = t /\ (x = v \/ x = k) /\ ~\A e \in refs'[t] : e \in refs[t]
      <4>1. color[x] \notin Whites
        BY <1>5, <3>1, <3>2, KindsDiffer
      <4>2. color'[x] = color[x] \/ color'[x] = "gray"
        BY <1>5
      <4> QED
        BY <4>1, <4>2 DEF Whites
    <3> QED
      BY <2>3, <2>6, <3>1, <3>2
  <2>7. ASSUME phase = "propagate" PROVE GrayIsListed'
    <3>1. /\ Listed({o \in Obj : color[o] = "gray"}) = gray \union grayagain \union weak
          /\ gray \intersect (grayagain \union weak) = {}
          /\ grayagain \intersect weak = {}
      BY <2>7 DEF IInv, MarkInv, GrayIsListed
    <3>2. CASE color'[t] = color[t] /\ grayagain' = grayagain
      <4>1. \A o \in Obj : color'[o] = color[o]
        BY <1>5, <3>2
      <4> QED
        BY <1>6, <3>1, <3>2, <4>1 DEF GrayIsListed
    <3>3. CASE color[t] = "black" /\ color'[t] = "gray" /\ grayagain' = grayagain \union {t}
      <4>1. Listed({o \in Obj : color'[o] = "gray"}) = Listed({o \in Obj : color[o] = "gray"}) \union {t}
        BY <1>1, <1>5, <3>3 DEF Listed
      <4>2. t \notin gray \union grayagain \union weak
        BY <3>1, <3>3 DEF Listed
      <4> QED
        BY <1>6, <3>1, <3>3, <4>1, <4>2 DEF GrayIsListed
    <3> QED
      BY <1>5, <2>7, <3>2, <3>3
  <2>8. \A o \in Obj : color'[o] \in {"free", "white"}
                         \/ (color[o] \notin {"free", "white"} /\ open'[o] = open[o])
    BY <1>5, <1>6
  <2> QED
    BY <1>6, <2>1, <2>2, <2>4, <2>5, <2>6, <2>7, <2>8 DEF Mutation
<1> QED
  BY <1>6, <1>7, <1>8, <1>9, <1>10, <1>11, <1>12, MutationKeeps DEF HeapInv

LEMMA SetTableStep ==
  ASSUME IInv, NEW t \in Operands, NEW k \in Operands \union {Index}, NEW v \in Operands,
         SetTable(t, k, v)
  PROVE  IInv'
<1>1. t \in Obj /\ v \in Obj /\ k \in Obj \union {Index}
  BY OperandsAlive
<1>2. /\ Running /\ Kind[t] = "table" /\ BarrierBack(t, {k, v} \ {Index})
      /\ refs' = [refs EXCEPT ![t] = {e \in refs[t] : e[1] # k} \union {<<k, v>>}]
      /\ UNCHANGED <<mode, open, basic, finalVars, gray, weak, cycleVars>>
  BY DEF SetTable
<1>3. /\ refs' \in [Obj -> SUBSET ((Obj \union {Index}) \X Obj)]
      /\ \A o \in Obj : o # t => refs'[o] = refs[o]
      /\ \A e \in refs'[t] : e \in refs[t] \/ e = <<k, v>>
  BY <1>1, <1>2, StateTypes
<1>4. /\ color' \in [Obj -> Colors] /\ grayagain' \subseteq Obj
      /\ \A o \in Obj : o # t => color'[o] = color[o]
      /\ \/ /\ color'[t] = color[t] /\ grayagain' = grayagain
            /\ color[t] = "black" =>
                 color[v] \notin Whites /\ (k # Index => color[k] \notin Whites)
         \/ /\ color[t] = "black" /\ color'[t] = "gray"
            /\ grayagain' = IF phase = "propagate" THEN grayagain \union {t} ELSE grayagain
  <2>1. CASE color[t] = "black" /\ \E x \in {k, v} \ {Index} : color[x] \in Whites
    BY <1>1, <1>2, <2>1, StateTypes DEF BarrierBack, Backed, Colors, IInv, GCTypeOK
  <2>2. CASE ~(color[t] = "black" /\ \E x \in {k, v} \ {Index} : color[x] \in Whites)
    BY <1>1, <1>2, <2>2, StateTypes, KindsDiffer DEF BarrierBack, IInv, GCTypeOK
  <2> QED
    BY <2>1, <2>2
<1>5. GCTypeOK'
  BY <1>2, <1>3, <1>4 DEF IInv, GCTypeOK, Colors, finalVars, cycleVars
<1>6. \A o \in Obj : o # t => refs'[o] = refs[o] /\ color'[o] = color[o]
  BY <1>3, <1>4
<1> QED
  BY <1>2, <1>3, <1>4, <1>5, <1>6, TableStep

LEMMA SetModeStep ==
  ASSUME IInv, NEW t \in Operands, NEW m \in Modes, SetMode(t, m)
  PROVE  IInv'
<1>1. /\ Running /\ Kind[t] = "table" /\ refs' = refs
      /\ mode' = [mode EXCEPT ![t] = m]
      /\ UNCHANGED <<open, basic, finalVars, gray, weak, cycleVars>>
      /\ (color[t] = "black" /\ Backed(t)) \/ UNCHANGED <<color, grayagain>>
  BY DEF SetMode
<1>2. t \in Obj /\ mode' \in [Obj -> {"strong", "k", "v", "kv"}]
  BY <1>1, OperandsAlive, StateTypes, GCAssumption
<1>3. /\ color' \in [Obj -> Colors] /\ grayagain' \subseteq Obj
      /\ \A o \in Obj : o # t => color'[o] = color[o]
      /\ \/ color'[t] = color[t] /\ grayagain' = grayagain
         \/ /\ color[t] = "black" /\ color'[t] = "gray"
            /\ grayagain' = IF phase = "propagate" THEN grayagain \union {t} ELSE grayagain
  <2>1. CASE color[t] = "black" /\ Backed(t)
    BY <1>2, <2>1, StateTypes DEF Backed, Colors, IInv, GCTypeOK
  <2>2. CASE UNCHANGED <<color, grayagain>>
    BY <2>2, StateTypes DEF IInv, GCTypeOK
  <2> QED
    BY <1>1, <2>1, <2>2
<1>4. GCTypeOK'
  BY <1>1, <1>2, <1>3 DEF IInv, GCTypeOK, Colors, finalVars, cycleVars
<1>5. /\ \A o \in Obj : o # t => refs'[o] = refs[o] /\ color'[o] = color[o]
      /\ \A e \in refs'[t] : e \in refs[t]
  BY <1>1, <1>3
<1> QED
  BY <1>1, <1>3, <1>4, <1>5, TableStep

(* Of any other object the barrier marks what it is given, or makes the    *)
(* object white again when nothing is being marked.                        *)
LEMMA BarrierMarks ==
  ASSUME IInv, Running, NEW o \in Obj, NEW v \in Obj, Alive(v), BarrierF(o, v),
         UNCHANGED <<phase, grayagain, weak>>
  PROVE  /\ color' \in [Obj -> Colors] /\ gray' \subseteq Obj
         /\ \A x \in Obj : (Alive(x) <=> Alive(x)') /\ (Dead(x)' => Dead(x))
         /\ \A x \in Obj : color'[x] = "free" <=> color[x] = "free"
         /\ phase # "propagate" =>
              \A x \in Obj : color'[x] = color[x]
                               \/ (x = o /\ color[x] = "black" /\ color'[x] = "white")
         /\ phase = "propagate" =>
              /\ \A x \in Obj : color'[x] = color[x] \/
                   /\ color[x] \in Whites /\ color'[x] \in {"gray", "black"}
                   /\ color'[x] = "black" <=>
                        Kind[x] = "udata" \/ (Kind[x] = "upval" /\ open[x] = Nothing)
                   /\ Kind[x] \in {"upval", "udata"} =>
                        \A y \in Obj : Refers(refs, open, x, y) => color'[y] \notin Whites
              /\ color[o] = "black" => color'[v] \notin Whites
              /\ GrayIsListed'
<1>1. CASE ~(color[o] = "black" /\ color[v] \in Whites)
  <2>1. color' = color /\ gray' = gray
    BY <1>1 DEF BarrierF
  <2>2. phase = "propagate" => GrayIsListed'
    BY <2>1 DEF IInv, MarkInv, GrayIsListed
  <2>3. color \in [Obj -> Colors] /\ gray \subseteq Obj
    BY DEF IInv, GCTypeOK, Colors
  <2>4. \A x \in Obj : (Alive(x) <=> Alive(x)') /\ (Dead(x)' => Dead(x))
    BY <2>1 DEF Alive, Dead
  <2> QED
    BY <1>1, <2>1, <2>2, <2>3, <2>4
<1>2. CASE color[o] = "black" /\ color[v] \in Whites /\ phase = "propagate"
  <2> DEFINE M == Marked({v}, color)
  <2>1. color' = Painted(M, color) /\ gray' = gray \union Listed(M)
    BY <1>2 DEF BarrierF
  <2>2. GCTypeOK /\ RefsInv /\ color \in [Obj -> Colors] /\ {v} \in SUBSET Obj
    BY DEF IInv, HeapInv, GCTypeOK, Colors
  <2>3. MarkedFor({v}, M, color, color')
    BY <2>1, <2>2, PaintedMarks
  <2> HIDE DEF M
  <2>4. /\ M \in SUBSET Obj /\ color' \in [Obj -> Colors]
        /\ \A x \in Obj : x \notin M => color'[x] = color[x]
        /\ \A x \in M :
             /\ color[x] \in Whites /\ color'[x] \in {"gray", "black"}
             /\ color'[x] = "black" <=> Kind[x] = "udata" \/ (Kind[x] = "upval" /\ open[x] = Nothing)
        /\ \A x \in {v} : color'[x] \notin Whites
        /\ \A x \in M : Kind[x] \in {"upval", "udata"} =>
             \A y \in Obj : Refers(refs, open, x, y) => color'[y] \notin Whites
        /\ Listed({x \in Obj : color'[x] = "gray"})
             = Listed({x \in Obj : color[x] = "gray"}) \union Listed(M)
    BY <2>3 DEF MarkedFor
  <2>5. GrayIsListed'
    <3>1. /\ Listed({x \in Obj : color[x] = "gray"}) = gray \union grayagain \union weak
          /\ gray \intersect (grayagain \union weak) = {}
          /\ grayagain \intersect weak = {}
      BY <1>2 DEF IInv, MarkInv, GrayIsListed
    <3>2. \A x \in Listed(M) : x \notin gray \union grayagain \union weak
      BY <2>4, <3>1 DEF Listed, Whites
    <3> QED
      BY <2>1, <2>4, <3>1, <3>2 DEF GrayIsListed
  <2>6. \A x \in Obj : ~Dead(x)
    BY <1>2 DEF IInv, SweepInv, Sweeping
  <2>7. \A x \in Obj : (Alive(x) <=> Alive(x)') /\ (Dead(x)' => Dead(x))
    BY <2>4, <2>6 DEF Alive, Dead, Whites
  <2>8. gray' \subseteq Obj
    BY <2>1, <2>4 DEF IInv, GCTypeOK, Listed
  <2>9. \A x \in Obj : color'[x] = "free" <=> color[x] = "free"
    BY <2>4 DEF Whites
  <2> QED
    BY <1>2, <2>4, <2>5, <2>7, <2>8, <2>9
<1>3. CASE color[o] = "black" /\ color[v] \in Whites /\ phase # "propagate"
  <2>1. color' = [color EXCEPT ![o] = "white"] /\ gray' = gray
    BY <1>3 DEF BarrierF
  <2>2. /\ color' \in [Obj -> Colors] /\ gray' \subseteq Obj
        /\ \A x \in Obj : color'[x] = IF x = o THEN "white" ELSE color[x]
    BY <2>1, StateTypes DEF IInv, GCTypeOK, Colors, Whites
  <2>3. \A x \in Obj : (Alive(x) <=> Alive(x)') /\ (Dead(x)' => Dead(x))
    BY <1>3, <2>2 DEF Alive, Dead
  <2> QED
    BY <1>3, <2>2, <2>3
<1> QED
  BY <1>1, <1>2, <1>3

(* A store in an object that is no thread, for which it was called. *)
LEMMA StoreStep ==
  ASSUME IInv, Running, NEW o \in Obj, Alive(o), Kind[o] \in {"closure", "udata", "upval"},
         NEW v \in Obj, Alive(v), BarrierF(o, v), EntryOK(o, <<Index, v>>),
         \A x \in Obj : x # o => refs'[x] = refs[x],
         \A e \in refs'[o] : e \in refs[o] \/ e = <<Index, v>>,
         refs' \in [Obj -> SUBSET ((Obj \union {Index}) \X Obj)],
         UNCHANGED <<mode, open, basic, finalVars, grayagain, weak, cycleVars>>
  PROVE  IInv'
<1> USE DEF finalVars, cycleVars
<1>1. /\ color' \in [Obj -> Colors] /\ gray' \subseteq Obj
      /\ \A x \in Obj : (Alive(x) <=> Alive(x)') /\ (Dead(x)' => Dead(x))
      /\ \A x \in Obj : color'[x] = "free" <=> color[x] = "free"
      /\ phase # "propagate" =>
           \A x \in Obj : color'[x] = color[x]
                            \/ (x = o /\ color[x] = "black" /\ color'[x] = "white")
      /\ phase = "propagate" =>
           /\ \A x \in Obj : color'[x] = color[x] \/
                /\ color[x] \in Whites /\ color'[x] \in {"gray", "black"}
                /\ color'[x] = "black" <=>
                     Kind[x] = "udata" \/ (Kind[x] = "upval" /\ open[x] = Nothing)
                /\ Kind[x] \in {"upval", "udata"} =>
                     \A y \in Obj : Refers(refs, open, x, y) => color'[y] \notin Whites
           /\ color[o] = "black" => color'[v] \notin Whites
           /\ GrayIsListed'
  BY BarrierMarks
<1>2. GCTypeOK'
  BY <1>1 DEF IInv, GCTypeOK, Colors
<1>3. FreeInv'
  BY <1>1 DEF FreeInv, IInv, HeapInv, Alive
<1>4. OpenInv'
  <2> SUFFICES ASSUME NEW w \in Obj, open[w] # Nothing
               PROVE  color'[w] # "black" /\ color'[open[w]] # "free"
    BY DEF OpenInv, IInv, HeapInv
  <2>1. /\ Kind[w] = "upval" /\ color[w] # "black" /\ color[open[w]] # "free"
        /\ open[w] \in Obj
    BY StateTypes DEF IInv, HeapInv, OpenInv, OfKind
  <2> QED
    BY <1>1, <2>1
<1>5. RefsInv'
  BY DEF RefsInv, IInv, HeapInv
<1>6. GrayInv'
  <2> SUFFICES ASSUME NEW x \in Obj
               PROVE  /\ Kind[x] = "thread" => color'[x] # "black"
                      /\ color'[x] = "gray" =>
                           Kind[x] # "udata" /\ (Kind[x] = "upval" => open[x] # Nothing)
    BY DEF GrayInv
  <2>1. /\ Kind[x] = "thread" => color[x] # "black"
        /\ color[x] = "gray" => Kind[x] # "udata" /\ (Kind[x] = "upval" => open[x] # Nothing)
    BY DEF IInv, HeapInv, GrayInv
  <2> QED
    BY <1>1, <2>1
<1>7. Mutation
  <2>1. basic' # Nothing => Alive(basic)'
    <3>1. basic # Nothing => basic \in Obj /\ Alive(basic)
      BY BasicAlive DEF IInv, GCTypeOK, OfKind
    <3> QED
      BY <1>1, <3>1 DEF Alive, Dead
  <2>2. ASSUME NEW x \in Obj, NEW y \in Obj, Refers(refs', open', x, y)
        PROVE  \/ x = o /\ y = v
               \/ Refers(refs, open, x, y)
               \/ Kind[x] = "thread" /\ open[o] = x /\ y = v
    <3>1. <<Index, v>>[1] = Index /\ <<Index, v>>[2] = v /\ open' = open
      OBVIOUS
    <3>2. \A z \in Obj : \A e \in refs'[z] : e \in refs[z] \/ (z = o /\ e = <<Index, v>>)
      OBVIOUS
    <3>3. \A w \in Obj : open[w] = x => Kind[x] = "thread"
      BY StateTypes, KindsDiffer DEF OfKind
    <3> QED
      BY <2>2, <3>1, <3>2, <3>3, KindsDiffer DEF Refers
  <2>3. \A x, y \in Obj :
          Alive(x)' /\ Refers(refs', open', x, y) =>
            Alive(y)' \/ (Alive(x) /\ Refers(refs, open, x, y))
    BY <1>1, <2>2
  <2>4. ASSUME phase = "propagate", NEW x \in Obj, color[x] \in {"gray", "black"}
        PROVE  color'[x] \notin Whites
    BY <1>1, <2>4 DEF Whites
  <2>5. ASSUME phase = "propagate", NEW x \in Obj, NEW y \in Obj,
               color'[x] = "black", Refers(refs', open', x, y)
        PROVE  color'[y] \notin Whites \/ (color[x] = "black" /\ Refers(refs, open, x, y))
    <3>1. Kind[x] # "thread"
      BY <1>6, <2>5 DEF GrayInv
    <3>2. CASE x = o /\ y = v
      <4>1. CASE color[o] = "black"
        BY <1>1, <2>5, <3>2, <4>1
      <4>2. CASE color[o] # "black"
        <5>1. color' = color
          BY <4>2 DEF BarrierF
        <5> QED
          BY <2>5, <3>2, <4>2, <5>1
      <4> QED
        BY <4>1, <4>2
    <3>3. CASE Refers(refs, open, x, y)
      BY <1>1, <2>5, <3>3
    <3> QED
      BY <2>2, <2>5, <3>1, <3>2, <3>3
  <2>6. ASSUME phase # "propagate", NEW x \in Obj
        PROVE  color'[x] \in {"free", "white"} \/ (color[x] \notin {"free", "white"} /\ open'[x] = open[x])
    BY <1>1, <2>6
  <2> QED
    BY <1>1, <2>1, <2>3, <2>4, <2>5, <2>6 DEF Mutation
<1> QED
  BY <1>2, <1>3, <1>4, <1>5, <1>6, <1>7, MutationKeeps DEF HeapInv

LEMMA SetEnvStep ==
  ASSUME IInv, NEW o \in Operands, NEW t \in Operands, SetEnv(o, t)
  PROVE  IInv'
<1> USE DEF SetEnv
<1>1. o \in Obj /\ Alive(o) /\ t \in Obj /\ Alive(t)
  BY OperandsAlive
<1>2. /\ refs' \in [Obj -> SUBSET ((Obj \union {Index}) \X Obj)]
      /\ \A x \in Obj : x # o => refs'[x] = refs[x]
      /\ \A e \in refs'[o] : e \in refs[o] \/ e = <<Index, t>>
  BY <1>1, StateTypes
<1>3. EntryOK(o, <<Index, t>>)
  BY DEF EntryOK
<1> QED
  BY <1>1, <1>2, <1>3, StoreStep

LEMMA SetUpvalStep ==
  ASSUME IInv, DebugLibrary = FALSE, NEW c \in Operands, NEW w \in Values(c), NEW v \in Operands,
         SetUpval(c, w, v)
  PROVE  IInv'
<1> USE DEF SetUpval
<1>1. c \in Obj /\ Alive(c) /\ v \in Obj /\ Alive(v) /\ Kind[v] # "upval"
  BY OperandsAlive
<1>2. w \in Obj /\ Alive(w)
  BY <1>1, ValuesRefer DEF IInv, AliveInv, HeapInv
<1>3. /\ refs' \in [Obj -> SUBSET ((Obj \union {Index}) \X Obj)]
      /\ \A x \in Obj : x # w => refs'[x] = refs[x]
      /\ \A e \in refs'[w] : e \in refs[w] \/ e = <<Index, v>>
  BY <1>1, <1>2, StateTypes
<1>4. BarrierF(w, v)
  BY DEF Owners
<1>5. EntryOK(w, <<Index, v>>)
  BY <1>1 DEF EntryOK
<1> QED
  BY <1>1, <1>2, <1>3, <1>4, <1>5, StoreStep
-----------------------------------------------------------------------------
(***************************************************************************)
(* Closures and upvalues.  The new closure c refers to an upvalue w that   *)
(* is there already, in th if it is dead, or new.                          *)
(***************************************************************************)
LEMMA ClosureStep ==
  ASSUME IInv, Running, NEW th \in Threads,
         NEW c \in Obj, Kind[c] = "closure", color[c] = "free",
         NEW w \in Obj, Kind[w] = "upval",
         color'[c] = "white", color'[w] \notin {"free", "dead"}, color' \in [Obj -> Colors],
         \A x \in Obj : x # c => color'[x] = color[x]
                                  \/ (x = w /\ color[w] \in {"free", "dead"} /\ color'[w] = "white"),
         refs' \in [Obj -> SUBSET ((Obj \union {Index}) \X Obj)],
         refs'[c] = {<<Index, w>>},
         \A e \in refs'[th] : e \in refs[th] \/ e = <<Index, c>>,
         \A x \in Obj : x \notin {c, th, w} => refs'[x] = refs[x],
         \/ /\ open' = open /\ refs'[w] = refs[w]
            /\ Alive(w) \/ open[w] = th
         \/ /\ color[w] = "free" /\ color'[w] = "white"
            /\ open' \in [Obj -> OfKind("thread") \union {Nothing}]
            /\ \A x \in Obj : open'[x] = IF x = w THEN th ELSE open[x]
            /\ \A e \in refs'[w] : e \in refs[th],
         UNCHANGED <<mode, basic, finalVars, listVars, cycleVars>>
  PROVE  IInv'
<1> USE DEF finalVars, listVars, cycleVars
<1>1. /\ th \in Obj /\ Alive(th) /\ Kind[th] = "thread"
      /\ \A e \in refs[th] : e \in {Index} \X Obj /\ Alive(e[2]) /\ Kind[e[2]] # "upval"
  BY ThreadsAlive
<1>2. /\ open' \in [Obj -> OfKind("thread") \union {Nothing}]
      /\ \A x \in Obj : open'[x] = open[x] \/ (x = w /\ open'[x] = th /\ color[w] = "free"
                                                  /\ color'[w] = "white")
  BY <1>1, StateTypes DEF OfKind
<1>3. /\ <<Index, w>>[1] = Index /\ <<Index, w>>[2] = w
      /\ <<Index, c>>[1] = Index /\ <<Index, c>>[2] = c
  OBVIOUS
<1>4. GCTypeOK'
  BY <1>2 DEF IInv, GCTypeOK, Colors
<1>5. FreeInv'
  <2> SUFFICES ASSUME NEW o \in Obj, color'[o] = "free"
               PROVE  /\ refs'[o] = {} /\ open'[o] = Nothing
                      /\ o \notin finalized /\ o \notin toSweep
    BY DEF FreeInv
  <2>1. o \notin {c, w} /\ color[o] = "free"
    OBVIOUS
  <2>2. o # th
    BY <1>1, <2>1 DEF Alive
  <2>3. refs[o] = {} /\ open[o] = Nothing /\ o \notin finalized /\ o \notin toSweep
    BY <2>1 DEF IInv, HeapInv, FreeInv
  <2> QED
    BY <1>2, <2>1, <2>2, <2>3
<1>6. OpenInv'
  <2> SUFFICES ASSUME NEW x \in Obj, open'[x] # Nothing
               PROVE  /\ Kind[x] = "upval" /\ color'[x] # "black" /\ x \notin toSweep
                      /\ color'[open'[x]] # "free"
    BY DEF OpenInv
  <2>1. CASE open'[x] = open[x]
    <3>1. /\ Kind[x] = "upval" /\ color[x] # "black" /\ x \notin toSweep
          /\ color[open[x]] # "free" /\ open[x] \in Obj
      BY <2>1, StateTypes DEF IInv, HeapInv, OpenInv, OfKind
    <3> QED
      BY <2>1, <3>1
  <2>2. CASE x = w /\ open'[x] = th /\ color[w] = "free" /\ color'[w] = "white"
    BY <1>1, <2>2 DEF IInv, HeapInv, FreeInv, Alive
  <2> QED
    BY <1>2, <2>1, <2>2
<1>7. RefsInv'
  <2>1. EntryOK(c, <<Index, w>>) /\ EntryOK(th, <<Index, c>>)
    BY <1>1, <1>3 DEF EntryOK
  <2>2. \A e \in refs[th] : EntryOK(w, e)
    BY <1>1, KindsDiffer DEF EntryOK
  <2> QED
    BY <2>1, <2>2 DEF RefsInv, IInv, HeapInv
<1>8. GrayInv'
  <2> SUFFICES ASSUME NEW x \in Obj
               PROVE  /\ Kind[x] = "thread" => color'[x] # "black"
                      /\ color'[x] = "gray" =>
                           Kind[x] # "udata" /\ (Kind[x] = "upval" => open'[x] # Nothing)
    BY DEF GrayInv
  <2>1. /\ Kind[x] = "thread" => color[x] # "black"
        /\ color[x] = "gray" => Kind[x] # "udata" /\ (Kind[x] = "upval" => open[x] # Nothing)
    BY DEF IInv, HeapInv, GrayInv
  <2> QED
    BY <1>2, <2>1
<1>9. Mutation
  <2>1. basic' # Nothing => Alive(basic)'
    <3>1. basic # Nothing => basic \in Obj /\ Alive(basic) /\ Kind[basic] = "table"
      BY BasicAlive DEF IInv, GCTypeOK, OfKind
    <3> QED
      BY <3>1 DEF Alive, Dead
  <2>2. \A o \in Obj : (Alive(o) => Alive(o)') /\ (Dead(o)' => Dead(o))
    BY DEF Alive, Dead
  <2>3. Alive(c)' /\ Alive(w)'
    BY DEF Alive, Dead
  <2>4. \A e \in refs[th] : e[2] \in Obj /\ Alive(e[2]) /\ e[1] = Index
                              /\ Refers(refs, open, th, e[2])
    BY <1>1 DEF Refers
  <2>5. \A x, y \in Obj : Alive(x) /\ Refers(refs, open, x, y) => Alive(y)
    BY DEF IInv, AliveInv
  <2>6. ASSUME NEW x \in Obj, NEW y \in Obj, Alive(x)', Refers(refs', open', x, y)
        PROVE  \/ Refers(refs, open, x, y) /\ (Alive(x) \/ x = w)
               \/ Alive(y)' /\ (color'[x] = "white" \/ Kind[x] = "thread")
    <3>1. CASE x = c
      <4>1. \E e \in refs'[c] : e[2] = y \/ (e[1] = y /\ y # Index)
        <5>1. \A z \in Obj : open'[z] # c
          BY <1>2, KindsDiffer DEF OfKind
        <5> QED
          BY <2>6, <3>1, <5>1 DEF Refers
      <4> QED
        BY <1>3, <2>3, <3>1, <4>1, KindsDiffer
    <3>2. CASE x = w
      <4>1. \E e \in refs'[w] : e[2] = y \/ (e[1] = y /\ y # Index)
        <5>1. \A z \in Obj : open'[z] # w
          BY <1>2, KindsDiffer DEF OfKind
        <5> QED
          BY <2>6, <3>2, <5>1 DEF Refers
      <4>2. CASE refs'[w] = refs[w]
        BY <3>2, <4>1, <4>2 DEF Refers
      <4>3. CASE color'[w] = "white" /\ \A e \in refs'[w] : e \in refs[th]
        BY <2>2, <2>4, <3>2, <4>1, <4>3, KindsDiffer
      <4> QED
        BY <4>2, <4>3
    <3>3. CASE x \notin {c, w}
      <4>1. Alive(x)
        BY <2>6, <3>3 DEF Alive, Dead
      <4>2. CASE \E e \in refs'[x] : e[2] = y \/ (e[1] = y /\ y # Index)
        <5>1. \A e \in refs'[x] : e \in refs[x] \/ (x = th /\ e = <<Index, c>>)
          BY <3>3
        <5> QED
          BY <1>1, <1>3, <2>3, <4>1, <4>2, <5>1, KindsDiffer DEF Refers
      <4>3. CASE \E z \in Obj : open'[z] = x /\ \E e \in refs'[z] : e[2] = y
        <5>1. PICK z \in Obj : open'[z] = x /\ \E e \in refs'[z] : e[2] = y
          BY <4>3
        <5>2. z \notin {c, th}
          <6>1. Kind[z] = "upval"
            BY <1>6, <5>1, KindsDiffer DEF OpenInv
          <6> QED
            BY <1>1, <6>1
        <5>3. CASE refs'[z] = refs[z] /\ open'[z] = open[z]
          BY <4>1, <5>1, <5>3 DEF Refers
        <5>4. CASE z = w /\ (\A e \in refs'[w] : e \in refs[th]) /\ open'[w] = th
          BY <1>1, <2>2, <2>4, <5>1, <5>4
        <5> QED
          BY <5>2, <5>3, <5>4, StateTypes
      <4> QED
        BY <2>6, <4>2, <4>3 DEF Refers
    <3> QED
      BY <3>1, <3>2, <3>3
  <2>7. ASSUME NEW x \in Obj, NEW y \in Obj, Alive(x)', Refers(refs', open', x, y)
        PROVE  Alive(y)' \/ (Alive(x) /\ Refers(refs, open, x, y))
    <3>1. CASE Refers(refs, open, x, y) /\ ~Alive(x) /\ x = w
      <4>1. open[w] = th \/ refs[w] = {}
        BY <3>1 DEF IInv, HeapInv, FreeInv
      <4>2. \A z \in Obj : open[z] # w
        BY StateTypes, KindsDiffer DEF OfKind
      <4>3. PICK e \in refs[w] : e[2] = y \/ (e[1] = y /\ y # Index)
        BY <3>1, <4>2 DEF Refers
      <4>4. e[1] = Index
        BY DEF IInv, HeapInv, RefsInv, EntryOK
      <4>5. Refers(refs, open, th, y)
        BY <4>1, <4>3, <4>4, KindsDiffer DEF Refers
      <4> QED
        BY <1>1, <2>2, <2>5, <4>5
    <3> QED
      BY <2>6, <2>7, <3>1
  <2>8. ASSUME phase = "propagate"
        PROVE  /\ \A o \in Obj : color[o] \in {"gray", "black"} => color'[o] \notin Whites
               /\ \A o, x \in Obj :
                    color'[o] = "black" /\ Refers(refs', open', o, x) =>
                      color'[x] \notin Whites \/ (color[o] = "black" /\ Refers(refs, open, o, x))
               /\ GrayIsListed'
    <3>1. \A o \in Obj : color[o] \in {"gray", "black"} => color'[o] \notin Whites
      BY DEF Whites
    <3>2. \A o \in Obj : color'[o] = "black" =>
             color[o] = "black" /\ Alive(o)' /\ Kind[o] # "thread" /\ color'[o] # "white"
      BY <1>8 DEF GrayInv, Alive, Dead
    <3>3. {o \in Obj : color'[o] = "gray"} = {o \in Obj : color[o] = "gray"}
      OBVIOUS
    <3>4. GrayIsListed'
      BY <2>8, <3>3 DEF GrayIsListed, IInv, MarkInv
    <3> QED
      BY <2>6, <3>1, <3>2, <3>4
  <2>9. \A o \in Obj : color'[o] \in {"free", "white"}
                         \/ (color[o] \notin {"free", "white"} /\ open'[o] = open[o])
    BY <1>2
  <2> QED
    BY <2>1, <2>2, <2>7, <2>8, <2>9 DEF Mutation
<1> QED
  BY <1>4, <1>5, <1>6, <1>7, <1>8, <1>9, MutationKeeps DEF HeapInv

LEMMA ShareUpvalStep ==
  ASSUME IInv, NEW c \in Obj, NEW th \in Threads, NEW p \in Operands \intersect OfKind("closure"),
         NEW w \in Values(p) \intersect OfKind("upval"), ShareUpval(c, th, w)
  PROVE  IInv'
<1> USE DEF ShareUpval, NewClosure, OfKind
<1>1. th \in Obj /\ Alive(th) /\ Kind[th] = "thread"
  BY ThreadsAlive
<1>2. p \in Obj /\ Alive(p)
  BY OperandsAlive
<1>3. w \in Obj /\ Kind[w] = "upval" /\ Alive(w)
  BY <1>2, ValuesRefer DEF IInv, AliveInv, HeapInv
<1>4. /\ color' \in [Obj -> Colors] /\ color'[c] = "white"
      /\ \A x \in Obj : x # c => color'[x] = color[x]
  BY StateTypes DEF Colors, Whites
<1>5. /\ refs' \in [Obj -> SUBSET ((Obj \union {Index}) \X Obj)]
      /\ refs'[c] = {<<Index, w>>}
      /\ refs'[th] = refs[th] \union {<<Index, c>>}
      /\ \A x \in Obj : x \notin {c, th} => refs'[x] = refs[x]
  BY <1>1, <1>3, StateTypes
<1>6. color'[w] \notin {"free", "dead"} /\ refs'[w] = refs[w]
  BY <1>1, <1>3, <1>4, <1>5 DEF Alive, Dead
<1> QED
  BY <1>3, <1>4, <1>5, <1>6, ClosureStep

LEMMA FindUpvalStep ==
  ASSUME IInv, NEW c \in Obj, NEW th \in Threads, NEW w \in Upvals(th), FindUpval(c, th, w)
  PROVE  IInv'
<1> USE DEF FindUpval, NewClosure, Resurrected
<1>1. th \in Obj /\ Alive(th) /\ Kind[th] = "thread"
  BY ThreadsAlive
<1>2. w \in Obj /\ Kind[w] = "upval" /\ open[w] = th
  BY ThreadsAlive
<1>3. /\ color' \in [Obj -> Colors] /\ color'[c] = "white"
      /\ color'[w] = IF color[w] \in {"free", "dead"} THEN "white" ELSE color[w]
      /\ \A x \in Obj : x \notin {c, w} => color'[x] = color[x]
  BY <1>2, StateTypes DEF Colors, Whites, Dead
<1>4. /\ refs' \in [Obj -> SUBSET ((Obj \union {Index}) \X Obj)]
      /\ refs'[c] = {<<Index, w>>}
      /\ refs'[th] = refs[th] \union {<<Index, c>>}
      /\ \A x \in Obj : x \notin {c, th} => refs'[x] = refs[x]
  BY <1>1, <1>2, StateTypes
<1>5. refs'[w] = refs[w] /\ color'[w] \notin {"free", "dead"}
  BY <1>1, <1>2, <1>3, <1>4
<1> QED
  BY <1>2, <1>3, <1>4, <1>5, ClosureStep

LEMMA NewUpvalStep ==
  ASSUME IInv, NEW c \in Obj, NEW th \in Threads, NEW w \in Obj, NEW e \in refs[th],
         NewUpval(c, th, w, e)
  PROVE  IInv'
<1> USE DEF NewUpval, NewClosure
<1>1. th \in Obj /\ Alive(th) /\ Kind[th] = "thread"
  BY ThreadsAlive
<1>2. /\ color' \in [Obj -> Colors] /\ color'[c] = "white" /\ color'[w] = "white"
      /\ \A x \in Obj : x \notin {c, w} => color'[x] = color[x]
  BY StateTypes DEF Colors, Whites
<1>3. /\ refs' \in [Obj -> SUBSET ((Obj \union {Index}) \X Obj)]
      /\ refs'[c] = {<<Index, w>>} /\ refs'[w] = {e}
      /\ refs'[th] = (refs[th] \ {e}) \union {<<Index, c>>}
      /\ \A x \in Obj : x \notin {c, th, w} => refs'[x] = refs[x]
  BY <1>1, StateTypes
<1>4. /\ Running /\ Kind[c] = "closure" /\ color[c] = "free"
      /\ Kind[w] = "upval" /\ color[w] = "free" /\ color'[w] \notin {"free", "dead"}
      /\ open' \in [Obj -> OfKind("thread") \union {Nothing}]
      /\ \A x \in Obj : open'[x] = IF x = w THEN th ELSE open[x]
      /\ \A x \in refs'[w] : x \in refs[th]
      /\ \A x \in refs'[th] : x \in refs[th] \/ x = <<Index, c>>
      /\ UNCHANGED <<mode, basic, finalVars, listVars, cycleVars>>
  BY <1>1, <1>2, <1>3, StateTypes DEF OfKind
<1> HIDE DEF NewUpval, NewClosure
<1>5. \A x \in Obj : x # c => color'[x] = color[x]
                                \/ (x = w /\ color[w] \in {"free", "dead"} /\ color'[w] = "white")
  BY <1>2, <1>4
<1> QED
  BY <1>2, <1>3, <1>4, <1>5, ClosureStep
(* The thread's own assignment needs no barrier: no thread is black. *)
LEMMA SetLocalStep ==
  ASSUME IInv, NEW th \in Threads, NEW w \in Upvals(th), NEW v \in Operands, SetLocal(th, w, v)
  PROVE  IInv'
<1> USE DEF SetLocal, finalVars, listVars, cycleVars
<1>1. /\ th \in Obj /\ Alive(th) /\ w \in Obj /\ Kind[w] = "upval" /\ open[w] = th
      /\ v \in Obj /\ Alive(v) /\ Kind[v] # "upval"
  BY ThreadsAlive, OperandsAlive
<1>2. /\ refs' \in [Obj -> SUBSET ((Obj \union {Index}) \X Obj)]
      /\ refs'[w] = {<<Index, v>>} /\ \A x \in Obj : x # w => refs'[x] = refs[x]
  BY <1>1, StateTypes
<1>3. <<Index, v>>[1] = Index /\ <<Index, v>>[2] = v
  OBVIOUS
<1>4. GCTypeOK'
  BY <1>2 DEF IInv, GCTypeOK
<1>5. color[w] \notin {"free", "black"}
  BY <1>1, KindsDiffer DEF IInv, HeapInv, FreeInv, OpenInv
<1>6. FreeInv'
  BY <1>2, <1>5 DEF FreeInv, IInv, HeapInv
<1>7. OpenInv' /\ GrayInv'
  BY DEF OpenInv, GrayInv, IInv, HeapInv
<1>8. RefsInv'
  <2>1. EntryOK(w, <<Index, v>>)
    BY <1>1, <1>3 DEF EntryOK
  <2> QED
    BY <1>2, <2>1 DEF RefsInv, IInv, HeapInv
<1>9. Mutation
  <2>1. basic' # Nothing => Alive(basic)'
    BY BasicAlive DEF Alive, Dead
  <2>2. \A o \in Obj : (Alive(o) <=> Alive(o)') /\ (Dead(o) <=> Dead(o)')
    BY DEF Alive, Dead
  <2>3. ASSUME NEW x \in Obj, NEW y \in Obj, Refers(refs', open', x, y)
        PROVE  Refers(refs, open, x, y) \/ (y = v /\ (x = w \/ x = th))
    <3>1. \A z \in Obj : \A e \in refs'[z] : e \in refs[z] \/ (z = w /\ e = <<Index, v>>)
      BY <1>2
    <3> QED
      BY <1>1, <1>3, <2>3, <3>1, KindsDiffer DEF Refers
  <2>4. ASSUME phase = "propagate"
        PROVE  /\ \A o \in Obj : color[o] \in {"gray", "black"} => color'[o] \notin Whites
               /\ \A o, x \in Obj :
                    color'[o] = "black" /\ Refers(refs', open', o, x) =>
                      color'[x] \notin Whites \/ (color[o] = "black" /\ Refers(refs, open, o, x))
               /\ GrayIsListed'
    <3>1. \A o \in Obj : color[o] \in {"gray", "black"} => color'[o] \notin Whites
      BY DEF Whites
    <3>2. color[th] # "black"
      BY <1>1, StateTypes, KindsDiffer DEF IInv, HeapInv, GrayInv, OfKind
    <3>3. GrayIsListed'
      BY DEF GrayIsListed, IInv, MarkInv
    <3> QED
      BY <1>5, <2>3, <3>1, <3>2, <3>3
  <2> QED
    BY <1>1, <2>1, <2>2, <2>3, <2>4 DEF Mutation
<1> QED
  BY <1>4, <1>6, <1>7, <1>8, <1>9, MutationKeeps DEF HeapInv

(* A closed upvalue is an object of its own: freed if it was dead, marked  *)
(* with what it holds if it was marked.                                    *)
LEMMA CloseUpvalStep ==
  ASSUME IInv, NEW th \in Threads, NEW w \in Upvals(th), CloseUpval(th, w)
  PROVE  IInv'
<1> USE DEF finalVars, cycleVars
<1>1. /\ th \in Obj /\ w \in Obj /\ Kind[w] = "upval" /\ open[w] = th /\ open[w] # Nothing
      /\ color[w] \notin {"free", "black"} /\ w \notin toSweep
  BY ThreadsAlive, KindsDiffer DEF IInv, HeapInv, FreeInv, OpenInv
<1>2. /\ Running /\ UNCHANGED <<mode, basic, finalVars, grayagain, weak, cycleVars>>
      /\ open' \in [Obj -> OfKind("thread") \union {Nothing}]
      /\ open'[w] = Nothing /\ \A x \in Obj : x # w => open'[x] = open[x]
  BY <1>1, StateTypes DEF CloseUpval
<1>3. basic # Nothing => basic \in Obj /\ Alive(basic) /\ Kind[basic] = "table"
  BY BasicAlive DEF IInv, GCTypeOK, OfKind
<1>4. CASE Dead(w)
  <2>1. /\ color' \in [Obj -> Colors] /\ color'[w] = "free"
        /\ \A x \in Obj : x # w => color'[x] = color[x]
        /\ refs' \in [Obj -> SUBSET ((Obj \union {Index}) \X Obj)]
        /\ refs'[w] = {} /\ \A x \in Obj : x # w => refs'[x] = refs[x]
        /\ gray' = gray
    BY <1>1, <1>4, StateTypes DEF CloseUpval, Colors
  <2>2. GCTypeOK'
    BY <1>2, <2>1 DEF IInv, GCTypeOK, Colors
  <2>3. w \notin finalized /\ phase # "propagate"
    BY <1>1, <1>4 DEF IInv, GCTypeOK, OfKind, SweepInv, Sweeping
  <2>4. FreeInv'
    BY <1>1, <1>2, <2>1, <2>3 DEF FreeInv, IInv, HeapInv
  <2>5. OpenInv'
    <3>1. \A x \in Obj : open[x] # Nothing => open[x] \in Obj /\ open[x] # w
      BY <1>1, StateTypes, KindsDiffer DEF OfKind
    <3> QED
      BY <1>2, <2>1, <3>1 DEF OpenInv, IInv, HeapInv
  <2>6. RefsInv' /\ GrayInv'
    BY <1>2, <2>1 DEF RefsInv, GrayInv, IInv, HeapInv
  <2>7. Mutation
    <3>1. \A o \in Obj : (Alive(o) <=> Alive(o)') /\ (Dead(o)' => Dead(o))
      BY <1>4, <2>1 DEF Alive, Dead
    <3>2. \A o, x \in Obj : Refers(refs', open', o, x) => Refers(refs, open, o, x)
      BY <1>2, <2>1, KindsDiffer DEF Refers
    <3>3. basic' # Nothing => Alive(basic)'
      BY <1>1, <1>2, <1>3, <2>1 DEF Alive, Dead
    <3>4. \A o \in Obj : color'[o] \in {"free", "white"}
                           \/ (color[o] \notin {"free", "white"} /\ open'[o] = open[o])
      BY <1>2, <2>1
    <3> QED
      BY <1>2, <2>3, <3>1, <3>2, <3>3, <3>4 DEF Mutation
  <2> QED
    BY <1>2, <2>2, <2>4, <2>5, <2>6, <2>7, MutationKeeps DEF HeapInv
<1>5. CASE ~Dead(w)
  <2>1. LinkUpval(w) /\ refs' = refs
    BY <1>5 DEF CloseUpval
  <2>2. \A o, x \in Obj : Refers(refs', open', o, x) => Refers(refs, open, o, x)
    BY <1>2, <2>1, KindsDiffer DEF Refers
  <2>3. CASE color[w] = "gray" /\ phase = "propagate"
    <3> DEFINE c == [color EXCEPT ![w] = "black"]
               M == Marked(Values(w), c)
    <3>1. color' = Painted(M, c) /\ gray' = gray \union Listed(M)
      BY <2>1, <2>3 DEF LinkUpval
    <3>2. /\ GCTypeOK /\ RefsInv /\ Values(w) \in SUBSET Obj
          /\ c \in [Obj -> Colors] /\ c[w] = "black" /\ \A x \in Obj : x # w => c[x] = color[x]
      BY <1>1, ValuesRefer, StateTypes DEF IInv, HeapInv, Colors
    <3>3. MarkedFor(Values(w), M, c, color')
      BY <3>1, <3>2, PaintedMarks
    <3> HIDE DEF M, c
    <3>4. /\ M \in SUBSET Obj /\ color' \in [Obj -> Colors]
          /\ color'[w] = "black" /\ w \notin M
          /\ \A x \in Obj : x \notin M /\ x # w => color'[x] = color[x]
          /\ \A x \in M :
               /\ color[x] \in Whites /\ color'[x] \in {"gray", "black"}
               /\ color'[x] = "black" <=> Kind[x] = "udata" \/ (Kind[x] = "upval" /\ open[x] = Nothing)
               /\ Kind[x] \in {"upval", "udata"} =>
                    \A y \in Obj : Refers(refs, open, x, y) => color'[y] \notin Whites
          /\ \A x \in Values(w) : color'[x] \notin Whites
          /\ Listed({x \in Obj : color'[x] = "gray"})
               = Listed({x \in Obj : c[x] = "gray"}) \union Listed(M)
      BY <1>1, <3>2, <3>3 DEF MarkedFor, Whites
    <3>5. \A y \in Obj : Refers(refs, open, w, y) => color'[y] \notin Whites
      BY <1>1, <3>2, <3>4, ValuesRefer
    <3>6. GCTypeOK'
      BY <1>2, <2>1, <3>1, <3>4 DEF IInv, GCTypeOK, Listed, Colors
    <3>7. FreeInv'
      BY <1>1, <1>2, <2>1, <3>4 DEF FreeInv, IInv, HeapInv
    <3>8. OpenInv'
      <4>1. \A x \in Obj : open[x] # Nothing => open[x] \in Obj
        BY StateTypes DEF OfKind
      <4> QED
        BY <1>2, <3>4, <4>1 DEF OpenInv, IInv, HeapInv
    <3>9. RefsInv' /\ GrayInv'
      <4>1. \A x \in Obj :
              /\ Kind[x] = "thread" => color'[x] # "black"
              /\ color'[x] = "gray" => Kind[x] # "udata" /\ (Kind[x] = "upval" => open'[x] # Nothing)
        BY <1>1, <1>2, <3>4 DEF GrayInv, IInv, HeapInv
      <4> QED
        BY <2>1, <4>1 DEF RefsInv, GrayInv, IInv, HeapInv
    <3>10. Mutation
      <4>1. \A o \in Obj : ~Dead(o)
        BY <2>3 DEF IInv, SweepInv, Sweeping
      <4>2. \A o \in Obj : (Alive(o) => Alive(o)') /\ ~Dead(o)'
        BY <3>4, <4>1 DEF Alive, Dead, Whites
      <4>3. basic' # Nothing => Alive(basic)'
        BY <1>2, <1>3, <4>2 DEF Alive, Dead
      <4>4. \A o \in Obj : color[o] \in {"gray", "black"} => color'[o] \notin Whites
        BY <3>4 DEF Whites
      <4>5. \A o, x \in Obj :
              color'[o] = "black" /\ Refers(refs', open', o, x) =>
                color'[x] \notin Whites \/ (color[o] = "black" /\ Refers(refs, open, o, x))
        BY <2>2, <3>4, <3>5
      <4>6. GrayIsListed'
        <5>1. /\ Listed({x \in Obj : color[x] = "gray"}) = gray \union grayagain \union weak
              /\ gray \intersect (grayagain \union weak) = {}
              /\ grayagain \intersect weak = {}
          BY <2>3 DEF IInv, MarkInv, GrayIsListed
        <5>2. Listed({x \in Obj : c[x] = "gray"}) = Listed({x \in Obj : color[x] = "gray"})
          BY <1>1, <3>2 DEF Listed
        <5>3. \A x \in Listed(M) : x \notin gray \union grayagain \union weak
          BY <3>4, <5>1 DEF Listed, Whites
        <5> QED
          BY <1>2, <3>1, <3>4, <5>1, <5>2, <5>3 DEF GrayIsListed
      <4>7. \A o, x \in Obj :
              Alive(o)' /\ Refers(refs', open', o, x) =>
                Alive(x)' \/ (Alive(o) /\ Refers(refs, open, o, x))
        <5>1. \A o \in Obj : Alive(o)' => Alive(o)
          BY <1>1, <3>4, <4>1 DEF Alive, Dead, Whites
        <5> QED
          BY <2>2, <5>1
      <4> QED
        BY <1>2, <2>3, <4>2, <4>3, <4>4, <4>5, <4>6, <4>7 DEF Mutation
    <3> QED
      BY <1>2, <3>6, <3>7, <3>8, <3>9, <3>10, MutationKeeps DEF HeapInv
  <2>4. CASE ~(color[w] = "gray" /\ phase = "propagate")
    <3>1. /\ gray' = gray /\ color' \in [Obj -> Colors]
          /\ color'[w] = "white" /\ \A x \in Obj : x # w => color'[x] = color[x]
      <4>1. color[w] # "gray" => color[w] = "white"
        BY <1>1, <1>5, StateTypes DEF Colors, Whites, Dead
      <4> QED
        BY <1>1, <2>1, <2>4, <4>1, StateTypes DEF LinkUpval, Colors, Whites
    <3>2. phase = "propagate" => color' = color
      BY <2>1, <2>4 DEF LinkUpval
    <3>3. GCTypeOK'
      BY <1>2, <2>1, <3>1 DEF IInv, GCTypeOK, Colors
    <3>4. FreeInv'
      BY <1>1, <1>2, <2>1, <3>1 DEF FreeInv, IInv, HeapInv
    <3>5. OpenInv'
      <4>1. \A x \in Obj : open[x] # Nothing => open[x] \in Obj
        BY StateTypes DEF OfKind
      <4> QED
        BY <1>2, <3>1, <4>1 DEF OpenInv, IInv, HeapInv
    <3>6. RefsInv' /\ GrayInv'
      BY <1>2, <2>1, <3>1 DEF RefsInv, GrayInv, IInv, HeapInv
    <3>7. Mutation
      <4>1. \A o \in Obj : (Alive(o) <=> Alive(o)') /\ (Dead(o)' => Dead(o))
        BY <1>1, <1>5, <3>1 DEF Alive, Dead
      <4>2. basic' # Nothing => Alive(basic)'
        BY <1>1, <1>2, <1>3, <3>1 DEF Alive, Dead
      <4>3. ASSUME phase = "propagate"
            PROVE  /\ \A o \in Obj : color[o] \in {"gray", "black"} => color'[o] \notin Whites
                   /\ \A o, x \in Obj :
                        color'[o] = "black" /\ Refers(refs', open', o, x) =>
                          color'[x] \notin Whites \/ (color[o] = "black" /\ Refers(refs, open, o, x))
                   /\ GrayIsListed'
        <5>1. color' = color
          BY <3>2, <4>3
        <5>2. GrayIsListed'
          BY <1>2, <3>1, <5>1 DEF GrayIsListed, IInv, MarkInv
        <5> QED
          BY <2>2, <5>1, <5>2 DEF Whites
      <4>4. \A o \in Obj : color'[o] \in {"free", "white"}
                             \/ (color[o] \notin {"free", "white"} /\ open'[o] = open[o])
        BY <1>2, <3>1
      <4> QED
        BY <1>2, <2>2, <4>1, <4>2, <4>3, <4>4 DEF Mutation
    <3> QED
      BY <1>2, <3>3, <3>4, <3>5, <3>6, <3>7, MutationKeeps DEF HeapInv
  <2> QED
    BY <2>3, <2>4
<1> QED
  BY <1>4, <1>5
-----------------------------------------------------------------------------
(***************************************************************************)
(* The collector's steps: marking.  Each first sets some colors itself, to *)
(* c, and then marks S.                                                    *)
(***************************************************************************)
Repainted(S, c) ==
  /\ \A o \in Obj : \/ c[o] = color[o]
                    \/ c[o] = "white" /\ o \in tmudata'
                    \/ c[o] = "gray" /\ Kind[o] \in {"table", "thread"} /\ color[o] # "free"
                    \/ c[o] = "black" /\ Kind[o] \in {"table", "closure"} /\ color[o] # "free"
  /\ \A o \in Obj \ tmudata' : c[o] = "black" =>
       \A v \in Obj : Refers(refs, open, o, v) => v \in S \/ color[v] \notin Whites
  /\ tmudata' \subseteq S \union {o \in Obj : c[o] = color[o]}
  /\ tmudata' \subseteq finalized' /\ \A u \in finalized' : u \in OfKind("udata") /\ Alive(u)

(* Marking undoes nothing, and leaves no upvalue or userdata half done. *)
Progress ==
  /\ color' \in [Obj -> Colors]
  /\ AliveInv' /\ BlackInv' /\ HeapInv'
  /\ \A o \in Obj : ~Dead(o)' /\ (color'[o] = "white" => color[o] \notin {"gray", "free"})
  /\ \A o \in Obj : color[o] \notin Whites => color'[o] \notin Whites
  /\ \A o \in Obj : Done(o) => Done(o)'
  /\ \A w \in Obj : open[w] # Nothing /\ color'[w] = "gray" => color[w] = "gray" \/ Done(w)'

LEMMA MarkingProgress ==
  ASSUME IInv, phase \notin Sweeping, UNCHANGED <<heapVars, toSweep>>,
         NEW S \in SUBSET Obj, NEW M, NEW c \in [Obj -> Colors],
         Repainted(S, c), MarkedFor(S, M, c, color')
  PROVE  Progress
<1>1. /\ M \in SUBSET Obj /\ color' \in [Obj -> Colors]
      /\ \A o \in Obj : o \notin M => color'[o] = c[o]
      /\ \A o \in M :
           /\ c[o] \in Whites /\ color'[o] \in {"gray", "black"}
           /\ color'[o] = "black" <=> Kind[o] = "udata" \/ (Kind[o] = "upval" /\ open[o] = Nothing)
      /\ \A o \in S : color'[o] \notin Whites
      /\ \A o \in M : Kind[o] \in {"upval", "udata"} =>
           \A v \in Obj : Refers(refs, open, o, v) => color'[v] \notin Whites
  BY DEF MarkedFor
<1>2. /\ \A o \in Obj :
           \/ c[o] = color[o]
           \/ c[o] = "white" /\ o \in tmudata' /\ o \in S
           \/ c[o] = "gray" /\ Kind[o] \in {"table", "thread"} /\ color[o] # "free"
           \/ c[o] = "black" /\ Kind[o] \in {"table", "closure"} /\ color[o] # "free"
      /\ \A o \in Obj \ tmudata' : c[o] = "black" =>
           \A v \in Obj : Refers(refs, open, o, v) => v \in S \/ color[v] \notin Whites
      /\ tmudata' \subseteq finalized' /\ \A u \in finalized' : u \in OfKind("udata") /\ Alive(u)
  BY DEF Repainted
<1>3. refs' = refs /\ open' = open /\ mode' = mode /\ basic' = basic /\ toSweep' = toSweep
  BY DEF heapVars
<1>4. \A o \in Obj : color[o] # "dead" /\ color[o] \in Colors
  BY StateTypes DEF IInv, SweepInv, Dead
<1>5. \A o \in Obj : color[o] \notin Whites => color'[o] \notin Whites
  BY <1>1, <1>2 DEF Whites
<1>6. \A o \in Obj : color'[o] # "dead" /\ (color[o] = "free" <=> color'[o] = "free")
  BY <1>1, <1>2, <1>4 DEF Whites, OfKind, Alive
<1>7. \A o \in Obj : ~Dead(o)' /\ (color'[o] = "white" => color[o] \notin {"gray", "free"})
  BY <1>1, <1>5, <1>6 DEF Dead, Whites
<1>8. AliveInv'
  <2>1. \A o \in Obj : Alive(o) <=> Alive(o)'
    BY <1>4, <1>6 DEF Alive, Dead
  <2>2. \A o, v \in Obj : Alive(o)' /\ Refers(refs', open', o, v) => Alive(v)'
    BY <1>3, <2>1 DEF IInv, AliveInv
  <2>3. \A u \in tmudata' : Alive(u)'
    BY <1>2, <2>1 DEF OfKind
  <2>4. \A o \in Roots' : o \in Obj /\ Alive(o)'
    BY <1>3, <2>1, KindsDiffer DEF Roots, IInv, AliveInv, GCTypeOK, OfKind
  <2> QED
    BY <2>2, <2>3, <2>4 DEF AliveInv
<1>9. BlackInv'
  <2> SUFFICES ASSUME NEW o \in Obj, o \notin tmudata', color'[o] = "black",
                      NEW v \in Obj, Refers(refs, open, o, v)
               PROVE  color'[v] \notin Whites
    BY <1>3 DEF BlackInv, Done
  <2>1. CASE o \in M
    BY <1>1, <2>1
  <2>2. CASE o \notin M
    BY <1>1, <1>2, <1>5, <2>2
  <2> QED
    BY <2>1, <2>2
<1>10. HeapInv'
  <2>1. FreeInv'
    BY <1>2, <1>3, <1>6 DEF FreeInv, IInv, HeapInv, Alive
  <2>2. OpenInv'
    <3>1. \A w \in Obj : open[w] # Nothing =>
            /\ Kind[w] = "upval" /\ color[w] # "black" /\ w \notin toSweep
            /\ color[open[w]] # "free" /\ open[w] \in Obj
      BY StateTypes DEF IInv, HeapInv, OpenInv, OfKind
    <3>2. \A w \in Obj : open[w] # Nothing => color'[w] # "black"
      BY <1>1, <1>2, <3>1
    <3> QED
      BY <1>3, <1>6, <3>1, <3>2 DEF OpenInv
  <2>3. RefsInv'
    BY <1>3 DEF RefsInv, IInv, HeapInv
  <2>4. GrayInv'
    <3>1. ASSUME NEW o \in Obj
          PROVE  /\ Kind[o] = "thread" => color'[o] # "black"
                 /\ color'[o] = "gray" => Kind[o] # "udata" /\ (Kind[o] = "upval" => open[o] # Nothing)
      <4>1. /\ Kind[o] = "thread" => color[o] # "black"
            /\ color[o] = "gray" => Kind[o] # "udata" /\ (Kind[o] = "upval" => open[o] # Nothing)
        BY DEF IInv, HeapInv, GrayInv
      <4>2. CASE o \in M
        BY <1>1, <4>2
      <4>3. CASE o \notin M
        BY <1>1, <1>2, <4>1, <4>3
      <4> QED
        BY <4>2, <4>3
    <3> QED
      BY <1>3, <3>1 DEF GrayInv
  <2> QED
    BY <2>1, <2>2, <2>3, <2>4 DEF HeapInv
<1>11. \A o \in Obj : Done(o) => Done(o)'
  BY <1>3, <1>5 DEF Done
<1>12. ASSUME NEW w \in Obj, open[w] # Nothing, color'[w] = "gray", color[w] # "gray"
       PROVE  Done(w)'
  <2>1. Kind[w] = "upval"
    BY <1>12 DEF IInv, HeapInv, OpenInv
  <2>2. w \in M
    BY <1>1, <1>2, <1>12, <2>1
  <2> QED
    BY <1>1, <1>3, <2>1, <2>2 DEF Done
<1> QED
  BY <1>1, <1>5, <1>7, <1>8, <1>9, <1>10, <1>11, <1>12 DEF Progress

LEMMA MarkingKeeps ==
  ASSUME IInv, Progress, UNCHANGED <<heapVars, toSweep>>,
         phase' \in Marking, full' \in {"no", "sweeping", "marking"},
         finalized' \subseteq OfKind("udata"), tmudata' \subseteq Finalizable, ran' = ran,
         gray' \subseteq Obj, grayagain' \subseteq Obj, weak' \subseteq Obj,
         GrayIsListed', AtomicInv', FinalInv'
  PROVE  IInv'
<1>1. GCTypeOK'
  BY DEF Progress, IInv, GCTypeOK, heapVars, Colors, Marking
<1>2. SweepInv' /\ PauseIsWhite'
  BY DEF Progress, SweepInv, PauseIsWhite, Marking, Stages, Sweeping
<1> QED
  BY <1>1, <1>2 DEF Progress, IInv, MarkInv

LEMMA FinalizedAlive ==
  ASSUME IInv, phase \notin Sweeping
  PROVE  tmudata \subseteq finalized /\ \A u \in finalized : u \in OfKind("udata") /\ Alive(u)
BY DEF IInv, GCTypeOK, FinalInv, HeapInv, FreeInv, SweepInv, Alive, OfKind

LEMMA StartCycleStep ==
  ASSUME IInv, StartCycle
  PROVE  IInv'
<1> DEFINE M == Marked(Roots, color)
<1>1. /\ phase \in {"pause", "finalize"} /\ phase \notin Sweeping
      /\ phase' = "propagate" /\ full' \in {"no", "marking"}
      /\ color' = Painted(M, color) /\ gray' = Listed(M) /\ grayagain' = {} /\ weak' = {}
      /\ finalized' = finalized /\ tmudata' = tmudata /\ ran' = ran
      /\ UNCHANGED <<heapVars, toSweep>>
  BY DEF StartCycle, MarkRoot, finalVars, IInv, GCTypeOK, Sweeping
<1>2. \A o \in Obj \ tmudata : color[o] \in {"free", "white"}
  BY <1>1 DEF IInv, MarkInv, PauseIsWhite, Alloc
<1>3. Roots \in SUBSET Obj /\ color \in [Obj -> Colors] /\ GCTypeOK /\ RefsInv
  BY StateTypes, KindsDiffer DEF Roots, IInv, HeapInv, GCTypeOK, OfKind
<1>4. MarkedFor(Roots, M, color, color')
  BY <1>1, <1>3, PaintedMarks
<1>5. Repainted(Roots, color)
  BY <1>1, <1>2, FinalizedAlive DEF Repainted, OfKind
<1> HIDE DEF M
<1>6. Progress
  BY <1>1, <1>3, <1>4, <1>5, MarkingProgress
<1>7. GrayIsListed'
  <2>1. Listed({o \in Obj : color[o] = "gray"}) = {}
    BY <1>2, KindsDiffer DEF Listed, IInv, GCTypeOK
  <2> QED
    BY <1>1, <1>4, <2>1 DEF GrayIsListed, MarkedFor
<1>8. AtomicInv'
  BY <1>1 DEF AtomicInv, Stages
<1>9. FinalInv'
  BY <1>1, <1>6, KindsDiffer DEF FinalInv, IInv, Progress
<1>10. Listed(M) \subseteq Obj
  BY <1>4 DEF MarkedFor, Listed
<1> QED
  BY <1>1, <1>6, <1>7, <1>8, <1>9, <1>10, MarkingKeeps DEF Marking, IInv, GCTypeOK

LEMMA PropagateStep ==
  ASSUME IInv, NEW o \in gray, PropagateMark(o)
  PROVE  IInv'
<1> DEFINE c == [color EXCEPT ![o] = IF StaysGray(o) THEN "gray" ELSE "black"]
           S == Traversed(o)
           M == Marked(S, c)
<1>1. /\ phase \in Marking /\ phase \notin Sweeping /\ phase' = phase /\ full' = full
      /\ color' = Painted(M, c) /\ gray' = (gray \ {o}) \union Listed(M)
      /\ grayagain' = grayagain \union Again(o)
      /\ weak' = (IF Weak(o) THEN weak \union {o} ELSE weak)
      /\ finalized' = finalized /\ tmudata' = tmudata /\ ran' = ran
      /\ UNCHANGED <<heapVars, toSweep>>
  BY DEF PropagateMark, Marking, Sweeping, Stages, finalVars, cycleVars
<1>2. /\ Listed({x \in Obj : color[x] = "gray"}) = gray \union grayagain \union weak
      /\ gray \intersect (grayagain \union weak) = {}
      /\ grayagain \intersect weak = {}
  BY <1>1 DEF IInv, MarkInv, GrayIsListed, Marking
<1>3. o \in Obj /\ color[o] = "gray" /\ Kind[o] \in {"table", "closure", "thread"}
  BY <1>2 DEF Listed
<1>4. /\ c \in [Obj -> Colors] /\ c[o] = (IF StaysGray(o) THEN "gray" ELSE "black")
      /\ \A x \in Obj : x # o => c[x] = color[x]
  BY <1>3, StateTypes DEF Colors
<1>5. GCTypeOK /\ RefsInv /\ S \in SUBSET Obj
  <2>1. GCTypeOK /\ RefsInv
    BY DEF IInv, HeapInv
  <2>2. \A v : v \in All(o) => v \in Obj
    BY <1>3, <2>1, ValuesRefer, ReferredType
  <2> QED
    BY <2>1, <2>2 DEF Traversed, All
<1>6. MarkedFor(S, M, c, color')
  BY <1>1, <1>4, <1>5, PaintedMarks
<1>7. \A v \in Obj : Refers(refs, open, o, v) /\ ~Weak(o) => v \in S
  BY <1>3, <1>5, ValuesRefer DEF Traversed, All
<1>8. Repainted(S, c)
  <2>1. \A x \in Obj : \/ c[x] = color[x]
                       \/ c[x] = "gray" /\ Kind[x] \in {"table", "thread"} /\ color[x] # "free"
                       \/ c[x] = "black" /\ Kind[x] \in {"table", "closure"} /\ color[x] # "free"
    BY <1>3, <1>4 DEF StaysGray, Weak
  <2>2. ASSUME NEW x \in Obj \ tmudata, c[x] = "black", NEW v \in Obj, Refers(refs, open, x, v)
        PROVE  v \in S \/ color[v] \notin Whites
    <3>1. CASE x = o
      BY <1>4, <1>7, <2>2, <3>1 DEF StaysGray
    <3>2. CASE x # o
      BY <1>1, <1>4, <2>2, <3>2 DEF IInv, MarkInv, BlackInv, Done
    <3> QED
      BY <3>1, <3>2
  <2>3. tmudata \subseteq {x \in Obj : c[x] = color[x]}
    BY <1>3, <1>4, KindsDiffer DEF IInv, GCTypeOK
  <2> QED
    BY <1>1, <2>1, <2>2, <2>3, FinalizedAlive DEF Repainted
<1> HIDE DEF M, c, S
<1>9. Progress
  BY <1>1, <1>4, <1>5, <1>6, <1>8, MarkingProgress
<1>10. M \in SUBSET Obj /\ (\A x \in M : c[x] \in Whites) /\ \A x \in S : color'[x] \notin Whites
  BY <1>6 DEF MarkedFor
<1>11. GrayIsListed'
  <2>1. Listed({x \in Obj : color'[x] = "gray"}) = Listed({x \in Obj : c[x] = "gray"}) \union Listed(M)
    BY <1>6 DEF MarkedFor
  <2>2. \A x : x \in Listed({y \in Obj : c[y] = "gray"}) <=>
          x \in gray \union grayagain \union weak /\ (x = o => StaysGray(o))
    BY <1>2, <1>3, <1>4 DEF Listed
  <2>3. \A x \in Listed(M) : x \notin gray \union grayagain \union weak
    <3>1. \A x \in gray \union grayagain \union weak : x \in Obj /\ c[x] \in {"gray", "black"}
      BY <1>2, <1>4 DEF Listed
    <3> QED
      BY <1>10, <3>1 DEF Listed, Whites
  <2>4. (StaysGray(o) <=> o \in Again(o) \/ Weak(o)) /\ ~(o \in Again(o) /\ Weak(o))
          /\ Again(o) \subseteq {o}
    BY DEF StaysGray, Weak, Again
  <2>5. \A x : x \in gray' \union grayagain' \union weak' <=>
          x \in Listed({y \in Obj : color'[y] = "gray"})
    <3>1. \A x : /\ x \in gray' <=> (x \in gray /\ x # o) \/ x \in Listed(M)
                 /\ x \in grayagain' <=> x \in grayagain \/ (x = o /\ o \in Again(o))
                 /\ x \in weak' <=> x \in weak \/ (x = o /\ Weak(o))
      BY <1>1, <2>4
    <3>2. \A x : x \in Listed({y \in Obj : color'[y] = "gray"}) <=>
            (x \in gray \union grayagain \union weak /\ (x = o => StaysGray(o))) \/ x \in Listed(M)
      BY <2>1, <2>2
    <3> QED
      BY <1>2, <2>4, <3>1, <3>2
  <2>6. \A x : ~(x \in gray' /\ x \in grayagain' \union weak') /\ ~(x \in grayagain' /\ x \in weak')
    BY <1>1, <1>2, <2>3, <2>4
  <2> QED
    BY <2>5, <2>6 DEF GrayIsListed
<1>12. AtomicInv'
  <2>1. /\ refs' = refs /\ open' = open /\ mode' = mode /\ basic' = basic
        /\ \A x \in Obj : color[x] \notin Whites => color'[x] \notin Whites
        /\ \A x \in Obj : Done(x) => Done(x)'
        /\ \A w \in Obj : open[w] # Nothing /\ color'[w] = "gray" => color[w] = "gray" \/ Done(w)'
    BY <1>1, <1>9 DEF Progress, heapVars
  <2>2. phase \in Stages =>
          \A w \in Obj : open[w] # Nothing /\ color'[w] = "gray" => Done(w)'
    BY <2>1 DEF IInv, AtomicInv
  <2>3. phase \in {"weaks", "again", "preserve"} => \A x \in Roots' : color'[x] \notin Whites
    <3>1. Roots' = Roots /\ Roots \subseteq Obj
      BY <1>5, <2>1, KindsDiffer DEF Roots, GCTypeOK, OfKind
    <3> QED
      BY <2>1, <3>1 DEF IInv, AtomicInv
  <2>4. ASSUME phase \in {"weaks", "again", "preserve"}, NEW t \in weak'
        PROVE  Kind[t] = "table"
    BY <1>1, <2>4 DEF Weak, IInv, AtomicInv
  <2>5. ASSUME phase \in {"weaks", "again", "preserve"}, NEW t \in weak', NEW v \in Traversed(t)'
        PROVE  color'[v] \notin Whites
    <3>1. v \in Traversed(t)
      BY <1>1, <2>5, TraversedSame
    <3>2. CASE t \in weak
      <4>1. color[v] \notin Whites
        BY <2>5, <3>1, <3>2 DEF IInv, AtomicInv
      <4>2. v \in Obj
        BY <1>5, <3>1, <3>2, TraversedType DEF GCTypeOK
      <4> QED
        BY <2>1, <4>1, <4>2
    <3>3. CASE t = o /\ Weak(o)
      BY <1>10, <3>1, <3>3 DEF S
    <3> QED
      BY <1>1, <2>5, <3>2, <3>3
  <2>6. ASSUME phase \in {"again", "preserve"}, NEW x \in grayagain'
        PROVE  Kind[x] = "thread" /\ Done(x)'
    <3>1. CASE x \in grayagain
      <4>1. Kind[x] = "thread" /\ Done(x) /\ x \in Obj
        BY <1>5, <2>6, <3>1 DEF IInv, AtomicInv, GCTypeOK
      <4> QED
        BY <2>1, <4>1
    <3>2. CASE x = o /\ Kind[o] = "thread"
      <4>1. \A v \in Obj : Refers(refs, open, o, v) => color'[v] \notin Whites
        BY <1>7, <1>10, <3>2 DEF Weak
      <4> QED
        BY <2>1, <3>2, <4>1 DEF Done
    <3> QED
      BY <1>1, <2>6, <3>1, <3>2 DEF Again
  <2>7. ASSUME phase = "preserve", NEW u \in tmudata
        PROVE  color'[u] = "black" /\ Done(u)'
    <3>1. u \in Obj /\ Kind[u] = "udata" /\ color[u] = "black" /\ Done(u)
      BY <1>5, <2>7, KindsDiffer DEF IInv, AtomicInv, GCTypeOK
    <3>2. color'[u] \notin Whites /\ color'[u] # "gray" /\ color'[u] # "free" /\ color'[u] \in Colors
      BY <1>1, <1>9, <3>1 DEF Progress, HeapInv, GrayInv, AliveInv, Alive, Whites
    <3> QED
      BY <2>1, <3>1, <3>2 DEF Colors
  <2> QED
    BY <1>1, <2>1, <2>2, <2>3, <2>4, <2>5, <2>6, <2>7 DEF AtomicInv
<1>13. FinalInv'
  <2>1. \A u \in Finalizable : ~Dead(u)' /\ (color'[u] = "white" => color[u] = "white")
    <3>1. \A u \in Obj : color[u] \in Colors /\ color[u] # "dead"
      BY <1>1, <1>5 DEF GCTypeOK, Colors, IInv, SweepInv, Dead
    <3> QED
      BY <1>9, <3>1, KindsDiffer DEF Progress, Colors, Whites
  <2> QED
    BY <1>1, <2>1 DEF IInv, FinalInv
<1>14. gray' \subseteq Obj /\ grayagain' \subseteq Obj /\ weak' \subseteq Obj
  BY <1>1, <1>3, <1>5, <1>10 DEF GCTypeOK, Listed, Again
<1> QED
  BY <1>1, <1>5, <1>9, <1>11, <1>12, <1>13, <1>14, MarkingKeeps DEF GCTypeOK
-----------------------------------------------------------------------------
(***************************************************************************)
(* The collector's steps: atomic.  A stage begins with no gray list left,  *)
(* and brings one more kind of gray object up to date.                     *)
(***************************************************************************)
LEMMA StageLists ==
  ASSUME IInv, phase \in Marking, gray = {}
  PROVE  /\ Listed({o \in Obj : color[o] = "gray"}) = grayagain \union weak
         /\ grayagain \intersect weak = {}
         /\ gray \subseteq Obj /\ grayagain \subseteq Obj /\ weak \subseteq Obj
         /\ \A o \in grayagain \union weak : color[o] = "gray"
BY DEF IInv, MarkInv, GrayIsListed, Marking, GCTypeOK, Listed

LEMMA AtomicUpvalsStep ==
  ASSUME IInv, AtomicUpvals
  PROVE  IInv'
<1> DEFINE S == RemarkUpvals
           M == Marked(S, color)
<1>1. /\ phase = "propagate" /\ phase \in Marking /\ phase \notin Sweeping /\ gray = {}
      /\ phase' = "upvals" /\ full' = full /\ color' = Painted(M, color) /\ gray' = Listed(M)
      /\ grayagain' = grayagain /\ weak' = weak
      /\ finalized' = finalized /\ tmudata' = tmudata /\ ran' = ran
      /\ UNCHANGED <<heapVars, toSweep>>
  BY DEF AtomicUpvals, Stage, finalVars, Marking, Sweeping
<1>2. S \in SUBSET Obj /\ color \in [Obj -> Colors] /\ GCTypeOK /\ RefsInv
  BY StateTypes, ValuesRefer DEF RemarkUpvals, IInv, HeapInv
<1>3. MarkedFor(S, M, color, color')
  BY <1>1, <1>2, PaintedMarks
<1>4. \A o \in Obj \ tmudata : color[o] = "black" => Done(o)
  BY <1>1 DEF IInv, MarkInv, BlackInv
<1>5. Repainted(S, color)
  BY <1>1, <1>4, FinalizedAlive DEF Repainted, Done, OfKind
<1> HIDE DEF M
<1>6. Progress
  BY <1>1, <1>2, <1>3, <1>5, MarkingProgress
<1>7. GrayIsListed'
  BY <1>1, <1>3, StageLists DEF GrayIsListed, MarkedFor, Whites, Listed
<1>8. AtomicInv'
  <2>1. ASSUME NEW w \in Obj, open[w] # Nothing, color[w] = "gray"
        PROVE  Done(w)'
    <3>1. \A v \in Obj : Refers(refs, open, w, v) => v \in S
      BY <1>2, <2>1, ValuesRefer DEF RemarkUpvals, IInv, HeapInv, OpenInv
    <3>2. \A v \in S : color'[v] \notin Whites
      BY <1>3 DEF MarkedFor
    <3> QED
      BY <1>1, <3>1, <3>2 DEF Done, heapVars
  <2>2. \A w \in Obj : open[w] # Nothing /\ color'[w] = "gray" => Done(w)'
    BY <1>6, <2>1 DEF Progress
  <2> QED
    BY <1>1, <2>2 DEF AtomicInv, heapVars
<1>9. FinalInv'
  BY <1>1, <1>6, KindsDiffer DEF FinalInv, IInv, Progress
<1>10. Listed(M) \subseteq Obj
  BY <1>3 DEF MarkedFor, Listed
<1> QED
  BY <1>1, <1>2, <1>6, <1>7, <1>8, <1>9, <1>10, MarkingKeeps DEF Marking, Stages, GCTypeOK

LEMMA AtomicWeakStep ==
  ASSUME IInv, NEW th \in Threads, AtomicWeak(th)
  PROVE  IInv'
<1> DEFINE S == Roots \union {th}
           M == Marked(S, color)
<1>1. /\ phase = "upvals" /\ phase \in Marking /\ phase \notin Sweeping /\ gray = {}
      /\ phase' = "weaks" /\ full' = full
      /\ color' = Painted(M, color) /\ gray' = weak \union Listed(M)
      /\ grayagain' = grayagain /\ weak' = {}
      /\ finalized' = finalized /\ tmudata' = tmudata /\ ran' = ran
      /\ UNCHANGED <<heapVars, toSweep>>
  BY DEF AtomicWeak, Stage, finalVars, Marking, Stages, Sweeping
<1>2. S \in SUBSET Obj /\ color \in [Obj -> Colors] /\ GCTypeOK /\ RefsInv
  BY StateTypes, ThreadsAlive, KindsDiffer DEF Roots, IInv, HeapInv, GCTypeOK, OfKind
<1>3. MarkedFor(S, M, color, color')
  BY <1>1, <1>2, PaintedMarks
<1>4. \A o \in Obj \ tmudata : color[o] = "black" => Done(o)
  BY <1>1 DEF IInv, MarkInv, BlackInv
<1>5. Repainted(S, color)
  BY <1>1, <1>4, FinalizedAlive DEF Repainted, Done, OfKind
<1> HIDE DEF M
<1>6. Progress
  BY <1>1, <1>2, <1>3, <1>5, MarkingProgress
<1>7. GrayIsListed'
  BY <1>1, <1>3, StageLists DEF GrayIsListed, MarkedFor, Whites, Listed
<1>8. AtomicInv'
  <2>1. \A w \in Obj : open[w] # Nothing /\ color'[w] = "gray" => Done(w)'
    BY <1>1, <1>6 DEF Progress, IInv, AtomicInv, Stages
  <2>2. Roots' = Roots /\ \A o \in Roots : color'[o] \notin Whites
    BY <1>1, <1>3 DEF MarkedFor, Roots, heapVars
  <2> QED
    BY <1>1, <2>1, <2>2 DEF AtomicInv, heapVars
<1>9. FinalInv'
  BY <1>1, <1>6, KindsDiffer DEF FinalInv, IInv, Progress
<1>10. Listed(M) \subseteq Obj
  BY <1>3 DEF MarkedFor, Listed
<1> QED
  BY <1>1, <1>2, <1>6, <1>7, <1>8, <1>9, <1>10, MarkingKeeps DEF Marking, Stages, GCTypeOK

LEMMA AtomicAgainStep ==
  ASSUME IInv, AtomicAgain
  PROVE  IInv'
<1>1. /\ phase = "weaks" /\ phase \in Marking /\ gray = {}
      /\ phase' = "again" /\ gray' = grayagain /\ grayagain' = {}
      /\ UNCHANGED <<color, heapVars, finalVars, weak, toSweep, full>>
  BY DEF AtomicAgain, Stage, Marking, Stages
<1>2. /\ color' = color /\ refs' = refs /\ mode' = mode /\ open' = open /\ basic' = basic
      /\ finalized' = finalized /\ tmudata' = tmudata /\ ran' = ran /\ full' = full
      /\ weak' = weak /\ toSweep' = toSweep
  BY <1>1 DEF heapVars, finalVars
<1>3. GCTypeOK'
  BY <1>1, <1>2 DEF IInv, GCTypeOK, Stages
<1>4. AliveInv' /\ HeapInv'
  BY <1>2 DEF IInv, AliveInv, Roots, Alive, Dead, HeapInv, FreeInv, OpenInv, RefsInv, GrayInv
<1>5. MarkInv'
  BY <1>1, <1>2, StageLists
  DEF IInv, MarkInv, BlackInv, Done, GrayIsListed, PauseIsWhite, Marking, Stages
<1>6. SweepInv'
  BY <1>1, <1>2 DEF IInv, SweepInv, Sweeping, Dead
<1>7. AtomicInv'
  <2>1. \A w \in Obj : open[w] # Nothing /\ color[w] = "gray" => Done(w)
    BY <1>1 DEF IInv, AtomicInv, Stages
  <2>2. /\ \A o \in Roots : color[o] \notin Whites
        /\ \A t \in weak :
             Kind[t] = "table" /\ \A v \in Traversed(t) : color[v] \notin Whites
    BY <1>1 DEF IInv, AtomicInv
  <2>3. \A t : Traversed(t)' = Traversed(t)
    BY <1>1, TraversedSame
  <2> QED
    BY <1>1, <1>2, <2>1, <2>2, <2>3 DEF AtomicInv, Done, Roots
<1>8. FinalInv'
  BY <1>1, <1>2 DEF IInv, FinalInv, Dead
<1> QED
  BY <1>3, <1>4, <1>5, <1>6, <1>7, <1>8 DEF IInv

LEMMA AtomicUserdataStep ==
  ASSUME IInv, AtomicUserdata
  PROVE  IInv'
<1> DEFINE S == tmudata'
           c == MarkTmu(S)
           M == Marked(S, c)
<1>1. /\ phase = "again" /\ phase \in Marking /\ phase \notin Sweeping /\ gray = {}
      /\ phase' = "preserve" /\ full' = full /\ color' = Painted(M, c) /\ gray' = Listed(M)
      /\ grayagain' = grayagain /\ weak' = weak /\ ran' = ran
      /\ finalized' = finalized \union Separated
      /\ tmudata' = tmudata \union (Separated \intersect Finalizable)
      /\ UNCHANGED <<heapVars, toSweep>>
  BY DEF AtomicUserdata, Stage, Marking, Stages, Sweeping
<1>2. /\ color \in [Obj -> Colors] /\ GCTypeOK /\ RefsInv
      /\ tmudata \subseteq Finalizable /\ finalized \subseteq OfKind("udata")
      /\ \A o \in Obj : color[o] # "dead"
  BY <1>1, StateTypes DEF IInv, HeapInv, GCTypeOK, SweepInv, Dead
<1>3. /\ S \in SUBSET Obj /\ S \subseteq Finalizable
      /\ \A u \in S : Kind[u] = "udata"
  BY <1>1, <1>2, KindsDiffer
<1>4. /\ c \in [Obj -> Colors] /\ \A o \in S : c[o] = "white"
      /\ \A o \in Obj \ S : c[o] = color[o]
  BY <1>2, <1>3 DEF MarkTmu, Colors, Whites
<1>5. MarkedFor(S, M, c, color')
  BY <1>1, <1>2, <1>3, <1>4, PaintedMarks
<1>6. \A u \in Separated : u \in OfKind("udata") /\ color[u] = "white" /\ u \notin finalized
  BY <1>2 DEF Separated, Whites, OfKind
<1>7. Repainted(S, c)
  <2>1. \A o \in Obj \ tmudata : color[o] = "black" => Done(o)
    BY <1>1 DEF IInv, MarkInv, BlackInv
  <2>2. S \subseteq finalized' /\ \A u \in finalized' : u \in OfKind("udata") /\ Alive(u)
    BY <1>1, <1>6, FinalizedAlive DEF Alive, Dead
  <2> QED
    BY <1>1, <1>4, <2>1, <2>2 DEF Repainted, Done
<1> HIDE DEF S, M, c
<1>8. Progress
  BY <1>1, <1>3, <1>4, <1>5, <1>7, MarkingProgress
<1>9. GrayIsListed'
  <2>1. Listed({o \in Obj : c[o] = "gray"}) = Listed({o \in Obj : color[o] = "gray"})
    BY <1>3, <1>4 DEF Listed
  <2>2. \A o \in grayagain \union weak : c[o] \notin Whites /\ o \in Obj
    BY <1>1, <1>3, <1>4, StageLists DEF Whites, IInv, HeapInv, GrayInv
  <2> QED
    BY <1>1, <1>5, <2>1, <2>2, StageLists DEF GrayIsListed, MarkedFor, Listed
<1>10. AtomicInv'
  <2>1. /\ refs' = refs /\ open' = open /\ mode' = mode /\ basic' = basic
        /\ \A x \in Obj : color[x] \notin Whites => color'[x] \notin Whites
        /\ \A x \in Obj : Done(x) => Done(x)'
    BY <1>1, <1>8 DEF Progress, heapVars
  <2>2. \A w \in Obj : open[w] # Nothing /\ color'[w] = "gray" => Done(w)'
    BY <1>1, <1>8 DEF Progress, IInv, AtomicInv, Stages
  <2>3. Roots' = Roots /\ \A o \in Roots : color'[o] \notin Whites
    <3>1. Roots' = Roots /\ Roots \subseteq Obj
      BY <1>2, <2>1, KindsDiffer DEF Roots, GCTypeOK, OfKind
    <3> QED
      BY <1>1, <2>1, <3>1 DEF IInv, AtomicInv
  <2>4. \A t \in weak :
          Kind[t] = "table" /\ \A v \in Traversed(t)' : color'[v] \notin Whites
    <3>1. \A t \in weak : Traversed(t)' = Traversed(t) /\ Traversed(t) \in SUBSET Obj
      BY <1>1, <1>2, TraversedSame, TraversedType DEF GCTypeOK
    <3> QED
      BY <1>1, <2>1, <3>1 DEF IInv, AtomicInv
  <2>5. \A o \in grayagain : Kind[o] = "thread" /\ Done(o)'
    BY <1>1, <1>2, <2>1 DEF IInv, AtomicInv, GCTypeOK
  <2>6. ASSUME NEW u \in S
        PROVE  color'[u] = "black" /\ Done(u)'
    <3>1. u \in M
      BY <1>3, <1>4, <1>5, <2>6 DEF MarkedFor, Whites
    <3> QED
      BY <1>3, <1>5, <2>1, <2>6, <3>1 DEF MarkedFor, Done
  <2> QED
    BY <1>1, <2>1, <2>2, <2>3, <2>4, <2>5, <2>6 DEF AtomicInv, S
<1>11. FinalInv'
  <2>1. \A u \in Finalizable : ~Dead(u)'
    BY <1>8, KindsDiffer DEF Progress
  <2>2. ASSUME NEW u \in Finalizable, color'[u] = "white"
        PROVE  u \in ran
    <3>1. u \in Obj /\ Kind[u] = "udata" /\ color[u] \in Whites
      BY <1>8, <2>2, KindsDiffer DEF Progress, Whites
    <3>2. u \notin S
      BY <1>5, <2>2 DEF MarkedFor, Whites
    <3>3. u \in finalized
      BY <1>1, <3>1, <3>2 DEF S, Separated, OfKind
    <3> QED
      BY <1>1, <3>2, <3>3 DEF IInv, FinalInv, S
  <2> QED
    BY <1>1, <1>6, <2>1, <2>2 DEF IInv, FinalInv
<1>12. finalized' \subseteq OfKind("udata") /\ tmudata' \subseteq Finalizable
  BY <1>1, <1>2, <1>6
<1>13. Listed(M) \subseteq Obj
  BY <1>5 DEF MarkedFor, Listed
<1> QED
  BY <1>1, <1>2, <1>8, <1>9, <1>10, <1>11, <1>12, <1>13, MarkingKeeps DEF Marking, Stages, GCTypeOK

LEMMA AtomicClearStep ==
  ASSUME IInv, AtomicClear
  PROVE  IInv'
<1>1. /\ phase = "preserve" /\ phase \in Marking /\ phase \notin Sweeping /\ gray = {}
      /\ phase' = "sweepstring"
      /\ refs' = [o \in Obj |-> IF o \in weak THEN refs[o] \ Cleared(o) ELSE refs[o]]
      /\ color' = [o \in Obj |-> IF o \in KeptStrings THEN "gray" ELSE Flipped(color[o])]
      /\ toSweep' = OfKind("string") \intersect Alloc
      /\ gray' = {} /\ grayagain' = {} /\ weak' = {}
      /\ mode' = mode /\ open' = open /\ basic' = basic /\ full' = full
      /\ finalized' = finalized /\ tmudata' = tmudata /\ ran' = ran
  BY DEF AtomicClear, Stage, Marking, Stages, Sweeping, finalVars
<1>2. /\ GCTypeOK /\ RefsInv
      /\ color \in [Obj -> Colors] /\ refs \in [Obj -> SUBSET ((Obj \union {Index}) \X Obj)]
      /\ \A o \in Obj : color[o] # "dead"
  BY <1>1, StateTypes DEF IInv, HeapInv, SweepInv, Dead
<1>3. \A o \in Obj : refs'[o] = IF o \in weak THEN refs[o] \ Cleared(o) ELSE refs[o]
  BY <1>1
<1>4. \A o \in Obj : refs'[o] \subseteq refs[o]
  BY <1>3
<1>5. \A s \in KeptStrings : s \in Obj /\ Kind[s] = "string" /\ color[s] # "free"
  <2> SUFFICES ASSUME NEW s \in Obj, NEW t \in weak, NEW e \in refs[t], s = e[1] \/ s = e[2]
               PROVE  color[s] # "free"
    BY DEF KeptStrings, OfKind
  <2>1. t \in Obj /\ color[t] = "gray"
    BY <1>1, StageLists
  <2>2. Alive(t) /\ Refers(refs, open, t, s)
    BY <2>1, KindsDiffer DEF Alive, Dead, Refers
  <2> QED
    BY <2>1, <2>2 DEF IInv, AliveInv, Alive
<1>6. \A o \in Obj :
        /\ color[o] = "free" <=> color'[o] = "free"
        /\ o \in KeptStrings => color'[o] = "gray" /\ Kind[o] = "string"
        /\ color[o] \in {"gray", "black"} => color'[o] \in {"gray", "black"}
        /\ color'[o] \in {"gray", "black"} => color'[o] = color[o] \/ o \in KeptStrings
        /\ color'[o] = "dead" => color[o] = "white"
  <2>1. \A o \in Obj : color'[o] = IF o \in KeptStrings THEN "gray"
                                  ELSE IF color[o] = "white" THEN "dead" ELSE color[o]
    BY <1>1, <1>2 DEF Flipped
  <2> QED
    BY <1>2, <1>5, <2>1
<1>7. ASSUME NEW o \in Obj, Alive(o)', NEW v \in Obj, Refers(refs', open', o, v)
      PROVE  Alive(v)'
  <2>1. Refers(refs, open, o, v)
    BY <1>1, <1>4, <1>7 DEF Refers
  <2>2. Kind[o] # "string"
    <3>1. CASE Kind[o] = "string"
      BY <1>2, <2>1, <3>1, OwnEntries DEF RefsInv, EntryOK
    <3> QED
      BY <3>1
  <2>3. color[o] \in {"gray", "black"}
    <3>1. color'[o] \in Colors /\ color'[o] # "free" /\ color'[o] # "dead"
      BY <1>1, <1>2, <1>7 DEF Alive, Dead, Flipped, Colors
    <3>2. color[o] # "white"
      <4>1. o \notin KeptStrings
        BY <2>2, <1>6
      <4> QED
        BY <1>1, <3>1, <4>1 DEF Flipped
    <3> QED
      BY <1>2, <1>6, <3>1, <3>2 DEF Colors, Whites
  <2>4. color[v] \in {"gray", "black"} \/ v \in KeptStrings
    <3>1. color[v] # "free"
      BY <2>1, <2>3 DEF IInv, AliveInv, Alive, Dead
    <3>2. color[v] \notin Whites \/ v \in KeptStrings
      <4>1. CASE color[o] = "black"
        <5>1. Done(o)
          BY <1>1, <4>1 DEF IInv, MarkInv, BlackInv, AtomicInv
        <5> QED
          BY <2>1, <5>1 DEF Done
      <4>2. CASE color[o] = "gray" /\ Kind[o] = "upval"
        <5>1. Done(o)
          BY <1>1, <4>2 DEF IInv, HeapInv, GrayInv, AtomicInv, Stages
        <5> QED
          BY <2>1, <5>1 DEF Done
      <4>3. CASE o \in grayagain
        <5>1. Done(o)
          BY <1>1, <4>3 DEF IInv, AtomicInv
        <5> QED
          BY <2>1, <5>1 DEF Done
      <4>4. CASE o \in weak
        <5>1. Kind[o] = "table" /\ \A e \in refs[o] : mode[o] = "k" => color[e[2]] \notin Whites
          <6>1. Kind[o] = "table" /\ \A x \in Traversed(o) : color[x] \notin Whites
            BY <1>1, <4>4 DEF IInv, AtomicInv
          <6>2. mode[o] = "k" => \A e \in refs[o] : e[2] \in Traversed(o)
            BY DEF Traversed, Values, Slots
          <6> QED
            BY <6>1, <6>2
        <5>2. \A w \in Obj : open'[w] # o
          BY <1>1, <1>2, <5>1, KindsDiffer DEF GCTypeOK, OfKind
        <5>3. PICK e \in refs'[o] : e[2] = v \/ (e[1] = v /\ v # Index)
          BY <1>7, <5>2 DEF Refers
        <5>4. /\ e \in refs[o] /\ e \notin Cleared(o)
              /\ e[2] \in Obj /\ (e[1] # Index => e[1] \in Obj)
          BY <1>2, <1>3, <4>4, <5>3, EntryType
        <5>5. CASE e[1] = Index
          <6>1. mode[o] = "k" \/ ~ClearedValue(e[2])
            BY <5>4, <5>5 DEF Cleared
          <6>2. color[e[2]] \notin Whites \/ Kind[e[2]] = "string"
            BY <5>1, <5>4, <6>1 DEF ClearedValue
          <6>3. Kind[e[2]] = "string" => e[2] \in KeptStrings
            BY <4>4, <5>4, <5>5 DEF KeptStrings, OfKind, ClearedKey
          <6> QED
            BY <5>3, <5>5, <6>2, <6>3
        <5>6. CASE e[1] # Index
          <6>1. ~ClearedKey(e[1]) /\ ~ClearedValue(e[2])
            BY <5>4, <5>6 DEF Cleared
          <6>2. color[v] \notin Whites \/ Kind[v] = "string"
            BY <5>3, <5>6, <6>1 DEF ClearedKey, ClearedValue
          <6>3. Kind[v] = "string" => v \in KeptStrings
            BY <4>4, <5>3, <5>4, <6>1 DEF KeptStrings, OfKind
          <6> QED
            BY <6>2, <6>3
        <5> QED
          BY <5>5, <5>6
      <4>5. color[o] = "gray" => Kind[o] = "upval" \/ o \in grayagain \union weak
        <5>1. color[o] = "gray" => Kind[o] # "udata"
          BY DEF IInv, HeapInv, GrayInv
        <5>2. Kind[o] \in {"table", "closure", "thread"} /\ color[o] = "gray" =>
                o \in grayagain \union weak
          BY <1>1, StageLists DEF Listed
        <5> QED
          BY <2>2, <5>1, <5>2, KindsDiffer DEF Kinds
      <4> QED
        BY <2>3, <4>1, <4>2, <4>3, <4>4, <4>5
    <3> QED
      BY <1>2, <3>1, <3>2 DEF Colors, Whites
  <2> QED
    BY <1>6, <2>4 DEF Alive, Dead
<1>8. AliveInv'
  <2>1. \A o \in Obj : color[o] \in {"gray", "black"} => Alive(o)'
    BY <1>6 DEF Alive, Dead
  <2>2. \A o \in Roots : o \in Obj /\ color[o] \in {"gray", "black"}
    <3>1. \A o \in Roots : o \in Obj /\ color[o] \notin Whites /\ Alive(o)
      BY <1>1, KindsDiffer DEF IInv, AtomicInv, AliveInv, Roots, GCTypeOK, OfKind
    <3> QED
      BY <1>2, <3>1 DEF Colors, Alive, Whites
  <2>3. \A u \in tmudata : u \in Obj /\ color[u] = "black"
    BY <1>1, KindsDiffer DEF IInv, AtomicInv, GCTypeOK
  <2>4. Roots' = Roots
    BY <1>1 DEF Roots
  <2> QED
    BY <1>1, <1>7, <2>1, <2>2, <2>3, <2>4 DEF AliveInv
<1>9. GCTypeOK'
  <2>1. refs' \in [Obj -> SUBSET ((Obj \union {Index}) \X Obj)]
    BY <1>1, <1>2
  <2>2. color' \in [Obj -> Whites \union {"gray", "black", "free"}]
    BY <1>1, <1>2 DEF Flipped, Colors, Whites
  <2> QED
    BY <1>1, <1>2, <2>1, <2>2 DEF GCTypeOK, OfKind
<1>10. HeapInv'
  <2>1. FreeInv'
    BY <1>1, <1>4, <1>6 DEF FreeInv, IInv, HeapInv, Alloc
  <2>2. OpenInv'
    <3>1. \A w \in Obj : open[w] # Nothing =>
            Kind[w] = "upval" /\ color[w] # "black" /\ color[open[w]] # "free" /\ open[w] \in Obj
      BY StateTypes DEF IInv, HeapInv, OpenInv, OfKind
    <3> QED
      BY <1>1, <1>6, <3>1 DEF OpenInv, OfKind
  <2>3. RefsInv'
    BY <1>2, <1>4 DEF RefsInv
  <2>4. GrayInv'
    BY <1>1, <1>6 DEF GrayInv, IInv, HeapInv
  <2> QED
    BY <2>1, <2>2, <2>3, <2>4 DEF HeapInv
<1>11. MarkInv' /\ AtomicInv'
  BY <1>1 DEF MarkInv, BlackInv, GrayIsListed, PauseIsWhite, AtomicInv, Marking, Stages
<1>12. SweepInv'
  BY <1>1, <1>6 DEF SweepInv, Sweeping, Alloc, OfKind
<1>13. FinalInv'
  BY <1>1, <1>6, KindsDiffer DEF FinalInv, IInv, Dead
<1> QED
  BY <1>8, <1>9, <1>10, <1>11, <1>12, <1>13 DEF IInv
-----------------------------------------------------------------------------
(***************************************************************************)
(* The collector's steps: sweeping and finalizing.                         *)
(***************************************************************************)
LEMMA SweepStep ==
  ASSUME IInv, NEW o \in toSweep, Sweep(o)
  PROVE  IInv'
<1> DEFINE swept == {o} \union SweptUpvals(o)
           freed == {x \in swept : Dead(x)}
           Slot(w) == IF open[w] = o THEN refs[w] ELSE {}
<1>1. /\ phase \in Sweeping /\ phase' = phase /\ toSweep' = toSweep \ {o}
      /\ color' = [x \in Obj |-> IF x \in freed THEN "free"
                                 ELSE IF x \in swept THEN "white" ELSE color[x]]
      /\ refs' = [x \in Obj |->
                    IF x \in freed THEN {}
                    ELSE IF x = o THEN refs[o] \union UNION {Slot(w) : w \in freed}
                    ELSE refs[x]]
      /\ open' = [x \in Obj |-> IF x \in freed \/ (open[x] = o /\ o \in freed)
                                THEN Nothing ELSE open[x]]
      /\ mode' = [mode EXCEPT ![o] = IF o \in freed THEN "strong" ELSE @]
      /\ finalized' = finalized \ freed /\ ran' = ran \ freed
      /\ tmudata' = tmudata /\ basic' = basic /\ full' = full
      /\ gray' = gray /\ grayagain' = grayagain /\ weak' = weak
  BY DEF Sweep, Sweeping, listVars
<1>2. /\ GCTypeOK /\ RefsInv /\ toSweep \subseteq Obj /\ o \in Obj
      /\ color \in [Obj -> Colors] /\ refs \in [Obj -> SUBSET ((Obj \union {Index}) \X Obj)]
      /\ open \in [Obj -> OfKind("thread") \union {Nothing}]
      /\ mode \in [Obj -> {"strong", "k", "v", "kv"}]
  BY StateTypes DEF IInv, HeapInv, GCTypeOK
<1>3. \A w \in Obj : open[w] # Nothing =>
        /\ Kind[w] = "upval" /\ color[w] # "black" /\ w \notin toSweep
        /\ color[open[w]] # "free" /\ open[w] \in Obj /\ Kind[open[w]] = "thread"
  BY <1>2, KindsDiffer DEF IInv, HeapInv, OpenInv, OfKind
<1>4. /\ open[o] = Nothing
      /\ \A x \in Obj : x \in swept <=> x = o \/ open[x] = o
      /\ \A x : x \in freed <=> x \in swept /\ color[x] = "dead"
      /\ swept \subseteq Obj
      /\ \A x \in swept : color[x] # "free"
  BY <1>2, <1>3, KindsDiffer DEF SweptUpvals, Dead, IInv, HeapInv, FreeInv
<1> HIDE DEF freed, swept
<1>5. \A x \in Obj :
        color'[x] = IF x \in freed THEN "free" ELSE IF x \in swept THEN "white" ELSE color[x]
  BY <1>1
<1>6. \A x \in Obj : Alive(x) <=> Alive(x)'
  BY <1>4, <1>5 DEF Alive, Dead
<1>7. \A x \in Obj : open'[x] = IF x \in freed \/ (open[x] = o /\ o \in freed)
                                THEN Nothing ELSE open[x]
  BY <1>1
<1>8. /\ \A x \in freed : refs'[x] = {}
      /\ \A x \in Obj : x # o /\ x \notin freed => refs'[x] = refs[x]
      /\ \A e \in refs'[o] : e \in refs[o] \/ \E w \in Obj : open[w] = o /\ e \in refs[w]
  BY <1>1, <1>2, <1>4
<1>9. AliveInv'
  <2>1. ASSUME NEW x \in Obj, Alive(x)', NEW v \in Obj, Refers(refs', open', x, v)
        PROVE  Alive(v)'
    <3>1. x \notin freed /\ Alive(x) /\ x # Nothing
      BY <1>4, <1>6, <2>1, KindsDiffer DEF Alive, Dead
    <3>2. CASE \E e \in refs'[x] : e[2] = v \/ (e[1] = v /\ v # Index)
      <4>1. CASE \E e \in refs[x] : e[2] = v \/ (e[1] = v /\ v # Index)
        BY <1>6, <2>1, <3>1, <4>1 DEF Refers, IInv, AliveInv
      <4>2. CASE x = o /\ \E w \in Obj : open[w] = o /\
                   \E e \in refs[w] : e[2] = v \/ (e[1] = v /\ v # Index)
        <5>1. \E w \in Obj : open[w] = o /\ \E e \in refs[w] : e[2] = v
          BY <1>2, <1>3, <4>2, KindsDiffer DEF RefsInv, EntryOK
        <5> QED
          BY <1>6, <2>1, <3>1, <4>2, <5>1 DEF Refers, IInv, AliveInv
      <4> QED
        BY <1>8, <3>1, <3>2, <4>1, <4>2
    <3>3. CASE \E w \in Obj : open'[w] = x /\ \E e \in refs'[w] : e[2] = v
      <4>1. PICK w \in Obj : open'[w] = x /\ \E e \in refs'[w] : e[2] = v
        BY <3>3
      <4>2. open[w] = x /\ w # o /\ w \notin freed
        BY <1>4, <1>7, <3>1, <4>1
      <4> QED
        BY <1>6, <1>8, <2>1, <3>1, <4>1, <4>2 DEF Refers, IInv, AliveInv
    <3> QED
      BY <2>1, <3>2, <3>3 DEF Refers
  <2>2. Roots' = Roots /\ Roots \union tmudata \subseteq Obj
    BY <1>1, <1>2, KindsDiffer DEF Roots, GCTypeOK, OfKind
  <2> QED
    BY <1>1, <1>6, <2>1, <2>2 DEF AliveInv, IInv
<1>10. GCTypeOK'
  <2>1. refs' \in [Obj -> SUBSET ((Obj \union {Index}) \X Obj)]
    BY <1>1, <1>2, <1>4
  <2>2. color' \in [Obj -> Whites \union {"gray", "black", "free"}]
    BY <1>1, <1>2 DEF Colors, Whites
  <2>3. open' \in [Obj -> OfKind("thread") \union {Nothing}] /\ mode' \in [Obj -> {"strong", "k", "v", "kv"}]
    BY <1>1, <1>2
  <2> QED
    BY <1>1, <1>2, <2>1, <2>2, <2>3 DEF GCTypeOK
<1>11. HeapInv'
  <2>1. FreeInv'
    <3>1. ASSUME NEW x \in Obj, color'[x] = "free"
          PROVE  refs'[x] = {} /\ open'[x] = Nothing /\ x \notin finalized' /\ x \notin toSweep'
      <4>1. CASE x \in freed
        BY <1>1, <1>2, <1>3, <1>4, <1>7, <1>8, <4>1, KindsDiffer
      <4>2. CASE x \notin freed
        <5>1. color[x] = "free" /\ x # o
          BY <1>4, <1>5, <3>1, <4>2
        <5> QED
          BY <1>1, <1>7, <1>8, <4>2, <5>1 DEF IInv, HeapInv, FreeInv
      <4> QED
        BY <4>1, <4>2
    <3> QED
      BY <3>1 DEF FreeInv
  <2>2. OpenInv'
    <3>1. ASSUME NEW w \in Obj, open'[w] # Nothing
          PROVE  /\ Kind[w] = "upval" /\ color'[w] # "black" /\ w \notin toSweep'
                 /\ color'[open'[w]] # "free"
      <4>1. open'[w] = open[w] /\ w \notin freed /\ (open[w] = o => o \notin freed)
        BY <1>7, <3>1
      <4>2. open[w] \notin freed
        BY <1>2, <1>3, <1>4, <3>1, <4>1, KindsDiffer
      <4> QED
        BY <1>1, <1>3, <1>5, <3>1, <4>1, <4>2
    <3> QED
      BY <3>1 DEF OpenInv
  <2>3. RefsInv'
    <3>1. ASSUME NEW x \in Obj, NEW e \in refs'[x]
          PROVE  EntryOK(x, e)
      <4>1. CASE e \in refs[x]
        BY <1>2, <4>1 DEF RefsInv
      <4>2. CASE x = o /\ \E w \in Obj : open[w] = o /\ e \in refs[w]
        <5>1. PICK w \in Obj : open[w] = o /\ e \in refs[w]
          BY <4>2
        <5>2. Kind[w] = "upval" /\ Kind[o] = "thread"
          BY <1>2, <1>3, <5>1, KindsDiffer
        <5> QED
          BY <1>2, <4>2, <5>1, <5>2 DEF RefsInv, EntryOK
      <4> QED
        BY <1>8, <3>1, <4>1, <4>2
    <3> QED
      BY <3>1 DEF RefsInv
  <2>4. GrayInv'
    <3>1. \A x \in Obj : color'[x] \in {"gray", "black"} => color'[x] = color[x] /\ open'[x] = open[x]
      BY <1>4, <1>5, <1>7
    <3> QED
      BY <3>1 DEF GrayInv, IInv, HeapInv
  <2> QED
    BY <2>1, <2>2, <2>3, <2>4 DEF HeapInv
<1>12. MarkInv' /\ AtomicInv'
  BY <1>1 DEF MarkInv, BlackInv, GrayIsListed, PauseIsWhite, AtomicInv, Marking, Stages, Sweeping
<1>13. SweepInv'
  <2>1. ASSUME phase = "sweepstring", NEW s \in OfKind("string")
        PROVE  color'[s] \in {"free", "white"} \/ s \in toSweep'
    <3>1. color[s] \in {"free", "white"} \/ s \in toSweep
      BY <2>1 DEF IInv, SweepInv
    <3> QED
      BY <1>1, <1>4, <1>5, <3>1 DEF OfKind
  <2>2. ASSUME phase = "sweep", NEW x \in Obj \ tmudata
        PROVE  color'[x] \in {"free", "white"} \/ x \in toSweep' \/ open'[x] \in toSweep'
    <3>1. color[x] \in {"free", "white"} \/ x \in toSweep \/ open[x] \in toSweep
      BY <2>2 DEF IInv, SweepInv
    <3>2. CASE x \in swept
      BY <1>5, <3>2
    <3>3. CASE x \notin swept
      <4>1. x # o /\ open[x] # o /\ color'[x] = color[x] /\ open'[x] = open[x]
        BY <1>4, <1>5, <1>7, <3>3
      <4> QED
        BY <1>1, <3>1, <4>1
    <3> QED
      BY <3>2, <3>3
  <2> QED
    BY <1>1, <2>1, <2>2 DEF SweepInv
<1>14. FinalInv'
  <2>1. \A u \in Finalizable : Dead(u)' => Dead(u) /\ u \notin freed
    BY <1>5, KindsDiffer DEF Dead
  <2>2. \A u \in tmudata : u \notin freed
    BY <1>4 DEF IInv, AliveInv, Alive, Dead
  <2>3. phase # "preserve"
    BY <1>1 DEF Sweeping
  <2> QED
    BY <1>1, <2>1, <2>2, <2>3 DEF IInv, FinalInv
<1> QED
  BY <1>9, <1>10, <1>11, <1>12, <1>13, <1>14 DEF IInv

(* The steps that only move the collector on. *)
LEMMA PhaseKeeps ==
  ASSUME IInv, UNCHANGED <<color, heapVars, finalVars>>,
         phase' \in {"pause", "propagate", "sweepstring", "sweep", "finalize"},
         full' \in {"no", "sweeping", "marking"},
         gray' \subseteq Obj, grayagain' \subseteq Obj, weak' \subseteq Obj,
         \A o \in toSweep' : o \in Obj /\ color[o] # "free" /\ open[o] = Nothing,
         MarkInv', SweepInv'
  PROVE  IInv'
<1>1. /\ color' = color /\ refs' = refs /\ mode' = mode /\ open' = open /\ basic' = basic
      /\ finalized' = finalized /\ tmudata' = tmudata /\ ran' = ran
  BY DEF heapVars, finalVars
<1>2. GCTypeOK'
  BY <1>1 DEF IInv, GCTypeOK
<1>3. AliveInv' /\ AtomicInv' /\ FinalInv'
  BY <1>1 DEF IInv, AliveInv, Roots, Alive, Dead, AtomicInv, FinalInv, Stages
<1>4. HeapInv'
  BY <1>1 DEF IInv, HeapInv, FreeInv, OpenInv, RefsInv, GrayInv
<1> QED
  BY <1>2, <1>3, <1>4 DEF IInv

LEMMA SweepStringsDoneStep ==
  ASSUME IInv, SweepStringsDone
  PROVE  IInv'
<1>1. /\ phase = "sweepstring" /\ toSweep = {} /\ phase' = "sweep" /\ toSweep' = SweepList
      /\ UNCHANGED <<color, heapVars, finalVars>> /\ full' = full
      /\ gray' = gray /\ grayagain' = grayagain /\ weak' = weak
      /\ color' = color /\ open' = open /\ tmudata' = tmudata
  BY DEF SweepStringsDone, listVars, heapVars, finalVars
<1>2. \A o \in SweepList : o \in Obj /\ color[o] # "free" /\ open[o] = Nothing
  BY DEF SweepList, Alloc
<1>3. MarkInv'
  BY <1>1 DEF MarkInv, BlackInv, GrayIsListed, PauseIsWhite, Marking, Stages
<1>4. SweepInv'
  <2>1. ASSUME NEW o \in Obj \ tmudata, color[o] \notin {"free", "white"}
        PROVE  o \in SweepList \/ open[o] \in SweepList
    <3>1. Kind[o] # "string"
      BY <1>1, <2>1 DEF IInv, SweepInv, OfKind
    <3>2. CASE open[o] = Nothing
      BY <2>1, <3>1, <3>2 DEF SweepList, Alloc
    <3>3. CASE open[o] # Nothing
      <4>1. open[o] \in Obj /\ Kind[open[o]] = "thread" /\ color[open[o]] # "free"
        BY <2>1, <3>3, StateTypes DEF OfKind, IInv, HeapInv, OpenInv
      <4>2. open[open[o]] = Nothing /\ open[o] \notin tmudata
        BY <4>1, KindsDiffer DEF IInv, HeapInv, OpenInv, GCTypeOK
      <4> QED
        BY <4>1, <4>2 DEF SweepList, Alloc
    <3> QED
      BY <3>2, <3>3
  <2> QED
    BY <1>1, <2>1 DEF SweepInv, Sweeping
<1> QED
  BY <1>1, <1>2, <1>3, <1>4, PhaseKeeps DEF IInv, GCTypeOK

LEMMA SweepDoneStep ==
  ASSUME IInv, SweepDone
  PROVE  IInv'
<1>1. /\ phase = "sweep" /\ toSweep = {} /\ phase' = "finalize" /\ toSweep' = toSweep
      /\ UNCHANGED <<color, heapVars, finalVars>> /\ full' = full
      /\ gray' = gray /\ grayagain' = grayagain /\ weak' = weak
      /\ color' = color /\ open' = open /\ tmudata' = tmudata
  BY DEF SweepDone, listVars, heapVars, finalVars
<1>2. \A o \in Obj \ tmudata : color[o] \in {"free", "white"}
  BY <1>1 DEF IInv, SweepInv
<1>3. MarkInv'
  BY <1>1, <1>2 DEF MarkInv, BlackInv, GrayIsListed, PauseIsWhite, Alloc, Marking, Stages
<1>4. SweepInv'
  BY <1>1, <1>2 DEF SweepInv, Sweeping, Dead, Alive, IInv, AliveInv
<1> QED
  BY <1>1, <1>3, <1>4, PhaseKeeps DEF IInv, GCTypeOK

LEMMA EndCycleStep ==
  ASSUME IInv, EndCycle
  PROVE  IInv'
<1>1. /\ phase = "finalize" /\ phase' = "pause" /\ toSweep' = toSweep
      /\ UNCHANGED <<color, heapVars, finalVars>> /\ full' = "no"
      /\ gray' = gray /\ grayagain' = grayagain /\ weak' = weak
      /\ color' = color /\ tmudata' = tmudata
  BY DEF EndCycle, listVars, heapVars, finalVars
<1>2. \A o \in toSweep : o \in Obj /\ color[o] # "free" /\ open[o] = Nothing
  BY DEF IInv, GCTypeOK, HeapInv, FreeInv, OpenInv
<1>3. MarkInv'
  BY <1>1 DEF IInv, MarkInv, BlackInv, GrayIsListed, PauseIsWhite, Alloc, Marking, Stages
<1>4. SweepInv'
  BY <1>1 DEF IInv, SweepInv, Sweeping, Dead
<1> QED
  BY <1>1, <1>2, <1>3, <1>4, PhaseKeeps DEF IInv, GCTypeOK

LEMMA FullGCStep ==
  ASSUME IInv, FullGC
  PROVE  IInv'
<1>1. /\ phase \notin Stages /\ UNCHANGED <<color, heapVars, finalVars>> /\ full' = "sweeping"
      /\ color' = color /\ open' = open /\ tmudata' = tmudata
  BY DEF FullGC, Running, heapVars, finalVars
<1>2. CASE phase \in {"pause", "propagate"}
  <2>1. /\ phase' = "sweepstring" /\ toSweep' = OfKind("string") \intersect Alloc
        /\ gray' = {} /\ grayagain' = {} /\ weak' = {}
    BY <1>2 DEF FullGC
  <2>2. \A o \in toSweep' : o \in Obj /\ color[o] # "free" /\ open[o] = Nothing
    BY <2>1 DEF OfKind, Alloc, IInv, HeapInv, OpenInv
  <2>3. MarkInv'
    BY <2>1 DEF MarkInv, BlackInv, GrayIsListed, PauseIsWhite, Marking, Stages
  <2>4. SweepInv'
    BY <1>1, <2>1 DEF SweepInv, Sweeping, OfKind, Alloc
  <2> QED
    BY <1>1, <2>1, <2>2, <2>3, <2>4, PhaseKeeps
<1>3. CASE phase \notin {"pause", "propagate"}
  <2>1. /\ phase' = phase /\ toSweep' = toSweep
        /\ gray' = gray /\ grayagain' = grayagain /\ weak' = weak
    BY <1>3 DEF FullGC, listVars
  <2>2. \A o \in toSweep : o \in Obj /\ color[o] # "free" /\ open[o] = Nothing
    BY DEF IInv, GCTypeOK, HeapInv, FreeInv, OpenInv
  <2>3. MarkInv'
    BY <1>1, <1>3, <2>1
    DEF IInv, MarkInv, BlackInv, GrayIsListed, PauseIsWhite, Alloc, Marking, Stages
  <2>4. SweepInv'
    BY <1>1, <2>1 DEF IInv, SweepInv, Sweeping, Dead
  <2> QED
    BY <1>1, <2>1, <2>2, <2>3, <2>4, PhaseKeeps DEF IInv, GCTypeOK, Stages
<1> QED
  BY <1>2, <1>3

LEMMA GCTMStep ==
  ASSUME IInv, NEW u \in tmudata, NEW th \in Threads, GCTM(u, th)
  PROVE  IInv'
<1>1. /\ phase = "finalize" /\ phase' = phase /\ toSweep' = toSweep /\ full' = "no"
      /\ tmudata' = tmudata \ {u} /\ ran' = ran \union {u} /\ finalized' = finalized
      /\ color' = [color EXCEPT ![u] = "white"]
      /\ refs' = [refs EXCEPT ![th] = @ \union {<<Index, u>>}]
      /\ mode' = mode /\ open' = open /\ basic' = basic
      /\ gray' = gray /\ grayagain' = grayagain /\ weak' = weak
  BY DEF GCTM, listVars
<1>2. /\ u \in Finalizable /\ u \in Obj /\ Kind[u] = "udata" /\ Alive(u)
      /\ th \in Obj /\ Kind[th] = "thread" /\ Alive(th)
      /\ \A x \in Obj : color[x] # "dead"
  BY <1>1, ThreadsAlive, KindsDiffer DEF IInv, GCTypeOK, AliveInv, SweepInv, Sweeping, Dead
<1>3. /\ \A x \in Obj : color'[x] = IF x = u THEN "white" ELSE color[x]
      /\ \A x \in Obj : refs'[x] = IF x = th THEN refs[x] \union {<<Index, u>>} ELSE refs[x]
      /\ <<Index, u>>[1] = Index /\ <<Index, u>>[2] = u
  BY <1>1, <1>2, StateTypes
<1>4. \A x \in Obj : Alive(x) <=> Alive(x)'
  BY <1>2, <1>3 DEF Alive, Dead
<1>5. GCTypeOK'
  <2>1. refs' \in [Obj -> SUBSET ((Obj \union {Index}) \X Obj)] /\ color' \in [Obj -> Colors]
    BY <1>1, <1>2, StateTypes DEF Colors, Whites
  <2> QED
    BY <1>1, <1>2, <2>1 DEF IInv, GCTypeOK, Colors
<1>6. AliveInv'
  <2>1. ASSUME NEW x \in Obj, Alive(x)', NEW v \in Obj, Refers(refs', open', x, v)
        PROVE  Alive(v)'
    <3>1. \A w \in Obj : open[w] = x => w # th
      BY <1>2, KindsDiffer DEF IInv, HeapInv, OpenInv
    <3>2. v = u \/ Refers(refs, open, x, v)
      BY <1>1, <1>3, <2>1, <3>1 DEF Refers
    <3> QED
      BY <1>2, <1>4, <2>1, <3>2 DEF IInv, AliveInv
  <2>2. Roots' = Roots /\ Roots \union tmudata \subseteq Obj
    BY <1>1, KindsDiffer DEF Roots, IInv, GCTypeOK, OfKind
  <2> QED
    BY <1>1, <1>4, <2>1, <2>2 DEF AliveInv, IInv
<1>7. HeapInv'
  <2>1. FreeInv'
    BY <1>1, <1>2, <1>3 DEF FreeInv, IInv, HeapInv, Alive
  <2>2. OpenInv'
    <3>1. \A w \in Obj : open[w] # Nothing => open[w] \in Obj
      BY StateTypes DEF OfKind
    <3> QED
      BY <1>1, <1>2, <1>3, <3>1 DEF OpenInv, IInv, HeapInv, Alive
  <2>3. RefsInv'
    <3>1. EntryOK(th, <<Index, u>>)
      BY <1>2, <1>3 DEF EntryOK
    <3>2. \A x \in Obj : \A e \in refs'[x] : e \in refs[x] \/ (x = th /\ e = <<Index, u>>)
      BY <1>3
    <3> QED
      BY <3>1, <3>2 DEF RefsInv, IInv, HeapInv
  <2>4. GrayInv'
    BY <1>1, <1>3 DEF GrayInv, IInv, HeapInv
  <2> QED
    BY <2>1, <2>2, <2>3, <2>4 DEF HeapInv
<1>8. MarkInv'
  BY <1>1, <1>3
  DEF IInv, MarkInv, BlackInv, GrayIsListed, PauseIsWhite, Alloc, Marking, Stages
<1>9. SweepInv' /\ AtomicInv'
  BY <1>1, <1>2, <1>3 DEF SweepInv, AtomicInv, Sweeping, Stages, Dead
<1>10. FinalInv'
  BY <1>1, <1>2, <1>3, KindsDiffer DEF IInv, FinalInv, Dead
<1> QED
  BY <1>5, <1>6, <1>7, <1>8, <1>9, <1>10 DEF IInv

-----------------------------------------------------------------------------
(***************************************************************************)
(* The theorems.                                                           *)
(***************************************************************************)
LEMMA InitHolds == GCInit => IInv
<1> SUFFICES ASSUME GCInit
             PROVE  IInv
  OBVIOUS
<1> USE DEF GCInit
<1>1. GCTypeOK
  BY KindsDiffer DEF GCTypeOK, Whites, OfKind
<1>2. AliveInv
  BY KindsDiffer DEF AliveInv, Roots, Alive, Dead, Refers
<1>3. MarkInv /\ SweepInv /\ AtomicInv /\ FinalInv
  BY KindsDiffer
  DEF MarkInv, BlackInv, GrayIsListed, PauseIsWhite, Alloc, Marking, Stages, SweepInv, Sweeping,
      AtomicInv, FinalInv, Dead
<1>4. HeapInv
  BY KindsDiffer DEF HeapInv, FreeInv, OpenInv, RefsInv, GrayInv
<1> QED
  BY <1>1, <1>2, <1>3, <1>4 DEF IInv

(* A step of the collector keeps the invariant, whoever uses debug.        *)
LEMMA CollectorKeeps == IInv /\ CollectorStep => IInv'
BY StartCycleStep, PropagateStep, AtomicUpvalsStep, AtomicWeakStep, AtomicAgainStep,
   AtomicUserdataStep, AtomicClearStep, SweepStep, SweepStringsDoneStep, SweepDoneStep,
   GCTMStep, EndCycleStep
DEF CollectorStep

LEMMA ProgramKeeps ==
  ASSUME DebugLibrary = FALSE
  PROVE  IInv /\ ProgramStep => IInv'
<1> SUFFICES ASSUME IInv, ProgramStep
             PROVE  IInv'
  OBVIOUS
<1>1. CASE FullGC \/ ClearBasic
  BY <1>1, FullGCStep, ClearBasicStep
<1>2. CASE \E o \in Obj : New(o) \/ NewString(o) \/ Get(o)
  BY <1>2, NewStep, NewStringStep, GetStep
<1>3. CASE \E th \in Threads : \E v \in Operands : Give(th, v)
  BY <1>3, GiveStep
<1>4. CASE \E th \in Threads : \E e \in refs[th] : Drop(th, e)
  BY <1>4, DropStep
<1>5. CASE \E t, v \in Operands : \E k \in Operands \union {Index} : SetTable(t, k, v)
  BY <1>5, SetTableStep
<1>6. CASE \E t \in Operands : \E e \in refs[t] : Erase(t, e)
  BY <1>6, EraseStep
<1>7. CASE \E t \in Operands : SetBasic(t) \/ \E m \in Modes : SetMode(t, m)
  BY <1>7, SetBasicStep, SetModeStep
<1>8. CASE \E o, t \in Operands : SetEnv(o, t)
  BY <1>8, SetEnvStep
<1>9. CASE \E c \in Obj, th \in Threads :
             \/ \E p \in Operands \intersect OfKind("closure") :
                  \E w \in Values(p) \intersect OfKind("upval") : ShareUpval(c, th, w)
             \/ \E w \in Upvals(th) : FindUpval(c, th, w)
             \/ \E w \in Obj, e \in refs[th] : NewUpval(c, th, w, e)
  BY <1>9, ShareUpvalStep, FindUpvalStep, NewUpvalStep
<1>10. CASE \E c, v \in Operands : \E w \in Values(c) : SetUpval(c, w, v)
  BY <1>10, SetUpvalStep
<1>11. CASE \E th \in Threads : \E w \in Upvals(th) :
              CloseUpval(th, w) \/ \E v \in Operands : SetLocal(th, w, v)
  BY <1>11, CloseUpvalStep, SetLocalStep
<1> QED
  BY <1>1, <1>2, <1>3, <1>4, <1>5, <1>6, <1>7, <1>8, <1>9, <1>10, <1>11 DEF ProgramStep

LEMMA StutterKeeps == IInv /\ UNCHANGED gcVars => IInv'
<1> SUFFICES ASSUME IInv, UNCHANGED gcVars
             PROVE  IInv'
  OBVIOUS
<1>1. /\ UNCHANGED <<color, heapVars, finalVars>>
      /\ phase' = phase /\ full' = full /\ toSweep' = toSweep
      /\ gray' = gray /\ grayagain' = grayagain /\ weak' = weak
      /\ color' = color /\ refs' = refs /\ mode' = mode /\ open' = open /\ basic' = basic
      /\ finalized' = finalized /\ tmudata' = tmudata /\ ran' = ran
  BY DEF gcVars, heapVars, finalVars
<1>2. GCTypeOK' /\ AliveInv' /\ HeapInv'
  BY <1>1
  DEF IInv, GCTypeOK, AliveInv, Roots, Alive, Dead, HeapInv, FreeInv, OpenInv, RefsInv, GrayInv
<1>3. MarkInv' /\ SweepInv'
  BY <1>1 DEF IInv, MarkInv, BlackInv, Done, GrayIsListed, PauseIsWhite, Alloc, SweepInv, Dead
<1>4. AtomicInv' /\ FinalInv'
  <2>1. \A t : Traversed(t)' = Traversed(t)
    BY <1>1, TraversedSame
  <2> QED
    BY <1>1, <2>1 DEF IInv, AtomicInv, Roots, Done, FinalInv, Dead
<1> QED
  BY <1>2, <1>3, <1>4 DEF IInv

LEMMA IInvHolds ==
  ASSUME DebugLibrary = FALSE
  PROVE  GCSpec => []IInv
<1>1. IInv /\ [GCNext]_gcVars => IInv'
  BY CollectorKeeps, ProgramKeeps, StutterKeeps DEF GCNext
<1> QED
  BY <1>1, InitHolds, PTL DEF GCSpec

(* Nothing the program can take out of an object is freed or condemned,    *)
(* by a collector that stops anywhere between the marks (checkliveness,    *)
(* lgc.h's luaC_ barriers, atomic and sweeplist): for any objects and any  *)
(* program that leaves upvalues to OP_SETUPVAL.                            *)
THEOREM NothingDangles ==
  ASSUME DebugLibrary = FALSE
  PROVE  GCSpec => []NoDangling
<1>1. IInv => NoDangling
  BY Restated DEF IInv, HeapInv
<1> QED
  BY <1>1, IInvHolds, PTL

(* The marks are in order in every phase: what the barriers and            *)
(* luaC_linkupval assert, that no black object refers to a white one while *)
(* objects are marked, and that the gray ones are in one list each.        *)
THEOREM MarksInOrder ==
  ASSUME DebugLibrary = FALSE
  PROVE  GCSpec => []GCInv
<1>1. IInv => GCInv
  BY Restated DEF IInv, HeapInv, MarkInv, GCInv
<1> QED
  BY <1>1, IInvHolds, PTL

(* A step frees only what is dead, the sweep and luaF_close alike.         *)
FreesDead == \A o \in Obj : color[o] # "free" /\ color'[o] = "free" => Dead(o)

LEMMA PaintedAllocated ==
  ASSUME NEW M, NEW c, NEW o \in Obj, Painted(M, c)[o] = "free"
  PROVE  c[o] = "free"
BY DEF Painted

LEMMA CollectorFrees == IInv /\ CollectorStep => FreesDead
<1> SUFFICES ASSUME IInv, CollectorStep, NEW o \in Obj, color[o] # "free", color'[o] = "free"
             PROVE  Dead(o)
  BY DEF FreesDead
<1>1. color \in [Obj -> Colors] /\ tmudata \subseteq Obj /\ toSweep \subseteq Obj
  BY StateTypes, KindsDiffer DEF IInv, GCTypeOK
<1>2. CASE StartCycle \/ AtomicUpvals \/ \E th \in Threads : AtomicWeak(th)
  BY <1>2, PaintedAllocated DEF StartCycle, AtomicUpvals, AtomicWeak
<1>3. ASSUME NEW x \in gray, PropagateMark(x)
      PROVE  FALSE
  <2> DEFINE c == [color EXCEPT ![x] = IF StaysGray(x) THEN "gray" ELSE "black"]
  <2>1. color' = Painted(Marked(Traversed(x), c), c)
    BY <1>3 DEF PropagateMark
  <2>2. c[o] # "free"
    BY <1>1
  <2> HIDE DEF c
  <2> QED
    BY <2>1, <2>2, PaintedAllocated
<1>4. CASE AtomicUserdata
  <2>1. color' = Painted(Marked(tmudata', MarkTmu(tmudata')), MarkTmu(tmudata'))
    BY <1>4 DEF AtomicUserdata
  <2>2. MarkTmu(tmudata')[o] # "free"
    BY DEF MarkTmu
  <2> QED
    BY <2>1, <2>2, PaintedAllocated
<1>5. CASE AtomicClear
  BY <1>5 DEF AtomicClear, Flipped
<1>6. ASSUME NEW x \in toSweep, Sweep(x)
      PROVE  Dead(o)
  BY <1>6 DEF Sweep
<1>7. CASE AtomicAgain \/ SweepStringsDone \/ SweepDone \/ EndCycle
  BY <1>7 DEF AtomicAgain, SweepStringsDone, SweepDone, EndCycle
<1>8. ASSUME NEW u \in tmudata, NEW th \in Threads, GCTM(u, th)
      PROVE  FALSE
  BY <1>1, <1>8 DEF GCTM
<1> QED
  BY <1>2, <1>3, <1>4, <1>5, <1>6, <1>7, <1>8 DEF CollectorStep

LEMMA BarrierFrees ==
  ASSUME IInv, NEW x, NEW v, BarrierF(x, v), NEW o \in Obj, color'[o] = "free"
  PROVE  color[o] = "free"
BY StateTypes, PaintedAllocated DEF BarrierF

LEMMA ProgramFrees == IInv /\ ProgramStep => FreesDead
<1> SUFFICES ASSUME IInv, ProgramStep, NEW o \in Obj, color[o] # "free", color'[o] = "free"
             PROVE  Dead(o)
  BY DEF FreesDead
<1>1. color \in [Obj -> Colors]
  BY StateTypes
<1>2. CASE FullGC \/ ClearBasic
  BY <1>2 DEF FullGC, ClearBasic
<1>3. CASE \E x \in Obj : New(x) \/ NewString(x) \/ Get(x)
  BY <1>1, <1>3 DEF New, NewString, Resurrected, Get
<1>4. CASE \E th \in Threads : \/ \E v \in Operands : Give(th, v)
                               \/ \E e \in refs[th] : Drop(th, e)
  BY <1>4 DEF Give, Drop
<1>5. CASE \E t, v \in Operands : \E k \in Operands \union {Index} : SetTable(t, k, v)
  BY <1>1, <1>5 DEF SetTable, BarrierBack, Backed
<1>6. CASE \E t \in Operands : \/ \E e \in refs[t] : Erase(t, e)
                               \/ \E m \in Modes : SetMode(t, m)
                               \/ SetBasic(t)
  BY <1>1, <1>6 DEF Erase, SetMode, Backed, SetBasic
<1>7. CASE \E x, t \in Operands : SetEnv(x, t)
  BY <1>7, BarrierFrees DEF SetEnv
<1>8. CASE \E c \in Obj, th \in Threads :
             \/ \E p \in Operands \intersect OfKind("closure") :
                  \E w \in Values(p) \intersect OfKind("upval") : ShareUpval(c, th, w)
             \/ \E w \in Upvals(th) : FindUpval(c, th, w)
             \/ \E w \in Obj, e \in refs[th] : NewUpval(c, th, w, e)
  BY <1>1, <1>8 DEF ShareUpval, FindUpval, NewUpval, Resurrected
<1>9. CASE \E c, v \in Operands : \E w \in Values(c) : SetUpval(c, w, v)
  BY <1>9, BarrierFrees DEF SetUpval
<1>10. ASSUME NEW th \in Threads, NEW w \in Upvals(th), CloseUpval(th, w)
       PROVE  Dead(o)
  <2>1. CASE Dead(w)
    BY <1>1, <1>10, <2>1 DEF CloseUpval
  <2>2. CASE ~Dead(w)
    <3>1. LinkUpval(w)
      BY <1>10, <2>2 DEF CloseUpval
    <3> DEFINE c == [color EXCEPT ![w] = "black"]
    <3>2. CASE color' = Painted(Marked(Values(w), c), c)
      <4>1. c[o] # "free"
        BY <1>1
      <4> HIDE DEF c
      <4> QED
        BY <3>2, <4>1, PaintedAllocated
    <3>3. CASE color' = color \/ color' = [color EXCEPT ![w] = "white"]
      BY <1>1, <3>3
    <3> QED
      BY <3>1, <3>2, <3>3 DEF LinkUpval
  <2> QED
    BY <2>1, <2>2
<1>11. ASSUME NEW th \in Threads, NEW w \in Upvals(th), NEW v \in Operands, SetLocal(th, w, v)
       PROVE  FALSE
  BY <1>11 DEF SetLocal
<1> QED
  BY <1>2, <1>3, <1>4, <1>5, <1>6, <1>7, <1>8, <1>9, <1>10, <1>11 DEF ProgramStep

(* Memory is freed only when it was condemned: a step of the collector or  *)
(* of the program (freeobj, luaF_freeupval) frees nothing that is alive,   *)
(* and so, with NothingDangles, nothing that can be reached.               *)
THEOREM OnlyDeadFreed ==
  ASSUME DebugLibrary = FALSE
  PROVE  GCSpec => [][FreesDead]_gcVars
<1>1. IInv /\ [GCNext]_gcVars => [FreesDead]_gcVars
  BY CollectorFrees, ProgramFrees DEF GCNext
<1> QED
  BY <1>1, IInvHolds, PTL DEF GCSpec

(* luaC_separateudata, GCTM and sweeplist: a userdata leaves the list of   *)
(* those that wait only for its first finalizer, and one that has a        *)
(* finalizer is not freed before it was called.                            *)
THEOREM FinalizersRunOnce ==
  ASSUME DebugLibrary = FALSE
  PROVE  GCSpec => FinalizedOnce
<1> DEFINE Once ==
      \A u \in Finalizable :
        /\ u \in tmudata /\ u \notin tmudata' => u \notin ran
        /\ color[u] # "free" /\ color'[u] = "free" => u \in ran
<1>1. IInv /\ FreesDead => Once
  BY KindsDiffer DEF IInv, FinalInv, FreesDead
<1>2. IInv /\ [GCNext]_gcVars => [Once]_gcVars
  BY <1>1, CollectorFrees, ProgramFrees DEF GCNext
<1>3. FinalizedOnce <=> [][Once]_gcVars
  BY DEF FinalizedOnce
<1> HIDE DEF Once
<1> QED
  BY <1>2, <1>3, IInvHolds, PTL DEF GCSpec

(* What is marked when atomic clears the weak tables is closed under what  *)
(* traversing marks, so that a white object can be had by weak references  *)
(* only.                                                                   *)
LEMMA WhiteForgotten ==
  ASSUME IInv, phase = "preserve", gray = {}, NEW x \in Obj, color[x] \in Whites
  PROVE  Forgotten(x)
<1> DEFINE kept == {o \in Obj : color[o] \in {"gray", "black"}}
<1>1. /\ GCTypeOK /\ RefsInv /\ color \in [Obj -> Colors]
      /\ phase \in Marking /\ phase \in Stages
  BY StateTypes DEF IInv, HeapInv, Marking, Stages
<1>2. Roots \union tmudata \subseteq kept
  <2>1. \A o \in Roots : o \in Obj /\ color[o] \notin Whites /\ Alive(o)
    BY <1>1, KindsDiffer DEF IInv, AtomicInv, AliveInv, Roots, GCTypeOK, OfKind
  <2>2. \A u \in tmudata : u \in Obj /\ color[u] = "black"
    BY <1>1, KindsDiffer DEF IInv, AtomicInv, GCTypeOK
  <2> QED
    BY <1>1, <2>1, <2>2 DEF Colors, Alive, Whites
<1>3. ASSUME NEW o \in kept, NEW v \in Traversed(o)
      PROVE  v \in kept
  <2>1. v \in Obj /\ v \in All(o) /\ Refers(refs, open, o, v)
    BY <1>1, <1>3, TraversedType, ValuesRefer
  <2>2. color[v] # "free"
    BY <1>3, <2>1 DEF IInv, AliveInv, Alive, Dead
  <2>3. color[v] \notin Whites
    <3>1. CASE color[o] = "black"
      <4>1. Done(o)
        BY <1>1, <1>3, <3>1 DEF IInv, MarkInv, BlackInv, AtomicInv
      <4> QED
        BY <2>1, <4>1 DEF Done
    <3>2. CASE color[o] = "gray" /\ Kind[o] = "upval"
      <4>1. Done(o)
        BY <1>1, <1>3, <3>2 DEF IInv, HeapInv, GrayInv, AtomicInv
      <4> QED
        BY <2>1, <4>1 DEF Done
    <3>3. CASE o \in grayagain
      <4>1. Done(o)
        BY <3>3 DEF IInv, AtomicInv
      <4> QED
        BY <2>1, <4>1 DEF Done
    <3>4. CASE o \in weak
      BY <1>3, <3>4 DEF IInv, AtomicInv
    <3>5. color[o] = "gray" => Kind[o] = "upval" \/ o \in grayagain \union weak
      <4>1. color[o] = "gray" => Kind[o] # "udata"
        BY <1>3 DEF IInv, HeapInv, GrayInv
      <4>2. Kind[o] \in {"table", "closure", "thread"} /\ color[o] = "gray" =>
              o \in grayagain \union weak
        BY <1>1, <1>3, StageLists DEF Listed
      <4>3. Kind[o] # "string"
        BY <1>1, <1>3, <2>1, OwnEntries DEF RefsInv, EntryOK
      <4> QED
        BY <1>3, <4>1, <4>2, <4>3, KindsDiffer DEF Kinds
    <3> QED
      BY <1>3, <3>1, <3>2, <3>3, <3>4, <3>5
  <2> QED
    BY <1>1, <2>1, <2>2, <2>3 DEF Colors, Whites
<1>4. x \notin kept
  BY DEF Whites
<1> HIDE DEF kept
<1>5. kept \in SUBSET Obj
  BY DEF kept
<1> QED
  BY <1>2, <1>3, <1>4, <1>5 DEF Forgotten

(* cleartable: an entry that a weak table loses had a key or a value that  *)
(* the program could not reach any more, or the userdata of a finalizer,   *)
(* for any tables, modes and program.                                      *)
THEOREM WeakEntriesKept ==
  ASSUME DebugLibrary = FALSE
  PROVE  GCSpec => WeakKept
<1> DEFINE Kept == phase = "preserve" /\ phase' = "sweepstring" =>
                     \A t \in Obj : \A e \in refs[t] \ refs'[t] : Losable(e)
<1>1. IInv /\ AtomicClear => Kept
  <2> SUFFICES ASSUME IInv, AtomicClear, NEW t \in Obj, NEW e \in refs[t], e \notin refs'[t]
               PROVE  Losable(e)
    OBVIOUS
  <2>1. /\ phase = "preserve" /\ gray = {} /\ t \in weak /\ e \in Cleared(t)
    BY DEF AtomicClear, Stage
  <2>2. e[2] \in Obj /\ e[1] \in Obj \union {Index}
    BY EntryType DEF IInv
  <2>3. (e[1] # Index /\ ClearedKey(e[1])) \/ ClearedValue(e[2])
    BY <2>1 DEF Cleared
  <2>4. CASE e[1] # Index /\ ClearedKey(e[1])
    <3>1. e[1] \in Obj /\ Kind[e[1]] # "string" /\ color[e[1]] \in Whites
      BY <2>2, <2>4 DEF ClearedKey
    <3> QED
      BY <2>1, <2>4, <3>1, WhiteForgotten DEF Losable
  <2>5. CASE ClearedValue(e[2])
    <3>1. e[2] # Index /\ Kind[e[2]] # "string"
      BY <2>2, <2>5, KindsDiffer DEF ClearedValue
    <3>2. Forgotten(e[2]) \/ e[2] \in finalized
      BY <2>1, <2>2, <2>5, WhiteForgotten DEF ClearedValue
    <3> QED
      BY <3>1, <3>2 DEF Losable
  <2> QED
    BY <2>3, <2>4, <2>5
<1>2. ASSUME phase = "preserve", phase' = "sweepstring", GCNext
      PROVE  AtomicClear
  <2>1. ~Running
    BY <1>2 DEF Running, Stages
  <2>2. ~ProgramStep
    BY <2>1 DEF ProgramStep, FullGC, New, NewString, Get, Give, Drop, SetTable, Erase, SetMode,
       SetBasic, ClearBasic, SetEnv, ShareUpval, FindUpval, NewUpval, NewClosure, SetUpval,
       CloseUpval, SetLocal
  <2> QED
    BY <1>2, <2>2 DEF GCNext, CollectorStep, StartCycle, PropagateMark, AtomicUpvals, AtomicWeak,
       AtomicAgain, AtomicUserdata, Stage, Sweep, SweepStringsDone, SweepDone, GCTM, EndCycle,
       cycleVars
<1>3. IInv /\ [GCNext]_gcVars => [Kept]_gcVars
  BY <1>1, <1>2
<1>4. WeakKept <=> [][Kept]_gcVars
  BY DEF WeakKept
<1> HIDE DEF Kept
<1> QED
  BY <1>3, <1>4, IInvHolds, PTL DEF GCSpec

-----------------------------------------------------------------------------
(***************************************************************************)
(* A full collection is complete.  What may be kept is the least set that  *)
(* has the roots and the userdata with finalizers, and what traversing its *)
(* members marks: nothing outside is ever marked while luaC_fullgc marks,  *)
(* and the sweep frees it.                                                 *)
(***************************************************************************)
Marks == {"gray", "black"}
HalfWeak(t) == Kind[t] = "table" /\ mode[t] \in {"k", "v"}

Source == Roots \union tmudata
ClosedSet(X) == \A x \in X : Traversed(x) \subseteq X
Reached ==
  {o \in Obj : \A X \in SUBSET Obj : Source \subseteq X /\ ClosedSet(X) => o \in X}

(* A string may be kept because a table that is weak on both sides was     *)
(* asked for it.                                                           *)
AskedFor(o) == Kind[o] = "string" /\ \E t \in Obj : Alive(t) /\ mode[t] = "kv"

MarkedReached ==
  \/ \E t \in Obj : color[t] \in Marks /\ HalfWeak(t)
  \/ \A o \in Obj : color[o] \in Marks => o \in Reached

AliveReached ==
  \/ \E t \in Obj : Alive(t) /\ HalfWeak(t)
  \/ \A o \in Obj : Alive(o) => o \in Reached \/ AskedFor(o)

CompleteInv ==
  full = "marking" =>
    /\ phase \in Marking => MarkedReached /\ \A t \in weak : Weak(t)
    /\ phase \notin Marking => phase \in Sweeping \union {"finalize"} /\ AliveReached

LEMMA SourceType == GCTypeOK => Source \in SUBSET Obj
BY KindsDiffer DEF GCTypeOK, Source, Roots, OfKind

LEMMA ReachedClosed ==
  ASSUME GCTypeOK
  PROVE  Reached \in SUBSET Obj /\ Source \subseteq Reached /\ ClosedSet(Reached)
<1>1. Source \subseteq Reached
  BY SourceType DEF Reached
<1>2. ASSUME NEW x \in Reached, NEW v \in Traversed(x)
      PROVE  v \in Reached
  <2>1. v \in Obj
    BY <1>2, TraversedType DEF Reached
  <2>2. ASSUME NEW X \in SUBSET Obj, Source \subseteq X, ClosedSet(X)
        PROVE  v \in X
    BY <1>2, <2>2 DEF Reached, ClosedSet
  <2> QED
    BY <2>1, <2>2 DEF Reached
<1> QED
  BY <1>1, <1>2 DEF Reached, ClosedSet

LEMMA ReachedLeast ==
  ASSUME NEW X \in SUBSET Obj, Source \subseteq X, ClosedSet(X)
  PROVE  Reached \subseteq X
BY DEF Reached

(* No more than what is alive is reached. *)
LEMMA ReachedAlive ==
  ASSUME GCTypeOK, RefsInv, AliveInv
  PROVE  Reached \subseteq {o \in Obj : Alive(o)}
<1> DEFINE X == {o \in Obj : Alive(o)}
<1>1. Source \subseteq X
  BY SourceType DEF AliveInv, Source
<1>2. ASSUME NEW x \in X, NEW v \in Traversed(x)
      PROVE  v \in X
  <2>1. v \in All(x) /\ v \in Obj
    BY <1>2, TraversedType
  <2> QED
    BY <1>2, <2>1, ValuesRefer DEF AliveInv
<1> HIDE DEF X
<1>3. ClosedSet(X)
  BY <1>2 DEF ClosedSet
<1> QED
  BY <1>1, <1>3, ReachedLeast DEF X

(* What is reached stays so while nothing on the way there changes. *)
LEMMA ReachedGrows ==
  ASSUME GCTypeOK, Source \subseteq Source',
         \A x \in Reached : Traversed(x) \subseteq Traversed(x)'
  PROVE  Reached \subseteq Reached'
<1> SUFFICES ASSUME NEW o \in Reached, NEW X \in SUBSET Obj, Source' \subseteq X,
                    ClosedSet(X)'
             PROVE  o \in X
  <2>1. Reached \subseteq Obj
    BY ReachedClosed
  <2> QED
    BY <2>1 DEF Reached
<1>1. ClosedSet(X \intersect Reached)
  BY ReachedClosed DEF ClosedSet
<1>2. Source \subseteq X \intersect Reached
  BY ReachedClosed
<1> QED
  BY <1>1, <1>2, ReachedClosed, ReachedLeast

(* Marking stays in any closed set. *)
LEMMA MarkedWithin ==
  ASSUME GCTypeOK, NEW X \in SUBSET Obj, ClosedSet(X), NEW S \in SUBSET X, NEW c
  PROVE  Marked(S, c) \subseteq X
<1> DEFINE WhiteOf(T) == {o \in T : c[o] \in Whites}
           Through(T, k) == WhiteOf(UNION {Values(o) : o \in T \intersect OfKind(k)})
           first == WhiteOf(S)
           second == first \union Through(first, "upval")
           third == second \union Through(second, "udata")
<1>1. Marked(S, c) = third
  BY DEF Marked
<1>2. ASSUME NEW T \in SUBSET X, NEW k \in {"upval", "udata"}
      PROVE  Through(T, k) \in SUBSET X
  <2>1. ASSUME NEW o \in T, Kind[o] = k
        PROVE  Values(o) \subseteq X
    <3>1. Values(o) \subseteq Traversed(o)
      BY <2>1 DEF Traversed, Weak
    <3> QED
      BY <3>1 DEF ClosedSet
  <2> QED
    BY <2>1 DEF OfKind
<1>3. first \in SUBSET X
  OBVIOUS
<1> HIDE DEF Through, first
<1>4. second \in SUBSET X
  BY <1>2, <1>3
<1> HIDE DEF second
<1>5. third \in SUBSET X
  BY <1>2, <1>4
<1> QED
  BY <1>1, <1>5

-----------------------------------------------------------------------------
(* Marking in a full collection: what is newly marked is reached. *)
LEMMA HeapSame ==
  ASSUME IInv, UNCHANGED heapVars, tmudata \subseteq tmudata'
  PROVE  /\ Reached \subseteq Reached' /\ ClosedSet(Reached') /\ Reached' \in SUBSET Obj
         /\ tmudata' \subseteq Obj => Source' \subseteq Reached'
<1>1. GCTypeOK
  BY DEF IInv
<1>2. \A x : Traversed(x)' = Traversed(x)
  BY DEF Traversed, Weak, Values, Slots, Keys, heapVars
<1>3. Source \subseteq Source'
  BY DEF Source, Roots, heapVars
<1>4. Reached \subseteq Reached'
  BY <1>1, <1>2, <1>3, ReachedGrows
<1>5. \A X : ClosedSet(X)' <=> ClosedSet(X)
  BY <1>2 DEF ClosedSet
<1>6. Reached' = {o \in Obj : \A X \in SUBSET Obj : Source' \subseteq X /\ ClosedSet(X) => o \in X}
  BY <1>5 DEF Reached
<1>7. Reached' \in SUBSET Obj
  BY <1>6
<1>8. ASSUME NEW x \in Reached', NEW v \in Traversed(x)
      PROVE  v \in Reached'
  <2>1. v \in Obj
    BY <1>1, <1>7, <1>8, TraversedType
  <2>2. ASSUME NEW X \in SUBSET Obj, Source' \subseteq X, ClosedSet(X)
        PROVE  v \in X
    <3>1. x \in X
      BY <1>6, <2>2
    <3> QED
      BY <1>8, <2>2, <3>1 DEF ClosedSet
  <2> QED
    BY <1>6, <2>1, <2>2
<1>9. ClosedSet(Reached')
  BY <1>8 DEF ClosedSet
<1>10. tmudata' \subseteq Obj => Source' \subseteq Reached'
  <2>1. Roots' \subseteq Obj
    BY <1>1, SourceType DEF Source, Roots, heapVars
  <2> QED
    BY <1>6, <2>1 DEF Source
<1> QED
  BY <1>4, <1>7, <1>9, <1>10

LEMMA FullMarking ==
  ASSUME IInv, IInv', MarkedReached, UNCHANGED heapVars, tmudata \subseteq tmudata',
         phase' \in Marking, \A t \in weak' : Weak(t),
         NEW c \in [Obj -> Colors], NEW S \in SUBSET Obj, color' = Painted(Marked(S, c), c),
         \A o \in Obj : color[o] \in Marks => c[o] \in Marks \/ (c[o] \in Whites /\ o \in S),
         \A o \in Obj : c[o] \in Marks => color[o] \in Marks,
         (\A o \in Obj : color[o] \in Marks => o \in Reached) => S \subseteq Reached'
  PROVE  CompleteInv'
<1> DEFINE M == Marked(S, c)
<1>1. MarkedFor(S, M, c, color')
  BY PaintedMarks DEF IInv, HeapInv
<1>2. /\ \A o \in Obj : o \notin M => color'[o] = c[o]
      /\ \A o \in M : color'[o] \in Marks
      /\ \A o \in S : color'[o] \notin Whites
  BY <1>1 DEF MarkedFor, Marks
<1>3. (\A o \in Obj : color[o] \in Marks => o \in Reached) => M \subseteq Reached'
  <2> SUFFICES ASSUME \A o \in Obj : color[o] \in Marks => o \in Reached
               PROVE  M \subseteq Reached'
    OBVIOUS
  <2>1. Reached' \in SUBSET Obj /\ ClosedSet(Reached') /\ S \subseteq Reached'
    BY HeapSame
  <2> QED
    BY <2>1, MarkedWithin DEF IInv
<1>4. Reached \subseteq Reached'
  BY HeapSame
<1> HIDE DEF M
<1>5. \A o \in Obj : color[o] \in Marks => color'[o] \in Marks
  BY <1>2 DEF Marks, Whites
<1>6. \A t : HalfWeak(t)' <=> HalfWeak(t)
  BY DEF HalfWeak, heapVars
<1>7. \A t : Weak(t)' <=> Weak(t)
  BY DEF Weak, heapVars
<1>8. MarkedReached'
  <2>1. CASE \E t \in Obj : color[t] \in Marks /\ HalfWeak(t)
    BY <1>5, <1>6, <2>1 DEF MarkedReached
  <2>2. CASE \A o \in Obj : color[o] \in Marks => o \in Reached
    BY <1>2, <1>3, <1>4, <2>2 DEF MarkedReached
  <2> QED
    BY <2>1, <2>2 DEF MarkedReached
<1> QED
  BY <1>7, <1>8 DEF CompleteInv

LEMMA FullStart ==
  ASSUME IInv, IInv', StartCycle, full' = "marking"
  PROVE  CompleteInv'
<1>1. /\ phase = "finalize" /\ phase' = "propagate"
      /\ color' = Painted(Marked(Roots, color), color)
      /\ weak' = {} /\ UNCHANGED heapVars /\ tmudata' = tmudata
  BY DEF StartCycle, MarkRoot, finalVars
<1>2. Source \subseteq Reached
  BY ReachedClosed DEF IInv
<1>3. \A o \in Obj : color[o] \in Marks => o \in Reached
  BY <1>1, <1>2 DEF IInv, MarkInv, PauseIsWhite, Alloc, Marks, Source
<1>4. color \in [Obj -> Colors]
  BY StateTypes
<1>5. Roots \in SUBSET Obj
  BY SourceType DEF IInv, Source
<1>6. Roots \subseteq Reached'
  BY <1>1, <1>2, HeapSame DEF Source
<1> QED
  BY <1>1, <1>3, <1>4, <1>5, <1>6, FullMarking DEF MarkedReached, Marking

(* In the phases of marking, of what CompleteInv says. *)
LEMMA FullMarks ==
  ASSUME IInv, CompleteInv, full = "marking", phase \in Marking
  PROVE  /\ MarkedReached /\ color \in [Obj -> Colors]
         /\ \A t \in weak : Weak(t) /\ t \in Obj /\ color[t] = "gray"
         /\ \A o \in gray : o \in Obj /\ color[o] = "gray"
<1>1. GrayIsListed /\ phase \in {"propagate"} \union Stages
  BY DEF IInv, MarkInv, Marking
<1>2. \A o \in gray \union weak : o \in Obj /\ color[o] = "gray"
  BY <1>1 DEF GrayIsListed, Listed
<1> QED
  BY <1>2, StateTypes DEF CompleteInv

LEMMA FullPropagate ==
  ASSUME IInv, IInv', CompleteInv, full = "marking", NEW o \in gray, PropagateMark(o)
  PROVE  CompleteInv'
<1> DEFINE c == [color EXCEPT ![o] = IF StaysGray(o) THEN "gray" ELSE "black"]
<1>1. /\ phase \in Marking /\ phase' = phase /\ UNCHANGED heapVars /\ tmudata' = tmudata
      /\ color' = Painted(Marked(Traversed(o), c), c)
      /\ weak' = IF Weak(o) THEN weak \union {o} ELSE weak
  BY DEF PropagateMark, Marking, cycleVars, finalVars
<1>2. /\ MarkedReached /\ color \in [Obj -> Colors] /\ \A t \in weak : Weak(t)
      /\ o \in Obj /\ color[o] = "gray"
  BY <1>1, FullMarks
<1>3. /\ c \in [Obj -> Colors]
      /\ c[o] \in Marks
      /\ \A x \in Obj : x # o => c[x] = color[x]
  BY <1>2 DEF Colors, Marks
<1> HIDE DEF c
<1>4. Traversed(o) \in SUBSET Obj
  BY <1>2, TraversedType DEF IInv
<1>5. \A t \in weak' : Weak(t)
  BY <1>1, <1>2
<1>6. ASSUME \A x \in Obj : color[x] \in Marks => x \in Reached
      PROVE  Traversed(o) \subseteq Reached'
  <2>1. o \in Reached
    BY <1>2, <1>6 DEF Marks
  <2>2. Traversed(o) \subseteq Reached
    BY <2>1, ReachedClosed DEF ClosedSet, IInv
  <2> QED
    BY <1>1, <2>2, HeapSame
<1>7. /\ \A x \in Obj : color[x] \in Marks => c[x] \in Marks
      /\ \A x \in Obj : c[x] \in Marks => color[x] \in Marks
  BY <1>2, <1>3 DEF Marks
<1> QED
  BY <1>1, <1>2, <1>3, <1>4, <1>5, <1>6, <1>7, FullMarking

LEMMA FullUpvals ==
  ASSUME IInv, IInv', CompleteInv, full = "marking", AtomicUpvals
  PROVE  CompleteInv'
<1>1. /\ phase \in Marking /\ phase' \in Marking /\ UNCHANGED heapVars /\ tmudata' = tmudata
      /\ color' = Painted(Marked(RemarkUpvals, color), color)
      /\ weak' = weak
  BY DEF AtomicUpvals, Stage, Marking, Stages, finalVars
<1>2. MarkedReached /\ color \in [Obj -> Colors] /\ \A t \in weak : Weak(t)
  BY <1>1, FullMarks
<1>3. \A w \in Obj : open[w] # Nothing => Values(w) \subseteq Traversed(w)
  BY DEF IInv, HeapInv, OpenInv, Traversed, Weak
<1>4. RemarkUpvals \in SUBSET Obj
  BY <1>3, TraversedType DEF RemarkUpvals, IInv
<1>5. ASSUME \A x \in Obj : color[x] \in Marks => x \in Reached
      PROVE  RemarkUpvals \subseteq Reached'
  <2>1. RemarkUpvals \subseteq Reached
    BY <1>3, <1>5, ReachedClosed DEF ClosedSet, IInv, RemarkUpvals, Marks
  <2> QED
    BY <1>1, <2>1, HeapSame
<1> QED
  BY <1>1, <1>2, <1>4, <1>5, FullMarking

LEMMA FullWeak ==
  ASSUME IInv, IInv', CompleteInv, full = "marking", NEW th \in Threads, AtomicWeak(th)
  PROVE  CompleteInv'
<1>1. /\ phase \in Marking /\ phase' \in Marking /\ UNCHANGED heapVars /\ tmudata' = tmudata
      /\ color' = Painted(Marked(Roots \union {th}, color), color)
      /\ weak' = {}
  BY DEF AtomicWeak, Stage, Marking, Stages, finalVars
<1>2. MarkedReached /\ color \in [Obj -> Colors]
  BY <1>1, FullMarks
<1>3. Roots \union {th} \in SUBSET Obj
  BY SourceType, ThreadsAlive DEF IInv, Source
<1>4. Roots \union {th} \subseteq Reached
  <2>1. Main \in Reached /\ Roots \subseteq Reached
    BY ReachedClosed DEF Source, Roots, IInv
  <2>2. Values(Main) \subseteq Traversed(Main)
    BY KindsDiffer DEF Traversed, Weak
  <2>3. th = Main \/ th \in Values(Main)
    BY DEF Threads, Operands
  <2> QED
    BY <2>1, <2>2, <2>3, ReachedClosed DEF ClosedSet, IInv
<1>5. Roots \union {th} \subseteq Reached'
  BY <1>1, <1>4, HeapSame
<1> QED
  BY <1>1, <1>2, <1>3, <1>5, FullMarking

LEMMA FullAgain ==
  ASSUME IInv, IInv', CompleteInv, full = "marking", AtomicAgain
  PROVE  CompleteInv'
<1>1. /\ phase \in Marking /\ phase' \in Marking /\ UNCHANGED heapVars /\ tmudata' = tmudata
      /\ color' = color /\ weak' = weak
  BY DEF AtomicAgain, Stage, Marking, Stages, finalVars
<1>2. MarkedReached /\ \A t \in weak : Weak(t)
  BY <1>1, FullMarks
<1>3. Reached \subseteq Reached'
  BY <1>1, HeapSame
<1>4. MarkedReached' /\ \A t \in weak' : Weak(t)'
  BY <1>1, <1>2, <1>3 DEF MarkedReached, HalfWeak, Weak, heapVars
<1> QED
  BY <1>1, <1>4 DEF CompleteInv

LEMMA FullUserdata ==
  ASSUME IInv, IInv', CompleteInv, full = "marking", AtomicUserdata
  PROVE  CompleteInv'
<1> DEFINE c == MarkTmu(tmudata')
<1>1. /\ phase \in Marking /\ phase' \in Marking /\ UNCHANGED heapVars
      /\ tmudata \subseteq tmudata'
      /\ color' = Painted(Marked(tmudata', c), c)
      /\ weak' = weak
  BY DEF AtomicUserdata, Stage, Marking, Stages
<1>2. MarkedReached /\ color \in [Obj -> Colors] /\ \A t \in weak : Weak(t)
  BY <1>1, FullMarks
<1>3. tmudata' \in SUBSET Obj
  BY KindsDiffer DEF IInv, GCTypeOK
<1>4. /\ c \in [Obj -> Colors]
      /\ \A o \in Obj : c[o] = IF o \in tmudata' THEN "white" ELSE color[o]
  BY <1>2 DEF MarkTmu, Colors, Whites
<1>5. tmudata' \subseteq Reached'
  BY <1>1, <1>3, HeapSame DEF Source
<1> HIDE DEF c
<1>6. /\ \A x \in Obj : color[x] \in Marks =>
           c[x] \in Marks \/ (c[x] \in Whites /\ x \in tmudata')
      /\ \A x \in Obj : c[x] \in Marks => color[x] \in Marks
  BY <1>4 DEF Marks, Whites
<1> QED
  BY <1>1, <1>2, <1>3, <1>4, <1>5, <1>6, FullMarking

(* Tables that are weak on both sides lose entries that mark nothing. *)
LEMMA FullClear ==
  ASSUME IInv, IInv', CompleteInv, full = "marking", AtomicClear
  PROVE  CompleteInv'
<1>1. /\ phase = "preserve" /\ phase \in Marking /\ phase \notin Sweeping
      /\ phase' \in Sweeping /\ phase' \notin Marking
      /\ refs' = [o \in Obj |-> IF o \in weak THEN refs[o] \ Cleared(o) ELSE refs[o]]
      /\ color' = [o \in Obj |-> IF o \in KeptStrings THEN "gray" ELSE Flipped(color[o])]
      /\ mode' = mode /\ open' = open /\ basic' = basic /\ tmudata' = tmudata
  BY DEF AtomicClear, Stage, Marking, Stages, Sweeping, finalVars
<1>2. /\ MarkedReached /\ color \in [Obj -> Colors]
      /\ \A t \in weak : Weak(t) /\ t \in Obj /\ color[t] = "gray"
  BY <1>1, FullMarks
<1>3. \A o \in Obj : color[o] # "dead"
  BY <1>1 DEF IInv, SweepInv, Dead
<1>4. /\ \A o \in Obj : color[o] \in Marks /\ Kind[o] # "string" => Alive(o)'
      /\ \A o \in Obj : Alive(o)' => o \in KeptStrings \/ color[o] \in Marks
  BY <1>1, <1>2, <1>3 DEF KeptStrings, OfKind, Alive, Dead, Flipped, Marks, Colors, Whites
<1>5. /\ \A t : HalfWeak(t)' <=> HalfWeak(t)
      /\ \A t : Weak(t)' <=> Weak(t)
      /\ \A t : HalfWeak(t) => Kind[t] # "string"
  BY <1>1 DEF HalfWeak, Weak
<1>6. CASE \E t \in Obj : color[t] \in Marks /\ HalfWeak(t)
  <2>1. \E t \in Obj : Alive(t)' /\ HalfWeak(t)'
    BY <1>4, <1>5, <1>6
  <2> QED
    BY <1>1, <2>1 DEF CompleteInv, AliveReached
<1>7. CASE /\ \A o \in Obj : color[o] \in Marks => o \in Reached
           /\ ~\E t \in Obj : color[t] \in Marks /\ HalfWeak(t)
  <2>1. \A t \in weak : mode[t] = "kv" /\ Kind[t] = "table"
    BY <1>2, <1>7, StateTypes DEF Weak, HalfWeak, Marks
  <2>2. Source' = Source
    BY <1>1 DEF Source, Roots
  <2>3. ASSUME NEW x \in Obj
        PROVE  Traversed(x) \subseteq Traversed(x)'
    <3>1. CASE x \in weak
      BY <2>1, <3>1 DEF Traversed, Weak
    <3>2. CASE x \notin weak
      <4>1. refs'[x] = refs[x]
        BY <1>1, <3>2
      <4>2. \A w \in Obj : open[w] = x => Kind[w] = "upval" /\ w \notin weak
        BY <2>1, KindsDiffer DEF IInv, HeapInv, OpenInv
      <4>3. \A w \in Obj : open[w] = x => refs'[w] = refs[w]
        BY <1>1, <4>2
      <4>4. Values(x)' = Values(x) /\ Keys(x)' = Keys(x)
        BY <1>1, <4>1, <4>3 DEF Values, Keys, Slots
      <4> QED
        BY <1>1, <1>5, <4>4 DEF Traversed
    <3> QED
      BY <3>1, <3>2
  <2>4. Reached \subseteq Reached'
    <3>1. \A x \in Reached : Traversed(x) \subseteq Traversed(x)'
      BY <2>3 DEF Reached
    <3> QED
      BY <2>2, <3>1, ReachedGrows DEF IInv
  <2>5. ASSUME NEW o \in KeptStrings
        PROVE  AskedFor(o)'
    <3>1. PICK t \in weak : TRUE
      BY DEF KeptStrings
    <3>2. Kind[o] = "string"
      BY DEF KeptStrings, OfKind
    <3> QED
      BY <1>1, <1>2, <1>4, <2>1, <3>1, <3>2 DEF AskedFor, Marks
  <2>6. \A o \in Obj : Alive(o)' => o \in Reached' \/ AskedFor(o)'
    BY <1>4, <1>7, <2>4, <2>5
  <2> QED
    BY <1>1, <2>6 DEF CompleteInv, AliveReached
<1> QED
  BY <1>2, <1>6, <1>7 DEF MarkedReached

LEMMA FullSweep ==
  ASSUME IInv, CompleteInv, full = "marking", NEW o \in toSweep, Sweep(o)
  PROVE  CompleteInv'
<1> DEFINE swept == {o} \union SweptUpvals(o)
           freed == {x \in swept : Dead(x)}
           Slot(w) == IF open[w] = o THEN refs[w] ELSE {}
<1>1. /\ phase \in Sweeping /\ phase \notin Marking /\ phase' = phase
      /\ color' = [x \in Obj |-> IF x \in freed THEN "free"
                                 ELSE IF x \in swept THEN "white" ELSE color[x]]
      /\ refs' = [x \in Obj |->
                    IF x \in freed THEN {}
                    ELSE IF x = o THEN refs[o] \union UNION {Slot(w) : w \in freed}
                    ELSE refs[x]]
      /\ open' = [x \in Obj |-> IF x \in freed \/ (open[x] = o /\ o \in freed)
                                THEN Nothing ELSE open[x]]
      /\ mode' = [mode EXCEPT ![o] = IF o \in freed THEN "strong" ELSE @]
      /\ tmudata' = tmudata /\ basic' = basic
  BY DEF Sweep, Sweeping, Marking, Stages
<1>2. /\ GCTypeOK /\ o \in Obj /\ open[o] = Nothing
      /\ mode \in [Obj -> {"strong", "k", "v", "kv"}]
      /\ \A x \in swept : color[x] # "free"
      /\ \A w \in Obj : open[w] = o => open[w] # Nothing
  BY StateTypes, KindsDiffer DEF IInv, HeapInv, GCTypeOK, FreeInv, OpenInv, SweptUpvals
<1>3. \A x : x \in freed <=> x \in swept /\ color[x] = "dead"
  BY DEF Dead
<1>4. \A x : x \in swept <=> x = o \/ (x \in Obj /\ open[x] = o)
  BY DEF SweptUpvals
<1> HIDE DEF freed, swept
<1>5. \A x \in Obj : Alive(x)' <=> Alive(x)
  BY <1>1, <1>2, <1>3 DEF Alive, Dead
<1>6. \A x \in Obj : Alive(x) => x \notin freed /\ mode'[x] = mode[x]
  BY <1>1, <1>2, <1>3 DEF Alive, Dead
<1>7. CASE \E t \in Obj : Alive(t) /\ HalfWeak(t)
  BY <1>1, <1>5, <1>6, <1>7 DEF CompleteInv, AliveReached, HalfWeak
<1>8. CASE \A x \in Obj : Alive(x) => x \in Reached \/ AskedFor(x)
  <2>1. Source' = Source
    BY <1>1 DEF Source, Roots
  <2>2. Reached \subseteq {x \in Obj : Alive(x)}
    BY ReachedAlive DEF IInv, HeapInv
  <2>3. ASSUME NEW x \in Reached
        PROVE  Traversed(x) \subseteq Traversed(x)'
    <3>1. x \in Obj /\ x \notin freed /\ mode'[x] = mode[x]
      BY <1>6, <2>2, <2>3
    <3>2. refs[x] \subseteq refs'[x]
      BY <1>1, <3>1
    <3>3. ASSUME NEW w \in Obj, open[w] = x, NEW e \in refs[w]
          PROVE  e \in Slots(x)'
      <4>1. CASE w \in freed
        <5>1. x = o
          BY <1>2, <1>3, <1>4, <3>1, <3>3, <4>1, KindsDiffer
        <5>2. e \in refs'[x]
          BY <1>1, <3>1, <3>3, <4>1, <5>1
        <5> QED
          BY <5>2 DEF Slots
      <4>2. CASE w \notin freed
        <5>1. open'[w] = x
          BY <1>1, <3>1, <3>3, <4>2
        <5>2. e \in refs'[w]
          BY <1>1, <3>3, <4>2
        <5> QED
          BY <5>1, <5>2 DEF Slots
      <4> QED
        BY <4>1, <4>2
    <3>4. Slots(x) \subseteq Slots(x)'
      BY <3>2, <3>3 DEF Slots
    <3>5. Values(x) \subseteq Values(x)' /\ Keys(x) \subseteq Keys(x)'
      BY <3>2, <3>4 DEF Values, Keys
    <3> QED
      BY <3>1, <3>5 DEF Traversed, Weak
  <2>4. Reached \subseteq Reached'
    BY <2>1, <2>3, ReachedGrows DEF IInv
  <2>5. \A x \in Obj : AskedFor(x) => AskedFor(x)'
    BY <1>5, <1>6 DEF AskedFor
  <2>6. AliveReached'
    BY <1>5, <1>8, <2>4, <2>5 DEF AliveReached
  <2> QED
    BY <1>1, <2>6 DEF CompleteInv
<1> QED
  BY <1>1, <1>7, <1>8 DEF CompleteInv, AliveReached

LEMMA FullPhases ==
  ASSUME CompleteInv, full = "marking", SweepStringsDone \/ SweepDone
  PROVE  CompleteInv'
<1>1. /\ phase \in Sweeping /\ phase \notin Marking
      /\ phase' \in Sweeping \union {"finalize"} /\ phase' \notin Marking
      /\ UNCHANGED <<color, heapVars, finalVars>>
  BY DEF SweepStringsDone, SweepDone, Sweeping, Marking, Stages
<1>2. Reached' = Reached
  BY <1>1 DEF Reached, Source, Roots, ClosedSet, Traversed, Weak, Values, Keys, Slots,
              heapVars, finalVars
<1>3. \A o : (Alive(o)' <=> Alive(o)) /\ (HalfWeak(o)' <=> HalfWeak(o))
  BY <1>1 DEF Alive, Dead, HalfWeak, heapVars
<1>4. \A o : AskedFor(o)' <=> AskedFor(o)
  BY <1>1, <1>3 DEF AskedFor, heapVars
<1>5. AliveReached
  BY <1>1 DEF CompleteInv
<1> QED
  BY <1>1, <1>2, <1>3, <1>4, <1>5 DEF CompleteInv, AliveReached

(* The program cannot run before the first finalizer, so that only the     *)
(* collector is left.                                                      *)
LEMMA ProgramWaits == ProgramStep => full' # "marking"
<1> SUFFICES ASSUME ProgramStep, Running, UNCHANGED cycleVars
             PROVE  full' # "marking"
  BY DEF ProgramStep, FullGC, New, NewString, Get, Give, Drop, SetTable, Erase, SetMode,
         SetBasic, ClearBasic, SetEnv, ShareUpval, FindUpval, NewUpval, NewClosure, SetUpval,
         CloseUpval, SetLocal
<1> QED
  BY DEF Running, cycleVars

LEMMA CompleteKeeps ==
  ASSUME IInv, IInv', CompleteInv, [GCNext]_gcVars
  PROVE  CompleteInv'
<1> SUFFICES ASSUME full' = "marking"
             PROVE  CompleteInv'
  BY DEF CompleteInv
<1>1. CASE ProgramStep
  BY <1>1, ProgramWaits
<1>2. CASE UNCHANGED gcVars
  <2>1. Reached' = Reached
    BY <1>2 DEF gcVars, Reached, Source, Roots, ClosedSet, Traversed, Weak, Values, Keys, Slots
  <2>2. \A o : /\ (Alive(o)' <=> Alive(o)) /\ (HalfWeak(o)' <=> HalfWeak(o))
              /\ (Weak(o)' <=> Weak(o))
    BY <1>2 DEF gcVars, Alive, Dead, HalfWeak, Weak
  <2>3. \A o : AskedFor(o)' <=> AskedFor(o)
    BY <1>2, <2>2 DEF gcVars, AskedFor
  <2>4. color' = color /\ weak' = weak /\ phase' = phase /\ full' = full
    BY <1>2 DEF gcVars
  <2> QED
    BY <2>1, <2>2, <2>3, <2>4 DEF CompleteInv, MarkedReached, AliveReached
<1>3. CASE StartCycle
  BY <1>3, FullStart
<1>4. CASE (\E u \in tmudata, th \in Threads : GCTM(u, th)) \/ EndCycle
  BY <1>4 DEF GCTM, EndCycle
<1>5. CASE CollectorStep /\ ~StartCycle /\ full' = full
  BY <1>5, FullPropagate, FullUpvals, FullWeak, FullAgain, FullUserdata, FullClear,
     FullSweep, FullPhases DEF CollectorStep, GCTM, EndCycle
<1>6. CollectorStep => StartCycle \/ (\E u \in tmudata, th \in Threads : GCTM(u, th)) \/ EndCycle \/ full' = full
  BY DEF CollectorStep, PropagateMark, AtomicUpvals, AtomicWeak, AtomicAgain, AtomicUserdata,
         AtomicClear, Sweep, SweepStringsDone, SweepDone, cycleVars
<1> QED
  BY <1>1, <1>2, <1>3, <1>4, <1>5, <1>6 DEF GCNext

-----------------------------------------------------------------------------
(***************************************************************************)
(* ReachableFrom follows references Cardinality(Obj) times, and that is    *)
(* enough: as long as a step finds something there is one object more.     *)
(***************************************************************************)
Step(X) == X \union UNION {All(o) : o \in X}

LEMMA AllType ==
  ASSUME GCTypeOK
  PROVE  \A X \in SUBSET Obj : Step(X) \in SUBSET Obj
<1>1. \A x \in Obj : \A e \in refs[x] : e[2] \in Obj /\ e[1] \in Obj \union {Index}
  BY EntryType
<1> QED
  BY <1>1 DEF Step, All, Values, Keys, Slots

LEMMA ReachSteps ==
  ASSUME GCTypeOK, IsFiniteSet(Obj), NEW S \in SUBSET Obj
  PROVE  \E R \in [0 .. Cardinality(Obj) -> SUBSET Obj] :
           /\ ReachableFrom(S) = R[Cardinality(Obj)]
           /\ R[0] = S
           /\ \A n \in 1 .. Cardinality(Obj) : R[n] = Step(R[n - 1])
<1> DEFINE N == Cardinality(Obj)
           g == [X \in SUBSET Obj |-> Step(X)]
           Defines(f) == f = [n \in 0 .. N |-> IF n = 0 THEN S ELSE
                                f[n - 1] \union UNION {All(o) : o \in f[n - 1]}]
           R == CHOOSE f : Defines(f)
<1>1. N \in Nat
  BY FS_CardinalityType
<1>2. g \in [SUBSET Obj -> SUBSET Obj]
  BY AllType
<1> HIDE DEF N
<1>3. PICK f \in [0 .. N -> SUBSET Obj] : f[0] = S /\ \A n \in 1 .. N : f[n] = g[f[n - 1]]
  <2> DEFINE A == SUBSET Obj
  <2>1. g \in [A -> A] /\ S \in A
    BY <1>2
  <2> HIDE DEF g, A
  <2>2. \E f \in [0 .. N -> A] : Iteration(f, S, g, N)
    BY <1>1, <2>1, Iterates
  <2> QED
    BY <2>2 DEF A, Iteration
<1>4. Defines(f)
  <2>1. ASSUME NEW n \in 0 .. N
        PROVE  f[n] = IF n = 0 THEN S ELSE f[n - 1] \union UNION {All(o) : o \in f[n - 1]}
    <3>1. CASE n = 0
      BY <1>3, <3>1
    <3>2. CASE n # 0
      <4>1. n \in 1 .. N /\ n - 1 \in 0 .. N
        BY <1>1, <3>2
      <4>2. f[n] = Step(f[n - 1])
        BY <1>3, <4>1
      <4> QED
        BY <3>2, <4>2 DEF Step
    <3> QED
      BY <3>1, <3>2
  <2> QED
    BY <1>3, <2>1
<1>5. Defines(R)
  <2> HIDE DEF Defines
  <2> QED
    BY <1>4
<1>6. ReachableFrom(S) = R[N]
  BY DEF ReachableFrom, N
<1> DEFINE First(n) == n \in 0 .. N => R[n] = f[n]
           T == {n \in Nat : First(n)}
<1> HIDE DEF R
<1>7. \A n \in 0 .. N : R[n] = IF n = 0 THEN S ELSE Step(R[n - 1])
  BY <1>5 DEF Step
<1>8. R[0] = S /\ \A n \in 1 .. N : R[n] = Step(R[n - 1])
  BY <1>1, <1>7
<1>9. ASSUME NEW n \in 1 .. N
      PROVE  f[n] = Step(f[n - 1])
  <2>1. n - 1 \in 0 .. N
    BY <1>1
  <2>2. f[n - 1] \in SUBSET Obj
    BY <1>3, <2>1
  <2> QED
    BY <1>3, <2>2
<1>10. First(0)
  BY <1>3, <1>8
<1>11. ASSUME NEW n \in Nat, First(n)
       PROVE  First(n + 1)
  <2> SUFFICES ASSUME n + 1 \in 0 .. N
               PROVE  R[n + 1] = f[n + 1]
    OBVIOUS
  <2>1. n \in 0 .. N /\ n + 1 \in 1 .. N /\ (n + 1) - 1 = n
    BY <1>1
  <2>2. R[n + 1] = Step(R[n]) /\ f[n + 1] = Step(f[n])
    BY <1>8, <1>9, <2>1
  <2> QED
    BY <1>11, <2>1, <2>2
<1> HIDE DEF First
<1>12. T = Nat
  <2>1. T \in SUBSET Nat /\ 0 \in T /\ \A n \in T : n + 1 \in T
    BY <1>10, <1>11
  <2> HIDE DEF T
  <2> QED
    BY <2>1, SetInduction
<1>13. R \in [0 .. N -> SUBSET Obj]
  <2>1. \A n \in 0 .. N : R[n] \in SUBSET Obj
    BY <1>3, <1>12 DEF First
  <2>2. R = [n \in 0 .. N |-> IF n = 0 THEN S ELSE
                                R[n - 1] \union UNION {All(o) : o \in R[n - 1]}]
    BY <1>5
  <2>3. R = [n \in 0 .. N |-> R[n]]
    BY <2>2
  <2> QED
    BY <2>1, <2>3
<1>14. ReachableFrom(S) = R[Cardinality(Obj)] /\ N = Cardinality(Obj)
  BY <1>6 DEF N
<1> QED
  BY <1>8, <1>13, <1>14

LEMMA ReachableClosed ==
  ASSUME GCTypeOK, IsFiniteSet(Obj), NEW S \in SUBSET Obj
  PROVE  /\ S \subseteq ReachableFrom(S) /\ ReachableFrom(S) \in SUBSET Obj
         /\ \A o \in ReachableFrom(S) : All(o) \subseteq ReachableFrom(S)
<1> DEFINE N == Cardinality(Obj)
<1>1. N \in Nat
  BY FS_CardinalityType
<1>2. PICK R \in [0 .. N -> SUBSET Obj] :
        ReachableFrom(S) = R[N] /\ R[0] = S /\ \A n \in 1 .. N : R[n] = Step(R[n - 1])
  BY ReachSteps
<1> DEFINE Enough(n) ==
      n \in 0 .. N => S \subseteq R[n] /\ (Step(R[n]) = R[n] \/ Cardinality(R[n]) >= n)
           T == {n \in Nat : Enough(n)}
<1>3. \A X \in SUBSET Obj : IsFiniteSet(X) /\ Cardinality(X) \in Nat /\ Cardinality(X) <= N
  BY FS_Subset, FS_CardinalityType
<1>4. \A n \in 0 .. N : R[n] \in SUBSET Obj
  BY <1>2
<1>5. N \in 0 .. N /\ 0 \in 0 .. N
  BY <1>1
<1>6. \A X \in SUBSET Obj : Cardinality(X) = N => X = Obj
  BY FS_Subset
<1> HIDE DEF N
<1>7. Enough(0)
  BY <1>2, <1>3
<1>8. ASSUME NEW n \in Nat, Enough(n)
      PROVE  Enough(n + 1)
  <2> SUFFICES ASSUME n + 1 \in 0 .. N
               PROVE  S \subseteq R[n + 1] /\
                      (Step(R[n + 1]) = R[n + 1] \/ Cardinality(R[n + 1]) >= n + 1)
    OBVIOUS
  <2>1. n \in 0 .. N /\ n + 1 \in 1 .. N /\ (n + 1) - 1 = n
    BY <1>1
  <2>2. R[n + 1] = Step(R[n]) /\ R[n] \in SUBSET Obj /\ R[n + 1] \in SUBSET Obj
    BY <1>2, <1>4, <2>1
  <2>3. R[n] \subseteq R[n + 1]
    BY <2>2 DEF Step
  <2>4. CASE Step(R[n]) = R[n]
    BY <1>8, <2>1, <2>2, <2>4
  <2>5. CASE R[n + 1] # R[n] /\ Cardinality(R[n]) >= n
    <3>1. Cardinality(R[n]) <= Cardinality(R[n + 1])
          /\ Cardinality(R[n + 1]) # Cardinality(R[n])
      BY <1>3, <2>2, <2>3, <2>5, FS_Subset
    <3>2. Cardinality(R[n]) \in Nat /\ Cardinality(R[n + 1]) \in Nat
      BY <1>3, <2>2
    <3> QED
      BY <1>8, <2>1, <2>3, <2>5, <3>1, <3>2
  <2> QED
    BY <1>8, <2>1, <2>2, <2>4, <2>5
<1> HIDE DEF Enough
<1>9. T = Nat
  <2>1. T \in SUBSET Nat /\ 0 \in T /\ \A n \in T : n + 1 \in T
    BY <1>7, <1>8
  <2> HIDE DEF T
  <2> QED
    BY <2>1, SetInduction
<1>10. S \subseteq R[N] /\ (Step(R[N]) = R[N] \/ Cardinality(R[N]) >= N)
  BY <1>1, <1>5, <1>9 DEF Enough
<1>11. R[N] \in SUBSET Obj
  BY <1>4, <1>5
<1>12. Step(R[N]) \subseteq R[N]
  <2>1. CASE Cardinality(R[N]) >= N
    <3>1. R[N] = Obj
      BY <1>1, <1>3, <1>6, <1>11, <2>1
    <3> QED
      BY <1>11, <3>1, AllType
  <2> QED
    BY <1>10, <2>1
<1>13. \A o \in R[N] : All(o) \subseteq R[N]
  BY <1>12 DEF Step
<1> QED
  BY <1>2, <1>10, <1>11, <1>13

-----------------------------------------------------------------------------
LEMMA CompleteHolds ==
  ASSUME DebugLibrary = FALSE
  PROVE  GCSpec => []CompleteInv
<1>1. GCInit => CompleteInv
  BY DEF GCInit, CompleteInv
<1>2. IInv /\ IInv' /\ CompleteInv /\ [GCNext]_gcVars => CompleteInv'
  BY CompleteKeeps
<1> QED
  BY <1>1, <1>2, IInvHolds, PTL DEF GCSpec

(* After a full collection no garbage is left (luaC_fullgc): when its      *)
(* finalizers begin, what is allocated can be reached from the roots and   *)
(* from the userdata that wait for them, but for the strings that tables   *)
(* weak on both sides were asked for; tables weak on one side are the      *)
(* exception that FullIsComplete names.  The heap is finite.               *)
THEOREM FullCollectionsComplete ==
  ASSUME DebugLibrary = FALSE, IsFiniteSet(Obj)
  PROVE  GCSpec => []FullIsComplete
<1>1. ASSUME IInv, CompleteInv
      PROVE  FullIsComplete
  <2> SUFFICES ASSUME phase = "finalize", full = "marking",
                      \A t \in Obj : mode[t] \notin {"k", "v"},
                      NEW o \in Alloc \ ReachableFrom(Roots \union tmudata)
               PROVE  Kind[o] = "string" /\ \E t \in Obj : mode[t] = "kv"
    BY DEF FullIsComplete
  <2> DEFINE X == ReachableFrom(Source)
  <2>1. Source \subseteq X /\ X \in SUBSET Obj /\ \A x \in X : All(x) \subseteq X
    BY <1>1, ReachableClosed, SourceType DEF IInv
  <2>2. o \notin X /\ o \in Obj
    BY DEF Source, Alloc
  <2> HIDE DEF X
  <2>3. ClosedSet(X)
    BY <1>1, <2>1, TraversedType DEF ClosedSet, IInv
  <2>4. o \notin Reached
    BY <2>1, <2>2, <2>3, ReachedLeast
  <2>5. phase \notin Marking /\ phase \notin Sweeping
    BY DEF Marking, Stages, Sweeping
  <2>6. Alive(o)
    BY <1>1, <2>2, <2>5 DEF IInv, SweepInv, Alive, Alloc
  <2>7. AliveReached
    BY <1>1, <2>5 DEF CompleteInv
  <2> QED
    BY <2>2, <2>4, <2>6, <2>7 DEF AliveReached, HalfWeak, AskedFor
<1> QED
  BY <1>1, IInvHolds, CompleteHolds, PTL
=============================================================================
