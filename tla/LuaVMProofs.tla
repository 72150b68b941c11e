---------------------------- MODULE LuaVMProofs ----------------------------
(***************************************************************************)
(* That the machine of ldo.c and lvm.c keeps its threads, its frames and   *)
(* its open upvalues in order, whatever code it runs: the nesting of C     *)
(* calls is that of the frames however they are left, a coroutine runs at  *)
(* most once and waits where it can be returned to, a dead one stays as it *)
(* is, and an open upvalue is in a frame that is there.  Nothing is        *)
(* assumed of the code but that it is not <<>>: not that it was compiled   *)
(* from a program, nor that its registers, jumps or constants make sense.  *)
(*                                                                         *)
(* Inv is the inductive invariant, and Sound its part once the chunk is    *)
(* loaded.  A machine is Going when a thread runs and has something to do  *)
(* that fits its frames, Leaving when the thread on top has stopped and    *)
(* its resumer is to be told, and Ended when there is an answer.  Live is  *)
(* what the first has of the threads, the frames and the upvalues; Running *)
(* says who runs and who waits; ThreadSound is about one thread, Level and *)
(* AtLeast about its nesting.  Most operators of the machine do not touch  *)
(* any of that, which is said by Keeps(m, n); the others are called, push, *)
(* pop, switch or unwind, and have a lemma each.  Calm(m, n) says that no  *)
(* dead coroutine has changed.                                             *)
(***************************************************************************)
EXTENDS LuaVM, InductionFacts, FiniteSetTheorems, SequenceTheorems

-----------------------------------------------------------------------------
(* Lists: sequences of anything, for frames, threads and upvalues.           *)

(* A list of anything at all.                                                *)
List(s) == \E S : s \in Seq(S)
(* What a frame, a thread and a machine have.                                *)
FrameFields   == {"cl", "pc", "regs", "top", "va", "ret", "handler", "nC", "k"}
ThreadFields  == {"frames", "status", "stack", "size", "nC", "baseC"}
MachineFields == {"th", "run", "cl", "uv", "tab", "todo", "ans"}

LEMMA ListFacts ==
  ASSUME NEW s, List(s)
  PROVE  /\ Len(s) \in Nat /\ DOMAIN s = 1 .. Len(s)
         /\ s # <<>> <=> Len(s) # 0
  <1>1. PICK S : s \in Seq(S)
    BY DEF List
  <1> QED
    BY <1>1

LEMMA ListAppend ==
  ASSUME NEW s, NEW x, List(s)
  PROVE  /\ List(Append(s, x)) /\ Len(Append(s, x)) = Len(s) + 1
         /\ Append(s, x) # <<>>
         /\ \A i \in 1 .. Len(s) : Append(s, x)[i] = s[i]
         /\ Append(s, x)[Len(s) + 1] = x
  <1>1. PICK S : s \in Seq(S)
    BY DEF List
  <1> DEFINE T == S \cup {x}
  <1>2. s \in Seq(T) /\ x \in T
    BY <1>1, SeqMonotonic
  <1> HIDE DEF T
  <1>3. Append(s, x) \in Seq(T)
    BY <1>2
  <1>4. List(Append(s, x))
    BY <1>3 DEF List
  <1> QED
    BY <1>2, <1>4, AppendProperties

LEMMA ListPrefix ==
  ASSUME NEW s, NEW n \in Nat, List(s), n <= Len(s)
  PROVE  /\ List(SubSeq(s, 1, n)) /\ Len(SubSeq(s, 1, n)) = n
         /\ \A i \in 1 .. n : SubSeq(s, 1, n)[i] = s[i]
  <1>1. PICK S : s \in Seq(S)
    BY DEF List
  <1>2. Len(s) \in Nat /\ \A i \in 1 .. n : s[i] \in S
    BY <1>1
  <1>3. /\ SubSeq(s, 1, n) \in Seq(S)
        /\ Len(SubSeq(s, 1, n)) = IF 1 <= n THEN n - 1 + 1 ELSE 0
        /\ \A i \in 1 .. n - 1 + 1 : SubSeq(s, 1, n)[i] = s[1 + i - 1]
    BY <1>2, SubSeqProperties
  <1>4. List(SubSeq(s, 1, n))
    BY <1>3 DEF List
  <1> QED
    BY <1>3, <1>4

LEMMA ListEqual ==
  ASSUME NEW s, NEW u, List(s), List(u), Len(s) = Len(u), \A i \in 1 .. Len(s) : s[i] = u[i]
  PROVE  s = u
  <1>1. PICK S : s \in Seq(S)
    BY DEF List
  <1>2. PICK T : u \in Seq(T)
    BY DEF List
  <1> DEFINE W == S \cup T
  <1>3. s \in Seq(W) /\ u \in Seq(W)
    BY <1>1, <1>2, SeqMonotonic
  <1> HIDE DEF W
  <1> QED
    BY <1>3, SeqEqual

(* List t is s with x in the place i, if there is that place. *)
Updated(s, i, x, t) ==
  List(t) /\ Len(t) = Len(s) /\ \A j \in 1 .. Len(s) : t[j] = IF j = i THEN x ELSE s[j]

LEMMA ListExcept ==
  ASSUME NEW s, NEW i, NEW x, List(s)
  PROVE  Updated(s, i, x, [s EXCEPT ![i] = x])
  <1>1. PICK S : s \in Seq(S)
    BY DEF List
  <1> DEFINE T == S \cup {x}
             u == [s EXCEPT ![i] = x]
             n == Len(s)
  <1>2. n \in Nat /\ DOMAIN s = 1 .. n /\ \A j \in 1 .. n : s[j] \in T
    BY <1>1
  <1>3. u = [j \in 1 .. n |-> IF j = i THEN x ELSE s[j]]
    BY <1>1
  <1>4. \A j \in 1 .. n : (IF j = i THEN x ELSE s[j]) \in T
    BY <1>2
  <1>5. u \in Seq(T) /\ Len(u) = n
    <2>1. u \in [1 .. n -> T] /\ DOMAIN u = 1 .. n
      BY <1>3, <1>4
    <2> HIDE DEF u, T, n
    <2>2. u \in Seq(T)
      BY <1>2, <2>1, SeqDef
    <2>3. Len(u) \in Nat /\ DOMAIN u = 1 .. Len(u)
      BY <2>2, LenProperties
    <2> QED
      BY <1>2, <2>1, <2>2, <2>3
  <1>6. List(u)
    BY <1>5 DEF List
  <1>7. \A j \in 1 .. n : u[j] = IF j = i THEN x ELSE s[j]
    BY <1>3
  <1> QED
    BY <1>5, <1>6, <1>7 DEF Updated

LEMMA ListFront ==
  ASSUME NEW s, List(s), s # <<>>
  PROVE  /\ List(Front(s)) /\ Len(Front(s)) = Len(s) - 1
         /\ \A i \in 1 .. Len(s) - 1 : Front(s)[i] = s[i]
  <1>1. Len(s) \in Nat /\ Len(s) # 0
    BY ListFacts
  <1>2. Len(s) - 1 \in Nat /\ Len(s) - 1 <= Len(s)
    BY <1>1
  <1> QED
    BY <1>2, ListPrefix DEF Front

LEMMA ListSplit ==
  ASSUME NEW s, List(s), s # <<>>
  PROVE  s = Append(Front(s), Last(s))
  <1> DEFINE f == Front(s)
             u == Append(f, Last(s))
  <1>1. Len(s) \in Nat /\ Len(s) # 0 /\ (Len(s) - 1) + 1 = Len(s)
    BY ListFacts
  <1>2. /\ List(f) /\ Len(f) = Len(s) - 1
        /\ \A i \in 1 .. Len(s) - 1 : f[i] = s[i]
    BY ListFront
  <1> HIDE DEF f
  <1>3. /\ List(u) /\ Len(u) = Len(f) + 1
        /\ \A i \in 1 .. Len(f) : u[i] = f[i]
        /\ u[Len(f) + 1] = Last(s)
    BY <1>2, ListAppend
  <1> HIDE DEF u
  <1>4. \A i \in 1 .. Len(s) : s[i] = u[i]
    BY <1>1, <1>2, <1>3 DEF Last
  <1>5. s = u
    BY <1>1, <1>2, <1>3, <1>4, ListEqual
  <1> QED
    BY <1>5 DEF u, f

LEMMA FrontAppend ==
  ASSUME NEW s, NEW x, List(s)
  PROVE  Front(Append(s, x)) = s /\ Last(Append(s, x)) = x
  <1>1. /\ List(Append(s, x)) /\ Len(Append(s, x)) = Len(s) + 1
        /\ Append(s, x) # <<>>
        /\ \A i \in 1 .. Len(s) : Append(s, x)[i] = s[i]
        /\ Append(s, x)[Len(s) + 1] = x
    BY ListAppend
  <1>2. Len(s) \in Nat /\ (Len(s) + 1) - 1 = Len(s)
    BY ListFacts
  <1>3. /\ List(Front(Append(s, x))) /\ Len(Front(Append(s, x))) = Len(s)
        /\ \A i \in 1 .. Len(s) : Front(Append(s, x))[i] = s[i]
    BY <1>1, <1>2, ListFront
  <1> QED
    BY <1>1, <1>3, ListEqual DEF Last

LEMMA PrefixWhole ==
  ASSUME NEW s, List(s)
  PROVE  SubSeq(s, 1, Len(s)) = s
  <1>1. Len(s) \in Nat /\ Len(s) <= Len(s)
    BY ListFacts
  <1>2. /\ List(SubSeq(s, 1, Len(s))) /\ Len(SubSeq(s, 1, Len(s))) = Len(s)
        /\ \A i \in 1 .. Len(s) : SubSeq(s, 1, Len(s))[i] = s[i]
    BY <1>1, ListPrefix
  <1> QED
    BY <1>2, ListEqual

LEMMA PrefixPrefix ==
  ASSUME NEW s, NEW i \in Nat, NEW j \in Nat, List(s), i <= Len(s), j <= i
  PROVE  SubSeq(SubSeq(s, 1, i), 1, j) = SubSeq(s, 1, j)
  <1>0. j <= Len(s) /\ Len(s) \in Nat
    BY ListFacts
  <1>1. /\ List(SubSeq(s, 1, i)) /\ Len(SubSeq(s, 1, i)) = i
        /\ \A k \in 1 .. i : SubSeq(s, 1, i)[k] = s[k]
    BY ListPrefix
  <1>2. /\ List(SubSeq(s, 1, j)) /\ Len(SubSeq(s, 1, j)) = j
        /\ \A k \in 1 .. j : SubSeq(s, 1, j)[k] = s[k]
    BY <1>0, ListPrefix
  <1> DEFINE u == SubSeq(s, 1, i)
  <1> HIDE DEF u
  <1>3. /\ List(SubSeq(u, 1, j)) /\ Len(SubSeq(u, 1, j)) = j
        /\ \A k \in 1 .. j : SubSeq(u, 1, j)[k] = u[k]
    BY <1>1, ListPrefix DEF u
  <1>4. \A k \in 1 .. j : SubSeq(u, 1, j)[k] = SubSeq(s, 1, j)[k]
    <2> TAKE k \in 1 .. j
    <2>1. k \in 1 .. i
      OBVIOUS
    <2>2. u[k] = s[k]
      BY <1>1, <2>1 DEF u
    <2> QED
      BY <2>2, <1>2, <1>3
  <1>5. SubSeq(u, 1, j) = SubSeq(s, 1, j)
    BY <1>2, <1>3, <1>4, ListEqual
  <1> QED
    BY <1>5 DEF u

LEMMA PrefixAppend ==
  ASSUME NEW s, NEW x, NEW j \in Nat, List(s), j <= Len(s)
  PROVE  SubSeq(Append(s, x), 1, j) = SubSeq(s, 1, j)
  <1> DEFINE u == Append(s, x)
  <1>0. Len(s) \in Nat
    BY ListFacts
  <1>1. /\ List(u) /\ Len(u) = Len(s) + 1
        /\ \A i \in 1 .. Len(s) : u[i] = s[i]
    BY ListAppend
  <1>2. /\ List(SubSeq(s, 1, j)) /\ Len(SubSeq(s, 1, j)) = j
        /\ \A k \in 1 .. j : SubSeq(s, 1, j)[k] = s[k]
    BY ListPrefix
  <1> HIDE DEF u
  <1>3. /\ List(SubSeq(u, 1, j)) /\ Len(SubSeq(u, 1, j)) = j
        /\ \A k \in 1 .. j : SubSeq(u, 1, j)[k] = u[k]
    BY <1>0, <1>1, ListPrefix
  <1>4. \A k \in 1 .. j : SubSeq(u, 1, j)[k] = SubSeq(s, 1, j)[k]
    BY <1>0, <1>1, <1>2, <1>3
  <1> QED
    BY <1>2, <1>3, <1>4, ListEqual DEF u

-----------------------------------------------------------------------------
(* The nesting of the calls of a list of frames, and the frames of a thread. *)

(* Two lists of frames that deliver their results in the same ways.          *)
SameRets(fs, gs) ==
  List(fs) /\ List(gs) /\ Len(fs) = Len(gs) /\ \A i \in 1 .. Len(fs) : fs[i].ret = gs[i].ret

LEMMA NestedNumber ==
  ASSUME NEW fs, List(fs)
  PROVE  NestedIn(fs) \in Nat
  <1>1. DOMAIN fs = 1 .. Len(fs) /\ Len(fs) \in Nat
    BY ListFacts
  <1> DEFINE S == {i \in DOMAIN fs : Nested(fs[i].ret)}
  <1>2. S \subseteq 1 .. Len(fs) /\ IsFiniteSet(1 .. Len(fs))
    BY <1>1, FS_Interval
  <1>3. IsFiniteSet(S)
    BY <1>2, FS_Subset
  <1> HIDE DEF S
  <1>4. Cardinality(S) \in Nat
    BY <1>3, FS_CardinalityType
  <1> QED
    BY <1>4 DEF NestedIn, S

LEMMA SameRetsLevel ==
  ASSUME NEW fs, NEW gs, SameRets(fs, gs), NEW n, NEW b
  PROVE  /\ NestedIn(gs) = NestedIn(fs)
         /\ HandlerIn(gs) <=> HandlerIn(fs)
         /\ AtLevel(n, b, gs) <=> AtLevel(n, b, fs)
  <1>1. DOMAIN fs = 1 .. Len(fs) /\ DOMAIN gs = 1 .. Len(fs)
    BY ListFacts DEF SameRets
  <1>2. {i \in DOMAIN gs : Nested(gs[i].ret)} = {i \in DOMAIN fs : Nested(fs[i].ret)}
    BY <1>1 DEF SameRets
  <1>3. NestedIn(gs) = NestedIn(fs)
    BY <1>2 DEF NestedIn
  <1>4. HandlerIn(gs) <=> HandlerIn(fs)
    BY <1>1 DEF SameRets, HandlerIn
  <1> QED
    BY <1>3, <1>4 DEF AtLevel

LEMMA PushNested ==
  ASSUME NEW fs, NEW f, List(fs)
  PROVE  /\ NestedIn(Append(fs, f)) = NestedIn(fs) + (IF Nested(f.ret) THEN 1 ELSE 0)
         /\ HandlerIn(Append(fs, f)) <=> HandlerIn(fs) \/ f.ret.k = "handler"
  <1> DEFINE gs == Append(fs, f)
             n  == Len(fs)
             S  == {i \in DOMAIN fs : Nested(fs[i].ret)}
             T  == {i \in DOMAIN gs : Nested(gs[i].ret)}
  <1>1. DOMAIN fs = 1 .. n /\ n \in Nat
    BY ListFacts
  <1>2. /\ List(gs) /\ Len(gs) = n + 1
        /\ \A i \in 1 .. n : gs[i] = fs[i]
        /\ gs[n + 1] = f
    BY ListAppend
  <1>3. DOMAIN gs = 1 .. n + 1
    BY <1>2, ListFacts
  <1> HIDE DEF gs, n
  <1>4. S \subseteq 1 .. n /\ IsFiniteSet(1 .. n)
    BY <1>1, FS_Interval
  <1>5. IsFiniteSet(S) /\ n + 1 \notin S
    BY <1>1, <1>4, FS_Subset
  <1>6. ASSUME Nested(f.ret)
        PROVE  T = S \cup {n + 1}
    BY <1>1, <1>2, <1>3, <1>6
  <1>7. ASSUME ~Nested(f.ret)
        PROVE  T = S
    <2>1. \A i \in 1 .. n + 1 : i = n + 1 \/ i \in 1 .. n
      BY <1>1
    <2>2. \A i : i \in 1 .. n => i \in 1 .. n + 1
      BY <1>1
    <2> QED
      BY <1>1, <1>2, <1>3, <1>7, <2>1, <2>2
  <1> HIDE DEF S, T
  <1>8. Cardinality(S \cup {n + 1}) = Cardinality(S) + 1 /\ Cardinality(S) \in Nat
    BY <1>5, FS_AddElement, FS_CardinalityType
  <1>9. Cardinality(T) = Cardinality(S) + (IF Nested(f.ret) THEN 1 ELSE 0)
    <2>1. CASE Nested(f.ret)
      BY <1>6, <1>8, <2>1
    <2>2. CASE ~Nested(f.ret)
      BY <1>7, <1>8, <2>2
    <2> QED
      BY <2>1, <2>2
  <1>10. HandlerIn(gs) <=> HandlerIn(fs) \/ f.ret.k = "handler"
    <2>1. \A i \in 1 .. n + 1 : i = n + 1 \/ i \in 1 .. n
      BY <1>1
    <2>2. n + 1 \in 1 .. n + 1 /\ \A i : i \in 1 .. n => i \in 1 .. n + 1
      BY <1>1
    <2> QED
      BY <1>1, <1>2, <1>3, <2>1, <2>2 DEF HandlerIn
  <1> QED
    BY <1>9, <1>10 DEF NestedIn, S, T, gs

LEMMA NoneNested == NestedIn(<<>>) = 0 /\ ~HandlerIn(<<>>)
  <1>1. {i \in DOMAIN <<>> : Nested(<<>>[i].ret)} = {}
    OBVIOUS
  <1>2. NestedIn(<<>>) = 0
    BY <1>1, FS_EmptySet DEF NestedIn
  <1> QED
    BY <1>2 DEF HandlerIn

LEMMA LastNested ==
  ASSUME NEW fs, List(fs), fs # <<>>
  PROVE  /\ NestedIn(fs) = NestedIn(Front(fs)) + (IF Nested(Last(fs).ret) THEN 1 ELSE 0)
         /\ HandlerIn(fs) <=> HandlerIn(Front(fs)) \/ Last(fs).ret.k = "handler"
  <1>1. List(Front(fs)) /\ fs = Append(Front(fs), Last(fs))
    BY ListFront, ListSplit
  <1> DEFINE g == Front(fs)
             f == Last(fs)
  <1> HIDE DEF g, f
  <1>2. /\ NestedIn(Append(g, f)) = NestedIn(g) + (IF Nested(f.ret) THEN 1 ELSE 0)
        /\ HandlerIn(Append(g, f)) <=> HandlerIn(g) \/ f.ret.k = "handler"
    BY <1>1, PushNested DEF g
  <1> QED
    BY <1>1, <1>2 DEF g, f

(* How the results of a frame are delivered fits the frame below. *)
LuaKinds == {"call", "set", "test", "nottest", "drop", "concat", "for"}
CKinds   == {"protected", "one", "back"}
OnTop(kind, f) ==
  \/ kind \in LuaKinds /\ IsLua(f.cl) /\ f.nC = 0
  \/ kind \in CKinds /\ IsC(f.cl)
  \/ kind = "handler"
(* A frame that has made a protected call remembers the nesting it was made at. *)
FrameSound(fs, base, first, j) ==
  /\ DOMAIN fs[j] = FrameFields /\ fs[j].nC \in Nat
  /\ IF j = 1 THEN fs[j].ret.k = first ELSE OnTop(fs[j].ret.k, fs[j - 1])
  /\ fs[j].nC # 0 => AtLevel(fs[j].nC, base, SubSeq(fs, 1, j))
FramesSound(fs, base, first) ==
  List(fs) /\ \A j \in 1 .. Len(fs) : FrameSound(fs, base, first, j)

(* A frame of the same function, that delivers its results as before.        *)
SameFrame(f, g) == DOMAIN g = DOMAIN f /\ g.cl = f.cl /\ g.ret = f.ret /\ g.nC = f.nC
SameFrames(fs, gs) == List(gs) /\ Len(gs) = Len(fs) /\ \A i \in 1 .. Len(fs) : SameFrame(fs[i], gs[i])

LEMMA SameFramesSound ==
  ASSUME NEW fs, NEW gs, NEW b, NEW k, FramesSound(fs, b, k), SameFrames(fs, gs)
  PROVE  FramesSound(gs, b, k) /\ SameRets(fs, gs)
  <1>1. List(fs) /\ List(gs) /\ Len(gs) = Len(fs) /\ Len(fs) \in Nat
    BY ListFacts DEF FramesSound, SameFrames
  <1>2. SameRets(fs, gs)
    BY <1>1 DEF SameRets, SameFrames, SameFrame
  <1>3. ASSUME NEW j \in 1 .. Len(gs)
        PROVE  FrameSound(gs, b, k, j)
    <2>1. FrameSound(fs, b, k, j) /\ SameFrame(fs[j], gs[j]) /\ j \in Nat /\ j <= Len(fs)
      BY <1>1 DEF FramesSound, SameFrames
    <2>2. /\ List(SubSeq(fs, 1, j)) /\ Len(SubSeq(fs, 1, j)) = j
          /\ \A i \in 1 .. j : SubSeq(fs, 1, j)[i] = fs[i]
      BY <1>1, <2>1, ListPrefix
    <2>3. /\ List(SubSeq(gs, 1, j)) /\ Len(SubSeq(gs, 1, j)) = j
          /\ \A i \in 1 .. j : SubSeq(gs, 1, j)[i] = gs[i]
      BY <1>1, <2>1, ListPrefix
    <2>4. SameRets(SubSeq(fs, 1, j), SubSeq(gs, 1, j))
      BY <1>1, <1>2, <2>1, <2>2, <2>3 DEF SameRets
    <2>5. gs[j].nC # 0 => AtLevel(gs[j].nC, b, SubSeq(gs, 1, j))
      BY <2>1, <2>4, SameRetsLevel DEF FrameSound, SameFrame
    <2>6. j # 1 => j - 1 \in 1 .. Len(fs) /\ SameFrame(fs[j - 1], gs[j - 1])
      BY <1>1, <2>1 DEF SameFrames
    <2> QED
      BY <2>1, <2>5, <2>6 DEF FrameSound, SameFrame, OnTop
  <1> QED
    BY <1>1, <1>2, <1>3 DEF FramesSound

LEMMA PushFrame ==
  ASSUME NEW fs, NEW f, NEW b, NEW k, FramesSound(fs, b, k),
         DOMAIN f = FrameFields, f.nC = 0,
         IF fs = <<>> THEN f.ret.k = k ELSE OnTop(f.ret.k, Last(fs))
  PROVE  FramesSound(Append(fs, f), b, k)
  <1> DEFINE gs == Append(fs, f)
             n  == Len(fs)
  <1>1. List(fs) /\ n \in Nat /\ (fs # <<>> <=> n # 0)
    BY ListFacts DEF FramesSound
  <1>2. /\ List(gs) /\ Len(gs) = n + 1
        /\ \A i \in 1 .. n : gs[i] = fs[i]
        /\ gs[n + 1] = f
    BY <1>1, ListAppend
  <1>3. \A j \in Nat : j <= n => SubSeq(gs, 1, j) = SubSeq(fs, 1, j)
    BY <1>1, PrefixAppend
  <1> HIDE DEF gs, n
  <1>4. ASSUME NEW j \in 1 .. n + 1
        PROVE  FrameSound(gs, b, k, j)
    <2>1. CASE j = n + 1
      <3>1. j # 1 => j - 1 = n /\ n \in 1 .. n /\ gs[n] = fs[n] /\ fs # <<>>
        BY <1>1, <1>2, <2>1
      <3>2. j = 1 => fs = <<>>
        BY <1>1, <2>1
      <3> QED
        BY <1>1, <1>2, <2>1, <3>1, <3>2 DEF FrameSound, Last, n
    <2>2. CASE j # n + 1
      <3>1. j \in 1 .. n /\ j \in Nat /\ j <= n /\ (j # 1 => j - 1 \in 1 .. n)
        BY <1>1, <2>2
      <3>2. FrameSound(fs, b, k, j)
        BY <3>1 DEF FramesSound, n
      <3> QED
        BY <1>2, <1>3, <3>1, <3>2 DEF FrameSound
    <2> QED
      BY <2>1, <2>2
  <1> QED
    BY <1>2, <1>4 DEF FramesSound, gs

LEMMA PrefixSound ==
  ASSUME NEW fs, NEW b, NEW k, NEW i \in Nat, FramesSound(fs, b, k), i <= Len(fs)
  PROVE  FramesSound(SubSeq(fs, 1, i), b, k)
  <1> DEFINE gs == SubSeq(fs, 1, i)
  <1>1. List(fs) /\ Len(fs) \in Nat
    BY ListFacts DEF FramesSound
  <1>2. List(gs) /\ Len(gs) = i /\ \A j \in 1 .. i : gs[j] = fs[j]
    BY <1>1, ListPrefix
  <1>3. \A j \in Nat : j <= i => SubSeq(gs, 1, j) = SubSeq(fs, 1, j)
    BY <1>1, PrefixPrefix
  <1> HIDE DEF gs
  <1>4. ASSUME NEW j \in 1 .. i
        PROVE  FrameSound(gs, b, k, j)
    <2>1. j \in 1 .. Len(fs) /\ j \in Nat /\ j <= i /\ (j # 1 => j - 1 \in 1 .. i)
      BY <1>1
    <2>2. FrameSound(fs, b, k, j)
      BY <2>1 DEF FramesSound
    <2> QED
      BY <1>2, <1>3, <2>1, <2>2 DEF FrameSound
  <1> QED
    BY <1>2, <1>4 DEF FramesSound, gs

(* The frame on top calls, and remembers the nesting it is called at. *)
LEMMA MarkSound ==
  ASSUME NEW fs, NEW f, NEW b, NEW k, FramesSound(fs, b, k), fs # <<>>,
         DOMAIN f = FrameFields, f.cl = Last(fs).cl, f.ret = Last(fs).ret, f.nC \in Nat,
         f.nC # 0 => AtLevel(f.nC, b, fs)
  PROVE  FramesSound(Append(Front(fs), f), b, k) /\ SameRets(fs, Append(Front(fs), f))
  <1> DEFINE gs == Append(Front(fs), f)
             n  == Len(fs)
  <1>1. List(fs) /\ n \in Nat /\ n # 0 /\ n - 1 \in Nat /\ (n - 1) + 1 = n /\ n <= n /\ n - 1 <= n
    BY ListFacts DEF FramesSound
  <1>2. /\ List(Front(fs)) /\ Len(Front(fs)) = n - 1
        /\ \A i \in 1 .. n - 1 : Front(fs)[i] = fs[i]
    BY <1>1, ListFront
  <1>3. /\ List(gs) /\ Len(gs) = n
        /\ \A i \in 1 .. n - 1 : gs[i] = fs[i]
        /\ gs[n] = f
    <2> DEFINE h == Front(fs)
    <2> HIDE DEF h
    <2>1. List(h) /\ Len(h) = n - 1 /\ \A i \in 1 .. n - 1 : h[i] = fs[i]
      BY <1>2 DEF h
    <2>2. /\ List(Append(h, f)) /\ Len(Append(h, f)) = Len(h) + 1
          /\ \A i \in 1 .. Len(h) : Append(h, f)[i] = h[i]
          /\ Append(h, f)[Len(h) + 1] = f
      BY <2>1, ListAppend
    <2> HIDE DEF n
    <2>3. List(Append(h, f)) /\ Len(Append(h, f)) = n /\ Append(h, f)[n] = f
      BY <1>1, <2>1, <2>2
    <2> QED
      BY <2>1, <2>2, <2>3 DEF h
  <1>4. \A j \in Nat : j <= n - 1 => SubSeq(gs, 1, j) = SubSeq(fs, 1, j)
    <2> SUFFICES ASSUME NEW j \in Nat, j <= n - 1
                 PROVE  SubSeq(gs, 1, j) = SubSeq(fs, 1, j)
      OBVIOUS
    <2>1. SubSeq(gs, 1, j) = SubSeq(Front(fs), 1, j)
      BY <1>2, PrefixAppend
    <2>2. SubSeq(Front(fs), 1, j) = SubSeq(fs, 1, j)
      BY <1>1, PrefixPrefix DEF Front
    <2> QED
      BY <2>1, <2>2
  <1> HIDE DEF gs
  <1>5. f.ret = fs[n].ret /\ f.cl = fs[n].cl
    BY DEF Last, n
  <1>6. SameRets(fs, gs)
    <2>0. n \in Nat
      BY <1>1
    <2>1. \A i \in 1 .. n : i = n \/ i \in 1 .. n - 1
      <3> HIDE DEF n
      <3> QED
        BY <2>0
    <2> QED
      BY <1>1, <1>3, <1>5, <2>1 DEF SameRets, n
  <1>7. AtLevel(f.nC, b, fs) <=> AtLevel(f.nC, b, gs)
    BY <1>6, SameRetsLevel
  <1>8. SubSeq(gs, 1, n) = gs
    BY <1>3, PrefixWhole
  <1> HIDE DEF n
  <1>9. ASSUME NEW j \in 1 .. n
        PROVE  FrameSound(gs, b, k, j)
    <2>1. FrameSound(fs, b, k, j)
      BY DEF FramesSound, n
    <2>2. j # 1 => j - 1 \in 1 .. n - 1
      BY <1>1
    <2>3. CASE j = n
      BY <1>3, <1>5, <1>7, <1>8, <2>1, <2>2, <2>3 DEF FrameSound
    <2>4. CASE j # n
      <3>1. j \in 1 .. n - 1 /\ j \in Nat /\ j <= n - 1
        BY <1>1, <2>4
      <3> QED
        BY <1>3, <1>4, <2>1, <2>2, <3>1 DEF FrameSound
    <2> QED
      BY <2>3, <2>4
  <1>10. FramesSound(gs, b, k)
    BY <1>3, <1>9 DEF FramesSound
  <1> QED
    BY <1>6, <1>10 DEF gs

-----------------------------------------------------------------------------
(* What leaves the frames of every thread as they are.                       *)

(* Machines, before anything is said of their order.                         *)
ThreadShape(t) ==
  /\ DOMAIN t = ThreadFields /\ List(t.frames)
  /\ \A j \in 1 .. Len(t.frames) : DOMAIN t.frames[j] = FrameFields
Shape(m) ==
  /\ DOMAIN m = MachineFields /\ List(m.th) /\ List(m.run) /\ List(m.uv)
  /\ \A i \in 1 .. Len(m.th) : ThreadShape(m.th[i])
Framed(m) == Shape(m) /\ Cur(m) \in 1 .. Len(m.th) /\ CurTh(m).frames # <<>>

(* Threads with the same frames, status and nesting, and new threads at rest. *)
SameThread(t, u) ==
  /\ DOMAIN u = DOMAIN t /\ u.status = t.status /\ u.stack = t.stack
  /\ u.nC = t.nC /\ u.baseC = t.baseC /\ SameFrames(t.frames, u.frames)
SamePlace(t, u) == \A j \in 1 .. Len(t.frames) : u.frames[j].pc = t.frames[j].pc
NewThread(t) ==
  /\ DOMAIN t = ThreadFields /\ t.frames = <<>> /\ t.status = "ok" /\ t.nC = 0 /\ t.baseC = 0
  /\ IsLua(t.stack[1])

(* Machine n has the threads of m, and others that have not started; the upvalues *)
(* of m, some of them closed since.                                          *)
ThreadsKept(m, n) ==
  /\ Len(n.th) >= Len(m.th)
  /\ \A i \in 1 .. Len(m.th) :
        SameThread(m.th[i], n.th[i]) /\ (i # Cur(m) => SamePlace(m.th[i], n.th[i]))
  /\ \A i \in 1 .. Len(n.th) : i > Len(m.th) => NewThread(n.th[i])
UpvalsKept(m, n) ==
  Len(n.uv) = Len(m.uv) /\ \A i \in 1 .. Len(m.uv) : IsOpenUpval(n.uv[i]) => n.uv[i] = m.uv[i]
Keeps(m, n) ==
  Shape(n) /\ n.run = m.run /\ n.ans = m.ans /\ ThreadsKept(m, n) /\ UpvalsKept(m, n)

LEMMA SameFrameSelf == \A f : SameFrame(f, f)
  BY DEF SameFrame

LEMMA SameThreadSelf ==
  ASSUME NEW t, ThreadShape(t)
  PROVE  SameThread(t, t) /\ SamePlace(t, t)
  BY SameFrameSelf DEF SameThread, SamePlace, SameFrames, ThreadShape

LEMMA KeepsSelf ==
  ASSUME NEW m, Shape(m)
  PROVE  Keeps(m, m)
  <1>1. Len(m.th) \in Nat /\ Len(m.uv) \in Nat
    BY ListFacts DEF Shape
  <1>2. \A i \in 1 .. Len(m.th) : SameThread(m.th[i], m.th[i]) /\ SamePlace(m.th[i], m.th[i])
    BY SameThreadSelf DEF Shape
  <1>3. ThreadsKept(m, m)
    BY <1>1, <1>2 DEF ThreadsKept
  <1> QED
    BY <1>3 DEF Keeps, UpvalsKept

LEMMA SameThreadTwice ==
  ASSUME NEW t, NEW u, NEW w, SameThread(t, u), SameThread(u, w)
  PROVE  SameThread(t, w) /\ (SamePlace(t, u) /\ SamePlace(u, w) => SamePlace(t, w))
  <1>1. SameFrames(t.frames, w.frames)
    BY DEF SameThread, SameFrames, SameFrame
  <1> QED
    BY <1>1 DEF SameThread, SameFrames, SamePlace

LEMMA KeepsTwice ==
  ASSUME NEW m, NEW n, NEW p, Shape(m), Keeps(m, n), Keeps(n, p)
  PROVE  Keeps(m, p)
  <1>1. Len(m.th) \in Nat /\ Len(n.th) \in Nat /\ Len(p.th) \in Nat
    BY ListFacts DEF Shape, Keeps
  <1>2. Len(p.th) >= Len(m.th)
    BY <1>1 DEF Keeps, ThreadsKept
  <1>3. ASSUME NEW i \in 1 .. Len(m.th)
        PROVE  SameThread(m.th[i], p.th[i]) /\ (i # Cur(m) => SamePlace(m.th[i], p.th[i]))
    <2>1. i \in 1 .. Len(n.th) /\ Cur(n) = Cur(m)
      BY <1>1 DEF Keeps, ThreadsKept, Cur
    <2> QED
      BY <2>1, SameThreadTwice DEF Keeps, ThreadsKept
  <1>4. ASSUME NEW i \in 1 .. Len(p.th), i > Len(m.th)
        PROVE  NewThread(p.th[i])
    <2>1. CASE i > Len(n.th)
      BY <2>1 DEF Keeps, ThreadsKept
    <2>2. CASE ~(i > Len(n.th))
      <3>1. i \in 1 .. Len(n.th)
        BY <1>1, <2>2
      <3>2. NewThread(n.th[i]) /\ SameThread(n.th[i], p.th[i])
        BY <1>4, <3>1 DEF Keeps, ThreadsKept
      <3>3. List(p.th[i].frames) /\ Len(p.th[i].frames) = Len(<<>>)
        BY <3>2 DEF SameThread, SameFrames, NewThread
      <3>4. p.th[i].frames = <<>>
        BY <3>3, ListFacts
      <3> QED
        BY <3>2, <3>4 DEF NewThread, SameThread
    <2> QED
      BY <2>1, <2>2
  <1>5. UpvalsKept(m, p)
    BY DEF Keeps, UpvalsKept
  <1>6. ThreadsKept(m, p)
    BY <1>2, <1>3, <1>4 DEF ThreadsKept
  <1> QED
    BY <1>5, <1>6 DEF Keeps

LEMMA KeepsFramed ==
  ASSUME NEW m, NEW n, Framed(m), Keeps(m, n)
  PROVE  /\ Framed(n) /\ Cur(n) = Cur(m) /\ Depth(n) = Depth(m)
         /\ SameThread(CurTh(m), CurTh(n)) /\ SameFrame(Top(m), Top(n))
  <1>1. Cur(n) = Cur(m) /\ Cur(m) \in 1 .. Len(m.th) /\ Cur(m) \in 1 .. Len(n.th)
    <2>1. Cur(n) = Cur(m) /\ Cur(m) \in 1 .. Len(m.th)
      BY DEF Keeps, Cur, Framed
    <2>2. Len(m.th) \in Nat /\ Len(n.th) \in Nat /\ Len(n.th) >= Len(m.th)
      BY ListFacts DEF Framed, Shape, Keeps, ThreadsKept
    <2> QED
      BY <2>1, <2>2
  <1>2. SameThread(CurTh(m), CurTh(n))
    BY <1>1 DEF Keeps, ThreadsKept, CurTh
  <1>3. /\ List(CurTh(m).frames) /\ List(CurTh(n).frames)
        /\ Len(CurTh(n).frames) = Len(CurTh(m).frames) /\ CurTh(m).frames # <<>>
    BY <1>1, <1>2 DEF Framed, Shape, ThreadShape, CurTh, SameThread, SameFrames
  <1>4. Len(CurTh(m).frames) \in 1 .. Len(CurTh(m).frames) /\ CurTh(n).frames # <<>>
    BY <1>3, ListFacts
  <1>5. SameFrame(Top(m), Top(n))
    BY <1>2, <1>3, <1>4 DEF SameThread, SameFrames, Top, Last
  <1> QED
    BY <1>1, <1>2, <1>3, <1>4, <1>5 DEF Framed, Keeps, Depth

LEMMA KeepsData ==
  ASSUME NEW m, NEW x, Shape(m)
  PROVE  /\ Keeps(m, [m EXCEPT !.tab = x])
         /\ Keeps(m, [m EXCEPT !.cl = x])
         /\ Keeps(m, [m EXCEPT !.todo = x])
  <1>1. Keeps(m, m)
    BY KeepsSelf
  <1>2. ASSUME NEW n, DOMAIN n = MachineFields, n.th = m.th, n.run = m.run, n.uv = m.uv, n.ans = m.ans
        PROVE  Keeps(m, n)
    BY <1>1, <1>2 DEF Keeps, Shape, ThreadsKept, UpvalsKept
  <1>3. DOMAIN m = MachineFields
    BY DEF Shape
  <1> DEFINE a == [m EXCEPT !.tab = x]
             b == [m EXCEPT !.cl = x]
             c == [m EXCEPT !.todo = x]
  <1>4. DOMAIN a = MachineFields /\ a.th = m.th /\ a.run = m.run /\ a.uv = m.uv /\ a.ans = m.ans
    BY <1>3 DEF MachineFields
  <1>5. DOMAIN b = MachineFields /\ b.th = m.th /\ b.run = m.run /\ b.uv = m.uv /\ b.ans = m.ans
    BY <1>3 DEF MachineFields
  <1>6. DOMAIN c = MachineFields /\ c.th = m.th /\ c.run = m.run /\ c.uv = m.uv /\ c.ans = m.ans
    BY <1>3 DEF MachineFields
  <1> HIDE DEF a, b, c
  <1>7. Keeps(m, a) /\ Keeps(m, b) /\ Keeps(m, c)
    BY <1>2, <1>4, <1>5, <1>6
  <1> QED
    BY <1>7 DEF a, b, c

(* Another machine but for its threads, of which those of m are the same. *)
LEMMA KeepsThreads ==
  ASSUME NEW m, NEW n, Shape(m),
         DOMAIN n = MachineFields, n.run = m.run, n.uv = m.uv, n.ans = m.ans,
         List(n.th), Len(n.th) = Len(m.th),
         \A i \in 1 .. Len(m.th) :
            SameThread(m.th[i], n.th[i]) /\ (i # Cur(m) => SamePlace(m.th[i], n.th[i]))
  PROVE  Keeps(m, n)
  <1>1. Len(m.th) \in Nat
    BY ListFacts DEF Shape
  <1>2. ThreadsKept(m, n)
    BY <1>1 DEF ThreadsKept
  <1>3. ASSUME NEW i \in 1 .. Len(n.th)
        PROVE  ThreadShape(n.th[i])
    BY DEF Shape, ThreadShape, SameThread, SameFrames, SameFrame
  <1> QED
    BY <1>2, <1>3 DEF Keeps, Shape, UpvalsKept

-----------------------------------------------------------------------------
(* Writing the frame on top, its registers and its place in the code.        *)

(* Machine n is m with u for the thread c. *)
WithThread(m, n, c, u) ==
  /\ DOMAIN n = MachineFields /\ n.run = m.run /\ n.cl = m.cl /\ n.uv = m.uv /\ n.tab = m.tab
  /\ n.todo = m.todo /\ n.ans = m.ans
  /\ n.th = [m.th EXCEPT ![c] = u]

LEMMA SetThIs ==
  ASSUME NEW m, NEW t, DOMAIN m = MachineFields
  PROVE  WithThread(m, SetTh(m, t), Cur(m), t)
  BY DEF SetTh, WithThread, MachineFields

LEMMA SetTopIs ==
  ASSUME NEW m, NEW f, DOMAIN m = MachineFields
  PROVE  WithThread(m, SetTop(m, f), Cur(m),
                    [CurTh(m) EXCEPT !.frames = Append(Front(CurTh(m).frames), f)])
  BY DEF SetTop, WithThread, MachineFields, CurTh

LEMMA PushIs ==
  ASSUME NEW m, NEW f, DOMAIN m = MachineFields
  PROVE  WithThread(m, Push(m, f), Cur(m), [CurTh(m) EXCEPT !.frames = Append(CurTh(m).frames, f)])
  BY DEF Push, WithThread, MachineFields, CurTh

LEMMA PopIs ==
  ASSUME NEW m, DOMAIN m = MachineFields
  PROVE  WithThread(m, Pop(m), Cur(m), [CurTh(m) EXCEPT !.frames = Front(CurTh(m).frames)])
  BY DEF Pop, WithThread, MachineFields, CurTh

LEMMA ThreadFieldsSet ==
  ASSUME NEW t, DOMAIN t = ThreadFields, NEW x
  PROVE  /\ LET u == [t EXCEPT !.frames = x]
            IN  /\ DOMAIN u = ThreadFields /\ u.frames = x /\ u.status = t.status
                /\ u.stack = t.stack /\ u.nC = t.nC /\ u.baseC = t.baseC
         /\ LET u == [t EXCEPT !.nC = x]
            IN  /\ DOMAIN u = ThreadFields /\ u.frames = t.frames /\ u.status = t.status
                /\ u.stack = t.stack /\ u.nC = x /\ u.baseC = t.baseC
         /\ LET u == [t EXCEPT !.size = x]
            IN  /\ DOMAIN u = ThreadFields /\ u.frames = t.frames /\ u.status = t.status
                /\ u.stack = t.stack /\ u.nC = t.nC /\ u.baseC = t.baseC
  BY DEF ThreadFields

LEMMA KeepsWithThread ==
  ASSUME NEW m, NEW n, NEW c, NEW u, Shape(m), WithThread(m, n, c, u),
         c \in 1 .. Len(m.th) => SameThread(m.th[c], u) /\ (c # Cur(m) => SamePlace(m.th[c], u))
  PROVE  Keeps(m, n)
  <1>1. /\ List(n.th) /\ Len(n.th) = Len(m.th)
        /\ \A i \in 1 .. Len(m.th) : n.th[i] = IF i = c THEN u ELSE m.th[i]
    <2>1. Updated(m.th, c, u, [m.th EXCEPT ![c] = u])
      BY ListExcept DEF Shape
    <2>2. n.th = [m.th EXCEPT ![c] = u]
      BY DEF WithThread
    <2> QED
      BY <2>1, <2>2 DEF Updated
  <1>2. \A i \in 1 .. Len(m.th) : SameThread(m.th[i], m.th[i]) /\ SamePlace(m.th[i], m.th[i])
    BY SameThreadSelf DEF Shape
  <1>3. \A i \in 1 .. Len(m.th) :
            SameThread(m.th[i], n.th[i]) /\ (i # Cur(m) => SamePlace(m.th[i], n.th[i]))
    BY <1>1, <1>2
  <1> QED
    BY <1>1, <1>3, KeepsThreads DEF WithThread

LEMMA SameFramesTop ==
  ASSUME NEW fs, NEW f, List(fs), fs # <<>>, SameFrame(Last(fs), f)
  PROVE  SameFrames(fs, Append(Front(fs), f))
  <1> DEFINE gs == Append(Front(fs), f)
             h  == Front(fs)
             n  == Len(fs)
  <1>1. n \in Nat /\ n # 0 /\ n - 1 \in Nat /\ (n - 1) + 1 = n
    BY ListFacts
  <1>2. List(h) /\ Len(h) = n - 1 /\ \A i \in 1 .. n - 1 : h[i] = fs[i]
    BY ListFront
  <1> HIDE DEF h
  <1>3. /\ List(gs) /\ Len(gs) = Len(h) + 1
        /\ \A i \in 1 .. Len(h) : gs[i] = h[i]
        /\ gs[Len(h) + 1] = f
    BY <1>2, ListAppend DEF h
  <1> HIDE DEF gs
  <1>4. \A i \in 1 .. n : i = n \/ i \in 1 .. n - 1
    <2> HIDE DEF n
    <2> QED
      BY <1>1
  <1>5. SameFrame(fs[n], f) /\ \A i \in 1 .. n : SameFrame(fs[i], fs[i])
    BY SameFrameSelf DEF Last
  <1>6. List(gs) /\ Len(gs) = n /\ gs[n] = f /\ \A i \in 1 .. n - 1 : gs[i] = fs[i]
    <2> HIDE DEF n
    <2> QED
      BY <1>1, <1>2, <1>3
  <1>7. \A i \in 1 .. n : SameFrame(fs[i], gs[i])
    BY <1>4, <1>5, <1>6
  <1> QED
    BY <1>6, <1>7 DEF SameFrames, gs

LEMMA KeepsTop ==
  ASSUME NEW m, NEW f, Framed(m), SameFrame(Top(m), f)
  PROVE  Keeps(m, SetTop(m, f))
  <1> DEFINE t == CurTh(m)
             u == [t EXCEPT !.frames = Append(Front(t.frames), f)]
  <1>1. ThreadShape(t) /\ t.frames # <<>> /\ Shape(m)
    BY DEF Framed, Shape, CurTh
  <1>2. SameFrames(t.frames, Append(Front(t.frames), f))
    BY <1>1, SameFramesTop DEF ThreadShape, Top
  <1>3. SameThread(t, u)
    BY <1>1, <1>2, ThreadFieldsSet DEF SameThread, ThreadShape
  <1>4. WithThread(m, SetTop(m, f), Cur(m), u)
    BY <1>1, SetTopIs DEF Shape
  <1> HIDE DEF u
  <1> QED
    BY <1>1, <1>3, <1>4, KeepsWithThread DEF CurTh

LEMMA SameThreadIf ==
  ASSUME NEW t, NEW u, ThreadShape(t), DOMAIN u = ThreadFields, u.frames = t.frames,
         u.status = t.status, u.stack = t.stack, u.nC = t.nC, u.baseC = t.baseC
  PROVE  SameThread(t, u) /\ SamePlace(t, u)
  <1>1. SameThread(t, t) /\ SamePlace(t, t)
    BY SameThreadSelf
  <1> QED
    BY <1>1 DEF SameThread, SamePlace, ThreadShape

LEMMA FrameFieldsSet ==
  ASSUME NEW f, NEW x, DOMAIN f = FrameFields
  PROVE  /\ SameFrame(f, [f EXCEPT !.regs = x])
         /\ [f EXCEPT !.regs = x].pc = f.pc
         /\ SameFrame(f, [f EXCEPT !.pc = x])
         /\ SameFrame(f, [f EXCEPT !.top = x])
         /\ SameFrame(f, [f EXCEPT !.k = x])
         /\ SameFrame(f, [f EXCEPT !.handler = x])
  BY DEF SameFrame, FrameFields

LEMMA FrameFieldsSets ==
  ASSUME NEW f, NEW x, NEW y, DOMAIN f = FrameFields
  PROVE  SameFrame(f, [f EXCEPT !.regs = x, !.top = y])
  BY DEF SameFrame, FrameFields

LEMMA TopShape ==
  ASSUME NEW m, Framed(m)
  PROVE  DOMAIN Top(m) = FrameFields
  <1>1. /\ List(CurTh(m).frames) /\ CurTh(m).frames # <<>>
        /\ \A j \in 1 .. Len(CurTh(m).frames) : DOMAIN CurTh(m).frames[j] = FrameFields
    BY DEF Framed, Shape, ThreadShape, CurTh
  <1>2. Len(CurTh(m).frames) \in 1 .. Len(CurTh(m).frames)
    BY <1>1, ListFacts
  <1> QED
    BY <1>1, <1>2 DEF Top, Last

LEMMA KeepsRegs ==
  ASSUME NEW m, NEW r, NEW vals, Framed(m)
  PROVE  Keeps(m, SetRegs(m, r, vals))
  BY TopShape, KeepsTop, FrameFieldsSet DEF SetRegs

LEMMA KeepsReg ==
  ASSUME NEW m, NEW r, NEW v, Framed(m)
  PROVE  Keeps(m, SetReg(m, r, v))
  BY KeepsRegs DEF SetReg

LEMMA KeepsGoto ==
  ASSUME NEW m, NEW pc, Framed(m)
  PROVE  Keeps(m, Goto(m, pc))
  BY TopShape, KeepsTop, FrameFieldsSet DEF Goto

LEMMA KeepsUpval ==
  ASSUME NEW m, NEW id, NEW v, Framed(m)
  PROVE  Keeps(m, WriteUpval(m, id, v))
  <1> DEFINE u == m.uv[id]
             t == m.th[u.th]
             f == t.frames[u.fr]
             g == [f EXCEPT !.regs = Write(f.regs, u.reg, <<v>>)]
             w == [t EXCEPT !.frames = [t.frames EXCEPT ![u.fr] = g]]
  <1>0. Shape(m) /\ DOMAIN m = MachineFields
    BY DEF Framed, Shape
  <1>1. CASE IsOpenUpval(u)
    <2>1. WithThread(m, WriteUpval(m, id, v), u.th, w)
      BY <1>0, <1>1 DEF WriteUpval, WithThread, MachineFields
    <2>2. ASSUME u.th \in 1 .. Len(m.th)
          PROVE  SameThread(t, w) /\ SamePlace(t, w)
      <3>1. ThreadShape(t)
        BY <1>0, <2>2 DEF Shape
      <3> DEFINE gs == [t.frames EXCEPT ![u.fr] = g]
      <3>2. /\ List(gs) /\ Len(gs) = Len(t.frames)
            /\ \A j \in 1 .. Len(t.frames) : gs[j] = IF j = u.fr THEN g ELSE t.frames[j]
        <4>1. List(t.frames)
          BY <3>1 DEF ThreadShape
        <4> HIDE DEF g, t
        <4>2. Updated(t.frames, u.fr, g, gs)
          BY <4>1, ListExcept
        <4> QED
          BY <4>2 DEF Updated
      <3>3. u.fr \in 1 .. Len(t.frames) => SameFrame(f, g) /\ g.pc = f.pc
        BY <3>1, FrameFieldsSet DEF ThreadShape
      <3> HIDE DEF g, gs
      <3>4. SameFrames(t.frames, gs) /\ \A j \in 1 .. Len(t.frames) : gs[j].pc = t.frames[j].pc
        BY <3>2, <3>3, SameFrameSelf DEF SameFrames
      <3>5. DOMAIN w = ThreadFields /\ w.frames = gs /\ w.status = t.status
            /\ w.stack = t.stack /\ w.nC = t.nC /\ w.baseC = t.baseC
        BY <3>1, ThreadFieldsSet DEF ThreadShape, gs
      <3> HIDE DEF w
      <3> QED
        BY <3>1, <3>4, <3>5 DEF SameThread, SamePlace, ThreadShape
    <2> HIDE DEF w, u
    <2> QED
      BY <1>0, <2>1, <2>2, KeepsWithThread
  <1>2. CASE ~IsOpenUpval(u)
    <2> DEFINE n == [m EXCEPT !.uv[id] = [u EXCEPT !.v = v]]
    <2>1. /\ DOMAIN n = MachineFields /\ n.th = m.th /\ n.run = m.run /\ n.ans = m.ans
          /\ n.uv = [m.uv EXCEPT ![id] = [u EXCEPT !.v = v]]
      BY <1>0 DEF MachineFields
    <2>2. WriteUpval(m, id, v) = n
      BY <1>2 DEF WriteUpval
    <2> HIDE DEF n
    <2>3. Keeps(m, m)
      BY <1>0, KeepsSelf
    <2>4. /\ List(n.uv) /\ Len(n.uv) = Len(m.uv)
          /\ \A j \in 1 .. Len(m.uv) : n.uv[j] = IF j = id THEN [u EXCEPT !.v = v] ELSE m.uv[j]
      <3> DEFINE x == [u EXCEPT !.v = v]
      <3>1. List(m.uv) /\ n.uv = [m.uv EXCEPT ![id] = x]
        BY <1>0, <2>1 DEF Shape
      <3> HIDE DEF x
      <3>2. Updated(m.uv, id, x, n.uv)
        BY <3>1, ListExcept
      <3> QED
        BY <3>2 DEF Updated, x
    <2>5. ~IsOpenUpval([u EXCEPT !.v = v])
      BY <1>2 DEF IsOpenUpval
    <2>6. UpvalsKept(m, n)
      BY <2>4, <2>5 DEF UpvalsKept
    <2> QED
      BY <1>0, <2>1, <2>2, <2>3, <2>4, <2>6 DEF Keeps, Shape, ThreadsKept
  <1> QED
    BY <1>1, <1>2

-----------------------------------------------------------------------------
(* Closing upvalues, writing tables, asking for something to be done.        *)

LEMMA ListOver ==
  ASSUME NEW s, NEW t, List(s), DOMAIN t = DOMAIN s, t = [i \in DOMAIN t |-> t[i]]
  PROVE  List(t) /\ Len(t) = Len(s)
  <1>1. Len(s) \in Nat /\ DOMAIN s = 1 .. Len(s)
    BY ListFacts
  <1> DEFINE n == Len(s)
             T == {t[i] : i \in 1 .. n}
  <1> HIDE DEF n
  <1>2. t \in [1 .. n -> T]
    BY <1>1 DEF n
  <1> HIDE DEF T
  <1>3. t \in Seq(T)
    BY <1>1, <1>2, SeqDef DEF n
  <1>4. Len(t) \in Nat /\ DOMAIN t = 1 .. Len(t)
    BY <1>3, LenProperties
  <1>5. Len(t) = n
    BY <1>1, <1>4 DEF n
  <1> QED
    BY <1>3, <1>5 DEF List, n

(* Machine n is m without the open upvalues of the running thread that go. *)
Closed(m, n, goes) ==
  /\ DOMAIN n = MachineFields /\ n.th = m.th /\ n.run = m.run /\ n.cl = m.cl /\ n.tab = m.tab
  /\ n.todo = m.todo /\ n.ans = m.ans
  /\ List(n.uv) /\ Len(n.uv) = Len(m.uv)
  /\ \A i \in 1 .. Len(m.uv) : IsOpenUpval(n.uv[i]) => n.uv[i] = m.uv[i] /\ i \notin goes

LEMMA CloseFramesIs ==
  ASSUME NEW m, NEW d, Shape(m)
  PROVE  Closed(m, CloseFrames(m, d), {i \in 1 .. Len(m.uv) : m.uv[i].th = Cur(m) /\ m.uv[i].fr >= d})
  <1> DEFINE n == CloseFrames(m, d)
             goes == {i \in 1 .. Len(m.uv) : m.uv[i].th = Cur(m) /\ m.uv[i].fr >= d}
             gone(i) == [th |-> 0, fr |-> 0, reg |-> 0, v |-> ReadUpval(m, i)]
  <1>1. DOMAIN m = MachineFields /\ List(m.uv) /\ DOMAIN m.uv = 1 .. Len(m.uv)
    BY ListFacts DEF Shape
  <1>2. /\ DOMAIN n = MachineFields /\ n.th = m.th /\ n.run = m.run /\ n.cl = m.cl /\ n.tab = m.tab
        /\ n.todo = m.todo /\ n.ans = m.ans
        /\ n.uv = [i \in DOMAIN m.uv |-> IF m.uv[i].th = Cur(m) /\ m.uv[i].fr >= d
                                         THEN gone(i) ELSE m.uv[i]]
    BY <1>1 DEF CloseFrames, CloseWhere, MachineFields
  <1>3. \A i : ~IsOpenUpval(gone(i))
    BY DEF IsOpenUpval
  <1> HIDE DEF n, gone
  <1>4. List(n.uv) /\ Len(n.uv) = Len(m.uv)
    BY <1>1, <1>2, ListOver
  <1>5. \A i \in 1 .. Len(m.uv) : IsOpenUpval(n.uv[i]) => n.uv[i] = m.uv[i] /\ i \notin goes
    BY <1>1, <1>2, <1>3
  <1> QED
    BY <1>2, <1>4, <1>5 DEF Closed, n

LEMMA CloseRegsIs ==
  ASSUME NEW m, NEW r, Shape(m)
  PROVE  Closed(m, CloseRegs(m, r), {})
  <1> DEFINE n == CloseRegs(m, r)
             gone(i) == [th |-> 0, fr |-> 0, reg |-> 0, v |-> ReadUpval(m, i)]
  <1>1. DOMAIN m = MachineFields /\ List(m.uv) /\ DOMAIN m.uv = 1 .. Len(m.uv)
    BY ListFacts DEF Shape
  <1>2. /\ DOMAIN n = MachineFields /\ n.th = m.th /\ n.run = m.run /\ n.cl = m.cl /\ n.tab = m.tab
        /\ n.todo = m.todo /\ n.ans = m.ans
        /\ n.uv = [i \in DOMAIN m.uv |->
                     IF m.uv[i].th = Cur(m) /\ (m.uv[i].fr = Depth(m) /\ m.uv[i].reg >= r)
                     THEN gone(i) ELSE m.uv[i]]
    BY <1>1 DEF CloseRegs, CloseWhere, MachineFields
  <1>3. \A i : ~IsOpenUpval(gone(i))
    BY DEF IsOpenUpval
  <1> HIDE DEF n, gone
  <1>4. List(n.uv) /\ Len(n.uv) = Len(m.uv)
    BY <1>1, <1>2, ListOver
  <1>5. \A i \in 1 .. Len(m.uv) : IsOpenUpval(n.uv[i]) => n.uv[i] = m.uv[i]
    BY <1>1, <1>2, <1>3
  <1> QED
    BY <1>2, <1>4, <1>5 DEF Closed, n

LEMMA KeepsClosed ==
  ASSUME NEW m, NEW n, NEW goes, Shape(m), Closed(m, n, goes)
  PROVE  Keeps(m, n)
  <1>1. Keeps(m, m)
    BY KeepsSelf
  <1> QED
    BY <1>1 DEF Keeps, Shape, Closed, ThreadsKept, UpvalsKept

LEMMA KeepsSetTab ==
  ASSUME NEW m, NEW t, NEW tab, Shape(m)
  PROVE  Keeps(m, SetTab(m, t, tab))
  BY KeepsData DEF SetTab

LEMMA KeepsRawSet ==
  ASSUME NEW m, NEW t, NEW key, NEW v, Shape(m)
  PROVE  Keeps(m, RawSet(m, t, key, v))
  BY KeepsSetTab DEF RawSet

LEMMA KeepsLearn ==
  ASSUME NEW m, NEW mt, NEW event, Shape(m)
  PROVE  Keeps(m, Learn(m, mt, event))
  BY KeepsData, KeepsSelf DEF Learn

(* What is asked for, and what stays. *)
LEMMA AskIs ==
  ASSUME NEW m, NEW op, NEW v, NEW vals, NEW ret, Shape(m)
  PROVE  /\ Keeps(m, Ask(m, op, v, vals, ret))
         /\ Ask(m, op, v, vals, ret).todo = [op |-> op, v |-> v, vals |-> vals, ret |-> ret]
  <1>1. DOMAIN m = MachineFields
    BY DEF Shape
  <1> QED
    BY <1>1, KeepsData DEF Ask, MachineFields

LEMMA KeepsNewThread ==
  ASSUME NEW m, NEW f, Framed(m), IsLua(f)
  PROVE  Keeps(m, [m EXCEPT !.th = Append(@, Thread(<<f>>))])
  <1> DEFINE t == Thread(<<f>>)
             n == [m EXCEPT !.th = Append(m.th, t)]
  <1>0. Shape(m) /\ DOMAIN m = MachineFields /\ List(m.th) /\ Len(m.th) \in Nat
    BY ListFacts DEF Framed, Shape
  <1>1. NewThread(t)
    BY DEF NewThread, Thread, ThreadFields
  <1>2. ThreadShape(t)
    <2>1. <<>> \in Seq({})
      BY EmptySeq
    <2>2. List(<<>>) /\ Len(<<>>) = 0
      BY <2>1, EmptySeq DEF List
    <2>3. DOMAIN t = ThreadFields /\ t.frames = <<>>
      BY <1>1 DEF NewThread
    <2> HIDE DEF t
    <2> QED
      BY <2>2, <2>3 DEF ThreadShape
  <1>3. DOMAIN n = MachineFields /\ n.th = Append(m.th, t) /\ n.run = m.run /\ n.ans = m.ans /\ n.uv = m.uv
    BY <1>0 DEF MachineFields
  <1> HIDE DEF t, n
  <1>4. /\ List(n.th) /\ Len(n.th) = Len(m.th) + 1
        /\ \A i \in 1 .. Len(m.th) : n.th[i] = m.th[i]
        /\ n.th[Len(m.th) + 1] = t
    BY <1>0, <1>3, ListAppend
  <1>5. \A i \in 1 .. Len(n.th) : i = Len(m.th) + 1 \/ i \in 1 .. Len(m.th)
    BY <1>0, <1>4
  <1>6. Keeps(m, m)
    BY <1>0, KeepsSelf
  <1>7. ThreadsKept(m, n)
    BY <1>0, <1>1, <1>4, <1>5, <1>6 DEF Keeps, ThreadsKept
  <1>8. \A i \in 1 .. Len(n.th) : ThreadShape(n.th[i])
    BY <1>0, <1>2, <1>4, <1>5 DEF Shape
  <1>9. Keeps(m, n)
    BY <1>0, <1>3, <1>4, <1>6, <1>7, <1>8 DEF Keeps, Shape, UpvalsKept
  <1> QED
    BY <1>9 DEF n, t

-----------------------------------------------------------------------------
(* The answers of the C functions of the libraries.                          *)

Plain(m, c) ==
  /\ Keeps(m, c.m) /\ c.act \in {"give", "raise", "call", "again"}
  /\ c.act = "call" => c.kind \in CKinds
Answers(m) ==
  /\ \A vals : Plain(m, Give(m, vals))
  /\ \A v : Plain(m, Raise(m, v))
  /\ \A s : Plain(m, LError(m, s))
  /\ Plain(m, BadArg(m))
  /\ \A f, vals, kind : kind \in CKinds => Plain(m, Call(m, f, vals, kind))
  /\ \A k, f, vals : Plain(m, CallBack(m, k, f, vals))
  /\ \A k : Plain(m, Again(m, k))

LEMMA KeepsK ==
  ASSUME NEW m, NEW k, Framed(m)
  PROVE  Keeps(m, SetTop(m, [Top(m) EXCEPT !.k = k]))
  BY TopShape, KeepsTop, FrameFieldsSet

LEMMA PlainAnswers ==
  ASSUME NEW m, NEW n, Keeps(m, n)
  PROVE  /\ \A vals : Plain(m, Give(n, vals))
         /\ \A v : Plain(m, Raise(n, v))
         /\ \A f, vals, kind : kind \in CKinds => Plain(m, Call(n, f, vals, kind))
  <1>1. \A vals : Plain(m, Give(n, vals))
    BY DEF Answer, Plain, Give
  <1>2. \A v : Plain(m, Raise(n, v))
    BY DEF Answer, Plain, Raise
  <1>3. \A f, vals, kind : kind \in CKinds => Plain(m, Call(n, f, vals, kind))
    BY DEF Answer, Plain, Call
  <1> QED
    BY <1>1, <1>2, <1>3

LEMMA AnswersPlain ==
  ASSUME NEW m, Framed(m)
  PROVE  Answers(m)
  <1>1. Keeps(m, m)
    BY KeepsSelf DEF Framed
  <1>2. /\ \A vals : Plain(m, Give(m, vals))
        /\ \A v : Plain(m, Raise(m, v))
        /\ \A f, vals, kind : kind \in CKinds => Plain(m, Call(m, f, vals, kind))
    BY <1>1, PlainAnswers
  <1>3. \A s : Plain(m, LError(m, s))
    BY <1>2 DEF LError
  <1>4. Plain(m, BadArg(m))
    BY <1>3 DEF BadArg
  <1>5. ASSUME NEW k, NEW f, NEW vals
        PROVE  Plain(m, CallBack(m, k, f, vals))
    <2>1. Keeps(m, SetTop(m, [Top(m) EXCEPT !.k = k]))
      BY KeepsK
    <2>2. "back" \in CKinds
      BY DEF CKinds
    <2> QED
      BY <2>1, <2>2, PlainAnswers DEF CallBack
  <1>6. ASSUME NEW k
        PROVE  Plain(m, Again(m, k))
    <2>1. Keeps(m, SetTop(m, [Top(m) EXCEPT !.k = k]))
      BY KeepsK
    <2> QED
      BY <2>1 DEF Again, Answer, Plain
  <1> QED
    BY <1>2, <1>3, <1>4, <1>5, <1>6 DEF Answers

LEMMA PlainTwice ==
  ASSUME NEW m, NEW n, NEW c, Framed(m), Keeps(m, n), Plain(n, c)
  PROVE  Plain(m, c)
  BY KeepsTwice DEF Plain, Framed

LEMMA PlainBase ==
  ASSUME NEW m, NEW args, Framed(m)
  PROVE  /\ Plain(m, GetMetatable(m, args)) /\ Plain(m, SetMetatable(m, args))
         /\ Plain(m, LRawGet(m, args)) /\ Plain(m, LRawSet(m, args))
         /\ Plain(m, LType(m, args)) /\ Plain(m, LRawEqual(m, args)) /\ Plain(m, LToNumber(m, args))
         /\ Plain(m, LToString(m, args))
         /\ Plain(m, IPairs(m, args)) /\ Plain(m, IPairsAux(m, args))
         /\ Plain(m, LNext(m, args)) /\ Plain(m, Pairs(m, args))
         /\ Plain(m, Unpack(m, args)) /\ Plain(m, Select(m, args))
         /\ Plain(m, LAssert(m, args)) /\ Plain(m, LuaError(m, args))
         /\ Plain(m, PCall(m, args)) /\ Plain(m, XPCall(m, args))
         /\ Plain(m, CoCreate(m, args, FALSE)) /\ Plain(m, CoCreate(m, args, TRUE))
         /\ Plain(m, LCoStatus(m, args)) /\ Plain(m, CoRunning(m))
  <1>1. Answers(m) /\ Shape(m)
    BY AnswersPlain DEF Framed
  <1>2. Plain(m, GetMetatable(m, args))
    BY <1>1 DEF Answers, GetMetatable
  <1>3. Plain(m, SetMetatable(m, args))
    <2>1. \A x : Keeps(m, [m EXCEPT !.tab = x])
      BY <1>1, KeepsData
    <2> QED
      BY <1>1, <2>1, PlainAnswers DEF Answers, SetMetatable
  <1>4. Plain(m, LRawGet(m, args))
    BY <1>1 DEF Answers, LRawGet
  <1>5. Plain(m, LRawSet(m, args))
    <2>1. \A t, k, v : Keeps(m, RawSet(m, t, k, v))
      BY <1>1, KeepsRawSet
    <2> QED
      BY <1>1, <2>1, PlainAnswers DEF Answers, LRawSet
  <1>6. Plain(m, LType(m, args)) /\ Plain(m, LRawEqual(m, args)) /\ Plain(m, LToNumber(m, args))
    BY <1>1 DEF Answers, LType, LRawEqual, LToNumber
  <1>7. Plain(m, LToString(m, args))
    <2>1. "one" \in CKinds
      BY DEF CKinds
    <2> QED
      BY <1>1, <2>1 DEF Answers, LToString
  <1>8. Plain(m, IPairs(m, args)) /\ Plain(m, IPairsAux(m, args))
    BY <1>1 DEF Answers, IPairs, IPairsAux
  <1>9. Plain(m, LNext(m, args)) /\ Plain(m, Pairs(m, args))
    BY <1>1 DEF Answers, LNext, Pairs
  <1>10. Plain(m, Unpack(m, args)) /\ Plain(m, Select(m, args))
    BY <1>1 DEF Answers, Unpack, Select
  <1>11. Plain(m, LAssert(m, args)) /\ Plain(m, LuaError(m, args))
    BY <1>1 DEF Answers, LAssert, LuaError
  <1>12. "protected" \in CKinds
    BY DEF CKinds
  <1>13. Plain(m, PCall(m, args))
    BY <1>1, <1>12 DEF Answers, PCall
  <1>14. Plain(m, XPCall(m, args))
    <2>1. \A x : Keeps(m, SetTop(m, [Top(m) EXCEPT !.handler = x]))
      BY TopShape, KeepsTop, FrameFieldsSet
    <2> QED
      BY <1>1, <1>12, <2>1, PlainAnswers DEF Answers, XPCall
  <1>15. Plain(m, CoCreate(m, args, FALSE)) /\ Plain(m, CoCreate(m, args, TRUE))
    <2> DEFINE f == args[1]
               n == [m EXCEPT !.th = Append(@, Thread(<<f>>))]
    <2>1. ASSUME IsLua(Arg(args, 1))
          PROVE  \A vals : Plain(m, Give(n, vals))
      <3>1. IsLua(f)
        BY <2>1 DEF Arg, None, IsLua
      <3>2. Keeps(m, n)
        BY <3>1, KeepsNewThread
      <3> HIDE DEF n
      <3> QED
        BY <3>2, PlainAnswers
    <2>2. \A wrap : CoCreate(m, args, wrap) =
            IF ~IsLua(Arg(args, 1)) THEN BadArg(m)
            ELSE Give(n, <<IF wrap THEN CFunction("auxwrap", Len(m.th) + 1)
                           ELSE <<"thread", Len(m.th) + 1>>>>)
      BY DEF CoCreate
    <2> HIDE DEF n
    <2> QED
      BY <1>1, <2>1, <2>2 DEF Answers
  <1>16. Plain(m, LCoStatus(m, args)) /\ Plain(m, CoRunning(m))
    BY <1>1 DEF Answers, LCoStatus, CoRunning
  <1> QED
    BY <1>2, <1>3, <1>4, <1>5, <1>6, <1>7, <1>8, <1>9, <1>10, <1>11, <1>13, <1>14, <1>15, <1>16

LEMMA PlainString ==
  ASSUME NEW m, NEW args, Framed(m)
  PROVE  /\ Plain(m, StrSub(m, args)) /\ Plain(m, StrByte(m, args)) /\ Plain(m, StrChar(m, args))
         /\ Plain(m, StrRep(m, args)) /\ \A v : Plain(m, OfText(m, args, v))
         /\ \A find : Plain(m, StrFindAux(m, args, find))
         /\ Plain(m, GMatch(m, args)) /\ \A id : Plain(m, GMatchAux(m, id))
  <1>1. Answers(m) /\ Shape(m)
    BY AnswersPlain DEF Framed
  <1>2. Plain(m, StrSub(m, args))
    BY <1>1 DEF Answers, StrSub
  <1>3. Plain(m, StrByte(m, args)) /\ Plain(m, StrChar(m, args)) /\ Plain(m, StrRep(m, args))
    BY <1>1 DEF Answers, StrByte, StrChar, StrRep
  <1>4. \A v : Plain(m, OfText(m, args, v))
    BY <1>1 DEF Answers, OfText
  <1>5. ASSUME NEW n, Keeps(m, n), NEW src, NEW r, NEW find, NEW none
        PROVE  Plain(m, Found(m, n, src, r, find, none))
    <2>1. /\ \A vals : Plain(m, Give(n, vals))
          /\ \A s : Plain(m, LError(n, s))
      BY <1>5, PlainAnswers DEF LError
    <2> QED
      BY <1>1, <2>1 DEF Answers, Found
  <1>6. \A find : Plain(m, StrFindAux(m, args, find))
    <2>1. Keeps(m, m)
      BY <1>1, KeepsSelf
    <2>2. \A src, r, find, none : Plain(m, Found(m, m, src, r, find, none))
      BY <1>5, <2>1
    <2> QED
      BY <1>1, <2>2 DEF Answers, StrFindAux
  <1>7. \A x : Keeps(m, [m EXCEPT !.cl = x])
    BY <1>1, KeepsData
  <1>8. Plain(m, GMatch(m, args))
    BY <1>1, <1>7, PlainAnswers DEF Answers, GMatch
  <1>9. \A id, r : Plain(m, GMatched(m, id, r))
    BY <1>5, <1>7 DEF GMatched
  <1>10. \A id : Plain(m, GMatchAux(m, id))
    BY <1>1, <1>9 DEF Answers, GMatchAux
  <1> QED
    BY <1>2, <1>3, <1>4, <1>6, <1>8, <1>10

LEMMA PlainGSub ==
  ASSUME NEW m, Framed(m)
  PROVE  /\ \A k, v : Plain(m, GSubBack(m, k, v))
         /\ \A k : Plain(m, GSub(m, k))
         /\ \A args : Plain(m, StrGSub(m, args))
  <1>1. Answers(m)
    BY AnswersPlain
  <1>2. \A k : Plain(m, GSubEnd(m, k))
    BY <1>1 DEF Answers, GSubEnd
  <1>3. \A k : Plain(m, GSubNext(m, k))
    BY <1>1, <1>2 DEF Answers, GSubNext
  <1>4. \A k, v : Plain(m, GSubBack(m, k, v))
    BY <1>1, <1>3 DEF Answers, GSubBack
  <1>5. \A k : Plain(m, Replace(m, k))
    BY <1>1, <1>3, <1>4 DEF Answers, Replace
  <1>6. \A k, r : Plain(m, GSubMatched(m, k, r))
    BY <1>1, <1>3, <1>5 DEF Answers, GSubMatched
  <1>7. \A k : Plain(m, GSub(m, k))
    BY <1>2, <1>6 DEF GSub
  <1>8. \A args : Plain(m, StrGSub(m, args))
    BY <1>1, <1>7 DEF Answers, StrGSub
  <1> QED
    BY <1>4, <1>7, <1>8

LEMMA StringCallPlain ==
  ASSUME NEW m, NEW f, NEW args, Framed(m)
  PROVE  Plain(m, StringCall(m, f, args))
  BY PlainString, PlainGSub DEF StringCall

LEMMA PlainRequire ==
  ASSUME NEW m, Framed(m)
  PROVE  /\ \A name, i : Plain(m, AskLoader(m, name, i))
         /\ \A k, v : Plain(m, RequireBack(m, k, v))
         /\ \A name, args : Plain(m, PackageCall(m, name, args))
  <1>1. Answers(m) /\ Shape(m)
    BY AnswersPlain DEF Framed
  <1>2. \A name, i : Plain(m, AskLoader(m, name, i))
    BY <1>1 DEF Answers, AskLoader
  <1>3. \A name, v : Keeps(m, SetLoaded(m, name, v))
    BY <1>1, KeepsRawSet DEF SetLoaded
  <1>4. ASSUME NEW k, NEW v
        PROVE  Plain(m, RequireBack(m, k, v))
    <2> DEFINE n == IF v = Nil THEN m ELSE SetLoaded(m, k.name, v)
    <2>1. Keeps(m, n)
      BY <1>1, <1>3, KeepsSelf
    <2>2. Framed(n)
      BY <2>1, KeepsFramed
    <2>3. \A name, w : Keeps(n, SetLoaded(n, name, w))
      BY <2>2, KeepsRawSet DEF SetLoaded, Framed
    <2>4. \A name, w, vals : Plain(n, Give(SetLoaded(n, name, w), vals))
      BY <2>3, PlainAnswers
    <2>5. \A name, w, vals : Plain(m, Give(SetLoaded(n, name, w), vals))
      BY <2>1, <2>4, PlainTwice
    <2>6. \A vals : Plain(m, Give(n, vals))
      BY <2>1, PlainAnswers
    <2>7. ASSUME NEW j, NEW g, NEW vals
          PROVE  Plain(m, CallBack(SetLoaded(m, k.name, Sentinel), j, g, vals))
      <3> DEFINE p == SetLoaded(m, k.name, Sentinel)
      <3>1. Keeps(m, p)
        BY <1>3
      <3>2. Framed(p)
        BY <3>1, KeepsFramed
      <3> HIDE DEF p
      <3>3. Plain(p, CallBack(p, j, g, vals))
        BY <3>2, AnswersPlain DEF Answers
      <3>4. Plain(m, CallBack(p, j, g, vals))
        BY <3>1, <3>3, PlainTwice
      <3> QED
        BY <3>4 DEF p
    <2> HIDE DEF n
    <2>8. RequireBack(m, k, v) =
            IF k.at = "loader" /\ ~IsFunction(v) THEN AskLoader(m, k.name, k.i + 1)
            ELSE IF k.at = "loader"
            THEN CallBack(SetLoaded(m, k.name, Sentinel), [k EXCEPT !.at = "module"], v, <<k.name>>)
            ELSE IF RawGet(n, Loaded, k.name) = Sentinel
            THEN Give(SetLoaded(n, k.name, Bool(TRUE)), <<Bool(TRUE)>>)
            ELSE Give(n, <<RawGet(n, Loaded, k.name)>>)
      BY DEF RequireBack, n
    <2> QED
      BY <1>2, <2>5, <2>6, <2>7, <2>8
  <1>5. \A args : Plain(m, Require(m, args))
    BY <1>1, <1>2 DEF Answers, Require
  <1>6. \A args : Plain(m, LoaderPreload(m, args)) /\ Plain(m, LoaderNone(m, args))
    BY <1>1 DEF Answers, LoaderPreload, LoaderNone
  <1>7. \A name, args : Plain(m, PackageCall(m, name, args))
    BY <1>5, <1>6 DEF PackageCall
  <1> QED
    BY <1>2, <1>4, <1>7

LEMMA PlainTable ==
  ASSUME NEW m, Framed(m)
  PROVE  /\ \A k, v : Plain(m, ForEachBack(m, k, v))
         /\ \A args, ordered : Plain(m, LForEach(m, args, ordered))
         /\ \A args : /\ Plain(m, LMaxN(m, args)) /\ Plain(m, LGetN(m, args))
                      /\ Plain(m, LSetN(m, args)) /\ Plain(m, TInsert(m, args))
                      /\ Plain(m, TRemove(m, args)) /\ Plain(m, TConcat(m, args))
  <1>1. Answers(m) /\ Shape(m)
    BY AnswersPlain DEF Framed
  <1>2. \A t, f, n, i : Plain(m, ForEachI(m, t, f, n, i))
    BY <1>1 DEF Answers, ForEachI
  <1>3. \A t, f, key : Plain(m, ForEach(m, t, f, key))
    BY <1>1 DEF Answers, ForEach
  <1>4. \A k, v : Plain(m, ForEachBack(m, k, v))
    BY <1>1, <1>2, <1>3 DEF Answers, ForEachBack
  <1>5. \A args, ordered : Plain(m, LForEach(m, args, ordered))
    BY <1>1, <1>2, <1>3 DEF Answers, LForEach
  <1>6. \A args : Plain(m, LMaxN(m, args))
    BY <1>1 DEF Answers, LMaxN
  <1>7. \A args : Plain(m, LGetN(m, args)) /\ Plain(m, LSetN(m, args))
    BY <1>1 DEF Answers, LGetN, LSetN
  <1>8. ASSUME NEW t, NEW places, NEW step, NEW i, NEW v
        PROVE  Keeps(m, PutAt(Shift(m, t, places, step), t, i, v))
    <2>1. Keeps(m, Shift(m, t, places, step))
      BY <1>1, KeepsSetTab DEF Shift
    <2>2. Shape(Shift(m, t, places, step))
      BY <2>1 DEF Keeps
    <2>3. \A n : Shape(n) => Keeps(n, PutAt(n, t, i, v))
      BY KeepsRawSet DEF PutAt
    <2> QED
      BY <1>1, <2>1, <2>2, <2>3, KeepsTwice
  <1>9. \A t, places, step, i, v, vals : Plain(m, Give(PutAt(Shift(m, t, places, step), t, i, v), vals))
    BY <1>8, PlainAnswers
  <1>10. \A args : Plain(m, TInsert(m, args))
    BY <1>1, <1>9 DEF Answers, TInsert
  <1>11. \A args : Plain(m, TRemove(m, args))
    BY <1>1, <1>9 DEF Answers, TRemove
  <1>12. \A args : Plain(m, TConcat(m, args))
    BY <1>1 DEF Answers, TConcat
  <1> QED
    BY <1>4, <1>5, <1>6, <1>7, <1>10, <1>11, <1>12

LEMMA SortStart ==
  ASSUME NEW m, Framed(m)
  PROVE  /\ \A k, a, b : Plain(m, SortComp(m, k, a, b))
         /\ \A k : Plain(m, SortNext(m, k)) /\ Plain(m, SortDone(m, k))
         /\ \A k : Plain(m, ReadUp(m, k)) /\ Plain(m, ReadDown(m, k))
         /\ \A k : Plain(m, SortHigh(m, k)) /\ Plain(m, SortMiddle(m, k))
  <1>1. Answers(m)
    BY AnswersPlain
  <1>2. \A k, a, b : Plain(m, SortComp(m, k, a, b))
    BY <1>1 DEF Answers, SortComp
  <1>3. \A k : Plain(m, SortRange(m, k))
    BY <1>2 DEF SortRange
  <1>4. ASSUME NEW k
        PROVE  Plain(m, SortNext(m, k))
    BY <1>1, <1>3 DEF Answers, SortNext
  <1>5. \A k : Plain(m, SortDone(m, k))
    BY <1>4 DEF SortDone
  <1>6. \A k : Plain(m, ReadUp(m, k)) /\ Plain(m, ReadDown(m, k))
    BY <1>2 DEF ReadUp, ReadDown
  <1>7. \A k : Plain(m, SortHigh(m, k)) /\ Plain(m, SortMiddle(m, k))
    BY <1>2, <1>5 DEF SortHigh, SortMiddle
  <1> QED
    BY <1>2, <1>4, <1>5, <1>6, <1>7

LEMMA KeepsSet2 ==
  ASSUME NEW m, Framed(m)
  PROVE  \A t, i, v, j, w : Keeps(m, Set2(m, t, i, v, j, w)) /\ Framed(Set2(m, t, i, v, j, w))
  <1> SUFFICES ASSUME NEW t, NEW i, NEW v, NEW j, NEW w
               PROVE  Keeps(m, Set2(m, t, i, v, j, w)) /\ Framed(Set2(m, t, i, v, j, w))
    OBVIOUS
  <1>1. \A n, h, x : Shape(n) => Keeps(n, PutAt(n, t, h, x))
    BY KeepsRawSet DEF PutAt
  <1>2. Keeps(m, PutAt(m, t, i, v)) /\ Shape(m)
    BY <1>1 DEF Framed
  <1> DEFINE n == PutAt(m, t, i, v)
  <1> HIDE DEF n
  <1>3. Keeps(m, n) /\ Shape(n)
    BY <1>2 DEF n, Keeps
  <1>4. Keeps(n, PutAt(n, t, j, w))
    BY <1>1, <1>3
  <1>5. Keeps(m, PutAt(n, t, j, w))
    BY <1>2, <1>3, <1>4, KeepsTwice
  <1>6. Keeps(m, Set2(m, t, i, v, j, w))
    BY <1>5 DEF Set2, n
  <1> QED
    BY <1>6, KeepsFramed

LEMMA SortGoes ==
  ASSUME NEW m, NEW k, Framed(m)
  PROVE  /\ Plain(m, Pivot(m, k))
         /\ Plain(m, Partitioned(m, k))
  <1>1. ASSUME NEW t, NEW i, NEW v, NEW j, NEW w, NEW h
        PROVE  /\ Plain(m, ReadUp(Set2(m, t, i, v, j, w), h))
               /\ Plain(m, SortNext(Set2(m, t, i, v, j, w), h))
    <2> DEFINE n == Set2(m, t, i, v, j, w)
    <2>1. Keeps(m, n) /\ Framed(n)
      BY KeepsSet2
    <2> HIDE DEF n
    <2>2. Plain(n, ReadUp(n, h)) /\ Plain(n, SortNext(n, h))
      BY <2>1, SortStart
    <2>3. Plain(m, ReadUp(n, h)) /\ Plain(m, SortNext(n, h))
      BY <2>1, <2>2, PlainTwice
    <2> QED
      BY <2>3 DEF n
  <1>2. Plain(m, SortDone(m, k))
    BY SortStart
  <1>3. Plain(m, Pivot(m, k))
    BY <1>1, <1>2 DEF Pivot
  <1>4. Plain(m, Partitioned(m, k))
    BY <1>1 DEF Partitioned
  <1> QED
    BY <1>3, <1>4

LEMMA PlainSort ==
  ASSUME NEW m, Framed(m)
  PROVE  /\ \A k, less : Plain(m, SortBack(m, k, less))
         /\ \A args : Plain(m, LSort(m, args))
  <1>1. Answers(m)
    BY AnswersPlain
  <1>2. ASSUME NEW k, NEW t, NEW i, NEW v, NEW j, NEW w
        PROVE  /\ Plain(m, SortMiddle(Set2(m, t, i, v, j, w), k))
               /\ Plain(m, Pivot(Set2(m, t, i, v, j, w), k))
               /\ Plain(m, ReadUp(Set2(m, t, i, v, j, w), k))
    <2> DEFINE n == Set2(m, t, i, v, j, w)
    <2>1. Keeps(m, n) /\ Framed(n)
      BY KeepsSet2
    <2> HIDE DEF n
    <2>2. Plain(n, SortMiddle(n, k)) /\ Plain(n, Pivot(n, k)) /\ Plain(n, ReadUp(n, k))
      BY <2>1, SortStart, SortGoes
    <2>3. Plain(m, SortMiddle(n, k)) /\ Plain(m, Pivot(n, k)) /\ Plain(m, ReadUp(n, k))
      BY <2>1, <2>2, PlainTwice
    <2> QED
      BY <2>3 DEF n
  <1>3. ASSUME NEW k, NEW less
        PROVE  Plain(m, SortBack(m, k, less))
    <2>1. /\ Plain(m, SortMiddle(m, k)) /\ Plain(m, Pivot(m, k)) /\ Plain(m, SortHigh(m, k))
          /\ Plain(m, ReadUp(m, k)) /\ Plain(m, ReadDown(m, k)) /\ Plain(m, Partitioned(m, k))
      BY SortStart, SortGoes
    <2>2. \A s : Plain(m, LError(m, s))
      BY <1>1 DEF Answers
    <2>3. CASE k.at = "ends"
      BY <1>2, <2>1, <2>3 DEF SortBack
    <2>4. CASE k.at = "low"
      BY <1>2, <2>1, <2>4 DEF SortBack
    <2>5. CASE k.at = "high"
      BY <1>2, <2>1, <2>5 DEF SortBack
    <2>6. CASE k.at = "up"
      BY <2>1, <2>2, <2>6 DEF SortBack
    <2>7. CASE k.at \notin {"ends", "low", "high", "up"}
      BY <1>2, <2>1, <2>2, <2>7 DEF SortBack
    <2> QED
      BY <2>3, <2>4, <2>5, <2>6, <2>7
  <1>4. \A args : Plain(m, LSort(m, args))
    <2>1. \A k : Plain(m, SortNext(m, k))
      BY SortStart
    <2> QED
      BY <1>1, <2>1 DEF Answers, LSort
  <1> QED
    BY <1>3, <1>4

LEMMA TableCallPlain ==
  ASSUME NEW m, NEW name, NEW args, Framed(m)
  PROVE  Plain(m, TableCall(m, name, args))
  BY PlainTable, PlainSort DEF TableCall

(* What a C function answers: to go on plainly, or to switch threads, which *)
(* only functions that wait in a frame for it do.                           *)
Switches(m, f, c) ==
  \/ c.act = "resume" /\ c.m = m /\ f[2] \in {"resume", "auxwrap"}
  \/ c.act = "yield" /\ c.m = m

LEMMA CCallAnswers ==
  ASSUME NEW m, NEW f, NEW args, Framed(m)
  PROVE  Plain(m, CCall(m, f, args)) \/ Switches(m, f, CCall(m, f, args))
  <1>1. Answers(m)
    BY AnswersPlain
  <1>2. Plain(m, BaseCall(m, f, args)) \/ Switches(m, f, BaseCall(m, f, args))
    <2>0. ASSUME NEW v, NEW vals
          PROVE  /\ f[2] \in {"resume", "auxwrap"} => Switches(m, f, Answer("resume", m, v, vals, ""))
                 /\ Switches(m, f, Answer("yield", m, v, vals, ""))
      <3>1. ASSUME NEW c, c.act = "resume", c.m = m, f[2] \in {"resume", "auxwrap"}
            PROVE  Switches(m, f, c)
        BY <3>1 DEF Switches
      <3>2. ASSUME NEW c, c.act = "yield", c.m = m
            PROVE  Switches(m, f, c)
        BY <3>2 DEF Switches
      <3> DEFINE r == Answer("resume", m, v, vals, "")
                 y == Answer("yield", m, v, vals, "")
      <3>3. r.act = "resume" /\ r.m = m /\ y.act = "yield" /\ y.m = m
        BY DEF Answer
      <3> HIDE DEF r, y
      <3>4. /\ f[2] \in {"resume", "auxwrap"} => Switches(m, f, r)
            /\ Switches(m, f, y)
        BY <3>1, <3>2, <3>3
      <3> QED
        BY <3>4 DEF r, y
    <2>1. CASE f[2] = "resume"
      <3>1. BaseCall(m, f, args) = CoResume(m, args)
        BY <2>1 DEF BaseCall
      <3>2. Switches(m, f, Answer("resume", m, args[1], Tail(args), ""))
        BY <2>0, <2>1
      <3>3. Plain(m, CoResume(m, args)) \/ Switches(m, f, CoResume(m, args))
        BY <1>1, <3>2 DEF Answers, CoResume
      <3> QED
        BY <3>1, <3>3
    <2>2. CASE f[2] = "auxwrap"
      <3>1. BaseCall(m, f, args) = Answer("resume", m, <<"thread", f[3]>>, args, "")
        BY <2>2 DEF BaseCall
      <3>2. Switches(m, f, Answer("resume", m, <<"thread", f[3]>>, args, ""))
        BY <2>0, <2>2
      <3> QED
        BY <3>1, <3>2
    <2>3. Switches(m, f, Answer("yield", m, Nil, args, ""))
      BY <2>0
    <2>4. CASE f[2] \notin {"resume", "auxwrap"}
      BY <2>3, <2>4, PlainBase DEF BaseCall
    <2> QED
      BY <2>1, <2>2, <2>4
  <1>3. /\ Plain(m, TableCall(m, f[2], args)) /\ Plain(m, StringCall(m, f, args))
        /\ Plain(m, PackageCall(m, f[2], args))
    BY TableCallPlain, StringCallPlain, PlainRequire
  <1> QED
    BY <1>2, <1>3 DEF CCall

-----------------------------------------------------------------------------
(* Instructions that leave the function that runs on top.                    *)

(* A step of a Lua function: it goes on, or asks for something that leaves  *)
(* it on top.                                                               *)
Quiet(m)    == Framed(m) /\ m.todo.op = "none"
Idles(m, n) == Keeps(m, n) /\ n.todo = m.todo
LuaAsks(n)  ==
  \/ n.todo.op \in {"none", "concat", "gettable", "settable", "error", "throw"}
  \/ n.todo.op = "call" /\ n.todo.ret.k \in LuaKinds \ {"call"}
LuaStep(m, n) == Keeps(m, n) /\ LuaAsks(n)

LEMMA IdlesTwice ==
  ASSUME NEW m, NEW n, NEW p, Framed(m), Idles(m, n), Idles(n, p)
  PROVE  Idles(m, p)
  BY KeepsTwice DEF Idles, Framed

LEMMA IdlesQuiet ==
  ASSUME NEW m, NEW n, Quiet(m), Idles(m, n)
  PROVE  Quiet(n) /\ LuaStep(m, n)
  BY KeepsFramed DEF Idles, Quiet, LuaStep, LuaAsks

LEMMA StepTwice ==
  ASSUME NEW m, NEW n, NEW p, Framed(m), Keeps(m, n), LuaStep(n, p)
  PROVE  LuaStep(m, p)
  BY KeepsTwice DEF LuaStep, Framed

LEMMA IdlesTop ==
  ASSUME NEW m, NEW f, Framed(m), SameFrame(Top(m), f)
  PROVE  Idles(m, SetTop(m, f))
  <1>1. DOMAIN m = MachineFields
    BY DEF Framed, Shape
  <1>2. SetTop(m, f).todo = m.todo
    BY <1>1, SetTopIs DEF WithThread
  <1> QED
    BY <1>2, KeepsTop DEF Idles

LEMMA IdlesData ==
  ASSUME NEW m, NEW x, Framed(m)
  PROVE  Idles(m, [m EXCEPT !.tab = x]) /\ Idles(m, [m EXCEPT !.cl = x])
  <1>1. DOMAIN m = MachineFields /\ Shape(m)
    BY DEF Framed, Shape
  <1>2. [m EXCEPT !.tab = x].todo = m.todo /\ [m EXCEPT !.cl = x].todo = m.todo
    BY <1>1 DEF MachineFields
  <1> QED
    BY <1>1, <1>2, KeepsData DEF Idles

LEMMA IdlesSelf ==
  ASSUME NEW m, Framed(m)
  PROVE  Idles(m, m)
  BY KeepsSelf DEF Idles, Framed

(* What writes the frame on top or a table. *)
Writes(m) ==
  /\ \A r, vals : Idles(m, SetRegs(m, r, vals))
  /\ \A r, v : Idles(m, SetReg(m, r, v))
  /\ \A pc : Idles(m, Goto(m, pc))
  /\ Idles(m, SkipNext(m)) /\ Idles(m, TakeJump(m))
  /\ \A b : Idles(m, Branch(m, b))
  /\ \A x : Idles(m, SetTop(m, [Top(m) EXCEPT !.top = x]))
  /\ \A a, k, vals : Idles(m, SetResults(m, a, k, vals))
  /\ \A t, tab : Idles(m, SetTab(m, t, tab))
  /\ \A t, key, v : Idles(m, RawSet(m, t, key, v))
  /\ \A mt, event : Idles(m, Learn(m, mt, event))

LEMMA WritesStay ==
  ASSUME NEW m, Framed(m)
  PROVE  Writes(m)
  <1>1. DOMAIN Top(m) = FrameFields
    BY TopShape
  <1>2. \A r, vals : Idles(m, SetRegs(m, r, vals))
    BY <1>1, IdlesTop, FrameFieldsSet DEF SetRegs
  <1>3. \A r, v : Idles(m, SetReg(m, r, v))
    BY <1>2 DEF SetReg
  <1>4. \A pc : Idles(m, Goto(m, pc))
    BY <1>1, IdlesTop, FrameFieldsSet DEF Goto
  <1>5. Idles(m, SkipNext(m)) /\ Idles(m, TakeJump(m))
    BY <1>4 DEF SkipNext, TakeJump
  <1>6. \A b : Idles(m, Branch(m, b))
    BY <1>5 DEF Branch
  <1>7. \A x : Idles(m, SetTop(m, [Top(m) EXCEPT !.top = x]))
    BY <1>1, IdlesTop, FrameFieldsSet
  <1>8. \A a, k, vals : Idles(m, SetResults(m, a, k, vals))
    BY <1>1, IdlesTop, FrameFieldsSets DEF SetResults
  <1>9. \A t, tab : Idles(m, SetTab(m, t, tab))
    BY IdlesData DEF SetTab
  <1>10. \A t, key, v : Idles(m, RawSet(m, t, key, v))
    BY <1>9 DEF RawSet
  <1>11. \A mt, event : Idles(m, Learn(m, mt, event))
    BY IdlesData, IdlesSelf DEF Learn
  <1> QED
    BY <1>2, <1>3, <1>4, <1>5, <1>6, <1>7, <1>8, <1>9, <1>10, <1>11 DEF Writes

(* What a Lua function may ask for. *)
Asked(m, n) ==
  /\ \A v : LuaStep(m, Error(n, v))
  /\ \A s : LuaStep(m, RunError(n, s))
  /\ \A v : LuaStep(m, Throw(n, v))
  /\ \A v, what : LuaStep(m, TypeError(n, v, what))
  /\ \A v1, v2 : LuaStep(m, OrderError(n, v1, v2))
  /\ \A f, args, k, a, c : k \in LuaKinds \ {"call"} => LuaStep(m, Invoke(n, f, args, Ret(k, a, c)))
  /\ \A b, last : LuaStep(m, Concat(n, b, last))
  /\ \A t, key, a, loop : LuaStep(m, GetTable(n, t, key, a, loop))
  /\ \A t, key, v, loop : LuaStep(m, SetTable(n, t, key, v, loop))

LEMMA AskStep ==
  ASSUME NEW m, NEW n, Framed(m), Keeps(m, n)
  PROVE  Asked(m, n)
  <1>1. Shape(n) /\ Shape(m)
    BY DEF Keeps, Framed
  <1>2. ASSUME NEW op, NEW v, NEW vals, NEW ret
        PROVE  /\ Keeps(m, Ask(n, op, v, vals, ret))
               /\ Ask(n, op, v, vals, ret).todo.op = op /\ Ask(n, op, v, vals, ret).todo.ret = ret
    <2> DEFINE p == Ask(n, op, v, vals, ret)
    <2>1. Keeps(n, p) /\ p.todo = [op |-> op, v |-> v, vals |-> vals, ret |-> ret]
      BY <1>1, AskIs
    <2> HIDE DEF p
    <2>2. Keeps(m, p)
      BY <1>1, <2>1, KeepsTwice
    <2>3. p.todo.op = op /\ p.todo.ret = ret
      BY <2>1
    <2> QED
      BY <2>2, <2>3 DEF p
  <1>3. \A v : LuaStep(m, Error(n, v)) /\ LuaStep(m, Throw(n, v))
    BY <1>2 DEF Error, Throw, LuaStep, LuaAsks
  <1>4. \A s : LuaStep(m, RunError(n, s))
    BY <1>3 DEF RunError
  <1>5. /\ \A v, what : LuaStep(m, TypeError(n, v, what))
        /\ \A v1, v2 : LuaStep(m, OrderError(n, v1, v2))
    BY <1>3, <1>4 DEF TypeError, OrderError
  <1>6. ASSUME NEW f, NEW args, NEW k, NEW a, NEW c, k \in LuaKinds \ {"call"}
        PROVE  LuaStep(m, Invoke(n, f, args, Ret(k, a, c)))
    <2>1. Ret(k, a, c).k = k
      BY DEF Ret
    <2> QED
      BY <1>2, <1>6, <2>1 DEF Invoke, LuaStep, LuaAsks
  <1>7. \A b, last : LuaStep(m, Concat(n, b, last))
    BY <1>2 DEF Concat, LuaStep, LuaAsks
  <1>8. \A t, key, a, loop : LuaStep(m, GetTable(n, t, key, a, loop))
    BY <1>2 DEF GetTable, LuaStep, LuaAsks
  <1>9. \A t, key, v, loop : LuaStep(m, SetTable(n, t, key, v, loop))
    BY <1>2 DEF SetTable, LuaStep, LuaAsks
  <1> QED
    BY <1>3, <1>4, <1>5, <1>6, <1>7, <1>8, <1>9 DEF Asked

LEMMA IdlesIs ==
  ASSUME NEW m, NEW n, Quiet(m), Idles(m, n)
  PROVE  Quiet(n) /\ Framed(n) /\ Keeps(m, n) /\ Writes(n) /\ Asked(m, n) /\ Asked(n, n) /\ LuaStep(m, n)
  <1>1. Quiet(n) /\ LuaStep(m, n) /\ Framed(n) /\ Keeps(m, n) /\ Keeps(n, n)
    BY IdlesQuiet, KeepsSelf DEF Quiet, Idles, Framed
  <1> QED
    BY <1>1, WritesStay, AskStep DEF Quiet

LEMMA IndexStep ==
  ASSUME NEW m, NEW t, NEW key, NEW a, NEW loop, Quiet(m)
  PROVE  LuaStep(m, Index(m, t, key, a, loop))
  <1>1. Idles(m, m) /\ Writes(m)
    BY IdlesSelf, WritesStay DEF Quiet
  <1> DEFINE n == IF IsTable(t) /\ RawGet(m, t, key) = Nil THEN Learn(m, MetaOf(m, t), "__index") ELSE m
  <1>2. Idles(m, n)
    BY <1>1 DEF Writes
  <1>3. Asked(m, m) /\ Asked(m, n) /\ Writes(n) /\ Framed(n) /\ Framed(m)
    BY <1>1, <1>2, IdlesIs DEF Quiet
  <1>4. \A r, v : Idles(m, SetReg(n, r, v))
    BY <1>2, <1>3, IdlesTwice DEF Writes
  <1>5. \A r, v : LuaStep(m, SetReg(n, r, v))
    BY <1>4, IdlesQuiet
  <1>6. "set" \in LuaKinds \ {"call"}
    BY DEF LuaKinds
  <1> DEFINE tm == IF IsTable(t) THEN FastTM(m, MetaOf(m, t), "__index") ELSE Metamethod(m, t, "__index")
  <1>7. Index(m, t, key, a, loop) =
          IF loop = MaxTagLoop THEN RunError(m, "loop in gettable")
          ELSE IF IsTable(t) /\ (RawGet(m, t, key) # Nil \/ tm = Nil) THEN SetReg(n, a, RawGet(m, t, key))
          ELSE IF tm = Nil THEN TypeError(m, t, "index")
          ELSE IF TypeOf(tm) = "function" THEN Invoke(n, tm, <<t, key>>, Ret("set", a, 1))
          ELSE GetTable(n, tm, key, a, loop + 1)
    BY DEF Index
  <1> HIDE DEF n, tm
  <1> QED
    BY <1>3, <1>5, <1>6, <1>7 DEF Asked

LEMMA NewIndexStep ==
  ASSUME NEW m, NEW t, NEW key, NEW v, NEW loop, Quiet(m)
  PROVE  LuaStep(m, NewIndex(m, t, key, v, loop))
  <1> DEFINE raw  == RawGet(m, t, key)
             made == RawSet(m, t, key, raw)
             tm   == IF IsTable(t) THEN FastTM(made, MetaOf(m, t), "__newindex")
                     ELSE Metamethod(m, t, "__newindex")
             n    == IF ~IsTable(t) THEN m
                     ELSE IF raw = Nil THEN Learn(made, MetaOf(m, t), "__newindex") ELSE made
             put  == [Place(n.tab[t[2]], key, v) EXCEPT !.absent = {}]
  <1>1. Idles(m, m) /\ Writes(m)
    BY IdlesSelf, WritesStay DEF Quiet
  <1>2. Idles(m, made)
    BY <1>1 DEF Writes
  <1>3. Idles(m, n)
    <2> HIDE DEF raw, made
    <2>1. Writes(made)
      BY <1>2, IdlesIs
    <2>2. Idles(m, Learn(made, MetaOf(m, t), "__newindex"))
      BY <1>2, <2>1, IdlesTwice DEF Writes, Quiet
    <2> QED
      BY <1>1, <1>2, <2>2
  <1>4. NewIndex(m, t, key, v, loop) =
          IF loop = MaxTagLoop THEN RunError(m, "loop in settable")
          ELSE IF IsTable(t) /\ raw = Nil /\ key = Nil THEN RunError(m, "table index is nil")
          ELSE IF IsTable(t) /\ (raw # Nil \/ tm = Nil) THEN SetTab(n, t, put)
          ELSE IF tm = Nil THEN TypeError(m, t, "index")
          ELSE IF TypeOf(tm) = "function" THEN Invoke(n, tm, <<t, key, v>>, Ret("drop", 0, 0))
          ELSE SetTable(n, tm, key, v, loop + 1)
    BY DEF NewIndex
  <1> HIDE DEF n, put, tm, raw
  <1>5. Asked(m, m) /\ Asked(m, n) /\ Writes(n)
    BY <1>1, <1>3, IdlesIs
  <1>6. LuaStep(m, SetTab(n, t, put))
    BY <1>3, <1>5, IdlesTwice, IdlesQuiet DEF Writes, Quiet
  <1>7. "drop" \in LuaKinds \ {"call"}
    BY DEF LuaKinds
  <1> QED
    BY <1>4, <1>5, <1>6, <1>7 DEF Asked

LEMMA ArithStep ==
  ASSUME NEW m, NEW op, NEW a, NEW v1, NEW v2, Quiet(m)
  PROVE  LuaStep(m, Arith(m, op, a, v1, v2))
  <1>1. Idles(m, m) /\ Writes(m) /\ Asked(m, m)
    BY IdlesSelf, IdlesIs DEF Quiet
  <1>2. \A r, v : LuaStep(m, SetReg(m, r, v))
    BY <1>1, IdlesQuiet DEF Writes
  <1>3. "set" \in LuaKinds \ {"call"}
    BY DEF LuaKinds
  <1> QED
    BY <1>1, <1>2, <1>3 DEF Asked, Arith

LEMMA EqualStep ==
  ASSUME NEW m, NEW v1, NEW v2, Quiet(m)
  PROVE  LuaStep(m, EqualObj(m, v1, v2))
  <1> DEFINE n  == Learn(m, MetaOf(m, v1), "__eq")
             n2 == IF FastTM(m, MetaOf(m, v1), "__eq") = Nil THEN n ELSE Learn(n, MetaOf(m, v2), "__eq")
  <1>1. Idles(m, m) /\ Writes(m)
    BY IdlesSelf, WritesStay DEF Quiet
  <1>2. Idles(m, n)
    BY <1>1 DEF Writes
  <1> HIDE DEF n
  <1>3. Writes(n)
    BY <1>2, IdlesIs
  <1>4. Idles(m, n2)
    BY <1>2, <1>3, IdlesTwice DEF Writes, Quiet
  <1> HIDE DEF n2
  <1>5. Writes(n2) /\ Asked(m, n2)
    BY <1>4, IdlesIs
  <1>6. \A b : LuaStep(m, Branch(m, b)) /\ LuaStep(m, Branch(n2, b))
    BY <1>1, <1>4, <1>5, IdlesTwice, IdlesQuiet DEF Writes, Quiet
  <1>7. EqualObj(m, v1, v2) =
          IF v1 = v2 \/ ~(IsTable(v1) /\ IsTable(v2)) THEN Branch(m, (v1 = v2) = (Instr(m).a = 1))
          ELSE IF CompTM(m, v1, v2) = Nil THEN Branch(n2, Instr(m).a = 0)
          ELSE Invoke(n2, CompTM(m, v1, v2), <<v1, v2>>, Ret("test", 0, 1))
    BY DEF EqualObj, n, n2
  <1>8. "test" \in LuaKinds \ {"call"}
    BY DEF LuaKinds
  <1> QED
    BY <1>5, <1>6, <1>7, <1>8 DEF Asked

LEMMA LessStep ==
  ASSUME NEW m, NEW v1, NEW v2, NEW orEqual, Quiet(m)
  PROVE  LuaStep(m, LessThan(m, v1, v2, orEqual))
  <1>1. Idles(m, m) /\ Writes(m) /\ Asked(m, m)
    BY IdlesSelf, IdlesIs DEF Quiet
  <1>2. \A b : LuaStep(m, Branch(m, b))
    BY <1>1, IdlesQuiet DEF Writes
  <1>3. "test" \in LuaKinds \ {"call"} /\ "nottest" \in LuaKinds \ {"call"}
    BY DEF LuaKinds
  <1> QED
    BY <1>1, <1>2, <1>3 DEF Asked, LessThan

LEMMA ConcatenationStep ==
  ASSUME NEW m, NEW b, NEW last, Quiet(m)
  PROVE  LuaStep(m, ConcatStep(m, b, last))
  <1>1. Idles(m, m) /\ Writes(m) /\ Asked(m, m)
    BY IdlesSelf, IdlesIs DEF Quiet
  <1>2. \A r, v : LuaStep(m, SetReg(m, r, v)) /\ Asked(m, SetReg(m, r, v))
    BY <1>1, IdlesIs DEF Writes
  <1>3. "concat" \in LuaKinds \ {"call"}
    BY DEF LuaKinds
  <1> QED
    BY <1>1, <1>2, <1>3 DEF Asked, ConcatStep

-----------------------------------------------------------------------------
(* Those instructions, one after the other.                                  *)

(* The instructions that leave the frame of their function on top. *)
Steps ==
  \/ Move \/ LoadK \/ LoadBool \/ LoadNil \/ GetUpval \/ SetUpval
  \/ GetGlobal \/ SetGlobal \/ GetField \/ SetField \/ SelfIndex \/ CreateTable
  \/ Arithmetic \/ Negate \/ Not \/ Length \/ Concatenate
  \/ JumpTo \/ Compare \/ Test \/ TestSet
  \/ ForPrep \/ ForLoop \/ TForLoop
  \/ SetListItems \/ Close \/ Vararg

Stepped == \E n : Becomes(n) /\ LuaStep(M, n)

LEMMA QuietNow ==
  ASSUME Quiet(M)
  PROVE  /\ Idles(M, Now) /\ Quiet(Now) /\ Writes(Now) /\ Asked(M, Now)
         /\ \A n : LuaStep(Now, n) => LuaStep(M, n)
         /\ \A n : Idles(Now, n) => Idles(M, n) /\ LuaStep(M, n)
  <1>1. Framed(M) /\ Writes(M)
    BY WritesStay DEF Quiet
  <1>2. Idles(M, Now)
    BY <1>1 DEF Writes, Now
  <1>3. Quiet(Now) /\ Writes(Now) /\ Asked(M, Now) /\ Keeps(M, Now)
    BY <1>2, IdlesIs
  <1>4. \A n : LuaStep(Now, n) => LuaStep(M, n)
    BY <1>1, <1>3, StepTwice
  <1>5. \A n : Idles(Now, n) => Idles(M, n) /\ LuaStep(M, n)
    BY <1>1, <1>2, IdlesTwice, IdlesQuiet
  <1> QED
    BY <1>2, <1>3, <1>4, <1>5

LEMMA UpvalTodo ==
  ASSUME NEW m, NEW id, NEW v, Framed(m)
  PROVE  WriteUpval(m, id, v).todo = m.todo
  <1>1. DOMAIN m = MachineFields
    BY DEF Framed, Shape
  <1> QED
    BY <1>1 DEF WriteUpval, MachineFields

LEMMA WriteSteps ==
  ASSUME Quiet(M), Move \/ LoadK \/ LoadBool \/ LoadNil \/ GetUpval \/ SetUpval \/ Not \/ JumpTo \/ Test \/ TestSet
  PROVE  Stepped
  <1>1. /\ Writes(Now) /\ Quiet(Now)
        /\ \A n : Idles(Now, n) => Idles(M, n) /\ LuaStep(M, n)
    BY QuietNow
  <1>2. CASE Move
    BY <1>1, <1>2 DEF Move, Writes, Stepped
  <1>3. CASE LoadK
    BY <1>1, <1>3 DEF LoadK, Writes, Stepped
  <1>4. CASE LoadBool
    <2> DEFINE n == IF I.c # 0 THEN SkipNext(Now) ELSE Now
    <2>1. Idles(Now, n)
      BY <1>1, IdlesSelf DEF Writes, Quiet
    <2>2. Becomes(SetReg(n, I.a, Bool(I.b = 1)))
      BY <1>4 DEF LoadBool
    <2> HIDE DEF n
    <2>3. Idles(n, SetReg(n, I.a, Bool(I.b = 1)))
      BY <1>1, <2>1, IdlesIs DEF Writes
    <2>4. Idles(Now, SetReg(n, I.a, Bool(I.b = 1)))
      BY <1>1, <2>1, <2>3, IdlesTwice DEF Quiet
    <2> QED
      BY <1>1, <2>2, <2>4 DEF Stepped
  <1>5. CASE LoadNil
    BY <1>1, <1>5 DEF LoadNil, Writes, Stepped
  <1>6. CASE GetUpval
    BY <1>1, <1>6 DEF GetUpval, Writes, Stepped
  <1>7. CASE SetUpval
    <2> DEFINE n == WriteUpval(Now, closures[Fr.cl[2]].upvals[I.b + 1], R(I.a))
    <2>1. Becomes(n)
      BY <1>7 DEF SetUpval
    <2>2. Keeps(Now, n) /\ n.todo = Now.todo
      BY <1>1, KeepsUpval, UpvalTodo DEF Quiet
    <2> HIDE DEF n
    <2> QED
      BY <1>1, <2>1, <2>2 DEF Idles, Stepped
  <1>8. CASE Not
    BY <1>1, <1>8 DEF Not, Writes, Stepped
  <1>9. CASE JumpTo
    BY <1>1, <1>9 DEF JumpTo, Writes, Stepped
  <1>10. CASE Test
    BY <1>1, <1>10 DEF Test, Writes, Stepped
  <1>11. CASE TestSet
    <2> DEFINE taken == Falsy(R(I.b)) = (I.c = 0)
               n == IF taken THEN SetReg(Now, I.a, R(I.b)) ELSE Now
    <2>1. Idles(Now, n)
      BY <1>1, IdlesSelf DEF Writes, Quiet
    <2>2. Becomes(Branch(n, taken))
      BY <1>11 DEF TestSet
    <2> HIDE DEF n, taken
    <2>3. Idles(n, Branch(n, taken))
      BY <1>1, <2>1, IdlesIs DEF Writes
    <2>4. Idles(Now, Branch(n, taken))
      BY <1>1, <2>1, <2>3, IdlesTwice DEF Quiet
    <2> QED
      BY <1>1, <2>2, <2>4 DEF Stepped
  <1> QED
    BY <1>2, <1>3, <1>4, <1>5, <1>6, <1>7, <1>8, <1>9, <1>10, <1>11

LEMMA AskSteps ==
  ASSUME Quiet(M), GetGlobal \/ SetGlobal \/ GetField \/ SetField \/ SelfIndex \/ Concatenate \/ TForLoop \/ Length
  PROVE  Stepped
  <1>1. /\ Writes(Now) /\ Quiet(Now) /\ Asked(M, Now)
        /\ \A n : Idles(Now, n) => Idles(M, n) /\ LuaStep(M, n)
    BY QuietNow
  <1>2. CASE GetGlobal
    BY <1>1, <1>2 DEF GetGlobal, Asked, Stepped
  <1>3. CASE SetGlobal
    BY <1>1, <1>3 DEF SetGlobal, Asked, Stepped
  <1>4. CASE GetField
    BY <1>1, <1>4 DEF GetField, Asked, Stepped
  <1>5. CASE SetField
    BY <1>1, <1>5 DEF SetField, Asked, Stepped
  <1>6. CASE SelfIndex
    <2> DEFINE n == SetReg(Now, I.a + 1, R(I.b))
    <2>1. Idles(M, n)
      BY <1>1 DEF Writes
    <2>2. Becomes(GetTable(n, R(I.b), RKOf(I.c), I.a, 0))
      BY <1>6 DEF SelfIndex
    <2> HIDE DEF n
    <2>3. Asked(M, n)
      BY <2>1, IdlesIs
    <2> QED
      BY <2>2, <2>3 DEF Asked, Stepped
  <1>7. CASE Concatenate
    BY <1>1, <1>7 DEF Concatenate, Asked, Stepped
  <1>8. CASE TForLoop
    <2>1. "for" \in LuaKinds \ {"call"}
      BY DEF LuaKinds
    <2> QED
      BY <1>1, <1>8, <2>1 DEF TForLoop, Asked, Stepped
  <1>9. CASE Length
    BY <1>1, <1>9 DEF Length, Writes, Asked, Stepped
  <1> QED
    BY <1>2, <1>3, <1>4, <1>5, <1>6, <1>7, <1>8, <1>9

LEMMA ValueSteps ==
  ASSUME Quiet(M), Arithmetic \/ Negate \/ Compare
  PROVE  Stepped
  <1>1. Quiet(Now) /\ \A n : LuaStep(Now, n) => LuaStep(M, n)
    BY QuietNow
  <1>2. CASE Arithmetic
    BY <1>1, <1>2, ArithStep DEF Arithmetic, Stepped
  <1>3. CASE Negate
    BY <1>1, <1>3, ArithStep DEF Negate, Stepped
  <1>4. CASE Compare
    BY <1>1, <1>4, EqualStep, LessStep DEF Compare, Stepped
  <1> QED
    BY <1>2, <1>3, <1>4

LEMMA LoopSteps ==
  ASSUME Quiet(M), ForPrep \/ ForLoop
  PROVE  Stepped
  <1>1. /\ Writes(Now) /\ Quiet(Now) /\ Asked(M, Now)
        /\ \A n : Idles(Now, n) => Idles(M, n) /\ LuaStep(M, n)
    BY QuietNow
  <1>2. ASSUME NEW n, Idles(Now, n), NEW r, NEW vals, NEW v, NEW pc
        PROVE  /\ LuaStep(M, Goto(n, pc)) /\ Idles(Now, SetReg(n, r, v)) /\ Idles(Now, SetRegs(n, r, vals))
    <2>1. Writes(n)
      BY <1>1, <1>2, IdlesIs
    <2> QED
      BY <1>1, <1>2, <2>1, IdlesTwice DEF Writes, Quiet
  <1>3. Idles(Now, Now)
    BY <1>1, IdlesSelf DEF Quiet
  <1>4. CASE ForPrep
    BY <1>1, <1>2, <1>3, <1>4 DEF ForPrep, Asked, Stepped
  <1>5. CASE ForLoop
    <2>1. \A r1, v1, r2, v2, pc : LuaStep(M, Goto(SetReg(SetReg(Now, r1, v1), r2, v2), pc))
      BY <1>2, <1>3
    <2>2. LuaStep(M, Now)
      BY <1>1, <1>3
    <2> QED
      BY <2>1, <2>2, <1>5 DEF ForLoop, Stepped
  <1> QED
    BY <1>4, <1>5

LEMMA OtherSteps ==
  ASSUME Quiet(M), CreateTable \/ SetListItems \/ Close \/ Vararg
  PROVE  Stepped
  <1>1. /\ Writes(Now) /\ Quiet(Now)
        /\ \A n : Idles(Now, n) => Idles(M, n) /\ LuaStep(M, n)
    BY QuietNow
  <1>2. ASSUME NEW n, Idles(Now, n)
        PROVE  /\ \A r, v : LuaStep(M, SetReg(n, r, v))
               /\ \A t, tab : LuaStep(M, SetTab(n, t, tab))
               /\ \A x : LuaStep(M, SetTop(n, [Top(n) EXCEPT !.top = x]))
    <2>1. Writes(n)
      BY <1>1, <1>2, IdlesIs
    <2> QED
      BY <1>1, <1>2, <2>1, IdlesTwice DEF Writes, Quiet
  <1>3. CASE CreateTable
    <2>1. \A x : Idles(Now, [Now EXCEPT !.tab = x])
      BY <1>1, IdlesData DEF Quiet
    <2>2. Idles(Now, [Now EXCEPT !.tab = Append(@, NewTable(Fb2int(I.b), Fb2int(I.c)))])
      BY <2>1
    <2> QED
      BY <1>2, <1>3, <2>2 DEF CreateTable, Stepped
  <1>4. CASE SetListItems
    <2>1. Idles(Now, SetTop(Now, [Top(Now) EXCEPT !.top = -1]))
      BY <1>1 DEF Writes
    <2> QED
      BY <1>2, <1>4, <2>1 DEF SetListItems, Stepped
  <1>5. CASE Close
    <2> DEFINE n == CloseRegs(Now, I.a)
    <2>1. Becomes(n)
      BY <1>5 DEF Close
    <2>2. Closed(Now, n, {}) /\ Shape(Now)
      BY <1>1, CloseRegsIs DEF Quiet, Framed
    <2> HIDE DEF n
    <2>3. Keeps(Now, n)
      BY <2>2, KeepsClosed
    <2>4. Idles(Now, n)
      BY <2>2, <2>3 DEF Idles, Closed
    <2> QED
      BY <1>1, <2>1, <2>4 DEF Stepped
  <1>6. CASE Vararg
    <2> DEFINE vals == IF I.b = 0 THEN Fr.va ELSE Adjust(Fr.va, I.b - 1)
               n == SetRegs(Now, I.a, vals)
    <2>1. Idles(Now, n)
      BY <1>1 DEF Writes
    <2>2. Becomes(IF I.b = 0 THEN SetTop(n, [Top(n) EXCEPT !.top = I.a + Len(vals)]) ELSE n)
      BY <1>6 DEF Vararg
    <2> HIDE DEF n
    <2> QED
      BY <1>1, <1>2, <2>1, <2>2 DEF Stepped
  <1> QED
    BY <1>3, <1>4, <1>5, <1>6

LEMMA StepsStep ==
  ASSUME Quiet(M), Steps
  PROVE  Stepped
  BY WriteSteps, AskSteps, ValueSteps, LoopSteps, OtherSteps DEF Steps

-----------------------------------------------------------------------------
(* The invariant.                                                            *)

(* The first frame of the main thread answers the host, that of another its resumer. *)
FirstKind(i) == IF i = 1 THEN "host" ELSE "resume"
(* A thread that has yielded: in a C function, with no call that nests.      *)
Parked(t) ==
  /\ t.frames # <<>> /\ IsC(Last(t.frames).cl)
  /\ \A j \in 1 .. Len(t.frames) : t.frames[j].nC = 0 /\ ~Nested(t.frames[j].ret)
ThreadSound(t, i) ==
  /\ DOMAIN t = ThreadFields /\ t.nC \in Int /\ t.baseC \in Nat
  /\ t.frames # <<>> /\ i # 1 => t.baseC # 0
  /\ t.stack # <<>> => IsLua(t.stack[1])
  /\ FramesSound(t.frames, t.baseC, FirstKind(i))
  /\ t.status \in {"ok", "yield", "error"}
  /\ t.status = "yield" => Parked(t)

(* The nesting of a thread is that of its frames, or at least that; a thread that *)
(* waits is in the function that resumed another, and the one on top runs a Lua or *)
(* a C function.                                                             *)
Level(t) == AtLevel(t.nC, t.baseC, t.frames)
Waits(t) ==
  /\ t.status = "ok" /\ t.frames # <<>> /\ Level(t)
  /\ IsC(Last(t.frames).cl) /\ Last(t.frames).cl[2] \in {"resume", "auxwrap"}
Ran(t)     == t.frames # <<>> /\ Level(t)
LuaOn(t)   == Ran(t) /\ IsLua(Last(t.frames).cl) /\ Last(t.frames).nC = 0
COn(t)     == Ran(t) /\ IsC(Last(t.frames).cl)
AtLeast(t) == t.nC >= t.baseC + NestedIn(t.frames)

(* Every thread is sound, and every open upvalue is in a frame of a Lua function, *)
(* once.                                                                     *)
ThreadsSound(m) == List(m.th) /\ \A i \in 1 .. Len(m.th) : ThreadSound(m.th[i], i)
UpvalSound(m, u) ==
  /\ u.th \in 1 .. Len(m.th) /\ u.fr \in 1 .. Len(m.th[u.th].frames)
  /\ IsLua(m.th[u.th].frames[u.fr].cl)
UpvalsSound(m) ==
  /\ List(m.uv)
  /\ \A i \in 1 .. Len(m.uv) : IsOpenUpval(m.uv[i]) =>
        UpvalSound(m, m.uv[i]) /\ \A j \in 1 .. Len(m.uv) : m.uv[i] = m.uv[j] => i = j
Stored(m) == DOMAIN m = MachineFields /\ List(m.run) /\ ThreadsSound(m) /\ UpvalsSound(m)

(* The first n threads of those that run are running, and all but the last of m.run wait. *)
Running(m, n) ==
  /\ n \in Nat /\ n # 0 /\ n <= Len(m.run) /\ m.run[1] = 1
  /\ \A i \in 1 .. n : m.run[i] \in 1 .. Len(m.th) /\ m.th[m.run[i]].status = "ok"
  /\ \A i, j \in 1 .. n : m.run[i] = m.run[j] => i = j
  /\ \A i \in 1 .. Len(m.run) - 1 : Waits(m.th[m.run[i]])
  /\ \A i \in 1 .. Len(m.th) :
        m.th[i].status = "ok" /\ m.th[i].frames # <<>> => \E j \in 1 .. n : m.run[j] = i
Live(m) == m.ans = <<>> /\ Stored(m) /\ Running(m, Len(m.run))

(* What is to be done fits the frames: who asks for a call waits for its results, *)
(* a C function that is called is on top, and a frame that returns has no open *)
(* upvalue left.                                                             *)
NoOpen(m) == \A i \in 1 .. Len(m.uv) : ~(IsOpenUpval(m.uv[i]) /\ m.uv[i].th = Cur(m) /\ m.uv[i].fr = Depth(m))
CallSound(m) ==
  LET t == CurTh(m) k == m.todo.ret.k IN
  \/ k \in LuaKinds \ {"call"} /\ LuaOn(t)
  \/ k \in CKinds /\ COn(t)
  \/ k = "handler" /\ t.frames # <<>> /\ AtLeast(t)
  \/ k = "host" /\ t.frames = <<>> /\ Cur(m) = 1 /\ Level(t)
TodoSound(m) ==
  LET t == CurTh(m) op == m.todo.op IN
  \/ op \in {"none", "concat", "gettable", "settable"} /\ LuaOn(t)
  \/ op = "call" /\ CallSound(m)
  \/ op = "c" /\ COn(t) /\ Last(t.frames).cl = m.todo.v /\ Last(t.frames).nC = 0
  \/ op = "again" /\ COn(t)
  \/ op = "return" /\ Ran(t) /\ NoOpen(m)
  \/ op \in {"error", "throw"} /\ AtLeast(t)
(* The machine goes on, or a thread is left, or there is an answer.          *)
Going(m)   == Live(m) /\ TodoSound(m)
Leaving(m) == m.ans = <<>> /\ m.todo.op = "resumer" /\ Stored(m) /\ Running(m, Len(m.run) - 1)
Ended(m)   == m.ans # <<>> /\ Stored(m)
Sound(m)   == Going(m) \/ Leaving(m) \/ Ended(m)

LEMMA NoneNestedIn ==
  ASSUME NEW fs, List(fs)
  PROVE  /\ NestedIn(fs) = 0 <=> \A j \in 1 .. Len(fs) : ~Nested(fs[j].ret)
         /\ NestedIn(fs) \in Nat
  <1>1. DOMAIN fs = 1 .. Len(fs) /\ Len(fs) \in Nat
    BY ListFacts
  <1> DEFINE S == {i \in DOMAIN fs : Nested(fs[i].ret)}
  <1>2. S \subseteq 1 .. Len(fs) /\ IsFiniteSet(1 .. Len(fs))
    BY <1>1, FS_Interval
  <1>3. IsFiniteSet(S)
    BY <1>2, FS_Subset
  <1>4. S = {} <=> \A j \in 1 .. Len(fs) : ~Nested(fs[j].ret)
    BY <1>1
  <1> HIDE DEF S
  <1>5. Cardinality(S) = 0 <=> S = {}
    BY <1>3, FS_EmptySet
  <1> QED
    BY <1>4, <1>5, NestedNumber DEF NestedIn, S

LEMMA LeastNat ==
  ASSUME NEW t, NEW i, ThreadSound(t, i), AtLeast(t) \/ Level(t)
  PROVE  t.nC \in Nat
  <1>1. NestedIn(t.frames) \in Nat /\ t.nC \in Int /\ t.baseC \in Nat
    BY NestedNumber DEF ThreadSound, FramesSound
  <1> QED
    BY <1>1 DEF AtLeast, Level, AtLevel

LEMMA SameThreadSound ==
  ASSUME NEW t, NEW u, NEW i, ThreadSound(t, i), SameThread(t, u)
  PROVE  /\ ThreadSound(u, i) /\ u.status = t.status /\ (u.frames = <<>> <=> t.frames = <<>>)
         /\ Level(t) => Level(u)
         /\ AtLeast(t) => AtLeast(u)
         /\ Waits(t) => Waits(u)
         /\ LuaOn(t) => LuaOn(u)
         /\ COn(t) => COn(u)
         /\ t.frames # <<>> => SameFrame(Last(t.frames), Last(u.frames))
  <1> DEFINE fs == t.frames
             gs == u.frames
  <1>1. FramesSound(fs, t.baseC, FirstKind(i)) /\ SameFrames(fs, gs)
    BY DEF ThreadSound, SameThread
  <1>2. /\ FramesSound(gs, t.baseC, FirstKind(i)) /\ SameRets(fs, gs)
    BY <1>1, SameFramesSound
  <1>3. /\ NestedIn(gs) = NestedIn(fs)
        /\ \A n, b : AtLevel(n, b, gs) <=> AtLevel(n, b, fs)
    BY <1>2, SameRetsLevel
  <1>4. List(fs) /\ List(gs) /\ Len(gs) = Len(fs) /\ (fs = <<>> <=> gs = <<>>)
    BY <1>1, ListFacts DEF SameFrames, FramesSound
  <1>5. ASSUME fs # <<>>
        PROVE  SameFrame(Last(fs), Last(gs))
    <2>1. Len(fs) \in 1 .. Len(fs)
      BY <1>4, <1>5, ListFacts
    <2> QED
      BY <1>1, <1>4, <2>1 DEF SameFrames, Last
  <1>6. /\ Level(t) <=> Level(u)
        /\ AtLeast(t) <=> AtLeast(u)
    BY <1>3 DEF Level, AtLeast, SameThread
  <1>7. Parked(t) => Parked(u)
    <2> SUFFICES ASSUME Parked(t) PROVE Parked(u)
      OBVIOUS
    <2>1. \A j \in 1 .. Len(gs) : SameFrame(fs[j], gs[j])
      BY <1>1, <1>4 DEF SameFrames
    <2> QED
      BY <1>4, <1>5, <2>1 DEF Parked, SameFrame
  <1>8. u.status = t.status /\ DOMAIN u = DOMAIN t /\ u.nC = t.nC /\ u.baseC = t.baseC /\ u.stack = t.stack
    BY DEF SameThread
  <1>9. ThreadSound(u, i)
    BY <1>2, <1>4, <1>7, <1>8 DEF ThreadSound
  <1>10. /\ Waits(t) => Waits(u)
         /\ LuaOn(t) => LuaOn(u)
         /\ COn(t) => COn(u)
    BY <1>4, <1>5, <1>6, <1>8 DEF Waits, LuaOn, COn, Ran, SameFrame
  <1> QED
    BY <1>4, <1>5, <1>6, <1>8, <1>9, <1>10

LEMMA NoFrames ==
  ASSUME NEW b, NEW k
  PROVE  FramesSound(<<>>, b, k) /\ List(<<>>) /\ Len(<<>>) = 0
  <1>1. List(<<>>) /\ Len(<<>>) = 0
    BY EmptySeq DEF List
  <1> QED
    BY <1>1 DEF FramesSound

LEMMA NewThreadSound ==
  ASSUME NEW t, NEW i, NewThread(t)
  PROVE  ThreadSound(t, i)
  BY NoFrames DEF NewThread, ThreadSound

LEMMA SoundShape ==
  ASSUME NEW m, Stored(m)
  PROVE  Shape(m)
  BY DEF Stored, ThreadsSound, UpvalsSound, ThreadSound, FramesSound, FrameSound, Shape, ThreadShape

LEMMA LiveFacts ==
  ASSUME NEW m, Live(m)
  PROVE  /\ Cur(m) \in 1 .. Len(m.th) /\ CurTh(m) = m.th[Cur(m)] /\ ThreadSound(CurTh(m), Cur(m))
         /\ CurTh(m).status = "ok" /\ Shape(m) /\ DOMAIN m = MachineFields
         /\ CurTh(m).frames # <<>> => Framed(m)
         /\ Len(m.run) \in Nat /\ Len(m.run) # 0 /\ Cur(m) = m.run[Len(m.run)]
         /\ Len(m.run) = 1 => Cur(m) = 1
         /\ \A i \in 1 .. Len(m.run) - 1 : m.run[i] # Cur(m)
  <1>1. Len(m.run) \in Nat /\ Len(m.run) # 0 /\ Len(m.run) \in 1 .. Len(m.run)
    BY ListFacts DEF Live, Stored, Running
  <1>2. Cur(m) = m.run[Len(m.run)]
    BY DEF Cur, Last
  <1>3. Cur(m) \in 1 .. Len(m.th) /\ CurTh(m).status = "ok" /\ CurTh(m) = m.th[Cur(m)]
    BY <1>1, <1>2 DEF Live, Running, CurTh
  <1>4. Shape(m) /\ DOMAIN m = MachineFields
    BY SoundShape DEF Live, Stored
  <1>5. \A i \in 1 .. Len(m.run) - 1 : m.run[i] # Cur(m)
    <2> TAKE i \in 1 .. Len(m.run) - 1
    <2>1. i \in 1 .. Len(m.run) /\ i # Len(m.run)
      BY <1>1
    <2> QED
      BY <1>1, <1>2, <2>1 DEF Live, Running
  <1> QED
    BY <1>1, <1>2, <1>3, <1>4, <1>5 DEF Live, Stored, ThreadsSound, Framed, Running

(* What keeps a machine keeps it sound. *)
LEMMA KeepsStored ==
  ASSUME NEW m, NEW n, Stored(m), Keeps(m, n)
  PROVE  Stored(n)
  <1>1. Len(m.th) \in Nat /\ Len(n.th) \in Nat /\ Len(n.th) >= Len(m.th) /\ Shape(n)
    BY ListFacts DEF Stored, ThreadsSound, Keeps, Shape, ThreadsKept
  <1>2. ASSUME NEW i \in 1 .. Len(n.th)
        PROVE  ThreadSound(n.th[i], i)
    <2>1. CASE i \in 1 .. Len(m.th)
      <3>1. SameThread(m.th[i], n.th[i]) /\ ThreadSound(m.th[i], i)
        BY <2>1 DEF Stored, ThreadsSound, Keeps, ThreadsKept
      <3> QED
        BY <3>1, SameThreadSound
    <2>2. CASE i \notin 1 .. Len(m.th)
      <3>1. i > Len(m.th)
        BY <1>1, <2>2
      <3>2. NewThread(n.th[i])
        BY <3>1 DEF Keeps, ThreadsKept
      <3> QED
        BY <3>2, NewThreadSound
    <2> QED
      BY <2>1, <2>2
  <1>3. ASSUME NEW u, UpvalSound(m, u)
        PROVE  UpvalSound(n, u)
    <2>1. u.th \in 1 .. Len(m.th) /\ u.th \in 1 .. Len(n.th)
      BY <1>1, <1>3 DEF UpvalSound
    <2>2. SameFrames(m.th[u.th].frames, n.th[u.th].frames)
      BY <2>1 DEF Keeps, ThreadsKept, SameThread
    <2> QED
      BY <1>3, <2>1, <2>2 DEF UpvalSound, SameFrames, SameFrame
  <1>4. UpvalsSound(n)
    BY <1>1, <1>3 DEF Stored, UpvalsSound, Keeps, UpvalsKept, Shape
  <1> QED
    BY <1>1, <1>2, <1>4 DEF Stored, ThreadsSound, Keeps, Shape

LEMMA KeepsRunning ==
  ASSUME NEW m, NEW n, NEW k, Stored(m), Running(m, k), Len(m.run) - 1 <= k, Keeps(m, n)
  PROVE  Running(n, k)
  <1>1. /\ Len(m.th) \in Nat /\ Len(n.th) \in Nat /\ Len(n.th) >= Len(m.th) /\ n.run = m.run
        /\ k \in Nat /\ Len(m.run) \in Nat
    BY ListFacts DEF Stored, ThreadsSound, Keeps, Shape, ThreadsKept, Running
  <1>2. ASSUME NEW i \in 1 .. Len(m.th)
        PROVE  /\ n.th[i].status = m.th[i].status /\ (n.th[i].frames = <<>> <=> m.th[i].frames = <<>>)
               /\ Waits(m.th[i]) => Waits(n.th[i])
    <2>1. SameThread(m.th[i], n.th[i]) /\ ThreadSound(m.th[i], i)
      BY DEF Stored, ThreadsSound, Keeps, ThreadsKept
    <2> QED
      BY <2>1, SameThreadSound
  <1>3. \A i \in 1 .. k : m.run[i] \in 1 .. Len(m.th) /\ m.run[i] \in 1 .. Len(n.th)
    BY <1>1 DEF Running
  <1>4. \A i \in 1 .. Len(m.run) - 1 : i \in 1 .. k
    BY <1>1
  <1>5. ASSUME NEW i \in 1 .. Len(n.th), n.th[i].status = "ok", n.th[i].frames # <<>>
        PROVE  \E j \in 1 .. k : n.run[j] = i
    <2>1. i \in 1 .. Len(m.th)
      <3>1. i > Len(m.th) => NewThread(n.th[i])
        BY DEF Keeps, ThreadsKept
      <3> QED
        BY <1>1, <1>5, <3>1 DEF NewThread
    <2>2. m.th[i].status = "ok" /\ m.th[i].frames # <<>>
      BY <1>2, <1>5, <2>1
    <2>3. \E j \in 1 .. k : m.run[j] = i
      BY <2>1, <2>2 DEF Running
    <2> QED
      BY <1>1, <2>3
  <1>6. \A i \in 1 .. k : n.run[i] \in 1 .. Len(n.th) /\ n.th[n.run[i]].status = "ok"
    <2> TAKE i \in 1 .. k
    <2>1. m.run[i] \in 1 .. Len(m.th) /\ m.th[m.run[i]].status = "ok" /\ m.run[i] \in 1 .. Len(n.th)
      BY <1>3 DEF Running
    <2> QED
      BY <1>1, <1>2, <2>1
  <1>7. \A i \in 1 .. Len(n.run) - 1 : Waits(n.th[n.run[i]])
    <2> SUFFICES ASSUME NEW i \in 1 .. Len(m.run) - 1
                 PROVE  Waits(n.th[m.run[i]])
      BY <1>1
    <2>1. m.run[i] \in 1 .. Len(m.th) /\ Waits(m.th[m.run[i]])
      BY <1>3, <1>4 DEF Running
    <2> QED
      BY <1>2, <2>1
  <1>8. /\ k # 0 /\ k <= Len(n.run) /\ n.run[1] = 1
        /\ \A i, j \in 1 .. k : n.run[i] = n.run[j] => i = j
    BY <1>1 DEF Running
  <1> QED
    BY <1>1, <1>5, <1>6, <1>7, <1>8 DEF Running

LEMMA KeepsLive ==
  ASSUME NEW m, NEW n, Live(m), Keeps(m, n)
  PROVE  /\ Live(n) /\ Cur(n) = Cur(m) /\ SameThread(CurTh(m), CurTh(n)) /\ ThreadSound(CurTh(m), Cur(m))
  <1>1. Stored(m) /\ Running(m, Len(m.run)) /\ Len(m.run) - 1 <= Len(m.run)
    BY LiveFacts DEF Live
  <1>2. Stored(n)
    BY <1>1, KeepsStored
  <1>3. Running(n, Len(m.run))
    BY <1>1, KeepsRunning
  <1>4. Cur(n) = Cur(m) /\ n.run = m.run /\ n.ans = m.ans
    BY DEF Keeps, Cur
  <1>5. Cur(m) \in 1 .. Len(m.th) /\ ThreadSound(CurTh(m), Cur(m))
    BY LiveFacts
  <1>6. SameThread(CurTh(m), CurTh(n))
    BY <1>4, <1>5 DEF Keeps, ThreadsKept, CurTh
  <1> QED
    BY <1>2, <1>3, <1>4, <1>5, <1>6 DEF Live

-----------------------------------------------------------------------------
(* Dead coroutines, and the steps that keep a machine.                       *)

(* A coroutine that has ended, or that an error has. *)
Over(t) == t.status # "yield" /\ (t.status = "error" \/ (t.frames = <<>> /\ t.stack = <<>>))
Calm(m, n) ==
  /\ Len(n.th) >= Len(m.th)
  /\ \A i \in 1 .. Len(m.th) : i # Cur(m) /\ Over(m.th[i]) => Stage(n.th[i]) = Stage(m.th[i])

LEMMA KeepsCalm ==
  ASSUME NEW m, NEW n, Stored(m), Keeps(m, n)
  PROVE  Calm(m, n)
  <1> SUFFICES ASSUME NEW i \in 1 .. Len(m.th), i # Cur(m)
               PROVE  Stage(n.th[i]) = Stage(m.th[i])
    BY DEF Calm, Keeps, ThreadsKept
  <1> DEFINE fs == m.th[i].frames
             gs == n.th[i].frames
  <1>1. SameThread(m.th[i], n.th[i]) /\ SamePlace(m.th[i], n.th[i])
    BY DEF Keeps, ThreadsKept
  <1>2. List(fs) /\ List(gs) /\ Len(gs) = Len(fs)
    BY <1>1 DEF Stored, ThreadsSound, ThreadSound, FramesSound, SameThread, SameFrames
  <1>3. DOMAIN fs = 1 .. Len(fs) /\ DOMAIN gs = 1 .. Len(fs)
    BY <1>2, ListFacts
  <1>4. \A j \in 1 .. Len(fs) : gs[j].cl = fs[j].cl /\ gs[j].pc = fs[j].pc
    BY <1>1 DEF SameThread, SameFrames, SameFrame, SamePlace
  <1>5. m.th[i].status = n.th[i].status /\ m.th[i].stack = n.th[i].stack
    BY <1>1 DEF SameThread
  <1> DEFINE F(hs) == [j \in DOMAIN hs |-> <<hs[j].cl, hs[j].pc>>]
  <1>6. F(gs) = F(fs)
    <2> HIDE DEF fs, gs
    <2> QED
      BY <1>3, <1>4
  <1> HIDE DEF F
  <1>7. Stage(n.th[i]) = <<n.th[i].status, n.th[i].stack, F(gs)>> /\ Stage(m.th[i]) = <<m.th[i].status, m.th[i].stack, F(fs)>>
    BY DEF Stage, F
  <1> QED
    BY <1>5, <1>6, <1>7

LEMMA CalmChain ==
  ASSUME NEW l, NEW m, NEW n, Shape(l), Shape(m), Calm(l, m), Calm(m, n), Cur(m) = Cur(l)
  PROVE  Calm(l, n)
  <1>1. Len(m.th) \in Nat /\ Len(l.th) \in Nat /\ Len(m.th) >= Len(l.th) /\ Len(n.th) >= Len(m.th)
    BY ListFacts DEF Shape, Calm
  <1>2. ASSUME NEW i \in 1 .. Len(l.th), i # Cur(l), Over(l.th[i])
        PROVE  Stage(n.th[i]) = Stage(l.th[i])
    <2> DEFINE t == l.th[i]
               u == m.th[i]
               F(fs) == [j \in DOMAIN fs |-> <<fs[j].cl, fs[j].pc>>]
    <2>1. i \in 1 .. Len(m.th)
      BY <1>1
    <2>2. Stage(u) = Stage(t)
      BY <1>2 DEF Calm
    <2>3. List(t.frames) /\ List(u.frames)
      BY <2>1 DEF Shape, ThreadShape
    <2>4. Stage(t) = <<t.status, t.stack, F(t.frames)>> /\ Stage(u) = <<u.status, u.stack, F(u.frames)>>
      BY DEF Stage
    <2>5. DOMAIN F(t.frames) = DOMAIN t.frames /\ DOMAIN F(u.frames) = DOMAIN u.frames
      OBVIOUS
    <2> HIDE DEF F, t, u
    <2>6. u.status = t.status /\ u.stack = t.stack /\ DOMAIN u.frames = DOMAIN t.frames
      BY <2>2, <2>4, <2>5
    <2>7. u.frames = <<>> <=> t.frames = <<>>
      BY <2>3, <2>6, ListFacts
    <2>8. Over(u)
      BY <1>2, <2>6, <2>7 DEF Over, t
    <2> QED
      BY <1>2, <2>1, <2>2, <2>8 DEF Calm, t, u
  <1>3. Len(n.th) >= Len(l.th)
    <2>1. Len(n.th) >= Len(m.th) /\ Len(m.th) >= Len(l.th)
      BY <1>1
    <2> QED
      BY <1>1
  <1> QED
    BY <1>2, <1>3 DEF Calm

LEMMA OnLeast ==
  ASSUME NEW t, NEW i, ThreadSound(t, i), Level(t)
  PROVE  AtLeast(t)
  BY DEF Level, AtLevel, AtLeast

LEMMA NoOpenC ==
  ASSUME NEW m, Stored(m), IsC(Top(m).cl)
  PROVE  NoOpen(m)
  <1> SUFFICES ASSUME NEW i \in 1 .. Len(m.uv), IsOpenUpval(m.uv[i]), m.uv[i].th = Cur(m), m.uv[i].fr = Depth(m)
               PROVE  FALSE
    BY DEF NoOpen
  <1>1. UpvalSound(m, m.uv[i])
    BY DEF Stored, UpvalsSound
  <1>2. IsLua(Top(m).cl)
    BY <1>1 DEF UpvalSound, Top, CurTh, Depth, Last
  <1> QED
    BY <1>2 DEF IsLua, IsC

(* A step of the Lua function on top of a machine at its level. *)
LEMMA LuaStepSound ==
  ASSUME NEW m, NEW n, Live(m), LuaOn(CurTh(m)), LuaStep(m, n)
  PROVE  Going(n) /\ Calm(m, n)
  <1>1. Keeps(m, n) /\ LuaAsks(n)
    BY DEF LuaStep
  <1>2. /\ Live(n) /\ SameThread(CurTh(m), CurTh(n)) /\ ThreadSound(CurTh(m), Cur(m))
        /\ Stored(m)
    BY <1>1, KeepsLive DEF Live
  <1>3. ThreadSound(CurTh(n), Cur(m)) /\ LuaOn(CurTh(n))
    BY <1>2, SameThreadSound
  <1>4. AtLeast(CurTh(n))
    BY <1>3, OnLeast DEF LuaOn, Ran
  <1>5. TodoSound(n)
    BY <1>1, <1>3, <1>4 DEF LuaAsks, TodoSound, CallSound
  <1> QED
    BY <1>1, <1>2, <1>5, KeepsCalm DEF Going

(* What a C function on top asks for. *)
LEMMA CAsks ==
  ASSUME NEW m, NEW n, Live(m), COn(CurTh(m)), Keeps(m, n)
  PROVE  /\ \A vals : Going(Return(n, vals)) /\ Calm(m, Return(n, vals))
         /\ \A v : Going(Error(n, v)) /\ Calm(m, Error(n, v))
         /\ Going(Ask(n, "again", Nil, <<>>, NoRet)) /\ Calm(m, Ask(n, "again", Nil, <<>>, NoRet))
  <1>0. Stored(m) /\ Shape(m) /\ Shape(n)
    BY SoundShape DEF Live, Keeps
  <1>1. ASSUME NEW op, NEW v, NEW vals, NEW ret
        PROVE  LET p == Ask(n, op, v, vals, ret)
               IN  /\ Live(p) /\ Calm(m, p) /\ p.todo.op = op
                   /\ COn(CurTh(p)) /\ AtLeast(CurTh(p)) /\ NoOpen(p)
    <2> DEFINE p == Ask(n, op, v, vals, ret)
    <2>1. Keeps(n, p) /\ p.todo = [op |-> op, v |-> v, vals |-> vals, ret |-> ret]
      BY <1>0, AskIs
    <2> HIDE DEF p
    <2>2. Keeps(m, p)
      BY <1>0, <2>1, KeepsTwice
    <2>3. Live(p) /\ SameThread(CurTh(m), CurTh(p)) /\ ThreadSound(CurTh(m), Cur(m))
      BY <2>2, KeepsLive
    <2>4. ThreadSound(CurTh(p), Cur(m)) /\ COn(CurTh(p))
      BY <2>3, SameThreadSound
    <2>5. AtLeast(CurTh(p))
      BY <2>4, OnLeast DEF COn, Ran
    <2>6. NoOpen(p)
      BY <2>3, <2>4, NoOpenC DEF Live, COn, Top
    <2>7. Calm(m, p)
      BY <1>0, <2>2, KeepsCalm
    <2>8. p.todo.op = op
      BY <2>1
    <2> QED
      BY <2>3, <2>4, <2>5, <2>6, <2>7, <2>8 DEF p
  <1>2. ASSUME NEW vals
        PROVE  Going(Return(n, vals)) /\ Calm(m, Return(n, vals))
    BY <1>1 DEF Return, Going, TodoSound, COn
  <1>3. ASSUME NEW v
        PROVE  Going(Error(n, v)) /\ Calm(m, Error(n, v))
    BY <1>1 DEF Error, Going, TodoSound
  <1>4. Going(Ask(n, "again", Nil, <<>>, NoRet)) /\ Calm(m, Ask(n, "again", Nil, <<>>, NoRet))
    BY <1>1 DEF Going, TodoSound
  <1> QED
    BY <1>2, <1>3, <1>4

-----------------------------------------------------------------------------
(* Changing the thread that runs.                                            *)

(* The same machine, but for what is to be done. *)
SameBut(m, n) ==
  DOMAIN n = MachineFields /\ n.th = m.th /\ n.run = m.run /\ n.uv = m.uv /\ n.ans = m.ans

LEMMA SameButSound ==
  ASSUME NEW m, NEW n, SameBut(m, n)
  PROVE  /\ Stored(m) => Stored(n)
         /\ \A k : Running(m, k) => Running(n, k)
         /\ Live(m) => Live(n)
         /\ NoOpen(m) => NoOpen(n)
         /\ Cur(n) = Cur(m) /\ CurTh(n) = CurTh(m)
         /\ \A l : Calm(l, m) => Calm(l, n)
         /\ \A l : Calm(n, l) => Calm(m, l)
  <1>1. Cur(n) = Cur(m) /\ CurTh(n) = CurTh(m) /\ Depth(n) = Depth(m)
    BY DEF SameBut, Cur, CurTh, Depth
  <1>2. Stored(m) => Stored(n)
    BY DEF SameBut, Stored, ThreadsSound, UpvalsSound, UpvalSound
  <1>3. \A k : Running(m, k) => Running(n, k)
    BY DEF SameBut, Running
  <1>4. NoOpen(m) => NoOpen(n)
    BY <1>1 DEF SameBut, NoOpen
  <1>5. Live(m) => Live(n)
    BY <1>2, <1>3 DEF SameBut, Live
  <1> QED
    BY <1>1, <1>2, <1>3, <1>4, <1>5 DEF Calm, SameBut

LEMMA AskSame ==
  ASSUME NEW m, NEW op, NEW v, NEW vals, NEW ret, DOMAIN m = MachineFields
  PROVE  LET n == Ask(m, op, v, vals, ret)
         IN  /\ SameBut(m, n) /\ n.todo.op = op /\ n.todo.v = v /\ n.todo.ret = ret
  BY DEF Ask, SameBut, MachineFields

(* Machine n is m with u for the thread that runs, and without the upvalues *)
(* that are closed.                                                         *)
Changed(m, n, u) ==
  /\ DOMAIN n = MachineFields /\ n.run = m.run /\ n.ans = m.ans
  /\ n.th = [m.th EXCEPT ![Cur(m)] = u]
  /\ List(n.uv) /\ Len(n.uv) = Len(m.uv)
  /\ \A i \in 1 .. Len(m.uv) : IsOpenUpval(n.uv[i]) =>
        /\ n.uv[i] = m.uv[i]
        /\ n.uv[i].th = Cur(m) =>
              n.uv[i].fr \in 1 .. Len(u.frames) /\ IsLua(u.frames[n.uv[i].fr].cl)

LEMMA ChangedSound ==
  ASSUME NEW m, NEW n, NEW u, Live(m), Changed(m, n, u), ThreadSound(u, Cur(m))
  PROVE  /\ Stored(n) /\ Cur(n) = Cur(m) /\ CurTh(n) = u /\ Calm(m, n)
         /\ Len(n.th) = Len(m.th)
         /\ \A i \in 1 .. Len(m.th) : n.th[i] = IF i = Cur(m) THEN u ELSE m.th[i]
  <1>1. /\ List(n.th) /\ Len(n.th) = Len(m.th)
        /\ \A i \in 1 .. Len(m.th) : n.th[i] = IF i = Cur(m) THEN u ELSE m.th[i]
    <2>1. List(m.th)
      BY DEF Live, Stored, ThreadsSound
    <2>2. Updated(m.th, Cur(m), u, n.th)
      BY <2>1, ListExcept DEF Changed
    <2> QED
      BY <2>2 DEF Updated
  <1>2. Cur(m) \in 1 .. Len(m.th)
    BY LiveFacts
  <1>3. Cur(n) = Cur(m) /\ CurTh(n) = u
    BY <1>1, <1>2 DEF Changed, Cur, CurTh
  <1>4. ThreadsSound(n)
    BY <1>1 DEF Live, Stored, ThreadsSound
  <1>5. ASSUME NEW i \in 1 .. Len(m.uv), IsOpenUpval(n.uv[i])
        PROVE  /\ UpvalSound(n, n.uv[i])
               /\ \A j \in 1 .. Len(m.uv) : n.uv[i] = n.uv[j] => i = j
    <2>1. n.uv[i] = m.uv[i] /\ IsOpenUpval(m.uv[i])
      BY <1>5 DEF Changed
    <2>2. UpvalSound(m, m.uv[i]) /\ \A j \in 1 .. Len(m.uv) : m.uv[i] = m.uv[j] => i = j
      BY <2>1 DEF Live, Stored, UpvalsSound
    <2>3. UpvalSound(n, n.uv[i])
      <3>1. CASE n.uv[i].th = Cur(m)
        BY <1>1, <1>2, <1>5, <3>1 DEF Changed, UpvalSound
      <3>2. CASE n.uv[i].th # Cur(m)
        BY <1>1, <2>1, <2>2, <3>2 DEF UpvalSound
      <3> QED
        BY <3>1, <3>2
    <2>4. ASSUME NEW j \in 1 .. Len(m.uv), n.uv[i] = n.uv[j]
          PROVE  i = j
      <3>1. n.uv[j] = m.uv[j]
        BY <1>5, <2>4 DEF Changed
      <3> QED
        BY <2>1, <2>2, <2>4, <3>1
    <2> QED
      BY <2>3, <2>4
  <1>6. UpvalsSound(n)
    BY <1>5 DEF UpvalsSound, Changed
  <1>7. Stored(n)
    BY <1>4, <1>6 DEF Stored, Changed, Live
  <1>8. Calm(m, n)
    BY <1>1 DEF Calm
  <1> QED
    BY <1>1, <1>3, <1>7, <1>8

LEMMA ChangedLive ==
  ASSUME NEW m, NEW n, NEW u, Live(m), Changed(m, n, u), ThreadSound(u, Cur(m))
  PROVE  /\ u.status = "ok" => Live(n)
         /\ u.status # "ok" \/ u.frames = <<>> => (Len(m.run) # 1 => Running(n, Len(n.run) - 1))
  <1>1. /\ Stored(n) /\ Len(n.th) = Len(m.th)
        /\ \A i \in 1 .. Len(m.th) : n.th[i] = IF i = Cur(m) THEN u ELSE m.th[i]
        /\ n.run = m.run /\ n.ans = m.ans
    <2>1. n.run = m.run /\ n.ans = m.ans
      BY DEF Changed
    <2>2. /\ Stored(n) /\ Len(n.th) = Len(m.th)
          /\ \A i \in 1 .. Len(m.th) : n.th[i] = IF i = Cur(m) THEN u ELSE m.th[i]
      BY ChangedSound
    <2> QED
      BY <2>1, <2>2
  <1> DEFINE l == Len(m.run)
  <1>2. /\ l \in Nat /\ l # 0 /\ Cur(m) = m.run[l] /\ Cur(m) \in 1 .. Len(m.th)
        /\ \A i \in 1 .. l - 1 : m.run[i] # Cur(m)
    BY LiveFacts
  <1>3. /\ m.run[1] = 1
        /\ \A i \in 1 .. l : m.run[i] \in 1 .. Len(m.th) /\ m.th[m.run[i]].status = "ok"
        /\ \A i, j \in 1 .. l : m.run[i] = m.run[j] => i = j
        /\ \A i \in 1 .. l - 1 : Waits(m.th[m.run[i]])
        /\ \A i \in 1 .. Len(m.th) :
              m.th[i].status = "ok" /\ m.th[i].frames # <<>> => \E j \in 1 .. l : m.run[j] = i
    BY DEF Live, Running
  <1> HIDE DEF l
  <1>4. \A i \in 1 .. l : i = l \/ i \in 1 .. l - 1
    BY <1>2
  <1>5. \A i \in 1 .. l - 1 : i \in 1 .. l
    BY <1>2
  <1>6. \A i \in 1 .. l - 1 : n.th[m.run[i]] = m.th[m.run[i]]
    BY <1>1, <1>2, <1>3, <1>5
  <1>7. \A i \in 1 .. l - 1 : Waits(n.th[m.run[i]])
    BY <1>3, <1>6
  <1>8. ASSUME u.status = "ok"
        PROVE  Live(n)
    <2>1. \A i \in 1 .. l : m.run[i] \in 1 .. Len(n.th) /\ n.th[m.run[i]].status = "ok"
      BY <1>1, <1>3, <1>8
    <2>2. ASSUME NEW i \in 1 .. Len(n.th), n.th[i].status = "ok", n.th[i].frames # <<>>
          PROVE  \E j \in 1 .. l : m.run[j] = i
      <3>1. CASE i = Cur(m)
        BY <1>2, <3>1
      <3>2. CASE i # Cur(m)
        BY <1>1, <1>3, <2>2, <3>2
      <3> QED
        BY <3>1, <3>2
    <2>3. Running(n, l)
      BY <1>1, <1>2, <1>3, <1>7, <2>1, <2>2 DEF Running, l
    <2> QED
      BY <1>1, <2>3 DEF Live, l
  <1>9. ASSUME u.status # "ok" \/ u.frames = <<>>, l # 1
        PROVE  Running(n, l - 1)
    <2>1. l - 1 \in Nat /\ l - 1 # 0 /\ l - 1 <= l
      BY <1>2, <1>9
    <2>2. \A i \in 1 .. l - 1 : m.run[i] \in 1 .. Len(n.th) /\ n.th[m.run[i]].status = "ok"
      BY <1>1, <1>3, <1>5, <1>6
    <2>3. ASSUME NEW i \in 1 .. Len(n.th), n.th[i].status = "ok", n.th[i].frames # <<>>
          PROVE  \E j \in 1 .. l - 1 : m.run[j] = i
      <3>1. i # Cur(m)
        BY <1>1, <1>9, <2>3
      <3>2. PICK j \in 1 .. l : m.run[j] = i
        BY <1>1, <1>3, <2>3, <3>1
      <3>3. j # l
        BY <1>2, <3>1, <3>2
      <3> QED
        BY <1>4, <3>2, <3>3
    <2>4. \A i, j \in 1 .. l - 1 : m.run[i] = m.run[j] => i = j
      BY <1>3, <1>5
    <2> QED
      BY <1>1, <1>3, <1>7, <2>1, <2>2, <2>3, <2>4 DEF Running, l
  <1> QED
    BY <1>1, <1>8, <1>9 DEF l

-----------------------------------------------------------------------------
(* Entering a function.                                                      *)

Nests(k) == IF k \in {"call", "resume"} THEN 0 ELSE 1
(* A frame whose results are for k may be pushed on thread t, the i-th. *)
Fits(t, i, k) ==
  /\ IF t.frames = <<>> THEN k = FirstKind(i) /\ (i # 1 => t.baseC # 0) ELSE OnTop(k, Last(t.frames))
  /\ t.nC >= t.baseC + NestedIn(t.frames) + Nests(k)
  /\ HandlerIn(t.frames) \/ k = "handler" \/ t.nC = t.baseC + NestedIn(t.frames) + Nests(k)

LEMMA SameFits ==
  ASSUME NEW t, NEW u, NEW i, NEW k, ThreadSound(t, i), SameThread(t, u), Fits(t, i, k)
  PROVE  Fits(u, i, k)
  <1>1. /\ u.frames = <<>> <=> t.frames = <<>>
        /\ t.frames # <<>> => SameFrame(Last(t.frames), Last(u.frames))
    BY SameThreadSound
  <1>2. FramesSound(t.frames, t.baseC, FirstKind(i)) /\ SameFrames(t.frames, u.frames)
        /\ u.nC = t.nC /\ u.baseC = t.baseC
    BY DEF ThreadSound, SameThread
  <1>3. SameRets(t.frames, u.frames)
    BY <1>2, SameFramesSound
  <1>4. NestedIn(u.frames) = NestedIn(t.frames) /\ (HandlerIn(u.frames) <=> HandlerIn(t.frames))
    BY <1>3, SameRetsLevel
  <1>5. t.frames # <<>> /\ OnTop(k, Last(t.frames)) => OnTop(k, Last(u.frames))
    BY <1>1 DEF OnTop, SameFrame
  <1> QED
    BY <1>1, <1>2, <1>4, <1>5 DEF Fits

LEMMA FitsLeast ==
  ASSUME NEW t, NEW i, NEW k, ThreadSound(t, i), Fits(t, i, k)
  PROVE  AtLeast(t)
  <1>1. NestedIn(t.frames) \in Nat /\ t.nC \in Int /\ t.baseC \in Nat
    BY NestedNumber DEF ThreadSound, FramesSound
  <1>2. Nests(k) \in Nat
    BY DEF Nests
  <1> QED
    BY <1>1, <1>2 DEF Fits, AtLeast

LEMMA FitsPush ==
  ASSUME NEW t, NEW i, NEW f, ThreadSound(t, i), t.status = "ok", Fits(t, i, f.ret.k),
         DOMAIN f = FrameFields, f.nC = 0
  PROVE  LET u == [t EXCEPT !.frames = Append(t.frames, f)]
         IN  /\ ThreadSound(u, i) /\ Ran(u) /\ u.status = "ok" /\ u.frames = Append(t.frames, f)
             /\ Last(u.frames) = f /\ u.nC = t.nC /\ u.baseC = t.baseC
  <1> DEFINE u == [t EXCEPT !.frames = Append(t.frames, f)]
             gs == Append(t.frames, f)
  <1>1. /\ DOMAIN u = ThreadFields /\ u.frames = gs /\ u.status = "ok" /\ u.stack = t.stack
        /\ u.nC = t.nC /\ u.baseC = t.baseC
    BY DEF ThreadSound, ThreadFields
  <1>2. FramesSound(t.frames, t.baseC, FirstKind(i)) /\ List(t.frames) /\ t.nC \in Int /\ t.baseC \in Nat
    BY DEF ThreadSound, FramesSound
  <1>3. FramesSound(gs, t.baseC, FirstKind(i))
    BY <1>2, PushFrame DEF Fits
  <1>4. gs # <<>> /\ Last(gs) = f
    BY <1>2, ListAppend, FrontAppend
  <1>5. /\ NestedIn(gs) = NestedIn(t.frames) + (IF Nested(f.ret) THEN 1 ELSE 0)
        /\ HandlerIn(gs) <=> HandlerIn(t.frames) \/ f.ret.k = "handler"
    BY <1>2, PushNested
  <1>6. Nests(f.ret.k) = IF Nested(f.ret) THEN 1 ELSE 0
    BY DEF Nests, Nested
  <1>7. NestedIn(t.frames) \in Nat /\ Nests(f.ret.k) \in Nat
    BY <1>2, NestedNumber DEF Nests
  <1>8. AtLevel(t.nC, t.baseC, gs)
    BY <1>2, <1>5, <1>6, <1>7 DEF Fits, AtLevel
  <1>9. i # 1 => t.baseC # 0
    BY DEF ThreadSound, Fits
  <1> HIDE DEF u, gs
  <1>10. ThreadSound(u, i)
    BY <1>1, <1>2, <1>3, <1>9 DEF ThreadSound
  <1>11. Ran(u)
    BY <1>1, <1>4, <1>8 DEF Ran, Level
  <1> QED
    BY <1>1, <1>4, <1>10, <1>11 DEF u, gs

LEMMA PushLive ==
  ASSUME NEW m, NEW f, Live(m), Fits(CurTh(m), Cur(m), f.ret.k),
         DOMAIN f = FrameFields, f.nC = 0
  PROVE  LET n == Push(m, f)
         IN  /\ Live(n) /\ Ran(CurTh(n)) /\ Last(CurTh(n).frames) = f /\ Calm(m, n)
             /\ n.todo = m.todo /\ n.uv = m.uv /\ Cur(n) = Cur(m)
             /\ CurTh(n).frames = Append(CurTh(m).frames, f)
             /\ CurTh(n).nC = CurTh(m).nC /\ CurTh(n).baseC = CurTh(m).baseC
  <1> DEFINE t == CurTh(m)
             u == [t EXCEPT !.frames = Append(t.frames, f)]
             n == Push(m, f)
  <1>1. ThreadSound(t, Cur(m)) /\ t.status = "ok" /\ Shape(m) /\ DOMAIN m = MachineFields
    BY LiveFacts
  <1>2. /\ ThreadSound(u, Cur(m)) /\ Ran(u) /\ u.status = "ok" /\ u.frames = Append(t.frames, f)
        /\ Last(u.frames) = f /\ u.nC = t.nC /\ u.baseC = t.baseC
    BY <1>1, FitsPush
  <1>3. WithThread(m, n, Cur(m), u)
    BY <1>1, PushIs
  <1> HIDE DEF u, n
  <1>4. /\ List(t.frames) /\ Len(t.frames) \in Nat /\ Len(u.frames) = Len(t.frames) + 1
        /\ \A j \in 1 .. Len(t.frames) : u.frames[j] = t.frames[j]
    BY <1>1, <1>2, ListAppend, ListFacts DEF ThreadSound, FramesSound
  <1>5. ASSUME NEW i \in 1 .. Len(m.uv), IsOpenUpval(m.uv[i]), m.uv[i].th = Cur(m)
        PROVE  m.uv[i].fr \in 1 .. Len(u.frames) /\ IsLua(u.frames[m.uv[i].fr].cl)
    <2>1. UpvalSound(m, m.uv[i])
      BY <1>5 DEF Live, Stored, UpvalsSound
    <2>2. m.uv[i].fr \in 1 .. Len(t.frames) /\ IsLua(t.frames[m.uv[i].fr].cl)
      BY <1>5, <2>1 DEF UpvalSound, CurTh
    <2> QED
      BY <1>4, <2>2
  <1>6. Changed(m, n, u)
    BY <1>1, <1>3, <1>5 DEF WithThread, Changed, Shape
  <1>7. Live(n)
    BY <1>2, <1>6, ChangedLive
  <1>8. CurTh(n) = u /\ Calm(m, n) /\ Cur(n) = Cur(m)
    BY <1>2, <1>6, ChangedSound
  <1>9. n.todo = m.todo /\ n.uv = m.uv
    BY <1>3 DEF WithThread
  <1> QED
    BY <1>2, <1>7, <1>8, <1>9 DEF n

(* A function is entered: the frames under it are those there were. *)
Entered(m, n) ==
  /\ LuaOn(CurTh(n)) /\ n.uv = m.uv /\ Cur(n) = Cur(m)
  /\ CurTh(n).nC = CurTh(m).nC /\ CurTh(n).baseC = CurTh(m).baseC
  /\ \E fs, f : /\ CurTh(n).frames = Append(fs, f) /\ SameFrames(CurTh(m).frames, fs)
                /\ DOMAIN f = FrameFields /\ f.nC = 0 /\ IsLua(f.cl)

LEMMA FrameIs ==
  ASSUME NEW f, NEW regs, NEW va, NEW ret
  PROVE  LET fr == Frame(f, regs, va, ret)
         IN  DOMAIN fr = FrameFields /\ fr.cl = f /\ fr.nC = 0 /\ fr.ret = ret
  BY DEF Frame, FrameFields

LEMMA CalmTwice ==
  ASSUME NEW l, NEW m, NEW n, Shape(l), Calm(l, m), Calm(m, n), Keeps(l, m), Cur(m) = Cur(l)
  PROVE  Calm(l, n)
  BY CalmChain DEF Keeps

LEMMA LuaFrameSound ==
  ASSUME NEW l, NEW m, NEW p, NEW f, NEW args, NEW ret, Live(l), Keeps(l, m), m.todo.op = "none", m.uv = l.uv,
         Fits(CurTh(l), Cur(l), ret.k), IsLua(f)
  PROVE  LET n == LuaFrame(m, p, f, args, ret)
         IN  Going(n) /\ Calm(l, n) /\ Entered(l, n)
  <1>0. Shape(m)
    BY DEF Keeps
  <1>1. PICK g, regs, va : /\ LuaFrame(m, p, f, args, ret) = Push(g, Frame(f, regs, va, ret))
                           /\ Keeps(m, g) /\ g.todo = m.todo /\ g.uv = m.uv
    <2>1. Keeps(m, m) /\ \A x : Keeps(m, [m EXCEPT !.tab = x])
      BY <1>0, KeepsSelf, KeepsData
    <2>2. \A x : [m EXCEPT !.tab = x].todo = m.todo /\ [m EXCEPT !.tab = x].uv = m.uv
      BY <1>0 DEF Shape, MachineFields
    <2>3. \E y, regs, va : \E g \in {m, [m EXCEPT !.tab = y]} :
             LuaFrame(m, p, f, args, ret) = Push(g, Frame(f, regs, va, ret))
      BY DEF LuaFrame
    <2>4. PICK y, regs, va : \E g \in {m, [m EXCEPT !.tab = y]} :
             LuaFrame(m, p, f, args, ret) = Push(g, Frame(f, regs, va, ret))
      BY <2>3
    <2>5. PICK g \in {m, [m EXCEPT !.tab = y]} : LuaFrame(m, p, f, args, ret) = Push(g, Frame(f, regs, va, ret))
      BY <2>4
    <2>6. Keeps(m, g) /\ g.todo = m.todo /\ g.uv = m.uv
      BY <2>1, <2>2, <2>5
    <2> QED
      BY <2>5, <2>6
  <1> DEFINE fr == Frame(f, regs, va, ret)
             n  == Push(g, fr)
  <1>2. DOMAIN fr = FrameFields /\ fr.cl = f /\ fr.nC = 0 /\ fr.ret = ret
    BY FrameIs
  <1> HIDE DEF fr
  <1>3. Keeps(l, g) /\ Shape(l)
    BY <1>1, KeepsTwice, LiveFacts
  <1>4. Live(g) /\ Cur(g) = Cur(l) /\ SameThread(CurTh(l), CurTh(g)) /\ ThreadSound(CurTh(l), Cur(l))
    BY <1>3, KeepsLive
  <1>5. Fits(CurTh(g), Cur(g), fr.ret.k)
    BY <1>2, <1>4, SameFits
  <1>6. /\ Live(n) /\ Ran(CurTh(n)) /\ Last(CurTh(n).frames) = fr /\ Calm(g, n)
        /\ n.todo = g.todo /\ n.uv = g.uv /\ Cur(n) = Cur(g)
        /\ CurTh(n).frames = Append(CurTh(g).frames, fr)
        /\ CurTh(n).nC = CurTh(g).nC /\ CurTh(n).baseC = CurTh(g).baseC
    BY <1>2, <1>4, <1>5, PushLive
  <1> HIDE DEF n
  <1>7. LuaOn(CurTh(n))
    BY <1>2, <1>6 DEF LuaOn
  <1>8. Going(n)
    BY <1>1, <1>6, <1>7 DEF Going, TodoSound
  <1>9. Calm(l, n)
    <2>1. Calm(l, g)
      BY <1>3, KeepsCalm DEF Live
    <2> QED
      BY <1>3, <1>4, <1>6, <2>1, CalmTwice
  <1>10. Entered(l, n)
    <2>1. SameFrames(CurTh(l).frames, CurTh(g).frames) /\ CurTh(g).nC = CurTh(l).nC /\ CurTh(g).baseC = CurTh(l).baseC
      BY <1>4 DEF SameThread
    <2> QED
      BY <1>1, <1>2, <1>4, <1>6, <1>7, <2>1 DEF Entered
  <1> QED
    BY <1>1, <1>8, <1>9, <1>10 DEF n, fr

-----------------------------------------------------------------------------
(* Calls.                                                                    *)

LEMMA FailSound ==
  ASSUME NEW m, NEW n, Live(m), Keeps(m, n), AtLeast(CurTh(m))
  PROVE  /\ \A v : Going(Error(n, v)) /\ Calm(m, Error(n, v)) /\ Error(n, v).todo.op # "none"
         /\ \A v : Going(Throw(n, v)) /\ Calm(m, Throw(n, v)) /\ Throw(n, v).todo.op # "none"
         /\ \A s : Going(RunError(n, s)) /\ Calm(m, RunError(n, s)) /\ RunError(n, s).todo.op # "none"
  <1>0. Stored(m) /\ Shape(m) /\ Shape(n)
    BY SoundShape DEF Live, Keeps
  <1>1. ASSUME NEW v, NEW op \in {"error", "throw"}
        PROVE  LET p == Ask(n, op, v, <<>>, NoRet)
               IN  Going(p) /\ Calm(m, p) /\ p.todo.op # "none"
    <2> DEFINE p == Ask(n, op, v, <<>>, NoRet)
    <2>1. Keeps(n, p) /\ p.todo = [op |-> op, v |-> v, vals |-> <<>>, ret |-> NoRet]
      BY <1>0, AskIs
    <2> HIDE DEF p
    <2>2. Keeps(m, p)
      BY <1>0, <2>1, KeepsTwice
    <2>3. Live(p) /\ SameThread(CurTh(m), CurTh(p)) /\ ThreadSound(CurTh(m), Cur(m))
      BY <2>2, KeepsLive
    <2>4. AtLeast(CurTh(p))
      BY <2>3, SameThreadSound
    <2>5. Calm(m, p)
      BY <1>0, <2>2, KeepsCalm
    <2>6. p.todo.op = op
      BY <2>1
    <2> QED
      BY <2>3, <2>4, <2>5, <2>6 DEF p, Going, TodoSound
  <1>2. \A v : Going(Error(n, v)) /\ Calm(m, Error(n, v)) /\ Error(n, v).todo.op # "none"
    BY <1>1 DEF Error
  <1>3. \A v : Going(Throw(n, v)) /\ Calm(m, Throw(n, v)) /\ Throw(n, v).todo.op # "none"
    BY <1>1 DEF Throw
  <1> QED
    BY <1>2, <1>3 DEF RunError

LEMMA GrowKeeps ==
  ASSUME NEW m, Live(m)
  PROVE  Keeps(m, GrowCI(m)) /\ GrowCI(m).todo = m.todo /\ GrowCI(m).uv = m.uv
  <1>1. Shape(m) /\ DOMAIN m = MachineFields /\ ThreadSound(CurTh(m), Cur(m)) /\ CurTh(m) = m.th[Cur(m)]
    BY LiveFacts
  <1>2. CASE GrowCI(m) = m
    BY <1>1, <1>2, KeepsSelf
  <1>3. CASE GrowCI(m) # m
    <2> DEFINE t == CurTh(m)
               u == [t EXCEPT !.size = 2 * t.size]
    <2>1. WithThread(m, GrowCI(m), Cur(m), u)
      BY <1>1, <1>3 DEF GrowCI, WithThread, MachineFields, CurTh
    <2>2. ThreadShape(t) /\ DOMAIN t = ThreadFields
      BY <1>1 DEF ThreadShape, ThreadSound, FramesSound, FrameSound
    <2>3. SameThread(t, u) /\ SamePlace(t, u)
      BY <2>2, ThreadFieldsSet, SameThreadIf
    <2> HIDE DEF u
    <2>4. Keeps(m, GrowCI(m))
      BY <1>1, <2>1, <2>3, KeepsWithThread
    <2> QED
      BY <2>1, <2>4 DEF WithThread
  <1> QED
    BY <1>2, <1>3

(* What a call comes to: a function entered, or an error. *)
Called(m, n) == Going(n) /\ Calm(m, n) /\ (n.todo.op = "none" => Entered(m, n))

LEMMA EnterSound ==
  ASSUME NEW m, NEW f, NEW args, NEW ret, Live(m), m.todo.op = "none",
         Fits(CurTh(m), Cur(m), ret.k), TypeOf(f) = "function"
  PROVE  Called(m, Enter(m, GrowCI(m), f, args, ret))
  <1> DEFINE g == GrowCI(m)
             n == Enter(m, g, f, args, ret)
  <1>1. Keeps(m, g) /\ g.todo = m.todo /\ g.uv = m.uv
    BY GrowKeeps
  <1> HIDE DEF g
  <1>2. ThreadSound(CurTh(m), Cur(m)) /\ Shape(m)
    BY LiveFacts
  <1>3. AtLeast(CurTh(m))
    BY <1>2, FitsLeast
  <1>4. \A v, s : Called(m, Throw(m, v)) /\ Called(m, RunError(g, s))
    <2>1. Keeps(m, m)
      BY <1>2, KeepsSelf
    <2> QED
      BY <1>1, <1>3, <2>1, FailSound DEF Called
  <1>5. ASSUME IsLua(f)
        PROVE  Called(m, LuaFrame(g, ProtoOfClosure(m, f), f, args, ret))
    BY <1>1, <1>5, LuaFrameSound DEF Called
  <1>6. ASSUME ~IsLua(f)
        PROVE  Called(m, Ask(Push(g, Frame(f, <<>>, <<>>, ret)), "c", f, args, ret))
    <2> DEFINE fr == Frame(f, <<>>, <<>>, ret)
               p  == Push(g, fr)
               q  == Ask(p, "c", f, args, ret)
    <2>1. DOMAIN fr = FrameFields /\ fr.cl = f /\ fr.nC = 0 /\ fr.ret = ret
      BY FrameIs
    <2> HIDE DEF fr
    <2>2. Live(g) /\ Cur(g) = Cur(m) /\ SameThread(CurTh(m), CurTh(g))
      BY <1>1, KeepsLive
    <2>3. Fits(CurTh(g), Cur(g), fr.ret.k)
      BY <1>2, <2>1, <2>2, SameFits
    <2>4. Live(p) /\ Ran(CurTh(p)) /\ Last(CurTh(p).frames) = fr /\ Calm(g, p)
      BY <2>1, <2>2, <2>3, PushLive
    <2> HIDE DEF p
    <2>5. DOMAIN p = MachineFields
      BY <2>4, LiveFacts
    <2>6. SameBut(p, q) /\ q.todo.op = "c" /\ q.todo.v = f
      BY <2>5, AskSame
    <2> HIDE DEF q
    <2>7. Live(q) /\ CurTh(q) = CurTh(p) /\ Calm(g, q)
      BY <2>4, <2>6, SameButSound
    <2>8. IsC(f)
      BY <1>6 DEF TypeOf, IsLua, IsC
    <2>9. COn(CurTh(q)) /\ Last(CurTh(q).frames).cl = q.todo.v /\ Last(CurTh(q).frames).nC = 0
      BY <2>1, <2>4, <2>6, <2>7, <2>8 DEF COn
    <2>10. Going(q)
      BY <2>6, <2>7, <2>9 DEF Going, TodoSound
    <2>11. Calm(m, g)
      BY <1>1, KeepsCalm DEF Live
    <2>12. Calm(m, q)
      BY <1>1, <1>2, <2>2, <2>7, <2>11, CalmTwice
    <2>13. Called(m, q)
      BY <2>6, <2>10, <2>12 DEF Called
    <2> QED
      BY <2>13 DEF q, p, fr
  <1> QED
    BY <1>4, <1>5, <1>6 DEF Enter, g

LEMMA PrecallSound ==
  ASSUME NEW m, NEW f, NEW args, NEW ret, Live(m), m.todo.op = "none",
         Fits(CurTh(m), Cur(m), ret.k)
  PROVE  Called(m, Precall(m, f, args, ret))
  <1>1. \A s : Called(m, RunError(m, s))
    <2>1. ThreadSound(CurTh(m), Cur(m)) /\ Shape(m)
      BY LiveFacts
    <2>2. AtLeast(CurTh(m)) /\ Keeps(m, m)
      BY <2>1, FitsLeast, KeepsSelf
    <2> QED
      BY <2>2, FailSound DEF Called
  <1>2. \A g, vals : TypeOf(g) = "function" => Called(m, Enter(m, GrowCI(m), g, vals, ret))
    BY EnterSound
  <1> QED
    BY <1>1, <1>2 DEF Precall

LEMMA CallFits ==
  ASSUME NEW m, Live(m), CallSound(m)
  PROVE  LET u == [CurTh(m) EXCEPT !.nC = @ + 1]
         IN  /\ ThreadSound(u, Cur(m)) /\ Fits(u, Cur(m), m.todo.ret.k) /\ u.status = "ok"
             /\ u.frames = CurTh(m).frames
  <1> DEFINE t == CurTh(m)
             u == [t EXCEPT !.nC = @ + 1]
             k == m.todo.ret.k
  <1>1. ThreadSound(t, Cur(m)) /\ t.status = "ok"
    BY LiveFacts
  <1>2. /\ DOMAIN u = ThreadFields /\ u.frames = t.frames /\ u.status = "ok" /\ u.stack = t.stack
        /\ u.nC = t.nC + 1 /\ u.baseC = t.baseC
    BY <1>1 DEF ThreadSound, ThreadFields
  <1>3. t.nC \in Int /\ t.baseC \in Nat /\ NestedIn(t.frames) \in Nat
    BY <1>1, NestedNumber DEF ThreadSound, FramesSound
  <1>4. CallSound(m) <=>
          \/ k \in LuaKinds \ {"call"} /\ LuaOn(t)
          \/ k \in CKinds /\ COn(t)
          \/ k = "handler" /\ t.frames # <<>> /\ AtLeast(t)
          \/ k = "host" /\ t.frames = <<>> /\ Cur(m) = 1 /\ Level(t)
    BY DEF CallSound
  <1> HIDE DEF t, u, k
  <1>5. ThreadSound(u, Cur(m))
    BY <1>1, <1>2, <1>3 DEF ThreadSound, Parked
  <1>6. Nests(k) = 1
    BY <1>4 DEF Nests, LuaKinds, CKinds
  <1>7. t.nC >= t.baseC + NestedIn(t.frames) /\ (Level(t) \/ k = "handler")
    BY <1>4 DEF LuaOn, COn, Ran, Level, AtLevel, AtLeast
  <1>8. Level(t) => HandlerIn(t.frames) \/ t.nC = t.baseC + NestedIn(t.frames)
    BY DEF Level, AtLevel
  <1>9. IF t.frames = <<>> THEN k = FirstKind(Cur(m)) /\ Cur(m) = 1 ELSE OnTop(k, Last(t.frames))
    <2>1. CASE t.frames = <<>>
      BY <1>4, <2>1 DEF LuaOn, COn, Ran, FirstKind
    <2>2. CASE t.frames # <<>>
      BY <1>4, <2>2 DEF LuaOn, COn, OnTop
    <2> QED
      BY <2>1, <2>2
  <1>10. Fits(u, Cur(m), k)
    BY <1>2, <1>3, <1>6, <1>7, <1>8, <1>9 DEF Fits
  <1> QED
    BY <1>2, <1>5, <1>10 DEF t, u, k

(* Changes of the running thread are none of a dead one. *)
LEMMA ChangedCalm ==
  ASSUME NEW m, NEW p, NEW u, NEW n, Shape(m), Changed(m, p, u), Cur(p) = Cur(m), Calm(p, n)
  PROVE  Calm(m, n)
  <1>1. Updated(m.th, Cur(m), u, p.th)
    BY ListExcept DEF Shape, Changed
  <1>2. Len(p.th) = Len(m.th) /\ \A i \in 1 .. Len(m.th) : i # Cur(m) => p.th[i] = m.th[i]
    BY <1>1 DEF Updated
  <1> QED
    BY <1>2 DEF Calm

LEMMA CallDSound ==
  ASSUME NEW m, NEW f, NEW args, NEW ret, Live(m), m.todo.op = "none",
         LET u == [CurTh(m) EXCEPT !.nC = @ + 1]
         IN  ThreadSound(u, Cur(m)) /\ Fits(u, Cur(m), ret.k) /\ u.status = "ok" /\ u.frames = CurTh(m).frames
  PROVE  LET n == CallD(m, f, args, ret) IN Going(n) /\ Calm(m, n)
  <1> DEFINE t == CurTh(m)
             u == [t EXCEPT !.nC = @ + 1]
             p == [m EXCEPT !.th[Cur(m)].nC = @ + 1]
  <1>1. Shape(m) /\ DOMAIN m = MachineFields /\ CurTh(m) = m.th[Cur(m)]
    BY LiveFacts
  <1>2. WithThread(m, p, Cur(m), u)
    BY <1>1 DEF WithThread, MachineFields, CurTh
  <1>3. ThreadSound(u, Cur(m)) /\ Fits(u, Cur(m), ret.k) /\ u.status = "ok" /\ u.frames = t.frames
    OBVIOUS
  <1> HIDE DEF u
  <1>4. ASSUME NEW i \in 1 .. Len(m.uv), IsOpenUpval(m.uv[i]), m.uv[i].th = Cur(m)
        PROVE  m.uv[i].fr \in 1 .. Len(u.frames) /\ IsLua(u.frames[m.uv[i].fr].cl)
    <2>1. UpvalSound(m, m.uv[i])
      BY <1>4 DEF Live, Stored, UpvalsSound
    <2> QED
      BY <1>3, <1>4, <2>1 DEF UpvalSound, CurTh
  <1> HIDE DEF p
  <1>5. Changed(m, p, u)
    BY <1>1, <1>2, <1>4 DEF WithThread, Changed, Shape
  <1>6. Live(p)
    BY <1>3, <1>5, ChangedLive
  <1>7. CurTh(p) = u /\ Calm(m, p) /\ Cur(p) = Cur(m)
    BY <1>3, <1>5, ChangedSound
  <1>8. p.todo.op = "none"
    BY <1>2 DEF WithThread
  <1>9. Called(p, Precall(p, f, args, ret))
    BY <1>3, <1>6, <1>7, <1>8, PrecallSound
  <1>10. \A v, s : /\ Going(RunError(p, s)) /\ Calm(p, RunError(p, s))
                   /\ Going(Throw(p, v)) /\ Calm(p, Throw(p, v))
    <2>1. Keeps(p, p)
      BY <1>6, LiveFacts, KeepsSelf
    <2>2. AtLeast(CurTh(p))
      BY <1>3, <1>7, FitsLeast
    <2> QED
      BY <1>6, <2>1, <2>2, FailSound
  <1>11. \A n : Calm(p, n) => Calm(m, n)
    BY <1>1, <1>5, <1>7, ChangedCalm
  <1> QED
    BY <1>9, <1>10, <1>11 DEF CallD, Called, p

-----------------------------------------------------------------------------
(* What a C function answers.                                                *)

LEMMA SetLast ==
  ASSUME NEW fs, NEW f, List(fs), fs # <<>>
  PROVE  LET gs == Append(Front(fs), f)
         IN  /\ List(gs) /\ Len(gs) = Len(fs) /\ gs # <<>> /\ Last(gs) = f
             /\ \A i \in 1 .. Len(fs) : gs[i] = IF i = Len(fs) THEN f ELSE fs[i]
  <1> DEFINE h == Front(fs)
             n == Len(fs)
             gs == Append(h, f)
  <1>1. n \in Nat /\ n # 0 /\ (n - 1) + 1 = n
    BY ListFacts
  <1>2. List(h) /\ Len(h) = n - 1 /\ \A i \in 1 .. n - 1 : h[i] = fs[i]
    BY ListFront
  <1> HIDE DEF h
  <1>3. /\ List(gs) /\ Len(gs) = Len(h) + 1 /\ gs # <<>>
        /\ \A i \in 1 .. Len(h) : gs[i] = h[i]
        /\ gs[Len(h) + 1] = f
    BY <1>2, ListAppend
  <1>4. Last(gs) = f
    BY <1>2, FrontAppend
  <1> HIDE DEF gs, n
  <1>5. Len(gs) = n /\ gs[n] = f /\ \A i \in 1 .. n - 1 : gs[i] = fs[i]
    BY <1>1, <1>2, <1>3
  <1>6. \A i \in 1 .. n : i = n \/ i \in 1 .. n - 1
    BY <1>1
  <1> QED
    BY <1>3, <1>4, <1>5, <1>6 DEF n, gs, h

(* The C function on top remembers the level it calls at. *)
LEMMA MarkLive ==
  ASSUME NEW m, Live(m), COn(CurTh(m))
  PROVE  LET n == SetTop(m, [Top(m) EXCEPT !.nC = CurTh(m).nC])
         IN  Live(n) /\ COn(CurTh(n)) /\ Calm(m, n)
  <1> DEFINE t == CurTh(m)
             f == [Top(m) EXCEPT !.nC = CurTh(m).nC]
             u == [t EXCEPT !.frames = Append(Front(t.frames), f)]
             n == SetTop(m, f)
  <1>1. /\ ThreadSound(t, Cur(m)) /\ t.status = "ok" /\ DOMAIN m = MachineFields /\ Shape(m)
        /\ t.frames # <<>> /\ Framed(m)
    BY LiveFacts DEF COn, Ran
  <1>2. DOMAIN Top(m) = FrameFields /\ Top(m) = Last(t.frames)
    BY <1>1, TopShape DEF Top
  <1>3. DOMAIN f = FrameFields /\ f.cl = Last(t.frames).cl /\ f.ret = Last(t.frames).ret /\ f.nC = t.nC
    BY <1>2 DEF FrameFields
  <1> HIDE DEF f
  <1>4. WithThread(m, n, Cur(m), u)
    BY <1>1, SetTopIs
  <1>5. /\ DOMAIN u = ThreadFields /\ u.frames = Append(Front(t.frames), f) /\ u.status = "ok"
        /\ u.stack = t.stack /\ u.nC = t.nC /\ u.baseC = t.baseC
    BY <1>1 DEF ThreadSound, ThreadFields
  <1> HIDE DEF u, n
  <1>6. List(t.frames) /\ FramesSound(t.frames, t.baseC, FirstKind(Cur(m))) /\ t.nC \in Nat
    BY <1>1, LeastNat DEF ThreadSound, FramesSound, COn, Ran
  <1>7. /\ List(u.frames) /\ Len(u.frames) = Len(t.frames) /\ u.frames # <<>> /\ Last(u.frames) = f
        /\ \A i \in 1 .. Len(t.frames) : u.frames[i] = IF i = Len(t.frames) THEN f ELSE t.frames[i]
    <2> DEFINE fs == t.frames
    <2>1. List(fs) /\ fs # <<>> /\ u.frames = Append(Front(fs), f)
      BY <1>1, <1>5, <1>6
    <2> HIDE DEF fs
    <2>2. /\ List(u.frames) /\ Len(u.frames) = Len(fs) /\ u.frames # <<>> /\ Last(u.frames) = f
          /\ \A i \in 1 .. Len(fs) : u.frames[i] = IF i = Len(fs) THEN f ELSE fs[i]
      BY <2>1, SetLast
    <2> QED
      BY <2>2 DEF fs
  <1>8. AtLevel(t.nC, t.baseC, t.frames)
    BY DEF COn, Ran, Level
  <1>9. FramesSound(u.frames, t.baseC, FirstKind(Cur(m))) /\ SameRets(t.frames, u.frames)
    BY <1>1, <1>3, <1>5, <1>6, <1>8, MarkSound
  <1>10. AtLevel(t.nC, t.baseC, u.frames)
    BY <1>8, <1>9, SameRetsLevel
  <1>11. ThreadSound(u, Cur(m))
    BY <1>1, <1>5, <1>9 DEF ThreadSound
  <1>12. COn(u)
    BY <1>3, <1>5, <1>7, <1>10 DEF COn, Ran, Level
  <1>13. ASSUME NEW i \in 1 .. Len(m.uv), IsOpenUpval(m.uv[i]), m.uv[i].th = Cur(m)
        PROVE  m.uv[i].fr \in 1 .. Len(u.frames) /\ IsLua(u.frames[m.uv[i].fr].cl)
    <2>1. UpvalSound(m, m.uv[i])
      BY <1>13 DEF Live, Stored, UpvalsSound
    <2>2. m.uv[i].fr \in 1 .. Len(t.frames) /\ IsLua(t.frames[m.uv[i].fr].cl)
      BY <1>13, <2>1 DEF UpvalSound, CurTh
    <2> QED
      BY <1>3, <1>7, <2>2 DEF Last
  <1>14. Changed(m, n, u)
    BY <1>1, <1>4, <1>13 DEF WithThread, Changed, Shape
  <1>15. Live(n)
    BY <1>5, <1>11, <1>14, ChangedLive
  <1>16. CurTh(n) = u /\ Calm(m, n)
    BY <1>11, <1>14, ChangedSound
  <1> QED
    BY <1>12, <1>15, <1>16 DEF n, f

LEMMA ObeyPlain ==
  ASSUME NEW m, NEW c, Live(m), COn(CurTh(m)), Plain(m, c)
  PROVE  Going(Obey(c)) /\ Calm(m, Obey(c))
  <1>1. Keeps(m, c.m)
    BY DEF Plain
  <1>2. CASE c.act = "give"
    BY <1>1, <1>2, CAsks DEF Obey
  <1>3. CASE c.act = "raise"
    BY <1>1, <1>3, CAsks DEF Obey
  <1>4. CASE c.act = "again"
    BY <1>1, <1>4, CAsks DEF Obey
  <1>5. CASE c.act = "call"
    <2> DEFINE l == c.m
               n == SetTop(l, [Top(l) EXCEPT !.nC = CurTh(l).nC])
               ret == Ret(c.kind, 0, -1)
               q == Ask(n, "call", c.f, c.vals, ret)
    <2>1. Live(l) /\ Cur(l) = Cur(m) /\ SameThread(CurTh(m), CurTh(l)) /\ ThreadSound(CurTh(m), Cur(m))
      BY <1>1, KeepsLive
    <2>2. COn(CurTh(l))
      BY <2>1, SameThreadSound
    <2>3. Calm(m, l) /\ Shape(m)
      BY <1>1, KeepsCalm, SoundShape DEF Live
    <2>4. Keeps(m, l)
      BY <1>1
    <2>5. Obey(c) = q
      BY <1>5 DEF Obey, Invoke
    <2>6. c.kind \in CKinds
      BY <1>5 DEF Plain
    <2> HIDE DEF l
    <2>7. Live(n) /\ COn(CurTh(n)) /\ Calm(l, n)
      BY <2>1, <2>2, MarkLive
    <2> HIDE DEF n
    <2>8. DOMAIN n = MachineFields
      BY <2>7, LiveFacts
    <2>9. SameBut(n, q) /\ q.todo.op = "call" /\ q.todo.ret = ret
      BY <2>8, AskSame
    <2>10. ret.k = c.kind
      BY DEF Ret
    <2> HIDE DEF q, ret
    <2>11. Live(q) /\ CurTh(q) = CurTh(n) /\ Calm(l, q)
      BY <2>7, <2>9, SameButSound
    <2>12. Going(q)
      BY <2>6, <2>7, <2>9, <2>10, <2>11 DEF Going, TodoSound, CallSound
    <2>13. Calm(m, q)
      BY <2>1, <2>3, <2>4, <2>11, CalmTwice
    <2> QED
      BY <2>5, <2>12, <2>13
  <1> QED
    BY <1>2, <1>3, <1>4, <1>5 DEF Plain

-----------------------------------------------------------------------------
(* Leaving a coroutine and resuming it.                                      *)

LEMMA MayPark ==
  ASSUME NEW t, NEW i, ThreadSound(t, i), COn(t), Last(t.frames).nC = 0, ~(t.nC > t.baseC)
  PROVE  Parked(t) /\ i # 1 /\ t.nC = t.baseC /\ t.nC # 0
  <1> DEFINE fs == t.frames
             n  == Len(fs)
  <1>1. /\ FramesSound(fs, t.baseC, FirstKind(i)) /\ List(fs) /\ fs # <<>> /\ t.nC \in Nat /\ t.baseC \in Nat
        /\ n \in Nat /\ n # 0
    BY ListFacts, LeastNat DEF ThreadSound, FramesSound, COn, Ran
  <1>2. NestedIn(fs) \in Nat /\ t.nC >= t.baseC + NestedIn(fs)
    BY <1>1, NestedNumber DEF COn, Ran, Level, AtLevel
  <1>3. NestedIn(fs) = 0 /\ t.nC = t.baseC
    BY <1>1, <1>2
  <1>4. \A j \in 1 .. n : ~Nested(fs[j].ret)
    BY <1>1, <1>3, NoneNestedIn
  <1>5. fs[1].ret.k = FirstKind(i)
    <2>1. 1 \in 1 .. n
      BY <1>1
    <2> QED
      BY <1>1, <2>1 DEF FramesSound, FrameSound
  <1>6. i # 1
    <2>1. 1 \in 1 .. n
      BY <1>1
    <2>2. ~Nested(fs[1].ret)
      BY <1>4, <2>1
    <2> QED
      BY <1>5, <2>2 DEF Nested, FirstKind
  <1>7. ASSUME NEW j \in 1 .. n
        PROVE  fs[j].nC = 0
    <2>1. CASE j = n
      BY <2>1 DEF Last
    <2>2. CASE j # n
      <3>1. j + 1 \in 1 .. n /\ (j + 1) - 1 = j /\ j + 1 # 1
        BY <1>1, <2>2
      <3>2. OnTop(fs[j + 1].ret.k, fs[j]) /\ ~Nested(fs[j + 1].ret)
        BY <1>1, <1>4, <3>1 DEF FramesSound, FrameSound
      <3> QED
        BY <3>2 DEF OnTop, Nested, CKinds
    <2> QED
      BY <2>1, <2>2
  <1>8. IsC(Last(fs).cl)
    BY DEF COn
  <1>9. t.baseC # 0
    BY <1>1, <1>6 DEF ThreadSound
  <1> QED
    BY <1>1, <1>3, <1>4, <1>6, <1>7, <1>8, <1>9 DEF Parked

LEMMA YieldSound ==
  ASSUME NEW m, NEW vals, Live(m), COn(CurTh(m)), Last(CurTh(m).frames).nC = 0
  PROVE  LET n == Yield(m, vals) IN Sound(n) /\ Calm(m, n)
  <1> DEFINE t == CurTh(m)
             u == [t EXCEPT !.status = "yield", !.nC = @ - 1]
             p == SetTh(m, u)
             q == Ask(p, "resumer", Bool(TRUE), vals, NoRet)
  <1>1. /\ ThreadSound(t, Cur(m)) /\ t.status = "ok" /\ DOMAIN m = MachineFields /\ Shape(m)
    BY LiveFacts
  <1>2. CASE t.nC > t.baseC
    <2>1. Keeps(m, m)
      BY <1>1, KeepsSelf
    <2> QED
      BY <1>2, <2>1, CAsks DEF Yield, Sound
  <1>3. CASE ~(t.nC > t.baseC)
    <2>1. Parked(t) /\ Cur(m) # 1 /\ t.nC # 0
      BY <1>1, <1>3, MayPark
    <2>2. Yield(m, vals) = q
      BY <1>3 DEF Yield, BackToResumer
    <2>3. /\ DOMAIN u = ThreadFields /\ u.frames = t.frames /\ u.status = "yield" /\ u.stack = t.stack
          /\ u.nC = t.nC - 1 /\ u.baseC = t.baseC
      BY <1>1 DEF ThreadSound, ThreadFields
    <2> HIDE DEF u
    <2>4. u.nC \in Int
      BY <1>1, <2>1, <2>3 DEF ThreadSound
    <2>5. ThreadSound(u, Cur(m))
      BY <1>1, <2>1, <2>3, <2>4 DEF ThreadSound, Parked
    <2>6. WithThread(m, p, Cur(m), u)
      BY <1>1, SetThIs
    <2> HIDE DEF p
    <2>7. Changed(m, p, u)
      <3>1. ASSUME NEW i \in 1 .. Len(m.uv), IsOpenUpval(m.uv[i]), m.uv[i].th = Cur(m)
            PROVE  m.uv[i].fr \in 1 .. Len(u.frames) /\ IsLua(u.frames[m.uv[i].fr].cl)
        <4>1. UpvalSound(m, m.uv[i])
          BY <3>1 DEF Live, Stored, UpvalsSound
        <4> QED
          BY <3>1, <4>1, <2>3 DEF UpvalSound, CurTh
      <3> QED
        BY <1>1, <2>6, <3>1 DEF WithThread, Changed, Shape
    <2>8. Len(m.run) # 1
      BY <2>1, LiveFacts
    <2>9. Stored(p) /\ Calm(m, p) /\ Running(p, Len(p.run) - 1)
      BY <2>3, <2>5, <2>7, <2>8, ChangedSound, ChangedLive
    <2>10. SameBut(p, q) /\ q.todo.op = "resumer" /\ p.ans = <<>>
      <3>1. DOMAIN p = MachineFields /\ p.ans = m.ans /\ m.ans = <<>>
        BY <2>6 DEF WithThread, Live
      <3>2. \A w : SameBut(p, Ask(p, "resumer", w, vals, NoRet)) /\ Ask(p, "resumer", w, vals, NoRet).todo.op = "resumer"
        BY <3>1, AskSame
      <3> QED
        BY <3>1, <3>2
    <2> HIDE DEF q
    <2>11. Stored(q) /\ Calm(m, q) /\ Running(q, Len(q.run) - 1)
      <3>1. q.run = p.run
        BY <2>10 DEF SameBut
      <3> QED
        BY <2>9, <2>10, <3>1, SameButSound
    <2>12. Leaving(q)
      BY <2>10, <2>11 DEF Leaving, SameBut
    <2> QED
      BY <2>2, <2>11, <2>12 DEF Sound
  <1> QED
    BY <1>2, <1>3

LEMMA StatusFacts ==
  ASSUME NEW m, NEW co, Live(m), CoStatus(m, co) = "suspended"
  PROVE  /\ co \in 1 .. Len(m.th) /\ co # Cur(m)
         /\ \/ m.th[co].status = "yield"
            \/ m.th[co].status = "ok" /\ m.th[co].frames = <<>> /\ m.th[co].stack # <<>>
         /\ ~Over(m.th[co])
  <1>1. DOMAIN m.th = 1 .. Len(m.th)
    BY ListFacts DEF Live, Stored, ThreadsSound
  <1>2. co \in 1 .. Len(m.th) /\ co # Cur(m)
    BY <1>1 DEF CoStatus
  <1>3. ThreadSound(m.th[co], co)
    BY <1>2 DEF Live, Stored, ThreadsSound
  <1>4. m.th[co].status \in {"ok", "yield", "error"}
    BY <1>3 DEF ThreadSound
  <1>5. \/ m.th[co].status = "yield"
        \/ m.th[co].status # "error" /\ m.th[co].frames = <<>> /\ m.th[co].stack # <<>>
    BY <1>1, <1>2 DEF CoStatus
  <1> QED
    BY <1>2, <1>4, <1>5 DEF Over

(* Machine n is m with the coroutine co, of which it makes u, on top. *)
Resuming(m, n, co, u) ==
  /\ DOMAIN n = MachineFields /\ n.run = Append(m.run, co) /\ n.uv = m.uv /\ n.ans = m.ans
  /\ n.th = [m.th EXCEPT ![co] = u]

LEMMA ResumingSound ==
  ASSUME NEW m, NEW n, NEW co, NEW u, Live(m), Waits(CurTh(m)), CoStatus(m, co) = "suspended",
         Resuming(m, n, co, u), ThreadSound(u, co), u.frames = m.th[co].frames
  PROVE  /\ Stored(n) /\ Calm(m, n) /\ Cur(n) = co /\ CurTh(n) = u /\ co # 1
         /\ u.status = m.th[co].status => Running(n, Len(n.run) - 1)
         /\ u.status = "ok" => Live(n)
  <1> DEFINE l == Len(m.run)
  <1>1. /\ co \in 1 .. Len(m.th) /\ co # Cur(m) /\ ~Over(m.th[co])
        /\ \/ m.th[co].status = "yield"
           \/ m.th[co].status = "ok" /\ m.th[co].frames = <<>> /\ m.th[co].stack # <<>>
    BY StatusFacts
  <1>2. /\ List(n.th) /\ Len(n.th) = Len(m.th)
        /\ \A i \in 1 .. Len(m.th) : n.th[i] = IF i = co THEN u ELSE m.th[i]
    <2>1. List(m.th)
      BY DEF Live, Stored, ThreadsSound
    <2>2. Updated(m.th, co, u, n.th)
      BY <2>1, ListExcept DEF Resuming
    <2> QED
      BY <2>2 DEF Updated
  <1>3. /\ l \in Nat /\ l # 0 /\ m.run[l] = Cur(m)
    BY LiveFacts
  <1>4. /\ List(n.run) /\ Len(n.run) = l + 1 /\ n.run[l + 1] = co
        /\ \A i \in 1 .. l : n.run[i] = m.run[i]
    <2>1. List(m.run) /\ n.run = Append(m.run, co)
      BY DEF Live, Stored, Resuming
    <2> QED
      BY <2>1, ListAppend
  <1>5. /\ m.run[1] = 1
        /\ \A i \in 1 .. l : m.run[i] \in 1 .. Len(m.th) /\ m.th[m.run[i]].status = "ok"
        /\ \A i, j \in 1 .. l : m.run[i] = m.run[j] => i = j
        /\ \A i \in 1 .. l - 1 : Waits(m.th[m.run[i]])
        /\ \A i \in 1 .. Len(m.th) :
              m.th[i].status = "ok" /\ m.th[i].frames # <<>> => \E j \in 1 .. l : m.run[j] = i
    BY DEF Live, Running
  <1> HIDE DEF l
  <1>6. Cur(n) = co /\ CurTh(n) = u
    BY <1>1, <1>2, <1>4 DEF Cur, CurTh, Last
  <1>7. \A i \in 1 .. l : Waits(m.th[m.run[i]])
    <2> TAKE i \in 1 .. l
    <2>1. i = l \/ i \in 1 .. l - 1
      BY <1>3
    <2> QED
      BY <1>3, <1>5, <2>1 DEF CurTh
  <1>8. \A i \in 1 .. l : m.run[i] # co
    BY <1>1, <1>7 DEF Waits
  <1>9. co # 1
    <2>1. 1 \in 1 .. l
      BY <1>3
    <2> QED
      BY <1>5, <1>8, <2>1
  <1>10. Stored(n)
    <2>1. ThreadsSound(n)
      BY <1>2 DEF ThreadsSound, Live, Stored
    <2>2. ASSUME NEW w, UpvalSound(m, w)
          PROVE  UpvalSound(n, w)
      <3>1. n.th[w.th].frames = m.th[w.th].frames
        BY <1>1, <1>2, <2>2 DEF UpvalSound
      <3> QED
        BY <1>2, <2>2, <3>1 DEF UpvalSound
    <2>3. UpvalsSound(n)
      BY <2>2 DEF UpvalsSound, Resuming, Live, Stored
    <2> QED
      BY <1>4, <2>1, <2>3 DEF Stored, Resuming
  <1>11. Calm(m, n)
    BY <1>1, <1>2 DEF Calm
  <1>12. \A i \in 1 .. l : n.run[i] \in 1 .. Len(n.th) /\ n.th[n.run[i]] = m.th[m.run[i]]
    BY <1>2, <1>4, <1>5, <1>8
  <1>13. \A i \in 1 .. l : n.th[n.run[i]].status = "ok" /\ Waits(n.th[n.run[i]])
    BY <1>5, <1>7, <1>12
  <1>14. n.run[1] = 1 /\ \A i, j \in 1 .. l : n.run[i] = n.run[j] => i = j
    <2>1. 1 \in 1 .. l
      BY <1>3
    <2> QED
      BY <1>4, <1>5, <2>1
  <1>15. ASSUME NEW i \in 1 .. Len(n.th), n.th[i].status = "ok", n.th[i].frames # <<>>, i # co
         PROVE  \E j \in 1 .. l : n.run[j] = i
    BY <1>2, <1>4, <1>5, <1>15
  <1>16. l + 1 \in Nat /\ l + 1 # 0 /\ (l + 1) - 1 = l /\ l <= l + 1
    BY <1>3
  <1>17. ASSUME u.status = m.th[co].status
         PROVE  Running(n, l)
    <2>1. ~(n.th[co].status = "ok" /\ n.th[co].frames # <<>>)
      BY <1>1, <1>2, <1>17
    <2> QED
      BY <1>3, <1>4, <1>12, <1>13, <1>14, <1>15, <1>16, <2>1 DEF Running
  <1>18. ASSUME u.status = "ok"
         PROVE  Running(n, l + 1)
    <2>1. \A i \in 1 .. l + 1 : i = l + 1 \/ i \in 1 .. l
      BY <1>3
    <2>2. \A i \in 1 .. l + 1 : n.run[i] \in 1 .. Len(n.th) /\ n.th[n.run[i]].status = "ok"
      BY <1>1, <1>2, <1>4, <1>12, <1>13, <1>18, <2>1
    <2>3. \A i, j \in 1 .. l + 1 : n.run[i] = n.run[j] => i = j
      BY <1>4, <1>8, <1>14, <2>1
    <2>4. l + 1 \in 1 .. l + 1 /\ \A i \in 1 .. l : i \in 1 .. l + 1
      BY <1>3
    <2>5. ASSUME NEW i \in 1 .. Len(n.th), n.th[i].status = "ok", n.th[i].frames # <<>>
          PROVE  \E j \in 1 .. l + 1 : n.run[j] = i
      BY <1>4, <1>15, <2>4, <2>5
    <2> QED
      BY <1>4, <1>13, <1>14, <1>16, <2>2, <2>3, <2>5 DEF Running
  <1>19. u.status = "ok" => Live(n)
    BY <1>4, <1>10, <1>18 DEF Live, Resuming
  <1> QED
    BY <1>4, <1>6, <1>9, <1>10, <1>11, <1>16, <1>17, <1>19

LEMMA RefusedSound ==
  ASSUME NEW m, NEW n, NEW co, Live(m), Waits(CurTh(m)), DOMAIN n = MachineFields,
         n.run = Append(m.run, co), n.uv = m.uv, n.th = m.th
  PROVE  Stored(n) /\ Calm(m, n) /\ Running(n, Len(n.run) - 1)
  <1> DEFINE l == Len(m.run)
  <1>1. l \in Nat /\ l # 0 /\ m.run[l] = Cur(m) /\ CurTh(m) = m.th[Cur(m)] /\ CurTh(m).status = "ok"
    BY LiveFacts
  <1>2. List(n.run) /\ Len(n.run) = l + 1 /\ \A i \in 1 .. l : n.run[i] = m.run[i]
    <2>1. List(m.run) /\ n.run = Append(m.run, co)
      BY DEF Live, Stored
    <2> QED
      BY <2>1, ListAppend
  <1>3. /\ m.run[1] = 1
        /\ \A i \in 1 .. l : m.run[i] \in 1 .. Len(m.th) /\ m.th[m.run[i]].status = "ok"
        /\ \A i, j \in 1 .. l : m.run[i] = m.run[j] => i = j
        /\ \A i \in 1 .. l - 1 : Waits(m.th[m.run[i]])
        /\ \A i \in 1 .. Len(m.th) :
              m.th[i].status = "ok" /\ m.th[i].frames # <<>> => \E j \in 1 .. l : m.run[j] = i
    BY DEF Live, Running
  <1>4. Stored(n)
    BY <1>2 DEF Live, Stored, ThreadsSound, UpvalsSound, UpvalSound
  <1>5. Calm(m, n)
    BY DEF Calm
  <1> HIDE DEF l
  <1>6. \A i \in 1 .. l : Waits(m.th[m.run[i]])
    <2> TAKE i \in 1 .. l
    <2>1. i = l \/ i \in 1 .. l - 1
      BY <1>1
    <2> QED
      BY <1>1, <1>3, <2>1
  <1>7. l <= l + 1 /\ (l + 1) - 1 = l /\ 1 \in 1 .. l
    BY <1>1
  <1>8. Running(n, l)
    BY <1>1, <1>2, <1>3, <1>6, <1>7 DEF Running
  <1> QED
    BY <1>2, <1>4, <1>5, <1>7, <1>8

(* What the resumer is told ends the coroutine's turn. *)
LEMMA ToResumer ==
  ASSUME NEW l, NEW p, NEW w, NEW vals, Stored(p), Calm(l, p), Running(p, Len(p.run) - 1), p.ans = <<>>
  PROVE  LET q == Ask(p, "resumer", w, vals, NoRet) IN Sound(q) /\ Calm(l, q)
  <1> DEFINE q == Ask(p, "resumer", w, vals, NoRet)
  <1>1. SameBut(p, q) /\ q.todo.op = "resumer"
    <2>1. DOMAIN p = MachineFields
      BY DEF Stored
    <2> QED
      BY <2>1, AskSame
  <1> HIDE DEF q
  <1>2. q.run = p.run /\ q.ans = <<>>
    BY <1>1 DEF SameBut
  <1>3. Stored(q) /\ Calm(l, q) /\ Running(q, Len(q.run) - 1)
    BY <1>1, <1>2, SameButSound
  <1> QED
    BY <1>1, <1>2, <1>3 DEF Sound, Leaving, q

LEMMA StartThread ==
  ASSUME NEW t, NEW i, NEW c, ThreadSound(t, i), c \in Nat,
         t.status = "yield" \/ t.frames = <<>>
  PROVE  LET u == [t EXCEPT !.status = "ok", !.stack = <<>>, !.nC = c + 1, !.baseC = c + 1]
         IN  /\ ThreadSound(u, i) /\ u.status = "ok" /\ u.frames = t.frames
             /\ u.nC = c + 1 /\ u.baseC = c + 1
             /\ t.status = "yield" => Ran(u) /\ IsC(Last(u.frames).cl)
             /\ t.frames = <<>> /\ i # 1 => Fits(u, i, "resume")
  <1> DEFINE u == [t EXCEPT !.status = "ok", !.stack = <<>>, !.nC = c + 1, !.baseC = c + 1]
             fs == t.frames
  <1>1. /\ DOMAIN u = ThreadFields /\ u.status = "ok" /\ u.stack = <<>> /\ u.nC = c + 1
        /\ u.baseC = c + 1 /\ u.frames = fs
    BY DEF ThreadSound, ThreadFields
  <1>2. FramesSound(fs, t.baseC, FirstKind(i)) /\ List(fs) /\ c + 1 \in Nat /\ c + 1 # 0
    BY DEF ThreadSound, FramesSound
  <1> HIDE DEF u
  <1>3. t.status = "yield" => Parked(t)
    BY DEF ThreadSound
  <1>4. FramesSound(fs, c + 1, FirstKind(i))
    <2>1. CASE fs = <<>>
      BY <2>1, NoFrames
    <2>2. CASE Parked(t)
      BY <1>2, <2>2 DEF FramesSound, FrameSound, Parked
    <2> QED
      BY <1>3, <2>1, <2>2
  <1>5. ThreadSound(u, i)
    BY <1>1, <1>2, <1>4 DEF ThreadSound
  <1>6. ASSUME t.status = "yield"
        PROVE  Ran(u) /\ IsC(Last(u.frames).cl)
    <2>1. fs # <<>> /\ IsC(Last(fs).cl) /\ NestedIn(fs) = 0
      BY <1>2, <1>3, <1>6, NoneNestedIn DEF Parked
    <2>2. AtLevel(c + 1, c + 1, fs)
      BY <1>2, <2>1 DEF AtLevel
    <2> QED
      BY <1>1, <2>1, <2>2 DEF Ran, Level
  <1>7. ASSUME fs = <<>>, i # 1
        PROVE  Fits(u, i, "resume")
    <2>1. NestedIn(u.frames) = 0
      BY <1>1, <1>7, NoneNested
    <2>2. Nests("resume") = 0 /\ FirstKind(i) = "resume"
      BY <1>7 DEF Nests, FirstKind
    <2> QED
      BY <1>1, <1>2, <1>7, <2>1, <2>2 DEF Fits
  <1> QED
    BY <1>1, <1>5, <1>6, <1>7 DEF u

LEMMA ResumeSound ==
  ASSUME NEW m, NEW co, NEW args, Live(m), Waits(CurTh(m)), m.todo.op = "none"
  PROVE  LET n == Resume(m, co, args) IN Sound(n) /\ Calm(m, n)
  <1> DEFINE t  == m.th[co]
             nC == CurTh(m).nC
             st == CoStatus(m, co)
             u  == [t EXCEPT !.status = "ok", !.stack = <<>>, !.nC = nC + 1, !.baseC = nC + 1]
             on == [m EXCEPT !.run = Append(@, co),
                             !.th[co] = [t EXCEPT !.status = "ok", !.stack = <<>>,
                                                  !.nC = nC + 1, !.baseC = nC + 1]]
             w  == [t EXCEPT !.stack = <<>>, !.nC = nC]
             lost == [m EXCEPT !.th[co] = [t EXCEPT !.stack = <<>>, !.nC = nC]]
             no(p) == [p EXCEPT !.run = Append(@, co)]
             told(s) == <<Str(s)>>
  <1>0. Resume(m, co, args) =
          IF st # "suspended"
          THEN Ask(no(m), "resumer", Bool(FALSE), told("cannot resume " \o st \o " coroutine"), NoRet)
          ELSE IF nC >= MaxCCalls THEN Ask(no(lost), "resumer", Bool(FALSE), told("C stack overflow"), NoRet)
          ELSE IF t.status = "ok"
          THEN LuaFrame(on, ProtoOfClosure(m, t.stack[1]), t.stack[1], args, Ret("resume", 0, -1))
          ELSE Return(on, args)
    BY DEF Resume, BackToResumer
  <1>1. DOMAIN m = MachineFields /\ m.ans = <<>> /\ ThreadSound(CurTh(m), Cur(m)) /\ nC \in Nat
    BY LiveFacts, LeastNat DEF Live, Waits
  <1>2. CASE st # "suspended"
    <2> DEFINE p == no(m)
    <2>1. DOMAIN p = MachineFields /\ p.run = Append(m.run, co) /\ p.uv = m.uv /\ p.th = m.th /\ p.ans = m.ans
      BY <1>1 DEF MachineFields
    <2> HIDE DEF p
    <2>2. Stored(p) /\ Calm(m, p) /\ Running(p, Len(p.run) - 1)
      BY <2>1, RefusedSound
    <2> DEFINE v == told("cannot resume " \o st \o " coroutine")
    <2> HIDE DEF v
    <2>3. LET q == Ask(p, "resumer", Bool(FALSE), v, NoRet) IN Sound(q) /\ Calm(m, q)
      BY <1>1, <2>1, <2>2, ToResumer
    <2>4. Resume(m, co, args) = Ask(p, "resumer", Bool(FALSE), v, NoRet)
      BY <1>0, <1>2 DEF p, v
    <2> QED
      BY <2>3, <2>4
  <1>3. CASE st = "suspended"
    <2>1. /\ co \in 1 .. Len(m.th) /\ co # Cur(m)
          /\ t.status = "yield" \/ (t.status = "ok" /\ t.frames = <<>> /\ t.stack # <<>>)
      BY <1>3, StatusFacts
    <2>2. ThreadSound(t, co)
      BY <2>1 DEF Live, Stored, ThreadsSound
    <2>3. CASE nC >= MaxCCalls
      <3> DEFINE p == no(lost)
      <3>1. Resuming(m, p, co, w) /\ p.ans = <<>>
        BY <1>1 DEF MachineFields, Resuming
      <3>2. /\ DOMAIN w = ThreadFields /\ w.status = t.status /\ w.stack = <<>> /\ w.nC = nC
            /\ w.baseC = t.baseC /\ w.frames = t.frames
        BY <2>2 DEF ThreadSound, ThreadFields
      <3>3. Resume(m, co, args) = Ask(p, "resumer", Bool(FALSE), told("C stack overflow"), NoRet)
        BY <1>0, <1>3, <2>3
      <3> HIDE DEF p, w
      <3>4. ThreadSound(w, co)
        BY <1>1, <2>2, <3>2 DEF ThreadSound, Parked
      <3>5. Stored(p) /\ Calm(m, p) /\ Running(p, Len(p.run) - 1)
        BY <1>3, <3>1, <3>2, <3>4, ResumingSound
      <3> DEFINE v == told("C stack overflow")
      <3> HIDE DEF v
      <3>6. LET q == Ask(p, "resumer", Bool(FALSE), v, NoRet) IN Sound(q) /\ Calm(m, q)
        BY <3>1, <3>5, ToResumer
      <3> QED
        BY <3>3, <3>6 DEF v
    <2>4. CASE ~(nC >= MaxCCalls)
      <3>1. Resuming(m, on, co, u) /\ on.ans = <<>> /\ on.todo = m.todo
        BY <1>1 DEF MachineFields, Resuming
      <3>2. /\ ThreadSound(u, co) /\ u.status = "ok" /\ u.frames = t.frames /\ u.nC = nC + 1 /\ u.baseC = nC + 1
            /\ t.status = "yield" => Ran(u) /\ IsC(Last(u.frames).cl)
            /\ t.frames = <<>> /\ co # 1 => Fits(u, co, "resume")
        <4>1. t.status = "yield" \/ t.frames = <<>>
          BY <2>1
        <4>2. ThreadSound(t, co) /\ nC \in Nat
          BY <1>1, <2>2
        <4> HIDE DEF t, nC
        <4> QED
          BY <4>1, <4>2, StartThread
      <3>3. Resume(m, co, args) =
              IF t.status = "ok"
              THEN LuaFrame(on, ProtoOfClosure(m, t.stack[1]), t.stack[1], args, Ret("resume", 0, -1))
              ELSE Return(on, args)
        BY <1>0, <1>3, <2>4
      <3> HIDE DEF u, on
      <3>4. Live(on) /\ Calm(m, on) /\ Cur(on) = co /\ CurTh(on) = u /\ co # 1 /\ Stored(on)
        BY <1>3, <3>1, <3>2, ResumingSound
      <3>5. CASE t.status = "ok"
        <4>1. t.frames = <<>> /\ t.stack # <<>> /\ IsLua(t.stack[1])
          <5>1. t.status # "yield"
            BY <3>5
          <5> QED
            BY <2>1, <2>2, <5>1 DEF ThreadSound
        <4>2. Fits(CurTh(on), Cur(on), "resume")
          BY <3>2, <3>4, <4>1
        <4> DEFINE f == t.stack[1]
                   ret == Ret("resume", 0, -1)
                   pr == ProtoOfClosure(m, f)
                   n == LuaFrame(on, pr, f, args, ret)
        <4>3. ret.k = "resume" /\ IsLua(f)
          BY <4>1 DEF Ret
        <4> HIDE DEF f, ret, pr
        <4>4. Keeps(on, on) /\ on.uv = on.uv /\ on.todo.op = "none"
          <5>1. Shape(on)
            BY <3>4, SoundShape
          <5> QED
            BY <3>1, <5>1, KeepsSelf
        <4>5. Fits(CurTh(on), Cur(on), ret.k)
          BY <4>2, <4>3
        <4>6. Going(n) /\ Calm(on, n) /\ Entered(on, n)
          BY <3>4, <4>3, <4>4, <4>5, LuaFrameSound
        <4>7. Calm(m, n)
          <5>1. \A i \in 1 .. Len(m.th) : i # Cur(m) /\ Over(m.th[i]) => i # co
            BY <1>3, StatusFacts
          <5>2. \A i \in 1 .. Len(m.th) : i # co => on.th[i] = m.th[i] /\ i \in 1 .. Len(on.th)
            <6>1. List(m.th) /\ on.th = [m.th EXCEPT ![co] = u]
              BY <3>1 DEF Resuming, Live, Stored, ThreadsSound
            <6>2. Updated(m.th, co, u, on.th)
              BY <6>1, ListExcept
            <6> QED
              BY <6>2 DEF Updated
          <5> QED
            BY <3>4, <4>6, <5>1, <5>2 DEF Calm
        <4>8. Resume(m, co, args) = n
          BY <3>3, <3>5 DEF n, f, ret, pr
        <4> HIDE DEF n
        <4> QED
          BY <4>6, <4>7, <4>8 DEF Sound
      <3>6. CASE t.status # "ok"
        <4> DEFINE n == Return(on, args)
        <4>1. Ran(u) /\ IsC(Last(u.frames).cl)
          BY <2>1, <3>2, <3>6
        <4>2. NoOpen(on)
          BY <3>4, <4>1, NoOpenC DEF Top
        <4>3. SameBut(on, n) /\ n.todo.op = "return"
          <5>1. DOMAIN on = MachineFields
            BY <3>1 DEF Resuming
          <5> QED
            BY <5>1, AskSame DEF Return
        <4>4. Resume(m, co, args) = n
          BY <3>3, <3>6
        <4> HIDE DEF n
        <4>5. Live(n) /\ NoOpen(n) /\ CurTh(n) = u /\ Calm(m, n)
          BY <3>4, <4>2, <4>3, SameButSound
        <4>6. TodoSound(n)
          BY <4>1, <4>3, <4>5 DEF TodoSound
        <4> QED
          BY <4>4, <4>5, <4>6 DEF Sound, Going
      <3> QED
        BY <3>5, <3>6
    <2> QED
      BY <1>1, <2>3, <2>4
  <1> QED
    BY <1>2, <1>3

(* The call of a C function, whose frame is on top. *)
LEMMA CallCSound ==
  ASSUME NEW m, NEW f, NEW args, Live(m), COn(CurTh(m)), m.todo.op = "none",
         Last(CurTh(m).frames).cl = f, Last(CurTh(m).frames).nC = 0
  PROVE  LET n == CallC(m, f, args) IN Sound(n) /\ Calm(m, n)
  <1> DEFINE c == CCall(m, f, args)
  <1>1. CurTh(m).frames # <<>> /\ Framed(m) /\ CurTh(m).status = "ok"
    BY LiveFacts DEF COn, Ran
  <1>2. Plain(m, c) \/ Switches(m, f, c)
    BY <1>1, CCallAnswers
  <1>3. CallC(m, f, args) = Obey(c)
    BY DEF CallC
  <1> HIDE DEF c
  <1>4. CASE Plain(m, c)
    BY <1>3, <1>4, ObeyPlain DEF Sound
  <1>5. CASE c.act = "resume" /\ c.m = m /\ f[2] \in {"resume", "auxwrap"}
    <2>1. Waits(CurTh(m))
      BY <1>1, <1>5 DEF COn, Ran, Waits
    <2>2. Obey(c) = Resume(m, c.f[2], c.vals)
      BY <1>5 DEF Obey
    <2> QED
      BY <1>3, <2>1, <2>2, ResumeSound
  <1>6. CASE c.act = "yield" /\ c.m = m
    <2>1. Obey(c) = Yield(m, c.vals)
      BY <1>6 DEF Obey
    <2> QED
      BY <1>3, <2>1, YieldSound
  <1> QED
    BY <1>2, <1>4, <1>5, <1>6 DEF Switches

-----------------------------------------------------------------------------
(* Going on with a C function, and delivering results.                       *)

LEMMA GoesOnSound ==
  ASSUME NEW m, Live(m), COn(CurTh(m))
  PROVE  /\ \A vals : Going(GoOn(m, vals)) /\ Calm(m, GoOn(m, vals))
         /\ Going(GoRound(m)) /\ Calm(m, GoRound(m))
  <1>1. Framed(m)
    BY LiveFacts DEF COn, Ran
  <1> DEFINE k == Top(m).k
             f == Top(m).cl[2]
  <1>2. ASSUME NEW vals
        PROVE  Going(GoOn(m, vals)) /\ Calm(m, GoOn(m, vals))
    <2> DEFINE v == FirstOf(vals)
               c == CASE f \in {"foreach", "foreachi"} -> ForEachBack(m, k, v)
                      [] f = "sort"    -> SortBack(m, k, ~Falsy(v))
                      [] f = "gsub"    -> GSubBack(m, k, v)
                      [] OTHER         -> RequireBack(m, k, v)
    <2>1. GoOn(m, vals) = Obey(c)
      BY DEF GoOn
    <2> HIDE DEF v, k, f
    <2>2. /\ Plain(m, ForEachBack(m, k, v)) /\ Plain(m, SortBack(m, k, ~Falsy(v)))
          /\ Plain(m, GSubBack(m, k, v)) /\ Plain(m, RequireBack(m, k, v))
      BY <1>1, PlainTable, PlainSort, PlainGSub, PlainRequire
    <2>3. Plain(m, c)
      BY <2>2
    <2> HIDE DEF c
    <2> QED
      BY <2>1, <2>3, ObeyPlain
  <1>3. Going(GoRound(m)) /\ Calm(m, GoRound(m))
    <2> DEFINE c == IF f = "sort" THEN SortBack(m, k, k.less) ELSE GSub(m, k)
    <2>1. GoRound(m) = Obey(c)
      BY DEF GoRound
    <2>2. Plain(m, c)
      BY <1>1, PlainSort, PlainGSub
    <2> HIDE DEF c
    <2> QED
      BY <2>1, <2>2, ObeyPlain
  <1> QED
    BY <1>2, <1>3

(* Results. *)

(* What is delivered to a Lua function. *)
LEMMA DeliverToLua ==
  ASSUME NEW m0, NEW m, NEW ret, NEW vals, Quiet(m), ret.k \in LuaKinds,
         m = IF Nested(ret) THEN [m0 EXCEPT !.th[Cur(m0)].nC = @ - 1] ELSE m0
  PROVE  LuaStep(m, Deliver(m0, ret, vals))
  <1> DEFINE v == FirstOf(vals)
             a == ret.a
             n == Deliver(m0, ret, vals)
             r == SetResults(m, a + 3, ret.n, vals)
  <1>0. Framed(m) /\ Writes(m) /\ Idles(m, m)
    BY WritesStay, IdlesSelf DEF Quiet
  <1>1. CASE ret.k = "call"
    <2>1. n = SetResults(m, a, ret.n, vals)
      BY <1>1 DEF Deliver
    <2> QED
      BY <1>0, <2>1, IdlesQuiet DEF Writes
  <1>2. CASE ret.k = "set"
    <2>1. n = SetReg(m, a, v)
      BY <1>2 DEF Deliver
    <2> QED
      BY <1>0, <2>1, IdlesQuiet DEF Writes
  <1>3. CASE ret.k = "test"
    <2>1. n = Branch(m, Falsy(v) = (Instr(m).a = 0))
      BY <1>3 DEF Deliver
    <2> QED
      BY <1>0, <2>1, IdlesQuiet DEF Writes
  <1>4. CASE ret.k = "nottest"
    <2>1. n = Branch(m, Falsy(v) = (Instr(m).a = 1))
      BY <1>4 DEF Deliver
    <2> QED
      BY <1>0, <2>1, IdlesQuiet DEF Writes
  <1>5. CASE ret.k = "drop"
    <2>1. n = m
      BY <1>5 DEF Deliver
    <2> QED
      BY <1>0, <2>1, IdlesQuiet
  <1>6. CASE ret.k = "concat"
    <2>1. n = Concat(SetReg(m, a, v), ret.n, a)
      BY <1>6 DEF Deliver
    <2>2. Keeps(m, SetReg(m, a, v))
      BY <1>0 DEF Writes, Idles
    <2>3. Asked(m, SetReg(m, a, v))
      BY <1>0, <2>2, AskStep
    <2> QED
      BY <2>1, <2>3 DEF Asked
  <1>7. CASE ret.k = "for"
    <2>1. n = IF v = Nil THEN SkipNext(r) ELSE TakeJump(SetReg(r, a + 2, v))
      BY <1>7 DEF Deliver
    <2>2. Idles(m, r)
      BY <1>0 DEF Writes
    <2> HIDE DEF n, r, v
    <2>3. Framed(r) /\ Writes(r)
      BY <2>2, IdlesIs
    <2>4. Idles(m, SkipNext(r)) /\ Idles(m, SetReg(r, a + 2, v))
      BY <1>0, <2>2, <2>3, IdlesTwice DEF Writes
    <2>5. Writes(SetReg(r, a + 2, v))
      BY <2>4, IdlesIs
    <2>6. Idles(m, TakeJump(SetReg(r, a + 2, v)))
      BY <1>0, <2>4, <2>5, IdlesTwice DEF Writes
    <2>7. Idles(m, n)
      BY <2>1, <2>4, <2>6
    <2> QED
      BY <2>7, IdlesQuiet DEF n
  <1> QED
    BY <1>1, <1>2, <1>3, <1>4, <1>5, <1>6, <1>7 DEF LuaKinds

(* The thread whose frame on top goes, and what becomes of its nesting. *)
LEMMA PopThread ==
  ASSUME NEW t, NEW i, NEW u, NEW c, ThreadSound(t, i), t.status = "ok", Ran(t),
         DOMAIN u = ThreadFields, u.frames = Front(t.frames), u.status = t.status,
         u.stack = t.stack, u.baseC = t.baseC, u.nC = c, c \in Int
  PROVE  LET ret == Last(t.frames).ret
         IN  /\ ThreadSound(u, i) /\ Len(u.frames) = Len(t.frames) - 1
             /\ \A j \in 1 .. Len(u.frames) : u.frames[j] = t.frames[j]
             /\ c = t.nC - (IF Nested(ret) THEN 1 ELSE 0) =>
                  /\ AtLeast(u)
                  /\ ret.k # "handler" => Level(u)
             /\ \/ u.frames = <<>> /\ ret.k = FirstKind(i)
                \/ u.frames # <<>> /\ OnTop(ret.k, Last(u.frames))
  <1> DEFINE fs == t.frames
             gs == Front(fs)
             n  == Len(fs)
             ret == Last(fs).ret
  <1>1. /\ FramesSound(fs, t.baseC, FirstKind(i)) /\ List(fs) /\ fs # <<>> /\ n \in Nat /\ n # 0
        /\ t.nC \in Int /\ t.baseC \in Nat /\ NestedIn(fs) \in Nat /\ AtLevel(t.nC, t.baseC, fs)
    BY ListFacts, NestedNumber DEF ThreadSound, FramesSound, Ran, Level
  <1>2. List(gs) /\ Len(gs) = n - 1 /\ \A j \in 1 .. n - 1 : gs[j] = fs[j]
    BY <1>1, ListFront
  <1>3. FramesSound(gs, t.baseC, FirstKind(i))
    <2>1. ASSUME NEW j \in 1 .. Len(gs)
          PROVE  FrameSound(gs, t.baseC, FirstKind(i), j)
      <3>1. j \in 1 .. n /\ FrameSound(fs, t.baseC, FirstKind(i), j) /\ gs[j] = fs[j]
        BY <1>1, <1>2, <2>1 DEF FramesSound
      <3>2. j # 1 => j - 1 \in 1 .. n - 1 /\ gs[j - 1] = fs[j - 1]
        BY <1>1, <1>2, <2>1
      <3>3. SubSeq(gs, 1, j) = SubSeq(fs, 1, j)
        <4>1. fs = Append(gs, Last(fs))
          BY <1>1, ListSplit
        <4>2. j \in Nat /\ j <= Len(gs)
          BY <1>1, <1>2, <2>1
        <4>3. SubSeq(Append(gs, Last(fs)), 1, j) = SubSeq(gs, 1, j)
          BY <1>2, <4>2, PrefixAppend
        <4> QED
          BY <4>1, <4>3
      <3> QED
        BY <3>1, <3>2, <3>3 DEF FrameSound
    <2> QED
      BY <1>2, <2>1 DEF FramesSound
  <1>4. /\ NestedIn(fs) = NestedIn(gs) + (IF Nested(ret) THEN 1 ELSE 0)
        /\ HandlerIn(fs) <=> HandlerIn(gs) \/ ret.k = "handler"
        /\ NestedIn(gs) \in Nat
    BY <1>1, <1>2, LastNested, NestedNumber
  <1>5. ThreadSound(u, i)
    <2>1. u.status = "ok" /\ (i # 1 => u.baseC # 0)
      BY <1>1 DEF ThreadSound
    <2> QED
      BY <1>3, <2>1 DEF ThreadSound
  <1>6. ASSUME c = t.nC - (IF Nested(ret) THEN 1 ELSE 0)
        PROVE  AtLeast(u) /\ (ret.k # "handler" => Level(u))
    <2> DEFINE one == IF Nested(ret) THEN 1 ELSE 0
    <2>1. one \in Int /\ c = t.nC - one /\ NestedIn(fs) = NestedIn(gs) + one
      BY <1>4, <1>6
    <2> HIDE DEF one, gs, fs, ret
    <2>2. u.frames = gs
      BY DEF gs, fs
    <2>3. /\ t.nC \in Int /\ t.baseC \in Int /\ NestedIn(gs) \in Int /\ NestedIn(fs) \in Int
          /\ t.nC >= t.baseC + NestedIn(fs)
          /\ HandlerIn(fs) \/ t.nC = t.baseC + NestedIn(fs)
      BY <1>1, <1>4 DEF AtLevel
    <2>4. ret.k # "handler" /\ HandlerIn(fs) => HandlerIn(gs)
      BY <1>4
    <2>5. c >= t.baseC + NestedIn(gs)
      BY <2>1, <2>3
    <2>6. t.nC = t.baseC + NestedIn(fs) => c = t.baseC + NestedIn(gs)
      BY <2>1, <2>3
    <2>7. ret.k # "handler" => HandlerIn(gs) \/ c = t.baseC + NestedIn(gs)
      BY <2>3, <2>4, <2>6
    <2> QED
      BY <2>2, <2>5, <2>7 DEF AtLeast, Level, AtLevel
  <1>7. \/ gs = <<>> /\ ret.k = FirstKind(i)
        \/ gs # <<>> /\ OnTop(ret.k, Last(gs))
    <2>1. n \in 1 .. n /\ FrameSound(fs, t.baseC, FirstKind(i), n) /\ Last(fs) = fs[n]
      BY <1>1 DEF FramesSound, Last
    <2>2. CASE n = 1
      BY <1>2, <2>1, <2>2, ListFacts DEF FrameSound
    <2>3. CASE n # 1
      <3>1. n - 1 \in 1 .. n - 1 /\ Len(gs) = n - 1 /\ Len(gs) # 0
        <4>1. n \in Nat /\ n # 0 /\ n # 1 /\ Len(gs) = n - 1
          BY <1>1, <1>2, <2>3
        <4> HIDE DEF n, gs
        <4> QED
          BY <4>1
      <3>2. gs # <<>>
        BY <1>2, <3>1, ListFacts
      <3>3. Last(gs) = fs[n - 1]
        BY <1>2, <3>1 DEF Last
      <3> QED
        BY <2>1, <2>3, <3>2, <3>3 DEF FrameSound
    <2> QED
      BY <2>2, <2>3
  <1> QED
    BY <1>2, <1>5, <1>6, <1>7

LEMMA LowerIs ==
  ASSUME NEW m, DOMAIN m = MachineFields
  PROVE  WithThread(m, [m EXCEPT !.th[Cur(m)].nC = @ - 1], Cur(m), [CurTh(m) EXCEPT !.nC = @ - 1])
  BY DEF WithThread, MachineFields, CurTh

LEMMA WithThreadTwice ==
  ASSUME NEW m, NEW n, NEW p, NEW c, NEW u, NEW w, List(m.th), c \in 1 .. Len(m.th),
         WithThread(m, n, c, u), WithThread(n, p, c, w)
  PROVE  WithThread(m, p, c, w) /\ n.th[c] = u /\ n.run = m.run
  <1>1. p.th = [[m.th EXCEPT ![c] = u] EXCEPT ![c] = w]
    BY DEF WithThread
  <1>2. p.th = [m.th EXCEPT ![c] = w] /\ n.th[c] = u
    <2>1. c \in DOMAIN m.th
      BY ListFacts
    <2> QED
      BY <1>1, <2>1 DEF WithThread
  <1> QED
    BY <1>2 DEF WithThread

(* The frame on top has gone, and none of its upvalues was open. *)
LEMMA PopSound ==
  ASSUME NEW m, NEW n, NEW u, Live(m), Ran(CurTh(m)), NoOpen(m), WithThread(m, n, Cur(m), u),
         u.frames = Front(CurTh(m).frames)
  PROVE  Changed(m, n, u)
  <1> DEFINE t == CurTh(m)
  <1>1. /\ ThreadSound(t, Cur(m)) /\ Shape(m) /\ t = m.th[Cur(m)] /\ Depth(m) = Len(t.frames)
        /\ t.frames # <<>> /\ List(t.frames)
    BY LiveFacts DEF ThreadSound, FramesSound, Ran, Depth
  <1>2. /\ List(u.frames) /\ Len(u.frames) = Len(t.frames) - 1 /\ Len(t.frames) \in Nat
        /\ \A j \in 1 .. Len(t.frames) - 1 : u.frames[j] = t.frames[j]
    BY <1>1, ListFront, ListFacts
  <1>3. ASSUME NEW i \in 1 .. Len(m.uv), IsOpenUpval(m.uv[i]), m.uv[i].th = Cur(m)
        PROVE  m.uv[i].fr \in 1 .. Len(u.frames) /\ IsLua(u.frames[m.uv[i].fr].cl)
    <2>1. UpvalSound(m, m.uv[i])
      BY <1>3 DEF Live, Stored, UpvalsSound
    <2>2. m.uv[i].fr # Len(t.frames)
      BY <1>1, <1>3 DEF NoOpen
    <2>3. m.uv[i].fr \in 1 .. Len(t.frames) /\ IsLua(t.frames[m.uv[i].fr].cl)
      BY <1>1, <1>3, <2>1 DEF UpvalSound
    <2>4. m.uv[i].fr \in 1 .. Len(t.frames) - 1
      BY <1>2, <2>2, <2>3
    <2> QED
      BY <1>2, <2>3, <2>4
  <1> QED
    BY <1>1, <1>3 DEF WithThread, Changed, Shape

(* What a function that has gone leaves, when its kind is Nested or not. *)
LEMMA DeliverSound ==
  ASSUME NEW m, NEW vals, Live(m), Ran(CurTh(m)), NoOpen(m), m.todo.op = "none"
  PROVE  LET n == Deliver(Pop(m), Top(m).ret, vals) IN Sound(n) /\ Calm(m, n)
  <1> DEFINE t   == CurTh(m)
             c   == Cur(m)
             ret == Top(m).ret
             p0  == Pop(m)
             p   == IF Nested(ret) THEN [p0 EXCEPT !.th[Cur(p0)].nC = @ - 1] ELSE p0
             u0  == [t EXCEPT !.frames = Front(t.frames)]
             u   == IF Nested(ret) THEN [u0 EXCEPT !.nC = @ - 1] ELSE u0
             n   == Deliver(p0, ret, vals)
  <1> SUFFICES Sound(n) /\ Calm(m, n)
    OBVIOUS
  <1>1. /\ c \in 1 .. Len(m.th) /\ t = m.th[c] /\ ThreadSound(t, c) /\ t.status = "ok"
        /\ DOMAIN m = MachineFields /\ Shape(m) /\ t.frames # <<>> /\ Framed(m)
        /\ Len(m.run) \in Nat /\ (Len(m.run) = 1 => c = 1) /\ m.ans = <<>>
    BY LiveFacts DEF Ran, Live
  <1>2. WithThread(m, p0, c, u0)
    BY <1>1, PopIs
  <1>3. Cur(p0) = c /\ CurTh(p0) = u0 /\ DOMAIN p0 = MachineFields
    <2>1. List(m.th) /\ p0.th = [m.th EXCEPT ![c] = u0] /\ p0.run = m.run
      BY <1>1, <1>2 DEF Shape, WithThread
    <2>2. Updated(m.th, c, u0, p0.th)
      BY <2>1, ListExcept
    <2> QED
      BY <1>1, <1>2, <2>1, <2>2 DEF Updated, Cur, CurTh, WithThread
  <1>4. /\ DOMAIN u0 = ThreadFields /\ u0.frames = Front(t.frames) /\ u0.status = t.status
        /\ u0.stack = t.stack /\ u0.nC = t.nC /\ u0.baseC = t.baseC
    BY <1>1, ThreadFieldsSet DEF ThreadSound
  <1> HIDE DEF u0, p0
  <1>5. WithThread(p0, [p0 EXCEPT !.th[Cur(p0)].nC = @ - 1], c, [u0 EXCEPT !.nC = @ - 1])
    BY <1>3, LowerIs
  <1>6. List(m.th)
    BY <1>1 DEF Shape
  <1>7. WithThread(m, [p0 EXCEPT !.th[Cur(p0)].nC = @ - 1], c, [u0 EXCEPT !.nC = @ - 1])
    BY <1>1, <1>2, <1>5, <1>6, WithThreadTwice
  <1>8. WithThread(m, p, c, u)
    BY <1>2, <1>7
  <1>9. /\ DOMAIN u = ThreadFields /\ u.frames = Front(t.frames) /\ u.status = t.status
        /\ u.stack = t.stack /\ u.baseC = t.baseC
        /\ u.nC = t.nC - (IF Nested(ret) THEN 1 ELSE 0) /\ u.nC \in Int
    <2>1. t.nC \in Int
      BY <1>1 DEF ThreadSound
    <2>2. CASE Nested(ret)
      <3>1. u = [u0 EXCEPT !.nC = u0.nC - 1]
        BY <2>2
      <3> QED
        BY <1>4, <2>1, <2>2, <3>1, ThreadFieldsSet
    <2>3. CASE ~Nested(ret)
      BY <1>4, <2>1, <2>3
    <2> QED
      BY <2>2, <2>3
  <1>10. ret = Last(t.frames).ret
    BY DEF Top
  <1> HIDE DEF u
  <1>11. /\ ThreadSound(u, c) /\ AtLeast(u)
         /\ ret.k # "handler" => Level(u)
         /\ \/ u.frames = <<>> /\ ret.k = FirstKind(c)
            \/ u.frames # <<>> /\ OnTop(ret.k, Last(u.frames))
    <2> DEFINE k == u.nC
    <2>1. k \in Int /\ u.nC = k
      BY <1>9
    <2>2. /\ ThreadSound(t, c) /\ t.status = "ok" /\ Ran(t) /\ DOMAIN u = ThreadFields
          /\ u.frames = Front(t.frames) /\ u.status = t.status /\ u.stack = t.stack /\ u.baseC = t.baseC
      BY <1>1, <1>9
    <2>3. k = t.nC - (IF Nested(Last(t.frames).ret) THEN 1 ELSE 0)
      BY <1>9, <1>10
    <2> HIDE DEF k, t, c
    <2>4. /\ ThreadSound(u, c)
          /\ k = t.nC - (IF Nested(Last(t.frames).ret) THEN 1 ELSE 0) =>
                  /\ AtLeast(u)
                  /\ Last(t.frames).ret.k # "handler" => Level(u)
          /\ \/ u.frames = <<>> /\ Last(t.frames).ret.k = FirstKind(c)
             \/ u.frames # <<>> /\ OnTop(Last(t.frames).ret.k, Last(u.frames))
      BY <2>1, <2>2, PopThread
    <2> QED
      BY <1>10, <2>3, <2>4
  <1>12. Changed(m, p, u)
    BY <1>8, <1>9, PopSound
  <1>13. p.todo = m.todo /\ p.ans = m.ans /\ p.run = m.run
    BY <1>8 DEF WithThread
  <1>14. Live(p) /\ Calm(m, p) /\ Stored(p) /\ Cur(p) = c /\ CurTh(p) = u
    BY <1>1, <1>9, <1>11, <1>12, ChangedSound, ChangedLive
  <1>15. p = IF Nested(ret) THEN [p0 EXCEPT !.th[Cur(p0)].nC = @ - 1] ELSE p0
    OBVIOUS
  <1>16. Keeps(p, p) /\ (u.frames # <<>> => Framed(p) /\ Quiet(p))
    <2>1. Shape(p)
      BY <1>14, SoundShape
    <2>2. u.frames # <<>> => Framed(p)
      BY <1>14, LiveFacts
    <2> QED
      BY <1>13, <2>1, <2>2, KeepsSelf DEF Quiet
  <1> HIDE DEF ret
  <1>20. CASE ret.k \in LuaKinds
    <2>1. u.frames # <<>> /\ OnTop(ret.k, Last(u.frames)) /\ ret.k # "handler"
      BY <1>11, <1>20 DEF LuaKinds, FirstKind
    <2>2. LuaOn(u)
      BY <1>11, <1>20, <2>1 DEF OnTop, CKinds, LuaKinds, LuaOn, Ran
    <2>3. LuaStep(p, n)
      <3> HIDE DEF p
      <3> QED
        BY <1>15, <1>16, <1>20, <2>1, DeliverToLua
    <2> HIDE DEF p, n
    <2>4. Going(n) /\ Calm(p, n)
      BY <1>14, <2>2, <2>3, LuaStepSound
    <2>5. Calm(m, n)
      BY <1>1, <1>12, <1>14, <2>4, ChangedCalm
    <2> QED
      BY <2>4, <2>5 DEF Sound
  <1> HIDE DEF p
  <1>21. CASE ret.k \in CKinds
    <2>1. u.frames # <<>> /\ OnTop(ret.k, Last(u.frames)) /\ ret.k # "handler"
      BY <1>11, <1>21 DEF CKinds, FirstKind
    <2>2. COn(CurTh(p))
      BY <1>11, <1>14, <1>21, <2>1 DEF OnTop, CKinds, LuaKinds, COn, Ran
    <2>3. CASE ret.k = "back"
      <3>1. n = GoOn(p, vals)
        BY <1>15, <2>3 DEF Deliver
      <3>2. Going(n) /\ Calm(p, n)
        BY <1>14, <2>2, <3>1, GoesOnSound
      <3> HIDE DEF n
      <3>3. Calm(m, n)
        BY <1>1, <1>12, <1>14, <3>2, ChangedCalm
      <3> QED
        BY <3>2, <3>3 DEF Sound
    <2>4. CASE ret.k # "back"
      <3>1. \E w : n = Return(p, w)
        <4>1. CASE ret.k = "protected"
          BY <1>15, <4>1 DEF Deliver
        <4>2. CASE ret.k = "one"
          BY <1>15, <4>2 DEF Deliver
        <4> QED
          BY <1>21, <2>4, <4>1, <4>2 DEF CKinds
      <3>2. Going(n) /\ Calm(p, n)
        BY <1>14, <1>16, <2>2, <3>1, CAsks
      <3> HIDE DEF n
      <3>3. Calm(m, n)
        BY <1>1, <1>12, <1>14, <3>2, ChangedCalm
      <3> QED
        BY <3>2, <3>3 DEF Sound
    <2> QED
      BY <2>3, <2>4
  <1>22. CASE ret.k = "handler"
    <2>1. n = Throw(p, FirstOf(vals))
      BY <1>15, <1>22 DEF Deliver
    <2>2. Going(n) /\ Calm(p, n)
      BY <1>11, <1>14, <1>16, <2>1, FailSound
    <2> HIDE DEF n
    <2>3. Calm(m, n)
      BY <1>1, <1>12, <1>14, <2>2, ChangedCalm
    <2> QED
      BY <2>2, <2>3 DEF Sound
  <1>23. CASE ret.k = "resume"
    <2>1. u.frames = <<>> /\ c # 1
      BY <1>11, <1>23 DEF OnTop, LuaKinds, CKinds, FirstKind
    <2> DEFINE q == [p EXCEPT !.th[Cur(p)].nC = @ - 1]
               w == [u EXCEPT !.nC = @ - 1]
    <2>2. n = Ask(q, "resumer", Bool(TRUE), vals, NoRet)
      BY <1>15, <1>23 DEF Deliver, BackToResumer
    <2>3. WithThread(p, q, c, w)
      <3>1. DOMAIN p = MachineFields
        BY <1>8 DEF WithThread
      <3> QED
        BY <1>14, <3>1, LowerIs
    <2>4. WithThread(m, q, c, w)
      BY <1>1, <1>6, <1>8, <2>3, WithThreadTwice
    <2>5. /\ DOMAIN w = ThreadFields /\ w.frames = u.frames /\ w.status = u.status
          /\ w.stack = u.stack /\ w.nC = u.nC - 1 /\ w.baseC = u.baseC
      <3>1. w = [u EXCEPT !.nC = u.nC - 1]
        OBVIOUS
      <3> QED
        BY <1>9, <3>1, ThreadFieldsSet
    <2> HIDE DEF q, w
    <2>6. ThreadSound(w, c)
      <3>1. w.nC \in Int /\ w.status = "ok"
        BY <1>1, <1>9, <2>5
      <3> QED
        BY <1>11, <2>1, <2>5, <3>1 DEF ThreadSound
    <2>7. Changed(m, q, w)
      BY <1>9, <2>4, <2>5, PopSound
    <2>8. Stored(q) /\ Calm(m, q) /\ Running(q, Len(q.run) - 1) /\ q.ans = <<>>
      <3>1. Len(m.run) # 1 /\ w.frames = <<>>
        BY <1>1, <2>1, <2>5
      <3> QED
        BY <1>1, <2>4, <2>6, <2>7, <3>1, ChangedSound, ChangedLive DEF WithThread
    <2>9. \A v : Sound(Ask(q, "resumer", v, vals, NoRet)) /\ Calm(m, Ask(q, "resumer", v, vals, NoRet))
      BY <2>8, ToResumer
    <2> QED
      BY <2>2, <2>9
  <1>24. CASE ret.k = "host"
    <2>1. n = [p EXCEPT !.ans = <<"return", vals>>]
      BY <1>15, <1>24 DEF Deliver
    <2>2. /\ DOMAIN n = MachineFields /\ n.th = p.th /\ n.run = p.run /\ n.uv = p.uv
          /\ n.ans = <<"return", vals>>
      <3>1. DOMAIN p = MachineFields
        BY <1>8 DEF WithThread
      <3> HIDE DEF n
      <3> QED
        BY <2>1, <3>1 DEF MachineFields
    <2>3. <<"return", vals>> # <<>>
      OBVIOUS
    <2> HIDE DEF n
    <2>4. Stored(n) /\ n.ans # <<>>
      BY <1>14, <2>2, <2>3 DEF Stored, ThreadsSound, UpvalsSound, UpvalSound
    <2>5. Calm(m, n)
      BY <1>14, <2>2 DEF Calm
    <2> QED
      BY <2>4, <2>5 DEF Sound, Ended
  <1> QED
    BY <1>11, <1>20, <1>21, <1>22, <1>23, <1>24 DEF OnTop, FirstKind

-----------------------------------------------------------------------------
(* Errors: unwinding to the frame that is protected, and its handler.        *)

(* What Protector finds is a frame of pcall or xpcall that has made its call. *)
LEMMA ProtectorIs ==
  ASSUME NEW m, List(CurTh(m).frames)
  PROVE  LET i == Protector(m) fs == CurTh(m).frames
         IN  \/ i = 0
             \/ i \in 1 .. Len(fs) /\ IsC(fs[i].cl) /\ fs[i].nC # 0
  <1> DEFINE fs == CurTh(m).frames
             Saves(f) == IsC(f.cl) /\ f.cl[2] \in {"pcall", "xpcall"} /\ f.nC # 0
             Hits  == {i \in 1 .. Len(fs) : Saves(fs[i])}
  <1>1. Protector(m) = IF Hits # {} THEN Max(Hits) ELSE 0
    BY DEF Protector, SelectLastInSeq
  <1>2. Len(fs) \in Nat
    BY ListFacts
  <1>3. Hits \in SUBSET (0 .. Len(fs))
    BY <1>2
  <1> HIDE DEF Hits
  <1>4. Hits # {} => \E x \in Hits : \A y \in Hits : x >= y
    BY <1>2, <1>3, HasGreatest
  <1>5. Hits # {} => Max(Hits) \in Hits
    BY <1>4 DEF Max
  <1> QED
    BY <1>1, <1>5 DEF Hits

LEMMA LimitIs ==
  ASSUME NEW t, DOMAIN t = ThreadFields
  PROVE  LET u == RestoreLimit(t)
         IN  /\ DOMAIN u = ThreadFields /\ u.frames = t.frames /\ u.status = t.status
             /\ u.stack = t.stack /\ u.nC = t.nC /\ u.baseC = t.baseC
  BY ThreadFieldsSet DEF RestoreLimit

LEMMA UnwindSound ==
  ASSUME NEW m, NEW v, Live(m), AtLeast(CurTh(m))
  PROVE  LET n == Unwind(m, v) IN Sound(n) /\ Calm(m, n)
  <1> DEFINE t  == CurTh(m)
             c  == Cur(m)
             fs == t.frames
             i  == Protector(m)
             n  == Unwind(m, v)
  <1>1. /\ c \in 1 .. Len(m.th) /\ t = m.th[c] /\ ThreadSound(t, c) /\ t.status = "ok"
        /\ DOMAIN m = MachineFields /\ Shape(m) /\ (Len(m.run) = 1 => c = 1) /\ m.ans = <<>>
        /\ Len(m.run) \in Nat /\ Len(m.run) # 0
    BY LiveFacts DEF Live
  <1>2. FramesSound(fs, t.baseC, FirstKind(c)) /\ List(fs) /\ Len(fs) \in Nat /\ List(m.th)
    BY <1>1, ListFacts DEF ThreadSound, FramesSound, Shape
  <1>3. \/ i = 0
        \/ i \in 1 .. Len(fs) /\ IsC(fs[i].cl) /\ fs[i].nC # 0
    BY <1>2, ProtectorIs
  <1>4. CASE i # 0
    <2> DEFINE closed == CloseFrames(m, i + 1)
               u0 == [t EXCEPT !.frames = SubSeq(fs, 1, i), !.nC = fs[i].nC]
               u  == RestoreLimit(u0)
               p  == SetTh(closed, u)
    <2>1. n = Return(p, <<Bool(FALSE), v>>)
      BY <1>4 DEF Unwind
    <2>2. DOMAIN u0 = ThreadFields /\ u0.frames = SubSeq(fs, 1, i) /\ u0.status = "ok" /\ u0.stack = t.stack
          /\ u0.nC = fs[i].nC /\ u0.baseC = t.baseC
      BY <1>1 DEF ThreadSound, ThreadFields
    <2> HIDE DEF u0
    <2>3. DOMAIN u = ThreadFields /\ u.frames = SubSeq(fs, 1, i) /\ u.status = "ok" /\ u.stack = t.stack
          /\ u.nC = fs[i].nC /\ u.baseC = t.baseC
      BY <2>2, LimitIs
    <2> HIDE DEF u
    <2>4. i \in 1 .. Len(fs) /\ i \in Nat /\ i <= Len(fs) /\ i # 0 /\ IsC(fs[i].cl) /\ fs[i].nC # 0
      BY <1>2, <1>3, <1>4
    <2> DEFINE gs == SubSeq(fs, 1, i)
    <2>5. List(gs) /\ Len(gs) = i /\ (\A j \in 1 .. i : gs[j] = fs[j]) /\ FramesSound(gs, t.baseC, FirstKind(c))
      <3> HIDE DEF i, fs
      <3> QED
        BY <1>2, <2>4, ListPrefix, PrefixSound
    <2>6. fs[i].nC \in Nat /\ AtLevel(fs[i].nC, t.baseC, gs)
      BY <1>2, <2>4 DEF FramesSound, FrameSound
    <2>7. gs # <<>> /\ Last(gs) = fs[i]
      <3>1. gs # <<>>
        BY <2>4, <2>5, ListFacts
      <3>2. Last(gs) = gs[i]
        BY <2>5 DEF Last
      <3>3. i \in 1 .. i
        BY <2>4
      <3> QED
        BY <2>5, <3>1, <3>2, <3>3
    <2> HIDE DEF gs
    <2>8. u.frames = gs
      BY <2>3 DEF gs
    <2>9. ThreadSound(u, c) /\ COn(u)
      <3>1. fs # <<>>
        BY <1>2, <2>4, ListFacts
      <3>2. ThreadSound(u, c)
        <4>1. /\ t.frames # <<>> /\ c # 1 => t.baseC # 0
              /\ t.stack # <<>> => IsLua(t.stack[1])
              /\ t.baseC \in Nat
          BY <1>1 DEF ThreadSound
        <4>2. FramesSound(u.frames, u.baseC, FirstKind(c)) /\ u.nC \in Int
          <5>1. u.baseC = t.baseC /\ u.nC = fs[i].nC
            BY <2>3
          <5> HIDE DEF c, t, fs, i
          <5>2. FramesSound(gs, t.baseC, FirstKind(c)) /\ fs[i].nC \in Int
            BY <2>5, <2>6
          <5> QED
            BY <2>8, <5>1, <5>2
        <4> HIDE DEF c
        <4> QED
          BY <2>3, <3>1, <4>1, <4>2 DEF ThreadSound
      <3> QED
        BY <2>3, <2>4, <2>6, <2>7, <2>8, <3>2 DEF COn, Ran, Level
    <2>10. Closed(m, closed, {j \in 1 .. Len(m.uv) : m.uv[j].th = c /\ m.uv[j].fr >= i + 1})
      BY <1>1, CloseFramesIs
    <2> HIDE DEF closed
    <2>11. Cur(closed) = c /\ WithThread(closed, p, c, u)
      <3>1. Cur(closed) = c /\ DOMAIN closed = MachineFields
        BY <2>10 DEF Closed, Cur
      <3> QED
        BY <3>1, SetThIs
    <2> HIDE DEF p
    <2>12. Changed(m, p, u)
      <3>1. /\ DOMAIN p = MachineFields /\ p.run = m.run /\ p.ans = m.ans
            /\ p.th = [m.th EXCEPT ![c] = u] /\ p.uv = closed.uv
            /\ List(closed.uv) /\ Len(closed.uv) = Len(m.uv)
        BY <2>10, <2>11 DEF Closed, WithThread
      <3>2. ASSUME NEW j \in 1 .. Len(m.uv), IsOpenUpval(closed.uv[j])
            PROVE  closed.uv[j] = m.uv[j] /\ ~(m.uv[j].th = c /\ m.uv[j].fr >= i + 1)
        BY <2>10, <3>2 DEF Closed
      <3>3. ASSUME NEW j \in 1 .. Len(m.uv), IsOpenUpval(closed.uv[j]), closed.uv[j].th = c
            PROVE  closed.uv[j].fr \in 1 .. Len(gs) /\ IsLua(gs[closed.uv[j].fr].cl)
        <4>1. UpvalSound(m, m.uv[j]) /\ m.uv[j].th = c /\ closed.uv[j] = m.uv[j]
          BY <3>2, <3>3 DEF Live, Stored, UpvalsSound
        <4>2. m.uv[j].fr \in 1 .. Len(fs) /\ IsLua(fs[m.uv[j].fr].cl) /\ ~(m.uv[j].fr >= i + 1)
          BY <1>1, <3>2, <3>3, <4>1 DEF UpvalSound
        <4>3. m.uv[j].fr \in 1 .. i
          BY <1>2, <2>4, <4>2
        <4> QED
          BY <2>5, <4>1, <4>2, <4>3
      <3> QED
        BY <2>8, <3>1, <3>2, <3>3 DEF Changed
    <2>13. Live(p) /\ Calm(m, p) /\ CurTh(p) = u
      BY <2>3, <2>9, <2>12, ChangedSound, ChangedLive
    <2>14. Keeps(p, p)
      BY <2>13, SoundShape, KeepsSelf DEF Live
    <2>15. Going(n) /\ Calm(p, n)
      BY <2>1, <2>9, <2>13, <2>14, CAsks
    <2>16. Calm(m, n)
      <3>1. Cur(p) = Cur(m)
        BY <2>12 DEF Changed, Cur
      <3> HIDE DEF n
      <3> QED
        BY <1>1, <2>12, <2>15, <3>1, ChangedCalm
    <2> QED
      BY <2>15, <2>16 DEF Sound
  <1>5. CASE i = 0 /\ Len(m.run) > 1
    <2> DEFINE u == [t EXCEPT !.status = "error", !.nC = @ - 1]
               p == SetTh(m, u)
    <2>1. n = Ask(p, "resumer", Bool(FALSE), <<v>>, NoRet)
      BY <1>5 DEF Unwind, BackToResumer
    <2>2. DOMAIN u = ThreadFields /\ u.frames = fs /\ u.status = "error" /\ u.stack = t.stack
          /\ u.nC = t.nC - 1 /\ u.baseC = t.baseC
      BY <1>1 DEF ThreadSound, ThreadFields
    <2> HIDE DEF u
    <2>3. u.nC \in Int
      BY <1>1, <2>2 DEF ThreadSound
    <2>4. ThreadSound(u, c)
      BY <1>1, <2>2, <2>3 DEF ThreadSound
    <2>5. WithThread(m, p, c, u)
      BY <1>1, SetThIs
    <2> HIDE DEF p
    <2>6. Changed(m, p, u)
      <3>1. ASSUME NEW j \in 1 .. Len(m.uv), IsOpenUpval(m.uv[j]), m.uv[j].th = c
            PROVE  m.uv[j].fr \in 1 .. Len(u.frames) /\ IsLua(u.frames[m.uv[j].fr].cl)
        <4>1. UpvalSound(m, m.uv[j])
          BY <3>1 DEF Live, Stored, UpvalsSound
        <4> QED
          BY <1>1, <3>1, <4>1, <2>2 DEF UpvalSound
      <3> QED
        BY <1>1, <2>5, <3>1 DEF WithThread, Changed, Shape
    <2>7. Stored(p) /\ Calm(m, p) /\ Running(p, Len(p.run) - 1) /\ p.ans = <<>>
      <3>1. Len(m.run) # 1
        <4> DEFINE l == Len(m.run)
        <4>1. l \in Nat /\ l > 1
          BY <1>1, <1>5
        <4> HIDE DEF l
        <4>2. l # 1
          BY <4>1
        <4> QED
          BY <4>2 DEF l
      <3>2. u.status # "ok"
        BY <2>2
      <3> QED
        BY <1>1, <2>4, <2>5, <2>6, <3>1, <3>2, ChangedSound, ChangedLive DEF WithThread
    <2> DEFINE vals == <<v>>
    <2> HIDE DEF vals
    <2>8. \A w : Sound(Ask(p, "resumer", w, vals, NoRet)) /\ Calm(m, Ask(p, "resumer", w, vals, NoRet))
      BY <2>7, ToResumer
    <2> QED
      BY <2>1, <2>8 DEF vals
  <1>6. CASE i = 0 /\ ~(Len(m.run) > 1)
    <2> DEFINE x == <<"error", v>>
    <2>1. n = [m EXCEPT !.ans = x]
      BY <1>6 DEF Unwind
    <2>2. x # <<>>
      OBVIOUS
    <2> HIDE DEF x
    <2>3. DOMAIN n = MachineFields /\ n.th = m.th /\ n.run = m.run /\ n.uv = m.uv /\ n.ans = x
      BY <1>1, <2>1 DEF MachineFields
    <2> HIDE DEF n
    <2>4. Stored(n) /\ Calm(m, n)
      BY <2>3 DEF Live, Stored, ThreadsSound, UpvalsSound, UpvalSound, Calm
    <2> QED
      BY <2>2, <2>3, <2>4 DEF Sound, Ended, n
  <1> QED
    BY <1>4, <1>5, <1>6

LEMMA ErrorMsgSound ==
  ASSUME NEW m, NEW v, Live(m), AtLeast(CurTh(m))
  PROVE  LET n == ErrorMsg(m, v) IN Sound(n) /\ Calm(m, n)
  <1> DEFINE t == CurTh(m)
             i == Protector(m)
             h == IF i = 0 THEN Nil ELSE t.frames[i].handler
             n == ErrorMsg(m, v)
  <1>1. ThreadSound(t, Cur(m)) /\ Shape(m) /\ DOMAIN m = MachineFields
    BY LiveFacts
  <1>2. Keeps(m, m) /\ List(t.frames)
    BY <1>1, KeepsSelf DEF ThreadSound, FramesSound
  <1>3. \A w : Sound(Throw(m, w)) /\ Calm(m, Throw(m, w))
    BY <1>2, FailSound DEF Sound
  <1>4. CASE h = Nil \/ TypeOf(h) # "function"
    BY <1>3, <1>4 DEF ErrorMsg
  <1>5. CASE ~(h = Nil \/ TypeOf(h) # "function")
    <2>1. i # 0
      BY <1>5
    <2>2. t.frames # <<>>
      <3>1. i \in 1 .. Len(t.frames)
        BY <1>2, <2>1, ProtectorIs
      <3> QED
        BY <1>2, <3>1, ListFacts
    <2> DEFINE ret  == Ret("handler", 0, 1)
               vals == <<v>>
    <2>3. n = Ask(m, "call", h, vals, ret)
      BY <1>5 DEF ErrorMsg, Invoke
    <2>4. ret.k = "handler"
      BY DEF Ret
    <2> HIDE DEF ret, vals, h
    <2>5. SameBut(m, n) /\ n.todo.op = "call" /\ n.todo.ret = ret
      BY <1>1, <2>3, AskSame
    <2> HIDE DEF n
    <2>6. Live(n) /\ CurTh(n) = t /\ Calm(m, n)
      <3>1. Calm(m, m)
        BY DEF Calm
      <3> QED
        BY <2>5, <3>1, SameButSound
    <2>7. CallSound(n)
      BY <2>2, <2>4, <2>5, <2>6 DEF CallSound
    <2> QED
      BY <2>5, <2>6, <2>7 DEF Sound, Going, TodoSound, n
  <1> QED
    BY <1>4, <1>5

LEMMA ResumedSound ==
  ASSUME NEW m, NEW ok, NEW vals, m.ans = <<>>, Stored(m), Running(m, Len(m.run) - 1)
  PROVE  LET n == Resumed(m, ok, vals) IN Sound(n) /\ Calm(m, n)
  <1> DEFINE l == Len(m.run)
             r == [m EXCEPT !.run = Front(@)]
             n == Resumed(m, ok, vals)
  <1>1. /\ Stored(m) /\ Running(m, l - 1) /\ m.ans = <<>> /\ DOMAIN m = MachineFields /\ List(m.run)
        /\ l \in Nat /\ l - 1 \in Nat /\ l - 1 # 0
    BY ListFacts DEF Stored, Running
  <1>2. DOMAIN r = MachineFields /\ r.th = m.th /\ r.uv = m.uv /\ r.ans = <<>> /\ r.run = Front(m.run)
    BY <1>1 DEF MachineFields
  <1> HIDE DEF r
  <1>3. List(r.run) /\ Len(r.run) = l - 1 /\ \A i \in 1 .. l - 1 : r.run[i] = m.run[i]
    <2>1. m.run # <<>>
      BY <1>1, ListFacts
    <2> QED
      BY <1>1, <1>2, <2>1, ListFront
  <1> HIDE DEF l
  <1>4. /\ m.run[1] = 1
        /\ \A i \in 1 .. l - 1 : m.run[i] \in 1 .. Len(m.th) /\ m.th[m.run[i]].status = "ok"
        /\ \A i, j \in 1 .. l - 1 : m.run[i] = m.run[j] => i = j
        /\ \A i \in 1 .. l - 1 : Waits(m.th[m.run[i]])
        /\ \A i \in 1 .. Len(m.th) :
              m.th[i].status = "ok" /\ m.th[i].frames # <<>> => \E j \in 1 .. l - 1 : m.run[j] = i
    BY <1>1 DEF Running, l
  <1> DEFINE k == l - 1
  <1>5. 1 \in 1 .. k /\ k \in Nat /\ k # 0 /\ k <= k /\ \A i \in 1 .. k - 1 : i \in 1 .. k
    BY <1>1
  <1>6. Running(r, k)
    <2>1. Len(r.run) = k /\ (\A i \in 1 .. k : r.run[i] = m.run[i])
      BY <1>3
    <2>2. /\ m.run[1] = 1
          /\ \A i \in 1 .. k : m.run[i] \in 1 .. Len(m.th) /\ m.th[m.run[i]].status = "ok"
          /\ \A i, j \in 1 .. k : m.run[i] = m.run[j] => i = j
          /\ \A i \in 1 .. k : Waits(m.th[m.run[i]])
          /\ \A i \in 1 .. Len(m.th) :
                m.th[i].status = "ok" /\ m.th[i].frames # <<>> => \E j \in 1 .. k : m.run[j] = i
      BY <1>4
    <2> HIDE DEF k
    <2>3. \A i \in 1 .. k : r.run[i] \in 1 .. Len(r.th) /\ r.th[r.run[i]].status = "ok" /\ Waits(r.th[r.run[i]])
      BY <1>2, <2>1, <2>2
    <2>4. r.run[1] = 1 /\ \A i, j \in 1 .. k : r.run[i] = r.run[j] => i = j
      BY <1>5, <2>1, <2>2
    <2>5. ASSUME NEW i \in 1 .. Len(r.th), r.th[i].status = "ok", r.th[i].frames # <<>>
          PROVE  \E j \in 1 .. k : r.run[j] = i
      <3>1. PICK j \in 1 .. k : m.run[j] = i
        BY <1>2, <2>2, <2>5
      <3> QED
        BY <2>1, <3>1
    <2>6. \A i \in 1 .. Len(r.run) - 1 : Waits(r.th[r.run[i]])
      BY <1>5, <2>1, <2>3
    <2> QED
      BY <1>5, <2>1, <2>3, <2>4, <2>5, <2>6 DEF Running
  <1>7. Live(r)
    <2>1. Stored(r)
      BY <1>1, <1>2, <1>3 DEF Stored, ThreadsSound, UpvalsSound, UpvalSound
    <2> QED
      BY <1>2, <1>3, <1>6, <2>1 DEF Live
  <1>8. COn(CurTh(r))
    <2>1. k \in 1 .. k /\ r.run[k] = m.run[k] /\ Len(r.run) = k
      BY <1>3, <1>5
    <2>2. Waits(r.th[r.run[k]])
      BY <1>2, <1>4, <2>1
    <2>3. CurTh(r) = r.th[r.run[k]]
      BY <2>1 DEF CurTh, Cur, Last
    <2> QED
      BY <2>2, <2>3 DEF Waits, COn, Ran
  <1>9. Calm(m, r)
    BY <1>2 DEF Calm
  <1>10. Keeps(r, r)
    BY <1>7, SoundShape, KeepsSelf DEF Live
  <1>11. (\E w : n = Return(r, w)) \/ (\E w : n = Error(r, w))
    BY DEF Resumed, r
  <1>12. Going(n) /\ SameBut(r, n)
    <2>1. Going(n)
      BY <1>7, <1>8, <1>10, <1>11, CAsks
    <2>2. SameBut(r, n)
      BY <1>2, <1>11, AskSame DEF Return, Error
    <2> QED
      BY <2>1, <2>2
  <1> HIDE DEF n
  <1>13. Calm(m, n)
    BY <1>9, <1>12, SameButSound
  <1> QED
    BY <1>12, <1>13 DEF Sound, n

-----------------------------------------------------------------------------
(* The upvalues a new function finds.                                        *)

LEMMA ListConcat ==
  ASSUME NEW s, NEW q, List(s), List(q)
  PROVE  /\ List(s \o q) /\ Len(s \o q) = Len(s) + Len(q)
         /\ \A i \in 1 .. Len(s) + Len(q) : (s \o q)[i] = IF i <= Len(s) THEN s[i] ELSE q[i - Len(s)]
  <1>1. PICK S : s \in Seq(S)
    BY DEF List
  <1>2. PICK T : q \in Seq(T)
    BY DEF List
  <1>3. s \in Seq(S \cup T) /\ q \in Seq(S \cup T)
    <2>1. Len(s) \in Nat /\ s \in [1 .. Len(s) -> S \cup T]
      BY <1>1
    <2>2. Len(q) \in Nat /\ q \in [1 .. Len(q) -> S \cup T]
      BY <1>2
    <2> QED
      BY <2>1, <2>2, SeqDef
  <1> QED
    BY <1>3, ConcatProperties DEF List

(* Every element of a finite set is in its sequence once. *)
LEMMA SetSequence ==
  ASSUME NEW S, IsFiniteSet(S)
  PROVE  LET q == SetToSeq(S)
         IN  /\ List(q) /\ \A i \in 1 .. Len(q) : q[i] \in S
             /\ \A i, j \in 1 .. Len(q) : q[i] = q[j] => i = j
  <1> DEFINE n == Cardinality(S)
             q == SetToSeq(S)
  <1>1. n \in Nat /\ ExistsBijection(1 .. n, S)
    BY FS_CardinalityType
  <1>2. \E f \in [1 .. n -> S] : IsInjective(f)
    BY <1>1 DEF ExistsBijection, Bijection, Injection
  <1>3. q \in [1 .. n -> S] /\ IsInjective(q)
    BY <1>2 DEF SetToSeq
  <1> HIDE DEF n, q
  <1>4. q \in Seq(S) /\ Len(q) = n
    BY <1>1, <1>3, SeqDef
  <1> QED
    BY <1>3, <1>4 DEF List, IsInjective, q

LEMMA FewUpvals ==
  ASSUME NEW J, NEW f, J \subseteq 1 .. 255
  PROVE  IsFiniteSet({f[j] : j \in J})
  <1> DEFINE T == {f[j] : j \in J}
             g == [j \in J |-> f[j]]
  <1>1. IsFiniteSet(J)
    <2>1. J \in SUBSET Nat /\ 255 \in Nat /\ \A j \in J : j <= 255
      OBVIOUS
    <2> QED
      BY <2>1, FS_BoundedSetOfNaturals
  <1>2. g \in Surjection(J, T)
    BY DEF Surjection
  <1> HIDE DEF g, T
  <1>3. IsFiniteSet(T)
    BY <1>1, <1>2, FS_Surjection
  <1> QED
    BY <1>3 DEF T

(* The upvalues a new function finds: those it makes are open in the frame *)
(* on top, and none was there before.                                      *)
Sought(m, n, S) ==
  /\ DOMAIN n = MachineFields /\ n.th = m.th /\ n.run = m.run /\ n.ans = m.ans /\ n.todo = m.todo
  /\ n.uv = FindUpvals(m.uv, S)

LEMMA FoundLive ==
  ASSUME NEW m, NEW n, NEW S, Live(m), LuaOn(CurTh(m)), Sought(m, n, S), IsFiniteSet(S),
         \A u \in S : u.th = Cur(m) /\ u.fr = Depth(m)
  PROVE  Live(n) /\ Calm(m, n) /\ Cur(n) = Cur(m) /\ CurTh(n) = CurTh(m)
  <1> DEFINE q == SetToSeq(S \ Range(m.uv))
             l == Len(m.uv)
  <1>1. List(m.uv) /\ l \in Nat /\ DOMAIN m.uv = 1 .. l
    BY ListFacts DEF Live, Stored, UpvalsSound
  <1>2. IsFiniteSet(S \ Range(m.uv))
    BY FS_Subset
  <1>3. /\ List(q) /\ \A i \in 1 .. Len(q) : q[i] \in S \ Range(m.uv)
        /\ \A i, j \in 1 .. Len(q) : q[i] = q[j] => i = j
    BY <1>2, SetSequence
  <1>4. \A i \in 1 .. Len(q) : q[i] \in S /\ \A j \in 1 .. l : m.uv[j] # q[i]
    BY <1>1, <1>3 DEF Range
  <1>5. n.uv = m.uv \o q
    BY DEF Sought, FindUpvals
  <1> HIDE DEF q
  <1>6. /\ List(n.uv) /\ Len(n.uv) = l + Len(q) /\ Len(q) \in Nat
        /\ \A i \in 1 .. l + Len(q) : n.uv[i] = IF i <= l THEN m.uv[i] ELSE q[i - l]
    BY <1>1, <1>3, <1>5, ListConcat, ListFacts
  <1>7. Depth(m) \in 1 .. Len(CurTh(m).frames) /\ IsLua(CurTh(m).frames[Depth(m)].cl)
        /\ Cur(m) \in 1 .. Len(m.th) /\ CurTh(m) = m.th[Cur(m)]
    <2>1. List(CurTh(m).frames) /\ CurTh(m).frames # <<>>
      BY LiveFacts DEF ThreadSound, FramesSound, LuaOn, Ran
    <2>2. Len(CurTh(m).frames) \in Nat /\ Len(CurTh(m).frames) # 0
      BY <2>1, ListFacts
    <2> QED
      BY <2>2, LiveFacts DEF LuaOn, Depth, Last
  <1> HIDE DEF l
  <1>8. ASSUME NEW i \in 1 .. Len(n.uv)
        PROVE  \/ i \in 1 .. l /\ n.uv[i] = m.uv[i]
               \/ i - l \in 1 .. Len(q) /\ n.uv[i] = q[i - l] /\ i > l
    BY <1>1, <1>6
  <1>9. ASSUME NEW i \in 1 .. Len(n.uv), IsOpenUpval(n.uv[i])
        PROVE  UpvalSound(n, n.uv[i])
    <2>1. CASE i \in 1 .. l /\ n.uv[i] = m.uv[i]
      <3>1. UpvalSound(m, m.uv[i])
        BY <1>9, <2>1 DEF Live, Stored, UpvalsSound, l
      <3> QED
        BY <2>1, <3>1 DEF UpvalSound, Sought
    <2>2. CASE i - l \in 1 .. Len(q) /\ n.uv[i] = q[i - l] /\ i > l
      <3>1. n.uv[i].th = Cur(m) /\ n.uv[i].fr = Depth(m)
        BY <1>4, <2>2
      <3> QED
        BY <1>7, <3>1 DEF UpvalSound, Sought
    <2> QED
      BY <1>8, <2>1, <2>2
  <1>10. ASSUME NEW i \in 1 .. Len(n.uv), NEW j \in 1 .. Len(n.uv), IsOpenUpval(n.uv[i]), n.uv[i] = n.uv[j]
         PROVE  i = j
    <2>1. CASE i \in 1 .. l /\ n.uv[i] = m.uv[i] /\ j \in 1 .. l /\ n.uv[j] = m.uv[j]
      BY <1>10, <2>1 DEF Live, Stored, UpvalsSound, l
    <2>2. CASE i - l \in 1 .. Len(q) /\ n.uv[i] = q[i - l] /\ j - l \in 1 .. Len(q) /\ n.uv[j] = q[j - l]
      <3>1. i - l = j - l
        BY <1>3, <1>10, <2>2
      <3> QED
        BY <1>1, <1>6, <3>1 DEF l
    <2>3. CASE i \in 1 .. l /\ n.uv[i] = m.uv[i] /\ j - l \in 1 .. Len(q) /\ n.uv[j] = q[j - l]
      BY <1>4, <1>10, <2>3
    <2>4. CASE i - l \in 1 .. Len(q) /\ n.uv[i] = q[i - l] /\ j \in 1 .. l /\ n.uv[j] = m.uv[j]
      BY <1>4, <1>10, <2>4
    <2> QED
      BY <1>8, <2>1, <2>2, <2>3, <2>4
  <1>11. Stored(n)
    BY <1>6, <1>9, <1>10 DEF Sought, Live, Stored, ThreadsSound, UpvalsSound
  <1>12. Running(n, Len(n.run))
    BY DEF Sought, Live, Running
  <1> QED
    BY <1>11, <1>12, LiveFacts DEF Sought, Live, Calm, Cur, CurTh

-----------------------------------------------------------------------------
(* The instructions that call, return and make functions.                    *)

(* What a step comes to. *)
Kept == Sound(M)' /\ Calm(M, M')

LEMMA MachineIs ==
  /\ DOMAIN M = MachineFields /\ M.th = threads /\ M.run = running /\ M.cl = closures
  /\ M.uv = upvals /\ M.tab = tables /\ M.todo = todo /\ M.ans = ans
  BY DEF M, MachineFields

LEMMA SameTodo ==
  ASSUME NEW m, NEW n, SameBut(m, n), n.todo = m.todo, Sound(m)
  PROVE  Sound(n)
  <1>1. Cur(n) = Cur(m) /\ CurTh(n) = CurTh(m) /\ n.ans = m.ans /\ n.run = m.run
    BY SameButSound DEF SameBut
  <1>2. CASE Going(m)
    <2>1. Live(n) /\ (NoOpen(m) => NoOpen(n))
      BY <1>2, SameButSound DEF Going
    <2>2. TodoSound(n)
      BY <1>1, <1>2, <2>1 DEF Going, TodoSound, CallSound
    <2> QED
      BY <2>1, <2>2 DEF Sound, Going
  <1>3. CASE Leaving(m)
    BY <1>1, <1>3, SameButSound DEF Sound, Leaving
  <1>4. CASE Ended(m)
    BY <1>1, <1>4, SameButSound DEF Sound, Ended
  <1> QED
    BY <1>2, <1>3, <1>4 DEF Sound

LEMMA BecomesKept ==
  ASSUME NEW n, Becomes(n), Sound(n), Calm(M, n)
  PROVE  Kept
  <1>1. /\ M'.th = n.th /\ M'.run = n.run /\ M'.uv = n.uv /\ M'.todo = n.todo /\ M'.ans = n.ans
        /\ DOMAIN M' = MachineFields
    BY DEF Becomes, M, MachineFields
  <1>2. DOMAIN n = MachineFields
    BY DEF Sound, Going, Leaving, Ended, Live, Stored
  <1>3. SameBut(n, M')
    BY <1>1, <1>2 DEF SameBut
  <1>4. Sound(M')
    BY <1>1, <1>3, SameTodo
  <1>5. Calm(M, M')
    BY <1>3, SameButSound
  <1> QED
    BY <1>4, <1>5 DEF Kept

(* The machine between two instructions. *)
LEMMA AtInstruction ==
  ASSUME Sound(M), ans = <<>>, todo = Idle
  PROVE  /\ Live(M) /\ LuaOn(CurTh(M)) /\ Quiet(M) /\ Framed(M) /\ Shape(M)
         /\ Idles(M, Now) /\ Keeps(M, Now) /\ Live(Now) /\ LuaOn(CurTh(Now)) /\ Now.todo.op = "none"
         /\ Calm(M, Now) /\ Cur(Now) = Cur(M) /\ Quiet(Now) /\ Writes(Now)
         /\ SameThread(CurTh(M), CurTh(Now))
  <1>1. M.todo.op = "none" /\ M.ans = <<>>
    BY MachineIs DEF Idle
  <1>2. Going(M)
    BY <1>1 DEF Sound, Leaving, Ended
  <1>3. Live(M) /\ LuaOn(CurTh(M))
    BY <1>1, <1>2 DEF Going, TodoSound
  <1>4. Framed(M) /\ Quiet(M) /\ Shape(M)
    BY <1>1, <1>3, LiveFacts DEF LuaOn, Ran, Quiet
  <1>5. Idles(M, Now) /\ Quiet(Now) /\ Keeps(M, Now) /\ Writes(Now)
    BY <1>4, QuietNow DEF Idles
  <1>6. Live(Now) /\ SameThread(CurTh(M), CurTh(Now)) /\ ThreadSound(CurTh(M), Cur(M)) /\ Cur(Now) = Cur(M)
    BY <1>3, <1>5, KeepsLive
  <1>7. LuaOn(CurTh(Now))
    BY <1>3, <1>6, SameThreadSound
  <1>8. Calm(M, Now)
    BY <1>3, <1>5, KeepsCalm DEF Live
  <1> QED
    BY <1>3, <1>4, <1>5, <1>6, <1>7, <1>8 DEF Quiet

LEMMA StepsKept ==
  ASSUME Sound(M), ans = <<>>, todo = Idle, Steps
  PROVE  Kept
  <1>1. Live(M) /\ LuaOn(CurTh(M)) /\ Quiet(M)
    BY AtInstruction
  <1>2. Stepped
    BY <1>1, StepsStep
  <1>3. PICK n : Becomes(n) /\ LuaStep(M, n)
    BY <1>2 DEF Stepped
  <1>4. Going(n) /\ Calm(M, n)
    BY <1>1, <1>3, LuaStepSound
  <1> QED
    BY <1>3, <1>4, BecomesKept DEF Sound

(* A call from an instruction. *)
LEMMA CallFromLua ==
  ASSUME Sound(M), ans = <<>>, todo = Idle, NEW f, NEW args, NEW ret, ret.k = "call"
  PROVE  Called(Now, Precall(Now, f, args, ret))
  <1>1. Live(Now) /\ LuaOn(CurTh(Now)) /\ Now.todo.op = "none"
    BY AtInstruction
  <1> DEFINE t == CurTh(Now)
  <1>2. t.frames # <<>> /\ Level(t) /\ IsLua(Last(t.frames).cl) /\ Last(t.frames).nC = 0
    BY <1>1 DEF LuaOn, Ran
  <1>3. ThreadSound(t, Cur(Now))
    BY <1>1, LiveFacts
  <1>4. Fits(t, Cur(Now), "call")
    <2>1. NestedIn(t.frames) \in Nat /\ t.nC \in Int /\ t.baseC \in Nat
      BY <1>3, NestedNumber DEF ThreadSound, FramesSound
    <2>2. OnTop("call", Last(t.frames))
      BY <1>2 DEF OnTop, LuaKinds
    <2>3. Nests("call") = 0
      BY DEF Nests
    <2> HIDE DEF t
    <2> QED
      BY <1>2, <2>1, <2>2, <2>3 DEF Fits, Level, AtLevel
  <1> QED
    BY <1>1, <1>4, PrecallSound

LEMMA CallFunctionKept ==
  ASSUME Sound(M), ans = <<>>, todo = Idle, CallFunction
  PROVE  Kept
  <1> DEFINE ret == Ret("call", I.a, I.c - 1)
             n   == Precall(Now, R(I.a), Operands(I.a + 1, I.b), ret)
  <1>1. Becomes(n)
    BY DEF CallFunction
  <1>2. ret.k = "call"
    BY DEF Ret
  <1>3. Called(Now, n)
    BY <1>2, CallFromLua
  <1> HIDE DEF n
  <1>4. Going(n) /\ Calm(Now, n)
    BY <1>3 DEF Called
  <1>5. Calm(M, n)
    BY <1>4, AtInstruction, CalmTwice
  <1> QED
    BY <1>1, <1>4, <1>5, BecomesKept DEF Sound

LEMMA ReturnFromKept ==
  ASSUME Sound(M), ans = <<>>, todo = Idle, ReturnFrom
  PROVE  Kept
  <1> DEFINE c    == CloseFrames(Now, Depth(M))
             vals == Operands(I.a, I.b)
             n    == Return(c, vals)
             goes == {i \in 1 .. Len(Now.uv) : Now.uv[i].th = Cur(Now) /\ Now.uv[i].fr >= Depth(M)}
  <1>1. Becomes(n)
    BY DEF ReturnFrom
  <1>2. Live(Now) /\ LuaOn(CurTh(Now)) /\ Shape(Now) /\ Shape(M)
    BY AtInstruction, LiveFacts
  <1>3. Closed(Now, c, goes)
    BY <1>2, CloseFramesIs
  <1>4. Keeps(Now, c)
    BY <1>2, <1>3, KeepsClosed
  <1>5. Depth(c) = Depth(M) /\ Depth(c) \in Nat
    <2>1. Framed(Now) /\ Framed(M)
      BY <1>2, AtInstruction, LiveFacts DEF LuaOn, Ran
    <2>2. Depth(Now) = Depth(M)
      BY <2>1, AtInstruction, KeepsFramed
    <2>3. Depth(c) = Depth(Now) /\ Framed(c)
      BY <1>4, <2>1, KeepsFramed
    <2>4. List(CurTh(c).frames)
      BY <2>3 DEF Framed, Shape, ThreadShape, CurTh
    <2> QED
      BY <2>2, <2>3, <2>4, ListFacts DEF Depth
  <1> HIDE DEF c, vals
  <1>6. Live(c) /\ Cur(c) = Cur(Now) /\ LuaOn(CurTh(c))
    BY <1>2, <1>4, KeepsLive, SameThreadSound
  <1>7. NoOpen(c)
    BY <1>3, <1>5, <1>6 DEF NoOpen, Closed
  <1>8. SameBut(c, n) /\ n.todo.op = "return"
    <2>1. DOMAIN c = MachineFields
      BY <1>3 DEF Closed
    <2> QED
      BY <2>1, AskSame DEF Return
  <1> HIDE DEF n
  <1>9. Live(n) /\ NoOpen(n) /\ CurTh(n) = CurTh(c)
    BY <1>6, <1>7, <1>8, SameButSound
  <1>10. Going(n)
    BY <1>6, <1>8, <1>9 DEF Going, TodoSound, LuaOn
  <1>11. Calm(M, n)
    <2>1. Calm(Now, c)
      BY <1>2, <1>4, KeepsCalm DEF Live
    <2>2. Calm(Now, n)
      BY <1>8, <2>1, SameButSound
    <2> QED
      BY <2>2, AtInstruction, CalmTwice
  <1> QED
    BY <1>1, <1>10, <1>11, BecomesKept DEF Sound

LEMMA OneBelow ==
  ASSUME NEW d \in Nat, d # 0, d # 1
  PROVE  d - 1 \in 1 .. d - 1
  OBVIOUS

(* The frame that is entered takes the place of the one under it. *)
LEMMA ReplaceSound ==
  ASSUME NEW l, NEW p, NEW n, NEW c, NEW d, NEW ret, Live(l), LuaOn(CurTh(l)), d = Len(CurTh(l).frames),
         ret = Last(CurTh(l).frames).ret,
         Going(p), Calm(l, p), Entered(l, p), p.todo.op = "none",
         Closed(p, c, {i \in 1 .. Len(p.uv) : p.uv[i].th = Cur(p) /\ p.uv[i].fr >= d}),
         WithThread(c, n, Cur(p),
                    [CurTh(p) EXCEPT !.frames = Append(SubSeq(CurTh(p).frames, 1, d - 1), [Top(p) EXCEPT !.ret = ret])])
  PROVE  Going(n) /\ Calm(l, n)
  <1> DEFINE t  == CurTh(p)
             fs == CurTh(l).frames
             g  == [Top(p) EXCEPT !.ret = ret]
             es == SubSeq(t.frames, 1, d - 1)
             hs == Append(es, g)
             u  == [t EXCEPT !.frames = hs]
             ci == Cur(p)
  <1>1. /\ ThreadSound(CurTh(l), Cur(l)) /\ List(fs) /\ fs # <<>> /\ d \in Nat /\ d # 0 /\ Shape(l)
        /\ FramesSound(fs, CurTh(l).baseC, FirstKind(Cur(l))) /\ Level(CurTh(l))
    BY LiveFacts, ListFacts DEF ThreadSound, FramesSound, LuaOn, Ran
  <1>2. /\ Live(p) /\ ThreadSound(t, ci) /\ t.status = "ok" /\ Shape(p) /\ ci = Cur(l) /\ t = p.th[ci]
        /\ t.nC = CurTh(l).nC /\ t.baseC = CurTh(l).baseC /\ ci \in 1 .. Len(p.th)
    BY LiveFacts DEF Going, Entered
  <1>3. PICK gs, f : /\ t.frames = Append(gs, f) /\ SameFrames(fs, gs)
                     /\ DOMAIN f = FrameFields /\ f.nC = 0 /\ IsLua(f.cl)
    BY DEF Entered
  <1>4. /\ List(gs) /\ Len(gs) = d /\ SameRets(fs, gs) /\ gs # <<>>
        /\ FramesSound(gs, t.baseC, FirstKind(ci))
    BY <1>1, <1>2, <1>3, SameFramesSound, ListFacts DEF SameFrames
  <1>5. Last(gs).ret = ret /\ Top(p) = f
    <2>1. d \in 1 .. Len(fs)
      BY <1>1
    <2>2. gs[d].ret = fs[d].ret
      BY <1>3, <2>1 DEF SameFrames, SameFrame
    <2>3. Last(gs) = gs[d] /\ Last(fs) = fs[d]
      BY <1>4 DEF Last
    <2>4. Last(t.frames) = f
      BY <1>3, <1>4, FrontAppend
    <2> QED
      BY <2>2, <2>3, <2>4 DEF Top
  <1>6. /\ DOMAIN g = FrameFields /\ g.cl = f.cl /\ g.ret = ret /\ g.nC = 0
    BY <1>3, <1>5 DEF FrameFields
  <1> HIDE DEF g
  <1>7. d - 1 \in Nat /\ d - 1 <= d /\ d - 1 <= Len(gs)
    BY <1>1, <1>4
  <1>8. es = SubSeq(gs, 1, d - 1)
    <2>1. SubSeq(Append(gs, f), 1, d - 1) = SubSeq(gs, 1, d - 1)
      BY <1>4, <1>7, PrefixAppend
    <2> QED
      BY <1>3, <2>1
  <1>9. /\ List(es) /\ Len(es) = d - 1 /\ (\A i \in 1 .. d - 1 : es[i] = gs[i])
        /\ FramesSound(es, t.baseC, FirstKind(ci))
    <2> HIDE DEF es, t, ci
    <2>1. /\ List(SubSeq(gs, 1, d - 1)) /\ Len(SubSeq(gs, 1, d - 1)) = d - 1
          /\ \A i \in 1 .. d - 1 : SubSeq(gs, 1, d - 1)[i] = gs[i]
      BY <1>4, <1>7, ListPrefix
    <2>2. FramesSound(SubSeq(gs, 1, d - 1), t.baseC, FirstKind(ci))
      BY <1>4, <1>7, PrefixSound
    <2> QED
      BY <1>8, <2>1, <2>2
  <1> HIDE DEF es
  <1>10. IF es = <<>> THEN ret.k = FirstKind(ci) ELSE OnTop(ret.k, Last(es))
    <2>1. FrameSound(gs, t.baseC, FirstKind(ci), d) /\ Last(gs) = gs[d]
      <3>1. d \in 1 .. Len(gs)
        BY <1>1, <1>4
      <3> QED
        BY <1>4, <3>1 DEF FramesSound, Last
    <2>2. es = <<>> <=> d = 1
      <3>1. es = <<>> <=> d - 1 = 0
        BY <1>9, ListFacts
      <3> QED
        BY <1>1, <3>1
    <2>3. CASE d = 1
      BY <1>5, <2>1, <2>2, <2>3 DEF FrameSound
    <2>4. CASE d # 1
      <3>1. d - 1 \in 1 .. d - 1
        <4>1. d \in Nat /\ d # 0 /\ d # 1
          BY <1>1, <2>4
        <4> QED
          BY <4>1, OneBelow
      <3>2. Last(es) = gs[d - 1]
        BY <1>9, <3>1 DEF Last
      <3> QED
        BY <1>5, <2>1, <2>2, <2>4, <3>2 DEF FrameSound
    <2> QED
      BY <2>3, <2>4
  <1>11. FramesSound(hs, t.baseC, FirstKind(ci))
    BY <1>6, <1>9, <1>10, PushFrame
  <1>12. /\ List(hs) /\ Len(hs) = d /\ hs # <<>> /\ Last(hs) = g
         /\ \A i \in 1 .. d : hs[i] = IF i = d THEN g ELSE gs[i]
    <2>1. List(hs) /\ Len(hs) = (d - 1) + 1 /\ hs # <<>> /\ Last(hs) = g
      BY <1>9, ListAppend, FrontAppend
    <2>2. hs[(d - 1) + 1] = g /\ \A i \in 1 .. d - 1 : hs[i] = es[i]
      BY <1>9, ListAppend
    <2>3. (d - 1) + 1 = d
      BY <1>1
    <2> HIDE DEF hs
    <2>4. \A i \in 1 .. d : i = d \/ i \in 1 .. d - 1
      BY <1>1
    <2> QED
      BY <1>9, <2>1, <2>2, <2>3, <2>4
  <1> HIDE DEF hs
  <1>13. SameRets(gs, hs)
    <2>1. \A i \in 1 .. d : gs[i].ret = hs[i].ret
      <3>1. Last(gs) = gs[d]
        BY <1>4 DEF Last
      <3> QED
        BY <1>5, <1>6, <1>12, <3>1
    <2> QED
      BY <1>4, <1>12, <2>1 DEF SameRets
  <1>14. AtLevel(t.nC, t.baseC, hs)
    <2>1. AtLevel(t.nC, t.baseC, fs)
      BY <1>1, <1>2 DEF Level
    <2>2. AtLevel(t.nC, t.baseC, gs)
      BY <1>4, <2>1, SameRetsLevel
    <2> QED
      BY <1>13, <2>2, SameRetsLevel
  <1>15. /\ DOMAIN u = ThreadFields /\ u.frames = hs /\ u.status = "ok" /\ u.stack = t.stack
         /\ u.nC = t.nC /\ u.baseC = t.baseC
    BY <1>2 DEF ThreadSound, ThreadFields
  <1> HIDE DEF u
  <1>16. ThreadSound(u, ci)
    <2>1. /\ t.stack # <<>> => IsLua(t.stack[1])
          /\ t.nC \in Int /\ t.baseC \in Nat
      BY <1>2 DEF ThreadSound
    <2>2. ci # 1 => t.baseC # 0
      BY <1>1, <1>2 DEF ThreadSound
    <2> HIDE DEF t, ci
    <2> QED
      BY <1>11, <1>15, <2>1, <2>2 DEF ThreadSound
  <1>17. LuaOn(u)
    BY <1>3, <1>6, <1>12, <1>14, <1>15 DEF LuaOn, Ran, Level
  <1>18. /\ DOMAIN n = MachineFields /\ n.run = p.run /\ n.ans = p.ans /\ n.todo = p.todo
         /\ n.th = [p.th EXCEPT ![ci] = u] /\ n.uv = c.uv
         /\ List(c.uv) /\ Len(c.uv) = Len(p.uv)
         /\ \A i \in 1 .. Len(p.uv) : IsOpenUpval(c.uv[i]) =>
               c.uv[i] = p.uv[i] /\ ~(p.uv[i].th = ci /\ p.uv[i].fr >= d)
    <2>1. u = [CurTh(p) EXCEPT !.frames = Append(SubSeq(CurTh(p).frames, 1, d - 1), [Top(p) EXCEPT !.ret = ret])]
      BY DEF u, hs, es, g
    <2>2. WithThread(c, n, ci, u)
      BY <2>1
    <2> QED
      BY <2>2 DEF WithThread, Closed
  <1>19. Changed(p, n, u)
    <2>1. ASSUME NEW i \in 1 .. Len(p.uv), IsOpenUpval(c.uv[i]), c.uv[i].th = ci
          PROVE  c.uv[i].fr \in 1 .. Len(hs) /\ IsLua(hs[c.uv[i].fr].cl)
      <3>1. c.uv[i] = p.uv[i] /\ ~(p.uv[i].fr >= d) /\ p.uv[i].th = ci
        BY <1>18, <2>1
      <3>2. UpvalSound(p, p.uv[i])
        BY <1>2, <2>1, <3>1 DEF Live, Stored, UpvalsSound
      <3> DEFINE r == p.uv[i].fr
      <3>3. r \in 1 .. Len(t.frames) /\ IsLua(t.frames[r].cl)
        BY <1>2, <3>1, <3>2 DEF UpvalSound
      <3>4. Len(t.frames) = d + 1 /\ \A j \in 1 .. d : t.frames[j] = gs[j]
        BY <1>3, <1>4, ListAppend
      <3> HIDE DEF r, t
      <3>5. r \in 1 .. d /\ r # d
        BY <1>1, <3>1, <3>3, <3>4 DEF r
      <3>6. hs[r] = t.frames[r]
        BY <1>12, <3>4, <3>5
      <3> QED
        BY <1>12, <3>1, <3>3, <3>5, <3>6 DEF r
    <2> QED
      BY <1>15, <1>18, <2>1 DEF Changed
  <1>20. Live(n) /\ CurTh(n) = u /\ Calm(p, n)
    BY <1>2, <1>15, <1>16, <1>19, ChangedSound, ChangedLive
  <1>21. Going(n)
    BY <1>17, <1>18, <1>20 DEF Going, TodoSound
  <1>22. Calm(l, n)
    BY <1>1, <1>2, <1>20, CalmChain
  <1> QED
    BY <1>21, <1>22

LEMMA TailCallKept ==
  ASSUME Sound(M), ans = <<>>, todo = Idle, TailCall
  PROVE  Kept
  <1> DEFINE ret == Ret("call", I.a, MultRet)
             p   == Precall(Now, R(I.a), Operands(I.a + 1, I.b), ret)
             n   == Replaced(p)
             d   == Depth(M)
             c   == CloseFrames(p, d)
             u   == [CurTh(p) EXCEPT !.frames = Append(SubSeq(CurTh(p).frames, 1, d - 1), [Top(p) EXCEPT !.ret = Fr.ret])]
  <1>1. Becomes(n)
    BY DEF TailCall
  <1>2. ret.k = "call"
    BY DEF Ret
  <1>3. Called(Now, p)
    BY <1>2, CallFromLua
  <1> HIDE DEF p
  <1>4. Going(p) /\ Calm(Now, p) /\ (p.todo.op = "none" => Entered(Now, p))
    BY <1>3 DEF Called
  <1>5. Going(n) /\ Calm(Now, n)
    <2>1. CASE p.todo # Idle
      BY <1>4, <2>1 DEF Replaced
    <2>2. CASE p.todo = Idle
      <3>1. n = [c EXCEPT !.th[Cur(p)].frames = Append(SubSeq(@, 1, d - 1), [Top(p) EXCEPT !.ret = Fr.ret])]
        BY <2>2 DEF Replaced
      <3>2. Shape(p)
        BY <1>4, LiveFacts DEF Going
      <3>3. Closed(p, c, {i \in 1 .. Len(p.uv) : p.uv[i].th = Cur(p) /\ p.uv[i].fr >= d})
        BY <3>2, CloseFramesIs
      <3> HIDE DEF c, n
      <3>4. WithThread(c, n, Cur(p), u)
        <4>1. DOMAIN c = MachineFields /\ c.th = p.th
          BY <3>3 DEF Closed
        <4>2. CurTh(p) = c.th[Cur(p)]
          BY <4>1 DEF CurTh
        <4> QED
          BY <3>1, <4>1, <4>2 DEF WithThread, MachineFields
      <3>5. Live(Now) /\ LuaOn(CurTh(Now))
        BY AtInstruction
      <3>6. d = Len(CurTh(Now).frames) /\ Fr.ret = Last(CurTh(Now).frames).ret
        <4>1. Framed(M) /\ Keeps(M, Now)
          BY AtInstruction
        <4>2. Depth(Now) = Depth(M) /\ SameFrame(Top(M), Top(Now))
          BY <4>1, KeepsFramed
        <4> QED
          BY <4>2 DEF Depth, Top, SameFrame, Fr
      <3>7. p.todo.op = "none" /\ Entered(Now, p)
        BY <1>4, <2>2 DEF Idle
      <3> DEFINE rt == Fr.ret
      <3> HIDE DEF d, rt
      <3>8. WithThread(c, n, Cur(p),
                [CurTh(p) EXCEPT !.frames = Append(SubSeq(CurTh(p).frames, 1, d - 1), [Top(p) EXCEPT !.ret = rt])])
        BY <3>4 DEF rt
      <3>9. rt = Last(CurTh(Now).frames).ret
        BY <3>6 DEF rt
      <3> QED
        BY <1>4, <3>3, <3>5, <3>6, <3>7, <3>8, <3>9, ReplaceSound
    <2> QED
      BY <2>1, <2>2
  <1> HIDE DEF n
  <1>6. Calm(M, n)
    BY <1>5, AtInstruction, CalmTwice
  <1> QED
    BY <1>1, <1>5, <1>6, BecomesKept DEF Sound

(* What a step of the Lua function at hand does to what it has been brought to. *)
LEMMA IdlesKept ==
  ASSUME NEW m, NEW n, Live(m), LuaOn(CurTh(m)), m.todo.op = "none", Idles(m, n)
  PROVE  Going(n) /\ Calm(m, n)
  <1>1. Quiet(m)
    BY LiveFacts DEF Quiet, LuaOn, Ran
  <1>2. LuaStep(m, n)
    BY <1>1, IdlesQuiet
  <1> QED
    BY <1>2, LuaStepSound

LEMMA MakeClosureKept ==
  ASSUME Sound(M), ans = <<>>, todo = Idle, MakeClosure
  PROVE  Kept
  <1> DEFINE p == P.p[I.b + 1]
             From(j)   == P.code[Fr.pc + j]
             Shared(j) == From(j).o = "GETUPVAL"
             Local(j)  == OpenUpval(Cur(M), Depth(M), From(j).b)
             J   == {i \in Nups(p) : ~Shared(i)}
             S   == {Local(j) : j \in J}
             uv  == FindUpvals(upvals, S)
             ids == [j \in Nups(p) |-> IF Shared(j) THEN closures[Fr.cl[2]].upvals[From(j).b + 1]
                                       ELSE UpvalId(uv, Local(j))]
             made == [Now EXCEPT !.uv = uv, !.cl = Append(@, [p |-> p, upvals |-> ids])]
             n    == SetReg(Goto(made, Fr.pc + 1 + p.nups), I.a, <<"function", Len(closures) + 1>>)
  <1>1. Becomes(n)
    BY DEF MakeClosure
  <1>2. /\ Live(Now) /\ LuaOn(CurTh(Now)) /\ Now.todo.op = "none" /\ Cur(Now) = Cur(M)
        /\ Depth(Now) = Depth(M) /\ Now.uv = upvals /\ DOMAIN Now = MachineFields
    <2>1. Framed(M) /\ Keeps(M, Now) /\ Live(Now) /\ Framed(Now)
      BY AtInstruction, KeepsFramed
    <2>2. Depth(Now) = Depth(M)
      BY <2>1, KeepsFramed
    <2>3. Now.uv = M.uv
      <3>1. DOMAIN M = MachineFields
        BY MachineIs
      <3> QED
        BY <3>1, SetTopIs DEF Now, Goto, WithThread
    <2> QED
      BY <2>1, <2>2, <2>3, AtInstruction, MachineIs DEF Framed, Shape
  <1>3. IsFiniteSet(S)
    <2> DEFINE f == [j \in J |-> Local(j)]
    <2>1. J \subseteq 1 .. 255
      BY DEF Nups
    <2>2. S = {f[j] : j \in J}
      OBVIOUS
    <2> HIDE DEF S, J, f
    <2> QED
      BY <2>1, <2>2, FewUpvals
  <1>4. \A u \in S : u.th = Cur(Now) /\ u.fr = Depth(Now)
    BY <1>2 DEF OpenUpval
  <1> HIDE DEF S, ids
  <1>5. Sought(Now, made, S)
    BY <1>2 DEF Sought, MachineFields
  <1> HIDE DEF made
  <1>6. /\ Live(made) /\ Calm(Now, made) /\ Cur(made) = Cur(Now) /\ CurTh(made) = CurTh(Now)
    BY <1>2, <1>3, <1>4, <1>5, FoundLive
  <1>7. LuaOn(CurTh(made)) /\ made.todo.op = "none"
    BY <1>2, <1>5, <1>6 DEF Sought
  <1>8. Idles(made, n)
    <2> DEFINE q  == Goto(made, Fr.pc + 1 + p.nups)
               id == Len(closures) + 1
    <2>1. Framed(made) /\ Quiet(made)
      BY <1>6, <1>7, LiveFacts DEF Quiet, LuaOn, Ran
    <2>2. Idles(made, q)
      BY <2>1, WritesStay DEF Writes
    <2> HIDE DEF q, id
    <2>3. Writes(q)
      BY <2>1, <2>2, IdlesIs
    <2>4. Idles(q, SetReg(q, I.a, <<"function", id>>))
      BY <2>3 DEF Writes
    <2>5. Idles(made, SetReg(q, I.a, <<"function", id>>))
      BY <2>1, <2>2, <2>4, IdlesTwice
    <2> QED
      BY <2>5 DEF q, id
  <1> HIDE DEF n
  <1>9. Going(n) /\ Calm(made, n)
    BY <1>6, <1>7, <1>8, IdlesKept
  <1>10. Calm(M, n)
    <2>1. Shape(Now) /\ Shape(made)
      BY <1>2, <1>6, LiveFacts
    <2>2. Calm(Now, n)
      BY <1>6, <1>9, <2>1, CalmChain
    <2> QED
      BY <2>2, AtInstruction, CalmTwice
  <1> QED
    BY <1>1, <1>9, <1>10, BecomesKept DEF Sound

(* One instruction. *)
LEMMA ExecuteKept ==
  ASSUME Sound(M), Execute
  PROVE  Kept
  <1>1. ans = <<>> /\ todo = Idle
    BY DEF Execute, Executing, Move, LoadK, LoadBool, LoadNil, GetUpval, SetUpval,
           GetGlobal, SetGlobal, GetField, SetField, SelfIndex, CreateTable, Arithmetic, Negate, Not, Length,
           Concatenate, JumpTo, Compare, Test, TestSet, CallFunction, TailCall, ReturnFrom,
           ForPrep, ForLoop, TForLoop, SetListItems, Close, MakeClosure, Vararg
  <1>2. Steps \/ CallFunction \/ TailCall \/ ReturnFrom \/ MakeClosure
    BY DEF Execute, Steps
  <1> QED
    BY <1>1, <1>2, StepsKept, CallFunctionKept, TailCallKept, ReturnFromKept, MakeClosureKept

-----------------------------------------------------------------------------
(* What is left to be done.                                                  *)

(* What is left to be done, and the machine that does it. *)
LEMMA ReadyIs ==
  ASSUME Sound(M)
  PROVE  /\ SameBut(M, Ready) /\ Ready.todo = Idle /\ Ready.todo.op = "none"
         /\ Cur(Ready) = Cur(M) /\ CurTh(Ready) = CurTh(M)
         /\ Live(M) => Live(Ready)
         /\ \A n : Calm(Ready, n) => Calm(M, n)
         /\ Going(M) \/ Leaving(M) \/ ans # <<>>
  <1>1. SameBut(M, Ready) /\ Ready.todo = Idle
    BY MachineIs DEF SameBut, Ready, MachineFields
  <1>2. Idle.op = "none"
    BY DEF Idle
  <1>3. Going(M) \/ Leaving(M) \/ ans # <<>>
    BY MachineIs DEF Sound, Ended
  <1> HIDE DEF Ready
  <1> QED
    BY <1>1, <1>2, <1>3, SameButSound

LEMMA ReadyKept ==
  ASSUME Sound(M), NEW n, Becomes(n), Sound(n), Calm(Ready, n)
  PROVE  Kept
  BY ReadyIs, BecomesKept

(* A Lua function goes on with what it asked for. *)
LEMMA DoLuaKept ==
  ASSUME Sound(M), DoConcat \/ DoGetTable \/ DoSetTable
  PROVE  Kept
  <1>1. Ready.todo.op = "none" /\ ans = <<>> /\ todo.op \in {"concat", "gettable", "settable"} /\ M.todo = todo
    BY ReadyIs, MachineIs DEF DoConcat, DoGetTable, DoSetTable, Doing
  <1>2. Live(M) /\ LuaOn(CurTh(M))
    BY <1>1, ReadyIs DEF Leaving, Going, TodoSound
  <1>3. Live(Ready) /\ LuaOn(CurTh(Ready))
    BY <1>2, ReadyIs
  <1>4. Quiet(Ready)
    BY <1>1, <1>3, LiveFacts DEF Quiet, LuaOn, Ran
  <1>5. \E n : Becomes(n) /\ LuaStep(Ready, n)
    BY <1>4, ConcatenationStep, IndexStep, NewIndexStep DEF DoConcat, DoGetTable, DoSetTable
  <1>6. PICK n : Becomes(n) /\ LuaStep(Ready, n)
    BY <1>5
  <1>7. Going(n) /\ Calm(Ready, n)
    BY <1>3, <1>6, LuaStepSound
  <1> QED
    BY <1>6, <1>7, ReadyKept DEF Sound

LEMMA DoCallKept ==
  ASSUME Sound(M), DoCall
  PROVE  Kept
  <1> DEFINE n == CallD(Ready, todo.v, todo.vals, todo.ret)
             u == [CurTh(M) EXCEPT !.nC = @ + 1]
  <1>1. Becomes(n) /\ ans = <<>> /\ M.todo = todo /\ todo.op = "call"
    BY MachineIs DEF DoCall, Doing
  <1>2. Live(M) /\ CallSound(M)
    BY <1>1, ReadyIs DEF Leaving, Going, TodoSound
  <1>3. Live(Ready) /\ Cur(Ready) = Cur(M) /\ CurTh(Ready) = CurTh(M) /\ Ready.todo.op = "none"
    BY <1>2, ReadyIs
  <1>4. /\ ThreadSound(u, Cur(M)) /\ Fits(u, Cur(M), M.todo.ret.k) /\ u.status = "ok"
        /\ u.frames = CurTh(M).frames
    BY <1>2, CallFits
  <1>5. LET w == [CurTh(Ready) EXCEPT !.nC = @ + 1]
        IN  /\ ThreadSound(w, Cur(Ready)) /\ Fits(w, Cur(Ready), todo.ret.k) /\ w.status = "ok"
            /\ w.frames = CurTh(Ready).frames
    BY <1>1, <1>3, <1>4
  <1>6. Going(n) /\ Calm(Ready, n)
    BY <1>3, <1>5, CallDSound
  <1> HIDE DEF n
  <1> QED
    BY <1>1, <1>6, ReadyKept DEF Sound

LEMMA DoCKept ==
  ASSUME Sound(M), DoCFunction \/ DoAgain
  PROVE  Kept
  <1>1. Ready.todo.op = "none" /\ ans = <<>> /\ todo.op \in {"c", "again"} /\ M.todo = todo
    BY ReadyIs, MachineIs DEF DoCFunction, DoAgain, Doing
  <1>2. Live(M) /\ TodoSound(M)
    BY <1>1, ReadyIs DEF Leaving, Going
  <1>3. Live(Ready) /\ CurTh(Ready) = CurTh(M)
    BY <1>2, ReadyIs
  <1>4. CASE DoCFunction
    <2> DEFINE n == CallC(Ready, todo.v, todo.vals)
    <2>1. Becomes(n) /\ todo.op = "c"
      BY <1>4 DEF DoCFunction, Doing
    <2>2. COn(CurTh(M)) /\ Last(CurTh(M).frames).cl = todo.v /\ Last(CurTh(M).frames).nC = 0
      BY <1>1, <1>2, <2>1 DEF TodoSound
    <2>3. Sound(n) /\ Calm(Ready, n)
      BY <1>1, <1>3, <2>2, CallCSound
    <2> HIDE DEF n
    <2> QED
      BY <2>1, <2>3, ReadyKept
  <1>5. CASE DoAgain
    <2> DEFINE n == GoRound(Ready)
    <2>1. Becomes(n) /\ todo.op = "again"
      BY <1>5 DEF DoAgain, Doing
    <2>2. COn(CurTh(M))
      BY <1>1, <1>2, <2>1 DEF TodoSound
    <2>3. Going(n) /\ Calm(Ready, n)
      BY <1>3, <2>2, GoesOnSound
    <2> HIDE DEF n
    <2> QED
      BY <2>1, <2>3, ReadyKept DEF Sound
  <1> QED
    BY <1>4, <1>5

LEMMA DoReturnKept ==
  ASSUME Sound(M), DoReturn
  PROVE  Kept
  <1> DEFINE n == Deliver(Pop(Ready), Top(Ready).ret, todo.vals)
  <1>1. ans = <<>> /\ todo.op = "return" /\ M.todo = todo
    BY MachineIs DEF DoReturn, Doing
  <1>2. Live(M) /\ Ran(CurTh(M)) /\ NoOpen(M)
    BY <1>1, ReadyIs DEF Leaving, Going, TodoSound
  <1>3. Live(Ready) /\ Ran(CurTh(Ready)) /\ NoOpen(Ready) /\ Ready.todo.op = "none"
    BY <1>2, ReadyIs, SameButSound
  <1>4. Fr.ret = Top(Ready).ret
    BY ReadyIs DEF Fr, Top
  <1>5. Becomes(n)
    BY <1>4 DEF DoReturn
  <1>6. Sound(n) /\ Calm(Ready, n)
    BY <1>3, DeliverSound
  <1> HIDE DEF n
  <1> QED
    BY <1>5, <1>6, ReadyKept

LEMMA DoFailKept ==
  ASSUME Sound(M), DoError \/ DoThrow
  PROVE  Kept
  <1>1. ans = <<>> /\ todo.op \in {"error", "throw"} /\ M.todo = todo
    BY MachineIs DEF DoError, DoThrow, Doing
  <1>2. Live(M) /\ AtLeast(CurTh(M))
    BY <1>1, ReadyIs DEF Leaving, Going, TodoSound
  <1>3. Live(Ready) /\ AtLeast(CurTh(Ready))
    BY <1>2, ReadyIs
  <1>4. /\ \A v : Sound(ErrorMsg(Ready, v)) /\ Calm(Ready, ErrorMsg(Ready, v))
        /\ \A v : Sound(Unwind(Ready, v)) /\ Calm(Ready, Unwind(Ready, v))
    BY <1>3, ErrorMsgSound, UnwindSound
  <1> QED
    BY <1>4, ReadyKept DEF DoError, DoThrow

LEMMA DoResumedKept ==
  ASSUME Sound(M), DoResumed
  PROVE  Kept
  <1> DEFINE n == Resumed(Ready, todo.v[2], todo.vals)
  <1>1. Becomes(n) /\ ans = <<>> /\ todo.op = "resumer" /\ M.todo = todo
    BY MachineIs DEF DoResumed, Doing
  <1>2. Leaving(M)
    BY <1>1, ReadyIs DEF Going, TodoSound
  <1>3. SameBut(M, Ready)
    BY ReadyIs
  <1>4. Stored(Ready) /\ Running(Ready, Len(M.run) - 1)
    BY <1>2, <1>3, SameButSound DEF Leaving
  <1>5. Ready.run = M.run /\ Ready.ans = <<>>
    BY <1>2, <1>3 DEF SameBut, Leaving
  <1>6. Sound(n) /\ Calm(Ready, n)
    BY <1>4, <1>5, ResumedSound
  <1> HIDE DEF n
  <1> QED
    BY <1>1, <1>6, ReadyKept

LEMMA PendingKept ==
  ASSUME Sound(M), Pending
  PROVE  Kept
  BY DoCallKept, DoCKept, DoReturnKept, DoFailKept, DoResumedKept, DoLuaKept DEF Pending

-----------------------------------------------------------------------------
(* The chunk is loaded, and the invariant holds.                             *)

(* Before the chunk is loaded: the main thread, at rest. *)
AtRest ==
  /\ threads = <<Thread(<<>>)>> /\ running = <<1>> /\ upvals = <<>>
  /\ todo = Idle /\ ans = <<>>
Inv == IF compiled = <<>> THEN AtRest ELSE Sound(M)

LEMMA One ==
  ASSUME NEW x
  PROVE  List(<<x>>) /\ Len(<<x>>) = 1 /\ <<x>>[1] = x
  <1>1. <<x>> \in Seq({x})
    OBVIOUS
  <1> QED
    BY <1>1 DEF List

LEMMA MainThread ==
  LET t == Thread(<<>>)
  IN  ThreadSound(t, 1) /\ t.status = "ok" /\ t.frames = <<>> /\ Level(t)
  <1> DEFINE t == Thread(<<>>)
  <1>1. /\ DOMAIN t = ThreadFields /\ t.frames = <<>> /\ t.status = "ok" /\ t.stack = <<>>
        /\ t.nC = 0 /\ t.baseC = 0
    BY DEF Thread, ThreadFields
  <1> HIDE DEF t
  <1>2. NestedIn(<<>>) = 0
    BY NoFrames, NoneNestedIn
  <1>3. Level(t)
    BY <1>1, <1>2 DEF Level, AtLevel
  <1>4. ThreadSound(t, 1)
    BY <1>1, NoFrames DEF ThreadSound, FirstKind
  <1> QED
    BY <1>1, <1>3, <1>4 DEF t

(* A machine as it is made.                                                  *)
AsMade(m) == DOMAIN m = MachineFields /\ m.th = <<Thread(<<>>)>> /\ m.run = <<1>> /\ m.uv = <<>>

LEMMA RestStored ==
  ASSUME NEW m, AsMade(m)
  PROVE  Stored(m) /\ Running(m, 1) /\ Cur(m) = 1 /\ CurTh(m) = Thread(<<>>) /\ Len(m.run) = 1
  <1> DEFINE t == Thread(<<>>)
  <1> USE DEF AsMade
  <1>1. List(m.th) /\ Len(m.th) = 1 /\ m.th[1] = t
    BY One
  <1>2. List(m.run) /\ Len(m.run) = 1 /\ m.run[1] = 1
    BY One
  <1>3. List(m.uv) /\ Len(m.uv) = 0
    BY NoFrames
  <1>4. ThreadSound(t, 1) /\ t.status = "ok" /\ t.frames = <<>>
    BY MainThread
  <1> HIDE DEF t
  <1>5. ThreadsSound(m)
    BY <1>1, <1>4 DEF ThreadsSound
  <1>6. UpvalsSound(m)
    BY <1>3 DEF UpvalsSound
  <1>7. Running(m, 1)
    BY <1>1, <1>2, <1>4 DEF Running
  <1>8. Cur(m) = 1 /\ CurTh(m) = t
    BY <1>1, <1>2 DEF Cur, CurTh, Last
  <1> QED
    BY <1>2, <1>5, <1>6, <1>7, <1>8 DEF Stored, t

LEMMA LoadSound ==
  ASSUME compiled = <<>>, AtRest, chunk \in DOMAIN Chunks, Load
  PROVE  compiled' # <<>> /\ Sound(M)'
  <1>1. /\ DOMAIN M' = MachineFields /\ M'.th = <<Thread(<<>>)>> /\ M'.run = <<1>> /\ M'.uv = <<>>
        /\ M'.ans = ans' /\ M'.todo = todo'
    BY DEF M, MachineFields, Load, AtRest
  <1>2. compiled' # <<>>
    BY ChunksAssumption DEF Load
  <1> DEFINE m == M'
  <1> HIDE DEF m
  <1>3. /\ DOMAIN m = MachineFields /\ m.th = <<Thread(<<>>)>> /\ m.run = <<1>> /\ m.uv = <<>>
        /\ m.ans = ans' /\ m.todo = todo'
    BY <1>1 DEF m
  <1>4. Stored(m) /\ Running(m, Len(m.run)) /\ Cur(m) = 1 /\ CurTh(m) = Thread(<<>>)
    BY <1>3, RestStored DEF AsMade
  <1>5. CASE compiled'.err = ""
    <2>0. /\ todo' = [op |-> "call", v |-> <<"function", 1>>, vals |-> <<>>, ret |-> Ret("host", 0, -1)]
          /\ ans' = ans
      BY <1>5 DEF Load
    <2>1. m.ans = <<>> /\ m.todo.op = "call" /\ m.todo.ret.k = "host"
      <3>1. m.ans = <<>> /\ m.todo.ret = Ret("host", 0, -1) /\ m.todo.op = "call"
        BY <1>3, <2>0 DEF AtRest
      <3> QED
        BY <3>1 DEF Ret
    <2>2. CallSound(m)
      BY <1>4, <2>1, MainThread DEF CallSound
    <2>3. Going(m)
      BY <1>4, <2>1, <2>2 DEF Going, Live, TodoSound
    <2> QED
      BY <1>2, <2>3 DEF m, Sound
  <1>6. CASE compiled'.err # ""
    <2>1. m.ans = <<"error", Str(compiled'.err)>>
      BY <1>3, <1>6 DEF Load
    <2>2. m.ans # <<>>
      BY <2>1
    <2>3. Ended(m)
      BY <1>4, <2>2 DEF Ended
    <2> QED
      BY <1>2, <2>3 DEF m, Sound
  <1> QED
    BY <1>5, <1>6

LEMMA NextKeeps ==
  ASSUME Inv, chunk \in DOMAIN Chunks, [Next]_vars
  PROVE  /\ Inv' /\ chunk' \in DOMAIN Chunks
         /\ compiled # <<>> => Calm(M, M') \/ M' = M
  <1>1. CASE Load
    <2>1. compiled = <<>> /\ AtRest
      BY <1>1 DEF Load, Inv
    <2> QED
      BY <1>1, <2>1, LoadSound DEF Load, Inv
  <1>2. CASE Execute \/ Pending
    <2>1. compiled # <<>>
      <3>1. ASSUME compiled = <<>>, Pending
            PROVE  FALSE
        BY <3>1 DEF Inv, AtRest, Idle, Pending, DoCall, DoCFunction, DoAgain, DoReturn, DoError, DoThrow,
                    DoResumed, DoConcat, DoGetTable, DoSetTable, Doing
      <3>2. ASSUME Execute
            PROVE  compiled # <<>>
        BY <3>2 DEF Execute, Executing, Move, LoadK, LoadBool, LoadNil, GetUpval, SetUpval,
           GetGlobal, SetGlobal, GetField, SetField, SelfIndex, CreateTable, Arithmetic, Negate, Not, Length,
           Concatenate, JumpTo, Compare, Test, TestSet, CallFunction, TailCall, ReturnFrom,
           ForPrep, ForLoop, TForLoop, SetListItems, Close, MakeClosure, Vararg
      <3> QED
        BY <1>2, <3>1, <3>2
    <2>2. Sound(M)
      BY <2>1 DEF Inv
    <2>3. Kept
      BY <1>2, <2>2, ExecuteKept, PendingKept
    <2>4. compiled' = compiled /\ chunk' = chunk
      <3>1. ASSUME NEW m, Becomes(m)
            PROVE  compiled' = compiled /\ chunk' = chunk
        BY <3>1 DEF Becomes
      <3>2. \E m : Becomes(m)
        <4>1. CASE Pending
          BY <4>1 DEF Pending, DoCall, DoCFunction, DoAgain, DoReturn, DoError, DoThrow,
                    DoResumed, DoConcat, DoGetTable, DoSetTable
        <4>2. CASE Execute
          BY <4>2 DEF Execute, Move, LoadK, LoadBool, LoadNil, GetUpval, SetUpval,
           GetGlobal, SetGlobal, GetField, SetField, SelfIndex, CreateTable, Arithmetic, Negate, Not, Length,
           Concatenate, JumpTo, Compare, Test, TestSet, CallFunction, TailCall, ReturnFrom,
           ForPrep, ForLoop, TForLoop, SetListItems, Close, MakeClosure, Vararg
        <4> QED
          BY <1>2, <4>1, <4>2
      <3> QED
        BY <3>1, <3>2
    <2> QED
      BY <2>1, <2>3, <2>4 DEF Kept, Inv
  <1>3. CASE UNCHANGED vars
    <2>1. M' = M /\ compiled' = compiled /\ chunk' = chunk
      BY <1>3 DEF vars, M
    <2>2. Inv'
      BY <1>3, <2>1 DEF Inv, AtRest, vars
    <2> QED
      BY <2>1, <2>2
  <1> QED
    BY <1>1, <1>2, <1>3 DEF Next, Done

(* The threads, the frames, the nesting and the open upvalues of the machine are in *)
(* order in every state, for every chunk (ldo.c, lvm.c, lfunc.c).            *)
THEOREM MachineSound == Spec => [](Inv /\ chunk \in DOMAIN Chunks)
  <1>1. Init => Inv /\ chunk \in DOMAIN Chunks
    BY DEF Init, Inv, AtRest
  <1>2. (Inv /\ chunk \in DOMAIN Chunks) /\ [Next]_vars => (Inv /\ chunk \in DOMAIN Chunks)'
    BY NextKeeps
  <1> QED
    BY <1>1, <1>2, PTL DEF Spec

-----------------------------------------------------------------------------
(* What follows from it.                                                     *)

LEMMA SoundNests ==
  ASSUME Inv
  PROVE  CallsNest
  <1> SUFFICES ASSUME todo = Idle, ans = <<>>, compiled # <<>>
               PROVE  /\ \A t \in Range(threads) :
                            /\ t.frames # <<>> /\ t.status = "ok" => AtLevel(t.nC, t.baseC, t.frames)
                            /\ t.status = "yield" => NestedIn(t.frames) = 0
                      /\ IsInjective(running)
                      /\ \A i \in 1 .. Len(running) - 1 :
                            Last(threads[running[i]].frames).cl[2] \in {"resume", "auxwrap"}
    BY DEF CallsNest
  <1>1. Live(M) /\ LuaOn(CurTh(M))
    BY AtInstruction DEF Inv
  <1>2. /\ ThreadsSound(M) /\ Running(M, Len(M.run)) /\ M.th = threads /\ M.run = running
        /\ List(threads) /\ List(running) /\ Len(running) \in Nat
    BY <1>1, MachineIs, ListFacts DEF Live, Stored, ThreadsSound
  <1>3. ASSUME NEW i \in 1 .. Len(threads), threads[i].status = "ok", threads[i].frames # <<>>
        PROVE  Level(threads[i])
    <2>1. PICK j \in 1 .. Len(running) : running[j] = i
      BY <1>2, <1>3 DEF Running
    <2>2. CASE j = Len(running)
      <3>1. Cur(M) = i /\ CurTh(M) = threads[i]
        BY <1>2, <2>1, <2>2 DEF Cur, CurTh, Last
      <3> QED
        BY <1>1, <3>1 DEF LuaOn, Ran
    <2>3. CASE j # Len(running)
      <3>1. j \in 1 .. Len(running) - 1
        BY <1>2, <2>3
      <3> QED
        BY <1>2, <2>1, <3>1 DEF Running, Waits
    <2> QED
      BY <2>2, <2>3
  <1>4. ASSUME NEW i \in 1 .. Len(threads), threads[i].status = "yield"
        PROVE  NestedIn(threads[i].frames) = 0
    <2>1. ThreadSound(threads[i], i)
      BY <1>2 DEF ThreadsSound
    <2>2. List(threads[i].frames) /\ Parked(threads[i])
      BY <1>4, <2>1 DEF ThreadSound, FramesSound
    <2> QED
      BY <2>2, NoneNestedIn DEF Parked
  <1>5. \A t \in Range(threads) : \E i \in 1 .. Len(threads) : t = threads[i]
    BY <1>2, ListFacts DEF Range
  <1>6. IsInjective(running)
    BY <1>2, ListFacts DEF IsInjective, Running
  <1>7. \A i \in 1 .. Len(running) - 1 : Last(threads[running[i]].frames).cl[2] \in {"resume", "auxwrap"}
    BY <1>2 DEF Running, Waits
  <1> QED
    BY <1>3, <1>4, <1>5, <1>6, <1>7 DEF Level

(* Between two instructions nCcalls of every thread is the nesting of its frames, *)
(* however calls were left, nothing nests in a coroutine that waits to be resumed, *)
(* and no coroutine runs twice (ldo.c).                                      *)
THEOREM CallsNestAlways == Spec => []CallsNest
  BY MachineSound, SoundNests, PTL

LEMMA DeadStays ==
  ASSUME Inv, chunk \in DOMAIN Chunks, [Next]_vars, NEW co \in DOMAIN threads, CoStatus(M, co) = "dead"
  PROVE  Stage(threads'[co]) = Stage(threads[co])
  <1>1. M.th = threads /\ M.run = running
    BY MachineIs
  <1>2. co # Cur(M) /\ Over(threads[co])
    <2> DEFINE t == threads[co]
    <2>1. "dead" = IF co = Cur(M) THEN "running"
                   ELSE IF t.status = "yield" THEN "suspended"
                   ELSE IF t.status = "error" THEN "dead"
                   ELSE IF t.frames # <<>> THEN "normal"
                   ELSE IF t.stack = <<>> THEN "dead"
                   ELSE "suspended"
      BY <1>1 DEF CoStatus
    <2> HIDE DEF t
    <2>2. co # Cur(M) /\ Over(t)
      BY <2>1 DEF Over
    <2> QED
      BY <2>2 DEF t
  <1>3. CASE compiled = <<>>
    <2>1. DOMAIN threads = {1} /\ Cur(M) = 1
      <3>1. threads = <<Thread(<<>>)>> /\ running = <<1>>
        BY <1>3 DEF Inv, AtRest
      <3>2. List(threads) /\ Len(threads) = 1 /\ Len(running) = 1 /\ running[1] = 1
        BY <3>1, One
      <3>3. DOMAIN threads = 1 .. 1
        BY <3>2, ListFacts
      <3> QED
        BY <1>1, <3>2, <3>3 DEF Cur, Last
    <2> QED
      BY <1>2, <2>1
  <1>4. CASE compiled # <<>>
    <2>1. Calm(M, M') \/ M' = M
      BY <1>4, NextKeeps
    <2>2. M'.th = threads'
      BY DEF M
    <2>3. co \in 1 .. Len(threads)
      BY <1>4, MachineIs, ListFacts DEF Inv, Sound, Going, Leaving, Ended, Live, Stored, ThreadsSound
    <2>4. CASE Calm(M, M')
      BY <1>1, <1>2, <2>2, <2>3, <2>4 DEF Calm
    <2>5. CASE M' = M
      BY <1>1, <2>2, <2>5
    <2> QED
      BY <2>1, <2>4, <2>5
  <1> QED
    BY <1>3, <1>4

(* No step of the machine changes the status, the frames or the place in the code *)
(* of a dead coroutine (ldo.c, lua_resume; lbaselib.c, auxresume).           *)
THEOREM DeadStaysDeadAlways == Spec => DeadStaysDead
  <1>1. Inv /\ chunk \in DOMAIN Chunks /\ [Next]_vars =>
          [\A co \in DOMAIN threads : CoStatus(M, co) = "dead" => Stage(threads'[co]) = Stage(threads[co])]_vars
    BY DeadStays
  <1> QED
    BY <1>1, MachineSound, PTL DEF Spec, DeadStaysDead

LEMMA SoundUpvals ==
  ASSUME Inv
  PROVE  UpvaluesInFrames
  <1>1. CASE compiled = <<>>
    <2>1. List(upvals) /\ Len(upvals) = 0
      BY <1>1, NoFrames DEF Inv, AtRest
    <2> QED
      BY <2>1, ListFacts DEF UpvaluesInFrames
  <1>2. CASE compiled # <<>>
    <2>1. Stored(M) /\ M.th = threads /\ M.uv = upvals
      BY <1>2, MachineIs DEF Inv, Sound, Going, Leaving, Ended, Live
    <2>2. /\ DOMAIN threads = 1 .. Len(threads) /\ DOMAIN upvals = 1 .. Len(upvals)
          /\ \A i \in 1 .. Len(threads) : DOMAIN threads[i].frames = 1 .. Len(threads[i].frames)
      BY <2>1, ListFacts DEF Stored, ThreadsSound, ThreadSound, FramesSound, UpvalsSound
    <2>3. ASSUME NEW i \in DOMAIN upvals, IsOpenUpval(upvals[i])
          PROVE  /\ upvals[i].th \in DOMAIN threads /\ upvals[i].fr \in DOMAIN threads[upvals[i].th].frames
                 /\ IsLua(threads[upvals[i].th].frames[upvals[i].fr].cl)
                 /\ \A j \in DOMAIN upvals : upvals[i] = upvals[j] => i = j
      BY <2>1, <2>2, <2>3 DEF Stored, UpvalsSound, UpvalSound
    <2> QED
      BY <2>3 DEF UpvaluesInFrames
  <1> QED
    BY <1>1, <1>2

(* Every open upvalue is in a frame that is there, of a Lua function, and no two *)
(* are in the same register: returns, errors and yields leave none behind    *)
(* (lfunc.c, luaF_close, luaF_findupval).                                    *)
THEOREM UpvaluesInFramesAlways == Spec => []UpvaluesInFrames
  BY MachineSound, SoundUpvals, PTL
=============================================================================
