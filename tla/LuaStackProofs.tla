--------------------------- MODULE LuaStackProofs ---------------------------
(***************************************************************************)
(* Theorems about LuaStack for every sequence of calls, with no bound on   *)
(* the frames, the size of the stack or what is left on it.  They assume   *)
(* that no vararg function is called with two fixed parameters or more     *)
(* missing: with two, FramesFit is false.                                  *)
(*                                                                         *)
(* FramesFit is not inductive: a return and an error set L->top from the   *)
(* callee's position, so that the order of the frames and the least size   *)
(* of a frame are needed to find the host's room after a call.             *)
(***************************************************************************)
EXTENDS LuaStack, SequenceTheorems, TLAPS

(* Call frame i starts at or above the base of the frame under it and has  *)
(* room for its function and two more slots.                               *)
Stacked(fs, i) ==
  /\ fs[i].kind # "host"
  /\ fs[i - 1].base <= fs[i].func
  /\ fs[i].func < fs[i].base
  /\ fs[i].base <= fs[i].top
  /\ fs[i].func + 3 <= fs[i].top

FramesOK(fs, s) ==
  /\ fs \in Seq(Frame) /\ Len(fs) >= 1
  /\ fs[1] = HostFrame
  /\ \A i \in 2 .. Len(fs) : Stacked(fs, i)
  /\ \A i \in 1 .. Len(fs) : fs[i].top <= StackLast(s)

(* What the host has pushed so far is on the stack. *)
HostTop ==
  /\ host \in {"idle", "named", "ready", "returned"} => top >= 1
  /\ host \in {"named", "ready", "returned"} => top >= 2
  /\ host = "ready" => top >= 3

(* A running function's slots are below L->top. *)
RunningTop == host = "running" => Current.base <= top

StackInv ==
  /\ StackTypeOK
  /\ FramesOK(frames, size)
  /\ HostRoom
  /\ HostTop
  /\ RunningTop
  /\ host = "running" <=> Len(frames) > 1

-----------------------------------------------------------------------------
(***************************************************************************)
(* The operators.                                                          *)
(***************************************************************************)

LEMMA LastIsInt ==
  ASSUME NEW s \in Nat
  PROVE  StackLast(s) \in Int
  BY SizesAssumption DEF StackLast

(* luaD_checkstack(L, n) leaves more than n slots above an L->top that was *)
(* inside the stack, and takes none away.                                  *)
LEMMA CheckedRoom ==
  ASSUME NEW s \in Nat, NEW t \in Nat, NEW n \in Nat, t <= StackLast(s)
  PROVE  /\ Checked(s, t, n) \in Nat
         /\ t + n + 1 <= StackLast(Checked(s, t, n))
         /\ StackLast(s) <= StackLast(Checked(s, t, n))
  BY SizesAssumption DEF Checked, Realloced, StackLast

(* Without the assumption that L->top is inside, at least nothing is lost. *)
LEMMA CheckedGrows ==
  ASSUME NEW s \in Nat, NEW t \in Nat, NEW n \in Nat
  PROVE  /\ Checked(s, t, n) \in Nat
         /\ StackLast(s) <= StackLast(Checked(s, t, n))
  BY SizesAssumption DEF Checked, Realloced, StackLast

(* Pushing a message leaves room for one more value than before it. *)
LEMMA MessageRoom ==
  ASSUME size \in Nat, NEW t \in Nat, t <= StackLast(size),
         NEW n \in Nat
  PROVE  /\ PushedMessage(t, n) \in Nat
         /\ StackLast(size) <= StackLast(PushedMessage(t, n))
         /\ n >= 1 => t + 1 <= StackLast(PushedMessage(t, n))
<1>1. CASE n = 0
  BY <1>1, SizesAssumption DEF PushedMessage, StackLast
<1>2. CASE n # 0
  <2>1. PushedMessage(t, n) = Checked(size, t + n - 1, 1)
    BY <1>2 DEF PushedMessage
  <2>2. /\ Checked(size, t + n - 1, 1) \in Nat
        /\ t + 1 <= StackLast(Checked(size, t + n - 1, 1))
        /\ StackLast(size) <= StackLast(Checked(size, t + n - 1, 1))
    BY <1>2, SizesAssumption DEF Checked, Realloced, StackLast
  <2> QED
    BY <2>1, <2>2
<1> QED
  BY <1>1, <1>2

(* What a frame's fields are. *)
LEMMA FrameFields ==
  ASSUME NEW s, NEW fs, FramesOK(fs, s), NEW i \in 1 .. Len(fs)
  PROVE  /\ fs[i] \in Frame
         /\ fs[i].func \in Nat /\ fs[i].base \in Nat /\ fs[i].top \in Nat
<1>1. fs[i] \in Frame
  BY ElementOfSeq DEF FramesOK
<1> QED
  BY <1>1 DEF Frame

(* A collection leaves every reserved slot inside the stack, and two free  *)
(* ones above L->top if there were two before.                             *)
LEMMA CollectRoom ==
  ASSUME NEW s \in Nat, NEW fs, NEW t \in Nat, FramesOK(fs, s),
         t <= StackLast(s), NEW c \in Collected(s, fs, t)
  PROVE  /\ c \in Nat
         /\ FramesOK(fs, c)
         /\ t <= StackLast(c)
         /\ \A k \in {1, 2} :
              t + k <= StackLast(s) => t + k <= StackLast(c)
<1>1. CASE c = s
  BY <1>1
<1>2. CASE c # s
  <2>1. PICK used \in Reserved(fs, t) :
          /\ \A p \in Reserved(fs, t) : p <= used
          /\ c = Shrunk(s, used)
    BY <1>2 DEF Collected
  <2>2. \A i \in 1 .. Len(fs) : fs[i] \in Frame /\ fs[i].top \in Nat
    BY FrameFields
  <2>3. DOMAIN fs = 1 .. Len(fs)
    BY LenProperties DEF FramesOK
  <2>4. \A i \in 1 .. Len(fs) : fs[i].top <= used
    BY <2>1, <2>3 DEF Reserved
  <2>5. t <= used
    BY <2>1 DEF Reserved
  <2>6. used \in Nat
    BY <2>1, <2>2, <2>3 DEF Reserved
  <2>7. 1 + MinStack <= used
    BY <2>4, SizesAssumption DEF FramesOK, HostFrame
  <2>8. /\ 4 * used < s
        /\ c = s \div 2 + 1 + ExtraStack
    BY <1>2, <2>1 DEF Shrunk, Realloced
  <2>9. /\ c \in Nat
        /\ 2 * used <= StackLast(c)
    <3>1. s \div 2 \in Nat /\ 2 * used <= s \div 2
      BY <2>6, <2>8
    <3>2. StackLast(c) = s \div 2
      BY <2>8, <3>1, SizesAssumption DEF StackLast
    <3> QED
      BY <2>8, <3>1, <3>2, SizesAssumption
  <2>10. StackLast(c) \in Int
    BY <2>9, SizesAssumption DEF StackLast
  <2>11. used + 4 <= StackLast(c)
    <3>1. 4 <= used
      BY <2>6, <2>7, SizesAssumption
    <3> QED
      BY <2>6, <2>9, <2>10, <3>1
  <2>12. \A i \in 1 .. Len(fs) : fs[i].top <= StackLast(c)
    BY <2>2, <2>4, <2>6, <2>10, <2>11
  <2> QED
    BY <2>5, <2>6, <2>9, <2>10, <2>11, <2>12 DEF FramesOK
<1> QED
  BY <1>1, <1>2

-----------------------------------------------------------------------------
(***************************************************************************)
(* Sequences of frames.                                                    *)
(***************************************************************************)

(* A larger stack is as good. *)
LEMMA FramesMonotone ==
  ASSUME NEW s \in Nat, NEW r \in Nat, NEW fs, FramesOK(fs, s),
         StackLast(s) <= StackLast(r)
  PROVE  FramesOK(fs, r)
<1>1. \A i \in 1 .. Len(fs) : fs[i].top \in Nat
  BY FrameFields
<1> QED
  BY <1>1, SizesAssumption DEF FramesOK, StackLast

(* A call enters a new frame. *)
LEMMA FramesAppend ==
  ASSUME NEW s \in Nat, NEW fs, FramesOK(fs, s),
         NEW f \in Frame, f.kind # "host",
         fs[Len(fs)].base <= f.func, f.func < f.base, f.base <= f.top,
         f.func + 3 <= f.top, f.top <= StackLast(s)
  PROVE  /\ FramesOK(Append(fs, f), s)
         /\ Len(Append(fs, f)) = Len(fs) + 1
         /\ Append(fs, f)[Len(fs) + 1] = f
<1> DEFINE gs == Append(fs, f)
<1>1. /\ gs \in Seq(Frame)
      /\ Len(gs) = Len(fs) + 1
      /\ \A i \in 1 .. Len(fs) : gs[i] = fs[i]
      /\ gs[Len(fs) + 1] = f
      /\ Len(fs) \in Nat /\ Len(fs) >= 1
  BY AppendProperties, LenProperties DEF FramesOK
<1> HIDE DEF gs
<1>2. \A i \in 2 .. Len(gs) : Stacked(gs, i)
  <2>1. TAKE i \in 2 .. Len(gs)
  <2>2. CASE i <= Len(fs)
    <3>1. i \in 2 .. Len(fs) /\ i \in 1 .. Len(fs) /\ i - 1 \in 1 .. Len(fs)
      BY <1>1, <2>2
    <3> QED
      BY <1>1, <3>1 DEF FramesOK, Stacked
  <2>3. CASE i = Len(fs) + 1
    <3>1. gs[i] = f /\ gs[i - 1] = fs[Len(fs)]
      BY <1>1, <2>3
    <3> QED
      BY <3>1 DEF Stacked
  <2> QED
    BY <1>1, <2>2, <2>3
<1>3. \A i \in 1 .. Len(gs) : gs[i].top <= StackLast(s)
  <2>1. TAKE i \in 1 .. Len(gs)
  <2>2. CASE i \in 1 .. Len(fs)
    BY <1>1, <2>2 DEF FramesOK
  <2>3. CASE i = Len(fs) + 1
    BY <1>1, <2>3
  <2> QED
    BY <1>1, <2>2, <2>3
<1>4. gs[1] = HostFrame
  BY <1>1 DEF FramesOK
<1> QED
  BY <1>1, <1>2, <1>3, <1>4 DEF FramesOK, gs

(* A return and an error drop the frames above one. *)
LEMMA FramesPrefix ==
  ASSUME NEW s \in Nat, NEW fs, FramesOK(fs, s), NEW n \in 1 .. Len(fs)
  PROVE  /\ FramesOK(SubSeq(fs, 1, n), s)
         /\ Len(SubSeq(fs, 1, n)) = n
         /\ \A i \in 1 .. n : SubSeq(fs, 1, n)[i] = fs[i]
<1> DEFINE gs == SubSeq(fs, 1, n)
<1>1. Len(fs) \in Nat /\ DOMAIN fs = 1 .. Len(fs)
  BY LenProperties DEF FramesOK
<1>2. \A i \in 1 .. n : i \in DOMAIN fs
  BY <1>1
<1>3. gs \in Seq(Frame) /\ Len(gs) = n /\ \A i \in 1 .. n : gs[i] = fs[i]
  <2>1. fs \in Seq(Frame) /\ 1 \in Int /\ n \in Int
    BY <1>1 DEF FramesOK
  <2>2. \A i \in 1 .. n : fs[i] \in Frame
    BY <1>1, ElementOfSeq DEF FramesOK
  <2>3. /\ gs \in Seq(Frame)
        /\ Len(gs) = IF 1 <= n THEN n - 1 + 1 ELSE 0
        /\ \A i \in 1 .. n - 1 + 1 : gs[i] = fs[1 + i - 1]
    BY <1>1, <2>1, <2>2, SubSeqProperties
  <2> QED
    BY <1>1, <2>3
<1> HIDE DEF gs
<1>4. \A i \in 2 .. Len(gs) : Stacked(gs, i)
  <2>1. TAKE i \in 2 .. Len(gs)
  <2>2. i \in 2 .. Len(fs) /\ gs[i] = fs[i] /\ gs[i - 1] = fs[i - 1]
    BY <1>1, <1>3
  <2> QED
    BY <2>2 DEF FramesOK, Stacked
<1>5. \A i \in 1 .. Len(gs) : gs[i].top <= StackLast(s)
  BY <1>1, <1>3 DEF FramesOK
<1>6. gs[1] = HostFrame /\ Len(gs) >= 1
  BY <1>1, <1>3 DEF FramesOK
<1> QED
  BY <1>3, <1>4, <1>5, <1>6 DEF FramesOK, gs

(* The last frame is replaced by one with the same function. *)
LEMMA FramesReplace ==
  ASSUME NEW s \in Nat, NEW fs, FramesOK(fs, s), Len(fs) > 1,
         NEW f \in Frame, f.kind # "host",
         f.func = fs[Len(fs)].func, f.func < f.base, f.base <= f.top,
         f.func + 3 <= f.top, f.top <= StackLast(s),
         NEW gs \in Seq(Frame), Len(gs) = Len(fs),
         \A i \in 1 .. Len(fs) : gs[i] = IF i = Len(fs) THEN f ELSE fs[i]
  PROVE  /\ FramesOK(gs, s)
         /\ Len(gs) = Len(fs)
         /\ gs[Len(gs)] = f
<1>1. Len(fs) \in Nat /\ Len(fs) \in 1 .. Len(fs) /\ 1 \in 1 .. Len(fs)
  BY LenProperties DEF FramesOK
<1>2. \A i \in 1 .. Len(fs) : i # Len(fs) => gs[i] = fs[i]
  OBVIOUS
<1>3. gs[Len(fs)] = f
  BY <1>1
<1>4. \A i \in 2 .. Len(gs) : Stacked(gs, i)
  <2>1. TAKE i \in 2 .. Len(gs)
  <2>2. i \in 2 .. Len(fs) /\ i - 1 \in 1 .. Len(fs) /\ i - 1 # Len(fs)
    BY <1>1
  <2>3. gs[i - 1] = fs[i - 1]
    BY <1>2, <2>2
  <2>4. Stacked(fs, i)
    BY <2>2 DEF FramesOK
  <2>5. CASE i = Len(fs)
    BY <1>3, <2>3, <2>4, <2>5 DEF Stacked
  <2>6. CASE i # Len(fs)
    <3>1. gs[i] = fs[i]
      BY <1>1, <1>2, <2>2, <2>6
    <3> QED
      BY <3>1, <2>3, <2>4 DEF Stacked
  <2> QED
    BY <2>5, <2>6
<1>5. \A i \in 1 .. Len(gs) : gs[i].top <= StackLast(s)
  BY <1>1, <1>2, <1>3 DEF FramesOK
<1>6. gs[1] = HostFrame
  BY <1>1, <1>2 DEF FramesOK
<1> QED
  BY <1>1, <1>3, <1>4, <1>5, <1>6 DEF FramesOK

(* The current frame of a running call. *)
LEMMA CurrentFrame ==
  ASSUME StackInv
  PROVE  /\ Len(frames) \in Nat
         /\ Len(frames) \in 1 .. Len(frames)
         /\ DOMAIN frames = 1 .. Len(frames)
         /\ Current \in Frame
         /\ Current.base \in Nat /\ Current.func \in Nat
         /\ Current.top \in Nat
         /\ Current.top <= StackLast(size)
         /\ 1 <= Current.base
         /\ Current.base <= Current.top
         /\ host = "running" =>
              /\ Len(frames) >= 2
              /\ Current.kind # "host"
              /\ Current.func < Current.base
              /\ Current.func + 3 <= Current.top
<1>1. /\ Len(frames) \in Nat /\ Len(frames) \in 1 .. Len(frames)
      /\ DOMAIN frames = 1 .. Len(frames)
  BY LenProperties DEF StackInv, FramesOK
<1>2. Current \in Frame
  BY <1>1, ElementOfSeq DEF StackInv, FramesOK, Current
<1>3. Current.top <= StackLast(size)
  BY <1>1 DEF StackInv, FramesOK, Current
<1>4. Current.base \in Nat /\ Current.func \in Nat /\ Current.top \in Nat
  BY <1>2 DEF Frame
<1>5. CASE Len(frames) = 1
  <2>1. Current = HostFrame
    BY <1>5 DEF Current, StackInv, FramesOK
  <2> QED
    BY <1>1, <1>2, <1>3, <1>4, <1>5, <2>1, SizesAssumption
    DEF HostFrame, StackInv
<1>6. CASE Len(frames) > 1
  <2>1. Stacked(frames, Len(frames))
    BY <1>1, <1>6 DEF StackInv, FramesOK
  <2> QED
    BY <1>1, <1>2, <1>3, <1>4, <1>6, <2>1 DEF Stacked, Current, StackInv
<1> QED
  BY <1>1, <1>5, <1>6

-----------------------------------------------------------------------------
(***************************************************************************)
(* The steps.                                                              *)
(***************************************************************************)

(* No vararg function is called with two fixed parameters missing. *)
FewMissing == MaxMissing <= 1

(* What Enter needs of the frame it is about to push. *)
LEMMA EnterFrame ==
  ASSUME StackInv, NEW f \in Frame, frames' = Append(frames, f),
         size' \in Nat, FramesOK(frames, size'),
         f.kind # "host", Current.base <= f.func, f.func < f.base,
         f.base <= f.top, f.func + 3 <= f.top, f.top <= StackLast(size'),
         host' = "running", top' \in Nat, f.base <= top', top' <= f.top
  PROVE  StackInv'
<1>1. /\ FramesOK(Append(frames, f), size')
      /\ Len(Append(frames, f)) = Len(frames) + 1
      /\ Append(frames, f)[Len(frames) + 1] = f
  BY FramesAppend DEF Current
<1>2. /\ FramesOK(frames', size')
      /\ Len(frames') = Len(frames) + 1
      /\ Current' = f
  BY <1>1 DEF Current
<1>3. f.top \in Nat /\ f.base \in Nat /\ Len(frames) \in Nat
  BY CurrentFrame DEF Frame
<1>4. top' <= StackLast(size')
  BY <1>3, LastIsInt
<1>5. Len(frames') > 1
  BY <1>2, <1>3 DEF StackInv, StackTypeOK
<1> QED
  BY <1>2, <1>3, <1>4, <1>5
  DEF StackInv, StackTypeOK, FramesOK, HostRoom, HostTop, RunningTop, Phases

(* luaD_precall leaves the frame of a vararg function in the stack, also   *)
(* after the collection and the second check that an `arg' table takes.    *)
LEMMA VarargRoom ==
  ASSUME FewMissing, NEW s \in Nat, NEW t \in Nat, FramesOK(frames, s),
         NEW m \in FrameSizes, NEW missing \in 0 .. MaxMissing,
         t + m + 1 <= StackLast(s), NEW r \in VarargSizes(s, t, m, missing)
  PROVE  /\ r \in Nat
         /\ FramesOK(frames, r)
         /\ t + m + 1 <= StackLast(r)
         /\ t + missing + m <= StackLast(r)
<1>1. /\ m \in Nat /\ m >= 2 /\ missing \in Nat /\ missing <= 1
      /\ t + missing \in Nat /\ StackLast(s) \in Int
  BY SizesAssumption, LastIsInt DEF FewMissing
<1>2. CASE r = s
  BY <1>1, <1>2
<1>3. ASSUME NEW c \in Collected(s, frames, t + missing),
             r = Checked(c, t + missing, m)
      PROVE  /\ r \in Nat
             /\ FramesOK(frames, r)
             /\ t + missing + m + 1 <= StackLast(r)
  <2>1. t + missing <= StackLast(s)
    BY <1>1
  <2>2. c \in Nat /\ FramesOK(frames, c) /\ t + missing <= StackLast(c)
    BY <1>1, <2>1, CollectRoom
  <2>3. /\ r \in Nat /\ t + missing + m + 1 <= StackLast(r)
        /\ StackLast(c) <= StackLast(r)
    BY <1>1, <1>3, <2>2, CheckedRoom
  <2> QED
    BY <2>2, <2>3, FramesMonotone
<1>4. CASE r # s
  <2>1. PICK c \in Collected(s, frames, t + missing) :
          r = Checked(c, t + missing, m)
    BY <1>4 DEF VarargSizes
  <2>2. /\ r \in Nat /\ FramesOK(frames, r)
        /\ t + missing + m + 1 <= StackLast(r)
    BY <1>3, <2>1
  <2>3. StackLast(r) \in Int
    BY <2>2, LastIsInt
  <2> QED
    BY <1>1, <2>2, <2>3
<1> QED
  BY <1>2, <1>4

(* luaD_checkstack before a frame is placed at t. *)
LEMMA CheckedFrames ==
  ASSUME NEW s \in Nat, NEW t \in Nat, NEW n \in Nat, NEW fs,
         FramesOK(fs, s), t <= StackLast(s)
  PROVE  /\ Checked(s, t, n) \in Nat
         /\ FramesOK(fs, Checked(s, t, n))
         /\ t + n + 1 <= StackLast(Checked(s, t, n))
  BY CheckedRoom, FramesMonotone

LEMMA EnterFunctionKeeps ==
  ASSUME FewMissing, StackInv, NEW s \in Nat, FramesOK(frames, s),
         NEW func \in Nat, NEW t \in Nat, NEW guarded \in BOOLEAN,
         t <= StackLast(s), Current.base <= func, func < t,
         EnterFunction(s, func, t, guarded), host' = "running"
  PROVE  StackInv'
<1>1. ASSUME NEW m \in FrameSizes, EnterLua(s, func, t, m, guarded)
      PROVE  StackInv'
  <2> DEFINE f == [kind |-> "lua", func |-> func, base |-> func + 1,
                   top |-> func + 1 + m, guarded |-> guarded]
  <2>1. m \in Nat /\ m >= 2
    BY SizesAssumption
  <2>2. /\ size' \in Nat
        /\ FramesOK(frames, size')
        /\ t + m + 1 <= StackLast(size')
    BY <1>1, <2>1, CheckedFrames DEF EnterLua
  <2>3. frames' = Append(frames, f) /\ top' = f.top
    BY <1>1 DEF EnterLua, Entered
  <2>4. f \in Frame
    BY <2>1 DEF Frame
  <2>5. f.top <= StackLast(size')
    BY <2>1, <2>2, LastIsInt
  <2> QED
    BY <2>1, <2>2, <2>3, <2>4, <2>5, EnterFrame
<1>2. ASSUME NEW m \in FrameSizes, NEW missing \in 0 .. MaxMissing,
             EnterVararg(s, func, t, m, missing, guarded)
      PROVE  StackInv'
  <2> DEFINE f == [kind |-> "lua", func |-> func, base |-> t + missing,
                   top |-> t + missing + m, guarded |-> guarded]
             r == Checked(s, t, m)
  <2>1. m \in Nat /\ m >= 2 /\ missing \in Nat
    BY SizesAssumption
  <2>2. r \in Nat /\ FramesOK(frames, r) /\ t + m + 1 <= StackLast(r)
    BY <2>1, CheckedFrames
  <2>3. size' \in VarargSizes(r, t, m, missing)
    BY <1>2 DEF EnterVararg
  <2> HIDE DEF r
  <2>4. /\ size' \in Nat
        /\ FramesOK(frames, size')
        /\ t + missing + m <= StackLast(size')
    BY <2>2, <2>3, VarargRoom
  <2>5. frames' = Append(frames, f) /\ top' = f.top
    BY <1>2 DEF EnterVararg, Entered
  <2>6. f \in Frame
    BY <2>1 DEF Frame
  <2> QED
    BY <2>1, <2>4, <2>5, <2>6, EnterFrame
<1>3. ASSUME EnterC(s, func, t, guarded)
      PROVE  StackInv'
  <2> DEFINE f == [kind |-> "C", func |-> func, base |-> func + 1,
                   top |-> t + MinStack, guarded |-> guarded]
  <2>1. MinStack \in Nat /\ MinStack >= 3
    BY SizesAssumption
  <2>2. /\ size' \in Nat
        /\ FramesOK(frames, size')
        /\ t + MinStack + 1 <= StackLast(size')
    BY <1>3, <2>1, CheckedFrames DEF EnterC
  <2>3. frames' = Append(frames, f) /\ top' = t
    BY <1>3 DEF EnterC, Entered
  <2>4. f \in Frame
    BY <2>1 DEF Frame
  <2>5. f.top <= StackLast(size')
    BY <2>1, <2>2, LastIsInt
  <2> QED
    BY <2>1, <2>2, <2>3, <2>4, <2>5, EnterFrame
<1> QED
  BY <1>1, <1>2, <1>3 DEF EnterFunction

(* An object's __call has its own slot checked. *)
LEMMA CallTMRoom ==
  ASSUME NEW s \in Nat, NEW t \in Nat, FramesOK(frames, s),
         t <= StackLast(s), NEW c \in {<<s, t>>, CallTM(s, t)}
  PROVE  /\ c[1] \in Nat /\ FramesOK(frames, c[1])
         /\ c[2] \in Nat /\ c[2] <= StackLast(c[1])
         /\ t <= c[2] /\ c[2] <= t + 1
<1>1. CASE c = <<s, t>>
  BY <1>1
<1>2. CASE c = CallTM(s, t)
  <2>1. c[1] = Checked(s, t, 1) /\ c[2] = t + 1
    BY <1>2 DEF CallTM
  <2>2. /\ Checked(s, t, 1) \in Nat /\ FramesOK(frames, Checked(s, t, 1))
        /\ t + 1 + 1 <= StackLast(Checked(s, t, 1))
    <3>1. 1 \in Nat
      OBVIOUS
    <3> QED
      BY <3>1, CheckedFrames
  <2>3. StackLast(Checked(s, t, 1)) \in Int
    BY <2>2, LastIsInt
  <2> QED
    BY <2>1, <2>2, <2>3
<1> QED
  BY <1>1, <1>2

LEMMA EnterKeeps ==
  ASSUME FewMissing, StackInv, NEW s \in Nat, FramesOK(frames, s),
         NEW func \in Nat, NEW t \in Nat, NEW guarded \in BOOLEAN,
         t <= StackLast(s), Current.base <= func, func < t,
         Enter(s, func, t, guarded), host' = "running"
  PROVE  StackInv'
<1>1. PICK c \in {<<s, t>>, CallTM(s, t)} :
        EnterFunction(c[1], func, c[2], guarded)
  BY DEF Enter
<1>2. /\ c[1] \in Nat /\ FramesOK(frames, c[1])
      /\ c[2] \in Nat /\ c[2] <= StackLast(c[1]) /\ t <= c[2]
  BY CallTMRoom
<1>3. func < c[2]
  BY <1>2
<1> QED
  BY <1>1, <1>2, <1>3, EnterFunctionKeeps

(* A step that only moves L->top below what the current frame allows. *)
LEMMA TopMoves ==
  ASSUME StackInv, UNCHANGED <<frames, host>>, host = "running",
         size' \in Nat, StackLast(size) <= StackLast(size'),
         top' \in Nat, Current.base <= top', top' <= StackLast(size')
  PROVE  StackInv'
<1>1. FramesOK(frames', size')
  BY FramesMonotone DEF StackInv, StackTypeOK
<1> QED
  BY <1>1 DEF StackInv, StackTypeOK, HostRoom, HostTop, RunningTop, Current

LEMMA InitEstablishes ==
  StackInit => StackInv
<1> SUFFICES ASSUME StackInit PROVE StackInv
  OBVIOUS
<1>1. HostFrame \in Frame /\ HostFrame.top = 1 + MinStack
  BY SizesAssumption DEF HostFrame, Frame
<1>2. frames = <<HostFrame>> /\ frames \in Seq(Frame) /\ Len(frames) = 1
  BY <1>1 DEF StackInit
<1>3. size \in Nat /\ StackLast(size) = 2 * MinStack - 1
  BY SizesAssumption DEF StackInit, BasicStack, StackLast
<1>4. FramesOK(frames, size)
  BY <1>1, <1>2, <1>3, SizesAssumption DEF FramesOK
<1>5. HostRoom
  BY <1>3, SizesAssumption DEF HostRoom, StackInit
<1> QED
  BY <1>2, <1>3, <1>4, <1>5
  DEF StackInv, StackTypeOK, HostTop, RunningTop, StackInit, Phases

(* The host's pushes and pops, with a possible collection. *)
LEMMA HostKeeps ==
  ASSUME StackInv, GetGlobal \/ PushString \/ ToStringAndPop
  PROVE  StackInv'
<1>1. size \in Nat /\ top \in Nat /\ StackLast(size) \in Int
  BY LastIsInt DEF StackInv, StackTypeOK
<1>2. CASE GetGlobal
  BY <1>1, <1>2
  DEF GetGlobal, StackInv, StackTypeOK, FramesOK, HostRoom, HostTop,
      RunningTop, Phases
<1>3. CASE PushString \/ ToStringAndPop
  <2>1. host \in {"named", "returned"}
    BY <1>3 DEF PushString, ToStringAndPop
  <2>2. top <= StackLast(size) /\ top + 1 <= StackLast(size) /\ top >= 2
    BY <2>1 DEF StackInv, HostRoom, HostTop
  <2>3. size' \in Collected(size, frames, top) /\ frames' = frames
    BY <1>3 DEF PushString, ToStringAndPop, MayCollect
  <2>4. /\ size' \in Nat
        /\ FramesOK(frames, size')
        /\ top <= StackLast(size')
        /\ top + 1 <= StackLast(size')
    BY <1>1, <2>2, <2>3, CollectRoom DEF StackInv
  <2>5. StackLast(size') \in Int
    BY <2>4, LastIsInt
  <2>6. CASE PushString
    BY <1>1, <2>2, <2>3, <2>4, <2>5, <2>6
    DEF PushString, StackInv, StackTypeOK, HostRoom, HostTop, RunningTop,
        Phases
  <2>7. CASE ToStringAndPop
    BY <1>1, <2>2, <2>3, <2>4, <2>5, <2>7
    DEF ToStringAndPop, StackInv, StackTypeOK, HostRoom, HostTop, RunningTop,
        Phases
  <2> QED
    BY <1>3, <2>6, <2>7
<1> QED
  BY <1>2, <1>3

(* The host's call enters a function, or fails before that. *)
LEMMA PcallKeeps ==
  ASSUME FewMissing, StackInv, Pcall
  PROVE  StackInv'
<1>1. /\ top \in Nat /\ top >= 3 /\ top - 2 \in Nat
      /\ top <= StackLast(size)
  BY DEF StackInv, StackTypeOK, HostRoom, HostTop, Pcall
<1>2. Current.base = 1
  BY DEF StackInv, FramesOK, Current, Pcall, HostFrame
<1>3. /\ Enter(size, top - 2, top, TRUE)
      /\ host' = "running"
      /\ size \in Nat /\ FramesOK(frames, size)
  BY DEF Pcall, StackInv, StackTypeOK
<1>4. Current.base <= top - 2 /\ top - 2 < top /\ TRUE \in BOOLEAN
  BY <1>1, <1>2
<1> QED
  BY <1>1, <1>3, <1>4, EnterKeeps

LEMMA NotCallableKeeps ==
  ASSUME StackInv, NotCallable
  PROVE  StackInv'
<1>1. PICK n \in 1 .. Pieces : size' = PushedMessage(top, n)
  BY DEF NotCallable
<1>2. /\ size \in Nat /\ top \in Nat /\ top >= 3 /\ top <= StackLast(size)
      /\ n \in Nat /\ n >= 1
  BY SizesAssumption
  DEF NotCallable, StackInv, StackTypeOK, HostRoom, HostTop
<1>3. /\ size' \in Nat
      /\ StackLast(size) <= StackLast(size')
      /\ top + 1 <= StackLast(size')
  BY <1>1, <1>2, MessageRoom
<1>4. FramesOK(frames', size')
  BY <1>2, <1>3, FramesMonotone DEF StackInv, NotCallable
<1>5. StackLast(size') \in Int
  BY <1>3, LastIsInt
<1> QED
  BY <1>2, <1>3, <1>4, <1>5
  DEF NotCallable, StackInv, StackTypeOK, HostRoom, HostTop, RunningTop,
      Phases

(* The call returns to the host. *)
LEMMA ReturnToHostKeeps ==
  ASSUME StackInv, ReturnToHost
  PROVE  StackInv'
<1>1. /\ size \in Nat /\ StackLast(size) \in Int
      /\ Current.func \in Nat /\ Current.top \in Nat
      /\ Current.func + 3 <= Current.top /\ Current.top <= StackLast(size)
  BY CurrentFrame, LastIsInt DEF ReturnToHost, StackInv, StackTypeOK
<1>2. Current.func >= 1
  <2>1. Stacked(frames, 2) /\ frames[1] = HostFrame /\ Current = frames[2]
    BY DEF ReturnToHost, StackInv, FramesOK, Current
  <2> QED
    BY <1>1, <2>1 DEF Stacked, HostFrame
<1>3. /\ top' = Current.func + 1 /\ top' \in Nat /\ top' >= 2
      /\ top' <= StackLast(size) /\ top' + 1 <= StackLast(size)
  BY <1>1, <1>2 DEF ReturnToHost
<1>4. HostFrame \in Frame
  BY SizesAssumption DEF HostFrame, Frame
<1>5. /\ frames' = <<HostFrame>> /\ Len(frames') = 1
      /\ frames' \in Seq(Frame) /\ frames'[1] = HostFrame
  BY <1>4 DEF ReturnToHost
<1>6. HostFrame.top <= StackLast(size)
  <2>1. frames[1] = HostFrame /\ 1 \in 1 .. Len(frames)
    BY DEF ReturnToHost, StackInv, FramesOK
  <2> QED
    BY <2>1 DEF StackInv, FramesOK
<1>7. FramesOK(frames', size)
  BY <1>5, <1>6 DEF FramesOK
<1>8. size' \in Collected(size, frames', top')
  BY DEF ReturnToHost, MayCollect
<1>9. /\ size' \in Nat
      /\ FramesOK(frames', size')
      /\ top' <= StackLast(size')
      /\ top' + 1 <= StackLast(size')
  BY <1>1, <1>3, <1>7, <1>8, CollectRoom
<1> QED
  BY <1>3, <1>5, <1>9
  DEF ReturnToHost, StackInv, StackTypeOK, HostRoom, HostTop, RunningTop,
      Phases

(* Calls from Lua and from C. *)
LEMMA CallKeeps ==
  ASSUME FewMissing, StackInv, LuaCall \/ CCall
  PROVE  StackInv'
<1>1. /\ host = "running" /\ host' = "running"
      /\ top \in Nat /\ top <= StackLast(size)
      /\ size \in Nat /\ FramesOK(frames, size)
  BY DEF LuaCall, CCall, InLua, InC, StackInv, StackTypeOK, HostRoom
<1>2. PICK t \in (Current.base + 1 .. Current.top) \union {top},
          guarded \in BOOLEAN :
        \E func \in Callees(t) : Enter(size, func, t, guarded)
  BY DEF LuaCall, CCall
<1>3. PICK func \in Callees(t) : Enter(size, func, t, guarded)
  BY <1>2
<1>4. /\ Current.base \in Nat /\ Current.top \in Nat
      /\ Current.top <= StackLast(size) /\ StackLast(size) \in Int
  BY CurrentFrame, LastIsInt DEF StackInv, StackTypeOK
<1>5. t \in Nat /\ t <= StackLast(size)
  BY <1>1, <1>2, <1>4
<1>6. func \in Nat /\ Current.base <= func /\ func < t
  BY <1>3, <1>4, <1>5 DEF Callees
<1> QED
  BY <1>1, <1>3, <1>5, <1>6, EnterKeeps

(* A metamethod is called above L->top, which the check made room for. *)
LEMMA MetaCallKeeps ==
  ASSUME FewMissing, StackInv, MetaCall
  PROVE  StackInv'
<1>1. /\ host = "running" /\ host' = "running"
      /\ top \in Nat /\ top <= StackLast(size)
      /\ size \in Nat /\ FramesOK(frames, size)
      /\ Current.base <= top
  BY DEF MetaCall, InLua, InC, StackInv, StackTypeOK, HostRoom, RunningTop
<1>2. PICK n \in {3, 4} : Enter(Checked(size, top, n), top, top + n, FALSE)
  BY DEF MetaCall
<1> DEFINE s == Checked(size, top, n)
<1>3. s \in Nat /\ FramesOK(frames, s) /\ top + n + 1 <= StackLast(s)
  BY <1>1, CheckedFrames
<1>4. Enter(s, top, top + n, FALSE)
  BY <1>2
<1> HIDE DEF s
<1>5. /\ top + n \in Nat /\ top < top + n /\ top + n <= StackLast(s)
      /\ FALSE \in BOOLEAN
  BY <1>1, <1>3, LastIsInt
<1> QED
  BY <1>1, <1>3, <1>4, <1>5, EnterKeeps

(* The current frame gets another base and another top. *)
LEMMA ReplaceKeeps ==
  ASSUME StackInv, host = "running", UNCHANGED host,
         NEW f \in Frame, f.kind = Current.kind, f.func = Current.func,
         Current.func < f.base, f.base <= f.top, Current.func + 3 <= f.top,
         frames' \in Seq(Frame), Len(frames') = Len(frames),
         \A i \in 1 .. Len(frames) :
           frames'[i] = IF i = Len(frames) THEN f ELSE frames[i],
         size' \in Nat, FramesOK(frames, size'),
         f.top <= StackLast(size'),
         top' \in Nat, f.base <= top', top' <= f.top
  PROVE  StackInv'
<1>1. /\ Len(frames) \in Nat /\ Len(frames) \in 1 .. Len(frames)
      /\ Len(frames) > 1
      /\ Current \in Frame /\ Current.kind # "host"
      /\ frames \in Seq(Frame)
  BY CurrentFrame DEF StackInv, StackTypeOK
<1>2. /\ f.func = frames[Len(frames)].func /\ f.func < f.base
      /\ f.func + 3 <= f.top /\ f.kind # "host"
  BY <1>1 DEF Current
<1>3. FramesOK(frames', size') /\ frames'[Len(frames')] = f
  BY <1>1, <1>2, FramesReplace
<1>4. top' <= StackLast(size')
  BY LastIsInt DEF Frame
<1>5. Current' = f
  BY <1>3 DEF Current
<1> QED
  BY <1>1, <1>3, <1>4, <1>5
  DEF StackInv, StackTypeOK, HostRoom, HostTop, RunningTop, Phases

(* The frame that replaces the caller's lies below the checked slots. *)
LEMMA ReplaceFrameKeeps ==
  ASSUME StackInv, host = "running", UNCHANGED host,
         NEW d \in Nat, 1 <= d, NEW m \in FrameSizes, ReplaceFrame(d, m),
         size' \in Nat, FramesOK(frames, size'),
         Current.func + d + m <= StackLast(size')
  PROVE  StackInv'
<1>1. /\ Current \in Frame /\ Current.func \in Nat
      /\ DOMAIN frames = 1 .. Len(frames)
      /\ Len(frames) \in 1 .. Len(frames)
  BY CurrentFrame
<1>2. m \in Nat /\ m >= 2
  BY SizesAssumption
<1> DEFINE b == Current.func + d
<1>3. /\ b \in Nat /\ top' \in Nat /\ Current.func < b /\ b <= top'
      /\ Current.func + 3 <= top' /\ top' <= StackLast(size')
      /\ top' <= top'
  BY <1>1, <1>2 DEF ReplaceFrame
<1> DEFINE f == [Current EXCEPT !.base = b, !.top = top']
<1>4. /\ f \in Frame /\ f.kind = Current.kind /\ f.func = Current.func
      /\ f.base = b /\ f.top = top'
  BY <1>1, <1>3 DEF Frame
<1>5. frames' = [frames EXCEPT ![Len(frames)] = f]
  BY <1>1 DEF Current, ReplaceFrame
<1> HIDE DEF b, f
<1>6. /\ frames' \in Seq(Frame)
      /\ Len(frames') = Len(frames)
      /\ \A i \in 1 .. Len(frames) :
            frames'[i] = IF i = Len(frames) THEN f ELSE frames[i]
  BY <1>1, <1>4, <1>5, ExceptSeq DEF StackInv, StackTypeOK
<1> QED
  BY <1>3, <1>4, <1>6, ReplaceKeeps

LEMMA TailCallKeeps ==
  ASSUME FewMissing, StackInv, TailCall
  PROVE  StackInv'
<1>1. PICK t \in (Current.base + 1 .. Current.top) \union {top} :
        \E func \in Callees(t), c \in {<<size, t>>, CallTM(size, t)},
           m \in FrameSizes :
          TailEnter(c[1], func, c[2], m)
  BY DEF TailCall
<1>2. PICK func \in Callees(t), c \in {<<size, t>>, CallTM(size, t)},
           m \in FrameSizes :
        TailEnter(c[1], func, c[2], m)
  BY <1>1
<1>3. /\ host = "running" /\ UNCHANGED host
      /\ top \in Nat /\ top <= StackLast(size) /\ size \in Nat
      /\ FramesOK(frames, size)
  BY DEF TailCall, InLua, StackInv, StackTypeOK, HostRoom
<1>4. /\ Current.base \in Nat /\ Current.top \in Nat /\ Current.func \in Nat
      /\ Current.func < Current.base
      /\ Current.top <= StackLast(size) /\ StackLast(size) \in Int
  BY <1>3, CurrentFrame, LastIsInt
<1>5. t \in Nat /\ t <= StackLast(size)
  BY <1>1, <1>3, <1>4
<1>6. /\ func \in Nat /\ Current.base <= func /\ func < t
      /\ m \in Nat /\ m >= 2
  BY <1>2, <1>4, <1>5, SizesAssumption DEF Callees
<1>7. /\ c[1] \in Nat /\ FramesOK(frames, c[1])
      /\ c[2] \in Nat /\ c[2] <= StackLast(c[1]) /\ t <= c[2]
  BY <1>3, <1>5, CallTMRoom
<1> DEFINE s == c[1]
           u == c[2]
           r == Checked(s, u, m)
<1>8. r \in Nat /\ FramesOK(frames, r) /\ u + m + 1 <= StackLast(r)
  BY <1>6, <1>7, CheckedFrames
<1>9. u \in Nat /\ func < u
  BY <1>5, <1>6, <1>7
<1>10. \/ size' = r /\ ReplaceFrame(1, m)
       \/ \E missing \in 0 .. MaxMissing :
            /\ size' \in VarargSizes(r, u, m, missing)
            /\ ReplaceFrame(u + missing - func, m)
  BY <1>2 DEF TailEnter
<1> HIDE DEF s, u, r
<1>11. CASE size' = r /\ ReplaceFrame(1, m)
  <2>1. Current.func + 1 + m <= StackLast(size')
    BY <1>4, <1>6, <1>8, <1>9, <1>11, LastIsInt
  <2> QED
    BY <1>3, <1>8, <1>11, <2>1, ReplaceFrameKeeps
<1>12. ASSUME NEW missing \in 0 .. MaxMissing,
              size' \in VarargSizes(r, u, m, missing),
              ReplaceFrame(u + missing - func, m)
       PROVE  StackInv'
  <2>1. missing \in Nat
    BY SizesAssumption
  <2>2. /\ size' \in Nat /\ FramesOK(frames, size')
        /\ u + missing + m <= StackLast(size')
    BY <1>8, <1>9, <1>12, VarargRoom
  <2> DEFINE d == u + missing - func
  <2>3. d \in Nat /\ 1 <= d /\ Current.func + d + m <= u + missing + m
    BY <1>4, <1>6, <1>9, <2>1
  <2>4. Current.func + d + m <= StackLast(size')
    BY <1>4, <1>6, <1>9, <2>1, <2>2, <2>3, LastIsInt
  <2>5. ReplaceFrame(d, m)
    BY <1>12
  <2> HIDE DEF d
  <2> QED
    BY <1>3, <2>2, <2>3, <2>4, <2>5, ReplaceFrameKeeps
<1> QED
  BY <1>10, <1>11, <1>12

(* What a function does with its own slots. *)
LEMMA SlotsKeep ==
  ASSUME StackInv, Vararg \/ CloseList \/ CPush \/ CPop
  PROVE  StackInv'
<1>1. /\ host = "running" /\ UNCHANGED <<frames, host>>
      /\ top \in Nat /\ top <= StackLast(size) /\ size \in Nat
      /\ Current.base <= top
  BY DEF Vararg, CloseList, CPush, CPop, InLua, InC, StackInv, StackTypeOK,
         HostRoom, RunningTop
<1>2. /\ Current.base \in Nat /\ Current.top \in Nat /\ Current.func \in Nat
      /\ Current.func < Current.base /\ Current.base <= Current.top
      /\ Current.base >= 1
      /\ Current.top <= StackLast(size) /\ StackLast(size) \in Int
  BY <1>1, CurrentFrame, LastIsInt
<1>3. CASE Vararg
  <2>1. PICK n \in 0 .. Current.base - Current.func - 1,
            a \in Current.base .. Current.top :
          size' = Checked(size, top, n) /\ top' = a + n
    BY <1>3 DEF Vararg
  <2>2. n \in Nat /\ a \in Nat /\ a <= top /\ Current.base <= a
    BY <1>2, <1>3 DEF Vararg
  <2>3. /\ size' \in Nat /\ StackLast(size) <= StackLast(size')
        /\ top + n + 1 <= StackLast(size')
    BY <1>1, <2>1, <2>2, CheckedRoom
  <2>4. StackLast(size') \in Int
    BY <2>3, LastIsInt
  <2>5. /\ top' \in Nat /\ Current.base <= top' /\ top' <= StackLast(size')
    BY <1>1, <1>2, <2>1, <2>2, <2>3, <2>4
  <2> QED
    BY <1>1, <2>3, <2>5, TopMoves
<1>4. CASE CloseList \/ CPush \/ CPop
  <2>1. size' = size
    BY <1>4 DEF CloseList, CPush, CPop
  <2>2. /\ top' \in Nat /\ Current.base <= top' /\ top' <= StackLast(size')
    BY <1>1, <1>2, <1>4, <2>1 DEF CloseList, CPush, CPop
  <2>3. /\ size' \in Nat /\ StackLast(size) <= StackLast(size')
    BY <1>1, <1>2, <2>1
  <2> QED
    BY <1>1, <2>2, <2>3, TopMoves
<1> QED
  BY <1>3, <1>4

LEMMA CCheckStackKeeps ==
  ASSUME StackInv, CCheckStack
  PROVE  StackInv'
<1>1. PICK n \in 1 .. MinStack :
        /\ size' = Checked(size, top, n)
        /\ frames' = [frames EXCEPT ![Len(frames)].top =
                        IF @ < top + n THEN top + n ELSE @]
  BY DEF CCheckStack
<1>2. /\ host = "running" /\ UNCHANGED <<top, host>>
      /\ top \in Nat /\ top <= StackLast(size) /\ size \in Nat
      /\ Current.base <= top /\ frames \in Seq(Frame)
  BY DEF CCheckStack, InC, StackInv, StackTypeOK, HostRoom, RunningTop
<1>3. /\ Current.base \in Nat /\ Current.top \in Nat /\ Current.func \in Nat
      /\ Current.func < Current.base /\ Current.func + 3 <= Current.top
      /\ Current.top <= StackLast(size) /\ StackLast(size) \in Int
      /\ Current \in Frame /\ Current.kind # "host"
      /\ Len(frames) > 1 /\ Len(frames) \in Nat
      /\ DOMAIN frames = 1 .. Len(frames)
  BY <1>2, CurrentFrame, LastIsInt
<1>4. /\ size' \in Nat /\ StackLast(size) <= StackLast(size')
      /\ top + n + 1 <= StackLast(size')
  BY <1>1, <1>2, CheckedRoom
<1>5. StackLast(size') \in Int
  BY <1>4, LastIsInt
<1> DEFINE p == IF Current.top < top + n THEN top + n ELSE Current.top
<1>6. /\ p \in Nat /\ p >= Current.top /\ p >= Current.base
      /\ p <= StackLast(size') /\ p >= Current.func + 3
  BY <1>2, <1>3, <1>4, <1>5
<1> DEFINE f == [Current EXCEPT !.top = p]
<1>7. /\ f \in Frame /\ f.kind = Current.kind /\ f.func = Current.func
      /\ f.base = Current.base /\ f.top = p
  BY <1>3, <1>6 DEF Frame
<1>8. frames' = [frames EXCEPT ![Len(frames)] = f]
  BY <1>1, <1>3 DEF Current
<1>9. top' \in Nat /\ Current.base <= top' /\ top' <= p
  BY <1>1, <1>2, <1>3
<1> HIDE DEF p, f
<1>10. /\ frames' \in Seq(Frame)
       /\ Len(frames') = Len(frames)
       /\ \A i \in 1 .. Len(frames) :
             frames'[i] = IF i = Len(frames) THEN f ELSE frames[i]
  BY <1>2, <1>3, <1>7, <1>8, CurrentFrame, ExceptSeq
<1>11. FramesOK(frames, size')
  BY <1>2, <1>4, FramesMonotone DEF StackInv
<1> QED
  BY <1>2, <1>3, <1>4, <1>6, <1>7, <1>9, <1>10, <1>11, ReplaceKeeps

(* What is known of the frames below the current one. *)
LEMMA CalleeFrame ==
  ASSUME StackInv, NEW i \in 2 .. Len(frames)
  PROVE  /\ frames[i] \in Frame /\ frames[i - 1] \in Frame
         /\ frames[i].func \in Nat /\ frames[i].base \in Nat
         /\ frames[i].top \in Nat
         /\ frames[i - 1].base \in Nat /\ frames[i - 1].func \in Nat
         /\ frames[i - 1].top \in Nat
         /\ Stacked(frames, i)
         /\ frames[i].top <= StackLast(size)
         /\ frames[i - 1].top <= StackLast(size)
         /\ frames[i - 1].base >= 1
<1>1. Len(frames) \in Nat /\ i \in 1 .. Len(frames) /\ i - 1 \in 1 .. Len(frames)
  BY CurrentFrame
<1>2. /\ frames[i] \in Frame /\ frames[i - 1] \in Frame
      /\ frames[i].func \in Nat /\ frames[i].base \in Nat
      /\ frames[i].top \in Nat
      /\ frames[i - 1].base \in Nat /\ frames[i - 1].func \in Nat
      /\ frames[i - 1].top \in Nat
  BY <1>1, FrameFields DEF StackInv
<1>3. /\ Stacked(frames, i)
      /\ frames[i].top <= StackLast(size)
      /\ frames[i - 1].top <= StackLast(size)
  BY <1>1 DEF StackInv, FramesOK
<1>4. frames[i - 1].base >= 1
  <2>1. CASE i = 2
    BY <2>1 DEF StackInv, FramesOK, HostFrame
  <2>2. CASE i > 2
    <3>1. i - 1 \in 2 .. Len(frames)
      BY <1>1, <2>2
    <3>2. Stacked(frames, i - 1)
      BY <3>1 DEF StackInv, FramesOK
    <3> QED
      BY <1>2, <3>1, <3>2 DEF Stacked
  <2> QED
    BY <2>1, <2>2
<1> QED
  BY <1>2, <1>3, <1>4

LEMMA ReturnKeeps ==
  ASSUME StackInv, Return
  PROVE  StackInv'
<1> DEFINE n == Len(frames)
           fs == SubSeq(frames, 1, n - 1)
<1>1. /\ host = "running" /\ host' = "running" /\ size' = size
      /\ n \in Nat /\ n > 2
      /\ top \in Nat /\ top <= StackLast(size) /\ size \in Nat
      /\ Current.base <= top /\ StackLast(size) \in Int
  BY CurrentFrame, LastIsInt
  DEF Return, StackInv, StackTypeOK, HostRoom, RunningTop
<1>2. n \in 2 .. n /\ n - 1 \in 2 .. n /\ n - 1 \in 1 .. n
      /\ n - 1 - 1 \in Nat
  BY <1>1
<1>3. /\ Caller \in Frame
      /\ Current.func \in Nat /\ Current.base \in Nat
      /\ Caller.base \in Nat /\ Caller.func \in Nat /\ Caller.top \in Nat
      /\ Caller.base <= Current.func /\ Current.func < Current.base
      /\ Caller.top <= StackLast(size)
  BY <1>2, CalleeFrame DEF Caller, Current, Stacked
<1>4. Stacked(frames, n - 1)
  BY <1>2, CalleeFrame
<1>5. /\ Caller.kind # "host" /\ Caller.func < Caller.base
      /\ Caller.base <= Caller.top /\ Caller.func + 3 <= Caller.top
  BY <1>4 DEF Stacked, Caller
<1>6. /\ FramesOK(fs, size)
      /\ Len(fs) = n - 1
      /\ \A i \in 1 .. n - 1 : fs[i] = frames[i]
  BY <1>1, <1>2, FramesPrefix DEF StackInv
<1>7. fs \in Seq(Frame) /\ fs[n - 1] = Caller /\ n - 1 \in 1 .. Len(fs)
  BY <1>1, <1>2, <1>6 DEF FramesOK, Caller
<1> HIDE DEF fs
<1>8. ASSUME frames' = fs, top' \in Nat, Caller.base <= top',
             top' <= StackLast(size)
      PROVE  StackInv'
  <2>1. Current' = Caller /\ Len(frames') > 1 /\ frames' \in Seq(Frame)
    BY <1>1, <1>6, <1>7, <1>8 DEF Current
  <2> QED
    BY <1>1, <1>6, <1>8, <2>1
    DEF StackInv, StackTypeOK, HostRoom, HostTop, RunningTop, Phases
<1>9. ASSUME Caller.kind = "lua", top' = Caller.top, frames' = fs
      PROVE  StackInv'
  BY <1>3, <1>5, <1>8, <1>9
<1>10. ASSUME Caller.kind = "C", top' \in Current.func .. Caller.top,
              frames' = fs
       PROVE  StackInv'
  <2>1. top' \in Nat /\ Caller.base <= top' /\ top' <= StackLast(size)
    BY <1>1, <1>3, <1>10
  <2> QED
    BY <1>8, <1>10, <2>1
<1>11. ASSUME NEW k \in 0 .. top - Current.base, top' = Current.func + k,
              frames' = [fs EXCEPT ![n - 1].top =
                           IF Caller.kind = "C" /\ @ < top' THEN top' ELSE @]
       PROVE  StackInv'
  <2>1. /\ top' \in Nat /\ Caller.base <= top' /\ top' <= StackLast(size)
    <3>1. k \in Nat /\ k <= top - Current.base
      BY <1>1, <1>3
    <3>2. Current.func + k <= top
      BY <1>1, <1>3, <3>1
    <3> QED
      BY <1>1, <1>3, <1>11, <3>1, <3>2
  <2> DEFINE p == IF Caller.kind = "C" /\ Caller.top < top'
                  THEN top' ELSE Caller.top
  <2>2. p \in Nat /\ p >= Caller.top /\ p <= StackLast(size)
    BY <1>1, <1>3, <2>1
  <2> DEFINE f == [Caller EXCEPT !.top = p]
  <2>3. /\ f \in Frame /\ f.kind = Caller.kind /\ f.func = Caller.func
        /\ f.base = Caller.base /\ f.top = p
    BY <1>3, <2>2 DEF Frame
  <2>4. frames' = [fs EXCEPT ![n - 1] = f]
    BY <1>7, <1>11
  <2> HIDE DEF f, p
  <2>5. /\ frames' \in Seq(Frame) /\ Len(frames') = Len(fs)
        /\ \A i \in 1 .. Len(fs) :
              frames'[i] = IF i = Len(fs) THEN f ELSE fs[i]
    BY <1>6, <1>7, <2>3, <2>4, ExceptSeq
  <2>6. /\ f.func = fs[Len(fs)].func /\ f.func < f.base
        /\ f.base <= f.top /\ f.func + 3 <= f.top /\ f.top <= StackLast(size)
        /\ f.kind # "host"
    BY <1>3, <1>5, <1>6, <1>7, <2>2, <2>3
  <2>7. FramesOK(frames', size) /\ frames'[Len(frames')] = f
    <3>1. Len(fs) > 1 /\ FramesOK(fs, size) /\ size \in Nat
      BY <1>1, <1>6
    <3> QED
      BY <2>3, <2>5, <2>6, <3>1, FramesReplace
  <2>8. Current' = f /\ Len(frames') > 1
    BY <1>1, <1>6, <2>5, <2>7 DEF Current
  <2> QED
    BY <1>1, <2>1, <2>3, <2>5, <2>7, <2>8
    DEF StackInv, StackTypeOK, HostRoom, HostTop, RunningTop, Phases
<1> QED
  <2>1. \/ Caller.kind = "lua" /\ top' = Caller.top /\ frames' = fs
        \/ \E k \in 0 .. top - Current.base :
             /\ top' = Current.func + k
             /\ frames' = [fs EXCEPT ![n - 1].top =
                           IF Caller.kind = "C" /\ @ < top' THEN top' ELSE @]
        \/ /\ Caller.kind = "C" /\ top' \in Current.func .. Caller.top
           /\ frames' = fs
    BY DEF Return, fs
  <2> QED
    BY <1>9, <1>10, <1>11, <2>1

(* An error unwinds to a lua_pcall, the host's or one inside. *)
LEMMA ErrorKeeps ==
  ASSUME StackInv, Error
  PROVE  StackInv'
<1>1. PICK k \in 0 .. Pieces : size' = PushedMessage(top, k)
  BY DEF Error
<1>2. PICK i \in Guarded :
        /\ top' = frames[i].func + 1
        /\ frames' = SubSeq(frames, 1, i - 1)
        /\ host' = IF i = 2 THEN "idle" ELSE "running"
  BY DEF Error, SetErrorObj, Unwound
<1>3. /\ host = "running" /\ size \in Nat
      /\ top \in Nat /\ top <= StackLast(size) /\ StackLast(size) \in Int
      /\ k \in Nat
  BY SizesAssumption, LastIsInt DEF Error, StackInv, StackTypeOK, HostRoom
<1>4. i \in 2 .. Len(frames) /\ i - 1 \in 1 .. Len(frames) /\ i \in Nat
  <2>1. i \in 1 .. Len(frames) /\ frames[i].guarded /\ Len(frames) \in Nat
    BY CurrentFrame DEF Guarded
  <2>2. ~frames[1].guarded
    BY DEF StackInv, FramesOK, HostFrame
  <2> QED
    BY <2>1, <2>2
<1>5. /\ frames[i].func \in Nat /\ frames[i].top \in Nat
      /\ frames[i - 1].base \in Nat
      /\ frames[i - 1].base <= frames[i].func /\ frames[i].func >= 1
      /\ frames[i].func + 3 <= StackLast(size)
  <2>1. /\ frames[i].func \in Nat /\ frames[i].top \in Nat
        /\ frames[i - 1].base \in Nat /\ frames[i - 1].base >= 1
        /\ Stacked(frames, i) /\ frames[i].top <= StackLast(size)
    BY <1>4, CalleeFrame
  <2>2. /\ frames[i - 1].base <= frames[i].func
        /\ frames[i].func + 3 <= frames[i].top
    BY <2>1 DEF Stacked
  <2> DEFINE f == frames[i].func
             t == frames[i].top
             b == frames[i - 1].base
             l == StackLast(size)
  <2>3. f \in Nat /\ t \in Nat /\ b \in Nat /\ b >= 1 /\ b <= f /\ f + 3 <= t
        /\ t <= l /\ l \in Int
    BY <1>3, <2>1, <2>2
  <2> HIDE DEF f, t, b, l
  <2>4. f >= 1 /\ f + 3 <= l
    BY <2>3
  <2> USE DEF f, t, b, l
  <2> QED
    BY <2>3, <2>4
<1>6. /\ size' \in Nat /\ StackLast(size) <= StackLast(size')
      /\ StackLast(size') \in Int
  BY <1>1, <1>3, MessageRoom, LastIsInt
<1>7. FramesOK(frames, size')
  BY <1>3, <1>6, FramesMonotone DEF StackInv
<1>8. /\ FramesOK(frames', size') /\ Len(frames') = i - 1
      /\ frames'[i - 1] = frames[i - 1]
  BY <1>2, <1>4, <1>6, <1>7, FramesPrefix
<1>9. /\ top' \in Nat /\ top' >= 2 /\ top' + 2 <= StackLast(size')
      /\ frames[i - 1].base <= top'
  <2> DEFINE g == frames[i].func
  <2>1. top' = g + 1
    BY <1>2
  <2>2. g \in Nat /\ g >= 1 /\ frames[i - 1].base <= g /\ g + 3 <= StackLast(size)
    BY <1>5
  <2> HIDE DEF g
  <2> QED
    BY <1>3, <1>5, <1>6, <2>1, <2>2
<1>10. top' <= StackLast(size') /\ top' + 1 <= StackLast(size')
  BY <1>6, <1>9
<1>11. Current' = frames[i - 1]
  BY <1>8 DEF Current
<1>12. host' = "running" <=> Len(frames') > 1
  BY <1>2, <1>4, <1>8
<1>13. StackTypeOK' /\ HostRoom'
  BY <1>2, <1>6, <1>8, <1>9, <1>10
  DEF StackTypeOK, FramesOK, HostRoom, Phases
<1>14. HostTop' /\ RunningTop'
  BY <1>2, <1>9, <1>11 DEF HostTop, RunningTop
<1> QED
  BY <1>8, <1>12, <1>13, <1>14 DEF StackInv

LEMMA CollectKeeps ==
  ASSUME StackInv, Collect
  PROVE  StackInv'
<1>1. /\ size \in Nat /\ top \in Nat /\ top <= StackLast(size)
      /\ host = "running" /\ UNCHANGED <<top, frames, host>>
      /\ size' \in Collected(size, frames, top)
  BY DEF Collect, MayCollect, StackInv, StackTypeOK, HostRoom
<1>2. size' \in Nat /\ FramesOK(frames, size') /\ top <= StackLast(size')
  BY <1>1, CollectRoom DEF StackInv
<1> QED
  BY <1>1, <1>2
  DEF StackInv, StackTypeOK, HostRoom, HostTop, RunningTop, Current

-----------------------------------------------------------------------------
(***************************************************************************)
(* The theorems.                                                           *)
(***************************************************************************)

LEMMA NextKeeps ==
  ASSUME FewMissing, StackInv, [StackNext]_stackVars
  PROVE  StackInv'
<1>1. CASE StackNext
  BY <1>1, HostKeeps, PcallKeeps, NotCallableKeeps, ReturnToHostKeeps,
     CallKeeps, MetaCallKeeps, TailCallKeeps, SlotsKeep, CCheckStackKeeps,
     ReturnKeeps, ErrorKeeps, CollectKeeps
  DEF StackNext
<1>2. CASE UNCHANGED stackVars
  BY <1>2
  DEF stackVars, StackInv, StackTypeOK, HostRoom, HostTop, RunningTop, Current
<1> QED
  BY <1>1, <1>2

THEOREM StackInductive ==
  ASSUME FewMissing
  PROVE  StackSpec => []StackInv
<1>1. StackInit => StackInv
  BY InitEstablishes
<1>2. FewMissing /\ StackInv /\ [StackNext]_stackVars => StackInv'
  BY NextKeeps
<1> QED
  BY <1>1, <1>2, PTL DEF StackSpec

(* The stack, L->top and the frames are always what their types say.       *)
THEOREM StackTypeCorrect ==
  ASSUME FewMissing
  PROVE  StackSpec => []StackTypeOK
<1>1. StackInv => StackTypeOK
  BY DEF StackInv
<1> QED
  BY <1>1, StackInductive, PTL

(* Every active function's slots are inside the stack, however calls,      *)
(* errors and collections have moved and resized it.                       *)
THEOREM FramesAlwaysFit ==
  ASSUME FewMissing
  PROVE  StackSpec => []FramesFit
<1>1. StackInv => FramesFit
  BY CurrentFrame DEF StackInv, FramesOK, FramesFit
<1> QED
  BY <1>1, StackInductive, PTL

(* LuaManager's unchecked pushes never leave the stack. *)
THEOREM HostAlwaysHasRoom ==
  ASSUME FewMissing
  PROVE  StackSpec => []HostRoom
<1>1. StackInv => HostRoom
  BY DEF StackInv
<1> QED
  BY <1>1, StackInductive, PTL

(* Frames are nested, and only the host's is left when no call runs. *)
THEOREM FramesAlwaysNested ==
  ASSUME FewMissing
  PROVE  StackSpec => []FramesNested
<1>1. StackInv => FramesNested
  BY DEF StackInv, FramesOK, FramesNested, Stacked
<1> QED
  BY <1>1, StackInductive, PTL

-----------------------------------------------------------------------------
(***************************************************************************)
(* What a call leaves.                                                     *)
(***************************************************************************)

Balance ==
  /\ host = "ready" /\ host' = "running" => frames'[2].func = top - 2
  /\ host = "running" /\ host' = "running" => frames'[2].func = frames[2].func
  /\ host = "running" /\ host' # "running" => top' = frames[2].func + 1
  /\ host = "ready" /\ host' = "idle" => top' = top - 1

(* Entering a function leaves the frames below it alone. *)
LEMMA EnterAppends ==
  ASSUME StackInv, NEW s, NEW func, NEW t, NEW guarded,
         Enter(s, func, t, guarded)
  PROVE  /\ Len(frames) = 1 => frames'[2].func = func
         /\ Len(frames) > 1 => frames'[2] = frames[2]
<1>1. PICK f : frames' = Append(frames, f) /\ f.func = func
  <2>1. \E kind, base, ftop : Entered(kind, func, base, ftop, guarded)
    BY DEF Enter, EnterFunction, EnterLua, EnterVararg, EnterC
  <2>2. PICK kind, base, ftop : Entered(kind, func, base, ftop, guarded)
    BY <2>1
  <2> DEFINE f == [kind |-> kind, func |-> func, base |-> base, top |-> ftop,
                   guarded |-> guarded]
  <2>3. frames' = Append(frames, f) /\ f.func = func
    BY <2>2 DEF Entered
  <2> QED
    BY <2>3
<1>2. frames \in Seq(Frame) /\ Len(frames) \in Nat
  BY CurrentFrame DEF StackInv, StackTypeOK
<1>3. /\ Append(frames, f)[Len(frames) + 1] = f
      /\ Len(frames) > 1 => Append(frames, f)[2] = frames[2]
  BY <1>2
<1>4. Len(frames) = 1 => Append(frames, f)[2] = f
  BY <1>3
<1> QED
  BY <1>1, <1>3, <1>4

(* A step inside the call leaves the called function where it is. *)
LEMMA RunningKeepsCallee ==
  ASSUME StackInv, StackNext, host = "running", host' = "running"
  PROVE  frames'[2].func = frames[2].func
<1>1. /\ Len(frames) \in Nat /\ Len(frames) > 1 /\ frames \in Seq(Frame)
      /\ DOMAIN frames = 1 .. Len(frames) /\ 2 \in DOMAIN frames
  BY CurrentFrame DEF StackInv, StackTypeOK
<1>2. CASE LuaCall \/ CCall \/ MetaCall
  BY <1>1, <1>2, EnterAppends DEF LuaCall, CCall, MetaCall
<1>3. CASE UNCHANGED frames
  BY <1>3
<1>4. CASE TailCall
  <2>1. PICK d, m : ReplaceFrame(d, m)
    BY <1>4 DEF TailCall, TailEnter
  <2> QED
    BY <1>1, <2>1 DEF ReplaceFrame
<1>5. CASE CCheckStack
  BY <1>1, <1>5 DEF CCheckStack
<1>6. CASE Return
  <2> DEFINE n == Len(frames)
             fs == SubSeq(frames, 1, n - 1)
  <2>1. n > 2
    BY <1>6 DEF Return
  <2>2. fs[2] = frames[2] /\ DOMAIN fs = 1 .. n - 1
    BY <1>1, <2>1
  <2>3. frames' = fs \/ \E p : frames' = [fs EXCEPT ![n - 1].top = p]
    BY <1>6 DEF Return
  <2>4. CASE frames' = fs
    BY <2>2, <2>4
  <2>5. ASSUME NEW p, frames' = [fs EXCEPT ![n - 1].top = p]
        PROVE  frames'[2].func = frames[2].func
    <3>1. 2 \in DOMAIN fs
      BY <1>1, <2>1, <2>2
    <3>2. \/ frames'[2] = fs[2]
          \/ frames'[2] = [fs[2] EXCEPT !.top = p]
      <4> HIDE DEF fs
      <4> QED
        BY <2>5, <3>1
    <3>3. fs[2] \in Frame
      BY <1>1, <2>2, ElementOfSeq
    <3> HIDE DEF fs
    <3> QED
      BY <2>2, <3>2, <3>3 DEF Frame
  <2> QED
    BY <2>3, <2>4, <2>5
<1>7. CASE Error
  <2>1. PICK i \in Guarded :
          frames' = SubSeq(frames, 1, i - 1) /\ i # 2
    BY <1>7 DEF Error, Unwound
  <2>2. i \in Nat /\ i <= Len(frames) /\ i > 2
    <3>1. i \in 1 .. Len(frames) /\ frames[i].guarded
      BY <1>1, <2>1 DEF Guarded
    <3>2. ~frames[1].guarded
      BY DEF StackInv, FramesOK, HostFrame
    <3> QED
      BY <1>1, <2>1, <3>1, <3>2
  <2> QED
    BY <1>1, <2>1, <2>2
<1> QED
  BY <1>2, <1>3, <1>4, <1>5, <1>6, <1>7
  DEF StackNext, GetGlobal, PushString, Pcall, NotCallable, ReturnToHost,
      ToStringAndPop, Vararg, CloseList, CPush, CPop, Collect

(* A call, however it ends, leaves one value where its function was. *)
THEOREM CallsAreBalanced ==
  ASSUME FewMissing
  PROVE  StackSpec => CallBalance
<1>1. StackInv /\ [StackNext]_stackVars => [Balance]_stackVars
  <2> SUFFICES ASSUME StackInv, StackNext PROVE Balance
    OBVIOUS
  <2>1. ASSUME host = "ready", host' = "running"
        PROVE  frames'[2].func = top - 2
    <3>1. Pcall /\ Len(frames) = 1
      BY <2>1, CurrentFrame
      DEF StackNext, GetGlobal, PushString, NotCallable, ReturnToHost,
          ToStringAndPop, LuaCall, MetaCall, TailCall, Vararg, CloseList,
          CCall, CPush, CPop, CCheckStack, Return, Error, Collect, InLua, InC, StackInv
    <3> QED
      BY <3>1, EnterAppends DEF Pcall
  <2>2. ASSUME host = "running", host' # "running"
        PROVE  top' = frames[2].func + 1
    <3>1. ReturnToHost \/ Error
      BY <2>2
      DEF StackNext, GetGlobal, PushString, Pcall, NotCallable,
          ToStringAndPop, LuaCall, MetaCall, TailCall, Vararg, CloseList,
          CCall, CPush, CPop, CCheckStack, Return, Collect, InLua, InC
    <3> QED
      BY <2>2, <3>1 DEF ReturnToHost, Error, SetErrorObj, Current
  <2>3. ASSUME host = "ready", host' = "idle"
        PROVE  top' = top - 1
    BY <2>3
    DEF StackNext, GetGlobal, PushString, Pcall, NotCallable, ReturnToHost,
        ToStringAndPop, LuaCall, MetaCall, TailCall, Vararg, CloseList,
        CCall, CPush, CPop, CCheckStack, Return, Error, Collect, InLua, InC
  <2> QED
    BY <2>1, <2>2, <2>3, RunningKeepsCallee DEF Balance
<1>2. StackSpec => []StackInv
  BY StackInductive
<1>3. StackSpec => [][Balance]_stackVars
  BY <1>1, <1>2, PTL DEF StackSpec
<1> QED
  BY <1>3 DEF CallBalance, Balance
=============================================================================
