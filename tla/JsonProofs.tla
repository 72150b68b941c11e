----------------------------- MODULE JsonProofs -----------------------------
(***************************************************************************)
(* What decode and encode take, and that they agree with JSON: for all     *)
(* strings, values, depths and sizes of the stack, and for texts of any    *)
(* length that MaxTokens allows.                                           *)
(*                                                                         *)
(* For decode, the invariant says what it knows of the text it has read:   *)
(* there are sets of outcomes, one for each container that is open, such   *)
(* that the whole text means r exactly if the rest of it is what the place *)
(* of the parser asks for.  A step of decode takes the rest one token      *)
(* further; the lemmas named ...Means say how the rules of the grammar     *)
(* change then, and those on Shape how the stack does.                     *)
(*                                                                         *)
(* For encode, TreeInv says of every frame what the tables that are open   *)
(* still allow: the buffer followed by any text of what comes next, and    *)
(* closed frame by frame, would be a text of the argument.                 *)
(*                                                                         *)
(* That the two agree with each other needs no step of either: a text of a *)
(* value, nested d deep, is a text of the grammar by induction on d and on *)
(* the entries of each table, and the grammar gives a text one meaning.    *)
(*                                                                         *)
(* The grammar is recursive and texts are put together with \o, of which   *)
(* the provers know too much: Cat and Cons1 hide it, and what has to be    *)
(* shown by induction uses a least counterexample or SetInduction.         *)
(***************************************************************************)
EXTENDS JsonTrees, InductionFacts, SequenceTheorems, FiniteSetTheorems, FunctionTheorems, TLAPS

(***************************************************************************)
(* The resources CJson takes, for all texts, tables, depths and sizes of   *)
(* the stack: slots, levels and buffers.                                   *)
(*                                                                         *)
(* SlotsReserved is not inductive: a container that ends leaves its parent *)
(* with the slots the parent asked for, so the height of the stack has to  *)
(* be known for every container that is open, and with it what kind each   *)
(* of them is.  The same argument serves the decoder's containers and the  *)
(* encoder's frames.                                                       *)
(***************************************************************************)
(* A sequence of whatever it holds. *)
IsSeq(s) == s \in Seq({s[i] : i \in DOMAIN s})

LEMMA SeqIsSeq ==
  ASSUME NEW S, NEW s \in Seq(S)
  PROVE  IsSeq(s) /\ Len(s) \in Nat /\ DOMAIN s = 1 .. Len(s)
<1>1. Len(s) \in Nat /\ DOMAIN s = 1 .. Len(s) /\ s \in [1 .. Len(s) -> S]
  BY LenProperties
<1> DEFINE T == {s[i] : i \in DOMAIN s}
<1>2. s \in [1 .. Len(s) -> T]
  BY <1>1
<1>3. s \in Seq(T)
  <2> HIDE DEF T
  <2> QED
    BY <1>1, <1>2
<1> QED
  BY <1>1, <1>3 DEF IsSeq

LEMMA Appended ==
  ASSUME NEW s, IsSeq(s), NEW v
  PROVE  /\ IsSeq(Append(s, v))
         /\ Len(s) \in Nat /\ Len(Append(s, v)) = Len(s) + 1
         /\ \A i \in 1 .. Len(s) : Append(s, v)[i] = s[i]
         /\ Append(s, v)[Len(s) + 1] = v
<1> DEFINE S == {s[i] : i \in DOMAIN s} \union {v}
<1>1. s \in Seq(S)
  BY SeqMonotonic, S \in {S} DEF IsSeq
<1> HIDE DEF S
<1>2. v \in S
  BY DEF S
<1>3. /\ Append(s, v) \in Seq(S) /\ Len(s) \in Nat
      /\ Len(Append(s, v)) = Len(s) + 1
      /\ \A i \in 1 .. Len(s) : Append(s, v)[i] = s[i]
      /\ Append(s, v)[Len(s) + 1] = v
  BY <1>1, <1>2, AppendProperties, LenProperties
<1> QED
  BY <1>3, SeqIsSeq

LEMMA Shortened ==
  ASSUME NEW s, IsSeq(s), NEW n \in Nat, n <= Len(s)
  PROVE  /\ IsSeq(Without(s, n))
         /\ Len(s) \in Nat /\ Len(Without(s, n)) = Len(s) - n
         /\ \A i \in 1 .. Len(s) - n : Without(s, n)[i] = s[i]
<1> DEFINE S == {s[i] : i \in DOMAIN s}
<1>1. Len(s) \in Nat /\ DOMAIN s = 1 .. Len(s)
  BY SeqIsSeq DEF IsSeq
<1>2. \A i \in 1 .. Len(s) - n : s[i] \in S
  BY <1>1
<1>3. /\ Without(s, n) \in Seq(S)
      /\ Len(Without(s, n)) = IF 1 <= Len(s) - n THEN Len(s) - n - 1 + 1 ELSE 0
      /\ \A i \in 1 .. Len(s) - n - 1 + 1 : Without(s, n)[i] = s[1 + i - 1]
  BY <1>1, <1>2, SubSeqProperties DEF Without
<1> HIDE DEF S
<1>4. IsSeq(Without(s, n))
  BY <1>3, SeqIsSeq
<1>5. Len(Without(s, n)) = Len(s) - n
  <2>1. \A m \in Nat : (IF 1 <= m THEN m - 1 + 1 ELSE 0) = m
    OBVIOUS
  <2>2. Len(s) - n \in Nat
    BY <1>1
  <2> QED
    BY <1>3, <2>1, <2>2
<1>6. ASSUME NEW i \in 1 .. Len(s) - n PROVE Without(s, n)[i] = s[i]
  <2>1. i \in 1 .. Len(s) - n - 1 + 1 /\ 1 + i - 1 = i
    BY <1>1
  <2> QED
    BY <1>3, <2>1
<1> QED
  BY <1>1, <1>4, <1>5, <1>6

LEMMA ReplacedLast ==
  ASSUME NEW s, IsSeq(s), s # <<>>, NEW v
  PROVE  /\ IsSeq(Replaced(s, v))
         /\ Len(s) \in Nat \ {0} /\ Len(Replaced(s, v)) = Len(s)
         /\ \A i \in 1 .. Len(s) - 1 : Replaced(s, v)[i] = s[i]
         /\ Replaced(s, v)[Len(s)] = v
<1>1. Len(s) \in Nat \ {0}
  BY EmptySeq DEF IsSeq
<1>2. /\ IsSeq(Without(s, 1)) /\ Len(Without(s, 1)) = Len(s) - 1
      /\ \A i \in 1 .. Len(s) - 1 : Without(s, 1)[i] = s[i]
  BY <1>1, Shortened
<1> QED
  BY <1>1, <1>2, Appended DEF Replaced

-----------------------------------------------------------------------------
(***************************************************************************)
(* The height of the stack.  A container keeps one slot below its values   *)
(* (a table that is decoded, the key of a table that is encoded) or two    *)
(* (both); Tall(kinds, h, r) says that above the containers of those kinds *)
(* the next value is pushed on h slots, and that for each of them one more *)
(* slot than that was reserved.                                            *)
(***************************************************************************)
Width(kind) == IF kind = "object" THEN 2 ELSE 1

Tall(kinds, h, r) ==
  \E base \in [1 .. Len(kinds) + 1 -> Nat] :
    /\ base[1] = 1 /\ base[Len(kinds) + 1] = h /\ 1 < r
    /\ \A i \in 1 .. Len(kinds) :
         base[i + 1] = base[i] + Width(kinds[i]) /\ base[i + 1] < r

LEMMA TallEmpty ==
  ASSUME NEW h, NEW r \in Nat
  PROVE  Tall(<<>>, h, r) <=> h = 1 /\ 1 < r
<1>1. ASSUME h = 1, 1 < r PROVE Tall(<<>>, h, r)
  <2> DEFINE base == [i \in 1 .. 1 |-> 1]
  <2>1. base \in [1 .. Len(<<>>) + 1 -> Nat] /\ base[1] = 1 /\ Len(<<>>) = 0
    OBVIOUS
  <2> HIDE DEF base
  <2>2. \A i \in 1 .. Len(<<>>) : FALSE
    BY <2>1
  <2> QED
    BY <2>1, <2>2, <1>1 DEF Tall
<1> QED
  BY <1>1 DEF Tall

LEMMA TallHeight ==
  ASSUME NEW kinds, IsSeq(kinds), NEW h, NEW r \in Nat, Tall(kinds, h, r)
  PROVE  /\ h \in Nat /\ h < r
         /\ kinds # <<>> => h > Width(LastOf(kinds))
<1> DEFINE n == Len(kinds)
<1>1. n \in Nat /\ (kinds # <<>> => n > 0)
  BY SeqIsSeq, EmptySeq DEF IsSeq
<1>2. PICK base \in [1 .. n + 1 -> Nat] :
        /\ base[1] = 1 /\ base[n + 1] = h /\ 1 < r
        /\ \A i \in 1 .. n : base[i + 1] = base[i] + Width(kinds[i]) /\ base[i + 1] < r
  BY DEF Tall
<1>3. LastOf(kinds) = kinds[n]
  BY DEF LastOf
<1> HIDE DEF n
<1>4. \A i \in 1 .. n : base[i] \in Nat /\ base[i + 1] = base[i] + Width(kinds[i])
  BY <1>1, <1>2
<1>5. \A i \in 1 .. n : Width(kinds[i]) \in {1, 2}
  BY DEF Width
<1>6. \A i \in 1 .. n : base[i] >= 1
  <2> SUFFICES ASSUME NEW i \in 1 .. n PROVE base[i] >= 1
    OBVIOUS
  <2>1. CASE i = 1
    BY <1>2, <2>1
  <2>2. CASE i # 1
    <3>1. i - 1 \in 1 .. n /\ (i - 1) + 1 = i
      BY <1>1, <2>2
    <3>2. PICK m \in 1 .. n : m + 1 = i
      BY <3>1
    <3> QED
      BY <1>4, <1>5, <3>2
  <2> QED
    BY <2>1, <2>2
<1>7. CASE n = 0
  BY <1>1, <1>2, <1>7
<1>8. CASE n > 0
  <2>1. n \in 1 .. n
    BY <1>1, <1>8
  <2>2. /\ h = base[n] + Width(kinds[n]) /\ h < r
        /\ base[n] \in Nat /\ base[n] >= 1 /\ Width(kinds[n]) \in {1, 2}
    BY <1>2, <1>4, <1>5, <1>6, <2>1
  <2> QED
    BY <1>3, <2>2
<1> QED
  BY <1>1, <1>7, <1>8

(* A container that is entered reserves its slots and those of a value. *)
LEMMA TallOpen ==
  ASSUME NEW kinds, IsSeq(kinds), NEW kind, NEW h, NEW r \in Nat, NEW q \in Nat,
         Tall(kinds, h, r), r <= q, h + Width(kind) < q
  PROVE  Tall(Append(kinds, kind), h + Width(kind), q)
<1> DEFINE n == Len(kinds)
           more == Append(kinds, kind)
<1>1. /\ n \in Nat /\ Len(more) = n + 1 /\ more[n + 1] = kind
      /\ \A i \in 1 .. n : more[i] = kinds[i]
  BY Appended
<1>2. PICK base \in [1 .. n + 1 -> Nat] :
        /\ base[1] = 1 /\ base[n + 1] = h /\ 1 < r
        /\ \A i \in 1 .. n : base[i + 1] = base[i] + Width(kinds[i]) /\ base[i + 1] < r
  BY DEF Tall
<1> DEFINE higher == [i \in 1 .. n + 2 |-> IF i = n + 2 THEN h + Width(kind) ELSE base[i]]
<1> HIDE DEF n, more
<1>3. higher \in [1 .. n + 2 -> Nat]
  BY <1>1, <1>2 DEF Width
<1>4. /\ higher[1] = 1 /\ higher[n + 2] = h + Width(kind)
      /\ \A i \in 1 .. n + 1 : higher[i] = base[i]
  BY <1>1, <1>2
<1>5. ASSUME NEW i \in 1 .. n + 1
      PROVE  higher[i + 1] = higher[i] + Width(more[i]) /\ higher[i + 1] < q
  <2>1. CASE i = n + 1
    BY <1>1, <1>2, <1>4, <2>1
  <2>2. CASE i # n + 1
    <3>1. i \in 1 .. n /\ i + 1 \in 1 .. n + 1
      BY <1>1, <2>2
    <3>2. base[i + 1] = base[i] + Width(kinds[i]) /\ base[i + 1] < r /\ base[i + 1] \in Nat
      BY <1>2, <3>1
    <3> QED
      BY <1>1, <1>4, <3>1, <3>2
  <2> QED
    BY <2>1, <2>2
<1>6. higher \in [1 .. Len(more) + 1 -> Nat] /\ higher[Len(more) + 1] = h + Width(kind)
  BY <1>1, <1>3, <1>4
<1>7. 1 < q
  BY <1>2
<1> QED
  <2> HIDE DEF higher
  <2>1. Tall(more, h + Width(kind), q)
    BY <1>1, <1>4, <1>5, <1>6, <1>7 DEF Tall
  <2> QED
    BY <2>1 DEF more

(* One that ends leaves the next value of the one around it. *)
LEMMA TallClose ==
  ASSUME NEW kinds, IsSeq(kinds), kinds # <<>>, NEW h, NEW r \in Nat, Tall(kinds, h, r)
  PROVE  Tall(Without(kinds, 1), h - Width(LastOf(kinds)), r)
<1> DEFINE n == Len(kinds)
           fewer == Without(kinds, 1)
<1>1. n \in Nat /\ n > 0
  BY SeqIsSeq, EmptySeq DEF IsSeq
<1>2. Len(fewer) = n - 1 /\ \A i \in 1 .. n - 1 : fewer[i] = kinds[i]
  BY <1>1, Shortened
<1>3. PICK base \in [1 .. n + 1 -> Nat] :
        /\ base[1] = 1 /\ base[n + 1] = h /\ 1 < r
        /\ \A i \in 1 .. n : base[i + 1] = base[i] + Width(kinds[i]) /\ base[i + 1] < r
  BY DEF Tall
<1> DEFINE lower == [i \in 1 .. n |-> base[i]]
<1> HIDE DEF n, fewer
<1>4. lower \in [1 .. Len(fewer) + 1 -> Nat] /\ lower[1] = 1
  BY <1>1, <1>2, <1>3
<1>5. h = base[n] + Width(kinds[n]) /\ base[n] \in Nat
  BY <1>1, <1>3
<1>6. lower[Len(fewer) + 1] = h - Width(LastOf(kinds))
  <2>1. lower[Len(fewer) + 1] = base[n] /\ kinds[n] = LastOf(kinds)
    BY <1>1, <1>2 DEF n, LastOf
  <2> QED
    BY <1>5, <2>1 DEF Width
<1>7. ASSUME NEW i \in 1 .. Len(fewer)
      PROVE  lower[i + 1] = lower[i] + Width(fewer[i]) /\ lower[i + 1] < r
  <2>1. i \in 1 .. n - 1 /\ i \in 1 .. n /\ i + 1 \in 1 .. n
    BY <1>1, <1>2
  <2>2. base[i + 1] = base[i] + Width(kinds[i]) /\ base[i + 1] < r
    BY <1>3, <2>1
  <2> QED
    BY <1>2, <2>1, <2>2
<1> QED
  <2> HIDE DEF lower
  <2>1. Tall(fewer, h - Width(LastOf(kinds)), r)
    BY <1>3, <1>4, <1>6, <1>7 DEF Tall
  <2> QED
    BY <2>1 DEF fewer

-----------------------------------------------------------------------------
(* The kinds of the tables that are encoded. *)
KindsOf(fs) == [i \in 1 .. Len(fs) |-> fs[i].kind]

IsFrames(fs) == IsSeq(fs) /\ \A i \in 1 .. Len(fs) : "kind" \in DOMAIN fs[i]

LEMMA KindsSeq ==
  ASSUME NEW fs, IsSeq(fs)
  PROVE  /\ IsSeq(KindsOf(fs)) /\ Len(fs) \in Nat /\ Len(KindsOf(fs)) = Len(fs)
         /\ KindsOf(fs) = <<>> <=> fs = <<>>
         /\ fs # <<>> => Len(fs) > 0 /\ LastOf(KindsOf(fs)) = LastOf(fs).kind
<1> DEFINE S == {fs[i].kind : i \in 1 .. Len(fs)}
           n == Len(fs)
<1>1. n \in Nat /\ (fs # <<>> => n > 0) /\ (fs = <<>> => n = 0)
  BY SeqIsSeq, EmptySeq DEF IsSeq
<1>2. KindsOf(fs) \in [1 .. n -> S]
  BY DEF KindsOf
<1>3. KindsOf(fs) \in Seq(S) /\ Len(KindsOf(fs)) = n
  <2> HIDE DEF S, n
  <2> QED
    BY <1>1, <1>2
<1>4. IsSeq(KindsOf(fs))
  <2> HIDE DEF S
  <2> QED
    BY <1>3, SeqIsSeq
<1>5. KindsOf(fs) = <<>> <=> n = 0
  <2> HIDE DEF S
  <2>1. KindsOf(fs) = <<>> => Len(KindsOf(fs)) = 0
    OBVIOUS
  <2>2. Len(KindsOf(fs)) = 0 => KindsOf(fs) = <<>>
    BY <1>3, EmptySeq
  <2> QED
    BY <1>3, <2>1, <2>2
<1>6. n > 0 => LastOf(KindsOf(fs)) = LastOf(fs).kind
  <2> SUFFICES ASSUME n > 0 PROVE KindsOf(fs)[n] = fs[n].kind
    BY <1>3 DEF LastOf
  <2>1. n \in 1 .. Len(fs)
    BY <1>1
  <2> QED
    BY <2>1 DEF KindsOf
<1> QED
  BY <1>1, <1>3, <1>4, <1>5, <1>6

LEMMA SameSeq ==
  ASSUME NEW s, IsSeq(s), NEW t, IsSeq(t), Len(s) = Len(t),
         \A i \in 1 .. Len(s) : s[i] = t[i]
  PROVE  s = t
<1> DEFINE S == {s[i] : i \in DOMAIN s} \union {t[i] : i \in DOMAIN t}
<1>1. s \in Seq(S) /\ t \in Seq(S)
  BY SeqMonotonic DEF IsSeq
<1> HIDE DEF S
<1> QED
  BY <1>1, SeqEqual

LEMMA KindsAppend ==
  ASSUME NEW fs, IsFrames(fs), NEW f, "kind" \in DOMAIN f
  PROVE  /\ IsFrames(Append(fs, f)) /\ Len(Append(fs, f)) = Len(fs) + 1
         /\ KindsOf(Append(fs, f)) = Append(KindsOf(fs), f.kind)
<1> DEFINE more == Append(fs, f)
           n == Len(fs)
<1>1. /\ IsSeq(more) /\ n \in Nat /\ Len(more) = n + 1
      /\ \A i \in 1 .. n : more[i] = fs[i]
      /\ more[n + 1] = f
  BY Appended DEF IsFrames
<1>2. IsSeq(KindsOf(fs)) /\ Len(KindsOf(fs)) = n
  BY KindsSeq DEF IsFrames
<1>3. /\ IsSeq(Append(KindsOf(fs), f.kind)) /\ Len(Append(KindsOf(fs), f.kind)) = n + 1
      /\ \A i \in 1 .. n : Append(KindsOf(fs), f.kind)[i] = KindsOf(fs)[i]
      /\ Append(KindsOf(fs), f.kind)[n + 1] = f.kind
  BY <1>2, Appended
<1>4. IsSeq(KindsOf(more)) /\ Len(KindsOf(more)) = n + 1
  BY <1>1, KindsSeq
<1> HIDE DEF more
<1>5. ASSUME NEW i \in 1 .. n + 1
      PROVE  /\ "kind" \in DOMAIN more[i]
             /\ KindsOf(more)[i] = Append(KindsOf(fs), f.kind)[i]
  <2>1. KindsOf(more)[i] = more[i].kind
    BY <1>1 DEF KindsOf
  <2>2. CASE i = n + 1
    BY <1>1, <1>3, <2>1, <2>2
  <2>3. CASE i # n + 1
    <3>1. i \in 1 .. n
      BY <1>1, <2>3
    <3>2. KindsOf(fs)[i] = fs[i].kind
      BY <3>1 DEF KindsOf
    <3> QED
      BY <1>1, <1>3, <2>1, <3>1, <3>2 DEF IsFrames
  <2> QED
    BY <2>2, <2>3
<1>6. KindsOf(more) = Append(KindsOf(fs), f.kind)
  BY <1>3, <1>4, <1>5, SameSeq
<1> QED
  BY <1>1, <1>5, <1>6 DEF IsFrames, more

LEMMA KindsWithout ==
  ASSUME NEW fs, IsFrames(fs), fs # <<>>
  PROVE  /\ IsFrames(Without(fs, 1)) /\ Len(Without(fs, 1)) = Len(fs) - 1
         /\ KindsOf(Without(fs, 1)) = Without(KindsOf(fs), 1)
<1> DEFINE fewer == Without(fs, 1)
           n == Len(fs)
<1>1. n \in Nat /\ n > 0 /\ IsSeq(KindsOf(fs)) /\ Len(KindsOf(fs)) = n
  BY KindsSeq DEF IsFrames
<1>2. IsSeq(fewer) /\ Len(fewer) = n - 1 /\ \A i \in 1 .. n - 1 : fewer[i] = fs[i]
  <2>1. IsSeq(fs) /\ 1 \in Nat /\ 1 <= Len(fs)
    BY <1>1 DEF IsFrames
  <2> QED
    BY <2>1, Shortened
<1>3. /\ IsSeq(Without(KindsOf(fs), 1)) /\ Len(Without(KindsOf(fs), 1)) = n - 1
      /\ \A i \in 1 .. n - 1 : Without(KindsOf(fs), 1)[i] = KindsOf(fs)[i]
  BY <1>1, Shortened
<1>4. IsSeq(KindsOf(fewer)) /\ Len(KindsOf(fewer)) = n - 1
  BY <1>2, KindsSeq
<1> HIDE DEF fewer
<1>5. ASSUME NEW i \in 1 .. n - 1
      PROVE  /\ "kind" \in DOMAIN fewer[i]
             /\ KindsOf(fewer)[i] = Without(KindsOf(fs), 1)[i]
  <2>1. i \in 1 .. n
    BY <1>1
  <2>2. KindsOf(fewer)[i] = fewer[i].kind /\ KindsOf(fs)[i] = fs[i].kind
    BY <1>2, <2>1 DEF KindsOf
  <2> QED
    BY <1>2, <1>3, <2>1, <2>2 DEF IsFrames
<1>6. KindsOf(fewer) = Without(KindsOf(fs), 1)
  BY <1>3, <1>4, <1>5, SameSeq
<1> QED
  BY <1>2, <1>5, <1>6 DEF IsFrames, fewer

LEMMA KindsAdvanced ==
  ASSUME NEW fs, IsFrames(fs), fs # <<>>
  PROVE  /\ IsFrames(Replaced(fs, Advanced(LastOf(fs))))
         /\ Replaced(fs, Advanced(LastOf(fs))) # <<>>
         /\ KindsOf(Replaced(fs, Advanced(LastOf(fs)))) = KindsOf(fs)
<1> DEFINE f == Advanced(LastOf(fs))
           next == Replaced(fs, f)
           n == Len(fs)
<1>1. n \in Nat /\ n > 0 /\ IsSeq(KindsOf(fs)) /\ Len(KindsOf(fs)) = n
  BY KindsSeq DEF IsFrames
<1>2. "kind" \in DOMAIN LastOf(fs)
  BY <1>1 DEF IsFrames, LastOf
<1>3. "kind" \in DOMAIN f /\ f.kind = LastOf(fs).kind
  BY <1>2 DEF Advanced
<1> HIDE DEF f
<1>4. /\ IsSeq(next) /\ Len(next) = n
      /\ \A i \in 1 .. n - 1 : next[i] = fs[i]
      /\ next[n] = f
  BY ReplacedLast DEF IsFrames
<1>5. IsSeq(KindsOf(next)) /\ Len(KindsOf(next)) = n /\ next # <<>>
  BY <1>1, <1>4, KindsSeq
<1> HIDE DEF next
<1>6. ASSUME NEW i \in 1 .. n
      PROVE  "kind" \in DOMAIN next[i] /\ KindsOf(next)[i] = KindsOf(fs)[i]
  <2>1. KindsOf(next)[i] = next[i].kind /\ KindsOf(fs)[i] = fs[i].kind
    BY <1>4 DEF KindsOf
  <2>2. CASE i = n
    BY <1>3, <1>4, <2>1, <2>2 DEF LastOf
  <2>3. CASE i # n
    <3>1. i \in 1 .. n - 1
      BY <1>1, <2>3
    <3> QED
      BY <1>4, <2>1, <3>1 DEF IsFrames
  <2> QED
    BY <2>2, <2>3
<1>7. KindsOf(next) = KindsOf(fs)
  BY <1>1, <1>5, <1>6, SameSeq
<1> QED
  BY <1>4, <1>5, <1>6, <1>7 DEF IsFrames, next, f

-----------------------------------------------------------------------------
(***************************************************************************)
(* The invariant.                                                          *)
(***************************************************************************)
Reading  == {"value", "first", "key", "colon", "comma", "store", "end"}
Writing  == {"data", "loop", "done"}
Settings == [keep : BOOLEAN, convert : BOOLEAN, encodeDepth : Depths, decodeDepth : Depths]

ControlInv ==
  /\ op \in {"idle", "decode", "encode", "refused"}
  /\ op = "idle" => stack = <<>>
  /\ op = "decode" => pc \in Reading \union {"returned", "syntax", "nesting"}
  /\ op = "encode" => pc \in Writing \union {"returned", "nesting", "refused"}
  /\ op = "idle" => pc = "start"
  /\ op = "refused" => pc = "argument"
  /\ op # "decode" => open = <<>> /\ depth = 0
  /\ op # "encode" => frames = <<>>
  /\ cfg \in Settings
  /\ IsSeq(stack) /\ IsSeq(open) /\ IsFrames(frames)
  /\ reserved \in Nat /\ depth \in Nat
  /\ op \in {"decode", "encode"} => MinStack < reserved

(* How high the stack stands, between two tokens and between two values. *)
DecodeHeight ==
  /\ pc = "value" => Tall(open, Len(stack), reserved)
  /\ pc = "store" => Tall(open, Len(stack) - 1, reserved)
  /\ pc \in {"first", "key", "comma"} =>
       open # <<>> /\ Tall(open, Len(stack) - 1 + Width(LastOf(open)), reserved)
  /\ pc \in {"key", "colon"} => open # <<>> /\ LastOf(open) = "object"
  /\ pc = "colon" => Tall(open, Len(stack), reserved)
  /\ pc = "end" => open = <<>> /\ Len(stack) = 2

EncodeHeight ==
  /\ pc \in {"data", "done"} => Tall(KindsOf(frames), Len(stack), reserved)
  /\ pc = "loop" => frames # <<>> /\ Tall(KindsOf(frames), Len(stack) + 1, reserved)

HeightInv ==
  /\ op = "decode" => DecodeHeight
  /\ op = "encode" => EncodeHeight

(* What is written to a buffer never makes it look like none. *)
IsText(b) == IsSeq(b) /\ \A i \in 1 .. Len(b) : b[i].type # "none"

TextInv ==
  /\ local # NoBuffer => IsText(local)
  /\ kept # NoBuffer => IsText(kept)

ResourceInv ==
  /\ ControlInv /\ HeightInv /\ TextInv
  /\ SlotsReserved /\ DepthBalanced /\ BuffersOwned

-----------------------------------------------------------------------------
LEMMA TextIsBuffer ==
  ASSUME NEW b, IsText(b)
  PROVE  b # NoBuffer
<1>1. Len(NoBuffer) = 1 /\ NoBuffer[1].type = "none"
  BY DEF NoBuffer, Token
<1> QED
  BY <1>1 DEF IsText

LEMMA EmptyIsText == IsText(<<>>)
<1>1. IsSeq(<<>>) /\ Len(<<>>) = 0
  BY DEF IsSeq
<1> QED
  BY <1>1 DEF IsText

LEMMA JoinedText ==
  ASSUME NEW b, IsText(b), NEW c, IsText(c)
  PROVE  IsText(b \o c)
<1> DEFINE S == {b[i] : i \in DOMAIN b} \union {c[i] : i \in DOMAIN c}
<1>1. b \in Seq(S) /\ c \in Seq(S)
  BY SeqMonotonic DEF IsSeq, IsText
<1> HIDE DEF S
<1>2. Len(b) \in Nat /\ Len(c) \in Nat
  BY <1>1, LenProperties
<1>3. /\ b \o c \in Seq(S) /\ Len(b \o c) = Len(b) + Len(c)
      /\ \A i \in 1 .. Len(b) + Len(c) :
           (b \o c)[i] = IF i <= Len(b) THEN b[i] ELSE c[i - Len(b)]
  BY <1>1, ConcatProperties
<1>4. ASSUME NEW i \in 1 .. Len(b) + Len(c) PROVE (b \o c)[i].type # "none"
  <2>1. CASE i <= Len(b)
    BY <1>2, <1>3, <2>1 DEF IsText
  <2>2. CASE ~(i <= Len(b))
    <3>1. i - Len(b) \in 1 .. Len(c)
      BY <1>2, <2>2
    <3> QED
      BY <1>3, <2>2, <3>1 DEF IsText
  <2> QED
    BY <2>1, <2>2
<1> QED
  BY <1>3, <1>4, SeqIsSeq DEF IsText

LEMMA OneToken ==
  ASSUME NEW t, t.type # "none"
  PROVE  IsText(<<t>>)
<1>1. IsSeq(<<t>>)
  BY <<t>> \in Seq({t}), SeqIsSeq
<1>2. \A i \in 1 .. Len(<<t>>) : <<t>>[i] = t
  OBVIOUS
<1> QED
  BY <1>1, <1>2 DEF IsText

LEMMA TwoTokens ==
  ASSUME NEW t, t.type # "none", NEW u, u.type # "none"
  PROVE  IsText(<<t, u>>)
<1>1. IsSeq(<<t, u>>)
  BY <<t, u>> \in Seq({t, u}), SeqIsSeq
<1>2. \A i \in 1 .. Len(<<t, u>>) : <<t, u>>[i] = t \/ <<t, u>>[i] = u
  OBVIOUS
<1> QED
  BY <1>1, <1>2 DEF IsText

LEMMA InitResources == JsonInit => ResourceInv
<1> SUFFICES ASSUME JsonInit PROVE ResourceInv
  OBVIOUS
<1> USE DEF JsonInit
<1>1. IsSeq(<<>>) /\ Len(<<>>) = 0 /\ IsFrames(<<>>)
  BY DEF IsSeq, IsFrames
<1>2. IsText(<<>>) /\ <<>> # NoBuffer
  BY EmptyIsText, TextIsBuffer
<1>3. ControlInv
  BY <1>1, CJsonAssumption DEF ControlInv, Settings
<1>4. HeightInv /\ TextInv
  BY <1>2 DEF HeightInv, TextInv
<1>5. SlotsReserved /\ BuffersOwned
  BY <1>2 DEF SlotsReserved, BuffersOwned
<1>6. DepthBalanced
  BY <1>1, CJsonAssumption DEF DepthBalanced
<1> QED
  BY <1>3, <1>4, <1>5, <1>6 DEF ResourceInv

(* In each state of a call there is a slot for the message of an error, and *)
(* for the value of a key that is refused.                                  *)
LEMMA RoomForMessage ==
  ASSUME ResourceInv
  PROVE  /\ Len(stack) \in Nat
         /\ op = "decode" /\ pc \in Reading \ {"store"} => Len(stack) + 1 <= reserved
         /\ op = "encode" /\ pc \in {"data", "done"} => Len(stack) + 1 <= reserved
         /\ op = "encode" /\ pc = "loop" => Len(stack) + 2 <= reserved
<1> USE DEF ResourceInv
<1>1. Len(stack) \in Nat /\ IsSeq(open) /\ IsSeq(KindsOf(frames)) /\ reserved \in Nat
  BY SeqIsSeq, KindsSeq DEF ControlInv, IsSeq, IsFrames
<1>2. CASE op = "decode" /\ pc \in {"value", "colon"}
  BY <1>1, <1>2, TallHeight DEF HeightInv, DecodeHeight
<1>3. CASE op = "decode" /\ pc \in {"first", "key", "comma"}
  <2>1. Len(stack) - 1 + Width(LastOf(open)) < reserved
    BY <1>1, <1>3, TallHeight DEF HeightInv, DecodeHeight
  <2> QED
    BY <1>1, <1>3, <2>1 DEF Width
<1>4. CASE op = "decode" /\ pc = "end"
  BY <1>1, <1>4, CJsonAssumption DEF ControlInv, HeightInv, DecodeHeight
<1>5. CASE op = "encode" /\ pc \in {"data", "done"}
  BY <1>1, <1>5, TallHeight DEF HeightInv, EncodeHeight
<1>6. CASE op = "encode" /\ pc = "loop"
  <2>1. Len(stack) + 1 < reserved
    BY <1>1, <1>6, TallHeight DEF HeightInv, EncodeHeight
  <2> QED
    BY <1>1, <1>6, <2>1
<1> QED
  BY <1>1, <1>2, <1>3, <1>4, <1>5, <1>6 DEF Reading

-----------------------------------------------------------------------------
(***************************************************************************)
(* Decoding: what each outcome of a token does.                            *)
(***************************************************************************)
LEMMA DecodeCalled ==
  ResourceInv /\ DecodeCall => ResourceInv'
<1> SUFFICES ASSUME ResourceInv, DecodeCall PROVE ResourceInv'
  OBVIOUS
<1> USE DEF ResourceInv, DecodeCall, decodeVars, encodeVars
<1>1. /\ IsSeq(stack') /\ Len(stack') = 1 /\ open' = <<>> /\ depth' = 0
      /\ reserved' = 1 + MinStack
  <2> DEFINE v == Value("argument", {})
  <2>1. stack' = <<v>> /\ open' = <<>> /\ depth' = 0 /\ reserved' = 1 + MinStack
    BY DEF ControlInv
  <2> HIDE DEF v
  <2>2. <<v>> \in Seq({v}) /\ Len(<<v>>) = 1
    OBVIOUS
  <2>3. IsSeq(<<v>>)
    BY <2>2, SeqIsSeq
  <2> QED
    BY <2>1, <2>2, <2>3
<1>2. ControlInv'
  BY <1>1, CJsonAssumption DEF ControlInv, Reading
<1>3. HeightInv'
  BY <1>1, TallEmpty, CJsonAssumption DEF HeightInv, DecodeHeight
<1>4. TextInv' /\ SlotsReserved'
  BY <1>1, CJsonAssumption DEF TextInv, SlotsReserved
<1>5. DepthBalanced'
  BY <1>1, CJsonAssumption DEF DepthBalanced, ControlInv
<1>6. BuffersOwned'
  BY DEF BuffersOwned
<1> QED
  BY <1>2, <1>3, <1>4, <1>5, <1>6

LEMMA SyntaxErrorStep ==
  ASSUME ResourceInv, op = "decode", pc \in Reading \ {"store"},
         UNCHANGED <<op, cfg, kept, heap, frames>>, SyntaxError
  PROVE  ResourceInv'
<1> USE DEF ResourceInv, SyntaxError, Raise
<1>1. IsSeq(stack') /\ Len(stack') = Len(stack) + 1 /\ Len(stack') <= reserved
  BY Appended, RoomForMessage DEF ControlInv
<1>2. ControlInv'
  BY <1>1 DEF ControlInv
<1>3. HeightInv' /\ TextInv' /\ SlotsReserved'
  BY <1>1 DEF HeightInv, DecodeHeight, TextInv, SlotsReserved
<1>4. DepthBalanced'
  BY DEF DepthBalanced, Reading
<1>5. BuffersOwned'
  BY DEF BuffersOwned
<1> QED
  BY <1>2, <1>3, <1>4, <1>5

(* A value, on top of what Tall allows. *)
LEMMA PushValueStep ==
  ASSUME ResourceInv, op = "decode", pc \in Reading \ {"store"},
         Tall(open, Len(stack), reserved),
         UNCHANGED <<op, cfg, kept, heap, frames>>, NEW v, PushValue(v)
  PROVE  ResourceInv'
<1> USE DEF ResourceInv, PushValue
<1>1. /\ IsSeq(stack') /\ Len(stack) \in Nat /\ Len(stack') = Len(stack) + 1
      /\ Len(stack') <= reserved
  BY Appended, RoomForMessage DEF ControlInv
<1>2. ControlInv'
  BY <1>1 DEF ControlInv, Reading
<1>3. HeightInv'
  <2>1. Len(stack') - 1 = Len(stack)
    BY <1>1
  <2> QED
    BY <2>1 DEF HeightInv, DecodeHeight
<1>4. TextInv' /\ SlotsReserved'
  BY <1>1 DEF TextInv, SlotsReserved
<1>5. DepthBalanced' /\ BuffersOwned'
  BY DEF DepthBalanced, BuffersOwned, Reading
<1> QED
  BY <1>2, <1>3, <1>4, <1>5

(* A container: one level and Slots(kind) slots, or an error. *)
LEMMA DescendStep ==
  ASSUME ResourceInv, op = "decode", pc \in Reading \ {"store"},
         Tall(open, Len(stack), reserved),
         UNCHANGED <<op, cfg, kept, heap, frames>>,
         NEW kind, Descend(kind)
  PROVE  ResourceInv'
<1> USE DEF ResourceInv, Descend
<1>1. /\ Len(stack) \in Nat /\ Len(stack) + 1 <= reserved /\ reserved \in Nat
      /\ IsSeq(stack) /\ IsSeq(open) /\ Len(open) \in Nat
      /\ depth = Len(open) /\ cfg.decodeDepth \in Nat
  <2>1. /\ IsSeq(stack) /\ IsSeq(open) /\ reserved \in Nat
        /\ cfg.decodeDepth \in Nat
    BY CJsonAssumption DEF ControlInv, Settings
  <2>2. Len(stack) \in Nat /\ Len(stack) + 1 <= reserved
    BY RoomForMessage
  <2>3. Len(open) \in Nat
    BY <2>1, SeqIsSeq DEF IsSeq
  <2>4. depth = Len(open)
    BY <2>3 DEF DepthBalanced, Reading
  <2> QED
    BY <2>1, <2>2, <2>3, <2>4
<1>2. CASE depth + 1 <= cfg.decodeDepth /\ HasRoom(Slots(kind))
  <2> DEFINE q == Reserve(Slots(kind))
  <2>1. /\ q \in Nat /\ reserved <= q /\ q <= MaxCStack
        /\ Len(stack) + Width(kind) < q /\ Len(stack) + 1 <= q
    BY <1>1, <1>2, CJsonAssumption DEF Reserve, Slots, Width, HasRoom, SlotsReserved
  <2>2. /\ reserved' = q /\ pc' = "first" /\ depth' = depth + 1
        /\ stack' = Append(stack, Value(kind, {})) /\ open' = Append(open, kind)
        /\ UNCHANGED <<tmp, local>>
    BY <1>2
  <2> HIDE DEF q, Descend
  <2>3. /\ IsSeq(stack') /\ Len(stack') = Len(stack) + 1
        /\ IsSeq(open') /\ Len(open') = Len(open) + 1 /\ open'[Len(open) + 1] = kind
    BY <1>1, <2>2, Appended
  <2>4. LastOf(open') = kind /\ open' # <<>>
    BY <1>1, <2>3 DEF LastOf
  <2>5. Tall(open', Len(stack) + Width(kind), q)
    BY <1>1, <2>1, <2>2, TallOpen
  <2>6. Len(stack') - 1 + Width(LastOf(open')) = Len(stack) + Width(kind)
    BY <1>1, <2>3, <2>4 DEF Width
  <2>7. ControlInv'
    BY <1>1, <2>1, <2>2, <2>3, CJsonAssumption DEF ControlInv, Reading
  <2>8. HeightInv'
    BY <2>2, <2>4, <2>5, <2>6 DEF HeightInv, DecodeHeight
  <2>9. TextInv' /\ SlotsReserved'
    BY <2>1, <2>2, <2>3 DEF TextInv, SlotsReserved
  <2>10. DepthBalanced'
    BY <1>1, <1>2, <2>2, <2>3 DEF DepthBalanced
  <2>11. BuffersOwned'
    BY <2>2 DEF BuffersOwned, Reading
  <2> QED
    BY <2>7, <2>8, <2>9, <2>10, <2>11
<1>3. CASE ~(depth + 1 <= cfg.decodeDepth /\ HasRoom(Slots(kind)))
  <2>1. /\ pc' = "nesting" /\ stack' = Append(stack, Message) /\ local' = NoBuffer
        /\ tmp' = FALSE /\ UNCHANGED <<reserved, open>> /\ depth' = depth + 1
    BY <1>3 DEF Raise
  <2> HIDE DEF Descend
  <2>2. IsSeq(stack') /\ Len(stack') = Len(stack) + 1
    BY <1>1, <2>1, Appended
  <2>3. ControlInv'
    BY <1>1, <2>1, <2>2 DEF ControlInv
  <2>4. HeightInv' /\ TextInv' /\ SlotsReserved'
    BY <1>1, <2>1, <2>2 DEF HeightInv, DecodeHeight, TextInv, SlotsReserved
  <2>5. DepthBalanced' /\ BuffersOwned'
    BY <1>1, <2>1 DEF DepthBalanced, BuffersOwned
  <2> QED
    BY <2>3, <2>4, <2>5
<1> QED
  BY <1>2, <1>3

LEMMA ProcessValueStep ==
  ASSUME ResourceInv, op = "decode", pc \in Reading \ {"store"},
         Tall(open, Len(stack), reserved),
         UNCHANGED <<op, cfg, kept, heap, frames>>, NEW t, ProcessValue(t)
  PROVE  ResourceInv'
<1>1. \/ \E v : PushValue(v)
      \/ \E kind : Descend(kind)
      \/ SyntaxError
  BY DEF ProcessValue
<1> QED
  BY <1>1, PushValueStep, DescendStep, SyntaxErrorStep

LEMMA PushKeyStep ==
  ASSUME ResourceInv, op = "decode", pc \in {"first", "key"}, LastOf(open) = "object",
         UNCHANGED <<op, cfg, kept, heap, frames>>, NEW t, PushKey(t)
  PROVE  ResourceInv'
<1> USE DEF ResourceInv
<1>1. CASE t.type # "T_STRING"
  BY <1>1, SyntaxErrorStep DEF PushKey, Reading
<1>2. CASE t.type = "T_STRING"
  <2>1. /\ stack' = Append(stack, Value("string", {t.text})) /\ pc' = "colon"
        /\ UNCHANGED <<tmp, local, open, depth, reserved>>
    BY <1>2 DEF PushKey
  <2>2. /\ IsSeq(stack') /\ Len(stack) \in Nat /\ Len(stack') = Len(stack) + 1
        /\ Len(stack') <= reserved
    BY <2>1, Appended, RoomForMessage DEF ControlInv, Reading
  <2>3. ControlInv'
    BY <2>1, <2>2 DEF ControlInv, Reading
  <2>4. HeightInv'
    <3>1. Len(stack) - 1 + Width("object") = Len(stack')
      BY <2>2 DEF Width
    <3> QED
      BY <2>1, <3>1 DEF HeightInv, DecodeHeight
  <2>5. TextInv' /\ SlotsReserved'
    BY <2>1, <2>2 DEF TextInv, SlotsReserved
  <2>6. DepthBalanced' /\ BuffersOwned'
    BY <2>1 DEF DepthBalanced, BuffersOwned
  <2> QED
    BY <2>3, <2>4, <2>5, <2>6
<1> QED
  BY <1>1, <1>2

(* The container's end leaves it as the value of the one around it. *)
LEMMA CloseStep ==
  ASSUME ResourceInv, op = "decode", pc \in {"first", "comma"},
         UNCHANGED <<op, cfg, kept, heap, frames>>, Close
  PROVE  ResourceInv'
<1> USE DEF ResourceInv, Close, Ascend
<1>1. /\ open # <<>> /\ Tall(open, Len(stack) - 1 + Width(LastOf(open)), reserved)
      /\ IsSeq(open) /\ reserved \in Nat /\ Len(stack) \in Nat
  BY RoomForMessage DEF HeightInv, DecodeHeight, ControlInv
<1>2. Len(open) \in Nat /\ Len(open) > 0
  BY <1>1, SeqIsSeq, EmptySeq DEF IsSeq
<1>3. IsSeq(open') /\ Len(open') = Len(open) - 1
  BY <1>1, <1>2, Shortened
<1>4. Tall(open', Len(stack) - 1, reserved)
  <2> DEFINE h == Len(stack) - 1 + Width(LastOf(open))
  <2>1. h - Width(LastOf(open)) = Len(stack) - 1
    BY <1>1 DEF Width
  <2>2. Tall(open, h, reserved)
    BY <1>1
  <2> HIDE DEF h
  <2>3. Tall(Without(open, 1), h - Width(LastOf(open)), reserved)
    BY <1>1, <2>2, TallClose
  <2> QED
    BY <2>1, <2>3
<1>5. ControlInv'
  BY <1>2, <1>3 DEF ControlInv, DepthBalanced, Reading
<1>6. HeightInv'
  BY <1>4 DEF HeightInv, DecodeHeight
<1>7. TextInv' /\ SlotsReserved' /\ BuffersOwned'
  BY DEF TextInv, SlotsReserved, BuffersOwned
<1>8. DepthBalanced'
  <2>1. cfg.decodeDepth \in Nat
    BY CJsonAssumption DEF ControlInv, Settings
  <2> QED
    BY <1>2, <1>3, <2>1 DEF DepthBalanced
<1> QED
  BY <1>5, <1>6, <1>7, <1>8

(* The next token, in each state of the parser. *)
LEMMA ReadStep ==
  ASSUME NEW t \in Tokens, ResourceInv,
         \/ ReadValue(t) \/ ReadFirst(t) \/ ReadKey(t)
         \/ ReadColon(t) \/ ReadComma(t) \/ ReadEnd(t)
  PROVE  ResourceInv'
<1> USE DEF NextToken
<1>1. /\ op = "decode" => HeightInv /\ DecodeHeight
      /\ Len(stack) \in Nat
  BY RoomForMessage DEF ResourceInv, HeightInv
<1>2. CASE ReadValue(t)
  BY <1>1, <1>2, ProcessValueStep DEF ReadValue, DecodeHeight, Reading
<1>3. CASE ReadFirst(t)
  <2>1. CASE t.type = EndOf(LastOf(open))
    BY <1>3, <2>1, CloseStep DEF ReadFirst, CloseEmpty
  <2>2. CASE t.type # EndOf(LastOf(open)) /\ LastOf(open) = "object"
    BY <1>3, <2>2, PushKeyStep DEF ReadFirst
  <2>3. CASE t.type # EndOf(LastOf(open)) /\ LastOf(open) # "object"
    <3>1. Len(stack) - 1 + Width(LastOf(open)) = Len(stack)
      BY <1>1, <2>3 DEF Width
    <3>2. Tall(open, Len(stack), reserved)
      BY <1>1, <1>3, <3>1 DEF ReadFirst, DecodeHeight
    <3> QED
      BY <1>3, <2>3, <3>2, ProcessValueStep DEF ReadFirst, Reading
  <2> QED
    BY <2>1, <2>2, <2>3
<1>4. CASE ReadKey(t)
  BY <1>1, <1>4, PushKeyStep DEF ReadKey, DecodeHeight
<1>5. CASE ReadColon(t)
  <2>1. CASE t.type = "T_COLON"
    <3>1. /\ op = "decode" /\ pc = "colon" /\ pc' = "value"
          /\ UNCHANGED <<op, cfg, kept, heap, frames, tmp, local, open, depth,
                         stack, reserved>>
      BY <1>5, <2>1 DEF ReadColon
    <3>2. ControlInv' /\ SlotsReserved' /\ TextInv'
      BY <3>1 DEF ResourceInv, ControlInv, SlotsReserved, TextInv, Reading
    <3>3. HeightInv' /\ DepthBalanced' /\ BuffersOwned'
      BY <1>1, <3>1 DEF ResourceInv, HeightInv, DecodeHeight, DepthBalanced, BuffersOwned
    <3> QED
      BY <3>2, <3>3 DEF ResourceInv
  <2>2. CASE t.type # "T_COLON"
    BY <1>5, <2>2, SyntaxErrorStep DEF ReadColon, Reading
  <2> QED
    BY <2>1, <2>2
<1>6. CASE ReadComma(t)
  <2>1. CASE t.type = EndOf(LastOf(open))
    BY <1>6, <2>1, CloseStep DEF ReadComma, EndOf
  <2>2. CASE t.type = "T_COMMA"
    <3>1. /\ op = "decode" /\ pc = "comma" /\ pc' = AfterComma(LastOf(open))
          /\ UNCHANGED <<op, cfg, kept, heap, frames, tmp, local, open, depth,
                         stack, reserved>>
      BY <1>6, <2>2 DEF ReadComma, EndOf
    <3>2. ControlInv' /\ SlotsReserved' /\ TextInv'
      BY <3>1 DEF ResourceInv, ControlInv, SlotsReserved, TextInv, Reading, AfterComma
    <3>3. DepthBalanced' /\ BuffersOwned'
      BY <3>1 DEF ResourceInv, DepthBalanced, BuffersOwned, AfterComma
    <3>4. open # <<>> /\ Tall(open, Len(stack) - 1 + Width(LastOf(open)), reserved)
      BY <1>1, <3>1 DEF DecodeHeight
    <3>5. HeightInv'
      <4>1. CASE LastOf(open) = "object"
        BY <3>1, <3>4, <4>1 DEF HeightInv, DecodeHeight, AfterComma
      <4>2. CASE LastOf(open) # "object"
        <5>1. Len(stack) - 1 + Width(LastOf(open)) = Len(stack)
          BY <1>1, <4>2 DEF Width
        <5> QED
          BY <3>1, <3>4, <4>2, <5>1 DEF HeightInv, DecodeHeight, AfterComma
      <4> QED
        BY <4>1, <4>2
    <3> QED
      BY <3>2, <3>3, <3>5 DEF ResourceInv
  <2>3. CASE t.type # EndOf(LastOf(open)) /\ t.type # "T_COMMA"
    BY <1>6, <2>3, SyntaxErrorStep DEF ReadComma, Reading
  <2> QED
    BY <2>1, <2>2, <2>3
<1>7. CASE ReadEnd(t)
  <2>1. CASE t.type = "T_END"
    <3>1. /\ op = "decode" /\ pc = "end" /\ pc' = "returned" /\ tmp' = FALSE
          /\ UNCHANGED <<op, cfg, kept, heap, frames, local, open, depth,
                         stack, reserved>>
      BY <1>7, <2>1 DEF ReadEnd
    <3>2. ControlInv' /\ SlotsReserved' /\ TextInv'
      BY <3>1 DEF ResourceInv, ControlInv, SlotsReserved, TextInv
    <3>3. HeightInv' /\ DepthBalanced' /\ BuffersOwned'
      BY <3>1 DEF ResourceInv, HeightInv, DecodeHeight, DepthBalanced, BuffersOwned
    <3> QED
      BY <3>2, <3>3 DEF ResourceInv
  <2>2. CASE t.type # "T_END"
    BY <1>7, <2>2, SyntaxErrorStep DEF ReadEnd, Reading
  <2> QED
    BY <2>1, <2>2
<1> QED
  BY <1>2, <1>3, <1>4, <1>5, <1>6, <1>7

(* A value goes into the table under it, and its key with it. *)
LEMMA StoreStep ==
  ResourceInv /\ Store => ResourceInv'
<1> SUFFICES ASSUME ResourceInv, Store PROVE ResourceInv'
  OBVIOUS
<1> USE DEF ResourceInv, encodeVars, decodeVars
<1>1. /\ op = "decode" /\ pc = "store"
      /\ UNCHANGED <<op, cfg, kept, local, heap, frames, tmp, open, depth, reserved>>
  BY DEF Store
<1>2. /\ Tall(open, Len(stack) - 1, reserved) /\ IsSeq(open) /\ IsSeq(stack)
      /\ reserved \in Nat /\ Len(stack) \in Nat
  BY <1>1, RoomForMessage DEF HeightInv, DecodeHeight, ControlInv
<1>3. CASE open = <<>>
  <2>1. pc' = "end" /\ UNCHANGED stack
    BY <1>3 DEF Store
  <2>2. Len(stack) = 2
    <3>1. Tall(<<>>, Len(stack) - 1, reserved)
      BY <1>2, <1>3
    <3>2. Len(stack) - 1 = 1
      BY <1>2, <3>1, TallEmpty
    <3> QED
      BY <1>2, <3>2
  <2>3. ControlInv' /\ SlotsReserved' /\ TextInv'
    BY <1>1, <2>1 DEF ControlInv, SlotsReserved, TextInv, Reading
  <2>4. HeightInv' /\ DepthBalanced' /\ BuffersOwned'
    BY <1>1, <1>3, <2>1, <2>2 DEF HeightInv, DecodeHeight, DepthBalanced, BuffersOwned
  <2> QED
    BY <2>3, <2>4
<1>4. CASE open # <<>>
  <2> DEFINE drop == IF LastOf(open) = "object" THEN 2 ELSE 1
             rest == Without(stack, drop)
  <2>1. Len(stack) - 1 > Width(LastOf(open))
    BY <1>2, <1>4, TallHeight
  <2>2. drop \in Nat /\ Len(stack) - drop > 0 /\ drop <= Len(stack) /\ drop = Width(LastOf(open))
    BY <1>2, <2>1 DEF Width
  <2>3. IsSeq(rest) /\ Len(rest) = Len(stack) - drop
    BY <1>2, <2>2, Shortened
  <2>4. pc' = "comma" /\ \E v : stack' = Replaced(rest, v)
    BY <1>4 DEF Store, StoreMember, StoreItem
  <2> HIDE DEF rest, drop
  <2>5. rest # <<>>
    BY <2>2, <2>3
  <2>6. IsSeq(stack') /\ Len(stack') = Len(stack) - drop
    BY <2>3, <2>4, <2>5, ReplacedLast
  <2>7. Len(stack') - 1 + Width(LastOf(open)) = Len(stack) - 1
    BY <1>2, <2>2, <2>6
  <2>8. ControlInv'
    BY <1>1, <2>4, <2>6 DEF ControlInv, Reading
  <2>9. HeightInv'
    BY <1>1, <1>2, <1>4, <2>4, <2>7 DEF HeightInv, DecodeHeight
  <2>10. TextInv' /\ SlotsReserved'
    BY <1>1, <1>2, <2>2, <2>6, CJsonAssumption DEF TextInv, SlotsReserved, ControlInv
  <2>11. DepthBalanced' /\ BuffersOwned'
    BY <1>1, <2>4 DEF DepthBalanced, BuffersOwned
  <2> QED
    BY <2>8, <2>9, <2>10, <2>11
<1> QED
  BY <1>3, <1>4

-----------------------------------------------------------------------------
(***************************************************************************)
(* Encoding.                                                               *)
(***************************************************************************)
LEMMA EncodeCalled ==
  ASSUME NEW v, NEW h, ResourceInv, EncodeCall(v, h)
  PROVE  ResourceInv'
<1> USE DEF ResourceInv, EncodeCall, decodeVars
<1>1. /\ IsSeq(stack') /\ Len(stack') = 1 /\ frames' = <<>>
      /\ open' = <<>> /\ depth' = 0 /\ reserved' = 1 + MinStack
  <2>1. IsSeq(<<v>>)
    BY <<v>> \in Seq({v}), SeqIsSeq
  <2> QED
    BY <2>1 DEF ControlInv
<1>2. ControlInv'
  BY <1>1, CJsonAssumption DEF ControlInv, Writing
<1>3. HeightInv'
  <2>1. KindsOf(<<>>) = <<>>
    <3>1. IsSeq(<<>>)
      BY EmptySeq DEF IsSeq
    <3> HIDE DEF IsSeq
    <3> QED
      BY <3>1, KindsSeq
  <2>2. Tall(<<>>, 1, 1 + MinStack)
    BY TallEmpty, CJsonAssumption
  <2> QED
    BY <1>1, <2>1, <2>2 DEF HeightInv, EncodeHeight
<1>4. IsText(<<>>) /\ <<>> # NoBuffer
  BY EmptyIsText, TextIsBuffer
<1>5. TextInv'
  BY <1>4 DEF TextInv, ResetBuffer
<1>6. SlotsReserved'
  BY <1>1, CJsonAssumption DEF SlotsReserved
<1>7. DepthBalanced'
  BY <1>1, CJsonAssumption DEF DepthBalanced, ControlInv
<1>8. BuffersOwned'
  BY <1>4 DEF BuffersOwned, ResetBuffer, ControlInv, Settings
<1> QED
  BY <1>2, <1>3, <1>5, <1>6, <1>7, <1>8

LEMMA EmitStep ==
  ASSUME ResourceInv, op = "encode", pc \in Writing,
         UNCHANGED <<op, cfg, open, depth, tmp>>, NEW ts, IsText(ts), Emit(ts)
  PROVE  /\ TextInv'
         /\ pc' \in Writing => DepthBalanced' /\ BuffersOwned'
<1> USE DEF ResourceInv
<1>1. cfg.keep \in BOOLEAN
  BY DEF ControlInv, Settings
<1>2. CASE cfg.keep
  <2>1. kept # NoBuffer /\ local = NoBuffer /\ kept' = kept \o ts /\ local' = local
    BY <1>2 DEF Emit, BuffersOwned
  <2>2. IsText(kept') /\ kept' # NoBuffer
    BY <2>1, JoinedText, TextIsBuffer DEF TextInv
  <2> QED
    BY <1>2, <2>1, <2>2 DEF TextInv, DepthBalanced, BuffersOwned
<1>3. CASE ~cfg.keep
  <2>1. kept = NoBuffer /\ local # NoBuffer /\ local' = local \o ts /\ kept' = kept
    BY <1>3 DEF Emit, BuffersOwned, Writing
  <2>2. IsText(local') /\ local' # NoBuffer
    BY <2>1, JoinedText, TextIsBuffer DEF TextInv
  <2> QED
    BY <1>3, <2>1, <2>2 DEF TextInv, DepthBalanced, BuffersOwned, Writing
<1> QED
  BY <1>1, <1>2, <1>3

(* An error, with the message in a slot that is left. *)
LEMMA EncodeErrorStep ==
  ASSUME ResourceInv, op = "encode", pc \in Writing,
         UNCHANGED <<op, cfg, open, depth>>, IsFrames(frames'),
         NEW why \in {"nesting", "refused"}, NEW pushed, IsSeq(pushed),
         Raise(why, pushed),
         reserved' \in Nat, reserved <= reserved', reserved' <= MaxCStack,
         Len(pushed) + 1 <= reserved',
         (kept' = NoBuffer) = (kept = NoBuffer), kept' # NoBuffer => IsText(kept')
  PROVE  ResourceInv'
<1> USE DEF ResourceInv, Raise
<1>1. IsSeq(stack') /\ Len(stack') <= reserved'
  BY Appended
<1>2. ControlInv'
  BY <1>1, CJsonAssumption DEF ControlInv
<1>3. HeightInv' /\ TextInv' /\ SlotsReserved'
  BY <1>1 DEF HeightInv, EncodeHeight, TextInv, SlotsReserved
<1>4. DepthBalanced' /\ BuffersOwned'
  BY DEF DepthBalanced, BuffersOwned, ControlInv, Settings
<1> QED
  BY <1>2, <1>3, <1>4

LEMMA EnterTableStep ==
  ASSUME ResourceInv, Encoding("data"), NEW t, EnterTable(t)
  PROVE  ResourceInv'
<1> USE DEF ResourceInv, Encoding
<1>1. /\ Len(stack) \in Nat /\ Len(stack) + 1 <= reserved /\ reserved \in Nat
      /\ reserved <= MaxCStack /\ IsSeq(stack) /\ IsFrames(frames)
      /\ Tall(KindsOf(frames), Len(stack), reserved)
      /\ IsSeq(KindsOf(frames)) /\ MaxCStack \in Nat
  BY RoomForMessage, KindsSeq, CJsonAssumption
     DEF ControlInv, SlotsReserved, HeightInv, EncodeHeight, IsFrames
<1>2. kept # NoBuffer => IsText(kept)
  BY DEF TextInv
<1>3. CASE Len(frames) + 1 > cfg.encodeDepth \/ ~HasRoom(3)
  <2>1. Raise("nesting", stack) /\ UNCHANGED <<kept, reserved, frames>>
    BY <1>3 DEF EnterTable
  <2> QED
    BY <1>1, <1>2, <2>1, EncodeErrorStep DEF Writing
<1>4. CASE ~(Len(frames) + 1 > cfg.encodeDepth \/ ~HasRoom(3))
  <2> DEFINE q == Reserve(3)
  <2>1. /\ q \in Nat /\ reserved <= q /\ q <= MaxCStack /\ Len(stack) + 3 <= q
        /\ reserved' = q
    BY <1>1, <1>4 DEF Reserve, HasRoom, EnterTable
  <2> HIDE DEF q
  <2>2. CASE Sparse(heap[t]) /\ ~cfg.convert
    <3>1. Raise("refused", stack) /\ UNCHANGED <<kept, frames>>
      BY <1>4, <2>2 DEF EnterTable
    <3>2. Len(stack) + 1 <= q
      BY <1>1, <2>1
    <3> QED
      BY <1>1, <1>2, <2>1, <3>1, <3>2, EncodeErrorStep DEF Writing
  <2>3. CASE ~(Sparse(heap[t]) /\ ~cfg.convert)
    <3> DEFINE kind == IF ArrayLength(heap[t]) > 0 THEN "array" ELSE "object"
               bracket == Token(IF ArrayLength(heap[t]) > 0 THEN "T_ARR_BEGIN" ELSE "T_OBJ_BEGIN")
    <3>1. /\ \E left : frames' = Append(frames, [table |-> t, kind |-> kind,
                                                 left |-> left, comma |-> FALSE])
          /\ Emit(<<bracket>>)
          /\ stack' = IF kind = "array" THEN stack ELSE Append(stack, Nil)
          /\ pc' = "loop" /\ UNCHANGED tmp
      BY <1>4, <2>3 DEF EnterTable
    <3>2. IsText(<<bracket>>)
      BY OneToken DEF Token
    <3> HIDE DEF kind, bracket
    <3>3. PICK f : frames' = Append(frames, f) /\ "kind" \in DOMAIN f /\ f.kind = kind
      <4>1. PICK left : frames' = Append(frames, [table |-> t, kind |-> kind,
                                                  left |-> left, comma |-> FALSE])
        BY <3>1
      <4> QED
        BY <4>1
    <3>4. /\ IsFrames(frames') /\ KindsOf(frames') = Append(KindsOf(frames), kind)
          /\ frames' # <<>>
      <4>1. Len(frames) \in Nat /\ Len(frames') = Len(frames) + 1
        BY <1>1, <3>3, KindsAppend, KindsSeq DEF IsFrames
      <4> QED
        BY <1>1, <3>3, <4>1, KindsAppend
    <3>5. /\ IsSeq(stack') /\ Len(stack') + 1 = Len(stack) + Width(kind)
          /\ Len(stack') <= q
      BY <1>1, <2>1, <3>1, Appended DEF Width, kind
    <3>6. Tall(KindsOf(frames'), Len(stack') + 1, q)
      <4>1. Len(stack) + Width(kind) < q
        BY <1>1, <2>1 DEF Width
      <4>2. Tall(Append(KindsOf(frames), kind), Len(stack) + Width(kind), q)
        BY <1>1, <2>1, <4>1, TallOpen
      <4> QED
        BY <3>4, <3>5, <4>2
    <3>7. ControlInv'
      BY <1>1, <2>1, <3>1, <3>4, <3>5, CJsonAssumption DEF ControlInv, Writing
    <3>8. HeightInv' /\ SlotsReserved'
      BY <2>1, <3>1, <3>4, <3>5, <3>6 DEF HeightInv, EncodeHeight, SlotsReserved
    <3>9. TextInv' /\ DepthBalanced' /\ BuffersOwned'
      BY <3>1, <3>2, EmitStep DEF Writing
    <3> QED
      BY <3>7, <3>8, <3>9
  <2> QED
    BY <2>2, <2>3
<1> QED
  BY <1>3, <1>4

LEMMA AppendDataStep ==
  ResourceInv /\ AppendData => ResourceInv'
<1> SUFFICES ASSUME ResourceInv, AppendData PROVE ResourceInv'
  OBVIOUS
<1> DEFINE v == LastOf(stack)
<1>1. Encoding("data") /\ op = "encode" /\ pc = "data"
  BY DEF AppendData, Encoding
<1>2. CASE v.type = "table"
  <2>1. \E t : EnterTable(t)
    BY <1>2 DEF AppendData
  <2> QED
    BY <1>1, <2>1, EnterTableStep
<1>3. CASE v.type \in {"string", "null", "nil"}
  <2>1. /\ \E token : token.type # "none" /\ Emit(<<token>>)
        /\ pc' = "done" /\ UNCHANGED <<stack, reserved, frames, tmp>>
    <3>1. /\ \E text : Emit(<<IF v.type = "string" THEN StringToken(text) ELSE Token("T_NULL")>>)
          /\ pc' = "done" /\ UNCHANGED <<stack, reserved, frames, tmp>>
      BY <1>3 DEF AppendData
    <3>2. \A text : (IF v.type = "string" THEN StringToken(text)
                     ELSE Token("T_NULL")).type # "none"
      BY DEF StringToken, Token
    <3> HIDE DEF v
    <3> QED
      BY <3>1, <3>2
  <2>2. \E ts : IsText(ts) /\ Emit(ts)
    BY <2>1, OneToken
  <2>3. TextInv' /\ DepthBalanced' /\ BuffersOwned'
    BY <1>1, <2>1, <2>2, EmitStep DEF Encoding, Writing
  <2>4. ControlInv' /\ SlotsReserved'
    BY <1>1, <2>1 DEF ResourceInv, ControlInv, SlotsReserved, Encoding, Writing
  <2>5. HeightInv'
    BY <1>1, <2>1 DEF ResourceInv, HeightInv, EncodeHeight, Encoding
  <2> QED
    BY <2>3, <2>4, <2>5 DEF ResourceInv
<1>4. CASE v.type # "table" /\ v.type \notin {"string", "null", "nil"}
  <2>1. Raise("refused", stack) /\ UNCHANGED <<kept, reserved, frames>>
    BY <1>4 DEF AppendData
  <2>2. /\ IsSeq(stack) /\ IsFrames(frames) /\ reserved \in Nat /\ reserved <= MaxCStack
        /\ Len(stack) + 1 <= reserved /\ (kept # NoBuffer => IsText(kept))
    BY <1>1, RoomForMessage DEF ResourceInv, ControlInv, SlotsReserved, TextInv
  <2> QED
    BY <1>1, <2>1, <2>2, EncodeErrorStep DEF Encoding, Writing
<1> QED
  BY <1>2, <1>3, <1>4

(* What the loops over a table start from. *)
LEMMA InLoop ==
  ASSUME ResourceInv, Encoding("loop")
  PROVE  /\ op = "encode" /\ pc = "loop" /\ frames # <<>> /\ IsFrames(frames)
         /\ IsSeq(KindsOf(frames)) /\ KindsOf(frames) # <<>>
         /\ LastOf(KindsOf(frames)) = LastOf(frames).kind
         /\ Tall(KindsOf(frames), Len(stack) + 1, reserved)
         /\ Len(stack) \in Nat /\ IsSeq(stack) /\ reserved \in Nat
         /\ Len(stack) + 2 <= reserved
         /\ Len(stack) >= Width(LastOf(frames).kind)
<1>1. /\ op = "encode" /\ pc = "loop" /\ frames # <<>> /\ IsFrames(frames)
      /\ Tall(KindsOf(frames), Len(stack) + 1, reserved)
      /\ IsSeq(stack) /\ reserved \in Nat
  BY DEF ResourceInv, Encoding, ControlInv, HeightInv, EncodeHeight
<1>2. Len(stack) \in Nat /\ Len(stack) + 2 <= reserved
  BY <1>1, RoomForMessage
<1>3. /\ IsSeq(KindsOf(frames)) /\ KindsOf(frames) # <<>>
      /\ LastOf(KindsOf(frames)) = LastOf(frames).kind
  BY <1>1, KindsSeq DEF IsFrames
<1>4. Len(stack) + 1 > Width(LastOf(frames).kind)
  BY <1>1, <1>3, TallHeight
<1> QED
  BY <1>1, <1>2, <1>3, <1>4 DEF Width

(* The text of a separator is one. *)
LEMMA CommaIsText ==
  ASSUME NEW f
  PROVE  IsText(Comma(f))
<1>1. Token("T_COMMA").type # "none"
  BY DEF Token
<1> QED
  BY <1>1, OneToken, EmptyIsText DEF Comma

LEMMA NextItemStep ==
  ResourceInv /\ NextItem => ResourceInv'
<1> SUFFICES ASSUME ResourceInv, NextItem PROVE ResourceInv'
  OBVIOUS
<1> DEFINE f == LastOf(frames)
<1>1. Encoding("loop") /\ pc' = "data" /\ Emit(Comma(f))
      /\ frames' = Replaced(frames, Advanced(f)) /\ UNCHANGED <<reserved, tmp>>
      /\ \E v : stack' = Append(stack, v)
  BY DEF NextItem
<1>2. IsSeq(stack') /\ Len(stack') = Len(stack) + 1 /\ Len(stack') <= reserved
  BY <1>1, InLoop, Appended
<1>3. IsFrames(frames') /\ KindsOf(frames') = KindsOf(frames)
  BY <1>1, InLoop, KindsAdvanced
<1>4. TextInv' /\ DepthBalanced' /\ BuffersOwned'
  BY <1>1, CommaIsText, EmitStep DEF Encoding, Writing
<1>5. ControlInv' /\ SlotsReserved'
  BY <1>1, <1>2, <1>3 DEF ResourceInv, ControlInv, SlotsReserved, Encoding, Writing
<1>6. HeightInv'
  BY <1>1, <1>2, <1>3, InLoop DEF HeightInv, EncodeHeight, Encoding
<1> QED
  BY <1>4, <1>5, <1>6 DEF ResourceInv

LEMMA NextMemberStep ==
  ResourceInv /\ NextMember => ResourceInv'
<1> SUFFICES ASSUME ResourceInv, NextMember PROVE ResourceInv'
  OBVIOUS
<1> DEFINE f == LastOf(frames)
           k == Head(f.left)
           pushed == Replaced(stack, Value("string", {k})) \o <<At(heap[f.table], k)>>
<1>1. /\ Encoding("loop") /\ f.kind = "object" /\ UNCHANGED reserved
      /\ frames' = Replaced(frames, Advanced(f))
  BY DEF NextMember
<1>2. IsSeq(pushed) /\ Len(pushed) = Len(stack) + 1 /\ Len(pushed) + 1 <= reserved
  <2> DEFINE keyed == Replaced(stack, Value("string", {k}))
             item == At(heap[f.table], k)
  <2>1. stack # <<>>
    BY <1>1, InLoop DEF Width
  <2>2. IsSeq(keyed) /\ Len(keyed) = Len(stack)
    BY <1>1, <2>1, InLoop, ReplacedLast
  <2> HIDE DEF keyed, item
  <2>3. keyed \o <<item>> = Append(keyed, item)
    <3> DEFINE S == {keyed[i] : i \in DOMAIN keyed} \union {item}
    <3>1. keyed \in Seq(S) /\ item \in S
      BY <2>2, SeqMonotonic DEF IsSeq
    <3> HIDE DEF S
    <3> QED
      BY <3>1, AppendIsConcat
  <2>4. IsSeq(keyed \o <<item>>) /\ Len(keyed \o <<item>>) = Len(stack) + 1
    BY <2>2, <2>3, Appended
  <2>5. pushed = keyed \o <<item>>
    BY DEF keyed, item
  <2> HIDE DEF pushed
  <2> QED
    BY <1>1, <2>4, <2>5, InLoop
<1>3. /\ IsFrames(frames') /\ KindsOf(frames') = KindsOf(frames)
  BY <1>1, InLoop, KindsAdvanced
<1>4. CASE k \in Texts \union Nat
  <2>1. /\ Emit(Comma(f) \o <<StringToken(k), Token("T_COLON")>>)
        /\ stack' = pushed /\ pc' = "data" /\ UNCHANGED tmp
    BY <1>4 DEF NextMember
  <2>2. IsText(Comma(f) \o <<StringToken(k), Token("T_COLON")>>)
    <3>1. StringToken(k).type # "none" /\ Token("T_COLON").type # "none"
      BY DEF StringToken, Token
    <3>2. IsText(<<StringToken(k), Token("T_COLON")>>)
      BY <3>1, TwoTokens
    <3> QED
      BY <3>2, CommaIsText, JoinedText
  <2> HIDE DEF f, k, pushed
  <2>3. TextInv' /\ DepthBalanced' /\ BuffersOwned'
    BY <1>1, <2>1, <2>2, EmitStep DEF Encoding, Writing
  <2>4. ControlInv' /\ SlotsReserved'
    BY <1>1, <1>2, <1>3, <2>1, InLoop DEF ResourceInv, ControlInv, SlotsReserved, Encoding, Writing
  <2>5. HeightInv'
    BY <1>1, <1>2, <1>3, <2>1, InLoop DEF HeightInv, EncodeHeight, Encoding
  <2> QED
    BY <2>3, <2>4, <2>5 DEF ResourceInv
<1>5. CASE k \notin Texts \union Nat
  <2>1. Raise("refused", pushed) /\ kept' = IF cfg.keep THEN kept \o Comma(f) ELSE kept
    BY <1>5 DEF NextMember
  <2> HIDE DEF f, k, pushed
  <2>2. /\ (kept' = NoBuffer) = (kept = NoBuffer)
        /\ kept' # NoBuffer => IsText(kept')
    <3>1. CASE cfg.keep
      <4>1. IsText(kept) /\ kept # NoBuffer
        BY <3>1 DEF ResourceInv, TextInv, BuffersOwned
      <4>2. IsText(kept')
        BY <2>1, <3>1, <4>1, CommaIsText, JoinedText
      <4> QED
        BY <4>1, <4>2, TextIsBuffer
    <3>2. CASE ~cfg.keep
      BY <2>1, <3>2 DEF ResourceInv, TextInv
    <3> QED
      BY <3>1, <3>2
  <2>3. reserved <= MaxCStack
    BY <1>1, InLoop DEF ResourceInv, SlotsReserved
  <2>4. /\ op = "encode" /\ pc \in Writing /\ reserved' \in Nat /\ reserved <= reserved'
        /\ reserved' <= MaxCStack /\ Len(pushed) + 1 <= reserved'
        /\ UNCHANGED <<op, cfg, open, depth>>
    BY <1>1, <1>2, <2>3, InLoop DEF Encoding, Writing
  <2>5. IsSeq(pushed) /\ IsFrames(frames') /\ Raise("refused", pushed)
    BY <1>2, <1>3, <2>1
  <2> QED
    BY <2>2, <2>4, <2>5, EncodeErrorStep
<1> QED
  BY <1>4, <1>5

LEMMA PopItemStep ==
  ResourceInv /\ PopItem => ResourceInv'
<1> SUFFICES ASSUME ResourceInv, PopItem PROVE ResourceInv'
  OBVIOUS
<1> USE DEF ResourceInv, PopItem, Encoding
<1>1. /\ op = "encode" /\ pc = "done" /\ IsSeq(stack) /\ IsFrames(frames)
      /\ reserved \in Nat /\ Len(stack) \in Nat
      /\ Tall(KindsOf(frames), Len(stack), reserved)
  BY RoomForMessage DEF ControlInv, HeightInv, EncodeHeight
<1>2. Len(stack) >= 1
  <2>1. IsSeq(KindsOf(frames)) /\ KindsOf(frames) # <<>>
    BY <1>1, KindsSeq DEF IsFrames
  <2> QED
    BY <1>1, <2>1, TallHeight DEF Width
<1>3. IsSeq(stack') /\ Len(stack') = Len(stack) - 1
  BY <1>1, <1>2, Shortened
<1>4. ControlInv' /\ SlotsReserved'
  BY <1>1, <1>3, CJsonAssumption DEF ControlInv, SlotsReserved, Writing
<1>5. HeightInv'
  <2>1. Len(stack') + 1 = Len(stack)
    BY <1>1, <1>3
  <2> QED
    BY <1>1, <2>1 DEF HeightInv, EncodeHeight
<1>6. TextInv' /\ DepthBalanced' /\ BuffersOwned'
  BY DEF TextInv, DepthBalanced, BuffersOwned
<1> QED
  BY <1>4, <1>5, <1>6

LEMMA CloseTableStep ==
  ResourceInv /\ CloseTable => ResourceInv'
<1> SUFFICES ASSUME ResourceInv, CloseTable PROVE ResourceInv'
  OBVIOUS
<1> DEFINE kind == LastOf(frames).kind
<1>1. /\ Encoding("loop") /\ Emit(<<Token(EndOf(kind))>>)
      /\ stack' = (IF kind = "object" THEN Without(stack, 1) ELSE stack)
      /\ frames' = Without(frames, 1) /\ pc' = "done" /\ UNCHANGED <<reserved, tmp>>
  BY DEF CloseTable
<1>2. IsText(<<Token(EndOf(kind))>>)
  BY OneToken DEF Token, EndOf
<1>3. /\ IsFrames(frames') /\ KindsOf(frames') = Without(KindsOf(frames), 1)
  BY <1>1, InLoop, KindsWithout
<1>4. /\ IsSeq(stack') /\ Len(stack') <= Len(stack)
      /\ Len(stack') = Len(stack) + 1 - Width(kind)
  <2>1. CASE kind = "object"
    <3>1. Len(stack) >= 1
      BY <1>1, <2>1, InLoop DEF Width
    <3>2. IsSeq(stack') /\ Len(stack') = Len(stack) - 1
      BY <1>1, <2>1, <3>1, InLoop, Shortened
    <3> QED
      BY <1>1, <2>1, <3>2, InLoop DEF Width
  <2>2. CASE kind # "object"
    BY <1>1, <2>2, InLoop DEF Width
  <2> QED
    BY <2>1, <2>2
<1>5. Tall(KindsOf(frames'), Len(stack'), reserved)
  <2>1. PICK h : h = Len(stack) + 1
    OBVIOUS
  <2>2. /\ Tall(KindsOf(frames), h, reserved) /\ LastOf(KindsOf(frames)) = kind
        /\ IsSeq(KindsOf(frames)) /\ KindsOf(frames) # <<>> /\ reserved \in Nat
    BY <1>1, <2>1, InLoop
  <2> HIDE DEF kind
  <2>3. Len(stack') = h - Width(kind)
    <3>1. Len(stack) \in Nat /\ Width(kind) \in {1, 2}
      BY <1>1, InLoop DEF Width
    <3> QED
      BY <1>4, <2>1, <3>1
  <2>4. Tall(Without(KindsOf(frames), 1), h - Width(kind), reserved)
    BY <2>2, TallClose
  <2> QED
    BY <1>3, <2>3, <2>4
<1> HIDE DEF kind
<1>6. TextInv' /\ DepthBalanced' /\ BuffersOwned'
  BY <1>1, <1>2, EmitStep DEF Encoding, Writing
<1>7. ControlInv' /\ SlotsReserved'
  BY <1>1, <1>3, <1>4, InLoop DEF ResourceInv, ControlInv, SlotsReserved, Encoding, Writing
<1>8. HeightInv'
  BY <1>1, <1>5 DEF HeightInv, EncodeHeight, Encoding
<1> QED
  BY <1>6, <1>7, <1>8 DEF ResourceInv

LEMMA EncodeReturnStep ==
  ResourceInv /\ EncodeReturn => ResourceInv'
<1> SUFFICES ASSUME ResourceInv, EncodeReturn PROVE ResourceInv'
  OBVIOUS
<1> USE DEF ResourceInv, EncodeReturn, Encoding
<1>1. IsSeq(stack') /\ Len(stack') = Len(stack) + 1 /\ Len(stack') <= reserved
  BY Appended, RoomForMessage DEF ControlInv
<1>2. ControlInv' /\ SlotsReserved'
  BY <1>1 DEF ControlInv, SlotsReserved
<1>3. HeightInv' /\ TextInv' /\ DepthBalanced' /\ BuffersOwned'
  BY DEF HeightInv, EncodeHeight, TextInv, DepthBalanced, BuffersOwned
<1> QED
  BY <1>2, <1>3

-----------------------------------------------------------------------------
(***************************************************************************)
(* The ends of a call, and the settings between two.                       *)
(***************************************************************************)
LEMMA FinishStep ==
  ResourceInv /\ Finish => ResourceInv'
<1> SUFFICES ASSUME ResourceInv, Finish PROVE ResourceInv'
  OBVIOUS
<1> USE DEF ResourceInv, Finish
<1>1. IsSeq(<<>>) /\ Len(<<>>) = 0 /\ IsFrames(<<>>)
  BY EmptySeq DEF IsSeq, IsFrames
<1>2. IsText(Leftover) /\ Leftover # NoBuffer
  BY OneToken, TextIsBuffer DEF Leftover, Token
<1>3. op # "idle"
  BY DEF ControlInv
<1>4. ControlInv'
  BY <1>1 DEF ControlInv
<1>5. HeightInv' /\ SlotsReserved'
  BY DEF HeightInv, SlotsReserved
<1>6. TextInv'
  BY <1>2 DEF TextInv
<1>7. DepthBalanced'
  <2>1. op' = "idle" /\ open' = <<>> /\ cfg' = cfg /\ cfg.decodeDepth \in Nat
    BY CJsonAssumption DEF ControlInv, Settings
  <2> QED
    BY <1>1, <2>1 DEF DepthBalanced
<1>8. <<>> # NoBuffer
  BY EmptyIsText, TextIsBuffer
<1>9. BuffersOwned'
  BY <1>2, <1>3, <1>8 DEF BuffersOwned, ControlInv, Reading, Writing
<1> QED
  BY <1>4, <1>5, <1>6, <1>7, <1>9

LEMMA RefusedCall ==
  ASSUME ResourceInv, NEW arguments \in 0 .. 2, RefuseCall(arguments)
  PROVE  ResourceInv'
<1>1. /\ IsSeq(stack') /\ Len(stack') = arguments + 1
      /\ reserved' = arguments + MinStack
  <2> DEFINE s == [i \in 1 .. arguments + 1 |->
                     IF i <= arguments THEN Value("argument", {}) ELSE Message]
  <2>1. s \in Seq({Value("argument", {}), Message}) /\ Len(s) = arguments + 1
    OBVIOUS
  <2>2. IsSeq(s)
    BY <2>1, SeqIsSeq
  <2> QED
    BY <2>1, <2>2 DEF RefuseCall
<1>2. /\ op = "idle" /\ op' = "refused" /\ pc' = "argument"
      /\ cfg' = cfg /\ open' = open /\ depth' = depth /\ frames' = frames
      /\ kept' = kept /\ local' = local /\ tmp' = tmp
  BY DEF RefuseCall, decodeVars, encodeVars
<1>3. reserved' \in Nat
  BY <1>1, CJsonAssumption
<1>4. ControlInv'
  BY <1>1, <1>2, <1>3 DEF ResourceInv, ControlInv
<1>5. HeightInv' /\ TextInv'
  BY <1>2 DEF ResourceInv, HeightInv, TextInv
<1>6. SlotsReserved'
  BY <1>1, <1>2, CJsonAssumption DEF SlotsReserved
<1>7. DepthBalanced' /\ BuffersOwned'
  BY <1>2 DEF ResourceInv, DepthBalanced, BuffersOwned, ControlInv
<1> QED
  BY <1>4, <1>5, <1>6, <1>7 DEF ResourceInv

LEMMA SettingSteps ==
  ResourceInv /\ SettingStep => ResourceInv'
<1> SUFFICES ASSUME ResourceInv, SettingStep PROVE ResourceInv'
  OBVIOUS
<1> USE DEF ResourceInv
<1>1. /\ op = "idle" /\ cfg' \in Settings
      /\ UNCHANGED <<op, pc, local, tmp, open, depth, stack, reserved, frames>>
      /\ \/ kept' = kept /\ cfg'.keep = cfg.keep
         \/ kept' = KeptAfter(cfg'.keep)
  BY DEF SettingStep, SetDepths, SetSparse, SetKeepBuffer, Setting, decodeVars,
         ControlInv, Settings
<1>2. IsText(<<>>) /\ <<>> # NoBuffer
  BY EmptyIsText, TextIsBuffer
<1>3. ControlInv'
  BY <1>1 DEF ControlInv
<1>4. HeightInv' /\ SlotsReserved'
  BY <1>1 DEF HeightInv, SlotsReserved
<1>5. TextInv' /\ BuffersOwned'
  BY <1>1, <1>2 DEF TextInv, BuffersOwned, KeptAfter, ControlInv, Settings
<1>6. DepthBalanced'
  <2>1. open' = <<>> /\ Len(<<>>) = 0 /\ cfg'.decodeDepth \in Nat
    BY <1>1, CJsonAssumption DEF ControlInv, Settings
  <2> QED
    BY <1>1, <2>1 DEF DepthBalanced
<1> QED
  BY <1>3, <1>4, <1>5, <1>6

LEMMA StutterStep ==
  ResourceInv /\ UNCHANGED jsonVars => ResourceInv'
<1> SUFFICES ASSUME ResourceInv, UNCHANGED jsonVars PROVE ResourceInv'
  OBVIOUS
<1> USE DEF jsonVars, ResourceInv
<1>1. ControlInv' /\ HeightInv' /\ TextInv'
  BY DEF ControlInv, HeightInv, DecodeHeight, EncodeHeight, TextInv
<1>2. SlotsReserved' /\ DepthBalanced' /\ BuffersOwned'
  BY DEF SlotsReserved, DepthBalanced, BuffersOwned
<1> QED
  BY <1>1, <1>2

(* Every step of the module keeps the invariant (lua_cjson.c). *)
THEOREM ResourcesInductive == JsonSpec => []ResourceInv
<1>1. ResourceInv /\ [JsonNext]_jsonVars => ResourceInv'
  <2> SUFFICES ASSUME ResourceInv, [JsonNext]_jsonVars PROVE ResourceInv'
    OBVIOUS
  <2>1. CASE DecodeStep
    BY <2>1, DecodeCalled, ReadStep, StoreStep DEF DecodeStep
  <2>2. CASE EncodeStep
    BY <2>2, EncodeCalled, AppendDataStep, NextItemStep, NextMemberStep, PopItemStep,
       CloseTableStep, EncodeReturnStep DEF EncodeStep
  <2>3. CASE Finish
    BY <2>3, FinishStep
  <2>4. CASE SettingStep
    BY <2>4, SettingSteps
  <2>5. CASE UNCHANGED jsonVars
    BY <2>5, StutterStep
  <2>6. ASSUME NEW arguments \in 0 .. 2, RefuseCall(arguments)
        PROVE  ResourceInv'
    BY <2>6, RefusedCall
  <2> QED
    BY <2>1, <2>2, <2>3, <2>4, <2>5, <2>6 DEF JsonNext
<1> QED
  BY <1>1, InitResources, PTL DEF JsonSpec

(* Everything decode and encode push is within the slots they asked for,   *)
(* however deep the JSON is and wherever it goes wrong (lua_checkstack in  *)
(* json_decode_descend and json_check_encode_depth).                       *)
THEOREM AllSlotsReserved == JsonSpec => []SlotsReserved
<1>1. ResourceInv => SlotsReserved
  BY DEF ResourceInv
<1> QED
  BY <1>1, ResourcesInductive, PTL

(* current_depth counts the containers that are open, and the limit holds  *)
(* (json_decode_descend, json_decode_ascend).                              *)
THEOREM DepthAlwaysBalanced == JsonSpec => []DepthBalanced
<1>1. ResourceInv => DepthBalanced
  BY DEF ResourceInv
<1> QED
  BY <1>1, ResourcesInductive, PTL

(* No buffer outlives the call that allocated it, and the kept one is there *)
(* exactly while the setting says so (strbuf_free on each way out).         *)
THEOREM BuffersAlwaysOwned == JsonSpec => []BuffersOwned
<1>1. ResourceInv => BuffersOwned
  BY DEF ResourceInv
<1> QED
  BY <1>1, ResourcesInductive, PTL

(***************************************************************************)
(* Grammar is well defined: the texts of n tokens depend on shorter ones.  *)
(***************************************************************************)
Below(f, n) == [m \in 0 .. (n - 1) |-> f[m]]
Defined(f, n) == f[n] = TextsOfLength(n, Below(f, n))
UpTo(f, n) == f = [m \in 0 .. n |-> f[m]] /\ \A m \in 0 .. n : Defined(f, m)

LEMMA Agree ==
  ASSUME NEW f, NEW g, NEW k \in Nat,
         \A m \in 0 .. k : Defined(f, m), \A m \in 0 .. k : Defined(g, m)
  PROVE  f[k] = g[k]
<1> DEFINE T == {n \in Nat : \A m \in 0 .. n : m <= k => f[m] = g[m]}
<1>1. \A m \in 0 .. k : (\A i \in 0 .. m - 1 : f[i] = g[i]) => f[m] = g[m]
  BY DEF Below, Defined
<1>2. 0 \in T
  BY <1>1
<1>3. ASSUME NEW n \in T
      PROVE  n + 1 \in T
  <2> SUFFICES ASSUME n + 1 <= k
               PROVE  f[n + 1] = g[n + 1]
    OBVIOUS
  <2>1. \A i \in 0 .. (n + 1) - 1 : f[i] = g[i]
    OBVIOUS
  <2> QED
    BY <1>1, <2>1
<1>4. T \in SUBSET Nat
  OBVIOUS
<1> HIDE DEF T
<1>5. T = Nat
  BY <1>2, <1>3, <1>4, SetInduction
<1> QED
  BY <1>5 DEF T

LEMMA Approximated ==
  ASSUME NEW n \in Nat
  PROVE  \E f : UpTo(f, n)
<1> DEFINE T == {m \in Nat : \E f : UpTo(f, m)}
<1>1. 0 \in T
  <2> DEFINE f == [m \in 0 .. 0 |-> TextsOfLength(0, [i \in 0 .. (0 - 1) |-> {}])]
  <2>1. f[0] = TextsOfLength(0, [i \in 0 .. (0 - 1) |-> {}]) /\ f = [m \in 0 .. 0 |-> f[m]]
    OBVIOUS
  <2> HIDE DEF f
  <2>2. Below(f, 0) = [i \in 0 .. (0 - 1) |-> {}]
    BY DEF Below
  <2>3. UpTo(f, 0)
    BY <2>1, <2>2 DEF UpTo, Defined
  <2> QED
    BY <2>3
<1>2. ASSUME NEW m \in T
      PROVE  m + 1 \in T
  <2>1. PICK f : UpTo(f, m)
    OBVIOUS
  <2> DEFINE last == TextsOfLength(m + 1, Below(f, m + 1))
             g == [i \in 0 .. (m + 1) |-> IF i = m + 1 THEN last ELSE f[i]]
  <2>2. /\ g = [i \in 0 .. (m + 1) |-> g[i]]
        /\ \A i \in 0 .. m : g[i] = f[i]
        /\ g[m + 1] = last
    OBVIOUS
  <2> HIDE DEF g
  <2>3. ASSUME NEW i \in 0 .. (m + 1)
        PROVE  Below(g, i) = Below(f, i)
    <3>1. \A x \in 0 .. (i - 1) : x \in 0 .. m
      OBVIOUS
    <3>2. \A x \in 0 .. (i - 1) : g[x] = f[x]
      BY <2>2, <3>1
    <3> QED
      BY <3>2 DEF Below
  <2>4. \A i \in 0 .. (m + 1) : Defined(g, i)
    <3> SUFFICES ASSUME NEW i \in 0 .. (m + 1)
                 PROVE  Defined(g, i)
      OBVIOUS
    <3>1. CASE i = m + 1
      BY <2>2, <2>3, <3>1 DEF Defined
    <3>2. CASE i \in 0 .. m
      BY <2>1, <2>2, <2>3, <3>2 DEF Defined, UpTo
    <3> QED
      BY <3>1, <3>2
  <2>5. UpTo(g, m + 1)
    BY <2>2, <2>4 DEF UpTo
  <2> QED
    BY <2>5
<1>3. T \in SUBSET Nat
  OBVIOUS
<1> HIDE DEF T
<1>4. T = Nat
  BY <1>1, <1>2, <1>3, SetInduction
<1> QED
  BY <1>4 DEF T

LEMMA GrammarDefined ==
  \A n \in Nat : Grammar[n] = TextsOfLength(n, Below(Grammar, n))
<1> DEFINE Rule(g) == g = [n \in Nat |-> TextsOfLength(n, [m \in 0 .. (n - 1) |-> g[m]])]
           Some(n) == CHOOSE f : UpTo(f, n)
           h == [n \in Nat |-> Some(n)[n]]
<1>1. \A n \in Nat : UpTo(Some(n), n)
  BY Approximated
<1> HIDE DEF Some
<1>2. \A n \in Nat : h[n] = Some(n)[n]
  OBVIOUS
<1>3. ASSUME NEW n \in Nat
      PROVE  h[n] = TextsOfLength(n, Below(h, n))
  <2>1. ASSUME NEW i \in 0 .. n
        PROVE  Some(n)[i] = Some(i)[i]
    <3>1. \A m \in 0 .. i : Defined(Some(n), m)
      BY <1>1 DEF UpTo
    <3>2. \A m \in 0 .. i : Defined(Some(i), m)
      BY <1>1 DEF UpTo
    <3> QED
      BY <3>1, <3>2, Agree
  <2>2. Below(Some(n), n) = Below(h, n)
    BY <1>2, <2>1 DEF Below
  <2>3. Defined(Some(n), n)
    BY <1>1 DEF UpTo
  <2> QED
    BY <1>2, <2>2, <2>3 DEF Defined
<1>4. Rule(h)
  BY <1>3 DEF Below
<1> DEFINE g == CHOOSE g : Rule(g)
<1>5. Rule(g)
  <2> HIDE DEF Rule
  <2> QED
    BY <1>4
<1>6. Grammar = g
  BY DEF Grammar
<1> HIDE DEF g
<1> QED
  BY <1>5, <1>6 DEF Below

ValuesOf(n) == Grammar[n].values
ListsOf(kind, n) == Grammar[n].lists[kind]
EntriesOf(kind, n) ==
  IF kind = "array" THEN ValuesOf(n) ELSE IF n < 2 THEN {} ELSE Named(ValuesOf(n - 2))

LEMMA GrammarForms ==
  ASSUME NEW n \in Nat
  PROVE  /\ ValuesOf(n) = IF n = 0 THEN {} ELSE IF n = 1 THEN Scalars
                          ELSE UNION {Bracketed(kind, ListsOf(kind, n - 2)) : kind \in Kinds}
         /\ \A kind \in Kinds :
              ListsOf(kind, n) =
                IF n = 0 THEN {<<<<>>, <<>>>>}
                ELSE {<<x[1], <<x[2]>>>> : x \in EntriesOf(kind, n)}
                       \union UNION {Joined(EntriesOf(kind, m), ListsOf(kind, n - 1 - m)) :
                                       m \in 1 .. (n - 2)}
<1> DEFINE shorter == Below(Grammar, n)
           values == IF n = 0 THEN {}
                     ELSE IF n = 1 THEN Scalars
                     ELSE UNION {Bracketed(kind, shorter[n - 2].lists[kind]) : kind \in Kinds}
           Values(m) == IF m = n THEN values ELSE shorter[m].values
           Entries(kind, m) == IF kind = "array" THEN Values(m)
                               ELSE IF m < 2 THEN {} ELSE Named(Values(m - 2))
           Single(kind) == {<<x[1], <<x[2]>>>> : x \in Entries(kind, n)}
           Longer(kind) == UNION {Joined(Entries(kind, m), shorter[n - 1 - m].lists[kind]) :
                               m \in 1 .. (n - 2)}
           lists == [kind \in Kinds |-> IF n = 0 THEN {<<<<>>, <<>>>>}
                                        ELSE Single(kind) \union Longer(kind)]
<1>1. Grammar[n] = [values |-> values, lists |-> lists]
  BY GrammarDefined DEF TextsOfLength
<1>2. \A m \in 0 .. (n - 1) : shorter[m] = Grammar[m]
  BY DEF Below
<1> HIDE DEF shorter
<1>3. n \notin {0, 1} => \A kind : shorter[n - 2].lists[kind] = ListsOf(kind, n - 2)
  <2>1. n \notin {0, 1} => n - 2 \in 0 .. (n - 1)
    OBVIOUS
  <2> QED
    BY <1>2, <2>1 DEF ListsOf
<1>4. ValuesOf(n) = values
  BY <1>1 DEF ValuesOf
<1>5. values = IF n = 0 THEN {} ELSE IF n = 1 THEN Scalars
               ELSE UNION {Bracketed(kind, ListsOf(kind, n - 2)) : kind \in Kinds}
  BY <1>3
<1> HIDE DEF values
<1>6. \A m \in 0 .. n : Values(m) = ValuesOf(m)
  BY <1>2, <1>4 DEF ValuesOf
<1> HIDE DEF Values
<1>7. \A kind : \A m \in 0 .. n : Entries(kind, m) = EntriesOf(kind, m)
  BY <1>6 DEF EntriesOf
<1> HIDE DEF Entries
<1>8. \A kind : Single(kind) = {<<x[1], <<x[2]>>>> : x \in EntriesOf(kind, n)}
  BY <1>7
<1>9. ASSUME NEW kind, NEW m \in 1 .. (n - 2)
      PROVE  Joined(Entries(kind, m), shorter[n - 1 - m].lists[kind])
               = Joined(EntriesOf(kind, m), ListsOf(kind, n - 1 - m))
  <2>1. m \in 0 .. n /\ n - 1 - m \in 0 .. (n - 1)
    OBVIOUS
  <2> QED
    BY <1>2, <1>7, <2>1 DEF ListsOf
<1>10. \A kind : Longer(kind) = UNION {Joined(EntriesOf(kind, m), ListsOf(kind, n - 1 - m)) :
                                         m \in 1 .. (n - 2)}
  BY <1>9
<1> HIDE DEF Single, Longer
<1>11. \A kind \in Kinds : ListsOf(kind, n) = IF n = 0 THEN {<<<<>>, <<>>>>}
                                               ELSE Single(kind) \union Longer(kind)
  BY <1>1 DEF ListsOf
<1>12. \A kind \in Kinds :
         ListsOf(kind, n) =
                IF n = 0 THEN {<<<<>>, <<>>>>}
                ELSE {<<x[1], <<x[2]>>>> : x \in EntriesOf(kind, n)}
                       \union UNION {Joined(EntriesOf(kind, m), ListsOf(kind, n - 1 - m)) :
                                       m \in 1 .. (n - 2)}
  BY <1>8, <1>10, <1>11
<1> QED
  BY <1>4, <1>5, <1>12

(* What texts can mean. *)
JsonValues == UNION {{x[2] : x \in ValuesOf(n)} : n \in Nat}
EntrySet(kind) == IF kind = "array" THEN JsonValues ELSE Texts \X JsonValues
LongTexts(n) == {x \in Seq(Tokens) : Len(x) = n}

Typed(n) ==
  /\ ValuesOf(n) \subseteq LongTexts(n) \X JsonValues
  /\ \A kind \in Kinds : ListsOf(kind, n) \subseteq LongTexts(n) \X Seq(EntrySet(kind))

LEMMA TokenTypes ==
  /\ \A type \in {"T_OBJ_BEGIN", "T_OBJ_END", "T_ARR_BEGIN", "T_ARR_END",
                  "T_NULL", "T_COLON", "T_COMMA", "T_END", "T_ERROR"} : Token(type) \in Tokens
  /\ \A s \in Texts : StringToken(s) \in Tokens
  /\ \A kind \in Kinds : Opening(kind) \in Tokens /\ Closing(kind) \in Tokens
BY DEF Tokens, Opening, Closing, EndOf, Kinds

LEMMA Concats ==
  ASSUME NEW S
  PROVE  /\ <<>> \in Seq(S) /\ Len(<<>>) = 0
         /\ \A a \in S : <<a>> \in Seq(S) /\ Len(<<a>>) = 1 /\ <<a>>[1] = a
         /\ \A s, t \in Seq(S) : s \o t \in Seq(S) /\ Len(s \o t) = Len(s) + Len(t)
         /\ \A s \in Seq(S) : Len(s) \in Nat /\ s \o <<>> = s /\ <<>> \o s = s
         /\ \A s, t, u \in Seq(S) : (s \o t) \o u = s \o (t \o u)
         /\ \A a \in S, s \in Seq(S) : Append(s, a) = s \o <<a>>
BY ConcatProperties, ConcatEmptySeq, ConcatAssociative, AppendIsConcat, LenProperties

LEMMA Concatenated ==
  ASSUME NEW S, NEW s \in Seq(S), NEW t \in Seq(S)
  PROVE  s \o t \in Seq(S) /\ Len(s \o t) = Len(s) + Len(t)
BY Concats

LEMMA EntriesTyped ==
  ASSUME NEW n \in Nat, \A m \in 0 .. n : ValuesOf(m) \subseteq LongTexts(m) \X JsonValues,
         NEW kind \in Kinds
  PROVE  EntriesOf(kind, n) \subseteq LongTexts(n) \X EntrySet(kind)
<1>1. CASE kind = "array"
  BY <1>1 DEF EntriesOf, EntrySet
<1>2. CASE kind = "object" /\ n >= 2
  <2>1. EntriesOf(kind, n) = Named(ValuesOf(n - 2))
    BY <1>2 DEF EntriesOf
  <2> SUFFICES ASSUME NEW s \in Texts, NEW x \in ValuesOf(n - 2)
               PROVE  <<<<StringToken(s), Token("T_COLON")>> \o x[1], <<s, x[2]>>>>
                        \in LongTexts(n) \X EntrySet(kind)
    BY <1>2, <2>1 DEF Named
  <2>2. x[1] \in Seq(Tokens) /\ Len(x[1]) = n - 2 /\ x[2] \in JsonValues
    <3>1. n - 2 \in 0 .. n
      BY <1>2
    <3> QED
      BY <3>1 DEF LongTexts
  <2>3. <<StringToken(s), Token("T_COLON")>> \in Seq(Tokens)
        /\ Len(<<StringToken(s), Token("T_COLON")>>) = 2
    BY TokenTypes
  <2>4. <<StringToken(s), Token("T_COLON")>> \o x[1] \in LongTexts(n)
    BY <1>2, <2>2, <2>3, Concats DEF LongTexts
  <2> QED
    BY <1>2, <2>2, <2>4 DEF EntrySet
<1> QED
  BY <1>1, <1>2 DEF Kinds, EntriesOf

LEMMA GrammarTyped ==
  \A n \in Nat : Typed(n)
<1> DEFINE T == {n \in Nat : \A m \in 0 .. n : Typed(m)}
<1>1. ASSUME NEW n \in Nat, \A m \in 0 .. (n - 1) : Typed(m)
      PROVE  Typed(n)
  <2>1. ASSUME NEW x \in ValuesOf(n)
        PROVE  x = <<x[1], x[2]>> /\ x[1] \in LongTexts(n)
    <3>1. CASE n = 1
      <4>1. x \in Scalars
        BY <2>1, <3>1, GrammarForms
      <4>2. PICK t, v : t \in Tokens /\ x = <<<<t>>, v>>
        BY <4>1, TokenTypes DEF Scalars
      <4>3. <<t>> \in Seq(Tokens) /\ Len(<<t>>) = 1
        BY <4>2, Concats
      <4> QED
        BY <3>1, <4>2, <4>3 DEF LongTexts
    <3>2. CASE n \notin {0, 1}
      <4>1. PICK kind \in Kinds : x \in Bracketed(kind, ListsOf(kind, n - 2))
        BY <2>1, <3>2, GrammarForms
      <4>2. PICK y \in ListsOf(kind, n - 2) :
              x = <<<<Opening(kind)>> \o y[1] \o <<Closing(kind)>>, Container(kind, y[2])>>
        BY <4>1 DEF Bracketed
      <4>3. n - 2 \in 0 .. (n - 1)
        BY <3>2
      <4>4. y[1] \in Seq(Tokens) /\ Len(y[1]) = n - 2
        BY <1>1, <4>3 DEF Typed, LongTexts
      <4>5. Opening(kind) \in Tokens /\ Closing(kind) \in Tokens
        BY TokenTypes
      <4>6. /\ (<<Opening(kind)>> \o y[1]) \o <<Closing(kind)>> \in Seq(Tokens)
            /\ Len((<<Opening(kind)>> \o y[1]) \o <<Closing(kind)>>) = n
        BY <3>2, <4>4, <4>5, Concats
      <4> QED
        BY <4>2, <4>6 DEF LongTexts
    <3>3. n # 0
      BY <2>1, GrammarForms
    <3> QED
      BY <3>1, <3>2, <3>3
  <2>2. ValuesOf(n) \subseteq LongTexts(n) \X JsonValues
    BY <2>1 DEF JsonValues
  <2>3. \A m \in 0 .. n : ValuesOf(m) \subseteq LongTexts(m) \X JsonValues
    BY <1>1, <2>2 DEF Typed
  <2>4. ASSUME NEW kind \in Kinds, NEW x \in ListsOf(kind, n)
        PROVE  x \in LongTexts(n) \X Seq(EntrySet(kind))
    <3>1. CASE n = 0
      <4>1. x = <<<<>>, <<>>>>
        BY <2>4, <3>1, GrammarForms
      <4> QED
        BY <3>1, <4>1, Concats DEF LongTexts
    <3>2. CASE n # 0 /\ \E y \in EntriesOf(kind, n) : x = <<y[1], <<y[2]>>>>
      <4>1. PICK y \in EntriesOf(kind, n) : x = <<y[1], <<y[2]>>>>
        BY <3>2
      <4>2. y[1] \in LongTexts(n) /\ y[2] \in EntrySet(kind)
        BY <2>3, <4>1, EntriesTyped
      <4> QED
        BY <4>1, <4>2, Concats
    <3>3. CASE \E m \in 1 .. (n - 2) : x \in Joined(EntriesOf(kind, m), ListsOf(kind, n - 1 - m))
      <4>1. PICK m \in 1 .. (n - 2) : x \in Joined(EntriesOf(kind, m), ListsOf(kind, n - 1 - m))
        BY <3>3
      <4>2. PICK y \in EntriesOf(kind, m), z \in ListsOf(kind, n - 1 - m) :
              x = <<y[1] \o Comma1 \o z[1], <<y[2]>> \o z[2]>>
        BY <4>1 DEF Joined
      <4>3. m \in Nat /\ m \in 0 .. n /\ \A i \in 0 .. m : i \in 0 .. n
        OBVIOUS
      <4>4. y[1] \in Seq(Tokens) /\ Len(y[1]) = m /\ y[2] \in EntrySet(kind)
        BY <2>3, <4>2, <4>3, EntriesTyped DEF LongTexts
      <4>5. n - 1 - m \in 0 .. (n - 1)
        OBVIOUS
      <4>6. z[1] \in Seq(Tokens) /\ Len(z[1]) = n - 1 - m /\ z[2] \in Seq(EntrySet(kind))
        BY <1>1, <4>2, <4>5 DEF Typed, LongTexts
      <4>7. Comma1 \in Seq(Tokens) /\ Len(Comma1) = 1
        BY TokenTypes, Concats DEF Comma1
      <4> DEFINE front == y[1] \o Comma1
      <4>10. front \in Seq(Tokens) /\ Len(front) = m + 1
        BY <4>4, <4>7, Concatenated
      <4> HIDE DEF front
      <4>11. front \o z[1] \in Seq(Tokens) /\ Len(front \o z[1]) = (m + 1) + (n - 1 - m)
        BY <4>6, <4>10, Concatenated
      <4>8. (y[1] \o Comma1) \o z[1] \in Seq(Tokens) /\ Len((y[1] \o Comma1) \o z[1]) = n
        BY <4>11 DEF front
      <4>9. <<y[2]>> \o z[2] \in Seq(EntrySet(kind))
        BY <4>4, <4>6, Concats
      <4> QED
        BY <4>2, <4>8, <4>9 DEF LongTexts
    <3>4. n # 0 => x \in {<<y[1], <<y[2]>>>> : y \in EntriesOf(kind, n)}
                            \union UNION {Joined(EntriesOf(kind, m), ListsOf(kind, n - 1 - m)) :
                                             m \in 1 .. (n - 2)}
      BY <2>4, GrammarForms
    <3> QED
      BY <3>1, <3>2, <3>3, <3>4
  <2> QED
    BY <2>2, <2>4 DEF Typed
<1>2. 0 \in T
  BY <1>1
<1>3. ASSUME NEW n \in T
      PROVE  n + 1 \in T
  <2>1. \A m \in 0 .. ((n + 1) - 1) : Typed(m)
    OBVIOUS
  <2>2. Typed(n + 1)
    BY <1>1, <2>1
  <2> QED
    BY <2>1, <2>2
<1>4. T \in SUBSET Nat
  OBVIOUS
<1> HIDE DEF T
<1>5. T = Nat
  BY <1>2, <1>3, <1>4, SetInduction
<1> QED
  BY <1>5 DEF T

-----------------------------------------------------------------------------
(***************************************************************************)
(* The rules of the grammar, as relations between texts and meanings.      *)
(***************************************************************************)
IsValue(x, v) == x \in Seq(Tokens) /\ <<x, v>> \in ValuesOf(Len(x))
IsEntry(kind, x, e) == x \in Seq(Tokens) /\ <<x, e>> \in EntriesOf(kind, Len(x))
IsList(kind, x, es) == x \in Seq(Tokens) /\ <<x, es>> \in ListsOf(kind, Len(x))

LEMMA MeaningTypes ==
  /\ \A x, v : IsValue(x, v) => v \in JsonValues
  /\ \A kind \in Kinds : \A x, e : IsEntry(kind, x, e) => e \in EntrySet(kind)
  /\ \A kind \in Kinds : \A x, es : IsList(kind, x, es) => es \in Seq(EntrySet(kind))
<1>1. \A x \in Seq(Tokens) : Len(x) \in Nat /\ \A m \in 0 .. Len(x) : m \in Nat
  BY LenProperties
<1>2. \A n \in Nat : ValuesOf(n) \subseteq LongTexts(n) \X JsonValues
  BY GrammarTyped DEF Typed
<1>3. \A kind \in Kinds : \A n \in Nat : EntriesOf(kind, n) \subseteq LongTexts(n) \X EntrySet(kind)
  BY <1>2, EntriesTyped
<1>4. \A kind \in Kinds : \A n \in Nat :
        ListsOf(kind, n) \subseteq LongTexts(n) \X Seq(EntrySet(kind))
  BY GrammarTyped DEF Typed
<1> QED
  BY <1>1, <1>2, <1>3, <1>4 DEF IsValue, IsEntry, IsList

(* x is y in brackets; a name and y; an entry y and a list z.              *)
InBrackets(kind, x, y, v, es) ==
  /\ IsList(kind, y, es)
  /\ x = (<<Opening(kind)>> \o y) \o <<Closing(kind)>> /\ v = Container(kind, es)
IsMember(x, e, s, y, v) ==
  x = <<StringToken(s), Token("T_COLON")>> \o y /\ e = <<s, v>> /\ IsValue(y, v)
IsLonger(kind, x, es, y, z, e, fs) ==
  /\ IsEntry(kind, y, e) /\ IsList(kind, z, fs) /\ z # <<>>
  /\ x = (y \o Comma1) \o z /\ es = <<e>> \o fs

LEMMA ValueForms ==
  ASSUME NEW x \in Seq(Tokens), NEW v
  PROVE  IsValue(x, v) <=>
           \/ x = <<Token("T_NULL")>> /\ v = Value("null", {})
           \/ \E s \in Texts : x = <<StringToken(s)>> /\ v = Value("string", {s})
           \/ \E kind \in Kinds, y \in Seq(Tokens) : \E es : InBrackets(kind, x, y, v, es)
<1>1. ASSUME NEW kind \in Kinds, NEW y \in Seq(Tokens)
      PROVE  /\ (<<Opening(kind)>> \o y) \o <<Closing(kind)>> \in Seq(Tokens)
             /\ Len((<<Opening(kind)>> \o y) \o <<Closing(kind)>>) = Len(y) + 2
             /\ Len(y) \in Nat
  <2>1. <<Opening(kind)>> \in Seq(Tokens) /\ Len(<<Opening(kind)>>) = 1
        /\ <<Closing(kind)>> \in Seq(Tokens) /\ Len(<<Closing(kind)>>) = 1
    BY TokenTypes, Concats
  <2>2. <<Opening(kind)>> \o y \in Seq(Tokens) /\ Len(<<Opening(kind)>> \o y) = 1 + Len(y)
    BY <2>1, Concatenated
  <2>3. Len(y) \in Nat
    BY LenProperties
  <2> QED
    BY <2>1, <2>2, <2>3, Concatenated
<1>2. Len(x) \in Nat
  BY LenProperties
<1>3. ASSUME IsValue(x, v), Len(x) # 0, Len(x) # 1
      PROVE  \E kind \in Kinds, y \in Seq(Tokens) : \E es : InBrackets(kind, x, y, v, es)
  <2>1. <<x, v>> \in UNION {Bracketed(kind, ListsOf(kind, Len(x) - 2)) : kind \in Kinds}
    BY <1>2, <1>3, GrammarForms DEF IsValue
  <2>6. PICK kind \in Kinds : <<x, v>> \in Bracketed(kind, ListsOf(kind, Len(x) - 2))
    BY <2>1
  <2>2. PICK p \in ListsOf(kind, Len(x) - 2) :
          <<x, v>> = <<<<Opening(kind)>> \o p[1] \o <<Closing(kind)>>, Container(kind, p[2])>>
    BY <2>6 DEF Bracketed
  <2>3. Len(x) - 2 \in Nat
    <3> DEFINE n == Len(x)
    <3>1. n \in Nat /\ n # 0 /\ n # 1
      BY <1>2, <1>3
    <3> HIDE DEF n
    <3>2. n - 2 \in Nat
      BY <3>1
    <3> QED
      BY <3>2 DEF n
  <2>4. p = <<p[1], p[2]>> /\ p[1] \in Seq(Tokens) /\ Len(p[1]) = Len(x) - 2
    BY <2>2, <2>3, GrammarTyped DEF Typed, LongTexts
  <2>5. IsList(kind, p[1], p[2])
    BY <2>2, <2>4 DEF IsList
  <2> QED
    BY <2>2, <2>4, <2>5 DEF InBrackets
<1>4. ASSUME NEW kind \in Kinds, NEW y \in Seq(Tokens), NEW es, InBrackets(kind, x, y, v, es)
      PROVE  IsValue(x, v)
  <2> USE DEF InBrackets
  <2>1. Len(x) = Len(y) + 2 /\ Len(y) \in Nat
    BY <1>1, <1>4
  <2>2. <<x, v>> \in Bracketed(kind, ListsOf(kind, Len(x) - 2))
    <3>1. Len(x) - 2 = Len(y)
      BY <2>1
    <3> DEFINE p == <<y, es>>
    <3>2. p \in ListsOf(kind, Len(x) - 2) /\ p[1] = y /\ p[2] = es
      BY <1>4, <3>1 DEF IsList
    <3> QED
      BY <1>4, <3>2 DEF Bracketed
  <2>3. ValuesOf(Len(x)) = UNION {Bracketed(k, ListsOf(k, Len(x) - 2)) : k \in Kinds}
    BY <1>2, <2>1, GrammarForms
  <2> QED
    BY <2>2, <2>3 DEF IsValue
<1>5. \A t \in Tokens : x = <<t>> => Len(x) = 1
  BY Concats
<1>6. Len(x) = 1 => (IsValue(x, v) <=> <<x, v>> \in Scalars)
  BY GrammarForms DEF IsValue
<1>7. <<x, v>> \in Scalars <=>
           \/ x = <<Token("T_NULL")>> /\ v = Value("null", {})
           \/ \E s \in Texts : x = <<StringToken(s)>> /\ v = Value("string", {s})
  BY DEF Scalars
<1>8. Len(x) = 0 => ~IsValue(x, v)
  BY GrammarForms DEF IsValue
<1>9. ASSUME Len(x) = 1
      PROVE  ~\E kind \in Kinds, y \in Seq(Tokens) : \E es : InBrackets(kind, x, y, v, es)
  <2>1. \A kind \in Kinds, y \in Seq(Tokens) :
          x # (<<Opening(kind)>> \o y) \o <<Closing(kind)>>
    BY <1>1, <1>9
  <2> QED
    BY <2>1 DEF InBrackets
<1> QED
  BY <1>2, <1>3, <1>4, <1>5, <1>6, <1>7, <1>8, <1>9, TokenTypes

LEMMA EntryForms ==
  ASSUME NEW x \in Seq(Tokens), NEW e
  PROVE  /\ IsEntry("array", x, e) <=> IsValue(x, e)
         /\ IsEntry("object", x, e) <=>
              \E s \in Texts, y \in Seq(Tokens) : \E v : IsMember(x, e, s, y, v)
<1>1. Len(x) \in Nat
  BY LenProperties
<1>2. ASSUME NEW s \in Texts, NEW y \in Seq(Tokens)
      PROVE  Len(<<StringToken(s), Token("T_COLON")>> \o y) = Len(y) + 2 /\ Len(y) \in Nat
  <2>1. <<StringToken(s), Token("T_COLON")>> \in Seq(Tokens)
        /\ Len(<<StringToken(s), Token("T_COLON")>>) = 2
    BY TokenTypes
  <2> QED
    BY <2>1, Concatenated, LenProperties
<1>3. IsEntry("array", x, e) <=> IsValue(x, e)
  BY DEF IsEntry, IsValue, EntriesOf
<1>4. ASSUME IsEntry("object", x, e)
      PROVE  \E s \in Texts, y \in Seq(Tokens) : \E v : IsMember(x, e, s, y, v)
  <2>1. Len(x) >= 2 /\ <<x, e>> \in Named(ValuesOf(Len(x) - 2))
    BY <1>1, <1>4 DEF IsEntry, EntriesOf
  <2>2. PICK s \in Texts, p \in ValuesOf(Len(x) - 2) :
          <<x, e>> = <<<<StringToken(s), Token("T_COLON")>> \o p[1], <<s, p[2]>>>>
    BY <2>1 DEF Named
  <2>3. Len(x) - 2 \in Nat
    BY <1>1, <2>1
  <2>4. p = <<p[1], p[2]>> /\ p[1] \in Seq(Tokens) /\ Len(p[1]) = Len(x) - 2
    BY <2>2, <2>3, GrammarTyped DEF Typed, LongTexts
  <2>5. IsValue(p[1], p[2])
    BY <2>2, <2>4 DEF IsValue
  <2> QED
    BY <2>2, <2>4, <2>5 DEF IsMember
<1>5. ASSUME NEW s \in Texts, NEW y \in Seq(Tokens), NEW v, IsMember(x, e, s, y, v)
      PROVE  IsEntry("object", x, e)
  <2> USE DEF IsMember
  <2>1. Len(x) - 2 = Len(y) /\ Len(x) >= 2
    BY <1>2, <1>5
  <2> DEFINE q == <<s, <<y, v>>>>
  <2>2. q \in Texts \X ValuesOf(Len(x) - 2) /\ q[1] = s /\ q[2][1] = y /\ q[2][2] = v
    BY <1>5, <2>1 DEF IsValue
  <2> HIDE DEF q
  <2>3. <<x, e>> \in Named(ValuesOf(Len(x) - 2))
    BY <1>5, <2>2 DEF Named
  <2> QED
    BY <2>1, <2>3 DEF IsEntry, EntriesOf
<1> QED
  BY <1>3, <1>4, <1>5

LEMMA EntryLength ==
  ASSUME NEW kind \in Kinds, NEW x, NEW e, IsEntry(kind, x, e)
  PROVE  x \in Seq(Tokens) /\ Len(x) \in Nat /\ Len(x) # 0
<1>1. x \in Seq(Tokens)
  BY DEF IsEntry
<1>2. Len(x) \in Nat
  BY <1>1, LenProperties
<1>3. ValuesOf(0) = {}
  BY GrammarForms
<1>4. EntriesOf(kind, 0) = {}
  BY <1>3 DEF EntriesOf
<1> QED
  BY <1>1, <1>2, <1>4 DEF IsEntry

LEMMA ListForms ==
  ASSUME NEW kind \in Kinds, NEW x \in Seq(Tokens), NEW es
  PROVE  IsList(kind, x, es) <=>
           \/ x = <<>> /\ es = <<>>
           \/ \E e : IsEntry(kind, x, e) /\ es = <<e>>
           \/ \E y, z \in Seq(Tokens) : \E e, fs : IsLonger(kind, x, es, y, z, e, fs)
<1> DEFINE n == Len(x)
           Single == {<<p[1], <<p[2]>>>> : p \in EntriesOf(kind, n)}
           Longer == UNION {Joined(EntriesOf(kind, m), ListsOf(kind, n - 1 - m)) :
                              m \in 1 .. (n - 2)}
<1>1. n \in Nat /\ (n = 0 <=> x = <<>>)
  BY LenProperties, EmptySeq
<1>2. Comma1 \in Seq(Tokens) /\ Len(Comma1) = 1
  BY TokenTypes, Concats DEF Comma1
<1>3. ASSUME NEW y \in Seq(Tokens), NEW z \in Seq(Tokens)
      PROVE  /\ (y \o Comma1) \o z \in Seq(Tokens) /\ Len(y) \in Nat /\ Len(z) \in Nat
             /\ Len((y \o Comma1) \o z) = Len(y) + 1 + Len(z)
             /\ Len(z) = 0 <=> z = <<>>
  <2>1. y \o Comma1 \in Seq(Tokens) /\ Len(y \o Comma1) = Len(y) + 1
    BY <1>2, Concatenated
  <2>2. Len(y) \in Nat /\ Len(z) \in Nat /\ (Len(z) = 0 <=> z = <<>>)
    BY LenProperties, EmptySeq
  <2> QED
    BY <2>1, <2>2, Concatenated
<1>4. ListsOf(kind, n) = IF n = 0 THEN {<<<<>>, <<>>>>} ELSE Single \union Longer
  BY <1>1, GrammarForms
<1>5. <<x, es>> \in Single <=> \E e : IsEntry(kind, x, e) /\ es = <<e>>
  <2>1. \A p \in EntriesOf(kind, n) : p = <<p[1], p[2]>>
    <3>1. EntriesOf(kind, n) \subseteq LongTexts(n) \X EntrySet(kind)
      BY <1>1, GrammarTyped, EntriesTyped DEF Typed
    <3> QED
      BY <3>1
  <2> QED
    BY <2>1 DEF IsEntry
<1>6. ASSUME <<x, es>> \in Longer
      PROVE  \E y, z \in Seq(Tokens) : \E e, fs : IsLonger(kind, x, es, y, z, e, fs)
  <2>1. PICK m \in 1 .. (n - 2) :
          <<x, es>> \in Joined(EntriesOf(kind, m), ListsOf(kind, n - 1 - m))
    BY <1>6
  <2>2. PICK p \in EntriesOf(kind, m), q \in ListsOf(kind, n - 1 - m) :
          <<x, es>> = <<p[1] \o Comma1 \o q[1], <<p[2]>> \o q[2]>>
    BY <2>1 DEF Joined
  <2>3. m \in Nat /\ n - 1 - m \in Nat /\ n - 1 - m # 0
    BY <1>1
  <2>4. p = <<p[1], p[2]>> /\ p[1] \in Seq(Tokens) /\ Len(p[1]) = m
    <3>1. EntriesOf(kind, m) \subseteq LongTexts(m) \X EntrySet(kind)
      BY <2>3, GrammarTyped, EntriesTyped DEF Typed
    <3> QED
      BY <2>2, <3>1 DEF LongTexts
  <2>5. q = <<q[1], q[2]>> /\ q[1] \in Seq(Tokens) /\ Len(q[1]) = n - 1 - m
    <3>1. ListsOf(kind, n - 1 - m) \subseteq LongTexts(n - 1 - m) \X Seq(EntrySet(kind))
      BY <2>3, GrammarTyped DEF Typed
    <3>2. q \in LongTexts(n - 1 - m) \X Seq(EntrySet(kind))
      BY <2>2, <3>1
    <3>3. q = <<q[1], q[2]>> /\ q[1] \in LongTexts(n - 1 - m)
      BY <3>2
    <3> QED
      BY <3>3 DEF LongTexts
  <2>6. IsEntry(kind, p[1], p[2]) /\ IsList(kind, q[1], q[2]) /\ q[1] # <<>>
    BY <1>3, <2>2, <2>3, <2>4, <2>5 DEF IsEntry, IsList
  <2> QED
    BY <2>2, <2>4, <2>5, <2>6 DEF IsLonger
<1>7. ASSUME NEW y \in Seq(Tokens), NEW z \in Seq(Tokens), NEW e, NEW fs,
             IsLonger(kind, x, es, y, z, e, fs)
      PROVE  <<x, es>> \in Longer /\ n # 0
  <2> USE DEF IsLonger
  <2>1. Len(y) \in Nat /\ Len(z) \in Nat /\ Len(y) # 0 /\ Len(z) # 0 /\ n = Len(y) + 1 + Len(z)
    BY <1>3, <1>7, EntryLength
  <2>2. Len(y) \in 1 .. (n - 2) /\ Len(z) = n - 1 - Len(y) /\ n # 0
    <3> DEFINE ly == Len(y)
               lz == Len(z)
    <3>1. ly \in Nat /\ lz \in Nat /\ ly # 0 /\ lz # 0 /\ n = ly + 1 + lz
      BY <2>1
    <3> HIDE DEF ly, lz, n
    <3>2. ly \in 1 .. (n - 2) /\ lz = n - 1 - ly /\ n # 0
      BY <3>1
    <3> QED
      BY <3>2 DEF ly, lz
  <2> DEFINE p == <<y, e>>
             q == <<z, fs>>
  <2>3. /\ p \in EntriesOf(kind, Len(y)) /\ p[1] = y /\ p[2] = e
        /\ q \in ListsOf(kind, n - 1 - Len(y)) /\ q[1] = z /\ q[2] = fs
    BY <1>7, <2>2 DEF IsEntry, IsList
  <2> HIDE DEF p, q
  <2>4. <<x, es>> \in Joined(EntriesOf(kind, Len(y)), ListsOf(kind, n - 1 - Len(y)))
    <3> DEFINE pq == <<p, q>>
    <3>1. pq \in EntriesOf(kind, Len(y)) \X ListsOf(kind, n - 1 - Len(y))
          /\ pq[1] = p /\ pq[2] = q
      BY <2>3
    <3> HIDE DEF pq
    <3>2. <<x, es>> = <<pq[1][1] \o Comma1 \o pq[2][1], <<pq[1][2]>> \o pq[2][2]>>
      BY <1>7, <2>3, <3>1
    <3> QED
      BY <3>1, <3>2 DEF Joined
  <2> QED
    BY <2>2, <2>4
<1>8. ASSUME NEW e, IsEntry(kind, x, e)
      PROVE  n # 0
  BY <1>8, EntryLength
<1>9. IsList(kind, x, es) <=> <<x, es>> \in ListsOf(kind, n)
  BY DEF IsList
<1> HIDE DEF n, Single, Longer
<1>10. CASE n = 0
  <2>1. IsList(kind, x, es) <=> x = <<>> /\ es = <<>>
    BY <1>1, <1>4, <1>9, <1>10
  <2> QED
    BY <1>7, <1>8, <1>10, <2>1
<1>11. CASE n # 0
  <2>1. IsList(kind, x, es) <=> <<x, es>> \in Single \/ <<x, es>> \in Longer
    BY <1>4, <1>9, <1>11
  <2> QED
    BY <1>1, <1>5, <1>6, <1>7, <1>11, <2>1
<1> QED
  BY <1>10, <1>11

LEMMA ConsFirst ==
  ASSUME NEW S, NEW c \in S, NEW u \in Seq(S)
  PROVE  (<<c>> \o u)[1] = c
<1>1. <<c>> \in Seq(S) /\ Len(<<c>>) = 1 /\ <<c>>[1] = c /\ Len(u) \in Nat
  BY Concats
<1>2. \A i \in 1 .. Len(<<c>>) + Len(u) : (<<c>> \o u)[i] =
                 IF i <= Len(<<c>>) THEN <<c>>[i] ELSE u[i - Len(<<c>>)]
  BY <1>1, ConcatProperties
<1> QED
  BY <1>1, <1>2

LEMMA NextEntry ==
  ASSUME NEW S, NEW es \in Seq(S), NEW e \in S, NEW fs \in Seq(S)
  PROVE  /\ Append(es, e) \o fs = es \o (<<e>> \o fs)
         /\ Append(es, e) \in Seq(S) /\ <<e>> \o fs \in Seq(S)
<1> DEFINE one == <<e>>
<1>1. one \in Seq(S) /\ Append(es, e) = es \o one /\ Append(es, e) \in Seq(S)
  BY AppendIsConcat, AppendProperties
<1> HIDE DEF one
<1>2. (es \o one) \o fs = es \o (one \o fs)
  BY <1>1, ConcatAssociative
<1>3. one \o fs \in Seq(S)
  BY <1>1, ConcatProperties
<1> QED
  BY <1>1, <1>2, <1>3 DEF one

(***************************************************************************)
(* Texts, put together: opaque to the provers, which know too much of \o.  *)
(***************************************************************************)
Cat(s, t) == s \o t
Cons1(a, s) == <<a>> \o s
Strings == Seq(Tokens)

LEMMA CatAssociative ==
  ASSUME NEW s \in Strings, NEW t \in Strings, NEW u \in Strings
  PROVE  Cat(Cat(s, t), u) = Cat(s, Cat(t, u))
BY ConcatAssociative DEF Cat, Strings

LEMMA CatFacts ==
  /\ <<>> \in Strings
  /\ \A s, t \in Strings : Cat(s, t) \in Strings
  /\ \A s \in Strings : Cat(<<>>, s) = s
  /\ \A a \in Tokens, s \in Strings : Cons1(a, s) \in Strings /\ Cons1(a, s) # <<>>
  /\ \A a \in Tokens, s, t \in Strings : Cat(Cons1(a, s), t) = Cons1(a, Cat(s, t))
<1>1. /\ <<>> \in Strings
      /\ \A s, t \in Strings : Cat(s, t) \in Strings
      /\ \A s \in Strings : Cat(<<>>, s) = s
  BY Concats DEF Cat, Strings
<1>2. \A a \in Tokens : <<a>> \in Strings /\ Len(<<a>>) = 1
  BY Concats DEF Strings
<1>3. \A a, s : Cons1(a, s) = Cat(<<a>>, s)
  BY DEF Cons1, Cat
<1>4. ASSUME NEW a \in Tokens, NEW s \in Strings
      PROVE  Cons1(a, s) \in Strings /\ Cons1(a, s) # <<>>
  <2>1. Cons1(a, s) \in Strings
    BY <1>1, <1>2, <1>3
  <2>2. Len(<<a>> \o s) = Len(<<a>>) + Len(s) /\ Len(s) \in Nat
    BY <1>2, ConcatProperties, LenProperties DEF Strings
  <2>3. <<a>> \o s # <<>>
    BY <1>2, <2>2
  <2> QED
    BY <2>1, <2>3 DEF Cons1
<1>5. ASSUME NEW a \in Tokens, NEW s \in Strings, NEW t \in Strings
      PROVE  Cat(Cons1(a, s), t) = Cons1(a, Cat(s, t))
  <2>1. Cat(Cat(<<a>>, s), t) = Cat(<<a>>, Cat(s, t))
    BY <1>2, CatAssociative
  <2> QED
    BY <1>3, <2>1
<1> QED
  BY <1>1, <1>4, <1>5

LEMMA SameCons ==
  ASSUME NEW a \in Tokens, NEW b \in Tokens, NEW s \in Strings, NEW t \in Strings,
         Cons1(a, s) = Cons1(b, t)
  PROVE  a = b /\ s = t
<1>1. <<a>> \o s = <<b>> \o t /\ s \in Seq(Tokens) /\ t \in Seq(Tokens)
  BY DEF Cons1, Strings
<1>2. (<<a>> \o s)[1] = a /\ (<<b>> \o t)[1] = b
  BY <1>1, ConsFirst
<1>3. a = b
  BY <1>1, <1>2
<1>4. <<a>> \in Seq(Tokens)
  BY Concats
<1>5. \A f, g, h \in Seq(Tokens) : f \o g = f \o h => g = h
  BY ConcatSimplifications
<1>6. <<a>> \o s = <<a>> \o t
  BY <1>1, <1>3
<1>7. s = t
  <2> DEFINE o == <<a>>
  <2>1. o \in Seq(Tokens) /\ o \o s = o \o t
    BY <1>4, <1>6
  <2> HIDE DEF o
  <2> QED
    BY <1>1, <1>5, <2>1
<1> QED
  BY <1>3, <1>7

(* The texts of the rules, followed by another. *)
LEMMA BracketsThen ==
  ASSUME NEW a \in Tokens, NEW b \in Tokens, NEW y \in Strings, NEW u \in Strings
  PROVE  /\ (<<a>> \o y) \o <<b>> \in Strings
         /\ Cat((<<a>> \o y) \o <<b>>, u) = Cons1(a, Cat(y, Cons1(b, u)))
<1> DEFINE o == <<a>>
           c == <<b>>
<1>1. o \in Strings /\ c \in Strings
  BY Concats DEF Strings
<1>2. /\ (<<a>> \o y) \o <<b>> = Cat(Cat(o, y), c)
      /\ Cons1(a, Cat(y, Cons1(b, u))) = Cat(o, Cat(y, Cat(c, u)))
  BY DEF Cat, Cons1
<1> HIDE DEF o, c
<1>3. Cat(o, y) \in Strings /\ Cat(c, u) \in Strings
  BY <1>1, CatFacts
<1>4. Cat(Cat(o, y), c) \in Strings
  BY <1>1, <1>3, CatFacts
<1>5. Cat(Cat(Cat(o, y), c), u) = Cat(Cat(o, y), Cat(c, u))
  BY <1>1, <1>3, CatAssociative
<1>6. Cat(Cat(o, y), Cat(c, u)) = Cat(o, Cat(y, Cat(c, u)))
  BY <1>1, <1>3, CatAssociative
<1> QED
  BY <1>2, <1>4, <1>5, <1>6

LEMMA NameThen ==
  ASSUME NEW a \in Tokens, NEW b \in Tokens, NEW y \in Strings, NEW u \in Strings
  PROVE  /\ <<a, b>> \o y \in Strings
         /\ Cat(<<a, b>> \o y, u) = Cons1(a, Cons1(b, Cat(y, u)))
<1> DEFINE o == <<a>>
           c == <<b>>
           ab == <<a, b>>
<1>1. o \in Strings /\ c \in Strings /\ ab \in Strings
  BY Concats DEF Strings
<1>2. ab = Cat(o, c)
  <2>1. Append(<<a>>, b) = <<a, b>>
    <3>1. IsSeq(<<a>>) /\ Len(<<a>>) = 1 /\ <<a>>[1] = a
      BY <1>1, SeqIsSeq DEF Strings
    <3>2. IsSeq(<<a, b>>) /\ Len(<<a, b>>) = 2 /\ <<a, b>>[1] = a /\ <<a, b>>[2] = b
      BY <1>1, SeqIsSeq DEF Strings
    <3> DEFINE l == Append(<<a>>, b)
               r == <<a, b>>
    <3>3. IsSeq(l) /\ Len(l) = 2 /\ l[1] = a /\ l[2] = b
      BY <3>1, Appended
    <3>4. IsSeq(r) /\ Len(r) = 2 /\ r[1] = a /\ r[2] = b
      BY <3>2
    <3> HIDE DEF l, r
    <3>5. l = r
      BY <3>3, <3>4, SameSeq
    <3> QED
      BY <3>5 DEF l, r
  <2>2. o \in Seq(Tokens) /\ Append(o, b) = o \o <<b>>
    BY <1>1, AppendIsConcat DEF Strings
  <2> QED
    BY <2>1, <2>2 DEF Cat
<1>3. /\ <<a, b>> \o y = Cat(ab, y)
      /\ Cons1(a, Cons1(b, Cat(y, u))) = Cat(o, Cat(c, Cat(y, u)))
  BY DEF Cat, Cons1
<1> HIDE DEF o, c, ab
<1>4. Cat(ab, y) \in Strings /\ Cat(y, u) \in Strings
  BY <1>1, CatFacts
<1>5. Cat(Cat(ab, y), u) = Cat(ab, Cat(y, u))
  BY <1>1, CatAssociative
<1>6. Cat(Cat(o, c), Cat(y, u)) = Cat(o, Cat(c, Cat(y, u)))
  BY <1>1, <1>4, CatAssociative
<1> QED
  BY <1>2, <1>3, <1>4, <1>5, <1>6

LEMMA CommaThen ==
  ASSUME NEW x \in Strings, NEW z \in Strings, NEW u \in Strings
  PROVE  /\ (x \o Comma1) \o z \in Strings
         /\ Cat((x \o Comma1) \o z, u) = Cat(x, Cons1(Token("T_COMMA"), Cat(z, u)))
<1>1. Comma1 \in Strings
  BY TokenTypes, Concats DEF Comma1, Strings
<1>2. /\ (x \o Comma1) \o z = Cat(Cat(x, Comma1), z)
      /\ Cons1(Token("T_COMMA"), Cat(z, u)) = Cat(Comma1, Cat(z, u))
  BY DEF Cat, Cons1, Comma1
<1>3. Cat(x, Comma1) \in Strings /\ Cat(z, u) \in Strings
  BY <1>1, CatFacts
<1>4. Cat(Cat(x, Comma1), z) \in Strings
  BY <1>1, <1>3, CatFacts
<1>5. Cat(Cat(Cat(x, Comma1), z), u) = Cat(Cat(x, Comma1), Cat(z, u))
  BY <1>3, CatAssociative
<1>6. Cat(Cat(x, Comma1), Cat(z, u)) = Cat(x, Cat(Comma1, Cat(z, u)))
  BY <1>1, <1>3, CatAssociative
<1> QED
  BY <1>2, <1>4, <1>5, <1>6

-----------------------------------------------------------------------------
(***************************************************************************)
(* What a text s may begin with, when u is what comes after it.            *)
(***************************************************************************)
ValueThen(s, v, u) == \E x \in Strings : IsValue(x, v) /\ s = Cat(x, u)
EntryThen(kind, s, e, u) == \E x \in Strings : IsEntry(kind, x, e) /\ s = Cat(x, u)
Starts(kind, s, u, es) ==
  \E y \in Strings : IsList(kind, y, es) /\ s = Cat(y, Cons1(Closing(kind), u))
More(kind, s, u, es) ==
  \E y \in Strings :
    y # <<>> /\ IsList(kind, y, es) /\ s = Cat(y, Cons1(Closing(kind), u))
Continues(kind, s, u, es) ==
  \/ es = <<>> /\ s = Cons1(Closing(kind), u)
  \/ \E w \in Strings : s = Cons1(Token("T_COMMA"), w) /\ More(kind, w, u, es)

LEMMA ValueThenForms ==
  ASSUME NEW t \in Tokens, NEW s \in Strings, NEW v, NEW u \in Strings
  PROVE  ValueThen(Cons1(t, s), v, u) <=>
           \/ t = Token("T_NULL") /\ v = Value("null", {}) /\ s = u
           \/ \E text \in Texts :
                t = StringToken(text) /\ v = Value("string", {text}) /\ s = u
           \/ \E kind \in Kinds : \E es :
                t = Opening(kind) /\ v = Container(kind, es) /\ Starts(kind, s, u, es)
<1>1. \A a \in Tokens : <<a>> \in Strings /\ Cat(<<a>>, u) = Cons1(a, u)
  BY Concats DEF Cat, Cons1, Strings
<1>2. ASSUME ValueThen(Cons1(t, s), v, u)
      PROVE  \/ t = Token("T_NULL") /\ v = Value("null", {}) /\ s = u
             \/ \E text \in Texts :
                  t = StringToken(text) /\ v = Value("string", {text}) /\ s = u
             \/ \E kind \in Kinds : \E es :
                  t = Opening(kind) /\ v = Container(kind, es) /\ Starts(kind, s, u, es)
  <2>1. PICK x \in Strings : IsValue(x, v) /\ Cons1(t, s) = Cat(x, u)
    BY <1>2 DEF ValueThen
  <2>2. CASE x = <<Token("T_NULL")>> /\ v = Value("null", {})
    <3>1. Token("T_NULL") \in Tokens
      BY TokenTypes
    <3>2. Cons1(t, s) = Cons1(Token("T_NULL"), u)
      BY <1>1, <2>1, <2>2, <3>1
    <3> QED
      BY <2>2, <3>1, <3>2, SameCons
  <2>3. CASE \E text \in Texts : x = <<StringToken(text)>> /\ v = Value("string", {text})
    <3>1. PICK text \in Texts : x = <<StringToken(text)>> /\ v = Value("string", {text})
      BY <2>3
    <3>2. StringToken(text) \in Tokens
      BY TokenTypes
    <3>3. Cons1(t, s) = Cons1(StringToken(text), u)
      BY <1>1, <2>1, <3>1, <3>2
    <3> QED
      BY <3>1, <3>2, <3>3, SameCons
  <2>4. CASE \E kind \in Kinds, y \in Seq(Tokens) : \E es : InBrackets(kind, x, y, v, es)
    <3>5. PICK kind, y, es : kind \in Kinds /\ y \in Strings /\ InBrackets(kind, x, y, v, es)
      BY <2>4 DEF Strings
    <3>1. /\ IsList(kind, y, es)
          /\ x = (<<Opening(kind)>> \o y) \o <<Closing(kind)>> /\ v = Container(kind, es)
      BY <3>5 DEF InBrackets
    <3>2. Cat(y, Cons1(Closing(kind), u)) \in Strings
      BY <3>5, CatFacts, TokenTypes
    <3>3. Cons1(t, s) = Cons1(Opening(kind), Cat(y, Cons1(Closing(kind), u)))
      BY <3>5, <2>1, <3>1, BracketsThen, TokenTypes
    <3>4. t = Opening(kind) /\ s = Cat(y, Cons1(Closing(kind), u))
      BY <3>5, <3>2, <3>3, SameCons, TokenTypes
    <3> QED
      BY <3>5, <3>1, <3>4 DEF Starts
  <2>5. \/ x = <<Token("T_NULL")>> /\ v = Value("null", {})
        \/ \E text \in Texts : x = <<StringToken(text)>> /\ v = Value("string", {text})
        \/ \E kind \in Kinds, y \in Seq(Tokens) : \E es : InBrackets(kind, x, y, v, es)
    BY <2>1, ValueForms DEF Strings
  <2> QED
    BY <2>2, <2>3, <2>4, <2>5
<1>3. ASSUME t = Token("T_NULL"), v = Value("null", {}), s = u
      PROVE  ValueThen(Cons1(t, s), v, u)
  <2>1. <<t>> \in Strings /\ IsValue(<<t>>, v)
    BY <1>1, <1>3, ValueForms DEF Strings
  <2> QED
    BY <1>1, <1>3, <2>1 DEF ValueThen
<1>4. ASSUME NEW text \in Texts, t = StringToken(text), v = Value("string", {text}), s = u
      PROVE  ValueThen(Cons1(t, s), v, u)
  <2>1. <<t>> \in Strings /\ IsValue(<<t>>, v)
    BY <1>1, <1>4, ValueForms DEF Strings
  <2> QED
    BY <1>1, <1>4, <2>1 DEF ValueThen
<1>5. ASSUME NEW kind \in Kinds, NEW es, t = Opening(kind), v = Container(kind, es),
             Starts(kind, s, u, es)
      PROVE  ValueThen(Cons1(t, s), v, u)
  <2>1. PICK y \in Strings : IsList(kind, y, es) /\ s = Cat(y, Cons1(Closing(kind), u))
    BY <1>5 DEF Starts
  <2> DEFINE x == (<<Opening(kind)>> \o y) \o <<Closing(kind)>>
  <2>2. x \in Strings /\ Cons1(t, s) = Cat(x, u)
    BY <1>5, <2>1, BracketsThen, TokenTypes
  <2>3. IsValue(x, v)
    BY <1>5, <2>1, <2>2, ValueForms DEF Strings, InBrackets
  <2> HIDE DEF x
  <2> QED
    BY <2>2, <2>3 DEF ValueThen
<1> QED
  BY <1>2, <1>3, <1>4, <1>5

LEMMA EntryThenForms ==
  ASSUME NEW s \in Strings, NEW e, NEW u \in Strings
  PROVE  /\ EntryThen("array", s, e, u) <=> ValueThen(s, e, u)
         /\ EntryThen("object", s, e, u) <=>
              \E text \in Texts, w \in Strings : \E v :
                 /\ s = Cons1(StringToken(text), Cons1(Token("T_COLON"), w))
                 /\ e = <<text, v>> /\ ValueThen(w, v, u)
<1>1. \A text \in Texts, y \in Strings :
        /\ <<StringToken(text), Token("T_COLON")>> \o y \in Strings
        /\ Cat(<<StringToken(text), Token("T_COLON")>> \o y, u)
             = Cons1(StringToken(text), Cons1(Token("T_COLON"), Cat(y, u)))
  BY NameThen, TokenTypes
<1>2. EntryThen("array", s, e, u) <=> ValueThen(s, e, u)
  BY EntryForms DEF EntryThen, ValueThen, Strings
<1>3. ASSUME EntryThen("object", s, e, u)
      PROVE  \E text \in Texts, w \in Strings : \E v :
                 /\ s = Cons1(StringToken(text), Cons1(Token("T_COLON"), w))
                 /\ e = <<text, v>> /\ ValueThen(w, v, u)
  <2>1. PICK x \in Strings : IsEntry("object", x, e) /\ s = Cat(x, u)
    BY <1>3 DEF EntryThen
  <2>2. PICK text, y, v : text \in Texts /\ y \in Strings /\ IsMember(x, e, text, y, v)
    BY <2>1, EntryForms DEF Strings
  <2>3. x = <<StringToken(text), Token("T_COLON")>> \o y /\ e = <<text, v>> /\ IsValue(y, v)
    BY <2>2 DEF IsMember
  <2>4. Cat(y, u) \in Strings /\ ValueThen(Cat(y, u), v, u)
    BY <2>2, <2>3, CatFacts DEF ValueThen
  <2> QED
    BY <2>2, <1>1, <2>1, <2>3, <2>4
<1>4. ASSUME NEW text \in Texts, NEW w \in Strings, NEW v,
             s = Cons1(StringToken(text), Cons1(Token("T_COLON"), w)),
             e = <<text, v>>, ValueThen(w, v, u)
      PROVE  EntryThen("object", s, e, u)
  <2>1. PICK y \in Strings : IsValue(y, v) /\ w = Cat(y, u)
    BY <1>4 DEF ValueThen
  <2> DEFINE x == <<StringToken(text), Token("T_COLON")>> \o y
  <2>2. x \in Strings /\ s = Cat(x, u)
    BY <1>1, <1>4, <2>1
  <2>3. IsEntry("object", x, e)
    BY <1>4, <2>1, <2>2, EntryForms DEF Strings, IsMember
  <2> HIDE DEF x
  <2> QED
    BY <2>2, <2>3 DEF EntryThen
<1> QED
  BY <1>2, <1>3, <1>4

LEMMA StartsForms ==
  ASSUME NEW kind \in Kinds, NEW s \in Strings, NEW u \in Strings, NEW es
  PROVE  Starts(kind, s, u, es) <=>
           \/ es = <<>> /\ s = Cons1(Closing(kind), u)
           \/ More(kind, s, u, es)
<1>1. <<>> \in Strings /\ Cat(<<>>, Cons1(Closing(kind), u)) = Cons1(Closing(kind), u)
  BY CatFacts, TokenTypes
<1>2. IsList(kind, <<>>, es) <=> es = <<>>
  <2>1. ListsOf(kind, 0) = {<<<<>>, <<>>>>}
    BY GrammarForms
  <2> QED
    BY <1>1, <2>1, Concats DEF IsList, Strings
<1> QED
  BY <1>1, <1>2 DEF Starts, More

(* s goes on with the entry e, then w, which goes on with the entries fs.  *)
OneMore(kind, s, u, es, w, e, fs) ==
  EntryThen(kind, s, e, w) /\ Continues(kind, w, u, fs) /\ es = <<e>> \o fs

LEMMA MoreForms ==
  ASSUME NEW kind \in Kinds, NEW s \in Strings, NEW u \in Strings, NEW es
  PROVE  More(kind, s, u, es) <=>
           \E w \in Strings : \E e, fs : OneMore(kind, s, u, es, w, e, fs)
<1> DEFINE end == Cons1(Closing(kind), u)
           comma == Token("T_COMMA")
<1>1. end \in Strings /\ comma \in Tokens
  BY CatFacts, TokenTypes
<1>2. \A y, z \in Strings :
         /\ (y \o Comma1) \o z \in Strings
         /\ Cat((y \o Comma1) \o z, end) = Cat(y, Cons1(comma, Cat(z, end)))
  BY <1>1, CommaThen
<1> HIDE DEF comma
<1>3. \A e : <<e>> \o <<>> = <<e>>
  <2> SUFFICES ASSUME NEW e PROVE <<e>> \o <<>> = <<e>>
    OBVIOUS
  <2>1. <<e>> \in Seq({e})
    OBVIOUS
  <2> QED
    BY <2>1, ConcatEmptySeq
<1>4. ASSUME More(kind, s, u, es)
      PROVE  \E w \in Strings : \E e, fs : OneMore(kind, s, u, es, w, e, fs)
  <2>1. PICK y \in Strings : y # <<>> /\ IsList(kind, y, es) /\ s = Cat(y, end)
    BY <1>4 DEF More
  <2>2. CASE \E e : IsEntry(kind, y, e) /\ es = <<e>>
    <3>1. PICK e : IsEntry(kind, y, e) /\ es = <<e>>
      BY <2>2
    <3>2. EntryThen(kind, s, e, end) /\ Continues(kind, end, u, <<>>)
      BY <2>1, <3>1 DEF EntryThen, Continues
    <3>3. es = <<e>> \o <<>>
      BY <1>3, <3>1
    <3> HIDE DEF end
    <3> QED
      BY <1>1, <3>2, <3>3 DEF OneMore
  <2>3. CASE \E x, z \in Seq(Tokens) : \E e, fs : IsLonger(kind, y, es, x, z, e, fs)
    <3>6. PICK x, z, e, fs : x \in Strings /\ z \in Strings /\ IsLonger(kind, y, es, x, z, e, fs)
      BY <2>3 DEF Strings
    <3>1. /\ IsEntry(kind, x, e) /\ IsList(kind, z, fs) /\ z # <<>>
          /\ y = (x \o Comma1) \o z /\ es = <<e>> \o fs
      BY <3>6 DEF IsLonger
    <3> DEFINE rest == Cat(z, end)
               w == Cons1(comma, rest)
    <3>2. More(kind, rest, u, fs)
      BY <3>6, <3>1 DEF More
    <3>3. rest \in Strings /\ w \in Strings /\ s = Cat(x, w)
      BY <3>6, <1>1, <1>2, <2>1, <3>1, CatFacts
    <3>4. EntryThen(kind, s, e, w)
      BY <3>6, <3>1, <3>3 DEF EntryThen
    <3>5. Continues(kind, w, u, fs)
      BY <3>2, <3>3 DEF Continues, comma
    <3> HIDE DEF w
    <3> QED
      BY <3>1, <3>3, <3>4, <3>5 DEF OneMore
  <2> QED
    BY <2>1, <2>2, <2>3, ListForms DEF Strings
<1>5. ASSUME NEW w \in Strings, NEW e, NEW fs, OneMore(kind, s, u, es, w, e, fs)
      PROVE  More(kind, s, u, es)
  <2> USE DEF OneMore
  <2>1. PICK x \in Strings : IsEntry(kind, x, e) /\ s = Cat(x, w)
    BY <1>5 DEF EntryThen
  <2>2. CASE fs = <<>> /\ w = end
    <3>1. es = <<e>>
      BY <1>3, <1>5, <2>2
    <3>2. IsList(kind, x, es) /\ x # <<>>
      BY <2>1, <3>1, ListForms, EntryLength DEF Strings
    <3> QED
      BY <2>1, <2>2, <3>2 DEF More
  <2>3. CASE \E z \in Strings : w = Cons1(comma, z) /\ More(kind, z, u, fs)
    <3>1. PICK z \in Strings : w = Cons1(comma, z) /\ More(kind, z, u, fs)
      BY <2>3
    <3>5. PICK y \in Strings : y # <<>> /\ IsList(kind, y, fs) /\ z = Cat(y, end)
      BY <3>1 DEF More
    <3> DEFINE all == (x \o Comma1) \o y
    <3>2. all \in Strings /\ s = Cat(all, end)
      BY <1>2, <2>1, <3>1, <3>5
    <3>3. IsList(kind, all, es)
      BY <1>5, <2>1, <3>5, <3>2, ListForms DEF Strings, IsLonger
    <3>4. all # <<>>
      <4>1. x \o Comma1 \in Seq(Tokens) /\ Len(x \o Comma1) = Len(x) + 1
        BY TokenTypes, Concats DEF Comma1, Strings
      <4>2. Len(all) = Len(x) + 1 + Len(y) /\ Len(x) \in Nat /\ Len(y) \in Nat
        BY <4>1, Concatenated, LenProperties DEF Strings
      <4> HIDE DEF all
      <4> QED
        BY <4>2
    <3> HIDE DEF all
    <3> QED
      BY <3>2, <3>3, <3>4 DEF More
  <2> QED
    BY <1>5, <2>2, <2>3 DEF Continues, comma
<1> QED
  BY <1>4, <1>5

(* Every sequence of entries has a text. *)
LEMMA EntriesExist ==
  ASSUME NEW kind \in Kinds, NEW e \in EntrySet(kind)
  PROVE  \E x \in Strings : IsEntry(kind, x, e)
<1>1. ASSUME NEW v \in JsonValues
      PROVE  \E x \in Strings : IsValue(x, v)
  <2>1. PICK n \in Nat : \E p \in ValuesOf(n) : p[2] = v
    BY DEF JsonValues
  <2>2. PICK p \in ValuesOf(n) : p[2] = v
    BY <2>1
  <2>3. ValuesOf(n) \subseteq LongTexts(n) \X JsonValues
    BY GrammarTyped DEF Typed
  <2>4. p = <<p[1], v>> /\ p[1] \in LongTexts(n)
    BY <2>2, <2>3
  <2>5. p[1] \in Strings /\ IsValue(p[1], v)
    BY <2>2, <2>4 DEF LongTexts, Strings, IsValue
  <2> QED
    BY <2>5
<1>2. CASE kind = "array"
  <2>1. e \in JsonValues
    BY <1>2 DEF EntrySet
  <2> QED
    BY <1>1, <1>2, <2>1, EntryForms DEF Strings
<1>3. CASE kind = "object"
  <2>1. PICK s \in Texts, v \in JsonValues : e = <<s, v>>
    BY <1>3 DEF EntrySet
  <2>2. PICK y \in Strings : IsValue(y, v)
    BY <1>1
  <2> DEFINE x == <<StringToken(s), Token("T_COLON")>> \o y
  <2>3. x \in Strings
    BY NameThen, TokenTypes
  <2>4. IsMember(x, e, s, y, v)
    BY <2>1, <2>2 DEF IsMember
  <2> HIDE DEF x
  <2>5. IsEntry("object", x, e)
    BY <2>2, <2>3, <2>4, EntryForms DEF Strings
  <2> QED
    BY <1>3, <2>3, <2>5
<1> QED
  BY <1>2, <1>3 DEF Kinds

LEMMA FirstAndRest ==
  ASSUME NEW S, NEW s \in Seq(S), s # <<>>
  PROVE  /\ s[1] \in S /\ Tail(s) \in Seq(S) /\ Len(Tail(s)) = Len(s) - 1
         /\ s = <<s[1]>> \o Tail(s)
<1>1. Len(s) \in Nat /\ Len(s) # 0 /\ Tail(s) = SubSeq(s, 2, Len(s))
  BY EmptySeq, TailIsSubSeq, LenProperties
<1>2. 1 \in 1 .. Len(s) /\ Len(s) \in 1 .. Len(s)
  BY <1>1
<1>3. SubSeq(s, 1, Len(s)) = <<s[1]>> \o SubSeq(s, 1 + 1, Len(s))
  BY <1>2, SubSeqRecursiveFirst
<1>4. SubSeq(s, 1, Len(s)) = s
  BY SubSeqFull
<1>5. s[1] \in S
  BY <1>2, ElementOfSeq
<1>6. Tail(s) \in Seq(S) /\ Len(Tail(s)) = Len(s) - 1
  BY HeadTailProperties
<1> QED
  BY <1>1, <1>3, <1>4, <1>5, <1>6

LEMMA ListsExist ==
  ASSUME NEW kind \in Kinds, NEW es \in Seq(EntrySet(kind))
  PROVE  \E y \in Strings : IsList(kind, y, es)
<1> DEFINE E == EntrySet(kind)
           T == {n \in Nat : \A fs \in Seq(E) : Len(fs) = n => \E y \in Strings : IsList(kind, y, fs)}
<1>1. \A fs : IsList(kind, <<>>, fs) <=> fs = <<>>
  <2>1. ListsOf(kind, 0) = {<<<<>>, <<>>>>}
    BY GrammarForms
  <2> QED
    BY <2>1, Concats DEF IsList
<1>2. <<>> \in Strings
  BY CatFacts
<1>3. 0 \in T
  BY <1>1, <1>2, EmptySeq
<1>4. ASSUME NEW n \in T
      PROVE  n + 1 \in T
  <2> SUFFICES ASSUME NEW fs \in Seq(E), Len(fs) = n + 1
               PROVE  \E y \in Strings : IsList(kind, y, fs)
    OBVIOUS
  <2>1. fs # <<>> /\ n \in Nat
    BY EmptySeq
  <2>2. fs[1] \in E /\ Tail(fs) \in Seq(E) /\ Len(Tail(fs)) = n /\ fs = <<fs[1]>> \o Tail(fs)
    BY <2>1, FirstAndRest
  <2>3. PICK x \in Strings : IsEntry(kind, x, fs[1])
    BY <2>2, EntriesExist
  <2>4. PICK z \in Strings : IsList(kind, z, Tail(fs))
    BY <2>2
  <2>5. CASE z = <<>>
    <3>1. Tail(fs) = <<>>
      BY <1>1, <2>4, <2>5
    <3>2. <<fs[1]>> \o <<>> = <<fs[1]>>
      <4>1. <<fs[1]>> \in Seq({fs[1]})
        OBVIOUS
      <4> QED
        BY <4>1, ConcatEmptySeq
    <3>3. fs = <<fs[1]>>
      BY <2>2, <3>1, <3>2
    <3>4. IsList(kind, x, fs)
      BY <2>3, <3>3, ListForms DEF Strings
    <3> QED
      BY <3>4
  <2>6. CASE z # <<>>
    <3> DEFINE y == (x \o Comma1) \o z
               e == fs[1]
               gs == Tail(fs)
    <3>1. y \in Strings
      BY <1>2, CommaThen
    <3>2. IsLonger(kind, y, fs, x, z, e, gs)
      BY <2>2, <2>3, <2>4, <2>6 DEF IsLonger
    <3> HIDE DEF y, e, gs
    <3>3. IsList(kind, y, fs)
      BY <3>1, <3>2, ListForms DEF Strings
    <3> QED
      BY <3>1, <3>3
  <2> QED
    BY <2>5, <2>6
<1>5. T \in SUBSET Nat
  OBVIOUS
<1> HIDE DEF T
<1>6. T = Nat
  BY <1>3, <1>4, <1>5, SetInduction
<1>7. Len(es) \in Nat
  BY LenProperties
<1> QED
  BY <1>6, <1>7 DEF T

LEMMA ContainersAreValues ==
  ASSUME NEW kind \in Kinds, NEW es \in Seq(EntrySet(kind))
  PROVE  Container(kind, es) \in JsonValues
<1>1. PICK y \in Strings : IsList(kind, y, es)
  BY ListsExist
<1> DEFINE x == (<<Opening(kind)>> \o y) \o <<Closing(kind)>>
           v == Container(kind, es)
<1>2. x \in Strings
  <2>1. Opening(kind) \in Tokens /\ Closing(kind) \in Tokens
    BY TokenTypes
  <2> QED
    BY <2>1, BracketsThen, <1>1
<1>3. InBrackets(kind, x, y, v, es)
  BY <1>1 DEF InBrackets
<1> HIDE DEF x, v
<1>4. IsValue(x, v)
  BY <1>1, <1>2, <1>3, ValueForms DEF Strings
<1> QED
  BY <1>4, MeaningTypes DEF v

LEMMA ScalarsAreValues ==
  /\ Value("null", {}) \in JsonValues
  /\ \A s \in Texts : Value("string", {s}) \in JsonValues
<1>1. \A t \in Tokens : <<t>> \in Seq(Tokens)
  BY Concats
<1>2. IsValue(<<Token("T_NULL")>>, Value("null", {}))
  BY <1>1, TokenTypes, ValueForms
<1>3. \A s \in Texts : IsValue(<<StringToken(s)>>, Value("string", {s}))
  BY <1>1, TokenTypes, ValueForms
<1> QED
  BY <1>2, <1>3, MeaningTypes

-----------------------------------------------------------------------------
(***************************************************************************)
(* What the rest of a text means.  A set of outcomes says, of a value that *)
(* is complete and of the text after it, what the whole text means; After  *)
(* is the one for the values of a container that has the entries es.       *)
(***************************************************************************)
Outcomes == JsonValues \X Strings \X JsonValues

Final == {x \in Outcomes : x[2] = Cons1(Token("T_END"), <<>>) /\ x[3] = x[1]}

EntryOf(kind, key, v) == IF kind = "object" THEN <<key, v>> ELSE v

ThenContinues(kind, es, outer, s, r) ==
  \E u \in Strings : \E fs \in Seq(EntrySet(kind)) :
    Continues(kind, s, u, fs) /\ <<Container(kind, es \o fs), u, r>> \in outer
ThenMore(kind, es, outer, s, r) ==
  \E u \in Strings : \E fs \in Seq(EntrySet(kind)) :
    More(kind, s, u, fs) /\ <<Container(kind, es \o fs), u, r>> \in outer
ThenStarts(kind, outer, s, r) ==
  \E u \in Strings : \E fs \in Seq(EntrySet(kind)) :
    Starts(kind, s, u, fs) /\ <<Container(kind, fs), u, r>> \in outer

After(kind, es, key, outer) ==
  {x \in Outcomes : ThenContinues(kind, Append(es, EntryOf(kind, key, x[1])), outer, x[2], x[3])}

ThenValue(now, s, r) ==
  \E u \in Strings : \E v : ValueThen(s, v, u) /\ <<v, u, r>> \in now
ThenColon(now, s, r) ==
  \E w \in Strings : s = Cons1(Token("T_COLON"), w) /\ ThenValue(now, w, r)

LEMMA OutcomeTypes ==
  ASSUME NEW now \in SUBSET Outcomes, NEW v, NEW s, NEW r, <<v, s, r>> \in now
  PROVE  v \in JsonValues /\ s \in Strings /\ r \in JsonValues
BY DEF Outcomes

LEMMA ThenTypes ==
  /\ \A s, v, u : ValueThen(s, v, u) => v \in JsonValues
  /\ \A kind \in Kinds : \A s, e, u : EntryThen(kind, s, e, u) => e \in EntrySet(kind)
  /\ \A kind \in Kinds : \A s, u, es : More(kind, s, u, es) => es \in Seq(EntrySet(kind))
  /\ \A kind \in Kinds : \A s, u, es : Starts(kind, s, u, es) => es \in Seq(EntrySet(kind))
  /\ \A kind \in Kinds : \A s, u, es : Continues(kind, s, u, es) => es \in Seq(EntrySet(kind))
<1>1. \A S : <<>> \in Seq(S)
  BY EmptySeq
<1> QED
  BY <1>1, MeaningTypes DEF ValueThen, EntryThen, More, Starts, Continues

LEMMA InAfter ==
  ASSUME NEW kind \in Kinds, NEW es, NEW key, NEW outer \in SUBSET Outcomes,
         NEW v \in JsonValues, NEW s \in Strings, NEW r
  PROVE  <<v, s, r>> \in After(kind, es, key, outer) <=>
           ThenContinues(kind, Append(es, EntryOf(kind, key, v)), outer, s, r)
<1>1. ThenContinues(kind, Append(es, EntryOf(kind, key, v)), outer, s, r) => r \in JsonValues
  BY OutcomeTypes DEF ThenContinues
<1> DEFINE x == <<v, s, r>>
<1>2. x[1] = v /\ x[2] = s /\ x[3] = r /\ (r \in JsonValues => x \in Outcomes)
      /\ (x \in Outcomes => r \in JsonValues)
  BY DEF Outcomes
<1> HIDE DEF x
<1>3. x \in After(kind, es, key, outer) <=>
        x \in Outcomes /\ ThenContinues(kind, Append(es, EntryOf(kind, key, v)), outer, s, r)
  BY <1>2 DEF After
<1>4. x \in After(kind, es, key, outer) <=>
           ThenContinues(kind, Append(es, EntryOf(kind, key, v)), outer, s, r)
  BY <1>1, <1>2, <1>3
<1> QED
  BY <1>4 DEF x

LEMMA MoreMeans ==
  ASSUME NEW kind \in Kinds, NEW es \in Seq(EntrySet(kind)), NEW outer, NEW s \in Strings, NEW r
  PROVE  ThenMore(kind, es, outer, s, r) <=>
           \E w \in Strings : \E e :
             EntryThen(kind, s, e, w) /\ ThenContinues(kind, Append(es, e), outer, w, r)
<1>1. ASSUME ThenMore(kind, es, outer, s, r)
      PROVE  \E w \in Strings : \E e :
               EntryThen(kind, s, e, w) /\ ThenContinues(kind, Append(es, e), outer, w, r)
  <2>1. PICK u \in Strings :
          \E fs \in Seq(EntrySet(kind)) :
            More(kind, s, u, fs) /\ <<Container(kind, es \o fs), u, r>> \in outer
    BY <1>1 DEF ThenMore
  <2>2. PICK fs \in Seq(EntrySet(kind)) :
          More(kind, s, u, fs) /\ <<Container(kind, es \o fs), u, r>> \in outer
    BY <2>1
  <2>3. PICK w, e, gs : w \in Strings /\ OneMore(kind, s, u, fs, w, e, gs)
    BY <2>2, MoreForms
  <2>4. EntryThen(kind, s, e, w) /\ Continues(kind, w, u, gs) /\ fs = <<e>> \o gs
    BY <2>3 DEF OneMore
  <2>5. e \in EntrySet(kind) /\ gs \in Seq(EntrySet(kind))
    BY <2>4, ThenTypes
  <2>6. es \o fs = Append(es, e) \o gs
    BY <2>4, <2>5, NextEntry
  <2>7. <<Container(kind, Append(es, e) \o gs), u, r>> \in outer
    BY <2>2, <2>6
  <2>8. ThenContinues(kind, Append(es, e), outer, w, r)
    BY <2>4, <2>5, <2>7 DEF ThenContinues
  <2> QED
    BY <2>3, <2>4, <2>8
<1>2. ASSUME NEW w \in Strings, NEW e,
             EntryThen(kind, s, e, w), ThenContinues(kind, Append(es, e), outer, w, r)
      PROVE  ThenMore(kind, es, outer, s, r)
  <2>1. PICK u \in Strings :
          \E gs \in Seq(EntrySet(kind)) :
            Continues(kind, w, u, gs) /\ <<Container(kind, Append(es, e) \o gs), u, r>> \in outer
    BY <1>2 DEF ThenContinues
  <2>2. PICK gs \in Seq(EntrySet(kind)) :
          Continues(kind, w, u, gs) /\ <<Container(kind, Append(es, e) \o gs), u, r>> \in outer
    BY <2>1
  <2>3. e \in EntrySet(kind)
    BY <1>2, ThenTypes
  <2> DEFINE fs == <<e>> \o gs
  <2>4. es \o fs = Append(es, e) \o gs /\ fs \in Seq(EntrySet(kind))
    BY <2>2, <2>3, NextEntry
  <2>7. OneMore(kind, s, u, fs, w, e, gs)
    BY <1>2, <2>2 DEF OneMore
  <2>5. More(kind, s, u, fs)
    <3> HIDE DEF fs
    <3> QED
      BY <2>7, MoreForms
  <2>6. <<Container(kind, es \o fs), u, r>> \in outer
    BY <2>2, <2>4
  <2> HIDE DEF fs
  <2> QED
    BY <2>4, <2>5, <2>6 DEF ThenMore
<1> QED
  BY <1>1, <1>2

(* The texts that go on after a token: one lemma for each state of decode. *)
LEMMA ValueMeans ==
  ASSUME NEW now \in SUBSET Outcomes, NEW t \in Tokens, NEW s \in Strings, NEW r
  PROVE  ThenValue(now, Cons1(t, s), r) <=>
           \/ t = Token("T_NULL") /\ <<Value("null", {}), s, r>> \in now
           \/ \E text \in Texts :
                t = StringToken(text) /\ <<Value("string", {text}), s, r>> \in now
           \/ \E kind \in Kinds : t = Opening(kind) /\ ThenStarts(kind, now, s, r)
<1>1. ASSUME ThenValue(now, Cons1(t, s), r)
      PROVE  \/ t = Token("T_NULL") /\ <<Value("null", {}), s, r>> \in now
             \/ \E text \in Texts :
                  t = StringToken(text) /\ <<Value("string", {text}), s, r>> \in now
             \/ \E kind \in Kinds : t = Opening(kind) /\ ThenStarts(kind, now, s, r)
  <2>1. PICK u \in Strings : \E v : ValueThen(Cons1(t, s), v, u) /\ <<v, u, r>> \in now
    BY <1>1 DEF ThenValue
  <2>2. PICK v : ValueThen(Cons1(t, s), v, u) /\ <<v, u, r>> \in now
    BY <2>1
  <2>3. CASE t = Token("T_NULL") /\ v = Value("null", {}) /\ s = u
    BY <2>2, <2>3
  <2>4. CASE \E text \in Texts : t = StringToken(text) /\ v = Value("string", {text}) /\ s = u
    BY <2>2, <2>4
  <2>5. CASE \E kind \in Kinds : \E es :
               t = Opening(kind) /\ v = Container(kind, es) /\ Starts(kind, s, u, es)
    BY <2>2, <2>5, ThenTypes DEF ThenStarts
  <2> QED
    BY <2>2, <2>3, <2>4, <2>5, ValueThenForms
<1>2. ASSUME t = Token("T_NULL"), <<Value("null", {}), s, r>> \in now
      PROVE  ThenValue(now, Cons1(t, s), r)
  BY <1>2, ValueThenForms DEF ThenValue
<1>3. ASSUME NEW text \in Texts, t = StringToken(text), <<Value("string", {text}), s, r>> \in now
      PROVE  ThenValue(now, Cons1(t, s), r)
  BY <1>3, ValueThenForms DEF ThenValue
<1>4. ASSUME NEW kind \in Kinds, t = Opening(kind), ThenStarts(kind, now, s, r)
      PROVE  ThenValue(now, Cons1(t, s), r)
  <2>1. PICK u \in Strings : \E es \in Seq(EntrySet(kind)) :
          Starts(kind, s, u, es) /\ <<Container(kind, es), u, r>> \in now
    BY <1>4 DEF ThenStarts
  <2>2. PICK es \in Seq(EntrySet(kind)) :
          Starts(kind, s, u, es) /\ <<Container(kind, es), u, r>> \in now
    BY <2>1
  <2>3. ValueThen(Cons1(t, s), Container(kind, es), u)
    BY <1>4, <2>2, ValueThenForms
  <2> QED
    BY <2>2, <2>3 DEF ThenValue
<1> QED
  BY <1>1, <1>2, <1>3, <1>4

LEMMA TokensDiffer ==
  /\ \A kind, other \in Kinds :
       /\ Opening(kind) # Closing(other) /\ Opening(kind) # Token("T_NULL")
       /\ Closing(kind) # Token("T_NULL") /\ Closing(kind) # Token("T_COMMA")
       /\ Opening(kind) = Opening(other) => kind = other
       /\ Closing(kind) = Closing(other) => kind = other
       /\ \A s \in Texts : StringToken(s) # Opening(kind) /\ StringToken(s) # Closing(kind)
  /\ \A s \in Texts : StringToken(s) # Token("T_NULL")
BY DEF Opening, Closing, EndOf, Token, StringToken, Kinds

(* No entry begins with a bracket that closes. *)
LEMMA NoneCloses ==
  ASSUME NEW kind \in Kinds, NEW other \in Kinds, NEW s \in Strings, NEW u \in Strings, NEW es
  PROVE  ~More(kind, Cons1(Closing(other), s), u, es)
<1> SUFFICES ASSUME More(kind, Cons1(Closing(other), s), u, es)
             PROVE  FALSE
  OBVIOUS
<1> DEFINE t == Closing(other)
           text == Cons1(t, s)
<1>1. t \in Tokens /\ text \in Strings
  BY TokenTypes, CatFacts
<1>2. PICK w, e, fs : w \in Strings /\ OneMore(kind, text, u, es, w, e, fs)
  BY <1>1, MoreForms
<1>3. EntryThen(kind, text, e, w)
  BY <1>2 DEF OneMore
<1>4. ~ValueThen(text, e, w)
  <2>1. /\ t # Token("T_NULL") /\ \A name \in Texts : t # StringToken(name)
        /\ \A k \in Kinds : t # Opening(k)
    BY TokensDiffer
  <2> HIDE DEF t
  <2> QED
    BY <1>2, <1>1, <2>1, ValueThenForms
<1>5. CASE kind = "array"
  BY <1>2, <1>1, <1>3, <1>4, <1>5, EntryThenForms
<1>6. CASE kind = "object"
  <2>1. PICK name \in Texts, z \in Strings : text = Cons1(StringToken(name), Cons1(Token("T_COLON"), z))
    BY <1>2, <1>1, <1>3, <1>6, EntryThenForms
  <2>2. StringToken(name) \in Tokens /\ Cons1(Token("T_COLON"), z) \in Strings
    BY TokenTypes, CatFacts
  <2>3. t = StringToken(name)
    BY <1>1, <2>1, <2>2, SameCons
  <2> QED
    BY <2>3, TokensDiffer
<1> QED
  BY <1>5, <1>6 DEF Kinds

LEMMA StartsMeans ==
  ASSUME NEW kind \in Kinds, NEW outer \in SUBSET Outcomes,
         NEW t \in Tokens, NEW s \in Strings, NEW r
  PROVE  ThenStarts(kind, outer, Cons1(t, s), r) <=>
           \/ t = Closing(kind) /\ <<Container(kind, <<>>), s, r>> \in outer
           \/ t # Closing(kind) /\ ThenMore(kind, <<>>, outer, Cons1(t, s), r)
<1> DEFINE E == EntrySet(kind)
           text == Cons1(t, s)
<1>1. text \in Strings
  BY CatFacts
<1>2. \A fs \in Seq(E) : <<>> \o fs = fs
  BY ConcatEmptySeq
<1>3. ThenMore(kind, <<>>, outer, text, r) <=>
        \E u \in Strings : \E fs \in Seq(E) :
          More(kind, text, u, fs) /\ <<Container(kind, fs), u, r>> \in outer
  BY <1>2 DEF ThenMore
<1>4. <<>> \in Seq(E)
  BY EmptySeq
<1>5. \A u \in Strings : text = Cons1(Closing(kind), u) <=> t = Closing(kind) /\ s = u
  <2>1. Closing(kind) \in Tokens
    BY TokenTypes
  <2> QED
    BY <2>1, SameCons
<1>6. CASE t = Closing(kind)
  <2>1. \A u \in Strings : \A fs : ~More(kind, text, u, fs)
    BY <1>6, NoneCloses
  <2> HIDE DEF text
  <2>2. \A u \in Strings : \A fs : Starts(kind, text, u, fs) <=> fs = <<>> /\ s = u
    BY <1>1, <1>5, <1>6, <2>1, StartsForms
  <2>3. ThenStarts(kind, outer, text, r) <=> <<Container(kind, <<>>), s, r>> \in outer
    BY <1>4, <2>2 DEF ThenStarts
  <2> QED
    BY <1>6, <2>3 DEF text
<1>7. CASE t # Closing(kind)
  <2> HIDE DEF text
  <2>1. \A u \in Strings : \A fs : Starts(kind, text, u, fs) <=> More(kind, text, u, fs)
    BY <1>1, <1>5, <1>7, StartsForms
  <2>2. ThenStarts(kind, outer, text, r) <=> ThenMore(kind, <<>>, outer, text, r)
    BY <1>3, <2>1 DEF ThenStarts
  <2> QED
    BY <1>7, <2>2 DEF text
<1> QED
  BY <1>6, <1>7

LEMMA ContinuesMeans ==
  ASSUME NEW kind \in Kinds, NEW es \in Seq(EntrySet(kind)), NEW outer,
         NEW t \in Tokens, NEW s \in Strings, NEW r
  PROVE  ThenContinues(kind, es, outer, Cons1(t, s), r) <=>
           \/ t = Closing(kind) /\ <<Container(kind, es), s, r>> \in outer
           \/ t = Token("T_COMMA") /\ ThenMore(kind, es, outer, s, r)
<1> DEFINE E == EntrySet(kind)
           text == Cons1(t, s)
           comma == Token("T_COMMA")
<1>1. es \o <<>> = es /\ <<>> \in Seq(E)
  BY ConcatEmptySeq, EmptySeq
<1>2. Closing(kind) \in Tokens /\ comma \in Tokens
  BY TokenTypes
<1>3. \A u \in Strings : text = Cons1(Closing(kind), u) <=> t = Closing(kind) /\ s = u
  BY <1>2, SameCons
<1>4. \A u \in Strings : text = Cons1(comma, u) <=> t = comma /\ s = u
  BY <1>2, SameCons
<1> HIDE DEF text
<1>5. \A u \in Strings : \A fs :
        Continues(kind, text, u, fs) <=>
          \/ fs = <<>> /\ t = Closing(kind) /\ s = u
          \/ t = comma /\ More(kind, s, u, fs)
  BY <1>3, <1>4 DEF Continues
<1>6. ASSUME ThenContinues(kind, es, outer, text, r)
      PROVE  \/ t = Closing(kind) /\ <<Container(kind, es), s, r>> \in outer
             \/ t = comma /\ ThenMore(kind, es, outer, s, r)
  <2>1. PICK u \in Strings : \E fs \in Seq(E) :
          Continues(kind, text, u, fs) /\ <<Container(kind, es \o fs), u, r>> \in outer
    BY <1>6 DEF ThenContinues
  <2>2. PICK fs \in Seq(E) :
          Continues(kind, text, u, fs) /\ <<Container(kind, es \o fs), u, r>> \in outer
    BY <2>1
  <2>3. CASE fs = <<>> /\ t = Closing(kind) /\ s = u
    BY <1>1, <2>2, <2>3
  <2>4. CASE t = comma /\ More(kind, s, u, fs)
    BY <2>2, <2>4 DEF ThenMore
  <2> QED
    BY <1>5, <2>2, <2>3, <2>4
<1>7. ASSUME t = Closing(kind), <<Container(kind, es), s, r>> \in outer
      PROVE  ThenContinues(kind, es, outer, text, r)
  <2>1. Continues(kind, text, s, <<>>)
    BY <1>5, <1>7
  <2>2. <<Container(kind, es \o <<>>), s, r>> \in outer
    BY <1>1, <1>7
  <2> QED
    BY <1>1, <2>1, <2>2 DEF ThenContinues
<1>8. ASSUME t = comma, ThenMore(kind, es, outer, s, r)
      PROVE  ThenContinues(kind, es, outer, text, r)
  <2>1. PICK u \in Strings : \E fs \in Seq(E) :
          More(kind, s, u, fs) /\ <<Container(kind, es \o fs), u, r>> \in outer
    BY <1>8 DEF ThenMore
  <2>2. PICK fs \in Seq(E) :
          More(kind, s, u, fs) /\ <<Container(kind, es \o fs), u, r>> \in outer
    BY <2>1
  <2>3. Continues(kind, text, u, fs)
    BY <1>5, <1>8, <2>2
  <2> QED
    BY <2>2, <2>3 DEF ThenContinues
<1> QED
  BY <1>6, <1>7, <1>8 DEF text

LEMMA ColonMeans ==
  ASSUME NEW now, NEW t \in Tokens, NEW s \in Strings, NEW r
  PROVE  ThenColon(now, Cons1(t, s), r) <=> t = Token("T_COLON") /\ ThenValue(now, s, r)
<1>1. Token("T_COLON") \in Tokens
  BY TokenTypes
<1>2. \A w \in Strings : Cons1(t, s) = Cons1(Token("T_COLON"), w) <=> t = Token("T_COLON") /\ s = w
  BY <1>1, SameCons
<1> QED
  BY <1>2 DEF ThenColon

LEMMA ArrayMeans ==
  ASSUME NEW es \in Seq(EntrySet("array")), NEW key, NEW outer \in SUBSET Outcomes,
         NEW s \in Strings, NEW r
  PROVE  ThenMore("array", es, outer, s, r) <=> ThenValue(After("array", es, key, outer), s, r)
<1> DEFINE now == After("array", es, key, outer)
<1>1. "array" \in Kinds
  BY DEF Kinds
<1>2. \A w \in Strings : \A v \in JsonValues :
        <<v, w, r>> \in now <=> ThenContinues("array", Append(es, v), outer, w, r)
  BY <1>1, InAfter DEF EntryOf
<1>3. \A w \in Strings : \A v : EntryThen("array", s, v, w) <=> ValueThen(s, v, w)
  BY EntryThenForms
<1>4. \A v, w : ValueThen(s, v, w) => v \in JsonValues
  BY ThenTypes
<1> HIDE DEF now
<1>5. ThenMore("array", es, outer, s, r) <=>
           \E w \in Strings : \E e :
             EntryThen("array", s, e, w) /\ ThenContinues("array", Append(es, e), outer, w, r)
  BY <1>1, MoreMeans
<1>6. ThenMore("array", es, outer, s, r) <=> ThenValue(now, s, r)
  BY <1>2, <1>3, <1>4, <1>5 DEF ThenValue
<1> QED
  BY <1>6 DEF now

LEMMA ObjectMeans ==
  ASSUME NEW es \in Seq(EntrySet("object")), NEW outer \in SUBSET Outcomes,
         NEW t \in Tokens, NEW s \in Strings, NEW r
  PROVE  ThenMore("object", es, outer, Cons1(t, s), r) <=>
           \E text \in Texts :
             t = StringToken(text) /\ ThenColon(After("object", es, text, outer), s, r)
<1> DEFINE all == Cons1(t, s)
<1>1. "object" \in Kinds /\ all \in Strings
  BY CatFacts DEF Kinds
<1>2. \A text, w, v : w \in Strings /\ v \in JsonValues =>
        (<<v, w, r>> \in After("object", es, text, outer) <=>
           ThenContinues("object", Append(es, <<text, v>>), outer, w, r))
  BY <1>1, InAfter DEF EntryOf
<1>3. ASSUME ThenMore("object", es, outer, all, r)
      PROVE  \E text \in Texts :
               t = StringToken(text) /\ ThenColon(After("object", es, text, outer), s, r)
  <2>1. PICK w \in Strings : \E e :
          EntryThen("object", all, e, w) /\ ThenContinues("object", Append(es, e), outer, w, r)
    BY <1>1, <1>3, MoreMeans
  <2>2. PICK e : EntryThen("object", all, e, w) /\ ThenContinues("object", Append(es, e), outer, w, r)
    BY <2>1
  <2>3. PICK text, z, v :
          /\ text \in Texts /\ z \in Strings
          /\ all = Cons1(StringToken(text), Cons1(Token("T_COLON"), z))
          /\ e = <<text, v>> /\ ValueThen(z, v, w)
    BY <1>1, <2>2, EntryThenForms
  <2>4. StringToken(text) \in Tokens /\ Cons1(Token("T_COLON"), z) \in Strings
    BY <2>3, TokenTypes, CatFacts
  <2>5. t = StringToken(text) /\ s = Cons1(Token("T_COLON"), z)
    BY <2>3, <2>4, SameCons
  <2>6. v \in JsonValues
    BY <2>3, ThenTypes
  <2>7. <<v, w, r>> \in After("object", es, text, outer)
    BY <1>2, <2>2, <2>3, <2>6
  <2>8. ThenValue(After("object", es, text, outer), z, r)
    BY <2>3, <2>7 DEF ThenValue
  <2> QED
    BY <2>3, <2>5, <2>8 DEF ThenColon
<1>4. ASSUME NEW text \in Texts, t = StringToken(text),
             ThenColon(After("object", es, text, outer), s, r)
      PROVE  ThenMore("object", es, outer, all, r)
  <2>1. PICK z \in Strings :
          s = Cons1(Token("T_COLON"), z) /\ ThenValue(After("object", es, text, outer), z, r)
    BY <1>4 DEF ThenColon
  <2>2. PICK w \in Strings : \E v :
          ValueThen(z, v, w) /\ <<v, w, r>> \in After("object", es, text, outer)
    BY <2>1 DEF ThenValue
  <2>3. PICK v : ValueThen(z, v, w) /\ <<v, w, r>> \in After("object", es, text, outer)
    BY <2>2
  <2>4. v \in JsonValues
    BY <2>3, ThenTypes
  <2> DEFINE e == <<text, v>>
  <2>5. ThenContinues("object", Append(es, e), outer, w, r)
    BY <1>2, <2>3, <2>4
  <2>6. EntryThen("object", all, e, w)
    BY <1>1, <1>4, <2>1, <2>3, EntryThenForms
  <2> HIDE DEF e
  <2> QED
    BY <1>1, <2>5, <2>6, MoreMeans
<1> QED
  BY <1>3, <1>4

(***************************************************************************)
(* A value that is stored in a container is one entry more.                *)
(***************************************************************************)
LEMMA NumberedSize ==
  ASSUME NEW es, IsSeq(es)
  PROVE  Cardinality(Numbered(es)) = Len(es)
<1> DEFINE n == Len(es)
           S == Numbered(es)
           F == [i \in 1 .. n |-> <<i, es[i]>>]
<1>1. n \in Nat /\ DOMAIN es = 1 .. n
  BY LenProperties DEF IsSeq
<1>2. F \in [1 .. n -> S] /\ \A i \in 1 .. n : F[i] = <<i, es[i]>>
  BY <1>1 DEF Numbered
<1>3. \A x \in S : \E i \in 1 .. n : F[i] = x
  BY <1>1 DEF Numbered
<1>4. \A i, j \in 1 .. n : F[i] = F[j] => i = j
  OBVIOUS
<1> HIDE DEF F, S
<1>5. F \in Bijection(1 .. n, S)
  BY <1>2, <1>3, <1>4, Fun_IsBij
<1>6. ExistsBijection(1 .. n, S)
  BY <1>5 DEF ExistsBijection
<1> QED
  BY <1>1, <1>6, FS_CountingElements DEF S

LEMMA StoredIn ==
  ASSUME NEW kind, NEW of, NEW k, NEW v
  PROVE  Stored(Value(kind, of), k, v) = Value(kind, {e \in of : e[1] # k} \union {<<k, v>>})
BY DEF Stored, Value

LEMMA StoredItem ==
  ASSUME NEW es, IsSeq(es), NEW v
  PROVE  Container("array", Append(es, v)) =
           Stored(Container("array", es), Cardinality(Container("array", es).of) + 1, v)
<1> DEFINE n == Len(es)
           more == Append(es, v)
<1>1. n \in Nat /\ DOMAIN es = 1 .. n
  BY LenProperties DEF IsSeq
<1>2. /\ IsSeq(more) /\ Len(more) = n + 1 /\ more[n + 1] = v
      /\ \A i \in 1 .. n : more[i] = es[i]
  BY Appended
<1>3. DOMAIN more = 1 .. n + 1
  BY <1>2, LenProperties DEF IsSeq
<1> HIDE DEF more
<1>4. Numbered(more) = Numbered(es) \union {<<n + 1, v>>}
  <2>1. Numbered(more) = {<<i, more[i]>> : i \in 1 .. n + 1}
    BY <1>3 DEF Numbered
  <2>2. Numbered(es) = {<<i, es[i]>> : i \in 1 .. n}
    BY <1>1 DEF Numbered
  <2> HIDE DEF n
  <2>3. \A i \in 1 .. n + 1 : i \in 1 .. n \/ i = n + 1
    BY <1>1
  <2>4. \A i \in 1 .. n : i \in 1 .. n + 1
    BY <1>1
  <2>5. n + 1 \in 1 .. n + 1
    BY <1>1
  <2> QED
    BY <1>2, <2>1, <2>2, <2>3, <2>4, <2>5
<1>5. {e \in Numbered(es) : e[1] # n + 1} = Numbered(es)
  BY <1>1 DEF Numbered
<1>6. Cardinality(Container("array", es).of) = n
  BY NumberedSize DEF Container, Value
<1>7. Stored(Container("array", es), n + 1, v)
        = Value("array", {e \in Numbered(es) : e[1] # n + 1} \union {<<n + 1, v>>})
  <2> HIDE DEF n
  <2> QED
    BY StoredIn DEF Container
<1>8. Container("array", more) = Value("array", Numbered(more))
  BY DEF Container
<1> QED
  BY <1>4, <1>5, <1>6, <1>7, <1>8 DEF more

LEMMA StoredMember ==
  ASSUME NEW es, IsSeq(es), NEW k, NEW v
  PROVE  Container("object", Append(es, <<k, v>>)) = Stored(Container("object", es), k, v)
<1> DEFINE n == Len(es)
           m == <<k, v>>
           more == Append(es, m)
           last(s, i) == \A j \in DOMAIN s : j > i => s[j][1] # s[i][1]
<1>1. n \in Nat /\ DOMAIN es = 1 .. n
  BY LenProperties DEF IsSeq
<1>2. /\ IsSeq(more) /\ Len(more) = n + 1 /\ more[n + 1] = m
      /\ \A i \in 1 .. n : more[i] = es[i]
  BY Appended
<1>3. DOMAIN more = 1 .. n + 1
  BY <1>2, LenProperties DEF IsSeq
<1>4. m[1] = k
  OBVIOUS
<1> HIDE DEF more, m
<1>5. last(more, n + 1)
  BY <1>1, <1>3
<1>6. \A i \in 1 .. n : last(more, i) <=> last(es, i) /\ es[i][1] # k
  <2> HIDE DEF n
  <2> SUFFICES ASSUME NEW i \in 1 .. n
               PROVE  last(more, i) <=> last(es, i) /\ es[i][1] # k
    OBVIOUS
  <2>1. \A j \in 1 .. n + 1 : j \in 1 .. n \/ j = n + 1
    BY <1>1
  <2>2. n + 1 \in 1 .. n + 1 /\ n + 1 > i /\ \A j \in 1 .. n : j \in 1 .. n + 1
    BY <1>1
  <2> QED
    BY <1>1, <1>2, <1>3, <1>4, <2>1, <2>2
<1> HIDE DEF last
<1>7. LastWins(es) = {es[i] : i \in {i \in 1 .. n : last(es, i)}}
  BY <1>1 DEF LastWins, last
<1>8. LastWins(more) = {more[i] : i \in {i \in 1 .. n + 1 : last(more, i)}}
  BY <1>3 DEF LastWins, last
<1>9. LastWins(more) = {e \in LastWins(es) : e[1] # k} \union {m}
  <2> HIDE DEF n
  <2>1. ASSUME NEW x \in LastWins(more)
        PROVE  x \in {e \in LastWins(es) : e[1] # k} \union {m}
    <3>1. PICK i \in 1 .. n + 1 : last(more, i) /\ x = more[i]
      BY <1>8, <2>1
    <3>2. CASE i = n + 1
      BY <1>2, <3>1, <3>2
    <3>3. CASE i \in 1 .. n
      BY <1>2, <1>6, <1>7, <3>1, <3>3
    <3> QED
      BY <1>1, <3>2, <3>3
  <2>2. ASSUME NEW x \in LastWins(es), x[1] # k
        PROVE  x \in LastWins(more)
    <3>1. PICK i \in 1 .. n : last(es, i) /\ x = es[i]
      BY <1>7, <2>2
    <3>2. last(more, i) /\ more[i] = x
      BY <1>2, <1>6, <2>2, <3>1
    <3>3. i \in 1 .. n + 1
      BY <1>1
    <3> QED
      BY <1>8, <3>2, <3>3
  <2>3. m \in LastWins(more)
    <3>1. n + 1 \in 1 .. n + 1
      BY <1>1
    <3> QED
      BY <1>2, <1>5, <1>8, <3>1
  <2> QED
    BY <2>1, <2>2, <2>3
<1>10. Stored(Container("object", es), k, v)
         = Value("object", {e \in LastWins(es) : e[1] # k} \union {m})
  BY StoredIn DEF Container, m
<1>11. Container("object", more) = Value("object", LastWins(more))
  BY DEF Container
<1> QED
  BY <1>9, <1>10, <1>11 DEF more, m

LEMMA EmptyContainer ==
  ASSUME NEW kind \in Kinds
  PROVE  Container(kind, <<>>) = Value(kind, {})
<1>1. DOMAIN <<>> = {}
  OBVIOUS
<1>2. Numbered(<<>>) = {} /\ LastWins(<<>>) = {}
  BY <1>1 DEF Numbered, LastWins
<1> QED
  BY <1>2 DEF Container

-----------------------------------------------------------------------------
(* The brackets that are open after one token more. *)
CountOf(ts, types) == Cardinality({i \in DOMAIN ts : ts[i].type \in types})

LEMMA CountAppend ==
  ASSUME NEW ts \in Strings, NEW t \in Tokens, NEW types
  PROVE  /\ CountOf(ts, types) \in Nat
         /\ CountOf(Append(ts, t), types)
              = IF t.type \in types THEN CountOf(ts, types) + 1 ELSE CountOf(ts, types)
<1> DEFINE n == Len(ts)
           more == Append(ts, t)
           S == {i \in 1 .. n : ts[i].type \in types}
           T == {i \in 1 .. n + 1 : more[i].type \in types}
<1>1. n \in Nat /\ DOMAIN ts = 1 .. n
  BY LenProperties DEF Strings
<1>2. /\ more \in Seq(Tokens) /\ Len(more) = n + 1 /\ more[n + 1] = t
      /\ \A i \in 1 .. n : more[i] = ts[i]
  BY AppendProperties DEF Strings
<1>3. DOMAIN more = 1 .. n + 1
  BY <1>2, LenProperties
<1>4. CountOf(ts, types) = Cardinality(S) /\ CountOf(more, types) = Cardinality(T)
  BY <1>1, <1>3 DEF CountOf
<1> HIDE DEF more
<1>5. IsFiniteSet(S) /\ Cardinality(S) \in Nat
  <2>1. IsFiniteSet(1 .. n) /\ S \subseteq 1 .. n
    BY <1>1, FS_Interval
  <2> HIDE DEF S
  <2> QED
    BY <2>1, FS_Subset, FS_CardinalityType
<1>6. CASE t.type \in types
  <2>1. T = S \union {n + 1}
    <3> HIDE DEF n
    <3> QED
      BY <1>1, <1>2, <1>6
  <2>2. n + 1 \notin S
    BY <1>1
  <2> HIDE DEF S, T
  <2> QED
    BY <1>4, <1>5, <1>6, <2>1, <2>2, FS_AddElement DEF more
<1>7. CASE t.type \notin types
  <2>1. T = S
    <3> HIDE DEF n
    <3> QED
      BY <1>1, <1>2, <1>7
  <2> HIDE DEF S, T
  <2> QED
    BY <1>4, <1>5, <1>7, <2>1 DEF more
<1> QED
  BY <1>6, <1>7

Opens == {"T_OBJ_BEGIN", "T_ARR_BEGIN"}
Closes == {"T_OBJ_END", "T_ARR_END"}

LEMMA OpenedAppend ==
  ASSUME NEW ts \in Strings, NEW t \in Tokens
  PROVE  /\ Opened(ts) \in Int
         /\ Opened(Append(ts, t)) = Opened(ts) + (IF t.type \in Opens THEN 1 ELSE 0)
                                               - (IF t.type \in Closes THEN 1 ELSE 0)
<1>1. \A s : Opened(s) = CountOf(s, Opens) - CountOf(s, Closes)
  BY DEF Opened, CountOf, Opens, Closes
<1>2. /\ CountOf(ts, Opens) \in Nat /\ CountOf(ts, Closes) \in Nat
      /\ CountOf(Append(ts, t), Opens)
              = IF t.type \in Opens THEN CountOf(ts, Opens) + 1 ELSE CountOf(ts, Opens)
      /\ CountOf(Append(ts, t), Closes)
              = IF t.type \in Closes THEN CountOf(ts, Closes) + 1 ELSE CountOf(ts, Closes)
  BY CountAppend
<1>3. ~(t.type \in Opens /\ t.type \in Closes)
  BY DEF Opens, Closes
<1> QED
  BY <1>1, <1>2, <1>3

LEMMA OpenedNothing == Opened(<<>>) = 0
<1>1. \A types : {i \in DOMAIN <<>> : <<>>[i].type \in types} = {}
  OBVIOUS
<1>2. \A types : CountOf(<<>>, types) = 0
  BY <1>1, FS_EmptySet DEF CountOf
<1> QED
  BY <1>2 DEF Opened, CountOf

-----------------------------------------------------------------------------
(* Documents and what they begin with. *)
IsDocument(d, r) == ThenValue(Final, d, r)

LEMMA DocumentForms ==
  ASSUME NEW d \in Strings, NEW r
  PROVE  IsDocument(d, r) <=>
           \E x \in Strings : IsValue(x, r) /\ d = Cat(x, Cons1(Token("T_END"), <<>>))
<1> DEFINE end == Cons1(Token("T_END"), <<>>)
<1>1. end \in Strings
  BY CatFacts, TokenTypes
<1> HIDE DEF end
<1>2. \A v, u : <<v, u, r>> \in Final <=> v \in JsonValues /\ u = end /\ r = v
  BY <1>1 DEF Final, Outcomes, end
<1>3. \A v : ValueThen(d, v, end) => v \in JsonValues
  BY ThenTypes
<1>4. IsDocument(d, r) <=> ValueThen(d, r, end)
  <2>1. ASSUME IsDocument(d, r)
        PROVE  ValueThen(d, r, end)
    <3>1. PICK u \in Strings : \E v : ValueThen(d, v, u) /\ <<v, u, r>> \in Final
      BY <2>1 DEF IsDocument, ThenValue
    <3> QED
      BY <1>2, <3>1
  <2>2. ASSUME ValueThen(d, r, end)
        PROVE  IsDocument(d, r)
    <3>1. <<r, end, r>> \in Final
      BY <1>2, <1>3, <2>2
    <3> QED
      BY <1>1, <2>2, <3>1 DEF IsDocument, ThenValue
  <2> QED
    BY <2>1, <2>2
<1> QED
  BY <1>4 DEF ValueThen, end

LEMMA EndIsAppend ==
  ASSUME NEW x \in Strings
  PROVE  /\ Cat(x, Cons1(Token("T_END"), <<>>)) = Append(x, Token("T_END"))
         /\ Append(x, Token("T_END")) \in Strings
         /\ Len(Append(x, Token("T_END"))) = Len(x) + 1 /\ Len(x) \in Nat
<1>1. Token("T_END") \in Tokens
  BY TokenTypes
<1>2. /\ Append(x, Token("T_END")) = x \o <<Token("T_END")>>
      /\ Append(x, Token("T_END")) \in Strings
      /\ Len(Append(x, Token("T_END"))) = Len(x) + 1 /\ Len(x) \in Nat
  BY <1>1, AppendIsConcat, AppendProperties, LenProperties DEF Strings
<1>3. <<Token("T_END")>> \o <<>> = <<Token("T_END")>>
  <2> DEFINE o == <<Token("T_END")>>
  <2>1. o \in Seq(Tokens)
    BY <1>1, Concats
  <2> HIDE DEF o
  <2>2. o \o <<>> = o
    BY <2>1, ConcatEmptySeq
  <2> QED
    BY <2>2 DEF o
<1> QED
  BY <1>2, <1>3 DEF Cat, Cons1

LEMMA DocumentsComplete ==
  ASSUME NEW d \in Strings, Len(d) <= MaxTokens, NEW r, IsDocument(d, r)
  PROVE  <<d, r>> \in Documents
<1>1. PICK x \in Strings : IsValue(x, r) /\ d = Append(x, Token("T_END"))
  BY DocumentForms, EndIsAppend
<1> DEFINE n == Len(x)
<1>2. n \in Nat /\ Len(d) = n + 1
  BY <1>1, EndIsAppend
<1>3. <<x, r>> \in ValuesOf(n)
  BY <1>1 DEF IsValue
<1>4. n # 0
  BY <1>3, GrammarForms
<1> HIDE DEF n
<1>5. n \in 1 .. (MaxTokens - 1)
  BY <1>2, <1>4, CJsonAssumption
<1>6. <<x, r>> \in UNION {Grammar[i].values : i \in 1 .. (MaxTokens - 1)}
  BY <1>3, <1>5 DEF ValuesOf
<1> DEFINE p == <<x, r>>
<1>7. p[1] = x /\ p[2] = r
  OBVIOUS
<1>8. <<Append(p[1], Token("T_END")), p[2]>> \in Documents
  BY <1>6 DEF Documents
<1> QED
  BY <1>1, <1>7, <1>8

LEMMA DocumentsSound ==
  ASSUME NEW y \in Documents
  PROVE  y[1] \in Strings /\ IsDocument(y[1], y[2])
<1>1. PICK n \in 1 .. (MaxTokens - 1) :
        \E p \in ValuesOf(n) : y = <<Append(p[1], Token("T_END")), p[2]>>
  BY DEF Documents, ValuesOf
<1>2. PICK p \in ValuesOf(n) : y = <<Append(p[1], Token("T_END")), p[2]>>
  BY <1>1
<1>3. n \in Nat
  BY CJsonAssumption
<1>4. ValuesOf(n) \subseteq LongTexts(n) \X JsonValues
  BY <1>3, GrammarTyped DEF Typed
<1>5. p = <<p[1], p[2]>> /\ p[1] \in LongTexts(n)
  BY <1>2, <1>4
<1>6. p[1] \in Strings /\ IsValue(p[1], p[2])
  BY <1>2, <1>5 DEF IsValue, LongTexts, Strings
<1>7. Append(p[1], Token("T_END")) \in Strings
      /\ Append(p[1], Token("T_END")) = Cat(p[1], Cons1(Token("T_END"), <<>>))
  BY <1>6, EndIsAppend
<1>8. IsDocument(Append(p[1], Token("T_END")), p[2])
  BY <1>6, <1>7, DocumentForms
<1> QED
  BY <1>2, <1>7, <1>8

LEMMA PrefixesContinue ==
  ASSUME NEW x \in Prefixes
  PROVE  x \in Strings /\ \E s \in Strings : \E r : IsDocument(Cat(x, s), r)
<1>1. PICK y \in Documents : \E i \in 0 .. Len(y[1]) : x = SubSeq(y[1], 1, i)
  BY DEF Prefixes
<1> DEFINE d == y[1]
           n == Len(d)
<1>2. PICK i \in 0 .. n : x = SubSeq(d, 1, i)
  BY <1>1
<1>3. d \in Seq(Tokens) /\ IsDocument(d, y[2])
  BY DocumentsSound DEF Strings
<1>4. n \in Nat
  BY <1>3, LenProperties
<1> HIDE DEF d
<1> DEFINE s == SubSeq(d, i + 1, n)
<1>5. x \o s = d
  <2>1. 1 \in 1 .. Len(d) + 1 /\ i \in 1 - 1 .. Len(d) /\ n \in i .. Len(d)
    BY <1>4
  <2>2. SubSeq(d, 1, i) \o SubSeq(d, i + 1, n) = SubSeq(d, 1, n)
    BY <1>3, <2>1, ConcatAdjacentSubSeq
  <2> QED
    BY <1>2, <1>3, <2>2, SubSeqFull
<1>6. \A a \in Int, b \in Int : 1 <= a /\ b <= n => SubSeq(d, a, b) \in Seq(Tokens)
  <2> SUFFICES ASSUME NEW a \in Int, NEW b \in Int, 1 <= a, b <= n
               PROVE  SubSeq(d, a, b) \in Seq(Tokens)
    OBVIOUS
  <2>1. \A j \in a .. b : d[j] \in Tokens
    <3>1. \A j \in a .. b : j \in 1 .. n
      BY <1>4
    <3> QED
      BY <1>3, <3>1, ElementOfSeq
  <2> QED
    BY <2>1, SubSeqProperties
<1>7. x \in Strings /\ s \in Strings
  BY <1>2, <1>4, <1>6 DEF Strings
<1> HIDE DEF s
<1> QED
  BY <1>3, <1>5, <1>7 DEF Cat

(***************************************************************************)
(* The containers that are open.  now[j] is what values inside the first j *)
(* of them make of the text, es[j] the entries the j-th one has, keys[j]   *)
(* the name of the one that is read, and top[j] the height of the stack    *)
(* when a value inside them is pushed.                                     *)
(***************************************************************************)
Levels(kinds, now, es, keys) ==
  /\ now \in [0 .. Len(kinds) -> SUBSET Outcomes] /\ now[0] = Final
  /\ \A j \in 1 .. Len(kinds) :
       /\ es[j] \in Seq(EntrySet(kinds[j]))
       /\ now[j] = After(kinds[j], es[j], keys[j], now[j - 1])

Heights(kinds, top) ==
  /\ top \in [0 .. Len(kinds) -> Nat] /\ top[0] = 1
  /\ \A j \in 1 .. Len(kinds) : top[j] = top[j - 1] + Width(kinds[j])
  /\ \A i, j \in 0 .. Len(kinds) : i <= j => top[i] <= top[j]

(* The key of the innermost container is pending: it is on the stack.      *)
Held(kinds, top, es, keys, stk, pending) ==
  \A j \in 1 .. Len(kinds) :
    /\ stk[top[j - 1] + 1] = Container(kinds[j], es[j])
    /\ kinds[j] = "object" /\ (j < Len(kinds) \/ pending) =>
         keys[j] \in Texts /\ stk[top[j]] = Value("string", {keys[j]})

AtPlace(p, kinds, stk, es, top) ==
  LET n == Len(kinds)
  IN  /\ p \in Reading
      /\ p \in {"value", "colon"} => Len(stk) = top[n]
      /\ p = "store" => Len(stk) = top[n] + 1 /\ LastOf(stk) \in JsonValues
      /\ p \in {"key", "first", "comma"} => n > 0 /\ Len(stk) = top[n - 1] + 1
      /\ p \in {"key", "colon"} => n > 0 /\ kinds[n] = "object"
      /\ p = "first" => es[n] = <<>>
      /\ p = "end" => n = 0 /\ Len(stk) = 2 /\ LastOf(stk) \in JsonValues

Shape(p, kinds, stk, now, es, keys, top) ==
  /\ kinds \in Seq(Kinds) /\ IsSeq(stk)
  /\ Levels(kinds, now, es, keys) /\ Heights(kinds, top)
  /\ Held(kinds, top, es, keys, stk, p \in {"value", "colon", "store"})
  /\ AtPlace(p, kinds, stk, es, top)

(* What the text that is left has to be for the whole to mean r.           *)
Residue(p, kinds, stk, now, es, s, r) ==
  LET n == Len(kinds)
  IN  \/ p = "value" /\ ThenValue(now[n], s, r)
      \/ p = "store" /\ <<LastOf(stk), s, r>> \in now[n]
      \/ p = "colon" /\ ThenColon(now[n], s, r)
      \/ p = "key" /\ ThenMore(kinds[n], es[n], now[n - 1], s, r)
      \/ p = "first" /\ ThenStarts(kinds[n], now[n - 1], s, r)
      \/ p = "comma" /\ ThenContinues(kinds[n], es[n], now[n - 1], s, r)
      \/ p = "end" /\ <<LastOf(stk), s, r>> \in Final

LEMMA ShapeFacts ==
  ASSUME NEW p, NEW kinds, NEW stk, NEW now, NEW es, NEW keys, NEW top,
         Shape(p, kinds, stk, now, es, keys, top)
  PROVE  /\ Len(kinds) \in Nat /\ Len(stk) \in Nat /\ IsSeq(kinds)
         /\ \A j \in 1 .. Len(kinds) : kinds[j] \in Kinds /\ j - 1 \in 0 .. Len(kinds)
         /\ \A j \in 0 .. Len(kinds) : now[j] \in SUBSET Outcomes /\ top[j] \in Nat
         /\ Len(kinds) > 0 =>
              /\ LastOf(kinds) = kinds[Len(kinds)] /\ LastOf(kinds) \in Kinds
              /\ es[Len(kinds)] \in Seq(EntrySet(LastOf(kinds)))
              /\ now[Len(kinds)] = After(LastOf(kinds), es[Len(kinds)], keys[Len(kinds)],
                                         now[Len(kinds) - 1])
              /\ top[Len(kinds)] = top[Len(kinds) - 1] + Width(LastOf(kinds))
<1>1. Len(kinds) \in Nat /\ IsSeq(kinds) /\ \A j \in 1 .. Len(kinds) : kinds[j] \in Kinds
  BY SeqIsSeq, ElementOfSeq DEF Shape
<1>2. Len(stk) \in Nat
  BY SeqIsSeq DEF Shape, IsSeq
<1>3. \A j \in 1 .. Len(kinds) : j - 1 \in 0 .. Len(kinds)
  BY <1>1
<1>4. \A j \in 0 .. Len(kinds) : now[j] \in SUBSET Outcomes /\ top[j] \in Nat
  BY DEF Shape, Levels, Heights
<1>5. Len(kinds) > 0 => Len(kinds) \in 1 .. Len(kinds)
  BY <1>1
<1> QED
  BY <1>1, <1>2, <1>3, <1>4, <1>5 DEF Shape, Levels, Heights, LastOf

(* What is pushed above all that is held changes nothing below it. *)
LEMMA HeldBelow ==
  ASSUME NEW p, NEW kinds, NEW stk, NEW now, NEW es, NEW keys, NEW top,
         Shape(p, kinds, stk, now, es, keys, top), NEW more,
         \A i \in 1 .. Len(stk) : more[i] = stk[i]
  PROVE  Held(kinds, top, es, keys, more, p \in {"value", "colon", "store"})
<1> DEFINE n == Len(kinds)
           h == Len(stk)
<1>1. n \in Nat /\ h \in Nat /\ \A j \in 0 .. n : top[j] \in Nat
  BY ShapeFacts
<1>2. \A i, j \in 0 .. n : i <= j => top[i] <= top[j]
  BY DEF Shape, Heights
<1>3. \A j \in 1 .. n : top[j] = top[j - 1] + Width(kinds[j])
  BY DEF Shape, Heights
<1>4. n > 0 => h >= top[n - 1] + 1
  <2>1. CASE n = 0
    BY <2>1
  <2>2. CASE n > 0
    <3>1. n \in 1 .. n /\ n - 1 \in 0 .. n /\ n \in 0 .. n
      BY <1>1, <2>2
    <3>2. top[n] >= top[n - 1] + 1 /\ top[n - 1] \in Nat /\ top[n] \in Nat
      BY <1>1, <1>3, <3>1 DEF Width
    <3>3. h = top[n] \/ h = top[n] + 1 \/ h = top[n - 1] + 1
      BY <2>2, <1>1 DEF Shape, AtPlace, Reading
    <3> QED
      BY <3>2, <3>3
  <2> QED
    BY <1>1, <2>1, <2>2
<1>5. p \in {"value", "colon", "store"} => h >= top[n]
  <2>1. n \in 0 .. n
    BY <1>1
  <2>2. top[n] \in Nat
    BY <1>1, <2>1
  <2>3. p \in {"value", "colon", "store"} => h = top[n] \/ h = top[n] + 1
    BY DEF Shape, AtPlace
  <2> QED
    BY <1>1, <2>2, <2>3
<1>6. ASSUME NEW j \in 1 .. n
      PROVE  /\ top[j - 1] + 1 \in 1 .. h
             /\ (j < n \/ p \in {"value", "colon", "store"}) => top[j] \in 1 .. h
  <2>1. j - 1 \in 0 .. n /\ j \in 0 .. n /\ n - 1 \in 0 .. n /\ n \in 0 .. n /\ 0 \in 0 .. n
        /\ j - 1 <= n - 1 /\ j <= n /\ n > 0 /\ (j < n => j <= n - 1)
    BY <1>1
  <2>2. top[j - 1] <= top[n - 1] /\ top[j] <= top[n] /\ (j < n => top[j] <= top[n - 1])
    BY <1>2, <2>1
  <2>3. top[j] = top[j - 1] + Width(kinds[j]) /\ Width(kinds[j]) \in {1, 2}
    BY <1>3 DEF Width
  <2>4. top[j - 1] \in Nat /\ top[j] \in Nat /\ top[n - 1] \in Nat /\ top[n] \in Nat
    BY <1>1, <2>1
  <2>5. h \in Nat /\ h >= top[n - 1] + 1 /\ (p \in {"value", "colon", "store"} => h >= top[n])
    BY <1>1, <1>4, <1>5, <2>1
  <2> HIDE DEF n, h
  <2>6. top[j] >= 1 /\ top[j - 1] + 1 >= 1
    BY <2>3, <2>4
  <2>7. top[j - 1] + 1 <= h /\ ((j < n \/ p \in {"value", "colon", "store"}) => top[j] <= h)
    BY <2>2, <2>4, <2>5
  <2> QED
    BY <2>4, <2>5, <2>6, <2>7
<1> QED
  BY <1>6 DEF Shape, Held

(* After a bracket or a comma: a value or a name is next. *)
LEMMA NextPlace ==
  ASSUME NEW p \in {"first", "comma"},
         NEW kinds, NEW stk, NEW now, NEW es, NEW keys, NEW top,
         Shape(p, kinds, stk, now, es, keys, top)
  PROVE  Shape(IF LastOf(kinds) = "object" THEN "key" ELSE "value",
               kinds, stk, now, es, keys, top)
<1> DEFINE n == Len(kinds)
           q == IF LastOf(kinds) = "object" THEN "key" ELSE "value"
<1>1. n \in Nat /\ n > 0 /\ LastOf(kinds) = kinds[n] /\ LastOf(kinds) \in Kinds
      /\ top[n] = top[n - 1] + Width(LastOf(kinds)) /\ Len(stk) = top[n - 1] + 1
      /\ LastOf(kinds) \in {"array", "object"}
  <2>1. n > 0 /\ Len(stk) = top[n - 1] + 1
    BY DEF Shape, AtPlace
  <2> QED
    BY <2>1, ShapeFacts DEF Kinds
<1>2. AtPlace(q, kinds, stk, es, top)
  BY <1>1 DEF AtPlace, Width, Reading
<1>3. Held(kinds, top, es, keys, stk, q \in {"value", "colon", "store"})
  <2>1. Held(kinds, top, es, keys, stk, FALSE)
    BY DEF Shape, Held
  <2>2. q \in {"value", "colon", "store"} => kinds[n] # "object"
    BY <1>1
  <2>3. \A j \in 1 .. n : j < n \/ j = n
    BY <1>1
  <2> QED
    BY <2>1, <2>2, <2>3 DEF Held
<1> QED
  BY <1>2, <1>3 DEF Shape

LEMMA ValuePushed ==
  ASSUME NEW kinds, NEW stk, NEW now, NEW es, NEW keys, NEW top,
         Shape("value", kinds, stk, now, es, keys, top), NEW v \in JsonValues
  PROVE  Shape("store", kinds, Append(stk, v), now, es, keys, top)
         /\ LastOf(Append(stk, v)) = v
<1> DEFINE more == Append(stk, v)
<1>1. /\ IsSeq(more) /\ Len(more) = Len(stk) + 1 /\ more[Len(stk) + 1] = v
      /\ \A i \in 1 .. Len(stk) : more[i] = stk[i]
  BY Appended DEF Shape
<1>2. LastOf(more) = v
  BY <1>1 DEF LastOf
<1> HIDE DEF more
<1>3. Held(kinds, top, es, keys, more, "value" \in {"value", "colon", "store"})
  BY <1>1, HeldBelow
<1>4. Held(kinds, top, es, keys, more, "store" \in {"value", "colon", "store"})
  BY <1>3 DEF Held
<1>5. AtPlace("store", kinds, more, es, top)
  BY <1>1, <1>2 DEF Shape, AtPlace, Reading
<1>6. Shape("store", kinds, more, now, es, keys, top)
  BY <1>1, <1>4, <1>5 DEF Shape
<1> QED
  BY <1>2, <1>6 DEF more

LEMMA ColonRead ==
  ASSUME NEW kinds, NEW stk, NEW now, NEW es, NEW keys, NEW top,
         Shape("colon", kinds, stk, now, es, keys, top)
  PROVE  Shape("value", kinds, stk, now, es, keys, top)
<1>1. AtPlace("value", kinds, stk, es, top)
  BY DEF Shape, AtPlace, Reading
<1>2. Held(kinds, top, es, keys, stk, "value" \in {"value", "colon", "store"})
  BY DEF Shape, Held
<1> QED
  BY <1>1, <1>2 DEF Shape

LEMMA Ended ==
  ASSUME NEW kinds, NEW stk, NEW now, NEW es, NEW keys, NEW top,
         Shape("store", kinds, stk, now, es, keys, top), kinds = <<>>
  PROVE  Shape("end", kinds, stk, now, es, keys, top) /\ now[Len(kinds)] = Final
<1>1. Len(kinds) = 0
  OBVIOUS
<1>2. top[0] = 1 /\ now[0] = Final
  BY DEF Shape, Heights, Levels
<1>3. AtPlace("end", kinds, stk, es, top)
  <2>1. Len(stk) = top[Len(kinds)] + 1 /\ LastOf(stk) \in JsonValues
    BY DEF Shape, AtPlace
  <2>2. Len(stk) = 2
    BY <2>1, <1>1, <1>2
  <2> QED
    BY <1>1, <2>1, <2>2 DEF AtPlace, Reading
<1>4. Held(kinds, top, es, keys, stk, "end" \in {"value", "colon", "store"})
  BY <1>1 DEF Held
<1> QED
  BY <1>1, <1>2, <1>3, <1>4 DEF Shape

(* Other entries, or another key, of the innermost container. *)
Relevels(kinds, now, es, keys, more, key, now2, es2, keys2) ==
  LET n == Len(kinds)
  IN  /\ Levels(kinds, now2, es2, keys2)
      /\ now2[n] = After(kinds[n], more, key, now[n - 1])
      /\ now2[n - 1] = now[n - 1]
      /\ es2[n] = more /\ keys2[n] = key
      /\ \A j \in 1 .. n - 1 : es2[j] = es[j] /\ keys2[j] = keys[j]

LEMMA Releveled ==
  ASSUME NEW kinds, NEW now, NEW es, NEW keys, Len(kinds) \in Nat, Len(kinds) > 0,
         Levels(kinds, now, es, keys),
         NEW more \in Seq(EntrySet(kinds[Len(kinds)])), NEW key
  PROVE  \E now2, es2, keys2 : Relevels(kinds, now, es, keys, more, key, now2, es2, keys2)
<1> DEFINE n == Len(kinds)
           last == After(kinds[n], more, key, now[n - 1])
           now2 == [j \in 0 .. n |-> IF j = n THEN last ELSE now[j]]
           es2 == [j \in 1 .. n |-> IF j = n THEN more ELSE es[j]]
           keys2 == [j \in 1 .. n |-> IF j = n THEN key ELSE keys[j]]
<1>1. last \in SUBSET Outcomes
  BY DEF After
<1>2. n \in Nat /\ n > 0 /\ now \in [0 .. n -> SUBSET Outcomes] /\ now[0] = Final
      /\ \A j \in 1 .. n : es[j] \in Seq(EntrySet(kinds[j]))
                           /\ now[j] = After(kinds[j], es[j], keys[j], now[j - 1])
  BY DEF Levels
<1>3. more \in Seq(EntrySet(kinds[n]))
  OBVIOUS
<1>a. last = After(kinds[n], more, key, now[n - 1])
  OBVIOUS
<1> HIDE DEF n, last
<1>4. now2 \in [0 .. n -> SUBSET Outcomes]
  BY <1>1, <1>2
<1>5. now2[0] = Final
  BY <1>2
<1>6. \A j \in 0 .. n : j # n => now2[j] = now[j]
  OBVIOUS
<1>7. now2[n] = last /\ es2[n] = more /\ keys2[n] = key
  BY <1>2
<1>8. \A j \in 1 .. n : j # n => es2[j] = es[j] /\ keys2[j] = keys[j]
  OBVIOUS
<1> HIDE DEF now2, es2, keys2
<1>9. ASSUME NEW j \in 1 .. n
      PROVE  es2[j] \in Seq(EntrySet(kinds[j]))
             /\ now2[j] = After(kinds[j], es2[j], keys2[j], now2[j - 1])
  <2>1. j - 1 \in 0 .. n /\ j - 1 # n /\ j \in 0 .. n
    BY <1>2
  <2>2. now2[j - 1] = now[j - 1]
    BY <1>6, <2>1
  <2>3. CASE j = n
    BY <2>2, <2>3, <1>7, <1>3, <1>a
  <2>4. CASE j # n
    BY <2>1, <2>2, <2>4, <1>6, <1>8, <1>2
  <2> QED
    BY <2>3, <2>4
<1>10. Levels(kinds, now2, es2, keys2)
  BY <1>4, <1>5, <1>9 DEF Levels, n
<1>11. now2[n - 1] = now[n - 1] /\ \A j \in 1 .. n - 1 : es2[j] = es[j] /\ keys2[j] = keys[j]
  BY <1>2, <1>6, <1>8
<1> QED
  <2>1. Relevels(kinds, now, es, keys, more, key, now2, es2, keys2)
    BY <1>7, <1>10, <1>11, <1>a DEF n, Relevels
  <2> QED
    BY <2>1

(* Where the containers around the innermost one are on the stack. *)
LEMMA Outside ==
  ASSUME NEW kinds, Len(kinds) \in Nat, Len(kinds) > 0, NEW top, Heights(kinds, top)
  PROVE  /\ top[Len(kinds) - 1] \in Nat /\ Len(kinds) \in 1 .. Len(kinds)
         /\ top[Len(kinds)] = top[Len(kinds) - 1] + Width(kinds[Len(kinds)])
         /\ \A j \in 1 .. Len(kinds) - 1 :
              /\ j \in 1 .. Len(kinds) /\ j < Len(kinds)
              /\ top[j - 1] + 1 \in 1 .. top[Len(kinds) - 1]
              /\ top[j] \in 1 .. top[Len(kinds) - 1]
<1> DEFINE n == Len(kinds)
<1>1. /\ n \in Nat /\ n > 0 /\ top \in [0 .. n -> Nat]
      /\ \A j \in 1 .. n : top[j] = top[j - 1] + Width(kinds[j])
      /\ \A i, j \in 0 .. n : i <= j => top[i] <= top[j]
  BY DEF Heights
<1> HIDE DEF n
<1>2. n - 1 \in 0 .. n /\ n \in 1 .. n
  BY <1>1
<1>3. top[n - 1] \in Nat
  BY <1>1, <1>2
<1>4. ASSUME NEW j \in 1 .. n - 1
      PROVE  /\ j \in 1 .. n /\ j < n
             /\ top[j - 1] + 1 \in 1 .. top[n - 1] /\ top[j] \in 1 .. top[n - 1]
  <2>1. j \in 1 .. n /\ j < n /\ j - 1 \in 0 .. n /\ j \in 0 .. n /\ j <= n - 1
    BY <1>1
  <2>2. top[j] <= top[n - 1] /\ top[j - 1] \in Nat /\ top[j] \in Nat
    BY <1>1, <1>2, <2>1
  <2>3. top[j] = top[j - 1] + Width(kinds[j]) /\ Width(kinds[j]) \in {1, 2}
    BY <1>1, <2>1 DEF Width
  <2> QED
    BY <2>1, <2>2, <2>3, <1>3
<1> QED
  BY <1>1, <1>2, <1>3, <1>4 DEF n

LEMMA KeyPushed ==
  ASSUME NEW kinds, NEW stk, NEW now, NEW es, NEW keys, NEW top,
         Shape("key", kinds, stk, now, es, keys, top), NEW text \in Texts,
         NEW v, v = Value("string", {text})
  PROVE  LET n == Len(kinds)
         IN  \E now2, es2, keys2 :
               /\ Shape("colon", kinds, Append(stk, v), now2, es2, keys2, top)
               /\ now2[n] = After("object", es[n], text, now[n - 1])
<1> DEFINE n == Len(kinds)
           more == Append(stk, v)
<1>1. /\ n \in Nat /\ n > 0 /\ kinds[n] = "object" /\ Len(stk) = top[n - 1] + 1
      /\ es[n] \in Seq(EntrySet(kinds[n]))
  BY ShapeFacts DEF Shape, AtPlace
<1>2. Levels(kinds, now, es, keys) /\ Heights(kinds, top) /\ kinds \in Seq(Kinds)
  BY DEF Shape
<1>3. PICK now2, es2, keys2 : Relevels(kinds, now, es, keys, es[n], text, now2, es2, keys2)
  BY <1>1, <1>2, Releveled
<1>a. /\ Levels(kinds, now2, es2, keys2)
      /\ now2[n] = After(kinds[n], es[n], text, now[n - 1])
      /\ es2[n] = es[n] /\ keys2[n] = text
      /\ \A j \in 1 .. n - 1 : es2[j] = es[j] /\ keys2[j] = keys[j]
  BY <1>3 DEF Relevels
<1>4. /\ IsSeq(more) /\ Len(more) = Len(stk) + 1 /\ more[Len(stk) + 1] = v
      /\ \A i \in 1 .. Len(stk) : more[i] = stk[i]
  BY Appended DEF Shape
<1> HIDE DEF more
<1>5. Held(kinds, top, es, keys, more, "key" \in {"value", "colon", "store"})
  BY <1>4, HeldBelow
<1>6. top[n - 1] \in Nat /\ top[n] = top[n - 1] + 2
  BY <1>1, <1>2, Outside DEF Width
<1>7. more[top[n]] = v /\ Len(more) = top[n]
  BY <1>1, <1>4, <1>6
<1>8. ASSUME NEW j \in 1 .. n
      PROVE  /\ more[top[j - 1] + 1] = Container(kinds[j], es2[j])
             /\ kinds[j] = "object" =>
                  keys2[j] \in Texts /\ more[top[j]] = Value("string", {keys2[j]})
  <2>1. j = n \/ (j \in 1 .. n - 1 /\ j < n)
    BY <1>1
  <2>2. more[top[j - 1] + 1] = Container(kinds[j], es[j]) /\ es2[j] = es[j]
    BY <1>a, <1>5, <2>1 DEF Held
  <2>3. CASE j = n
    BY <2>2, <2>3, <1>a, <1>7
  <2>4. CASE j \in 1 .. n - 1 /\ j < n
    BY <2>2, <2>4, <1>a, <1>5 DEF Held
  <2> QED
    BY <2>1, <2>3, <2>4
<1>9. Held(kinds, top, es2, keys2, more, "colon" \in {"value", "colon", "store"})
  BY <1>8 DEF Held
<1>10. AtPlace("colon", kinds, more, es2, top)
  BY <1>1, <1>7 DEF AtPlace, Reading
<1>11. Shape("colon", kinds, more, now2, es2, keys2, top)
  BY <1>2, <1>a, <1>4, <1>9, <1>10 DEF Shape
<1> QED
  BY <1>1, <1>a, <1>11 DEF more

LEMMA Closed ==
  ASSUME NEW p \in {"first", "comma"},
         NEW kinds, NEW stk, NEW now, NEW es, NEW keys, NEW top,
         Shape(p, kinds, stk, now, es, keys, top)
  PROVE  LET n == Len(kinds)
         IN  /\ \E now2, top2 :
                  /\ Shape("store", Without(kinds, 1), stk, now2, es, keys, top2)
                  /\ now2[Len(Without(kinds, 1))] = now[n - 1]
             /\ LastOf(stk) = Container(kinds[n], es[n])
<1> DEFINE n == Len(kinds)
           m == n - 1
           rest == Without(kinds, 1)
           now2 == [j \in 0 .. m |-> now[j]]
           top2 == [j \in 0 .. m |-> top[j]]
<1>1. /\ n \in Nat /\ n > 0 /\ m \in Nat /\ m \in 0 .. n /\ Len(stk) = top[m] + 1
      /\ kinds[n] \in Kinds /\ es[n] \in Seq(EntrySet(kinds[n]))
  BY ShapeFacts DEF Shape, AtPlace
<1>2. Levels(kinds, now, es, keys) /\ Heights(kinds, top) /\ kinds \in Seq(Kinds)
      /\ IsSeq(kinds) /\ IsSeq(stk) /\ Held(kinds, top, es, keys, stk, FALSE)
  BY ShapeFacts DEF Shape, Held
<1>3. Len(rest) = m /\ \A i \in 1 .. m : rest[i] = kinds[i]
  BY <1>1, <1>2, Shortened
<1>4. rest \in Seq(Kinds)
  BY <1>1, <1>2 DEF Without
<1>5. LastOf(stk) = Container(kinds[n], es[n])
  <2>1. n \in 1 .. n
    BY <1>1
  <2>2. stk[top[n - 1] + 1] = Container(kinds[n], es[n])
    BY <2>1, <1>2 DEF Held
  <2> QED
    BY <2>2, <1>1 DEF LastOf
<1>6. LastOf(stk) \in JsonValues
  BY <1>1, <1>5, ContainersAreValues
<1>7. \A j \in 1 .. m : j \in 1 .. n /\ j < n /\ j - 1 \in 0 .. m /\ j \in 0 .. m
  BY <1>1
<1>8. \A j \in 0 .. m : j \in 0 .. n /\ now2[j] = now[j] /\ top2[j] = top[j]
  BY <1>1
<1>9. 0 \in 0 .. m /\ m \in 0 .. m
  BY <1>1
<1>10. now2 \in [0 .. m -> SUBSET Outcomes] /\ top2 \in [0 .. m -> Nat]
  BY <1>2, <1>8 DEF Levels, Heights
<1> HIDE DEF now2, top2, rest, m
<1>11. Levels(rest, now2, es, keys)
  <2>1. now2[0] = Final
    BY <1>2, <1>8, <1>9 DEF Levels
  <2>2. ASSUME NEW j \in 1 .. m
        PROVE  es[j] \in Seq(EntrySet(rest[j]))
               /\ now2[j] = After(rest[j], es[j], keys[j], now2[j - 1])
    <3>1. rest[j] = kinds[j] /\ now2[j] = now[j] /\ now2[j - 1] = now[j - 1] /\ j \in 1 .. n
      BY <1>3, <1>7, <1>8
    <3> QED
      BY <3>1, <1>2 DEF Levels
  <2> QED
    BY <1>3, <1>10, <2>1, <2>2 DEF Levels
<1>12. Heights(rest, top2)
  <2>1. top2[0] = 1
    BY <1>2, <1>8, <1>9 DEF Heights
  <2>2. \A j \in 1 .. m : top2[j] = top2[j - 1] + Width(rest[j])
    BY <1>2, <1>3, <1>7, <1>8 DEF Heights
  <2>3. \A i, j \in 0 .. m : i <= j => top2[i] <= top2[j]
    BY <1>2, <1>8 DEF Heights
  <2> QED
    BY <1>3, <1>10, <2>1, <2>2, <2>3 DEF Heights
<1>13. Held(rest, top2, es, keys, stk, "store" \in {"value", "colon", "store"})
  <2>1. ASSUME NEW j \in 1 .. m
        PROVE  /\ stk[top2[j - 1] + 1] = Container(rest[j], es[j])
               /\ rest[j] = "object" =>
                    keys[j] \in Texts /\ stk[top2[j]] = Value("string", {keys[j]})
    <3>1. rest[j] = kinds[j] /\ top2[j] = top[j] /\ top2[j - 1] = top[j - 1]
          /\ j \in 1 .. n /\ j < n
      BY <1>3, <1>7, <1>8
    <3> QED
      BY <3>1, <1>2 DEF Held
  <2> QED
    BY <1>3, <2>1 DEF Held
<1>14. AtPlace("store", rest, stk, es, top2)
  BY <1>1, <1>3, <1>6, <1>8, <1>9 DEF AtPlace, Reading
<1>15. Shape("store", rest, stk, now2, es, keys, top2)
  BY <1>2, <1>4, <1>11, <1>12, <1>13, <1>14 DEF Shape
<1>16. now2[Len(rest)] = now[m]
  BY <1>3, <1>8, <1>9
<1> QED
  BY <1>5, <1>15, <1>16 DEF rest, m

LEMMA Entered ==
  ASSUME NEW kinds, NEW stk, NEW now, NEW es, NEW keys, NEW top,
         Shape("value", kinds, stk, now, es, keys, top), NEW kind \in Kinds
  PROVE  LET n == Len(kinds)
         IN  \E now2, es2, top2 :
               /\ Shape("first", Append(kinds, kind), Append(stk, Value(kind, {})),
                        now2, es2, keys, top2)
               /\ now2[n] = now[n]
<1> DEFINE n == Len(kinds)
           m == n + 1
           all == Append(kinds, kind)
           v == Value(kind, {})
           more == Append(stk, v)
           last == After(kind, <<>>, keys[m], now[n])
           now2 == [j \in 0 .. m |-> IF j = m THEN last ELSE now[j]]
           es2 == [j \in 1 .. m |-> IF j = m THEN <<>> ELSE es[j]]
           top2 == [j \in 0 .. m |-> IF j = m THEN top[n] + Width(kind) ELSE top[j]]
<1>1. n \in Nat /\ m \in Nat /\ n \in 0 .. n /\ top[n] \in Nat /\ Len(stk) = top[n]
  BY ShapeFacts DEF Shape, AtPlace
<1>2. Levels(kinds, now, es, keys) /\ Heights(kinds, top) /\ kinds \in Seq(Kinds)
      /\ IsSeq(kinds) /\ IsSeq(stk)
  BY ShapeFacts DEF Shape
<1>3. all \in Seq(Kinds) /\ Len(all) = m /\ all[m] = kind
      /\ \A i \in 1 .. n : all[i] = kinds[i]
  BY <1>1, <1>2
<1>4. /\ IsSeq(more) /\ Len(more) = top[n] + 1 /\ more[top[n] + 1] = v
      /\ \A i \in 1 .. Len(stk) : more[i] = stk[i]
  BY <1>1, <1>2, Appended
<1>5. v = Container(kind, <<>>)
  BY EmptyContainer
<1>6. last \in SUBSET Outcomes /\ Width(kind) \in {1, 2}
  BY DEF After, Width
<1>7. <<>> \in Seq(EntrySet(kind))
  OBVIOUS
<1> HIDE DEF all, more, v
<1>8. Held(kinds, top, es, keys, more, TRUE)
  <2>1. Held(kinds, top, es, keys, more, "value" \in {"value", "colon", "store"})
    BY <1>4, HeldBelow
  <2> QED
    BY <2>1 DEF Held
<1>a. last = After(kind, <<>>, keys[m], now[n])
  OBVIOUS
<1>b. m = n + 1
  OBVIOUS
<1> HIDE DEF last, m
<1>9. \A j \in 0 .. m : j # m => j \in 0 .. n /\ now2[j] = now[j] /\ top2[j] = top[j]
  BY <1>1, <1>b
<1>10. \A j \in 1 .. m : j # m => j \in 1 .. n /\ es2[j] = es[j]
  BY <1>1, <1>b
<1>11. now2[m] = last /\ es2[m] = <<>> /\ top2[m] = top[n] + Width(kind)
  BY <1>1, <1>b
<1>12. now2 \in [0 .. m -> SUBSET Outcomes] /\ top2 \in [0 .. m -> Nat]
  <2>1. \A j \in 0 .. n : now[j] \in SUBSET Outcomes /\ top[j] \in Nat
    BY <1>2 DEF Levels, Heights
  <2>2. top[n] + Width(kind) \in Nat
    BY <1>1, <1>6
  <2>3. \A j \in 0 .. m : now2[j] \in SUBSET Outcomes /\ top2[j] \in Nat
    BY <2>1, <2>2, <1>6, <1>9, <1>11
  <2> QED
    BY <2>3
<1>13. \A j \in 1 .. m : j - 1 \in 0 .. m /\ j - 1 # m /\ j \in 0 .. m
  BY <1>1, <1>b
<1>14. 0 \in 0 .. m /\ 0 # m /\ n \in 0 .. m /\ n # m /\ m - 1 = n /\ m \in 1 .. m /\ m > 0
       /\ m \in 0 .. m
  BY <1>1, <1>b
<1> HIDE DEF now2, es2, top2, n
<1>15. Levels(all, now2, es2, keys)
  <2>1. now2[0] = Final
    BY <1>2, <1>9, <1>14 DEF Levels
  <2>2. ASSUME NEW j \in 1 .. m
        PROVE  es2[j] \in Seq(EntrySet(all[j]))
               /\ now2[j] = After(all[j], es2[j], keys[j], now2[j - 1])
    <3>1. now2[j - 1] = now[j - 1]
      BY <1>9, <1>13
    <3>2. CASE j = m
      BY <3>1, <3>2, <1>3, <1>7, <1>11, <1>14, <1>a
    <3>3. CASE j # m
      <4>1. j \in 1 .. n /\ es2[j] = es[j] /\ now2[j] = now[j] /\ all[j] = kinds[j]
        BY <3>3, <1>3, <1>9, <1>10, <1>13
      <4> QED
        BY <4>1, <3>1, <1>2 DEF Levels, n
    <3> QED
      BY <3>2, <3>3
  <2> QED
    BY <1>3, <1>12, <2>1, <2>2 DEF Levels
<1>16. Heights(all, top2)
  <2>1. top2[0] = 1
    BY <1>2, <1>9, <1>14 DEF Heights
  <2>2. ASSUME NEW j \in 1 .. m
        PROVE  top2[j] = top2[j - 1] + Width(all[j])
    <3>1. top2[j - 1] = top[j - 1]
      BY <1>9, <1>13
    <3>2. CASE j = m
      BY <3>1, <3>2, <1>3, <1>11, <1>14
    <3>3. CASE j # m
      <4>1. j \in 1 .. n /\ top2[j] = top[j] /\ all[j] = kinds[j]
        BY <3>3, <1>3, <1>9, <1>10, <1>13
      <4> QED
        BY <4>1, <3>1, <1>2 DEF Heights, n
    <3> QED
      BY <3>2, <3>3
  <2>3. ASSUME NEW i \in 0 .. m, NEW j \in 0 .. m, i <= j
        PROVE  top2[i] <= top2[j]
    <3>1. CASE j # m
      <4>1. i # m
        BY <2>3, <3>1, <1>1, <1>b DEF n
      <4>2. i \in 0 .. n /\ j \in 0 .. n /\ top2[i] = top[i] /\ top2[j] = top[j]
        BY <4>1, <3>1, <1>9
      <4> QED
        BY <2>3, <4>2, <1>2 DEF Heights, n
    <3>2. CASE j = m /\ i # m
      <4>1. i \in 0 .. n /\ top2[i] = top[i] /\ i <= n
        BY <3>2, <1>1, <1>9 DEF n
      <4>2. top[i] <= top[n] /\ top[i] \in Nat
        BY <4>1, <1>1, <1>2 DEF Heights, n
      <4> QED
        BY <4>1, <4>2, <3>2, <1>1, <1>6, <1>11
    <3>3. CASE j = m /\ i = m
      BY <3>3, <1>12
    <3> QED
      BY <3>1, <3>2, <3>3
  <2> QED
    BY <1>3, <1>12, <2>1, <2>2, <2>3 DEF Heights
<1>17. Held(all, top2, es2, keys, more, "first" \in {"value", "colon", "store"})
  <2>1. ASSUME NEW j \in 1 .. m
        PROVE  /\ more[top2[j - 1] + 1] = Container(all[j], es2[j])
               /\ all[j] = "object" /\ j < m =>
                    keys[j] \in Texts /\ more[top2[j]] = Value("string", {keys[j]})
    <3>1. top2[j - 1] = top[j - 1]
      BY <1>9, <1>13
    <3>2. CASE j = m
      <4>1. more[top2[j - 1] + 1] = Container(all[j], es2[j])
        BY <3>1, <3>2, <1>3, <1>4, <1>5, <1>11, <1>14
      <4>2. ~(j < m)
        BY <3>2, <1>1
      <4> QED
        BY <4>1, <4>2
    <3>3. CASE j # m
      <4>1. j \in 1 .. n /\ top2[j] = top[j] /\ all[j] = kinds[j] /\ es2[j] = es[j]
        BY <3>3, <1>3, <1>9, <1>10, <1>13
      <4> QED
        BY <4>1, <3>1, <1>8 DEF Held, n
    <3> QED
      BY <3>2, <3>3
  <2> QED
    BY <1>3, <2>1 DEF Held
<1>18. AtPlace("first", all, more, es2, top2)
  BY <1>3, <1>4, <1>9, <1>11, <1>14 DEF AtPlace, Reading
<1>19. Shape("first", all, more, now2, es2, keys, top2)
  BY <1>3, <1>4, <1>15, <1>16, <1>17, <1>18 DEF Shape
<1>20. now2[n] = now[n]
  BY <1>9, <1>14
<1> QED
  BY <1>19, <1>20 DEF all, more, v, n

(* The stack when the value on top is an entry of the innermost container. *)
Gains(kinds, now, es, top, more, e) ==
  LET n == Len(kinds)
  IN  \E now2, es2, keys2 :
        /\ Shape("comma", kinds, more, now2, es2, keys2, top)
        /\ es2[n] = Append(es[n], e) /\ now2[n - 1] = now[n - 1]

LEMMA Gathered ==
  ASSUME NEW kinds, NEW stk, NEW now, NEW es, NEW keys, NEW top,
         Shape("store", kinds, stk, now, es, keys, top), Len(kinds) > 0,
         NEW e \in EntrySet(LastOf(kinds)), NEW more, IsSeq(more),
         Len(more) = top[Len(kinds) - 1] + 1,
         \A i \in 1 .. top[Len(kinds) - 1] : more[i] = stk[i],
         LastOf(more) = Container(LastOf(kinds), Append(es[Len(kinds)], e))
  PROVE  Gains(kinds, now, es, top, more, e)
<1> DEFINE n == Len(kinds)
           fs == Append(es[n], e)
<1>1. n \in Nat /\ n > 0 /\ LastOf(kinds) = kinds[n]
      /\ es[n] \in Seq(EntrySet(kinds[n])) /\ fs \in Seq(EntrySet(kinds[n]))
  BY ShapeFacts
<1>2. Levels(kinds, now, es, keys) /\ Heights(kinds, top) /\ kinds \in Seq(Kinds)
      /\ Held(kinds, top, es, keys, stk, TRUE)
  BY DEF Shape, Held
<1> HIDE DEF fs
<1>3. PICK now2, es2, keys2 : Relevels(kinds, now, es, keys, fs, keys[n], now2, es2, keys2)
  BY <1>1, <1>2, Releveled
<1>4. /\ Levels(kinds, now2, es2, keys2) /\ es2[n] = fs /\ now2[n - 1] = now[n - 1]
      /\ \A j \in 1 .. n - 1 : es2[j] = es[j] /\ keys2[j] = keys[j]
  BY <1>3 DEF Relevels
<1>5. more[top[n - 1] + 1] = Container(kinds[n], fs)
  BY <1>1 DEF LastOf, fs
<1>6. ASSUME NEW j \in 1 .. n
      PROVE  /\ more[top[j - 1] + 1] = Container(kinds[j], es2[j])
             /\ kinds[j] = "object" /\ j < n =>
                  keys2[j] \in Texts /\ more[top[j]] = Value("string", {keys2[j]})
  <2>1. j = n \/ (j \in 1 .. n - 1 /\ j < n)
    BY <1>1
  <2>2. CASE j = n
    BY <2>2, <1>1, <1>4, <1>5
  <2>3. CASE j \in 1 .. n - 1 /\ j < n
    <3>1. top[j - 1] + 1 \in 1 .. top[n - 1] /\ top[j] \in 1 .. top[n - 1]
      BY <2>3, <1>1, <1>2, Outside
    <3>2. more[top[j - 1] + 1] = stk[top[j - 1] + 1] /\ more[top[j]] = stk[top[j]]
      BY <3>1
    <3>3. /\ stk[top[j - 1] + 1] = Container(kinds[j], es[j])
          /\ kinds[j] = "object" => keys[j] \in Texts /\ stk[top[j]] = Value("string", {keys[j]})
      BY <1>2 DEF Held
    <3> QED
      BY <2>3, <3>2, <3>3, <1>4
  <2> QED
    BY <2>1, <2>2, <2>3
<1>7. Held(kinds, top, es2, keys2, more, "comma" \in {"value", "colon", "store"})
  BY <1>6 DEF Held
<1>8. AtPlace("comma", kinds, more, es2, top)
  BY <1>1 DEF AtPlace, Reading
<1>9. Shape("comma", kinds, more, now2, es2, keys2, top)
  BY <1>2, <1>4, <1>7, <1>8 DEF Shape
<1> QED
  BY <1>4, <1>9 DEF fs, Gains

LEMMA ItemGathered ==
  ASSUME NEW kinds, NEW stk, NEW now, NEW es, NEW keys, NEW top,
         Shape("store", kinds, stk, now, es, keys, top), Len(kinds) > 0,
         LastOf(kinds) = "array"
  PROVE  LET n == Len(kinds)
             h == Len(stk)
             more == Replaced(Without(stk, 1),
                              Stored(stk[h - 1], Cardinality(stk[h - 1].of) + 1, stk[h]))
         IN  Gains(kinds, now, es, top, more, EntryOf("array", keys[n], LastOf(stk)))
<1> DEFINE n == Len(kinds)
           h == Len(stk)
           v == stk[h]
           c == Stored(stk[h - 1], Cardinality(stk[h - 1].of) + 1, stk[h])
           more == Replaced(Without(stk, 1), c)
<1>1. /\ n \in 1 .. n /\ kinds[n] = "array" /\ es[n] \in Seq(EntrySet("array"))
      /\ top[n - 1] \in Nat /\ h = top[n - 1] + 2
  <2>1. n \in Nat /\ n \in 1 .. n /\ kinds[n] = "array" /\ es[n] \in Seq(EntrySet("array"))
    BY ShapeFacts
  <2>2. top[n - 1] \in Nat /\ top[n] = top[n - 1] + 1
    BY <2>1, Outside DEF Shape, Width
  <2>3. h = top[n] + 1
    BY DEF Shape, AtPlace
  <2> QED
    BY <2>1, <2>2, <2>3
<1>2. v \in JsonValues /\ IsSeq(stk) /\ v = LastOf(stk)
  BY DEF Shape, AtPlace, LastOf
<1>3. stk[h - 1] = Container("array", es[n])
  <2>1. stk[top[n - 1] + 1] = Container(kinds[n], es[n])
    BY <1>1 DEF Shape, Held
  <2> QED
    BY <2>1, <1>1
<1>4. c = Container("array", Append(es[n], v))
  <2>1. IsSeq(es[n])
    BY <1>1, SeqIsSeq
  <2> QED
    BY <2>1, <1>3, StoredItem
<1>5. IsSeq(Without(stk, 1)) /\ Len(Without(stk, 1)) = h - 1
      /\ \A i \in 1 .. h - 1 : Without(stk, 1)[i] = stk[i]
  BY <1>1, <1>2, Shortened
<1>6. Without(stk, 1) # <<>>
  BY <1>1, <1>5
<1> HIDE DEF c
<1>7. IsSeq(more) /\ Len(more) = h - 1 /\ more[h - 1] = c
      /\ \A i \in 1 .. h - 2 : more[i] = Without(stk, 1)[i]
  BY <1>1, <1>5, <1>6, ReplacedLast
<1> HIDE DEF more
<1>8. /\ Len(more) = top[n - 1] + 1 /\ \A i \in 1 .. top[n - 1] : more[i] = stk[i]
      /\ LastOf(more) = c
  <2> HIDE DEF h, n
  <2>1. h - 2 = top[n - 1] /\ h - 1 = top[n - 1] + 1 /\ top[n - 1] \in Nat
    BY <1>1
  <2>2. \A i \in 1 .. top[n - 1] : i \in 1 .. h - 1
    BY <2>1
  <2>3. \A i \in 1 .. top[n - 1] : more[i] = stk[i]
    BY <2>1, <2>2, <1>5, <1>7
  <2> QED
    BY <2>1, <2>3, <1>7 DEF LastOf
<1>9. EntryOf("array", keys[n], v) = v /\ v \in EntrySet("array")
  BY <1>2 DEF EntryOf, EntrySet
<1>10. Gains(kinds, now, es, top, more, v)
  <2> HIDE DEF v
  <2> QED
    BY <1>1, <1>2, <1>4, <1>7, <1>8, <1>9, Gathered
<1> QED
  BY <1>2, <1>9, <1>10 DEF more, c

LEMMA MemberGathered ==
  ASSUME NEW kinds, NEW stk, NEW now, NEW es, NEW keys, NEW top,
         Shape("store", kinds, stk, now, es, keys, top), Len(kinds) > 0,
         LastOf(kinds) = "object", NEW text, text = CHOOSE u \in stk[Len(stk) - 1].of : TRUE
  PROVE  LET n == Len(kinds)
             h == Len(stk)
             more == Replaced(Without(stk, 2),
                              Stored(stk[h - 2], text, stk[h]))
         IN  Gains(kinds, now, es, top, more, EntryOf("object", keys[n], LastOf(stk)))
<1> DEFINE n == Len(kinds)
           h == Len(stk)
           v == stk[h]
           c == Stored(stk[h - 2], text, stk[h])
           more == Replaced(Without(stk, 2), c)
           e == <<keys[n], v>>
<1>1. /\ n \in 1 .. n /\ kinds[n] = "object" /\ es[n] \in Seq(EntrySet("object"))
      /\ top[n - 1] \in Nat /\ top[n] = top[n - 1] + 2 /\ h = top[n - 1] + 3
  <2>1. n \in Nat /\ n \in 1 .. n /\ kinds[n] = "object" /\ es[n] \in Seq(EntrySet("object"))
    BY ShapeFacts
  <2>2. top[n - 1] \in Nat /\ top[n] = top[n - 1] + 2
    BY <2>1, Outside DEF Shape, Width
  <2>3. h = top[n] + 1
    BY DEF Shape, AtPlace
  <2> QED
    BY <2>1, <2>2, <2>3
<1>2. v \in JsonValues /\ IsSeq(stk) /\ v = LastOf(stk)
  BY DEF Shape, AtPlace, LastOf
<1>3. /\ stk[h - 2] = Container("object", es[n])
      /\ keys[n] \in Texts /\ stk[h - 1] = Value("string", {keys[n]})
  <2>1. /\ stk[top[n - 1] + 1] = Container(kinds[n], es[n])
        /\ keys[n] \in Texts /\ stk[top[n]] = Value("string", {keys[n]})
    BY <1>1 DEF Shape, Held
  <2> QED
    BY <2>1, <1>1
<1>4. c = Container("object", Append(es[n], e))
  <2>1. IsSeq(es[n])
    BY <1>1, SeqIsSeq
  <2>2. text = keys[n]
    BY <1>3 DEF Value
  <2>3. c = Stored(Container("object", es[n]), keys[n], v)
    BY <2>2, <1>3
  <2> HIDE DEF c, v
  <2> QED
    BY <2>1, <2>3, StoredMember
<1>5. IsSeq(Without(stk, 2)) /\ Len(Without(stk, 2)) = h - 2
      /\ \A i \in 1 .. h - 2 : Without(stk, 2)[i] = stk[i]
  <2>1. 2 \in Nat /\ 2 <= Len(stk)
    BY <1>1
  <2> QED
    BY <2>1, <1>2, Shortened
<1>6. Without(stk, 2) # <<>>
  BY <1>1, <1>5
<1> HIDE DEF c
<1>7. IsSeq(more) /\ Len(more) = h - 2 /\ more[h - 2] = c
      /\ \A i \in 1 .. h - 3 : more[i] = Without(stk, 2)[i]
  BY <1>1, <1>5, <1>6, ReplacedLast
<1> HIDE DEF more
<1>8. /\ Len(more) = top[n - 1] + 1 /\ \A i \in 1 .. top[n - 1] : more[i] = stk[i]
      /\ LastOf(more) = c
  <2> HIDE DEF h, n
  <2>1. h - 3 = top[n - 1] /\ h - 2 = top[n - 1] + 1 /\ top[n - 1] \in Nat
    BY <1>1
  <2>2. \A i \in 1 .. top[n - 1] : i \in 1 .. h - 2
    BY <2>1
  <2>3. \A i \in 1 .. top[n - 1] : more[i] = stk[i]
    BY <2>1, <2>2, <1>5, <1>7
  <2> QED
    BY <2>1, <2>3, <1>7 DEF LastOf
<1>9. EntryOf("object", keys[n], v) = e /\ e \in EntrySet("object")
  BY <1>2, <1>3 DEF EntryOf, EntrySet
<1>10. Gains(kinds, now, es, top, more, e)
  <2> HIDE DEF v, e
  <2> QED
    BY <1>1, <1>2, <1>4, <1>7, <1>8, <1>9, Gathered
<1> QED
  BY <1>2, <1>9, <1>10 DEF more, c

LEMMA Started ==
  ASSUME NEW v
  PROVE  \E now, es, keys, top :
           Shape("value", <<>>, <<v>>, now, es, keys, top) /\ now[0] = Final
<1> DEFINE now == [j \in 0 .. 0 |-> Final]
           top == [j \in 0 .. 0 |-> 1]
<1>1. Len(<<>>) = 0 /\ <<>> \in Seq(Kinds) /\ Len(<<v>>) = 1
  OBVIOUS
<1>2. now[0] = Final /\ top[0] = 1 /\ Final \in SUBSET Outcomes
  BY DEF Final
<1>3. now \in [0 .. 0 -> SUBSET Outcomes] /\ top \in [0 .. 0 -> Nat]
  BY <1>2
<1>4. IsSeq(<<v>>)
  <2>1. <<v>> \in Seq({v})
    OBVIOUS
  <2> QED
    BY <2>1, SeqIsSeq
<1> HIDE DEF now, top
<1>5. Levels(<<>>, now, <<>>, <<>>) /\ Heights(<<>>, top)
  <2>1. \A i, j \in 0 .. 0 : top[i] <= top[j]
    BY <1>2
  <2> QED
    BY <2>1, <1>1, <1>2, <1>3 DEF Levels, Heights
<1>6. Held(<<>>, top, <<>>, <<>>, <<v>>, "value" \in {"value", "colon", "store"})
  BY <1>1 DEF Held
<1>7. AtPlace("value", <<>>, <<v>>, <<>>, top)
  BY <1>1, <1>2 DEF AtPlace, Reading
<1>8. Shape("value", <<>>, <<v>>, now, <<>>, <<>>, top)
  BY <1>1, <1>4, <1>5, <1>6, <1>7 DEF Shape
<1> QED
  BY <1>2, <1>8

(***************************************************************************)
(* What decode knows of the text it has read: the whole means r exactly if *)
(* the rest is what the place asks for.  Facing says so of the texts that  *)
(* go on with t; of a text that is refuted none goes on to a document.     *)
(***************************************************************************)
Means(p, kinds, stk, txt, now, es, keys, top) ==
  /\ Shape(p, kinds, stk, now, es, keys, top)
  /\ \A s \in Strings : \A r :
       IsDocument(Cat(txt, s), r) <=> Residue(p, kinds, stk, now, es, s, r)
MeansWith(p, kinds, stk, txt, t, now, es, keys, top) ==
  /\ Shape(p, kinds, stk, now, es, keys, top)
  /\ \A s \in Strings : \A r :
       IsDocument(Cat(txt, Cons1(t, s)), r) <=> Residue(p, kinds, stk, now, es, Cons1(t, s), r)
Understood(p, kinds, stk, txt) ==
  \E now, es, keys, top : Means(p, kinds, stk, txt, now, es, keys, top)
Facing(p, kinds, stk, txt, t) ==
  \E now, es, keys, top : MeansWith(p, kinds, stk, txt, t, now, es, keys, top)
Refuted(txt) == \A s \in Strings : \A r : ~IsDocument(Cat(txt, s), r)

LEMMA OneRead ==
  ASSUME NEW txt \in Strings, NEW t \in Tokens, NEW s \in Strings
  PROVE  Cat(Append(txt, t), s) = Cat(txt, Cons1(t, s)) /\ Append(txt, t) \in Strings
         /\ Cons1(t, s) \in Strings
<1>1. Append(txt, t) = Cat(txt, Cons1(t, <<>>)) /\ Append(txt, t) \in Strings
      /\ Cons1(t, <<>>) \in Strings
  BY Concats DEF Cat, Cons1, Strings
<1>2. Cat(Cat(txt, Cons1(t, <<>>)), s) = Cat(txt, Cat(Cons1(t, <<>>), s))
  BY <1>1, CatAssociative
<1>3. Cat(Cons1(t, <<>>), s) = Cons1(t, Cat(<<>>, s)) /\ Cat(<<>>, s) = s
  BY CatFacts
<1>4. Cons1(t, s) \in Strings
  BY CatFacts
<1> QED
  BY <1>1, <1>2, <1>3, <1>4

LEMMA Faced ==
  ASSUME NEW p, NEW kinds, NEW stk, NEW txt \in Strings, NEW t \in Tokens,
         Understood(p, kinds, stk, txt)
  PROVE  Facing(p, kinds, stk, txt, t)
<1>1. PICK now, es, keys, top : Means(p, kinds, stk, txt, now, es, keys, top)
  BY DEF Understood
<1>2. \A s \in Strings : Cons1(t, s) \in Strings
  BY CatFacts
<1>3. MeansWith(p, kinds, stk, txt, t, now, es, keys, top)
  BY <1>1, <1>2 DEF Means, MeansWith
<1> QED
  BY <1>3 DEF Facing

(* One token further, and refuted. *)
LEMMA Follows ==
  ASSUME NEW p, NEW kinds, NEW stk, NEW txt \in Strings, NEW t \in Tokens,
         NEW now, NEW es, NEW keys, NEW top,
         MeansWith(p, kinds, stk, txt, t, now, es, keys, top),
         NEW q, NEW kinds2, NEW stk2, NEW now2, NEW es2, NEW keys2, NEW top2,
         Shape(q, kinds2, stk2, now2, es2, keys2, top2),
         \A s \in Strings : \A r :
           Residue(p, kinds, stk, now, es, Cons1(t, s), r)
             <=> Residue(q, kinds2, stk2, now2, es2, s, r)
  PROVE  Understood(q, kinds2, stk2, Append(txt, t))
<1>1. Means(q, kinds2, stk2, Append(txt, t), now2, es2, keys2, top2)
  <2>1. ASSUME NEW s \in Strings, NEW r
        PROVE  IsDocument(Cat(Append(txt, t), s), r)
                 <=> Residue(q, kinds2, stk2, now2, es2, s, r)
    <3>1. Cat(Append(txt, t), s) = Cat(txt, Cons1(t, s))
      BY OneRead
    <3> QED
      BY <3>1 DEF MeansWith
  <2> QED
    BY <2>1 DEF Means
<1> QED
  BY <1>1 DEF Understood

LEMMA Refutes ==
  ASSUME NEW p, NEW kinds, NEW stk, NEW txt \in Strings, NEW t \in Tokens,
         NEW now, NEW es, NEW keys, NEW top,
         MeansWith(p, kinds, stk, txt, t, now, es, keys, top),
         \A s \in Strings : \A r : ~Residue(p, kinds, stk, now, es, Cons1(t, s), r)
  PROVE  Refuted(Append(txt, t))
<1>1. ASSUME NEW s \in Strings, NEW r
      PROVE  ~IsDocument(Cat(Append(txt, t), s), r)
  <2>1. Cat(Append(txt, t), s) = Cat(txt, Cons1(t, s))
    BY OneRead
  <2> QED
    BY <2>1 DEF MeansWith
<1> QED
  BY <1>1 DEF Refuted

LEMMA ReadAsValue ==
  ASSUME NEW kinds, NEW stk, NEW txt \in Strings, NEW t \in Tokens,
         Facing("value", kinds, stk, txt, t)
  PROVE  /\ t = Token("T_NULL") =>
              Understood("store", kinds, Append(stk, Value("null", {})), Append(txt, t))
         /\ \A text \in Texts : t = StringToken(text) =>
              Understood("store", kinds, Append(stk, Value("string", {text})), Append(txt, t))
         /\ \A kind \in Kinds : t = Opening(kind) =>
              Understood("first", Append(kinds, kind), Append(stk, Value(kind, {})), Append(txt, t))
         /\ \/ t = Token("T_NULL")
            \/ \E text \in Texts : t = StringToken(text)
            \/ \E kind \in Kinds : t = Opening(kind)
            \/ Refuted(Append(txt, t))
<1>1. PICK now, es, keys, top :
        MeansWith("value", kinds, stk, txt, t, now, es, keys, top)
  BY DEF Facing
<1> DEFINE n == Len(kinds)
           Here(s, r) == Residue("value", kinds, stk, now, es, s, r)
<1>2. Shape("value", kinds, stk, now, es, keys, top)
  BY <1>1 DEF MeansWith
<1>3. n \in 0 .. n /\ now[n] \in SUBSET Outcomes /\ n \in Nat /\ kinds \in Seq(Kinds)
  BY <1>2, ShapeFacts DEF Shape
<1>4. ASSUME NEW s \in Strings, NEW r
      PROVE  Here(Cons1(t, s), r) <=>
               \/ t = Token("T_NULL") /\ <<Value("null", {}), s, r>> \in now[n]
               \/ \E text \in Texts :
                    t = StringToken(text) /\ <<Value("string", {text}), s, r>> \in now[n]
               \/ \E kind \in Kinds : t = Opening(kind) /\ ThenStarts(kind, now[n], s, r)
  <2>1. Here(Cons1(t, s), r) <=> ThenValue(now[n], Cons1(t, s), r)
    BY DEF Residue
  <2> QED
    BY <2>1, <1>3, ValueMeans
<1>5. ASSUME NEW v \in JsonValues,
             \A s \in Strings : \A r : Here(Cons1(t, s), r) <=> <<v, s, r>> \in now[n]
      PROVE  Understood("store", kinds, Append(stk, v), Append(txt, t))
  <2>1. Shape("store", kinds, Append(stk, v), now, es, keys, top) /\ LastOf(Append(stk, v)) = v
    BY <1>2, ValuePushed
  <2>2. \A s \in Strings : \A r :
          Here(Cons1(t, s), r) <=> Residue("store", kinds, Append(stk, v), now, es, s, r)
    BY <2>1, <1>5 DEF Residue
  <2> QED
    BY <2>1, <2>2, <1>1, Follows
<1>6. ASSUME t = Token("T_NULL")
      PROVE  Understood("store", kinds, Append(stk, Value("null", {})), Append(txt, t))
  <2>1. \A s \in Strings : \A r :
          Here(Cons1(t, s), r) <=> <<Value("null", {}), s, r>> \in now[n]
    BY <1>4, <1>6, TokensDiffer
  <2> QED
    BY <2>1, <1>5, ScalarsAreValues
<1>7. ASSUME NEW text \in Texts, t = StringToken(text)
      PROVE  Understood("store", kinds, Append(stk, Value("string", {text})), Append(txt, t))
  <2>1. \A other \in Texts : t = StringToken(other) => other = text
    BY <1>7 DEF StringToken
  <2>2. \A s \in Strings : \A r :
          Here(Cons1(t, s), r) <=> <<Value("string", {text}), s, r>> \in now[n]
    BY <2>1, <1>4, <1>7, TokensDiffer
  <2> QED
    BY <2>2, <1>5, ScalarsAreValues
<1>8. ASSUME NEW kind \in Kinds, t = Opening(kind)
      PROVE  Understood("first", Append(kinds, kind), Append(stk, Value(kind, {})), Append(txt, t))
  <2>1. PICK now2, es2, top2 :
          /\ Shape("first", Append(kinds, kind), Append(stk, Value(kind, {})),
                   now2, es2, keys, top2)
          /\ now2[n] = now[n]
    BY <1>2, Entered
  <2>2. Append(kinds, kind)[n + 1] = kind /\ Len(Append(kinds, kind)) = n + 1 /\ (n + 1) - 1 = n
    BY <1>3
  <2>3. \A s \in Strings : \A r : Here(Cons1(t, s), r) <=> ThenStarts(kind, now[n], s, r)
    BY <1>4, <1>8, TokensDiffer
  <2>4. \A s \in Strings : \A r :
          Here(Cons1(t, s), r)
            <=> Residue("first", Append(kinds, kind), Append(stk, Value(kind, {})), now2, es2, s, r)
    BY <2>1, <2>2, <2>3 DEF Residue
  <2> QED
    BY <2>1, <2>4, <1>1, Follows
<1>9. ASSUME t # Token("T_NULL"), \A text \in Texts : t # StringToken(text),
             \A kind \in Kinds : t # Opening(kind)
      PROVE  Refuted(Append(txt, t))
  <2>1. \A s \in Strings : \A r : ~Here(Cons1(t, s), r)
    BY <1>4, <1>9
  <2> QED
    BY <2>1, <1>1, Refutes
<1> QED
  BY <1>6, <1>7, <1>8, <1>9

LEMMA ReadAsKey ==
  ASSUME NEW kinds, NEW stk, NEW txt \in Strings, NEW t \in Tokens,
         Facing("key", kinds, stk, txt, t)
  PROVE  /\ \A text \in Texts : t = StringToken(text) =>
              Understood("colon", kinds, Append(stk, Value("string", {text})), Append(txt, t))
         /\ \/ \E text \in Texts : t = StringToken(text)
            \/ Refuted(Append(txt, t))
<1>1. PICK now, es, keys, top :
        MeansWith("key", kinds, stk, txt, t, now, es, keys, top)
  BY DEF Facing
<1> DEFINE n == Len(kinds)
           Here(s, r) == Residue("key", kinds, stk, now, es, s, r)
<1>2. Shape("key", kinds, stk, now, es, keys, top)
  BY <1>1 DEF MeansWith
<1>3. /\ n \in Nat /\ n > 0 /\ kinds[n] = "object" /\ es[n] \in Seq(EntrySet("object"))
      /\ now[n - 1] \in SUBSET Outcomes
  <2>1. n \in Nat /\ n > 0 /\ kinds[n] = "object"
    BY <1>2, ShapeFacts DEF Shape, AtPlace
  <2>2. n - 1 \in 0 .. n
    BY <2>1
  <2> QED
    BY <2>1, <2>2, <1>2, ShapeFacts
<1>4. ASSUME NEW s \in Strings, NEW r
      PROVE  Here(Cons1(t, s), r) <=>
               \E text \in Texts :
                 t = StringToken(text) /\ ThenColon(After("object", es[n], text, now[n - 1]), s, r)
  <2>1. Here(Cons1(t, s), r) <=> ThenMore("object", es[n], now[n - 1], Cons1(t, s), r)
    BY <1>3 DEF Residue
  <2> QED
    BY <2>1, <1>3, ObjectMeans
<1>5. ASSUME NEW text \in Texts, t = StringToken(text)
      PROVE  Understood("colon", kinds, Append(stk, Value("string", {text})), Append(txt, t))
  <2>1. PICK now2, es2, keys2 :
          /\ Shape("colon", kinds, Append(stk, Value("string", {text})), now2, es2, keys2, top)
          /\ now2[n] = After("object", es[n], text, now[n - 1])
    <3> DEFINE v == Value("string", {text})
    <3>1. \E now2, es2, keys2 :
            /\ Shape("colon", kinds, Append(stk, v), now2, es2, keys2, top)
            /\ now2[n] = After("object", es[n], text, now[n - 1])
      <4>1. v = Value("string", {text})
        OBVIOUS
      <4> HIDE DEF v
      <4> QED
        BY <4>1, <1>2, KeyPushed
    <3> QED
      BY <3>1
  <2>2. \A other \in Texts : t = StringToken(other) => other = text
    BY <1>5 DEF StringToken
  <2>3. \A s \in Strings : \A r : Here(Cons1(t, s), r) <=> ThenColon(now2[n], s, r)
    BY <2>1, <2>2, <1>4, <1>5
  <2>4. \A s \in Strings : \A r :
          Here(Cons1(t, s), r)
            <=> Residue("colon", kinds, Append(stk, Value("string", {text})), now2, es2, s, r)
    BY <2>3 DEF Residue
  <2> QED
    BY <2>1, <2>4, <1>1, Follows
<1>6. ASSUME \A text \in Texts : t # StringToken(text)
      PROVE  Refuted(Append(txt, t))
  <2>1. \A s \in Strings : \A r : ~Here(Cons1(t, s), r)
    BY <1>4, <1>6
  <2> QED
    BY <2>1, <1>1, Refutes
<1> QED
  BY <1>5, <1>6

LEMMA ReadAsColon ==
  ASSUME NEW kinds, NEW stk, NEW txt \in Strings, NEW t \in Tokens,
         Facing("colon", kinds, stk, txt, t)
  PROVE  IF t = Token("T_COLON") THEN Understood("value", kinds, stk, Append(txt, t))
         ELSE Refuted(Append(txt, t))
<1>1. PICK now, es, keys, top :
        MeansWith("colon", kinds, stk, txt, t, now, es, keys, top)
  BY DEF Facing
<1>2. Shape("colon", kinds, stk, now, es, keys, top)
  BY <1>1 DEF MeansWith
<1>3. Shape("value", kinds, stk, now, es, keys, top)
  BY <1>2, ColonRead
<1>4. ASSUME NEW s \in Strings, NEW r
      PROVE  Residue("colon", kinds, stk, now, es, Cons1(t, s), r)
               <=> t = Token("T_COLON") /\ Residue("value", kinds, stk, now, es, s, r)
  <2>1. ThenColon(now[Len(kinds)], Cons1(t, s), r)
          <=> t = Token("T_COLON") /\ ThenValue(now[Len(kinds)], s, r)
    BY ColonMeans
  <2> QED
    BY <2>1 DEF Residue
<1>5. CASE t = Token("T_COLON")
  <2>1. \A s \in Strings : \A r : Residue("colon", kinds, stk, now, es, Cons1(t, s), r)
                                    <=> Residue("value", kinds, stk, now, es, s, r)
    BY <1>4, <1>5
  <2>2. Understood("value", kinds, stk, Append(txt, t))
    BY <2>1, <1>1, <1>3, Follows
  <2> QED
    BY <2>2, <1>5
<1>6. CASE t # Token("T_COLON")
  <2>1. \A s \in Strings : \A r : ~Residue("colon", kinds, stk, now, es, Cons1(t, s), r)
    BY <1>4, <1>6
  <2>2. Refuted(Append(txt, t))
    BY <2>1, <1>1, Refutes
  <2> QED
    BY <2>2, <1>6
<1> QED
  BY <1>5, <1>6

(* Where more entries have to follow. *)
LEMMA MoreIsNext ==
  ASSUME NEW p \in {"first", "comma"},
         NEW kinds, NEW stk, NEW now, NEW es, NEW keys, NEW top,
         Shape(p, kinds, stk, now, es, keys, top), NEW s \in Strings, NEW r
  PROVE  LET n == Len(kinds)
             q == IF LastOf(kinds) = "object" THEN "key" ELSE "value"
         IN  /\ Shape(q, kinds, stk, now, es, keys, top)
             /\ ThenMore(LastOf(kinds), es[n], now[n - 1], s, r)
                  <=> Residue(q, kinds, stk, now, es, s, r)
<1> DEFINE n == Len(kinds)
           q == IF LastOf(kinds) = "object" THEN "key" ELSE "value"
<1>1. Shape(q, kinds, stk, now, es, keys, top)
  BY NextPlace
<1>2. /\ n \in Nat /\ n > 0 /\ LastOf(kinds) = kinds[n] /\ LastOf(kinds) \in {"array", "object"}
      /\ es[n] \in Seq(EntrySet(LastOf(kinds)))
      /\ now[n] = After(LastOf(kinds), es[n], keys[n], now[n - 1])
      /\ now[n - 1] \in SUBSET Outcomes
  <2>1. n > 0 /\ n \in Nat
    BY ShapeFacts DEF Shape, AtPlace
  <2>2. n - 1 \in 0 .. n
    BY <2>1
  <2> QED
    BY <2>1, <2>2, ShapeFacts DEF Kinds
<1>3. CASE LastOf(kinds) = "object"
  <2>1. ThenMore(LastOf(kinds), es[n], now[n - 1], s, r)
          <=> Residue("key", kinds, stk, now, es, s, r)
    BY <1>2 DEF Residue
  <2> QED
    BY <2>1, <1>1, <1>3
<1>4. CASE LastOf(kinds) = "array"
  <2>1. es[n] \in Seq(EntrySet("array")) /\ now[n] = After("array", es[n], keys[n], now[n - 1])
    BY <1>2, <1>4
  <2>2. ThenMore("array", es[n], now[n - 1], s, r) <=> ThenValue(now[n], s, r)
    BY <2>1, <1>2, ArrayMeans
  <2>3. ThenValue(now[n], s, r) <=> Residue("value", kinds, stk, now, es, s, r)
    BY DEF Residue
  <2> QED
    BY <2>2, <2>3, <1>1, <1>4
<1> QED
  BY <1>2, <1>3, <1>4

(* A container that ends is the value to store. *)
LEMMA ReadAsEnd ==
  ASSUME NEW p \in {"first", "comma"}, NEW kinds, NEW stk, NEW txt \in Strings, NEW t \in Tokens,
         NEW now, NEW es, NEW keys, NEW top,
         MeansWith(p, kinds, stk, txt, t, now, es, keys, top),
         \A s \in Strings : \A r :
           Residue(p, kinds, stk, now, es, Cons1(t, s), r)
             <=> <<Container(LastOf(kinds), es[Len(kinds)]), s, r>> \in now[Len(kinds) - 1]
  PROVE  Understood("store", Without(kinds, 1), stk, Append(txt, t))
<1> DEFINE n == Len(kinds)
           rest == Without(kinds, 1)
<1>1. Shape(p, kinds, stk, now, es, keys, top)
  BY DEF MeansWith
<1>2. PICK now2, top2 :
        Shape("store", rest, stk, now2, es, keys, top2) /\ now2[Len(rest)] = now[n - 1]
  BY <1>1, Closed
<1>3. LastOf(stk) = Container(kinds[n], es[n]) /\ LastOf(kinds) = kinds[n]
  BY <1>1, Closed DEF LastOf
<1>4. \A s \in Strings : \A r :
        Residue(p, kinds, stk, now, es, Cons1(t, s), r)
          <=> Residue("store", rest, stk, now2, es, s, r)
  BY <1>2, <1>3 DEF Residue
<1> QED
  BY <1>2, <1>4, Follows

LEMMA ReadAsFirst ==
  ASSUME NEW kinds, NEW stk, NEW txt \in Strings, NEW t \in Tokens,
         Facing("first", kinds, stk, txt, t)
  PROVE  IF t = Closing(LastOf(kinds))
         THEN Understood("store", Without(kinds, 1), stk, Append(txt, t))
         ELSE Facing(IF LastOf(kinds) = "object" THEN "key" ELSE "value", kinds, stk, txt, t)
<1>1. PICK now, es, keys, top :
        MeansWith("first", kinds, stk, txt, t, now, es, keys, top)
  BY DEF Facing
<1> DEFINE n == Len(kinds)
           kind == LastOf(kinds)
           q == IF kind = "object" THEN "key" ELSE "value"
           Here(s, r) == Residue("first", kinds, stk, now, es, s, r)
<1>2. Shape("first", kinds, stk, now, es, keys, top)
  BY <1>1 DEF MeansWith
<1>3. n \in Nat /\ n > 0 /\ kind = kinds[n] /\ kind \in Kinds /\ es[n] = <<>>
      /\ now[n - 1] \in SUBSET Outcomes
  <2>1. n > 0 /\ n \in Nat /\ es[n] = <<>>
    BY <1>2, ShapeFacts DEF Shape, AtPlace
  <2>2. n - 1 \in 0 .. n
    BY <2>1
  <2> QED
    BY <2>1, <2>2, <1>2, ShapeFacts
<1>4. ASSUME NEW s \in Strings, NEW r
      PROVE  Here(Cons1(t, s), r) <=>
               \/ t = Closing(kind) /\ <<Container(kind, <<>>), s, r>> \in now[n - 1]
               \/ t # Closing(kind) /\ ThenMore(kind, <<>>, now[n - 1], Cons1(t, s), r)
  <2>1. Here(Cons1(t, s), r) <=> ThenStarts(kind, now[n - 1], Cons1(t, s), r)
    BY <1>3 DEF Residue
  <2> QED
    BY <2>1, <1>3, StartsMeans
<1>5. CASE t = Closing(kind)
  <2>1. \A s \in Strings : \A r :
          Here(Cons1(t, s), r) <=> <<Container(kind, es[n]), s, r>> \in now[n - 1]
    BY <1>3, <1>4, <1>5
  <2>2. Understood("store", Without(kinds, 1), stk, Append(txt, t))
    BY <2>1, <1>1, ReadAsEnd
  <2> QED
    BY <2>2, <1>5
<1>6. CASE t # Closing(kind)
  <2>1. ASSUME NEW s \in Strings, NEW r
        PROVE  /\ Shape(q, kinds, stk, now, es, keys, top)
               /\ IsDocument(Cat(txt, Cons1(t, s)), r)
                    <=> Residue(q, kinds, stk, now, es, Cons1(t, s), r)
    <3>1. Cons1(t, s) \in Strings
      BY CatFacts
    <3>2. /\ Shape(q, kinds, stk, now, es, keys, top)
          /\ ThenMore(kind, es[n], now[n - 1], Cons1(t, s), r)
               <=> Residue(q, kinds, stk, now, es, Cons1(t, s), r)
      BY <3>1, <1>2, MoreIsNext
    <3>3. Here(Cons1(t, s), r) <=> ThenMore(kind, es[n], now[n - 1], Cons1(t, s), r)
      BY <1>3, <1>4, <1>6
    <3>4. IsDocument(Cat(txt, Cons1(t, s)), r) <=> Here(Cons1(t, s), r)
      BY <1>1 DEF MeansWith
    <3> QED
      BY <3>2, <3>3, <3>4
  <2>2. Shape(q, kinds, stk, now, es, keys, top)
    BY <2>1, CatFacts
  <2>3. MeansWith(q, kinds, stk, txt, t, now, es, keys, top)
    BY <2>1, <2>2 DEF MeansWith
  <2>4. Facing(q, kinds, stk, txt, t)
    BY <2>3 DEF Facing
  <2> QED
    BY <2>4, <1>6
<1> QED
  BY <1>5, <1>6

LEMMA ReadAsComma ==
  ASSUME NEW kinds, NEW stk, NEW txt \in Strings, NEW t \in Tokens,
         Facing("comma", kinds, stk, txt, t)
  PROVE  /\ t = Closing(LastOf(kinds)) =>
              Understood("store", Without(kinds, 1), stk, Append(txt, t))
         /\ t = Token("T_COMMA") =>
              Understood(IF LastOf(kinds) = "object" THEN "key" ELSE "value",
                         kinds, stk, Append(txt, t))
         /\ t = Closing(LastOf(kinds)) \/ t = Token("T_COMMA") \/ Refuted(Append(txt, t))
<1>1. PICK now, es, keys, top :
        MeansWith("comma", kinds, stk, txt, t, now, es, keys, top)
  BY DEF Facing
<1> DEFINE n == Len(kinds)
           kind == LastOf(kinds)
           q == IF kind = "object" THEN "key" ELSE "value"
           Here(s, r) == Residue("comma", kinds, stk, now, es, s, r)
<1>2. Shape("comma", kinds, stk, now, es, keys, top)
  BY <1>1 DEF MeansWith
<1>3. n \in Nat /\ n > 0 /\ kind = kinds[n] /\ kind \in Kinds
      /\ es[n] \in Seq(EntrySet(kind)) /\ now[n - 1] \in SUBSET Outcomes
  <2>1. n > 0 /\ n \in Nat
    BY <1>2, ShapeFacts DEF Shape, AtPlace
  <2>2. n - 1 \in 0 .. n
    BY <2>1
  <2> QED
    BY <2>1, <2>2, <1>2, ShapeFacts
<1>4. ASSUME NEW s \in Strings, NEW r
      PROVE  Here(Cons1(t, s), r) <=>
               \/ t = Closing(kind) /\ <<Container(kind, es[n]), s, r>> \in now[n - 1]
               \/ t = Token("T_COMMA") /\ ThenMore(kind, es[n], now[n - 1], s, r)
  <2>1. Here(Cons1(t, s), r) <=> ThenContinues(kind, es[n], now[n - 1], Cons1(t, s), r)
    BY <1>3 DEF Residue
  <2> QED
    BY <2>1, <1>3, ContinuesMeans
<1>5. ASSUME t = Closing(kind)
      PROVE  Understood("store", Without(kinds, 1), stk, Append(txt, t))
  <2>1. \A s \in Strings : \A r :
          Here(Cons1(t, s), r) <=> <<Container(kind, es[n]), s, r>> \in now[n - 1]
    BY <1>3, <1>4, <1>5, TokensDiffer
  <2> QED
    BY <2>1, <1>1, ReadAsEnd
<1>6. ASSUME t = Token("T_COMMA")
      PROVE  Understood(q, kinds, stk, Append(txt, t))
  <2>1. \A s \in Strings : \A r :
          Here(Cons1(t, s), r) <=> ThenMore(kind, es[n], now[n - 1], s, r)
    BY <1>3, <1>4, <1>6, TokensDiffer
  <2>2. ASSUME NEW s \in Strings, NEW r
        PROVE  /\ Shape(q, kinds, stk, now, es, keys, top)
               /\ Here(Cons1(t, s), r) <=> Residue(q, kinds, stk, now, es, s, r)
    BY <2>1, <1>2, MoreIsNext
  <2>3. Shape(q, kinds, stk, now, es, keys, top)
    BY <2>2, CatFacts
  <2> QED
    BY <2>2, <2>3, <1>1, Follows
<1>7. ASSUME t # Closing(kind), t # Token("T_COMMA")
      PROVE  Refuted(Append(txt, t))
  <2>1. \A s \in Strings : \A r : ~Here(Cons1(t, s), r)
    BY <1>4, <1>7
  <2> QED
    BY <2>1, <1>1, Refutes
<1> QED
  BY <1>5, <1>6, <1>7

(* A value is stored, or it is the whole text's. *)
LEMMA StoredAsEntry ==
  ASSUME NEW kinds, NEW stk, NEW txt, Understood("store", kinds, stk, txt), Len(kinds) > 0
  PROVE  LET h == Len(stk)
             more == IF LastOf(kinds) = "object"
                     THEN Replaced(Without(stk, 2),
                                   Stored(stk[h - 2],
                                          CHOOSE text \in stk[h - 1].of : TRUE, stk[h]))
                     ELSE Replaced(Without(stk, 1),
                                   Stored(stk[h - 1], Cardinality(stk[h - 1].of) + 1, stk[h]))
         IN  Understood("comma", kinds, more, txt)
<1>1. PICK now, es, keys, top : Means("store", kinds, stk, txt, now, es, keys, top)
  BY DEF Understood
<1> DEFINE n == Len(kinds)
           h == Len(stk)
           kind == LastOf(kinds)
           more == IF kind = "object"
                   THEN Replaced(Without(stk, 2),
                                 Stored(stk[h - 2],
                                        CHOOSE text \in stk[h - 1].of : TRUE, stk[h]))
                   ELSE Replaced(Without(stk, 1),
                                 Stored(stk[h - 1], Cardinality(stk[h - 1].of) + 1, stk[h]))
           fs == Append(es[n], EntryOf(kind, keys[n], LastOf(stk)))
<1>2. Shape("store", kinds, stk, now, es, keys, top)
  BY <1>1 DEF Means
<1>3. n \in Nat /\ n > 0 /\ kind = kinds[n] /\ kind \in {"array", "object"} /\ kind \in Kinds
      /\ now[n] = After(kind, es[n], keys[n], now[n - 1])
      /\ now[n - 1] \in SUBSET Outcomes /\ LastOf(stk) \in JsonValues
  <2>1. n > 0 /\ n \in Nat /\ LastOf(stk) \in JsonValues
    BY <1>2, ShapeFacts DEF Shape, AtPlace
  <2>2. n - 1 \in 0 .. n
    BY <2>1
  <2> QED
    BY <2>1, <2>2, <1>2, ShapeFacts DEF Kinds
<1>4. PICK now2, es2, keys2 :
        /\ Shape("comma", kinds, more, now2, es2, keys2, top)
        /\ es2[n] = fs /\ now2[n - 1] = now[n - 1]
  <2>1. CASE kind = "object"
    <3> DEFINE text == CHOOSE u \in stk[Len(stk) - 1].of : TRUE
    <3>1. more = Replaced(Without(stk, 2), Stored(stk[h - 2], text, stk[h]))
      BY <2>1
    <3>a. text = CHOOSE u \in stk[Len(stk) - 1].of : TRUE
      OBVIOUS
    <3>2. Gains(kinds, now, es, top, more, EntryOf("object", keys[n], LastOf(stk)))
      <4> HIDE DEF more, text
      <4> QED
        BY <3>1, <3>a, <2>1, <1>2, <1>3, MemberGathered
    <3> HIDE DEF more
    <3> QED
      BY <3>2, <2>1 DEF Gains
  <2>2. CASE kind = "array"
    <3>1. more = Replaced(Without(stk, 1),
                          Stored(stk[h - 1], Cardinality(stk[h - 1].of) + 1, stk[h]))
      BY <2>2
    <3>2. Gains(kinds, now, es, top, more, EntryOf("array", keys[n], LastOf(stk)))
      <4> HIDE DEF more
      <4> QED
        BY <3>1, <2>2, <1>2, <1>3, ItemGathered
    <3> HIDE DEF more
    <3> QED
      BY <3>2, <2>2 DEF Gains
  <2> QED
    BY <2>1, <2>2, <1>3
<1> HIDE DEF more
<1>5. ASSUME NEW s \in Strings, NEW r
      PROVE  Residue("store", kinds, stk, now, es, s, r)
               <=> Residue("comma", kinds, more, now2, es2, s, r)
  <2>1. Residue("store", kinds, stk, now, es, s, r) <=> <<LastOf(stk), s, r>> \in now[n]
    BY DEF Residue
  <2>2. <<LastOf(stk), s, r>> \in now[n] <=> ThenContinues(kind, fs, now[n - 1], s, r)
    BY <1>3, InAfter
  <2>3. Residue("comma", kinds, more, now2, es2, s, r)
          <=> ThenContinues(kinds[n], es2[n], now2[n - 1], s, r)
    BY DEF Residue
  <2> QED
    BY <2>1, <2>2, <2>3, <1>3, <1>4
<1>6. Means("comma", kinds, more, txt, now2, es2, keys2, top)
  BY <1>1, <1>4, <1>5 DEF Means
<1>7. Understood("comma", kinds, more, txt)
  BY <1>6 DEF Understood
<1> QED
  BY <1>7 DEF more

LEMMA StoredAsDocument ==
  ASSUME NEW stk, NEW txt, Understood("store", <<>>, stk, txt)
  PROVE  Understood("end", <<>>, stk, txt)
<1>1. PICK now, es, keys, top : Means("store", <<>>, stk, txt, now, es, keys, top)
  BY DEF Understood
<1>2. Shape("end", <<>>, stk, now, es, keys, top) /\ now[Len(<<>>)] = Final
  BY <1>1, Ended DEF Means
<1>3. \A s \in Strings : \A r :
        Residue("store", <<>>, stk, now, es, s, r) <=> Residue("end", <<>>, stk, now, es, s, r)
  BY <1>2 DEF Residue
<1>4. Means("end", <<>>, stk, txt, now, es, keys, top)
  BY <1>1, <1>2, <1>3 DEF Means
<1> QED
  BY <1>4 DEF Understood

LEMMA ReadAsLast ==
  ASSUME NEW kinds, NEW stk, NEW txt \in Strings, NEW t \in Tokens,
         Facing("end", kinds, stk, txt, t)
  PROVE  IF t = Token("T_END") THEN IsDocument(Append(txt, t), LastOf(stk))
         ELSE Refuted(Append(txt, t))
<1>1. PICK now, es, keys, top :
        MeansWith("end", kinds, stk, txt, t, now, es, keys, top)
  BY DEF Facing
<1>2. LastOf(stk) \in JsonValues
  BY <1>1 DEF MeansWith, Shape, AtPlace
<1>3. <<>> \in Strings /\ Token("T_END") \in Tokens
  BY CatFacts, TokenTypes
<1>4. ASSUME NEW s \in Strings, NEW r
      PROVE  Residue("end", kinds, stk, now, es, Cons1(t, s), r)
               <=> t = Token("T_END") /\ s = <<>> /\ r = LastOf(stk)
  <2>1. Cons1(t, s) \in Strings
    BY CatFacts
  <2>2. Residue("end", kinds, stk, now, es, Cons1(t, s), r)
          <=> <<LastOf(stk), Cons1(t, s), r>> \in Final
    BY DEF Residue
  <2>3. <<LastOf(stk), Cons1(t, s), r>> \in Final
          <=> Cons1(t, s) = Cons1(Token("T_END"), <<>>) /\ r = LastOf(stk)
    BY <1>2, <2>1 DEF Final, Outcomes
  <2>4. Cons1(t, s) = Cons1(Token("T_END"), <<>>) <=> t = Token("T_END") /\ s = <<>>
    BY <1>3, SameCons
  <2> QED
    BY <2>2, <2>3, <2>4
<1>5. CASE t = Token("T_END")
  <2>1. Residue("end", kinds, stk, now, es, Cons1(t, <<>>), LastOf(stk))
    BY <1>3, <1>4, <1>5
  <2>2. IsDocument(Cat(txt, Cons1(t, <<>>)), LastOf(stk))
    BY <2>1, <1>1, <1>3 DEF MeansWith
  <2>3. Cat(txt, Cons1(t, <<>>)) = Append(txt, t)
    BY <1>5, EndIsAppend
  <2> QED
    BY <2>2, <2>3, <1>5
<1>6. CASE t # Token("T_END")
  <2>1. \A s \in Strings : \A r : ~Residue("end", kinds, stk, now, es, Cons1(t, s), r)
    BY <1>4, <1>6
  <2>2. Refuted(Append(txt, t))
    BY <2>1, <1>1, Refutes
  <2> QED
    BY <2>2, <1>6
<1> QED
  BY <1>5, <1>6

LEMMA NothingRead ==
  ASSUME NEW v
  PROVE  Understood("value", <<>>, <<v>>, <<>>)
<1>1. PICK now, es, keys, top :
        Shape("value", <<>>, <<v>>, now, es, keys, top) /\ now[0] = Final
  BY Started
<1>2. ASSUME NEW s \in Strings, NEW r
      PROVE  IsDocument(Cat(<<>>, s), r) <=> Residue("value", <<>>, <<v>>, now, es, s, r)
  <2>1. Cat(<<>>, s) = s /\ Len(<<>>) = 0
    BY CatFacts
  <2> QED
    BY <2>1, <1>1 DEF IsDocument, Residue
<1>3. Means("value", <<>>, <<v>>, <<>>, now, es, keys, top)
  BY <1>1, <1>2 DEF Means
<1> QED
  BY <1>3 DEF Understood

(***************************************************************************)
(* The invariant: what decode has read, and how much of it is open.        *)
(***************************************************************************)
DecodeReads ==
  /\ read \in Strings /\ Len(read) <= MaxTokens
  /\ pc \in Reading => Len(read) < MaxTokens
  /\ pc \in Reading \union {"returned"} => Opened(read) = Len(open)
  /\ pc = "nesting" =>
       \/ Opened(read) > cfg.decodeDepth
       \/ Len(stack) + (IF LastOf(read).type = "T_OBJ_BEGIN" THEN 2 ELSE 1) > MaxCStack
DecodeMeans ==
  /\ pc \in Reading => Understood(pc, open, stack, read)
  /\ pc = "returned" => IsDocument(read, LastOf(stack))
  /\ pc = "syntax" => Refuted(read)

ReadInv == IF op = "decode" THEN DecodeReads ELSE read = <<>>
MeaningInv == op = "decode" => DecodeMeans

(* A token is known by its type, and its text if it is a string. *)
LEMMA TokenByType ==
  ASSUME NEW t \in Tokens
  PROVE  /\ t.type = "T_STRING" => t.text \in Texts /\ t = StringToken(t.text)
         /\ t.type # "T_STRING" => t = Token(t.type)
         /\ \A text \in Texts : t = StringToken(text) => t.type = "T_STRING"
         /\ \A type : t = Token(type) => t.type = type
         /\ \A kind \in Kinds :
              /\ t = Opening(kind) <=>
                   t.type = (IF kind = "object" THEN "T_OBJ_BEGIN" ELSE "T_ARR_BEGIN")
              /\ t = Closing(kind) <=> t.type = EndOf(kind)
<1>1. \/ \E type \in {"T_OBJ_BEGIN", "T_OBJ_END", "T_ARR_BEGIN", "T_ARR_END",
                      "T_NULL", "T_COLON", "T_COMMA", "T_END", "T_ERROR"} : t = Token(type)
      \/ \E text \in Texts : t = StringToken(text)
  BY DEF Tokens
<1>2. \A type : Token(type).type = type
  BY DEF Token
<1>3. \A text : StringToken(text).type = "T_STRING" /\ StringToken(text).text = text
  BY DEF StringToken
<1>4. t.type = "T_STRING" => t.text \in Texts /\ t = StringToken(t.text)
  <2>1. CASE \E type \in {"T_OBJ_BEGIN", "T_OBJ_END", "T_ARR_BEGIN", "T_ARR_END",
                          "T_NULL", "T_COLON", "T_COMMA", "T_END", "T_ERROR"} : t = Token(type)
    BY <2>1, <1>2
  <2>2. CASE \E text \in Texts : t = StringToken(text)
    BY <2>2, <1>3
  <2> QED
    BY <1>1, <2>1, <2>2
<1>5. t.type # "T_STRING" => t = Token(t.type)
  BY <1>1, <1>2, <1>3
<1>6. ASSUME NEW kind \in Kinds
      PROVE  /\ t = Opening(kind) <=>
                  t.type = (IF kind = "object" THEN "T_OBJ_BEGIN" ELSE "T_ARR_BEGIN")
             /\ t = Closing(kind) <=> t.type = EndOf(kind)
  <2>1. CASE kind = "object"
    BY <2>1, <1>2, <1>5 DEF Opening, Closing, EndOf
  <2>2. CASE kind # "object"
    BY <2>2, <1>2, <1>5 DEF Opening, Closing, EndOf
  <2> QED
    BY <2>1, <2>2
<1> QED
  BY <1>2, <1>3, <1>4, <1>5, <1>6

LEMMA PlaceFacts ==
  ASSUME NEW p, NEW kinds, NEW stk, NEW txt, NEW t, Facing(p, kinds, stk, txt, t)
  PROVE  Len(kinds) > 0 => LastOf(kinds) \in Kinds
<1>1. PICK now, es, keys, top : MeansWith(p, kinds, stk, txt, t, now, es, keys, top)
  BY DEF Facing
<1>2. Shape(p, kinds, stk, now, es, keys, top)
  BY <1>1 DEF MeansWith
<1> QED
  BY <1>2, ShapeFacts

-----------------------------------------------------------------------------
(* A value, or a key, that is read. *)
LEMMA ProcessValueMeans ==
  ASSUME read \in Strings, NEW t \in Tokens, op' = "decode", read' = Append(read, t),
         Facing("value", open, stack, read, t), ProcessValue(t)
  PROVE  MeaningInv'
<1> DEFINE more == Append(read, t)
<1>1. /\ t = Token("T_NULL") =>
           Understood("store", open, Append(stack, Value("null", {})), more)
      /\ \A text \in Texts : t = StringToken(text) =>
           Understood("store", open, Append(stack, Value("string", {text})), more)
      /\ \A kind \in Kinds : t = Opening(kind) =>
           Understood("first", Append(open, kind), Append(stack, Value(kind, {})), more)
      /\ \/ t = Token("T_NULL")
         \/ \E text \in Texts : t = StringToken(text)
         \/ \E kind \in Kinds : t = Opening(kind)
         \/ Refuted(more)
  BY ReadAsValue
<1>2. CASE t.type = "T_STRING"
  <2>1. t.text \in Texts /\ t = StringToken(t.text)
    BY <1>2, TokenByType
  <2>2. PushValue(Value("string", {t.text}))
    BY <1>2 DEF ProcessValue
  <2>3. Understood("store", open, Append(stack, Value("string", {t.text})), more)
    BY <2>1, <1>1
  <2>4. pc' = "store" /\ open' = open /\ stack' = Append(stack, Value("string", {t.text}))
    BY <2>2 DEF PushValue
  <2> QED
    BY <2>3, <2>4 DEF MeaningInv, DecodeMeans
<1>3. CASE t.type = "T_NULL"
  <2>1. t = Token("T_NULL")
    BY <1>3, TokenByType
  <2>2. PushValue(Value("null", {}))
    BY <1>3 DEF ProcessValue
  <2>3. pc' = "store" /\ open' = open /\ stack' = Append(stack, Value("null", {}))
    BY <2>2 DEF PushValue
  <2> QED
    BY <2>1, <2>3, <1>1 DEF MeaningInv, DecodeMeans
<1>4. ASSUME NEW kind \in Kinds, t = Opening(kind), Descend(kind)
      PROVE  MeaningInv'
  <2>1. Understood("first", Append(open, kind), Append(stack, Value(kind, {})), more)
    BY <1>1, <1>4
  <2>2. \/ /\ pc' = "first" /\ open' = Append(open, kind)
           /\ stack' = Append(stack, Value(kind, {}))
        \/ pc' = "nesting"
    BY <1>4 DEF Descend, Raise
  <2> QED
    BY <2>1, <2>2 DEF MeaningInv, DecodeMeans, Reading
<1>5. CASE t.type = "T_OBJ_BEGIN"
  <2>1. "object" \in Kinds /\ t = Opening("object")
    BY <1>5, TokenByType DEF Kinds
  <2>2. Descend("object")
    BY <1>5 DEF ProcessValue
  <2> QED
    BY <2>1, <2>2, <1>4
<1>6. CASE t.type = "T_ARR_BEGIN"
  <2>1. "array" \in Kinds /\ t = Opening("array")
    BY <1>6, TokenByType DEF Kinds
  <2>2. Descend("array")
    BY <1>6 DEF ProcessValue
  <2> QED
    BY <2>1, <2>2, <1>4
<1>7. CASE t.type \notin {"T_STRING", "T_NULL", "T_OBJ_BEGIN", "T_ARR_BEGIN"}
  <2>1. /\ t # Token("T_NULL") /\ \A text \in Texts : t # StringToken(text)
        /\ \A kind \in Kinds : t # Opening(kind)
    BY <1>7, TokenByType
  <2>2. SyntaxError
    BY <1>7 DEF ProcessValue
  <2>3. pc' = "syntax"
    BY <2>2 DEF SyntaxError, Raise
  <2> QED
    BY <2>1, <2>3, <1>1 DEF MeaningInv, DecodeMeans, Reading
<1> QED
  BY <1>2, <1>3, <1>5, <1>6, <1>7

LEMMA PushKeyMeans ==
  ASSUME read \in Strings, NEW t \in Tokens, op' = "decode", read' = Append(read, t),
         Facing("key", open, stack, read, t), PushKey(t)
  PROVE  MeaningInv'
<1> DEFINE more == Append(read, t)
<1>1. /\ \A text \in Texts : t = StringToken(text) =>
           Understood("colon", open, Append(stack, Value("string", {text})), more)
      /\ (\E text \in Texts : t = StringToken(text)) \/ Refuted(more)
  BY ReadAsKey
<1>2. CASE t.type = "T_STRING"
  <2>1. t.text \in Texts /\ t = StringToken(t.text)
    BY <1>2, TokenByType
  <2>2. Understood("colon", open, Append(stack, Value("string", {t.text})), more)
    BY <2>1, <1>1
  <2>3. pc' = "colon" /\ open' = open /\ stack' = Append(stack, Value("string", {t.text}))
    BY <1>2 DEF PushKey
  <2> QED
    BY <2>2, <2>3 DEF MeaningInv, DecodeMeans
<1>3. CASE t.type # "T_STRING"
  <2>1. \A text \in Texts : t # StringToken(text)
    BY <1>3, TokenByType
  <2>2. pc' = "syntax"
    BY <1>3 DEF PushKey, SyntaxError, Raise
  <2> QED
    BY <2>1, <2>2, <1>1 DEF MeaningInv, DecodeMeans, Reading
<1> QED
  BY <1>2, <1>3

LEMMA CloseMeans ==
  ASSUME NEW t \in Tokens, op' = "decode", read' = Append(read, t),
         Understood("store", Without(open, 1), stack, Append(read, t)), Close
  PROVE  MeaningInv'
<1>1. pc' = "store" /\ open' = Without(open, 1) /\ stack' = stack
  BY DEF Close
<1> QED
  BY <1>1 DEF MeaningInv, DecodeMeans

LEMMA SyntaxErrorMeans ==
  ASSUME NEW t \in Tokens, op' = "decode", read' = Append(read, t),
         Refuted(Append(read, t)), SyntaxError
  PROVE  MeaningInv'
<1>1. pc' = "syntax"
  BY DEF SyntaxError, Raise
<1> QED
  BY <1>1 DEF MeaningInv, DecodeMeans, Reading

(* The next token, in each state of the parser. *)
LEMMA ReadMeans ==
  ASSUME ResourceInv, ReadInv, MeaningInv, NEW t \in Tokens,
         \/ ReadValue(t) \/ ReadFirst(t) \/ ReadKey(t)
         \/ ReadColon(t) \/ ReadComma(t) \/ ReadEnd(t)
  PROVE  MeaningInv'
<1>1. op = "decode" /\ op' = "decode" /\ read' = Append(read, t)
      /\ pc \in {"value", "first", "key", "colon", "comma", "end"}
  BY DEF ReadValue, ReadFirst, ReadKey, ReadColon, ReadComma, ReadEnd, NextToken
<1>2. read \in Strings /\ Understood(pc, open, stack, read)
  BY <1>1 DEF ReadInv, MeaningInv, DecodeReads, DecodeMeans, Reading
<1>3. Facing(pc, open, stack, read, t)
  BY <1>2, Faced
<1>4. pc \in {"first", "comma"} => LastOf(open) \in Kinds
  <2>1. pc \in {"first", "comma"} => open # <<>> /\ IsSeq(open)
    BY <1>1 DEF ResourceInv, ControlInv, HeightInv, DecodeHeight
  <2>2. open # <<>> /\ IsSeq(open) => Len(open) > 0
    BY LenProperties DEF IsSeq
  <2> QED
    BY <2>1, <2>2, <1>3, PlaceFacts
<1>5. CASE ReadValue(t)
  <2>1. pc = "value" /\ ProcessValue(t)
    BY <1>5 DEF ReadValue, NextToken
  <2> QED
    BY <2>1, <1>1, <1>2, <1>3, ProcessValueMeans
<1>6. CASE ReadFirst(t)
  <2>1. pc = "first"
    BY <1>6 DEF ReadFirst, NextToken
  <2>2. t = Closing(LastOf(open)) <=> t.type = EndOf(LastOf(open))
    BY <2>1, <1>4, TokenByType
  <2>3. IF t = Closing(LastOf(open))
        THEN Understood("store", Without(open, 1), stack, Append(read, t))
        ELSE Facing(IF LastOf(open) = "object" THEN "key" ELSE "value", open, stack, read, t)
    BY <2>1, <1>2, <1>3, ReadAsFirst
  <2>4. CASE t.type = EndOf(LastOf(open))
    <3>1. Close
      BY <2>4, <1>6 DEF ReadFirst, CloseEmpty
    <3> QED
      BY <3>1, <2>2, <2>3, <2>4, <1>1, CloseMeans
  <2>5. CASE t.type # EndOf(LastOf(open)) /\ LastOf(open) = "object"
    <3>1. PushKey(t) /\ Facing("key", open, stack, read, t)
      BY <2>2, <2>3, <2>5, <1>6 DEF ReadFirst
    <3> QED
      BY <3>1, <1>1, <1>2, PushKeyMeans
  <2>6. CASE t.type # EndOf(LastOf(open)) /\ LastOf(open) # "object"
    <3>1. ProcessValue(t) /\ Facing("value", open, stack, read, t)
      BY <2>2, <2>3, <2>6, <1>6 DEF ReadFirst
    <3> QED
      BY <3>1, <1>1, <1>2, ProcessValueMeans
  <2> QED
    BY <2>4, <2>5, <2>6
<1>7. CASE ReadKey(t)
  <2>1. pc = "key" /\ PushKey(t)
    BY <1>7 DEF ReadKey, NextToken
  <2> QED
    BY <2>1, <1>1, <1>2, <1>3, PushKeyMeans
<1>8. CASE ReadColon(t)
  <2>1. pc = "colon"
    BY <1>8 DEF ReadColon, NextToken
  <2>2. IF t = Token("T_COLON") THEN Understood("value", open, stack, Append(read, t))
        ELSE Refuted(Append(read, t))
    BY <2>1, <1>2, <1>3, ReadAsColon
  <2>3. CASE t.type = "T_COLON"
    <3>1. t = Token("T_COLON")
      BY <2>3, TokenByType
    <3>2. pc' = "value" /\ open' = open /\ stack' = stack
      BY <2>3, <1>8 DEF ReadColon
    <3> QED
      BY <3>1, <3>2, <2>2, <1>1 DEF MeaningInv, DecodeMeans
  <2>4. CASE t.type # "T_COLON"
    <3>1. t # Token("T_COLON")
      BY <2>4, TokenByType
    <3>2. SyntaxError
      BY <2>4, <1>8 DEF ReadColon
    <3> QED
      BY <3>1, <3>2, <2>2, <1>1, SyntaxErrorMeans
  <2> QED
    BY <2>3, <2>4
<1>9. CASE ReadComma(t)
  <2>1. pc = "comma"
    BY <1>9 DEF ReadComma, NextToken
  <2>2. t = Closing(LastOf(open)) <=> t.type = EndOf(LastOf(open))
    BY <2>1, <1>4, TokenByType
  <2>3. /\ t = Closing(LastOf(open)) =>
             Understood("store", Without(open, 1), stack, Append(read, t))
        /\ t = Token("T_COMMA") =>
             Understood(IF LastOf(open) = "object" THEN "key" ELSE "value",
                        open, stack, Append(read, t))
        /\ t = Closing(LastOf(open)) \/ t = Token("T_COMMA") \/ Refuted(Append(read, t))
    BY <2>1, <1>2, <1>3, ReadAsComma
  <2>4. CASE t.type = EndOf(LastOf(open))
    <3>1. Close
      <4>1. t.type # "T_COMMA"
        BY <2>4 DEF EndOf
      <4> QED
        BY <4>1, <2>4, <1>9 DEF ReadComma
    <3> QED
      BY <3>1, <2>2, <2>3, <2>4, <1>1, CloseMeans
  <2>5. CASE t.type = "T_COMMA"
    <3>1. t = Token("T_COMMA") /\ t.type # EndOf(LastOf(open))
      BY <2>5, TokenByType DEF EndOf
    <3>2. pc' = AfterComma(LastOf(open)) /\ open' = open /\ stack' = stack
      BY <3>1, <2>5, <1>9 DEF ReadComma
    <3> QED
      BY <3>1, <3>2, <2>3, <1>1 DEF MeaningInv, DecodeMeans, AfterComma
  <2>6. CASE t.type # EndOf(LastOf(open)) /\ t.type # "T_COMMA"
    <3>1. t # Closing(LastOf(open)) /\ t # Token("T_COMMA")
      BY <2>2, <2>6, TokenByType
    <3>2. SyntaxError
      BY <2>6, <1>9 DEF ReadComma
    <3> QED
      BY <3>1, <3>2, <2>3, <1>1, SyntaxErrorMeans
  <2> QED
    BY <2>4, <2>5, <2>6
<1>10. CASE ReadEnd(t)
  <2>1. pc = "end"
    BY <1>10 DEF ReadEnd, NextToken
  <2>2. IF t = Token("T_END") THEN IsDocument(Append(read, t), LastOf(stack))
        ELSE Refuted(Append(read, t))
    BY <2>1, <1>2, <1>3, ReadAsLast
  <2>3. CASE t.type = "T_END"
    <3>1. t = Token("T_END")
      BY <2>3, TokenByType
    <3>2. pc' = "returned" /\ stack' = stack
      BY <2>3, <1>10 DEF ReadEnd
    <3>3. LastOf(stack)' = LastOf(stack)
      BY <3>2 DEF LastOf
    <3> QED
      BY <3>1, <3>2, <3>3, <2>2, <1>1 DEF MeaningInv, DecodeMeans, Reading
  <2>4. CASE t.type # "T_END"
    <3>1. t # Token("T_END")
      BY <2>4, TokenByType
    <3>2. SyntaxError
      BY <2>4, <1>10 DEF ReadEnd
    <3> QED
      BY <3>1, <3>2, <2>2, <1>1, SyntaxErrorMeans
  <2> QED
    BY <2>3, <2>4
<1> QED
  BY <1>5, <1>6, <1>7, <1>8, <1>9, <1>10

LEMMA StoreMeans ==
  ASSUME ResourceInv, ReadInv, MeaningInv, Store
  PROVE  MeaningInv'
<1>1. op = "decode" /\ op' = "decode" /\ pc = "store" /\ read' = read /\ open' = open
  BY DEF Store, decodeVars
<1>2. Understood("store", open, stack, read)
  BY <1>1 DEF MeaningInv, DecodeMeans, Reading
<1>3. CASE open = <<>>
  <2>1. Understood("end", open, stack, read)
    BY <1>2, <1>3, StoredAsDocument
  <2>2. pc' = "end" /\ stack' = stack
    BY <1>3 DEF Store
  <2> QED
    BY <2>1, <2>2, <1>1 DEF MeaningInv, DecodeMeans
<1>4. CASE open # <<>>
  <2> DEFINE more == IF LastOf(open) = "object" THEN StoreMember ELSE StoreItem
  <2>1. Len(open) > 0
    BY <1>4, LenProperties DEF ResourceInv, ControlInv, IsSeq
  <2>2. Understood("comma", open, more, read)
    BY <1>2, <2>1, StoredAsEntry DEF StoreMember, StoreItem
  <2>3. pc' = "comma" /\ stack' = more
    BY <1>4 DEF Store
  <2> HIDE DEF more
  <2> QED
    BY <2>2, <2>3, <1>1 DEF MeaningInv, DecodeMeans
<1> QED
  BY <1>3, <1>4

-----------------------------------------------------------------------------
(* How much is read, and how much of it is open. *)
LEMMA ProcessValueReads ==
  ASSUME ResourceInv, read \in Strings, Len(read) < MaxTokens, Opened(read) = Len(open),
         op = "decode", pc \in {"value", "first"}, op' = "decode",
         cfg' = cfg, NEW t \in Tokens, read' = Append(read, t),
         Len(read) = MaxTokens - 1 => t.type = "T_END", ProcessValue(t)
  PROVE  ReadInv'
<1>1. /\ read' \in Strings /\ Len(read') = Len(read) + 1 /\ LastOf(read') = t
      /\ Len(read) \in Nat /\ MaxTokens \in Nat
  BY CJsonAssumption DEF Strings, LastOf
<1>2. /\ Opened(read') = Opened(read) + (IF t.type \in Opens THEN 1 ELSE 0)
                                      - (IF t.type \in Closes THEN 1 ELSE 0)
      /\ Opened(read) \in Int
  BY OpenedAppend
<1>3. depth = Len(open) /\ IsSeq(open) /\ IsSeq(stack) /\ depth \in Nat
  BY DEF ResourceInv, ControlInv, DepthBalanced
<1>4. t.type # "T_END" => Len(read') < MaxTokens
  BY <1>1
<1>5. Len(read') <= MaxTokens
  BY <1>1
<1>6. CASE t.type \in {"T_STRING", "T_NULL"}
  <2>1. pc' = "store" /\ open' = open
    BY <1>6 DEF ProcessValue, PushValue
  <2>2. Opened(read') = Len(open) /\ t.type # "T_END"
    BY <1>2, <1>6 DEF Opens, Closes
  <2> QED
    BY <2>1, <2>2, <1>1, <1>4, <1>5 DEF ReadInv, DecodeReads
<1>7. ASSUME NEW kind \in {"array", "object"}, Descend(kind),
             t.type = IF kind = "object" THEN "T_OBJ_BEGIN" ELSE "T_ARR_BEGIN"
      PROVE  ReadInv'
  <2>1. Opened(read') = Len(open) + 1 /\ t.type # "T_END"
    BY <1>2, <1>3, <1>7 DEF Opens, Closes
  <2>2. CASE depth + 1 <= cfg.decodeDepth /\ HasRoom(Slots(kind))
    <3>1. pc' = "first" /\ open' = Append(open, kind)
      BY <1>7, <2>2 DEF Descend
    <3>2. Len(open') = Len(open) + 1
      BY <3>1, <1>3, Appended
    <3> QED
      BY <2>1, <3>1, <3>2, <1>1, <1>4, <1>5 DEF ReadInv, DecodeReads
  <2>3. CASE ~(depth + 1 <= cfg.decodeDepth /\ HasRoom(Slots(kind)))
    <3>1. pc' = "nesting" /\ stack' = Append(stack, Message)
      BY <1>7, <2>3 DEF Descend, Raise
    <3>2. Len(stack') = Len(stack) + 1 /\ Len(stack) \in Nat
      BY <3>1, <1>3, Appended
    <3>3. cfg.decodeDepth \in Nat /\ MaxCStack \in Nat
      BY CJsonAssumption DEF ResourceInv, ControlInv, Settings
    <3>4. \/ Opened(read') > cfg.decodeDepth
          \/ Len(stack') + (IF t.type = "T_OBJ_BEGIN" THEN 2 ELSE 1) > MaxCStack
      BY <1>3, <1>7, <2>1, <2>3, <3>2, <3>3 DEF HasRoom, Slots
    <3> QED
      BY <3>1, <3>4, <1>1, <1>5 DEF ReadInv, DecodeReads, Reading
  <2> QED
    BY <2>2, <2>3
<1>8. CASE t.type = "T_OBJ_BEGIN"
  <2>1. Descend("object")
    BY <1>8 DEF ProcessValue
  <2> QED
    BY <2>1, <1>7, <1>8
<1>9. CASE t.type = "T_ARR_BEGIN"
  <2>1. Descend("array")
    BY <1>9 DEF ProcessValue
  <2> QED
    BY <2>1, <1>7, <1>9
<1>10. CASE t.type \notin {"T_STRING", "T_NULL", "T_OBJ_BEGIN", "T_ARR_BEGIN"}
  <2>1. SyntaxError
    BY <1>10 DEF ProcessValue
  <2>2. pc' = "syntax"
    BY <2>1 DEF SyntaxError, Raise
  <2> QED
    BY <2>2, <1>1, <1>5 DEF ReadInv, DecodeReads, Reading
<1> QED
  BY <1>6, <1>8, <1>9, <1>10

(* A token that is no bracket. *)
LEMMA PlainReads ==
  ASSUME read \in Strings, Len(read) < MaxTokens, Opened(read) = Len(open),
         op' = "decode", NEW t \in Tokens, read' = Append(read, t), t.type \notin Opens \union Closes,
         Len(read) = MaxTokens - 1 => t.type = "T_END",
         open' = open, pc' = "returned" \/ (pc' \in Reading /\ t.type # "T_END")
  PROVE  ReadInv'
<1>1. /\ read' \in Strings /\ Len(read') = Len(read) + 1
      /\ Len(read) \in Nat /\ MaxTokens \in Nat
  BY CJsonAssumption DEF Strings
<1>2. Opened(read') = Opened(read) /\ Opened(read) \in Int
  BY OpenedAppend
<1>3. Len(read') <= MaxTokens /\ (t.type # "T_END" => Len(read') < MaxTokens)
  BY <1>1
<1> QED
  BY <1>1, <1>2, <1>3 DEF ReadInv, DecodeReads, Reading

LEMMA RefusedReads ==
  ASSUME read \in Strings, Len(read) < MaxTokens, op' = "decode", pc' = "syntax",
         NEW t \in Tokens, read' = Append(read, t)
  PROVE  ReadInv'
<1>1. /\ read' \in Strings /\ Len(read') = Len(read) + 1
      /\ Len(read) \in Nat /\ MaxTokens \in Nat
  BY CJsonAssumption DEF Strings
<1> QED
  BY <1>1 DEF ReadInv, DecodeReads, Reading

LEMMA PushKeyReads ==
  ASSUME read \in Strings, Len(read) < MaxTokens, Opened(read) = Len(open),
         op' = "decode", NEW t \in Tokens, read' = Append(read, t),
         Len(read) = MaxTokens - 1 => t.type = "T_END", PushKey(t)
  PROVE  ReadInv'
<1>1. CASE t.type = "T_STRING"
  <2>1. pc' = "colon" /\ open' = open
    BY <1>1 DEF PushKey
  <2> QED
    BY <2>1, <1>1, PlainReads DEF Opens, Closes, Reading
<1>2. CASE t.type # "T_STRING"
  <2>1. pc' = "syntax"
    BY <1>2 DEF PushKey, SyntaxError, Raise
  <2> QED
    BY <2>1, RefusedReads
<1> QED
  BY <1>1, <1>2

LEMMA CloseReads ==
  ASSUME read \in Strings, Len(read) < MaxTokens, Opened(read) = Len(open),
         IsSeq(open), open # <<>>,
         op' = "decode", NEW t \in Tokens, read' = Append(read, t), t.type \in Closes,
         Len(read) = MaxTokens - 1 => t.type = "T_END", Close
  PROVE  ReadInv'
<1>1. /\ read' \in Strings /\ Len(read') = Len(read) + 1
      /\ Len(read) \in Nat /\ MaxTokens \in Nat
  BY CJsonAssumption DEF Strings
<1>2. Len(open) \in Nat /\ Len(open) > 0
  BY LenProperties DEF IsSeq
<1>3. Len(Without(open, 1)) = Len(open) - 1
  BY <1>2, Shortened
<1>4. Opened(read') = Opened(read) - 1 /\ Opened(read) \in Int /\ t.type # "T_END"
  BY OpenedAppend DEF Opens, Closes
<1>5. pc' = "store" /\ open' = Without(open, 1)
  BY DEF Close
<1>6. Len(read') < MaxTokens
  BY <1>1, <1>4
<1>7. Opened(read') = Len(open')
  BY <1>2, <1>3, <1>4, <1>5
<1> QED
  BY <1>1, <1>5, <1>6, <1>7 DEF ReadInv, DecodeReads, Reading

LEMMA TokenReads ==
  ASSUME ResourceInv, ReadInv, NEW t \in Tokens,
         \/ ReadValue(t) \/ ReadFirst(t) \/ ReadKey(t)
         \/ ReadColon(t) \/ ReadComma(t) \/ ReadEnd(t)
  PROVE  ReadInv'
<1>1. /\ op = "decode" /\ op' = "decode" /\ read' = Append(read, t) /\ cfg' = cfg
      /\ pc \in {"value", "first", "key", "colon", "comma", "end"}
      /\ Len(read) = MaxTokens - 1 => t.type = "T_END"
  BY DEF ReadValue, ReadFirst, ReadKey, ReadColon, ReadComma, ReadEnd, NextToken
<1>2. read \in Strings /\ Len(read) < MaxTokens /\ Opened(read) = Len(open)
  BY <1>1 DEF ReadInv, DecodeReads, Reading
<1>3. IsSeq(open) /\ (pc \in {"first", "comma"} => open # <<>>)
  BY <1>1 DEF ResourceInv, ControlInv, HeightInv, DecodeHeight
<1>4. t.type = EndOf(LastOf(open)) => t.type \in Closes
  BY DEF EndOf, Closes
<1>5. CASE ReadValue(t)
  <2>1. pc = "value" /\ ProcessValue(t)
    BY <1>5 DEF ReadValue, NextToken
  <2> QED
    BY <2>1, <1>1, <1>2, ProcessValueReads
<1>6. CASE ReadFirst(t)
  <2>1. pc = "first"
    BY <1>6 DEF ReadFirst, NextToken
  <2>2. (Close /\ t.type = EndOf(LastOf(open))) \/ PushKey(t) \/ ProcessValue(t)
    BY <1>6 DEF ReadFirst, CloseEmpty
  <2>3. CASE Close /\ t.type = EndOf(LastOf(open))
    BY <2>1, <2>3, <1>1, <1>2, <1>3, <1>4, CloseReads
  <2>4. CASE PushKey(t)
    BY <2>4, <1>1, <1>2, PushKeyReads
  <2>5. CASE ProcessValue(t)
    BY <2>1, <2>5, <1>1, <1>2, ProcessValueReads
  <2> QED
    BY <2>2, <2>3, <2>4, <2>5
<1>7. CASE ReadKey(t)
  <2>1. PushKey(t)
    BY <1>7 DEF ReadKey
  <2> QED
    BY <2>1, <1>1, <1>2, PushKeyReads
<1>8. CASE ReadColon(t)
  <2>1. CASE t.type = "T_COLON"
    <3>1. pc' = "value" /\ open' = open
      BY <2>1, <1>8 DEF ReadColon
    <3> QED
      BY <3>1, <2>1, <1>1, <1>2, PlainReads DEF Opens, Closes, Reading
  <2>2. CASE t.type # "T_COLON"
    <3>1. pc' = "syntax"
      BY <2>2, <1>8 DEF ReadColon, SyntaxError, Raise
    <3> QED
      BY <3>1, <1>1, <1>2, RefusedReads
  <2> QED
    BY <2>1, <2>2
<1>9. CASE ReadComma(t)
  <2>1. pc = "comma"
    BY <1>9 DEF ReadComma, NextToken
  <2>2. CASE t.type = EndOf(LastOf(open))
    <3>1. t.type # "T_COMMA"
      BY <2>2 DEF EndOf
    <3>2. Close
      BY <3>1, <2>2, <1>9 DEF ReadComma
    <3> QED
      BY <3>2, <2>1, <2>2, <1>1, <1>2, <1>3, <1>4, CloseReads
  <2>3. CASE t.type = "T_COMMA"
    <3>1. t.type # EndOf(LastOf(open))
      BY <2>3 DEF EndOf
    <3>2. pc' \in {"key", "value"} /\ open' = open
      BY <3>1, <2>3, <1>9 DEF ReadComma, AfterComma
    <3> QED
      BY <3>2, <2>3, <1>1, <1>2, PlainReads DEF Opens, Closes, Reading
  <2>4. CASE t.type # EndOf(LastOf(open)) /\ t.type # "T_COMMA"
    <3>1. SyntaxError
      BY <2>4, <1>9 DEF ReadComma
    <3>2. pc' = "syntax"
      BY <3>1 DEF SyntaxError, Raise
    <3> QED
      BY <3>2, <1>1, <1>2, RefusedReads
  <2> QED
    BY <2>2, <2>3, <2>4
<1>10. CASE ReadEnd(t)
  <2>1. CASE t.type = "T_END"
    <3>1. pc' = "returned" /\ open' = open
      BY <2>1, <1>10 DEF ReadEnd
    <3> QED
      BY <3>1, <2>1, <1>1, <1>2, PlainReads DEF Opens, Closes
  <2>2. CASE t.type # "T_END"
    <3>1. pc' = "syntax"
      BY <2>2, <1>10 DEF ReadEnd, SyntaxError, Raise
    <3> QED
      BY <3>1, <1>1, <1>2, RefusedReads
  <2> QED
    BY <2>1, <2>2
<1> QED
  BY <1>5, <1>6, <1>7, <1>8, <1>9, <1>10

-----------------------------------------------------------------------------
GrammarInv == ReadInv /\ MeaningInv

LEMMA InitGrammar == JsonInit => GrammarInv
BY DEF JsonInit, GrammarInv, ReadInv, MeaningInv

LEMMA DecodeCallGrammar ==
  ASSUME ResourceInv, GrammarInv, DecodeCall
  PROVE  GrammarInv'
<1>1. /\ op' = "decode" /\ pc' = "value" /\ read' = <<>> /\ open' = <<>>
      /\ stack' = <<Value("argument", {})>>
  BY DEF DecodeCall, ResourceInv, ControlInv, GrammarInv, ReadInv
<1>2. Understood("value", <<>>, <<Value("argument", {})>>, <<>>)
  BY NothingRead
<1>3. Opened(<<>>) = 0 /\ Len(<<>>) = 0 /\ <<>> \in Strings /\ 0 < MaxTokens /\ 0 <= MaxTokens
  BY OpenedNothing, CatFacts, CJsonAssumption
<1> QED
  BY <1>1, <1>2, <1>3 DEF GrammarInv, ReadInv, MeaningInv, DecodeReads, DecodeMeans, Reading

LEMMA StoreGrammar ==
  ASSUME ResourceInv, GrammarInv, Store
  PROVE  GrammarInv'
<1>1. MeaningInv'
  BY StoreMeans DEF GrammarInv
<1>2. /\ op = "decode" /\ op' = "decode" /\ pc = "store" /\ read' = read /\ open' = open
      /\ pc' \in {"end", "comma"}
  BY DEF Store, decodeVars
<1>3. ReadInv'
  BY <1>2 DEF GrammarInv, ReadInv, DecodeReads, Reading
<1> QED
  BY <1>1, <1>3 DEF GrammarInv

LEMMA OtherGrammar ==
  ASSUME GrammarInv, (op # "decode" /\ UNCHANGED read) \/ read' = <<>>, op' # "decode"
  PROVE  GrammarInv'
BY DEF GrammarInv, ReadInv, MeaningInv

LEMMA EncodeGrammar ==
  ASSUME GrammarInv, EncodeStep
  PROVE  GrammarInv'
<1>1. op # "decode" /\ op' # "decode" /\ read' = read
  <2>1. ASSUME NEW v, NEW h, EncodeCall(v, h)
        PROVE  op # "decode" /\ op' # "decode" /\ read' = read
    BY <2>1 DEF EncodeCall, decodeVars
  <2>2. ASSUME NEW state, Encoding(state)
        PROVE  op # "decode" /\ op' # "decode" /\ read' = read
    BY <2>2 DEF Encoding
  <2> QED
    BY <2>1, <2>2 DEF EncodeStep, AppendData, NextItem, NextMember, PopItem, CloseTable,
                      EncodeReturn
<1> QED
  BY <1>1, OtherGrammar

LEMMA SettingGrammar ==
  ASSUME GrammarInv, SettingStep
  PROVE  GrammarInv'
<1>1. op # "decode" /\ op' # "decode" /\ read' = read
  BY DEF SettingStep, SetDepths, SetSparse, SetKeepBuffer, Setting, decodeVars
<1> QED
  BY <1>1, OtherGrammar

LEMMA StutterGrammar ==
  ASSUME GrammarInv, UNCHANGED jsonVars
  PROVE  GrammarInv'
<1>1. /\ op' = op /\ pc' = pc /\ read' = read /\ open' = open /\ stack' = stack /\ cfg' = cfg
  BY DEF jsonVars
<1>2. DecodeReads' <=> DecodeReads
  BY <1>1 DEF DecodeReads, LastOf
<1>3. DecodeMeans' <=> DecodeMeans
  BY <1>1 DEF DecodeMeans, LastOf
<1> QED
  BY <1>1, <1>2, <1>3 DEF GrammarInv, ReadInv, MeaningInv

(* Every step keeps what decode knows of the text it reads (lua_cjson.c). *)
THEOREM GrammarInductive == JsonSpec => []GrammarInv
<1>1. JsonInit => GrammarInv
  BY InitGrammar
<1>2. ResourceInv /\ GrammarInv /\ [JsonNext]_jsonVars => GrammarInv'
  <2> SUFFICES ASSUME ResourceInv, GrammarInv, [JsonNext]_jsonVars PROVE GrammarInv'
    OBVIOUS
  <2>1. CASE DecodeCall
    BY <2>1, DecodeCallGrammar
  <2>2. ASSUME NEW t \in Tokens,
               \/ ReadValue(t) \/ ReadFirst(t) \/ ReadKey(t)
               \/ ReadColon(t) \/ ReadComma(t) \/ ReadEnd(t)
        PROVE  GrammarInv'
    BY <2>2, TokenReads, ReadMeans DEF GrammarInv
  <2>3. CASE Store
    BY <2>3, StoreGrammar
  <2>4. CASE EncodeStep
    BY <2>4, EncodeGrammar
  <2>5. CASE Finish
    BY <2>5, OtherGrammar DEF Finish
  <2>6. CASE SettingStep
    BY <2>6, SettingGrammar
  <2>7. CASE UNCHANGED jsonVars
    BY <2>7, StutterGrammar
  <2>8. ASSUME NEW arguments \in 0 .. 2, RefuseCall(arguments)
        PROVE  GrammarInv'
    BY <2>8, OtherGrammar DEF RefuseCall, decodeVars
  <2> QED
    BY <2>1, <2>2, <2>3, <2>4, <2>5, <2>6, <2>7, <2>8 DEF JsonNext, DecodeStep
<1>3. JsonSpec => []ResourceInv
  BY ResourcesInductive
<1> QED
  BY <1>1, <1>2, <1>3, PTL DEF JsonSpec

(* decode returns what the whole text means, and refuses it at the first   *)
(* token with which no JSON text goes on, or where it is nested too deep   *)
(* (json_decode, json_process_value, json_parse_object_context,            *)
(* json_parse_array_context).                                              *)
THEOREM DecodeMeansGrammar == JsonSpec => []DecodesGrammar
<1>1. ResourceInv /\ GrammarInv => DecodesGrammar
  <2> SUFFICES ASSUME ResourceInv, GrammarInv, op = "decode" PROVE DecodesGrammar
    BY DEF DecodesGrammar
  <2>1. DecodeReads /\ DecodeMeans
    BY DEF GrammarInv, ReadInv, MeaningInv
  <2>2. pc = "returned" => <<read, LastOf(stack)>> \in Documents
    BY <2>1, DocumentsComplete DEF DecodeReads, DecodeMeans
  <2>3. pc = "syntax" => read \notin Prefixes
    BY <2>1, PrefixesContinue DEF DecodeMeans, Refuted
  <2>4. pc \notin {"nesting", "syntax"} => Opened(read) <= cfg.decodeDepth
    BY <2>1 DEF DecodeReads, ResourceInv, ControlInv, DepthBalanced
  <2> QED
    BY <2>1, <2>2, <2>3, <2>4 DEF DecodesGrammar, DecodeReads
<1>2. JsonSpec => []ResourceInv /\ []GrammarInv
  BY ResourcesInductive, GrammarInductive
<1> QED
  BY <1>1, <1>2, PTL

-----------------------------------------------------------------------------
(* Encode means the value it is given, the tables that refer to themselves *)
(* included.  EncodesTree speaks only of the end of a call; TreeInv of     *)
(* every step.  That the texts of each depth are well defined comes from   *)
(* InductionFacts.                                                         *)
(* What texts are made of: a key that is a number is written as a string.  *)
Symbols == Tokens \union {StringToken(k) : k \in Nat}
Codes == Seq(Symbols)

LEMMA SymbolTypes ==
  /\ \A type \in {"T_OBJ_BEGIN", "T_OBJ_END", "T_ARR_BEGIN", "T_ARR_END",
                  "T_NULL", "T_COLON", "T_COMMA"} : Token(type) \in Symbols
  /\ \A k \in Texts \union Nat : StringToken(k) \in Symbols
  /\ \A kind \in Kinds : Opening(kind) \in Symbols /\ Closing(kind) \in Symbols
BY DEF Symbols, Tokens, Opening, Closing, EndOf, Kinds

LEMMA Concatenations ==
  ASSUME NEW S
  PROVE  /\ <<>> \in Seq(S)
         /\ \A a \in S : <<a>> \in Seq(S)
         /\ \A s, t \in Seq(S) : s \o t \in Seq(S)
         /\ \A s \in Seq(S) : s \o <<>> = s /\ <<>> \o s = s
         /\ \A s, t, u \in Seq(S) : (s \o t) \o u = s \o (t \o u)
BY ConcatProperties, ConcatEmptySeq, ConcatAssociative

LEMMA Pairs ==
  ASSUME NEW S, NEW a \in S, NEW b \in S
  PROVE  <<a, b>> \in Seq(S) /\ <<a, b>> = <<a>> \o <<b>>
<1>1. <<a>> \in Seq(S) /\ <<b>> \in Seq(S)
  OBVIOUS
<1>2. <<a, b>> = Append(<<a>>, b)
  OBVIOUS
<1> DEFINE one == <<a>>
<1> HIDE DEF one
<1>3. Append(one, b) \in Seq(S) /\ Append(one, b) = one \o <<b>>
  BY <1>1, AppendProperties, AppendIsConcat DEF one
<1> QED
  BY <1>2, <1>3 DEF one

LEMMA StringFacts ==
  /\ <<>> \in Codes
  /\ \A a \in Symbols : <<a>> \in Codes
  /\ \A a, b \in Symbols : <<a, b>> \in Codes /\ <<a, b>> = <<a>> \o <<b>>
  /\ \A s, t \in Codes : s \o t \in Codes
  /\ \A s \in Codes : s \o <<>> = s /\ <<>> \o s = s
  /\ \A s, t, u \in Codes : (s \o t) \o u = s \o (t \o u)
BY Concatenations, Pairs DEF Codes

LEMMA SeparatorType == \A i : Separator(i) \in Codes
BY StringFacts, SymbolTypes DEF Separator

-----------------------------------------------------------------------------
(* The texts of the first i parts follow from those of the i - 1 before.   *)
LEMMA WithPartIs ==
  ASSUME NEW texts, NEW i, NEW part
  PROVE  /\ \A z : z \in WithPart(texts, i, part) <=>
                \E x \in texts, y \in part : z = x \o Separator(i) \o y
         /\ texts = {} \/ part = {} => WithPart(texts, i, part) = {}
BY DEF WithPart

LEMMA WithPartType ==
  ASSUME NEW texts \in SUBSET Codes, NEW i, NEW part \in SUBSET Codes
  PROVE  WithPart(texts, i, part) \in SUBSET Codes
<1> SUFFICES ASSUME NEW z \in WithPart(texts, i, part)
             PROVE  z \in Codes
  OBVIOUS
<1>1. PICK x \in texts, y \in part : z = x \o Separator(i) \o y
  BY WithPartIs
<1>2. x \in Codes /\ y \in Codes
  OBVIOUS
<1> QED
  BY <1>1, <1>2, StringFacts, SeparatorType

LEMMA FirstDefined ==
  ASSUME NEW parts, Len(parts) \in Nat,
         \A i \in 1 .. Len(parts) : parts[i] \in SUBSET Codes
  PROVE  /\ FirstOf(parts)[0] = {<<>>}
         /\ \A i \in 1 .. Len(parts) :
              FirstOf(parts)[i] = WithPart(FirstOf(parts)[i - 1], i, parts[i])
         /\ \A i \in 0 .. Len(parts) : FirstOf(parts)[i] \in SUBSET Codes
<1> DEFINE N == Len(parts)
           Rule(f) == f = [i \in 0 .. N |->
             IF i = 0 THEN {<<>>} ELSE WithPart(f[i - 1], i, parts[i])]
           A == SUBSET Codes
           g == [i \in 1 .. N |-> [texts \in A |-> WithPart(texts, i, parts[i])]]
<1>1. FirstOf(parts) = CHOOSE f : Rule(f)
  BY DEF FirstOf
<1>2. \A i \in 1 .. N, texts \in A : WithPart(texts, i, parts[i]) \in A
  BY WithPartType
<1>3. {<<>>} \in A /\ N \in Nat
  BY StringFacts
<1>4. /\ g \in [1 .. N -> [A -> A]]
      /\ \A i \in 1 .. N : \A texts \in A : g[i][texts] = WithPart(texts, i, parts[i])
  BY <1>2
<1> HIDE DEF g, A
<1> HIDE DEF N
<1>5. PICK f \in [0 .. N -> A] : Recursive(f, {<<>>}, g, N)
  BY <1>3, <1>4, Recursion
<1>6. f[0] = {<<>>} /\ \A i \in 1 .. N : f[i] = g[i][f[i - 1]]
  BY <1>5 DEF Recursive
<1>7. ASSUME NEW i \in 1 .. N
      PROVE  f[i] = WithPart(f[i - 1], i, parts[i]) /\ i # 0 /\ i \in 0 .. N /\ i - 1 \in 0 .. N
  BY <1>3, <1>4, <1>6
<1>8. Rule(f)
  <2>1. f = [i \in 0 .. N |-> f[i]]
    BY <1>6
  <2>2. ASSUME NEW i \in 0 .. N
        PROVE  f[i] = IF i = 0 THEN {<<>>}
                      ELSE WithPart(f[i - 1], i, parts[i])
    <3>1. i = 0 \/ i \in 1 .. N
      BY <1>3
    <3> QED
      BY <1>6, <1>7, <3>1
  <2> QED
    BY <2>1, <2>2
<1> DEFINE h == FirstOf(parts)
<1>9. Rule(h)
  <2> HIDE DEF Rule
  <2> QED
    BY <1>1, <1>8
<1>10. h[0] = {<<>>} /\ \A i \in 1 .. N : h[i] = WithPart(h[i - 1], i, parts[i])
  <2> HIDE DEF h
  <2>1. \A i \in 0 .. N : h[i] = IF i = 0 THEN {<<>>}
                      ELSE WithPart(h[i - 1], i, parts[i])
    BY <1>9
  <2> QED
    BY <1>3, <2>1
<1> HIDE DEF h
<1>11. \A i \in 1 .. N : f[i - 1] = h[i - 1] => f[i] = h[i]
  BY <1>7, <1>10
<1>12. \A i \in 0 .. N : f[i] = h[i]
  <2>1. SameSteps(f, h, N)
    BY <1>6, <1>10, <1>11 DEF SameSteps
  <2> QED
    BY <1>3, <2>1, SameRecursion
<1> QED
  BY <1>6, <1>10, <1>12 DEF h, A, N

(* A part that has no text leaves none for the whole.                      *)
LEMMA FirstEmpty ==
  ASSUME NEW parts, Len(parts) \in Nat,
         \A i \in 1 .. Len(parts) : parts[i] \in SUBSET Codes,
         NEW j \in 1 .. Len(parts), parts[j] = {}
  PROVE  FirstOf(parts)[Len(parts)] = {}
<1> DEFINE T == {n \in Nat : j <= n /\ n <= Len(parts) => FirstOf(parts)[n] = {}}
<1>1. \A i \in 1 .. Len(parts) :
        (parts[i] = {} \/ FirstOf(parts)[i - 1] = {}) => FirstOf(parts)[i] = {}
  BY FirstDefined, WithPartIs
<1>2. 0 \in T /\ T \in SUBSET Nat
  OBVIOUS
<1>3. ASSUME NEW n \in T
      PROVE  n + 1 \in T
  <2> SUFFICES ASSUME j <= n + 1, n + 1 <= Len(parts)
               PROVE  FirstOf(parts)[n + 1] = {}
    OBVIOUS
  <2>1. n + 1 \in 1 .. Len(parts) /\ (n + 1) - 1 = n
    OBVIOUS
  <2>2. j = n + 1 \/ FirstOf(parts)[n] = {}
    OBVIOUS
  <2> QED
    BY <1>1, <2>1, <2>2
<1> HIDE DEF T
<1>4. T = Nat
  BY <1>2, <1>3, SetInduction
<1> QED
  BY <1>4 DEF T

-----------------------------------------------------------------------------
(* The keys of a table are finitely many, and the orders in which encode   *)
(* takes them have the same keys.                                          *)
LEMMA Largest ==
  ASSUME NEW S \in SUBSET Nat, IsFiniteSet(S), S # {}
  PROVE  \E m \in S : \A j \in S : j <= m
<1> DEFINE HasLargest(R) == \E m \in R : \A j \in R : j <= m
           T == {n \in Nat : \A R \in SUBSET Nat :
                   IsFiniteSet(R) /\ Cardinality(R) = n /\ R # {} => HasLargest(R)}
<1>1. 0 \in T /\ T \in SUBSET Nat
  BY FS_EmptySet
<1>2. ASSUME NEW n \in T PROVE n + 1 \in T
  <2> SUFFICES ASSUME NEW R \in SUBSET Nat, IsFiniteSet(R), Cardinality(R) = n + 1, R # {}
               PROVE  HasLargest(R)
    OBVIOUS
  <2>1. PICK x \in R : TRUE
    OBVIOUS
  <2>2. IsFiniteSet(R \ {x}) /\ Cardinality(R \ {x}) = n /\ R \ {x} \in SUBSET Nat
    <3>1. IsFiniteSet(R \ {x}) /\ Cardinality(R \ {x}) = Cardinality(R) - 1
      BY <2>1, FS_RemoveElement
    <3>2. n \in Nat
      OBVIOUS
    <3> QED
      BY <3>1, <3>2
  <2>3. CASE R \ {x} = {}
    BY <2>1, <2>3
  <2>4. CASE R \ {x} # {}
    <3>1. PICK m \in R \ {x} : \A j \in R \ {x} : j <= m
      BY <2>2, <2>4
    <3>2. CASE x <= m
      BY <2>1, <3>1, <3>2
    <3>3. CASE ~(x <= m)
      <4>1. \A j \in R : j <= x
        BY <2>1, <3>1, <3>3
      <4> QED
        BY <2>1, <4>1
    <3> QED
      BY <3>2, <3>3
  <2> QED
    BY <2>3, <2>4
<1> HIDE DEF T
<1>3. T = Nat
  BY <1>1, <1>2, SetInduction
<1>4. Cardinality(S) \in T
  BY <1>3, FS_CardinalityType
<1> QED
  BY <1>4 DEF T

LEMMA FiniteKeys ==
  ASSUME NEW c, IsFiniteSet(c)
  PROVE  IsFiniteSet(KeysOf(c))
<1> DEFINE f == [e \in c |-> e[1]]
<1>1. f \in Surjection(c, KeysOf(c))
  BY DEF KeysOf, Surjection
<1> HIDE DEF f
<1> QED
  BY <1>1, FS_Surjection

LEMMA LengthType ==
  ASSUME NEW c, IsFiniteSet(c)
  PROVE  ArrayLength(c) \in Nat
<1>1. CASE ArrayKeys(c) /\ KeysOf(c) # {}
  <2>1. KeysOf(c) \in SUBSET Nat
    BY <1>1 DEF ArrayKeys
  <2>2. \E m \in KeysOf(c) : \A j \in KeysOf(c) : j <= m
    BY <1>1, <2>1, FiniteKeys, Largest
  <2>3. MaxKey(c) \in KeysOf(c)
    BY <1>1, <2>2 DEF MaxKey
  <2> QED
    BY <2>1, <2>3 DEF ArrayLength
<1>2. CASE ~(ArrayKeys(c) /\ KeysOf(c) # {})
  BY <1>2 DEF ArrayLength, MaxKey
<1> QED
  BY <1>1, <1>2

LEMMA OrderFacts ==
  ASSUME NEW c, IsFiniteSet(c), NEW keys \in KeyOrders(c)
  PROVE  /\ IsSeq(keys) /\ Len(keys) \in Nat /\ DOMAIN keys = 1 .. Len(keys)
         /\ ArrayLength(c) > 0 => keys = [i \in 1 .. ArrayLength(c) |-> i]
         /\ ~(ArrayLength(c) > 0) =>
              /\ keys \in Injection(1 .. Cardinality(KeysOf(c)), KeysOf(c))
              /\ Cardinality(KeysOf(c)) \in Nat /\ IsFiniteSet(KeysOf(c))
<1>1. CASE ArrayLength(c) > 0
  <2>1. ArrayLength(c) \in Nat /\ keys = [i \in 1 .. ArrayLength(c) |-> i]
    BY <1>1, LengthType DEF KeyOrders
  <2>2. keys \in Seq(Nat)
    <3> DEFINE n == ArrayLength(c)
    <3>1. n \in Nat /\ keys \in [1 .. n -> Nat]
      BY <2>1
    <3> HIDE DEF n
    <3> QED
      BY <3>1
  <2> QED
    BY <1>1, <2>1, <2>2, SeqIsSeq
<1>2. CASE ~(ArrayLength(c) > 0)
  <2>1. IsFiniteSet(KeysOf(c)) /\ Cardinality(KeysOf(c)) \in Nat
    BY FiniteKeys, FS_CardinalityType
  <2>2. keys \in [1 .. Cardinality(KeysOf(c)) -> KeysOf(c)]
    BY <1>2 DEF KeyOrders, Orders
  <2>3. keys \in Injection(1 .. Cardinality(KeysOf(c)), KeysOf(c))
    BY <1>2, <2>2 DEF KeyOrders, Orders, Injection, IsInjective
  <2>4. keys \in Seq(KeysOf(c))
    BY <2>1, <2>2
  <2> QED
    BY <1>2, <2>1, <2>3, <2>4, SeqIsSeq
<1> QED
  BY <1>1, <1>2

LEMMA OrdersCover ==
  ASSUME NEW c, IsFiniteSet(c), NEW keys \in KeyOrders(c), NEW other \in KeyOrders(c),
         NEW i \in 1 .. Len(keys)
  PROVE  \E j \in 1 .. Len(other) : other[j] = keys[i]
<1>1. CASE ArrayLength(c) > 0
  BY <1>1, OrderFacts
<1>2. CASE ~(ArrayLength(c) > 0)
  <2> DEFINE S == KeysOf(c)
             n == Cardinality(S)
  <2>1. n \in Nat /\ IsFiniteSet(S) /\ keys \in Injection(1 .. n, S) /\ other \in Injection(1 .. n, S)
    BY <1>2, OrderFacts
  <2> HIDE DEF S
  <2>2. Cardinality(1 .. n) = n
    BY <2>1, FS_Interval
  <2>3. other \in Surjection(1 .. n, S)
    BY <2>1, <2>2, FS_Injection
  <2>4. DOMAIN keys = 1 .. n /\ DOMAIN other = 1 .. n /\ keys \in [1 .. n -> S]
    BY <2>1 DEF Injection
  <2>5. DOMAIN keys = 1 .. Len(keys) /\ DOMAIN other = 1 .. Len(other)
    BY OrderFacts
  <2>6. \A s \in S : \E j \in 1 .. n : other[j] = s
    BY <2>3 DEF Surjection
  <2>7. keys[i] \in S
    BY <2>4, <2>5
  <2> QED
    BY <2>4, <2>5, <2>6, <2>7
<1> QED
  BY <1>1, <1>2

-----------------------------------------------------------------------------
(* The texts of values, entries and tables, from those of the tables below.*)
Inner(h) == [DOMAIN h -> SUBSET Codes]
IsContents(c, h) == IsFiniteSet(c) /\ \A e \in c : IsLuaValue(e[2], h)

LEMMA ContentsOfHeap ==
  ASSUME NEW h \in Heaps, NEW t \in DOMAIN h
  PROVE  IsContents(h[t], h)
BY HeapsAssumption DEF IsContents

LEMMA ValueType ==
  ASSUME NEW h, NEW inner \in Inner(h), NEW v, IsLuaValue(v, h)
  PROVE  /\ ValueTexts(v, inner) \in SUBSET Codes
         /\ v.type = "table" => \A t \in v.of : t \in DOMAIN h /\ ValueTexts(v, inner) = inner[t]
         /\ v.type = "string" => \A s \in v.of : s \in Texts /\ ValueTexts(v, inner) = {<<StringToken(s)>>}
<1>1. CASE v.type = "table"
  <2>1. PICK t \in DOMAIN h : v.of = {t}
    BY <1>1 DEF IsLuaValue
  <2>2. ValueTexts(v, inner) = UNION {inner[u] : u \in v.of}
    BY <1>1 DEF ValueTexts
  <2>3. ValueTexts(v, inner) = inner[t]
    BY <2>1, <2>2
  <2>4. inner[t] \in SUBSET Codes
    BY <2>1 DEF Inner
  <2> QED
    BY <1>1, <2>1, <2>3, <2>4
<1>2. CASE v.type = "string"
  <2>1. PICK s \in Texts : v.of = {s}
    BY <1>2 DEF IsLuaValue
  <2>2. ValueTexts(v, inner) = {<<StringToken(x)>> : x \in v.of}
    BY <1>2 DEF ValueTexts
  <2>3. ValueTexts(v, inner) = {<<StringToken(s)>>}
    BY <2>1, <2>2
  <2>4. <<StringToken(s)>> \in Codes
    BY StringFacts, SymbolTypes
  <2> QED
    BY <1>2, <2>1, <2>3, <2>4
<1>3. CASE v.type \notin {"table", "string"}
  <2>1. <<Token("T_NULL")>> \in Codes
    BY StringFacts, SymbolTypes
  <2>2. ValueTexts(v, inner) \in {{}, {<<Token("T_NULL")>>}}
    BY <1>3 DEF ValueTexts
  <2> QED
    BY <1>3, <2>1, <2>2
<1> QED
  BY <1>1, <1>2, <1>3

LEMMA AtType ==
  ASSUME NEW h, NEW c, IsContents(c, h), NEW k
  PROVE  IsLuaValue(At(c, k), h)
<1>1. CASE k \in KeysOf(c)
  <2>1. \E e \in c : e[1] = k
    BY <1>1 DEF KeysOf
  <2>2. PICK e \in c : At(c, k) = e[2]
    BY <1>1, <2>1 DEF At
  <2> QED
    BY <2>2 DEF IsContents
<1>2. CASE k \notin KeysOf(c)
  BY <1>2 DEF At, IsLuaValue, Nil, Value
<1> QED
  BY <1>1, <1>2

MemberStart(k) == <<StringToken(k), Token("T_COLON")>>

LEMMA MemberTexts ==
  ASSUME NEW h, NEW inner \in Inner(h), NEW c, IsContents(c, h), NEW k, ~(ArrayLength(c) > 0)
  PROVE  /\ k \in Texts \union Nat =>
              /\ MemberStart(k) \in Codes
              /\ \A y \in ValueTexts(At(c, k), inner) :
                   MemberStart(k) \o y \in EntryTexts(c, k, inner)
              /\ ValueTexts(At(c, k), inner) = {} => EntryTexts(c, k, inner) = {}
         /\ k \notin Texts \union Nat => EntryTexts(c, k, inner) = {}
         /\ EntryTexts(c, k, inner) \in SUBSET Codes
<1> DEFINE texts == IF k \in Texts \union Nat THEN ValueTexts(At(c, k), inner) ELSE {}
<1>1. EntryTexts(c, k, inner) = {MemberStart(k) \o y : y \in texts}
  BY DEF EntryTexts, MemberStart
<1>2. texts \in SUBSET Codes
  BY AtType, ValueType
<1>3. k \in Texts \union Nat => MemberStart(k) \in Codes
  BY StringFacts, SymbolTypes DEF MemberStart
<1>4. k \notin Texts \union Nat => texts = {}
  OBVIOUS
<1>5. k \in Texts \union Nat => texts = ValueTexts(At(c, k), inner)
  OBVIOUS
<1> HIDE DEF texts
<1>6. \A y \in texts : MemberStart(k) \o y \in EntryTexts(c, k, inner)
  BY <1>1
<1>7. texts = {} => EntryTexts(c, k, inner) = {}
  BY <1>1
<1>8. EntryTexts(c, k, inner) \in SUBSET Codes
  <2>1. \A y \in texts : MemberStart(k) \o y \in Codes
    BY <1>2, <1>3, <1>4, StringFacts
  <2> QED
    BY <1>1, <2>1
<1> QED
  BY <1>3, <1>4, <1>5, <1>6, <1>7, <1>8

LEMMA EntryType ==
  ASSUME NEW h, NEW inner \in Inner(h), NEW c, IsContents(c, h), NEW k
  PROVE  EntryTexts(c, k, inner) \in SUBSET Codes
<1>1. CASE ArrayLength(c) > 0
  <2>1. EntryTexts(c, k, inner) = ValueTexts(At(c, k), inner)
    BY <1>1 DEF EntryTexts
  <2> QED
    BY <2>1, AtType, ValueType
<1>2. CASE ~(ArrayLength(c) > 0)
  BY <1>2, MemberTexts
<1> QED
  BY <1>1, <1>2

LEMMA PartsFacts ==
  ASSUME NEW h, NEW inner \in Inner(h), NEW c, IsContents(c, h), NEW keys \in KeyOrders(c)
  PROVE  /\ Len(keys) \in Nat /\ Len(Parts(c, keys, inner)) = Len(keys)
         /\ \A i \in 1 .. Len(keys) :
              /\ Parts(c, keys, inner)[i] = EntryTexts(c, keys[i], inner)
              /\ Parts(c, keys, inner)[i] \in SUBSET Codes
<1> DEFINE n == Len(keys)
           parts == Parts(c, keys, inner)
<1>1. n \in Nat
  BY OrderFacts DEF IsContents
<1>2. \A i \in 1 .. n : parts[i] = EntryTexts(c, keys[i], inner)
  BY DEF Parts
<1>3. \A i \in 1 .. n : parts[i] \in SUBSET Codes
  BY <1>2, EntryType
<1>4. parts \in [1 .. n -> SUBSET Codes]
  BY <1>3 DEF Parts
<1>5. Len(parts) = n
  <2> HIDE DEF n, parts
  <2> QED
    BY <1>1, <1>4
<1> QED
  BY <1>1, <1>2, <1>3, <1>5

(* What is there of a table after j of its entries, in one order.          *)
Prefixed(c, keys, inner, j) == FirstOf(Parts(c, keys, inner))[j]

LEMMA AfterFacts ==
  ASSUME NEW h, NEW inner \in Inner(h), NEW c, IsContents(c, h), NEW keys \in KeyOrders(c)
  PROVE  /\ <<>> \in Prefixed(c, keys, inner, 0)
         /\ \A j \in 0 .. Len(keys) : Prefixed(c, keys, inner, j) \in SUBSET Codes
         /\ \A j \in 1 .. Len(keys) :
              /\ \A u \in Prefixed(c, keys, inner, j - 1), y \in EntryTexts(c, keys[j], inner) :
                   u \o Separator(j) \o y \in Prefixed(c, keys, inner, j)
              /\ EntryTexts(c, keys[j], inner) = {} => Prefixed(c, keys, inner, Len(keys)) = {}
<1> DEFINE parts == Parts(c, keys, inner)
           n == Len(keys)
<1>1. /\ n \in Nat /\ Len(parts) = n
      /\ \A i \in 1 .. n : parts[i] = EntryTexts(c, keys[i], inner) /\ parts[i] \in SUBSET Codes
  BY PartsFacts
<1> HIDE DEF parts
<1>2. /\ FirstOf(parts)[0] = {<<>>}
      /\ \A i \in 1 .. n : FirstOf(parts)[i] = WithPart(FirstOf(parts)[i - 1], i, parts[i])
      /\ \A i \in 0 .. n : FirstOf(parts)[i] \in SUBSET Codes
  BY <1>1, FirstDefined
<1>3. \A j : Prefixed(c, keys, inner, j) = FirstOf(parts)[j]
  BY DEF Prefixed, parts
<1>4. ASSUME NEW j \in 1 .. n, NEW u \in FirstOf(parts)[j - 1], NEW y \in parts[j]
      PROVE  u \o Separator(j) \o y \in FirstOf(parts)[j]
  <2>1. u \o Separator(j) \o y \in WithPart(FirstOf(parts)[j - 1], j, parts[j])
    BY DEF WithPart
  <2> QED
    BY <1>2, <2>1
<1>5. ASSUME NEW j \in 1 .. n, parts[j] = {}
      PROVE  FirstOf(parts)[n] = {}
  BY <1>1, <1>5, FirstEmpty
<1> HIDE DEF n
<1>6. \A j \in 1 .. n : parts[j] = EntryTexts(c, keys[j], inner)
  BY <1>1
<1> QED
  BY <1>2, <1>3, <1>4, <1>5, <1>6 DEF n

LEMMA TableFacts ==
  ASSUME NEW h, NEW inner \in Inner(h), NEW c, IsContents(c, h), NEW convert
  PROVE  /\ TableTexts(c, convert, inner) \in SUBSET Codes
         /\ Sparse(c) /\ ~convert => TableTexts(c, convert, inner) = {}
         /\ \A keys \in KeyOrders(c) :
              /\ \A u \in Prefixed(c, keys, inner, Len(keys)) :
                   ~(Sparse(c) /\ ~convert) =>
                     <<Opening(KindOf(c))>> \o u \o <<Closing(KindOf(c))>>
                       \in TableTexts(c, convert, inner)
              /\ \A j \in 1 .. Len(keys) :
                   EntryTexts(c, keys[j], inner) = {} => TableTexts(c, convert, inner) = {}
<1> DEFINE left == <<Opening(KindOf(c))>>
           right == <<Closing(KindOf(c))>>
           all == UNION {Prefixed(c, keys, inner, Len(keys)) : keys \in KeyOrders(c)}
<1>1. left \in Codes /\ right \in Codes
  BY StringFacts, SymbolTypes DEF KindOf, Kinds
<1>2. TableTexts(c, convert, inner) =
        IF Sparse(c) /\ ~convert THEN {} ELSE {left \o x \o right : x \in all}
  BY DEF TableTexts, Prefixed
<1> HIDE DEF left, right
<1>3. all \in SUBSET Codes
  <2>1. \A keys \in KeyOrders(c) : Prefixed(c, keys, inner, Len(keys)) \in SUBSET Codes
    <3>1. \A keys \in KeyOrders(c) : Len(keys) \in 0 .. Len(keys)
      BY OrderFacts DEF IsContents
    <3> QED
      BY <3>1, AfterFacts
  <2> QED
    BY <2>1
<1>4. ASSUME NEW keys \in KeyOrders(c), NEW u \in Prefixed(c, keys, inner, Len(keys))
      PROVE  u \in all
  OBVIOUS
<1>5. ASSUME NEW keys \in KeyOrders(c), NEW j \in 1 .. Len(keys),
             EntryTexts(c, keys[j], inner) = {}
      PROVE  all = {}
  <2> SUFFICES ASSUME NEW other \in KeyOrders(c)
               PROVE  Prefixed(c, other, inner, Len(other)) = {}
    OBVIOUS
  <2>1. PICK i \in 1 .. Len(other) : other[i] = keys[j]
    BY OrdersCover DEF IsContents
  <2>2. EntryTexts(c, other[i], inner) = {}
    BY <1>5, <2>1
  <2> QED
    BY <2>2, AfterFacts
<1> HIDE DEF all
<1>6. \A x \in all : left \o x \o right \in Codes
  BY <1>1, <1>3, StringFacts
<1>7. TableTexts(c, convert, inner) \in SUBSET Codes
  <2>1. CASE Sparse(c) /\ ~convert
    BY <1>2, <2>1
  <2>2. CASE ~(Sparse(c) /\ ~convert)
    <3>1. TableTexts(c, convert, inner) = {left \o x \o right : x \in all}
      BY <1>2, <2>2
    <3> QED
      BY <1>6, <3>1
  <2> QED
    BY <2>1, <2>2
<1>8. Sparse(c) /\ ~convert => TableTexts(c, convert, inner) = {}
  BY <1>2
<1>9. all = {} => TableTexts(c, convert, inner) = {}
  BY <1>2
<1>10. \A x \in all : ~(Sparse(c) /\ ~convert) => left \o x \o right \in TableTexts(c, convert, inner)
  BY <1>2
<1> QED
  BY <1>4, <1>5, <1>7, <1>8, <1>9, <1>10 DEF left, right

LEMMA NestedDefined ==
  ASSUME NEW h \in Heaps, NEW convert, NEW depths \in Nat
  PROVE  /\ Nested(h, convert, depths)[0] = [t \in DOMAIN h |-> {}]
         /\ \A d \in 1 .. depths :
              Nested(h, convert, depths)[d]
                = TextsOfAll(h, convert, Nested(h, convert, depths)[d - 1])
         /\ \A d \in 0 .. depths : Nested(h, convert, depths)[d] \in Inner(h)
<1> DEFINE A == Inner(h)
           none == [t \in DOMAIN h |-> {}]
           Rule(f) == f = [d \in 0 .. depths |->
             IF d = 0 THEN none ELSE TextsOfAll(h, convert, f[d - 1])]
           g == [d \in 1 .. depths |-> [inner \in A |-> TextsOfAll(h, convert, inner)]]
<1>1. Nested(h, convert, depths) = CHOOSE f : Rule(f)
  BY DEF Nested
<1>2. \A inner \in A : TextsOfAll(h, convert, inner) \in A
  <2> SUFFICES ASSUME NEW inner \in A, NEW t \in DOMAIN h
               PROVE  TableTexts(h[t], convert, inner) \in SUBSET Codes
    BY DEF TextsOfAll, Inner
  <2> QED
    BY ContentsOfHeap, TableFacts
<1>3. none \in A
  BY DEF Inner
<1>4. /\ g \in [1 .. depths -> [A -> A]]
      /\ \A d \in 1 .. depths : \A inner \in A : g[d][inner] = TextsOfAll(h, convert, inner)
  BY <1>2
<1> HIDE DEF g, A, none
<1>5. PICK f \in [0 .. depths -> A] : Recursive(f, none, g, depths)
  BY <1>3, <1>4, Recursion
<1>6. f[0] = none /\ \A d \in 1 .. depths : f[d] = g[d][f[d - 1]]
  BY <1>5 DEF Recursive
<1>7. ASSUME NEW d \in 1 .. depths
      PROVE  f[d] = TextsOfAll(h, convert, f[d - 1]) /\ d # 0 /\ d \in 0 .. depths /\ d - 1 \in 0 .. depths
  BY <1>4, <1>6
<1>8. Rule(f)
  <2>1. f = [d \in 0 .. depths |-> f[d]]
    BY <1>6
  <2>2. ASSUME NEW d \in 0 .. depths
        PROVE  f[d] = IF d = 0 THEN none ELSE TextsOfAll(h, convert, f[d - 1])
    <3>1. d = 0 \/ d \in 1 .. depths
      OBVIOUS
    <3> QED
      BY <1>6, <1>7, <3>1
  <2> QED
    BY <2>1, <2>2
<1> DEFINE nested == Nested(h, convert, depths)
<1>9. Rule(nested)
  <2> HIDE DEF Rule
  <2> QED
    BY <1>1, <1>8
<1>10. nested[0] = none /\ \A d \in 1 .. depths : nested[d] = TextsOfAll(h, convert, nested[d - 1])
  <2> HIDE DEF nested
  <2>1. \A d \in 0 .. depths : nested[d] = IF d = 0 THEN none ELSE TextsOfAll(h, convert, nested[d - 1])
    BY <1>9
  <2> QED
    BY <2>1
<1> HIDE DEF nested
<1>11. \A d \in 1 .. depths : f[d - 1] = nested[d - 1] => f[d] = nested[d]
  BY <1>7, <1>10
<1>12. \A d \in 0 .. depths : f[d] = nested[d]
  <2>1. SameSteps(f, nested, depths)
    BY <1>6, <1>10, <1>11 DEF SameSteps
  <2> QED
    BY <2>1, SameRecursion
<1>13. \A d \in 0 .. depths : nested[d] \in A
  BY <1>12
<1> QED
  BY <1>10, <1>13 DEF nested, A, none

-----------------------------------------------------------------------------
(***************************************************************************)
(* The invariant.  A call of encode is what it works on; before a frame i, *)
(* pre[i] is in the buffer, and with any text of the frame's table after   *)
(* it the buffer would be what the frame around it expects.                *)
(***************************************************************************)
Calls == [heap : Heaps, convert : BOOLEAN, depth : Nat \ {0}, root : Roots]
Call == [heap |-> heap, convert |-> cfg.convert, depth |-> cfg.encodeDepth,
         root |-> stack[1]]

(* The texts of tables at most d deep, and those of the argument. *)
Nesting(q, d) == Nested(q.heap, q.convert, q.depth)[d]
Whole(q) == ValueTexts(q.root, Nesting(q, q.depth))

Left(keys, j) == SubSeq(keys, j + 1, Len(keys))

(* The buffer can be s in frame f, the i-th, between two of its entries.   *)
BetweenEntries(q, i, f, before, s) ==
  LET c == q.heap[f.table]
  IN  \E keys \in KeyOrders(c) : \E j \in 0 .. Len(keys) :
        /\ f.left = Left(keys, j) /\ (f.comma <=> j > 0)
        /\ \E u \in Prefixed(c, keys, Nesting(q, q.depth - i), j) :
             s = before \o (<<Opening(f.kind)>> \o u)

Allowed(q, fs, pre, i, s) ==
  IF i = 0 THEN s \in Whole(q) ELSE BetweenEntries(q, i, fs[i], pre[i], s)

(* Each of the texts can follow s; if there is none, the argument has none.*)
Fits(q, fs, pre, i, s, texts) ==
  /\ \A y \in texts : Allowed(q, fs, pre, i, s \o y)
  /\ texts = {} => Whole(q) = {}

IsFrameOf(q, f) ==
  /\ DOMAIN f = {"table", "kind", "left", "comma"}
  /\ f.table \in DOMAIN q.heap
  /\ f.kind = KindOf(q.heap[f.table])
  /\ ~(Sparse(q.heap[f.table]) /\ ~q.convert)

Linked(q, fs, pre, i) ==
  Fits(q, fs, pre, i - 1, pre[i], Nesting(q, q.depth - i + 1)[fs[i].table])

Chain(q, fs, pre) ==
  /\ pre \in Seq(Codes) /\ Len(pre) = Len(fs) /\ Len(fs) <= q.depth
  /\ \A i \in 1 .. Len(fs) : IsFrameOf(q, fs[i]) /\ Linked(q, fs, pre, i)

Midway(q, pre) ==
  /\ Buffer \in Codes /\ Chain(q, frames, pre)
  /\ pc = "data" =>
       /\ IsLuaValue(LastOf(stack), q.heap)
       /\ Fits(q, frames, pre, Len(frames), Buffer,
               ValueTexts(LastOf(stack), Nesting(q, q.depth - Len(frames))))
  /\ pc \in {"loop", "done"} => Allowed(q, frames, pre, Len(frames), Buffer)

Outcome(q) ==
  /\ pc = "returned" => LastOf(stack).of \subseteq Whole(q)
  /\ pc = "refused" => Whole(q) = {}
  /\ pc = "nesting" => Whole(q) = {} \/ Len(stack) + 2 > MaxCStack

TreeInv ==
  op = "encode" =>
    /\ Call \in Calls /\ Outcome(Call)
    /\ pc \in Writing => \E pre \in Seq(Codes) : Midway(Call, pre)

-----------------------------------------------------------------------------
LEMMA BelowFacts ==
  ASSUME NEW q \in Calls
  PROVE  /\ q.heap \in Heaps /\ q.depth \in Nat \ {0} /\ IsLuaValue(q.root, q.heap)
         /\ \A d \in 0 .. q.depth : Nesting(q, d) \in Inner(q.heap)
         /\ \A t \in DOMAIN q.heap : Nesting(q, 0)[t] = {}
         /\ \A d \in 1 .. q.depth, t \in DOMAIN q.heap :
              Nesting(q, d)[t] = TableTexts(q.heap[t], q.convert, Nesting(q, d - 1))
         /\ Whole(q) \in SUBSET Codes
<1>1. /\ q.heap \in Heaps /\ q.depth \in Nat \ {0} /\ q.root \in Roots
  BY DEF Calls
<1>2. IsLuaValue(q.root, q.heap)
  BY <1>1, HeapsAssumption
<1>3. /\ Nesting(q, 0) = [t \in DOMAIN q.heap |-> {}]
      /\ \A d \in 1 .. q.depth : Nesting(q, d) = TextsOfAll(q.heap, q.convert, Nesting(q, d - 1))
      /\ \A d \in 0 .. q.depth : Nesting(q, d) \in Inner(q.heap)
  BY <1>1, NestedDefined DEF Nesting
<1>4. Whole(q) \in SUBSET Codes
  <2>1. Nesting(q, q.depth) \in Inner(q.heap)
    BY <1>1, <1>3
  <2> QED
    BY <1>2, <2>1, ValueType DEF Whole
<1> QED
  BY <1>1, <1>2, <1>3, <1>4 DEF TextsOfAll

LEMMA LeftFacts ==
  ASSUME NEW keys, IsSeq(keys), NEW j \in Nat, j <= Len(keys)
  PROVE  /\ Left(keys, 0) = keys
         /\ Left(keys, j) = <<>> <=> j = Len(keys)
         /\ j < Len(keys) =>
              Head(Left(keys, j)) = keys[j + 1] /\ Tail(Left(keys, j)) = Left(keys, j + 1)
<1> DEFINE S == {keys[i] : i \in DOMAIN keys}
           n == Len(keys)
<1>1. keys \in Seq(S) /\ n \in Nat /\ \A i \in 1 .. n : keys[i] \in S
  BY SeqIsSeq, ElementOfSeq DEF IsSeq
<1> HIDE DEF S
<1>2. ASSUME NEW m \in Nat, m <= n
      PROVE  /\ Left(keys, m) \in Seq(S) /\ Len(Left(keys, m)) = n - m
             /\ \A i \in 1 .. n - m : Left(keys, m)[i] = keys[m + i]
  <2>1. \A i \in m + 1 .. n : keys[i] \in S
    BY <1>1, <1>2
  <2>2. /\ Left(keys, m) \in Seq(S)
        /\ Len(Left(keys, m)) = IF m + 1 <= n THEN n - (m + 1) + 1 ELSE 0
        /\ \A i \in 1 .. n - (m + 1) + 1 : Left(keys, m)[i] = keys[m + 1 + i - 1]
    <3>1. m + 1 \in Int /\ n \in Int
      BY <1>1
    <3> QED
      BY <1>1, <2>1, <3>1, SubSeqProperties DEF Left
  <2>3. Len(Left(keys, m)) = n - m
    BY <1>1, <1>2, <2>2
  <2>4. ASSUME NEW i \in 1 .. n - m PROVE Left(keys, m)[i] = keys[m + i]
    <3>1. i \in 1 .. n - (m + 1) + 1 /\ m + 1 + i - 1 = m + i
      BY <1>1
    <3> QED
      BY <2>2, <3>1
  <2> QED
    BY <2>2, <2>3, <2>4
<1>3. Left(keys, 0) = keys
  <2>1. Left(keys, 0) \in Seq(S) /\ Len(Left(keys, 0)) = n /\ \A i \in 1 .. n : Left(keys, 0)[i] = keys[i]
    BY <1>1, <1>2
  <2> QED
    BY <1>1, <2>1, SeqEqual
<1>4. Left(keys, j) = <<>> <=> j = n
  <2>1. Left(keys, j) = <<>> <=> Len(Left(keys, j)) = 0
    BY <1>2, EmptySeq
  <2> QED
    BY <1>1, <1>2, <2>1
<1>5. ASSUME j < n
      PROVE  Head(Left(keys, j)) = keys[j + 1] /\ Tail(Left(keys, j)) = Left(keys, j + 1)
  <2> DEFINE s == Left(keys, j)
             t == Left(keys, j + 1)
  <2>1. /\ s \in Seq(S) /\ Len(s) = n - j /\ \A i \in 1 .. n - j : s[i] = keys[j + i]
    BY <1>2
  <2>2. /\ t \in Seq(S) /\ Len(t) = n - j - 1
        /\ \A i \in 1 .. n - j - 1 : t[i] = keys[j + 1 + i]
    <3>1. j + 1 \in Nat /\ j + 1 <= n /\ n - (j + 1) = n - j - 1
      BY <1>1, <1>5
    <3> QED
      BY <1>2, <3>1
  <2> HIDE DEF s, t
  <2>3. s # <<>>
    BY <1>1, <1>5, <2>1, EmptySeq
  <2>4. /\ Head(s) = s[1] /\ Tail(s) \in Seq(S) /\ Len(Tail(s)) = Len(s) - 1
        /\ \A i \in 1 .. Len(Tail(s)) : Tail(s)[i] = s[i + 1]
    BY <2>1, <2>3, HeadTailProperties
  <2>5. Head(s) = keys[j + 1]
    BY <1>1, <1>5, <2>1, <2>4
  <2>6. ASSUME NEW i \in 1 .. n - j - 1 PROVE Tail(s)[i] = t[i]
    <3>1. i + 1 \in 1 .. n - j /\ j + (i + 1) = j + 1 + i /\ i \in 1 .. Len(Tail(s))
      BY <1>1, <2>1, <2>4
    <3> QED
      BY <2>1, <2>2, <2>4, <3>1
  <2>7. Tail(s) = t
    BY <1>1, <1>5, <2>1, <2>2, <2>4, <2>6, SeqEqual
  <2> QED
    BY <2>5, <2>7 DEF s, t
<1> QED
  BY <1>3, <1>4, <1>5

-----------------------------------------------------------------------------
(* What a step does to the tables that are open. *)
LEMMA SameAllowed ==
  ASSUME NEW q, NEW fs, NEW pre, NEW gs, NEW new, NEW i, NEW s,
         i # 0 => fs[i] = gs[i] /\ pre[i] = new[i]
  PROVE  Allowed(q, fs, pre, i, s) <=> Allowed(q, gs, new, i, s)
BY DEF Allowed

LEMMA SameFits ==
  ASSUME NEW q, NEW fs, NEW pre, NEW gs, NEW new, NEW i, NEW s, NEW texts,
         i # 0 => fs[i] = gs[i] /\ pre[i] = new[i]
  PROVE  Fits(q, fs, pre, i, s, texts) <=> Fits(q, gs, new, i, s, texts)
BY SameAllowed DEF Fits

LEMMA ChainBegins ==
  ASSUME NEW q \in Calls
  PROVE  /\ Chain(q, <<>>, <<>>) /\ <<>> \in Codes
         /\ Fits(q, <<>>, <<>>, 0, <<>>, Whole(q))
<1>1. <<>> \in Seq(Codes) /\ Len(<<>>) = 0 /\ <<>> \in Codes
  BY StringFacts
<1>2. \A y \in Whole(q) : <<>> \o y = y
  BY BelowFacts, StringFacts
<1> QED
  BY <1>1, <1>2, BelowFacts DEF Chain, Fits, Allowed

LEMMA ChainEnters ==
  ASSUME NEW q \in Calls, NEW fs, IsSeq(fs), NEW pre, Chain(q, fs, pre),
         NEW s \in Codes, NEW t \in DOMAIN q.heap, Len(fs) < q.depth,
         Fits(q, fs, pre, Len(fs), s, Nesting(q, q.depth - Len(fs))[t]),
         ~(Sparse(q.heap[t]) /\ ~q.convert),
         NEW keys \in KeyOrders(q.heap[t]),
         NEW f, f = [table |-> t, kind |-> KindOf(q.heap[t]), left |-> keys, comma |-> FALSE]
  PROVE  /\ Chain(q, Append(fs, f), Append(pre, s))
         /\ s \o <<Opening(KindOf(q.heap[t]))>> \in Codes
         /\ Allowed(q, Append(fs, f), Append(pre, s), Len(fs) + 1,
                    s \o <<Opening(KindOf(q.heap[t]))>>)
<1> DEFINE n == Len(fs)
           gs == Append(fs, f)
           new == Append(pre, s)
           c == q.heap[t]
           opening == <<Opening(KindOf(c))>>
<1>1. /\ n \in Nat /\ IsSeq(gs) /\ Len(gs) = n + 1 /\ gs[n + 1] = f
      /\ \A i \in 1 .. n : gs[i] = fs[i]
  BY Appended
<1>2. /\ new \in Seq(Codes) /\ Len(new) = n + 1 /\ new[n + 1] = s
      /\ \A i \in 1 .. n : new[i] = pre[i]
  <2>1. pre \in Seq(Codes) /\ Len(pre) = n
    BY DEF Chain
  <2> QED
    BY <2>1, AppendProperties
<1>3. IsFrameOf(q, f) /\ f.table = t /\ f.kind = KindOf(c) /\ f.left = keys /\ f.comma = FALSE
  BY DEF IsFrameOf
<1> HIDE DEF n, gs, new, c
<1>4. \A i \in 1 .. n : IsFrameOf(q, gs[i])
  BY <1>1 DEF Chain, n
<1>5. ASSUME NEW i \in 1 .. n PROVE Linked(q, gs, new, i)
  <2>1. i - 1 # 0 => i - 1 \in 1 .. n
    BY <1>1
  <2>2. Linked(q, fs, pre, i)
    BY DEF Chain, n
  <2>3. gs[i] = fs[i] /\ new[i] = pre[i]
    BY <1>1, <1>2
  <2>4. i - 1 # 0 => fs[i - 1] = gs[i - 1] /\ pre[i - 1] = new[i - 1]
    BY <1>1, <1>2, <2>1
  <2> QED
    BY <2>2, <2>3, <2>4, SameFits DEF Linked
<1>6. Linked(q, gs, new, n + 1)
  <2>1. /\ n + 1 - 1 = n /\ q.depth - (n + 1) + 1 = q.depth - n
        /\ (n # 0 => n \in 1 .. n)
    BY <1>1, BelowFacts
  <2>2. Fits(q, fs, pre, n, s, Nesting(q, q.depth - n)[t])
    BY DEF n
  <2>3. n # 0 => fs[n] = gs[n] /\ pre[n] = new[n]
    BY <1>1, <1>2, <2>1
  <2>4. Fits(q, gs, new, n, s, Nesting(q, q.depth - n)[t])
    BY <2>2, <2>3, SameFits
  <2> QED
    BY <1>1, <1>2, <1>3, <2>1, <2>4 DEF Linked
<1>7. Chain(q, gs, new)
  <2>1. Len(gs) <= q.depth
    BY <1>1, BelowFacts DEF n
  <2>2. ASSUME NEW i \in 1 .. Len(gs) PROVE IsFrameOf(q, gs[i]) /\ Linked(q, gs, new, i)
    <3>1. i \in 1 .. n \/ i = n + 1
      BY <1>1
    <3> QED
      BY <1>1, <1>3, <1>4, <1>5, <1>6, <3>1
  <2> QED
    BY <1>1, <1>2, <2>1, <2>2 DEF Chain
<1>8. opening \in Codes /\ s \o opening \in Codes
  BY StringFacts, SymbolTypes DEF KindOf, Kinds
<1>9. Allowed(q, gs, new, n + 1, s \o opening)
  <2> DEFINE inner == Nesting(q, q.depth - (n + 1))
  <2>1. inner \in Inner(q.heap)
    <3>1. q.depth - (n + 1) \in 0 .. q.depth
      BY <1>1, BelowFacts DEF n
    <3> QED
      BY <3>1, BelowFacts
  <2>2. IsContents(c, q.heap)
    BY BelowFacts, ContentsOfHeap DEF c
  <2>3. keys \in KeyOrders(c)
    BY DEF c
  <2> HIDE DEF inner
  <2>4. <<>> \in Prefixed(c, keys, inner, 0)
    BY <2>1, <2>2, <2>3, AfterFacts
  <2>5. IsSeq(keys) /\ Len(keys) \in Nat
    BY <2>2, <2>3, OrderFacts DEF IsContents
  <2>6. keys = Left(keys, 0) /\ 0 \in 0 .. Len(keys)
    BY <2>5, LeftFacts
  <2>7. s \o opening = s \o (opening \o <<>>)
    BY <1>8, StringFacts
  <2>8. BetweenEntries(q, n + 1, f, s, s \o opening)
    <3>1. f.left = Left(keys, 0) /\ (f.comma <=> 0 > 0)
      BY <1>3, <2>6
    <3>2. s \o opening = s \o (<<Opening(f.kind)>> \o <<>>)
      BY <1>3, <2>7
    <3>3. c = q.heap[f.table] /\ inner = Nesting(q, q.depth - (n + 1))
      BY <1>3 DEF c, inner
    <3> HIDE DEF opening
    <3> QED
      BY <2>3, <2>4, <2>6, <3>1, <3>2, <3>3 DEF BetweenEntries
  <2>9. n + 1 # 0
    BY <1>1
  <2> QED
    BY <1>1, <1>2, <2>8, <2>9 DEF Allowed
<1> QED
  BY <1>7, <1>8, <1>9 DEF n, gs, new, c

LEMMA Assoc ==
  /\ \A s, t \in Codes : s \o t \in Codes
  /\ \A s, t, u \in Codes : s \o (t \o u) = (s \o t) \o u
BY StringFacts

Regroups(p, s, t, u) == (p \o (s \o t)) \o u = p \o (s \o t \o u)

LEMMA Regrouping == \A p, s, t, u \in Codes : Regroups(p, s, t, u)
<1> TAKE p, s, t, u \in Codes
<1>1. PICK x \in Codes : x = s \o t
  BY Assoc
<1>2. (p \o x) \o u = p \o (x \o u)
  BY Assoc
<1> QED
  BY <1>1, <1>2 DEF Regroups

LEMMA ChainTakes ==
  ASSUME NEW q \in Calls, NEW fs, IsSeq(fs), fs # <<>>, NEW pre, Chain(q, fs, pre),
         NEW s \in Codes, Allowed(q, fs, pre, Len(fs), s),
         NEW f, f = LastOf(fs), f.left # <<>>,
         NEW k, k = Head(f.left), NEW c, c = q.heap[f.table],
         NEW inner, inner = Nesting(q, q.depth - Len(fs)),
         NEW gs, gs = Replaced(fs, Advanced(f))
  PROVE  /\ IsSeq(gs) /\ Len(gs) = Len(fs) /\ Chain(q, gs, pre)
         /\ IsLuaValue(At(c, k), q.heap)
         /\ f.kind = "array" =>
              /\ s \o Comma(f) \in Codes
              /\ Fits(q, gs, pre, Len(fs), s \o Comma(f), ValueTexts(At(c, k), inner))
         /\ f.kind = "object" /\ k \in Texts \union Nat =>
              /\ s \o (Comma(f) \o MemberStart(k)) \in Codes
              /\ Fits(q, gs, pre, Len(fs), s \o (Comma(f) \o MemberStart(k)),
                      ValueTexts(At(c, k), inner))
         /\ f.kind = "object" /\ k \notin Texts \union Nat => Whole(q) = {}
<1> DEFINE n == Len(fs)
           g == Advanced(f)
           sep == Comma(f)
           p == pre[n]
           opening == <<Opening(f.kind)>>
           entry == EntryTexts(c, k, inner)
<1>1. /\ n \in Nat \ {0} /\ n \in 1 .. n /\ IsSeq(gs) /\ Len(gs) = n
      /\ gs[n] = g /\ fs[n] = f /\ \A i \in 1 .. n - 1 : gs[i] = fs[i]
  <2>1. n \in Nat \ {0} /\ IsSeq(gs) /\ Len(gs) = n /\ gs[n] = g /\ \A i \in 1 .. n - 1 : gs[i] = fs[i]
    BY ReplacedLast
  <2> QED
    BY <2>1 DEF LastOf
<1> HIDE DEF n
<1>2. /\ pre \in Seq(Codes) /\ Len(pre) = n /\ n <= q.depth
      /\ \A i \in 1 .. n : IsFrameOf(q, fs[i]) /\ Linked(q, fs, pre, i)
  BY DEF Chain, n
<1>3. IsFrameOf(q, f) /\ Linked(q, fs, pre, n) /\ p \in Codes
  BY <1>1, <1>2
<1>4. /\ q.heap \in Heaps /\ f.table \in DOMAIN q.heap /\ IsContents(c, q.heap)
      /\ f.kind = KindOf(c) /\ ~(Sparse(c) /\ ~q.convert) /\ q.depth \in Nat
  BY <1>3, BelowFacts, ContentsOfHeap DEF IsFrameOf
<1>5. inner \in Inner(q.heap)
  <2>1. q.depth - n \in 0 .. q.depth
    BY <1>1, <1>2, <1>4
  <2> QED
    BY <2>1, BelowFacts DEF n
<1>6. BetweenEntries(q, n, f, p, s)
  BY <1>1 DEF Allowed, n
<1>7. PICK keys \in KeyOrders(c) : \E j \in 0 .. Len(keys) :
        /\ f.left = Left(keys, j) /\ (f.comma <=> j > 0)
        /\ \E u \in Prefixed(c, keys, inner, j) : s = p \o (opening \o u)
  BY <1>6 DEF BetweenEntries, n
<1>8. PICK j \in 0 .. Len(keys) :
        /\ f.left = Left(keys, j) /\ (f.comma <=> j > 0)
        /\ \E u \in Prefixed(c, keys, inner, j) : s = p \o (opening \o u)
  BY <1>7
<1>9. PICK u \in Prefixed(c, keys, inner, j) : s = p \o (opening \o u)
  BY <1>8
<1>10. IsSeq(keys) /\ Len(keys) \in Nat
  BY <1>4, OrderFacts DEF IsContents
<1>11. /\ j \in Nat /\ j < Len(keys) /\ k = keys[j + 1] /\ Tail(f.left) = Left(keys, j + 1)
  <2>1. j \in Nat /\ j <= Len(keys)
    BY <1>10
  <2>2. j # Len(keys)
    BY <1>8, <1>10, <2>1, LeftFacts
  <2>3. j < Len(keys)
    BY <1>10, <2>1, <2>2
  <2> QED
    BY <1>8, <1>10, <2>1, <2>3, LeftFacts
<1>12. /\ g.table = f.table /\ g.kind = f.kind /\ g.left = Left(keys, j + 1) /\ g.comma = TRUE
       /\ DOMAIN g = DOMAIN f
  <2>1. DOMAIN f = {"table", "kind", "left", "comma"}
    BY <1>3 DEF IsFrameOf
  <2>2. g.left = Tail(f.left) /\ g.table = f.table /\ g.kind = f.kind /\ g.comma = TRUE /\ DOMAIN g = DOMAIN f
    BY <2>1 DEF Advanced
  <2> QED
    BY <1>11, <2>2
<1> HIDE DEF g
<1>13. j + 1 \in 1 .. Len(keys) /\ j + 1 \in 0 .. Len(keys) /\ (j + 1) - 1 = j /\ j + 1 > 0
  BY <1>10, <1>11
<1>14. sep = Separator(j + 1) /\ sep \in Codes
  <2>1. f.comma <=> j > 0
    BY <1>8
  <2>2. j + 1 = 1 <=> ~(j > 0)
    BY <1>11
  <2> QED
    BY <2>1, <2>2, SeparatorType DEF Separator, Comma
<1> HIDE DEF sep
<1>15. opening \in Codes /\ u \in Codes /\ entry \in SUBSET Codes
  <2>1. f.kind \in Kinds
    BY <1>4 DEF KindOf, Kinds
  <2>2. u \in Codes
    BY <1>4, <1>5, <1>8, AfterFacts
  <2> QED
    BY <1>4, <1>5, <2>1, <2>2, StringFacts, SymbolTypes, EntryType
<1> HIDE DEF opening
<1>16. ASSUME NEW z \in entry PROVE Allowed(q, gs, pre, n, s \o (sep \o z))
  <2>1. u \o sep \o z \in Prefixed(c, keys, inner, j + 1)
    BY <1>4, <1>5, <1>9, <1>11, <1>13, <1>14, AfterFacts
  <2>2. z \in Codes
    BY <1>15
  <2> HIDE DEF p, entry
  <2>3. s \o (sep \o z) = p \o (opening \o (u \o sep \o z))
    <3>1. PICK y \in Codes : y = sep \o z
      BY <1>14, <2>2, Assoc
    <3>2. s \o y = p \o (opening \o u \o y)
      <4>1. Regroups(p, opening, u, y)
        BY <1>3, <1>15, <3>1, Regrouping
      <4> QED
        BY <1>9, <4>1 DEF Regroups
    <3>3. opening \o u \o y = opening \o (u \o y)
      BY <1>15, Assoc
    <3>4. u \o (sep \o z) = u \o sep \o z
      BY <1>14, <1>15, <2>2, Assoc
    <3> QED
      BY <3>1, <3>2, <3>3, <3>4
  <2>4. g.left = Left(keys, j + 1) /\ (g.comma <=> j + 1 > 0)
    BY <1>12, <1>13
  <2>5. BetweenEntries(q, n, g, p, s \o (sep \o z))
    <3>1. c = q.heap[g.table] /\ inner = Nesting(q, q.depth - n) /\ opening = <<Opening(g.kind)>>
      BY <1>12 DEF n, opening
    <3> QED
      BY <1>13, <2>1, <2>3, <2>4, <3>1 DEF BetweenEntries
  <2>6. pre[n] = p /\ n # 0
    BY <1>1 DEF p
  <2> QED
    BY <1>1, <2>5, <2>6 DEF Allowed
<1>17. ASSUME entry = {} PROVE Whole(q) = {}
  <2>1. TableTexts(c, q.convert, inner) = {}
    BY <1>4, <1>5, <1>11, <1>13, <1>17, TableFacts
  <2>2. q.depth - n + 1 \in 1 .. q.depth /\ (q.depth - n + 1) - 1 = q.depth - n
    BY <1>1, <1>2, <1>4
  <2>3. Nesting(q, q.depth - n + 1)[f.table] = {}
    BY <1>4, <2>1, <2>2, BelowFacts DEF n
  <2> QED
    BY <1>1, <1>3, <2>3 DEF Linked, Fits
<1>18. Chain(q, gs, pre)
  <2>1. ASSUME NEW i \in 1 .. n PROVE IsFrameOf(q, gs[i]) /\ gs[i].table = fs[i].table
    <3>1. CASE i = n
      BY <1>1, <1>3, <1>12, <3>1 DEF IsFrameOf
    <3>2. CASE i # n
      <4>1. i \in 1 .. n - 1
        BY <1>1, <3>2
      <4> QED
        BY <1>1, <1>2, <4>1
    <3> QED
      BY <3>1, <3>2
  <2>2. ASSUME NEW i \in 1 .. n PROVE Linked(q, gs, pre, i)
    <3>1. i - 1 # 0 => i - 1 \in 1 .. n - 1
      BY <1>1
    <3>2. i - 1 # 0 => fs[i - 1] = gs[i - 1]
      BY <1>1, <3>1
    <3>3. Linked(q, fs, pre, i) /\ gs[i].table = fs[i].table
      BY <1>2, <2>1
    <3> QED
      BY <3>2, <3>3, SameFits DEF Linked
  <2> QED
    BY <1>1, <1>2, <2>1, <2>2 DEF Chain
<1>19. IsLuaValue(At(c, k), q.heap)
  BY <1>4, AtType
<1> DEFINE values == ValueTexts(At(c, k), inner)
<1>20. values \in SUBSET Codes
  BY <1>5, <1>19, ValueType
<1>21. ASSUME f.kind = "array"
       PROVE  s \o sep \in Codes /\ Fits(q, gs, pre, n, s \o sep, values)
  <2>1. entry = values
    BY <1>4, <1>21 DEF EntryTexts, KindOf
  <2> HIDE DEF values, entry
  <2>2. \A y \in values : (s \o sep) \o y = s \o (sep \o y)
    BY <1>14, <1>20, StringFacts
  <2> QED
    BY <1>14, <1>16, <1>17, <2>1, <2>2, StringFacts DEF Fits
<1>22. ASSUME f.kind = "object", k \in Texts \union Nat
       PROVE  /\ s \o (sep \o MemberStart(k)) \in Codes
              /\ Fits(q, gs, pre, n, s \o (sep \o MemberStart(k)), values)
  <2> DEFINE start == MemberStart(k)
  <2>1. /\ start \in Codes /\ (values = {} => entry = {})
        /\ \A y \in values : start \o y \in entry
    BY <1>4, <1>5, <1>22, MemberTexts DEF KindOf
  <2> HIDE DEF start, values, entry
  <2>2. ASSUME NEW y \in values PROVE (s \o (sep \o start)) \o y = s \o (sep \o (start \o y))
    <3>1. y \in Codes
      BY <1>20
    <3>2. (s \o (sep \o start)) \o y = s \o ((sep \o start) \o y)
      <4>1. sep \o start \in Codes
        BY <1>14, <2>1, Assoc
      <4> QED
        BY <3>1, <4>1, Assoc
    <3>3. (sep \o start) \o y = sep \o (start \o y)
      BY <1>14, <2>1, <3>1, Assoc
    <3> QED
      BY <3>2, <3>3
  <2>3. s \o (sep \o start) \in Codes
    BY <1>14, <2>1, StringFacts
  <2>4. Fits(q, gs, pre, n, s \o (sep \o start), values)
    BY <1>16, <1>17, <2>1, <2>2 DEF Fits
  <2> QED
    BY <2>3, <2>4 DEF start
<1>23. ASSUME f.kind = "object", k \notin Texts \union Nat PROVE Whole(q) = {}
  <2>1. entry = {}
    BY <1>4, <1>5, <1>23, MemberTexts DEF KindOf
  <2> QED
    BY <1>17, <2>1
<1> QED
  BY <1>1, <1>18, <1>19, <1>21, <1>22, <1>23 DEF n, sep

LEMMA ChainCloses ==
  ASSUME NEW q \in Calls, NEW fs, IsSeq(fs), fs # <<>>, NEW pre, Chain(q, fs, pre),
         NEW s \in Codes, Allowed(q, fs, pre, Len(fs), s),
         NEW f, f = LastOf(fs), f.left = <<>>
  PROVE  /\ Len(fs) \in Nat \ {0} /\ Len(Without(fs, 1)) = Len(fs) - 1
         /\ Without(pre, 1) \in Seq(Codes) /\ Chain(q, Without(fs, 1), Without(pre, 1))
         /\ s \o <<Token(EndOf(f.kind))>> \in Codes
         /\ Allowed(q, Without(fs, 1), Without(pre, 1), Len(fs) - 1,
                    s \o <<Token(EndOf(f.kind))>>)
<1> DEFINE n == Len(fs)
           p == pre[n]
           c == q.heap[f.table]
           inner == Nesting(q, q.depth - n)
           opening == <<Opening(f.kind)>>
           closing == <<Closing(f.kind)>>
           gs == Without(fs, 1)
           new == Without(pre, 1)
<1>1. n \in Nat \ {0} /\ n \in 1 .. n /\ fs[n] = f
  <2>1. n \in Nat \ {0}
    BY EmptySeq DEF IsSeq
  <2> QED
    BY <2>1 DEF LastOf
<1>2. /\ pre \in Seq(Codes) /\ Len(pre) = n /\ n <= q.depth
      /\ \A i \in 1 .. n : IsFrameOf(q, fs[i]) /\ Linked(q, fs, pre, i)
  BY DEF Chain
<1>3. Len(gs) = n - 1 /\ \A i \in 1 .. n - 1 : gs[i] = fs[i]
  BY <1>1, Shortened
<1>4. new \in Seq(Codes) /\ Len(new) = n - 1 /\ \A i \in 1 .. n - 1 : new[i] = pre[i]
  <2>1. IsSeq(pre) /\ 1 <= Len(pre)
    BY <1>1, <1>2, SeqIsSeq
  <2>2. IsSeq(new) /\ Len(new) = n - 1 /\ \A i \in 1 .. n - 1 : new[i] = pre[i]
    BY <1>2, <2>1, Shortened
  <2>3. \A i \in 1 .. n - 1 : new[i] \in Codes
    <3>1. \A i \in 1 .. n - 1 : i \in 1 .. n
      BY <1>1
    <3> QED
      BY <1>2, <2>2, <3>1, ElementOfSeq
  <2>4. new \in [1 .. n - 1 -> {new[i] : i \in DOMAIN new}] /\ DOMAIN new = 1 .. n - 1
    BY <2>2, LenProperties DEF IsSeq
  <2>5. new \in [1 .. n - 1 -> Codes] /\ n - 1 \in Nat
    BY <1>1, <2>3, <2>4
  <2> HIDE DEF new
  <2>6. new \in Seq(Codes)
    BY <2>5
  <2> QED
    BY <2>2, <2>6 DEF new
<1> HIDE DEF n, gs, new
<1>5. IsFrameOf(q, f) /\ Linked(q, fs, pre, n) /\ p \in Codes
  BY <1>1, <1>2
<1>6. /\ q.heap \in Heaps /\ f.table \in DOMAIN q.heap /\ IsContents(c, q.heap)
      /\ f.kind = KindOf(c) /\ ~(Sparse(c) /\ ~q.convert) /\ q.depth \in Nat
  BY <1>5, BelowFacts, ContentsOfHeap DEF IsFrameOf
<1>7. inner \in Inner(q.heap)
  <2>1. q.depth - n \in 0 .. q.depth
    BY <1>1, <1>2, <1>6
  <2> QED
    BY <2>1, BelowFacts
<1>8. BetweenEntries(q, n, f, p, s)
  BY <1>1 DEF Allowed, n
<1>9. PICK keys \in KeyOrders(c) : \E j \in 0 .. Len(keys) :
        f.left = Left(keys, j) /\ \E u \in Prefixed(c, keys, inner, j) : s = p \o (opening \o u)
  BY <1>8 DEF BetweenEntries
<1>10. PICK j \in 0 .. Len(keys) :
        f.left = Left(keys, j) /\ \E u \in Prefixed(c, keys, inner, j) : s = p \o (opening \o u)
  BY <1>9
<1>11. PICK u \in Prefixed(c, keys, inner, j) : s = p \o (opening \o u)
  BY <1>10
<1>12. IsSeq(keys) /\ Len(keys) \in Nat
  BY <1>6, OrderFacts DEF IsContents
<1>13. j = Len(keys)
  <2>1. j \in Nat /\ j <= Len(keys)
    BY <1>12
  <2> QED
    BY <1>10, <1>12, <2>1, LeftFacts
<1>14. opening \in Codes /\ closing \in Codes /\ u \in Codes
  <2>1. f.kind \in Kinds
    BY <1>6 DEF KindOf, Kinds
  <2>2. u \in Codes
    BY <1>6, <1>7, <1>10, AfterFacts
  <2> QED
    BY <2>1, <2>2, StringFacts, SymbolTypes
<1>15. opening \o u \o closing \in Nesting(q, q.depth - n + 1)[f.table]
  <2>1. opening \o u \o closing \in TableTexts(c, q.convert, inner)
    BY <1>6, <1>7, <1>11, <1>13, TableFacts
  <2>2. q.depth - n + 1 \in 1 .. q.depth /\ (q.depth - n + 1) - 1 = q.depth - n
    BY <1>1, <1>2, <1>6
  <2> QED
    BY <1>6, <2>1, <2>2, BelowFacts
<1> HIDE DEF opening, closing
<1>16. Allowed(q, fs, pre, n - 1, p \o (opening \o u \o closing))
  BY <1>1, <1>5, <1>15 DEF Linked, Fits
<1> HIDE DEF p
<1>17. s \o closing = p \o (opening \o u \o closing) /\ s \o closing \in Codes
  <2>1. Regroups(p, opening, u, closing)
    BY <1>5, <1>14, Regrouping
  <2>2. s \o closing \in Codes
    BY <1>14, Assoc
  <2> QED
    BY <1>11, <2>1, <2>2 DEF Regroups
<1>18. Allowed(q, gs, new, n - 1, s \o closing)
  <2>1. n - 1 # 0 => n - 1 \in 1 .. n - 1
    BY <1>1
  <2>2. n - 1 # 0 => fs[n - 1] = gs[n - 1] /\ pre[n - 1] = new[n - 1]
    BY <1>3, <1>4, <2>1
  <2> QED
    BY <1>16, <1>17, <2>2, SameAllowed
<1>19. Chain(q, gs, new)
  <2>1. ASSUME NEW i \in 1 .. n - 1 PROVE IsFrameOf(q, gs[i]) /\ Linked(q, gs, new, i)
    <3>1. i \in 1 .. n /\ (i - 1 # 0 => i - 1 \in 1 .. n - 1)
      BY <1>1
    <3>2. gs[i] = fs[i] /\ new[i] = pre[i]
      BY <1>3, <1>4
    <3>3. i - 1 # 0 => fs[i - 1] = gs[i - 1] /\ pre[i - 1] = new[i - 1]
      BY <1>3, <1>4, <3>1
    <3>4. IsFrameOf(q, fs[i]) /\ Linked(q, fs, pre, i)
      BY <1>2, <3>1
    <3> QED
      BY <3>2, <3>3, <3>4, SameFits DEF Linked
  <2>2. n - 1 <= q.depth
    BY <1>1, <1>2, <1>6
  <2> QED
    BY <1>3, <1>4, <2>1, <2>2 DEF Chain
<1> QED
  BY <1>1, <1>3, <1>4, <1>17, <1>18, <1>19 DEF n, gs, new, closing, Closing

-----------------------------------------------------------------------------
(***************************************************************************)
(* The steps of encode.                                                    *)
(***************************************************************************)
LEMMA EmitBuffer ==
  ASSUME NEW ts, Emit(ts), cfg' = cfg
  PROVE  Buffer' = Buffer \o ts
BY DEF Emit, Buffer

LEMMA GoesOn ==
  ASSUME NEW q \in Calls, Call' = q, pc' \in Writing, NEW pre \in Seq(Codes),
         Buffer' \in Codes, Chain(q, frames', pre),
         pc' = "data" =>
           /\ IsLuaValue(LastOf(stack'), q.heap)
           /\ Fits(q, frames', pre, Len(frames'), Buffer',
                   ValueTexts(LastOf(stack'), Nesting(q, q.depth - Len(frames')))),
         pc' \in {"loop", "done"} => Allowed(q, frames', pre, Len(frames'), Buffer')
  PROVE  TreeInv'
<1>1. Midway(q, pre)'
  BY DEF Midway
<1>2. Outcome(q)'
  BY DEF Outcome, Writing
<1> QED
  BY <1>1, <1>2 DEF TreeInv

LEMMA Stops ==
  ASSUME NEW q \in Calls, Call' = q, pc' \notin Writing, Outcome(q)'
  PROVE  TreeInv'
BY DEF TreeInv

LEMMA SameCall ==
  ASSUME UNCHANGED <<cfg, heap>>, stack'[1] = stack[1]
  PROVE  Call' = Call
BY DEF Call

(* What is known before a step of encode. *)
LEMMA During ==
  ASSUME ResourceInv, TreeInv, op = "encode", pc \in Writing
  PROVE  /\ Call \in Calls
         /\ Call.heap = heap /\ Call.depth = cfg.encodeDepth /\ Call.convert = cfg.convert
         /\ \E pre \in Seq(Codes) : Midway(Call, pre)
         /\ IsSeq(stack) /\ Len(stack) \in Nat \ {0} /\ IsSeq(frames) /\ Len(frames) \in Nat
         /\ frames # <<>> /\ pc \in {"data", "done"} => Len(stack) > 1
         /\ pc = "loop" => frames # <<>> /\ (LastOf(frames).kind = "object" => Len(stack) > 1)
         /\ frames = <<>> <=> Len(frames) = 0
<1>1. /\ IsSeq(stack) /\ IsFrames(frames) /\ IsSeq(frames) /\ reserved \in Nat
  BY DEF ResourceInv, ControlInv, IsFrames
<1>2. /\ IsSeq(KindsOf(frames)) /\ Len(frames) \in Nat
      /\ KindsOf(frames) = <<>> <=> frames = <<>>
      /\ frames # <<>> => Len(frames) > 0 /\ LastOf(KindsOf(frames)) = LastOf(frames).kind
  BY <1>1, KindsSeq
<1>3. Len(stack) \in Nat
  BY <1>1, SeqIsSeq DEF IsSeq
<1>4. CASE pc \in {"data", "done"}
  <2>1. Tall(KindsOf(frames), Len(stack), reserved)
    BY <1>4 DEF ResourceInv, HeightInv, EncodeHeight
  <2>2. CASE frames = <<>>
    <3>1. Len(stack) = 1
      BY <1>1, <1>2, <2>1, <2>2, TallEmpty
    <3> QED
      BY <1>1, <1>2, <1>3, <1>4, <2>2, <3>1 DEF TreeInv, Call
  <2>3. CASE frames # <<>>
    <3>1. Len(stack) > 1
      BY <1>1, <1>2, <2>1, <2>3, TallHeight DEF Width
    <3> QED
      BY <1>1, <1>2, <1>3, <1>4, <2>3, <3>1 DEF TreeInv, Call
  <2> QED
    BY <2>2, <2>3
<1>5. CASE pc = "loop"
  <2>1. frames # <<>> /\ Tall(KindsOf(frames), Len(stack) + 1, reserved)
    BY <1>5 DEF ResourceInv, HeightInv, EncodeHeight
  <2>2. Len(stack) + 1 > Width(LastOf(frames).kind)
    BY <1>1, <1>2, <2>1, TallHeight
  <2>3. Len(stack) > 0 /\ (LastOf(frames).kind = "object" => Len(stack) > 1)
    BY <1>3, <2>2 DEF Width
  <2> QED
    BY <1>1, <1>2, <1>3, <1>5, <2>1, <2>3 DEF TreeInv, Call
<1> QED
  BY <1>4, <1>5 DEF Writing

LEMMA Pushed ==
  ASSUME NEW s, IsSeq(s), Len(s) \in Nat \ {0}, NEW v
  PROVE  /\ Append(s, v)[1] = s[1] /\ LastOf(Append(s, v)) = v
         /\ Len(Append(s, v)) = Len(s) + 1 /\ IsSeq(Append(s, v))
<1>1. 1 \in 1 .. Len(s)
  OBVIOUS
<1> QED
  BY <1>1, Appended DEF LastOf

LEMMA Popped ==
  ASSUME NEW s, IsSeq(s), Len(s) \in Nat, Len(s) > 1, NEW v
  PROVE  /\ Without(s, 1)[1] = s[1] /\ Replaced(s, v)[1] = s[1]
         /\ IsSeq(Replaced(s, v)) /\ Len(Replaced(s, v)) = Len(s)
<1>1. 1 \in 1 .. Len(s) - 1 /\ s # <<>> /\ 1 <= Len(s)
  <2>1. s = <<>> => Len(s) = 0
    OBVIOUS
  <2> QED
    BY <2>1
<1>2. Without(s, 1)[1] = s[1]
  BY <1>1, Shortened
<1>3. Replaced(s, v)[1] = s[1] /\ IsSeq(Replaced(s, v)) /\ Len(Replaced(s, v)) = Len(s)
  BY <1>1, ReplacedLast
<1> QED
  BY <1>2, <1>3

LEMMA CallBegins ==
  ASSUME ResourceInv, NEW v \in Roots, NEW h \in Heaps, EncodeCall(v, h)
  PROVE  TreeInv'
<1> DEFINE q == [heap |-> h, convert |-> cfg.convert, depth |-> cfg.encodeDepth, root |-> v]
<1>1. /\ stack' = <<v>> /\ heap' = h /\ cfg' = cfg /\ pc' = "data" /\ frames' = frames
      /\ op = "idle" /\ ResetBuffer
  BY DEF EncodeCall, encodeVars, decodeVars
<1>2. frames = <<>> /\ cfg \in Settings
  BY <1>1 DEF ResourceInv, ControlInv
<1>3. q \in Calls
  BY <1>2, CJsonAssumption DEF Calls, Settings
<1>4. Call' = q
  BY <1>1 DEF Call
<1>5. Buffer' = <<>>
  BY <1>1 DEF ResetBuffer, Buffer
<1>6. LastOf(stack') = v /\ q.root = v /\ Len(frames') = 0
  BY <1>1, <1>2 DEF LastOf
<1> HIDE DEF q
<1>7. ValueTexts(LastOf(stack'), Nesting(q, q.depth - Len(frames'))) = Whole(q)
  <2>1. q.depth - Len(frames') = q.depth
    BY <1>3, <1>6, BelowFacts
  <2> QED
    BY <1>6, <2>1 DEF Whole
<1>8. <<>> \in Seq(Codes)
  OBVIOUS
<1> QED
  BY <1>1, <1>2, <1>3, <1>4, <1>5, <1>6, <1>7, <1>8, ChainBegins, BelowFacts, GoesOn DEF Writing

LEMMA TableEntered ==
  ASSUME ResourceInv, TreeInv, Encoding("data"), LastOf(stack).type = "table",
         NEW t \in LastOf(stack).of, EnterTable(t)
  PROVE  TreeInv'
<1> DEFINE q == Call
           n == Len(frames)
           v == LastOf(stack)
           s == Buffer
           c == q.heap[t]
           texts == Nesting(q, q.depth - n)[t]
<1>1. op = "encode" /\ pc = "data" /\ pc \in Writing /\ UNCHANGED <<op, cfg, heap>>
  BY DEF Encoding, Writing
<1>2. /\ q \in Calls /\ q.heap = heap /\ q.depth = cfg.encodeDepth /\ q.convert = cfg.convert
      /\ IsSeq(stack) /\ Len(stack) \in Nat \ {0} /\ IsSeq(frames) /\ n \in Nat
  BY <1>1, During
<1>3. PICK pre \in Seq(Codes) : Midway(q, pre)
  BY <1>1, During
<1>4. /\ s \in Codes /\ Chain(q, frames, pre) /\ IsLuaValue(v, q.heap) /\ n <= q.depth
      /\ Fits(q, frames, pre, n, s, ValueTexts(v, Nesting(q, q.depth - n)))
  BY <1>1, <1>3 DEF Midway, Chain
<1>5. t \in DOMAIN q.heap /\ ValueTexts(v, Nesting(q, q.depth - n)) = texts /\ q.depth \in Nat
  <2>1. q.depth \in Nat /\ Nesting(q, q.depth - n) \in Inner(q.heap)
    <3>1. q.depth - n \in 0 .. q.depth
      BY <1>2, <1>4, BelowFacts
    <3> QED
      BY <1>2, <3>1, BelowFacts
  <2> QED
    BY <1>4, <2>1, ValueType
<1>6. /\ Append(stack, Message)[1] = stack[1] /\ Append(stack, Nil)[1] = stack[1]
      /\ Len(Append(stack, Message)) = Len(stack) + 1
  BY <1>2, Pushed
<1> HIDE DEF q, n, v, s, texts
<1>7. CASE n + 1 > cfg.encodeDepth \/ ~HasRoom(3)
  <2>1. Raise("nesting", stack)
    BY <1>7 DEF EnterTable, n
  <2>2. Call' = q /\ pc' = "nesting" /\ Len(stack') = Len(stack) + 1
    BY <1>1, <1>6, <2>1, SameCall DEF Raise, q
  <2>3. CASE n + 1 > cfg.encodeDepth
    <3>1. q.depth - n = 0
      BY <1>2, <1>4, <1>5, <2>3
    <3>2. texts = {}
      BY <1>2, <1>5, <3>1, BelowFacts DEF texts
    <3>3. Whole(q) = {}
      BY <1>4, <1>5, <3>2 DEF Fits
    <3> QED
      BY <1>2, <2>2, <3>3, Stops DEF Outcome, Writing
  <2>4. CASE ~HasRoom(3)
    <3>1. Len(stack') + 2 > MaxCStack
      BY <1>2, <2>2, <2>4, CJsonAssumption DEF HasRoom
    <3> QED
      BY <1>2, <2>2, <3>1, Stops DEF Outcome, Writing
  <2> QED
    BY <1>7, <2>3, <2>4
<1>8. CASE ~(n + 1 > cfg.encodeDepth \/ ~HasRoom(3)) /\ Sparse(c) /\ ~q.convert
  <2>1. Raise("refused", stack)
    BY <1>2, <1>8 DEF EnterTable, n, q
  <2>2. Call' = q /\ pc' = "refused"
    BY <1>1, <1>6, <2>1, SameCall DEF Raise, q
  <2>3. texts = {}
    <3>1. q.depth - n \in 1 .. q.depth
      BY <1>2, <1>5, <1>8
    <3>2. texts = TableTexts(c, q.convert, Nesting(q, q.depth - n - 1))
      BY <1>2, <1>5, <3>1, BelowFacts DEF texts
    <3> QED
      BY <1>8, <3>2 DEF TableTexts
  <2>4. Whole(q) = {}
    BY <1>4, <1>5, <2>3 DEF Fits
  <2> QED
    BY <1>2, <2>2, <2>4, Stops DEF Outcome, Writing
<1>9. CASE ~(n + 1 > cfg.encodeDepth \/ ~HasRoom(3)) /\ ~(Sparse(c) /\ ~q.convert)
  <2>1. /\ \E left \in KeyOrders(c) :
             frames' = Append(frames, [table |-> t, kind |-> KindOf(c),
                                       left |-> left, comma |-> FALSE])
        /\ Emit(<<Opening(KindOf(c))>>)
        /\ stack' = (IF ArrayLength(c) > 0 THEN stack ELSE Append(stack, Nil))
        /\ pc' = "loop"
    <3>1. KindOf(c) = (IF ArrayLength(c) > 0 THEN "array" ELSE "object")
      BY DEF KindOf
    <3>2. Opening(KindOf(c)) = Token(IF ArrayLength(c) > 0 THEN "T_ARR_BEGIN" ELSE "T_OBJ_BEGIN")
      BY DEF Opening, KindOf
    <3>3. KeyOrders(c) = IF ArrayLength(c) > 0 THEN {[i \in 1 .. ArrayLength(c) |-> i]}
                         ELSE Orders(KeysOf(c))
      BY DEF KeyOrders
    <3>4. c = heap[t]
      BY <1>2
    <3> HIDE DEF c
    <3> QED
      BY <1>2, <1>9, <3>1, <3>2, <3>3, <3>4 DEF EnterTable, n
  <2>2. PICK keys \in KeyOrders(c) :
          frames' = Append(frames, [table |-> t, kind |-> KindOf(c),
                                    left |-> keys, comma |-> FALSE])
    BY <2>1
  <2>3. PICK f : f = [table |-> t, kind |-> KindOf(c), left |-> keys, comma |-> FALSE]
    OBVIOUS
  <2>4. frames' = Append(frames, f)
    BY <2>2, <2>3
  <2>5. /\ Chain(q, frames', Append(pre, s))
        /\ s \o <<Opening(KindOf(c))>> \in Codes
        /\ Allowed(q, frames', Append(pre, s), n + 1, s \o <<Opening(KindOf(c))>>)
    <3>1. n < q.depth
      BY <1>2, <1>5, <1>9
    <3>2. Fits(q, frames, pre, n, s, Nesting(q, q.depth - n)[t])
      BY <1>4, <1>5 DEF texts
    <3> QED
      BY <1>2, <1>4, <1>5, <1>9, <2>3, <2>4, <3>1, <3>2, ChainEnters DEF n
  <2>6. Buffer' = s \o <<Opening(KindOf(c))>>
    BY <1>1, <2>1, EmitBuffer DEF s
  <2>7. Len(frames') = n + 1 /\ Append(pre, s) \in Seq(Codes)
    <3>1. Len(frames') = n + 1
      BY <1>2, <2>4, Appended DEF n
    <3> QED
      BY <1>4, <3>1, AppendProperties
  <2>8. Call' = q
    BY <1>1, <1>6, <2>1, SameCall DEF q
  <2> QED
    BY <1>2, <2>1, <2>5, <2>6, <2>7, <2>8, GoesOn DEF Writing
<1> QED
  BY <1>7, <1>8, <1>9

LEMMA Scalar ==
  ASSUME ResourceInv, TreeInv, AppendData, LastOf(stack).type # "table"
  PROVE  TreeInv'
<1> DEFINE q == Call
           n == Len(frames)
           v == LastOf(stack)
           s == Buffer
           texts == ValueTexts(v, Nesting(q, q.depth - n))
<1>1. /\ op = "encode" /\ pc = "data" /\ pc \in Writing /\ UNCHANGED <<op, cfg, heap>>
  BY DEF AppendData, Encoding, Writing
<1>2. /\ q \in Calls /\ q.heap = heap /\ IsSeq(stack) /\ Len(stack) \in Nat \ {0}
      /\ IsSeq(frames) /\ n \in Nat
  BY <1>1, During
<1>3. PICK pre \in Seq(Codes) : Midway(q, pre)
  BY <1>1, During
<1>4. /\ s \in Codes /\ Chain(q, frames, pre) /\ n <= q.depth
      /\ IsLuaValue(v, q.heap) /\ Fits(q, frames, pre, n, s, texts)
  BY <1>1, <1>3 DEF Midway, Chain
<1>5. Nesting(q, q.depth - n) \in Inner(q.heap)
  <2>1. q.depth - n \in 0 .. q.depth
    BY <1>2, <1>4, BelowFacts
  <2> QED
    BY <1>2, <2>1, BelowFacts
<1>6. CASE v.type \in {"string", "null", "nil"}
  <2>1. /\ \E text \in IF v.type = "string" THEN v.of ELSE {NoText} :
             Emit(<<IF v.type = "string" THEN StringToken(text) ELSE Token("T_NULL")>>)
        /\ pc' = "done" /\ UNCHANGED <<stack, frames>>
    BY <1>6 DEF AppendData
  <2>2. PICK text \in IF v.type = "string" THEN v.of ELSE {NoText} :
             Emit(<<IF v.type = "string" THEN StringToken(text) ELSE Token("T_NULL")>>)
    BY <2>1
  <2> DEFINE y == <<IF v.type = "string" THEN StringToken(text) ELSE Token("T_NULL")>>
  <2>3. y \in texts
    <3>1. CASE v.type = "string"
      <4>1. text \in v.of
        BY <3>1
      <4>2. texts = {<<StringToken(text)>>}
        BY <1>4, <1>5, <3>1, <4>1, ValueType
      <4> QED
        BY <3>1, <4>2
    <3>2. CASE v.type # "string"
      BY <1>6, <3>2 DEF ValueTexts
    <3> QED
      BY <3>1, <3>2
  <2>4. texts \in SUBSET Codes
    BY <1>4, <1>5, ValueType
  <2> HIDE DEF y, texts
  <2>5. Buffer' = s \o y
    <3>1. Emit(y)
      BY <2>2 DEF y
    <3> QED
      BY <1>1, <3>1, EmitBuffer
  <2> HIDE DEF s
  <2>6. s \o y \in Codes /\ Allowed(q, frames, pre, n, s \o y)
    BY <1>4, <2>3, <2>4, StringFacts DEF Fits
  <2>7. Call' = q
    BY <1>1, <2>1, SameCall
  <2> HIDE DEF q, v
  <2> QED
    BY <1>2, <1>3, <1>4, <2>1, <2>5, <2>6, <2>7, GoesOn DEF Writing
<1>7. CASE v.type \notin {"string", "null", "nil"}
  <2>1. Raise("refused", stack)
    BY <1>7 DEF AppendData
  <2>2. texts = {}
    BY <1>7 DEF ValueTexts
  <2>3. Whole(q) = {}
    BY <1>4, <2>2 DEF Fits
  <2>4. Call' = q /\ pc' = "refused"
    BY <1>1, <1>2, <2>1, Pushed, SameCall DEF Raise
  <2> HIDE DEF q
  <2> QED
    BY <1>2, <2>3, <2>4, Stops DEF Outcome, Writing
<1> QED
  BY <1>6, <1>7

LEMMA Looping ==
  ASSUME ResourceInv, TreeInv, Encoding("loop")
  PROVE  /\ op = "encode" /\ pc \in Writing /\ UNCHANGED <<op, cfg, heap>>
         /\ Call \in Calls /\ Call.heap = heap
         /\ IsSeq(stack) /\ Len(stack) \in Nat \ {0}
         /\ IsSeq(frames) /\ frames # <<>> /\ Len(frames) \in Nat \ {0}
         /\ LastOf(frames).kind = "object" => Len(stack) > 1
         /\ Buffer \in Codes
         /\ \E pre \in Seq(Codes) :
              Chain(Call, frames, pre) /\ Allowed(Call, frames, pre, Len(frames), Buffer)
<1>1. op = "encode" /\ pc = "loop" /\ pc \in Writing /\ UNCHANGED <<op, cfg, heap>>
  BY DEF Encoding, Writing
<1>2. PICK pre \in Seq(Codes) : Midway(Call, pre)
  BY <1>1, During
<1>3. /\ Buffer \in Codes /\ Chain(Call, frames, pre)
      /\ Allowed(Call, frames, pre, Len(frames), Buffer)
  BY <1>1, <1>2 DEF Midway
<1> QED
  BY <1>1, <1>3, During

LEMMA ItemTaken ==
  ASSUME ResourceInv, TreeInv, NextItem
  PROVE  TreeInv'
<1> DEFINE q == Call
           n == Len(frames)
           f == LastOf(frames)
           s == Buffer
           k == Head(f.left)
           c == q.heap[f.table]
           item == At(c, k)
<1>1. /\ Encoding("loop") /\ f.kind = "array" /\ f.left # <<>> /\ Emit(Comma(f))
      /\ frames' = Replaced(frames, Advanced(f)) /\ pc' = "data"
  BY DEF NextItem
<1>2. /\ pc \in Writing /\ UNCHANGED <<cfg, heap>> /\ q \in Calls /\ q.heap = heap
      /\ IsSeq(stack) /\ Len(stack) \in Nat \ {0} /\ IsSeq(frames) /\ frames # <<>>
      /\ s \in Codes
  BY <1>1, Looping
<1>3. PICK pre \in Seq(Codes) : Chain(q, frames, pre) /\ Allowed(q, frames, pre, n, s)
  BY <1>1, Looping
<1>4. stack' = Append(stack, item)
  BY <1>2 DEF NextItem
<1>5. stack'[1] = stack[1] /\ LastOf(stack') = item
  BY <1>2, <1>4, Pushed
<1>6. Call' = q
  BY <1>2, <1>5, SameCall
<1>7. Buffer' = s \o Comma(f)
  BY <1>1, <1>2, EmitBuffer
<1> HIDE DEF q, f, s
<1>8. /\ Len(frames') = n /\ Chain(q, frames', pre) /\ IsLuaValue(item, q.heap)
      /\ s \o Comma(f) \in Codes
      /\ Fits(q, frames', pre, n, s \o Comma(f), ValueTexts(item, Nesting(q, q.depth - n)))
  BY <1>1, <1>2, <1>3, ChainTakes DEF f
<1> HIDE DEF item
<1> QED
  BY <1>1, <1>2, <1>3, <1>5, <1>6, <1>7, <1>8, GoesOn DEF Writing

LEMMA MemberTaken ==
  ASSUME ResourceInv, TreeInv, NextMember
  PROVE  TreeInv'
<1> DEFINE q == Call
           n == Len(frames)
           f == LastOf(frames)
           s == Buffer
           k == Head(f.left)
           c == q.heap[f.table]
           item == At(c, k)
           named == Replaced(stack, Value("string", {k}))
           pushed == named \o <<item>>
           start == Comma(f) \o MemberStart(k)
<1>1. /\ Encoding("loop") /\ f.kind = "object" /\ f.left # <<>>
      /\ frames' = Replaced(frames, Advanced(f))
  BY DEF NextMember
<1>2. /\ pc \in Writing /\ UNCHANGED <<cfg, heap>> /\ q \in Calls /\ q.heap = heap
      /\ IsSeq(stack) /\ Len(stack) \in Nat /\ Len(stack) > 1 /\ IsSeq(frames) /\ frames # <<>>
      /\ s \in Codes
  BY <1>1, Looping
<1>3. PICK pre \in Seq(Codes) : Chain(q, frames, pre) /\ Allowed(q, frames, pre, n, s)
  BY <1>1, Looping
<1>4. IF k \in Texts \union Nat
      THEN Emit(start) /\ stack' = pushed /\ pc' = "data"
      ELSE Raise("refused", pushed)
  BY <1>2 DEF NextMember, MemberStart
<1>5. /\ pushed = Append(named, item) /\ pushed[1] = stack[1] /\ LastOf(pushed) = item
      /\ IsSeq(pushed) /\ Len(pushed) \in Nat \ {0}
  <2>1. named[1] = stack[1] /\ IsSeq(named) /\ Len(named) \in Nat \ {0}
    BY <1>2, Popped
  <2> HIDE DEF named, item
  <2>2. pushed = Append(named, item)
    <3> DEFINE S == {named[i] : i \in DOMAIN named} \union {item}
    <3>1. named \in Seq(S) /\ item \in S
      BY <2>1, SeqMonotonic DEF IsSeq
    <3> HIDE DEF S
    <3> QED
      BY <3>1, AppendIsConcat
  <2> HIDE DEF pushed
  <2>3. Append(named, item)[1] = named[1] /\ LastOf(Append(named, item)) = item
        /\ Len(Append(named, item)) = Len(named) + 1 /\ IsSeq(Append(named, item))
    BY <2>1, Pushed
  <2> QED
    BY <2>1, <2>2, <2>3
<1> HIDE DEF pushed
<1>6. stack'[1] = stack[1]
  <2>1. Append(pushed, Message)[1] = pushed[1]
    BY <1>5, Pushed
  <2> QED
    BY <1>4, <1>5, <2>1 DEF Raise
<1>7. Call' = q
  BY <1>2, <1>6, SameCall
<1> HIDE DEF q, f, s
<1>8. /\ Len(frames') = n /\ Chain(q, frames', pre) /\ IsLuaValue(item, q.heap)
      /\ k \in Texts \union Nat =>
           /\ s \o start \in Codes
           /\ Fits(q, frames', pre, n, s \o start, ValueTexts(item, Nesting(q, q.depth - n)))
      /\ k \notin Texts \union Nat => Whole(q) = {}
  BY <1>1, <1>2, <1>3, ChainTakes DEF f
<1>9. CASE k \in Texts \union Nat
  <2>1. Emit(start) /\ LastOf(stack') = item /\ pc' = "data"
    BY <1>4, <1>5, <1>9
  <2>2. Buffer' = s \o start
    BY <1>2, <2>1, EmitBuffer DEF s
  <2> HIDE DEF item, start, k
  <2> QED
    BY <1>2, <1>3, <1>7, <1>8, <1>9, <2>1, <2>2, GoesOn DEF Writing
<1>10. CASE k \notin Texts \union Nat
  <2>1. pc' = "refused" /\ Whole(q) = {}
    BY <1>4, <1>8, <1>10 DEF Raise
  <2> QED
    BY <1>2, <1>7, <2>1, Stops DEF Outcome, Writing
<1> QED
  BY <1>9, <1>10

LEMMA TableClosed ==
  ASSUME ResourceInv, TreeInv, CloseTable
  PROVE  TreeInv'
<1> DEFINE q == Call
           n == Len(frames)
           f == LastOf(frames)
           s == Buffer
           closing == <<Token(EndOf(f.kind))>>
<1>1. /\ Encoding("loop") /\ f.left = <<>> /\ Emit(closing)
      /\ stack' = (IF f.kind = "object" THEN Without(stack, 1) ELSE stack)
      /\ frames' = Without(frames, 1) /\ pc' = "done"
  BY DEF CloseTable
<1>2. /\ pc \in Writing /\ UNCHANGED <<cfg, heap>> /\ q \in Calls
      /\ IsSeq(stack) /\ Len(stack) \in Nat /\ (f.kind = "object" => Len(stack) > 1)
      /\ IsSeq(frames) /\ frames # <<>> /\ s \in Codes
  BY <1>1, Looping
<1>3. PICK pre \in Seq(Codes) : Chain(q, frames, pre) /\ Allowed(q, frames, pre, n, s)
  BY <1>1, Looping
<1>4. stack'[1] = stack[1]
  BY <1>1, <1>2, Popped
<1>5. Call' = q /\ Buffer' = s \o closing
  BY <1>1, <1>2, <1>4, SameCall, EmitBuffer
<1> HIDE DEF q, f, s
<1>6. /\ Len(frames') = n - 1 /\ Without(pre, 1) \in Seq(Codes)
      /\ Chain(q, frames', Without(pre, 1)) /\ s \o closing \in Codes
      /\ Allowed(q, frames', Without(pre, 1), n - 1, s \o closing)
  BY <1>1, <1>2, <1>3, ChainCloses DEF f
<1> QED
  BY <1>1, <1>2, <1>5, <1>6, GoesOn DEF Writing

LEMMA ItemPopped ==
  ASSUME ResourceInv, TreeInv, PopItem
  PROVE  TreeInv'
<1>1. /\ op = "encode" /\ pc = "done" /\ pc \in Writing /\ UNCHANGED <<cfg, heap, frames, kept, local>>
      /\ frames # <<>> /\ stack' = Without(stack, 1) /\ pc' = "loop"
  BY DEF PopItem, Encoding, Writing
<1>2. /\ Call \in Calls /\ IsSeq(stack) /\ Len(stack) \in Nat /\ Len(stack) > 1
  BY <1>1, During
<1>3. PICK pre \in Seq(Codes) : Midway(Call, pre)
  BY <1>1, During
<1>4. /\ Buffer \in Codes /\ Chain(Call, frames, pre)
      /\ Allowed(Call, frames, pre, Len(frames), Buffer)
  BY <1>1, <1>3 DEF Midway
<1>5. Call' = Call
  BY <1>1, <1>2, Popped, SameCall
<1>6. Buffer' = Buffer
  BY <1>1 DEF Buffer
<1> QED
  BY <1>1, <1>2, <1>3, <1>4, <1>5, <1>6, GoesOn DEF Writing

LEMMA Returned ==
  ASSUME ResourceInv, TreeInv, EncodeReturn
  PROVE  TreeInv'
<1>1. /\ op = "encode" /\ pc = "done" /\ pc \in Writing /\ UNCHANGED <<cfg, heap>>
      /\ frames = <<>> /\ stack' = Append(stack, Value("json", {Buffer})) /\ pc' = "returned"
  BY DEF EncodeReturn, Encoding, Writing
<1>2. /\ Call \in Calls /\ IsSeq(stack) /\ Len(stack) \in Nat \ {0}
  BY <1>1, During
<1>3. PICK pre \in Seq(Codes) : Midway(Call, pre)
  BY <1>1, During
<1>4. Buffer \in Whole(Call)
  BY <1>1, <1>3 DEF Midway, Allowed
<1>5. LastOf(stack') = Value("json", {Buffer}) /\ Call' = Call
  BY <1>1, <1>2, Pushed, SameCall
<1>6. LastOf(stack').of = {Buffer}
  BY <1>5 DEF Value
<1> QED
  BY <1>1, <1>2, <1>4, <1>5, <1>6, Stops DEF Outcome, Writing

-----------------------------------------------------------------------------
LEMMA OtherSteps ==
  ASSUME ResourceInv,
         \/ DecodeStep \/ Finish \/ SettingStep
         \/ \E arguments \in 0 .. 2 : RefuseCall(arguments)
  PROVE  TreeInv'
<1>1. op' # "encode"
  BY DEF DecodeStep, DecodeCall, ReadValue, ReadFirst, ReadKey, ReadColon, ReadComma,
         ReadEnd, NextToken, Store, Finish, SettingStep, SetDepths, SetSparse,
         SetKeepBuffer, Setting, RefuseCall
<1> QED
  BY <1>1 DEF TreeInv

LEMMA StepKeepsTree ==
  ResourceInv /\ TreeInv /\ [JsonNext]_jsonVars => TreeInv'
<1> SUFFICES ASSUME ResourceInv, TreeInv, [JsonNext]_jsonVars
             PROVE  TreeInv'
  OBVIOUS
<1>1. CASE \/ DecodeStep \/ Finish \/ SettingStep
           \/ \E arguments \in 0 .. 2 : RefuseCall(arguments)
  BY <1>1, OtherSteps
<1>2. ASSUME NEW v \in Roots, NEW h \in Heaps, EncodeCall(v, h) PROVE TreeInv'
  BY <1>2, CallBegins
<1>3. CASE AppendData
  <2>1. CASE LastOf(stack).type = "table"
    <3>1. Encoding("data") /\ \E t \in LastOf(stack).of : EnterTable(t)
      BY <1>3, <2>1 DEF AppendData
    <3> QED
      BY <2>1, <3>1, TableEntered
  <2>2. CASE LastOf(stack).type # "table"
    BY <1>3, <2>2, Scalar
  <2> QED
    BY <2>1, <2>2
<1>4. CASE NextItem
  BY <1>4, ItemTaken
<1>5. CASE NextMember
  BY <1>5, MemberTaken
<1>6. CASE PopItem
  BY <1>6, ItemPopped
<1>7. CASE CloseTable
  BY <1>7, TableClosed
<1>8. CASE EncodeReturn
  BY <1>8, Returned
<1>9. CASE UNCHANGED jsonVars
  BY <1>9 DEF jsonVars, TreeInv, Call, Calls, Outcome, Midway, Buffer
<1> QED
  BY <1>1, <1>2, <1>3, <1>4, <1>5, <1>6, <1>7, <1>8, <1>9 DEF JsonNext, EncodeStep

LEMMA TreeInductive == JsonSpec => []TreeInv
<1>1. JsonInit => TreeInv
  BY DEF JsonInit, TreeInv
<1> QED
  BY <1>1, StepKeepsTree, ResourcesInductive, PTL DEF JsonSpec

(* encode returns a text of its argument, and refuses only what has none,  *)
(* for all tables, however they refer to each other, and all depths.       *)
THEOREM EncodeMeansTree == JsonSpec => []EncodesTree
<1>1. TreeInv => EncodesTree
  <2> SUFFICES ASSUME TreeInv, op = "encode"
               PROVE  EncodesTree
    BY DEF EncodesTree
  <2>1. TextsOf(stack[1]) = Whole(Call)
    BY DEF TextsOf, Whole, Nesting, Call
  <2> QED
    BY <2>1 DEF TreeInv, Outcome, EncodesTree
<1> QED
  BY <1>1, TreeInductive, PTL

-----------------------------------------------------------------------------
(***************************************************************************)
(* The round trip: every text of a value is a text of the grammar, and     *)
(* means what the value reads back as.                                     *)
(***************************************************************************)
(* Of a text that decode can read, every part can be read.                 *)
LEMMA PartsAreStrings ==
  ASSUME NEW s \in Codes, NEW t \in Codes, s \o t \in Strings
  PROVE  s \in Strings /\ t \in Strings
<1> DEFINE m == Len(s)
           n == Len(t)
           st == s \o t
<1>1. /\ m \in Nat /\ n \in Nat /\ Len(st) = m + n
      /\ s \in [1 .. m -> Symbols] /\ t \in [1 .. n -> Symbols]
      /\ \A i \in 1 .. m + n : st[i] = IF i <= m THEN s[i] ELSE t[i - m]
  BY ConcatProperties, LenProperties DEF Codes
<1>2. \A i \in 1 .. m + n : st[i] \in Tokens
  BY <1>1, ElementOfSeq DEF Strings
<1> HIDE DEF m, n, st
<1>3. \A i \in 1 .. m : s[i] \in Tokens
  <2> SUFFICES ASSUME NEW i \in 1 .. m PROVE s[i] \in Tokens
    OBVIOUS
  <2>1. i \in 1 .. m + n /\ i <= m
    BY <1>1
  <2> QED
    BY <1>1, <1>2, <2>1
<1>4. \A i \in 1 .. n : t[i] \in Tokens
  <2> SUFFICES ASSUME NEW i \in 1 .. n PROVE t[i] \in Tokens
    OBVIOUS
  <2>1. i + m \in 1 .. m + n /\ ~(i + m <= m) /\ (i + m) - m = i
    BY <1>1
  <2> QED
    BY <1>1, <1>2, <2>1
<1>5. s \in [1 .. m -> Tokens] /\ t \in [1 .. n -> Tokens]
  BY <1>1, <1>3, <1>4
<1>6. s \in Seq(Tokens) /\ t \in Seq(Tokens)
  BY <1>1, <1>5
<1> QED
  BY <1>6 DEF Strings

LEMMA NamesAreTexts ==
  ASSUME NEW k, StringToken(k) \in Symbols, NEW y \in Codes,
         <<StringToken(k), Token("T_COLON")>> \o y \in Strings
  PROVE  k \in Texts /\ y \in Strings
<1>1. MemberStart(k) \in Codes
  BY StringFacts, SymbolTypes DEF MemberStart
<1>2. MemberStart(k) \in Strings /\ y \in Strings
  BY <1>1, PartsAreStrings DEF MemberStart
<1>3. MemberStart(k)[1] = StringToken(k) /\ Len(MemberStart(k)) = 2
  BY DEF MemberStart
<1>4. StringToken(k) \in Tokens
  <2>1. 1 \in 1 .. Len(MemberStart(k))
    BY <1>3
  <2> QED
    BY <1>2, <1>3, <2>1, ElementOfSeq DEF Strings
<1>5. k \in Texts
  BY <1>4 DEF Tokens, Token, StringToken
<1> QED
  BY <1>2, <1>5

(* An entry after a list.                                                  *)
LEMMA ListExtends ==
  ASSUME NEW kind \in Kinds, NEW y, NEW e, IsEntry(kind, y, e),
         NEW x, NEW es, IsList(kind, x, es), x # <<>>
  PROVE  IsList(kind, (x \o Comma1) \o y, es \o <<e>>)
<1> DEFINE Extends(u, fs) == IsList(kind, (u \o Comma1) \o y, fs \o <<e>>)
           T == {n \in Nat : \A u, fs :
                   IsList(kind, u, fs) /\ u # <<>> /\ Len(u) <= n => Extends(u, fs)}
<1>1. Comma1 \in Strings /\ y \in Strings /\ y # <<>> /\ Len(y) \in Nat
  <2>1. Comma1 \in Strings
    BY TokenTypes, Concats DEF Comma1, Strings
  <2> QED
    BY <2>1, EntryLength, EmptySeq DEF Strings
<1>2. \A u \in Strings : Len(u) \in Nat /\ (Len(u) = 0 <=> u = <<>>)
  BY LenProperties, EmptySeq DEF Strings
<1>3. 0 \in T
  BY <1>2 DEF IsList, Strings
<1>4. e \in EntrySet(kind) /\ IsList(kind, y, <<e>>)
  BY <1>1, MeaningTypes, ListForms DEF Strings
<1>5. ASSUME NEW n \in T PROVE n + 1 \in T
  <2> SUFFICES ASSUME NEW u, NEW fs, IsList(kind, u, fs), u # <<>>, Len(u) <= n + 1
               PROVE  Extends(u, fs)
    OBVIOUS
  <2>1. u \in Strings
    BY DEF IsList, Strings
  <2> DEFINE w == (u \o Comma1) \o y
  <2>2. w \in Strings
    BY <1>1, <2>1, CommaThen
  <2>3. ASSUME NEW d, IsEntry(kind, u, d), fs = <<d>>
        PROVE  Extends(u, fs)
    <3>1. IsLonger(kind, w, fs \o <<e>>, u, y, d, <<e>>)
      BY <1>1, <1>4, <2>3 DEF IsLonger
    <3>2. IsList(kind, w, fs \o <<e>>)
      <4> HIDE DEF w
      <4> QED
        BY <1>1, <2>1, <2>2, <3>1, ListForms DEF Strings
    <3> QED
      BY <3>2
  <2>4. ASSUME NEW p \in Strings, NEW q \in Strings, NEW d, NEW gs, IsLonger(kind, u, fs, p, q, d, gs)
        PROVE  Extends(u, fs)
    <3>1. /\ IsEntry(kind, p, d) /\ IsList(kind, q, gs) /\ q # <<>>
          /\ u = (p \o Comma1) \o q /\ fs = <<d>> \o gs
      BY <2>4 DEF IsLonger
    <3> DEFINE pc1 == p \o Comma1
               v == (q \o Comma1) \o y
    <3>2. pc1 \in Strings /\ Len(pc1) = Len(p) + 1
      BY <1>1, Concats DEF Strings, Comma1
    <3>3. Len(q) <= n
      <4>1. Len(u) = Len(p) + 1 + Len(q) /\ Len(p) \in Nat /\ Len(q) \in Nat /\ n \in Nat
        BY <1>2, <3>1, <3>2, Concatenated DEF Strings
      <4> QED
        BY <4>1
    <3>4. IsList(kind, v, gs \o <<e>>)
      BY <3>1, <3>3
    <3>5. v \in Strings /\ v # <<>>
      <4>1. q \o Comma1 \in Strings /\ Len(q \o Comma1) = Len(q) + 1
        BY <1>1, Concats DEF Strings, Comma1
      <4>2. v \in Strings /\ Len(v) = Len(q) + 1 + Len(y)
        BY <1>1, <4>1, Concatenated DEF Strings
      <4> HIDE DEF v
      <4> QED
        BY <1>1, <1>2, <4>2
    <3>6. w = pc1 \o v
      <4>1. pc1 \in Strings /\ Cat(q, Comma1) \in Strings
        BY <1>1, <3>2, CatFacts
      <4>2. Cat(Cat(pc1, q), Comma1) = Cat(pc1, Cat(q, Comma1))
        BY <1>1, <4>1, CatAssociative
      <4>3. Cat(Cat(pc1, Cat(q, Comma1)), y) = Cat(pc1, Cat(Cat(q, Comma1), y))
        BY <1>1, <4>1, CatAssociative
      <4>4. w = Cat(Cat(Cat(pc1, q), Comma1), y) /\ v = Cat(Cat(q, Comma1), y)
        BY <3>1 DEF Cat
      <4>5. pc1 \o v = Cat(pc1, v)
        BY DEF Cat
      <4> HIDE DEF pc1, v, w
      <4> QED
        BY <4>2, <4>3, <4>4, <4>5
    <3>7. (<<d>> \o gs) \o <<e>> = <<d>> \o (gs \o <<e>>)
      <4>1. d \in EntrySet(kind) /\ gs \in Seq(EntrySet(kind))
        BY <3>1, MeaningTypes
      <4> QED
        BY <1>4, <4>1, Concats
    <3>8. IsLonger(kind, w, fs \o <<e>>, p, v, d, gs \o <<e>>)
      <4> HIDE DEF v, w
      <4> QED
        BY <3>1, <3>4, <3>5, <3>6, <3>7 DEF IsLonger
    <3>9. IsList(kind, w, fs \o <<e>>)
      <4> HIDE DEF v, w
      <4> QED
        BY <2>2, <3>5, <3>8, ListForms DEF Strings
    <3> QED
      BY <3>9
  <2>5. \/ \E d : IsEntry(kind, u, d) /\ fs = <<d>>
        \/ \E p, q \in Strings : \E d, gs : IsLonger(kind, u, fs, p, q, d, gs)
    BY <2>1, ListForms DEF Strings
  <2> HIDE DEF Extends
  <2> QED
    BY <2>3, <2>4, <2>5
<1>6. T \in SUBSET Nat
  OBVIOUS
<1> HIDE DEF T
<1>7. T = Nat
  BY <1>3, <1>5, <1>6, SetInduction
<1>8. x \in Strings
  BY DEF IsList, Strings
<1> QED
  BY <1>2, <1>7, <1>8 DEF T

(* What a table's texts are made of, and what they read back as.           *)
AllRead(h, inner, trees) ==
  \A t \in DOMAIN h : \A y \in inner[t] : y \in Strings => IsValue(y, trees[t])

OneValueEach(c) == \A d, e \in c : d[1] = e[1] => d[2] = e[2]

LEMMA ValueReads ==
  ASSUME NEW h, NEW inner \in Inner(h), NEW trees, AllRead(h, inner, trees),
         NEW v, IsLuaValue(v, h), NEW y \in ValueTexts(v, inner), y \in Strings
  PROVE  IsValue(y, ValueRead(v, trees))
<1>1. CASE v.type = "table"
  <2>1. PICK t \in DOMAIN h : v.of = {t}
    BY <1>1 DEF IsLuaValue
  <2>2. y \in inner[t]
    BY <1>1, <2>1, ValueType
  <2>3. (CHOOSE u \in v.of : TRUE) = t
    BY <2>1
  <2>4. ValueRead(v, trees) = trees[t]
    BY <1>1, <2>3 DEF ValueRead
  <2> QED
    BY <2>2, <2>4 DEF AllRead
<1>2. CASE v.type = "string"
  <2>1. PICK s \in Texts : v.of = {s}
    BY <1>2 DEF IsLuaValue
  <2>2. y = <<StringToken(s)>>
    BY <1>2, <2>1, ValueType
  <2>3. ValueRead(v, trees) = Value("string", {s})
    BY <1>2, <2>1 DEF ValueRead
  <2> QED
    BY <2>2, <2>3, ValueForms DEF Strings
<1>3. CASE v.type \notin {"table", "string"}
  <2>1. y = <<Token("T_NULL")>>
    BY <1>3 DEF ValueTexts
  <2>2. ValueRead(v, trees) = Value("null", {})
    BY <1>3 DEF ValueRead, Null
  <2> QED
    BY <2>1, <2>2, ValueForms DEF Strings
<1> QED
  BY <1>1, <1>2, <1>3

EntryRead(c, k, trees) == EntryOf(KindOf(c), k, ValueRead(At(c, k), trees))

LEMMA EntryReads ==
  ASSUME NEW h, NEW inner \in Inner(h), NEW trees, AllRead(h, inner, trees),
         NEW c, IsContents(c, h), NEW k, NEW y \in EntryTexts(c, k, inner), y \in Strings
  PROVE  IsEntry(KindOf(c), y, EntryRead(c, k, trees))
<1>1. CASE ArrayLength(c) > 0
  <2>1. y \in ValueTexts(At(c, k), inner)
    BY <1>1 DEF EntryTexts
  <2>2. IsValue(y, ValueRead(At(c, k), trees))
    BY <2>1, AtType, ValueReads
  <2>3. KindOf(c) = "array" /\ EntryRead(c, k, trees) = ValueRead(At(c, k), trees)
    BY <1>1 DEF KindOf, EntryRead, EntryOf
  <2> QED
    BY <2>2, <2>3, EntryForms DEF Strings
<1>2. CASE ~(ArrayLength(c) > 0)
  <2>1. k \in Texts \union Nat
    BY <1>2, MemberTexts
  <2>2. EntryTexts(c, k, inner) =
          {<<StringToken(k), Token("T_COLON")>> \o z : z \in ValueTexts(At(c, k), inner)}
    BY <1>2, <2>1 DEF EntryTexts
  <2>3. PICK z \in ValueTexts(At(c, k), inner) : y = <<StringToken(k), Token("T_COLON")>> \o z
    BY <2>2
  <2>4. z \in Codes /\ StringToken(k) \in Symbols
    BY <2>1, AtType, ValueType, SymbolTypes
  <2>5. k \in Texts /\ z \in Strings
    BY <2>3, <2>4, NamesAreTexts
  <2>6. IsValue(z, ValueRead(At(c, k), trees))
    BY <2>5, AtType, ValueReads
  <2>7. KindOf(c) = "object" /\ EntryRead(c, k, trees) = <<k, ValueRead(At(c, k), trees)>>
    BY <1>2 DEF KindOf, EntryRead, EntryOf
  <2>8. IsMember(y, EntryRead(c, k, trees), k, z, ValueRead(At(c, k), trees))
    BY <2>3, <2>6, <2>7 DEF IsMember
  <2> QED
    BY <2>5, <2>7, <2>8, EntryForms DEF Strings
<1> QED
  BY <1>1, <1>2

EntriesRead(c, keys, trees) == [i \in 1 .. Len(keys) |-> EntryRead(c, keys[i], trees)]

LEMMA ListReads ==
  ASSUME NEW h, NEW inner \in Inner(h), NEW trees, AllRead(h, inner, trees),
         NEW c, IsContents(c, h), NEW keys \in KeyOrders(c),
         NEW x \in Prefixed(c, keys, inner, Len(keys)), x \in Strings
  PROVE  IsList(KindOf(c), x, EntriesRead(c, keys, trees))
<1> DEFINE kind == KindOf(c)
           es == EntriesRead(c, keys, trees)
           n == Len(keys)
           parts == Parts(c, keys, inner)
           texts == FirstOf(parts)
           T == {j \in Nat : j <= n =>
                   \A z \in texts[j] : z \in Strings => IsList(kind, z, SubSeq(es, 1, j))}
<1>1. /\ n \in Nat /\ Len(parts) = n
      /\ \A i \in 1 .. n : parts[i] = EntryTexts(c, keys[i], inner) /\ parts[i] \in SUBSET Codes
  BY PartsFacts
<1>2. kind \in Kinds
  BY DEF KindOf, Kinds
<1>3. es \in [1 .. n -> {es[i] : i \in 1 .. n}] /\ \A i \in 1 .. n : es[i] = EntryRead(c, keys[i], trees)
  BY DEF EntriesRead
<1> HIDE DEF parts, n
<1>4. /\ texts[0] = {<<>>}
      /\ \A i \in 1 .. n : texts[i] = WithPart(texts[i - 1], i, parts[i])
      /\ \A i \in 0 .. n : texts[i] \in SUBSET Codes
  BY <1>1, FirstDefined
<1>5. \A i \in 1 .. n : \A y \in parts[i] : y \in Strings => IsEntry(kind, y, es[i])
  BY <1>1, <1>3, EntryReads
<1> DEFINE X == {es[i] : i \in 1 .. n}
<1>6. es \in Seq(X) /\ Len(es) = n
  <2>1. es \in [1 .. n -> X]
    BY <1>3
  <2> HIDE DEF es, X
  <2> QED
    BY <1>1, <2>1
<1> HIDE DEF kind, es, texts, X
<1>7. \A fs : IsList(kind, <<>>, fs) <=> fs = <<>>
  <2>1. ListsOf(kind, 0) = {<<<<>>, <<>>>>}
    BY <1>2, GrammarForms
  <2> QED
    BY <2>1, Concats DEF IsList
<1>8. 0 \in T
  <2>1. SubSeq(es, 1, 0) = <<>>
    BY SubSeqEmpty
  <2> QED
    BY <1>4, <1>7, <2>1
<1>9. ASSUME NEW j \in T PROVE j + 1 \in T
  <2> SUFFICES ASSUME j + 1 <= n, NEW z \in texts[j + 1], z \in Strings
               PROVE  IsList(kind, z, SubSeq(es, 1, j + 1))
    OBVIOUS
  <2> DEFINE i == j + 1
  <2>1. j \in Nat /\ i \in 1 .. n /\ i - 1 = j /\ j \in 0 .. n
    BY <1>1
  <2> HIDE DEF i
  <2>2. z \in WithPart(texts[j], i, parts[i])
    BY <1>4, <2>1 DEF i
  <2>3. PICK u \in texts[j], y \in parts[i] : z = u \o Separator(i) \o y
    BY <2>2, WithPartIs
  <2>4. u \in Codes /\ y \in Codes /\ Separator(i) \in Codes
    BY <1>1, <1>4, <2>1, SeparatorType
  <2>5. u \o Separator(i) \in Codes
    BY <2>4, StringFacts
  <2>6. u \o Separator(i) \in Strings /\ y \in Strings
    BY <2>3, <2>4, <2>5, PartsAreStrings
  <2>7. u \in Strings
    BY <2>4, <2>6, PartsAreStrings
  <2>8. IsList(kind, u, SubSeq(es, 1, j)) /\ IsEntry(kind, y, es[i])
    BY <1>5, <2>1, <2>6, <2>7
  <2>9. SubSeq(es, 1, i) = SubSeq(es, 1, j) \o <<es[i]>>
    <3>1. 1 \in 1 .. Len(es) /\ i \in 1 .. Len(es)
      BY <1>1, <1>6, <2>1
    <3> QED
      BY <1>6, <2>1, <3>1, SubSeqRecursiveSecond
  <2>10. CASE i = 1
    <3>1. u = <<>> /\ Separator(i) = <<>> /\ SubSeq(es, 1, j) = <<>>
      BY <1>4, <2>1, <2>10, SubSeqEmpty DEF Separator
    <3>2. z = y
      BY <2>3, <2>4, <3>1, StringFacts
    <3>3. SubSeq(es, 1, i) = <<es[i]>>
      <4>1. <<es[i]>> \in Seq(X)
        BY <1>6, <2>1, ElementOfSeq
      <4> QED
        BY <2>9, <3>1, <4>1, ConcatEmptySeq
    <3>4. IsList(kind, y, <<es[i]>>)
      BY <1>2, <2>6, <2>8, ListForms DEF Strings
    <3> QED
      BY <3>2, <3>3, <3>4 DEF i
  <2>11. CASE i # 1
    <3>1. Separator(i) = Comma1
      BY <2>11 DEF Separator, Comma1
    <3>2. u # <<>>
      <4>1. \A m \in 1 .. j : es[m] \in X
        BY <1>6, <2>1, ElementOfSeq
      <4>2. Len(SubSeq(es, 1, j)) = j /\ j # 0
        BY <2>1, <2>11, <4>1, SubSeqProperties
      <4>3. SubSeq(es, 1, j) # <<>>
        BY <4>2, EmptySeq
      <4> QED
        BY <1>7, <2>8, <4>3
    <3>3. IsList(kind, (u \o Comma1) \o y, SubSeq(es, 1, j) \o <<es[i]>>)
      BY <1>2, <2>8, <3>2, ListExtends
    <3> QED
      BY <2>3, <2>9, <3>1, <3>3 DEF i
  <2> QED
    BY <2>10, <2>11
<1>10. T \in SUBSET Nat
  OBVIOUS
<1> HIDE DEF T
<1>11. n \in T
  BY <1>1, <1>8, <1>9, <1>10, SetInduction
<1>12. SubSeq(es, 1, n) = es
  BY <1>6, SubSeqFull
<1>13. x \in texts[n]
  BY DEF Prefixed, texts, parts, n
<1>14. IsList(kind, x, SubSeq(es, 1, n))
  BY <1>1, <1>11, <1>13 DEF T
<1> QED
  BY <1>12, <1>14 DEF kind, es

(* The entries of a table, as the container that they are read back as.    *)
LEMMA GreatestKey ==
  ASSUME NEW c, IsFiniteSet(c), ArrayKeys(c), c # {}
  PROVE  /\ MaxKey(c) \in KeysOf(c) /\ MaxKey(c) \in Nat \ {0}
         /\ \A j \in KeysOf(c) : j \in Nat \ {0} /\ j <= MaxKey(c)
<1>1. KeysOf(c) \in SUBSET Nat /\ KeysOf(c) # {}
  BY DEF ArrayKeys, KeysOf
<1>2. \E m \in KeysOf(c) : \A j \in KeysOf(c) : j <= m
  BY <1>1, FiniteKeys, Largest
<1>3. MaxKey(c) \in KeysOf(c) /\ \A j \in KeysOf(c) : j <= MaxKey(c)
  BY <1>1, <1>2 DEF MaxKey
<1> QED
  BY <1>3 DEF ArrayKeys

LEMMA ArrayForms ==
  ASSUME NEW c, IsFiniteSet(c)
  PROVE  /\ ArrayLength(c) > 0 <=> c # {} /\ ArrayKeys(c) /\ ~Sparse(c)
         /\ ArrayLength(c) > 0 => ArrayLength(c) = MaxKey(c)
<1>1. c # {} /\ ArrayKeys(c) => MaxKey(c) \in Nat \ {0}
  BY GreatestKey
<1>2. c = {} => MaxKey(c) = 0
  BY DEF MaxKey, KeysOf
<1> QED
  BY <1>1, <1>2 DEF ArrayLength

LEMMA AtEntry ==
  ASSUME NEW c, OneValueEach(c)
  PROVE  /\ \A e \in c : e[1] \in KeysOf(c) /\ At(c, e[1]) = e[2]
         /\ \A k \in KeysOf(c) : \E e \in c : e[1] = k
         /\ \A k : k \notin KeysOf(c) => At(c, k) = Nil
<1>1. \A k \in KeysOf(c) : \E e \in c : e[1] = k
  BY DEF KeysOf
<1>2. ASSUME NEW e \in c PROVE e[1] \in KeysOf(c) /\ At(c, e[1]) = e[2]
  <2>1. e[1] \in KeysOf(c)
    BY DEF KeysOf
  <2>2. PICK d \in c : d[1] = e[1] /\ At(c, e[1]) = d[2]
    BY <2>1 DEF At
  <2> QED
    BY <2>1, <2>2 DEF OneValueEach
<1>3. \A k : k \notin KeysOf(c) => At(c, k) = Nil
  BY DEF At
<1> QED
  BY <1>1, <1>2, <1>3

LEMMA ItemsRead ==
  ASSUME NEW c, IsFiniteSet(c), OneValueEach(c), NEW keys \in KeyOrders(c), NEW trees,
         ArrayLength(c) > 0
  PROVE  Numbered(EntriesRead(c, keys, trees)) = Filled(c, trees) \union Holes(c)
<1> DEFINE n == MaxKey(c)
           Read(k) == ValueRead(At(c, k), trees)
           all == {<<i, Read(i)>> : i \in 1 .. n}
<1>1. /\ c # {} /\ ArrayKeys(c) /\ keys = [i \in 1 .. n |-> i]
      /\ Len(keys) \in Nat /\ DOMAIN keys = 1 .. Len(keys)
  BY ArrayForms, OrderFacts
<1>2. n \in KeysOf(c) /\ n \in Nat \ {0} /\ \A j \in KeysOf(c) : j \in Nat \ {0} /\ j <= n
  BY <1>1, GreatestKey
<1>3. 1 .. Len(keys) = 1 .. n
  BY <1>1
<1>4. EntriesRead(c, keys, trees) = [i \in 1 .. n |-> Read(i)]
  <2>1. \A i \in 1 .. n : EntryRead(c, keys[i], trees) = Read(i)
    BY <1>1 DEF EntryRead, EntryOf, KindOf
  <2> QED
    BY <1>3, <2>1 DEF EntriesRead
<1>5. Numbered(EntriesRead(c, keys, trees)) = all
  BY <1>4 DEF Numbered
<1> HIDE DEF n
<1>6. all \subseteq Filled(c, trees) \union Holes(c)
  <2> SUFFICES ASSUME NEW i \in 1 .. n
               PROVE  <<i, Read(i)>> \in Filled(c, trees) \union Holes(c)
    OBVIOUS
  <2>1. CASE i \in KeysOf(c)
    <3>1. PICK e \in c : e[1] = i
      BY <2>1, AtEntry
    <3>2. Read(i) = ValueRead(e[2], trees)
      BY <3>1, AtEntry
    <3> QED
      BY <3>1, <3>2 DEF Filled
  <2>2. CASE i \notin KeysOf(c)
    <3>1. Read(i) = Null
      BY <2>2, AtEntry DEF ValueRead, Nil, Null, Value
    <3>2. i \in (UNION {1 .. k : k \in KeysOf(c)}) \ KeysOf(c)
      BY <1>2, <2>2
    <3> QED
      BY <3>1, <3>2 DEF Holes
  <2> QED
    BY <2>1, <2>2
<1>7. Filled(c, trees) \subseteq all
  <2> SUFFICES ASSUME NEW e \in c
               PROVE  <<e[1], ValueRead(e[2], trees)>> \in all
    BY DEF Filled
  <2>1. e[1] \in KeysOf(c) /\ Read(e[1]) = ValueRead(e[2], trees)
    BY AtEntry
  <2>2. e[1] \in 1 .. n
    <3> DEFINE k == e[1]
    <3>1. k \in Nat \ {0} /\ k <= n /\ n \in Nat
      BY <1>2, <2>1
    <3> HIDE DEF k
    <3>2. k \in 1 .. n
      BY <3>1
    <3> QED
      BY <3>2 DEF k
  <2> QED
    BY <2>1, <2>2
<1>8. Holes(c) \subseteq all
  <2> SUFFICES ASSUME NEW k \in KeysOf(c), NEW i \in 1 .. k, i \notin KeysOf(c)
               PROVE  <<i, Null>> \in all
    BY DEF Holes
  <2>1. Read(i) = Null
    BY AtEntry DEF ValueRead, Nil, Null, Value
  <2>2. i \in 1 .. n
    BY <1>2
  <2> QED
    BY <2>1, <2>2
<1> QED
  BY <1>5, <1>6, <1>7, <1>8

LEMMA MembersRead ==
  ASSUME NEW c, IsFiniteSet(c), OneValueEach(c), NEW keys \in KeyOrders(c), NEW trees,
         ~(ArrayLength(c) > 0)
  PROVE  LastWins(EntriesRead(c, keys, trees)) = Filled(c, trees)
<1> DEFINE S == KeysOf(c)
           m == Cardinality(S)
           n == Len(keys)
           es == EntriesRead(c, keys, trees)
           Read(k) == ValueRead(At(c, k), trees)
<1>1. /\ m \in Nat /\ IsFiniteSet(S) /\ keys \in Injection(1 .. m, S)
      /\ DOMAIN keys = 1 .. n /\ n \in Nat
  BY OrderFacts
<1>2. DOMAIN es = 1 .. n /\ \A i \in 1 .. n : es[i] = <<keys[i], Read(keys[i])>>
  BY DEF EntriesRead, EntryRead, EntryOf, KindOf
<1> HIDE DEF S, m, n, es
<1>3. /\ 1 .. m = 1 .. n
      /\ \A i, j \in 1 .. n : i # j => keys[i] # keys[j]
      /\ \A i \in 1 .. n : keys[i] \in S
  BY <1>1 DEF Injection, IsInjective
<1>4. \A s \in S : \E i \in 1 .. n : keys[i] = s
  <2>1. Cardinality(1 .. m) = Cardinality(S)
    BY <1>1, FS_Interval DEF m
  <2>2. keys \in Surjection(1 .. m, S)
    BY <1>1, <2>1, FS_Injection
  <2> QED
    BY <1>3, <2>2 DEF Surjection
<1>5. LastWins(es) = {es[i] : i \in 1 .. n}
  <2>1. \A i, j \in 1 .. n : j > i => es[j][1] # es[i][1]
    BY <1>2, <1>3
  <2>2. {i \in DOMAIN es : \A j \in DOMAIN es : j > i => es[j][1] # es[i][1]} = 1 .. n
    BY <1>2, <2>1
  <2> QED
    BY <2>2 DEF LastWins
<1>6. ASSUME NEW i \in 1 .. n PROVE es[i] \in Filled(c, trees)
  <2>1. PICK e \in c : e[1] = keys[i]
    BY <1>3, AtEntry DEF S
  <2>2. es[i] = <<e[1], ValueRead(e[2], trees)>>
    BY <1>2, <2>1, AtEntry
  <2> QED
    BY <2>2 DEF Filled
<1>7. ASSUME NEW e \in c
      PROVE  <<e[1], ValueRead(e[2], trees)>> \in {es[i] : i \in 1 .. n}
  <2>1. e[1] \in S /\ At(c, e[1]) = e[2]
    BY AtEntry DEF S
  <2>2. PICK i \in 1 .. n : keys[i] = e[1]
    BY <1>4, <2>1
  <2>3. es[i] = <<e[1], ValueRead(e[2], trees)>>
    BY <1>2, <2>1, <2>2
  <2> QED
    BY <2>3
<1>8. Filled(c, trees) \subseteq {es[i] : i \in 1 .. n}
  BY <1>7 DEF Filled
<1> QED
  BY <1>5, <1>6, <1>8 DEF es

LEMMA TableReads ==
  ASSUME NEW h, NEW inner \in Inner(h), NEW trees, AllRead(h, inner, trees),
         NEW c, IsContents(c, h), OneValueEach(c), NEW convert,
         NEW s \in TableTexts(c, convert, inner), s \in Strings
  PROVE  IsValue(s, TableRead(c, trees))
<1> DEFINE kind == KindOf(c)
           o == <<Opening(kind)>>
           z == <<Closing(kind)>>
<1>0. PICK keys \in KeyOrders(c) : \E x \in Prefixed(c, keys, inner, Len(keys)) : s = o \o x \o z
  BY DEF TableTexts, Prefixed
<1>1. PICK x \in Prefixed(c, keys, inner, Len(keys)) : s = o \o x \o z
  BY <1>0
<1>2. IsFiniteSet(c) /\ kind \in Kinds
  BY DEF IsContents, KindOf, Kinds
<1>3. x \in Codes
  <2>1. Len(keys) \in 0 .. Len(keys)
    BY <1>2, OrderFacts
  <2> QED
    BY <2>1, AfterFacts
<1>4. o \in Codes /\ z \in Codes
  BY <1>2, StringFacts, SymbolTypes
<1> HIDE DEF o, z
<1>5. x \in Strings
  <2>1. o \o x \in Codes
    BY <1>3, <1>4, StringFacts
  <2>2. o \o x \in Strings
    BY <1>1, <1>4, <2>1, PartsAreStrings
  <2> QED
    BY <1>3, <1>4, <2>2, PartsAreStrings
<1> DEFINE es == EntriesRead(c, keys, trees)
<1>6. IsList(kind, x, es)
  BY <1>5, ListReads
<1>7. Container(kind, es) = TableRead(c, trees)
  <2>1. CASE ArrayLength(c) > 0
    <3>1. kind = "array" /\ c # {} /\ ArrayKeys(c) /\ ~Sparse(c)
      BY <1>2, <2>1, ArrayForms DEF KindOf
    <3> QED
      BY <1>2, <2>1, <3>1, ItemsRead DEF Container, TableRead
  <2>2. CASE ~(ArrayLength(c) > 0)
    <3>1. kind = "object" /\ ~(c # {} /\ ArrayKeys(c) /\ ~Sparse(c))
      BY <1>2, <2>2, ArrayForms DEF KindOf
    <3> QED
      BY <1>2, <2>2, <3>1, MembersRead DEF Container, TableRead
  <2> QED
    BY <2>1, <2>2
<1> HIDE DEF es, kind
<1>8. InBrackets(kind, s, x, Container(kind, es), es)
  BY <1>1, <1>6 DEF InBrackets, o, z
<1> QED
  BY <1>2, <1>5, <1>7, <1>8, ValueForms DEF Strings

(* The same for tables in tables.                                          *)
Layer(h, f, d) == [t \in DOMAIN h |-> IF d = 0 THEN Nil ELSE TableRead(h[t], f[d - 1])]

LEMMA UnfoldedDefined ==
  ASSUME NEW h, NEW depths \in Nat
  PROVE  \A d \in 0 .. depths : Unfolded(h, depths)[d] = Layer(h, Unfolded(h, depths), d)
<1> DEFINE Rule(f, n) == f = [d \in 0 .. n |-> Layer(h, f, d)]
           T == {n \in Nat : \E f : Rule(f, n)}
<1>1. 0 \in T
  <2> DEFINE none == [t \in DOMAIN h |-> Nil]
             f == [d \in 0 .. 0 |-> none]
  <2>1. \A d \in 0 .. 0 : Layer(h, f, d) = none
    BY DEF Layer
  <2> HIDE DEF none
  <2>2. Rule(f, 0)
    BY <2>1
  <2> QED
    BY <2>2
<1>2. ASSUME NEW n \in T PROVE n + 1 \in T
  <2>1. PICK f : Rule(f, n)
    OBVIOUS
  <2> DEFINE g == [d \in 0 .. n + 1 |-> Layer(h, f, d)]
  <2>2. \A d \in 0 .. n : f[d] = Layer(h, f, d) /\ g[d] = f[d]
    BY <2>1
  <2>3. ASSUME NEW d \in 0 .. n + 1 PROVE Layer(h, g, d) = Layer(h, f, d)
    <3>1. CASE d = 0
      BY <3>1 DEF Layer
    <3>2. CASE d # 0
      <4>1. d - 1 \in 0 .. n
        BY <3>2
      <4>2. g[d - 1] = f[d - 1]
        BY <2>2, <4>1
      <4> HIDE DEF g
      <4> QED
        BY <4>2 DEF Layer
    <3> QED
      BY <3>1, <3>2
  <2>4. Rule(g, n + 1)
    BY <2>3
  <2> HIDE DEF g, Rule
  <2> QED
    BY <2>4
<1>3. T \in SUBSET Nat
  OBVIOUS
<1> HIDE DEF T
<1>4. depths \in T
  BY <1>1, <1>2, <1>3, SetInduction
<1>5. \E f : Rule(f, depths)
  BY <1>4 DEF T
<1> DEFINE u == Unfolded(h, depths)
<1>6. u = CHOOSE f : Rule(f, depths)
  BY DEF Unfolded, Layer
<1>7. Rule(u, depths)
  <2> HIDE DEF Rule, u
  <2> QED
    BY <1>5, <1>6
<1> HIDE DEF u
<1>8. \A d \in 0 .. depths : u[d] = Layer(h, u, d)
  BY <1>7
<1> QED
  BY <1>8 DEF u

LEMMA NestedReads ==
  ASSUME NEW h \in Heaps, NEW convert, NEW depths \in Nat, NEW d \in 0 .. depths
  PROVE  AllRead(h, Nested(h, convert, depths)[d], Unfolded(h, depths)[d])
<1> DEFINE nested == Nested(h, convert, depths)
           unfolded == Unfolded(h, depths)
           T == {n \in Nat : n <= depths => AllRead(h, nested[n], unfolded[n])}
<1>1. /\ nested[0] = [t \in DOMAIN h |-> {}]
      /\ \A n \in 1 .. depths : nested[n] = TextsOfAll(h, convert, nested[n - 1])
      /\ \A n \in 0 .. depths : nested[n] \in Inner(h)
  BY NestedDefined
<1>2. \A n \in 0 .. depths : unfolded[n] = Layer(h, unfolded, n)
  BY UnfoldedDefined
<1> HIDE DEF nested, unfolded
<1>3. 0 \in T
  BY <1>1 DEF AllRead
<1>4. ASSUME NEW n \in T PROVE n + 1 \in T
  <2> SUFFICES ASSUME n + 1 <= depths, NEW t \in DOMAIN h, NEW y \in nested[n + 1][t], y \in Strings
               PROVE  IsValue(y, unfolded[n + 1][t])
    BY DEF AllRead
  <2> DEFINE m == n + 1
  <2>1. n \in 0 .. depths /\ m \in 1 .. depths /\ m \in 0 .. depths /\ m - 1 = n /\ m # 0
    OBVIOUS
  <2>2. AllRead(h, nested[n], unfolded[n]) /\ nested[n] \in Inner(h)
    BY <1>1, <2>1
  <2> HIDE DEF m
  <2>3. y \in TableTexts(h[t], convert, nested[n])
    <3>1. nested[m] = TextsOfAll(h, convert, nested[n])
      BY <1>1, <2>1
    <3>2. nested[m][t] = TableTexts(h[t], convert, nested[n])
      BY <3>1 DEF TextsOfAll
    <3> QED
      BY <3>2 DEF m
  <2>4. unfolded[m][t] = TableRead(h[t], unfolded[n])
    BY <1>2, <2>1 DEF Layer
  <2>5. IsContents(h[t], h) /\ OneValueEach(h[t])
    BY HeapsAssumption, ContentsOfHeap DEF OneValueEach
  <2>6. IsValue(y, TableRead(h[t], unfolded[n]))
    BY <2>2, <2>3, <2>5, TableReads
  <2> QED
    BY <2>4, <2>6 DEF m
<1>5. T \in SUBSET Nat
  OBVIOUS
<1> HIDE DEF T
<1>6. d \in T
  BY <1>3, <1>4, <1>5, SetInduction
<1> QED
  BY <1>6 DEF T, nested, unfolded

(* The texts of a value are texts of the grammar with that value, for all  *)
(* values, graphs of tables and depths.                                    *)
THEOREM TextsReadBack ==
  ASSUME NEW h \in Heaps, NEW convert, NEW depths \in Nat, NEW v, IsLuaValue(v, h),
         NEW y \in ValueTexts(v, Nested(h, convert, depths)[depths]), y \in Seq(Tokens)
  PROVE  <<y, ValueRead(v, Unfolded(h, depths)[depths])>> \in Grammar[Len(y)].values
<1>1. depths \in 0 .. depths
  OBVIOUS
<1>2. Nested(h, convert, depths)[depths] \in Inner(h)
  BY <1>1, NestedDefined
<1>3. AllRead(h, Nested(h, convert, depths)[depths], Unfolded(h, depths)[depths])
  BY <1>1, NestedReads
<1>4. IsValue(y, ValueRead(v, Unfolded(h, depths)[depths]))
  BY <1>2, <1>3, ValueReads DEF Strings
<1> QED
  BY <1>4 DEF IsValue, ValuesOf

(* encode and decode are inverse: what encode returns is a JSON text,      *)
(* which decode accepts within its own limit of depth, and it means the    *)
(* value that was encoded.                                                 *)
THEOREM EncodeReadsBack == JsonSpec => []EncodedReadsBack
<1>1. TreeInv => EncodedReadsBack
  <2> SUFFICES ASSUME TreeInv, op = "encode", pc = "returned",
                      NEW s \in LastOf(stack).of, s \in Seq(Tokens), Len(s) < MaxTokens
               PROVE  <<Append(s, Token("T_END")), ReadBack(stack[1])>> \in Documents
    BY DEF EncodedReadsBack
  <2> DEFINE v == stack[1]
             n == cfg.encodeDepth
  <2>1. Call \in Calls /\ s \in Whole(Call)
    BY DEF TreeInv, Outcome
  <2>2. heap \in Heaps /\ n \in Nat /\ v \in Roots
    BY <2>1 DEF Calls, Call
  <2>3. IsLuaValue(v, heap)
    BY <2>2, HeapsAssumption
  <2>4. s \in ValueTexts(v, Nested(heap, cfg.convert, n)[n])
    BY <2>1 DEF Whole, Nesting, Call
  <2>5. <<s, ReadBack(v)>> \in Grammar[Len(s)].values
    <3> HIDE DEF v, n
    <3>1. <<s, ValueRead(v, Unfolded(heap, n)[n])>> \in Grammar[Len(s)].values
      BY <2>2, <2>3, <2>4, TextsReadBack
    <3> QED
      BY <3>1 DEF ReadBack, n
  <2>6. Len(s) \in 1 .. (MaxTokens - 1)
    <3>1. Len(s) \in Nat
      BY LenProperties
    <3>2. Len(s) # 0
      BY <2>5, GrammarForms DEF ValuesOf
    <3> QED
      BY <3>1, <3>2, CJsonAssumption
  <2> DEFINE x == <<s, ReadBack(v)>>
  <2>7. x \in UNION {Grammar[m].values : m \in 1 .. (MaxTokens - 1)} /\ x[1] = s /\ x[2] = ReadBack(v)
    BY <2>5, <2>6
  <2> HIDE DEF x
  <2>8. <<Append(s, Token("T_END")), ReadBack(v)>> \in Documents
    BY <2>7 DEF Documents
  <2> QED
    BY <2>8
<1> QED
  BY <1>1, TreeInductive, PTL

-----------------------------------------------------------------------------
(***************************************************************************)
(* No text has two meanings: what a text begins with, and what is left of  *)
(* it then, is decided by its tokens from the left.                        *)
(***************************************************************************)
LEMMA ConsLength ==
  /\ \A a \in Tokens, s \in Strings : Len(Cons1(a, s)) = 1 + Len(s)
  /\ \A s, t \in Strings : Len(Cat(s, t)) = Len(s) + Len(t)
  /\ \A s \in Strings : Len(s) \in Nat
  /\ \A s \in Strings : s # <<>> => \E a \in Tokens, t \in Strings : s = Cons1(a, t)
<1>1. \A a \in Tokens : <<a>> \in Strings /\ Len(<<a>>) = 1
  BY Concats DEF Strings
<1>2. \A s, t \in Strings : Len(Cat(s, t)) = Len(s) + Len(t)
  BY Concats DEF Strings, Cat
<1>3. \A a \in Tokens, s \in Strings : Len(Cons1(a, s)) = 1 + Len(s)
  <2> SUFFICES ASSUME NEW a \in Tokens, NEW s \in Strings PROVE Len(Cons1(a, s)) = 1 + Len(s)
    OBVIOUS
  <2>1. Cons1(a, s) = Cat(<<a>>, s)
    BY DEF Cons1, Cat
  <2> QED
    BY <1>1, <1>2, <2>1
<1>4. ASSUME NEW s \in Strings, s # <<>>
      PROVE  \E a \in Tokens, t \in Strings : s = Cons1(a, t)
  BY <1>4, FirstAndRest DEF Strings, Cons1
<1> QED
  BY <1>2, <1>3, <1>4, LenProperties DEF Strings

LEMMA RestIsShorter ==
  /\ \A s, u \in Strings : \A v : ValueThen(s, v, u) => Len(u) < Len(s)
  /\ \A kind \in Kinds : \A s, u \in Strings : \A e :
       EntryThen(kind, s, e, u) => Len(u) < Len(s)
<1>1. \A kind \in Kinds : \A x, e : IsEntry(kind, x, e) => Len(x) \in Nat /\ Len(x) # 0
  BY EntryLength
<1>2. \A x \in Strings : \A v : IsValue(x, v) => Len(x) # 0
  BY <1>1, EntryForms DEF Strings, Kinds
<1>3. \A x, u \in Strings : Len(x) # 0 => Len(u) < Len(Cat(x, u))
  <2> SUFFICES ASSUME NEW x \in Strings, NEW u \in Strings, Len(x) # 0
               PROVE  Len(u) < Len(Cat(x, u))
    OBVIOUS
  <2>1. Len(x) \in Nat /\ Len(u) \in Nat /\ Len(Cat(x, u)) = Len(x) + Len(u)
    BY ConsLength
  <2> QED
    BY <2>1
<1> QED
  BY <1>1, <1>2, <1>3 DEF ValueThen, EntryThen

OneValue(s) ==
  \A v, w : \A u, t \in Strings : ValueThen(s, v, u) /\ ValueThen(s, w, t) => v = w /\ u = t
OneList(s) ==
  \A kind \in Kinds : \A es, fs : \A u, t \in Strings :
    More(kind, s, u, es) /\ More(kind, s, t, fs) => es = fs /\ u = t
AllOne(n) == \A s \in Strings : Len(s) <= n => OneValue(s) /\ OneList(s)

LEMMA StartsOnce ==
  ASSUME NEW kind \in Kinds, NEW s \in Strings, OneList(s),
         NEW es, NEW fs, NEW u \in Strings, NEW t \in Strings,
         Starts(kind, s, u, es), Starts(kind, s, t, fs)
  PROVE  es = fs /\ u = t
<1>1. \A x \in Strings : \A gs : s = Cons1(Closing(kind), x) => \A y \in Strings : ~More(kind, s, y, gs)
  BY NoneCloses
<1>2. /\ \/ es = <<>> /\ s = Cons1(Closing(kind), u)
         \/ More(kind, s, u, es)
      /\ \/ fs = <<>> /\ s = Cons1(Closing(kind), t)
         \/ More(kind, s, t, fs)
  BY StartsForms
<1>3. CASE More(kind, s, u, es) /\ More(kind, s, t, fs)
  BY <1>3 DEF OneList
<1>4. CASE /\ es = <<>> /\ s = Cons1(Closing(kind), u)
           /\ fs = <<>> /\ s = Cons1(Closing(kind), t)
  <2> DEFINE close == Closing(kind)
  <2>1. close \in Tokens /\ Cons1(close, u) = Cons1(close, t)
    BY <1>4, TokenTypes
  <2> HIDE DEF close
  <2>2. u = t
    BY <2>1, SameCons
  <2> QED
    BY <1>4, <2>2
<1> QED
  BY <1>1, <1>2, <1>3, <1>4

LEMMA ValuesOnce ==
  ASSUME NEW a \in Tokens, NEW s \in Strings, OneList(s)
  PROVE  OneValue(Cons1(a, s))
<1> SUFFICES ASSUME NEW v, NEW w, NEW u \in Strings, NEW t \in Strings,
                    ValueThen(Cons1(a, s), v, u), ValueThen(Cons1(a, s), w, t)
             PROVE  v = w /\ u = t
  BY DEF OneValue
<1>1. \/ a = Token("T_NULL") /\ v = Value("null", {}) /\ s = u
      \/ \E text \in Texts : a = StringToken(text) /\ v = Value("string", {text}) /\ s = u
      \/ \E kind \in Kinds : \E es :
           a = Opening(kind) /\ v = Container(kind, es) /\ Starts(kind, s, u, es)
  BY ValueThenForms
<1>2. \/ a = Token("T_NULL") /\ w = Value("null", {}) /\ s = t
      \/ \E text \in Texts : a = StringToken(text) /\ w = Value("string", {text}) /\ s = t
      \/ \E kind \in Kinds : \E es :
           a = Opening(kind) /\ w = Container(kind, es) /\ Starts(kind, s, t, es)
  BY ValueThenForms
<1>3. CASE a = Token("T_NULL")
  BY <1>1, <1>2, <1>3, TokensDiffer
<1>4. CASE \E text \in Texts : a = StringToken(text)
  <2>1. PICK text \in Texts : a = StringToken(text)
    BY <1>4
  <2>2. \A other \in Texts : StringToken(other) = a => other = text
    BY <2>1 DEF StringToken
  <2>3. v = Value("string", {text}) /\ s = u
    BY <1>1, <2>1, <2>2, TokensDiffer
  <2>4. w = Value("string", {text}) /\ s = t
    BY <1>2, <2>1, <2>2, TokensDiffer
  <2> QED
    BY <2>3, <2>4
<1>5. CASE \E kind \in Kinds : a = Opening(kind)
  <2>1. PICK kind \in Kinds : a = Opening(kind)
    BY <1>5
  <2>2. PICK es : v = Container(kind, es) /\ Starts(kind, s, u, es)
    BY <1>1, <2>1, TokensDiffer
  <2>3. PICK fs : w = Container(kind, fs) /\ Starts(kind, s, t, fs)
    BY <1>2, <2>1, TokensDiffer
  <2>4. es = fs /\ u = t
    BY <2>2, <2>3, StartsOnce
  <2> QED
    BY <2>2, <2>3, <2>4
<1> QED
  BY <1>1, <1>3, <1>4, <1>5

LEMMA EntriesOnce ==
  ASSUME NEW n \in Nat, AllOne(n), NEW s \in Strings, Len(s) <= n + 1, OneValue(s),
         NEW kind \in Kinds, NEW d, NEW e, NEW u \in Strings, NEW t \in Strings,
         EntryThen(kind, s, d, u), EntryThen(kind, s, e, t)
  PROVE  d = e /\ u = t
<1>1. CASE kind = "array"
  <2>1. ValueThen(s, d, u) /\ ValueThen(s, e, t)
    BY <1>1, EntryThenForms
  <2> QED
    BY <2>1 DEF OneValue
<1>2. CASE kind = "object"
  <2> DEFINE colon == Token("T_COLON")
  <2>1. PICK a, y, v : /\ a \in Texts /\ y \in Strings
                       /\ s = Cons1(StringToken(a), Cons1(colon, y))
                       /\ d = <<a, v>> /\ ValueThen(y, v, u)
    BY <1>2, EntryThenForms
  <2>2. PICK b, z, w : /\ b \in Texts /\ z \in Strings
                       /\ s = Cons1(StringToken(b), Cons1(colon, z))
                       /\ e = <<b, w>> /\ ValueThen(z, w, t)
    BY <1>2, EntryThenForms
  <2>3. /\ StringToken(a) \in Tokens /\ StringToken(b) \in Tokens /\ colon \in Tokens
        /\ Cons1(colon, y) \in Strings /\ Cons1(colon, z) \in Strings
    BY <2>1, <2>2, TokenTypes, CatFacts
  <2> HIDE DEF colon
  <2>4. StringToken(a) = StringToken(b) /\ Cons1(colon, y) = Cons1(colon, z)
    <3> DEFINE p == StringToken(a)
               q == StringToken(b)
               py == Cons1(colon, y)
               qz == Cons1(colon, z)
    <3>1. p \in Tokens /\ q \in Tokens /\ py \in Strings /\ qz \in Strings
      BY <2>3
    <3>2. Cons1(p, py) = Cons1(q, qz)
      BY <2>1, <2>2
    <3> HIDE DEF p, q, py, qz
    <3>3. p = q /\ py = qz
      BY <3>1, <3>2, SameCons
    <3> QED
      BY <3>3 DEF p, q, py, qz
  <2>5. a = b /\ y = z
    BY <2>1, <2>2, <2>3, <2>4, SameCons DEF StringToken
  <2>6. Len(y) <= n
    <3>1. Len(Cons1(colon, y)) = 1 + Len(y) /\ Len(s) = 1 + Len(Cons1(colon, y)) /\ Len(y) \in Nat
      BY <2>1, <2>3, ConsLength
    <3> QED
      BY <3>1
  <2>7. OneValue(y)
    BY <2>1, <2>6 DEF AllOne
  <2>8. v = w /\ u = t
    BY <2>1, <2>2, <2>5, <2>7 DEF OneValue
  <2> QED
    BY <2>1, <2>2, <2>5, <2>8
<1> QED
  BY <1>1, <1>2 DEF Kinds

LEMMA ListsOnce ==
  ASSUME NEW n \in Nat, AllOne(n), NEW s \in Strings, Len(s) <= n + 1, OneValue(s)
  PROVE  OneList(s)
<1> SUFFICES ASSUME NEW kind \in Kinds, NEW es, NEW fs, NEW u \in Strings, NEW t \in Strings,
                    More(kind, s, u, es), More(kind, s, t, fs)
             PROVE  es = fs /\ u = t
  BY DEF OneList
<1>1. PICK y, d, gs : y \in Strings /\ OneMore(kind, s, u, es, y, d, gs)
  BY MoreForms
<1>2. PICK z, e, hs : z \in Strings /\ OneMore(kind, s, t, fs, z, e, hs)
  BY MoreForms
<1>3. d = e /\ y = z
  BY <1>1, <1>2, EntriesOnce DEF OneMore
<1>4. Len(y) <= n
  <2>1. Len(y) < Len(s) /\ Len(y) \in Nat /\ Len(s) \in Nat
    BY <1>1, RestIsShorter, ConsLength DEF OneMore
  <2> QED
    BY <2>1
<1>5. Continues(kind, y, u, gs) /\ Continues(kind, y, t, hs)
  BY <1>1, <1>2, <1>3 DEF OneMore
<1>6. gs = hs /\ u = t
  <2> DEFINE close == Closing(kind)
             comma == Token("T_COMMA")
  <2>1. close \in Tokens /\ comma \in Tokens /\ close # comma
    BY TokenTypes, TokensDiffer
  <2>2. /\ \/ gs = <<>> /\ y = Cons1(close, u)
           \/ \E x \in Strings : y = Cons1(comma, x) /\ More(kind, x, u, gs)
        /\ \/ hs = <<>> /\ y = Cons1(close, t)
           \/ \E x \in Strings : y = Cons1(comma, x) /\ More(kind, x, t, hs)
    BY <1>5 DEF Continues
  <2> HIDE DEF close, comma
  <2>3. CASE y = Cons1(close, u)
    <3>1. ~\E x \in Strings : y = Cons1(comma, x)
      BY <2>1, <2>3, SameCons
    <3> QED
      BY <2>1, <2>2, <2>3, <3>1, SameCons
  <2>4. CASE \E x \in Strings : y = Cons1(comma, x) /\ More(kind, x, u, gs)
    <3>1. PICK x \in Strings : y = Cons1(comma, x) /\ More(kind, x, u, gs)
      BY <2>4
    <3>2. y # Cons1(close, t)
      BY <2>1, <3>1, SameCons
    <3>3. PICK x2 \in Strings : y = Cons1(comma, x2) /\ More(kind, x2, t, hs)
      BY <2>2, <3>2
    <3>4. x2 = x
      BY <2>1, <3>1, <3>3, SameCons
    <3>5. Len(x) <= n
      <4>1. Len(y) = 1 + Len(x) /\ Len(x) \in Nat
        BY <2>1, <3>1, ConsLength
      <4> QED
        BY <1>4, <4>1
    <3>6. OneList(x)
      BY <3>5 DEF AllOne
    <3> QED
      BY <3>1, <3>3, <3>4, <3>6 DEF OneList
  <2> QED
    BY <2>2, <2>3, <2>4
<1> QED
  BY <1>1, <1>2, <1>3, <1>6 DEF OneMore

LEMMA AllUnambiguous ==
  \A n \in Nat : AllOne(n)
<1> DEFINE T == {n \in Nat : AllOne(n)}
<1>1. OneValue(<<>>) /\ OneList(<<>>)
  <2>1. <<>> \in Strings /\ Len(<<>>) = 0
    BY Concats DEF Strings
  <2>2. \A u \in Strings : Len(u) \in Nat
    BY ConsLength
  <2>3. \A u \in Strings : \A v : ~ValueThen(<<>>, v, u)
    BY <2>1, <2>2, RestIsShorter
  <2>4. \A kind \in Kinds : \A u \in Strings : \A e : ~EntryThen(kind, <<>>, e, u)
    BY <2>1, <2>2, RestIsShorter
  <2>5. \A kind \in Kinds : \A u \in Strings : \A es : ~More(kind, <<>>, u, es)
    BY <2>1, <2>4, MoreForms DEF OneMore
  <2> QED
    BY <2>3, <2>5 DEF OneValue, OneList
<1>2. \A s \in Strings : Len(s) \in Nat /\ (Len(s) = 0 <=> s = <<>>)
  BY LenProperties, EmptySeq DEF Strings
<1>3. 0 \in T
  BY <1>1, <1>2 DEF AllOne
<1>4. ASSUME NEW n \in T PROVE n + 1 \in T
  <2> SUFFICES ASSUME NEW s \in Strings, Len(s) <= n + 1
               PROVE  OneValue(s) /\ OneList(s)
    BY DEF AllOne
  <2>1. CASE s = <<>>
    BY <1>1, <2>1
  <2>2. CASE s # <<>>
    <3>1. PICK a \in Tokens, r \in Strings : s = Cons1(a, r)
      BY <2>2, ConsLength
    <3>2. Len(r) <= n
      <4>1. Len(s) = 1 + Len(r) /\ Len(r) \in Nat /\ n \in Nat
        BY <3>1, ConsLength
      <4> QED
        BY <4>1
    <3>3. OneValue(s)
      BY <3>1, <3>2, ValuesOnce DEF AllOne
    <3> QED
      BY <3>3, ListsOnce
  <2> QED
    BY <2>1, <2>2
<1>5. T \in SUBSET Nat
  OBVIOUS
<1> HIDE DEF T
<1>6. T = Nat
  BY <1>3, <1>4, <1>5, SetInduction
<1> QED
  BY <1>6 DEF T

(* A text has one meaning, for all strings and lengths of texts.           *)
THEOREM OneMeaning ==
  \A d, e \in Documents : d[1] = e[1] => d[2] = e[2]
<1> SUFFICES ASSUME NEW d \in Documents, NEW e \in Documents, d[1] = e[1]
             PROVE  d[2] = e[2]
  OBVIOUS
<1> DEFINE All == UNION {Grammar[n].values : n \in 1 .. (MaxTokens - 1)}
           end == Token("T_END")
<1>1. PICK x \in All : d = <<Append(x[1], end), x[2]>>
  BY DEF Documents
<1>2. PICK y \in All : e = <<Append(y[1], end), y[2]>>
  BY DEF Documents
<1>3. \A z \in All : z[1] \in Strings /\ IsValue(z[1], z[2])
  <2> SUFFICES ASSUME NEW n \in 1 .. (MaxTokens - 1), NEW z \in Grammar[n].values
               PROVE  z[1] \in Strings /\ IsValue(z[1], z[2])
    OBVIOUS
  <2>1. n \in Nat
    OBVIOUS
  <2>2. z = <<z[1], z[2]>> /\ z[1] \in LongTexts(n)
    BY <2>1, GrammarTyped DEF Typed, ValuesOf
  <2> QED
    BY <2>2 DEF LongTexts, Strings, IsValue, ValuesOf
<1> HIDE DEF All
<1>4. Append(x[1], end) = Append(y[1], end) /\ d[2] = x[2] /\ e[2] = y[2]
  BY <1>1, <1>2
<1> DEFINE s == x[1]
           t == y[1]
           u == Cons1(end, <<>>)
<1>5. s \in Strings /\ t \in Strings /\ IsValue(s, x[2]) /\ IsValue(t, y[2])
  BY <1>1, <1>2, <1>3
<1>6. u \in Strings /\ end \in Tokens
  BY TokenTypes, CatFacts
<1>7. Append(s, end) = Cat(s, u) /\ Append(t, end) = Cat(t, u)
  BY <1>5, EndIsAppend
<1> HIDE DEF s, t, u
<1>8. Cat(s, u) = Cat(t, u) /\ Cat(s, u) \in Strings /\ Len(Cat(s, u)) \in Nat
  BY <1>4, <1>5, <1>6, <1>7, CatFacts, ConsLength DEF s, t
<1>9. ValueThen(Cat(s, u), x[2], u) /\ ValueThen(Cat(s, u), y[2], u)
  BY <1>5, <1>8 DEF ValueThen
<1>10. OneValue(Cat(s, u))
  BY <1>8, AllUnambiguous DEF AllOne
<1>11. x[2] = y[2]
  BY <1>6, <1>9, <1>10 DEF OneValue
<1> QED
  BY <1>4, <1>11

(* What decode returns is the only meaning of the text it has read: for a  *)
(* text of encode, by EncodeReadsBack, the value that was encoded.         *)
DecodesOneValue ==
  op = "decode" /\ pc = "returned" => \A d \in Documents : d[1] = read => d[2] = LastOf(stack)

THEOREM DecodeReturnsMeaning == JsonSpec => []DecodesOneValue
<1>1. DecodesGrammar => DecodesOneValue
  <2> SUFFICES ASSUME DecodesGrammar, op = "decode", pc = "returned",
                      NEW d \in Documents, d[1] = read
               PROVE  d[2] = LastOf(stack)
    BY DEF DecodesOneValue
  <2> DEFINE e == <<read, LastOf(stack)>>
  <2>1. e \in Documents /\ e[1] = read /\ e[2] = LastOf(stack)
    BY DEF DecodesGrammar
  <2> HIDE DEF e
  <2> QED
    BY <2>1, OneMeaning
<1> QED
  BY <1>1, DecodeMeansGrammar, PTL
=============================================================================
