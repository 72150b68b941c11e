--------------------------- MODULE LuaTableProofs ---------------------------
(***************************************************************************)
(* That the tables of ltable.c are maps, for all keys, values and hashes:  *)
(* what is set is what is got, and no other key is disturbed, whatever is  *)
(* moved aside, chained or rehashed on the way; the length is a border;    *)
(* and a traversal meets every entry once.                                 *)
(*                                                                         *)
(* Sound strengthens TableSound: every taken node is reached from its home *)
(* by links that come to an end.  Reaches and Acyclic say so without a     *)
(* path: a node is reached if it is in every set of nodes that has the     *)
(* home and that no link leaves, and there is an end if the nodes can be   *)
(* ranked so that every link goes down.  Searches are recursive functions; *)
(* WalkDefined says that they exist and WalkEnds where they end.           *)
(***************************************************************************)
EXTENDS LuaTable, InductionFacts, FiniteSetTheorems, SequenceTheorems

(* Keys: none is nil, each has a hash, and the numbers among them can be   *)
(* keys of an array part.  Values: nil is one.                             *)
AreKeys(K) ==
  /\ \A k \in K : /\ k # Nil /\ HashOf(k) \in Nat
                  /\ k[1] = "number" => \E n \in Int : k = Num(n)
  /\ \A n \in Nat \ {0} : Num(n) \in K

Nodes(K, V)  == [key : K \union {Nil}, val : V, next : Nat]
Tables(K, V) == [arr : Seq(V), node : Seq(Nodes(K, V)), free : Nat \ {0}, meta : Nat,
                 absent : SUBSET FastEvents]
Size(t) == Len(t.node)

(* Sets of nodes that no chain leaves, and the chain from h, which has what *)
(* all of those have that contain h.                                       *)
Closed(t, S) == \A i \in S : t.node[i].next # 0 => t.node[i].next \in S
Reaches(t, h, i) ==
  \A S \in SUBSET (1 .. Size(t)) : h \in S /\ Closed(t, S) => i \in S

Descends(t, rank) ==
  \A i \in 1 .. Size(t) : t.node[i].next # 0 => rank[t.node[i].next] < rank[i]
Acyclic(t) == \E n \in Nat : \E rank \in [1 .. Size(t) -> 0 .. n] : Descends(t, rank)

LinksInside(t) == \A i \in 1 .. Size(t) : t.node[i].next \in 0 .. Size(t)
Reached(t)     == \A i \in Taken(t) : Reaches(t, Home(t, i), i)
Distinct(t)    == \A i, j \in Taken(t) : t.node[i].key = t.node[j].key => i = j
UntakenNil(t)  == \A i \in 1 .. Size(t) : t.node[i].key = Nil => t.node[i].val = Nil

Sound(t) ==
  /\ LinksInside(t) /\ LinksSound(t) /\ Acyclic(t) /\ Reached(t)
  /\ HomesOwned(t) /\ Distinct(t) /\ KeysApart(t) /\ FreeBelow(t) /\ UntakenNil(t)
  /\ t.free <= Size(t) + 1

-----------------------------------------------------------------------------
LEMMA TableFacts ==
  ASSUME NEW K, NEW V, NEW t \in Tables(K, V)
  PROVE  /\ Size(t) \in Nat /\ DOMAIN t.node = 1 .. Size(t)
         /\ \A i \in 1 .. Size(t) :
              /\ t.node[i] \in Nodes(K, V)
              /\ t.node[i].key \in K \union {Nil} /\ t.node[i].val \in V /\ t.node[i].next \in Nat
         /\ Len(t.arr) \in Nat /\ DOMAIN t.arr = 1 .. Len(t.arr)
         /\ \A i \in 1 .. Len(t.arr) : t.arr[i] \in V
         /\ t.free \in Nat \ {0}
<1>1. t.arr \in Seq(V) /\ t.node \in Seq(Nodes(K, V)) /\ t.free \in Nat \ {0}
  BY DEF Tables
<1>2. /\ Len(t.node) \in Nat /\ DOMAIN t.node = 1 .. Len(t.node)
      /\ \A i \in 1 .. Len(t.node) : t.node[i] \in Nodes(K, V)
  BY <1>1, LenProperties
<1>3. /\ Len(t.arr) \in Nat /\ DOMAIN t.arr = 1 .. Len(t.arr)
      /\ \A i \in 1 .. Len(t.arr) : t.arr[i] \in V
  BY <1>1, LenProperties
<1>4. \A i \in 1 .. Size(t) :
        t.node[i].key \in K \union {Nil} /\ t.node[i].val \in V /\ t.node[i].next \in Nat
  BY <1>2 DEF Size, Nodes
<1> QED
  BY <1>1, <1>2, <1>3, <1>4 DEF Size

LEMMA Remainder == ASSUME NEW a \in Nat, NEW b \in Nat \ {0} PROVE a % b \in 0 .. b - 1
OBVIOUS

LEMMA PositionType ==
  ASSUME NEW K, AreKeys(K), NEW key \in K, NEW t, Size(t) \in Nat \ {0}
  PROVE  MainPosition(t, key) \in 1 .. Size(t)
<1>1. HashOf(key) \in Nat
  BY DEF AreKeys
<1> DEFINE n == Size(t)
           odd == IF n = 1 THEN 1 ELSE n - 1
<1>2. n \in Nat \ {0} /\ odd \in Nat \ {0} /\ odd <= n
  OBVIOUS
<1>3. HashOf(key) % n \in 0 .. n - 1 /\ HashOf(key) % odd \in 0 .. odd - 1
  <2> HIDE DEF n, odd
  <2> QED
    BY <1>1, <1>2, Remainder
<1>4. MainPosition(t, key) = (HashOf(key) % (IF key[1] \in {"string", "boolean"} THEN n ELSE odd)) + 1
  BY DEF MainPosition, Size
<1> HIDE DEF n, odd
<1>5. MainPosition(t, key) \in 1 .. n
  BY <1>2, <1>3, <1>4
<1> QED
  BY <1>5 DEF n

LEMMA SamePosition ==
  ASSUME NEW t, NEW u, Size(t) = Size(u), NEW key
  PROVE  MainPosition(t, key) = MainPosition(u, key)
BY DEF MainPosition, Size

LEMMA Search ==
  ASSUME NEW K, NEW V, NEW t \in Tables(K, V), LinksInside(t), Acyclic(t),
         NEW stops \in SUBSET (1 .. Size(t)), NEW h \in 1 .. Size(t)
  PROVE  LET y == OnChain(t, h, stops)
         IN  /\ y \in stops \union {0}
             /\ y = 0 => \E S \in SUBSET (1 .. Size(t)) :
                           h \in S /\ Closed(t, S) /\ S \intersect stops = {}
<1> DEFINE n == Size(t)
           D == 0 .. n
           out == [i \in D |-> i]
           next == [i \in D |-> IF i = 0 THEN 0 ELSE t.node[i].next]
           ends == stops \union {0}
           y == OnChain(t, h, stops)
<1>1. n \in Nat /\ \A i \in 1 .. n : t.node[i].next \in D
  BY TableFacts DEF LinksInside
<1>2. /\ ends \in SUBSET D /\ next \in [D -> D] /\ out \in [D -> D] /\ h \in D
      /\ \A i \in D : out[i] = i /\ (i # 0 => next[i] = t.node[i].next)
  BY <1>1
<1>3. PICK top \in Nat : \E rank \in [1 .. n -> 0 .. top] : Descends(t, rank)
  BY DEF Acyclic
<1>4. PICK rank \in [1 .. n -> 0 .. top] : Descends(t, rank)
  BY <1>3
<1> DEFINE high == [i \in D |-> IF i = 0 THEN 0 ELSE rank[i] + 1]
<1>5. high \in [D -> 0 .. top + 1] /\ \A i \in D \ ends : high[next[i]] < high[i]
  <2>1. ASSUME NEW i \in D \ ends PROVE high[next[i]] < high[i]
    <3>1. i \in 1 .. n /\ next[i] = t.node[i].next /\ high[i] = rank[i] + 1 /\ rank[i] \in 0 .. top
      BY <1>1, <1>2
    <3>2. CASE t.node[i].next = 0
      <4>1. high[0] = 0
        BY <1>1
      <4> HIDE DEF high, next
      <4> QED
        BY <3>1, <3>2, <4>1
    <3>3. CASE t.node[i].next # 0
      <4>1. t.node[i].next \in 1 .. n /\ rank[t.node[i].next] < rank[i]
        BY <1>1, <1>4, <3>1, <3>3 DEF Descends
      <4>2. rank[t.node[i].next] \in 0 .. top /\ high[next[i]] = rank[t.node[i].next] + 1
        BY <3>1, <4>1
      <4> QED
        BY <3>1, <4>1, <4>2
    <3> QED
      BY <3>2, <3>3
  <2>2. high \in [D -> 0 .. top + 1]
    BY <1>3
  <2> QED
    BY <2>1, <2>2
<1> HIDE DEF high, next, out, ends
<1>6. Walkable(D, ends, next)
  <2> DEFINE m == top + 1
  <2>1. m \in Nat /\ high \in [D -> 0 .. m] /\ Falls(D, ends, next, high)
    BY <1>5 DEF Falls
  <2> HIDE DEF m, D
  <2> QED
    BY <1>2, <2>1 DEF Walkable
<1>7. \E f \in [D -> D] : Walks(f, D, ends, next, out)
  <2> HIDE DEF D
  <2> QED
    BY <1>2, <1>6, WalkDefined
<1> DEFINE Same(f) == f = [j \in 0 .. Len(t.node) |->
                            IF j = 0 \/ j \in stops THEN j ELSE f[t.node[j].next]]
           first == CHOOSE f : Same(f)
<1>8. ASSUME NEW f \in [D -> D], Walks(f, D, ends, next, out) PROVE Same(f)
  <2>1. ASSUME NEW j \in D PROVE f[j] = IF j = 0 \/ j \in stops THEN j ELSE f[t.node[j].next]
    BY <1>2, <1>8 DEF Walks, ends
  <2> QED
    BY <2>1 DEF Size
<1>9. Same(first)
  BY <1>7, <1>8
<1>10. Walks(first, D, ends, next, out)
  <2>1. ASSUME NEW f, Same(f), NEW j \in D
        PROVE  f[j] = IF j \in ends THEN out[j] ELSE f[next[j]]
    <3>1. f[j] = IF j = 0 \/ j \in stops THEN j ELSE f[t.node[j].next]
      BY <2>1 DEF Size
    <3> HIDE DEF Same
    <3> QED
      BY <1>2, <3>1 DEF ends
  <2> HIDE DEF first, Same
  <2> QED
    BY <1>9, <2>1 DEF Walks
<1>11. y = first[h]
  BY DEF OnChain
<1> HIDE DEF first, y
<1>12. \E z \in D \intersect ends : first[h] = out[z]
  <2> HIDE DEF D
  <2>1. D \in SUBSET D /\ Stays(D, ends, next)
    BY <1>2 DEF Stays
  <2>2. \A x \in D : \E z \in D \intersect ends : first[x] = out[z]
    BY <1>10, <1>6, <2>1, WalkEnds
  <2> QED
    BY <1>2, <2>2
<1>13. y \in ends
  BY <1>2, <1>11, <1>12
<1>14. ASSUME y = 0
       PROVE  \E S \in SUBSET (1 .. n) : h \in S /\ Closed(t, S) /\ S \intersect stops = {}
  <2> DEFINE S == {i \in 1 .. n : first[i] = 0}
  <2>1. h \in S
    BY <1>11, <1>14
  <2>2. ASSUME NEW i \in S PROVE i \notin stops /\ (t.node[i].next # 0 => t.node[i].next \in S)
    <3>1. i \in D /\ i # 0 /\ first[i] = 0
      OBVIOUS
    <3>2. i \notin ends
      BY <1>2, <1>10, <3>1 DEF Walks, ends
    <3>3. first[t.node[i].next] = 0
      BY <1>2, <1>10, <3>1, <3>2 DEF Walks
    <3> QED
      BY <1>1, <3>2, <3>3 DEF ends
  <2> QED
    BY <2>1, <2>2 DEF Closed
<1> QED
  BY <1>13, <1>14 DEF y, ends

LEMMA HomeType ==
  ASSUME NEW K, NEW V, AreKeys(K), NEW t \in Tables(K, V), NEW i \in Taken(t)
  PROVE  /\ i \in 1 .. Size(t) /\ t.node[i].key \in K
         /\ Home(t, i) \in 1 .. Size(t) /\ Size(t) \in Nat \ {0}
<1>1. i \in 1 .. Size(t) /\ t.node[i].key \in K /\ Size(t) \in Nat
  BY TableFacts DEF Taken
<1>2. Size(t) \in Nat \ {0}
  BY <1>1
<1> QED
  BY <1>1, <1>2, PositionType DEF Home

LEMMA NodeOfFacts ==
  ASSUME NEW K, NEW V, AreKeys(K), NEW t \in Tables(K, V), Sound(t), NEW key \in K
  PROVE  /\ NodeOf(t, key) \in 0 .. Size(t)
         /\ NodeOf(t, key) # 0 => /\ NodeOf(t, key) \in Taken(t)
                                  /\ t.node[NodeOf(t, key)].key = key
         /\ \A i \in Taken(t) : t.node[i].key = key => NodeOf(t, key) = i
<1>1. /\ Size(t) \in Nat /\ DOMAIN t.node = 1 .. Size(t) /\ key # Nil
      /\ t.node \in Seq(Nodes(K, V))
  BY TableFacts DEF AreKeys, Tables
<1>2. CASE t.node = <<>>
  <2>1. Taken(t) = {} /\ NodeOf(t, key) = 0
    BY <1>2 DEF Taken, NodeOf
  <2> QED
    BY <1>1, <2>1
<1>3. CASE t.node # <<>>
  <2> DEFINE stops == {i \in DOMAIN t.node : t.node[i].key = key}
             h == MainPosition(t, key)
             y == OnChain(t, h, stops)
  <2>1. Size(t) \in Nat \ {0}
    BY <1>1, <1>3, EmptySeq DEF Size
  <2>2. h \in 1 .. Size(t) /\ stops \in SUBSET (1 .. Size(t)) /\ stops \subseteq Taken(t)
    BY <1>1, <2>1, PositionType DEF Taken
  <2>3. NodeOf(t, key) = y
    BY <1>1, <1>3 DEF NodeOf
  <2> HIDE DEF stops, h, y
  <2>4. /\ y \in stops \union {0}
        /\ y = 0 => \E S \in SUBSET (1 .. Size(t)) :
                      h \in S /\ Closed(t, S) /\ S \intersect stops = {}
    BY <2>2, Search DEF Sound, y
  <2>5. ASSUME NEW i \in Taken(t), t.node[i].key = key PROVE y = i
    <3>1. i \in stops /\ Home(t, i) = h
      BY <2>5, <1>1 DEF stops, Home, h, Taken
    <3>2. y # 0
      <4>1. Reaches(t, h, i)
        BY <3>1 DEF Sound, Reached
      <4> QED
        BY <2>4, <3>1, <4>1 DEF Reaches
    <3>3. y \in stops /\ y \in Taken(t)
      BY <2>2, <2>4, <3>2
    <3> QED
      BY <2>5, <3>3 DEF Sound, Distinct, stops
  <2> QED
    BY <1>1, <2>2, <2>3, <2>4, <2>5 DEF stops
<1> QED
  BY <1>2, <1>3

LEMMA BeforeFacts ==
  ASSUME NEW K, NEW V, AreKeys(K), NEW t \in Tables(K, V), Sound(t),
         NEW i \in Taken(t), Home(t, i) # i
  PROVE  LET b == Before(t, Home(t, i), i)
         IN  b \in 1 .. Size(t) /\ t.node[b].next = i
<1> DEFINE n == Size(t)
           h == Home(t, i)
           stops == {j \in DOMAIN t.node : t.node[j].next = i}
           b == OnChain(t, h, stops)
<1>1. n \in Nat \ {0} /\ DOMAIN t.node = 1 .. n /\ i \in 1 .. n /\ h \in 1 .. n
  BY TableFacts, HomeType
<1>2. stops \in SUBSET (1 .. n)
  BY <1>1
<1> HIDE DEF stops, h, n
<1>3. /\ b \in stops \union {0}
      /\ b = 0 => \E S \in SUBSET (1 .. n) : h \in S /\ Closed(t, S) /\ S \intersect stops = {}
  BY <1>1, <1>2, Search DEF Sound, n
<1>4. b # 0
  <2> SUFFICES ASSUME NEW S \in SUBSET (1 .. n), h \in S, Closed(t, S), S \intersect stops = {}
               PROVE  FALSE
    BY <1>3
  <2>1. \A j \in S \ {i} : t.node[j].next # i
    BY <1>1, <1>2 DEF stops
  <2>2. Closed(t, S \ {i})
    BY <2>1 DEF Closed
  <2>3. Reaches(t, h, i)
    BY DEF Sound, Reached, h
  <2>4. h \in S \ {i}
    BY DEF h
  <2> QED
    BY <2>2, <2>3, <2>4 DEF Reaches, n
<1>5. b \in stops /\ b = Before(t, Home(t, i), i)
  BY <1>3, <1>4 DEF Before, stops, h
<1> QED
  BY <1>1, <1>5 DEF stops, n

(* What a table has: the values of its array part, and those of its nodes. *)
LEMMA GetIs ==
  ASSUME NEW K, NEW V, AreKeys(K), NEW t \in Tables(K, V), Sound(t), NEW key \in K
  PROVE  /\ InArray(t, key) => Get(t, key) = t.arr[key[2]]
         /\ ~InArray(t, key) =>
              /\ \A i \in Taken(t) : t.node[i].key = key => Get(t, key) = t.node[i].val
              /\ (\A i \in Taken(t) : t.node[i].key # key) => Get(t, key) = Nil
<1> DEFINE i == NodeOf(t, key)
<1>1. /\ i \in 0 .. Size(t)
      /\ i # 0 => i \in Taken(t) /\ t.node[i].key = key
      /\ \A j \in Taken(t) : t.node[j].key = key => i = j
  BY NodeOfFacts
<1>2. 0 \notin Taken(t)
  BY TableFacts DEF Taken
<1>3. Get(t, key) = IF InArray(t, key) THEN t.arr[key[2]] ELSE ValueAt(t, i)
  BY DEF Get
<1> HIDE DEF i
<1> QED
  BY <1>1, <1>2, <1>3 DEF ValueAt

LEMMA GetType ==
  ASSUME NEW K, NEW V, AreKeys(K), Nil \in V, NEW t \in Tables(K, V), Sound(t), NEW key \in K
  PROVE  Get(t, key) \in V
<1>1. CASE InArray(t, key)
  <2>1. key[2] \in 1 .. Len(t.arr)
    BY <1>1, TableFacts DEF InArray
  <2> QED
    BY <1>1, <2>1, TableFacts, GetIs
<1>2. CASE ~InArray(t, key)
  <2>1. \A i \in Taken(t) : t.node[i].val \in V
    BY TableFacts DEF Taken
  <2> QED
    BY <1>2, <2>1, GetIs
<1> QED
  BY <1>1, <1>2

(* The invariant has what TLC checks of the machine's tables. *)
LEMMA SoundIsSound ==
  ASSUME NEW K, NEW V, AreKeys(K), NEW t \in Tables(K, V), Sound(t)
  PROVE  TableSound(t)
<1>1. KeysFound(t)
  BY HomeType, NodeOfFacts DEF KeysFound
<1> QED
  BY <1>1 DEF Sound, TableSound

-----------------------------------------------------------------------------
(* What an operation may do to the nodes. *)

SameLink(t, u, i)  == u.node[i].next = t.node[i].next
SameNode(t, u, i) == u.node[i].key = t.node[i].key /\ u.node[i].val = t.node[i].val

(* u has the array part and as many nodes as t. *)
Alike(t, u) == Size(u) = Size(t) /\ DOMAIN u.arr = DOMAIN t.arr

LEMMA AlikeFacts ==
  ASSUME NEW t, NEW u, Alike(t, u), NEW key
  PROVE  /\ InArray(u, key) = InArray(t, key)
         /\ MainPosition(u, key) = MainPosition(t, key)
BY SamePosition DEF Alike, InArray

(* Only values change. *)
LEMMA SameChains ==
  ASSUME NEW K, NEW V, AreKeys(K), NEW t \in Tables(K, V), NEW u \in Tables(K, V), Sound(t),
         Alike(t, u), u.free = t.free, UntakenNil(u),
         \A i \in 1 .. Size(t) : u.node[i].key = t.node[i].key /\ SameLink(t, u, i)
  PROVE  Sound(u) /\ Taken(u) = Taken(t)
<1>1. /\ Size(t) \in Nat /\ Size(u) = Size(t)
      /\ DOMAIN t.node = 1 .. Size(t) /\ DOMAIN u.node = 1 .. Size(t)
  BY TableFacts DEF Alike
<1>2. Taken(u) = Taken(t)
  BY <1>1 DEF Taken
<1>3. \A i \in Taken(t) : i \in 1 .. Size(t) /\ Home(t, i) \in 1 .. Size(t) /\ Home(u, i) = Home(t, i)
  BY HomeType, AlikeFacts DEF Home
<1>4. LinksInside(u) /\ LinksSound(u)
  BY <1>1, <1>2 DEF SameLink, Sound, LinksInside, LinksSound
<1>5. Acyclic(u)
  BY <1>1 DEF Sound, Acyclic, Descends, SameLink
<1>6. \A S \in SUBSET (1 .. Size(t)) : Closed(u, S) = Closed(t, S)
  BY DEF Closed, SameLink
<1>7. Reached(u)
  BY <1>1, <1>2, <1>3, <1>6 DEF Sound, Reached, Reaches
<1>8. HomesOwned(u) /\ Distinct(u)
  BY <1>1, <1>2, <1>3 DEF Sound, HomesOwned, Distinct
<1>9. KeysApart(u) /\ FreeBelow(u) /\ u.free <= Size(u) + 1
  BY <1>1, <1>2, <1>3, AlikeFacts DEF Sound, KeysApart, FreeBelow, Size
<1> QED
  BY <1>2, <1>4, <1>5, <1>7, <1>8, <1>9 DEF Sound

(* A new key gets the place where it belongs, in which no value is left. *)
InPlace(t, u, key, mp) ==
  /\ Alike(t, u) /\ u.free = t.free
  /\ u.node[mp].key = key /\ SameLink(t, u, mp)
  /\ \A i \in (1 .. Size(t)) \ {mp} : SameNode(t, u, i) /\ SameLink(t, u, i)

IsNew(t, key) == ~InArray(t, key) /\ \A i \in Taken(t) : t.node[i].key # key

LEMMA KeepsInPlace ==
  ASSUME NEW K, NEW V, AreKeys(K), NEW t \in Tables(K, V), NEW u \in Tables(K, V), Sound(t),
         NEW key \in K, IsNew(t, key), NEW mp \in 1 .. Size(t), mp = MainPosition(t, key),
         InPlace(t, u, key, mp)
  PROVE  Sound(u) /\ Taken(u) = Taken(t) \union {mp}
<1> USE DEF InPlace, SameNode, SameLink
<1>1. /\ Size(t) \in Nat /\ Size(u) = Size(t) /\ key # Nil
      /\ DOMAIN t.node = 1 .. Size(t) /\ DOMAIN u.node = 1 .. Size(t)
  BY TableFacts DEF Alike, AreKeys
<1>2. Taken(u) = Taken(t) \union {mp}
  BY <1>1 DEF Taken
<1>3. /\ \A i \in Taken(t) : i \in 1 .. Size(t) /\ Home(t, i) \in 1 .. Size(t)
      /\ \A i \in Taken(t) \ {mp} : Home(u, i) = Home(t, i)
      /\ Home(u, mp) = mp
  BY HomeType, AlikeFacts DEF Home
<1>4. LinksInside(u) /\ LinksSound(u)
  <2>1. \A i \in 1 .. Size(t) : u.node[i].next = t.node[i].next
    OBVIOUS
  <2> QED
    BY <1>1, <1>2, <2>1 DEF Sound, LinksInside, LinksSound
<1>5. Acyclic(u)
  <2>1. \A i \in 1 .. Size(t) : u.node[i].next = t.node[i].next
    OBVIOUS
  <2> QED
    BY <1>1, <2>1 DEF Sound, Acyclic, Descends
<1>6. \A S \in SUBSET (1 .. Size(t)) : Closed(u, S) = Closed(t, S)
  <2>1. \A i \in 1 .. Size(t) : u.node[i].next = t.node[i].next
    OBVIOUS
  <2> QED
    BY <2>1 DEF Closed
<1>7. Reached(u)
  BY <1>1, <1>2, <1>3, <1>6 DEF Sound, Reached, Reaches
<1>8. HomesOwned(u)
  BY <1>1, <1>2, <1>3 DEF Sound, HomesOwned
<1>9. Distinct(u)
  BY <1>1, <1>2, <1>3 DEF Sound, Distinct, IsNew
<1>10. KeysApart(u)
  BY <1>1, <1>2, <1>3, AlikeFacts DEF Sound, KeysApart, IsNew
<1>11. FreeBelow(u) /\ u.free <= Size(u) + 1
  BY <1>1, <1>2 DEF Sound, FreeBelow, Size
<1>12. UntakenNil(u)
  BY <1>1 DEF Sound, UntakenNil
<1> QED
  BY <1>2, <1>4, <1>5, <1>7, <1>8, <1>9, <1>10, <1>11, <1>12 DEF Sound

-----------------------------------------------------------------------------
(* n is the last free position, and the next one to be looked for is below.*)
TakesFree(t, u, n) ==
  /\ n \in 1 .. Size(t) /\ t.node[n].key = Nil /\ u.free = n /\ n < t.free
  /\ \A i \in n + 1 .. t.free - 1 : t.node[i].key # Nil

LEMMA UnlinkedFree ==
  ASSUME NEW K, NEW V, NEW t \in Tables(K, V), Sound(t), NEW n \in 1 .. Size(t), t.node[n].key = Nil
  PROVE  n \notin Taken(t) /\ t.node[n].next = 0 /\ \A i \in 1 .. Size(t) : t.node[i].next # n
<1>1. DOMAIN t.node = 1 .. Size(t) /\ n \notin Taken(t) /\ n # 0
  BY TableFacts DEF Taken
<1> QED
  BY <1>1 DEF Sound, LinksSound

LEMMA FreeStaysBelow ==
  ASSUME NEW K, NEW V, NEW t \in Tables(K, V), NEW u \in Tables(K, V), Sound(t), Size(u) = Size(t),
         NEW n, TakesFree(t, u, n), Taken(t) \union {n} \subseteq Taken(u)
  PROVE  FreeBelow(u) /\ u.free <= Size(u) + 1
<1>1. Size(t) \in Nat /\ t.free \in Nat /\ DOMAIN t.node = 1 .. Size(t) /\ t.free <= Size(t) + 1
  BY TableFacts DEF Sound
<1>2. ASSUME NEW i \in n .. Size(t) PROVE i \in Taken(u)
  <2>1. CASE i = n
    BY <2>1
  <2>2. CASE i # n /\ i < t.free
    BY <1>1, <2>2 DEF TakesFree, Taken
  <2>3. CASE i >= t.free
    BY <1>1, <2>3 DEF Sound, FreeBelow, Size, TakesFree
  <2> QED
    BY <1>1, <2>1, <2>2, <2>3 DEF TakesFree
<1> QED
  BY <1>1, <1>2 DEF FreeBelow, TakesFree, Size

(* A new key goes to the free position n, and comes after the node at mp,  *)
(* which is where both belong.                                             *)
ComesAfter(t, u, key, mp, n) ==
  /\ Alike(t, u) /\ TakesFree(t, u, n)
  /\ u.node[n].key = key /\ u.node[n].next = t.node[mp].next
  /\ u.node[mp].next = n
  /\ \A i \in (1 .. Size(t)) \ {n} : SameNode(t, u, i)
  /\ \A i \in (1 .. Size(t)) \ {mp, n} : SameLink(t, u, i)

LEMMA KeepsAfter ==
  ASSUME NEW K, NEW V, AreKeys(K), NEW t \in Tables(K, V), NEW u \in Tables(K, V), Sound(t),
         NEW key \in K, IsNew(t, key), NEW mp \in Taken(t), mp = MainPosition(t, key),
         Home(t, mp) = mp, NEW n, ComesAfter(t, u, key, mp, n)
  PROVE  Sound(u) /\ Taken(u) = Taken(t) \union {n} /\ n \notin Taken(t)
<1>1. /\ Size(t) \in Nat /\ Size(u) = Size(t) /\ key # Nil /\ mp \in 1 .. Size(t)
      /\ DOMAIN t.node = 1 .. Size(t) /\ DOMAIN u.node = 1 .. Size(t)
  BY TableFacts DEF ComesAfter, Alike, AreKeys, Taken
<1>2. /\ n \in 1 .. Size(t) /\ t.node[n].key = Nil /\ n # mp
      /\ n \notin Taken(t) /\ t.node[n].next = 0 /\ \A i \in 1 .. Size(t) : t.node[i].next # n
  BY UnlinkedFree DEF ComesAfter, TakesFree, Taken
<1>0. /\ u.node[n].key = key /\ Alike(t, u) /\ TakesFree(t, u, n)
      /\ \A i \in (1 .. Size(t)) \ {n} : u.node[i].key = t.node[i].key /\ u.node[i].val = t.node[i].val
  BY DEF ComesAfter, SameNode
<1>3. Taken(u) = Taken(t) \union {n}
  BY <1>0, <1>1, <1>2 DEF Taken
<1>4. /\ \A i \in Taken(t) : /\ i \in 1 .. Size(t) /\ Home(t, i) \in 1 .. Size(t)
                             /\ Home(u, i) = Home(t, i)
      /\ Home(u, n) = mp /\ Home(u, mp) = mp
  BY <1>0, <1>2, HomeType, AlikeFacts DEF Home, Taken
<1>5. /\ u.node[n].next = t.node[mp].next /\ u.node[mp].next = n
      /\ \A i \in (1 .. Size(t)) \ {mp, n} : u.node[i].next = t.node[i].next
  BY DEF ComesAfter, SameLink
<1>6. LinksInside(u)
  BY <1>1, <1>2, <1>5 DEF Sound, LinksInside
<1>7. LinksSound(u)
  <2>1. ASSUME NEW i \in 1 .. Size(t), u.node[i].next # 0
        PROVE  i \in Taken(u) /\ u.node[i].next \in Taken(u)
    <3>1. \A a \in 1 .. Size(t) : t.node[a].next # 0 => a \in Taken(t) /\ t.node[a].next \in Taken(t)
      BY <1>1 DEF Sound, LinksSound
    <3>2. CASE i = mp
      BY <1>3, <1>5, <3>2
    <3>3. CASE i = n
      BY <1>1, <1>3, <1>5, <2>1, <3>1, <3>3
    <3>4. CASE i # mp /\ i # n
      BY <1>3, <1>5, <2>1, <3>1, <3>4
    <3> QED
      BY <3>2, <3>3, <3>4
  <2>2. ASSUME NEW i \in 1 .. Size(t), NEW j \in 1 .. Size(t),
               u.node[i].next # 0, u.node[j].next = u.node[i].next
        PROVE  i = j
    <3>1. \A a, b \in 1 .. Size(t) : t.node[a].next # 0 /\ t.node[a].next = t.node[b].next => a = b
      BY <1>1 DEF Sound, LinksSound
    <3> QED
      BY <1>1, <1>2, <1>5, <2>2, <3>1
  <2> QED
    BY <1>1, <2>1, <2>2 DEF LinksSound
<1>8. Acyclic(u)
  <2>0. PICK top \in Nat : \E rank \in [1 .. Size(t) -> 0 .. top] : Descends(t, rank)
    BY DEF Sound, Acyclic
  <2>1. PICK rank \in [1 .. Size(t) -> 0 .. top] : Descends(t, rank)
    BY <2>0
  <2> DEFINE high == [i \in 1 .. Size(t) |-> IF i = n THEN 2 * rank[mp] + 1 ELSE 2 * rank[i] + 2]
             m == 2 * top + 2
  <2>2. m \in Nat /\ \A i \in 1 .. Size(t) : rank[i] \in 0 .. top
    OBVIOUS
  <2>3. high \in [1 .. Size(t) -> 0 .. m]
    BY <1>1, <2>2
  <2>4. high[n] = 2 * rank[mp] + 1 /\ \A i \in (1 .. Size(t)) \ {n} : high[i] = 2 * rank[i] + 2
    BY <1>2
  <2>5. ASSUME NEW i \in 1 .. Size(t), u.node[i].next # 0
        PROVE  high[u.node[i].next] < high[i]
    <3> HIDE DEF high
    <3>1. CASE i = mp
      <4>1. high[u.node[i].next] = 2 * rank[mp] + 1 /\ high[i] = 2 * rank[mp] + 2
        BY <1>1, <1>2, <1>5, <2>4, <3>1
      <4> QED
        BY <1>1, <2>2, <4>1
    <3>2. CASE i = n
      <4>1. t.node[mp].next \in (1 .. Size(t)) \ {n} /\ rank[t.node[mp].next] < rank[mp]
        BY <1>1, <1>2, <1>5, <2>1, <2>5, <3>2 DEF Sound, LinksInside, Descends
      <4> QED
        <5>1. high[u.node[i].next] = 2 * rank[t.node[mp].next] + 2 /\ high[i] = 2 * rank[mp] + 1
          BY <1>5, <2>4, <3>2, <4>1
        <5>2. rank[t.node[mp].next] \in Nat /\ rank[mp] \in Nat
          BY <1>1, <2>2, <4>1
        <5> QED
          BY <4>1, <5>1, <5>2
    <3>3. CASE i # mp /\ i # n
      <4>1. /\ t.node[i].next \in (1 .. Size(t)) \ {n} /\ rank[t.node[i].next] < rank[i]
            /\ u.node[i].next = t.node[i].next
        BY <1>1, <1>2, <1>5, <2>1, <2>5, <3>3 DEF Sound, LinksInside, Descends
      <4> QED
        <5>1. high[u.node[i].next] = 2 * rank[t.node[i].next] + 2 /\ high[i] = 2 * rank[i] + 2
          BY <2>4, <3>3, <4>1
        <5> QED
          BY <1>1, <2>2, <4>1, <5>1
    <3> QED
      BY <3>1, <3>2, <3>3
  <2> HIDE DEF high, m
  <2> QED
    BY <1>1, <2>2, <2>3, <2>5 DEF Acyclic, Descends
<1>9. Reached(u)
  <2>1. ASSUME NEW S \in SUBSET (1 .. Size(t)), Closed(u, S)
        PROVE  Closed(t, S) /\ (mp \in S => n \in S)
    <3>1. mp \in S => n \in S
      BY <1>2, <1>5, <2>1 DEF Closed
    <3>2. ASSUME NEW i \in S, t.node[i].next # 0 PROVE t.node[i].next \in S
      BY <1>2, <1>5, <2>1, <3>1, <3>2 DEF Closed
    <3> QED
      BY <3>1, <3>2 DEF Closed
  <2>2. ASSUME NEW i \in Taken(u), NEW S \in SUBSET (1 .. Size(t)), Home(u, i) \in S, Closed(u, S)
        PROVE  i \in S
    <3>1. CASE i = n
      BY <1>4, <2>1, <2>2, <3>1
    <3>2. CASE i # n
      <4>1. i \in Taken(t) /\ Home(t, i) \in S /\ Closed(t, S)
        BY <1>3, <1>4, <2>1, <2>2, <3>2
      <4> QED
        BY <4>1 DEF Sound, Reached, Reaches
    <3> QED
      BY <3>1, <3>2
  <2> QED
    BY <1>1, <2>2 DEF Reached, Reaches
<1>10. HomesOwned(u)
  BY <1>3, <1>4 DEF Sound, HomesOwned
<1>11. Distinct(u)
  <2>1. \A i \in Taken(t) : u.node[i].key = t.node[i].key /\ t.node[i].key # key
    BY <1>0, <1>2, <1>4 DEF IsNew
  <2>2. \A i, j \in Taken(t) : t.node[i].key = t.node[j].key => i = j
    BY DEF Sound, Distinct
  <2> QED
    BY <1>0, <1>3, <2>1, <2>2 DEF Distinct
<1>12. KeysApart(u)
  BY <1>0, <1>2, <1>3, <1>4, AlikeFacts DEF Sound, KeysApart, IsNew
<1>13. FreeBelow(u) /\ u.free <= Size(u) + 1
  BY <1>0, <1>1, <1>3, FreeStaysBelow
<1>14. UntakenNil(u)
  BY <1>0, <1>1 DEF Sound, UntakenNil
<1> QED
  BY <1>2, <1>3, <1>6, <1>7, <1>8, <1>9, <1>10, <1>11, <1>12, <1>13, <1>14 DEF Sound

(* The node at mp belongs elsewhere: it moves to the free position n, where *)
(* b, the node before it, now leads, and the new key gets its place.        *)
MovesAway(t, u, key, mp, n, b) ==
  /\ Alike(t, u) /\ TakesFree(t, u, n)
  /\ u.node[mp].key = key /\ u.node[mp].next = 0
  /\ u.node[n].key = t.node[mp].key /\ u.node[n].val = t.node[mp].val
  /\ u.node[n].next = t.node[mp].next
  /\ u.node[b].next = n
  /\ \A i \in (1 .. Size(t)) \ {mp, n} : SameNode(t, u, i)
  /\ \A i \in (1 .. Size(t)) \ {mp, n, b} : SameLink(t, u, i)

LEMMA KeepsAway ==
  ASSUME NEW K, NEW V, AreKeys(K), NEW t \in Tables(K, V), NEW u \in Tables(K, V), Sound(t),
         NEW key \in K, IsNew(t, key), NEW mp \in Taken(t), mp = MainPosition(t, key),
         Home(t, mp) # mp, NEW n, NEW b \in 1 .. Size(t), t.node[b].next = mp,
         MovesAway(t, u, key, mp, n, b)
  PROVE  Sound(u) /\ Taken(u) = Taken(t) \union {n} /\ n \notin Taken(t)
<1>1. /\ Size(t) \in Nat /\ Size(u) = Size(t) /\ key # Nil /\ mp \in 1 .. Size(t)
      /\ DOMAIN t.node = 1 .. Size(t) /\ DOMAIN u.node = 1 .. Size(t)
  BY TableFacts DEF MovesAway, Alike, AreKeys, Taken
<1>2. /\ n \in 1 .. Size(t) /\ t.node[n].key = Nil /\ n # mp
      /\ n \notin Taken(t) /\ t.node[n].next = 0 /\ \A i \in 1 .. Size(t) : t.node[i].next # n
  BY UnlinkedFree DEF MovesAway, TakesFree, Taken
<1>20. /\ u.node[mp].key = key /\ Alike(t, u) /\ TakesFree(t, u, n)
      /\ u.node[n].key = t.node[mp].key /\ u.node[n].val = t.node[mp].val
      /\ \A i \in (1 .. Size(t)) \ {mp, n} :
           u.node[i].key = t.node[i].key /\ u.node[i].val = t.node[i].val
  BY DEF MovesAway, SameNode
<1>0. PICK top \in Nat : \E rank \in [1 .. Size(t) -> 0 .. top] : Descends(t, rank)
  BY DEF Sound, Acyclic
<1>3. PICK rank \in [1 .. Size(t) -> 0 .. top] : Descends(t, rank)
  BY <1>0
<1>4. /\ b # n /\ b # mp /\ b \in Taken(t)
      /\ \A i \in (1 .. Size(t)) \ {b} : t.node[i].next # mp
  <2>1. mp # 0 /\ rank[mp] < rank[b] /\ rank[mp] \in 0 .. top
    BY <1>1, <1>3 DEF Descends
  <2>2. b # mp
    BY <2>1
  <2> QED
    BY <1>1, <1>2, <2>1, <2>2 DEF Sound, LinksSound
<1>5. Taken(u) = Taken(t) \union {n}
  BY <1>1, <1>2, <1>20 DEF Taken
<1>6. /\ \A i \in Taken(t) : i \in 1 .. Size(t) /\ Home(t, i) \in 1 .. Size(t) /\ Home(t, i) # mp
      /\ \A i \in Taken(t) \ {mp} : Home(u, i) = Home(t, i)
      /\ Home(u, n) = Home(t, mp) /\ Home(u, mp) = mp
  <2>1. \A i \in Taken(t) : Home(t, i) # mp
    BY DEF Sound, HomesOwned
  <2> QED
    <3>1. \A i \in Taken(t) : i \in 1 .. Size(t) /\ Home(t, i) \in 1 .. Size(t)
      BY HomeType
    <3>2. \A k : MainPosition(u, k) = MainPosition(t, k)
      BY <1>20, AlikeFacts
    <3>3. \A i \in Taken(t) \ {mp} : Home(u, i) = Home(t, i)
      BY <1>2, <1>20, <3>1, <3>2 DEF Home
    <3>4. Home(u, n) = Home(t, mp) /\ Home(u, mp) = mp
      BY <1>20, <3>2 DEF Home
    <3> QED
      BY <2>1, <3>1, <3>3, <3>4
<1>7. /\ u.node[mp].next = 0 /\ u.node[b].next = n /\ u.node[n].next = t.node[mp].next
      /\ \A i \in (1 .. Size(t)) \ {mp, n, b} : u.node[i].next = t.node[i].next
  BY DEF MovesAway, SameLink
<1>8. LinksInside(u)
  <2>1. \A i \in 1 .. Size(t) : t.node[i].next \in 0 .. Size(t)
    BY DEF Sound, LinksInside
  <2>2. ASSUME NEW i \in 1 .. Size(t) PROVE u.node[i].next \in 0 .. Size(t)
    <3>1. CASE i = mp \/ i = b \/ i = n
      BY <1>1, <1>2, <1>7, <2>1, <3>1
    <3>2. CASE i \in (1 .. Size(t)) \ {mp, n, b}
      BY <1>7, <2>1, <3>2
    <3> QED
      BY <3>1, <3>2
  <2> QED
    BY <1>1, <2>2 DEF LinksInside
<1>9. LinksSound(u)
  <2>1. ASSUME NEW i \in 1 .. Size(t), u.node[i].next # 0
        PROVE  i \in Taken(u) /\ u.node[i].next \in Taken(u)
    <3>1. \A a \in 1 .. Size(t) : t.node[a].next # 0 => a \in Taken(t) /\ t.node[a].next \in Taken(t)
      BY <1>1 DEF Sound, LinksSound
    <3>2. CASE i = b
      BY <1>4, <1>5, <1>7, <3>2
    <3>3. CASE i = n
      BY <1>1, <1>5, <1>7, <2>1, <3>1, <3>3
    <3>4. CASE i # b /\ i # n /\ i # mp
      BY <1>5, <1>7, <2>1, <3>1, <3>4
    <3> QED
      BY <1>7, <2>1, <3>2, <3>3, <3>4
  <2>2. ASSUME NEW i \in 1 .. Size(t), NEW j \in 1 .. Size(t),
               u.node[i].next # 0, u.node[j].next = u.node[i].next
        PROVE  i = j
    <3>1. \A a, c \in 1 .. Size(t) : t.node[a].next # 0 /\ t.node[a].next = t.node[c].next => a = c
      BY <1>1 DEF Sound, LinksSound
    <3>2. i # mp /\ j # mp
      BY <1>7, <2>2
    <3>3. \A a \in 1 .. Size(t) : t.node[a].next # n
      BY <1>2
    <3>4. ASSUME NEW a \in (1 .. Size(t)) \ {mp}, a # b, u.node[a].next # 0
          PROVE  u.node[a].next # n /\ \E c \in 1 .. Size(t) : /\ u.node[a].next = t.node[c].next
                                                             /\ c = IF a = n THEN mp ELSE a
      BY <1>1, <1>7, <3>3, <3>4
    <3>5. CASE i = b \/ j = b
      BY <1>7, <2>2, <3>2, <3>4, <3>5
    <3>6. CASE i # b /\ j # b
      BY <2>2, <3>1, <3>2, <3>4, <3>6
    <3> QED
      BY <3>5, <3>6
  <2> QED
    BY <1>1, <2>1, <2>2 DEF LinksSound
<1>10. Acyclic(u)
  <2> DEFINE high == [i \in 1 .. Size(t) |-> IF i = n THEN rank[mp] ELSE rank[i]]
  <2>1. \A i \in 1 .. Size(t) : rank[i] \in 0 .. top
    OBVIOUS
  <2>2. high \in [1 .. Size(t) -> 0 .. top]
    BY <1>1, <2>1
  <2>3. high[n] = rank[mp] /\ \A i \in (1 .. Size(t)) \ {n} : high[i] = rank[i]
    BY <1>2
  <2>4. ASSUME NEW i \in 1 .. Size(t), u.node[i].next # 0
        PROVE  high[u.node[i].next] < high[i]
    <3> HIDE DEF high
    <3>1. CASE i = b
      BY <1>1, <1>2, <1>3, <1>4, <1>7, <2>3, <3>1 DEF Descends
    <3>2. CASE i = n
      <4>1. t.node[mp].next \in (1 .. Size(t)) \ {n} /\ rank[t.node[mp].next] < rank[mp]
        <5>1. /\ t.node[mp].next \in 0 .. Size(t) /\ t.node[mp].next # n
              /\ t.node[mp].next # 0 => rank[t.node[mp].next] < rank[mp]
          BY <1>1, <1>2, <1>3 DEF Sound, LinksInside, Descends
        <5>2. t.node[mp].next # 0
          BY <1>7, <2>4, <3>2
        <5> QED
          BY <1>1, <5>1, <5>2
      <4> QED
        BY <1>7, <2>3, <3>2, <4>1
    <3>3. CASE i # b /\ i # n
      <4>0. i # mp
        BY <1>7, <2>4
      <4>1. /\ t.node[i].next \in (1 .. Size(t)) \ {n} /\ rank[t.node[i].next] < rank[i]
            /\ u.node[i].next = t.node[i].next
        BY <1>1, <1>2, <1>3, <1>7, <2>4, <3>3, <4>0 DEF Sound, LinksInside, Descends
      <4> QED
        BY <2>3, <3>3, <4>1
    <3> QED
      BY <3>1, <3>2, <3>3
  <2> HIDE DEF high
  <2> QED
    BY <1>1, <2>2, <2>4 DEF Acyclic, Descends
<1>11. Reached(u)
  <2>1. ASSUME NEW S \in SUBSET (1 .. Size(t)), Closed(u, S)
        PROVE  Closed(t, (S \ {mp}) \union {i \in {mp} : n \in S})
    <3> DEFINE C == (S \ {mp}) \union {i \in {mp} : n \in S}
    <3>1. ASSUME NEW i \in C, t.node[i].next # 0 PROVE t.node[i].next \in C
      <4>1. CASE i = mp
        <5>1. n \in S /\ t.node[mp].next # mp /\ u.node[n].next = t.node[i].next
          BY <1>1, <1>4, <1>7, <4>1
        <5>2. t.node[i].next \in S
          BY <2>1, <3>1, <5>1 DEF Closed
        <5> QED
          BY <4>1, <5>1, <5>2
      <4>2. CASE i = b
        BY <1>4, <1>2, <1>7, <2>1, <4>2 DEF Closed
      <4>3. CASE i # mp /\ i # b
        <5>1. i \in S /\ i # n /\ t.node[i].next # mp
          BY <1>2, <1>4, <3>1, <4>3
        <5> QED
          BY <1>7, <2>1, <3>1, <4>3, <5>1 DEF Closed
      <4> QED
        BY <4>1, <4>2, <4>3
    <3> QED
      BY <3>1 DEF Closed
  <2>2. ASSUME NEW i \in Taken(u), NEW S \in SUBSET (1 .. Size(t)), Home(u, i) \in S, Closed(u, S)
        PROVE  i \in S
    <3> DEFINE C == (S \ {mp}) \union {j \in {mp} : n \in S}
    <3>1. C \in SUBSET (1 .. Size(t)) /\ Closed(t, C)
      BY <1>1, <2>1, <2>2
    <3>2. ASSUME NEW j \in Taken(t), Home(t, j) \in S PROVE j \in C
      <4>1. Home(t, j) \in C
        BY <1>6, <3>2
      <4> HIDE DEF C
      <4> QED
        BY <3>1, <3>2, <4>1 DEF Sound, Reached, Reaches
    <3>3. CASE i = mp
      BY <1>6, <2>2, <3>3
    <3>4. CASE i = n
      BY <1>2, <1>6, <2>2, <3>2, <3>4
    <3>5. CASE i # mp /\ i # n
      BY <1>5, <1>6, <2>2, <3>2, <3>5
    <3> QED
      BY <3>3, <3>4, <3>5
  <2> QED
    BY <1>1, <2>2 DEF Reached, Reaches
<1>12. HomesOwned(u)
  <2>1. ASSUME NEW i \in Taken(t)
        PROVE  Home(t, i) \in Taken(t) \ {mp} /\ Home(t, Home(t, i)) = Home(t, i)
    BY <1>6 DEF Sound, HomesOwned
  <2>2. ASSUME NEW i \in Taken(u)
        PROVE  Home(u, i) \in Taken(u) /\ Home(u, Home(u, i)) = Home(u, i)
    <3>1. CASE i = mp
      BY <1>5, <1>6, <3>1
    <3>2. CASE i = n
      BY <1>5, <1>6, <2>1, <3>2
    <3>3. CASE i # mp /\ i # n
      BY <1>5, <1>6, <2>1, <3>3
    <3> QED
      BY <3>1, <3>2, <3>3
  <2> QED
    BY <2>2 DEF HomesOwned
<1>13. Distinct(u)
  <2> DEFINE at(i) == IF i = n THEN mp ELSE i
  <2>1. \A i \in Taken(t) : t.node[i].key # key
    BY DEF IsNew
  <2>2. \A i, j \in Taken(t) : t.node[i].key = t.node[j].key => i = j
    BY DEF Sound, Distinct
  <2>3. ASSUME NEW i \in Taken(u), i # mp
        PROVE  at(i) \in Taken(t) /\ u.node[i].key = t.node[at(i)].key
    BY <1>1, <1>5, <1>6, <1>20, <2>3
  <2>4. ASSUME NEW i \in Taken(u), NEW j \in Taken(u), u.node[i].key = u.node[j].key PROVE i = j
    <3>1. CASE i # mp /\ j # mp
      <4>1. at(i) = at(j)
        BY <2>2, <2>3, <2>4, <3>1
      <4> QED
        BY <3>1, <4>1
    <3>2. CASE i = mp \/ j = mp
      <4> HIDE DEF at
      <4> QED
        BY <1>20, <2>1, <2>3, <2>4, <3>2
    <3> QED
      BY <3>1, <3>2
  <2> QED
    BY <2>4 DEF Distinct
<1>14. KeysApart(u)
  <2>1. \A i \in Taken(t) : ~InArray(t, t.node[i].key)
    BY DEF Sound, KeysApart
  <2>2. ASSUME NEW i \in Taken(u) PROVE ~InArray(t, u.node[i].key)
    BY <1>5, <1>6, <1>20, <2>1 DEF IsNew
  <2> QED
    BY <1>20, <2>2, AlikeFacts DEF KeysApart
<1>15. FreeBelow(u) /\ u.free <= Size(u) + 1
  BY <1>1, <1>5, <1>20, FreeStaysBelow
<1>16. UntakenNil(u)
  <2>1. \A i \in 1 .. Size(t) : t.node[i].key = Nil => t.node[i].val = Nil
    BY DEF Sound, UntakenNil
  <2> QED
    <3>1. ASSUME NEW i \in 1 .. Size(t), u.node[i].key = Nil PROVE u.node[i].val = Nil
      <4>1. i # mp
        BY <1>1, <1>20, <3>1
      <4>2. i # n
        BY <1>1, <1>20, <3>1 DEF Taken
      <4> QED
        BY <1>20, <2>1, <3>1, <4>1, <4>2
    <3> QED
      BY <1>1, <3>1 DEF UntakenNil
<1> QED
  BY <1>2, <1>5, <1>8, <1>9, <1>10, <1>11, <1>12, <1>13, <1>14, <1>15, <1>16 DEF Sound

-----------------------------------------------------------------------------
(* Max is the greatest element of a set that is not empty and has a bound. *)
LEMMA Greatest ==
  ASSUME NEW N \in Nat, NEW S \in SUBSET (0 .. N), S # {}
  PROVE  Max(S) \in S /\ \A x \in S : x <= Max(S)
<1>1. \E x \in S : \A y \in S : x >= y
  BY HasGreatest
<1>2. Max(S) \in S /\ \A y \in S : Max(S) >= y
  BY <1>1 DEF Max
<1> QED
  BY <1>2

LEMMA FreePosFacts ==
  ASSUME NEW K, NEW V, NEW t \in Tables(K, V), Sound(t)
  PROVE  /\ FreePos(t) = 0 => Taken(t) = 1 .. Size(t)
         /\ FreePos(t) # 0 =>
              LET n == FreePos(t)
              IN  /\ n \in 1 .. Size(t) /\ t.node[n].key = Nil /\ n < t.free
                  /\ \A i \in n + 1 .. t.free - 1 : t.node[i].key # Nil
<1> DEFINE unused == {i \in 1 .. t.free - 1 : t.node[i].key = Nil}
<1>1. /\ Size(t) \in Nat /\ t.free \in Nat \ {0} /\ t.free <= Size(t) + 1
      /\ DOMAIN t.node = 1 .. Size(t)
  BY TableFacts DEF Sound
<1>2. unused \in SUBSET (0 .. Size(t)) /\ 0 \notin unused
  BY <1>1
<1>3. FreePos(t) = IF unused = {} THEN 0 ELSE Max(unused)
  BY DEF FreePos
<1>4. unused # {} => Max(unused) \in unused /\ \A x \in unused : x <= Max(unused)
  <2> HIDE DEF unused
  <2> QED
    BY <1>1, <1>2, Greatest
<1>5. CASE unused = {}
  <2>1. \A i \in 1 .. Size(t) : i \in Taken(t)
    <3> SUFFICES ASSUME NEW i \in 1 .. Size(t) PROVE i \in Taken(t)
      OBVIOUS
    <3>1. CASE i < t.free
      BY <1>1, <1>5, <3>1 DEF Taken
    <3>2. CASE i >= t.free
      BY <1>1, <3>2 DEF Sound, FreeBelow, Size
    <3> QED
      BY <1>1, <3>1, <3>2
  <2> QED
    BY <1>1, <1>3, <1>5, <2>1 DEF Taken
<1>6. CASE unused # {}
  <2> DEFINE n == FreePos(t)
  <2>1. n \in unused /\ \A x \in unused : x <= n
    BY <1>3, <1>4, <1>6
  <2> HIDE DEF n
  <2>2. n \in 1 .. t.free - 1 /\ t.node[n].key = Nil
    BY <2>1
  <2>3. ASSUME NEW i \in n + 1 .. t.free - 1 PROVE t.node[i].key # Nil
    <3>1. i \in 1 .. t.free - 1 /\ ~(i <= n)
      BY <1>1, <2>2
    <3> QED
      BY <2>1, <3>1
  <2>4. n \in 1 .. Size(t) /\ n < t.free
    BY <1>1, <2>2
  <2> QED
    BY <1>1, <2>2, <2>3, <2>4 DEF n
<1> QED
  BY <1>5, <1>6

-----------------------------------------------------------------------------
(* New nodes and a new lastfree. *)
RenodedAs(t, u, free, node) == u = [t EXCEPT !.free = free, !.node = node]

LEMMA Renoded ==
  ASSUME NEW K, NEW V, NEW t \in Tables(K, V), NEW free \in Nat \ {0},
         NEW node \in [1 .. Size(t) -> Nodes(K, V)],
         NEW u, RenodedAs(t, u, free, node)
  PROVE  /\ u \in Tables(K, V) /\ u.node = node /\ u.free = free
         /\ u.arr = t.arr /\ u.meta = t.meta /\ u.absent = t.absent
         /\ Size(u) = Size(t) /\ Alike(t, u)
<1>1. Size(t) \in Nat
  BY TableFacts
<1>2. node \in Seq(Nodes(K, V))
  BY <1>1, SeqDef
<1>3. Len(node) = Size(t)
  BY <1>1, <1>2, LenProperties
<1>4. u \in Tables(K, V) /\ u.node = node /\ u.free = free
  BY <1>2 DEF Tables, RenodedAs
<1>5. u.arr = t.arr /\ u.meta = t.meta /\ u.absent = t.absent
  BY DEF Tables, RenodedAs
<1>6. Size(u) = Size(t) /\ Alike(t, u)
  BY <1>3, <1>4, <1>5 DEF Size, Alike
<1> QED
  BY <1>4, <1>5, <1>6

LEMMA NodeType ==
  ASSUME NEW K, NEW V, NEW key \in K \union {Nil}, NEW val \in V, NEW next \in Nat
  PROVE  /\ Node(key, val, next) \in Nodes(K, V)
         /\ Node(key, val, next).key = key /\ Node(key, val, next).val = val
         /\ Node(key, val, next).next = next
BY DEF Node, Nodes

LinkedAs(node, g, i, next) == g = Link(node, i, next)

LEMMA LinkFacts ==
  ASSUME NEW K, NEW V, NEW N \in Nat, NEW node \in [1 .. N -> Nodes(K, V)],
         NEW i \in 1 .. N, NEW next \in Nat, NEW g, LinkedAs(node, g, i, next)
  PROVE  /\ g \in [1 .. N -> Nodes(K, V)]
         /\ g[i].key = node[i].key /\ g[i].val = node[i].val /\ g[i].next = next
         /\ \A j \in (1 .. N) \ {i} : g[j] = node[j]
<1> DEFINE it == [node[i] EXCEPT !.next = next]
<1>1. it \in Nodes(K, V) /\ it.key = node[i].key /\ it.val = node[i].val /\ it.next = next
  BY DEF Nodes
<1>2. g = [node EXCEPT ![i] = it]
  BY DEF Link, LinkedAs
<1> HIDE DEF it
<1> QED
  BY <1>1, <1>2

-----------------------------------------------------------------------------
(* What the table u has that comes from t by giving key the value val. *)
Gives(t, u, key, val) ==
  /\ \E i \in Taken(u) : u.node[i].key = key /\ u.node[i].val = val
  /\ \A i \in Taken(t) : t.node[i].key # key =>
       \/ \E j \in Taken(u) : u.node[j].key = t.node[i].key /\ u.node[j].val = t.node[i].val
       \/ t.node[i].val = Nil
  /\ \A j \in Taken(u) : u.node[j].key # key => \E i \in Taken(t) : t.node[i].key = u.node[j].key /\ t.node[i].val = u.node[j].val

Updates(K, t, u, key, val) ==
  \A k \in K : Get(u, k) = IF k = key THEN val ELSE Get(t, k)

LEMMA GivesUpdates ==
  ASSUME NEW K, NEW V, AreKeys(K), NEW t \in Tables(K, V), NEW u \in Tables(K, V),
         Sound(t), Sound(u), u.arr = t.arr, NEW key \in K, ~InArray(t, key), NEW val,
         Gives(t, u, key, val)
  PROVE  Updates(K, t, u, key, val)
<1> SUFFICES ASSUME NEW k \in K PROVE Get(u, k) = IF k = key THEN val ELSE Get(t, k)
  BY DEF Updates
<1>1. \A x : InArray(u, x) = InArray(t, x)
  BY DEF InArray
<1>2. CASE InArray(t, k)
  <2>1. InArray(u, k) /\ k # key
    BY <1>1, <1>2
  <2> QED
    BY <1>2, <2>1, GetIs
<1>3. CASE ~InArray(t, k) /\ k = key
  BY <1>1, <1>3, GetIs DEF Gives
<1>4. CASE ~InArray(t, k) /\ k # key
  <2>1. /\ \A i \in Taken(t) : t.node[i].key = k => Get(t, k) = t.node[i].val
        /\ (\A i \in Taken(t) : t.node[i].key # k) => Get(t, k) = Nil
    BY <1>4, GetIs
  <2>2. /\ \A i \in Taken(u) : u.node[i].key = k => Get(u, k) = u.node[i].val
        /\ (\A i \in Taken(u) : u.node[i].key # k) => Get(u, k) = Nil
    BY <1>1, <1>4, GetIs
  <2>3. CASE \E j \in Taken(u) : u.node[j].key = k
    BY <1>4, <2>1, <2>2, <2>3 DEF Gives
  <2>4. CASE \A j \in Taken(u) : u.node[j].key # k
    <3>1. Get(u, k) = Nil
      BY <2>2, <2>4
    <3>2. \A i \in Taken(t) : t.node[i].key = k => t.node[i].val = Nil
      BY <1>4, <2>4 DEF Gives
    <3>3. Get(t, k) = Nil
      BY <2>1, <3>2
    <3> QED
      BY <1>4, <3>1, <3>3
  <2> QED
    BY <2>3, <2>4
<1> QED
  BY <1>2, <1>3, <1>4

(* What an operation on a table leaves as it was. *)
Keeps(t, u) == u.arr = t.arr /\ u.meta = t.meta /\ u.absent = t.absent /\ Size(u) = Size(t)

KeysIn(t) == {t.node[i].key : i \in Taken(t)}

LEMMA InsertsInPlace ==
  ASSUME NEW K, NEW V, AreKeys(K), NEW t \in Tables(K, V), Sound(t),
         NEW key \in K, IsNew(t, key), NEW val \in V, Nil \in V, Size(t) # 0,
         t.node[MainPosition(t, key)].val = Nil
  PROVE  LET u == Insert(t, key, val)
         IN  /\ u \in Tables(K, V) /\ Sound(u) /\ Keeps(t, u) /\ Gives(t, u, key, val)
             /\ KeysIn(u) \subseteq KeysIn(t) \union {key}
<1> DEFINE mp == MainPosition(t, key)
           it == Node(key, val, t.node[mp].next)
           g == [t.node EXCEPT ![mp] = it]
           u == Insert(t, key, val)
<1>1. /\ Size(t) \in Nat \ {0} /\ DOMAIN t.node = 1 .. Size(t) /\ key # Nil
      /\ t.node \in [1 .. Size(t) -> Nodes(K, V)] /\ t.free \in Nat \ {0}
      /\ \A i \in 1 .. Size(t) : t.node[i].next \in Nat
  <2>1. t.node \in Seq(Nodes(K, V))
    BY DEF Tables
  <2> QED
    BY <2>1, LenProperties, TableFacts DEF AreKeys, Size
<1>2. mp \in 1 .. Size(t)
  BY <1>1, PositionType
<1>3. it \in Nodes(K, V) /\ it.key = key /\ it.val = val /\ it.next = t.node[mp].next
  BY <1>1, <1>2, NodeType
<1>4. u = [t EXCEPT !.node = g]
  BY DEF Insert
<1> HIDE DEF it, mp, u
<1>5. g \in [1 .. Size(t) -> Nodes(K, V)] /\ g[mp] = it /\ \A i \in (1 .. Size(t)) \ {mp} : g[i] = t.node[i]
  BY <1>1, <1>2, <1>3
<1> HIDE DEF g
<1>6. RenodedAs(t, u, t.free, g)
  BY <1>4 DEF RenodedAs, Tables
<1>7. /\ u \in Tables(K, V) /\ u.node = g /\ u.free = t.free /\ Keeps(t, u) /\ Alike(t, u)
  BY <1>1, <1>5, <1>6, Renoded DEF Keeps
<1>8. InPlace(t, u, key, mp)
  BY <1>3, <1>5, <1>7 DEF InPlace, SameLink, SameNode
<1>9. Sound(u) /\ Taken(u) = Taken(t) \union {mp}
  BY <1>2, <1>7, <1>8, KeepsInPlace DEF mp
<1>10. Gives(t, u, key, val)
  <2>1. \A i \in Taken(t) : i \in 1 .. Size(t) /\ t.node[i].key # key
    BY <1>1 DEF Taken, IsNew
  <2>2. u.node[mp].key = key /\ u.node[mp].val = val
    BY <1>3, <1>5, <1>7
  <2>3. t.node[mp].val = Nil
    BY DEF mp
  <2> QED
    BY <1>5, <1>7, <1>9, <2>1, <2>2, <2>3 DEF Gives
<1>11. KeysIn(u) \subseteq KeysIn(t) \union {key}
  BY <1>10 DEF KeysIn, Gives
<1> QED
  BY <1>7, <1>9, <1>10, <1>11 DEF u

LEMMA InsertsAfter ==
  ASSUME NEW K, NEW V, AreKeys(K), NEW t \in Tables(K, V), Sound(t),
         NEW key \in K, IsNew(t, key), NEW val \in V, Nil \in V, Size(t) # 0,
         t.node[MainPosition(t, key)].val # Nil, FreePos(t) # 0,
         Home(t, MainPosition(t, key)) = MainPosition(t, key)
  PROVE  LET u == Insert(t, key, val)
         IN  /\ u \in Tables(K, V) /\ Sound(u) /\ Keeps(t, u) /\ Gives(t, u, key, val)
             /\ KeysIn(u) \subseteq KeysIn(t) \union {key}
<1> DEFINE mp == MainPosition(t, key)
           n == FreePos(t)
           it == Node(key, val, t.node[mp].next)
           g0 == Link(t.node, mp, n)
           g == [g0 EXCEPT ![n] = it]
           u == Insert(t, key, val)
<1>1. /\ Size(t) \in Nat \ {0} /\ DOMAIN t.node = 1 .. Size(t) /\ key # Nil
      /\ t.node \in [1 .. Size(t) -> Nodes(K, V)] /\ t.free \in Nat \ {0}
      /\ \A i \in 1 .. Size(t) : t.node[i].next \in Nat
  <2>1. t.node \in Seq(Nodes(K, V))
    BY DEF Tables
  <2> QED
    BY <2>1, LenProperties, TableFacts DEF AreKeys, Size
<1>2. mp \in 1 .. Size(t)
  BY <1>1, PositionType
<1>3. it \in Nodes(K, V) /\ it.key = key /\ it.val = val /\ it.next = t.node[mp].next
  BY <1>1, <1>2, NodeType
<1>4. /\ n \in 1 .. Size(t) /\ t.node[n].key = Nil /\ n < t.free
      /\ \A i \in n + 1 .. t.free - 1 : t.node[i].key # Nil
  BY FreePosFacts
<1>5. mp \in Taken(t) /\ mp # n
  BY <1>1, <1>2, <1>4 DEF Taken, Sound, UntakenNil
<1>6. RenodedAs(t, u, n, g)
  BY DEF RenodedAs, Insert, ChainAfter, Home
<1>7. /\ g0 \in [1 .. Size(t) -> Nodes(K, V)] /\ g0[mp].next = n
      /\ g0[mp].key = t.node[mp].key /\ g0[mp].val = t.node[mp].val
      /\ \A i \in (1 .. Size(t)) \ {mp} : g0[i] = t.node[i]
  <2>1. Size(t) \in Nat /\ n \in Nat /\ LinkedAs(t.node, g0, mp, n)
    BY <1>1, <1>4 DEF LinkedAs
  <2> HIDE DEF mp, n, g0
  <2> QED
    BY <1>1, <1>2, <2>1, LinkFacts
<1> HIDE DEF it, mp, n, u, g0
<1>8. /\ g \in [1 .. Size(t) -> Nodes(K, V)] /\ g[n] = it /\ g[mp] = g0[mp]
      /\ \A i \in (1 .. Size(t)) \ {mp, n} : g[i] = t.node[i]
  BY <1>1, <1>2, <1>3, <1>4, <1>5, <1>7
<1> HIDE DEF g
<1>9. /\ u \in Tables(K, V) /\ u.node = g /\ u.free = n /\ Keeps(t, u) /\ Alike(t, u)
  <2>1. n \in Nat \ {0}
    BY <1>1, <1>4
  <2> QED
    BY <1>6, <1>8, <2>1, Renoded DEF Keeps
<1>10. ComesAfter(t, u, key, mp, n)
  <2>1. TakesFree(t, u, n)
    BY <1>4, <1>9 DEF TakesFree
  <2>2. u.node[n].key = key /\ u.node[n].next = t.node[mp].next /\ u.node[mp].next = n
    BY <1>3, <1>7, <1>8, <1>9
  <2>3. \A i \in (1 .. Size(t)) \ {n} : SameNode(t, u, i)
    BY <1>7, <1>8, <1>9 DEF SameNode
  <2>4. \A i \in (1 .. Size(t)) \ {mp, n} : SameLink(t, u, i)
    BY <1>8, <1>9 DEF SameLink
  <2> QED
    BY <1>9, <2>1, <2>2, <2>3, <2>4 DEF ComesAfter
<1>11. mp = MainPosition(t, key) /\ Home(t, mp) = mp
  BY DEF mp
<1>12. Sound(u) /\ Taken(u) = Taken(t) \union {n} /\ n \notin Taken(t)
  BY <1>5, <1>9, <1>10, <1>11, KeepsAfter
<1>13. Gives(t, u, key, val)
  <2>1. \A i \in Taken(t) : i \in 1 .. Size(t) /\ t.node[i].key # key /\ i # n
    BY <1>1, <1>12 DEF Taken, IsNew
  <2>2. u.node[n].key = key /\ u.node[n].val = val
    BY <1>3, <1>8, <1>9
  <2>3. \A i \in Taken(t) : u.node[i].key = t.node[i].key /\ u.node[i].val = t.node[i].val
    BY <1>7, <1>8, <1>9, <2>1
  <2> QED
    BY <1>12, <2>1, <2>2, <2>3 DEF Gives
<1>14. KeysIn(u) \subseteq KeysIn(t) \union {key}
  BY <1>13 DEF KeysIn, Gives
<1> QED
  BY <1>9, <1>12, <1>13, <1>14 DEF u

LEMMA InsertsAway ==
  ASSUME NEW K, NEW V, AreKeys(K), NEW t \in Tables(K, V), Sound(t),
         NEW key \in K, IsNew(t, key), NEW val \in V, Nil \in V, Size(t) # 0,
         t.node[MainPosition(t, key)].val # Nil, FreePos(t) # 0,
         Home(t, MainPosition(t, key)) # MainPosition(t, key)
  PROVE  LET u == Insert(t, key, val)
         IN  /\ u \in Tables(K, V) /\ Sound(u) /\ Keeps(t, u) /\ Gives(t, u, key, val)
             /\ KeysIn(u) \subseteq KeysIn(t) \union {key}
<1> DEFINE mp == MainPosition(t, key)
           n == FreePos(t)
           b == Before(t, Home(t, mp), mp)
           it == Node(key, val, 0)
           g0 == Link(t.node, b, n)
           g == [g0 EXCEPT ![n] = t.node[mp], ![mp] = it]
           u == Insert(t, key, val)
<1>1. /\ Size(t) \in Nat \ {0} /\ DOMAIN t.node = 1 .. Size(t) /\ key # Nil
      /\ t.node \in [1 .. Size(t) -> Nodes(K, V)] /\ t.free \in Nat \ {0}
      /\ \A i \in 1 .. Size(t) : t.node[i].next \in Nat
  <2>1. t.node \in Seq(Nodes(K, V))
    BY DEF Tables
  <2> QED
    BY <2>1, LenProperties, TableFacts DEF AreKeys, Size
<1>2. mp \in 1 .. Size(t)
  BY <1>1, PositionType
<1>3. it \in Nodes(K, V) /\ it.key = key /\ it.val = val /\ it.next = 0
  BY NodeType
<1>4. /\ n \in 1 .. Size(t) /\ t.node[n].key = Nil /\ n < t.free
      /\ \A i \in n + 1 .. t.free - 1 : t.node[i].key # Nil
  BY FreePosFacts
<1>5. mp \in Taken(t) /\ mp # n
  BY <1>1, <1>2, <1>4 DEF Taken, Sound, UntakenNil
<1>6. RenodedAs(t, u, n, g)
  BY DEF RenodedAs, Insert, MoveAside, Home
<1>15. b \in 1 .. Size(t) /\ t.node[b].next = mp
  BY <1>5, BeforeFacts
<1>16. b # n /\ b # mp
  <2>1. t.node[n].next = 0
    BY <1>4, UnlinkedFree
  <2>2. PICK top \in Nat : \E rank \in [1 .. Size(t) -> 0 .. top] : Descends(t, rank)
    BY DEF Sound, Acyclic
  <2>3. PICK rank \in [1 .. Size(t) -> 0 .. top] : Descends(t, rank)
    BY <2>2
  <2> HIDE DEF mp, n, b
  <2>4. rank[mp] < rank[b] /\ rank[mp] \in 0 .. top
    BY <1>2, <1>15, <2>3 DEF Descends
  <2> QED
    BY <1>1, <1>2, <1>15, <2>1, <2>4
<1>7. /\ g0 \in [1 .. Size(t) -> Nodes(K, V)] /\ g0[b].next = n
      /\ g0[b].key = t.node[b].key /\ g0[b].val = t.node[b].val
      /\ \A i \in (1 .. Size(t)) \ {b} : g0[i] = t.node[i]
  <2>1. Size(t) \in Nat /\ n \in Nat /\ LinkedAs(t.node, g0, b, n)
    BY <1>1, <1>4 DEF LinkedAs
  <2> HIDE DEF mp, n, b, g0
  <2> QED
    BY <1>1, <1>15, <2>1, LinkFacts
<1> HIDE DEF it, mp, n, u, g0, b
<1>8. /\ g \in [1 .. Size(t) -> Nodes(K, V)] /\ g[n] = t.node[mp] /\ g[mp] = it /\ g[b] = g0[b]
      /\ \A i \in (1 .. Size(t)) \ {mp, n, b} : g[i] = t.node[i]
  BY <1>1, <1>2, <1>3, <1>4, <1>5, <1>7, <1>15, <1>16
<1> HIDE DEF g
<1>9. /\ u \in Tables(K, V) /\ u.node = g /\ u.free = n /\ Keeps(t, u) /\ Alike(t, u)
  <2>1. n \in Nat \ {0}
    BY <1>1, <1>4
  <2> QED
    BY <1>6, <1>8, <2>1, Renoded DEF Keeps
<1>17. \A i \in (1 .. Size(t)) \ {mp, n} : u.node[i].key = t.node[i].key /\ u.node[i].val = t.node[i].val
  BY <1>7, <1>8, <1>9
<1>10. MovesAway(t, u, key, mp, n, b)
  <2>1. TakesFree(t, u, n)
    BY <1>4, <1>9 DEF TakesFree
  <2>2. u.node[mp].key = key /\ u.node[mp].next = 0 /\ u.node[b].next = n
    BY <1>3, <1>7, <1>8, <1>9
  <2>3. u.node[n].key = t.node[mp].key /\ u.node[n].val = t.node[mp].val /\ u.node[n].next = t.node[mp].next
    BY <1>8, <1>9
  <2>4. \A i \in (1 .. Size(t)) \ {mp, n, b} : SameLink(t, u, i)
    BY <1>8, <1>9 DEF SameLink
  <2> QED
    BY <1>9, <1>17, <2>1, <2>2, <2>3, <2>4 DEF MovesAway, SameNode
<1>11. mp = MainPosition(t, key) /\ Home(t, mp) # mp
  BY DEF mp
<1>12. Sound(u) /\ Taken(u) = Taken(t) \union {n} /\ n \notin Taken(t)
  BY <1>5, <1>9, <1>10, <1>11, <1>15, KeepsAway
<1>13. Gives(t, u, key, val)
  <2>1. \A i \in Taken(t) : i \in 1 .. Size(t) /\ t.node[i].key # key /\ i # n
    BY <1>1, <1>12 DEF Taken, IsNew
  <2>2. u.node[mp].key = key /\ u.node[mp].val = val
    BY <1>3, <1>8, <1>9
  <2>3. u.node[n].key = t.node[mp].key /\ u.node[n].val = t.node[mp].val
    BY <1>8, <1>9
  <2> QED
    BY <1>5, <1>12, <1>17, <2>1, <2>2, <2>3 DEF Gives
<1>14. KeysIn(u) \subseteq KeysIn(t) \union {key}
  BY <1>13 DEF KeysIn, Gives
<1> QED
  BY <1>9, <1>12, <1>13, <1>14 DEF u

LEMMA InsertKeeps ==
  ASSUME NEW K, NEW V, AreKeys(K), NEW t \in Tables(K, V), Sound(t),
         NEW key \in K, IsNew(t, key), NEW val \in V, Nil \in V, HasRoom(t, key)
  PROVE  LET u == Insert(t, key, val)
         IN  /\ u \in Tables(K, V) /\ Sound(u) /\ Keeps(t, u) /\ Updates(K, t, u, key, val)
             /\ KeysIn(u) \subseteq KeysIn(t) \union {key}
<1> DEFINE mp == MainPosition(t, key)
           u == Insert(t, key, val)
<1>1. Size(t) # 0 /\ (t.node[mp].val = Nil \/ FreePos(t) # 0) /\ ~InArray(t, key)
  <2>1. t.node # <<>> /\ t.node \in Seq(Nodes(K, V))
    BY DEF HasRoom, Tables
  <2> QED
    BY <2>1, EmptySeq DEF HasRoom, Size, IsNew
<1>2. /\ u \in Tables(K, V) /\ Sound(u) /\ Keeps(t, u) /\ Gives(t, u, key, val)
      /\ KeysIn(u) \subseteq KeysIn(t) \union {key}
  <2>1. CASE t.node[mp].val = Nil
    BY <1>1, <2>1, InsertsInPlace
  <2>2. CASE t.node[mp].val # Nil /\ Home(t, mp) = mp
    BY <1>1, <2>2, InsertsAfter
  <2>3. CASE t.node[mp].val # Nil /\ Home(t, mp) # mp
    BY <1>1, <2>3, InsertsAway
  <2> QED
    BY <2>1, <2>2, <2>3
<1> HIDE DEF u
<1>3. Updates(K, t, u, key, val)
  BY <1>1, <1>2, GivesUpdates DEF Keeps
<1> QED
  BY <1>2, <1>3 DEF u

(* What a table is after an assignment that needs no rehash. *)
Assigned(K, V, t, u, key, val) ==
  /\ u \in Tables(K, V) /\ Sound(u)
  /\ DOMAIN u.arr = DOMAIN t.arr /\ Size(u) = Size(t)
  /\ u.meta = t.meta /\ u.absent = t.absent
  /\ Updates(K, t, u, key, val)
  /\ KeysIn(u) \subseteq KeysIn(t) \union {k \in {key} : ~InArray(t, k)}

LEMMA StoresInArray ==
  ASSUME NEW K, NEW V, AreKeys(K), NEW t \in Tables(K, V), Sound(t),
         NEW key \in K, InArray(t, key), NEW val \in V
  PROVE  Assigned(K, V, t, Place(t, key, val), key, val)
<1> DEFINE i == key[2]
           u == Place(t, key, val)
<1>1. /\ Len(t.arr) \in Nat /\ DOMAIN t.arr = 1 .. Len(t.arr) /\ t.arr \in Seq(V)
      /\ DOMAIN t.node = 1 .. Size(t)
  BY TableFacts DEF Tables
<1>2. i \in 1 .. Len(t.arr) /\ key = Num(i)
  BY <1>1 DEF InArray, AreKeys, Num
<1> DEFINE g == [t.arr EXCEPT ![i] = val]
<1>3. g \in Seq(V) /\ Len(g) = Len(t.arr) /\ \A j \in 1 .. Len(t.arr) : g[j] = IF j = i THEN val ELSE t.arr[j]
  <2> HIDE DEF i
  <2> QED
    BY <1>1, <1>2, ExceptSeq
<1>4. u = [t EXCEPT !.arr = g]
  BY DEF Place
<1> HIDE DEF g, u, i
<1>5. /\ u \in Tables(K, V) /\ u.arr = g /\ u.node = t.node /\ u.free = t.free
      /\ u.meta = t.meta /\ u.absent = t.absent
  BY <1>3, <1>4 DEF Tables
<1>6. DOMAIN g = 1 .. Len(t.arr)
  BY <1>3, LenProperties
<1>7. Alike(t, u) /\ Size(u) = Size(t)
  BY <1>1, <1>5, <1>6 DEF Alike, Size
<1>8. Sound(u) /\ Taken(u) = Taken(t)
  <2>1. UntakenNil(u)
    BY <1>5, <1>7 DEF Sound, UntakenNil
  <2>2. \A j \in 1 .. Size(t) : u.node[j].key = t.node[j].key /\ SameLink(t, u, j)
    BY <1>5 DEF SameLink
  <2> QED
    BY <1>5, <1>7, <2>1, <2>2, SameChains
<1>9. Updates(K, t, u, key, val)
  <2> SUFFICES ASSUME NEW k \in K PROVE Get(u, k) = IF k = key THEN val ELSE Get(t, k)
    BY DEF Updates
  <2>1. CASE InArray(t, k)
    <3>1. InArray(u, k) /\ k[2] \in 1 .. Len(t.arr) /\ k = Num(k[2])
      BY <1>1, <1>7, <2>1, AlikeFacts DEF InArray, AreKeys, Num
    <3>2. Get(u, k) = g[k[2]] /\ Get(t, k) = t.arr[k[2]]
      BY <1>5, <1>8, <2>1, <3>1, GetIs
    <3>3. k[2] = i => k = key
      BY <1>2, <3>1
    <3>4. k = key => k[2] = i
      BY DEF i
    <3> QED
      BY <1>3, <3>1, <3>2, <3>3, <3>4
  <2>2. CASE ~InArray(t, k)
    <3>1. ~InArray(u, k) /\ k # key
      BY <1>7, <2>2, AlikeFacts
    <3>2. NodeOf(u, k) = NodeOf(t, k) /\ ValueAt(u, NodeOf(u, k)) = ValueAt(t, NodeOf(t, k))
      BY <1>5 DEF NodeOf, ValueAt, OnChain, MainPosition
    <3> QED
      BY <2>2, <3>1, <3>2 DEF Get
  <2> QED
    BY <2>1, <2>2
<1>10. KeysIn(u) = KeysIn(t)
  BY <1>5, <1>8 DEF KeysIn
<1> QED
  BY <1>5, <1>7, <1>8, <1>9, <1>10 DEF Assigned, Alike, u

LEMMA StoresInNode ==
  ASSUME NEW K, NEW V, AreKeys(K), NEW t \in Tables(K, V), Sound(t),
         NEW key \in K, ~InArray(t, key), NodeOf(t, key) # 0, NEW val \in V, Nil \in V
  PROVE  Assigned(K, V, t, Place(t, key, val), key, val)
<1> DEFINE n == NodeOf(t, key)
           u == Place(t, key, val)
           it == [t.node[n] EXCEPT !.val = val]
           g == Store(t.node, n, val)
<1>1. /\ Size(t) \in Nat /\ DOMAIN t.node = 1 .. Size(t) /\ t.free \in Nat \ {0}
      /\ t.node \in [1 .. Size(t) -> Nodes(K, V)] /\ key # Nil
  <2>1. t.node \in Seq(Nodes(K, V))
    BY DEF Tables
  <2> QED
    BY <2>1, LenProperties, TableFacts DEF AreKeys, Size
<1>2. n \in Taken(t) /\ n \in 1 .. Size(t) /\ t.node[n].key = key
  BY <1>1, NodeOfFacts DEF Taken
<1>3. g = [t.node EXCEPT ![n] = it]
  BY DEF Store
<1>4. u = [t EXCEPT !.node = g]
  BY DEF Place
<1>5. it \in Nodes(K, V) /\ it.key = key /\ it.val = val /\ it.next = t.node[n].next
  BY <1>1, <1>2 DEF Nodes
<1> HIDE DEF n, it, g, u
<1>6. g \in [1 .. Size(t) -> Nodes(K, V)] /\ g[n] = it /\ \A i \in (1 .. Size(t)) \ {n} : g[i] = t.node[i]
  BY <1>1, <1>2, <1>3, <1>5
<1>7. RenodedAs(t, u, t.free, g)
  BY <1>4 DEF RenodedAs, Tables
<1>8. /\ u \in Tables(K, V) /\ u.node = g /\ u.free = t.free /\ Keeps(t, u) /\ Alike(t, u)
  BY <1>1, <1>6, <1>7, Renoded DEF Keeps
<1>9. \A i \in 1 .. Size(t) : u.node[i].key = t.node[i].key /\ SameLink(t, u, i)
  BY <1>2, <1>5, <1>6, <1>8 DEF SameLink
<1>10. UntakenNil(u)
  <2>1. ASSUME NEW i \in 1 .. Size(t), u.node[i].key = Nil PROVE u.node[i].val = Nil
    <3>1. i # n
      BY <1>1, <1>2, <1>9, <2>1
    <3> QED
      BY <1>6, <1>8, <2>1, <3>1 DEF Sound, UntakenNil
  <2> QED
    BY <1>8, <2>1 DEF UntakenNil, Keeps
<1>11. Sound(u) /\ Taken(u) = Taken(t)
  BY <1>8, <1>9, <1>10, SameChains
<1>12. \A i \in Taken(t) : i \in 1 .. Size(t) /\ (i # n => t.node[i].key # key)
  BY <1>1, <1>2 DEF Taken, Sound, Distinct
<1>13. Gives(t, u, key, val)
  <2>1. \A i \in Taken(t) : t.node[i].key # key => i # n
    BY <1>2
  <2>2. \A i \in (1 .. Size(t)) \ {n} : u.node[i] = t.node[i]
    BY <1>6, <1>8
  <2>3. u.node[n].key = key /\ u.node[n].val = val
    BY <1>5, <1>6, <1>8
  <2> QED
    BY <1>2, <1>9, <1>11, <1>12, <2>1, <2>2, <2>3 DEF Gives
<1>14. Updates(K, t, u, key, val)
  BY <1>8, <1>11, <1>13, GivesUpdates DEF Keeps
<1>15. KeysIn(u) = KeysIn(t)
  BY <1>9, <1>11, <1>12 DEF KeysIn
<1> QED
  BY <1>8, <1>11, <1>14, <1>15 DEF Assigned, Keeps, u

LEMMA NotHeld ==
  ASSUME NEW K, NEW V, AreKeys(K), NEW t \in Tables(K, V), Sound(t), NEW key \in K,
         ~InArray(t, key)
  PROVE  NodeOf(t, key) = 0 <=> IsNew(t, key)
<1>1. 0 \notin Taken(t)
  BY TableFacts DEF Taken
<1> QED
  BY <1>1, NodeOfFacts DEF IsNew

LEMMA PlaceKeeps ==
  ASSUME NEW K, NEW V, AreKeys(K), NEW t \in Tables(K, V), Sound(t),
         NEW key \in K, NEW val \in V, Nil \in V,
         InArray(t, key) \/ NodeOf(t, key) # 0 \/ HasRoom(t, key)
  PROVE  Assigned(K, V, t, Place(t, key, val), key, val)
<1>1. CASE InArray(t, key)
  BY <1>1, StoresInArray
<1>2. CASE ~InArray(t, key) /\ NodeOf(t, key) # 0
  BY <1>2, StoresInNode
<1>3. CASE ~InArray(t, key) /\ NodeOf(t, key) = 0
  <2> DEFINE u == Insert(t, key, val)
  <2>1. Place(t, key, val) = u
    BY <1>3 DEF Place
  <2>2. IsNew(t, key) /\ HasRoom(t, key)
    BY <1>3, NotHeld
  <2>3. /\ u \in Tables(K, V) /\ Sound(u) /\ Keeps(t, u) /\ Updates(K, t, u, key, val)
        /\ KeysIn(u) \subseteq KeysIn(t) \union {key}
    BY <2>2, InsertKeeps
  <2> HIDE DEF u
  <2> QED
    BY <1>3, <2>1, <2>3 DEF Assigned, Keeps
<1> QED
  BY <1>1, <1>2, <1>3

(* There is room for a key unless every node is taken. *)
LEMMA RoomFor ==
  ASSUME NEW K, NEW V, AreKeys(K), NEW t \in Tables(K, V), Sound(t), NEW key \in K,
         NEW S, IsFiniteSet(S), KeysIn(t) \subseteq S, Cardinality(S) < Size(t)
  PROVE  HasRoom(t, key)
<1>1. Size(t) \in Nat /\ Cardinality(S) \in Nat
  BY TableFacts, FS_CardinalityType
<1>2. t.node # <<>>
  BY <1>1, EmptySeq DEF Size, Tables
<1>3. FreePos(t) # 0
  <2> SUFFICES ASSUME FreePos(t) = 0 PROVE FALSE
    OBVIOUS
  <2>1. Taken(t) = 1 .. Size(t)
    BY FreePosFacts
  <2> DEFINE f == [i \in 1 .. Size(t) |-> t.node[i].key]
  <2>2. f \in [1 .. Size(t) -> S]
    BY <2>1 DEF KeysIn
  <2>3. IsFiniteSet(1 .. Size(t)) /\ Cardinality(1 .. Size(t)) = Size(t)
    BY <1>1, FS_Interval
  <2> DEFINE D == 1 .. Size(t)
  <2>4. f \in [D -> S] /\ IsFiniteSet(D) /\ Cardinality(S) < Cardinality(D)
    BY <2>2, <2>3
  <2> HIDE DEF f, D
  <2>5. \E i, j \in D : i # j /\ f[i] = f[j]
    BY <2>4, FS_PigeonHole
  <2> QED
    BY <2>1, <2>5 DEF Sound, Distinct, f, D
<1> QED
  BY <1>2, <1>3 DEF HasRoom

-----------------------------------------------------------------------------
(* Refill: the items that have a value are inserted one after another.     *)

Live(items, i) == items[i].val # Nil

FillStep(items, i, u) ==
  IF items[i].val = Nil THEN u ELSE Place(u, items[i].key, items[i].val)

(* The items have different keys, all of K, and those that do not belong   *)
(* into the array part of t are in S, for which t has nodes enough.        *)
Fits(K, V, t, items, S) ==
  /\ items \in Seq(Nodes(K, V))
  /\ \A i \in 1 .. Len(items) : Live(items, i) =>
        /\ items[i].key \in K
        /\ ~InArray(t, items[i].key) => items[i].key \in S
        /\ \A j \in 1 .. Len(items) : Live(items, j) /\ items[j].key = items[i].key => i = j
  /\ IsFiniteSet(S) /\ Cardinality(S) <= Size(t)

Filled(K, V, t, items, S, n, u) ==
  /\ u \in Tables(K, V) /\ Sound(u)
  /\ DOMAIN u.arr = DOMAIN t.arr /\ Size(u) = Size(t)
  /\ u.meta = t.meta /\ u.absent = t.absent
  /\ KeysIn(u) \subseteq S
  /\ \A k \in KeysIn(u) : \E i \in 1 .. n : Live(items, i) /\ items[i].key = k
  /\ \A i \in 1 .. n : Live(items, i) => Get(u, items[i].key) = items[i].val
  /\ \A k \in K : (\A i \in 1 .. n : Live(items, i) => items[i].key # k) => Get(u, k) = Get(t, k)

LEMMA FillsOne ==
  ASSUME NEW K, NEW V, AreKeys(K), Nil \in V, NEW t \in Tables(K, V),
         NEW items, NEW S, Fits(K, V, t, items, S),
         NEW n \in 1 .. Len(items), NEW u, Filled(K, V, t, items, S, n - 1, u)
  PROVE  Filled(K, V, t, items, S, n, FillStep(items, n, u))
<1>1. Len(items) \in Nat /\ n \in Nat \ {0} /\ n <= Len(items) /\ items[n] \in Nodes(K, V)
  <2>1. items \in Seq(Nodes(K, V))
    BY DEF Fits
  <2> QED
    BY <2>1, LenProperties, ElementOfSeq
<1>2. \A i \in 1 .. n : i = n \/ i \in 1 .. n - 1
  BY <1>1
<1>3. \A i \in 1 .. n - 1 : i \in 1 .. n /\ i \in 1 .. Len(items) /\ i # n
  BY <1>1
<1>4. CASE ~Live(items, n)
  <2>1. FillStep(items, n, u) = u
    BY <1>4 DEF FillStep, Live
  <2>2. \A i \in 1 .. n : Live(items, i) => i \in 1 .. n - 1
    BY <1>2, <1>4
  <2> QED
    BY <1>3, <2>1, <2>2 DEF Filled
<1>5. CASE Live(items, n)
  <2> DEFINE key == items[n].key
             val == items[n].val
             w == Place(u, key, val)
             S1 == S \ {key}
  <2>1. FillStep(items, n, u) = w
    BY <1>5 DEF FillStep, Live
  <2>2. /\ key \in K /\ val \in V
        /\ \A i \in 1 .. n - 1 : Live(items, i) => items[i].key # key
    <3>1. key \in K
      BY <1>5 DEF Fits
    <3>2. \A i \in 1 .. n - 1 : Live(items, i) => items[i].key # key
      BY <1>3, <1>5 DEF Fits
    <3> QED
      BY <1>1, <3>1, <3>2 DEF Nodes
  <2>3. InArray(u, key) <=> InArray(t, key)
    BY DEF Filled, InArray
  <2>4. ~InArray(u, key) => key \in S
    BY <1>5, <2>3 DEF Fits
  <2>5. KeysIn(u) \subseteq S1
    BY <2>2 DEF Filled
  <2>6. u \in Tables(K, V) /\ Sound(u) /\ Size(u) = Size(t)
    BY DEF Filled
  <2>7. InArray(u, key) \/ HasRoom(u, key)
    <3>1. CASE key \in S
      <4>1. IsFiniteSet(S1) /\ Cardinality(S1) = Cardinality(S) - 1 /\ Cardinality(S) \in Nat
        BY <3>1, FS_RemoveElement, FS_CardinalityType DEF Fits
      <4>2. Cardinality(S1) < Size(u)
        <5>1. Cardinality(S) <= Size(t) /\ Size(t) \in Nat
          BY TableFacts DEF Fits
        <5> HIDE DEF S1
        <5> QED
          BY <2>6, <4>1, <5>1
      <4> HIDE DEF S1, key
      <4> QED
        BY <2>2, <2>5, <2>6, <4>1, <4>2, RoomFor
    <3> QED
      BY <2>4, <3>1
  <2> HIDE DEF key, val, w
  <2>8. Assigned(K, V, u, w, key, val)
    BY <2>2, <2>6, <2>7, PlaceKeeps DEF w
  <2>9. /\ w \in Tables(K, V) /\ Sound(w)
        /\ DOMAIN w.arr = DOMAIN t.arr /\ Size(w) = Size(t)
        /\ w.meta = t.meta /\ w.absent = t.absent
    BY <2>8 DEF Assigned, Filled
  <2>10. \A k \in KeysIn(w) : k \in S /\ \E i \in 1 .. n : Live(items, i) /\ items[i].key = k
    <3> SUFFICES ASSUME NEW k \in KeysIn(w) PROVE k \in S /\ \E i \in 1 .. n : Live(items, i) /\ items[i].key = k
      OBVIOUS
    <3>1. k \in KeysIn(u) \/ (k = key /\ ~InArray(u, key))
      BY <2>8 DEF Assigned
    <3>2. CASE k \in KeysIn(u)
      BY <1>3, <3>2 DEF Filled
    <3>3. CASE k = key /\ ~InArray(u, key)
      BY <1>1, <1>5, <2>4, <3>3 DEF key
    <3> QED
      BY <3>1, <3>2, <3>3
  <2>11. \A k \in K : Get(w, k) = IF k = key THEN val ELSE Get(u, k)
    BY <2>8 DEF Assigned, Updates
  <2>12. ASSUME NEW i \in 1 .. n, Live(items, i) PROVE Get(w, items[i].key) = items[i].val
    <3>1. CASE i = n
      BY <2>2, <2>11, <3>1 DEF key, val
    <3>2. CASE i \in 1 .. n - 1
      <4>1. items[i].key \in K /\ items[i].key # key
        BY <1>3, <2>2, <2>12, <3>2 DEF Fits
      <4> QED
        BY <2>11, <2>12, <3>2, <4>1 DEF Filled
    <3> QED
      BY <1>2, <3>1, <3>2
  <2>13. ASSUME NEW k \in K, \A i \in 1 .. n : Live(items, i) => items[i].key # k
         PROVE  Get(w, k) = Get(t, k)
    <3>1. k # key
      BY <1>1, <1>5, <2>13 DEF key
    <3>2. \A i \in 1 .. n - 1 : Live(items, i) => items[i].key # k
      BY <1>3, <2>13
    <3>3. Get(u, k) = Get(t, k)
      BY <3>2 DEF Filled
    <3> QED
      BY <2>11, <3>1, <3>3
  <2> QED
    BY <2>1, <2>9, <2>10, <2>12, <2>13 DEF Filled
<1> QED
  BY <1>4, <1>5

LEMMA RefillKeeps ==
  ASSUME NEW K, NEW V, AreKeys(K), Nil \in V, NEW t \in Tables(K, V), Sound(t), KeysIn(t) = {},
         NEW items, NEW S, Fits(K, V, t, items, S)
  PROVE  Filled(K, V, t, items, S, Len(items), Refill(t, items))
<1> DEFINE N == Len(items)
           A == Tables(K, V)
           Inv(n, u) == Filled(K, V, t, items, S, n, u)
           g == [n \in 1 .. N |-> [u \in A |-> IF FillStep(items, n, u) \in A
                                               THEN FillStep(items, n, u) ELSE u]]
<1>1. N \in Nat
  BY LenProperties DEF Fits
<1>2. g \in [1 .. N -> [A -> A]] /\ \A n \in 1 .. N : \A u \in A :
         FillStep(items, n, u) \in A => g[n][u] = FillStep(items, n, u)
  OBVIOUS
<1> HIDE DEF N, A, g
<1>3. PICK f \in [0 .. N -> A] : Recursive(f, t, g, N)
  BY <1>1, <1>2, Recursion DEF A
<1>4. f[0] = t /\ \A n \in 1 .. N : f[n] = g[n][f[n - 1]]
  BY <1>3 DEF Recursive
<1>5. Inv(0, t)
  BY DEF Filled
<1> DEFINE T == {n \in Nat : n <= N => Inv(n, f[n])}
<1>6. ASSUME NEW n \in 1 .. N, Inv(n - 1, f[n - 1])
      PROVE  f[n] = FillStep(items, n, f[n - 1]) /\ Inv(n, f[n])
  <2>1. Inv(n, FillStep(items, n, f[n - 1]))
    BY <1>6, FillsOne DEF N
  <2>2. FillStep(items, n, f[n - 1]) \in A /\ f[n - 1] \in A
    BY <1>6, <2>1 DEF Filled, A
  <2> HIDE DEF Inv
  <2> QED
    BY <1>2, <1>4, <2>1, <2>2
<1> HIDE DEF Inv
<1>7. T \in SUBSET Nat /\ 0 \in T
  BY <1>4, <1>5
<1>8. ASSUME NEW n \in T PROVE n + 1 \in T
  <2>1. CASE n + 1 <= N
    <3>1. n + 1 \in 1 .. N /\ (n + 1) - 1 = n /\ Inv(n, f[n])
      BY <1>1, <2>1
    <3>2. Inv(n + 1, f[n + 1])
      BY <1>6, <3>1
    <3> QED
      BY <3>2
  <2>2. CASE ~(n + 1 <= N)
    BY <2>2
  <2> QED
    BY <2>1, <2>2
<1> HIDE DEF T
<1>9. T = Nat
  BY <1>7, <1>8, SetInduction
<1>10. \A n \in 0 .. N : Inv(n, f[n])
  <2> SUFFICES ASSUME NEW n \in 0 .. N PROVE Inv(n, f[n])
    OBVIOUS
  <2>1. n \in T /\ n <= N
    BY <1>1, <1>9
  <2> QED
    BY <2>1 DEF T
<1>11. \A n \in 1 .. N : f[n] = FillStep(items, n, f[n - 1])
  <2> SUFFICES ASSUME NEW n \in 1 .. N PROVE f[n] = FillStep(items, n, f[n - 1])
    OBVIOUS
  <2>1. n - 1 \in 0 .. N
    BY <1>1
  <2> QED
    BY <1>6, <1>10, <2>1
<1> DEFINE Same(h) == h = [i \in 0 .. Len(items) |->
                            IF i = 0 THEN t
                            ELSE IF items[i].val = Nil THEN h[i - 1]
                            ELSE Place(h[i - 1], items[i].key, items[i].val)]
           filled == CHOOSE h : Same(h)
<1>12. Same(f)
  <2>1. ASSUME NEW i \in 0 .. N
        PROVE  f[i] = IF i = 0 THEN t
                      ELSE IF items[i].val = Nil THEN f[i - 1]
                      ELSE Place(f[i - 1], items[i].key, items[i].val)
    <3>1. CASE i = 0
      BY <1>4, <3>1
    <3>2. CASE i # 0
      <4>1. i \in 1 .. N
        BY <1>1, <3>2
      <4> QED
        BY <1>11, <3>2, <4>1 DEF FillStep
    <3> QED
      BY <3>1, <3>2
  <2> QED
    BY <2>1 DEF N
<1>13. Same(filled)
  BY <1>12
<1>14. SameSteps(f, filled, N)
  <2>1. filled[0] = t
    <3>1. 0 \in 0 .. Len(items)
      BY <1>1 DEF N
    <3> HIDE DEF filled
    <3> QED
      BY <1>13, <3>1
  <2>2. ASSUME NEW n \in 1 .. N, f[n - 1] = filled[n - 1] PROVE f[n] = filled[n]
    <3>1. n \in 0 .. Len(items) /\ n # 0
      BY <1>1 DEF N
    <3> HIDE DEF filled
    <3>2. filled[n] = FillStep(items, n, filled[n - 1])
      BY <1>13, <3>1 DEF FillStep
    <3> QED
      BY <1>11, <2>2, <3>2
  <2> QED
    BY <1>4, <2>1, <2>2 DEF SameSteps
<1>15. f[N] = filled[N]
  <2> HIDE DEF filled
  <2> QED
    BY <1>1, <1>14, SameRecursion
<1>16. Refill(t, items) = filled[N]
  BY DEF Refill, N
<1> HIDE DEF filled
<1> QED
  BY <1>1, <1>10, <1>15, <1>16 DEF Inv, N

-----------------------------------------------------------------------------
(* The powers of two, and the least that is not less than a number. *)
LEMMA TwoToFacts ==
  /\ TwoTo[0] = 1 /\ \A i \in 1 .. 30 : TwoTo[i] = 2 * TwoTo[i - 1]
  /\ \A i \in 0 .. 30 : TwoTo[i] \in Nat \ {0}
<1> DEFINE A == Nat \ {0}
           g == [i \in 1 .. 30 |-> [x \in A |-> 2 * x]]
           Same(f) == f = [i \in 0 .. 30 |-> IF i = 0 THEN 1 ELSE 2 * f[i - 1]]
<1>1. g \in [1 .. 30 -> [A -> A]] /\ \A i \in 1 .. 30 : \A x \in A : g[i][x] = 2 * x
  OBVIOUS
<1>2. PICK f \in [0 .. 30 -> A] : Recursive(f, 1, g, 30)
  <2> HIDE DEF g
  <2>1. 1 \in A /\ 30 \in Nat
    OBVIOUS
  <2> HIDE DEF A
  <2> QED
    BY <1>1, <2>1, Recursion
<1> HIDE DEF g
<1>3. f[0] = 1 /\ \A i \in 1 .. 30 : f[i] = 2 * f[i - 1] /\ f[i - 1] \in A
  <2>1. ASSUME NEW i \in 1 .. 30 PROVE f[i] = 2 * f[i - 1] /\ f[i - 1] \in A
    <3>1. i - 1 \in 0 .. 30 /\ f[i] = g[i][f[i - 1]]
      BY <1>2 DEF Recursive
    <3> QED
      BY <1>1, <3>1
  <2> QED
    BY <1>2, <2>1 DEF Recursive
<1>4. Same(f)
  <2>1. ASSUME NEW i \in 0 .. 30 PROVE f[i] = IF i = 0 THEN 1 ELSE 2 * f[i - 1]
    BY <1>3
  <2> QED
    BY <2>1
<1>5. Same(TwoTo)
  BY <1>4 DEF TwoTo
<1>6. TwoTo[0] = 1 /\ \A i \in 1 .. 30 : TwoTo[i] = 2 * TwoTo[i - 1]
  <2>1. ASSUME NEW i \in 0 .. 30 PROVE TwoTo[i] = IF i = 0 THEN 1 ELSE 2 * TwoTo[i - 1]
    BY <1>5
  <2> QED
    BY <2>1
<1>7. SameSteps(f, TwoTo, 30)
  BY <1>3, <1>6 DEF SameSteps
<1>8. \A i \in 0 .. 30 : f[i] = TwoTo[i]
  BY <1>7, SameRecursion
<1> QED
  BY <1>6, <1>8

LEMMA PowersAreNumbers == Powers \subseteq Nat \ {0}
BY TwoToFacts DEF Powers, MAXBITS

LEMMA PowerAboveFacts ==
  ASSUME NEW n \in 1 .. TwoTo[MAXBITS]
  PROVE  PowerAbove(n) \in Powers /\ PowerAbove(n) >= n /\ PowerAbove(n) < 2 * n
<1> DEFINE Above(p) == p >= n /\ p < 2 * n
           T == {i \in Nat : i <= MAXBITS /\ TwoTo[i] >= n => \E p \in Powers : Above(p)}
<1>1. n \in Nat \ {0} /\ MAXBITS \in Nat /\ n <= TwoTo[MAXBITS] /\ TwoTo[MAXBITS] \in Nat
  BY TwoToFacts DEF MAXBITS
<1>2. T \in SUBSET Nat /\ 0 \in T
  <2>1. TwoTo[0] = 1 /\ TwoTo[0] \in Powers
    BY TwoToFacts DEF Powers, MAXBITS
  <2>2. 1 >= n => Above(1)
    BY <1>1
  <2> QED
    BY <2>1, <2>2
<1>3. ASSUME NEW i \in T PROVE i + 1 \in T
  <2> SUFFICES ASSUME i + 1 <= MAXBITS, TwoTo[i + 1] >= n PROVE \E p \in Powers : Above(p)
    OBVIOUS
  <2>1. i \in 0 .. 30 /\ i + 1 \in 1 .. 30 /\ (i + 1) - 1 = i /\ i + 1 \in 0 .. MAXBITS
    BY DEF MAXBITS
  <2>2. TwoTo[i + 1] = 2 * TwoTo[i] /\ TwoTo[i] \in Nat /\ TwoTo[i + 1] \in Powers
    BY <2>1, TwoToFacts DEF Powers
  <2>3. CASE TwoTo[i] >= n
    BY <2>1, <2>3 DEF MAXBITS
  <2>4. CASE TwoTo[i] < n
    <3>1. Above(TwoTo[i + 1])
      BY <1>1, <2>2, <2>4
    <3> QED
      BY <2>2, <3>1
  <2> QED
    BY <1>1, <2>2, <2>3, <2>4
<1> HIDE DEF T
<1>4. MAXBITS \in T
  BY <1>1, <1>2, <1>3, SetInduction
<1>5. \E p \in Powers : p >= n /\ p < 2 * n
  BY <1>1, <1>4 DEF T
<1> QED
  BY <1>5 DEF PowerAbove

-----------------------------------------------------------------------------
LEMMA RepeatFacts ==
  ASSUME NEW S, NEW v \in S, NEW n \in Nat
  PROVE  Repeat(v, n) \in Seq(S) /\ Len(Repeat(v, n)) = n /\ \A i \in 1 .. n : Repeat(v, n)[i] = v
<1> DEFINE s == [i \in 1 .. n |-> v]
<1>1. s \in Seq(S) /\ Len(s) = n /\ \A i \in 1 .. n : s[i] = v
  <2>1. s \in [1 .. n -> S]
    OBVIOUS
  <2> QED
    BY <2>1, SeqDef
<1>2. Repeat(v, n) = [i \in 1 .. (IF n < 0 THEN 0 ELSE n) |-> v] \o <<>>
  BY DEF Repeat
<1>3. Repeat(v, n) = s \o <<>>
  BY <1>2
<1> HIDE DEF s
<1> QED
  BY <1>1, <1>3, ConcatEmptySeq

LEMMA AdjustFacts ==
  ASSUME NEW S, NEW vals \in Seq(S), Nil \in S, NEW n \in Nat
  PROVE  /\ Adjust(vals, n) \in Seq(S) /\ Len(Adjust(vals, n)) = n
         /\ \A i \in 1 .. n : Adjust(vals, n)[i] = IF i <= Len(vals) THEN vals[i] ELSE Nil
<1> DEFINE r == Repeat(Nil, n)
           s == vals \o r
<1>1. r \in Seq(S) /\ Len(r) = n /\ \A i \in 1 .. n : r[i] = Nil
  BY RepeatFacts
<1>2. Len(vals) \in Nat
  BY LenProperties
<1> HIDE DEF r
<1>3. /\ s \in Seq(S) /\ Len(s) = Len(vals) + n
      /\ \A i \in 1 .. Len(vals) + n : s[i] = IF i <= Len(vals) THEN vals[i] ELSE r[i - Len(vals)]
  BY <1>1, ConcatProperties
<1>4. Adjust(vals, n) = SubSeq(s, 1, n)
  BY DEF Adjust, r
<1> HIDE DEF s
<1>5. \A i \in 1 .. n : s[i] \in S /\ s[i] = IF i <= Len(vals) THEN vals[i] ELSE Nil
  <2> SUFFICES ASSUME NEW i \in 1 .. n PROVE s[i] \in S /\ s[i] = IF i <= Len(vals) THEN vals[i] ELSE Nil
    OBVIOUS
  <2>1. i \in 1 .. Len(vals) + n
    BY <1>2
  <2>2. i > Len(vals) => i - Len(vals) \in 1 .. n
    BY <1>2
  <2> QED
    BY <1>1, <1>2, <1>3, <2>1, <2>2, ElementOfSeq
<1>6. /\ SubSeq(s, 1, n) \in Seq(S) /\ Len(SubSeq(s, 1, n)) = IF 1 <= n THEN n - 1 + 1 ELSE 0
      /\ \A i \in 1 .. n - 1 + 1 : SubSeq(s, 1, n)[i] = s[1 + i - 1]
  BY <1>5, SubSeqProperties
<1>7. Len(SubSeq(s, 1, n)) = n /\ \A i \in 1 .. n : SubSeq(s, 1, n)[i] = s[i]
  <2>1. ASSUME NEW i \in 1 .. n PROVE SubSeq(s, 1, n)[i] = s[i]
    <3>1. i \in 1 .. n - 1 + 1 /\ 1 + i - 1 = i
      OBVIOUS
    <3> QED
      BY <1>6, <3>1
  <2> QED
    BY <1>6, <2>1
<1> QED
  BY <1>4, <1>5, <1>6, <1>7

(* A table whose nodes are all free. *)
LEMMA NewNodesFacts ==
  ASSUME NEW K, NEW V, Nil \in V, NEW nh \in 0 .. TwoTo[MAXBITS]
  PROVE  /\ NewNodes(nh) \in Seq(Nodes(K, V)) /\ Len(NewNodes(nh)) \in {0} \union Powers
         /\ Len(NewNodes(nh)) \in Nat /\ Len(NewNodes(nh)) >= nh
         /\ \A i \in 1 .. Len(NewNodes(nh)) : NewNodes(nh)[i] = FreeNode
<1>1. FreeNode \in Nodes(K, V)
  BY NodeType DEF FreeNode
<1>2. CASE nh = 0
  BY <1>2, EmptySeq DEF NewNodes
<1>3. CASE nh # 0
  <2> DEFINE p == PowerAbove(nh)
  <2>0. nh \in 1 .. TwoTo[MAXBITS]
    BY <1>3, TwoToFacts DEF MAXBITS
  <2>1. p \in Powers /\ p >= nh /\ p \in Nat
    BY <2>0, PowerAboveFacts, PowersAreNumbers
  <2>2. NewNodes(nh) = Repeat(FreeNode, p)
    BY <1>3 DEF NewNodes, Fresh
  <2> HIDE DEF p
  <2>3. /\ Repeat(FreeNode, p) \in Seq(Nodes(K, V)) /\ Len(Repeat(FreeNode, p)) = p
        /\ \A i \in 1 .. p : Repeat(FreeNode, p)[i] = FreeNode
    BY <1>1, <2>1, RepeatFacts
  <2> QED
    BY <2>1, <2>2, <2>3
<1> QED
  BY <1>2, <1>3

LEMMA EmptyIsSound ==
  ASSUME NEW K, NEW V, AreKeys(K), NEW t \in Tables(K, V), t.free = Size(t) + 1,
         \A i \in 1 .. Size(t) : t.node[i] = FreeNode
  PROVE  /\ Sound(t) /\ Taken(t) = {} /\ KeysIn(t) = {}
         /\ \A k \in K : Get(t, k) = IF InArray(t, k) THEN t.arr[k[2]] ELSE Nil
<1>1. Size(t) \in Nat /\ DOMAIN t.node = 1 .. Size(t)
  BY TableFacts
<1>2. \A i \in 1 .. Size(t) : t.node[i].key = Nil /\ t.node[i].val = Nil /\ t.node[i].next = 0
  BY DEF FreeNode, Node
<1>3. Taken(t) = {} /\ KeysIn(t) = {}
  BY <1>1, <1>2 DEF Taken, KeysIn
<1>4. LinksInside(t) /\ LinksSound(t) /\ UntakenNil(t)
  BY <1>1, <1>2 DEF LinksInside, LinksSound, UntakenNil
<1>5. Acyclic(t)
  <2> DEFINE rank == [i \in 1 .. Size(t) |-> 0]
  <2>1. rank \in [1 .. Size(t) -> 0 .. 0] /\ Descends(t, rank)
    BY <1>2 DEF Descends
  <2> QED
    BY <2>1 DEF Acyclic
<1>6. Reached(t) /\ HomesOwned(t) /\ Distinct(t) /\ KeysApart(t)
  BY <1>3 DEF Reached, HomesOwned, Distinct, KeysApart
<1>7. FreeBelow(t)
  BY <1>1 DEF FreeBelow, Size
<1>8. Sound(t)
  BY <1>1, <1>4, <1>5, <1>6, <1>7 DEF Sound
<1> QED
  BY <1>3, <1>8, GetIs

-----------------------------------------------------------------------------
(* Resize *)

LEMMA ResizedFacts ==
  ASSUME NEW K, NEW V, AreKeys(K), Nil \in V, NEW t \in Tables(K, V), NEW na \in Nat,
         NEW nh \in 0 .. TwoTo[MAXBITS], NEW r, r = Resized(t, na, nh)
  PROVE  /\ r \in Tables(K, V) /\ Sound(r) /\ KeysIn(r) = {}
         /\ r.meta = t.meta /\ r.absent \subseteq t.absent
         /\ Size(r) \in {0} \union Powers /\ Size(r) >= nh
         /\ DOMAIN r.arr = 1 .. na
         /\ \A i \in 1 .. na : r.arr[i] = IF i <= Len(t.arr) THEN t.arr[i] ELSE Nil
         /\ \A k \in K : Get(r, k) = IF InArray(r, k) THEN r.arr[k[2]] ELSE Nil
<1> DEFINE node == NewNodes(nh)
           arr == Adjust(t.arr, na)
           absent == IF UsedNodes(t) = {} THEN t.absent ELSE {}
<1>1. /\ node \in Seq(Nodes(K, V)) /\ Len(node) \in {0} \union Powers /\ Len(node) \in Nat
      /\ Len(node) >= nh /\ \A i \in 1 .. Len(node) : node[i] = FreeNode
  BY NewNodesFacts
<1>2. /\ arr \in Seq(V) /\ Len(arr) = na
      /\ \A i \in 1 .. na : arr[i] = IF i <= Len(t.arr) THEN t.arr[i] ELSE Nil
  <2>1. t.arr \in Seq(V)
    BY DEF Tables
  <2> QED
    BY <2>1, AdjustFacts
<1>3. r = [t EXCEPT !.arr = arr, !.node = node, !.free = Len(node) + 1, !.absent = absent]
  BY DEF Resized
<1>4. absent \subseteq t.absent
  OBVIOUS
<1> HIDE DEF node, arr, absent
<1>5. Len(node) + 1 \in Nat \ {0}
  BY <1>1
<1>6. /\ r \in Tables(K, V) /\ r.arr = arr /\ r.node = node /\ r.free = Len(node) + 1
      /\ r.meta = t.meta /\ r.absent = absent
  BY <1>1, <1>2, <1>3, <1>4, <1>5 DEF Tables
<1>7. Size(r) = Len(node) /\ DOMAIN r.arr = 1 .. na
  BY <1>2, <1>6, LenProperties DEF Size
<1>8. /\ Sound(r) /\ KeysIn(r) = {}
      /\ \A k \in K : Get(r, k) = IF InArray(r, k) THEN r.arr[k[2]] ELSE Nil
  BY <1>1, <1>6, <1>7, EmptyIsSound
<1> QED
  BY <1>1, <1>2, <1>4, <1>6, <1>7, <1>8

(* What is inserted: the values the array part lost, and the nodes. *)
Lost(t, na) == IF na < Len(t.arr) THEN Len(t.arr) - na ELSE 0

AreItems(K, V, t, na, items) ==
  /\ items \in Seq(Nodes(K, V)) /\ Lost(t, na) \in Nat
  /\ Len(items) = Lost(t, na) + Size(t)
  /\ \A i \in 1 .. Lost(t, na) : items[i].key = Num(na + i) /\ items[i].val = t.arr[na + i]
  /\ \A i \in Lost(t, na) + 1 .. Lost(t, na) + Size(t) :
       items[i] = t.node[Lost(t, na) + Size(t) - i + 1]

LEMMA ToInsertFacts ==
  ASSUME NEW K, NEW V, AreKeys(K), NEW t \in Tables(K, V), NEW na \in Nat,
         NEW items, items = ToInsert(t, na)
  PROVE  AreItems(K, V, t, na, items)
<1> DEFINE L == Lost(t, na)
           lost == SubSeq(t.arr, na + 1, Len(t.arr))
           s1 == [i \in DOMAIN lost |-> Node(Num(na + i), lost[i], 0)]
           s2 == Reverse(t.node)
           D == Nodes(K, V)
<1>1. /\ Len(t.arr) \in Nat /\ t.arr \in Seq(V) /\ \A i \in 1 .. Len(t.arr) : t.arr[i] \in V
      /\ Size(t) \in Nat /\ \A i \in 1 .. Size(t) : t.node[i] \in D
  BY TableFacts DEF Tables
<1>2. L \in Nat
  BY <1>1 DEF Lost
<1>3. lost \in Seq(V) /\ Len(lost) = L /\ \A i \in 1 .. L : lost[i] = t.arr[na + i]
  <2>1. \A i \in na + 1 .. Len(t.arr) : t.arr[i] \in V
    BY <1>1
  <2>2. /\ lost \in Seq(V) /\ Len(lost) = IF na + 1 <= Len(t.arr) THEN Len(t.arr) - (na + 1) + 1 ELSE 0
        /\ \A i \in 1 .. Len(t.arr) - (na + 1) + 1 : lost[i] = t.arr[na + 1 + i - 1]
    BY <1>1, <2>1, SubSeqProperties
  <2> HIDE DEF lost
  <2>3. ASSUME NEW i \in 1 .. L PROVE lost[i] = t.arr[na + i]
    <3>1. i \in 1 .. Len(t.arr) - (na + 1) + 1 /\ na + 1 + i - 1 = na + i
      BY <1>1 DEF Lost
    <3> QED
      BY <2>2, <3>1
  <2> QED
    BY <1>1, <2>2, <2>3 DEF Lost
<1>4. DOMAIN lost = 1 .. L /\ \A i \in 1 .. L : lost[i] \in V
  BY <1>3, LenProperties, ElementOfSeq
<1> HIDE DEF lost, L
<1>5. ASSUME NEW i \in 1 .. L
      PROVE  Node(Num(na + i), lost[i], 0) \in D /\ Node(Num(na + i), lost[i], 0).key = Num(na + i)
             /\ Node(Num(na + i), lost[i], 0).val = lost[i]
  <2>1. na + i \in Nat \ {0}
    BY <1>2
  <2>2. Num(na + i) \in K
    BY <2>1 DEF AreKeys
  <2> QED
    BY <1>4, <2>2, NodeType
<1>6. /\ s1 \in Seq(D) /\ Len(s1) = L
      /\ \A i \in 1 .. L : s1[i] = Node(Num(na + i), lost[i], 0)
  <2>1. s1 \in [1 .. L -> D]
    BY <1>4, <1>5
  <2>2. s1 \in Seq(D)
    BY <1>2, <2>1, SeqDef
  <2> QED
    BY <1>2, <1>4, <2>1, <2>2, LenProperties
<1>7. /\ s2 \in Seq(D) /\ Len(s2) = Size(t)
      /\ \A i \in 1 .. Size(t) : s2[i] = t.node[Size(t) - i + 1]
  <2>1. s2 = [i \in 1 .. Size(t) |-> t.node[(Size(t) - i) + 1]]
    BY DEF Reverse, Size
  <2> HIDE DEF s2, D
  <2>2. \A i \in 1 .. Size(t) : Size(t) - i + 1 \in 1 .. Size(t)
    BY <1>1
  <2>3. s2 \in [1 .. Size(t) -> D]
    BY <1>1, <2>1, <2>2
  <2>4. s2 \in Seq(D)
    BY <1>1, <2>3, SeqDef
  <2> QED
    BY <1>1, <2>1, <2>3, <2>4, LenProperties
<1>8. items = s1 \o s2
  BY DEF ToInsert, lost
<1> HIDE DEF s1, s2, D
<1>9. /\ items \in Seq(D) /\ Len(items) = L + Size(t)
      /\ \A i \in 1 .. L + Size(t) : items[i] = IF i <= L THEN s1[i] ELSE s2[i - L]
  <2>1. /\ s1 \o s2 \in Seq(D) /\ Len(s1 \o s2) = Len(s1) + Len(s2)
        /\ \A i \in 1 .. Len(s1) + Len(s2) : (s1 \o s2)[i] = IF i <= Len(s1) THEN s1[i] ELSE s2[i - Len(s1)]
    BY <1>6, <1>7, ConcatProperties
  <2> QED
    BY <1>6, <1>7, <1>8, <2>1
<1>10. \A i \in 1 .. L : items[i].key = Num(na + i) /\ items[i].val = t.arr[na + i]
  <2> SUFFICES ASSUME NEW i \in 1 .. L PROVE items[i].key = Num(na + i) /\ items[i].val = t.arr[na + i]
    OBVIOUS
  <2>1. i \in 1 .. L + Size(t) /\ i <= L
    BY <1>1, <1>2
  <2>2. items[i] = Node(Num(na + i), lost[i], 0)
    BY <1>6, <1>9, <2>1
  <2> QED
    BY <1>3, <1>5, <2>2
<1>11. ASSUME NEW i \in L + 1 .. L + Size(t) PROVE items[i] = t.node[L + Size(t) - i + 1]
  <2>1. i \in 1 .. L + Size(t) /\ ~(i <= L) /\ i - L \in 1 .. Size(t) /\ Size(t) - (i - L) + 1 = L + Size(t) - i + 1
    BY <1>1, <1>2
  <2> QED
    BY <1>7, <1>9, <2>1
<1> QED
  BY <1>2, <1>9, <1>10, <1>11 DEF L, D, AreItems

(* The keys that do not belong into an array part of na slots. *)
Outside(t, na) ==
  {Num(i) : i \in {j \in UsedSlots(t) : j > na}}
    \union {t.node[i].key : i \in {j \in UsedNodes(t) :
                                     ~\E n \in 1 .. na : t.node[j].key = Num(n)}}

LEMMA ItemsFit ==
  ASSUME NEW K, NEW V, AreKeys(K), NEW t \in Tables(K, V), Sound(t), NEW na \in Nat,
         NEW items, items = ToInsert(t, na)
  PROVE  /\ items \in Seq(Nodes(K, V))
         /\ \A i \in 1 .. Len(items) : Live(items, i) =>
              /\ items[i].key \in K
              /\ (\A n \in 1 .. na : items[i].key # Num(n)) => items[i].key \in Outside(t, na)
              /\ items[i].val = Get(t, items[i].key)
              /\ \A n \in 1 .. na : n <= Len(t.arr) => items[i].key # Num(n)
              /\ \A j \in 1 .. Len(items) : Live(items, j) /\ items[j].key = items[i].key => i = j
         /\ \A k \in K : Get(t, k) # Nil /\ ~(\E n \in 1 .. na : n <= Len(t.arr) /\ k = Num(n)) =>
              \E i \in 1 .. Len(items) : Live(items, i) /\ items[i].key = k
<1>0. AreItems(K, V, t, na, items)
  BY ToInsertFacts
<1> DEFINE L == Lost(t, na)
           S == Size(t)
           Slot(i) == na + i
           Place0(i) == L + S - i + 1
<1>1. /\ Len(t.arr) \in Nat /\ DOMAIN t.arr = 1 .. Len(t.arr) /\ S \in Nat /\ DOMAIN t.node = 1 .. S
      /\ \A i \in 1 .. S : t.node[i].key \in K \union {Nil}
  BY TableFacts
<1>2. /\ items \in Seq(Nodes(K, V)) /\ L \in Nat /\ Len(items) = L + S
      /\ \A i \in 1 .. L : items[i].key = Num(na + i) /\ items[i].val = t.arr[na + i]
      /\ \A i \in L + 1 .. L + S : items[i] = t.node[L + S - i + 1]
  BY <1>0 DEF AreItems
<1>3. /\ \A i \in 1 .. L : Slot(i) \in 1 .. Len(t.arr) /\ Slot(i) > na
      /\ \A n \in na + 1 .. Len(t.arr) : n - na \in 1 .. L /\ Slot(n - na) = n
  BY <1>1 DEF Lost
<1> HIDE DEF L, S
<1>4. /\ \A i \in L + 1 .. L + S : Place0(i) \in 1 .. S
      /\ \A j \in 1 .. S : Place0(j) \in L + 1 .. L + S /\ Place0(Place0(j)) = j
      /\ \A i, j \in L + 1 .. L + S : Place0(i) = Place0(j) => i = j
  BY <1>1, <1>2
<1>5. \A i \in 1 .. Len(items) : i \in 1 .. L \/ i \in L + 1 .. L + S
  BY <1>1, <1>2
<1>6. ASSUME NEW i \in 1 .. L
      PROVE  /\ items[i].key = Num(Slot(i)) /\ items[i].val = t.arr[Slot(i)]
             /\ InArray(t, items[i].key) /\ items[i].key \in K
             /\ Get(t, items[i].key) = t.arr[Slot(i)]
             /\ Live(items, i) => Slot(i) \in UsedSlots(t)
  <2>1. items[i].key = Num(Slot(i)) /\ items[i].val = t.arr[Slot(i)] /\ Slot(i) \in 1 .. Len(t.arr)
    BY <1>2, <1>3
  <2>2. Num(Slot(i))[1] = "number" /\ Num(Slot(i))[2] = Slot(i)
    BY DEF Num
  <2> HIDE DEF Slot
  <2>3. InArray(t, items[i].key)
    BY <1>1, <2>1, <2>2 DEF InArray
  <2>4. items[i].key \in K
    BY <2>1 DEF AreKeys
  <2>5. Get(t, items[i].key) = t.arr[Slot(i)]
    BY <2>1, <2>2, <2>3 DEF Get
  <2> QED
    BY <1>1, <2>1, <2>3, <2>4, <2>5 DEF UsedSlots, Live
<1>7. ASSUME NEW i \in L + 1 .. L + S, Live(items, i)
      PROVE  /\ items[i] = t.node[Place0(i)] /\ Place0(i) \in Taken(t) /\ Place0(i) \in UsedNodes(t)
             /\ ~InArray(t, items[i].key) /\ items[i].key \in K
             /\ Get(t, items[i].key) = items[i].val
  <2>1. items[i] = t.node[Place0(i)] /\ Place0(i) \in 1 .. S
    BY <1>2, <1>4
  <2> HIDE DEF Place0
  <2>2. Place0(i) \in Taken(t) /\ Place0(i) \in UsedNodes(t)
    BY <1>1, <1>7, <2>1 DEF Live, Taken, UsedNodes, Sound, UntakenNil, S
  <2>3. ~InArray(t, items[i].key) /\ items[i].key \in K
    BY <1>1, <2>1, <2>2 DEF Sound, KeysApart, Taken
  <2>4. Get(t, items[i].key) = items[i].val
    BY <2>1, <2>2, <2>3, GetIs
  <2> QED
    BY <2>1, <2>2, <2>3, <2>4
<1>8. \A n \in 1 .. Len(t.arr) : InArray(t, Num(n))
  BY <1>1 DEF InArray, Num
<1>9. ASSUME NEW m, NEW n, Num(m) = Num(n) PROVE m = n
  BY <1>9 DEF Num
<1>10. ASSUME NEW i \in 1 .. Len(items), Live(items, i),
              \A n \in 1 .. na : items[i].key # Num(n)
       PROVE  items[i].key \in Outside(t, na)
  <2>1. CASE i \in 1 .. L
    <3>1. Slot(i) \in UsedSlots(t) /\ Slot(i) > na /\ items[i].key = Num(Slot(i))
      BY <1>3, <1>6, <1>10, <2>1
    <3> HIDE DEF Slot
    <3> QED
      BY <3>1 DEF Outside
  <2>2. CASE i \in L + 1 .. L + S
    <3>1. Place0(i) \in UsedNodes(t) /\ items[i] = t.node[Place0(i)]
      BY <1>7, <1>10, <2>2
    <3> HIDE DEF Place0
    <3> QED
      BY <1>10, <3>1 DEF Outside
  <2> QED
    BY <1>5, <2>1, <2>2
<1>11. ASSUME NEW i \in 1 .. Len(items), Live(items, i), NEW n \in 1 .. na, n <= Len(t.arr)
       PROVE  items[i].key # Num(n)
  <2>1. InArray(t, Num(n)) /\ n \in Nat /\ na \in Nat
    BY <1>1, <1>8, <1>11
  <2>2. CASE i \in 1 .. L
    <3>1. Slot(i) # n /\ items[i].key = Num(Slot(i))
      BY <1>3, <1>6, <2>1, <2>2
    <3> HIDE DEF Slot
    <3> QED
      BY <1>9, <3>1
  <2>3. CASE i \in L + 1 .. L + S
    BY <1>7, <1>11, <2>1, <2>3
  <2> QED
    BY <1>5, <2>2, <2>3
<1>12. ASSUME NEW i \in 1 .. Len(items), NEW j \in 1 .. Len(items), Live(items, i), Live(items, j),
              items[i].key = items[j].key
       PROVE  i = j
  <2>1. CASE i \in 1 .. L /\ j \in 1 .. L
    <3>1. Slot(i) = Slot(j)
      <4> HIDE DEF Slot
      <4> QED
        BY <1>6, <1>9, <1>12, <2>1
    <3> QED
      BY <1>2, <2>1, <3>1
  <2>2. CASE i \in L + 1 .. L + S /\ j \in L + 1 .. L + S
    <3>1. Place0(i) = Place0(j)
      <4> HIDE DEF Place0
      <4> QED
        BY <1>7, <1>12, <2>2 DEF Sound, Distinct
    <3> QED
      BY <1>4, <2>2, <3>1
  <2>3. CASE ~(i \in 1 .. L <=> j \in 1 .. L)
    BY <1>5, <1>6, <1>7, <1>12, <2>3
  <2> QED
    BY <1>5, <2>1, <2>2, <2>3
<1>13. ASSUME NEW k \in K, Get(t, k) # Nil, ~(\E n \in 1 .. na : n <= Len(t.arr) /\ k = Num(n))
       PROVE  \E i \in 1 .. Len(items) : Live(items, i) /\ items[i].key = k
  <2>1. CASE InArray(t, k)
    <3>1. k[2] \in 1 .. Len(t.arr) /\ k = Num(k[2]) /\ Get(t, k) = t.arr[k[2]]
      BY <1>1, <2>1 DEF InArray, AreKeys, Num, Get
    <3>2. k[2] \in na + 1 .. Len(t.arr)
      BY <1>1, <1>13, <3>1
    <3>3. k[2] - na \in 1 .. L /\ Slot(k[2] - na) = k[2]
      BY <1>3, <3>2
    <3> HIDE DEF Slot
    <3>4. k[2] - na \in 1 .. Len(items)
      BY <1>1, <1>2, <3>3
    <3> QED
      BY <1>6, <1>13, <3>1, <3>3, <3>4 DEF Live
  <2>2. CASE ~InArray(t, k)
    <3>1. PICK j \in Taken(t) : t.node[j].key = k /\ t.node[j].val # Nil
      BY <1>13, <2>2, GetIs
    <3>2. j \in 1 .. S
      BY <1>1 DEF Taken
    <3>3. Place0(j) \in L + 1 .. L + S /\ items[Place0(j)] = t.node[j]
      BY <1>2, <1>4, <3>2
    <3> HIDE DEF Place0
    <3>4. Place0(j) \in 1 .. Len(items)
      BY <1>1, <1>2, <3>3
    <3> QED
      BY <3>1, <3>3, <3>4 DEF Live
  <2> QED
    BY <2>1, <2>2
<1> QED
  <2>1. \A i \in 1 .. Len(items) : Live(items, i) => items[i].key \in K /\ items[i].val = Get(t, items[i].key)
    BY <1>5, <1>6, <1>7
  <2> QED
    BY <1>2, <1>10, <1>11, <1>12, <1>13, <2>1

(* Resizing keeps what the table has, if there are nodes enough. *)
LEMMA ResizeKeeps ==
  ASSUME NEW K, NEW V, AreKeys(K), Nil \in V, NEW t \in Tables(K, V), Sound(t), NEW na \in Nat,
         NEW nh \in 0 .. TwoTo[MAXBITS],
         NEW S, IsFiniteSet(S), Outside(t, na) \subseteq S, Cardinality(S) <= nh,
         NEW u, u = Resize(t, na, nh)
  PROVE  /\ u \in Tables(K, V) /\ Sound(u) /\ \A k \in K : Get(u, k) = Get(t, k)
         /\ DOMAIN u.arr = 1 .. na /\ Size(u) \in {0} \union Powers /\ Size(u) >= nh
         /\ KeysIn(u) \subseteq S
         /\ u.meta = t.meta /\ u.absent \subseteq t.absent
<1> DEFINE r == Resized(t, na, nh)
           items == ToInsert(t, na)
           N == Len(items)
<1>1. /\ r \in Tables(K, V) /\ Sound(r) /\ KeysIn(r) = {}
      /\ r.meta = t.meta /\ r.absent \subseteq t.absent
      /\ Size(r) \in {0} \union Powers /\ Size(r) >= nh
      /\ DOMAIN r.arr = 1 .. na
      /\ \A i \in 1 .. na : r.arr[i] = IF i <= Len(t.arr) THEN t.arr[i] ELSE Nil
      /\ \A k \in K : Get(r, k) = IF InArray(r, k) THEN r.arr[k[2]] ELSE Nil
  BY ResizedFacts
<1>2. /\ items \in Seq(Nodes(K, V))
      /\ \A i \in 1 .. Len(items) : Live(items, i) =>
           /\ items[i].key \in K
           /\ (\A n \in 1 .. na : items[i].key # Num(n)) => items[i].key \in Outside(t, na)
           /\ items[i].val = Get(t, items[i].key)
           /\ \A n \in 1 .. na : n <= Len(t.arr) => items[i].key # Num(n)
           /\ \A j \in 1 .. Len(items) : Live(items, j) /\ items[j].key = items[i].key => i = j
      /\ \A k \in K : Get(t, k) # Nil /\ ~(\E n \in 1 .. na : n <= Len(t.arr) /\ k = Num(n)) =>
           \E i \in 1 .. Len(items) : Live(items, i) /\ items[i].key = k
  BY ItemsFit
<1>3. u = Refill(r, items)
  BY DEF Resize
<1>4. Len(t.arr) \in Nat /\ DOMAIN t.arr = 1 .. Len(t.arr)
  BY TableFacts
<1> HIDE DEF r, items
<1>5. \A k \in K : InArray(r, k) <=> \E n \in 1 .. na : k = Num(n)
  BY <1>1 DEF InArray, AreKeys, Num
<1>6. Fits(K, V, r, items, S)
  <2>1. Cardinality(S) <= Size(r)
    <3>1. Cardinality(S) \in Nat /\ Size(r) \in Nat /\ nh \in Nat
      BY <1>1, FS_CardinalityType, TableFacts, TwoToFacts DEF MAXBITS
    <3> QED
      BY <1>1, <3>1
  <2>2. \A i \in 1 .. Len(items) : Live(items, i) => (~InArray(r, items[i].key) => items[i].key \in S)
    BY <1>2, <1>5
  <2> QED
    BY <1>2, <2>1, <2>2 DEF Fits
<1>7. Filled(K, V, r, items, S, N, u)
  BY <1>1, <1>3, <1>6, RefillKeeps
<1>8. /\ u \in Tables(K, V) /\ Sound(u) /\ DOMAIN u.arr = 1 .. na /\ Size(u) = Size(r)
      /\ u.meta = t.meta /\ u.absent \subseteq t.absent /\ KeysIn(u) \subseteq S
      /\ \A i \in 1 .. N : Live(items, i) => Get(u, items[i].key) = items[i].val
      /\ \A k \in K : (\A i \in 1 .. N : Live(items, i) => items[i].key # k) => Get(u, k) = Get(r, k)
  BY <1>1, <1>7 DEF Filled
<1>9. ASSUME NEW k \in K PROVE Get(u, k) = Get(t, k)
  <2>1. CASE \E i \in 1 .. N : Live(items, i) /\ items[i].key = k
    BY <1>2, <1>8, <2>1
  <2>2. CASE \A i \in 1 .. N : Live(items, i) => items[i].key # k
    <3>1. Get(u, k) = Get(r, k)
      BY <1>8, <2>2
    <3>2. CASE \E n \in 1 .. na : n <= Len(t.arr) /\ k = Num(n)
      <4>1. PICK n \in 1 .. na : n <= Len(t.arr) /\ k = Num(n)
        BY <3>2
      <4>2. k[1] = "number" /\ k[2] = n
        BY <4>1 DEF Num
      <4>3. InArray(r, k) /\ InArray(t, k)
        BY <1>1, <1>4, <4>1, <4>2 DEF InArray
      <4>4. Get(r, k) = t.arr[n] /\ Get(t, k) = t.arr[n]
        BY <1>1, <4>1, <4>2, <4>3, GetIs
      <4> QED
        BY <3>1, <4>4
    <3>3. CASE ~(\E n \in 1 .. na : n <= Len(t.arr) /\ k = Num(n))
      <4>1. Get(t, k) = Nil
        BY <1>2, <2>2, <3>3
      <4>2. Get(r, k) = Nil
        <5>1. CASE InArray(r, k)
          <6>1. PICK n \in 1 .. na : k = Num(n)
            BY <1>5, <5>1
          <6>2. k[2] = n /\ ~(n <= Len(t.arr))
            BY <3>3, <6>1 DEF Num
          <6> QED
            BY <1>1, <5>1, <6>2
        <5>2. CASE ~InArray(r, k)
          BY <1>1, <5>2
        <5> QED
          BY <5>1, <5>2
      <4> QED
        BY <3>1, <4>1, <4>2
    <3> QED
      BY <3>2, <3>3
  <2> QED
    BY <2>1, <2>2
<1> QED
  BY <1>1, <1>8, <1>9

-----------------------------------------------------------------------------
(* Rehash: the counts are those of the keys that are there. *)

LEMMA ImageCount ==
  ASSUME NEW S, IsFiniteSet(S), NEW T, NEW f \in [S -> T],
         \A a, b \in S : f[a] = f[b] => a = b, \A y \in T : \E x \in S : f[x] = y
  PROVE  IsFiniteSet(T) /\ Cardinality(T) = Cardinality(S)
<1>1. f \in Bijection(S, T)
  BY DEF Bijection, Injection, Surjection, IsInjective
<1>2. ExistsBijection(S, T)
  BY <1>1 DEF ExistsBijection
<1> QED
  BY <1>2, FS_Bijection

LEMMA PowersBounded == Powers \subseteq 0 .. TwoTo[MAXBITS]
<1> DEFINE T == {n \in Nat : n <= 30 => \A i \in 0 .. n : TwoTo[i] <= TwoTo[n]}
<1>1. T \in SUBSET Nat /\ 0 \in T
  BY TwoToFacts
<1>2. ASSUME NEW n \in T PROVE n + 1 \in T
  <2> SUFFICES ASSUME n + 1 <= 30, NEW i \in 0 .. n + 1 PROVE TwoTo[i] <= TwoTo[n + 1]
    OBVIOUS
  <2>1. n \in 0 .. 30 /\ n + 1 \in 1 .. 30 /\ (n + 1) - 1 = n
    OBVIOUS
  <2>2. TwoTo[n] \in Nat /\ TwoTo[n + 1] = 2 * TwoTo[n]
    BY <2>1, TwoToFacts
  <2>3. CASE i = n + 1
    BY <2>2, <2>3
  <2>4. CASE i # n + 1
    <3>1. i \in 0 .. n /\ i \in 0 .. 30
      BY <2>1, <2>4
    <3>2. TwoTo[i] <= TwoTo[n] /\ TwoTo[i] \in Nat
      BY <2>1, <3>1, TwoToFacts
    <3> QED
      BY <2>2, <3>2
  <2> QED
    BY <2>3, <2>4
<1> HIDE DEF T
<1>3. MAXBITS \in T
  BY <1>1, <1>2, SetInduction DEF MAXBITS
<1>4. ASSUME NEW i \in 0 .. MAXBITS
      PROVE  TwoTo[i] <= TwoTo[MAXBITS] /\ TwoTo[i] \in Nat /\ TwoTo[MAXBITS] \in Nat
  <2>1. MAXBITS \in Nat /\ MAXBITS <= 30 /\ MAXBITS \in 0 .. 30 /\ i \in 0 .. 30
    BY DEF MAXBITS
  <2>2. TwoTo[i] <= TwoTo[MAXBITS]
    BY <1>3, <2>1 DEF T
  <2>3. TwoTo[i] \in Nat /\ TwoTo[MAXBITS] \in Nat
    BY <2>1, TwoToFacts
  <2> QED
    BY <2>2, <2>3
<1> QED
  BY <1>4 DEF Powers

LEMMA ArraySizeType == ASSUME NEW keys PROVE ArraySize(keys) \in Nat
<1> DEFINE UpTo(p)   == Cardinality({k \in keys : k <= p})
           Sliced(p) == \E k \in keys : p \div 2 < k /\ k <= p
           fit       == {p \in Powers : Sliced(p) /\ UpTo(p) > p \div 2}
<1>1. ArraySize(keys) = IF fit = {} THEN 0 ELSE Max(fit)
  BY DEF ArraySize
<1>2. fit \subseteq Powers
  OBVIOUS
<1> HIDE DEF fit
<1>3. fit # {} => Max(fit) \in fit
  <2>1. fit \in SUBSET (0 .. TwoTo[MAXBITS]) /\ TwoTo[MAXBITS] \in Nat
    BY <1>2, PowersBounded, TwoToFacts DEF MAXBITS
  <2> QED
    BY <2>1, Greatest
<1> HIDE DEF UpTo, Sliced
<1>4. fit # {} => Max(fit) \in Nat
  BY <1>2, <1>3, PowersAreNumbers
<1> QED
  BY <1>1, <1>4

SlotKeys(t) == {Num(i) : i \in UsedSlots(t)}
NodeKeys(t) == {t.node[i].key : i \in UsedNodes(t)}
AllKeys(t, key) == SlotKeys(t) \union NodeKeys(t) \union {key}
Numbers(na) == {Num(n) : n \in 1 .. na}

LEMMA NodeKeysCount ==
  ASSUME NEW K, NEW V, NEW t \in Tables(K, V), Sound(t)
  PROVE  /\ IsFiniteSet(NodeKeys(t)) /\ Cardinality(UsedNodes(t)) \in Nat
         /\ Cardinality(NodeKeys(t)) = Cardinality(UsedNodes(t)) /\ Cardinality(NodeKeys(t)) <= Size(t)
<1> DEFINE un == UsedNodes(t)
           B == NodeKeys(t)
           f == [i \in un |-> t.node[i].key]
           D == 1 .. Size(t)
<1>1. Size(t) \in Nat /\ DOMAIN t.node = D
  BY TableFacts
<1>2. un \subseteq D /\ un \subseteq Taken(t)
  BY <1>1 DEF UsedNodes, Taken, Sound, UntakenNil
<1>3. IsFiniteSet(D) /\ Cardinality(D) = Size(t)
  BY <1>1, FS_Interval
<1>4. f \in [un -> B] /\ \A y \in B : \E x \in un : f[x] = y
  BY DEF NodeKeys
<1>5. \A a, b \in un : f[a] = f[b] => a = b
  BY <1>2 DEF Sound, Distinct
<1> HIDE DEF un, B, D, f
<1>6. IsFiniteSet(un) /\ Cardinality(un) <= Size(t)
  BY <1>2, <1>3, FS_Subset
<1>7. Cardinality(un) \in Nat
  BY <1>6, FS_CardinalityType
<1>8. IsFiniteSet(B) /\ Cardinality(B) = Cardinality(un)
  BY <1>4, <1>5, <1>6, ImageCount
<1> QED
  BY <1>6, <1>7, <1>8 DEF un, B

LEMMA KeyCounts ==
  ASSUME NEW K, NEW V, AreKeys(K), NEW t \in Tables(K, V), Sound(t), NEW key \in K, IsNew(t, key)
  PROVE  /\ Cardinality(UsedSlots(t)) \in Nat /\ Cardinality(UsedNodes(t)) \in Nat
         /\ IsFiniteSet(AllKeys(t, key))
         /\ Cardinality(AllKeys(t, key)) = Cardinality(UsedSlots(t)) + Cardinality(UsedNodes(t)) + 1
<1> DEFINE us == UsedSlots(t)
           un == UsedNodes(t)
           A == SlotKeys(t)
           B == NodeKeys(t)
<1>1. /\ Len(t.arr) \in Nat /\ DOMAIN t.arr = 1 .. Len(t.arr)
      /\ Size(t) \in Nat /\ DOMAIN t.node = 1 .. Size(t)
  BY TableFacts
<1>2. us \subseteq 1 .. Len(t.arr) /\ un \subseteq 1 .. Size(t)
  BY <1>1 DEF UsedSlots, UsedNodes
<1>3. IsFiniteSet(us) /\ IsFiniteSet(un)
  <2>1. IsFiniteSet(1 .. Len(t.arr)) /\ IsFiniteSet(1 .. Size(t))
    BY <1>1, FS_Interval
  <2> QED
    BY <1>2, <2>1, FS_Subset
<1>4. Cardinality(us) \in Nat /\ Cardinality(un) \in Nat
  BY <1>3, FS_CardinalityType
<1>5. un \subseteq Taken(t)
  BY <1>1 DEF UsedNodes, Taken, Sound, UntakenNil
<1>6. IsFiniteSet(A) /\ Cardinality(A) = Cardinality(us)
  <2> DEFINE f == [i \in us |-> Num(i)]
  <2>1. f \in [us -> A] /\ \A y \in A : \E x \in us : f[x] = y
    BY DEF SlotKeys
  <2>2. \A a, b \in us : f[a] = f[b] => a = b
    BY DEF Num
  <2> HIDE DEF f, us, A
  <2> QED
    BY <1>3, <2>1, <2>2, ImageCount
<1>7. IsFiniteSet(B) /\ Cardinality(B) = Cardinality(un)
  BY NodeKeysCount
<1>8. \A k \in A : InArray(t, k)
  BY <1>1, <1>2 DEF SlotKeys, InArray, Num
<1>9. \A k \in B : ~InArray(t, k) /\ k # key
  BY <1>5 DEF NodeKeys, Sound, KeysApart, IsNew
<1>10. A \intersect B = {} /\ key \notin A \union B
  BY <1>8, <1>9 DEF IsNew
<1> HIDE DEF us, un, A, B
<1>11. IsFiniteSet(A \union B) /\ Cardinality(A \union B) = Cardinality(us) + Cardinality(un)
  <2>1. Cardinality({}) = 0
    BY FS_EmptySet
  <2> QED
    <3>1. A \intersect B = {}
      BY <1>10
    <3>2. /\ IsFiniteSet(A \union B)
          /\ Cardinality(A \union B) = Cardinality(A) + Cardinality(B) - Cardinality(A \intersect B)
      BY <1>6, <1>7, FS_Union
    <3>3. Cardinality(A \intersect B) = 0
      BY <2>1, <3>1, Zenon
    <3> QED
      BY <1>4, <1>6, <1>7, <3>2, <3>3
<1>12. /\ IsFiniteSet((A \union B) \union {key})
       /\ Cardinality((A \union B) \union {key}) = Cardinality(us) + Cardinality(un) + 1
  BY <1>10, <1>11, FS_AddElement
<1>13. AllKeys(t, key) = (A \union B) \union {key}
  BY DEF AllKeys, A, B
<1> QED
  BY <1>4, <1>12, <1>13 DEF us, un

(* The numbers that go into the array part are those counted by IntKeys. *)
LEMMA NumbersCounted ==
  ASSUME NEW K, NEW V, AreKeys(K), NEW t \in Tables(K, V), Sound(t), NEW key \in K, NEW na \in Nat
  PROVE  /\ IsFiniteSet(AllKeys(t, key) \intersect Numbers(na))
         /\ Cardinality(AllKeys(t, key) \intersect Numbers(na))
              = Cardinality({k \in IntKeys(t, key) : k <= na})
<1> DEFINE I == {k \in IntKeys(t, key) : k <= na}
           T == AllKeys(t, key) \intersect Numbers(na)
           f == [n \in I |-> Num(n)]
<1>1. /\ Len(t.arr) \in Nat /\ DOMAIN t.arr = 1 .. Len(t.arr)
      /\ Size(t) \in Nat /\ DOMAIN t.node = 1 .. Size(t)
      /\ \A i \in 1 .. Size(t) : t.node[i].key \in K \union {Nil}
  BY TableFacts
<1>2. \A i \in UsedNodes(t) : t.node[i].key \in K
  BY <1>1 DEF UsedNodes, Sound, UntakenNil
<1>3. \A k \in K : k[1] = "number" => k = Num(k[2]) /\ k[2] \in Int
  BY DEF AreKeys, Num
<1>4. \A n \in IntKeys(t, key) : n \in Nat \ {0} /\ Num(n) \in AllKeys(t, key)
  <2> SUFFICES ASSUME NEW n \in IntKeys(t, key) PROVE n \in Nat \ {0} /\ Num(n) \in AllKeys(t, key)
    OBVIOUS
  <2>1. CASE n \in UsedSlots(t)
    BY <1>1, <2>1 DEF UsedSlots, AllKeys, SlotKeys
  <2>2. CASE n \notin UsedSlots(t)
    <3>1. PICK k \in {key} \union NodeKeys(t) : k[1] = "number" /\ k[2] > 0 /\ n = k[2]
      BY <2>2 DEF IntKeys, NodeKeys
    <3>2. k \in K
      BY <1>2, <3>1 DEF NodeKeys
    <3> QED
      BY <1>3, <3>1, <3>2 DEF AllKeys
  <2> QED
    BY <2>1, <2>2
<1>5. ASSUME NEW n \in 1 .. na, Num(n) \in AllKeys(t, key) PROVE n \in IntKeys(t, key)
  <2>1. Num(n)[1] = "number" /\ Num(n)[2] = n /\ n > 0
    BY DEF Num
  <2>2. CASE Num(n) \in SlotKeys(t)
    <3>1. PICK i \in UsedSlots(t) : Num(n) = Num(i)
      BY <2>2 DEF SlotKeys
    <3>2. n = i
      BY <3>1 DEF Num
    <3> QED
      BY <3>2 DEF IntKeys
  <2>3. CASE Num(n) \in NodeKeys(t) \union {key}
    BY <2>1, <2>3 DEF NodeKeys, IntKeys
  <2> QED
    BY <1>5, <2>2, <2>3 DEF AllKeys
<1>6. I \subseteq 1 .. na
  BY <1>4
<1>7. IsFiniteSet(I)
  <2>1. IsFiniteSet(1 .. na)
    BY FS_Interval
  <2> HIDE DEF I
  <2> QED
    BY <1>6, <2>1, FS_Subset
<1>8. f \in [I -> T]
  BY <1>4, <1>6 DEF Numbers
<1>9. \A a, b \in I : f[a] = f[b] => a = b
  BY DEF Num
<1>10. \A y \in T : \E x \in I : f[x] = y
  <2> SUFFICES ASSUME NEW y \in T PROVE \E x \in I : f[x] = y
    OBVIOUS
  <2>1. PICK n \in 1 .. na : y = Num(n)
    BY DEF Numbers
  <2>2. n \in I
    BY <1>5, <2>1
  <2> QED
    BY <2>1, <2>2
<1> HIDE DEF I, T, f
<1>11. IsFiniteSet(T) /\ Cardinality(T) = Cardinality(I)
  BY <1>7, <1>8, <1>9, <1>10, ImageCount
<1> QED
  BY <1>11 DEF I, T

(* After a rehash there is room for the key. *)
LEMMA RehashKeeps ==
  ASSUME NEW K, NEW V, AreKeys(K), Nil \in V, NEW t \in Tables(K, V), Sound(t),
         NEW key \in K, IsNew(t, key),
         Cardinality(UsedSlots(t)) + Cardinality(UsedNodes(t)) < TwoTo[MAXBITS],
         NEW u, u = Rehash(t, key)
  PROVE  /\ u \in Tables(K, V) /\ Sound(u) /\ \A k \in K : Get(u, k) = Get(t, k)
         /\ Size(u) \in {0} \union Powers /\ u.meta = t.meta
         /\ InArray(u, key) \/ HasRoom(u, key)
<1> DEFINE ints == IntKeys(t, key)
           na == ArraySize(ints)
           inUse == Cardinality(UsedSlots(t)) + Cardinality(UsedNodes(t)) + 1
           nh == inUse - Cardinality({k \in ints : k <= na})
           E == AllKeys(t, key)
           Out == E \ Numbers(na)
           S == Out \ {key}
<1>1. u = Resize(t, na, nh)
  BY DEF Rehash
<1>2. na \in Nat
  BY ArraySizeType
<1> HIDE DEF na
<1>3. IsFiniteSet(E) /\ Cardinality(E) = inUse /\ inUse \in Nat /\ inUse <= TwoTo[MAXBITS]
  BY KeyCounts, TwoToFacts DEF MAXBITS
<1>4. IsFiniteSet(E \intersect Numbers(na)) /\ Cardinality(E \intersect Numbers(na)) = Cardinality({k \in ints : k <= na})
  BY <1>2, NumbersCounted
<1> HIDE DEF E, inUse
<1>5. IsFiniteSet(Out) /\ Cardinality(Out) = nh
  <2> DEFINE X == Numbers(na)
  <2> HIDE DEF X
  <2>1. IsFiniteSet(E \ X) /\ Cardinality(E \ X) = Cardinality(E) - Cardinality(E \intersect X)
    BY <1>3, FS_Difference
  <2> QED
    BY <1>3, <1>4, <2>1 DEF X
<1> HIDE DEF nh
<1>6. nh \in 0 .. TwoTo[MAXBITS]
  <2>0. Out \subseteq E
    OBVIOUS
  <2> HIDE DEF Out
  <2>2. Cardinality(Out) <= Cardinality(E)
    BY <1>3, <2>0, FS_Subset
  <2>3. Cardinality(Out) \in Nat
    BY <1>5, FS_CardinalityType
  <2>1. Cardinality(Out) <= Cardinality(E) /\ Cardinality(Out) \in Nat /\ TwoTo[MAXBITS] \in Nat
    BY <2>2, <2>3, TwoToFacts DEF MAXBITS
  <2> QED
    BY <1>3, <1>5, <2>1
<1>7. IsFiniteSet(S) /\ Cardinality(S) <= nh /\ (key \in Out => Cardinality(S) < nh)
  <2> HIDE DEF Out
  <2> QED
    <3>1. /\ IsFiniteSet(Out \ {key})
          /\ Cardinality(Out \ {key}) = IF key \in Out THEN Cardinality(Out) - 1 ELSE Cardinality(Out)
      BY <1>5, FS_RemoveElement
    <3>2. nh \in Int
      BY <1>6, TwoToFacts DEF MAXBITS
    <3> QED
      BY <1>5, <3>1, <3>2
<1>8. Outside(t, na) \subseteq S
  <2>1. \A i \in UsedSlots(t) : InArray(t, Num(i))
    BY DEF UsedSlots, InArray, Num
  <2>2. \A i \in UsedNodes(t) : t.node[i].key # key
    BY DEF UsedNodes, IsNew, Taken, Sound, UntakenNil, Size
  <2>3. ASSUME NEW i \in UsedSlots(t), i > na PROVE Num(i) \in S
    <3>1. Num(i) \notin Numbers(na)
      BY <1>2, <2>3 DEF Num, Numbers
    <3> QED
      BY <2>1, <3>1 DEF E, AllKeys, SlotKeys, IsNew
  <2>4. ASSUME NEW i \in UsedNodes(t), ~\E n \in 1 .. na : t.node[i].key = Num(n)
        PROVE  t.node[i].key \in S
    <3>1. t.node[i].key \notin Numbers(na)
      BY <2>4 DEF Numbers
    <3> QED
      BY <2>2, <3>1 DEF E, AllKeys, NodeKeys
  <2> HIDE DEF S
  <2> QED
    BY <2>3, <2>4 DEF Outside
<1> HIDE DEF S, Out
<1>9. /\ u \in Tables(K, V) /\ Sound(u) /\ \A k \in K : Get(u, k) = Get(t, k)
      /\ DOMAIN u.arr = 1 .. na /\ Size(u) \in {0} \union Powers /\ Size(u) >= nh
      /\ KeysIn(u) \subseteq S /\ u.meta = t.meta
  BY <1>1, <1>2, <1>6, <1>7, <1>8, ResizeKeeps
<1>10. CASE key \in Numbers(na)
  <2>1. InArray(u, key)
    BY <1>9, <1>10 DEF InArray, Numbers, Num
  <2> QED
    BY <1>9, <2>1
<1>11. CASE key \notin Numbers(na)
  <2>1. key \in Out
    BY <1>11 DEF Out, E, AllKeys
  <2>2. Cardinality(S) < Size(u)
    <3>1. Cardinality(S) \in Nat /\ Size(u) \in Nat /\ nh \in Int
      <4>1. Cardinality(S) \in Nat
        BY <1>7, FS_CardinalityType
      <4>2. Size(u) \in Nat
        BY <1>9, TableFacts
      <4>3. nh \in Int
        BY <1>6, TwoToFacts DEF MAXBITS
      <4> QED
        BY <4>1, <4>2, <4>3
    <3> QED
      BY <1>7, <1>9, <2>1, <3>1
  <2>3. HasRoom(u, key)
    BY <1>7, <1>9, <2>2, RoomFor
  <2> QED
    BY <1>9, <2>3
<1> QED
  BY <1>10, <1>11

-----------------------------------------------------------------------------
(* Tables as the operations leave them. *)
IsTable(K, V, t) == t \in Tables(K, V) /\ Sound(t) /\ Size(t) \in {0} \union Powers

LEMMA Forgets ==
  ASSUME NEW K, NEW V, AreKeys(K), NEW t \in Tables(K, V), Sound(t),
         NEW u, u = [t EXCEPT !.absent = {}]
  PROVE  /\ u \in Tables(K, V) /\ Sound(u) /\ Size(u) = Size(t)
         /\ u.absent = {} /\ u.meta = t.meta
         /\ \A k \in K : Get(u, k) = Get(t, k)
<1>1. /\ u \in Tables(K, V) /\ u.absent = {} /\ u.meta = t.meta
      /\ u.node = t.node /\ u.arr = t.arr /\ u.free = t.free
  BY DEF Tables
<1>2. Alike(t, u) /\ Size(u) = Size(t)
  BY <1>1 DEF Alike, Size
<1>3. UntakenNil(u) /\ \A j \in 1 .. Size(t) : u.node[j].key = t.node[j].key /\ SameLink(t, u, j)
  BY <1>1, <1>2 DEF Sound, UntakenNil, SameLink
<1>4. Sound(u)
  BY <1>1, <1>2, <1>3, SameChains
<1>5. ASSUME NEW k \in K PROVE Get(u, k) = Get(t, k)
  <2>1. NodeOf(u, k) = NodeOf(t, k) /\ InArray(u, k) = InArray(t, k)
    BY <1>1 DEF NodeOf, OnChain, MainPosition, InArray
  <2> QED
    BY <1>1, <2>1 DEF Get, ValueAt
<1> QED
  BY <1>1, <1>2, <1>4, <1>5

LEMMA SetKnownKeeps ==
  ASSUME NEW K, NEW V, AreKeys(K), Nil \in V, NEW t, IsTable(K, V, t),
         NEW key \in K, NEW val \in V,
         Cardinality(UsedSlots(t)) + Cardinality(UsedNodes(t)) < TwoTo[MAXBITS],
         NEW u, u = SetKnown(t, key, val)
  PROVE  /\ IsTable(K, V, u) /\ Updates(K, t, u, key, val)
         /\ u.meta = t.meta /\ u.absent \in {{}, t.absent}
<1>1. t \in Tables(K, V) /\ Sound(t) /\ Size(t) \in {0} \union Powers
  BY DEF IsTable
<1>2. CASE InArray(t, key) \/ NodeOf(t, key) # 0 \/ HasRoom(t, key)
  <2>1. u = Place(t, key, val)
    BY <1>2 DEF SetKnown
  <2>2. Assigned(K, V, t, u, key, val)
    BY <1>1, <1>2, <2>1, PlaceKeeps
  <2> QED
    BY <1>1, <2>2 DEF Assigned, IsTable
<1>3. CASE ~(InArray(t, key) \/ NodeOf(t, key) # 0 \/ HasRoom(t, key))
  <2> DEFINE r == Rehash(t, key)
             p == Place(r, key, val)
  <2>1. u = [p EXCEPT !.absent = {}]
    BY <1>3 DEF SetKnown
  <2>2. IsNew(t, key)
    BY <1>1, <1>3, NotHeld
  <2> HIDE DEF r, p
  <2>3. /\ r \in Tables(K, V) /\ Sound(r) /\ \A k \in K : Get(r, k) = Get(t, k)
        /\ Size(r) \in {0} \union Powers /\ r.meta = t.meta
        /\ InArray(r, key) \/ HasRoom(r, key)
    BY <1>1, <2>2, RehashKeeps DEF r
  <2>4. Assigned(K, V, r, p, key, val)
    BY <2>3, PlaceKeeps DEF p
  <2>5. /\ p \in Tables(K, V) /\ Sound(p) /\ Size(p) = Size(r) /\ p.meta = t.meta
        /\ \A k \in K : Get(p, k) = IF k = key THEN val ELSE Get(t, k)
    BY <2>3, <2>4 DEF Assigned, Updates
  <2>6. /\ u \in Tables(K, V) /\ Sound(u) /\ Size(u) = Size(p)
        /\ u.absent = {} /\ u.meta = p.meta
        /\ \A k \in K : Get(u, k) = Get(p, k)
    BY <2>1, <2>5, Forgets
  <2> QED
    BY <2>3, <2>5, <2>6 DEF IsTable, Updates
<1> QED
  BY <1>2, <1>3

-----------------------------------------------------------------------------
(* luaH_new: a new table is sound and has nothing. *)
THEOREM NewTableIsEmpty ==
  ASSUME NEW K, NEW V, AreKeys(K), Nil \in V, NEW na \in Nat, NEW nh \in 0 .. TwoTo[MAXBITS]
  PROVE  LET t == NewTable(na, nh)
         IN  IsTable(K, V, t) /\ TableSound(t) /\ \A k \in K : Get(t, k) = Nil
<1> DEFINE t == NewTable(na, nh)
           node == NewNodes(nh)
           arr == Repeat(Nil, na)
<1>1. /\ node \in Seq(Nodes(K, V)) /\ Len(node) \in {0} \union Powers /\ Len(node) \in Nat
      /\ \A i \in 1 .. Len(node) : node[i] = FreeNode
  BY NewNodesFacts
<1>2. arr \in Seq(V) /\ Len(arr) = na /\ \A i \in 1 .. na : arr[i] = Nil
  BY RepeatFacts
<1>3. t = [arr |-> arr, node |-> node, free |-> Len(node) + 1, meta |-> 0, absent |-> FastEvents]
  BY DEF NewTable
<1> HIDE DEF node, arr, t
<1>4. Len(node) + 1 \in Nat \ {0}
  BY <1>1
<1>5. t \in Tables(K, V) /\ t.node = node /\ t.arr = arr /\ t.free = Len(node) + 1
  BY <1>1, <1>2, <1>3, <1>4 DEF Tables
<1>6. Size(t) = Len(node) /\ DOMAIN t.arr = 1 .. na
  BY <1>2, <1>5, LenProperties DEF Size
<1>7. Sound(t) /\ \A k \in K : Get(t, k) = IF InArray(t, k) THEN t.arr[k[2]] ELSE Nil
  BY <1>1, <1>5, <1>6, EmptyIsSound
<1>8. \A k \in K : Get(t, k) = Nil
  BY <1>2, <1>5, <1>6, <1>7 DEF InArray
<1>9. IsTable(K, V, t)
  BY <1>1, <1>5, <1>6, <1>7 DEF IsTable
<1>10. TableSound(t)
  BY <1>5, <1>7, SoundIsSound
<1> QED
  BY <1>8, <1>9, <1>10 DEF t

(* luaH_set and the assignment: afterwards the key has the value, and every *)
(* other key the value it had, whatever was moved, chained or rehashed, if  *)
(* the table has fewer entries than the 2^26 at which resize would raise    *)
(* the error "table overflow".                                              *)
THEOREM SetIsUpdate ==
  ASSUME NEW K, NEW V, AreKeys(K), Nil \in V, NEW t, IsTable(K, V, t),
         NEW key \in K, NEW val \in V,
         Cardinality(UsedSlots(t)) + Cardinality(UsedNodes(t)) < TwoTo[MAXBITS]
  PROVE  LET u == Set(t, key, val)
         IN  /\ IsTable(K, V, u) /\ TableSound(u)
             /\ \A k \in K : Get(u, k) = IF k = key THEN val ELSE Get(t, k)
<1> DEFINE s == SetKnown(t, key, val)
           u == Set(t, key, val)
<1>1. IsTable(K, V, s) /\ Updates(K, t, s, key, val)
  BY SetKnownKeeps
<1>2. u = [s EXCEPT !.absent = {}]
  BY DEF Set
<1> HIDE DEF s, u
<1>3. /\ u \in Tables(K, V) /\ Sound(u) /\ Size(u) = Size(s)
      /\ \A k \in K : Get(u, k) = Get(s, k)
  BY <1>1, <1>2, Forgets DEF IsTable
<1>4. IsTable(K, V, u) /\ TableSound(u)
  BY <1>1, <1>3, SoundIsSound DEF IsTable
<1> QED
  BY <1>1, <1>3, <1>4 DEF Updates, u

(* luaH_setnum and luaH_setstr, with a key that is no metamethod: so too,   *)
(* and what was remembered to be absent still is.                           *)
THEOREM SetKnownIsUpdate ==
  ASSUME NEW K, NEW V, AreKeys(K), Nil \in V, NEW t, IsTable(K, V, t),
         NEW key \in K, NEW val \in V,
         Cardinality(UsedSlots(t)) + Cardinality(UsedNodes(t)) < TwoTo[MAXBITS]
  PROVE  LET u == SetKnown(t, key, val)
         IN  /\ IsTable(K, V, u) /\ TableSound(u)
             /\ \A k \in K : Get(u, k) = IF k = key THEN val ELSE Get(t, k)
             /\ AbsentTrue(t) /\ (\A e \in FastEvents : Str(e) \in K \ {key}) => AbsentTrue(u)
<1> DEFINE u == SetKnown(t, key, val)
<1>1. IsTable(K, V, u) /\ Updates(K, t, u, key, val) /\ u.absent \in {{}, t.absent}
  BY SetKnownKeeps
<1> HIDE DEF u
<1>2. TableSound(u)
  BY <1>1, SoundIsSound DEF IsTable
<1>3. ASSUME AbsentTrue(t), \A e \in FastEvents : Str(e) \in K \ {key} PROVE AbsentTrue(u)
  <2>1. t.absent \subseteq FastEvents
    BY DEF IsTable, Tables
  <2> QED
    BY <1>1, <1>3, <2>1 DEF AbsentTrue, Updates
<1> QED
  BY <1>1, <1>2, <1>3 DEF Updates, u

(* luaH_resizearray moves entries between the parts and changes none. *)
THEOREM ResizeArrayKeeps ==
  ASSUME NEW K, NEW V, AreKeys(K), Nil \in V, NEW t, IsTable(K, V, t), NEW na \in Nat
  PROVE  LET u == ResizeArray(t, na)
         IN  /\ IsTable(K, V, u) /\ TableSound(u) /\ na <= Len(u.arr)
             /\ \A k \in K : Get(u, k) = Get(t, k)
             /\ AbsentTrue(t) /\ (\A e \in FastEvents : Str(e) \in K) => AbsentTrue(u)
<1> DEFINE u == ResizeArray(t, na)
<1>1. /\ t \in Tables(K, V) /\ Sound(t) /\ Size(t) \in {0} \union Powers
      /\ Len(t.arr) \in Nat /\ DOMAIN t.arr = 1 .. Len(t.arr) /\ Size(t) \in Nat
  BY TableFacts DEF IsTable
<1>2. CASE na <= Len(t.arr)
  <2>1. u = t
    BY <1>2 DEF ResizeArray
  <2> HIDE DEF u
  <2> QED
    BY <1>1, <1>2, <2>1, SoundIsSound DEF IsTable, u
<1>3. CASE ~(na <= Len(t.arr))
  <2> DEFINE S == NodeKeys(t)
  <2>1. u = Resize(t, na, Size(t))
    BY <1>3 DEF ResizeArray, Size
  <2>2. Size(t) \in 0 .. TwoTo[MAXBITS]
    <3>1. TwoTo[MAXBITS] \in Nat
      BY TwoToFacts DEF MAXBITS
    <3>2. CASE Size(t) \in Powers
      <4> HIDE DEF u, S
      <4>1. Size(t) \in 0 .. TwoTo[MAXBITS]
        BY <3>2, PowersBounded, Zenon
      <4> QED
        BY <4>1
    <3>3. CASE Size(t) = 0
      <4> HIDE DEF u, S
      <4> QED
        BY <3>1, <3>3
    <3> QED
      BY <1>1, <3>2, <3>3
  <2>3. IsFiniteSet(S) /\ Cardinality(S) <= Size(t)
    BY <1>1, NodeKeysCount
  <2>4. Outside(t, na) \subseteq S
    <3>1. \A i \in UsedSlots(t) : ~(i > na)
      BY <1>1, <1>3 DEF UsedSlots
    <3> QED
      BY <3>1 DEF Outside, NodeKeys
  <2> HIDE DEF S, u
  <2>5. /\ u \in Tables(K, V) /\ Sound(u) /\ \A k \in K : Get(u, k) = Get(t, k)
        /\ DOMAIN u.arr = 1 .. na /\ Size(u) \in {0} \union Powers
        /\ u.absent \subseteq t.absent
    BY <1>1, <2>1, <2>2, <2>3, <2>4, ResizeKeeps
  <2>6. Len(u.arr) = na
    BY <2>5, TableFacts
  <2>7. TableSound(u)
    BY <2>5, SoundIsSound
  <2>8. ASSUME AbsentTrue(t), \A e \in FastEvents : Str(e) \in K PROVE AbsentTrue(u)
    <3>1. u.absent \subseteq FastEvents
      BY <2>5 DEF Tables
    <3> QED
      BY <2>5, <2>8, <3>1 DEF AbsentTrue
  <2> QED
    BY <2>5, <2>6, <2>7, <2>8 DEF IsTable, u
<1> QED
  BY <1>2, <1>3

-----------------------------------------------------------------------------
(* Traversal: the places of the entries, in the order of luaH_next. *)

LEMMA Smallest ==
  ASSUME NEW S \in SUBSET Nat, S # {}
  PROVE  Min(S) \in S /\ \A x \in S : Min(S) <= x
<1>1. \E m \in S : \A x \in S : m <= x
  <2> SUFFICES ASSUME \A m \in S : \E x \in S : ~(m <= x) PROVE FALSE
    OBVIOUS
  <2> DEFINE T == {n \in Nat : \A x \in S : n <= x}
  <2>1. T \in SUBSET Nat /\ 0 \in T
    OBVIOUS
  <2>2. ASSUME NEW n \in T PROVE n + 1 \in T
    <3>1. n \notin S
      BY <2>2
    <3>2. \A x \in S : x # n /\ n <= x /\ x \in Nat
      BY <2>2, <3>1
    <3> QED
      BY <3>2
  <2> HIDE DEF T
  <2>3. T = Nat
    BY <2>1, <2>2, SetInduction
  <2>4. PICK m \in S : TRUE
    OBVIOUS
  <2>5. m + 1 \in T
    BY <2>3
  <2> QED
    BY <2>4, <2>5 DEF T
<1> QED
  BY <1>1 DEF Min

Slots(t) == t.arr \o [k \in DOMAIN t.node |-> t.node[k].val]
Places(t) == 1 .. Len(t.arr) + Size(t)
KeyAt(t, p) == IF p <= Len(t.arr) THEN Num(p) ELSE t.node[p - Len(t.arr)].key

(* findindex: keys the table has had are known, whatever their value is. *)
Known(t, k) == InArray(t, k) \/ NodeOf(t, k) # 0
PlaceOf(t, k) ==
  IF k = Nil THEN 0
  ELSE IF InArray(t, k) THEN k[2] ELSE Len(t.arr) + NodeOf(t, k)

LEMMA SlotsFacts ==
  ASSUME NEW K, NEW V, NEW t \in Tables(K, V)
  PROVE  /\ Slots(t) \in Seq(V) /\ Len(Slots(t)) = Len(t.arr) + Size(t)
         /\ Len(t.arr) \in Nat /\ Size(t) \in Nat
         /\ \A p \in Places(t) :
              Slots(t)[p] = IF p <= Len(t.arr) THEN t.arr[p] ELSE t.node[p - Len(t.arr)].val
<1> DEFINE vals == [k \in DOMAIN t.node |-> t.node[k].val]
<1>1. /\ Size(t) \in Nat /\ DOMAIN t.node = 1 .. Size(t) /\ Len(t.arr) \in Nat
      /\ \A i \in 1 .. Size(t) : t.node[i].val \in V
  BY TableFacts
<1>2. t.arr \in Seq(V)
  BY DEF Tables
<1>3. vals \in Seq(V) /\ Len(vals) = Size(t) /\ \A i \in 1 .. Size(t) : vals[i] = t.node[i].val
  <2>1. vals \in [1 .. Size(t) -> V]
    BY <1>1
  <2> QED
    BY <1>1, <2>1, SeqDef
<1>4. Slots(t) = t.arr \o vals
  BY DEF Slots
<1> HIDE DEF vals
<1>5. /\ t.arr \o vals \in Seq(V) /\ Len(t.arr \o vals) = Len(t.arr) + Len(vals)
      /\ \A i \in 1 .. Len(t.arr) + Len(vals) :
           (t.arr \o vals)[i] = IF i <= Len(t.arr) THEN t.arr[i] ELSE vals[i - Len(t.arr)]
  <2> DEFINE arr == t.arr
  <2> HIDE DEF arr
  <2>1. arr \in Seq(V) /\ vals \in Seq(V)
    BY <1>2, <1>3 DEF arr
  <2>2. /\ arr \o vals \in Seq(V) /\ Len(arr \o vals) = Len(arr) + Len(vals)
        /\ \A i \in 1 .. Len(arr) + Len(vals) :
             (arr \o vals)[i] = IF i <= Len(arr) THEN arr[i] ELSE vals[i - Len(arr)]
    BY <2>1, ConcatProperties
  <2> QED
    BY <2>2 DEF arr
<1>6. \A i \in Places(t) : ~(i <= Len(t.arr)) => i - Len(t.arr) \in 1 .. Size(t)
  BY <1>1 DEF Places
<1> QED
  BY <1>1, <1>3, <1>4, <1>5, <1>6 DEF Places

(* A known key has one place. *)
LEMMA KnownPlace ==
  ASSUME NEW K, NEW V, AreKeys(K), NEW t \in Tables(K, V), Sound(t), NEW k \in K, Known(t, k)
  PROVE  /\ PlaceOf(t, k) \in Places(t) /\ KeyAt(t, PlaceOf(t, k)) = k
         /\ Slots(t)[PlaceOf(t, k)] = Get(t, k)
<1> DEFINE a == Len(t.arr)
<1>1. a \in Nat /\ Size(t) \in Nat /\ DOMAIN t.arr = 1 .. a /\ k # Nil
  BY TableFacts DEF AreKeys
<1>2. CASE InArray(t, k)
  <2>1. k[2] \in 1 .. a /\ k = Num(k[2])
    BY <1>1, <1>2 DEF InArray, AreKeys, Num
  <2>2. PlaceOf(t, k) = k[2] /\ Get(t, k) = t.arr[k[2]]
    BY <1>1, <1>2 DEF PlaceOf, Get
  <2>3. k[2] \in Places(t) /\ k[2] <= a
    BY <1>1, <2>1 DEF Places
  <2>4. Slots(t)[k[2]] = t.arr[k[2]]
    BY <2>3, SlotsFacts
  <2> QED
    BY <2>1, <2>2, <2>3, <2>4 DEF KeyAt
<1>3. CASE ~InArray(t, k)
  <2> DEFINE n == NodeOf(t, k)
  <2>1. n \in 1 .. Size(t) /\ t.node[n].key = k /\ n # 0
    BY <1>1, <1>3, NodeOfFacts DEF Known
  <2>2. PlaceOf(t, k) = a + n /\ Get(t, k) = t.node[n].val
    BY <1>1, <1>3, <2>1 DEF PlaceOf, Get, ValueAt
  <2> HIDE DEF n, a
  <2>3. a + n \in 1 .. a + Size(t) /\ ~(a + n <= a) /\ (a + n) - a = n
    BY <1>1, <2>1
  <2> QED
    BY <2>1, <2>2, <2>3, SlotsFacts DEF Places, KeyAt, a
<1> QED
  BY <1>2, <1>3

(* A place that has a value is that of a key. *)
LEMMA PlaceKnown ==
  ASSUME NEW K, NEW V, AreKeys(K), NEW t \in Tables(K, V), Sound(t),
         NEW p \in Places(t), Slots(t)[p] # Nil
  PROVE  KeyAt(t, p) \in K /\ Known(t, KeyAt(t, p)) /\ PlaceOf(t, KeyAt(t, p)) = p
<1> DEFINE a == Len(t.arr)
           k == KeyAt(t, p)
<1>1. /\ a \in Nat /\ Size(t) \in Nat /\ DOMAIN t.arr = 1 .. a /\ p \in 1 .. a + Size(t)
      /\ DOMAIN t.node = 1 .. Size(t)
      /\ Slots(t)[p] = IF p <= a THEN t.arr[p] ELSE t.node[p - a].val
  BY SlotsFacts, TableFacts DEF Places
<1>2. CASE p <= a
  <2>1. k = Num(p) /\ p \in 1 .. a
    BY <1>1, <1>2 DEF KeyAt
  <2>2. k \in K /\ k # Nil
    BY <2>1 DEF AreKeys, Num, Nil
  <2>3. InArray(t, k) /\ k[2] = p
    BY <1>1, <2>1 DEF InArray, Num
  <2> HIDE DEF k
  <2> QED
    BY <2>2, <2>3 DEF Known, PlaceOf, k
<1>3. CASE ~(p <= a)
  <2> DEFINE n == p - a
  <2>1. n \in 1 .. Size(t) /\ a + n = p
    BY <1>1, <1>3
  <2>2. k = t.node[n].key /\ Slots(t)[p] = t.node[n].val
    BY <1>1, <1>3 DEF KeyAt
  <2> HIDE DEF n, k, a
  <2>3. n \in Taken(t)
    BY <1>1, <2>1, <2>2 DEF Taken, Sound, UntakenNil
  <2>4. k \in K /\ k # Nil /\ ~InArray(t, k)
    BY <2>2, <2>3, HomeType DEF Sound, KeysApart, AreKeys
  <2>5. NodeOf(t, k) = n /\ n # 0
    BY <2>1, <2>2, <2>3, <2>4, NodeOfFacts
  <2> QED
    BY <2>1, <2>4, <2>5 DEF Known, PlaceOf, k, a
<1> QED
  BY <1>2, <1>3

(* Next1 finds the first place with a value. *)
LEMMA NextPlace ==
  ASSUME NEW K, NEW V, NEW t \in Tables(K, V), NEW i \in Nat
  PROVE  LET later == {p \in Places(t) : i < p /\ Slots(t)[p] # Nil}
         IN  /\ later = {} => Next1(t, i) = <<Nil>>
             /\ later # {} => \E p \in later : /\ \A q \in later : p <= q
                                               /\ Next1(t, i) = <<KeyAt(t, p), Slots(t)[p]>>
<1> DEFINE later == {p \in Places(t) : i < p /\ Slots(t)[p] # Nil}
           there == {p \in i + 1 .. Len(Slots(t)) : Slots(t)[p] # Nil}
           j == IF there # {} THEN Min(there) ELSE 0
<1>1. Len(Slots(t)) = Len(t.arr) + Size(t) /\ Len(t.arr) + Size(t) \in Nat
  BY SlotsFacts
<1>2. there = later
  BY <1>1 DEF Places
<1>3. Next1(t, i) = IF j = 0 THEN <<Nil>> ELSE <<KeyAt(t, j), Slots(t)[j]>>
  BY DEF Next1, SelectInSubSeq, KeyAt, Slots
<1>4. later \in SUBSET Nat /\ 0 \notin later
  BY <1>1 DEF Places
<1> HIDE DEF later, there
<1>5. later # {} => Min(later) \in later /\ \A q \in later : Min(later) <= q
  BY <1>4, Smallest
<1> QED
  BY <1>2, <1>3, <1>4, <1>5 DEF later

HeldKeys(t, K) == {k \in K : Get(t, k) # Nil}

(* luaH_next, from nil or from a key the table has had: the entry at the   *)
(* next place that has a value, whatever has become of the key's own, so   *)
(* that a traversal meets every entry once.                                *)
THEOREM NextIsNearest ==
  ASSUME NEW K, NEW V, AreKeys(K), NEW t, IsTable(K, V, t),
         NEW key, key = Nil \/ (key \in K /\ Known(t, key))
  PROVE  LET later == {k \in HeldKeys(t, K) : PlaceOf(t, key) < PlaceOf(t, k)}
         IN  /\ \A k, m \in HeldKeys(t, K) : PlaceOf(t, k) = PlaceOf(t, m) => k = m
             /\ later = {} => NextEntry(t, key) = <<Nil>>
             /\ later # {} => \E k \in later :
                  /\ NextEntry(t, key) = <<k, Get(t, k)>>
                  /\ \A m \in later : PlaceOf(t, k) <= PlaceOf(t, m)
<1> DEFINE i == PlaceOf(t, key)
           places == {p \in Places(t) : i < p /\ Slots(t)[p] # Nil}
           later == {k \in HeldKeys(t, K) : i < PlaceOf(t, k)}
<1>1. t \in Tables(K, V) /\ Sound(t)
  BY DEF IsTable
<1>2. \A k \in HeldKeys(t, K) : k \in K /\ Get(t, k) # Nil /\ Known(t, k)
  BY DEF HeldKeys, Known, Get, ValueAt
<1>3. \A k \in HeldKeys(t, K) : /\ PlaceOf(t, k) \in Places(t) /\ KeyAt(t, PlaceOf(t, k)) = k
                                /\ Slots(t)[PlaceOf(t, k)] = Get(t, k)
  BY <1>1, <1>2, KnownPlace
<1>4. i \in Nat
  <2>1. CASE key = Nil
    BY <2>1 DEF PlaceOf
  <2>2. CASE key \in K /\ Known(t, key)
    BY <1>1, <2>2, KnownPlace, SlotsFacts DEF Places
  <2> QED
    BY <2>1, <2>2
<1>5. NextEntry(t, key) = Next1(t, i)
  BY DEF NextEntry, PlaceOf, Known
<1>6. \A p \in places : /\ KeyAt(t, p) \in HeldKeys(t, K) /\ PlaceOf(t, KeyAt(t, p)) = p
                        /\ Get(t, KeyAt(t, p)) = Slots(t)[p]
  <2> SUFFICES ASSUME NEW p \in places
               PROVE  /\ KeyAt(t, p) \in HeldKeys(t, K) /\ PlaceOf(t, KeyAt(t, p)) = p
                      /\ Get(t, KeyAt(t, p)) = Slots(t)[p]
    OBVIOUS
  <2>1. KeyAt(t, p) \in K /\ Known(t, KeyAt(t, p)) /\ PlaceOf(t, KeyAt(t, p)) = p
    BY <1>1, PlaceKnown
  <2>2. Get(t, KeyAt(t, p)) = Slots(t)[p]
    BY <1>1, <2>1, KnownPlace
  <2> QED
    BY <2>1, <2>2 DEF HeldKeys
<1>7. /\ places = {} => Next1(t, i) = <<Nil>>
      /\ places # {} => \E p \in places : /\ \A q \in places : p <= q
                                          /\ Next1(t, i) = <<KeyAt(t, p), Slots(t)[p]>>
  BY <1>1, <1>4, NextPlace
<1>8. \A k \in later : PlaceOf(t, k) \in places
  BY <1>2, <1>3
<1>9. \A p \in places : KeyAt(t, p) \in later
  BY <1>6
<1> HIDE DEF i, places, later
<1>10. \A k, m \in HeldKeys(t, K) : PlaceOf(t, k) = PlaceOf(t, m) => k = m
  BY <1>3
<1>11. ASSUME later # {}
       PROVE  \E k \in later : /\ NextEntry(t, key) = <<k, Get(t, k)>>
                               /\ \A m \in later : PlaceOf(t, k) <= PlaceOf(t, m)
  <2>1. PICK p \in places : (\A q \in places : p <= q) /\ Next1(t, i) = <<KeyAt(t, p), Slots(t)[p]>>
    BY <1>7, <1>8, <1>11
  <2>2. /\ KeyAt(t, p) \in later /\ PlaceOf(t, KeyAt(t, p)) = p
        /\ Get(t, KeyAt(t, p)) = Slots(t)[p]
    BY <1>6, <1>9
  <2> QED
    BY <1>5, <1>8, <2>1, <2>2
<1> QED
  BY <1>5, <1>7, <1>9, <1>10, <1>11 DEF later, i

(* What a traversal may do: the assignment to a key that the table has had, *)
(* nil included, leaves every key its place.                                *)
THEOREM AssignKeepsPlaces ==
  ASSUME NEW K, NEW V, AreKeys(K), Nil \in V, NEW t, IsTable(K, V, t),
         NEW key \in K, Known(t, key), NEW val \in V, NEW k \in K
  PROVE  LET u == Set(t, key, val)
         IN  PlaceOf(u, k) = PlaceOf(t, k) /\ (Known(u, k) <=> Known(t, k))
<1> DEFINE s == SetKnown(t, key, val)
           u == Set(t, key, val)
<1>1. t \in Tables(K, V) /\ Sound(t)
  BY DEF IsTable
<1>2. s = Place(t, key, val)
  BY DEF SetKnown, Known
<1>3. Assigned(K, V, t, s, key, val)
  <2>1. InArray(t, key) => Assigned(K, V, t, s, key, val)
    BY <1>1, <1>2, StoresInArray
  <2>2. ~InArray(t, key) => Assigned(K, V, t, s, key, val)
    BY <1>1, <1>2, StoresInNode DEF Known
  <2> QED
    BY <2>1, <2>2
<1>4. s.node = IF InArray(t, key) THEN t.node ELSE Store(t.node, NodeOf(t, key), val)
  BY <1>2 DEF Place, Known
<1>5. \A j \in 1 .. Size(t) : s.node[j].key = t.node[j].key
  BY <1>1, <1>4, TableFacts DEF Store
<1>6. u = [s EXCEPT !.absent = {}]
  BY DEF Set
<1> HIDE DEF s, u
<1>7. /\ s \in Tables(K, V) /\ Sound(s) /\ DOMAIN s.arr = DOMAIN t.arr /\ Size(s) = Size(t)
      /\ k # Nil
  BY <1>3 DEF Assigned, AreKeys
<1>8. Taken(s) = Taken(t)
  BY <1>1, <1>5, <1>7, TableFacts DEF Taken
<1>9. NodeOf(s, k) = NodeOf(t, k)
  <2>1. NodeOf(s, k) # 0 => NodeOf(s, k) = NodeOf(t, k)
    BY <1>1, <1>5, <1>7, <1>8, NodeOfFacts, TableFacts DEF Taken
  <2>2. NodeOf(t, k) # 0 => NodeOf(s, k) = NodeOf(t, k)
    BY <1>1, <1>5, <1>7, <1>8, NodeOfFacts, TableFacts DEF Taken
  <2> QED
    BY <2>1, <2>2
<1>10. u.arr = s.arr /\ u.node = s.node
  BY <1>6, <1>7 DEF Tables
<1>11. NodeOf(u, k) = NodeOf(s, k) /\ InArray(u, k) = InArray(t, k) /\ Len(u.arr) = Len(t.arr)
  <2>1. NodeOf(u, k) = NodeOf(s, k)
    BY <1>10 DEF NodeOf, OnChain, MainPosition
  <2>2. InArray(u, k) = InArray(t, k)
    BY <1>7, <1>10 DEF InArray
  <2>3. Len(s.arr) = Len(t.arr)
    BY <1>1, <1>7, TableFacts
  <2> QED
    BY <1>10, <2>1, <2>2, <2>3
<1> QED
  BY <1>9, <1>11 DEF PlaceOf, Known, u

-----------------------------------------------------------------------------
(* Length. *)

(* n is a border: the last number before one that has no value. *)
IsBorder(t, n) == n \in Nat /\ (n = 0 \/ Has(t, n)) /\ ~Has(t, n + 1)

LEMMA Halves ==
  ASSUME NEW a \in Nat, NEW b \in Nat, ~(b - a <= 1)
  PROVE  (a + b) \div 2 \in Nat /\ a < (a + b) \div 2 /\ (a + b) \div 2 < b
OBVIOUS

LEMMA BorderFound ==
  ASSUME NEW t, NEW i \in Nat, NEW j \in Nat, i < j, i = 0 \/ Has(t, i), ~Has(t, j)
  PROVE  IsBorder(t, Border(t, i, j))
<1> DEFINE B == i .. j
           D == B \X B
           mid(p) == (p[1] + p[2]) \div 2
           ends == {p \in D : p[2] - p[1] <= 1}
           next == [p \in D |-> IF p \in ends THEN p
                                ELSE IF Has(t, mid(p)) THEN <<mid(p), p[2]>> ELSE <<p[1], mid(p)>>]
           out == [p \in D |-> p[1]]
           rank == [p \in D |-> IF p \in ends THEN 0 ELSE p[2] - p[1]]
<1>1. ASSUME NEW p \in D PROVE p[1] \in B /\ p[2] \in B /\ p = <<p[1], p[2]>> /\ p[1] \in Nat /\ p[2] \in Nat
  OBVIOUS
<1>2. ASSUME NEW p \in D \ ends
      PROVE  /\ ~(p[2] - p[1] <= 1) /\ mid(p) \in B /\ p[1] < mid(p) /\ mid(p) < p[2]
             /\ <<mid(p), p[2]>> \in D /\ <<p[1], mid(p)>> \in D
  <2>1. p[1] \in B /\ p[2] \in B /\ p[1] \in Nat /\ p[2] \in Nat /\ ~(p[2] - p[1] <= 1)
    BY <1>1
  <2> DEFINE m == mid(p)
  <2>2. m \in Nat /\ p[1] < m /\ m < p[2]
    BY <2>1, Halves
  <2> HIDE DEF m
  <2>3. m \in B
    BY <2>1, <2>2
  <2> HIDE DEF B
  <2>4. <<m, p[2]>> \in D /\ <<p[1], m>> \in D
    BY <2>1, <2>3
  <2> QED
    BY <2>1, <2>2, <2>3, <2>4 DEF m
<1> HIDE DEF mid
<1>3. next \in [D -> D] /\ out \in [D -> B] /\ ends \in SUBSET D
  BY <1>1, <1>2
<1>4. rank \in [D -> 0 .. j]
  <2>1. ASSUME NEW p \in D \ ends PROVE p[2] - p[1] \in 0 .. j
    BY <1>1, <1>2
  <2> QED
    BY <2>1
<1>5. ASSUME NEW p \in D \ ends
      PROVE  /\ next[p] = IF Has(t, mid(p)) THEN <<mid(p), p[2]>> ELSE <<p[1], mid(p)>>
             /\ next[p] \in D /\ next[p][2] - next[p][1] < p[2] - p[1]
  <2>1. next[p] = IF Has(t, mid(p)) THEN <<mid(p), p[2]>> ELSE <<p[1], mid(p)>>
    OBVIOUS
  <2>2. p[1] \in Nat /\ p[2] \in Nat /\ mid(p) \in Nat /\ p[1] < mid(p) /\ mid(p) < p[2]
    BY <1>1, <1>2
  <2> QED
    BY <1>2, <2>1, <2>2
<1>6. Falls(D, ends, next, rank)
  <2>1. ASSUME NEW p \in D \ ends PROVE rank[next[p]] < rank[p]
    <3>1. next[p] \in D /\ next[p][2] - next[p][1] < p[2] - p[1] /\ rank[p] = p[2] - p[1]
      BY <1>5
    <3>2. rank[next[p]] = IF next[p] \in ends THEN 0 ELSE next[p][2] - next[p][1]
      BY <3>1
    <3>3. p[1] \in Nat /\ p[2] \in Nat /\ ~(p[2] - p[1] <= 1)
      BY <1>1, <1>2
    <3> HIDE DEF rank, next, ends
    <3> QED
      BY <3>1, <3>2, <3>3
  <2> QED
    BY <2>1 DEF Falls
<1> HIDE DEF next, out, ends, rank, D
<1>a. Walkable(D, ends, next)
  BY <1>3, <1>4, <1>6 DEF Walkable
<1>7. \E f \in [D -> B] : Walks(f, D, ends, next, out)
  BY <1>3, <1>a, WalkDefined
<1> DEFINE Same(f) == f = [p \in (i .. j) \X (i .. j) |->
                            IF p[2] - p[1] <= 1 THEN p[1]
                            ELSE IF Has(t, (p[1] + p[2]) \div 2) THEN f[<<(p[1] + p[2]) \div 2, p[2]>>]
                            ELSE f[<<p[1], (p[1] + p[2]) \div 2>>]]
           border == CHOOSE f : Same(f)
<1>8. ASSUME NEW p \in D
      PROVE  /\ p \in ends <=> p[2] - p[1] <= 1
             /\ p \in ends => out[p] = p[1]
             /\ p \notin ends => next[p] = IF Has(t, mid(p)) THEN <<mid(p), p[2]>> ELSE <<p[1], mid(p)>>
  BY <1>5 DEF ends, out
<1>9. ASSUME NEW f \in [D -> B], Walks(f, D, ends, next, out) PROVE Same(f)
  <2>1. ASSUME NEW p \in D
        PROVE  f[p] = IF p[2] - p[1] <= 1 THEN p[1]
                      ELSE IF Has(t, (p[1] + p[2]) \div 2) THEN f[<<(p[1] + p[2]) \div 2, p[2]>>]
                      ELSE f[<<p[1], (p[1] + p[2]) \div 2>>]
    BY <1>8, <1>9 DEF Walks, mid
  <2> QED
    BY <2>1 DEF D
<1>10. Same(border)
  BY <1>7, <1>9
<1>11. Walks(border, D, ends, next, out)
  <2>1. ASSUME NEW f, Same(f), NEW p \in D
        PROVE  f[p] = IF p \in ends THEN out[p] ELSE f[next[p]]
    <3>1. f[p] = IF p[2] - p[1] <= 1 THEN p[1]
                 ELSE IF Has(t, (p[1] + p[2]) \div 2) THEN f[<<(p[1] + p[2]) \div 2, p[2]>>]
                 ELSE f[<<p[1], (p[1] + p[2]) \div 2>>]
      BY <2>1 DEF D
    <3> HIDE DEF Same
    <3> QED
      BY <1>8, <3>1 DEF mid
  <2> HIDE DEF border, Same
  <2> QED
    BY <1>10, <2>1 DEF Walks
<1>12. Border(t, i, j) = border[<<i, j>>]
  BY DEF Border
<1> HIDE DEF border, Same
<1> DEFINE S == {p \in D : p[1] < p[2] /\ (p[1] = 0 \/ Has(t, p[1])) /\ ~Has(t, p[2])}
<1>13. S \in SUBSET D /\ <<i, j>> \in S
  BY DEF D
<1>14. Stays(S, ends, next)
  <2>1. ASSUME NEW p \in S \ ends PROVE next[p] \in S
    <3>1. p \in D \ ends
      OBVIOUS
    <3>2. next[p] = (IF Has(t, mid(p)) THEN <<mid(p), p[2]>> ELSE <<p[1], mid(p)>>) /\ next[p] \in D
      BY <1>5, <3>1
    <3>3. p[1] < mid(p) /\ mid(p) < p[2]
      BY <1>2, <3>1
    <3> QED
      BY <3>2, <3>3
  <2> QED
    BY <2>1 DEF Stays
<1>15. \E p \in S \intersect ends : border[<<i, j>>] = out[p]
  <2>1. \A x \in S : \E p \in S \intersect ends : border[x] = out[p]
    <3> HIDE DEF S
    <3> QED
      BY <1>11, <1>13, <1>14, <1>a, WalkEnds
  <2> QED
    BY <1>13, <2>1
<1>16. PICK p \in S \intersect ends : border[<<i, j>>] = out[p]
  BY <1>15
<1>17. p[1] \in Nat /\ p[2] \in Nat /\ p[2] - p[1] <= 1 /\ p[1] < p[2] /\ out[p] = p[1]
  BY <1>1, <1>8
<1>18. p[2] = p[1] + 1
  BY <1>17
<1> QED
  BY <1>12, <1>16, <1>17, <1>18 DEF IsBorder

LEMMA HalfQuotient ==
  ASSUME NEW M \in Nat, NEW p \in Nat \ {0}, NEW x \in Nat, x <= M \div (2 * p)
  PROVE  x <= M \div p
OBVIOUS

(* Some number has no value: each that has one has a place of its own. *)
LEMMA SomeNumberFree ==
  ASSUME NEW K, NEW V, AreKeys(K), NEW t, IsTable(K, V, t)
  PROVE  \E n \in Nat : ~Has(t, n + 1) /\ \A m \in 1 .. n : Has(t, m)
<1>1. t \in Tables(K, V) /\ Sound(t)
  BY DEF IsTable
<1> DEFINE L == Len(t.arr) + Size(t)
           S == 1 .. L + 1
           T == 1 .. L
           place == [n \in S |-> PlaceOf(t, Num(n))]
<1>2. L \in Nat /\ T = Places(t)
  BY <1>1, TableFacts DEF Places
<1>3. \E n \in S : ~Has(t, n)
  <2> SUFFICES ASSUME \A n \in S : Has(t, n) PROVE FALSE
    OBVIOUS
  <2>1. ASSUME NEW n \in S PROVE place[n] \in T /\ KeyAt(t, place[n]) = Num(n)
    <3>1. Num(n) \in K /\ Get(t, Num(n)) # Nil /\ n \in S
      BY <1>2 DEF AreKeys, Has
    <3>2. Known(t, Num(n))
      BY <3>1 DEF Known, Get, ValueAt
    <3>3. PlaceOf(t, Num(n)) \in T /\ KeyAt(t, PlaceOf(t, Num(n))) = Num(n)
      BY <1>1, <1>2, <3>1, <3>2, KnownPlace
    <3> QED
      BY <3>3
  <2>2. IsFiniteSet(S) /\ IsFiniteSet(T) /\ Cardinality(T) = L /\ Cardinality(S) = L + 1
    <3> HIDE DEF L
    <3>1. /\ 1 \in Int /\ L \in Int /\ L + 1 \in Int
          /\ (IF 1 > L THEN 0 ELSE L - 1 + 1) = L
          /\ (IF 1 > L + 1 THEN 0 ELSE (L + 1) - 1 + 1) = L + 1
      BY <1>2
    <3>2. IsFiniteSet(1 .. L) /\ Cardinality(1 .. L) = L
      BY <3>1, FS_Interval
    <3>3. IsFiniteSet(1 .. L + 1) /\ Cardinality(1 .. L + 1) = L + 1
      BY <3>1, FS_Interval
    <3> QED
      BY <3>2, <3>3
  <2>3. place \in [S -> T] /\ Cardinality(T) < Cardinality(S)
    <3>1. place \in [S -> T]
      BY <2>1
    <3> HIDE DEF L, S, T, place
    <3> QED
      BY <1>2, <2>2, <3>1
  <2> HIDE DEF S, T, place
  <2>4. \E x, y \in S : x # y /\ place[x] = place[y]
    BY <2>2, <2>3, FS_PigeonHole
  <2>5. \A x, y \in S : place[x] = place[y] => Num(x) = Num(y)
    BY <2>1
  <2> QED
    BY <2>4, <2>5 DEF Num
<1> DEFINE U == {n \in Nat \ {0} : ~Has(t, n)}
<1>4. U \in SUBSET Nat /\ U # {} /\ 0 \notin U
  BY <1>2, <1>3
<1>5. Min(U) \in U /\ \A x \in U : Min(U) <= x
  BY <1>4, Smallest
<1> DEFINE top == Min(U) - 1
<1>6. top \in Nat /\ top + 1 = Min(U)
  BY <1>4, <1>5
<1>7. ~Has(t, top + 1)
  BY <1>5, <1>6
<1>8. ASSUME NEW m \in 1 .. top PROVE Has(t, m)
  <2>1. m \in Nat \ {0} /\ ~(Min(U) <= m)
    BY <1>6
  <2> HIDE DEF top
  <2> QED
    BY <1>5, <2>1
<1> HIDE DEF top
<1> QED
  BY <1>6, <1>7, <1>8

LEMMA UnboundFound ==
  ASSUME NEW K, NEW V, AreKeys(K), NEW t, IsTable(K, V, t), NEW j \in Nat, j = 0 \/ Has(t, j)
  PROVE  IsBorder(t, Unbound(t, j))
<1> DEFINE nils == {i \in 0 .. 30 : j + 1 <= MAX_INT \div TwoTo[i] /\ ~Has(t, (j + 1) * TwoTo[i])}
           i == Min(nils)
           from == IF i = 0 THEN j ELSE (j + 1) * TwoTo[i - 1]
           to == (j + 1) * TwoTo[i]
<1>1. CASE nils = {}
  <2> DEFINE last == CHOOSE n \in Nat : ~Has(t, n + 1) /\ \A m \in 1 .. n : Has(t, m)
  <2>1. last \in Nat /\ ~Has(t, last + 1) /\ \A m \in 1 .. last : Has(t, m)
    BY SomeNumberFree
  <2>2. Unbound(t, j) = last
    BY <1>1 DEF Unbound
  <2> HIDE DEF last, nils
  <2>3. last # 0 => last \in 1 .. last
    BY <2>1
  <2> QED
    BY <2>1, <2>2, <2>3 DEF IsBorder
<1>2. CASE nils # {}
  <2>1. Unbound(t, j) = Border(t, from, to)
    BY <1>2 DEF Unbound
  <2>2. nils \in SUBSET Nat
    OBVIOUS
  <2>3. i \in nils /\ \A x \in nils : i <= x
    <3> HIDE DEF nils
    <3> QED
      BY <1>2, <2>2, Smallest
  <2>4. i \in 0 .. 30 /\ j + 1 <= MAX_INT \div TwoTo[i] /\ ~Has(t, to)
    BY <2>3
  <2>5. CASE i = 0
    <3>1. TwoTo[0] = 1
      BY TwoToFacts
    <3>2. from = j /\ to = j + 1
      BY <2>5, <3>1
    <3> HIDE DEF from, to, i
    <3> QED
      BY <2>1, <2>4, <3>2, BorderFound
  <2>6. CASE i # 0
    <3> DEFINE p == TwoTo[i - 1]
    <3> HIDE DEF i
    <3>1. i - 1 \in 0 .. 30 /\ i \in 1 .. 30
      BY <2>4, <2>6
    <3>2. p \in Nat \ {0} /\ TwoTo[i] = 2 * p
      BY <3>1, TwoToFacts
    <3> HIDE DEF p, nils
    <3>3. j + 1 <= MAX_INT \div p
      <4>1. MAX_INT \in Nat /\ j + 1 \in Nat
        BY DEF MAX_INT
      <4> HIDE DEF from, to
      <4> QED
        BY <2>4, <3>2, <4>1, HalfQuotient
    <3>4. i - 1 \notin nils
      BY <2>3, <3>1
    <3>5. Has(t, (j + 1) * p)
      BY <3>1, <3>3, <3>4 DEF nils, p
    <3>6. from = (j + 1) * p /\ to = (j + 1) * (2 * p)
      BY <2>6, <3>2 DEF p
    <3>7. (j + 1) * p \in Nat \ {0} /\ (j + 1) * (2 * p) = (j + 1) * p + (j + 1) * p
      BY <3>2
    <3> HIDE DEF from, to
    <3>8. from \in Nat /\ to \in Nat /\ from < to
      BY <3>6, <3>7
    <3> QED
      BY <2>1, <2>4, <3>5, <3>6, <3>8, BorderFound
  <2> QED
    BY <2>5, <2>6
<1> QED
  BY <1>1, <1>2

(* luaH_getn: the length of a table is a border, whichever part it ends in. *)
THEOREM LengthIsBorder ==
  ASSUME NEW K, NEW V, AreKeys(K), NEW t, IsTable(K, V, t)
  PROVE  IsBorder(t, GetN(t))
<1> DEFINE j == Len(t.arr)
<1>1. t \in Tables(K, V) /\ j \in Nat /\ DOMAIN t.arr = 1 .. j /\ Size(t) \in Nat
  BY TableFacts DEF IsTable
<1>2. ASSUME NEW n \in Nat \ {0}, n <= j PROVE Has(t, n) <=> t.arr[n] # Nil
  BY <1>1, <1>2 DEF Has, Get, InArray, Num
<1>3. CASE j > 0 /\ t.arr[j] = Nil
  <2>1. GetN(t) = Border(t, 0, j)
    BY <1>3 DEF GetN
  <2>2. ~Has(t, j)
    BY <1>1, <1>2, <1>3
  <2> HIDE DEF j
  <2> QED
    BY <1>1, <1>3, <2>1, <2>2, BorderFound
<1>4. CASE ~(j > 0 /\ t.arr[j] = Nil)
  <2>1. j = 0 \/ Has(t, j)
    BY <1>1, <1>2, <1>4
  <2>2. CASE t.node = <<>>
    <3>1. GetN(t) = j
      BY <1>4, <2>2 DEF GetN
    <3>2. ~InArray(t, Num(j + 1))
      BY <1>1 DEF InArray, Num
    <3>3. ~Has(t, j + 1)
      BY <2>2, <3>2 DEF Has, Get, NodeOf, ValueAt
    <3> HIDE DEF j
    <3> QED
      BY <1>1, <2>1, <3>1, <3>3 DEF IsBorder
  <2>3. CASE t.node # <<>>
    <3>1. GetN(t) = Unbound(t, j)
      BY <1>4, <2>3 DEF GetN
    <3> HIDE DEF j
    <3> QED
      BY <1>1, <2>1, <3>1, UnboundFound
  <2> QED
    BY <2>2, <2>3
<1> QED
  BY <1>3, <1>4
=============================================================================
