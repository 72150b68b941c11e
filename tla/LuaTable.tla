------------------------------ MODULE LuaTable ------------------------------
(***************************************************************************)
(* Tables (ltable.c): an array part for the keys 1, 2, ... and a hash part *)
(* whose nodes are chained where their keys collide.  The operators map a  *)
(* table t to the next:                                                    *)
(*   t.arr   the values of the array part                                  *)
(*   t.node  the hash part: <<>> (dummynode) or a power of two of nodes    *)
(*   t.free  lastfree: from this node on no position is free               *)
(*   t.meta  the table that is its metatable, 0 for none                   *)
(*   t.absent  flags: the events it was asked for in vain, as a metatable  *)
(* No collector runs here, so that no key is dead.                         *)
(***************************************************************************)
EXTENDS LuaValue

CONSTANT HashOf(_)   \* the hash of a key: the bytes of a number, the characters
                     \* of a string, the address of anything else

Node(key, val, next) == [key |-> key, val |-> val, next |-> next]
FreeNode   == Node(Nil, Nil, 0)
Fresh(n)   == Repeat(FreeNode, n)

FastEvents == {"__index", "__newindex", "__eq"}   \* the events of fasttm

-----------------------------------------------------------------------------
(* Searching. *)

(* mainposition: strings and booleans modulo the size, the rest modulo an odd number. *)
MainPosition(t, key) ==
    LET size == Len(t.node)
        odd  == IF size = 1 THEN 1 ELSE size - 1
    IN  (HashOf(key) % (IF key[1] \in {"string", "boolean"} THEN size ELSE odd)) + 1

InArray(t, key) == key[1] = "number" /\ key[2] \in DOMAIN t.arr

(* The first node on the chain from node i with which the search stops, or 0. *)
OnChain(t, i, stops) ==
    LET first[j \in 0 .. Len(t.node)] ==
          IF j = 0 \/ j \in stops THEN j ELSE first[t.node[j].next]
    IN  first[i]

NodeOf(t, key) ==
    IF t.node = <<>> \/ key = Nil THEN 0
    ELSE OnChain(t, MainPosition(t, key), {i \in DOMAIN t.node : t.node[i].key = key})

ValueAt(t, i) == IF i = 0 THEN Nil ELSE t.node[i].val

(* luaH_get *)
Get(t, key) == IF InArray(t, key) THEN t.arr[key[2]] ELSE ValueAt(t, NodeOf(t, key))

-----------------------------------------------------------------------------
(* New keys. *)

(* getfreepos looks downwards from lastfree, and never again above. *)
FreePos(t) ==
    LET unused == {i \in 1 .. t.free - 1 : t.node[i].key = Nil}
    IN  IF unused = {} THEN 0 ELSE Max(unused)

(* The node before mp on the chain that starts at node i. *)
Before(t, i, mp) == OnChain(t, i, {j \in DOMAIN t.node : t.node[j].next = mp})

Link(node, i, next) == [node EXCEPT ![i] = [@ EXCEPT !.next = next]]
Store(node, i, val) == [node EXCEPT ![i] = [@ EXCEPT !.val = val]]

(* mutant: the chain of the node that moves still leads to its old place. *)
MoveAside_Unlinked(t, key, val, mp, n) ==
    [t EXCEPT !.free = n, !.node = [@ EXCEPT ![n] = t.node[mp], ![mp] = Node(key, val, 0)]]

(* The node at mp is in the way but not at home: it moves to n. *)
MoveAside(t, key, val, mp, n) ==
    [t EXCEPT !.free = n,
              !.node = [Link(@, Before(t, MainPosition(t, @[mp].key), mp), n)
                          EXCEPT ![n] = t.node[mp], ![mp] = Node(key, val, 0)]]

(* The node at mp is at home: the new key goes to n and after it. *)
ChainAfter(t, key, val, mp, n) ==
    [t EXCEPT !.free = n,
              !.node = [Link(@, mp, n) EXCEPT ![n] = Node(key, val, t.node[mp].next)]]

(* newkey, where a position is free. *)
Insert(t, key, val) ==
    LET mp == MainPosition(t, key)
        n  == FreePos(t)
    IN  IF t.node[mp].val = Nil
        THEN [t EXCEPT !.node = [@ EXCEPT ![mp] = Node(key, val, t.node[mp].next)]]
        ELSE IF MainPosition(t, t.node[mp].key) = mp THEN ChainAfter(t, key, val, mp, n)
        ELSE MoveAside(t, key, val, mp, n)

HasRoom(t, key) ==
    t.node # <<>> /\ (t.node[MainPosition(t, key)].val = Nil \/ FreePos(t) # 0)

(* What luaH_set does where no rehash is needed. *)
Place(t, key, val) ==
    IF InArray(t, key) THEN [t EXCEPT !.arr = [@ EXCEPT ![key[2]] = val]]
    ELSE IF NodeOf(t, key) # 0
    THEN [t EXCEPT !.node = Store(@, NodeOf(t, key), val)]
    ELSE Insert(t, key, val)

-----------------------------------------------------------------------------
(* Rehash. *)

MAXBITS == 26
TwoTo[i \in 0 .. 30] == IF i = 0 THEN 1 ELSE 2 * TwoTo[i - 1]
Powers == {TwoTo[i] : i \in 0 .. MAXBITS}
PowerAbove(n) == CHOOSE p \in Powers : p >= n /\ p < 2 * n

UsedSlots(t) == {i \in DOMAIN t.arr : t.arr[i] # Nil}
UsedNodes(t) == {i \in DOMAIN t.node : t.node[i].val # Nil}

(* setnodevector and luaH_new *)
NewNodes(n) == IF n = 0 THEN <<>> ELSE Fresh(PowerAbove(n))
NewTable(na, nh) ==
    [arr |-> Repeat(Nil, na), node |-> NewNodes(nh), free |-> Len(NewNodes(nh)) + 1,
     meta |-> 0, absent |-> FastEvents]

(* resize: what the array part loses first, then the nodes from the last on. *)
Resized(t, na, nh) ==
    [t EXCEPT !.arr = Adjust(@, na), !.node = NewNodes(nh), !.free = Len(NewNodes(nh)) + 1,
              !.absent = IF UsedNodes(t) = {} THEN @ ELSE {}]

ToInsert(t, na) ==
    LET lost == SubSeq(t.arr, na + 1, Len(t.arr))
    IN  [i \in DOMAIN lost |-> Node(Num(na + i), lost[i], 0)] \o Reverse(t.node)

Refill(t, items) ==
    LET filled[i \in 0 .. Len(items)] ==
          IF i = 0 THEN t
          ELSE IF items[i].val = Nil THEN filled[i - 1]
          ELSE Place(filled[i - 1], items[i].key, items[i].val)
    IN  filled[Len(items)]

Resize(t, na, nh) == Refill(Resized(t, na, nh), ToInsert(t, na))

(* computesizes: the largest power of two more than half of whose keys are *)
(* in use; numusearray and numusehash count the keys.                      *)
ArraySize(keys) ==
    LET UpTo(p)   == Cardinality({k \in keys : k <= p})
        Sliced(p) == \E k \in keys : p \div 2 < k /\ k <= p
        fit       == {p \in Powers : Sliced(p) /\ UpTo(p) > p \div 2}
    IN  IF fit = {} THEN 0 ELSE Max(fit)

IntKeys(t, key) ==
    UsedSlots(t)
      \cup {k[2] : k \in {m \in {key} \cup {t.node[i].key : i \in UsedNodes(t)} :
                            m[1] = "number" /\ m[2] > 0}}

Rehash(t, key) ==
    LET ints  == IntKeys(t, key)
        na    == ArraySize(ints)
        inUse == Cardinality(UsedSlots(t)) + Cardinality(UsedNodes(t)) + 1
    IN  Resize(t, na, inUse - Cardinality({k \in ints : k <= na}))

(* luaH_setnum or luaH_setstr, and the assignment that follows. *)
SetKnown(t, key, val) ==
    IF InArray(t, key) \/ NodeOf(t, key) # 0 \/ HasRoom(t, key) THEN Place(t, key, val)
    ELSE [Place(Rehash(t, key), key, val) EXCEPT !.absent = {}]

(* mutant: what is remembered to be absent stays so. *)
Set_Remembers(t, key, val) == SetKnown(t, key, val)

(* luaH_set: the key may be that of a metamethod. *)
Set(t, key, val) == [SetKnown(t, key, val) EXCEPT !.absent = {}]

ResizeArray(t, na) == IF na <= Len(t.arr) THEN t ELSE Resize(t, na, Len(t.node))

-----------------------------------------------------------------------------
(* Length and traversal. *)

Has(t, n) == Get(t, Num(n)) # Nil

(* Binary search between a number that has a value, or 0, and one that has none. *)
Border(t, i, j) ==
    LET border[p \in (i .. j) \X (i .. j)] ==
          LET mid == (p[1] + p[2]) \div 2
          IN  IF p[2] - p[1] <= 1 THEN p[1]
              ELSE IF Has(t, mid) THEN border[<<mid, p[2]>>] ELSE border[<<p[1], mid>>]
    IN  border[<<i, j>>]

(* unbound_search: doubles j + 1 until it has no value or overflows, and then *)
(* looks at every number from 1 on.                                           *)
MAX_INT == 2147483645
Unbound(t, j) ==
    LET nils == {i \in 0 .. 30 : j + 1 <= MAX_INT \div TwoTo[i] /\ ~Has(t, (j + 1) * TwoTo[i])}
        i    == Min(nils)
    IN  IF nils = {} THEN CHOOSE n \in Nat :
                            ~Has(t, n + 1) /\ \A m \in 1 .. n : Has(t, m)
        ELSE Border(t, IF i = 0 THEN j ELSE (j + 1) * TwoTo[i - 1], (j + 1) * TwoTo[i])

(* luaH_getn *)
GetN(t) ==
    LET j == Len(t.arr)
    IN  IF j > 0 /\ t.arr[j] = Nil THEN Border(t, 0, j)
        ELSE IF t.node = <<>> THEN j
        ELSE Unbound(t, j)

(* luaH_next: the entry after a key, in the array part and then in the nodes. *)
(* Nil when there is none, <<"invalid">> for a key the table does not have.   *)
Next1(t, i) ==
    LET slots == t.arr \o [k \in DOMAIN t.node |-> t.node[k].val]
        j == SelectInSubSeq(slots, i + 1, Len(slots), LAMBDA v : v # Nil)
    IN  IF j = 0 THEN <<Nil>>
        ELSE <<IF j <= Len(t.arr) THEN Num(j) ELSE t.node[j - Len(t.arr)].key, slots[j]>>

NextEntry(t, key) ==
    IF key = Nil THEN Next1(t, 0)
    ELSE IF InArray(t, key) THEN Next1(t, key[2])
    ELSE IF NodeOf(t, key) = 0 THEN <<<<"invalid">>>>
    ELSE Next1(t, Len(t.arr) + NodeOf(t, key))

-----------------------------------------------------------------------------
(* What every operation keeps: the nodes that are taken are found under    *)
(* their keys, which are not keys of the array part; a node whose key      *)
(* belongs elsewhere is in nobody's place; chains do not merge; and there  *)
(* is no free position from lastfree on.                                   *)
Taken(t)   == {i \in DOMAIN t.node : t.node[i].key # Nil}
Home(t, i) == MainPosition(t, t.node[i].key)

KeysFound(t)  == \A i \in Taken(t) : NodeOf(t, t.node[i].key) = i
KeysApart(t)  == \A i \in Taken(t) : ~InArray(t, t.node[i].key)
HomesOwned(t) == \A i \in Taken(t) : Home(t, i) \in Taken(t) /\ Home(t, Home(t, i)) = Home(t, i)
LinksSound(t) ==
    \A i \in DOMAIN t.node : t.node[i].next # 0 =>
        /\ i \in Taken(t) /\ t.node[i].next \in Taken(t)
        /\ \A j \in DOMAIN t.node : t.node[j].next = t.node[i].next => i = j
FreeBelow(t)  == \A i \in t.free .. Len(t.node) : i \in Taken(t)

TableSound(t) ==
    KeysFound(t) /\ KeysApart(t) /\ HomesOwned(t) /\ LinksSound(t) /\ FreeBelow(t)

(* What a metatable is remembered to lack it lacks. *)
AbsentTrue(t) == \A e \in t.absent : Get(t, Str(e)) = Nil
=============================================================================
