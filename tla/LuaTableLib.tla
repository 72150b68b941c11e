----------------------------- MODULE LuaTableLib -----------------------------
(***************************************************************************)
(* The table library (ltablib.c).  A function that calls back leaves in    *)
(* the k of its frame what the C function keeps in its locals and on its   *)
(* part of the stack, and goes on from there with the result.              *)
(***************************************************************************)
EXTENDS LuaBaseLib

GetAt(m, t, i)    == RawGet(m, t, Num(i))
PutAt(m, t, i, v) == RawSet(m, t, Num(i), v)
SizeOf(m, t)    == GetN(m.tab[t[2]])

-----------------------------------------------------------------------------
(* foreachi, foreach: until the function returns something. *)

ForEachI(m, t, f, n, i) ==
    IF i > n THEN Give(m, <<>>)
    ELSE CallBack(m, [t |-> t, f |-> f, n |-> n, i |-> i], f, <<Num(i), GetAt(m, t, i)>>)

ForEach(m, t, f, key) ==
    LET entry == NextEntry(m.tab[t[2]], key)
    IN  IF entry = <<Nil>> THEN Give(m, <<>>)
        ELSE IF entry = <<<<"invalid">>>> THEN Raise(m, Str("invalid key to 'next'"))
        ELSE CallBack(m, [t |-> t, f |-> f, key |-> entry[1]], f, entry)

ForEachBack(m, k, v) ==
    IF v # Nil THEN Give(m, <<v>>)
    ELSE IF "i" \in DOMAIN k THEN ForEachI(m, k.t, k.f, k.n, k.i + 1)
    ELSE ForEach(m, k.t, k.f, k.key)

LForEach(m, args, ordered) ==
    IF ~IsTable(Arg(args, 1)) \/ ~IsFunction(Arg(args, 2)) THEN BadArg(m)
    ELSE IF ordered THEN ForEachI(m, args[1], args[2], SizeOf(m, args[1]), 1)
    ELSE ForEach(m, args[1], args[2], Nil)

-----------------------------------------------------------------------------
(* Sizes, and elements that move. *)

LMaxN(m, args) ==
    LET t == m.tab[args[1][2]]
        nodes == {i \in DOMAIN t.node : t.node[i].val # Nil /\ t.node[i].key[1] = "number"}
        keys == {i \in DOMAIN t.arr : t.arr[i] # Nil} \cup {t.node[i].key[2] : i \in nodes}
    IN  IF ~IsTable(Arg(args, 1)) THEN BadArg(m)
        ELSE Give(m, <<Num(Max(keys \cup {0}))>>)

LGetN(m, args) == IF IsTable(Arg(args, 1)) THEN Give(m, <<Num(SizeOf(m, args[1]))>>) ELSE BadArg(m)
LSetN(m, args) == IF IsTable(Arg(args, 1)) THEN LError(m, "'setn' is obsolete") ELSE BadArg(m)

(* Each element of a list of places becomes the one step further on, in order. *)
Shift(m, t, places, step) ==
    SetTab(m, t, FoldLeft(LAMBDA tab, i : Set(tab, Num(i), Get(tab, Num(i + step))), m.tab[t[2]], places))

Down(from, to) == [j \in 1 .. (IF from < to THEN 0 ELSE from - to + 1) |-> from - j + 1]
Up(from, to)   == [j \in 1 .. (IF to < from THEN 0 ELSE to - from + 1) |-> from + j - 1]

TInsert(m, args) ==
    LET t   == args[1]
        e   == SizeOf(m, t) + 1
        pos == IF Len(args) = 2 THEN Num(e) ELSE ToNumber(args[2])
        top == IF pos[2] > e THEN pos[2] ELSE e
    IN  IF ~IsTable(Arg(args, 1)) THEN BadArg(m)
        ELSE IF Len(args) \notin {2, 3} THEN LError(m, "wrong number of arguments to 'insert'")
        ELSE IF pos = Nil THEN BadArg(m)
        ELSE Give(PutAt(Shift(m, t, Down(top, pos[2] + 1), -1), t, pos[2], Last(args)), <<>>)

TRemove(m, args) ==
    LET t   == args[1]
        e   == SizeOf(m, t)
        pos == ToNumber(Opt(Arg(args, 2), Num(e)))
    IN  IF ~IsTable(Arg(args, 1)) \/ pos = Nil THEN BadArg(m)
        ELSE IF pos[2] \notin 1 .. e THEN Give(m, <<>>)
        ELSE Give(PutAt(Shift(m, t, Up(pos[2], e - 1), 1), t, e, Nil), <<GetAt(m, t, pos[2])>>)

(* Strings with one between each two. *)
Joined(sep, vals) ==
    LET After(s, v) == IF s = <<>> THEN <<v[2]>> ELSE <<s[1] \o sep[2] \o v[2]>>
    IN  Str((FoldLeft(After, <<>>, vals) \o <<"">>)[1])

TConcat(m, args) ==
    LET t    == args[1]
        sep  == AsString(Opt(Arg(args, 2), Str("")))
        i    == ToNumber(Opt(Arg(args, 3), Num(1)))
        last == ToNumber(Opt(Arg(args, 4), Num(SizeOf(m, t))))
        vals == [j \in DOMAIN Up(i[2], last[2]) |-> AsString(GetAt(m, t, i[2] + j - 1))]
    IN  IF ~IsTable(Arg(args, 1)) \/ sep[1] # "string" \/ i = Nil \/ last = Nil THEN BadArg(m)
        ELSE IF \E v \in Range(vals) : v[1] # "string" THEN LError(m, "invalid value in table for 'concat'")
        ELSE Give(m, <<Joined(sep, vals)>>)

-----------------------------------------------------------------------------
(* Quicksort (auxsort).  k.l .. k.u is the range at hand and k.rest the     *)
(* ranges it is to return to; k.x and k.y are the elements it has read.     *)
(* k.at is the comparison it waits for:                                     *)
(*   ends  t[u] < t[l]      low   t[i] < t[l]      high  t[u] < t[i]        *)
(*   up    t[i] < pivot     down  pivot < t[j]                              *)

(* sort_comp, with the default order that of lua_lessthan; what that one    *)
(* answers is in k.less for the step that follows.                          *)
SortComp(m, k, a, b) ==
    LET lt == OrderTM(m, a, b, "__lt")
    IN  IF k.f # Nil THEN CallBack(m, k, k.f, <<a, b>>)
        ELSE IF TypeOf(a) # TypeOf(b) THEN Raise(m, OrderMessage(a, b))
        ELSE IF Stringable(a) THEN Again(m, [k EXCEPT !.less = Precedes(a, b, FALSE)])
        ELSE IF lt # Nil THEN CallBack(m, k, lt, <<a, b>>)
        ELSE Raise(m, OrderMessage(a, b))

Set2(m, t, i, v, j, w) == PutAt(PutAt(m, t, i, v), t, j, w)

(* From the range at hand, or the next one, on. *)
SortRange(m, k) ==
    LET x == GetAt(m, k.t, k.l)
        y == GetAt(m, k.t, k.u)
    IN  SortComp(m, [k EXCEPT !.at = "ends", !.x = x, !.y = y], y, x)

SortNext(m, k) ==
    LET n == SelectLastInSeq(k.rest, LAMBDA range : range[1] < range[2])
    IN  IF k.l < k.u THEN SortRange(m, k)
        ELSE IF n = 0 THEN Give(m, <<>>)
        ELSE SortRange(m, [k EXCEPT !.l = k.rest[n][1], !.u = k.rest[n][2], !.rest = SubSeq(@, 1, n - 1)])
SortDone(m, k) == SortNext(m, [k EXCEPT !.l = k.u])

ReadUp(m, k) ==
    LET v == GetAt(m, k.t, k.i + 1)
    IN  SortComp(m, [k EXCEPT !.at = "up", !.i = @ + 1, !.x = v], v, k.p)
ReadDown(m, k) ==
    LET v == GetAt(m, k.t, k.j - 1)
    IN  SortComp(m, [k EXCEPT !.at = "down", !.j = @ - 1, !.y = v], k.p, v)

(* The median of three is the pivot, and moves out of the way. *)
Pivot(m, k) ==
    LET p == GetAt(m, k.t, k.i)
    IN  IF k.u - k.l = 2 THEN SortDone(m, k)
        ELSE ReadUp(Set2(m, k.t, k.i, GetAt(m, k.t, k.u - 1), k.u - 1, p),
                    [k EXCEPT !.p = p, !.i = k.l, !.j = k.u - 1])

(* It moves back between the halves, of which the smaller is sorted first. *)
Partitioned(m, k) ==
    LET n == Set2(m, k.t, k.u - 1, GetAt(m, k.t, k.i), k.i, GetAt(m, k.t, k.u - 1))
        low  == <<k.l, k.i - 1>>
        high == <<k.i + 1, k.u>>
        first == IF k.i - k.l < k.u - k.i THEN low ELSE high
        then  == IF first = low THEN high ELSE low
    IN  SortNext(n, [k EXCEPT !.l = first[1], !.u = first[2], !.rest = Append(@, then)])

SortMiddle(m, k) ==
    LET i == (k.l + k.u) \div 2
        x == GetAt(m, k.t, i)
        y == GetAt(m, k.t, k.l)
    IN  IF k.u - k.l = 1 THEN SortDone(m, k)
        ELSE SortComp(m, [k EXCEPT !.at = "low", !.i = i, !.x = x, !.y = y], x, y)

SortHigh(m, k) ==
    LET y == GetAt(m, k.t, k.u) IN SortComp(m, [k EXCEPT !.at = "high", !.y = y], y, k.x)

SortBack(m, k, less) ==
    CASE k.at = "ends" ->
            SortMiddle(IF less THEN Set2(m, k.t, k.l, k.y, k.u, k.x) ELSE m, k)
      [] k.at = "low"  ->
            IF less THEN Pivot(Set2(m, k.t, k.i, k.y, k.l, k.x), k) ELSE SortHigh(m, k)
      [] k.at = "high" ->
            Pivot(IF less THEN Set2(m, k.t, k.i, k.y, k.u, k.x) ELSE m, k)
      [] k.at = "up"   ->
            IF less /\ k.i > k.u THEN LError(m, "invalid order function for sorting")
            ELSE IF less THEN ReadUp(m, k) ELSE ReadDown(m, k)
      [] OTHER ->
            IF less /\ k.j < k.l THEN LError(m, "invalid order function for sorting")
            ELSE IF less THEN ReadDown(m, k)
            ELSE IF k.j < k.i THEN Partitioned(m, k)
            ELSE ReadUp(Set2(m, k.t, k.i, k.y, k.j, k.x), k)

LSort(m, args) ==
    LET f == Opt(Arg(args, 2), Nil)
    IN  IF ~IsTable(Arg(args, 1)) \/ (f # Nil /\ ~IsFunction(f)) THEN BadArg(m)
        ELSE SortNext(m, [at |-> "", t |-> args[1], f |-> f, l |-> 1, u |-> SizeOf(m, args[1]),
                          i |-> 0, j |-> 0, p |-> Nil, x |-> Nil, y |-> Nil, less |-> FALSE, rest |-> <<>>])

-----------------------------------------------------------------------------
TableFuncs == <<"concat", "foreach", "foreachi", "getn", "maxn", "insert", "remove", "setn", "sort">>

TableCall(m, name, args) ==
    CASE name = "concat"   -> TConcat(m, args)
      [] name = "foreach"  -> LForEach(m, args, FALSE)
      [] name = "foreachi" -> LForEach(m, args, TRUE)
      [] name = "getn"     -> LGetN(m, args)
      [] name = "maxn"     -> LMaxN(m, args)
      [] name = "insert"   -> TInsert(m, args)
      [] name = "remove"   -> TRemove(m, args)
      [] name = "setn"     -> LSetN(m, args)
      [] OTHER             -> LSort(m, args)
=============================================================================
