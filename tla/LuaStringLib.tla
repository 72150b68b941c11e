---------------------------- MODULE LuaStringLib -----------------------------
(***************************************************************************)
(* The string library (lstrlib.c) but for format and dump: its functions   *)
(* and the loops of find, gmatch and gsub over a subject.  What matches at *)
(* a place, and the text that replaces a match, are parameters: nothing    *)
(* the machine does depends on how a matcher comes to its answer.          *)
(***************************************************************************)
EXTENDS LuaBaseLib, LuaText

CONSTANTS
    MatchOf(_, _, _),   \* where and how a pattern matches: see Match in LuaMatch
    ExpandOf(_, _, _)   \* the text that replaces a match: see Expand in LuaMatch

-----------------------------------------------------------------------------
(* Functions of strings. *)

Text(args, n)     == AsString(Arg(args, n))
IsText(v)         == v[1] = "string"
OptInt(args, n, default) == ToNumber(Opt(Arg(args, n), Num(default)))

PosRelat(pos, len) == IF pos >= 0 THEN pos ELSE IF pos + len + 1 >= 0 THEN pos + len + 1 ELSE 0

Clip(n, low, high) == IF n < low THEN low ELSE IF n > high THEN high ELSE n

StrSub(m, args) ==
    LET s == Text(args, 1)
        i == ToNumber(Arg(args, 2))
        j == OptInt(args, 3, -1)
        first == PosRelat(i[2], Len(s[2]))
        last  == PosRelat(j[2], Len(s[2]))
    IN  IF ~IsText(s) \/ i = Nil \/ j = Nil THEN BadArg(m)
        ELSE Give(m, <<Str(SubSeq(s[2], Clip(first, 1, first), Clip(last, last, Len(s[2]))))>>)

StrByte(m, args) ==
    LET s == Text(args, 1)
        i == OptInt(args, 2, 1)
        posi == PosRelat(i[2], Len(s[2]))
        j == OptInt(args, 3, posi)
        first == IF posi <= 0 THEN 1 ELSE posi
        last  == Clip(PosRelat(j[2], Len(s[2])), 0, Len(s[2]))
    IN  IF ~IsText(s) \/ i = Nil \/ j = Nil THEN BadArg(m)
        ELSE Give(m, [n \in 1 .. Clip(last - first + 1, 0, last) |-> Num(ByteOf(Ch(s[2], first + n - 1)))])

StrChar(m, args) ==
    LET codes == [i \in DOMAIN args |-> ToNumber(args[i])]
    IN  IF \E i \in DOMAIN codes : codes[i] = Nil \/ codes[i][2] \notin 0 .. 255 THEN BadArg(m)
        ELSE Give(m, <<Str(Join([i \in DOMAIN codes |-> CharOf(codes[i][2])]))>>)

StrRep(m, args) ==
    LET s == Text(args, 1)
        n == ToNumber(Arg(args, 2))
    IN  IF ~IsText(s) \/ n = Nil THEN BadArg(m) ELSE Give(m, <<Str(Join(Repeat(s[2], n[2])))>>)

(* len, lower, upper, reverse *)
OfText(m, args, v) == IF IsText(Text(args, 1)) THEN Give(m, <<v>>) ELSE BadArg(m)
LowerOf(s)   == Str(Join([i \in 1 .. Len(s) |-> ToLower(Ch(s, i))]))
UpperOf(s)   == Str(Join([i \in 1 .. Len(s) |-> ToUpper(Ch(s, i))]))
ReverseOf(s) == Str(Join(Reverse(Chars(s))))
LenOf(s)     == Num(Len(s))

-----------------------------------------------------------------------------
(* find, match and gmatch. *)

Specials == {"^", "$", "*", "+", "?", ".", "(", "[", "%", "-"}

(* lmemfind *)
PlainFind(src, s, pat) ==
    LET places == {i \in s .. Len(src) - Len(pat) + 1 : SubSeq(src, i, i + Len(pat) - 1) = pat}
    IN  IF places = {} THEN <<Nil>>
        ELSE LET i == Min(places) IN <<Num(i), Num(i + Len(pat) - 1)>>

(* Where a pattern is tried from, and the first place from s on where it    *)
(* matches or is found malformed; an anchored pattern is tried there only.  *)
Anchored(pat) == Ch(pat, 1) = "^"
Begin(pat)    == IF Anchored(pat) THEN 2 ELSE 1

MatchAt(src, pat, s, p) == MatchOf([src |-> src, pat |-> pat, cap |-> <<>>], s, p)

Search(src, pat, s, p, anchored) ==
    LET last == IF anchored THEN s ELSE EndOf(src)
        hits == {i \in s .. last : MatchAt(src, pat, i, p).at # 0}
        from == IF hits = {} THEN last ELSE Min(hits)
        r    == MatchAt(src, pat, from, p)
    IN  [from |-> from, to |-> r.at, cap |-> r.cap]

(* What a match r gives: n is the machine after it, none is for no match. *)
Found(m, n, src, r, find, none) ==
    LET caps == Captures(src, r, ~find)
    IN  IF r.to = -1 THEN LError(m, "malformed pattern")
        ELSE IF r.to = 0 THEN Give(m, none)
        ELSE IF ~caps[1] THEN LError(n, "unfinished capture")
        ELSE Give(n, (IF find THEN <<Num(r.from), Num(r.to - 1)>> ELSE <<>>) \o caps[2])

StrFindAux(m, args, find) ==
    LET src  == Text(args, 1)
        pat  == Text(args, 2)
        from == OptInt(args, 3, 1)
        s    == Clip(PosRelat(from[2], Len(src[2])), 1, EndOf(src[2]))
        plain == ~Falsy(Opt(Arg(args, 4), Nil)) \/ Range(Chars(pat[2])) \cap Specials = {}
    IN  IF ~IsText(src) \/ ~IsText(pat) \/ from = Nil THEN BadArg(m)
        ELSE IF find /\ plain THEN Give(m, PlainFind(src[2], s, pat[2]))
        ELSE Found(m, m, src[2], Search(src[2], pat[2], s, Begin(pat[2]), Anchored(pat[2])), find, <<Nil>>)

(* The iterator keeps its place in an upvalue: it is a closure like others. *)
GMatch(m, args) ==
    IF ~IsText(Text(args, 1)) \/ ~IsText(Text(args, 2)) THEN BadArg(m)
    ELSE Give([m EXCEPT !.cl = Append(@, [src |-> Text(args, 1)[2], pat |-> Text(args, 2)[2], at |-> 1])],
              <<CFunction("gmatchaux", Len(m.cl) + 1)>>)

(* Past an empty match it goes on one place further. *)
GMatched(m, id, r) ==
    LET next == IF r.to = r.from THEN r.to + 1 ELSE r.to
    IN  Found(m, [m EXCEPT !.cl = [@ EXCEPT ![id] = [@ EXCEPT !.at = next]]], m.cl[id].src, r, FALSE, <<>>)

GMatchAux(m, id) ==
    LET it == m.cl[id]
    IN  IF it.at > EndOf(it.src) THEN Give(m, <<>>)
        ELSE GMatched(m, id, Search(it.src, it.pat, it.at, 1, FALSE))

-----------------------------------------------------------------------------
(* gsub.  k has the subject src, the pattern pat, the replacement repl, the *)
(* limit max; the place at, the number n of matches and the text out so     *)
(* far; and the match r that is being replaced.  A table that replaces has  *)
(* no metatable.  Each round of the loop is a step of its own.              *)

GSubEnd(m, k) == Give(m, <<Str(k.out \o SubSeq(k.src, k.at, Len(k.src))), Num(k.n)>>)

(* After a match, or none, at k.at. *)
GSubNext(m, k) ==
    LET taken  == k.r.to > k.at
        copied == ~taken /\ k.at < EndOf(k.src)
        next   == IF taken THEN [k EXCEPT !.at = k.r.to]
                  ELSE [k EXCEPT !.at = @ + 1, !.out = @ \o Ch(k.src, k.at)]
    IN  IF ~taken /\ ~copied THEN GSubEnd(m, k)
        ELSE IF Anchored(k.pat) THEN GSubEnd(m, next) ELSE Again(m, next)

(* What a function or a table gives; nil or false keeps the text. *)
GSubBack(m, k, v) ==
    LET whole == SubSeq(k.src, k.r.from, k.r.to - 1)
    IN  IF Falsy(v) THEN GSubNext(m, [k EXCEPT !.out = @ \o whole])
        ELSE IF ~Stringable(v) THEN LError(m, "invalid replacement value")
        ELSE GSubNext(m, [k EXCEPT !.out = @ \o AsString(v)[2]])

(* add_value *)
Replace(m, k) ==
    LET caps == Captures(k.src, k.r, TRUE)
        one  == OneCapture(k.src, k.r, 1)
        text == ExpandOf(k, 1, "")
    IN  CASE IsText(k.repl) ->
                IF text = <<>> THEN LError(m, "invalid capture index")
                ELSE GSubNext(m, [k EXCEPT !.out = @ \o text[1]])
          [] IsTable(k.repl) ->
                IF one = <<>> THEN LError(m, "unfinished capture")
                ELSE GSubBack(m, k, RawGet(m, k.repl, one[1]))
          [] OTHER ->
                IF ~caps[1] THEN LError(m, "unfinished capture")
                ELSE CallBack(m, k, k.repl, caps[2])

GSubMatched(m, k, r) ==
    LET found == [k EXCEPT !.r = [from |-> k.at, to |-> r.at, cap |-> r.cap]]
    IN  IF r.at = -1 THEN LError(m, "malformed pattern")
        ELSE IF r.at = 0 THEN GSubNext(m, found)
        ELSE Replace(m, [found EXCEPT !.n = @ + 1])

(* A round of the loop. *)
GSub(m, k) ==
    IF k.n >= k.max THEN GSubEnd(m, k)
    ELSE GSubMatched(m, k, MatchAt(k.src, k.pat, k.at, Begin(k.pat)))

StrGSub(m, args) ==
    LET src  == Text(args, 1)
        pat  == Text(args, 2)
        repl == AsString(Arg(args, 3))
        max  == OptInt(args, 4, EndOf(src[2]))
    IN  IF ~IsText(src) \/ ~IsText(pat) \/ max = Nil
           \/ ~(IsText(repl) \/ IsTable(repl) \/ IsFunction(repl)) THEN BadArg(m)
        ELSE GSub(m, [src |-> src[2], pat |-> pat[2], repl |-> repl, max |-> max[2],
                      at |-> 1, n |-> 0, out |-> "", r |-> [from |-> 1, to |-> 0, cap |-> <<>>]])

-----------------------------------------------------------------------------
StringFuncs ==
    <<"byte", "char", "find", "gfind", "gmatch", "gmatchaux", "gsub", "len", "lower", "match",
      "rep", "reverse", "sub", "upper">>

StringCall(m, f, args) ==
    CASE f[2] = "byte"    -> StrByte(m, args)
      [] f[2] = "char"    -> StrChar(m, args)
      [] f[2] = "find"    -> StrFindAux(m, args, TRUE)
      [] f[2] = "match"   -> StrFindAux(m, args, FALSE)
      [] f[2] \in {"gmatch", "gfind"} -> GMatch(m, args)
      [] f[2] = "gmatchaux" -> GMatchAux(m, f[3])
      [] f[2] = "gsub"    -> StrGSub(m, args)
      [] f[2] = "len"     -> OfText(m, args, LenOf(Text(args, 1)[2]))
      [] f[2] = "lower"   -> OfText(m, args, LowerOf(Text(args, 1)[2]))
      [] f[2] = "upper"   -> OfText(m, args, UpperOf(Text(args, 1)[2]))
      [] f[2] = "reverse" -> OfText(m, args, ReverseOf(Text(args, 1)[2]))
      [] f[2] = "rep"     -> StrRep(m, args)
      [] OTHER            -> StrSub(m, args)
=============================================================================
