----------------------------- MODULE LuaPatterns -----------------------------
(***************************************************************************)
(* What a pattern means: a reference for the matcher of lstrlib.c.  A      *)
(* pattern is a list of elements, its text is what they spell, and it has  *)
(* all the ways it can match from a place in the subject, the preferred    *)
(* one first, with no going back and nothing to undo.                      *)
(***************************************************************************)
EXTENDS LuaValue, FiniteSets

Letters == {"a", "b", "c", "x"}
Signs   == {"-", ".", "(", ")", "%", "]"}
Sigma   == Letters \cup Signs \cup {"B", "1", " "}   \* the characters of the subjects
NoChar  == ""                                        \* what is around a subject

(* Elements.  A kind is a set of characters and the text that spells it.  *)
Kind(text, chars)  == [text |-> text, chars |-> chars]
Rep(item, q)       == [k |-> "rep", item |-> item, q |-> q]
Group(elements)    == [k |-> "group", g |-> elements]
Place              == [k |-> "place"]
Back(n)            == [k |-> "back", n |-> n]
Balance(b, e)      == [k |-> "balance", b |-> b, e |-> e]
Border(item)       == [k |-> "border", item |-> item]
AtEnd              == [k |-> "end"]

RECURSIVE Spell(_)
Spell(pattern) ==
    LET SpellOne(e) ==
            CASE e.k = "rep"     -> e.item.text \o e.q
              [] e.k = "group"   -> "(" \o Spell(e.g) \o ")"
              [] e.k = "place"   -> "()"
              [] e.k = "back"    -> "%" \o ToString(e.n)
              [] e.k = "balance" -> "%b" \o e.b \o e.e
              [] e.k = "border"  -> "%f" \o e.item.text
              [] e.k = "end"     -> "$"
    IN  FoldLeft(LAMBDA s, e : s \o SpellOne(e), "", pattern)

-----------------------------------------------------------------------------
(* A way is where it ends and what it has captured. *)

CharAt(s, i)  == IF i \in 1 .. Len(s) THEN SubSeq(s, i, i) ELSE NoChar
Piece(s, i, j) == SubSeq(s, i, j - 1)

(* How many characters of a kind follow each other from i on. *)
Follow(s, i, item) ==
    CHOOSE n \in 0 .. Len(s) + 1 - i :
        /\ \A j \in i .. i + n - 1 : CharAt(s, j) \in item.chars
        /\ CharAt(s, i + n) \notin item.chars \/ i + n = Len(s) + 1

Counts(q, n) ==
    CASE q = ""  -> IF n > 0 THEN <<1>> ELSE <<>>
      [] q = "?" -> IF n > 0 THEN <<1, 0>> ELSE <<0>>
      [] q = "*" -> [j \in 1 .. n + 1 |-> n + 1 - j]
      [] q = "+" -> [j \in 1 .. n |-> n + 1 - j]
      [] q = "-" -> [j \in 1 .. n + 1 |-> j - 1]

(* The first place where as many e as b have been met. *)
Closes(s, i, b, e) ==
    LET Met(c, j) == Cardinality({n \in i .. j - 1 : CharAt(s, n) = c})
        Done(j) == IF b = e THEN Met(b, j) = 2 ELSE Met(b, j) = Met(e, j)
        ends == {j \in i + 2 .. Len(s) + 1 : Done(j)}
    IN  IF CharAt(s, i) # b \/ ends = {} THEN <<>> ELSE <<Min(ends)>>

RECURSIVE Ways(_, _, _, _)
WaysOfOne(s, e, i, caps) ==
    LET To(ends) == [j \in DOMAIN ends |-> [at |-> ends[j], caps |-> caps]]
    IN  CASE e.k = "rep" ->
                LET ns == Counts(e.q, Follow(s, i, e.item)) IN To([j \in DOMAIN ns |-> i + ns[j]])
          [] e.k = "group" ->
                LET own == Len(caps) + 1
                    inner == Ways(s, e.g, i, Append(caps, Nil))
                IN  [j \in DOMAIN inner |->
                        [inner[j] EXCEPT !.caps[own] = Str(Piece(s, i, inner[j].at))]]
          [] e.k = "place" -> <<[at |-> i, caps |-> Append(caps, Num(i))]>>
          [] e.k = "back" ->
                LET w == caps[e.n]
                    end == i + Len(w[2])
                IN  IF w[1] = "string" /\ end <= Len(s) + 1 /\ Piece(s, i, end) = w[2] THEN To(<<end>>)
                    ELSE <<>>
          [] e.k = "balance" -> To(Closes(s, i, e.b, e.e))
          [] e.k = "border" ->
                IF CharAt(s, i - 1) \notin e.item.chars /\ CharAt(s, i) \in e.item.chars THEN To(<<i>>)
                ELSE <<>>
          [] e.k = "end" -> IF i = Len(s) + 1 THEN To(<<i>>) ELSE <<>>

Ways(s, pattern, i, caps) ==
    IF pattern = <<>> THEN <<[at |-> i, caps |-> caps]>>
    ELSE LET first == WaysOfOne(s, Head(pattern), i, caps)
         IN  FlattenSeq([j \in DOMAIN first |-> Ways(s, Tail(pattern), first[j].at, first[j].caps)])

-----------------------------------------------------------------------------
(* find, gmatch and gsub. *)

FindMeans(s, pattern) ==
    LET places == {i \in 1 .. Len(s) + 1 : Ways(s, pattern, i, <<>>) # <<>>}
        way == Ways(s, pattern, Min(places), <<>>)[1]
    IN  IF places = {} THEN <<Nil>> ELSE <<Num(Min(places)), Num(way.at - 1)>> \o way.caps

(* The matches a text is divided into, and what is between them. *)
RECURSIVE Matches(_, _, _)
Matches(s, pattern, i) ==
    LET ways == Ways(s, pattern, i, <<>>)
        way  == ways[1]
        caps == IF way.caps = <<>> THEN <<Str(Piece(s, i, way.at))>> ELSE way.caps
        this == <<[text |-> Piece(s, i, way.at), caps |-> caps]>>
    IN  IF i > Len(s) + 1 THEN <<>>
        ELSE IF ways = <<>> THEN <<[text |-> CharAt(s, i), caps |-> <<>>]>> \o Matches(s, pattern, i + 1)
        ELSE IF way.at > i THEN this \o Matches(s, pattern, way.at)
        ELSE this \o <<[text |-> CharAt(s, i), caps |-> <<>>]>> \o Matches(s, pattern, i + 1)

GMatchMeans(s, pattern) ==
    LET found == SelectSeq(Matches(s, pattern, 1), LAMBDA p : p.caps # <<>>)
    IN  [j \in DOMAIN found |-> found[j].caps]

(* By(caps, text) is what replaces a match. *)
GSubMeans(s, pattern, By(_, _)) ==
    LET parts == Matches(s, pattern, 1)
        Part(p) == IF p.caps = <<>> THEN p.text ELSE By(p.caps, p.text)
    IN  <<Str(FoldLeft(LAMBDA t, p : t \o Part(p), "", parts)),
          Num(Len(SelectSeq(parts, LAMBDA p : p.caps # <<>>)))>>
=============================================================================
