------------------------------ MODULE LuaMatch ------------------------------
(***************************************************************************)
(* The matcher of the string library (lstrlib.c): it tries, gives up and   *)
(* tries again by recursion.  LuaStringLib has Match and Expand for        *)
(* parameters.                                                             *)
(***************************************************************************)
EXTENDS LuaText

CONSTANT MaxCaptures   \* LUA_MAXCAPTURES

-----------------------------------------------------------------------------
(* Pattern items: a character, a class %x, a set [...].  pat[i] is where    *)
(* the item begins.                                                         *)

(* The end of a set whose next character is pat[i]; 0 when it has none. *)
RECURSIVE SetEnd(_, _)
SetEnd(pat, i) ==
    LET j == IF Ch(pat, i) = Esc /\ Ch(pat, i + 1) # Nul THEN i + 2 ELSE i + 1
    IN  IF Ch(pat, i) = Nul THEN 0
        ELSE IF Ch(pat, j) = "]" THEN j + 1
        ELSE SetEnd(pat, j)

(* classend: 0 for a malformed pattern. *)
ClassEnd(pat, i) ==
    CASE Ch(pat, i) = Esc -> IF Ch(pat, i + 1) = Nul THEN 0 ELSE i + 2
      [] Ch(pat, i) = "[" -> SetEnd(pat, IF Ch(pat, i + 1) = "^" THEN i + 2 ELSE i + 1)
      [] OTHER            -> i + 1

(* The characters of each class; a capital letter stands for all others. *)
Class == [ a |-> Alphas, c |-> {Nul}, d |-> Digits, l |-> Lowers,
           p |-> Range(Chars(Ascii)) \ (Alphas \cup Digits \cup {" "}), s |-> {" "}, u |-> Uppers,
           w |-> Alphas \cup Digits, x |-> Digits \cup Range(Chars("abcdefABCDEF")), z |-> {Nul} ]

MatchClass(c, cl) ==
    IF ToLower(cl) \notin DOMAIN Class THEN cl = c ELSE (c \in Class[ToLower(cl)]) = IsLower(cl)

(* One of the characters, classes and ranges from pat[i] to the end of the set. *)
RECURSIVE InSet(_, _, _, _)
InSet(c, pat, i, ec) ==
    /\ i < ec
    /\ IF Ch(pat, i) = Esc THEN MatchClass(c, Ch(pat, i + 1)) \/ InSet(c, pat, i + 2, ec)
       ELSE IF Ch(pat, i + 1) = "-" /\ i + 2 < ec
       THEN Between(c, Ch(pat, i), Ch(pat, i + 2)) \/ InSet(c, pat, i + 3, ec)
       ELSE Ch(pat, i) = c \/ InSet(c, pat, i + 1, ec)

MatchBracketClass(c, pat, i, ec) ==
    IF Ch(pat, i + 1) = "^" THEN ~InSet(c, pat, i + 2, ec) ELSE InSet(c, pat, i + 1, ec)

SingleMatch(c, pat, i, ep) ==
    CASE Ch(pat, i) = "." -> TRUE
      [] Ch(pat, i) = Esc -> MatchClass(c, Ch(pat, i + 1))
      [] Ch(pat, i) = "[" -> MatchBracketClass(c, pat, i, ep - 1)
      [] OTHER            -> Ch(pat, i) = c

-----------------------------------------------------------------------------
(* Matching.  ms has the subject src, the pattern pat and the captures cap, *)
(* a list with one element for each level.  A match answers where it ends   *)
(* (0 where there is none, and -1 for an error) and the captures it leaves: *)
(* what it has changed of them when it fails, it undoes itself.             *)

EndsAt(ms, where) == [at |-> where, cap |-> ms.cap]
NoMatch(ms)   == EndsAt(ms, 0)
Malformed(ms) == EndsAt(ms, -1)

RECURSIVE Match(_, _, _)

StartCapture(ms, s, p, what) ==
    LET r == Match([ms EXCEPT !.cap = Append(@, [init |-> s, len |-> what])], s, p)
    IN  IF Len(ms.cap) >= MaxCaptures THEN Malformed(ms)
        ELSE IF r.at = 0 THEN [r EXCEPT !.cap = Front(@)] ELSE r

EndCapture(ms, s, p) ==
    LET l == SelectLastInSeq(ms.cap, LAMBDA c : c.len = Unfinished)
        r == Match([ms EXCEPT !.cap[l].len = s - ms.cap[l].init], s, p)
    IN  IF l = 0 THEN Malformed(ms)
        ELSE IF r.at = 0 THEN [r EXCEPT !.cap[l].len = Unfinished] ELSE r

(* A position capture has a length that no text has. *)
MatchCapture(ms, s, digit, p) ==
    LET l == ByteOf(digit) - ByteOf("0")
        c == ms.cap[l]
    IN  IF l \notin DOMAIN ms.cap \/ c.len = Unfinished THEN Malformed(ms)
        ELSE IF c.len = PositionCap \/ EndOf(ms.src) - s < c.len
                \/ SubSeq(ms.src, c.init, c.init + c.len - 1) # SubSeq(ms.src, s, s + c.len - 1)
        THEN NoMatch(ms)
        ELSE Match(ms, s + c.len, p)

(* Where the text ends that begins with b at src[i], cont levels deep. *)
RECURSIVE Balanced(_, _, _, _, _)
Balanced(src, i, b, e, cont) ==
    IF i >= EndOf(src) THEN 0
    ELSE IF Ch(src, i) = e THEN IF cont = 1 THEN i + 1 ELSE Balanced(src, i + 1, b, e, cont - 1)
    ELSE Balanced(src, i + 1, b, e, IF Ch(src, i) = b THEN cont + 1 ELSE cont)

MatchBalance(ms, s, p) ==
    LET b == Ch(ms.pat, p)
        e == Ch(ms.pat, p + 1)
        to == IF Ch(ms.src, s) # b THEN 0 ELSE Balanced(ms.src, s + 1, b, e, 1)
    IN  IF b = Nul \/ e = Nul THEN Malformed(ms)
        ELSE IF to = 0 THEN NoMatch(ms) ELSE Match(ms, to, p + 2)

Frontier(ms, s, p, ep) ==
    IF Ch(ms.pat, p) # "[" \/ ep = 0 THEN Malformed(ms)
    ELSE IF MatchBracketClass(Ch(ms.src, s - 1), ms.pat, p, ep - 1)
            \/ ~MatchBracketClass(Ch(ms.src, s), ms.pat, p, ep - 1) THEN NoMatch(ms)
    ELSE Match(ms, s, ep)

(* The most repetitions first, i of them, or the fewest, up to i. *)
RECURSIVE MaxExpand(_, _, _, _), MinExpand(_, _, _, _)
MaxExpand(ms, s, i, ep) ==
    LET r == Match(ms, s + i, ep + 1)
    IN  IF r.at # 0 \/ i = 0 THEN r ELSE MaxExpand([ms EXCEPT !.cap = r.cap], s, i - 1, ep)

MinExpand(ms, s, i, ep) ==
    LET r == Match(ms, s, ep + 1)
    IN  IF r.at # 0 \/ i = 0 THEN r ELSE MinExpand([ms EXCEPT !.cap = r.cap], s + 1, i - 1, ep)

(* How many characters from s on are the item at p. *)
Most(ms, s, p, ep) ==
    Min({j \in s .. EndOf(ms.src) :
            j = EndOf(ms.src) \/ ~SingleMatch(Ch(ms.src, j), ms.pat, p, ep)}) - s

(* n is their number. *)
MatchItem(ms, s, ep, n) ==
    LET q == Ch(ms.pat, ep)
        r == IF n > 0 THEN Match(ms, s + 1, ep + 1) ELSE NoMatch(ms)
    IN  CASE ep = 0  -> Malformed(ms)
          [] q = "?" -> IF r.at # 0 THEN r ELSE Match([ms EXCEPT !.cap = r.cap], s, ep + 1)
          [] q = "*" -> MaxExpand(ms, s, n, ep)
          [] q = "+" -> IF n > 0 THEN MaxExpand(ms, s + 1, n - 1, ep) ELSE NoMatch(ms)
          [] q = "-" -> MinExpand(ms, s, n, ep)
          [] OTHER   -> IF n > 0 THEN Match(ms, s + 1, ep) ELSE NoMatch(ms)

Match(ms, s, p) ==
    LET c == Ch(ms.pat, p)
        d == Ch(ms.pat, p + 1)
        ep == ClassEnd(ms.pat, p)
    IN  CASE c = "(" -> IF d = ")" THEN StartCapture(ms, s, p + 2, PositionCap)
                        ELSE StartCapture(ms, s, p + 1, Unfinished)
          [] c = ")" -> EndCapture(ms, s, p + 1)
          [] c = Esc /\ d = "b"     -> MatchBalance(ms, s, p + 2)
          [] c = Esc /\ d = "f"     -> Frontier(ms, s, p + 2, ClassEnd(ms.pat, p + 2))
          [] c = Esc /\ IsDigit(d)  -> MatchCapture(ms, s, d, p + 2)
          [] c = Nul                -> EndsAt(ms, s)
          [] c = "$" /\ d = Nul     -> IF s = EndOf(ms.src) THEN EndsAt(ms, s) ELSE NoMatch(ms)
          [] OTHER                  -> MatchItem(ms, s, ep, Most(ms, s, p, ep))

-----------------------------------------------------------------------------
(* The replacement text of gsub, k.repl, for the match k.r in k.src. *)

(* add_s: <<text>>, or <<>> where a capture is missing.  A % that ends the   *)
(* replacement adds the NUL behind the string in the code; a NUL is no       *)
(* character of the model's strings (ByteOf), so no replacement ends in one. *)
RECURSIVE Expand(_, _, _)
Expand(k, i, text) ==
    LET c == Ch(k.repl[2], i)
        d == Ch(k.repl[2], i + 1)
        whole == SubSeq(k.src, k.r.from, k.r.to - 1)
        v == OneCapture(k.src, k.r, ByteOf(d) - ByteOf("0"))
    IN  CASE c = Nul -> <<text>>
          [] c \notin {Nul, Esc} -> Expand(k, i + 1, text \o c)
          [] c = Esc /\ ~IsDigit(d) -> Expand(k, i + 2, text \o d)
          [] c = Esc /\ d = "0" -> Expand(k, i + 2, text \o whole)
          [] c = Esc /\ IsDigit(d) /\ d # "0" ->
                IF v = <<>> THEN <<>> ELSE Expand(k, i + 2, text \o AsString(v[1])[2])
=============================================================================
