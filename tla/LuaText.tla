------------------------------ MODULE LuaText -------------------------------
(***************************************************************************)
(* The characters of a string and the captures of a match, as the string   *)
(* library (lstrlib.c) sees them.  A position in a string is a number from *)
(* 1 on, where the code has a pointer; behind its last character a string  *)
(* has Nul.  The characters are those of Ascii, in the locale "C".         *)
(***************************************************************************)
EXTENDS LuaValue

Ascii == " !\"#$%&'()*+,-./0123456789:;<=>?@ABCDEFGHIJKLMNOPQRSTUVWXYZ[\\]^_"
         \o "abcdefghijklmnopqrstuvwxyz{|}~"   \* codes 32 to 95 and 97 to 126
Nul   == ""
Esc   == "%"

Ch(s, i)   == IF i \in 1 .. Len(s) THEN SubSeq(s, i, i) ELSE Nul
Chars(s)   == [i \in 1 .. Len(s) |-> SubSeq(s, i, i)]
Join(list) == FoldLeft(LAMBDA s, t : s \o t, "", list)

(* The code of a character, and the character of a code. *)
ByteAt(i)  == IF i <= 64 THEN 31 + i ELSE 32 + i
Bytes      == [c \in Range(Chars(Ascii)) |-> ByteAt(CHOOSE i \in 1 .. Len(Ascii) : Ch(Ascii, i) = c)]
ByteOf(c)    == IF c = Nul THEN 0 ELSE Bytes[c]
CharOf(n)  == IF \E c \in DOMAIN Bytes : Bytes[c] = n THEN CHOOSE c \in DOMAIN Bytes : Bytes[c] = n ELSE Nul

Between(c, first, last) == ByteOf(c) >= ByteOf(first) /\ ByteOf(c) <= ByteOf(last)

Lowers == Range(Chars("abcdefghijklmnopqrstuvwxyz"))
Uppers == Range(Chars("ABCDEFGHIJKLMNOPQRSTUVWXYZ"))
Digits == Range(Chars("0123456789"))
Alphas == Lowers \cup Uppers
IsLower(c) == c \in Lowers
IsUpper(c) == c \in Uppers
IsDigit(c) == c \in Digits
ToLower(c) == IF IsUpper(c) THEN CharOf(ByteOf(c) + 32) ELSE c
ToUpper(c) == IF IsLower(c) THEN CharOf(ByteOf(c) - 32) ELSE c

-----------------------------------------------------------------------------
(* The captures of a match r, which is at src[r.from] .. src[r.to - 1].     *)

EndOf(src)    == Len(src) + 1

Unfinished  == -1
PositionCap == -2

(* push_onecapture: the value of capture i of a match, <<>> when there is none. *)
OneCapture(src, r, i) ==
    LET c == r.cap[i]
    IN  IF i > Len(r.cap) THEN IF i = 1 THEN <<Str(SubSeq(src, r.from, r.to - 1))>> ELSE <<>>
        ELSE IF c.len = Unfinished THEN <<>>
        ELSE IF c.len = PositionCap THEN <<Num(c.init)>>
        ELSE <<Str(SubSeq(src, c.init, c.init + c.len - 1))>>

(* push_captures: all of them, or the whole match; an error in place of a list. *)
Captures(src, r, whole) ==
    LET n == IF r.cap = <<>> /\ whole THEN 1 ELSE Len(r.cap)
        list == [i \in 1 .. n |-> OneCapture(src, r, i)]
    IN  IF <<>> \in Range(list) THEN <<FALSE>>
        ELSE <<TRUE, [i \in 1 .. n |-> list[i][1]]>>
=============================================================================
