--------------------------- MODULE LuaLibPrograms ---------------------------
(***************************************************************************)
(* Programs for the string, table and package libraries.  What a pattern   *)
(* matches is said by LuaPatterns, whatever the order in which a matcher   *)
(* tries and gives up; what a sort leaves behind, by the multiset it was   *)
(* given; the programs at the end say their answers themselves.            *)
(***************************************************************************)
EXTENDS LuaPrograms, LuaPatterns

Lib(library, f, args) == Apply(At(V(library), S(f)), args)
Strs(texts)           == [i \in DOMAIN texts |-> Str(texts[i])]

-----------------------------------------------------------------------------
(* Patterns without captures: a kind of character, how many of them, and   *)
(* what follows.  gsub marks the matches.                                  *)

Small    == {"a", "b", "c", "x"}
Outside(chars) == (Sigma \cup {NoChar}) \ chars
Kinds == << Kind(".", Sigma), Kind("a", {"a"}), Kind("%a", Small \cup {"B"}),
            Kind("%A", Outside(Small \cup {"B"})), Kind("[ab]", {"a", "b"}),
            Kind("[^ab]", Outside({"a", "b"})), Kind("[b-c%d]", {"b", "c", "1"}), Kind("%-", {"-"}),
            Kind("[]x]", {"]", "x"}), Kind("[a-]", {"a", "-"}), Kind("%l", Small),
            Kind("[^%s%p]", Outside({" "} \cup Signs)) >>
Quantifiers == <<"", "?", "*", "+", "-">>
Sole(char) == Kind(char, {char})
Tails == << <<>>, <<Rep(Sole("b"), "")>>, <<AtEnd>>, <<Rep(Sole("a"), "?"), Rep(Sole("b"), "")>> >>

Simple(n) == <<Rep(Kinds[1 + (n % 12)], Quantifiers[1 + (n % 5)])>> \o Tails[1 + ((n \div 12) % 4)]
Subjects  == <<"aab-Bc1", "]x ab aa">>

Marked(s, pattern) == Lib("string", "gsub", <<S(s), S(Spell(pattern)), S("<%0>")>>)
MarksMean(s, pattern) == GSubMeans(s, pattern, LAMBDA caps, text : "<" \o text \o ">")

Marking(k) ==
    LET pattern(i) == Simple(6 * (k - 1) + (i + 1) \div 2)
        subject(i) == Subjects[1 + (i % 2)]
        meant == [i \in 1 .. 12 |-> MarksMean(subject(i), pattern(i))]
    IN  Expect(<<Return([i \in 1 .. 12 |-> Marked(subject(i), pattern(i))])>>,
               Gives([i \in 1 .. 12 |-> meant[i][1]] \o <<meant[12][2]>>))
Markings == [k \in 1 .. 10 |-> Marking(k)]

-----------------------------------------------------------------------------
(* Captures: what the elements of a pattern leave when those after them    *)
(* fail, and are tried again.                                              *)

As(q)   == Rep(Sole("a"), q)
Bs(q)   == Rep(Sole("b"), q)
Dots(q)  == Rep(Kinds[1], q)
Alpha   == Kind("[%a]", Small \cup {"B"})
Other   == Kind("[^%a]", Outside(Small \cup {"B"}))

Captured == <<
    <<Group(<<As("*")>>), Group(<<Bs("*")>>)>>,
    <<Group(<<As("-")>>), Bs("")>>,
    <<Group(<<Group(<<As("")>>), Group(<<Bs("?")>>)>>)>>,
    <<Group(<<As("+")>>), Back(1)>>,
    <<Group(<<Dots("-")>>), Back(1), Rep(Sole("c"), "")>>,
    <<Place, As("*"), Place>>,
    <<Group(<<As("?")>>), Group(<<As("?")>>), Group(<<Bs("")>>)>>,
    <<Group(<<As("*"), Group(<<Dots("")>>), Rep(Kinds[5], ""), Group(<<Rep(Kind("%s", {" "}), "*")>>)>>)>>,
    <<Group(<<Group(<<As("+")>>), Group(<<Bs("?")>>)>>), Rep(Sole("c"), "")>>,
    <<Balance("(", ")")>>,
    <<Group(<<Balance("(", ")")>>), Dots("-"), Group(<<Balance("b", "b")>>)>>,
    <<Border(Alpha), Group(<<Rep(Alpha, "+")>>), Border(Other)>>,
    <<Group(<<As("")>>), Group(<<Bs("")>>), Place, Back(2), Back(1)>>,
    <<Group(<<Place, As("")>>), Back(2)>>,
    <<Group(<<Dots("-")>>), Group(<<Bs("+")>>), AtEnd>>,
    <<Group(<<Group(<<As("?")>>), Bs("?")>>), Back(2), Back(1)>>,
    <<Group(<<Group(<<Dots("*")>>), Bs("")>>), Group(<<Dots("*")>>), As("")>> >>

RECURSIVE CaptureCount(_)
CaptureCount(pattern) ==
    FoldLeft(LAMBDA n, e : n + (IF e.k = "group" THEN 1 + CaptureCount(e.g) ELSE IF e.k = "place" THEN 1 ELSE 0),
             0, pattern)
Texts(caps) == FoldLeft(LAMBDA s, v : s \o ";" \o (IF v[1] = "number" THEN ToString(v[2]) ELSE v[2]), "", caps)
Named(n)    == FoldLeft(LAMBDA s, i : s \o ";%" \o ToString(i), "", [i \in 1 .. n |-> i])

Capturing(pattern) ==
    LET subject == <<"aaabb abc(ba)", "(a(b)ba) bbab", "aab">>
        By(n) == IF n = 0 THEN ";%1" ELSE Named(n)
        Call(i) == Lib("string", "gsub", <<S(subject[i]), S(Spell(pattern)), S(By(CaptureCount(pattern)))>>)
        Answer(i) == GSubMeans(subject[i], pattern, LAMBDA caps, text : Texts(caps))[1]
    IN  Expect(<<Return(<<Call(1), Call(2), Call(3),
                          Lib("string", "find", <<S(subject[1]), S(Spell(pattern))>>)>>)>>,
               Gives(<<Answer(1), Answer(2), Answer(3)>> \o FindMeans(subject[1], pattern)))
Capturings == [i \in DOMAIN Captured |-> Capturing(Captured[i])]

(* gmatch gives the matches one by one. *)
Iterating(pattern) ==
    LET s == "aaabb abc(ba)"
        n == IF CaptureCount(pattern) = 0 THEN 1 ELSE CaptureCount(pattern)
        names == [i \in 1 .. n |-> "c" \o ToString(i)]
        text == FoldLeft(LAMBDA e, name : Bin("..", Bin("..", e, S(";")), V(name)), V("r"), names)
    IN  Expect(<<Loc1("r", S("")),
                 ForIn(names, <<Lib("string", "gmatch", <<S(s), S(Spell(pattern))>>)>>, <<Set1("r", text)>>),
                 Return(<<V("r")>>)>>,
               Gives(<<Str(FoldLeft(LAMBDA r, caps : r \o Texts(caps), "", GMatchMeans(s, pattern)))>>))
Iterations == [i \in 1 .. 6 |-> Iterating(Captured[<<1, 2, 3, 6, 12, 16>>[i]])]

(* Patterns that are none, and more captures than there may be; more       *)
(* results than a C function may have, and a level that is no number.      *)
Malformed == <<"[a", "[]", "[^]", "[a%", "%", "a%", "(a", "a)", "%1", "(a%1)", "(a)%2", "%b", "%ba", "%f", "%fa",
               "(a)(a)(a)(a)(a)">>
Refusal(text) == Paren(G("pcall", <<At(V("string"), S("match")), S("aaaaaa"), S(text)>>))
Refusals == <<Expect(<<Return([i \in DOMAIN Malformed |-> Refusal(Malformed[i])])>>,
                     Gives([i \in DOMAIN Malformed |-> Bool(FALSE)])),
              \* return (pcall(unpack, {}, 1, 8000)), select("#", unpack({}, 1, 3)),
              \*   (select(2, pcall(error, "x", {}))) ~= "x"
              Expect(<<Return(<<Paren(G("pcall", <<V("unpack"), New(<<>>), N(1), N(8000)>>)),
                G("select", <<S("#"), G("unpack", <<New(<<>>), N(1), N(3)>>)>>),
                Bin("~=", Paren(G("select", <<N(2), G("pcall", <<V("error"), S("x"), New(<<>>)>>)>>)),
                  S("x"))>>)>>, Gives(<<Bool(FALSE), Num(3), Bool(TRUE)>>))>>

-----------------------------------------------------------------------------
(* Parts of a string, for every pair of ends, counted from either side.    *)

PartMeans(s, i, j) ==
    LET back(p) == p - Len(s) - 1
        within(p) == (IF i < 0 THEN back(p) >= i ELSE p >= i) /\ (IF j < 0 THEN back(p) <= j ELSE p <= j)
    IN  FoldLeft(LAMBDA t, p : IF within(p) THEN t \o CharAt(s, p) ELSE t, "", [p \in 1 .. Len(s) |-> p])

Parts(j) ==
    LET part == Lib("string", "sub", <<S("abc"), V("i"), IF j < 0 THEN Un("-", N(-j)) ELSE N(j)>>)
        means == [n \in 1 .. 11 |-> PartMeans("abc", n - 6, j)]
    IN  Expect(<<Loc1("r", S("")),
                 For("i", <<Un("-", N(5)), N(5)>>, <<Set1("r", Bin("..", Bin("..", V("r"), part), S(";")))>>),
                 Return(<<V("r")>>)>>,
               Gives(<<Str(FoldLeft(LAMBDA r, t : r \o t \o ";", "", means))>>))
Partings == [i \in 1 .. 6 |-> Parts(<<-5, -3, -1, 0, 2, 4>>[i])]

-----------------------------------------------------------------------------
(* Sorting: every list of four with the default order; and, with a         *)
(* comparison that answers what a script says and then raises an error or  *)
(* says no, no element is lost and none is there twice.                    *)

Everywhere(list, v) == [i \in 1 .. Len(list) + 1 |-> InsertAt(list, i, v)]
Orders == FoldLeft(LAMBDA lists, v : FlattenSeq([i \in DOMAIN lists |-> Everywhere(lists[i], v)]),
                   << <<>> >>, <<1, 2, 3, 4>>)
Sorting(k) ==
    LET sort == VaFn(<<>>, <<Loc1("t", New(<<Item(<<>>, Rest)>>)), Run(Lib("table", "sort", <<V("t")>>)),
                             Return(<<Lib("table", "concat", <<V("t")>>)>>)>>)
        Args(i) == [j \in 1 .. 4 |-> N(Orders[6 * (k - 1) + i][j])]
    IN  Expect(<<LocalFn("f", sort), Return([i \in 1 .. 6 |-> Paren(G("f", Args(i)))])>>,
               Gives([i \in 1 .. 6 |-> Str("1234")]))
Sortings == [k \in 1 .. 4 |-> Sorting(k)]

Scripts == <<"1", "01", "11", "111", "0011", "0111", "00111", "10111", "1111111", "x", "1x", "011x",
             "00101", "0010111", "001111", "101010">>
Misled(k) ==
    LET answer == Lib("string", "sub", <<V("script"), V("n"), V("n")>>)
        less == Fn(<<>>, <<Inc("n"), Loc1("d", answer),
                           If(Bin("==", V("d"), S("x")), <<Run(G("error", <<V("d")>>))>>, <<>>),
                           Return(<<Bin("==", V("d"), S("1"))>>)>>)
        powers == New([j \in 1 .. 5 |-> Item(<<>>, N(2 ^ (j - 1)))])
        Plus(i) == Set1("s", Bin("+", V("s"), Bin("or", At(V("t"), V("i")), N(0))))
        f == Fn(<<"script">>,
                <<Local(<<"n", "s", "t">>, <<N(0), N(0), powers>>),
                  Run(G("pcall", <<At(V("table"), S("sort")), V("t"), less>>)),
                  For("i", <<N(0), N(6)>>, <<Plus("i")>>), Return(<<V("s")>>)>>)
    IN  Expect(<<LocalFn("f", f), Return([i \in 1 .. 2 |-> Paren(G("f", <<S(Scripts[2 * (k - 1) + i])>>))])>>,
               Gives(<<Num(31), Num(31)>>))
Misleadings == [k \in 1 .. 8 |-> Misled(k)]

-----------------------------------------------------------------------------
(* Libraries, one program for each thing the families leave out.           *)

LibSingles == <<
    \* local t = {3, 1, 4, 1, 5, 9, 2} table.sort(t, function(a, b) return a > b end) return
    \*   table.concat(t, ",")
    Expect(<<Local(<<"t">>, <<New(<<Item(<<>>, N(3)), Item(<<>>, N(1)), Item(<<>>, N(4)), Item(<<>>,
      N(1)), Item(<<>>, N(5)), Item(<<>>, N(9)), Item(<<>>, N(2))>>)>>), Run(Lib("table", "sort",
      <<V("t"), Fn(<<"a", "b">>, <<Return(<<Bin(">", V("a"), V("b"))>>)>>)>>)),
      Return(<<Lib("table", "concat", <<V("t"), S(",")>>)>>)>>, Gives(<<Str("9,5,4,3,2,1,1")>>)),
    \* local t, s = {"b", "", "ab", "a"}, {2, 1} table.sort(t) return table.concat(t, ","),
    \*   (pcall(table.sort, {1, "a"})), (pcall(table.sort, {{}, {}})), (pcall(table.sort, s,
    \*   1)), s[1], table.sort({})
    Expect(<<Local(<<"t", "s">>, <<New(<<Item(<<>>, S("b")), Item(<<>>, S("")), Item(<<>>, S("ab")),
      Item(<<>>, S("a"))>>), New(<<Item(<<>>, N(2)), Item(<<>>, N(1))>>)>>), Run(Lib("table",
      "sort", <<V("t")>>)), Return(<<Lib("table", "concat", <<V("t"), S(",")>>), Paren(G("pcall",
      <<Dot("table", "sort"), New(<<Item(<<>>, N(1)), Item(<<>>, S("a"))>>)>>)), Paren(G("pcall",
      <<Dot("table", "sort"), New(<<Item(<<>>, New(<<>>)), Item(<<>>, New(<<>>))>>)>>)),
      Paren(G("pcall", <<Dot("table", "sort"), V("s"), N(1)>>)), At(V("s"), N(1)), Lib("table",
      "sort", <<New(<<>>)>>)>>)>>, Gives(<<Str(",a,ab,b"), Bool(FALSE), Bool(FALSE), Bool(FALSE),
      Num(2)>>)),
    \* local mt = {__lt = function(a, b) return a.v < b.v end} local function new(v) return
    \*   setmetatable({v = v}, mt) end local t = {new(3), new(1), new(2)} table.sort(t) return
    \*   t[1].v, t[2].v, t[3].v
    Expect(<<Local(<<"mt">>, <<New(<<Item(S("__lt"), Fn(<<"a", "b">>, <<Return(<<Bin("<", Dot("a",
      "v"), Dot("b", "v"))>>)>>))>>)>>), LocalFn("new", Fn(<<"v">>, <<Return(<<G("setmetatable",
      <<New(<<Item(S("v"), V("v"))>>), V("mt")>>)>>)>>)), Local(<<"t">>, <<New(<<Item(<<>>, G("new",
      <<N(3)>>)), Item(<<>>, G("new", <<N(1)>>)), Item(<<>>, G("new", <<N(2)>>))>>)>>),
      Run(Lib("table", "sort", <<V("t")>>)), Return(<<At(At(V("t"), N(1)), S("v")), At(At(V("t"),
      N(2)), S("v")), At(At(V("t"), N(3)), S("v"))>>)>>, Gives(<<Num(1), Num(2), Num(3)>>)),
    \* local n = 0 local ok, e = pcall(table.sort, {1, 2, 3, 4, 5}, function() n = n + 1 return
    \*   true end) return ok, n
    Expect(<<Loc1("n", N(0)), Local(<<"ok", "e">>, <<G("pcall", <<Dot("table", "sort"),
      New(<<Item(<<>>, N(1)), Item(<<>>, N(2)), Item(<<>>, N(3)), Item(<<>>, N(4)), Item(<<>>,
      N(5))>>), Fn(<<>>, <<Inc("n"), Return(<<TRU>>)>>)>>)>>), Return(<<V("ok"), V("n")>>)>>,
      Gives(<<Bool(FALSE), Num(7)>>)),
    \* local t = {3, 1, 2} table.sort(t, function(a, b) t[1] = 7 return a < b end) return
    \*   table.concat(t, ",")
    Expect(<<Local(<<"t">>, <<New(<<Item(<<>>, N(3)), Item(<<>>, N(1)), Item(<<>>, N(2))>>)>>),
      Run(Lib("table", "sort", <<V("t"), Fn(<<"a", "b">>, <<Assign(<<At(V("t"), N(1))>>, <<N(7)>>),
      Return(<<Bin("<", V("a"), V("b"))>>)>>)>>)), Return(<<Lib("table", "concat", <<V("t"),
      S(",")>>)>>)>>, Gives(<<Str("1,2,3")>>)),
    \* local t = {1, 2, 3} table.insert(t, 4) table.insert(t, 1, 0) table.insert(t, 6, 5) local
    \*   a, b = table.remove(t), table.remove(t, 2) return table.concat(t, ","), a, b,
    \*   table.remove(t, 9), table.remove({}), (pcall(table.insert, t)), (pcall(table.insert, t,
    \*   1, 2, 3)), (pcall(table.insert, t, "x", 2))
    Expect(<<Local(<<"t">>, <<New(<<Item(<<>>, N(1)), Item(<<>>, N(2)), Item(<<>>, N(3))>>)>>),
      Run(Lib("table", "insert", <<V("t"), N(4)>>)), Run(Lib("table", "insert", <<V("t"), N(1),
      N(0)>>)), Run(Lib("table", "insert", <<V("t"), N(6), N(5)>>)), Local(<<"a", "b">>,
      <<Lib("table", "remove", <<V("t")>>), Lib("table", "remove", <<V("t"), N(2)>>)>>),
      Return(<<Lib("table", "concat", <<V("t"), S(",")>>), V("a"), V("b"), Lib("table", "remove",
      <<V("t"), N(9)>>), Lib("table", "remove", <<New(<<>>)>>), Paren(G("pcall", <<Dot("table",
      "insert"), V("t")>>)), Paren(G("pcall", <<Dot("table", "insert"), V("t"), N(1), N(2),
      N(3)>>)), Paren(G("pcall", <<Dot("table", "insert"), V("t"), S("x"), N(2)>>))>>)>>,
      Gives(<<Str("0,2,3,4"), Num(5), Num(1), Nil, Nil, Bool(FALSE), Bool(FALSE), Bool(FALSE)>>)),
    \* local t, s = {5, 6, 7, x = 8}, "" local r = table.foreachi(t, function(i, v) s = s .. i
    \*   .. v if v == 6 then return i end end) local n = 0 table.foreach(t, function(k, v) n = n
    \*   + v t[k] = nil end) return r, s, n, next(t), table.foreach({}, type),
    \*   (pcall(table.foreach, t, 1))
    Expect(<<Local(<<"t", "s">>, <<New(<<Item(<<>>, N(5)), Item(<<>>, N(6)), Item(<<>>, N(7)),
      Item(S("x"), N(8))>>), S("")>>), Local(<<"r">>, <<Lib("table", "foreachi", <<V("t"), Fn(<<"i",
      "v">>, <<Set1("s", Bin("..", V("s"), Bin("..", V("i"), V("v")))), If(Bin("==", V("v"), N(6)),
      <<Return(<<V("i")>>)>>, <<>>)>>)>>)>>), Loc1("n", N(0)), Run(Lib("table", "foreach", <<V("t"),
      Fn(<<"k", "v">>, <<Set1("n", Bin("+", V("n"), V("v"))), Assign(<<At(V("t"), V("k"))>>,
      <<NIL>>)>>)>>)), Return(<<V("r"), V("s"), V("n"), G("next", <<V("t")>>), Lib("table",
      "foreach", <<New(<<>>), V("type")>>), Paren(G("pcall", <<Dot("table", "foreach"), V("t"),
      N(1)>>))>>)>>, Gives(<<Num(2), Str("1526"), Num(26), Nil, Nil, Bool(FALSE)>>)),
    \* local t = {5, 6, [9] = 1, x = 2, [-1] = 3} return table.maxn(t), table.maxn({}),
    \*   table.getn(t), (pcall(table.setn, t, 1)), table.concat(t), table.concat(t, "-", 2, 2),
    \*   table.concat(t, "-", 3, 2), (pcall(table.concat, t, "-", 1, 3)), table.concat({1, "a",
    \*   2}, 0)
    Expect(<<Local(<<"t">>, <<New(<<Item(<<>>, N(5)), Item(<<>>, N(6)), Item(N(9), N(1)),
      Item(S("x"), N(2)), Item(Un("-", N(1)), N(3))>>)>>), Return(<<Lib("table", "maxn",
      <<V("t")>>), Lib("table", "maxn", <<New(<<>>)>>), Lib("table", "getn", <<V("t")>>),
      Paren(G("pcall", <<Dot("table", "setn"), V("t"), N(1)>>)), Lib("table", "concat", <<V("t")>>),
      Lib("table", "concat", <<V("t"), S("-"), N(2), N(2)>>), Lib("table", "concat", <<V("t"),
      S("-"), N(3), N(2)>>), Paren(G("pcall", <<Dot("table", "concat"), V("t"), S("-"), N(1),
      N(3)>>)), Lib("table", "concat", <<New(<<Item(<<>>, N(1)), Item(<<>>, S("a")), Item(<<>>,
      N(2))>>), N(0)>>)>>)>>, Gives(<<Num(9), Num(0), Num(2), Bool(FALSE), Str("56"), Str("6"),
      Str(""), Bool(FALSE), Str("10a02")>>)),
    \* local t = {a = "1", b = false, c = 3} return string.gsub("abcd", "%w", t),
    \*   string.gsub("abcd", ".", function(c) if c == "b" then return c .. c elseif c == "c"
    \*   then return false end end)
    Expect(<<Local(<<"t">>, <<New(<<Item(S("a"), S("1")), Item(S("b"), FAL), Item(S("c"),
      N(3))>>)>>), Return(<<Lib("string", "gsub", <<S("abcd"), S("%w"), V("t")>>), Lib("string",
      "gsub", <<S("abcd"), S("."), Fn(<<"c">>, <<If(Bin("==", V("c"), S("b")), <<Return(<<Bin("..",
      V("c"), V("c"))>>)>>, <<If(Bin("==", V("c"), S("c")), <<Return(<<FAL>>)>>,
      <<>>)>>)>>)>>)>>)>>, Gives(<<Str("1b3d"), Str("abbcd"), Num(4)>>)),
    \* return (pcall(string.gsub, "ab", "%w", function() return {} end)), (pcall(string.gsub,
    \*   "ab", "%w", "%2")), (pcall(string.gsub, "ab", "%w", error)), (pcall(string.gsub, "ab",
    \*   "%w", TRUE)), string.gsub("ab", "%w", "%%%0%1"), string.gsub("hello", "l", "L", 1),
    \*   string.gsub("hello", "l", "L", 0), string.gsub("hello", "", "-", 3)
    Expect(<<Return(<<Paren(G("pcall", <<Dot("string", "gsub"), S("ab"), S("%w"), Fn(<<>>,
      <<Return(<<New(<<>>)>>)>>)>>)), Paren(G("pcall", <<Dot("string", "gsub"), S("ab"), S("%w"),
      S("%2")>>)), Paren(G("pcall", <<Dot("string", "gsub"), S("ab"), S("%w"), V("error")>>)),
      Paren(G("pcall", <<Dot("string", "gsub"), S("ab"), S("%w"), V("TRUE")>>)), Lib("string",
      "gsub", <<S("ab"), S("%w"), S("%%%0%1")>>), Lib("string", "gsub", <<S("hello"), S("l"),
      S("L"), N(1)>>), Lib("string", "gsub", <<S("hello"), S("l"), S("L"), N(0)>>), Lib("string",
      "gsub", <<S("hello"), S(""), S("-"), N(3)>>)>>)>>, Gives(<<Bool(FALSE), Bool(FALSE),
      Bool(FALSE), Bool(FALSE), Str("%aa%bb"), Str("heLlo"), Str("hello"), Str("-h-e-llo"),
      Num(3)>>)),
    \* local function outer(w) return (string.gsub(w, ".", function(c) return c ..
    \*   string.gsub("xy", "x", c) end)) end return string.gsub("ab c", "%a+", outer)
    Expect(<<LocalFn("outer", Fn(<<"w">>, <<Return(<<Paren(Lib("string", "gsub", <<V("w"), S("."),
      Fn(<<"c">>, <<Return(<<Bin("..", V("c"), Lib("string", "gsub", <<S("xy"), S("x"),
      V("c")>>))>>)>>)>>))>>)>>)), Return(<<Lib("string", "gsub", <<S("ab c"), S("%a+"),
      V("outer")>>)>>)>>, Gives(<<Str("aaybby ccy"), Num(2)>>)),
    \* local co = coroutine.create(function() return string.gsub("a", "a", coroutine.yield) end)
    \*   local d = coroutine.create(function() table.sort({1, 2}, coroutine.yield) end) return
    \*   coroutine.resume(co), coroutine.status(co), coroutine.resume(d)
    Expect(<<Local(<<"co">>, <<Co("create", <<Fn(<<>>, <<Return(<<Lib("string", "gsub", <<S("a"),
      S("a"), Dot("coroutine", "yield")>>)>>)>>)>>)>>), Local(<<"d">>, <<Co("create", <<Fn(<<>>,
      <<Run(Lib("table", "sort", <<New(<<Item(<<>>, N(1)), Item(<<>>, N(2))>>), Dot("coroutine",
      "yield")>>))>>)>>)>>), Return(<<Co("resume", <<V("co")>>), Co("status", <<V("co")>>),
      Co("resume", <<V("d")>>)>>)>>, Gives(<<Bool(FALSE), Str("dead"), Bool(FALSE),
      Str("attempt to yield across metamethod/C-call boundary")>>)),
    \* local co = coroutine.wrap(function() for w in string.gmatch("a b c", "%a") do
    \*   coroutine.yield(w) end end) return co(), co(), co(), co()
    Expect(<<Local(<<"co">>, <<Co("wrap", <<Fn(<<>>, <<ForIn(<<"w">>, <<Lib("string", "gmatch",
      <<S("a b c"), S("%a")>>)>>, <<Run(Co("yield", <<V("w")>>))>>)>>)>>)>>), Return(<<G("co",
      <<>>), G("co", <<>>), G("co", <<>>), G("co", <<>>)>>)>>, Gives(<<Str("a"), Str("b"),
      Str("c")>>)),
    \* local s = "ab" return s:rep(3), s.y, s:upper():lower(), #s, (pcall(function() s.x = 1
    \*   end)), string.z, s:byte(1, 2), s:len()
    Expect(<<Loc1("s", S("ab")), Return(<<Send(V("s"), "rep", <<N(3)>>), Dot("s", "y"),
      Send(Send(V("s"), "upper", <<>>), "lower", <<>>), Un("#", V("s")), Paren(G("pcall", <<Fn(<<>>,
      <<Assign(<<Dot("s", "x")>>, <<N(1)>>)>>)>>)), Dot("string", "z"), Send(V("s"), "byte", <<N(1),
      N(2)>>), Send(V("s"), "len", <<>>)>>)>>, Gives(<<Str("ababab"), Nil, Str("ab"), Num(2),
      Bool(FALSE), Nil, Num(97), Num(2)>>)),
    \* return string.byte("", 1), string.byte("abc", 0), string.byte("abc", -2),
    \*   string.byte("abc", 2, 9), string.char(), string.char(97, 98), string.rep("x", -1),
    \*   string.reverse("abc"), string.upper("a-B1"), (pcall(string.char, 256)),
    \*   (pcall(string.rep, "x", "y")), string.byte("abc", -9, 3)
    Expect(<<Return(<<Lib("string", "byte", <<S(""), N(1)>>), Lib("string", "byte", <<S("abc"),
      N(0)>>), Lib("string", "byte", <<S("abc"), Un("-", N(2))>>), Lib("string", "byte", <<S("abc"),
      N(2), N(9)>>), Lib("string", "char", <<>>), Lib("string", "char", <<N(97), N(98)>>),
      Lib("string", "rep", <<S("x"), Un("-", N(1))>>), Lib("string", "reverse", <<S("abc")>>),
      Lib("string", "upper", <<S("a-B1")>>), Paren(G("pcall", <<Dot("string", "char"), N(256)>>)),
      Paren(G("pcall", <<Dot("string", "rep"), S("x"), S("y")>>)), Lib("string", "byte", <<S("abc"),
      Un("-", N(9)), N(3)>>)>>)>>, Gives(<<Nil, Nil, Num(98), Num(98), Str(""), Str("ab"), Str(""),
      Str("cba"), Str("A-B1"), Bool(FALSE), Bool(FALSE), Num(97), Num(98), Num(99)>>)),
    \* return string.find("a)", "a)"), string.find("a+b", "+", 1, true), string.find("abc", "b",
    \*   -1), string.find("abc", "b", -9), string.find("abc", "", 9), string.find("abc", "^b"),
    \*   string.find("abc", "^b", 2), string.find("", ""), string.find("abc", "x")
    Expect(<<Return(<<Lib("string", "find", <<S("a)"), S("a)")>>), Lib("string", "find", <<S("a+b"),
      S("+"), N(1), TRU>>), Lib("string", "find", <<S("abc"), S("b"), Un("-", N(1))>>),
      Lib("string", "find", <<S("abc"), S("b"), Un("-", N(9))>>), Lib("string", "find", <<S("abc"),
      S(""), N(9)>>), Lib("string", "find", <<S("abc"), S("^b")>>), Lib("string", "find",
      <<S("abc"), S("^b"), N(2)>>), Lib("string", "find", <<S(""), S("")>>), Lib("string", "find",
      <<S("abc"), S("x")>>)>>)>>, Gives(<<Num(1), Num(2), Nil, Num(2), Num(4), Nil, Num(2), Num(1),
      Nil>>)),
    \* local r = "" for k, v in string.gmatch("a=1, b=2", "(%w)=(%w)") do r = r .. k .. v end
    \*   for p in string.gfind("abc", "()") do r = r .. p end for w in string.gmatch("^a^b",
    \*   "^a") do r = r .. w end return r, string.gsub("aab", "^a", "x"), string.match("key",
    \*   "()"), string.match(12, "%d"), (pcall(string.gmatch, "a"))
    Expect(<<Loc1("r", S("")), ForIn(<<"k", "v">>, <<Lib("string", "gmatch", <<S("a=1, b=2"),
      S("(%w)=(%w)")>>)>>, <<Set1("r", Bin("..", V("r"), Bin("..", V("k"), V("v"))))>>),
      ForIn(<<"p">>, <<Lib("string", "gfind", <<S("abc"), S("()")>>)>>, <<Set1("r", Bin("..",
      V("r"), V("p")))>>), ForIn(<<"w">>, <<Lib("string", "gmatch", <<S("^a^b"), S("^a")>>)>>,
      <<Set1("r", Bin("..", V("r"), V("w")))>>), Return(<<V("r"), Lib("string", "gsub", <<S("aab"),
      S("^a"), S("x")>>), Lib("string", "match", <<S("key"), S("()")>>), Lib("string", "match",
      <<N(12), S("%d")>>), Paren(G("pcall", <<Dot("string", "gmatch"), S("a")>>))>>)>>,
      Gives(<<Str("a1b21234^a"), Str("xab"), Num(1), Str("1"), Bool(FALSE)>>)),
    \* package.preload.m = function(name) return {name = name} end local a, b = require("m"),
    \*   require("m") return a == b, a.name, package.loaded.m == a, require("string") == string,
    \*   package.loaded._G == nil, (pcall(require, "none")), (pcall(require))
    Expect(<<Assign(<<At(Dot("package", "preload"), S("m"))>>, <<Fn(<<"name">>,
      <<Return(<<New(<<Item(S("name"), V("name"))>>)>>)>>)>>), Local(<<"a", "b">>, <<G("require",
      <<S("m")>>), G("require", <<S("m")>>)>>), Return(<<Bin("==", V("a"), V("b")), Dot("a",
      "name"), Bin("==", At(Dot("package", "loaded"), S("m")), V("a")), Bin("==", G("require",
      <<S("string")>>), V("string")), Bin("==", At(Dot("package", "loaded"), S("_G")), NIL),
      Paren(G("pcall", <<V("require"), S("none")>>)), Paren(G("pcall", <<V("require")>>))>>)>>,
      Gives(<<Bool(TRUE), Str("m"), Bool(TRUE), Bool(TRUE), Bool(FALSE), Bool(FALSE),
      Bool(FALSE)>>)),
    \* local n = 0 package.preload.bad = function() n = n + 1 error("x") end
    \*   package.preload.self = function(name) return (pcall(require, name)) end return
    \*   (pcall(require, "bad")), (pcall(require, "bad")), n, package.loaded.bad == nil,
    \*   require("self"), package.loaded.self
    Expect(<<Loc1("n", N(0)), Assign(<<At(Dot("package", "preload"), S("bad"))>>, <<Fn(<<>>,
      <<Inc("n"), Run(G("error", <<S("x")>>))>>)>>), Assign(<<At(Dot("package", "preload"),
      S("self"))>>, <<Fn(<<"name">>, <<Return(<<Paren(G("pcall", <<V("require"),
      V("name")>>))>>)>>)>>), Return(<<Paren(G("pcall", <<V("require"), S("bad")>>)),
      Paren(G("pcall", <<V("require"), S("bad")>>)), V("n"), Bin("==", At(Dot("package", "loaded"),
      S("bad")), NIL), G("require", <<S("self")>>), At(Dot("package", "loaded"), S("self"))>>)>>,
      Gives(<<Bool(FALSE), Bool(FALSE), Num(1), Bool(FALSE), Bool(FALSE), Bool(FALSE)>>)),
    \* local n = 0 local p = package.preload p.a = function() n = n + 1 end p.b = function() n =
    \*   n + 10 return false end p.c = function(name) package.loaded[name] = 7 end return
    \*   require("a"), require("a"), require("b"), require("b"), require("c"), n
    Expect(<<Loc1("n", N(0)), Loc1("p", Dot("package", "preload")), Assign(<<Dot("p", "a")>>,
      <<Fn(<<>>, <<Inc("n")>>)>>), Assign(<<Dot("p", "b")>>, <<Fn(<<>>, <<Set1("n", Bin("+", V("n"),
      N(10))), Return(<<FAL>>)>>)>>), Assign(<<Dot("p", "c")>>, <<Fn(<<"name">>,
      <<Assign(<<At(Dot("package", "loaded"), V("name"))>>, <<N(7)>>)>>)>>), Return(<<G("require",
      <<S("a")>>), G("require", <<S("a")>>), G("require", <<S("b")>>), G("require", <<S("b")>>),
      G("require", <<S("c")>>), V("n")>>)>>, Gives(<<Bool(TRUE), Bool(TRUE), Bool(FALSE),
      Bool(FALSE), Num(7), Num(21)>>)),
    \* local l = package.loaders table.insert(l, function(name) return function() return name ..
    \*   1 end end) local a = require("m") l[5] = nil local b = pcall(require, "k")
    \*   package.preload = 1 local c = pcall(require, "k") package.loaders = nil return a, b, c,
    \*   (pcall(require, "k")), require("m")
    Expect(<<Loc1("l", Dot("package", "loaders")), Run(Lib("table", "insert", <<V("l"),
      Fn(<<"name">>, <<Return(<<Fn(<<>>, <<Return(<<Bin("..", V("name"), N(1))>>)>>)>>)>>)>>)),
      Local(<<"a">>, <<G("require", <<S("m")>>)>>), Assign(<<At(V("l"), N(5))>>, <<NIL>>),
      Local(<<"b">>, <<G("pcall", <<V("require"), S("k")>>)>>), Assign(<<Dot("package",
      "preload")>>, <<N(1)>>), Local(<<"c">>, <<G("pcall", <<V("require"), S("k")>>)>>),
      Assign(<<Dot("package", "loaders")>>, <<NIL>>), Return(<<V("a"), V("b"), V("c"),
      Paren(G("pcall", <<V("require"), S("k")>>)), G("require", <<S("m")>>)>>)>>, Gives(<<Str("m1"),
      Bool(FALSE), Bool(FALSE), Bool(FALSE), Str("m1")>>)),
    \* local t = setmetatable({}, {__index = table}) t:insert(3) t:insert(1, 5) local s =
    \*   t:concat(",") t:sort() return s, t:concat(","), t:getn(), rawget(t, "sort")
    Expect(<<Local(<<"t">>, <<G("setmetatable", <<New(<<>>), New(<<Item(S("__index"),
      V("table"))>>)>>)>>), Run(Send(V("t"), "insert", <<N(3)>>)), Run(Send(V("t"), "insert",
      <<N(1), N(5)>>)), Local(<<"s">>, <<Send(V("t"), "concat", <<S(",")>>)>>), Run(Send(V("t"),
      "sort", <<>>)), Return(<<V("s"), Send(V("t"), "concat", <<S(",")>>), Send(V("t"), "getn",
      <<>>), G("rawget", <<V("t"), S("sort")>>)>>)>>, Gives(<<Str("5,3"), Str("3,5"), Num(2),
      Nil>>)) >>

-----------------------------------------------------------------------------
LibCorpus == Markings \o Capturings \o Iterations \o Refusals \o Partings \o Sortings
               \o Misleadings \o LibSingles
=============================================================================
