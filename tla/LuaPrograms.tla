---------------------------- MODULE LuaPrograms -----------------------------
(***************************************************************************)
(* The programs the compiler and the virtual machine are run on.  Most are *)
(* members of families: every way to write a condition in every place that *)
(* takes one, every way out of every loop whose body a closure outlives,   *)
(* every kind of operand of every operator, every context of an open call. *)
(* What a program is to answer is its Meaning; programs that use           *)
(* metatables, coroutines, next or the limits say it themselves.           *)
(***************************************************************************)
EXTENDS LuaMeaning

Program(b)         == [tokens |-> BlockTokens(b), answer |-> Meaning(b)]
Expect(b, answer)  == [tokens |-> BlockTokens(b), answer |-> ViewAnswer(answer)]
Gives(vals)        == <<"return", vals>>
Fails              == <<"error">>

G(f, args)         == Apply(V(f), args)
Co(f, args)        == Apply(At(V("coroutine"), S(f)), args)
Set1(name, e)      == Assign(<<V(name)>>, <<e>>)
Loc1(name, e)      == Local(<<name>>, <<e>>)
Inc(name)          == Set1(name, Bin("+", V(name), N(1)))

-----------------------------------------------------------------------------
(* Conditions: two connectives, three operands, in seven places. *)

Vars == <<"a", "b", "c">>
Leaf(form, i) ==
    CASE form = 0 -> V(Vars[i])
      [] form = 1 -> Un("not", V(Vars[i]))
      [] form = 2 -> Bin("==", V(Vars[i]), N(i))
      [] form = 3 -> Bin("~=", V(Vars[i]), N(i))
      [] form = 4 -> <<TRU, NIL, N(3)>>[i]
      [] form = 5 -> Bin("<", N(2), N(i))

Connective(bit) == IF bit = 0 THEN "and" ELSE "or"
Condition(k, form) ==
    LET x == Leaf(form % 6, 1)
        y == Leaf((form + k) % 6, 2)
        z == Leaf((form + 2 * k + 1) % 6, 3)
        op1 == Connective(k % 2)
        op2 == Connective((k \div 2) % 2)
        e   == IF (k \div 4) % 2 = 0 THEN Bin(op2, Bin(op1, x, y), z) ELSE Bin(op1, x, Bin(op2, y, z))
    IN  IF k >= 8 THEN Un("not", e) ELSE e

Place7(u, e) ==
    CASE u = 0 -> <<If(e, <<Return(<<S("t")>>)>>, <<Return(<<S("f")>>)>>)>>
      [] u = 1 -> <<Loc1("r", e), Return(<<V("r")>>)>>
      [] u = 2 -> <<Return(<<e>>)>>
      [] u = 3 -> <<Loc1("i", N(0)),
                    While(e, <<Inc("i"), If(Bin(">", V("i"), N(1)), <<Break>>, <<>>)>>),
                    Return(<<V("i")>>)>>
      [] u = 4 -> <<Loc1("i", N(0)),
                    RepeatUntil(<<Loc1("a", V("b")), Inc("i")>>, Bin("or", e, Bin(">", V("i"), N(1)))),
                    Return(<<V("i")>>)>>
      [] u = 5 -> <<Set1("g", e), Return(<<V("g")>>)>>
      [] u = 6 -> <<Return(<<At(New(<<Item(<<>>, Bin("==", Paren(e), V("a")))>>), N(1))>>)>>

Inputs == << <<NIL, FAL, NIL>>, <<N(1), FAL, NIL>>, <<NIL, N(2), NIL>>, <<N(1), N(2), NIL>>,
             <<NIL, FAL, N(3)>>, <<N(1), FAL, N(3)>>, <<NIL, N(2), N(3)>>, <<N(1), N(2), N(3)>> >>

Conditional(k, u, form) ==
    <<LocalFn("f", Fn(Vars, Place7(u, Condition(k, form)))),
      Return([i \in DOMAIN Inputs |-> G("f", Inputs[i])])>>

Conditionals == [n \in 1 .. 64 |-> Conditional(n % 16, (n + n \div 16) % 7, n \div 2)]

-----------------------------------------------------------------------------
(* Loops whose body makes a closure over a variable of its own, and the    *)
(* ways out of them.                                                       *)

LoopKinds == <<"while", "repeat", "for", "in">>
ExitKinds == <<"end", "break", "return", "error">>

ExitBy(kind) ==
    CASE kind = "end"    -> <<>>
      [] kind = "break"  -> <<Break>>
      [] kind = "return" -> <<Return(<<V("x")>>)>>
      [] kind = "error"  -> <<Run(G("error", <<V("x")>>))>>

Loop4(kind, body) ==
    CASE kind = "while"  -> While(Bin("<", V("k"), N(3)), body)
      [] kind = "repeat" -> RepeatUntil(body, Bin(">", V("x"), N(2)))
      [] kind = "for"    -> For("i", <<N(1), N(3)>>, body)
      [] kind = "in"     ->
            ForIn(<<"i", "j">>,
                  <<Fn(<<"s", "v">>, <<If(Bin("<", V("v"), V("s")),
                                         <<Return(<<Bin("+", V("v"), N(1)), V("v")>>)>>, <<>>)>>),
                    N(3), N(0)>>, body)

Outlived(loop, exit) ==
    LET own  == IF loop \in {"for", "in"} THEN "i" ELSE "x"
        body == <<Inc("k"), Loc1("x", V("k")),
                  Assign(<<At(V("fs"), V("k"))>>,
                         <<Fn(<<>>, <<Inc(own), Return(<<V(own), Bin("+", V("x"), V("k"))>>)>>)>>),
                  If(Bin("==", V("k"), N(2)), ExitBy(exit), <<>>)>>
        Twice(i) == <<Apply(At(V("fs"), N(i)), <<>>), Apply(At(V("fs"), N(i)), <<>>)>>
    IN  <<Local(<<"fs", "k">>, <<New(<<>>), N(0)>>),
          Local(<<"ok", "r">>, <<G("pcall", <<Fn(<<>>, <<Loop4(loop, body), Return(<<V("k")>>)>>)>>)>>),
          Return(Twice(1) \o Twice(2) \o <<V("ok"), V("k"), At(V("fs"), N(3))>>)>>

Loops == [n \in 1 .. 16 |-> Outlived(LoopKinds[1 + (n % 4)], ExitKinds[1 + (n - 1) \div 4])]

-----------------------------------------------------------------------------
(* Operators on every kind of operand. *)

Operators == <<"+", "-", "*", "%", "^", "..", "==", "~=", "<", "<=", ">", ">=">>
Operated(op) ==
    LET fn == Fn(<<"a">>,
                 <<Loc1("t", New(<<Item(<<>>, N(4)), Item(S("x"), N(2))>>)), Set1("g", N(3)),
                   Return(<<Bin(op, N(7), N(2)), Bin(op, N(7), V("a")), Bin(op, V("a"), N(7)),
                            Bin(op, V("u"), V("a")), Bin(op, V("g"), V("u")),
                            Bin(op, At(V("t"), N(1)), At(V("t"), S("x"))),
                            Bin("==", Paren(Bin(op, N(3), N(2))), V("a")),
                            Paren(G("pcall", <<Fn(<<>>, <<Return(<<Bin(op, V("a"), New(<<>>))>>)>>)>>))>>)>>)
    IN  <<Loc1("u", N(5)), LocalFn("f", fn), Return(<<G("f", <<N(2)>>), G("f", <<N(5)>>)>>)>>

Operations == [i \in DOMAIN Operators |-> Operated(Operators[i])]

-----------------------------------------------------------------------------
(* A call with any number of results in every context that takes it whole *)
(* or cuts it.                                                             *)

Contexts ==
    LET f == G("f", <<Rest>>)
        ListOf(items) == [i \in DOMAIN items |-> Item(<<>>, items[i])]
    IN  << <<Return(<<f>>)>>, <<Return(<<f, f>>)>>, <<Return(<<Paren(f)>>)>>,
           <<Local(<<"a", "b", "c">>, <<f>>), Return(<<V("a"), V("b"), V("c")>>)>>,
           <<Local(<<"a", "b">>, <<N(0), f>>), Return(<<V("a"), V("b")>>)>>,
           <<Local(<<"a", "b">>, <<>>), Assign(<<V("a"), V("b"), V("g")>>, <<f, f>>),
             Return(<<V("a"), V("b"), V("g")>>)>>,
           <<Return(<<G("f", <<N(0), f>>)>>)>>, <<Return(<<G("f", <<f, Paren(Rest)>>)>>)>>,
           <<Loc1("t", New(ListOf(<<f, N(5), f>>))),
             Return(<<Un("#", V("t")), At(V("t"), N(1)), At(V("t"), N(3)), At(V("t"), N(4))>>)>>,
           <<Loc1("t", New(ListOf(<<N(1), N(2), N(3), N(4), Rest>>))),
             Return(<<Un("#", V("t")), At(V("t"), N(4)), At(V("t"), N(5))>>)>>,
           <<Run(f), Return(<<Bin("..", S("x"), Bin("..", S("y"), S("z"))), Rest>>)>> >>

Opened(body) ==
    <<LocalFn("f", VaFn(<<>>, <<Return(<<Rest>>)>>)), LocalFn("h", VaFn(<<>>, body)),
      LocalFn("count", VaFn(<<"x">>, <<If(Bin("==", V("x"), NIL), <<Return(<<N(0)>>)>>, <<>>),
                                      Return(<<Bin("+", N(1), G("count", <<Rest>>))>>)>>)),
      Return(<<G("count", <<G("h", <<>>)>>), G("count", <<G("h", <<N(6)>>)>>),
               G("count", <<G("h", <<N(7), N(8), N(9)>>)>>), G("h", <<N(4), N(5)>>)>>)>>

Opens == [i \in DOMAIN Contexts |-> Opened(Contexts[i])]

-----------------------------------------------------------------------------
(* One program for each thing the families leave out, under its source.    *)

Dot(t, n) == At(V(t), S(n))

Singles == <<
    \* local n, a = 0 repeat local b if b then a = b end b = 5 n = n + 1 until n == 2 return a
    <<Local(<<"n", "a">>, <<N(0)>>), RepeatUntil(<<Local(<<"b">>, <<>>), If(V("b"), <<Set1("a",
      V("b"))>>, <<>>), Set1("b", N(5)), Inc("n")>>, Bin("==", V("n"), N(2))), Return(<<V("a")>>)>>,
    \* local function f(n, acc) if n == 0 then return acc end return f(n - 1, acc + n) end return
    \*   f(4, 0)
    <<LocalFn("f", Fn(<<"n", "acc">>, <<If(Bin("==", V("n"), N(0)), <<Return(<<V("acc")>>)>>, <<>>),
      Return(<<G("f", <<Bin("-", V("n"), N(1)), Bin("+", V("acc"), V("n"))>>)>>)>>)),
      Return(<<G("f", <<N(4), N(0)>>)>>)>>,
    \* local function f(n) if n == 0 then return 0 end return n + f(n - 1) end return f(4)
    <<LocalFn("f", Fn(<<"n">>, <<If(Bin("==", V("n"), N(0)), <<Return(<<N(0)>>)>>, <<>>),
      Return(<<Bin("+", V("n"), G("f", <<Bin("-", V("n"), N(1))>>))>>)>>)), Return(<<G("f",
      <<N(4)>>)>>)>>,
    \* local a = {} local i = 1 i, a[i], a = i + 1, 20, {30} return i, a[1], a[2]
    <<Local(<<"a">>, <<New(<<>>)>>), Loc1("i", N(1)), Assign(<<V("i"), At(V("a"), V("i")), V("a")>>,
      <<Bin("+", V("i"), N(1)), N(20), New(<<Item(<<>>, N(30))>>)>>), Return(<<V("i"), At(V("a"),
      N(1)), At(V("a"), N(2))>>)>>,
    \* local a, b, t = 1, 2, {} t[1], t[2], a, b = b, a, t[1], t[2] a, b = b, a return t[1], t[2],
    \*   a, b
    <<Local(<<"a", "b", "t">>, <<N(1), N(2), New(<<>>)>>), Assign(<<At(V("t"), N(1)), At(V("t"),
      N(2)), V("a"), V("b")>>, <<V("b"), V("a"), At(V("t"), N(1)), At(V("t"), N(2))>>),
      Assign(<<V("a"), V("b")>>, <<V("b"), V("a")>>), Return(<<At(V("t"), N(1)), At(V("t"), N(2)),
      V("a"), V("b")>>)>>,
    \* local function f() local x = 0 return function() local function g() x = x + 1 return x end
    \*   return g end end local g, h = f(), f() return g()(), g()(), h()()
    <<LocalFn("f", Fn(<<>>, <<Loc1("x", N(0)), Return(<<Fn(<<>>, <<LocalFn("g", Fn(<<>>, <<Inc("x"),
      Return(<<V("x")>>)>>)), Return(<<V("g")>>)>>)>>)>>)), Local(<<"g", "h">>, <<G("f", <<>>),
      G("f", <<>>)>>), Return(<<Apply(G("g", <<>>), <<>>), Apply(G("g", <<>>), <<>>), Apply(G("h",
      <<>>), <<>>)>>)>>,
    \* local f do local x = 1 f = function() x = x + 1 return x end local y = 5 end local z = 7
    \*   return f(), f(), z
    <<Local(<<"f">>, <<>>), Do(<<Loc1("x", N(1)), Assign(<<V("f")>>, <<Fn(<<>>, <<Inc("x"),
      Return(<<V("x")>>)>>)>>), Loc1("y", N(5))>>), Loc1("z", N(7)), Return(<<G("f", <<>>), G("f",
      <<>>), V("z")>>)>>,
    \* local t = {z = 5} function t:f(y) return self.z + y end return t:f(3), t.f(t, 4)
    <<Local(<<"t">>, <<New(<<Item(S("z"), N(5))>>)>>), Method("t", "f", Fn(<<"y">>,
      <<Return(<<Bin("+", Dot("self", "z"), V("y"))>>)>>)), Return(<<Send(V("t"), "f", <<N(3)>>),
      Apply(Dot("t", "f"), <<V("t"), N(4)>>)>>)>>,
    \* local function f(x) if x == 1 then return "a" elseif x == 2 then return "b" else return "c"
    \*   end end return f(1), f(2), f(3)
    <<LocalFn("f", Fn(<<"x">>, <<If(Bin("==", V("x"), N(1)), <<Return(<<S("a")>>)>>, <<If(Bin("==",
      V("x"), N(2)), <<Return(<<S("b")>>)>>, <<Return(<<S("c")>>)>>)>>)>>)), Return(<<G("f",
      <<N(1)>>), G("f", <<N(2)>>), G("f", <<N(3)>>)>>)>>,
    \* local s = "" for i = 3, 1, -1 do for j = i, 2 do if j == 2 then break end s = s .. i .. j
    \*   end s = s .. "x" end return s
    <<Loc1("s", S("")), For("i", <<N(3), N(1), Un("-", N(1))>>, <<For("j", <<V("i"), N(2)>>,
      <<If(Bin("==", V("j"), N(2)), <<Break>>, <<>>), Set1("s", Bin("..", V("s"), Bin("..", V("i"),
      V("j"))))>>), Set1("s", Bin("..", V("s"), S("x")))>>), Return(<<V("s")>>)>>,
    \* local t = {10, x = 1, 20, [3] = 30, 40, 50} t.y, t.w, t.v, t.u = 2, 3, 4, 5 return t[1],
    \*   t[2], t[3], t[4], t.x + t.y + t.u, -t.w, not t.q
    <<Local(<<"t">>, <<New(<<Item(<<>>, N(10)), Item(S("x"), N(1)), Item(<<>>, N(20)), Item(N(3),
      N(30)), Item(<<>>, N(40)), Item(<<>>, N(50))>>)>>), Assign(<<Dot("t", "y"), Dot("t", "w"),
      Dot("t", "v"), Dot("t", "u")>>, <<N(2), N(3), N(4), N(5)>>), Return(<<At(V("t"), N(1)),
      At(V("t"), N(2)), At(V("t"), N(3)), At(V("t"), N(4)), Bin("+", Bin("+", Dot("t", "x"),
      Dot("t", "y")), Dot("t", "u")), Un("-", Dot("t", "w")), Un("not", Dot("t", "q"))>>)>>,
    \* local t = {1, 2, ..., 17} t[18], t[19] = 18, 19 return t[9], t[17], t[18] + t[19], t[20]
    <<Local(<<"t">>, <<New([i \in 1 .. 17 |-> Item(<<>>, N(i))])>>), Assign(<<At(V("t"), N(18)),
      At(V("t"), N(19))>>, <<N(18), N(19)>>), Return(<<At(V("t"), N(9)), At(V("t"), N(17)),
      Bin("+", At(V("t"), N(18)), At(V("t"), N(19))), At(V("t"), N(20))>>)>>,
    \* local x = 1 local x, y = x + 1, x do local x = 9 y = y + x end return x, y, -x ^ 2, 2 ^ 3 ^
    \*   0, "1" + 1, "a" .. 1 .. 2
    <<Loc1("x", N(1)), Local(<<"x", "y">>, <<Bin("+", V("x"), N(1)), V("x")>>), Do(<<Loc1("x",
      N(9)), Set1("y", Bin("+", V("y"), V("x")))>>), Return(<<V("x"), V("y"), Un("-", Bin("^",
      V("x"), N(2))), Bin("^", N(2), Bin("^", N(3), N(0))), Bin("+", S("1"), N(1)), Bin("..",
      S("a"), Bin("..", N(1), N(2)))>>)>> >>

Others == <<
    \* local t = setmetatable({}, {__index = function(t, k) return k .. "b" end, __newindex =
    \*   function(t, k, v) rawset(t, k, v + 1) end}) t.a = 1 t.a = 5 return t.a, t.b
    Expect(<<Local(<<"t">>, <<G("setmetatable", <<New(<<>>), New(<<Item(S("__index"), Fn(<<"t",
      "k">>, <<Return(<<Bin("..", V("k"), S("b"))>>)>>)), Item(S("__newindex"), Fn(<<"t", "k",
      "v">>, <<Run(G("rawset", <<V("t"), V("k"), Bin("+", V("v"), N(1))>>))>>))>>)>>)>>),
      Assign(<<Dot("t", "a")>>, <<N(1)>>), Assign(<<Dot("t", "a")>>, <<N(5)>>), Return(<<Dot("t",
      "a"), Dot("t", "b")>>)>>, Gives(<<Num(5), Str("bb")>>)),
    \* local t = setmetatable({}, {__index = setmetatable({x = 1}, {__index = {y = 2}})}) return
    \*   t.x, t.y, t.z
    Expect(<<Local(<<"t">>, <<G("setmetatable", <<New(<<>>), New(<<Item(S("__index"),
      G("setmetatable", <<New(<<Item(S("x"), N(1))>>), New(<<Item(S("__index"), New(<<Item(S("y"),
      N(2))>>))>>)>>))>>)>>)>>), Return(<<Dot("t", "x"), Dot("t", "y"), Dot("t", "z")>>)>>,
      Gives(<<Num(1), Num(2), Nil>>)),
    \* local mt = {} local t = setmetatable({}, mt) local a = t.x t.y = 1 mt.__index = {x = 2}
    \*   rawset(mt, "__newindex", function(t, k, v) rawset(t, k, 7) end) t.z = 1 return a, t.x,
    \*   t.y, t.z
    Expect(<<Local(<<"mt">>, <<New(<<>>)>>), Local(<<"t">>, <<G("setmetatable", <<New(<<>>),
      V("mt")>>)>>), Loc1("a", Dot("t", "x")), Assign(<<Dot("t", "y")>>, <<N(1)>>),
      Assign(<<Dot("mt", "__index")>>, <<New(<<Item(S("x"), N(2))>>)>>), Run(G("rawset", <<V("mt"),
      S("__newindex"), Fn(<<"t", "k", "v">>, <<Run(G("rawset", <<V("t"), V("k"), N(7)>>))>>)>>)),
      Assign(<<Dot("t", "z")>>, <<N(1)>>), Return(<<V("a"), Dot("t", "x"), Dot("t", "y"), Dot("t",
      "z")>>)>>, Gives(<<Nil, Num(2), Num(1), Num(7)>>)),
    \* local mt = {} mt.__eq = function() return true end local a, b = setmetatable({}, mt),
    \*   setmetatable({}, mt) local r = a == b mt.__eq = nil local s = a == b mt.__eq = function()
    \*   return 1 end return r, s, a == b, a ~= b, a == 1
    Expect(<<Local(<<"mt">>, <<New(<<>>)>>), Assign(<<Dot("mt", "__eq")>>, <<Fn(<<>>,
      <<Return(<<TRU>>)>>)>>), Local(<<"a", "b">>, <<G("setmetatable", <<New(<<>>), V("mt")>>),
      G("setmetatable", <<New(<<>>), V("mt")>>)>>), Loc1("r", Bin("==", V("a"), V("b"))),
      Assign(<<Dot("mt", "__eq")>>, <<NIL>>), Loc1("s", Bin("==", V("a"), V("b"))),
      Assign(<<Dot("mt", "__eq")>>, <<Fn(<<>>, <<Return(<<N(1)>>)>>)>>), Return(<<V("r"), V("s"),
      Bin("==", V("a"), V("b")), Bin("~=", V("a"), V("b")), Bin("==", V("a"), N(1))>>)>>,
      Gives(<<Bool(TRUE), Bool(FALSE), Bool(TRUE), Bool(FALSE), Bool(FALSE)>>)),
    \* local function e(r) return function() return r end end local mt = {__add = e(1), __concat =
    \*   e("k"), __lt = e(nil), __call = function(self, x) return x end, __unm = e(4)} local a, b
    \*   = setmetatable({}, mt), setmetatable({}, mt) return a + 1, 1 + a, a .. "x" .. "y", "x" ..
    \*   "y" .. a, a < b, a <= b, a(7), -a, (pcall(function() return a < 1 end))
    Expect(<<LocalFn("e", Fn(<<"r">>, <<Return(<<Fn(<<>>, <<Return(<<V("r")>>)>>)>>)>>)),
      Local(<<"mt">>, <<New(<<Item(S("__add"), G("e", <<N(1)>>)), Item(S("__concat"), G("e",
      <<S("k")>>)), Item(S("__lt"), G("e", <<NIL>>)), Item(S("__call"), Fn(<<"self", "x">>,
      <<Return(<<V("x")>>)>>)), Item(S("__unm"), G("e", <<N(4)>>))>>)>>), Local(<<"a", "b">>,
      <<G("setmetatable", <<New(<<>>), V("mt")>>), G("setmetatable", <<New(<<>>), V("mt")>>)>>),
      Return(<<Bin("+", V("a"), N(1)), Bin("+", N(1), V("a")), Bin("..", V("a"), Bin("..", S("x"),
      S("y"))), Bin("..", S("x"), Bin("..", S("y"), V("a"))), Bin("<", V("a"), V("b")), Bin("<=",
      V("a"), V("b")), G("a", <<N(7)>>), Un("-", V("a")), Paren(G("pcall", <<Fn(<<>>,
      <<Return(<<Bin("<", V("a"), N(1))>>)>>)>>))>>)>>, Gives(<<Num(1), Num(1), Str("k"), Str("xk"),
      Bool(FALSE), Bool(TRUE), Num(7), Num(4), Bool(FALSE)>>)),
    \* local t = {} setmetatable(t, {__index = t, __newindex = t}) return pcall(function() return
    \*   t.x end), pcall(function() t.x = 1 end), rawget(t, "x")
    Expect(<<Local(<<"t">>, <<New(<<>>)>>), Run(G("setmetatable", <<V("t"), New(<<Item(S("__index"),
      V("t")), Item(S("__newindex"), V("t"))>>)>>)), Return(<<G("pcall", <<Fn(<<>>,
      <<Return(<<Dot("t", "x")>>)>>)>>), G("pcall", <<Fn(<<>>, <<Assign(<<Dot("t", "x")>>,
      <<N(1)>>)>>)>>), G("rawget", <<V("t"), S("x")>>)>>)>>, Gives(<<Bool(FALSE), Bool(FALSE),
      Nil>>)),
    \* local f local ok, m = pcall(function() local x = 1 f = function() x = x + 1 return x end
    \*   error("e", 0) end) local y, z = 8, 9 return ok, m, f(), f()
    Expect(<<Local(<<"f">>, <<>>), Local(<<"ok", "m">>, <<G("pcall", <<Fn(<<>>, <<Loc1("x", N(1)),
      Assign(<<V("f")>>, <<Fn(<<>>, <<Inc("x"), Return(<<V("x")>>)>>)>>), Run(G("error", <<S("e"),
      N(0)>>))>>)>>)>>), Local(<<"y", "z">>, <<N(8), N(9)>>), Return(<<V("ok"), V("m"), G("f",
      <<>>), G("f", <<>>)>>)>>, Gives(<<Bool(FALSE), Str("e"), Num(2), Num(3)>>)),
    \* return xpcall(function() local x = nil return x.y end, function(m) return "h" end)
    Expect(<<Return(<<G("xpcall", <<Fn(<<>>, <<Loc1("x", NIL), Return(<<Dot("x", "y")>>)>>),
      Fn(<<"m">>, <<Return(<<S("h")>>)>>)>>)>>)>>, Gives(<<Bool(FALSE), Str("h")>>)),
    \* return xpcall(function() error("a") end, function(m) error("b") end)
    Expect(<<Return(<<G("xpcall", <<Fn(<<>>, <<Run(G("error", <<S("a")>>))>>), Fn(<<"m">>,
      <<Run(G("error", <<S("b")>>))>>)>>)>>)>>, Gives(<<Bool(FALSE),
      Str("error in error handling")>>)),
    \* local d = 0 local function f() d = d + 1 f() return 1 end local ok = pcall(f) local e = d d
    \*   = 0 return ok, e > 5, pcall(f), e < d
    Expect(<<Loc1("d", N(0)), LocalFn("f", Fn(<<>>, <<Inc("d"), Run(G("f", <<>>)),
      Return(<<N(1)>>)>>)), Local(<<"ok">>, <<G("pcall", <<V("f")>>)>>), Loc1("e", V("d")),
      Set1("d", N(0)), Return(<<V("ok"), Bin(">", V("e"), N(5)), G("pcall", <<V("f")>>), Bin("<",
      V("e"), V("d"))>>)>>, Gives(<<Bool(FALSE), Bool(TRUE), Bool(FALSE), Bool(TRUE)>>)),
    \* local d = 0 local function f() d = d + 1 pcall(f) return d end local n = f() d = 0 return n
    \*   > 5, f() == n
    Expect(<<Loc1("d", N(0)), LocalFn("f", Fn(<<>>, <<Inc("d"), Run(G("pcall", <<V("f")>>)),
      Return(<<V("d")>>)>>)), Local(<<"n">>, <<G("f", <<>>)>>), Set1("d", N(0)), Return(<<Bin(">",
      V("n"), N(5)), Bin("==", G("f", <<>>), V("n"))>>)>>, Gives(<<Bool(TRUE), Bool(TRUE)>>)),
    \* local function f() f() return 1 end return xpcall(f, function(m) return f() end)
    Expect(<<LocalFn("f", Fn(<<>>, <<Run(G("f", <<>>)), Return(<<N(1)>>)>>)), Return(<<G("xpcall",
      <<V("f"), Fn(<<"m">>, <<Return(<<G("f", <<>>)>>)>>)>>)>>)>>, Gives(<<Bool(FALSE),
      Str("error in error handling")>>)),
    \* local co = coroutine.create(function(a, b) local c = coroutine.yield(a + b) local d, e =
    \*   coroutine.yield(c * 2) return d, e end) local r1, v1 = coroutine.resume(co, 1, 2) local
    \*   r2, v2 = coroutine.resume(co, 5) local s = coroutine.status(co) local r3, v3, v4 =
    \*   coroutine.resume(co, 8, 9) return r1, v1, r2, v2, s, r3, v3, v4, (coroutine.resume(co)),
    \*   coroutine.status(co)
    Expect(<<Local(<<"co">>, <<Co("create", <<Fn(<<"a", "b">>, <<Local(<<"c">>, <<Co("yield",
      <<Bin("+", V("a"), V("b"))>>)>>), Local(<<"d", "e">>, <<Co("yield", <<Bin("*", V("c"),
      N(2))>>)>>), Return(<<V("d"), V("e")>>)>>)>>)>>), Local(<<"r1", "v1">>, <<Co("resume",
      <<V("co"), N(1), N(2)>>)>>), Local(<<"r2", "v2">>, <<Co("resume", <<V("co"), N(5)>>)>>),
      Local(<<"s">>, <<Co("status", <<V("co")>>)>>), Local(<<"r3", "v3", "v4">>, <<Co("resume",
      <<V("co"), N(8), N(9)>>)>>), Return(<<V("r1"), V("v1"), V("r2"), V("v2"), V("s"), V("r3"),
      V("v3"), V("v4"), Paren(Co("resume", <<V("co")>>)), Co("status", <<V("co")>>)>>)>>,
      Gives(<<Bool(TRUE), Num(3), Bool(TRUE), Num(10), Str("suspended"), Bool(TRUE), Num(8), Num(9),
      Bool(FALSE), Str("dead")>>)),
    \* local co = coroutine.create(function() local x = 1 local f = function() x = x + 1 return x
    \*   end coroutine.yield(f) x = x + 10 coroutine.yield(f) error("e") end) local _, f =
    \*   coroutine.resume(co) local a = f() coroutine.resume(co) local b = f()
    \*   coroutine.resume(co) return a, b, f(), coroutine.status(co), (coroutine.resume(co)), f()
    Expect(<<Local(<<"co">>, <<Co("create", <<Fn(<<>>, <<Loc1("x", N(1)), Local(<<"f">>, <<Fn(<<>>,
      <<Inc("x"), Return(<<V("x")>>)>>)>>), Run(Co("yield", <<V("f")>>)), Set1("x", Bin("+", V("x"),
      N(10))), Run(Co("yield", <<V("f")>>)), Run(G("error", <<S("e")>>))>>)>>)>>), Local(<<"_",
      "f">>, <<Co("resume", <<V("co")>>)>>), Local(<<"a">>, <<G("f", <<>>)>>), Run(Co("resume",
      <<V("co")>>)), Local(<<"b">>, <<G("f", <<>>)>>), Run(Co("resume", <<V("co")>>)),
      Return(<<V("a"), V("b"), G("f", <<>>), Co("status", <<V("co")>>), Paren(Co("resume",
      <<V("co")>>)), G("f", <<>>)>>)>>, Gives(<<Num(2), Num(13), Num(14), Str("dead"), Bool(FALSE),
      Num(15)>>)),
    \* local g, h g = coroutine.create(function() return coroutine.status(g), coroutine.resume(h)
    \*   end) h = coroutine.create(function() return coroutine.status(g), (coroutine.resume(g)),
    \*   (coroutine.resume(h)) end) return coroutine.resume(g)
    Expect(<<Local(<<"g", "h">>, <<>>), Assign(<<V("g")>>, <<Co("create", <<Fn(<<>>,
      <<Return(<<Co("status", <<V("g")>>), Co("resume", <<V("h")>>)>>)>>)>>)>>), Assign(<<V("h")>>,
      <<Co("create", <<Fn(<<>>, <<Return(<<Co("status", <<V("g")>>), Paren(Co("resume",
      <<V("g")>>)), Paren(Co("resume", <<V("h")>>))>>)>>)>>)>>), Return(<<Co("resume",
      <<V("g")>>)>>)>>, Gives(<<Bool(TRUE), Str("running"), Bool(TRUE), Str("normal"), Bool(FALSE),
      Bool(FALSE)>>)),
    \* local co = coroutine.create(function() local ok = pcall(coroutine.yield, 1) local t =
    \*   setmetatable({}, {__index = function(t, k) return coroutine.yield(k) end}) return ok,
    \*   coroutine.yield(2), pcall(function() return t.x end), t.y end) local a, b =
    \*   coroutine.resume(co) local c, d = coroutine.resume(co, 3) return a, b, c,
    \*   coroutine.status(co)
    Expect(<<Local(<<"co">>, <<Co("create", <<Fn(<<>>, <<Local(<<"ok">>, <<G("pcall",
      <<Dot("coroutine", "yield"), N(1)>>)>>), Local(<<"t">>, <<G("setmetatable", <<New(<<>>),
      New(<<Item(S("__index"), Fn(<<"t", "k">>, <<Return(<<Co("yield", <<V("k")>>)>>)>>))>>)>>)>>),
      Return(<<V("ok"), Co("yield", <<N(2)>>), G("pcall", <<Fn(<<>>, <<Return(<<Dot("t",
      "x")>>)>>)>>), Dot("t", "y")>>)>>)>>)>>), Local(<<"a", "b">>, <<Co("resume", <<V("co")>>)>>),
      Local(<<"c", "d">>, <<Co("resume", <<V("co"), N(3)>>)>>), Return(<<V("a"), V("b"), V("c"),
      Co("status", <<V("co")>>)>>)>>, Gives(<<Bool(TRUE), Num(2), Bool(FALSE), Str("dead")>>)),
    \* local f = coroutine.wrap(function() for i = 1, 2 do coroutine.yield(i) end end) return f(),
    \*   f(), f(), (pcall(f))
    Expect(<<Local(<<"f">>, <<Co("wrap", <<Fn(<<>>, <<For("i", <<N(1), N(2)>>, <<Run(Co("yield",
      <<V("i")>>))>>)>>)>>)>>), Return(<<G("f", <<>>), G("f", <<>>), G("f", <<>>), Paren(G("pcall",
      <<V("f")>>))>>)>>, Gives(<<Num(1), Num(2), Nil, Bool(FALSE)>>)),
    \* local n = 0 local function f() n = n + 1 local co = coroutine.create(f) return
    \*   coroutine.resume(co) end local ok = f() local m = n n = 0 return ok, m > 5, f(), n == m
    Expect(<<Loc1("n", N(0)), LocalFn("f", Fn(<<>>, <<Inc("n"), Local(<<"co">>, <<Co("create",
      <<V("f")>>)>>), Return(<<Co("resume", <<V("co")>>)>>)>>)), Local(<<"ok">>, <<G("f", <<>>)>>),
      Loc1("m", V("n")), Set1("n", N(0)), Return(<<V("ok"), Bin(">", V("m"), N(5)), G("f", <<>>),
      Bin("==", V("n"), V("m"))>>)>>, Gives(<<Bool(TRUE), Bool(TRUE), Bool(TRUE), Bool(TRUE)>>)),
    \* local t = {a = 1, b = 2, ab = 3, 4, 5} local s, n = 0, 0 for k, v in pairs(t) do s = s + v
    \*   n = n + 1 t[k] = nil end return s, n, next(t), pcall(next, t, "zz")
    Expect(<<Local(<<"t">>, <<New(<<Item(S("a"), N(1)), Item(S("b"), N(2)), Item(S("ab"), N(3)),
      Item(<<>>, N(4)), Item(<<>>, N(5))>>)>>), Local(<<"s", "n">>, <<N(0), N(0)>>), ForIn(<<"k",
      "v">>, <<G("pairs", <<V("t")>>)>>, <<Set1("s", Bin("+", V("s"), V("v"))), Inc("n"),
      Assign(<<At(V("t"), V("k"))>>, <<NIL>>)>>), Return(<<V("s"), V("n"), G("next", <<V("t")>>),
      G("pcall", <<V("next"), V("t"), S("zz")>>)>>)>>, Gives(<<Num(15), Num(5), Nil, Bool(FALSE),
      Str("invalid key to 'next'")>>)),
    \* local t = {} for i = 1, 6 do t[i] = i end for i = 2, 6 do t[i] = nil end t.x = 1 t.xx = 2
    \*   t.x = nil t.y = 3 t.yy = 4 t.yyy = 5 local n = 0 for k in next, t do n = n + 1 end return
    \*   n, t[1], t[2], t.x, t.xx, t.y, t.yy, t.yyy
    Expect(<<Local(<<"t">>, <<New(<<>>)>>), For("i", <<N(1), N(6)>>, <<Assign(<<At(V("t"),
      V("i"))>>, <<V("i")>>)>>), For("i", <<N(2), N(6)>>, <<Assign(<<At(V("t"), V("i"))>>,
      <<NIL>>)>>), Assign(<<Dot("t", "x")>>, <<N(1)>>), Assign(<<Dot("t", "xx")>>, <<N(2)>>),
      Assign(<<Dot("t", "x")>>, <<NIL>>), Assign(<<Dot("t", "y")>>, <<N(3)>>), Assign(<<Dot("t",
      "yy")>>, <<N(4)>>), Assign(<<Dot("t", "yyy")>>, <<N(5)>>), Loc1("n", N(0)), ForIn(<<"k">>,
      <<V("next"), V("t")>>, <<Inc("n")>>), Return(<<V("n"), At(V("t"), N(1)), At(V("t"), N(2)),
      Dot("t", "x"), Dot("t", "xx"), Dot("t", "y"), Dot("t", "yy"), Dot("t", "yyy")>>)>>,
      Gives(<<Num(5), Num(1), Nil, Nil, Num(2), Num(3), Num(4), Num(5)>>)),
    \* local t = {} for i = 5, 1, -1 do t[i] = i end t[true] = 1 t[t] = 2 t[0] = 3 t[-3] = 4 local
    \*   s = 0 for i, v in ipairs(t) do s = s * 10 + v end return s, #t, t[true], t[t], t[0],
    \*   t[-3]
    Expect(<<Local(<<"t">>, <<New(<<>>)>>), For("i", <<N(5), N(1), Un("-", N(1))>>,
      <<Assign(<<At(V("t"), V("i"))>>, <<V("i")>>)>>), Assign(<<At(V("t"), TRU)>>, <<N(1)>>),
      Assign(<<At(V("t"), V("t"))>>, <<N(2)>>), Assign(<<At(V("t"), N(0))>>, <<N(3)>>),
      Assign(<<At(V("t"), Un("-", N(3)))>>, <<N(4)>>), Loc1("s", N(0)), ForIn(<<"i", "v">>,
      <<G("ipairs", <<V("t")>>)>>, <<Set1("s", Bin("+", Bin("*", V("s"), N(10)), V("v")))>>),
      Return(<<V("s"), Un("#", V("t")), At(V("t"), TRU), At(V("t"), V("t")), At(V("t"), N(0)),
      At(V("t"), Un("-", N(3)))>>)>>, Gives(<<Num(12345), Num(5), Num(1), Num(2), Num(3), Num(4)>>)),
    \* local function f(a, b, ...) return a, select("#", ...), select(-1, ...) end local function
    \*   g(...) return arg.n, arg[2], unpack(arg, 2) end return f(1, 2, 3, nil, 5), g(7, 8, 9)
    Expect(<<LocalFn("f", VaFn(<<"a", "b">>, <<Return(<<V("a"), G("select", <<S("#"), Rest>>),
      G("select", <<Un("-", N(1)), Rest>>)>>)>>)), LocalFn("g", VaFn(<<>>, <<Return(<<Dot("arg",
      "n"), At(V("arg"), N(2)), G("unpack", <<V("arg"), N(2)>>)>>)>>)), Return(<<G("f", <<N(1),
      N(2), N(3), NIL, N(5)>>), G("g", <<N(7), N(8), N(9)>>)>>)>>, Gives(<<Num(1), Num(3), Num(8),
      Num(8), Num(9)>>)),
    \* return tostring(12), tostring(setmetatable({}, {__tostring = function() return "T" end})),
    \*   tonumber("12"), type(type), rawequal("a", "a"), pcall(assert, nil, "m"),
    \*   getmetatable(setmetatable({}, {__metatable = "no"})), pcall(setmetatable,
    \*   setmetatable({}, {__metatable = 1}), {})
    Expect(<<Return(<<G("tostring", <<N(12)>>), G("tostring", <<G("setmetatable", <<New(<<>>),
      New(<<Item(S("__tostring"), Fn(<<>>, <<Return(<<S("T")>>)>>))>>)>>)>>), G("tonumber",
      <<S("12")>>), G("type", <<V("type")>>), G("rawequal", <<S("a"), S("a")>>), G("pcall",
      <<V("assert"), NIL, S("m")>>), G("getmetatable", <<G("setmetatable", <<New(<<>>),
      New(<<Item(S("__metatable"), S("no"))>>)>>)>>), G("pcall", <<V("setmetatable"),
      G("setmetatable", <<New(<<>>), New(<<Item(S("__metatable"), N(1))>>)>>), New(<<>>)>>)>>)>>,
      Gives(<<Str("12"), Str("T"), Num(12), Str("function"), Bool(TRUE), Bool(FALSE), Str("no"),
      Bool(FALSE), Str("cannot change a protected metatable")>>)),
    \* return pcall(function() undefined() end), pcall(function() for i = 1, {} do end end),
    \*   pcall(function() local t = {} t[nil] = 1 end), pcall(function() return #nil end),
    \*   (pcall(function() return 1 < "2" end))
    Expect(<<Return(<<G("pcall", <<Fn(<<>>, <<Run(G("undefined", <<>>))>>)>>), G("pcall", <<Fn(<<>>,
      <<For("i", <<N(1), New(<<>>)>>, <<>>)>>)>>), G("pcall", <<Fn(<<>>, <<Local(<<"t">>,
      <<New(<<>>)>>), Assign(<<At(V("t"), NIL)>>, <<N(1)>>)>>)>>), G("pcall", <<Fn(<<>>,
      <<Return(<<Un("#", NIL)>>)>>)>>), Paren(G("pcall", <<Fn(<<>>, <<Return(<<Bin("<", N(1),
      S("2"))>>)>>)>>))>>)>>, Gives(<<Bool(FALSE), Bool(FALSE), Bool(FALSE), Bool(FALSE),
      Bool(FALSE)>>)),
    \* local r = {} for i, v in ipairs({5, 6}) do r[i] = function() v = v + i return v end end
    \*   return r[1](), r[2](), r[1](), coroutine.running()
    Expect(<<Local(<<"r">>, <<New(<<>>)>>), ForIn(<<"i", "v">>, <<G("ipairs", <<New(<<Item(<<>>,
      N(5)), Item(<<>>, N(6))>>)>>)>>, <<Assign(<<At(V("r"), V("i"))>>, <<Fn(<<>>, <<Set1("v",
      Bin("+", V("v"), V("i"))), Return(<<V("v")>>)>>)>>)>>), Return(<<Apply(At(V("r"), N(1)),
      <<>>), Apply(At(V("r"), N(2)), <<>>), Apply(At(V("r"), N(1)), <<>>), Co("running", <<>>)>>)>>,
      Gives(<<Num(6), Num(8), Num(7), Nil>>)),
    \* local mt = {} setmetatable(mt, mt) mt.__newindex = function(t, k, v) rawset(t, k, v + 1) end
    \*   local t = setmetatable({}, mt) t.x = 1 return t.x
    Expect(<<Loc1("mt", New(<<>>)), Run(G("setmetatable", <<V("mt"), V("mt")>>)),
      Assign(<<Dot("mt", "__newindex")>>, <<Fn(<<"t", "k", "v">>, <<Run(G("rawset", <<V("t"), V("k"),
      Bin("+", V("v"), N(1))>>))>>)>>), Loc1("t", G("setmetatable", <<New(<<>>), V("mt")>>)),
      Assign(<<Dot("t", "x")>>, <<N(1)>>), Return(<<Dot("t", "x")>>)>>, Gives(<<Num(2)>>)),
    \* return (pcall(pcall)), (pcall(xpcall, type)), pcall(pcall, error)
    Expect(<<Return(<<Paren(G("pcall", <<V("pcall")>>)), Paren(G("pcall", <<V("xpcall"), V("type")>>)),
      G("pcall", <<V("pcall"), V("error")>>)>>)>>, Gives(<<Bool(FALSE), Bool(FALSE), Bool(TRUE),
      Bool(FALSE), Nil>>)),
    \* local t = setmetatable({}, {__index = function(t, k) return t[k] .. 1 end}) return
    \*   xpcall(function() return t.x end, function(m) return type(m) end)
    Expect(<<Loc1("t", G("setmetatable", <<New(<<>>), New(<<Item(S("__index"), Fn(<<"t", "k">>,
      <<Return(<<Bin("..", At(V("t"), V("k")), N(1))>>)>>))>>)>>)), Return(<<G("xpcall", <<Fn(<<>>,
      <<Return(<<Dot("t", "x")>>)>>), Fn(<<"m">>, <<Return(<<G("type", <<V("m")>>)>>)>>)>>)>>)>>,
      Gives(<<Bool(FALSE), Str("string")>>)),
    \* local co = coroutine.create(function() return (coroutine.yield()) end) coroutine.resume(co)
    \*   local t = setmetatable({}, {__index = function(t, k) return t[k] .. 1 end}) local _, ok =
    \*   xpcall(function() return t.x end, function(m) return (coroutine.resume(co)) end) return
    \*   ok, coroutine.status(co), coroutine.resume(co, 7)
    Expect(<<Loc1("co", Co("create", <<Fn(<<>>, <<Return(<<Paren(Co("yield", <<>>))>>)>>)>>)),
      Run(Co("resume", <<V("co")>>)), Loc1("t", G("setmetatable", <<New(<<>>),
      New(<<Item(S("__index"), Fn(<<"t", "k">>, <<Return(<<Bin("..", At(V("t"), V("k")),
      N(1))>>)>>))>>)>>)), Local(<<"_", "ok">>, <<G("xpcall", <<Fn(<<>>, <<Return(<<Dot("t",
      "x")>>)>>), Fn(<<"m">>, <<Return(<<Paren(Co("resume", <<V("co")>>))>>)>>)>>)>>),
      Return(<<V("ok"), Co("status", <<V("co")>>), Co("resume", <<V("co"), N(7)>>)>>)>>,
      Gives(<<Bool(FALSE), Str("suspended"), Bool(TRUE), Num(7)>>)) >>

-----------------------------------------------------------------------------
(* Chunks the compiler refuses: no loop to break, and more values to return *)
(* than there are registers.                                               *)

Refused(n) == <<Expect(<<Break>>, Fails), Expect(<<Return(Repeat(V("x"), n))>>, Fails)>>

Meant == Conditionals \o Loops \o Operations \o Opens \o Singles
Corpus(n) == [i \in DOMAIN Meant |-> Program(Meant[i])] \o Others \o Refused(n)
=============================================================================
