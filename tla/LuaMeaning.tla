----------------------------- MODULE LuaMeaning -----------------------------
(***************************************************************************)
(* What a chunk means, without registers, jumps, frames or upvalues: an    *)
(* evaluator of syntax trees over a store of variables and tables, and the *)
(* tokens that spell a tree.  It is the reference for the compiler and the *)
(* virtual machine together, for the language without metatables and       *)
(* coroutines.  An error is <<"error">>, whatever its message.             *)
(*                                                                         *)
(* The store s has s.cell, the values of the variables; s.tab, the tables  *)
(* as functions, of which the first holds the globals; and s.stop, which   *)
(* is <<>> until a statement ends the block it is in: <<"break">>,         *)
(* <<"return", values>> or <<"error">>.                                    *)
(***************************************************************************)
EXTENDS LuaValue, FiniteSets

(* Syntax trees. *)
C(v)          == [k |-> "const", v |-> v]
N(n)          == C(Num(n))
S(text)       == C(Str(text))
NIL == C(Nil)
TRU == C(Bool(TRUE))
FAL == C(Bool(FALSE))
V(n)          == [k |-> "name", n |-> n]
At(t, i)      == [k |-> "index", t |-> t, i |-> i]
Apply(f, args) == [k |-> "call", f |-> f, args |-> args]
Send(o, n, args)  == [k |-> "method", o |-> o, n |-> n, args |-> args]
Fn(params, body)  == [k |-> "fn", params |-> params, rest |-> FALSE, body |-> body]
VaFn(params, body) == [k |-> "fn", params |-> params, rest |-> TRUE, body |-> body]
Bin(op, a, b) == [k |-> "bin", op |-> op, a |-> a, b |-> b]
Un(op, a)     == [k |-> "un", op |-> op, a |-> a]
Paren(a)      == [k |-> "paren", a |-> a]
Rest          == [k |-> "rest"]
New(items)    == [k |-> "new", items |-> items]
Item(key, e)  == [key |-> key, e |-> e]       \* key is <<>> for a list item

Local(ns, es)     == [s |-> "local", ns |-> ns, es |-> es]
Assign(ts, es)    == [s |-> "assign", ts |-> ts, es |-> es]
Do(body)          == [s |-> "do", body |-> body]
If(c, t, f)       == [s |-> "if", c |-> c, t |-> t, f |-> f]
While(c, body)    == [s |-> "while", c |-> c, body |-> body]
RepeatUntil(body, c)  == [s |-> "repeat", c |-> c, body |-> body]
For(n, es, body)  == [s |-> "for", n |-> n, es |-> es, body |-> body]
ForIn(ns, es, body) == [s |-> "in", ns |-> ns, es |-> es, body |-> body]
LocalFn(n, f)     == [s |-> "localfn", n |-> n, f |-> f]
Method(t, n, f)   == [s |-> "method", t |-> t, n |-> n, f |-> f]
Run(e)            == [s |-> "run", e |-> e]
Return(es)          == [s |-> "return", es |-> es]
Break             == [s |-> "break"]

-----------------------------------------------------------------------------
(* Tokens.  Parentheses only where the priorities of the manual want them. *)

T(tk) == <<[tk |-> tk, v |-> ""]>>
Name(n) == <<[tk |-> "NAME", v |-> n]>>
Commas(lists) == FoldLeft(LAMBDA s, l : IF s = <<>> THEN l ELSE s \o T(",") \o l, <<>>, lists)

Levels == << {"or"}, {"and"}, {"<", ">", "<=", ">=", "~=", "=="}, {".."}, {"+", "-"},
             {"*", "/", "%"}, {"un"}, {"^"} >>
Level(op) == CHOOSE i \in DOMAIN Levels : op \in Levels[i]
LevelOf(e) == IF e.k = "bin" THEN Level(e.op) ELSE IF e.k = "un" THEN Level("un") ELSE 9
RightAssoc(op) == op \in {"..", "^"}

RECURSIVE Tokens(_), BlockTokens(_)
InParens(e) == T("(") \o Tokens(e) \o T(")")
Operand(e, level) == IF LevelOf(e) >= level THEN Tokens(e) ELSE InParens(e)
List(es)   == Commas([i \in DOMAIN es |-> Tokens(es[i])])
Prefix(e)  == IF e.k \in {"name", "index", "call", "method"} THEN Tokens(e) ELSE InParens(e)
FnTokens(f) ==
    T("(") \o Commas([i \in DOMAIN f.params |-> Name(f.params[i])]
                      \o (IF f.rest THEN <<T("...")>> ELSE <<>>))
           \o T(")") \o BlockTokens(f.body) \o T("end")
IsName(e) == e.k = "const" /\ e.v[1] = "string"
ItemTokens(item) ==
    IF item.key = <<>> THEN Tokens(item.e)
    ELSE IF IsName(item.key) THEN Name(item.key.v[2]) \o T("=") \o Tokens(item.e)
    ELSE T("[") \o Tokens(item.key) \o T("]") \o T("=") \o Tokens(item.e)
ConstTokens(v) ==
    CASE v[1] = "nil"     -> T("nil")
      [] v[1] = "boolean" -> T(IF v[2] THEN "true" ELSE "false")
      [] v[1] = "number"  -> <<[tk |-> "NUMBER", v |-> v[2]]>>
      [] v[1] = "string"  -> <<[tk |-> "STRING", v |-> v[2]]>>

Tokens(e) ==
    CASE e.k = "const" -> ConstTokens(e.v)
      [] e.k = "name"  -> Name(e.n)
      [] e.k = "index" -> Prefix(e.t) \o (IF IsName(e.i) THEN T(".") \o Name(e.i.v[2])
                                          ELSE T("[") \o Tokens(e.i) \o T("]"))
      [] e.k = "call"  -> Prefix(e.f) \o T("(") \o List(e.args) \o T(")")
      [] e.k = "method" ->
            Prefix(e.o) \o T(":") \o Name(e.n) \o T("(") \o List(e.args) \o T(")")
      [] e.k = "fn"    -> T("function") \o FnTokens(e)
      [] e.k = "paren" -> InParens(e.a)
      [] e.k = "rest"  -> T("...")
      [] e.k = "new"   ->
            T("{") \o Commas([i \in DOMAIN e.items |-> ItemTokens(e.items[i])]) \o T("}")
      [] e.k = "un"    -> T(e.op) \o Operand(e.a, Level("un"))
      [] e.k = "bin"   ->
            LET l == Level(e.op)
            IN  Operand(e.a, IF RightAssoc(e.op) THEN l + 1 ELSE l) \o T(e.op)
                  \o Operand(e.b, IF RightAssoc(e.op) THEN l ELSE l + 1)

RECURSIVE IfTokens(_)
IfTokens(st) ==
    Tokens(st.c) \o T("then") \o BlockTokens(st.t)
      \o (IF Len(st.f) = 1 /\ Head(st.f).s = "if" THEN T("elseif") \o IfTokens(Head(st.f))
          ELSE (IF st.f = <<>> THEN <<>> ELSE T("else") \o BlockTokens(st.f)) \o T("end"))

StatTokens(st) ==
    CASE st.s = "local"  ->
            T("local") \o Commas([i \in DOMAIN st.ns |-> Name(st.ns[i])])
              \o (IF st.es = <<>> THEN <<>> ELSE T("=") \o List(st.es))
      [] st.s = "assign" -> List(st.ts) \o T("=") \o List(st.es)
      [] st.s = "do"     -> T("do") \o BlockTokens(st.body) \o T("end")
      [] st.s = "if"     -> T("if") \o IfTokens(st)
      [] st.s = "while"  -> T("while") \o Tokens(st.c) \o T("do") \o BlockTokens(st.body) \o T("end")
      [] st.s = "repeat" -> T("repeat") \o BlockTokens(st.body) \o T("until") \o Tokens(st.c)
      [] st.s = "for"    -> T("for") \o Name(st.n) \o T("=") \o List(st.es)
                              \o T("do") \o BlockTokens(st.body) \o T("end")
      [] st.s = "in"     -> T("for") \o Commas([i \in DOMAIN st.ns |-> Name(st.ns[i])]) \o T("in")
                              \o List(st.es) \o T("do") \o BlockTokens(st.body) \o T("end")
      [] st.s = "localfn" -> T("local") \o T("function") \o Name(st.n) \o FnTokens(st.f)
      [] st.s = "method" -> T("function") \o Name(st.t) \o T(":") \o Name(st.n) \o FnTokens(st.f)
      [] st.s = "run"    -> Tokens(st.e)
      [] st.s = "return" -> T("return") \o List(st.es)
      [] st.s = "break"  -> T("break")

BlockTokens(b) == FoldLeft(LAMBDA s, st : s \o StatTokens(st) \o T(";"), <<>>, b)

-----------------------------------------------------------------------------
(* Meaning.  Every operator below answers [v |-> values, s |-> store]; once *)
(* the store has stopped it is left as it is.                               *)

Val(vals, s) == [v |-> vals, s |-> s]
Stop(s, how) == Val(<<>>, IF s.stop = <<>> THEN [s EXCEPT !.stop = how] ELSE s)
Broken(s)    == Stop(s, <<"error">>)

Bind(env, s, ns, vals) ==      \* new variables
    [env |-> [n \in DOMAIN env \cup Range(ns) |->
                IF n \in Range(ns) THEN Len(s.cell) + SelectLastInSeq(ns, LAMBDA w : w = n)
                ELSE env[n]],
     s   |-> [s EXCEPT !.cell = @ \o Adjust(vals, Len(ns))]]

(* Equality, order, arithmetic and concatenation of two values. *)
Rank(v) == IF v[1] = "number" THEN v[2] ELSE Position(v[2])
Binary(op, x, y, s) ==
    LET n1 == ToNumber(x)
        n2 == ToNumber(y)
        ordered == x[1] = y[1] /\ x[1] \in {"number", "string"}
        text(v) == IF v[1] = "number" THEN ToString(v[2]) ELSE v[2]
    IN  CASE op = "==" -> Val(<<Bool(x = y)>>, s)
          [] op = "~=" -> Val(<<Bool(x # y)>>, s)
          [] op = "<"  -> IF ordered THEN Val(<<Bool(Rank(x) < Rank(y))>>, s) ELSE Broken(s)
          [] op = "<=" -> IF ordered THEN Val(<<Bool(Rank(x) <= Rank(y))>>, s) ELSE Broken(s)
          [] op = ">"  -> IF ordered THEN Val(<<Bool(Rank(x) > Rank(y))>>, s) ELSE Broken(s)
          [] op = ">=" -> IF ordered THEN Val(<<Bool(Rank(x) >= Rank(y))>>, s) ELSE Broken(s)
          [] op = ".." -> IF {x[1], y[1]} \subseteq {"number", "string"}
                          THEN Val(<<Str(text(x) \o text(y))>>, s) ELSE Broken(s)
          [] OTHER     -> IF n1 = Nil \/ n2 = Nil THEN Broken(s)
                          ELSE Val(<<Num(CASE op = "+" -> n1[2] + n2[2] [] op = "-" -> n1[2] - n2[2]
                                           [] op = "*" -> n1[2] * n2[2] [] op = "%" -> n1[2] % n2[2]
                                           [] op = "^" -> n1[2] ^ n2[2])>>, s)

(* Every border is a length; programs take the length of proper lists only. *)
LengthOf(map) == CHOOSE n \in 0 .. Cardinality(DOMAIN map) :
                    /\ n = 0 \/ Num(n) \in DOMAIN map
                    /\ Num(n + 1) \notin DOMAIN map
Unary(op, x, s) ==
    CASE op = "not" -> Val(<<Bool(Falsy(x))>>, s)
      [] op = "-"   -> IF ToNumber(x) = Nil THEN Broken(s) ELSE Val(<<Num(-ToNumber(x)[2])>>, s)
      [] op = "#"   -> IF x[1] = "string" THEN Val(<<Num(Len(x[2]))>>, s)
                       ELSE IF x[1] = "table" THEN Val(<<Num(LengthOf(s.tab[x[2]]))>>, s)
                       ELSE Broken(s)

Lookup(t, key, s) ==
    IF t[1] # "table" THEN Broken(s)
    ELSE Val(<<IF key \in DOMAIN s.tab[t[2]] THEN s.tab[t[2]][key] ELSE Nil>>, s)
Update(map, key, v) ==
    [x \in IF v = Nil THEN DOMAIN map \ {key} ELSE DOMAIN map \cup {key} |->
        IF x = key THEN v ELSE map[x]]
Assigned(t, key, v, s) ==
    IF t[1] # "table" \/ key = Nil THEN Broken(s)
    ELSE Val(<<>>, [s EXCEPT !.tab = [@ EXCEPT ![t[2]] = Update(@, key, v)]])

RECURSIVE Eval(_, _, _), Exec(_, _, _), Block(_, _, _)

One(e, env, s) == LET r == Eval(e, env, s) IN Val(<<FirstOf(r.v)>>, r.s)

(* The values of a list: all of the last expression, one of each other. *)
EvalAll(es, env, s) ==
    FoldLeft(LAMBDA acc, i :
                LET r == IF i < Len(es) THEN One(es[i], env, acc.s) ELSE Eval(es[i], env, acc.s)
                IN  Val(acc.v \o r.v, r.s),
             Val(<<>>, s), [i \in DOMAIN es |-> i])

(* A call: the values it returns.  pcall and error are the only functions  *)
(* that are not written in the program.                                    *)
Finish(r, s) ==
    IF r.s.stop = <<>> THEN r
    ELSE IF r.s.stop[1] = "return" THEN Val(r.s.stop[2], [r.s EXCEPT !.stop = <<>>])
    ELSE r
Guarded(r) ==
    IF r.s.stop = <<"error">> THEN Val(<<Bool(FALSE), Nil>>, [r.s EXCEPT !.stop = <<>>])
    ELSE Val(<<Bool(TRUE)>> \o r.v, r.s)
RECURSIVE CallValue(_, _, _)
CallValue(f, args, s) ==
    CASE s.stop # <<>>      -> Val(<<>>, s)
      [] f = <<"builtin", "pcall">> -> Guarded(CallValue(args[1], Tail(args), s))
      [] f = <<"builtin", "error">> -> Broken(s)
      [] f[1] = "function"  ->
            LET b == Bind(f[2].env, s, f[2].params, args)
                n == Len(f[2].params)
                rest == SubSeq(args, n + 1, Len(args))
            IN  Finish(Block(f[2].body, [b.env EXCEPT !["..."] = rest], b.s), s)
      [] OTHER -> Broken(s)

Items(e, env, s) ==
    FoldLeft(LAMBDA acc, i :
                LET item == e.items[i]
                    key  == IF item.key = <<>> THEN Val(<<Nil>>, acc.s) ELSE One(item.key, env, acc.s)
                    r    == IF item.key = <<>> /\ i = Len(e.items) THEN Eval(item.e, env, key.s)
                            ELSE One(item.e, env, key.s)
                    list == [j \in DOMAIN r.v |-> <<Num(acc.n + j), r.v[j]>>]
                    new  == IF item.key = <<>> THEN list ELSE <<<<key.v[1], r.v[1]>>>>
                IN  [n |-> IF item.key = <<>> THEN acc.n + Len(list) ELSE acc.n, s |-> r.s,
                     map |-> FoldLeft(LAMBDA map, p : Update(map, p[1], p[2]), acc.map, new)],
             [n |-> 0, s |-> s, map |-> <<>>], [i \in DOMAIN e.items |-> i])

Eval(e, env, s) ==
    CASE s.stop # <<>>   -> Val(<<>>, s)
      [] e.k = "const"   -> Val(<<e.v>>, s)
      [] e.k = "name"    -> Val(<<IF e.n \in DOMAIN env THEN s.cell[env[e.n]]
                                  ELSE Lookup(Table(1), Str(e.n), s).v[1]>>, s)
      [] e.k = "rest"    -> Val(env["..."], s)
      [] e.k = "paren"   -> One(e.a, env, s)
      [] e.k = "fn"      -> Val(<<<<"function", [params |-> e.params, body |-> e.body, env |-> env]>>>>, s)
      [] e.k = "call"    ->
            LET f == One(e.f, env, s)
                args == EvalAll(e.args, env, f.s)
            IN  CallValue(f.v[1], args.v, args.s)
      [] e.k = "method"  ->
            LET o == One(e.o, env, s)
                f == IF o.s.stop = <<>> THEN Lookup(o.v[1], Str(e.n), o.s) ELSE o
                args == EvalAll(e.args, env, f.s)
            IN  CallValue(FirstOf(f.v), o.v \o args.v, args.s)
      [] e.k = "index"   ->
            LET t == One(e.t, env, s)
                i == One(e.i, env, t.s)
            IN  IF i.s.stop = <<>> THEN Lookup(t.v[1], i.v[1], i.s) ELSE i
      [] e.k = "new"     ->
            LET r == Items(e, env, s)
            IN  Val(<<<<"table", Len(r.s.tab) + 1>>>>, [r.s EXCEPT !.tab = Append(@, r.map)])
      [] e.k = "un"      ->
            LET a == One(e.a, env, s) IN IF a.s.stop = <<>> THEN Unary(e.op, a.v[1], a.s) ELSE a
      [] e.k = "bin"     ->
            LET a == One(e.a, env, s)
                b == One(e.b, env, a.s)
            IN  IF a.s.stop # <<>> THEN a
                ELSE IF e.op \in {"and", "or"}
                THEN IF Falsy(a.v[1]) = (e.op = "and") THEN a ELSE b
                ELSE IF b.s.stop # <<>> THEN b ELSE Binary(e.op, a.v[1], b.v[1], b.s)

(* The condition of a repeat sees the variables of the body. *)
Body(b, env, s) ==
    FoldLeft(LAMBDA x, st : IF x.s.stop = <<>> THEN Exec(st, x.env, x.s) ELSE x,
             [env |-> env, s |-> s], b)
Block(b, env, s) == Val(<<>>, Body(b, env, s).s)

(* A loop ends when it is broken or its block is left. *)
Unbroken(s) == IF s.stop = <<"break">> THEN [s EXCEPT !.stop = <<>>] ELSE s
RECURSIVE Loop(_, _, _), Count(_, _, _, _), Iterate(_, _, _)
Loop(st, env, s) ==
    LET test == IF st.s = "while" THEN One(st.c, env, s) ELSE Val(<<Bool(TRUE)>>, s)
        body == Body(st.body, env, test.s)
        until == IF st.s = "repeat" /\ body.s.stop = <<>> THEN One(st.c, body.env, body.s)
                 ELSE Val(<<Nil>>, body.s)
    IN  IF test.s.stop # <<>> \/ Falsy(test.v[1]) THEN test.s
        ELSE IF until.s.stop # <<>> \/ ~Falsy(until.v[1]) THEN Unbroken(until.s)
        ELSE Loop(st, env, until.s)
Count(st, i, env, s) ==
    LET b == Bind(env, s, <<st.n>>, <<Num(i[1])>>)
        r == Block(st.body, b.env, b.s).s
    IN  IF IF i[3] > 0 THEN i[1] > i[2] ELSE i[1] < i[2] THEN s
        ELSE IF r.stop # <<>> THEN Unbroken(r)
        ELSE Count(st, [i EXCEPT ![1] = @ + i[3]], env, r)
Iterate(st, env, x) ==
    LET vals == CallValue(x.v[1], <<x.v[2], x.v[3]>>, x.s)
        b == Bind(env, vals.s, st.ns, vals.v)
        r == Block(st.body, b.env, b.s).s
    IN  IF vals.s.stop # <<>> \/ FirstOf(vals.v) = Nil THEN vals.s
        ELSE IF r.stop # <<>> THEN Unbroken(r)
        ELSE Iterate(st, env, Val([x.v EXCEPT ![3] = FirstOf(vals.v)], r))

(* All expressions of an assignment, those of its targets too, come before *)
(* the first of its stores.                                                *)
Targets(ts, env, s) ==
    FoldLeft(LAMBDA acc, e :
                IF e.k = "name" THEN Val(Append(acc.v, <<e.n>>), acc.s)
                ELSE LET p == EvalAll(<<e.t, Paren(e.i)>>, env, acc.s)
                     IN  Val(Append(acc.v, p.v), p.s),
             Val(<<>>, s), ts)
StoreTo(target, v, env, s) ==
    IF s.stop # <<>> THEN s
    ELSE IF Len(target) = 2 THEN Assigned(target[1], target[2], v, s).s
    ELSE IF target[1] \in DOMAIN env THEN [s EXCEPT !.cell = [@ EXCEPT ![env[target[1]]] = v]]
    ELSE Assigned(Table(1), Str(target[1]), v, s).s

Exec(st, env, s) ==
    LET Same(store) == [env |-> env, s |-> store]
        vals == EvalAll(st.es, env, s)
        test == One(st.c, env, s)
        targets == Targets(st.ts, env, s)
        news == EvalAll(st.es, env, targets.s)
        nums == [i \in 1 .. 3 |-> IF i <= Len(vals.v) THEN ToNumber(vals.v[i]) ELSE Num(1)]
        self == Bind(env, s, <<st.n>>, <<Nil>>)
        fn   == Eval(st.f, self.env, self.s)
    IN  CASE st.s = "local"  -> IF vals.s.stop = <<>> THEN Bind(env, vals.s, st.ns, vals.v)
                                ELSE Same(vals.s)
          [] st.s = "assign" ->
                Same(FoldLeft(LAMBDA store, i : StoreTo(targets.v[i], Adjust(news.v, Len(st.ts))[i], env, store),
                              news.s, IF news.s.stop = <<>> THEN [i \in DOMAIN st.ts |-> i] ELSE <<>>))
          [] st.s = "do"     -> Same(Block(st.body, env, s).s)
          [] st.s = "if"     -> Same(IF test.s.stop # <<>> THEN test.s
                                     ELSE Block(IF Falsy(test.v[1]) THEN st.f ELSE st.t, env, test.s).s)
          [] st.s \in {"while", "repeat"} -> Same(Loop(st, env, s))
          [] st.s = "for"    -> Same(IF vals.s.stop # <<>> THEN vals.s
                                     ELSE IF Nil \in Range(nums) THEN Broken(vals.s).s
                                     ELSE Count(st, [i \in 1 .. 3 |-> nums[i][2]], env, vals.s))
          [] st.s = "in"     -> Same(IF vals.s.stop # <<>> THEN vals.s
                                     ELSE Iterate(st, env, Val(Adjust(vals.v, 3), vals.s)))
          [] st.s = "localfn" -> [env |-> self.env, s |-> [fn.s EXCEPT !.cell = [@ EXCEPT ![self.env[st.n]] = fn.v[1]]]]
          [] st.s = "method" ->
                LET f == Eval(Fn(<<"self">> \o st.f.params, st.f.body), env, s)
                    t == Eval(V(st.t), env, f.s)
                IN  Same(Assigned(t.v[1], Str(st.n), f.v[1], f.s).s)
          [] st.s = "run"    -> Same(Eval(st.e, env, s).s)
          [] st.s = "return" -> Same(Stop(vals.s, <<"return", vals.v>>).s)
          [] st.s = "break"  -> Same(Stop(s, <<"break">>).s)

(* The answer of a chunk, which is called with no arguments. *)
Globals0 == [key \in {Str("pcall"), Str("error")} |-> <<"builtin", key[2]>>]
Meaning(b) ==
    LET r == Block(b, [x \in {"..."} |-> <<>>],
                   [cell |-> <<>>, tab |-> <<Globals0>>, stop |-> <<>>]).s
    IN  ViewAnswer(IF r.stop = <<>> THEN <<"return", <<>>>> ELSE r.stop)
=============================================================================
