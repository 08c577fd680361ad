----------------------------- MODULE LuaMeaning ------------------------------
(***************************************************************************)
(* What a program means, said of its tree alone, without registers, jumps  *)
(* or instructions: names are bound to cells of a store, a function keeps  *)
(* the bindings it was created in, every execution of a local statement    *)
(* takes new cells.  The reference LuaVM compares compiled programs with.  *)
(***************************************************************************)
EXTENDS Integers, Sequences
LOCAL INSTANCE SequencesExt

nil == <<"nil">>
EmptyTable == [k \in {} |-> nil]
Lookup(t, k) == IF k \in DOMAIN t THEN t[k] ELSE nil
Store(t, k, v) ==
  IF v = nil THEN [x \in DOMAIN t \ {k} |-> t[x]]
  ELSE [x \in DOMAIN t \cup {k} |-> IF x = k THEN v ELSE t[x]]
StoreAll(t, from, vs) ==
  FoldLeft(LAMBDA u, i : Store(u, <<"number", from + i>>, vs[i]), t, [i \in DOMAIN vs |-> i])

\* tables as an observer sees them: one function looks like another
Observed(tables) ==
  [i \in DOMAIN tables |->
     [k \in DOMAIN tables[i] |->
        IF tables[i][k][1] = "function" THEN <<"function">> ELSE tables[i][k]]]

Falsy(v) == v \in {nil, <<"boolean", FALSE>>}
Bool(b) == <<"boolean", b>>
Num(n) == <<"number", n>>
Numbers(v, w) == v[1] = "number" /\ w[1] = "number"

(* A state s: the store, the tables, the functions, and whether the program failed. *)
Fail(s) == [s EXCEPT !.failed = TRUE]
NewCells(s, vs) == [s EXCEPT !.store = @ \o vs]
Bind(env, names, s) == env \o [i \in DOMAIN names |-> <<names[i], Len(s.store) + i>>]
Pad(vs, n) == [i \in 1..n |-> IF i <= Len(vs) THEN vs[i] ELSE nil]
FirstOf(x) == IF x.vs = <<>> THEN nil ELSE x.vs[1]
Cells(env, name) == {i \in DOMAIN env : env[i][1] = name}
CellOf(env, name) ==
  env[CHOOSE i \in Cells(env, name) : \A j \in Cells(env, name) : j <= i][2]

Binary(op, v, w) ==
  CASE op = "EQ" -> Bool(v = w)
    [] op = "NE" -> Bool(v # w)
    [] op = "LT" -> Bool(v[2] < w[2])
    [] op = "LE" -> Bool(v[2] <= w[2])
    [] op = "GT" -> Bool(v[2] > w[2])
    [] op = "GE" -> Bool(v[2] >= w[2])
    [] op = "ADD" -> Num(v[2] + w[2])
    [] op = "SUB" -> Num(v[2] - w[2])
    [] op = "MUL" -> Num(v[2] * w[2])

Ok(s, env) == [s |-> s, env |-> env, sig |-> <<"none">>]
LocalsBefore(b, i) ==
  FoldLeft(LAMBDA n, st : n + CASE st[1] = "local" -> Len(st[2])
                                [] st[1] = "localfunction" -> 1
                                [] OTHER -> 0, 0, SubSeq(b, 1, i - 1))
LabelAt(b, name) == {j \in DOMAIN b : b[j][1] = "label" /\ b[j][2] = name}

RECURSIVE Ev(_, _, _), EvAll(_, _, _), RunFrom(_, _, _, _), Do(_, _, _), Apply(_, _, _),
          While(_, _, _), Repeat(_, _, _), For(_, _, _, _, _)

\* e in env: the state after it and its values, several for a call
Ev(e, env, s) ==
  LET a == Ev(e[2], env, s)
      b == Ev(e[3], env, a.s)
      l == Ev(e[3], env, s)
      r == Ev(e[4], env, l.s)
      args == EvAll(e[3], env, a.s)
      One(st, v) == [s |-> st, vs |-> <<v>>]
      Item(acc, f) ==
        LET k == Ev(f[1], env, acc.s)
            x == Ev(f[2], env, k.s)
        IN IF Len(f) = 2
           THEN [acc EXCEPT !.s = [x.s EXCEPT !.heap[acc.t] =
                                     Store(@, FirstOf(k), FirstOf(x))]]
           ELSE [s |-> k.s, t |-> acc.t,
                 vs |-> Pad(acc.vs, acc.n) \o k.vs, n |-> acc.n + 1]
      t == Len(s.heap) + 1
      items == FoldLeft(Item, [s |-> [s EXCEPT !.heap = Append(@, EmptyTable)], t |-> t,
                               vs |-> <<>>, n |-> 0], e[2])
      kept == IF e[2] # <<>> /\ Len(Last(e[2])) = 1 THEN items.vs
              ELSE Pad(items.vs, items.n)
  IN CASE s.failed -> One(s, nil)
       [] ~s.failed /\ e[1] = "nil" -> One(s, nil)
       [] ~s.failed /\ e[1] = "true" -> One(s, Bool(TRUE))
       [] ~s.failed /\ e[1] = "false" -> One(s, Bool(FALSE))
       [] ~s.failed /\ e[1] = "num" -> One(s, Num(e[2]))
       [] ~s.failed /\ e[1] = "str" -> One(s, <<"string", e[2]>>)
       [] ~s.failed /\ e[1] = "var" ->
            One(s, IF Cells(env, e[2]) # {} THEN s.store[CellOf(env, e[2])]
                   ELSE Lookup(s.heap[1], <<"string", e[2]>>))
       [] ~s.failed /\ e[1] = "paren" -> One(a.s, FirstOf(a))
       [] ~s.failed /\ e[1] = "not" -> One(a.s, Bool(Falsy(FirstOf(a))))
       [] ~s.failed /\ e[1] = "index" ->
            IF FirstOf(a)[1] = "table"
            THEN One(b.s, Lookup(b.s.heap[FirstOf(a)[2]], FirstOf(b))) ELSE One(Fail(b.s), nil)
       [] ~s.failed /\ e[1] = "bin" /\ e[2] \in {"and", "or"} ->
            IF Falsy(FirstOf(l)) = (e[2] = "and") THEN One(l.s, FirstOf(l))
            ELSE One(r.s, FirstOf(r))
       [] ~s.failed /\ e[1] = "bin" /\ e[2] \notin {"and", "or"} ->
            IF e[2] \in {"EQ", "NE"} \/ Numbers(FirstOf(l), FirstOf(r))
            THEN One(r.s, Binary(e[2], FirstOf(l), FirstOf(r))) ELSE One(Fail(r.s), nil)
       [] ~s.failed /\ e[1] = "table" ->
            One([items.s EXCEPT !.heap[t] = StoreAll(@, 0, kept)], <<"table", t>>)
       [] ~s.failed /\ e[1] = "function" ->
            One([s EXCEPT !.funs = Append(@, [params |-> e[2], body |-> e[3], env |-> env])],
                <<"function", Len(s.funs) + 1>>)
       [] ~s.failed /\ e[1] = "call" -> Apply(FirstOf(a), args.vs, args.s)

EvAll(es, env, s) ==
  LET init == EvAll(Front(es), env, s)
      last == Ev(Last(es), env, init.s)
  IN IF es = <<>> THEN [s |-> s, vs |-> <<>>]
     ELSE [s |-> last.s, vs |-> Pad(init.vs, Len(es) - 1) \o last.vs]

Apply(f, vs, s) ==
  LET fn == s.funs[f[2]]
      r  == RunFrom(fn.body, 1, Bind(fn.env, fn.params, s), NewCells(s, Pad(vs, Len(fn.params))))
  IN IF s.failed THEN [s |-> s, vs |-> <<>>]
     ELSE IF f[1] # "function" THEN [s |-> Fail(s), vs |-> <<>>]
     ELSE [s |-> r.s, vs |-> IF r.sig[1] = "return" THEN r.sig[2] ELSE <<>>]

\* the block b from its statement i on
RunFrom(b, i, env, s) ==
  LET r    == Do(b[i], env, s)
      at   == LabelAt(b, r.sig[2])
      j    == CHOOSE k \in at : TRUE
      back == SubSeq(env, 1, Len(env) - LocalsBefore(b, i) + LocalsBefore(b, j))
  IN IF i > Len(b) \/ s.failed THEN Ok(s, env)
     ELSE IF r.sig[1] = "none" THEN RunFrom(b, i + 1, r.env, r.s)
     ELSE IF r.sig[1] = "goto" /\ at # {} THEN RunFrom(b, j + 1, IF j < i THEN back ELSE env, r.s)
     ELSE r

Inner(r, env) == [r EXCEPT !.env = env]
Stops(r) == r.s.failed \/ r.sig[1] # "none"
AfterLoop(r, env) == IF r.sig[1] = "break" THEN Ok(r.s, env) ELSE Inner(r, env)

While(st, env, s) ==
  LET c == Ev(st[2], env, s)
      r == RunFrom(st[3], 1, env, c.s)
  IN IF c.s.failed \/ Falsy(FirstOf(c)) THEN Ok(c.s, env)
     ELSE IF Stops(r) THEN AfterLoop(r, env) ELSE While(st, env, r.s)

Repeat(st, env, s) ==
  LET r == RunFrom(st[2], 1, env, s)
      c == Ev(st[3], r.env, r.s)
  IN IF Stops(r) THEN AfterLoop(r, env)
     ELSE IF c.s.failed \/ ~Falsy(FirstOf(c)) THEN Ok(c.s, env) ELSE Repeat(st, env, c.s)

For(st, env, s, i, limit) ==
  LET r == RunFrom(st[5], 1, Bind(env, <<st[2]>>, s), NewCells(s, <<Num(i)>>))
  IN IF i > limit THEN Ok(s, env)
     ELSE IF Stops(r) THEN AfterLoop(r, env) ELSE For(st, env, r.s, i + 1, limit)

\* where an assignment goes: a cell, or a table and a key
Place(acc, v, env) ==
  LET a == Ev(v[2], env, acc.s)
      b == Ev(v[3], env, a.s)
  IN CASE v[1] = "var" /\ Cells(env, v[2]) # {} ->
            [acc EXCEPT !.to = Append(@, <<"cell", CellOf(env, v[2])>>)]
       [] v[1] = "var" /\ Cells(env, v[2]) = {} ->
            [acc EXCEPT !.to = Append(@, <<"key", <<"table", 1>>, <<"string", v[2]>>>>)]
       [] OTHER -> [s |-> b.s, to |-> Append(acc.to, <<"key", FirstOf(a), FirstOf(b)>>)]

Written(s, to, v) ==
  IF s.failed THEN s
  ELSE IF to[1] = "cell" THEN [s EXCEPT !.store[to[2]] = v]
  ELSE IF to[2][1] # "table" \/ to[3] = nil THEN Fail(s)
  ELSE [s EXCEPT !.heap[to[2][2]] = Store(@, to[3], v)]

Assign(vars, exps, env, s) ==
  LET left  == FoldLeft(LAMBDA acc, v : Place(acc, v, env), [s |-> s, to |-> <<>>], vars)
      right == EvAll(exps, env, left.s)
      n     == Len(vars)
      vals  == Pad(right.vs, n)
  IN FoldRight(LAMBDA i, t : Written(t, left.to[i], vals[i]), [i \in 1..n |-> i], right.s)

If(st, env, s) ==
  LET Try(acc, clause) ==
        LET c == Ev(clause[1], env, acc.s)
        IN IF acc.taken # <<>> \/ acc.s.failed THEN acc
           ELSE [s |-> c.s, taken |-> IF Falsy(FirstOf(c)) THEN <<>> ELSE <<clause[2]>>]
      all == FoldLeft(Try, [s |-> s, taken |-> <<>>], st[2])
      b   == IF all.taken # <<>> THEN all.taken[1] ELSE IF st[3] # <<>> THEN st[3][1] ELSE <<>>
  IN Inner(RunFrom(b, 1, env, all.s), env)

\* one statement: the state after it, the bindings, and the jump it ends with
Do(st, env, s) ==
  LET x    == EvAll(st[3], env, s)
      ret  == EvAll(st[2], env, s)
      from == Ev(st[3], env, s)
      to   == Ev(st[4], env, from.s)
      cell == NewCells(s, <<nil>>)
      self == Bind(env, <<st[2]>>, s)
      f    == Ev(st[3], self, cell)
  IN CASE st[1] = "local" -> Ok(NewCells(x.s, Pad(x.vs, Len(st[2]))), Bind(env, st[2], x.s))
       [] st[1] = "localfunction" ->
            Ok([f.s EXCEPT !.store[Len(cell.store)] = f.vs[1]], self)
       [] st[1] = "assign" -> Ok(Assign(st[2], st[3], env, s), env)
       [] st[1] = "call" -> Ok(Ev(st, env, s).s, env)
       [] st[1] = "do" -> Inner(RunFrom(st[2], 1, env, s), env)
       [] st[1] = "if" -> If(st, env, s)
       [] st[1] = "while" -> While(st, env, s)
       [] st[1] = "repeat" -> Repeat(st, env, s)
       [] st[1] = "for" -> IF to.s.failed \/ ~Numbers(FirstOf(from), FirstOf(to))
                           THEN Ok(Fail(to.s), env)
                           ELSE For(st, env, to.s, FirstOf(from)[2], FirstOf(to)[2])
       [] st[1] = "break" -> [Ok(s, env) EXCEPT !.sig = <<"break", "">>]
       [] st[1] = "goto" -> [Ok(s, env) EXCEPT !.sig = st]
       [] st[1] = "return" -> [Ok(ret.s, env) EXCEPT !.sig = <<"return", ret.vs>>]
       [] st[1] = "label" -> Ok(s, env)

Meaning(program) ==
  LET r == RunFrom(program, 1, <<>>, [store |-> <<>>, heap |-> <<EmptyTable>>, funs |-> <<>>,
                                  failed |-> FALSE])
  IN [failed |-> r.s.failed, heap |-> Observed(r.s.heap)]

(* ---------------------------- legal programs --------------------------- *)

RECURSIVE Escapes(_, _), LegalBlock(_, _)

Labels(b) == {j \in DOMAIN b : b[j][1] = "label"}
AtTheEnd(b, j) == \A k \in j..Len(b) : k \in Labels(b)

\* the jumps that leave a statement
JumpsFrom(st) ==
  CASE st[1] = "break" -> {"break"}
    [] st[1] = "goto" -> {st[2]}
    [] st[1] = "do" -> Escapes(st[2], FALSE)
    [] st[1] \in {"while", "for"} -> Escapes(Last(st), FALSE) \ {"break"}
    [] st[1] = "repeat" -> Escapes(st[2], TRUE) \ {"break"}
    [] st[1] = "if" -> UNION ({Escapes(c[2], FALSE) : c \in Range(st[2])}
                                \cup {Escapes(b, FALSE) : b \in Range(st[3])})
    [] OTHER -> {}
Escapes(b, until) ==
  UNION {{n \in JumpsFrom(b[i]) : LabelAt(b, n) = {}} : i \in DOMAIN b}

\* a block and whether until follows it
InnerBlocks(st) ==
  CASE st[1] = "do" -> {<<st[2], FALSE>>}
    [] st[1] \in {"while", "for"} -> {<<Last(st), FALSE>>}
    [] st[1] = "repeat" -> {<<st[2], TRUE>>}
    [] st[1] = "if" -> {<<c[2], FALSE>> : c \in Range(st[2])}
                         \cup {<<b, FALSE>> : b \in Range(st[3])}
    [] st[1] = "localfunction" -> {<<st[3][3], FALSE>>}
    [] OTHER -> {}

\* Every goto of the block finds at most one label, none jumps past a local
\* into its scope, and no label is declared twice.
LegalBlock(b, until) ==
  /\ \A j, k \in Labels(b) : b[j][2] = b[k][2] => j = k
  /\ \A i \in DOMAIN b : \A n \in JumpsFrom(b[i]) : \A j \in LabelAt(b, n) :
        \/ LocalsBefore(b, j) <= LocalsBefore(b, i)
        \/ AtTheEnd(b, j) /\ ~until
  /\ \A i \in DOMAIN b : \A c \in InnerBlocks(b[i]) : LegalBlock(c[1], c[2])
  /\ \A i \in DOMAIN b : b[i][1] = "localfunction" => Escapes(b[i][3][3], FALSE) = {}

Legal(program) == LegalBlock(program, FALSE) /\ Escapes(program, FALSE) = {}
==============================================================================
