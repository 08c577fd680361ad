------------------------------ MODULE LuaParser ------------------------------
(***************************************************************************)
(* The grammar rules of the Lua compiler (lparser.c), which call the code  *)
(* generator while they read.  The tokens of a program are abstracted to a *)
(* tree: a block is a sequence of statements, a statement or an expression *)
(* is a tuple that starts with its kind.                                   *)
(*                                                                         *)
(*   <<"nil">> <<"true">> <<"false">> <<"num", n>> <<"str", name>>         *)
(*   <<"var", name>> <<"index", table, key>> <<"paren", exp>>              *)
(*   <<"not", exp>> <<"bin", operator, left, right>>                       *)
(*   <<"table", fields>>, a field is <<exp>> or <<key, exp>>               *)
(*   <<"function", parameters, block>> <<"call", function, arguments>>     *)
(*                                                                         *)
(*   <<"local", names, exps>> <<"localfunction", name, function>>          *)
(*   <<"assign", variables, exps>> <<"do", block>> <<"while", exp, block>> *)
(*   <<"repeat", block, exp>> <<"for", name, exp, exp, block>>             *)
(*   <<"if", conditional blocks, else>>, else is <<>> or <<block>>         *)
(*   <<"break">> <<"goto", name>> <<"label", name>>                        *)
(*   <<"return", exps>> and a call                                         *)
(***************************************************************************)
EXTENDS LuaCode
LOCAL INSTANCE SequencesExt
LOCAL INSTANCE FiniteSets

CONSTANT FieldsPerFlush   \* LFIELDS_PER_FLUSH

ASSUME FieldsPerFlushAssumption == FieldsPerFlush \in Nat \ {0}

(* ------------------------------- variables ----------------------------- *)

Block(fs) == Last(fs.bl)

new_localvars(fs, names) == [fs EXCEPT !.vars = @ \o names]
adjustlocalvars(fs, n) == [fs EXCEPT !.nactvar = @ + n]
removevars(fs, level) ==
  [fs EXCEPT !.vars = SubSeq(@, 1, Len(@) - (fs.nactvar - level)), !.nactvar = level]

\* -1 when there is none
LastIndex(S) == IF S = {} THEN -1 ELSE (CHOOSE i \in S : \A j \in S : j <= i) - 1
searchvar(fs, n) == LastIndex({i \in 1..fs.nactvar : fs.vars[i] = n})
searchupvalue(fs, n) == LastIndex({i \in DOMAIN fs.up : fs.up[i].name = n})

newupvalue(fs, n, v) ==
  [fs EXCEPT !.up = Append(@, [name |-> n, instack |-> v.k = "VLOCAL", idx |-> v.info])]

markupval(fs, level) ==
  LET inner == {i \in DOMAIN fs.bl : fs.bl[i].nactvar <= level}
  IN [fs EXCEPT !.bl[LastIndex(inner) + 1].upval = TRUE]

RECURSIVE singlevaraux(_, _, _)
singlevaraux(fs, n, base) ==
  LET local == searchvar(fs, n)
      u     == searchupvalue(fs, n)
      none  == [fs |-> fs, e |-> init_exp("VVOID", 0)]
      outer == singlevaraux(fs.prev[1], n, FALSE)
  IN IF local >= 0
     THEN [fs |-> IF base THEN fs ELSE markupval(fs, local), e |-> init_exp("VLOCAL", local)]
     ELSE IF u >= 0 THEN [fs |-> fs, e |-> init_exp("VUPVAL", u)]
     ELSE IF fs.prev = <<>> THEN none
     ELSE IF outer.e.k = "VVOID" THEN none
     ELSE [fs |-> newupvalue([fs EXCEPT !.prev = <<outer.fs>>], n, outer.e),
           e |-> init_exp("VUPVAL", Len(fs.up))]

codestring(fs, s) == Constant([fs |-> fs, e |-> init_exp("VK", 0)], <<"string", s>>)

singlevar(fs, n) ==
  LET x   == singlevaraux(fs, n, TRUE)
      env == singlevaraux(fs, "_ENV", TRUE)
      key == codestring(env.fs, n)
  IN IF x.e.k # "VVOID" THEN x ELSE indexed(key.fs, env.e, key.e)

adjust_assign(fs, nvars, nexps, e) ==
  LET extra == nvars - nexps
      multi == IF extra + 1 < 0 THEN 0 ELSE extra + 1
      g     == IF e.k # "VVOID" THEN exp2nextreg([fs |-> fs, e |-> e]).fs ELSE fs
  IN IF hasmultret(e.k)
     THEN LET h == setreturns(fs, e, multi)
          IN IF multi > 1 THEN reserveregs(h, multi - 1) ELSE h
     ELSE IF extra > 0 THEN luaK_nil(reserveregs(g, extra), g.freereg, extra) ELSE g

(* --------------------------- blocks and labels ------------------------- *)

closegoto(fs, g, label) ==
  LET gt == fs.gt[g]
  IN [patchlist(syntaxerror(fs, gt.nactvar < label.nactvar), gt.pc, label.pc)
        EXCEPT !.gt = RemoveAt(@, g)]

\* the labels of the current block that the goto can see
LabelsFor(fs, g) ==
  {i \in Block(fs).firstlabel + 1 .. Len(fs.label) : fs.label[i].name = fs.gt[g].name}

findlabel(fs, g) ==
  LET lb == fs.label[CHOOSE i \in LabelsFor(fs, g) : \A j \in LabelsFor(fs, g) : i <= j]
      gt == fs.gt[g]
  IN IF LabelsFor(fs, g) = {} THEN fs
     ELSE closegoto(IF gt.nactvar > lb.nactvar THEN patchclose(fs, gt.pc, lb.nactvar)
                    ELSE fs, g, lb)

Entry(fs, name, pc) == [name |-> name, nactvar |-> fs.nactvar, pc |-> pc]

RECURSIVE findgotos(_, _, _)
findgotos(fs, lb, i) ==
  IF i > Len(fs.gt) THEN fs
  ELSE IF fs.gt[i].name = lb.name THEN findgotos(closegoto(fs, i, lb), lb, i)
  ELSE findgotos(fs, lb, i + 1)

RECURSIVE movegotosout(_, _, _)
movegotosout(fs, bl, i) ==
  LET out == fs.gt[i].nactvar > bl.nactvar
      g   == IF out /\ bl.upval THEN patchclose(fs, fs.gt[i].pc, bl.nactvar) ELSE fs
      h   == IF out THEN [g EXCEPT !.gt[i].nactvar = bl.nactvar] ELSE g
  IN IF i > Len(fs.gt) THEN fs
     ELSE movegotosout(findlabel(h, i), bl, IF LabelsFor(h, i) = {} THEN i + 1 ELSE i)

enterblock(fs, isloop) ==
  [lua_assert(fs, fs.freereg = fs.nactvar)
     EXCEPT !.bl = Append(@, [isloop |-> isloop, nactvar |-> fs.nactvar, upval |-> FALSE,
                              firstlabel |-> Len(fs.label), firstgoto |-> Len(fs.gt)])]

AddLabel(fs, name) == [fs EXCEPT !.label = Append(@, Entry(fs, name, Pc(fs)))]

breaklabel(fs) ==
  LET g == AddLabel(fs, "break") IN findgotos(g, Last(g.label), Block(g).firstgoto + 1)

leaveblock(fs) ==
  LET bl    == Block(fs)
      inner == Len(fs.bl) > 1
      j     == jump(fs)
      g1    == IF inner /\ bl.upval
               THEN patchtohere(patchclose(j, LastPc(j), bl.nactvar), LastPc(j)) ELSE fs
      g2    == IF bl.isloop THEN breaklabel(g1) ELSE g1
      g3    == [removevars(g2, bl.nactvar)
                  EXCEPT !.bl = Front(@), !.freereg = bl.nactvar,
                         !.label = SubSeq(@, 1, bl.firstlabel)]
  IN IF inner THEN movegotosout(g3, bl, bl.firstgoto + 1)
     ELSE syntaxerror(g3, bl.firstgoto < Len(g3.gt))

gotostat(fs, name, pc) ==
  LET g == [fs EXCEPT !.gt = Append(@, Entry(fs, name, pc))] IN findlabel(g, Len(g.gt))
GotoName(st) == IF st[1] = "goto" THEN st[2] ELSE "break"

RECURSIVE labelstat(_, _, _)
labelstat(fs, labels, atEnd) ==
  LET name == labels[1][2]
      new  == AddLabel(syntaxerror(fs, \E i \in Block(fs).firstlabel + 1 .. Len(fs.label) :
                                          fs.label[i].name = name), name)
      l    == Len(new.label)
      next == IF Len(labels) = 1 THEN new ELSE labelstat(new, Tail(labels), atEnd)
      done == IF atEnd THEN [next EXCEPT !.label[l].nactvar = Block(next).nactvar] ELSE next
  IN findgotos(done, done.label[l], Block(done).firstgoto + 1)

(* ------------------------------- functions ----------------------------- *)

open_func(prev) ==
  enterblock([code |-> <<>>, jpc |-> NO_JUMP, lasttarget |-> 0, freereg |-> 0,
              nactvar |-> 0, k |-> <<>>, bl |-> <<>>, label |-> <<>>, gt |-> <<>>,
              vars |-> <<>>, up |-> <<>>, p |-> <<>>, numparams |-> 0, maxstack |-> 2,
              prev |-> prev, asserts |-> TRUE, error |-> FALSE], FALSE)

close_func(fs) ==
  LET g == leaveblock(ret(fs, 0, 0)) IN lua_assert(g, g.bl = <<>>)

Proto(fs) == [code |-> fs.code, k |-> fs.k, p |-> fs.p, up |-> fs.up,
              numparams |-> fs.numparams, maxstack |-> fs.maxstack]

codeclosure(fs) ==
  LET outer == [fs.prev[1] EXCEPT !.p = Append(@, Proto(fs)),
                                  !.asserts = @ /\ fs.asserts, !.error = @ \/ fs.error]
  IN exp2nextreg([fs |-> codeABC(outer, "CLOSURE", 0, Len(outer.p) - 1, 0),
                  e |-> init_exp("VRELOCABLE", Pc(outer))])

parlist(fs, names) ==
  LET n == Len(names)
  IN [reserveregs(adjustlocalvars(new_localvars(fs, names), n), n) EXCEPT !.numparams = n]

(* ------------------------- expressions, statements --------------------- *)

RECURSIVE expr(_, _), explist(_, _), fields(_, _, _, _, _), statlist(_, _, _)

body(fs, params, block) ==
  codeclosure(close_func(statlist(parlist(open_func(<<fs>>), params), block, FALSE)))

funcargs(fs, f, args) ==
  LET x     == explist(fs, args)
      open  == args # <<>> /\ hasmultret(x.e.k)
      g     == IF args = <<>> THEN fs ELSE IF open THEN setreturns(x.fs, x.e, MULTRET)
               ELSE exp2nextreg(x).fs
      h     == lua_assert(g, f.k = "VNONRELOC")
      nargs == IF open THEN MULTRET ELSE g.freereg - (f.info + 1)
  IN [fs |-> [codeABC(h, "CALL", f.info, nargs + 1, 2) EXCEPT !.freereg = f.info + 1],
      e |-> init_exp("VCALL", Pc(h))]

yindex(fs, e) == exp2val(expr(fs, e))

constructor(fs, items) ==
  LET t == exp2nextreg([fs |-> codeABC(fs, "NEWTABLE", 0, 0, 0),
                        e |-> init_exp("VRELOCABLE", Pc(fs))])
  IN [fs |-> fields([fs |-> t.fs, e |-> init_exp("VVOID", 0)], t.e.info, items, 0, 0),
      e |-> t.e]

closelistfield(x, t, na, tostore) ==
  LET y == exp2nextreg(x)
  IN CASE x.e.k = "VVOID" -> x
       [] x.e.k # "VVOID" /\ tostore < FieldsPerFlush -> [y EXCEPT !.e.k = "VVOID"]
       [] OTHER -> [fs |-> setlist(y.fs, t, (na - 1) \div FieldsPerFlush + 1, tostore),
                    e |-> [y.e EXCEPT !.k = "VVOID"]]

lastlistfield(x, t, na, tostore) ==
  LET page == (na - 1) \div FieldsPerFlush + 1
      y    == IF x.e.k = "VVOID" THEN x ELSE exp2nextreg(x)
  IN CASE tostore = 0 -> x.fs
       [] tostore > 0 /\ hasmultret(x.e.k) ->
            setlist(setreturns(x.fs, x.e, MULTRET), t, page, MULTRET)
       [] OTHER -> setlist(y.fs, t, page, tostore)

recfield(fs, t, item) ==
  LET key == exp2RK(yindex(fs, item[1]))
      val == exp2RK(expr(key.fs, item[2]))
  IN [codeABC(val.fs, "SETTABLE", t, RKOf(key.e), RKOf(val.e))
        EXCEPT !.freereg = fs.freereg]

\* x holds the last list item read; na items so far, tostore of them not yet stored
fields(x, t, items, na, tostore) ==
  LET c    == closelistfield(x, t, na, tostore)
      left == IF x.e.k # "VVOID" /\ tostore = FieldsPerFlush THEN 0 ELSE tostore
      item == Head(items)
  IN IF items = <<>> THEN lastlistfield(x, t, na, tostore)
     ELSE IF Len(item) = 1
     THEN fields(expr(c.fs, item[1]), t, Tail(items), na + 1, left + 1)
     ELSE fields([c EXCEPT !.fs = recfield(c.fs, t, item)], t, Tail(items), na, left)

\* simpleexp, primaryexp, prefixexp and subexpr
expr(fs, e) ==
  LET a == expr(fs, e[2])
      i == yindex(exp2anyregup(a).fs, e[3])
      l == infix(e[2], expr(fs, e[3]))
      r == expr(l.fs, e[4])
      f == exp2nextreg(a)
  IN CASE e[1] = "nil" -> [fs |-> fs, e |-> init_exp("VNIL", 0)]
       [] e[1] = "true" -> [fs |-> fs, e |-> init_exp("VTRUE", 0)]
       [] e[1] = "false" -> [fs |-> fs, e |-> init_exp("VFALSE", 0)]
       [] e[1] = "num" -> [fs |-> fs, e |-> init_exp("VKNUM", e[2])]
       [] e[1] = "str" -> codestring(fs, e[2])
       [] e[1] = "var" -> singlevar(fs, e[2])
       [] e[1] = "paren" -> dischargevars(a)
       [] e[1] = "index" -> indexed(i.fs, exp2anyregup(a).e, i.e)
       [] e[1] = "call" -> funcargs(f.fs, f.e, e[3])
       [] e[1] = "table" -> constructor(fs, e[2])
       [] e[1] = "function" -> body(fs, e[2], e[3])
       [] e[1] = "not" -> codenot(a)
       [] e[1] = "bin" -> posfix(e[2], r.fs, l.e, r.e)

explist(fs, es) ==
  IF Len(es) = 1 THEN expr(fs, es[1])
  ELSE expr(exp2nextreg(explist(fs, Front(es))).fs, Last(es))

block(fs, b) == leaveblock(statlist(enterblock(fs, FALSE), b, FALSE))

\* the earlier variables of an assignment give way to the local v
check_conflict(fs, lhs, v) ==
  LET extra   == fs.freereg
      Table(w) == w.k = "VINDEXED" /\ w.vt = v.k /\ w.info = v.info
      Index(w) == w.k = "VINDEXED" /\ v.k = "VLOCAL" /\ w.idx = v.info
      Safe(w) == [w EXCEPT !.vt = IF Table(w) THEN "VLOCAL" ELSE @,
                           !.info = IF Table(w) THEN extra ELSE @,
                           !.idx = IF Index(w) THEN extra ELSE @]
      op      == IF v.k = "VLOCAL" THEN "MOVE" ELSE "GETUPVAL"
  IN [fs |-> IF \E i \in DOMAIN lhs : Table(lhs[i]) \/ Index(lhs[i])
             THEN reserveregs(codeABC(fs, op, extra, v.info, 0), 1) ELSE fs,
      lhs |-> [i \in DOMAIN lhs |-> Safe(lhs[i])]]

assignment(fs, vars, exps) ==
  LET Var(a, v) == LET x == expr(a.fs, v)
                       c == IF x.e.k = "VINDEXED" \/ a.lhs = <<>>
                            THEN [fs |-> x.fs, lhs |-> a.lhs]
                            ELSE check_conflict(x.fs, a.lhs, x.e)
                   IN [fs |-> c.fs, lhs |-> Append(c.lhs, x.e)]
      left   == FoldLeft(Var, [fs |-> fs, lhs |-> <<>>], vars)
      x      == explist(left.fs, exps)
      nvars  == Len(vars)
      nexps  == Len(exps)
      e      == setoneret(x)
      ready  == IF nexps = nvars THEN storevar(e.fs, Last(left.lhs), e.e)
                ELSE [adjust_assign(x.fs, nvars, nexps, x.e)
                        EXCEPT !.freereg = @ - IF nexps > nvars THEN nexps - nvars ELSE 0]
      toDo   == IF nexps = nvars THEN Front(left.lhs) ELSE left.lhs
      Store(var, g) == storevar(g, var, init_exp("VNONRELOC", g.freereg - 1))
  IN FoldRight(Store, toDo, ready)

cond(fs, e) ==
  LET x == expr(fs, e)
  IN goiftrue(IF x.e.k = "VNIL" THEN [x EXCEPT !.e.k = "VFALSE"] ELSE x)

whilestat(fs, st) ==
  LET start == getlabel(fs)
      c     == cond(start, st[2])
      b     == block(enterblock(c.fs, TRUE), st[3])
      again == patchlist(jump(b), Pc(b), Pc(start))
  IN patchtohere(leaveblock(again), c.e.f)

repeatstat(fs, st) ==
  LET start == getlabel(fs)
      b     == statlist(enterblock(enterblock(start, TRUE), FALSE), st[2], TRUE)
      c     == cond(b, st[3])
      bl2   == Block(c.fs)
      g     == IF bl2.upval THEN patchclose(c.fs, c.e.f, bl2.nactvar) ELSE c.fs
  IN leaveblock(patchlist(leaveblock(g), c.e.f, Pc(start)))

exp1(fs, e) == exp2nextreg(expr(fs, e)).fs

forbody(fs, base, b) ==
  LET g    == adjustlocalvars(fs, 3)
      prep == codeABC(g, "FORPREP", base, NO_JUMP, 0)
      h    == reserveregs(adjustlocalvars(enterblock(prep, FALSE), 1), 1)
      loop == patchtohere(leaveblock(block(h, b)), LastPc(prep))
      last == codeABC(loop, "FORLOOP", base, NO_JUMP, 0)
  IN patchlist(last, LastPc(last), Pc(prep))

fornum(fs, st) ==
  LET names == <<"(for index)", "(for limit)", "(for step)", st[2]>>
      g     == exp1(exp1(new_localvars(fs, names), st[3]), st[4])
      one   == Constant([fs |-> g, e |-> init_exp("VKNUM", 1)], <<"number", 1>>)
      step  == reserveregs(codeABC(one.fs, "LOADK", g.freereg, one.e.info, 0), 1)
  IN forbody(step, fs.freereg, st[5])

forstat(fs, st) == leaveblock(fornum(enterblock(fs, TRUE), st))

\* [fs, esc]: the state and the list of jumps to the end of the if
test_then_block(x, clause, more) ==
  LET e     == expr(x.fs, clause[1])
      b     == clause[2]
      jumps == b # <<>> /\ b[1][1] \in {"break", "goto"}
      gf    == goiffalse(e)
      g     == gotostat(enterblock(gf.fs, FALSE), GotoName(b[1]), gf.e.t)
      gt    == goiftrue(e)
      start == IF jumps THEN jump(g) ELSE enterblock(gt.fs, FALSE)
      jf    == IF jumps THEN LastPc(start) ELSE gt.e.f
      then  == leaveblock(statlist(start, IF jumps THEN Tail(b) ELSE b, FALSE))
      over  == jump(then)
  IN IF jumps /\ Len(b) = 1 THEN [x EXCEPT !.fs = leaveblock(g)]
     ELSE IF more
     THEN [fs |-> patchtohere(concat(over, x.esc, LastPc(over)), jf),
           esc |-> ListHead(x.esc, LastPc(over))]
     ELSE [x EXCEPT !.fs = patchtohere(then, jf)]

ifstat(fs, st) ==
  LET n == Len(st[2])
      Clause(x, i) == test_then_block(x, st[2][i], i < n \/ st[3] # <<>>)
      x == FoldLeft(Clause, [fs |-> fs, esc |-> NO_JUMP], [i \in 1..n |-> i])
      g == IF st[3] # <<>> THEN block(x.fs, st[3][1]) ELSE x.fs
  IN patchtohere(g, x.esc)

localfunc(fs, st) ==
  body(adjustlocalvars(new_localvars(fs, <<st[2]>>), 1), st[3][2], st[3][3]).fs

localstat(fs, st) ==
  LET n == Len(st[2])
      g == new_localvars(fs, st[2])
      x == IF st[3] = <<>> THEN [fs |-> g, e |-> init_exp("VVOID", 0)] ELSE explist(g, st[3])
  IN adjustlocalvars(adjust_assign(x.fs, n, Len(st[3]), x.e), n)

exprstat(fs, st) ==
  LET x == expr(fs, st) IN [x.fs EXCEPT !.code[x.e.info + 1].c = 1]

retstat(fs, es) ==
  LET x    == explist(fs, es)
      tail == setreturns(x.fs, x.e, MULTRET)
      one  == exp2anyreg(x)
      many == exp2nextreg(x).fs
  IN IF es = <<>> THEN ret(fs, 0, 0)
     ELSE IF hasmultret(x.e.k) /\ Len(es) = 1
     THEN ret([tail EXCEPT !.code[x.e.info + 1].op = "TAILCALL",
                           !.asserts = @ /\ CodeAt(tail, x.e.info).a = tail.nactvar],
              tail.nactvar, MULTRET)
     ELSE IF hasmultret(x.e.k) THEN ret(tail, tail.nactvar, MULTRET)
     ELSE IF Len(es) = 1 THEN ret(one.fs, one.e.info, 1)
     ELSE ret(lua_assert(many, Len(es) = many.freereg - many.nactvar),
              many.nactvar, Len(es))

freeregs(fs) ==
  [lua_assert(fs, fs.maxstack >= fs.freereg /\ fs.freereg >= fs.nactvar)
     EXCEPT !.freereg = fs.nactvar]

statement(fs, st) ==
  LET j == jump(fs)
  IN CASE st[1] = "if" -> ifstat(fs, st)
       [] st[1] = "while" -> whilestat(fs, st)
       [] st[1] = "do" -> block(fs, st[2])
       [] st[1] = "for" -> forstat(fs, st)
       [] st[1] = "repeat" -> repeatstat(fs, st)
       [] st[1] = "localfunction" -> localfunc(fs, st)
       [] st[1] = "local" -> localstat(fs, st)
       [] st[1] = "return" -> retstat(fs, st[2])
       [] st[1] \in {"break", "goto"} -> gotostat(j, GotoName(st), LastPc(j))
       [] st[1] = "call" -> exprstat(fs, st)
       [] st[1] = "assign" -> assignment(fs, st[2], st[3])

statlist(fs, b, until) ==
  LET labels == Cardinality({i \in DOMAIN b : \A j \in 1..i : b[j][1] = "label"})
      rest   == SubSeq(b, labels + 1, Len(b))
  IN IF b = <<>> \/ fs.error THEN fs
     ELSE IF labels > 0
     THEN statlist(freeregs(labelstat(fs, SubSeq(b, 1, labels), rest = <<>> /\ ~until)),
                   rest, until)
     ELSE statlist(freeregs(statement(fs, b[1])), Tail(b), until)

open_mainfunc == newupvalue(open_func(<<>>), "_ENV", init_exp("VLOCAL", 0))

luaY_parser(program) ==
  LET fs == close_func(statlist(open_mainfunc, program, FALSE))
  IN lua_assert(fs, /\ Len(fs.up) = 1
                    /\ fs.vars = <<>>
                    /\ fs.label = <<>>
                    /\ fs.error \/ fs.gt = <<>>)
==============================================================================
