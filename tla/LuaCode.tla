------------------------------- MODULE LuaCode -------------------------------
(***************************************************************************)
(* The code generator of the Lua compiler (lcode.c): instructions, lists   *)
(* of jumps that are threaded through the instructions they belong to, and *)
(* expressions that are not yet in a register.  A function state fs holds  *)
(* what FuncState, BlockCnt and the lists of Dyndata hold for one          *)
(* function; an operator that changes an expression takes and returns a    *)
(* pair x = [fs, e].  Positions in the code start at 0, as in the source.  *)
(***************************************************************************)
EXTENDS Integers, Sequences
LOCAL INSTANCE SequencesExt

CONSTANT MaxIndexRK   \* MAXINDEXRK: the last constant an operand can name

ASSUME MaxIndexRKAssumption == MaxIndexRK \in Nat

NO_JUMP == -1
NO_REG == 255
BITRK == 256
MAXSTACK == 250
MULTRET == -1

Instr(op, a, b, c) == [op |-> op, a |-> a, b |-> b, c |-> c]
TMode == {"EQ", "LT", "LE", "TEST", "TESTSET"}

init_exp(k, i) ==
  [k |-> k, info |-> i, idx |-> 0, vt |-> "", t |-> NO_JUMP, f |-> NO_JUMP]

hasmultret(k) == k = "VCALL"
hasjumps(e) == e.t # e.f
isnumeral(e) == e.k = "VKNUM" /\ e.t = NO_JUMP /\ e.f = NO_JUMP

Pc(fs) == Len(fs.code)
CodeAt(fs, pc) == fs.code[pc + 1]
lua_assert(fs, P) == IF P THEN fs ELSE [fs EXCEPT !.asserts = FALSE]
syntaxerror(fs, P) == IF P THEN [fs EXCEPT !.error = TRUE] ELSE fs

(* ---------------------------- lists of jumps --------------------------- *)

fixjump(fs, pc, dest) ==
  [lua_assert(fs, dest # NO_JUMP) EXCEPT !.code[pc + 1].b = dest - (pc + 1)]

getlabel(fs) == [fs EXCEPT !.lasttarget = Pc(fs)]

getjump(fs, pc) ==
  IF CodeAt(fs, pc).b = NO_JUMP THEN NO_JUMP ELSE pc + 1 + CodeAt(fs, pc).b

RECURSIVE JumpsOf(_, _)
JumpsOf(fs, list) ==
  IF list = NO_JUMP THEN <<>> ELSE <<list>> \o JumpsOf(fs, getjump(fs, list))

\* the position of the instruction that decides whether the jump at pc is taken
getjumpcontrol(fs, pc) ==
  IF pc >= 1 /\ CodeAt(fs, pc - 1).op \in TMode THEN pc - 1 ELSE pc

Produces(fs, j) == CodeAt(fs, getjumpcontrol(fs, j)).op = "TESTSET"

NeverValue(fs, list) == FALSE   \* a mutant of the next definition
need_value(fs, list) == \E j \in Range(JumpsOf(fs, list)) : ~Produces(fs, j)

patchtestreg(fs, node, reg) ==
  LET c == getjumpcontrol(fs, node)
      i == CodeAt(fs, c)
  IN IF i.op # "TESTSET" THEN fs
     ELSE IF reg # NO_REG /\ reg # i.b THEN [fs EXCEPT !.code[c + 1].a = reg]
     ELSE [fs EXCEPT !.code[c + 1] = Instr("TEST", i.b, 0, i.c)]

removevalues(fs, list) ==
  FoldLeft(LAMBDA g, j : patchtestreg(g, j, NO_REG), fs, JumpsOf(fs, list))

patchlistaux(fs, list, vtarget, reg, dtarget) ==
  FoldLeft(LAMBDA g, j : fixjump(patchtestreg(g, j, reg), j,
                                 IF Produces(g, j) THEN vtarget ELSE dtarget),
           fs, JumpsOf(fs, list))

concat(fs, l1, l2) ==
  IF l1 = NO_JUMP \/ l2 = NO_JUMP THEN fs ELSE fixjump(fs, Last(JumpsOf(fs, l1)), l2)
ListHead(l1, l2) == IF l1 = NO_JUMP THEN l2 ELSE l1

patchtohere(fs, list) ==
  [concat(getlabel(fs), fs.jpc, list) EXCEPT !.jpc = ListHead(fs.jpc, list)]

patchlist(fs, list, target) ==
  IF target = Pc(fs) THEN patchtohere(fs, list)
  ELSE patchlistaux(lua_assert(fs, target < Pc(fs)), list, target, NO_REG, target)

patchclose(fs, list, level) ==
  FoldLeft(LAMBDA g, j :
             [lua_assert(g, /\ CodeAt(g, j).op = "JMP"
                            /\ CodeAt(g, j).a = 0 \/ CodeAt(g, j).a >= level + 1)
                EXCEPT !.code[j + 1].a = level + 1],
           fs, JumpsOf(fs, list))

(* ------------------------------ instructions --------------------------- *)

dischargejpc(fs) ==
  [patchlistaux(fs, fs.jpc, Pc(fs), NO_REG, Pc(fs)) EXCEPT !.jpc = NO_JUMP]

codeABC(fs, op, a, b, c) ==
  LET g == dischargejpc(fs) IN [g EXCEPT !.code = Append(@, Instr(op, a, b, c))]

\* the new jump is the last instruction of the result
jump(fs) ==
  LET g == codeABC([fs EXCEPT !.jpc = NO_JUMP], "JMP", 0, NO_JUMP, 0)
  IN concat(g, Pc(fs), fs.jpc)

condjump(fs, op, a, b, c) == jump(codeABC(fs, op, a, b, c))

LastPc(fs) == Pc(fs) - 1

luaK_nil(fs, from, n) ==
  LET l     == from + n - 1
      prev  == CodeAt(fs, LastPc(fs))
      pfrom == prev.a
      pl    == pfrom + prev.b
      lo    == IF pfrom < from THEN pfrom ELSE from
      hi    == IF pl > l THEN pl ELSE l
  IN IF /\ Pc(fs) > fs.lasttarget
        /\ prev.op = "LOADNIL"
        /\ \/ pfrom <= from /\ from <= pl + 1
           \/ from <= pfrom /\ pfrom <= l + 1
     THEN [fs EXCEPT !.code[Pc(fs)].a = lo, !.code[Pc(fs)].b = hi - lo]
     ELSE codeABC(fs, "LOADNIL", from, n - 1, 0)

ret(fs, first, nret) == codeABC(fs, "RETURN", first, nret + 1, 0)

checkstack(fs, n) ==
  LET top == fs.freereg + n
  IN [syntaxerror(fs, top >= MAXSTACK)
        EXCEPT !.maxstack = IF top > @ THEN top ELSE @]

reserveregs(fs, n) == [checkstack(fs, n) EXCEPT !.freereg = @ + n]

freereg(fs, reg) ==
  IF reg < BITRK /\ reg >= fs.nactvar
  THEN [lua_assert(fs, reg = fs.freereg - 1) EXCEPT !.freereg = @ - 1]
  ELSE fs

freeexp(fs, e) == IF e.k = "VNONRELOC" THEN freereg(fs, e.info) ELSE fs

(* ------------------------------- constants ----------------------------- *)

addk(fs, v) == IF v \in Range(fs.k) THEN fs ELSE [fs EXCEPT !.k = Append(@, v)]
KIndex(fs, v) == (CHOOSE i \in DOMAIN fs.k : fs.k[i] = v) - 1

Constant(x, v) ==
  LET g == addk(x.fs, v)
  IN [fs |-> g, e |-> [x.e EXCEPT !.k = "VK", !.info = KIndex(g, v)]]

(* ------------------------------ expressions ---------------------------- *)

With(x, fs, k, i) == [fs |-> fs, e |-> [x.e EXCEPT !.k = k, !.info = i]]

setreturns(fs, e, nresults) ==
  IF e.k = "VCALL" THEN [fs EXCEPT !.code[e.info + 1].c = nresults + 1] ELSE fs

setoneret(x) ==
  IF x.e.k = "VCALL" THEN With(x, x.fs, "VNONRELOC", CodeAt(x.fs, x.e.info).a) ELSE x

dischargevars(x) ==
  LET fs == x.fs
      e  == x.e
      g  == freereg(fs, e.idx)
  IN CASE e.k = "VLOCAL" -> With(x, fs, "VNONRELOC", e.info)
       [] e.k = "VUPVAL" ->
            With(x, codeABC(fs, "GETUPVAL", 0, e.info, 0), "VRELOCABLE", Pc(fs))
       [] e.k = "VINDEXED" /\ e.vt = "VLOCAL" ->
            With(x, codeABC(freereg(g, e.info), "GETTABLE", 0, e.info, e.idx),
                 "VRELOCABLE", Pc(fs))
       [] e.k = "VINDEXED" /\ e.vt # "VLOCAL" ->
            With(x, codeABC(g, "GETTABUP", 0, e.info, e.idx), "VRELOCABLE", Pc(fs))
       [] OTHER -> setoneret(x)

discharge2reg(x0, reg) ==
  LET x  == dischargevars(x0)
      fs == x.fs
      e  == x.e
      k  == Constant(x, <<"number", e.info>>)
      g  == CASE e.k = "VNIL" -> luaK_nil(fs, reg, 1)
              [] e.k = "VTRUE" -> codeABC(fs, "LOADBOOL", reg, 1, 0)
              [] e.k = "VFALSE" -> codeABC(fs, "LOADBOOL", reg, 0, 0)
              [] e.k = "VK" -> codeABC(fs, "LOADK", reg, e.info, 0)
              [] e.k = "VKNUM" -> codeABC(k.fs, "LOADK", reg, k.e.info, 0)
              [] e.k = "VRELOCABLE" -> [fs EXCEPT !.code[e.info + 1].a = reg]
              [] e.k = "VNONRELOC" /\ reg # e.info -> codeABC(fs, "MOVE", reg, e.info, 0)
              [] OTHER -> lua_assert(fs, e.k \in {"VNONRELOC", "VVOID", "VJMP"})
  IN IF e.k \in {"VVOID", "VJMP"} THEN [x EXCEPT !.fs = g]
     ELSE With(x, g, "VNONRELOC", reg)

discharge2anyreg(x) ==
  IF x.e.k = "VNONRELOC" THEN x
  ELSE LET g == reserveregs(x.fs, 1)
       IN discharge2reg([x EXCEPT !.fs = g], g.freereg - 1)

\* the pair of LOADBOOLs that jumps without a value of their own land on
LoadBools(fs, e, reg) ==
  LET before == IF e.k = "VJMP" THEN fs ELSE jump(fs)
      p_f    == codeABC(getlabel(before), "LOADBOOL", reg, 0, 1)
      p_t    == codeABC(getlabel(p_f), "LOADBOOL", reg, 1, 0)
  IN [fs |-> patchtohere(p_t, IF e.k = "VJMP" THEN NO_JUMP ELSE LastPc(before)),
      f |-> LastPc(p_f), t |-> LastPc(p_t)]

exp2reg(x0, reg) ==
  LET x  == discharge2reg(x0, reg)
      e  == x.e
      tl == IF e.k = "VJMP" THEN ListHead(e.t, e.info) ELSE e.t
      g1 == IF e.k = "VJMP" THEN concat(x.fs, e.t, e.info) ELSE x.fs
      lb == IF need_value(g1, tl) \/ need_value(g1, e.f)
            THEN LoadBools(g1, e, reg) ELSE [fs |-> g1, f |-> NO_JUMP, t |-> NO_JUMP]
      g2 == getlabel(lb.fs)
      g3 == patchlistaux(g2, e.f, Pc(g2), reg, lb.f)
      g4 == patchlistaux(g3, tl, Pc(g2), reg, lb.t)
  IN [fs |-> IF tl # e.f THEN g4 ELSE g1, e |-> init_exp("VNONRELOC", reg)]

exp2nextreg(x0) ==
  LET x == dischargevars(x0)
      g == reserveregs(freeexp(x.fs, x.e), 1)
  IN exp2reg([x EXCEPT !.fs = g], g.freereg - 1)

exp2anyreg(x0) ==
  LET x == dischargevars(x0)
  IN IF x.e.k = "VNONRELOC" /\ ~hasjumps(x.e) THEN x
     ELSE IF x.e.k = "VNONRELOC" /\ x.e.info >= x.fs.nactvar THEN exp2reg(x, x.e.info)
     ELSE exp2nextreg(x)

exp2anyregup(x) == IF x.e.k # "VUPVAL" \/ hasjumps(x.e) THEN exp2anyreg(x) ELSE x

exp2val(x) == IF hasjumps(x.e) THEN exp2anyreg(x) ELSE dischargevars(x)

exp2RK(x0) ==
  LET x == exp2val(x0)
      y == CASE x.e.k = "VKNUM" -> Constant(x, <<"number", x.e.info>>)
             [] x.e.k = "VNIL" /\ Len(x.fs.k) <= MaxIndexRK -> Constant(x, <<"nil">>)
             [] x.e.k \in {"VTRUE", "VFALSE"} /\ Len(x.fs.k) <= MaxIndexRK ->
                  Constant(x, <<"boolean", x.e.k = "VTRUE">>)
             [] OTHER -> x
  IN IF y.e.k = "VK" /\ y.e.info <= MaxIndexRK THEN y ELSE exp2anyreg(y)

\* the operand exp2RK returns
RKOf(e) == IF e.k = "VK" THEN BITRK + e.info ELSE e.info

storevar(fs, var, ex) ==
  LET x  == [fs |-> fs, e |-> ex]
      r  == exp2anyreg(x)
      rk == exp2RK(x)
      op == IF var.vt = "VLOCAL" THEN "SETTABLE" ELSE "SETTABUP"
  IN CASE var.k = "VLOCAL" -> exp2reg([x EXCEPT !.fs = freeexp(fs, ex)], var.info).fs
       [] var.k = "VUPVAL" ->
            freeexp(codeABC(r.fs, "SETUPVAL", r.e.info, var.info, 0), r.e)
       [] var.k = "VINDEXED" ->
            freeexp(codeABC(rk.fs, op, var.info, var.idx, RKOf(rk.e)), rk.e)
       [] OTHER -> lua_assert(fs, FALSE)

(* --------------------------- jumps on conditions ----------------------- *)

invertjump(fs, e) ==
  LET c == getjumpcontrol(fs, e.info)
  IN [lua_assert(fs, CodeAt(fs, c).op \in TMode \ {"TEST", "TESTSET"})
        EXCEPT !.code[c + 1].a = 1 - @]

\* the jump is the last instruction of the result
jumponcond(x, cond) ==
  LET fs == x.fs
      y  == discharge2anyreg(x)
  IN IF x.e.k = "VRELOCABLE" /\ CodeAt(fs, x.e.info).op = "NOT"
     THEN [x EXCEPT !.fs = condjump([fs EXCEPT !.code = Front(@)], "TEST",
                                    CodeAt(fs, x.e.info).b, 0, 1 - cond)]
     ELSE [y EXCEPT !.fs = condjump(freeexp(y.fs, y.e), "TESTSET",
                                    NO_REG, y.e.info, cond)]

goiftrue(x0) ==
  LET x  == dischargevars(x0)
      y  == CASE x.e.k = "VJMP" -> [x EXCEPT !.fs = invertjump(x.fs, x.e)]
              [] x.e.k \in {"VK", "VKNUM", "VTRUE"} -> x
              [] OTHER -> jumponcond(x, 0)
      pc == CASE x.e.k = "VJMP" -> x.e.info
              [] x.e.k \in {"VK", "VKNUM", "VTRUE"} -> NO_JUMP
              [] OTHER -> LastPc(y.fs)
  IN [fs |-> patchtohere(concat(y.fs, y.e.f, pc), y.e.t),
      e |-> [y.e EXCEPT !.f = ListHead(@, pc), !.t = NO_JUMP]]

goiffalse(x0) ==
  LET x  == dischargevars(x0)
      y  == IF x.e.k \in {"VJMP", "VNIL", "VFALSE"} THEN x ELSE jumponcond(x, 1)
      pc == CASE x.e.k = "VJMP" -> x.e.info
              [] x.e.k \in {"VNIL", "VFALSE"} -> NO_JUMP
              [] OTHER -> LastPc(y.fs)
  IN [fs |-> patchtohere(concat(y.fs, y.e.t, pc), y.e.f),
      e |-> [y.e EXCEPT !.t = ListHead(@, pc), !.f = NO_JUMP]]

codenot(x0) ==
  LET x == dischargevars(x0)
      y == discharge2anyreg(x)
      g == freeexp(y.fs, y.e)
      z == CASE x.e.k \in {"VNIL", "VFALSE"} -> With(x, x.fs, "VTRUE", x.e.info)
             [] x.e.k \in {"VK", "VKNUM", "VTRUE"} -> With(x, x.fs, "VFALSE", x.e.info)
             [] x.e.k = "VJMP" -> [x EXCEPT !.fs = invertjump(x.fs, x.e)]
             [] OTHER -> With(y, codeABC(g, "NOT", 0, y.e.info, 0), "VRELOCABLE", Pc(g))
  IN [fs |-> removevalues(removevalues(z.fs, z.e.t), z.e.f),
      e |-> [z.e EXCEPT !.t = z.e.f, !.f = z.e.t]]

(* --------------------------- indices, operators ------------------------ *)

indexed(fs, t, key) ==
  LET y == exp2RK([fs |-> lua_assert(fs, ~hasjumps(t)), e |-> key])
  IN [fs |-> y.fs,
      e |-> [t EXCEPT !.k = "VINDEXED", !.idx = RKOf(y.e),
                      !.vt = IF t.k = "VUPVAL" THEN "VUPVAL" ELSE "VLOCAL"]]

Arith(op, a, b) == CASE op = "ADD" -> a + b [] op = "SUB" -> a - b [] op = "MUL" -> a * b

codearith(fs, op, e1, e2) ==
  LET y2 == exp2RK([fs |-> fs, e |-> e2])
      y1 == exp2RK([fs |-> y2.fs, e |-> e1])
      g  == IF RKOf(y1.e) > RKOf(y2.e)
            THEN freeexp(freeexp(y1.fs, y1.e), y2.e)
            ELSE freeexp(freeexp(y1.fs, y2.e), y1.e)
  IN IF isnumeral(e1) /\ isnumeral(e2)
     THEN [fs |-> fs, e |-> [e1 EXCEPT !.info = Arith(op, e1.info, e2.info)]]
     ELSE With(y1, codeABC(g, op, 0, RKOf(y1.e), RKOf(y2.e)), "VRELOCABLE", Pc(g))

codecomp(fs, op, cond, e1, e2) ==
  LET y1   == exp2RK([fs |-> fs, e |-> e1])
      y2   == exp2RK([fs |-> y1.fs, e |-> e2])
      g    == freeexp(freeexp(y2.fs, y2.e), y1.e)
      swap == cond = 0 /\ op # "EQ"
      h    == IF swap THEN condjump(g, op, 1, RKOf(y2.e), RKOf(y1.e))
              ELSE condjump(g, op, cond, RKOf(y1.e), RKOf(y2.e))
  IN With(y1, h, "VJMP", LastPc(h))

infix(op, x) ==
  CASE op = "and" -> goiftrue(x)
    [] op = "or" -> goiffalse(x)
    [] op \in {"ADD", "SUB", "MUL"} /\ isnumeral(x.e) -> x
    [] OTHER -> exp2RK(x)

posfix(op, fs, e1, e2) ==
  LET y == dischargevars([fs |-> fs, e |-> e2])
  IN CASE op = "and" ->
            [fs |-> concat(lua_assert(y.fs, e1.t = NO_JUMP), y.e.f, e1.f),
             e |-> [y.e EXCEPT !.f = ListHead(@, e1.f)]]
       [] op = "or" ->
            [fs |-> concat(lua_assert(y.fs, e1.f = NO_JUMP), y.e.t, e1.t),
             e |-> [y.e EXCEPT !.t = ListHead(@, e1.t)]]
       [] op \in {"ADD", "SUB", "MUL"} -> codearith(fs, op, e1, e2)
       [] op \in {"EQ", "LT", "LE"} -> codecomp(fs, op, 1, e1, e2)
       [] op = "NE" -> codecomp(fs, "EQ", 0, e1, e2)
       [] op = "GT" -> codecomp(fs, "LT", 0, e1, e2)
       [] op = "GE" -> codecomp(fs, "LE", 0, e1, e2)

setlist(fs, base, c, tostore) ==
  [codeABC(fs, "SETLIST", base, IF tostore = MULTRET THEN 0 ELSE tostore, c)
     EXCEPT !.freereg = base + 1]
==============================================================================
