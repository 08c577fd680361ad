------------------------------- MODULE LuaGC --------------------------------
(***************************************************************************)
(* The garbage collector of the interpreter in lua/: lgc.c, and the places *)
(* that create, link and change collectable objects.  The program (called  *)
(* the mutator) and the collector take turns in one thread: a step of the  *)
(* collector is one call of singlestep, and the mutator may do anything    *)
(* between two of them, except while a call runs the collector to a state. *)
(*                                                                         *)
(* An object is a table, a userdata, a C closure or a string.  A table     *)
(* holds at most MaxEntries pairs <<key, value>>; a key that is not a      *)
(* collectable object is ArrayKey.  The others hold one value (a           *)
(* closure's upvalue, a userdata's environment) under ArrayKey.            *)
(***************************************************************************)
EXTENDS Naturals, FiniteSets, Sequences, TLC
LOCAL INSTANCE SequencesExt

CONSTANTS Obj, Main,     \* addresses of objects; the main thread
          ArrayKey, Nil,
          Kinds,         \* of objects that are created
          Modes,         \* of tables that are created: <<weak keys, weak values>>
          Calls,         \* "full", "mode", "finalizer": what else the program asks for
          MaxEntries, MaxStack, MaxOps

ASSUME LuaGCAssumption ==
  /\ IsFiniteSet(Obj) /\ Main \notin Obj /\ ArrayKey \notin Obj /\ Nil \notin Obj
  /\ Kinds \subseteq {"table", "udata", "closure", "string"}
  /\ Modes \subseteq BOOLEAN \X BOOLEAN

VARIABLES
  kind,      \* [Obj -> what is allocated there, or "free"]
  weakness,  \* [Obj -> the __mode of the table's metatable]
  stack,     \* the values on the stacks and in the registry
  m,         \* what marking changes: colours, gray lists and the entries of tables
  old, separated, finalized,          \* the bits OLDBIT, SEPARATED, FINALIZEDBIT
  next, allgc, finobj, tobefnz, strt, \* the lists of objects; strt is the string table
  sweepgc,   \* "allgc", "finobj": the list's head; o: the field next of o; "nullp"
  gcstate, gckind, currentwhite,
  agenda,    \* the sets of states the collector has still to be run to
  after,     \* the kind to set when the agenda is empty
  ops,       \* what the program has done (a bound)
  early,     \* history: ephemeron tables linked into allweak before atomic
  unswept    \* history: an object went to finobj as the sweep stood on it or was
             \* still to come to it

gcVars == <<kind, weakness, stack, m, old, separated, finalized, next, allgc, finobj,
            tobefnz, strt, sweepgc, gcstate, gckind, currentwhite, agenda, after,
            ops, early, unswept>>

States == {"pause", "propagate", "atomic", "sweepstring", "sweepudata", "sweep"}
SweepPhases == {"sweepstring", "sweepudata", "sweep"}

otherwhite == IF currentwhite = "white0" THEN "white1" ELSE "white0"
Whites == {"white0", "white1"}
isgenerational == gckind = "gen"
keepinvariant == isgenerational \/ gcstate \in {"propagate", "atomic"}

IsWhite(c, o) == o \in Obj \cup {Main} /\ c[o] \in Whites
isdead(o) == m.color[o] = otherwhite
Targets(mm, o) == UNION {{e[1], e[2]} : e \in mm.refs[o]} \ {ArrayKey}

----------------------------------------------------------------------------
(* Marking.  Each operator takes m and gives the m after it.               *)
RECURSIVE reallymarkobject(_, _), propagateall(_), propagatelist(_, _),
          ephemeronround(_, _, _), convergeephemerons(_), AfterRound(_)

(* Strings stay gray; a userdata is blackened with what it refers to; the  *)
(* others are to be visited.                                               *)
reallymarkobject(mm, S) ==
  LET W == {o \in S : IsWhite(mm.color, o)}
      U == {o \in W : o # Main /\ kind[o] = "udata"}
      G == {o \in W : o = Main \/ kind[o] \in {"table", "closure"}}
  IN IF W = {} THEN mm
     ELSE reallymarkobject(
            [mm EXCEPT !.color = [o \in U |-> "black"] @@ [o \in W |-> "gray"] @@ @,
                       !.gray = @ \cup G],
            UNION {Targets(mm, o) : o \in U})

SetColor(mm, o, c) == [mm EXCEPT !.color[o] = c]
LinkTo(mm, o, list) == [mm EXCEPT ![list] = @ \cup {o}]

(* iscleared marks strings as it looks at them: they are never removed.    *)
Strings(S) == {o \in S : o \in Obj /\ kind[o] = "string"}
NotBlack(mm, o) == o # ArrayKey /\ mm.color[o] # "black"   \* a mutant of the next definition
iscleared(mm, o) == IsWhite(mm.color, o) /\ kind[o] # "string"

HasClears(mm, h) == \E e \in mm.refs[h] : e[1] = ArrayKey \/ iscleared(mm, e[2])
LinkWeakValue(mm, h) == LinkTo(mm, h, IF HasClears(mm, h) THEN "weak" ELSE "grayagain")
traverseweakvalue(mm, h) ==
  LinkWeakValue(reallymarkobject(mm, {e[1] : e \in mm.refs[h]}
                                       \cup Strings({e[2] : e \in mm.refs[h]})), h)

\* with the strings among the keys marked
LinkEphemeron(mm, h, W) ==
  LinkTo(reallymarkobject(mm, {e[2] : e \in mm.refs[h] \ W}), h,
         IF \E e \in W : IsWhite(mm.color, e[2]) THEN "ephemeron"
         ELSE IF W # {} THEN "allweak" ELSE "grayagain")
VisitEphemeron(mm, h) == LinkEphemeron(mm, h, {e \in mm.refs[h] : iscleared(mm, e[1])})
traverseephemeron(mm, h) ==
  VisitEphemeron(reallymarkobject(mm, Strings({e[1] : e \in mm.refs[h]})), h)

(* Whether traverseephemeron has marked something.                         *)
EphemeronMarks(mm, h) ==
  \E e \in mm.refs[h] : IsWhite(mm.color, e[2]) /\ ~iscleared(mm, e[1])

traversetable(mm, h) ==
  LET grayed == SetColor(mm, h, "gray")
  IN CASE weakness[h] = <<FALSE, FALSE>> -> reallymarkobject(mm, Targets(mm, h))
       [] weakness[h] = <<FALSE, TRUE>> -> traverseweakvalue(grayed, h)
       [] weakness[h] = <<TRUE, FALSE>> -> traverseephemeron(grayed, h)
       [] OTHER -> LinkTo(grayed, h, "allweak")

(* A thread stays gray and is visited again in the atomic step.            *)
Visit(mm, o) ==
  CASE o = Main -> reallymarkobject(LinkTo(SetColor(mm, o, "gray"), o, "grayagain"), stack)
    [] o # Main /\ kind[o] = "table" -> traversetable(mm, o)
    [] OTHER -> reallymarkobject(mm, Targets(mm, o))
propagatemark(mm, o) == Visit([mm EXCEPT !.gray = @ \ {o}, !.color[o] = "black"], o)

propagateall(mm) ==
  IF mm.gray = {} THEN mm
  ELSE propagateall(propagatemark(mm, CHOOSE o \in mm.gray : TRUE))

propagatelist(mm, list) == propagateall([mm EXCEPT !.gray = list])

(* The list allweak is not visited again.                                  *)
retraversegrays(mm) ==
  FoldLeft(propagatelist,
           propagateall([mm EXCEPT !.weak = {}, !.grayagain = {}, !.ephemeron = {}]),
           <<mm.grayagain, mm.weak, mm.ephemeron>>)

ephemeronround(mm, list, changed) ==
  IF list = {} THEN <<mm, changed>>
  ELSE LET h == CHOOSE h \in list : TRUE
       IN ephemeronround(propagateall(traverseephemeron(mm, h)), list \ {h},
                         changed \/ EphemeronMarks(mm, h))

\* after a round; once more if it has marked something
AfterRound(r) == IF r[2] THEN convergeephemerons(r[1]) ELSE r[1]
convergeephemerons(mm) ==
  AfterRound(ephemeronround([mm EXCEPT !.ephemeron = {}], mm.ephemeron, FALSE))

\* takes the entries with a dead key (i = 1) or value (i = 2) out of the tables of list
ClearEntries(mm, list, i) ==
  [mm EXCEPT !.refs = [h \in list |-> {e \in mm.refs[h] : ~iscleared(mm, e[i])}] @@ @]
clearvalues(mm, list) ==
  ClearEntries(reallymarkobject(mm, Strings(UNION {Targets(mm, h) : h \in list})), list, 2)
clearkeys(mm, list) ==
  ClearEntries(reallymarkobject(mm, Strings(UNION {{e[1] : e \in mm.refs[h]} : h \in list})),
               list, 1)

----------------------------------------------------------------------------
(* The lists of objects.                                                   *)
RECURSIVE Chain(_, _)
Chain(nx, head) == IF head = Nil THEN <<>> ELSE <<head>> \o Chain(nx, nx[head])

InOrder(nx, s) == [o \in Obj |->
  IF \E i \in DOMAIN s : s[i] = o
  THEN LET i == CHOOSE i \in DOMAIN s : s[i] = o
       IN IF i = Len(s) THEN Nil ELSE s[i + 1]
  ELSE nx[o]]

First(s) == IF s = <<>> THEN Nil ELSE s[1]

(* The objects to be finalized go, in their order, from finobj to the end  *)
(* of tobefnz.                                                             *)
separatetobefnz(mm) ==
  LET fin  == Chain(next, finobj)
      keep == SelectSeq(fin, LAMBDA o : ~IsWhite(mm.color, o))
      move == SelectSeq(fin, LAMBDA o : IsWhite(mm.color, o))
      pend == Chain(next, tobefnz) \o move
  IN /\ next' = InOrder(InOrder(next, keep), pend)
     /\ finobj' = First(keep)
     /\ tobefnz' = First(pend)
     /\ finalized' = finalized \cup {move[i] : i \in DOMAIN move}

(* They are whitened and marked again, after separation.                   *)
markbeingfnz(mm, S) ==
  reallymarkobject([mm EXCEPT !.color = [o \in S |-> currentwhite] @@ @], S)

ElementsFrom(nx, head) == LET s == Chain(nx, head) IN {s[i] : i \in DOMAIN s}

NoLists(mm) == [mm EXCEPT !.gray = {}, !.grayagain = {}, !.weak = {},
                          !.allweak = {}, !.ephemeron = {}]

(* The registry and the basic metatables are among the values of stack: a  *)
(* program changes them through the API as it changes its stack.           *)
markroot ==
  markbeingfnz(reallymarkobject(NoLists(m), {Main} \cup stack), ElementsFrom(next, tobefnz))

\* m1 with everything marked that the program reaches, m2 without what only weak
\* tables refer to, m3 with what the finalizers reach
ClearWeak(m1) == clearvalues(clearvalues(m1, m1.weak), m1.allweak)
BeingFinalized(m2) == ElementsFrom(next, tobefnz)
                      \cup {o \in ElementsFrom(next, finobj) : IsWhite(m2.color, o)}
ClearKeys(m3) == clearkeys(clearkeys(m3, m3.ephemeron), m3.allweak)
ClearNew(m4, m2) ==
  clearvalues(clearvalues(m4, m4.weak \ m2.weak), m4.allweak \ m2.allweak)

atomic ==
  /\ \E m1 \in {convergeephemerons(retraversegrays(reallymarkobject(m, {Main} \cup stack)))} :
     \E m2 \in {ClearWeak(m1)} :
     \E m3 \in {convergeephemerons(propagateall(markbeingfnz(m2, BeingFinalized(m2))))} :
       m' = ClearNew(ClearKeys(m3), m2) /\ separatetobefnz(m2)
  /\ gcstate' = "sweepstring"
  /\ currentwhite' = otherwhite

(* Tables that go into allweak in this step though only their keys are weak. *)
NowEarly(mm) == {h \in mm.allweak \ m.allweak : weakness[h] = <<TRUE, FALSE>>}

----------------------------------------------------------------------------
(* Sweeping, one object in a step (GCSWEEPMAX = 1).                        *)
At(p) == IF p = "allgc" THEN allgc
         ELSE IF p = "finobj" THEN finobj
         ELSE IF p = "nullp" THEN Nil ELSE next[p]

(* Nothing is kept of an object that is freed.                             *)
Forget(mm, S) == [mm EXCEPT !.color = [o \in S |-> "white0"] @@ @,
                            !.refs = [o \in S |-> {}] @@ @]

freeobj(S) ==
  /\ kind' = [o \in Obj |-> IF o \in S THEN "free" ELSE kind[o]]
  /\ weakness' = [o \in Obj |-> IF o \in S THEN <<FALSE, FALSE>> ELSE weakness[o]]
  /\ old' = old \ S /\ separated' = separated \ S /\ finalized' = finalized \ S
  /\ early' = early \ S

(* What a living object becomes: white, or in generational mode old.       *)
Swept(o) == IF isgenerational THEN m ELSE [m EXCEPT !.color[o] = currentwhite]

sweepstring ==
  LET dead == {o \in strt : isdead(o)}
  IN /\ freeobj(dead)
     /\ strt' = strt \ dead
     /\ m' = [Forget(m, dead) EXCEPT !.color =
                [o \in (IF isgenerational THEN {} ELSE strt \ dead) |-> currentwhite] @@ @]
     /\ sweepgc' = "finobj" /\ gcstate' = "sweepudata"
     /\ UNCHANGED <<next, allgc, finobj>>

SetAt(p, o) ==
  /\ allgc' = IF p = "allgc" THEN o ELSE allgc
  /\ finobj' = IF p = "finobj" THEN o ELSE finobj
  /\ next' = [q \in Obj |-> IF q = p THEN o ELSE IF q = At(p) THEN Nil ELSE next[q]]

sweeplist ==
  LET curr == At(sweepgc)
  IN IF isdead(curr)
     THEN /\ freeobj({curr}) /\ SetAt(sweepgc, next[curr])
          /\ m' = Forget(m, {curr})
          /\ UNCHANGED <<sweepgc, strt, gcstate>>
     ELSE /\ IF isgenerational /\ curr \in old
             THEN sweepgc' = "nullp" /\ UNCHANGED <<m, old>>
             ELSE /\ m' = Swept(curr) /\ sweepgc' = curr
                  /\ old' = IF isgenerational THEN old \cup {curr} ELSE old \ {curr}
          /\ UNCHANGED <<kind, weakness, separated, finalized, early, next, allgc, finobj, strt, gcstate>>

(* The end of a list: on to the next one, or the end of the cycle.         *)
EndOfList ==
  /\ IF gcstate = "sweepudata"
     THEN sweepgc' = "allgc" /\ gcstate' = "sweep" /\ UNCHANGED m
     ELSE /\ gcstate' = "pause" /\ sweepgc' = "nullp"
          /\ m' = IF isgenerational THEN m ELSE SetColor(m, Main, currentwhite)
  /\ UNCHANGED <<kind, weakness, old, separated, finalized, early, next, allgc, finobj, strt>>

singlestep ==
  /\ \/ /\ gcstate = "pause" /\ gcstate' = "propagate"
        /\ m' = (IF isgenerational THEN m ELSE markroot)
        /\ early' = IF isgenerational THEN early ELSE {}
        /\ UNCHANGED <<kind, weakness, old, separated, finalized, next, allgc, finobj, tobefnz, strt,
                       sweepgc, currentwhite>>
     \/ /\ gcstate = "propagate" /\ m.gray # {}
        /\ \E o \in m.gray : m' = propagatemark(m, o)
        /\ early' = early \cup NowEarly(m')
        /\ UNCHANGED <<kind, weakness, old, separated, finalized, next, allgc, finobj, tobefnz, strt,
                       sweepgc, gcstate, currentwhite>>
     \/ /\ gcstate = "propagate" /\ m.gray = {} /\ atomic
        /\ UNCHANGED <<kind, weakness, old, separated, allgc, strt, sweepgc, early>>
     \/ /\ gcstate = "sweepstring" /\ sweepstring
        /\ UNCHANGED <<tobefnz, currentwhite>>
     \/ /\ gcstate \in {"sweepudata", "sweep"}
        /\ IF At(sweepgc) = Nil THEN EndOfList ELSE sweeplist
        /\ UNCHANGED <<tobefnz, currentwhite>>
  /\ UNCHANGED <<stack, gckind, agenda, after, ops, unswept>>

----------------------------------------------------------------------------
(* A call of the program, between two steps of the collector.              *)
Mutator == agenda = <<>> /\ ops < MaxOps /\ ops' = ops + 1

(* The calls that run the collector to a state: luaC_runtilstate, for each *)
(* element of the agenda in turn, and then the kind that was to be kept.   *)
luaC_runtilstate ==
  /\ agenda # <<>>
  /\ IF gcstate \in Head(agenda)
     THEN /\ agenda' = Tail(agenda)
          /\ gckind' = IF Len(agenda) = 1 THEN after ELSE gckind
          /\ UNCHANGED <<kind, weakness, stack, m, old, separated, finalized, next, allgc, finobj,
                         tobefnz, strt, sweepgc, gcstate, currentwhite, after, ops, early, unswept>>
     ELSE singlestep

Run(goals, during, then) == agenda' = goals /\ gckind' = during /\ after' = then

NotInPause == States \ {"pause"}

(* A full collection; one for want of memory calls no finalizers.  While   *)
(* marking, all is swept back to white first.                              *)
luaC_fullgc(isemergency) ==
  /\ "full" \in Calls /\ Mutator
  /\ isemergency \/ tobefnz = Nil   \* callallpendingfinalizers
  /\ gcstate' = IF keepinvariant THEN "sweepstring" ELSE gcstate
  /\ Run(<<{"pause"}, NotInPause, {"pause"}>>
           \o (IF isgenerational THEN << {"propagate"} >> ELSE <<>>), "normal", gckind)
  /\ UNCHANGED <<kind, weakness, stack, m, old, separated, finalized, next, allgc, finobj,
                 tobefnz, strt, sweepgc, currentwhite, early, unswept>>

(* luaC_forcestep: part of the work, or a whole cycle of the generational  *)
(* collector.                                                              *)
step == agenda = <<>> /\ ~isgenerational /\ singlestep

generationalcollection ==
  /\ agenda = <<>> /\ isgenerational
  /\ Run(<<NotInPause, {"pause"}>>, "gen", "gen")
  /\ UNCHANGED <<kind, weakness, stack, m, old, separated, finalized, next, allgc, finobj,
                 tobefnz, strt, sweepgc, gcstate, currentwhite, ops, early, unswept>>

luaC_changemode ==
  /\ "mode" \in Calls /\ Mutator
  /\ IF isgenerational
     THEN gcstate' = "sweepstring" /\ Run(<<States \ SweepPhases>>, "normal", "normal")
     ELSE UNCHANGED gcstate /\ Run(<< {"propagate"} >>, "normal", "gen")
  /\ UNCHANGED <<kind, weakness, stack, m, old, separated, finalized, next, allgc, finobj,
                 tobefnz, strt, sweepgc, currentwhite, early, unswept>>

(* The call of a finalizer: the object goes back to allgc and to the       *)
(* program, which may keep it.                                             *)
GCTM ==
  /\ agenda = <<>> /\ tobefnz # Nil
  /\ stack' = stack \cup {tobefnz}
  /\ tobefnz' = next[tobefnz]
  /\ next' = [next EXCEPT ![tobefnz] = allgc] /\ allgc' = tobefnz
  /\ separated' = separated \ {tobefnz} /\ old' = old \ {tobefnz}
  /\ m' = IF keepinvariant THEN m ELSE SetColor(m, tobefnz, currentwhite)
  /\ UNCHANGED <<kind, weakness, finalized, finobj, strt, sweepgc, gcstate, gckind, currentwhite,
                 agenda, after, ops, early, unswept>>

----------------------------------------------------------------------------
(* The mutator.                                                            *)
(* Which address a new object gets makes no difference.                    *)
Fresh == CHOOSE o \in Obj : kind[o] = "free"

luaC_newobj ==
  /\ Mutator /\ (\E o \in Obj : kind[o] = "free") /\ Cardinality(stack) < MaxStack
  /\ \E o \in {Fresh}, k \in Kinds, w \in Modes \cup {<<FALSE, FALSE>>} :
       /\ (k # "table" => w = <<FALSE, FALSE>>)
       /\ kind' = [kind EXCEPT ![o] = k] /\ weakness' = [weakness EXCEPT ![o] = w]
       /\ m' = [SetColor(m, o, currentwhite) EXCEPT !.refs[o] = {}]
       /\ stack' = stack \cup {o}
       /\ IF k = "string" THEN strt' = strt \cup {o} /\ UNCHANGED <<next, allgc>>
          ELSE next' = [next EXCEPT ![o] = allgc] /\ allgc' = o /\ UNCHANGED strt
  /\ UNCHANGED <<old, separated, finalized, finobj, tobefnz, sweepgc, gcstate, gckind,
                 currentwhite, agenda, after, early, unswept>>

(* The text of a string that is there is made again: luaS_newlstr finds it *)
(* in the string table, dead or not.                                       *)
Resurrect(o) == m' = IF isdead(o) THEN SetColor(m, o, currentwhite) ELSE m

luaS_newlstr ==
  /\ Mutator /\ Cardinality(stack) < MaxStack
  /\ \E o \in strt \ stack : stack' = stack \cup {o} /\ Resurrect(o)
  /\ UNCHANGED <<kind, weakness, old, separated, finalized, next, allgc, finobj, tobefnz, strt,
                 sweepgc, gcstate, gckind, currentwhite, agenda, after, early, unswept>>

Only(s, mm) ==
  /\ stack' = s /\ m' = mm
  /\ UNCHANGED <<kind, weakness, old, separated, finalized, next, allgc, finobj, tobefnz, strt,
                 sweepgc, gcstate, gckind, currentwhite, agenda, after, early, unswept>>

Pop == Mutator /\ \E o \in stack : Only(stack \ {o}, m)

Get == Mutator /\ Cardinality(stack) < MaxStack
       /\ \E o \in stack : \E v \in Targets(m, o) \ stack : Only(stack \cup {v}, m)

(* luaC_barrierback: a black table that gets a white key or value is gray  *)
(* again, and visited again in the atomic step.                            *)
BarrierBack(mm, t, S) ==
  IF mm.color[t] = "black" /\ \E o \in S : IsWhite(mm.color, o)
  THEN LinkTo(SetColor(mm, t, "gray"), t, "grayagain") ELSE mm

Keyed(S, k) == {e \in S : e[1] # k}

Set == Mutator /\ \E t \in stack : \E k \in stack \cup {ArrayKey}, v \in stack :
  /\ kind[t] = "table"
  /\ Cardinality(Keyed(m.refs[t], k)) < MaxEntries
  /\ Only(stack, BarrierBack([m EXCEPT !.refs[t] = Keyed(@, k) \cup {<<k, v>>}], t, {k, v}))

SetNil == Mutator /\ \E t \in stack : \E e \in m.refs[t] :
  kind[t] = "table" /\ Only(stack, [m EXCEPT !.refs[t] = Keyed(@, e[1])])

(* luaC_barrier: a black object that gets a white value marks it, or is    *)
(* whitened itself while sweeping.                                         *)
NoBarrier(mm, o, v) == mm   \* a mutant of the next definition
Barrier(mm, o, v) ==
  IF mm.color[o] = "black" /\ IsWhite(mm.color, v)
  THEN IF keepinvariant THEN reallymarkobject(mm, {v}) ELSE SetColor(mm, o, currentwhite)
  ELSE mm

SetField == Mutator /\ \E o \in stack, v \in stack :
  /\ kind[o] \in {"closure", "udata"}
  /\ Only(stack, Barrier([m EXCEPT !.refs[o] = {<<ArrayKey, v>>}], o, v))

(* luaC_checkfinalizer: the object goes from allgc to finobj as it is, also *)
(* when the sweep stands on it or has not come to it but passed finobj.    *)
luaC_checkfinalizer == "finalizer" \in Calls /\ Mutator /\ \E o \in stack :
  /\ kind[o] \in {"table", "udata"} /\ o \notin separated \cup finalized
  /\ LET rest == SelectSeq(Chain(next, allgc), LAMBDA q : q # o)
     IN allgc' = First(rest) /\ next' = [InOrder(next, rest) EXCEPT ![o] = finobj]
  /\ finobj' = o
  /\ separated' = separated \cup {o} /\ old' = old \ {o}
  /\ unswept' = (unswept \/ (gcstate \in {"sweepudata", "sweep"}
                             /\ (sweepgc = o \/ m.color[o] # currentwhite)))
  /\ UNCHANGED <<kind, weakness, stack, m, finalized, tobefnz, strt, sweepgc, gcstate, gckind,
                 currentwhite, agenda, after, early>>

GCInit ==
  /\ kind = [o \in Obj |-> "free"] /\ weakness = [o \in Obj |-> <<FALSE, FALSE>>]
  /\ stack = {} /\ old = {} /\ separated = {} /\ finalized = {} /\ strt = {}
  /\ m = [color |-> [o \in Obj \cup {Main} |-> "white0"], refs |-> [o \in Obj |-> {}],
          gray |-> {}, grayagain |-> {}, weak |-> {}, allweak |-> {}, ephemeron |-> {}]
  /\ next = [o \in Obj |-> Nil] /\ allgc = Nil /\ finobj = Nil /\ tobefnz = Nil
  /\ sweepgc = "nullp" /\ gcstate = "pause" /\ gckind = "normal" /\ currentwhite = "white0"
  /\ agenda = <<>> /\ after = "normal" /\ ops = 0 /\ early = {} /\ unswept = FALSE

Collector == luaC_runtilstate \/ luaC_fullgc(TRUE) \/ luaC_fullgc(FALSE) \/ step
             \/ generationalcollection \/ luaC_changemode \/ GCTM

GCNext == Collector \/ luaC_newobj \/ luaS_newlstr \/ Pop \/ Get \/ Set \/ SetNil \/ SetField
          \/ luaC_checkfinalizer

GCSpec == GCInit /\ [][GCNext]_gcVars

----------------------------------------------------------------------------
RECURSIVE Reach(_), Live(_)
Reach(S) == LET N == S \cup UNION {Targets(m, o) : o \in S} IN IF N = S THEN S ELSE Reach(N)

(* What a table keeps alive when the objects of S are alive.               *)
Holds(S, o) ==
  LET weakkey == weakness[o][1]  weakvalue == weakness[o][2]
  IN UNION {  (IF weakkey THEN {} ELSE {e[1]})
              \cup (IF weakvalue \/ (weakkey /\ e[1] \notin S \cup {ArrayKey}) THEN {} ELSE {e[2]})
              \cup Strings({e[1], e[2]}) : e \in m.refs[o]} \ {ArrayKey}
Live(S) == LET N == S \cup UNION {Holds(S, o) : o \in S} IN IF N = S THEN S ELSE Live(N)

Roots == stack \cup ElementsFrom(next, tobefnz)

(* What the program can read, from its stack or an object to be finalized  *)
(* and through tables strong or weak, has not been freed and is not about  *)
(* to be: it is not of the white that is swept.  Not claimed once the      *)
(* finalizer of an object was set while the sweep had not come to it: such *)
(* an object keeps its old colour.                                         *)
Readable(o) == kind[o] # "free" /\ (isdead(o) => gcstate \notin SweepPhases)
NothingReadableFreed == ~unswept => \A o \in Reach(Roots) : Readable(o)

(* The collector takes an entry out of a living table only if the key is   *)
(* weak and not alive, or the value is weak and was alive at most for its  *)
(* finalizer.                                                              *)
MayGo(h, e) ==
  \/ weakness[h][1] /\ e[1] \notin Live(Roots) \cup {ArrayKey}
  \/ weakness[h][2] /\ e[2] \notin Live(Roots)
LosesNone(S) ==
  \A h \in S : \A e \in m.refs[h] \ m'.refs[h] : h \in Live(Roots) => MayGo(h, e)

(* So with every table but the ephemeron tables that were linked into      *)
(* allweak before the atomic step, which does not visit that list again.   *)
KeepsEntries == [][ops' = ops /\ ~unswept => LosesNone(Obj \ early)]_gcVars
=============================================================================
