-------------------------------- MODULE MCLua ---------------------------------
(* The parts of Lua, side by side for TLC: every behaviour is one of one part, chosen
   in the initial state, while the others stay as they were initialised. *)
EXTENDS LuaGC, LuaTable, LuaDo, MCLuaVM

CONSTANTS o1, o2, o3,   \* objects of the heap
          s1, s2        \* keys of a table

(* The keys share a slot until the hash part has four. *)
HashOfKeys == (s1 :> 0) @@ (s2 :> 2)

(* No value of the table differs from another. *)
ValuesAlike == Permutations(TableValues)

WeakModes == BOOLEAN \X BOOLEAN

VARIABLE part

lua == <<gcVars, tableVars, doVars, luavm, part>>

(* Before the first cycle.                                                 *)
Untouched(done) ==
  /\ ops = done /\ old = {} /\ separated = {} /\ finalized = {}
  /\ finobj = Nil /\ tobefnz = Nil /\ sweepgc = "nullp" /\ gckind = "normal"
  /\ currentwhite = "white0" /\ agenda = <<>> /\ after = "normal"
  /\ early = {} /\ unswept = FALSE

White == [color |-> [o \in Obj \cup {Main} |-> "white0"], refs |-> [o \in Obj |-> {}],
          gray |-> {}, grayagain |-> {}, weak |-> {}, allweak |-> {}, ephemeron |-> {}]

(* The program has created two objects: o1, which can refer to another,
   then o2, which it may come to refer to. *)
Strong == <<FALSE, FALSE>>
Holders == ({"table"} \X Modes) \cup ({"closure", "udata"} \X {Strong})
HeldKinds == {"table", "udata", "string"} \X {Strong}

Linked(S) == SelectSeq(<<o2, o1>>, LAMBDA o : o \in S)

TwoMade(first, second) ==
  LET made == (o1 :> first) @@ (o2 :> second) @@ [o \in Obj |-> <<"free", Strong>>]
  IN /\ kind = [o \in Obj |-> made[o][1]] /\ weakness = [o \in Obj |-> made[o][2]]
     /\ strt = {o \in Obj : made[o][1] = "string"}
     /\ next = InOrder([o \in Obj |-> Nil], Linked({o1, o2} \ strt))
     /\ allgc = First(Linked({o1, o2} \ strt))
     /\ stack = {o1, o2} /\ m = White /\ gcstate = "pause" /\ Untouched(1)

(* Heaps of three tables the program has built before; it does a few things more with
   them, up to MaxOps, while the collector runs. *)
Built(ephemerons, marks, state, done) ==
  /\ kind = [o \in Obj |-> "table"] /\ stack = Obj /\ m = marks
  /\ weakness = [o \in Obj |-> <<o \in ephemerons, FALSE>>]
  /\ next = (o1 :> Nil) @@ (o2 :> o1) @@ (o3 :> o2)
  /\ allgc = o3 /\ strt = {} /\ gcstate = state /\ Untouched(done)

(* Two ephemeron tables, the value of each alive only if the other's is. *)
TwoEphemerons ==
  Built({o1, o2},
        [White EXCEPT !.refs = (o1 :> {<<o3, o2>>}) @@ (o2 :> {<<o1, o3>>}) @@ @],
        "pause", 1)

(* An ephemeron table that marking has met but not visited when its key is made. *)
KeyMadeInMarking ==
  Built({o1},
        [White EXCEPT !.color = (o1 :> "gray") @@ (Main :> "gray") @@ @,
                      !.refs[o1] = {<<o2, o1>>},
                      !.gray = {o1}, !.grayagain = {Main}],
        "propagate", 2)

MCInit ==
  /\ TableInit /\ DoInit /\ VMInit
  /\ \/ GCInit /\ part \in {"gc", "table", "do", "vm"}
     \/ /\ part = "gc"
        /\ \/ \E first \in Holders, second \in HeldKinds : TwoMade(first, second)
           \/ TwoEphemerons
           \/ KeyMadeInMarking

GCPart    == part = "gc" /\ GCNext /\ UNCHANGED <<tableVars, doVars, luavm, part>>
TablePart == part = "table" /\ TableNext /\ UNCHANGED <<gcVars, doVars, luavm, part>>
DoPart    == part = "do" /\ DoNext /\ UNCHANGED <<gcVars, tableVars, luavm, part>>
VMPart    == part = "vm" /\ VMNext /\ UNCHANGED <<gcVars, tableVars, doVars, part>>

MCNext == GCPart \/ TablePart \/ DoPart \/ VMPart

MCSpec == MCInit /\ [][MCNext]_lua
===============================================================================
