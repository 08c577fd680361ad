-------------------------------- MODULE LuaVM --------------------------------
(***************************************************************************)
(* A program on its way through the compiler (LuaParser) and the main loop *)
(* of the virtual machine (luaV_execute of lvm.c, one action per group of  *)
(* instructions), with the frames of luaD_precall and luaD_poscall and the *)
(* upvalues of lfunc.c.  A value is a tuple that starts with its type.     *)
(* Metatables, coroutines, hooks and the collector are left out.           *)
(*                                                                         *)
(* At the end the tables the program has written must be those that        *)
(* LuaMeaning, which evaluates the tree itself, says.                      *)
(***************************************************************************)
EXTENDS LuaParser, LuaMeaning, LuaDump
LOCAL INSTANCE SequencesExt

CONSTANTS Programs,   \* sets of trees to compile and run
          MaxCode,    \* a bound on the instructions one run executes
          Parsed(_), Lawful(_), Meant(_)   \* luaY_parser, Legal and Meaning

VARIABLES program,    \* the tree
          stage,      \* "start", "source", "run", "done", "failed", "rejected"
          main,       \* what the compiler made of it
          regs,       \* the stack, up to the registers of the running function
          top,        \* L->top, after an open call
          calls,      \* the frames: closure, base, saved pc, results wanted
          upvals,     \* the upvalues, open ones in the stack
          closures,   \* the closures created
          heap,       \* the tables; the first one holds the globals
          executed    \* instructions so far

luavm == <<program, stage, main, regs, top, calls, upvals, closures, heap, executed>>

Junk == <<"junk">>
GlobalTable == <<"table", 1>>

VMInit ==
  /\ program = <<>>
  /\ stage = "start"
  /\ main = <<>>
  /\ regs = <<>>
  /\ top = 0
  /\ calls = <<>>
  /\ upvals = <<[open |-> FALSE, at |-> 0, v |-> GlobalTable]>>
  /\ closures = <<>>
  /\ heap = <<EmptyTable>>
  /\ executed = 0

(* --------------------------- frames and operands ----------------------- *)

Ci == Last(calls)
Code == closures[Ci.cl].p.code
I == Code[Ci.pc + 1]
K(i) == closures[Ci.cl].p.k[i + 1]
R(i) == regs[Ci.base + i + 1]
RK(i) == IF i >= BITRK THEN K(i - BITRK) ELSE R(i)
Upval(i) == closures[Ci.cl].ups[i + 1]
UpvalValue(u) == IF upvals[u].open THEN regs[upvals[u].at] ELSE upvals[u].v
isfalse(v) == v \in {nil, <<"boolean", FALSE>>}

Execute(ops) ==
  /\ stage = "run"
  /\ executed < MaxCode
  /\ I.op \in ops
  /\ executed' = executed + 1
  /\ UNCHANGED <<program, main>>

Goto(pc) == calls' = [calls EXCEPT ![Len(calls)].pc = pc]
StepOn == Goto(Ci.pc + 1)
SetR(i, v) == regs' = [regs EXCEPT ![Ci.base + i + 1] = v]
Keeps(changed) ==   \* what an instruction leaves alone
  /\ "regs" \notin changed => UNCHANGED regs
  /\ "heap" \notin changed => UNCHANGED heap
  /\ "upvals" \notin changed => UNCHANGED upvals
  /\ UNCHANGED <<stage, top, closures>>

runerror ==
  /\ stage' = "failed"
  /\ UNCHANGED <<regs, top, calls, upvals, closures, heap>>

closeupvals(us, level) ==
  [u \in DOMAIN us |-> IF us[u].open /\ us[u].at >= level
                       THEN [us[u] EXCEPT !.open = FALSE, !.v = regs[us[u].at]] ELSE us[u]]

\* where the jump i goes, when it follows the instruction at pc
dojump(i, pc) ==
  /\ Goto(pc + 1 + i.b)
  /\ upvals' = IF i.a > 0 THEN closeupvals(upvals, Ci.base + i.a) ELSE upvals

donextjump == dojump(Code[Ci.pc + 2], Ci.pc + 1)
SkipJump == Goto(Ci.pc + 2) /\ UNCHANGED upvals

(* ------------------------------ instructions --------------------------- *)

Load ==
  /\ Execute({"MOVE", "LOADK", "LOADBOOL", "LOADNIL", "GETUPVAL", "NOT"})
  /\ CASE I.op = "MOVE" -> SetR(I.a, R(I.b))
       [] I.op = "LOADK" -> SetR(I.a, K(I.b))
       [] I.op = "LOADBOOL" -> SetR(I.a, <<"boolean", I.b = 1>>)
       [] I.op = "LOADNIL" ->
            regs' = [r \in DOMAIN regs |->
                       IF r - Ci.base - 1 \in I.a .. I.a + I.b THEN nil ELSE regs[r]]
       [] I.op = "GETUPVAL" -> SetR(I.a, UpvalValue(Upval(I.b)))
       [] I.op = "NOT" -> SetR(I.a, <<"boolean", isfalse(R(I.b))>>)
  /\ IF I.op = "LOADBOOL" /\ I.c = 1 THEN Goto(Ci.pc + 2) ELSE StepOn
  /\ Keeps({"regs"})

SetUpval ==
  /\ Execute({"SETUPVAL"})
  /\ LET u == Upval(I.b)
     IN IF upvals[u].open
        THEN regs' = [regs EXCEPT ![upvals[u].at] = R(I.a)] /\ UNCHANGED upvals
        ELSE upvals' = [upvals EXCEPT ![u].v = R(I.a)] /\ UNCHANGED regs
  /\ StepOn
  /\ Keeps({"regs", "upvals"})

GetTableOp ==
  /\ Execute({"GETTABUP", "GETTABLE"})
  /\ LET t == IF I.op = "GETTABUP" THEN UpvalValue(Upval(I.b)) ELSE R(I.b)
     IN IF t[1] # "table" THEN runerror
        ELSE SetR(I.a, Lookup(heap[t[2]], RK(I.c))) /\ StepOn /\ Keeps({"regs"})

SetTableOp ==
  /\ Execute({"SETTABUP", "SETTABLE"})
  /\ LET t == IF I.op = "SETTABUP" THEN UpvalValue(Upval(I.a)) ELSE R(I.a)
     IN IF t[1] # "table" \/ RK(I.b) = nil THEN runerror
        ELSE /\ heap' = [heap EXCEPT ![t[2]] = Store(@, RK(I.b), RK(I.c))]
             /\ StepOn
             /\ Keeps({"heap"})

NewTable ==
  /\ Execute({"NEWTABLE"})
  /\ heap' = Append(heap, EmptyTable)
  /\ SetR(I.a, <<"table", Len(heap) + 1>>)
  /\ StepOn
  /\ Keeps({"heap", "regs"})

SetList ==
  /\ Execute({"SETLIST"})
  /\ LET n    == IF I.b = 0 THEN top - (Ci.base + I.a) - 1 ELSE I.b
         from == (I.c - 1) * FieldsPerFlush
         vals == [i \in 1..n |-> R(I.a + i)]
     IN heap' = [heap EXCEPT ![R(I.a)[2]] = StoreAll(@, from, vals)]
  /\ StepOn
  /\ Keeps({"heap"})

ArithOp ==
  /\ Execute({"ADD", "SUB", "MUL"})
  /\ IF RK(I.b)[1] # "number" \/ RK(I.c)[1] # "number" THEN runerror
     ELSE /\ SetR(I.a, <<"number", Arith(I.op, RK(I.b)[2], RK(I.c)[2])>>)
          /\ StepOn
          /\ Keeps({"regs"})

Jmp == Execute({"JMP"}) /\ dojump(I, Ci.pc) /\ Keeps({"upvals"})

Compare ==
  /\ Execute({"EQ", "LT", "LE"})
  /\ LET b == RK(I.b)
         c == RK(I.c)
         res == CASE I.op = "EQ" -> b = c
                  [] I.op = "LT" -> b[2] < c[2]
                  [] I.op = "LE" -> b[2] <= c[2]
     IN IF I.op # "EQ" /\ (b[1] # "number" \/ c[1] # "number") THEN runerror
        ELSE /\ IF res = (I.a = 1) THEN donextjump ELSE SkipJump
             /\ Keeps({"upvals"})

Test ==
  /\ Execute({"TEST", "TESTSET"})
  /\ LET tested == IF I.op = "TEST" THEN R(I.a) ELSE R(I.b)
     IN IF isfalse(tested) = (I.c = 1) THEN SkipJump /\ UNCHANGED regs
        ELSE donextjump /\ IF I.op = "TESTSET" THEN SetR(I.a, tested) ELSE UNCHANGED regs
  /\ Keeps({"upvals", "regs"})

ForPrep ==
  /\ Execute({"FORPREP"})
  /\ IF \E i \in 0..2 : R(I.a + i)[1] # "number" THEN runerror
     ELSE /\ SetR(I.a, <<"number", R(I.a)[2] - R(I.a + 2)[2]>>)
          /\ Goto(Ci.pc + 1 + I.b)
          /\ Keeps({"regs"})

ForLoop ==
  /\ Execute({"FORLOOP"})
  /\ LET idx == <<"number", R(I.a)[2] + R(I.a + 2)[2]>>
     IN IF idx[2] <= R(I.a + 1)[2]
        THEN /\ regs' = [regs EXCEPT ![Ci.base + I.a + 1] = idx,
                                     ![Ci.base + I.a + 4] = idx]
             /\ Goto(Ci.pc + 1 + I.b)
        ELSE StepOn /\ UNCHANGED regs
  /\ Keeps({"regs"})

(* -------------------------- closures and upvalues ---------------------- *)

OpenAt(level) == {u \in DOMAIN upvals : upvals[u].open /\ upvals[u].at = level}

\* getcached: the last closure of the prototype, if its upvalues are the same
Cached(p) ==
  LET made == {c \in DOMAIN closures : closures[c].p = p}
      last == CHOOSE c \in made : \A d \in made : d <= c
      Same(i) == IF p.up[i].instack
                 THEN closures[last].ups[i] \in OpenAt(Ci.base + p.up[i].idx + 1)
                 ELSE closures[last].ups[i] = Upval(p.up[i].idx)
  IN IF made # {} /\ \A i \in DOMAIN p.up : Same(i) THEN {last} ELSE {}

\* luaF_findupval
findupval(us, level) ==
  IF \E u \in DOMAIN us : us[u].open /\ us[u].at = level THEN us
  ELSE Append(us, [open |-> TRUE, at |-> level, v |-> nil])

Level(d) == Ci.base + d.idx + 1

Closure ==
  /\ Execute({"CLOSURE"})
  /\ LET p     == closures[Ci.cl].p.p[I.b + 1]
         found == FoldLeft(LAMBDA us, d : IF d.instack THEN findupval(us, Level(d)) ELSE us,
                           upvals, p.up)
         Ref(d) == IF d.instack
                   THEN CHOOSE u \in DOMAIN found : found[u].open /\ found[u].at = Level(d)
                   ELSE Upval(d.idx)
         new   == [p |-> p, ups |-> [i \in DOMAIN p.up |-> Ref(p.up[i])]]
     IN IF Cached(p) # {}
        THEN /\ SetR(I.a, <<"function", CHOOSE c \in Cached(p) : TRUE>>)
             /\ UNCHANGED <<upvals, closures>>
        ELSE /\ upvals' = found
             /\ closures' = Append(closures, new)
             /\ SetR(I.a, <<"function", Len(closures) + 1>>)
  /\ StepOn
  /\ UNCHANGED <<stage, top, heap>>

(* ----------------------------- calls, returns -------------------------- *)

\* the stack of a frame at base: arguments, nil for those that are missing, and
\* registers that hold whatever was there
FrameRegs(stack, base, p, args) ==
  SubSeq(stack, 1, base)
    \o [i \in 1..p.maxstack |-> IF i > p.numparams THEN Junk
                                ELSE IF i <= Len(args) THEN args[i] ELSE nil]

Args == IF I.b = 0 THEN SubSeq(regs, Ci.base + I.a + 2, top)
        ELSE SubSeq(regs, Ci.base + I.a + 2, Ci.base + I.a + I.b)

\* luaD_precall
Call ==
  /\ Execute({"CALL"})
  /\ LET f    == R(I.a)
         base == Ci.base + I.a + 1
     IN IF f[1] # "function" THEN runerror
        ELSE /\ regs' = FrameRegs(regs, base, closures[f[2]].p, Args)
             /\ calls' = Append([calls EXCEPT ![Len(calls)].pc = @ + 1],
                                [cl |-> f[2], base |-> base, pc |-> 0, wanted |-> I.c - 1])
             /\ Keeps({"regs"})

TailCall ==
  /\ Execute({"TAILCALL"})
  /\ LET f == R(I.a)
         p == closures[Ci.cl].p
     IN IF f[1] # "function" THEN runerror
        ELSE /\ upvals' = IF p.p # <<>> THEN closeupvals(upvals, Ci.base + 1) ELSE upvals
             /\ regs' = FrameRegs(regs, Ci.base, closures[f[2]].p, Args)
             /\ calls' = [calls EXCEPT ![Len(calls)] = [@ EXCEPT !.cl = f[2], !.pc = 0]]
             /\ Keeps({"regs", "upvals"})

\* luaD_poscall
ReturnOp ==
  /\ Execute({"RETURN"})
  /\ LET p      == closures[Ci.cl].p
         first  == Ci.base + I.a + 1
         result == IF I.b = 0 THEN SubSeq(regs, first, top)
                   ELSE SubSeq(regs, first, first + I.b - 2)
         n      == IF Ci.wanted = MULTRET THEN Len(result) ELSE Ci.wanted
         caller == calls[Len(calls) - 1]
         size   == caller.base + closures[caller.cl].p.maxstack
         Moved(r) == CASE r < Ci.base -> regs[r]
                       [] r \in Ci.base .. Ci.base + n - 1 ->
                            IF r - Ci.base + 1 \in DOMAIN result
                            THEN result[r - Ci.base + 1] ELSE nil
                       [] OTHER -> Junk
     IN /\ upvals' = IF p.p # <<>> THEN closeupvals(upvals, Ci.base + 1) ELSE upvals
        /\ IF Len(calls) = 1
           THEN stage' = "done" /\ UNCHANGED <<regs, top, calls>>
           ELSE /\ calls' = Front(calls)
                /\ top' = Ci.base + n - 1
                /\ regs' = [r \in 1 .. (IF size > top' THEN size ELSE top') |-> Moved(r)]
                /\ UNCHANGED stage
  /\ UNCHANGED <<closures, heap>>

(* ------------------------------- the life ------------------------------ *)

Read ==
  /\ stage = "start"
  /\ \E family \in Programs : program' \in family
  /\ stage' = "source"
  /\ UNCHANGED <<main, regs, top, calls, upvals, closures, heap, executed>>

\* lua_load: luaY_parser, a closure with the globals as its upvalue, and the call
Compile ==
  /\ stage = "source"
  /\ LET fs == Parsed(program)
     IN /\ main' = [p |-> Proto(fs), asserts |-> fs.asserts, error |-> fs.error]
        /\ IF fs.error
           THEN stage' = "rejected" /\ UNCHANGED <<closures, calls, regs>>
           ELSE /\ stage' = "run"
                /\ closures' = <<[p |-> Proto(fs), ups |-> <<1>>]>>
                /\ calls' = <<[cl |-> 1, base |-> 1, pc |-> 0, wanted |-> 0]>>
                /\ regs' = FrameRegs(<<Junk>>, 1, Proto(fs), <<>>)
  /\ UNCHANGED <<program, top, upvals, heap, executed>>

VMNext ==
  \/ Read \/ Compile
  \/ Load \/ SetUpval \/ GetTableOp \/ SetTableOp \/ NewTable \/ SetList \/ ArithOp
  \/ Jmp \/ Compare \/ Test \/ ForPrep \/ ForLoop \/ Closure
  \/ Call \/ TailCall \/ ReturnOp

VMSpec == VMInit /\ [][VMNext]_luavm

(* ------------------------------ properties ----------------------------- *)

\* the registers an instruction reads
ReadRegs ==
  LET Operands(S) == {r \in S : r < BITRK}
  IN CASE I.op \in {"MOVE", "NOT", "TESTSET"} -> {I.b}
       [] I.op \in {"SETUPVAL", "TEST"} -> {I.a}
       [] I.op = "GETTABUP" -> Operands({I.c})
       [] I.op = "GETTABLE" -> Operands({I.b, I.c})
       [] I.op = "SETTABUP" -> Operands({I.b, I.c})
       [] I.op = "SETTABLE" -> Operands({I.a, I.b, I.c})
       [] I.op \in {"ADD", "SUB", "MUL", "EQ", "LT", "LE"} -> Operands({I.b, I.c})
       [] I.op \in {"FORLOOP", "FORPREP"} -> I.a .. I.a + 2
       [] I.op \in {"CALL", "TAILCALL"} /\ I.b > 0 -> I.a .. I.a + I.b - 1
       [] I.op = "SETLIST" /\ I.b > 0 -> I.a .. I.a + I.b
       [] I.op = "RETURN" /\ I.b > 1 -> I.a .. I.a + I.b - 2
       [] OTHER -> {}

\* What luaK_getlabel says it is for: no optimisation mixes up instructions of different
\* basic blocks, so a program that runs to its end has written what its tree says.
NoWrongOptimization ==
  stage = "done" => Meant(program) = [failed |-> FALSE, heap |-> Observed(heap)]

\* The compiled code is sound and means what the program says: every instruction
\* reads only registers of its frame that the function has written, no assertion of
\* the compiler fails, a program is refused exactly when one of its jumps has no label
\* it may go to, and a program that ends leaves the tables, or fails with the tables,
\* that its tree says (jump lists, register allocation, closing of upvalues).  What
\* the compiler made can be dumped and loaded again.
MeansTheProgram ==
  /\ stage = "run" => \A r \in ReadRegs : Ci.base + r < Len(regs) /\ R(r) # Junk
  /\ stage \in {"run", "done", "failed"} => main.asserts /\ Lawful(program)
  /\ stage = "run" /\ executed = 0 => DumpReadsBack(main.p)
  /\ stage = "rejected" => ~Lawful(program)
  /\ stage \in {"done", "failed"} =>
       Meant(program) = [failed |-> stage = "failed", heap |-> Observed(heap)]
==============================================================================
