------------------------------- MODULE LuaDo --------------------------------
(***************************************************************************)
(* Calls, protected calls, errors and coroutines of the interpreter in     *)
(* lua/: ldo.c, with lua_callk and lua_pcallk of lapi.c and the functions  *)
(* pcall, xpcall, coroutine.resume and yield that Lua programs reach them  *)
(* by.  A thread has a list of the functions it is in (ci); beside it runs *)
(* the C stack, on which calls from C and setjmp's are nested.  An error   *)
(* or a yield is a longjmp: it cuts the C stack, and what then happens     *)
(* follows from the list alone.                                            *)
(*                                                                         *)
(* Functions are "lua", "pcall", "xpcall", "c" (a C function that calls    *)
(* back with lua_call, as table.sort does) and "yield".  What a program    *)
(* does next is a free choice of the function on top.                      *)
(***************************************************************************)
EXTENDS Integers, Sequences, FiniteSets

CONSTANTS Coroutines, MainThread,
          MaxFrames,   \* bound: functions the threads are in
          MaxSpoiled,  \* bound: threads that get spoiled (see below)
          MAXCCALLS    \* LUAI_MAXCCALLS

ASSUME LuaDoAssumption ==
  /\ IsFiniteSet(Coroutines) /\ MainThread \notin Coroutines
  /\ MaxFrames \in Nat /\ MAXCCALLS \in Nat

LuaThreads == Coroutines \cup {MainThread}

VARIABLES
  ci,       \* [LuaThreads -> Seq of [fn, fresh, ypcall, olderr]]
  cstack,   \* what is nested on the C stack, of all threads
  status,   \* [LuaThreads -> "ok", "yield" or "error"]
  has,      \* [LuaThreads -> its base level holds a function or values]
  nny, nCcalls, errfunc,
  spoiled,  \* history: threads whose nny was set by a resume that could not be
  stale,    \* history: threads where a protected call ended after a yield
  escaped   \* history: threads whose error another than the call furthest in caught

doVars == <<ci, cstack, status, has, nny, nCcalls, errfunc, spoiled, stale, escaped>>

ushort(x) == x % 65536

Push(s, e) == Append(s, e)
Below(s) == SubSeq(s, 1, Len(s) - 1)
TopOf(s) == s[Len(s)]

(* fresh: a Lua function called from C; its return ends luaV_execute.      *)
Frame(fn, fresh) == [fn |-> fn, fresh |-> fresh, ypcall |-> FALSE, olderr |-> 0]
Protected(f) == f.fn \in {"pcall", "xpcall"}

(* Entries of the C stack: a call of luaD_call, and luaD_rawrunprotected.  *)
CallEntry(th, allowyield) == [c |-> "call", th |-> th, allowyield |-> allowyield]
RunEntry(th, what, from) ==
  [c |-> "run", th |-> th, what |-> what, from |-> from, calls |-> nCcalls[th],
   ci |-> Len(ci[th]), nny |-> nny[th], errfunc |-> errfunc[th]]

running == TopOf(cstack).th
InLua(th) == ci[th] # <<>> /\ TopOf(ci[th]).fn = "lua"

DoInit ==
  /\ ci = [th \in LuaThreads |-> IF th = MainThread THEN <<Frame("lua", TRUE)>> ELSE <<>>]
  /\ cstack = <<CallEntry(MainThread, FALSE)>>
  /\ status = [th \in LuaThreads |-> "ok"]
  /\ has = [th \in LuaThreads |-> TRUE]
  /\ nny = [th \in LuaThreads |-> IF th = MainThread THEN 2 ELSE 1]
  /\ nCcalls = [th \in LuaThreads |-> IF th = MainThread THEN 1 ELSE 0]
  /\ errfunc = [th \in LuaThreads |-> 0]
  /\ spoiled = {} /\ stale = {} /\ escaped = {}

----------------------------------------------------------------------------
(* Calls.  One too many is an error, which Error stands for.               *)
Frames == {p \in LuaThreads \X (1 .. MaxFrames) :
             status[p[1]] # "error" /\ p[2] <= Len(ci[p[1]])}

RoomFor(th, frames) ==
  /\ InLua(th) /\ Cardinality(Frames) + frames <= MaxFrames
  /\ ushort(nCcalls[th] + 1) < MAXCCALLS

CallLua(th) ==
  /\ RoomFor(th, 1)
  /\ ci' = [ci EXCEPT ![th] = Push(@, Frame("lua", FALSE))]
  /\ UNCHANGED <<cstack, status, has, nny, nCcalls, errfunc, spoiled, stale, escaped>>

(* luaD_call from C: allowyield says whether a yield may cross the call.   *)
luaD_call(th, stack, allowyield) ==
  /\ cstack' = Push(stack, CallEntry(th, allowyield))
  /\ nCcalls' = [nCcalls EXCEPT ![th] = ushort(@ + 1)]
  /\ nny' = [nny EXCEPT ![th] = IF allowyield THEN @ ELSE ushort(@ + 1)]

(* A C function that calls a Lua function with lua_call.                   *)
AnyYield == TRUE   \* a mutant of the next definition
NoYield == FALSE

lua_call(th) ==
  /\ RoomFor(th, 2)
  /\ ci' = [ci EXCEPT ![th] = @ \o <<Frame("c", TRUE), Frame("lua", TRUE)>>]
  /\ luaD_call(th, cstack, NoYield)
  /\ UNCHANGED <<status, has, errfunc, spoiled, stale, escaped>>

(* lua_pcallk: where the thread cannot yield a setjmp of its own (and      *)
(* luaD_pcall), elsewhere a note in the CallInfo, for recover to find.     *)
lua_pcallk(th, fn) ==
  LET handler == IF fn = "xpcall" THEN Len(ci[th]) + 1 ELSE 0
      noted == [Frame(fn, TRUE) EXCEPT !.ypcall = (nny[th] = 0), !.olderr = errfunc[th]]
      run == [RunEntry(th, "pcall", th) EXCEPT !.ci = Len(ci[th]) + 1]
  IN /\ RoomFor(th, 2)
     /\ ci' = [ci EXCEPT ![th] = @ \o <<noted, Frame("lua", TRUE)>>]
     /\ errfunc' = [errfunc EXCEPT ![th] = handler]
     /\ IF nny[th] = 0 THEN luaD_call(th, cstack, TRUE)
        ELSE luaD_call(th, Push(cstack, run), FALSE)
     /\ UNCHANGED <<status, has, spoiled, stale, escaped>>

----------------------------------------------------------------------------
(* Returns.  What a thread's CallInfo, counters and C stack become is put  *)
(* together in a record r, as one return may end several calls.            *)
Now(th) == [ci |-> ci[th], cstack |-> cstack, nny |-> nny[th], calls |-> nCcalls[th],
            err |-> errfunc[th], stale |-> stale]

Put(th, r) ==
  /\ ci' = [ci EXCEPT ![th] = r.ci] /\ cstack' = r.cstack
  /\ nny' = [nny EXCEPT ![th] = ushort(r.nny)] /\ nCcalls' = [nCcalls EXCEPT ![th] = ushort(r.calls)]
  /\ errfunc' = [errfunc EXCEPT ![th] = r.err] /\ stale' = r.stale

Popped(r) == [r EXCEPT !.ci = Below(@)]

(* The C function that called comes to its own end: lua_callk, lua_pcallk. *)
EndOfCall(r) ==
  LET f == TopOf(r.ci)
      e == TopOf(r.cstack)
      called == [r EXCEPT !.cstack = Below(@), !.calls = @ - 1,
                          !.nny = IF e.allowyield THEN @ ELSE @ - 1]
      run == TopOf(called.cstack)
  IN IF ~Protected(f) THEN Popped(called)
     ELSE IF f.ypcall THEN Popped([called EXCEPT !.err = f.olderr])
     ELSE Popped([called EXCEPT !.cstack = Below(@), !.calls = run.calls, !.err = run.errfunc])

(* finishCcall, after a yield: the continuation (pcallcont) ends the       *)
(* function.  A function without one cannot be here.                       *)
finishCcall(th, r) ==
  Popped([r EXCEPT !.calls = @ - 1,
                   !.stale = IF r.err = TopOf(r.ci).olderr THEN @ ELSE @ \cup {th}])

Return(th) ==
  /\ InLua(th)
  /\ LET f == TopOf(ci[th])
         r == Popped(Now(th))
     IN IF ~f.fresh THEN Put(th, r) /\ UNCHANGED <<status, has>>
        ELSE IF TopOf(cstack).c = "call"
        THEN /\ r.ci # <<>>       \* the program of the main thread does not end
             /\ Put(th, EndOfCall(r)) /\ UNCHANGED <<status, has>>
        ELSE IF r.ci # <<>>       \* unroll
        THEN Put(th, finishCcall(th, r)) /\ UNCHANGED <<status, has>>
        ELSE /\ Put(th, [r EXCEPT !.cstack = Below(@), !.nny = 1,
                                  !.calls = TopOf(cstack).calls - 1])
             /\ has' = [has EXCEPT ![th] = FALSE] /\ UNCHANGED status
  /\ UNCHANGED <<spoiled, escaped>>

----------------------------------------------------------------------------
(* luaD_throw: to the thread's last luaD_rawrunprotected.                  *)
LastRun(th) == CHOOSE i \in DOMAIN cstack :
  /\ cstack[i].c = "run" /\ cstack[i].th = th
  /\ \A j \in i + 1 .. Len(cstack) : ~(cstack[j].c = "run" /\ cstack[j].th = th)

HasRun(th) == \E i \in DOMAIN cstack : cstack[i].c = "run" /\ cstack[i].th = th

Last(S) == CHOOSE i \in S : \A j \in S : j <= i
findpcall(th) == {i \in DOMAIN ci[th] : ci[th][i].ypcall}
Shields(th) == {i \in DOMAIN ci[th] : Protected(ci[th][i])}

FirstPcall(S) == CHOOSE i \in S : \A j \in S : i <= j   \* a mutant of the next definition
NearestPcall(S) == Last(S)

(* An error in the function on top.  It ends in luaD_pcall; or in          *)
(* lua_resume, which goes on at the last noted protected call (recover,    *)
(* unroll) or marks the thread as dead.                                    *)
ErrorIn(th) ==
  LET run == cstack[LastRun(th)]
      cut == SubSeq(cstack, 1, LastRun(th) - 1)
      i   == NearestPcall(findpcall(th))
      r   == [Now(th) EXCEPT !.cstack = cut, !.calls = run.calls]
      caught == IF run.what = "pcall" THEN {run.ci} ELSE IF findpcall(th) = {} THEN {} ELSE {i}
  IN /\ IF run.what = "pcall"
        THEN /\ Put(th, [r EXCEPT !.ci = SubSeq(@, 1, run.ci - 1), !.nny = run.nny,
                                  !.err = run.errfunc])
             /\ UNCHANGED status
        ELSE IF findpcall(th) # {}
        THEN /\ Put(th, [r EXCEPT !.ci = SubSeq(@, 1, i - 1), !.nny = 0,
                                  !.cstack = Push(cut, [run EXCEPT !.what = "unroll"]),
                                  !.err = ci[th][i].olderr, !.calls = @ - 1])
             /\ UNCHANGED status
        ELSE /\ Put(th, [r EXCEPT !.nny = 1, !.calls = @ - 1])
             /\ status' = [status EXCEPT ![th] = "error"]
     /\ escaped' = IF caught = (IF Shields(th) = {} THEN {} ELSE {Last(Shields(th))})
                   THEN escaped ELSE escaped \cup {th}
     /\ UNCHANGED <<has, spoiled>>

(* (An error that nothing catches ends the program.)                       *)
Error(th) == InLua(th) /\ HasRun(th) /\ ErrorIn(th)

----------------------------------------------------------------------------
(* coroutine.yield: where nny forbids it an error, as Error.               *)
lua_yield(th) ==
  /\ InLua(th) /\ nny[th] = 0 /\ HasRun(th) /\ cstack[LastRun(th)].what # "pcall"
  /\ status' = [status EXCEPT ![th] = "yield"]
  /\ LET run == cstack[LastRun(th)]
     IN Put(th, [Now(th) EXCEPT !.ci = Push(@, Frame("yield", TRUE)), !.nny = 1,
                                !.cstack = SubSeq(@, 1, LastRun(th) - 1),
                                !.calls = run.calls - 1])
  /\ UNCHANGED <<has, spoiled, escaped>>

(* coroutine.resume: auxresume and lua_resume.                             *)
Resumable(co) ==
  \/ status[co] = "yield"
  \/ status[co] = "ok" /\ ci[co] = <<>> /\ has[co]

lua_resume(th, co) ==
  LET before == ushort(nCcalls[th] + 1)
      entry == [RunEntry(co, "resume", th) EXCEPT !.calls = before]
  IN /\ InLua(th) /\ co # MainThread /\ Resumable(co) /\ before < MAXCCALLS
     /\ cstack' = Push(cstack, entry)
     /\ status' = [status EXCEPT ![co] = "ok"]
     /\ nny' = [nny EXCEPT ![co] = 0]
     /\ IF status[co] = "ok"
        THEN /\ ci' = [ci EXCEPT ![co] = <<Frame("lua", TRUE)>>]
             /\ nCcalls' = [nCcalls EXCEPT ![co] = before]
        ELSE /\ ci' = [ci EXCEPT ![co] = Below(@)]
             /\ nCcalls' = [nCcalls EXCEPT ![co] = ushort(before - 1)]
     /\ UNCHANGED <<has, errfunc, spoiled, stale, escaped>>

(* A resume of what is not suspended, or too deep, fails, but nny and      *)
(* nCcalls of the other thread have been set.                              *)
lua_resume_error(th, co) ==
  /\ InLua(th) /\ ~(status[co] = "ok" /\ ci[co] = <<>> /\ ~has[co])
  /\ ~(Resumable(co) /\ ushort(nCcalls[th] + 1) < MAXCCALLS)
  /\ nny' = [nny EXCEPT ![co] = 1]
  /\ nCcalls' = [nCcalls EXCEPT ![co] = nCcalls[th]]
  /\ spoiled' = IF status[co] = "ok" /\ <<nny[co], nCcalls[co]>> # <<1, nCcalls[th]>>
                THEN spoiled \cup {co} ELSE spoiled
  /\ Cardinality(spoiled') <= MaxSpoiled
  /\ UNCHANGED <<ci, cstack, status, has, errfunc, stale, escaped>>

DoNext == LET th == running IN
  \/ CallLua(th)
  \/ lua_call(th)
  \/ \E fn \in {"pcall", "xpcall"} : lua_pcallk(th, fn)
  \/ Return(th)
  \/ Error(th)
  \/ lua_yield(th)
  \/ \E co \in LuaThreads : lua_resume(th, co)
  \/ \E co \in LuaThreads : lua_resume_error(th, co)

DoSpec == DoInit /\ [][DoNext]_doVars

----------------------------------------------------------------------------
(* A suspended thread has left the C stack: every C function it is in can  *)
(* be ended without coming back to it, as it noted a continuation.         *)
Suspended == {co \in LuaThreads : status[co] = "yield"}
MayGoOn(co) ==
  /\ \A i \in DOMAIN cstack : cstack[i].th # co
  /\ TopOf(ci[co]).fn = "yield"
  /\ \A i \in 1 .. Len(ci[co]) - 1 : ci[co][i].fn = "lua" \/ ci[co][i].ypcall

(* A yield never unwinds a C function that must be returned to: nny counts *)
(* such calls through returns, errors, recoveries and resumes, so a thread *)
(* that no failed resume has touched is suspended only where it may go on. *)
YieldsSafely == \A co \in Suspended \ spoiled : MayGoOn(co)

(* An error is caught by the protected call furthest in of its thread, be  *)
(* it one with a setjmp or one that a coroutine noted; and errfunc is the  *)
(* handler that call asked for, where no protected call ended by finishing *)
(* after a yield (finishCcall leaves errfunc as it was).                   *)
HandlerOf(th) ==
  LET S == Shields(th)
  IN IF S # {} /\ ci[th][Last(S)].fn = "xpcall" THEN Last(S) ELSE 0

ErrorsCaught ==
  /\ escaped \subseteq spoiled
  /\ \A th \in LuaThreads \ (stale \cup spoiled) : status[th] # "error" => errfunc[th] = HandlerOf(th)

(* Together: yields and errors leave behind only C functions that need not *)
(* be returned to, and arrive at the call that asked for them.             *)
UnwindsSafely == YieldsSafely /\ ErrorsCaught
=============================================================================
