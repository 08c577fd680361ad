----------------------------- MODULE Coroutine ------------------------------
(***************************************************************************)
(* The coroutines of sys/: a status and a saved context for each, and the  *)
(* switch between them.  A context is the flow of control saved in it; it  *)
(* is spent when the flow goes on, and resuming a spent context is         *)
(* undefined.  Every handle may be resumed from every coroutine: the code  *)
(* saves the caller in the PARENT of the resumed coroutine, whoever calls. *)
(***************************************************************************)
EXTENDS Naturals

CONSTANTS Coro,   \* handles
          Root,   \* the one LemonThreadToCoroutine makes
          Lost    \* no context, or a spent one

ASSUME CoroutineAssumption == Root \in Coro /\ Lost \notin Coro

VARIABLES
  cstatus,   \* [Coro -> Status, or that the handle does not exist]
  parent,    \* [Coro -> Parent]
  context,   \* [Coro -> the flow saved in Context; a flow is named after its coroutine]
  doing,     \* [Coro -> what the flow does when it goes on: start, the Resume of a handle, Yield]
  flow,      \* the flow that has the thread
  misused    \* history: Resume by another than the parent, or Release of
             \* a coroutine others still need

coVars == <<cstatus, parent, context, doing, flow, misused>>

CoInit ==
  /\ cstatus = [c \in Coro |-> IF c = Root THEN "Running" ELSE "none"]
  /\ parent = [c \in Coro |-> Lost]
  /\ context = [c \in Coro |-> Lost]
  /\ doing = [c \in Coro |-> <<"none">>]
  /\ flow = Root
  /\ misused = FALSE

(* LemonCreateCoroutine, for any parent.                                   *)
CreateCoroutine(c, p) ==
  /\ cstatus[c] = "none" /\ cstatus[p] # "none" /\ p # c
  /\ cstatus' = [cstatus EXCEPT ![c] = "ReadyForRunning"]
  /\ parent' = [parent EXCEPT ![c] = p]
  /\ context' = [context EXCEPT ![c] = c]
  /\ doing' = [doing EXCEPT ![c] = <<"start">>]
  /\ UNCHANGED <<flow, misused>>

ReleaseCoroutine(c) ==
  /\ cstatus[c] # "none" /\ c # Root
  /\ cstatus' = [cstatus EXCEPT ![c] = "none"]
  /\ context' = [context EXCEPT ![c] = Lost]
  /\ misused' = \/ misused \/ c = flow
                \/ cstatus[c] = "Sleeping" /\ doing[c][1] = "resume"
                \/ \E d \in Coro : cstatus[d] # "none" /\ parent[d] = c
  /\ UNCHANGED <<parent, doing, flow>>

(* swapcontext: the calling flow is saved in one coroutine, the one saved  *)
(* in another goes on; whatever else had it saved is spent.                *)
Swap(saveIn, goOn) ==
  LET next == context[goOn]
  IN  /\ next # Lost
      /\ context' = [c \in Coro |-> IF c = saveIn THEN flow
                                    ELSE IF context[c] \in {next, flow} THEN Lost ELSE context[c]]
      /\ flow' = next

(* What LemonCoroutineResume does with the statuses when it is back.  A    *)
(* mutant first: the coroutine is put to sleep although it has stopped.    *)
AlwaysSleeping(st, c) == [st EXCEPT ![parent[c]] = "Running", ![c] = "Sleeping"]
BackFrom(st, c) ==
  [st EXCEPT ![parent[c]] = "Running", ![c] = IF @ = "Running" THEN "Sleeping" ELSE @]

(* The flow that goes on finishes the Resume it is in, if it is in one.    *)
GoesOn(st, f) == IF doing[f][1] = "resume" THEN BackFrom(st, doing[f][2]) ELSE st

(* LemonCoroutineResume up to the switch; the flow that goes on completes  *)
(* the call it had made.                                                   *)
Resume(c) ==
  /\ cstatus[c] \in {"ReadyForRunning", "Sleeping"} /\ c # Root /\ cstatus[parent[c]] # "none"
  /\ Swap(parent[c], c)
  /\ doing' = [doing EXCEPT ![flow] = <<"resume", c>>]
  /\ cstatus' = GoesOn([cstatus EXCEPT ![c] = "Running", ![parent[c]] = "Sleeping"], flow')
  /\ misused' = (misused \/ flow # parent[c])
  /\ UNCHANGED parent

(* LemonCoroutineYield of the running coroutine.                           *)
Yield ==
  /\ flow # Root
  /\ Swap(flow, parent[flow])
  /\ doing' = [doing EXCEPT ![flow] = <<"yield">>]
  /\ cstatus' = GoesOn(cstatus, flow')
  /\ UNCHANGED <<parent, misused>>

(* FiberProc: Proc returns.                                                *)
ProcReturns ==
  /\ flow # Root
  /\ Swap(flow, parent[flow])
  /\ doing' = [doing EXCEPT ![flow] = <<"stopped">>]
  /\ cstatus' = GoesOn([cstatus EXCEPT ![flow] = "Stopped"], flow')
  /\ UNCHANGED <<parent, misused>>

CoNext ==
  \/ \E c \in Coro : Resume(c) \/ ReleaseCoroutine(c) \/ \E p \in Coro : CreateCoroutine(c, p)
  \/ Yield \/ ProcReturns

CoSpec == CoInit /\ [][CoNext]_coVars

(* As long as coroutines are resumed by their parents only: the coroutine  *)
(* that has the thread is the only one that is Running; a Sleeping one is  *)
(* either in a Resume of its own, with itself saved to come back to, or    *)
(* has yielded and can be resumed where it was; and no stopped flow ever   *)
(* goes on.                                                                *)
CoroutinesReturn ==
  ~misused =>
    /\ \A c \in Coro : cstatus[c] = "Running" <=> c = flow
    /\ \A c \in Coro : cstatus[c] \in {"ReadyForRunning", "Sleeping"} => context[c] = c
    /\ \A c \in Coro : cstatus[c] = "Sleeping" =>
         \/ doing[c][1] = "resume" /\ parent[doing[c][2]] = c
         \/ doing[c][1] = "yield"
    /\ doing[flow][1] # "stopped"
=============================================================================
