------------------------------ MODULE CondVar -------------------------------
(***************************************************************************)
(* The condition variable the Windows build of sys/ makes of two events: a *)
(* waiter sleeps on Event (auto-reset), and a broadcast releases waiters   *)
(* one by one, waiting for each on NotifyAllEvent (manual reset) with      *)
(* NotifyMutex held.  A step is one system call or atomic operation.       *)
(***************************************************************************)
EXTENDS Naturals, FiniteSets

CONSTANTS Waiters,   \* threads that use the condition variable
          Nobody

ASSUME CondVarAssumption == IsFiniteSet(Waiters) /\ Nobody \notin Waiters

VARIABLES
  event,          \* cv->Event is signalled
  notifyAllEvent, \* cv->NotifyAllEvent is signalled
  notifyMutex,    \* owner of cv->NotifyMutex
  blockThreads,   \* cv->BlockThreads
  mutex,          \* owner of the caller's mutex
  at,             \* [Waiters -> where the thread is]
  late            \* history: the waiters a broadcast saw had all answered before
                  \* it reset NotifyAllEvent, which wiped out the last answer

cvVars == <<event, notifyAllEvent, notifyMutex, blockThreads, mutex, at, late>>

CvInit ==
  /\ event = FALSE /\ notifyAllEvent = FALSE
  /\ notifyMutex = Nobody /\ mutex = Nobody /\ blockThreads = 0
  /\ at = [t \in Waiters |-> "out"]
  /\ late = FALSE

Step(t, from, to) == at[t] = from /\ at' = [at EXCEPT ![t] = to]

(* The user's critical section.                                            *)
EnterMutex(t) ==
  /\ Step(t, "out", "in") /\ mutex = Nobody
  /\ mutex' = t
  /\ UNCHANGED <<event, notifyAllEvent, notifyMutex, blockThreads, late>>

LeaveMutex(t) ==
  /\ Step(t, "in", "out")
  /\ mutex' = Nobody
  /\ UNCHANGED <<event, notifyAllEvent, notifyMutex, blockThreads, late>>

----------------------------------------------------------------------------
(* LemonConditionVariableWait.                                             *)
CallWait(t) ==
  /\ Step(t, "in", "count")
  /\ UNCHANGED <<event, notifyAllEvent, notifyMutex, blockThreads, mutex, late>>

CountIn(t) ==
  /\ Step(t, "count", "release") /\ notifyMutex = Nobody
  /\ blockThreads' = blockThreads + 1
  /\ UNCHANGED <<event, notifyAllEvent, notifyMutex, mutex, late>>

Release(t) ==
  /\ Step(t, "release", "wait")
  /\ mutex' = Nobody
  /\ UNCHANGED <<event, notifyAllEvent, notifyMutex, blockThreads, late>>

Woken(t) ==
  /\ Step(t, "wait", "countOut") /\ event
  /\ event' = FALSE
  /\ UNCHANGED <<notifyAllEvent, notifyMutex, blockThreads, mutex, late>>

CountOut(t) ==
  /\ Step(t, "countOut", "answer")
  /\ blockThreads' = blockThreads - 1
  /\ UNCHANGED <<event, notifyAllEvent, notifyMutex, mutex, late>>

NoSignal == UNCHANGED notifyAllEvent   \* a mutant of the next definition
Signal == notifyAllEvent' = TRUE

Answer(t) ==
  /\ Step(t, "answer", "relock")
  /\ Signal
  /\ UNCHANGED <<event, notifyMutex, blockThreads, mutex, late>>

Relock(t) ==
  /\ Step(t, "relock", "in") /\ mutex = Nobody
  /\ mutex' = t
  /\ UNCHANGED <<event, notifyAllEvent, notifyMutex, blockThreads, late>>

----------------------------------------------------------------------------
(* LemonConditionVariableWaitTimeout: it counts itself without             *)
(* NotifyMutex, and takes the caller's mutex before it counts itself out.  *)
CallWaitTimeout(t) ==
  /\ Step(t, "in", "releaseT")
  /\ blockThreads' = blockThreads + 1
  /\ UNCHANGED <<event, notifyAllEvent, notifyMutex, mutex, late>>

ReleaseT(t) ==
  /\ Step(t, "releaseT", "waitT")
  /\ mutex' = Nobody
  /\ UNCHANGED <<event, notifyAllEvent, notifyMutex, blockThreads, late>>

WokenT(t) ==
  /\ Step(t, "waitT", "relockT")
  /\ event' \in {FALSE, event}   \* signalled, or the time is up
  /\ UNCHANGED <<notifyAllEvent, notifyMutex, blockThreads, mutex, late>>

RelockT(t) ==
  /\ Step(t, "relockT", "countOutT") /\ mutex = Nobody
  /\ mutex' = t
  /\ UNCHANGED <<event, notifyAllEvent, notifyMutex, blockThreads, late>>

CountOutT(t) ==
  /\ Step(t, "countOutT", "answerT")
  /\ blockThreads' = blockThreads - 1
  /\ UNCHANGED <<event, notifyAllEvent, notifyMutex, mutex, late>>

AnswerT(t) ==
  /\ Step(t, "answerT", "in")
  /\ Signal
  /\ UNCHANGED <<event, notifyMutex, blockThreads, mutex, late>>

----------------------------------------------------------------------------
(* LemonConditionVariableNotify and NotifyAll, with the caller's mutex     *)
(* held or not: they wait for NotifyMutex.                                 *)
Call(t, function) ==
  /\ at[t] \in {"in", "out"} /\ at' = [at EXCEPT ![t] = function]
  /\ UNCHANGED <<event, notifyAllEvent, notifyMutex, blockThreads, mutex, late>>

CallNotify(t) == Call(t, "notify")
CallNotifyAll(t) == Call(t, "notifyAll")

Back(t) == at' = [at EXCEPT ![t] = IF mutex = t THEN "in" ELSE "out"]

SetTheEvent(t) ==
  /\ at[t] = "notify" /\ notifyMutex = Nobody
  /\ event' = TRUE /\ Back(t)
  /\ UNCHANGED <<notifyAllEvent, notifyMutex, blockThreads, mutex, late>>

LockNotify(t) ==
  /\ Step(t, "notifyAll", "test") /\ notifyMutex = Nobody
  /\ notifyMutex' = t
  /\ UNCHANGED <<event, notifyAllEvent, blockThreads, mutex, late>>

TestWaiters(t) ==
  /\ at[t] = "test"
  /\ IF blockThreads = 0
     THEN Back(t) /\ notifyMutex' = Nobody
     ELSE at' = [at EXCEPT ![t] = "reset"] /\ UNCHANGED notifyMutex
  /\ UNCHANGED <<event, notifyAllEvent, blockThreads, mutex, late>>

ResetAnswer(t) ==
  /\ Step(t, "reset", "set")
  /\ notifyAllEvent' = FALSE
  /\ late' = (blockThreads = 0 /\ \A u \in Waiters : at[u] \notin {"answer", "answerT"})
  /\ UNCHANGED <<event, notifyMutex, blockThreads, mutex>>

ReleaseOne(t) ==
  /\ Step(t, "set", "await")
  /\ event' = TRUE
  /\ UNCHANGED <<notifyAllEvent, notifyMutex, blockThreads, mutex, late>>

Answered(t) ==
  /\ Step(t, "await", "test") /\ notifyAllEvent
  /\ late' = FALSE
  /\ UNCHANGED <<event, notifyAllEvent, notifyMutex, blockThreads, mutex>>

----------------------------------------------------------------------------
Waiting(t) ==
  \/ CountIn(t) \/ Release(t) \/ Woken(t) \/ CountOut(t) \/ Answer(t) \/ Relock(t)
  \/ ReleaseT(t) \/ WokenT(t) \/ RelockT(t) \/ CountOutT(t) \/ AnswerT(t)

Notifying(t) ==
  \/ CallNotify(t) \/ SetTheEvent(t) \/ CallNotifyAll(t)
  \/ LockNotify(t) \/ TestWaiters(t) \/ ResetAnswer(t) \/ ReleaseOne(t) \/ Answered(t)

CvNext == \E t \in Waiters :
  \/ EnterMutex(t) \/ LeaveMutex(t) \/ CallWait(t) \/ CallWaitTimeout(t)
  \/ Waiting(t) \/ Notifying(t)

CvSpec == CvInit /\ [][CvNext]_cvVars

(* A waiter that has been released, or can take the release that is there, *)
(* and has not answered yet.                                               *)
WillAnswer(t) ==
  \/ at[t] \in {"countOut", "answer", "relockT", "countOutT", "answerT"}
  \/ event /\ at[t] \in {"release", "wait", "releaseT", "waitT"}

(* A timed waiter takes the caller's mutex before it answers.  It never    *)
(* gets it from a thread that waits for NotifyMutex, or for the answer.    *)
LocksFirst(t) == at[t] \in {"releaseT", "waitT", "relockT"}

MutexStuck ==
  \E u \in Waiters : mutex = u /\ at[u] \in {"count", "notify", "notifyAll", "await"}

(* A broadcast waits in vain: NotifyAllEvent is not set and nobody who     *)
(* could set it gets so far.                                               *)
WaitsInVain(t) ==
  /\ at[t] = "await" /\ ~notifyAllEvent
  /\ \A u \in Waiters : WillAnswer(u) => LocksFirst(u) /\ MutexStuck

(* LemonConditionVariableNotifyAll gets the answer it waits for, except in *)
(* two cases, in which it blocks with NotifyMutex held: its ResetEvent     *)
(* came after the answer of the last waiter it saw (`late`), or all who    *)
(* have still to answer are timed waiters that need the caller's mutex,    *)
(* which the broadcaster or another user of the variable holds.            *)
AnswerComes ==
  \A t \in Waiters : WaitsInVain(t) =>
    late \/ (MutexStuck /\ \E u \in Waiters : WillAnswer(u) /\ LocksFirst(u))
=============================================================================
