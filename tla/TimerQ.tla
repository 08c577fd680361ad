------------------------------- MODULE TimerQ -------------------------------
(***************************************************************************)
(* The timers of jobs (src/runQ/timerQ.cpp): any thread creates and closes *)
(* timers under Q->Mutex, a thread of the queue visits them round by round *)
(* and calls LemonJobTimeout, with the mutex released, for those that are  *)
(* due.  Closing a timer only marks it: the thread frees it on its next    *)
(* visit.  Which timers are due is left open.                              *)
(*                                                                         *)
(* The thread holds Q->Mutex when its pc is "round" (head of the while) or *)
(* "for"; everything the other threads do is one section of the mutex.     *)
(* Q->Stopped is written and read without it.  The queue's links are those *)
(* of IntrusiveQ.                                                          *)
(***************************************************************************)
EXTENDS Naturals, Sequences

CONSTANTS Job, Timer,  \* job ids; blocks of TimerAllocator
          None

ASSUME NoneIsNeither == None \notin Job \cup Timer

VARIABLES
  alive,    \* timers allocated
  owner,    \* timer->Id
  closed,   \* timers whose Color is LEMON_JOB_TIMER_CLOSED
  timers,   \* Q->Timers: the timer of each job, None for none
  queue,    \* Header to Tail
  stopped,  \* Q->Stopped
  ctl,      \* the thread inside LemonJobTimerQStop: idle or joining
  pc,       \* the timer thread: none, sleep, round, for, check, push, end
  left,     \* iterations of its for loop to go
  cur,      \* its local variable timer, None outside check and push
  late      \* history: LemonJobTimeout calls since the job's timer was closed

tvars == <<alive, owner, closed, timers, queue, stopped, ctl, pc, left, cur, late>>

Init ==
  /\ alive = {} /\ closed = {} /\ queue = <<>>
  /\ owner \in [Timer -> {None}]
  /\ timers = [j \in Job |-> None]
  /\ stopped = FALSE /\ ctl = "idle"
  /\ pc = "sleep" /\ left = 0 /\ cur = None
  /\ late = [j \in Job |-> 0]

Free == pc \notin {"round", "for"}   \* nobody holds Q->Mutex

-----------------------------------------------------------------------------
(* LemonCreateJobTimer; for a job with a timer only the duration changes.  *)
CreateTimer(j, t) ==
  /\ Free /\ timers[j] = None /\ t \notin alive
  /\ alive' = alive \cup {t}
  /\ owner' = [owner EXCEPT ![t] = j]
  /\ timers' = [timers EXCEPT ![j] = t]
  /\ queue' = Append(queue, t)
  /\ late' = [late EXCEPT ![j] = 0]
  /\ UNCHANGED <<closed, stopped, ctl, pc, left, cur>>

(* LemonCloseJobTimer.                                                     *)
FreeNow(t) == alive' = alive \ {t} /\ UNCHANGED closed
MarkClosed(t) == closed' = closed \cup {t} /\ UNCHANGED alive

CloseTimer(j) ==
  /\ Free /\ timers[j] # None
  /\ MarkClosed(timers[j])
  /\ timers' = [timers EXCEPT ![j] = None]
  /\ UNCHANGED <<owner, queue, stopped, ctl, pc, left, cur, late>>

(* LemonJobTimerQStop: set the flag, then join the thread.                 *)
BeginStop ==
  /\ ctl = "idle" /\ pc # "none"
  /\ stopped' = TRUE /\ ctl' = "joining"
  /\ UNCHANGED <<alive, owner, closed, timers, queue, pc, left, cur, late>>

Join ==
  /\ ctl = "joining" /\ pc = "end"
  /\ pc' = "none" /\ ctl' = "idle"
  /\ UNCHANGED <<alive, owner, closed, timers, queue, stopped, left, cur, late>>

(* LemonJobTimerQReset, once its LemonJobTimerQStop has joined the thread: *)
(* every timer is freed and a new thread started.  It takes no lock: one   *)
(* step, for a queue that nobody else calls while it is reset.             *)
ClearTable == timers' = [j \in Job |-> None]

Reset ==
  /\ stopped /\ ctl = "idle" /\ pc = "none"
  /\ ClearTable
  /\ alive' = alive \ {queue[i] : i \in 1..Len(queue)}
  /\ closed' = closed \ {queue[i] : i \in 1..Len(queue)}
  /\ queue' = <<>>
  /\ stopped' = FALSE /\ pc' = "sleep"
  /\ UNCHANGED <<owner, ctl, left, cur, late>>

-----------------------------------------------------------------------------
(* LemonJobTimerQProc. *)

(* The thread gets the mutex: at its start, or when a wait has timed out.  *)
Wake ==
  /\ pc = "sleep" /\ pc' = "round"
  /\ UNCHANGED <<alive, owner, closed, timers, queue, stopped, ctl, left, cur, late>>

RunOn == FALSE
MustEnd == stopped

(* How often the for loop runs: the timers pushed meanwhile have to wait.  *)
RoundLength == Len(queue)

BeginRound ==
  /\ pc = "round" /\ ~MustEnd
  /\ pc' = "for" /\ left' = RoundLength
  /\ UNCHANGED <<alive, owner, closed, timers, queue, stopped, ctl, cur, late>>

EndThread ==
  /\ MustEnd
  /\ pc = "round" \/ (pc = "for" /\ left # 0)
  /\ pc' = "end"
  /\ UNCHANGED <<alive, owner, closed, timers, queue, stopped, ctl, left, cur, late>>

(* LemonConditionVariableWaitTimeout.  In the last 100 ms of a second the  *)
(* time it computes has too many nanoseconds, and pthread_cond_timedwait   *)
(* returns at once, without having released the mutex.                     *)
EndRound ==
  /\ pc = "for"
  /\ left = 0 \/ (~MustEnd /\ queue = <<>>)
  /\ pc' \in {"sleep", "round"}
  /\ UNCHANGED <<alive, owner, closed, timers, queue, stopped, ctl, left, cur, late>>

(* The body of the for loop: a closed timer is freed, any other checked.   *)
NoneClosed(t) == FALSE
IsClosed(t) == t \in closed

Visit ==
  /\ pc = "for" /\ left # 0 /\ ~MustEnd /\ queue # <<>>
  /\ queue' = Tail(queue)
  /\ LET t == Head(queue) IN
       IF IsClosed(t)
       THEN /\ alive' = alive \ {t} /\ closed' = closed \ {t}
            /\ left' = left - 1
            /\ UNCHANGED <<pc, cur>>
       ELSE /\ cur' = t /\ pc' = "check"
            /\ UNCHANGED <<alive, closed, left>>
  /\ UNCHANGED <<owner, timers, stopped, ctl, late>>

(* LemonJobTimerCheck, without the mutex: is the timer due?                *)
Check ==
  /\ pc = "check" /\ pc' = "push"
  /\ \/ UNCHANGED late
     \/ late' = [late EXCEPT ![owner[cur]] = IF timers[owner[cur]] = None THEN @ + 1 ELSE @]
  /\ UNCHANGED <<alive, owner, closed, timers, queue, stopped, ctl, left, cur>>

Forget(t) == UNCHANGED queue
PushBack(t) == queue' = Append(queue, t)

Return ==
  /\ pc = "push"
  /\ PushBack(cur)
  /\ cur' = None /\ left' = left - 1 /\ pc' = "for"
  /\ UNCHANGED <<alive, owner, closed, timers, stopped, ctl, late>>

Thread == Wake \/ BeginRound \/ EndThread \/ EndRound \/ Visit \/ Check \/ Return

Next ==
  \/ \E j \in Job : CloseTimer(j) \/ \E t \in Timer : CreateTimer(j, t)
  \/ BeginStop \/ Join \/ Reset
  \/ Thread

Spec == Init /\ [][Next]_tvars

(* The timer thread runs and its waits time out.                           *)
FairSpec == Spec /\ WF_tvars(Thread) /\ WF_tvars(Join)

-----------------------------------------------------------------------------
TypeOK ==
  /\ alive \in SUBSET Timer /\ closed \in SUBSET Timer
  /\ owner \in [Timer -> Job \cup {None}]
  /\ timers \in [Job -> Timer \cup {None}]
  /\ queue \in Seq(Timer)
  /\ stopped \in BOOLEAN /\ ctl \in {"idle", "joining"}
  /\ pc \in {"none", "sleep", "round", "for", "check", "push", "end"}
  /\ left \in Nat
  /\ cur \in Timer \cup {None}
  /\ late \in [Job -> Nat]

Queued(t) == \E i \in 1..Len(queue) : queue[i] = t

(* A timer that is allocated is in the queue, once, or in the thread's     *)
(* hand, and only such a timer is used: none leaks, none is freed while    *)
(* the thread uses it without the mutex, or freed twice.                   *)
TimersPlaced ==
  /\ \A t \in Timer : t \in alive <=> (Queued(t) \/ cur = t)
  /\ \A i, k \in 1..Len(queue) : queue[i] = queue[k] => i = k
  /\ cur # None => ~Queued(cur)
  /\ closed \subseteq alive

(* The open timers are exactly those in Q->Timers, one for each job, and   *)
(* each under the id it ticks.                                             *)
OneOpenTimer == \A t \in Timer :
  (t \in alive \ closed) <=> (owner[t] \in Job /\ timers[owner[t]] = t)

(* Together: queue, table and thread agree on which timers there are.      *)
EveryTimerHeld == TimersPlaced /\ OneOpenTimer

(* LemonCloseJobTimer does not wait for the thread, so a tick may follow   *)
(* it, but one at most: that of the timer in the thread's hand.            *)
OneLateTick == \A j \in Job : late[j] <= 1

(* A closed timer is freed in the end, and LemonJobTimerQStop returns.     *)
ClosedTimersFreed == \A t \in Timer :
  (t \in closed) ~> (t \notin closed \/ stopped)
StopReturns == (ctl = "joining") ~> (ctl = "idle")

(* Every open timer is looked at again and again while the queue runs.     *)
EveryTimerVisited == \A t \in Timer :
  (t \in alive) ~> (cur = t \/ t \notin alive \/ stopped)
=============================================================================
