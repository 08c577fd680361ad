----------------------------- MODULE TimerQProofs -----------------------------
(* The timers of jobs: queue, table and timer thread agree on which there are, and a
   closed timer ticks once more at most, for any number of jobs and timers.    *)
EXTENDS TimerQ, TLAPS

(* What the thread has in hand, and that it is in an iteration of its loop then. *)
ThreadStands ==
  /\ cur # None <=> pc \in {"check", "push"}
  /\ pc \in {"check", "push"} => left # 0

(* A timer in the table is under the id it ticks. *)
TableOwned == \A j \in Job : timers[j] # None => owner[timers[j]] = j

(* A job with a timer is not late, nor is the job whose timer is about to be
   checked: it has been open when the thread took it from the queue. *)
LateOnce ==
  /\ \A j \in Job : timers[j] # None => late[j] = 0
  /\ pc = "check" => late[owner[cur]] = 0
  /\ OneLateTick

TimerInv == TypeOK /\ ThreadStands /\ TimersPlaced /\ OneOpenTimer /\ TableOwned /\ LateOnce

Once == \A i, k \in 1..Len(queue) : queue[i] = queue[k] => i = k

(* The two ends of the queue. *)
LEMMA PushTimer ==
  ASSUME queue \in Seq(Timer), Once, NEW t \in Timer, ~Queued(t),
         queue' = Append(queue, t)
  PROVE  /\ queue' \in Seq(Timer) /\ Once'
         /\ \A u : Queued(u)' <=> Queued(u) \/ u = t
<1>1. /\ queue' \in Seq(Timer) /\ Len(queue') = Len(queue) + 1
      /\ \A i \in 1..Len(queue) : queue'[i] = queue[i]
      /\ queue'[Len(queue) + 1] = t
      /\ Len(queue) \in Nat
  OBVIOUS
<1>2. 1..Len(queue') = (1..Len(queue)) \cup {Len(queue) + 1}
  BY <1>1
<1>3. \A u : Queued(u)' <=> Queued(u) \/ u = t
  BY <1>1, <1>2 DEF Queued
<1>4. Once'
  BY <1>1, <1>2 DEF Once, Queued
<1> QED
  BY <1>1, <1>3, <1>4

LEMMA PopTimer ==
  ASSUME queue \in Seq(Timer), Once, queue # <<>>, queue' = Tail(queue)
  PROVE  /\ Head(queue) \in Timer /\ Queued(Head(queue))
         /\ queue' \in Seq(Timer) /\ Once'
         /\ \A u : Queued(u)' <=> Queued(u) /\ u # Head(queue)
<1>1. /\ queue' \in Seq(Timer) /\ Len(queue') = Len(queue) - 1
      /\ \A i \in 1..Len(queue') : queue'[i] = queue[i + 1]
      /\ Len(queue) \in Nat /\ Len(queue) >= 1
      /\ Head(queue) = queue[1] /\ Head(queue) \in Timer
  OBVIOUS
<1>2. Queued(Head(queue))
  BY <1>1 DEF Queued
<1>3. \A i \in 1..Len(queue') : i + 1 \in 1..Len(queue) /\ i + 1 # 1 /\ 1 \in 1..Len(queue)
  BY <1>1
<1>4. Once'
  <2>1. \A i, k \in 1..Len(queue') : queue'[i] = queue'[k] => i + 1 = k + 1
    BY <1>1, <1>3 DEF Once
  <2> QED BY <1>1, <2>1 DEF Once
<1>5. \A u : Queued(u)' => Queued(u) /\ u # Head(queue)
  BY <1>1, <1>3 DEF Queued, Once
<1>6. ASSUME NEW u, Queued(u), u # Head(queue) PROVE Queued(u)'
  <2>1. PICK i \in 1..Len(queue) : queue[i] = u
    BY <1>6 DEF Queued
  <2>2. i - 1 \in 1..Len(queue') /\ (i - 1) + 1 = i
    BY <1>1, <1>6, <2>1
  <2> QED BY <1>1, <2>1, <2>2 DEF Queued
<1> QED
  BY <1>1, <1>2, <1>4, <1>5, <1>6

-----------------------------------------------------------------------------
LEMMA InitTimer == Init => TimerInv
<1> SUFFICES ASSUME Init PROVE TimerInv
  OBVIOUS
<1> USE NoneIsNeither DEF Init
<1>1. TypeOK
  <2>1. queue \in Seq(Timer) /\ owner \in [Timer -> Job \cup {None}]
    OBVIOUS
  <2>2. late \in [Job -> Nat] /\ timers \in [Job -> Timer \cup {None}]
    OBVIOUS
  <2> QED BY <2>1, <2>2 DEF TypeOK
<1>2. owner \in [Timer -> {None}] /\ \A t \in Timer : owner[t] = None
  OBVIOUS
<1>3. ThreadStands /\ TableOwned /\ LateOnce
  BY DEF ThreadStands, TableOwned, LateOnce, OneLateTick
<1>4. TimersPlaced
  BY DEF TimersPlaced, Queued
<1>5. OneOpenTimer
  BY <1>2 DEF OneOpenTimer
<1> QED
  BY <1>1, <1>3, <1>4, <1>5 DEF TimerInv

LEMMA CreateTimerStep ==
  ASSUME TimerInv, NEW j \in Job, NEW t \in Timer, CreateTimer(j, t)
  PROVE  TimerInv'
<1> USE NoneIsNeither DEF TimerInv, CreateTimer
<1>1. ~Queued(t) /\ cur # t
  BY DEF TimersPlaced
<1>2. /\ queue' \in Seq(Timer) /\ Once'
      /\ \A u : Queued(u)' <=> Queued(u) \/ u = t
  BY <1>1, PushTimer DEF TypeOK, TimersPlaced, Once
<1>3. TypeOK'
  BY <1>2 DEF TypeOK
<1>4. ThreadStands'
  BY DEF ThreadStands
<1>5. TimersPlaced'
  BY <1>1, <1>2 DEF TimersPlaced, Once, TypeOK
<1>6. \A k \in Job : timers[k] # t
  BY DEF TypeOK, TableOwned, OneOpenTimer
<1>7. TableOwned'
  BY <1>6 DEF TypeOK, TableOwned
<1>8. OneOpenTimer'
  BY <1>6 DEF OneOpenTimer, TypeOK, TimersPlaced
<1>9. LateOnce'
  BY <1>1 DEF LateOnce, OneLateTick, TypeOK, ThreadStands
<1> QED
  BY <1>3, <1>4, <1>5, <1>7, <1>8, <1>9

LEMMA CloseTimerStep ==
  ASSUME TimerInv, NEW j \in Job, CloseTimer(j)
  PROVE  TimerInv'
<1> USE NoneIsNeither DEF TimerInv, CloseTimer, MarkClosed
<1>1. PICK t \in Timer : t = timers[j] /\ owner[t] = j
  BY DEF TypeOK, TableOwned
<1>2. t \in alive
  BY <1>1 DEF OneOpenTimer
<1>3. TypeOK'
  BY <1>1 DEF TypeOK
<1>4. ThreadStands'
  BY DEF ThreadStands
<1>5. TimersPlaced'
  BY <1>1, <1>2 DEF TimersPlaced, Queued
<1>6. TableOwned'
  BY DEF TypeOK, TableOwned
<1>7. OneOpenTimer'
  BY <1>1 DEF OneOpenTimer, TypeOK
<1>8. LateOnce'
  BY DEF LateOnce, OneLateTick, TypeOK
<1> QED
  BY <1>3, <1>4, <1>5, <1>6, <1>7, <1>8

LEMMA ResetStep == ASSUME TimerInv, Reset PROVE TimerInv'
<1> USE NoneIsNeither DEF TimerInv, Reset, ClearTable
<1>1. cur = None
  BY DEF ThreadStands
<1>2. alive' = {} /\ closed' = {}
  <2>1. \A t \in alive : t \in {queue[i] : i \in 1..Len(queue)}
    BY <1>1 DEF TimersPlaced, Queued, TypeOK
  <2> QED BY <2>1 DEF TimersPlaced
<1>3. TypeOK'
  <2>1. queue' \in Seq(Timer) /\ timers' \in [Job -> Timer \cup {None}]
    OBVIOUS
  <2> QED BY <1>2, <2>1 DEF TypeOK
<1>4. ThreadStands'
  BY <1>1 DEF ThreadStands
<1>5. TimersPlaced'
  BY <1>1, <1>2 DEF TimersPlaced, Queued
<1>6. TableOwned' /\ OneOpenTimer'
  BY <1>2, <1>3 DEF TableOwned, OneOpenTimer, TypeOK
<1>7. LateOnce'
  BY DEF LateOnce, OneLateTick
<1> QED
  BY <1>3, <1>4, <1>5, <1>6, <1>7

LEMMA VisitStep == ASSUME TimerInv, Visit PROVE TimerInv'
<1> USE NoneIsNeither DEF TimerInv, Visit, IsClosed
<1>1. PICK t \in Timer : /\ t = Head(queue) /\ Queued(t)
                         /\ queue' \in Seq(Timer) /\ Once'
                         /\ \A u : Queued(u)' <=> Queued(u) /\ u # t
  BY PopTimer DEF TypeOK, TimersPlaced, Once
<1>2. t \in alive /\ cur = None
  BY <1>1 DEF TimersPlaced, ThreadStands
<1>3. CASE t \in closed
  <2>1. /\ alive' = alive \ {t} /\ closed' = closed \ {t} /\ left' = left - 1
        /\ UNCHANGED <<pc, cur>>
    BY <1>1, <1>3
  <2>2. TypeOK'
    BY <1>1, <2>1 DEF TypeOK
  <2>3. ThreadStands'
    BY <2>1 DEF ThreadStands
  <2>4. TimersPlaced'
    BY <1>1, <1>2, <2>1 DEF TimersPlaced, Once
  <2>5. TableOwned' /\ OneOpenTimer'
    BY <1>3, <2>1 DEF TableOwned, OneOpenTimer
  <2>6. LateOnce'
    BY <2>1 DEF LateOnce, OneLateTick
  <2> QED BY <2>2, <2>3, <2>4, <2>5, <2>6
<1>4. CASE t \notin closed
  <2>1. cur' = t /\ pc' = "check" /\ UNCHANGED <<alive, closed, left>>
    BY <1>1, <1>4
  <2>2. TypeOK'
    BY <1>1, <2>1 DEF TypeOK
  <2>3. ThreadStands'
    BY <2>1 DEF ThreadStands
  <2>4. TimersPlaced'
    BY <1>1, <1>2, <2>1 DEF TimersPlaced, Once
  <2>5. TableOwned' /\ OneOpenTimer'
    BY <2>1 DEF TableOwned, OneOpenTimer
  <2>6. owner[t] \in Job /\ timers[owner[t]] = t
    BY <1>2, <1>4 DEF OneOpenTimer
  <2>7. LateOnce'
    BY <2>1, <2>6 DEF LateOnce, OneLateTick
  <2> QED BY <2>2, <2>3, <2>4, <2>5, <2>7
<1> QED
  BY <1>3, <1>4

LEMMA CheckStep == ASSUME TimerInv, Check PROVE TimerInv'
<1> USE NoneIsNeither DEF TimerInv, Check
<1>1. TypeOK'
  BY DEF TypeOK
<1>2. ThreadStands'
  BY DEF ThreadStands
<1>3. TimersPlaced' /\ TableOwned' /\ OneOpenTimer'
  BY DEF TimersPlaced, Queued, TableOwned, OneOpenTimer
<1>4. LateOnce'
  BY DEF LateOnce, OneLateTick, TypeOK
<1> QED
  BY <1>1, <1>2, <1>3, <1>4

LEMMA ReturnStep == ASSUME TimerInv, Return PROVE TimerInv'
<1> USE NoneIsNeither DEF TimerInv, Return, PushBack
<1>1. cur \in Timer /\ ~Queued(cur) /\ cur \in alive /\ left # 0
  BY DEF TypeOK, ThreadStands, TimersPlaced
<1>2. /\ queue' \in Seq(Timer) /\ Once'
      /\ \A u : Queued(u)' <=> Queued(u) \/ u = cur
  BY <1>1, PushTimer DEF TypeOK, TimersPlaced, Once
<1>3. TypeOK'
  BY <1>1, <1>2 DEF TypeOK
<1>4. ThreadStands'
  BY DEF ThreadStands
<1>5. TimersPlaced'
  BY <1>1, <1>2 DEF TimersPlaced, Once
<1>6. TableOwned' /\ OneOpenTimer' /\ LateOnce'
  BY DEF TableOwned, OneOpenTimer, LateOnce, OneLateTick
<1> QED
  BY <1>3, <1>4, <1>5, <1>6

(* The steps that only move the threads. *)
LEMMA MoveStep ==
  ASSUME TimerInv, UNCHANGED <<alive, owner, closed, timers, queue, cur, late>>,
         pc \notin {"check", "push"}, pc' \notin {"check", "push"},
         pc' \in {"none", "sleep", "round", "for", "end"},
         stopped' \in BOOLEAN, ctl' \in {"idle", "joining"}, left' \in Nat
  PROVE  TimerInv'
<1>1. TypeOK' /\ ThreadStands'
  BY DEF TimerInv, TypeOK, ThreadStands
<1>2. TimersPlaced' /\ OneOpenTimer' /\ TableOwned' /\ LateOnce'
  BY DEF TimerInv, TimersPlaced, Queued, OneOpenTimer, TableOwned, LateOnce, OneLateTick
<1> QED
  BY <1>1, <1>2 DEF TimerInv

LEMMA BeginStopStep == ASSUME TimerInv, BeginStop PROVE TimerInv'
<1> USE DEF TimerInv, BeginStop
<1>1. TypeOK' /\ ThreadStands'
  BY DEF TypeOK, ThreadStands
<1>2. TimersPlaced' /\ OneOpenTimer' /\ TableOwned' /\ LateOnce'
  BY DEF TimersPlaced, Queued, OneOpenTimer, TableOwned, LateOnce, OneLateTick
<1> QED
  BY <1>1, <1>2

LEMMA TimerStep == TimerInv /\ [Next]_tvars => TimerInv'
<1> SUFFICES ASSUME TimerInv, [Next]_tvars PROVE TimerInv'
  OBVIOUS
<1>1. ASSUME NEW j \in Job, CloseTimer(j) PROVE TimerInv'
  BY <1>1, CloseTimerStep
<1>2. ASSUME NEW j \in Job, NEW t \in Timer, CreateTimer(j, t) PROVE TimerInv'
  BY <1>2, CreateTimerStep
<1>3. CASE BeginStop
  BY <1>3, BeginStopStep
<1>4. CASE Reset
  BY <1>4, ResetStep
<1>5. CASE Visit \/ Check \/ Return
  BY <1>5, VisitStep, CheckStep, ReturnStep
<1>6. CASE Join \/ Wake \/ BeginRound \/ EndThread \/ EndRound
  <2>1. TypeOK /\ RoundLength \in Nat
    BY DEF TimerInv, TypeOK, RoundLength
  <2>2. /\ UNCHANGED <<alive, owner, closed, timers, queue, stopped, cur, late>>
        /\ pc \notin {"check", "push"} /\ pc' \in {"none", "sleep", "round", "for", "end"}
        /\ ctl' \in {"idle", "joining"} /\ left' \in Nat
    BY <1>6, <2>1 DEF Join, Wake, BeginRound, EndThread, EndRound, TypeOK
  <2> QED BY <2>1, <2>2, MoveStep DEF TypeOK
<1>7. CASE UNCHANGED tvars
  <2> USE <1>7 DEF tvars, TimerInv
  <2>1. TypeOK' /\ ThreadStands'
    BY DEF TypeOK, ThreadStands
  <2>2. TimersPlaced' /\ OneOpenTimer' /\ TableOwned' /\ LateOnce'
    BY DEF TimersPlaced, Queued, OneOpenTimer, TableOwned, LateOnce, OneLateTick
  <2> QED BY <2>1, <2>2
<1> QED
  BY <1>1, <1>2, <1>3, <1>4, <1>5, <1>6, <1>7 DEF Next, Thread

LEMMA TimerFollows == Spec => []TimerInv
  BY InitTimer, TimerStep, PTL DEF Spec

(* timerQ.cpp: a timer is allocated exactly as long as the queue or the timer thread has
   it, once, and the open timers are those in Q->Timers under their jobs, however many
   threads create and close timers while the thread checks one without the mutex. *)
THEOREM TimersHeld == Spec => []EveryTimerHeld
<1>1. TimerInv => EveryTimerHeld
  BY DEF TimerInv, EveryTimerHeld
<1> QED
  BY <1>1, TimerFollows, PTL

(* LemonCloseJobTimer returns while the thread may be about to call LemonJobTimeout: at
   most one such call follows it. *)
THEOREM LateTickOnce == Spec => []OneLateTick
<1>1. TimerInv => OneLateTick
  BY DEF TimerInv, LateOnce
<1> QED
  BY <1>1, TimerFollows, PTL
=============================================================================
