-------------------------------- MODULE RunQ --------------------------------
(***************************************************************************)
(* The job scheduler of src/runQ: jobs ("actors" with a message FIFO) are  *)
(* created, sent messages, ticked by timers and closed by any thread, and  *)
(* run by the worker threads that have called LemonRunQLoop.               *)
(*                                                                         *)
(* One step is one critical section of RunQMutex, or what a worker does    *)
(* between two of them.  A worker whose pc is "top" holds the mutex at the *)
(* head of the while loop of LemonRunQLoop; every other section is atomic. *)
(* Job callbacks (Start, Recv, Stop) run with the mutex released, so a job *)
(* is "in hand" for a while; what a callback does to the queue is done by  *)
(* the API actions, which are enabled for any thread at any time.          *)
(*                                                                         *)
(* The n-th message accepted for a job is the number n.  A job's FIFO and  *)
(* the run queue are sequences (IntrusiveQ shows that of their links).     *)
(***************************************************************************)
EXTENDS Naturals, Sequences

CONSTANTS Job,       \* jobs that may be created; an id is never reused
          Worker,    \* threads that call LemonRunQLoop
          None,      \* no job
          MaxSends,  \* bound: messages accepted for one job
          MaxTicks   \* bound: timer ticks accepted for one job

ASSUME RunQAssumption ==
  /\ None \notin Job
  /\ MaxSends \in Nat
  /\ MaxTicks \in Nat

VARIABLES
  table,      \* JobTable: the jobs an id still finds
  live,       \* jobs allocated from JobAllocator and not yet freed
  born,       \* jobs that LemonCreateJob has allocated
  starting,   \* jobs whose Start callback LemonCreateJob is running
  color,      \* job->Color
  queue,      \* job->FIFO
  fifo,       \* runQ->FIFO
  proxy,      \* runQ->ProxyJob
  stopped,    \* runQ->Stopped
  resetting,  \* LemonRunQReset is draining the FIFO
  rjob,       \* the job whose Stop callback LemonRunQReset is running
  pc,         \* where each worker is in LemonRunQLoop
  run,        \* the local variable job of LemonRunQLoop
  msg,        \* the local variable message of LemonRunQLoop, 0 for NULL
  \* history variables, read by no guard but the bounds
  sent, got,      \* messages accepted for a job, messages given to Recv
  ticks, tocks,   \* LemonJobTimeout calls accepted, timeouts given to Recv
  stops,          \* how often a job's Stop callback has been called
  quiet           \* queued by LemonCreateJob with no notification since

jobVars   == <<table, live, born, starting, color, queue>>
ctlVars   == <<proxy, stopped, resetting, rjob>>
loopVars  == <<pc, run, msg>>
histVars  == <<sent, got, ticks, tocks, stops>>
vars == <<table, live, born, starting, color, queue, fifo, proxy, stopped,
          resetting, rjob, pc, run, msg, sent, got, ticks, tocks, stops, quiet>>

Colors == {"SLEEP", "INIT", "STANDBY", "TIMEOUT", "CLOSED"}

(* "top" holds RunQMutex; "wait" is blocked in the condition variable and  *)
(* "woken" has been signalled; "recv", "tmo" and "stop" are in a callback; *)
(* "post" wants the mutex back after the callbacks.                        *)
PCs == {"out", "top", "wait", "woken", "recv", "tmo", "post", "stop"}

Elements(s) == {s[i] : i \in 1..Len(s)}
NoRepeat(s) == \A i, k \in 1..Len(s) : s[i] = s[k] => i = k
InFifo(j) == j \in Elements(fifo)
Free == \A w \in Worker : pc[w] # "top"    \* nobody holds RunQMutex

(* LemonPushJob, LemonPushJobMessage and the release of a job's messages.  *)
PushJob(j) == fifo' = Append(fifo, j)

PushInFront(j) == queue' = [queue EXCEPT ![j] = <<sent[j] + 1>> \o @]
PushMessage(j) == queue' = [queue EXCEPT ![j] = Append(@, sent[j] + 1)]

DropMessages(S) == queue' = [j \in Job |-> IF j \in S THEN <<>> ELSE queue[j]]

(* LemonHashMapRemove on the job table. *)
Unlist(j) == table' = table \ {j}

Waiting == {w \in Worker : pc[w] = "wait"}
Wake(W) == pc' = [w \in Worker |-> IF w \in W THEN "woken" ELSE pc[w]]

(* LemonConditionVariableNotify wakes one of the waiting workers, if any;  *)
(* LemonConditionVariableNotifyAll wakes all.                              *)
NotifyNobody == UNCHANGED pc /\ quiet' = {}
Notify == /\ IF Waiting = {} THEN UNCHANGED pc
                            ELSE \E w \in Waiting : Wake({w})
          /\ quiet' = {}
NotifyOne == Notify
NotifyAll == Wake(Waiting) /\ quiet' = {}

ZeroProxy == 0
InitialProxy == None

Init ==
  /\ table = {} /\ live = {} /\ born = {} /\ starting = {}
  /\ color = [j \in Job |-> "SLEEP"]
  /\ queue = [j \in Job |-> <<>>]
  /\ fifo = <<>>
  /\ proxy = InitialProxy /\ stopped = FALSE /\ resetting = FALSE /\ rjob = None
  /\ pc = [w \in Worker |-> "out"]
  /\ run = [w \in Worker |-> None]
  /\ msg = [w \in Worker |-> 0]
  /\ sent = [j \in Job |-> 0] /\ got = [j \in Job |-> 0]
  /\ ticks = [j \in Job |-> 0] /\ tocks = [j \in Job |-> 0]
  /\ stops = [j \in Job |-> 0] /\ quiet = {}

-----------------------------------------------------------------------------
(* The API, each called by any thread: a job callback, the timer thread or *)
(* a thread of the application.                                            *)

(* LemonCreateJob up to the call of Start. *)
BeginCreate(j) ==
  /\ Free /\ j \notin born
  /\ born' = born \cup {j}
  /\ live' = live \cup {j}
  /\ table' = table \cup {j}
  /\ starting' = starting \cup {j}
  /\ color' = [color EXCEPT ![j] = "INIT"]
  /\ UNCHANGED <<queue, fifo, ctlVars, loopVars, histVars, quiet>>

(* LemonCreateJob after Start failed: the job is freed with its messages.  *)
StartFailed(j) ==
  /\ Free /\ j \in starting
  /\ starting' = starting \ {j}
  /\ Unlist(j)
  /\ live' = live \ {j}
  /\ DropMessages({j})
  /\ UNCHANGED <<born, color, fifo, ctlVars, loopVars, histVars, quiet>>

(* LemonCreateJob after Start succeeded.  A job that was sent messages, or *)
(* ticked or closed, while it started is pushed, without a notification.   *)
MustRun(j) == queue[j] # <<>> \/ color[j] # "INIT"

StartedColor(j) == IF color[j] = "INIT" THEN "STANDBY" ELSE color[j]

StartDone(j) ==
  /\ Free /\ j \in starting
  /\ starting' = starting \ {j}
  /\ IF MustRun(j)
     THEN /\ color' = [color EXCEPT ![j] = StartedColor(j)]
          /\ PushJob(j)
          /\ quiet' = quiet \cup {j}
     ELSE /\ color' = [color EXCEPT ![j] = "SLEEP"]
          /\ UNCHANGED <<fifo, quiet>>
  /\ UNCHANGED <<table, live, born, queue, ctlVars, loopVars, histVars>>

(* A sleeping job is given a color and pushed to run, and a worker is      *)
(* notified; a job that is not asleep is already on its way.               *)
RouseAny(j, c) == /\ color' = [color EXCEPT ![j] = c]
                  /\ PushJob(j)
                  /\ Notify
Recolor(j, c) ==
  IF color[j] = "SLEEP"
  THEN color' = [color EXCEPT ![j] = c] /\ Notify /\ UNCHANGED fifo
  ELSE UNCHANGED <<color, fifo, pc, quiet>>
Rouse(j, c) ==
  IF color[j] = "SLEEP"
  THEN /\ color' = [color EXCEPT ![j] = c]
       /\ PushJob(j)
       /\ Notify
  ELSE UNCHANGED <<color, fifo, pc, quiet>>

Post(j) ==
  /\ Free /\ j \in table
  /\ sent[j] < MaxSends
  /\ sent' = [sent EXCEPT ![j] = @ + 1]
  /\ PushMessage(j)
  /\ Rouse(j, "STANDBY")
  /\ UNCHANGED <<table, live, born, starting, ctlVars, run, msg, got, ticks,
                 tocks, stops>>

(* LemonRunQSend to a local job; an id the table lacks is an error.  A     *)
(* multicast is one such step for each member.                             *)
Send(j) == Post(j)

(* LemonRunQSend to a remote id: the message goes to the proxy job.        *)
SendRemote == proxy # None /\ Post(proxy)

(* LemonCreateProxyJob.  It takes no lock and checks nothing.              *)
CreateProxyJob(j) ==
  /\ j \in born /\ proxy' = j
  /\ UNCHANGED <<jobVars, fifo, stopped, resetting, rjob, loopVars, histVars,
                 quiet>>

(* LemonJobTimeout, called by the timer thread.                            *)
JobTimeout(j) ==
  /\ Free /\ j \in table
  /\ ticks[j] < MaxTicks
  /\ ticks' = [ticks EXCEPT ![j] = @ + 1]
  /\ IF color[j] = "SLEEP"
     THEN Rouse(j, "TIMEOUT")
     ELSE /\ color' = [color EXCEPT ![j] = "TIMEOUT"]
          /\ UNCHANGED <<fifo, pc, quiet>>
  /\ UNCHANGED <<table, live, born, starting, queue, ctlVars, run, msg, sent,
                 got, tocks, stops>>

(* LemonCloseJob: its RunQMutex section.  Only a sleeping job is pushed:   *)
(* any other is with somebody who will see that it is closed.              *)
NeverPush(j) == UNCHANGED fifo
PushIfAsleep(j) == IF color[j] = "SLEEP" THEN PushJob(j) ELSE UNCHANGED fifo

CloseJob(j) ==
  /\ Free /\ j \in table
  /\ Unlist(j)
  /\ color' = [color EXCEPT ![j] = "CLOSED"]
  /\ PushIfAsleep(j)
  /\ Notify
  /\ UNCHANGED <<live, born, starting, queue, ctlVars, run, msg, histVars>>

(* LemonRunQStop: its RunQMutex section.                                   *)
RunQStop ==
  /\ Free
  /\ stopped' = TRUE
  /\ NotifyAll
  /\ UNCHANGED <<jobVars, fifo, proxy, resetting, rjob, run, msg, histVars>>

-----------------------------------------------------------------------------
(* LemonRunQLoop.  A thread that calls it on a stopped queue returns at    *)
(* once; while a reset is draining the queue no thread calls it.           *)

EnterLoop(w) ==
  /\ pc[w] = "out" /\ Free /\ ~stopped
  /\ pc' = [pc EXCEPT ![w] = "top"]
  /\ UNCHANGED <<jobVars, fifo, ctlVars, run, msg, histVars, quiet>>

LeaveLoop(w) ==
  /\ pc[w] = "top" /\ stopped
  /\ pc' = [pc EXCEPT ![w] = "out"]
  /\ UNCHANGED <<jobVars, fifo, ctlVars, run, msg, histVars, quiet>>

AwaitJob(w) ==
  /\ pc[w] = "top" /\ ~stopped /\ fifo = <<>>
  /\ pc' = [pc EXCEPT ![w] = "wait"]
  /\ UNCHANGED <<jobVars, fifo, ctlVars, run, msg, histVars, quiet>>

(* The condition variable may wake a waiter nobody notified.               *)
SpuriousWake(w) ==
  /\ pc[w] = "wait"
  /\ pc' = [pc EXCEPT ![w] = "woken"]
  /\ UNCHANGED <<jobVars, fifo, ctlVars, run, msg, histVars, quiet>>

Rewake(w) ==
  /\ pc[w] = "woken" /\ Free
  /\ pc' = [pc EXCEPT ![w] = "top"]
  /\ UNCHANGED <<jobVars, fifo, ctlVars, run, msg, histVars, quiet>>

NeverClosed(j) == FALSE
IsClosed(j) == color[j] = "CLOSED"

(* A closed job's callback Stop is called with the mutex released.         *)
CallStop(w, j) ==
  /\ stops' = [stops EXCEPT ![j] = @ + 1]
  /\ pc' = [pc EXCEPT ![w] = "stop"]
  /\ run' = [run EXCEPT ![w] = j]
  /\ msg' = [msg EXCEPT ![w] = 0]

(* Pop the first job; Stop it if it is closed, else pop its first message, *)
(* if any, for Recv.  A job that only timed out has no message.            *)
TakeJob(w) ==
  /\ pc[w] = "top" /\ ~stopped /\ fifo # <<>>
  /\ fifo' = Tail(fifo)
  /\ LET j == Head(fifo) IN
       /\ quiet' = quiet \ {j}
       /\ IF IsClosed(j)
          THEN CallStop(w, j) /\ UNCHANGED <<queue, got>>
          ELSE /\ pc' = [pc EXCEPT ![w] = "recv"]
               /\ run' = [run EXCEPT ![w] = j]
               /\ UNCHANGED stops
               /\ IF queue[j] = <<>>
                  THEN msg' = [msg EXCEPT ![w] = 0] /\ UNCHANGED <<queue, got>>
                  ELSE /\ msg' = [msg EXCEPT ![w] = Head(queue[j])]
                       /\ queue' = [queue EXCEPT ![j] = Tail(@)]
                       /\ got' = [got EXCEPT ![j] = @ + 1]
  /\ UNCHANGED <<table, live, born, starting, color, ctlVars, sent, ticks,
                 tocks>>

(* Recv has returned.  Color is read without the mutex, and a timeout seen *)
(* there is given to Recv as a message from LEMON_TIMEOUT_JOBID.           *)
RecvDone(w) ==
  /\ pc[w] = "recv"
  /\ LET j == run[w] IN
       IF color[j] = "TIMEOUT"
       THEN /\ pc' = [pc EXCEPT ![w] = "tmo"]
            /\ tocks' = [tocks EXCEPT ![j] = @ + 1]
       ELSE /\ pc' = [pc EXCEPT ![w] = "post"]
            /\ UNCHANGED tocks
  /\ UNCHANGED <<jobVars, fifo, ctlVars, run, msg, sent, got, ticks, stops,
                 quiet>>

TimeoutRecvDone(w) ==
  /\ pc[w] = "tmo"
  /\ pc' = [pc EXCEPT ![w] = "post"]
  /\ UNCHANGED <<jobVars, fifo, ctlVars, run, msg, histVars, quiet>>

(* What a job becomes after its callbacks; a TIMEOUT set since the color   *)
(* was read is forgotten.                                                  *)
StillTimeout(j) == IF queue[j] = <<>> THEN "SLEEP" ELSE color[j]
RestColor(j) == IF queue[j] = <<>> THEN "SLEEP" ELSE "STANDBY"

(* Back under the mutex: free the message; a job closed meanwhile is       *)
(* stopped, a job with messages goes to the back of the run queue, another *)
(* sleeps.                                                                 *)
Requeue(w) ==
  /\ pc[w] = "post" /\ Free
  /\ LET j == run[w] IN
       IF IsClosed(j)
       THEN CallStop(w, j) /\ UNCHANGED <<color, fifo>>
       ELSE /\ pc' = [pc EXCEPT ![w] = "top"]
            /\ run' = [run EXCEPT ![w] = None]
            /\ msg' = [msg EXCEPT ![w] = 0]
            /\ UNCHANGED stops
            /\ color' = [color EXCEPT ![j] = RestColor(j)]
            /\ IF queue[j] = <<>> THEN UNCHANGED fifo ELSE PushJob(j)
  /\ UNCHANGED <<table, live, born, starting, queue, ctlVars, sent, got, ticks,
                 tocks, quiet>>

(* __LemonCloseJob: the job is freed and the messages left in its FIFO.    *)
StopDone(w) ==
  /\ pc[w] = "stop" /\ Free
  /\ pc' = [pc EXCEPT ![w] = "top"]
  /\ run' = [run EXCEPT ![w] = None]
  /\ live' = live \ {run[w]}
  /\ DropMessages({run[w]})
  /\ UNCHANGED <<table, born, starting, color, fifo, ctlVars, msg, histVars,
                 quiet>>

-----------------------------------------------------------------------------
(* LemonRunQReset takes no lock: it is called on a stopped queue, when     *)
(* every worker has left the loop and no thread is creating a job.         *)

BeginReset ==
  /\ stopped /\ ~resetting /\ starting = {}
  /\ \A w \in Worker : pc[w] = "out"
  /\ resetting' = TRUE
  /\ UNCHANGED <<jobVars, fifo, proxy, stopped, rjob, loopVars, histVars, quiet>>

(* The next queued job leaves the table and its Stop is called.            *)
ResetStop ==
  /\ resetting /\ rjob = None /\ starting = {} /\ fifo # <<>>
  /\ fifo' = Tail(fifo)
  /\ Unlist(Head(fifo))
  /\ rjob' = Head(fifo)
  /\ stops' = [stops EXCEPT ![Head(fifo)] = @ + 1]
  /\ quiet' = quiet \ {Head(fifo)}
  /\ UNCHANGED <<live, born, starting, color, queue, proxy, stopped, resetting,
                 loopVars, sent, got, ticks, tocks>>

ResetFree ==
  /\ rjob # None /\ starting = {}
  /\ live' = live \ {rjob}
  /\ DropMessages({rjob})
  /\ rjob' = None
  /\ UNCHANGED <<table, born, starting, color, fifo, proxy, stopped, resetting,
                 loopVars, histVars, quiet>>

(* JobTableGc frees every job still in the table, without calling Stop.    *)
EndReset ==
  /\ resetting /\ rjob = None /\ starting = {} /\ fifo = <<>>
  /\ live' = live \ table
  /\ DropMessages(table)
  /\ table' = {}
  /\ stopped' = FALSE /\ resetting' = FALSE
  /\ UNCHANGED <<born, starting, color, fifo, proxy, rjob, loopVars, histVars,
                 quiet>>

-----------------------------------------------------------------------------
Api ==
  \/ \E j \in Job : \/ BeginCreate(j) \/ StartFailed(j) \/ StartDone(j)
                    \/ Send(j) \/ JobTimeout(j) \/ CloseJob(j)
                    \/ CreateProxyJob(j)
  \/ SendRemote
  \/ RunQStop

Loop(w) == \/ EnterLoop(w) \/ LeaveLoop(w) \/ AwaitJob(w) \/ Rewake(w)
           \/ TakeJob(w) \/ RecvDone(w) \/ TimeoutRecvDone(w)
           \/ Requeue(w) \/ StopDone(w)

Reset == BeginReset \/ ResetStop \/ ResetFree \/ EndReset

Next == Api \/ (\E w \in Worker : Loop(w) \/ SpuriousWake(w)) \/ Reset

Spec == Init /\ [][Next]_vars

(* The application starts its workers, callbacks return, and a thread that *)
(* wants the mutex gets it in the end.  Nobody has to send, close, stop or *)
(* reset anything, and no worker wakes without a notification.             *)
Fairness ==
  /\ \A w \in Worker : SF_vars(Loop(w))
  /\ \A j \in Job : SF_vars(StartFailed(j) \/ StartDone(j))

FairSpec == Spec /\ Fairness

-----------------------------------------------------------------------------
(* The type of every variable. *)
TypeOK ==
  /\ table \in SUBSET Job /\ live \in SUBSET Job /\ born \in SUBSET Job
  /\ starting \in SUBSET Job /\ quiet \in SUBSET Job
  /\ color \in [Job -> Colors]
  /\ queue \in [Job -> Seq(Nat)]
  /\ fifo \in Seq(Job)
  /\ proxy \in Job \cup {None} /\ rjob \in Job \cup {None}
  /\ stopped \in BOOLEAN /\ resetting \in BOOLEAN
  /\ pc \in [Worker -> PCs]
  /\ run \in [Worker -> Job \cup {None}]
  /\ msg \in [Worker -> Nat]
  /\ sent \in [Job -> Nat] /\ got \in [Job -> Nat]
  /\ ticks \in [Job -> Nat] /\ tocks \in [Job -> Nat]
  /\ stops \in [Job -> Nat]

Held(j) == \E w \in Worker : run[w] = j
Asleep(j) == color[j] = "SLEEP"

(* A worker has a job in hand exactly in the four places of the loop where *)
(* the variable job is in use with the mutex released.                     *)
HandsFull == \A w \in Worker :
  run[w] # None <=> pc[w] \in {"recv", "tmo", "post", "stop"}

(* Nothing refers to a job that LemonFixObjectFree has taken back: not the *)
(* table, the run queue, a worker, LemonCreateJob or LemonRunQReset.       *)
NoDangling ==
  /\ table \cup starting \cup Elements(fifo) \subseteq live
  /\ \A w \in Worker : run[w] # None => run[w] \in live
  /\ rjob # None => rjob \in live

(* A live job is in exactly one place: in the Start of LemonCreateJob, in  *)
(* the run queue (once), in one worker's hand, in LemonRunQReset, or       *)
(* asleep.  So no two callbacks of a job ever overlap, though no lock is   *)
(* held while they run, and no live job is lost.                           *)
Exclusive ==
  /\ \A v, w \in Worker : run[v] = run[w] /\ run[v] # None => v = w
  /\ NoRepeat(fifo)
  /\ \A j \in live :
       /\ Held(j) => ~InFifo(j) /\ j \notin starting /\ rjob # j /\ ~Asleep(j)
       /\ InFifo(j) => j \notin starting /\ rjob # j /\ ~Asleep(j)
       /\ j \in starting => rjob # j /\ ~Asleep(j)
NoneLost == \A j \in live :
  Held(j) \/ InFifo(j) \/ j \in starting \/ rjob = j \/ Asleep(j)
OnePlace == Exclusive /\ NoneLost

(* A job out of the table is CLOSED and a CLOSED job is out of the table,  *)
(* whatever sends, ticks and workers write Color afterwards; only the job  *)
(* LemonRunQReset is stopping is out of the table in another color.        *)
ClosedIffUnlisted == \A j \in live :
  rjob # j => (color[j] = "CLOSED" <=> j \notin table)

(* Together: every live job is where it belongs and nothing else is there. *)
WellPlaced == NoDangling /\ OnePlace /\ ClosedIffUnlisted

(* A reset runs alone, and the job it is stopping is out of the table.     *)
ResetAlone ==
  /\ resetting => stopped /\ \A w \in Worker : pc[w] = "out"
  /\ rjob # None => resetting /\ rjob \notin table

(* Only a job that is out of the table is stopped. *)
StopsUnlisted == \A w \in Worker : pc[w] = "stop" => run[w] \notin table

(* The inductive invariant behind it.                                      *)
PlaceInv == /\ live \subseteq born
            /\ NoDangling /\ OnePlace /\ ClosedIffUnlisted
            /\ ResetAlone /\ StopsUnlisted

(* A job that sleeps has no message waiting: nothing else would push it.   *)
SleepersHaveNoMail == \A j \in live : Asleep(j) => queue[j] = <<>>

(* Every message accepted for a live job is given to Recv once, in the     *)
(* order of the sends: the FIFO holds those sent after the last one got.   *)
MailInOrder == \A j \in live :
  /\ got[j] + Len(queue[j]) = sent[j]
  /\ \A i \in 1..Len(queue[j]) : queue[j][i] = got[j] + i

(* A timeout is given to Recv at most once for each LemonJobTimeout, though *)
(* the color that asks for it is read with no lock and reset later.        *)
Ticked(j) == /\ color[j] = "TIMEOUT"
             /\ \A w \in Worker : run[w] = j => pc[w] = "recv"
NoPhantomTimeout == \A j \in Job :
  IF Ticked(j) THEN tocks[j] < ticks[j] ELSE tocks[j] <= ticks[j]

(* Together: no message is lost, and none is left with nobody to wake.     *)
MailKept == SleepersHaveNoMail /\ MailInOrder

(* Stop is called at most once, and a live job whose Stop has been called  *)
(* is in the hand of whoever called it: no Recv comes after Stop.          *)
StopOnce == \A j \in Job :
  /\ stops[j] <= 1
  /\ j \in live /\ stops[j] = 1 =>
        rjob = j \/ \E w \in Worker : run[w] = j /\ pc[w] = "stop"

(* Together: no callback is called more often than somebody asked for it.  *)
CallbacksOwed == NoPhantomTimeout /\ StopOnce

(* When every worker in the loop is blocked in the condition variable, the *)
(* only jobs that can be in the run queue are those LemonCreateJob pushed  *)
(* (it does not notify) since the last notification: no other step loses   *)
(* a wakeup.                                                               *)
NoLostWakeup ==
  (/\ ~stopped
   /\ \E w \in Worker : pc[w] = "wait"
   /\ \A w \in Worker : pc[w] \in {"wait", "out"}) =>
     Elements(fifo) \subseteq quiet

(* What a job's author sees of the scheduler: the phase of each job is that *)
(* of the callback some thread is in.                                      *)
InCallback(j, p) == \E w \in Worker : run[w] = j /\ pc[w] = p
Reading(j) == \E w \in Worker : run[w] = j /\ pc[w] = "recv" /\ msg[w] # 0
PhaseOf(j) ==
  CASE j \notin born -> "unborn"
    [] j \in born \ live -> "gone"
    [] j \in starting -> "starting"
    [] j \in live \ starting /\ (rjob = j \/ InCallback(j, "stop")) -> "stopping"
    [] j \in live \ starting /\ Reading(j) -> "receiving"
    [] j \in live \ starting /\ InCallback(j, "tmo") -> "ticking"
    [] OTHER -> "idle"

PhaseMap == [j \in Job |-> PhaseOf(j)]
ShutMap == [j \in Job |-> j \in born /\ j \notin table]
ArmedMap == [j \in Job |-> j \in table /\ Ticked(j)]

Contract == INSTANCE JobContract WITH
  phase <- PhaseMap, shut <- ShutMap, armed <- ArmedMap,
  mailbox <- queue, posted <- sent, down <- stopped

(* The scheduler implements JobContract: whatever the workers, the timer    *)
(* and the API calls interleave, each job sees an actor's life.            *)
KeepsContract == Contract!Spec

-----------------------------------------------------------------------------
(* Under Fairness. *)

(* LemonRunQStop ends every worker's loop. *)
StopEndsLoops == stopped ~> (~stopped \/ \A w \in Worker : pc[w] = "out")

(* Mail for a job is worked off, and a closed job is stopped and freed,    *)
(* unless the queue is stopped or LemonCreateJob queued the job silently.  *)
Stranded(j) == j \in quiet \/ stopped
MailWorkedOff == \A j \in Job :
  (queue[j] # <<>>) ~> (queue[j] = <<>> \/ Stranded(j))
ClosedJobsFreed == \A j \in Job :
  (j \in live /\ color[j] = "CLOSED") ~> (j \notin live \/ Stranded(j))
=============================================================================
