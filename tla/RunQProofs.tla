----------------------------- MODULE RunQProofs -----------------------------
(* Theorems about RunQ, for every set of jobs and workers and every bound: *)
(* the invariants first, then that RunQ implements JobContract.            *)
EXTENDS RunQ, TLAPS

(* Facts about the two ends of a queue. *)
LEMMA PushFacts ==
  ASSUME NEW S, NEW s \in Seq(S), NEW e \in S
  PROVE  /\ Append(s, e) \in Seq(S)
         /\ Elements(Append(s, e)) = Elements(s) \cup {e}
         /\ NoRepeat(s) /\ e \notin Elements(s) => NoRepeat(Append(s, e))
<1>1. /\ Append(s, e) \in Seq(S)
      /\ Len(Append(s, e)) = Len(s) + 1
      /\ \A i \in 1..Len(s) : Append(s, e)[i] = s[i]
      /\ Append(s, e)[Len(s) + 1] = e
      /\ Len(s) \in Nat
  OBVIOUS
<1>2. 1..(Len(s) + 1) = (1..Len(s)) \cup {Len(s) + 1}
  BY <1>1
<1>3. Elements(Append(s, e)) = Elements(s) \cup {e}
  BY <1>1, <1>2 DEF Elements
<1>4. ASSUME NoRepeat(s), e \notin Elements(s)
      PROVE  NoRepeat(Append(s, e))
  BY <1>1, <1>2, <1>4 DEF NoRepeat, Elements
<1> QED
  BY <1>1, <1>3, <1>4

LEMMA PopFacts ==
  ASSUME NEW S, NEW s \in Seq(S), s # <<>>
  PROVE  /\ Head(s) \in S /\ Head(s) \in Elements(s)
         /\ Tail(s) \in Seq(S)
         /\ Elements(Tail(s)) \subseteq Elements(s)
         /\ Elements(s) \subseteq Elements(Tail(s)) \cup {Head(s)}
         /\ NoRepeat(s) => NoRepeat(Tail(s)) /\ Head(s) \notin Elements(Tail(s))
<1>1. /\ Tail(s) \in Seq(S) /\ Head(s) = s[1] /\ Head(s) \in S
      /\ Len(s) \in Nat /\ Len(s) >= 1
      /\ Len(Tail(s)) = Len(s) - 1
      /\ \A i \in 1..Len(Tail(s)) : Tail(s)[i] = s[i + 1]
  OBVIOUS
<1>2. Head(s) \in Elements(s)
  BY <1>1 DEF Elements
<1>3. Elements(Tail(s)) \subseteq Elements(s)
  <2>1. \A i \in 1..Len(Tail(s)) : i + 1 \in 1..Len(s)
    BY <1>1
  <2> QED
    BY <1>1, <2>1 DEF Elements
<1>4. Elements(s) \subseteq Elements(Tail(s)) \cup {Head(s)}
  <2> SUFFICES ASSUME NEW i \in 1..Len(s), i # 1
               PROVE  \E k \in 1..Len(Tail(s)) : Tail(s)[k] = s[i]
    BY <1>1 DEF Elements
  <2>1. i - 1 \in 1..Len(Tail(s)) /\ (i - 1) + 1 = i
    BY <1>1
  <2> QED
    BY <1>1, <2>1
<1>5. ASSUME NoRepeat(s)
      PROVE  NoRepeat(Tail(s)) /\ Head(s) \notin Elements(Tail(s))
  <2>1. \A i \in 1..Len(Tail(s)) : i + 1 \in 1..Len(s) /\ i + 1 # 1 /\ 1 \in 1..Len(s)
    BY <1>1
  <2>2. \A i \in 1..Len(Tail(s)) : Tail(s)[i] # s[1]
    BY <1>1, <1>5, <2>1 DEF NoRepeat
  <2>3. \A i, k \in 1..Len(Tail(s)) : Tail(s)[i] = Tail(s)[k] => i + 1 = k + 1
    BY <1>1, <1>5, <2>1 DEF NoRepeat
  <2>4. \A i, k \in 1..Len(Tail(s)) : i + 1 = k + 1 => i = k
    BY <1>1
  <2> QED
    BY <1>1, <2>2, <2>3, <2>4 DEF NoRepeat, Elements
<1> QED
  BY <1>1, <1>2, <1>3, <1>4, <1>5

-----------------------------------------------------------------------------
(* A notification only turns waiting workers into woken ones. *)
LEMMA NotifyFacts ==
  ASSUME TypeOK, Notify \/ NotifyAll
  PROVE  /\ quiet' = {}
         /\ pc' \in [Worker -> PCs]
         /\ \A w \in Worker : pc'[w] = pc[w] \/ (pc[w] = "wait" /\ pc'[w] = "woken")
<1>1. CASE pc' = pc
  BY <1>1 DEF TypeOK, Notify, NotifyAll
<1>2. ASSUME NEW W \in SUBSET Waiting, Wake(W)
      PROVE  /\ pc' \in [Worker -> PCs]
             /\ \A w \in Worker :
                  pc'[w] = pc[w] \/ (pc[w] = "wait" /\ pc'[w] = "woken")
  BY <1>2 DEF TypeOK, Wake, Waiting, PCs
<1>3. pc' = pc \/ \E W \in SUBSET Waiting : Wake(W)
  BY DEF Notify, NotifyAll
<1> QED
  BY <1>1, <1>2, <1>3 DEF Notify, NotifyAll

(* Messages and jobs are pushed in queues of their kind. *)
LEMMA PushMessageType ==
  ASSUME TypeOK, NEW j \in Job, PushMessage(j)
  PROVE  queue' \in [Job -> Seq(Nat)]
<1>1. sent[j] + 1 \in Nat /\ queue[j] \in Seq(Nat)
  <2>1. sent \in [Job -> Nat] /\ queue \in [Job -> Seq(Nat)]
    BY DEF TypeOK
  <2> QED
    BY <2>1
<1>2. Append(queue[j], sent[j] + 1) \in Seq(Nat)
  BY <1>1
<1> QED
  BY <1>2 DEF TypeOK, PushMessage

LEMMA DropMessagesType ==
  ASSUME TypeOK, NEW S, DropMessages(S)
  PROVE  queue' \in [Job -> Seq(Nat)]
<1>1. <<>> \in Seq(Nat)
  OBVIOUS
<1> QED
  BY <1>1 DEF TypeOK, DropMessages

LEMMA PushJobType ==
  ASSUME TypeOK, NEW j \in Job, PushJob(j)
  PROVE  fifo' \in Seq(Job)
BY PushFacts DEF TypeOK, PushJob

LEMMA RouseType ==
  ASSUME TypeOK, NEW j \in Job, NEW c \in Colors, Rouse(j, c)
  PROVE  /\ color' \in [Job -> Colors]
         /\ fifo' \in Seq(Job)
         /\ pc' \in [Worker -> PCs]
         /\ quiet' \in SUBSET Job
<1>1. CASE color[j] = "SLEEP"
  BY <1>1, NotifyFacts, PushJobType DEF TypeOK, Rouse
<1>2. CASE color[j] # "SLEEP"
  BY <1>2 DEF TypeOK, Rouse
<1> QED
  BY <1>1, <1>2

LEMMA InitType == Init => TypeOK
<1>1. <<>> \in Seq(Job) /\ <<>> \in Seq(Nat)
  OBVIOUS
<1> SUFFICES ASSUME Init PROVE TypeOK
  OBVIOUS
<1>2. color \in [Job -> Colors] /\ queue \in [Job -> Seq(Nat)] /\ fifo \in Seq(Job)
  BY <1>1 DEF Init, Colors
<1>3. pc \in [Worker -> PCs] /\ run \in [Worker -> Job \cup {None}]
      /\ msg \in [Worker -> Nat]
  BY DEF Init, PCs
<1>4. /\ sent \in [Job -> Nat] /\ got \in [Job -> Nat] /\ stops \in [Job -> Nat]
      /\ ticks \in [Job -> Nat] /\ tocks \in [Job -> Nat]
  BY DEF Init
<1> QED
  BY <1>2, <1>3, <1>4 DEF Init, TypeOK, InitialProxy

LEMMA PostType ==
  ASSUME TypeOK, NEW j \in Job, Post(j)
  PROVE  TypeOK'
<1>1. queue' \in [Job -> Seq(Nat)]
  BY PushMessageType DEF Post
<1>2. "STANDBY" \in Colors
  BY DEF Colors
<1>3. /\ color' \in [Job -> Colors] /\ fifo' \in Seq(Job)
      /\ pc' \in [Worker -> PCs] /\ quiet' \in SUBSET Job
  BY <1>2, RouseType DEF Post
<1>4. sent' \in [Job -> Nat]
  BY DEF Post, TypeOK
<1> QED
  BY <1>1, <1>3, <1>4 DEF Post, TypeOK, ctlVars

(* Type correctness is preserved by what the API does. *)
LEMMA ApiType == ASSUME TypeOK, Api PROVE TypeOK'
<1>1. ASSUME NEW j \in Job, BeginCreate(j) PROVE TypeOK'
  BY <1>1 DEF BeginCreate, TypeOK, Colors, ctlVars, loopVars, histVars
<1>2. ASSUME NEW j \in Job, StartFailed(j) PROVE TypeOK'
  BY <1>2, DropMessagesType
     DEF StartFailed, TypeOK, Unlist, ctlVars, loopVars, histVars
<1>3. ASSUME NEW j \in Job, StartDone(j) PROVE TypeOK'
  <2>1. fifo' \in Seq(Job)
    BY <1>3, PushJobType DEF StartDone, TypeOK
  <2>2. color' \in [Job -> Colors]
    BY <1>3 DEF StartDone, TypeOK, StartedColor, Colors
  <2> QED
    BY <1>3, <2>1, <2>2 DEF StartDone, TypeOK, ctlVars, loopVars, histVars
<1>4. ASSUME NEW j \in Job, Send(j) PROVE TypeOK'
  BY <1>4, PostType DEF Send
<1>5. ASSUME NEW j \in Job, JobTimeout(j) PROVE TypeOK'
  <2>1. "TIMEOUT" \in Colors
    BY DEF Colors
  <2>2. /\ color' \in [Job -> Colors] /\ fifo' \in Seq(Job)
        /\ pc' \in [Worker -> PCs] /\ quiet' \in SUBSET Job
    BY <1>5, <2>1, RouseType DEF JobTimeout, TypeOK
  <2>3. ticks' \in [Job -> Nat]
    BY <1>5 DEF JobTimeout, TypeOK
  <2> QED
    BY <1>5, <2>2, <2>3 DEF JobTimeout, TypeOK, ctlVars
<1>6. ASSUME NEW j \in Job, CloseJob(j) PROVE TypeOK'
  <2>1. fifo' \in Seq(Job)
    BY <1>6, PushJobType DEF CloseJob, PushIfAsleep, TypeOK
  <2>2. pc' \in [Worker -> PCs] /\ quiet' \in SUBSET Job
    BY <1>6, NotifyFacts DEF CloseJob
  <2> QED
    BY <1>6, <2>1, <2>2 DEF CloseJob, TypeOK, Unlist, Colors, ctlVars, histVars
<1>7. ASSUME NEW j \in Job, CreateProxyJob(j) PROVE TypeOK'
  BY <1>7 DEF CreateProxyJob, TypeOK, jobVars, loopVars, histVars
<1>8. ASSUME SendRemote PROVE TypeOK'
  <2>1. proxy \in Job
    BY <1>8 DEF SendRemote, TypeOK
  <2> QED
    BY <1>8, <2>1, PostType DEF SendRemote
<1>9. ASSUME RunQStop PROVE TypeOK'
  BY <1>9, NotifyFacts DEF RunQStop, TypeOK, jobVars, histVars
<1> QED
  BY <1>1, <1>2, <1>3, <1>4, <1>5, <1>6, <1>7, <1>8, <1>9 DEF Api

LEMMA CallStopType ==
  ASSUME TypeOK, NEW w \in Worker, NEW j \in Job, CallStop(w, j)
  PROVE  /\ stops' \in [Job -> Nat] /\ pc' \in [Worker -> PCs]
         /\ run' \in [Worker -> Job \cup {None}] /\ msg' \in [Worker -> Nat]
<1>1. /\ stops \in [Job -> Nat] /\ pc \in [Worker -> PCs]
      /\ run \in [Worker -> Job \cup {None}] /\ msg \in [Worker -> Nat]
  BY DEF TypeOK
<1>2. stops' \in [Job -> Nat]
  BY <1>1 DEF CallStop
<1>3. pc' \in [Worker -> PCs]
  BY <1>1 DEF CallStop, PCs
<1>4. run' \in [Worker -> Job \cup {None}] /\ msg' \in [Worker -> Nat]
  BY <1>1 DEF CallStop
<1> QED
  BY <1>2, <1>3, <1>4

(* And by the steps of a worker. *)
LEMMA LoopType ==
  ASSUME TypeOK, HandsFull, NEW w \in Worker, Loop(w) \/ SpuriousWake(w)
  PROVE  TypeOK'
<1>1. CASE EnterLoop(w) \/ LeaveLoop(w) \/ AwaitJob(w) \/ SpuriousWake(w) \/ Rewake(w)
  BY <1>1 DEF EnterLoop, LeaveLoop, AwaitJob, SpuriousWake, Rewake, TypeOK, PCs,
              jobVars, ctlVars, histVars
<1>2. CASE TakeJob(w)
  <2> DEFINE j == Head(fifo)
  <2>1. j \in Job /\ fifo' \in Seq(Job)
    BY <1>2, PopFacts DEF TakeJob, TypeOK
  <2>2. /\ queue \in [Job -> Seq(Nat)] /\ got \in [Job -> Nat]
        /\ stops \in [Job -> Nat] /\ pc \in [Worker -> PCs]
        /\ run \in [Worker -> Job \cup {None}] /\ msg \in [Worker -> Nat]
    BY DEF TypeOK
  <2>3. queue[j] # <<>> => Head(queue[j]) \in Nat /\ Tail(queue[j]) \in Seq(Nat)
    BY <2>1, <2>2
  <2>4. /\ stops' \in [Job -> Nat] /\ pc' \in [Worker -> PCs]
        /\ run' \in [Worker -> Job \cup {None}] /\ msg' \in [Worker -> Nat]
    <3>1. CASE IsClosed(j)
      BY <1>2, <2>1, <3>1, CallStopType DEF TakeJob
    <3>2. CASE ~IsClosed(j)
      <4>1. /\ pc' = [pc EXCEPT ![w] = "recv"] /\ run' = [run EXCEPT ![w] = j]
            /\ stops' = stops
            /\ \/ msg' = [msg EXCEPT ![w] = 0]
               \/ queue[j] # <<>> /\ msg' = [msg EXCEPT ![w] = Head(queue[j])]
        BY <1>2, <3>2 DEF TakeJob
      <4>2. pc' \in [Worker -> PCs]
        BY <2>2, <4>1 DEF PCs
      <4>3. run' \in [Worker -> Job \cup {None}] /\ msg' \in [Worker -> Nat]
        BY <2>1, <2>2, <2>3, <4>1
      <4> QED
        BY <2>2, <4>1, <4>2, <4>3
    <3> QED
      BY <3>1, <3>2
  <2>5. queue' \in [Job -> Seq(Nat)] /\ got' \in [Job -> Nat]
    <3>1. got' = got \/ got' = [got EXCEPT ![j] = @ + 1]
      BY <1>2 DEF TakeJob
    <3>2. \/ queue' = queue
          \/ queue[j] # <<>> /\ queue' = [queue EXCEPT ![j] = Tail(@)]
      BY <1>2 DEF TakeJob
    <3> HIDE DEF j
    <3>3. got' \in [Job -> Nat]
      <4>1. j \in Job /\ got \in [Job -> Nat]
        BY <2>1, <2>2
      <4> QED
        BY <3>1, <4>1
    <3>4. ASSUME NEW q \in Seq(Nat) PROVE [queue EXCEPT ![j] = q] \in [Job -> Seq(Nat)]
      BY <2>1, <2>2
    <3>5. queue' \in [Job -> Seq(Nat)]
      BY <2>2, <2>3, <3>2, <3>4
    <3> QED
      BY <3>3, <3>5
  <2>6. quiet' \in SUBSET Job
    BY <1>2 DEF TakeJob, TypeOK
  <2> QED
    BY <1>2, <2>1, <2>4, <2>5, <2>6 DEF TakeJob, TypeOK, ctlVars
<1>3. CASE RecvDone(w)
  <2>1. pc \in [Worker -> PCs] /\ tocks \in [Job -> Nat] /\ run[w] \in Job
    BY <1>3 DEF RecvDone, TypeOK, HandsFull
  <2>2. tocks' \in [Job -> Nat]
    BY <1>3, <2>1 DEF RecvDone
  <2>3. pc' \in [Worker -> PCs]
    BY <1>3, <2>1 DEF RecvDone, PCs
  <2> QED
    BY <1>3, <2>2, <2>3 DEF RecvDone, TypeOK, jobVars, ctlVars
<1>4. CASE TimeoutRecvDone(w)
  BY <1>4 DEF TimeoutRecvDone, TypeOK, PCs, jobVars, ctlVars, histVars
<1>5. CASE StopDone(w)
  BY <1>5, DropMessagesType DEF StopDone, TypeOK, PCs, ctlVars, histVars
<1>6. CASE Requeue(w)
  <2>1. run[w] \in Job
    <3>1. run[w] # None
      BY <1>6 DEF Requeue, HandsFull
    <3> QED
      BY <3>1 DEF TypeOK
  <2>2. CASE IsClosed(run[w])
    BY <1>6, <2>1, <2>2, CallStopType DEF Requeue, TypeOK, ctlVars
  <2>3. CASE ~IsClosed(run[w])
    <3>1. /\ color \in [Job -> Colors] /\ pc \in [Worker -> PCs]
          /\ run \in [Worker -> Job \cup {None}] /\ msg \in [Worker -> Nat]
          /\ fifo \in Seq(Job)
      BY DEF TypeOK
    <3>2. color' \in [Job -> Colors]
      BY <1>6, <2>3, <3>1 DEF Requeue, RestColor, Colors
    <3>3. fifo' \in Seq(Job)
      BY <1>6, <2>1, <2>3, <3>1, PushJobType DEF Requeue
    <3>4. pc' \in [Worker -> PCs]
      BY <1>6, <2>3, <3>1 DEF Requeue, PCs
    <3>5. run' \in [Worker -> Job \cup {None}] /\ msg' \in [Worker -> Nat]
      BY <1>6, <2>3, <3>1 DEF Requeue
    <3> QED
      BY <1>6, <2>3, <3>2, <3>3, <3>4, <3>5 DEF Requeue, TypeOK, ctlVars
  <2> QED
    BY <2>2, <2>3
<1> QED
  BY <1>1, <1>2, <1>3, <1>4, <1>5, <1>6 DEF Loop

(* And by a reset. *)
LEMMA ResetType == ASSUME TypeOK, Reset PROVE TypeOK'
<1>1. CASE BeginReset
  BY <1>1 DEF BeginReset, TypeOK, jobVars, loopVars, histVars
<1>2. CASE ResetStop
  <2>1. Head(fifo) \in Job /\ fifo' \in Seq(Job)
    BY <1>2, PopFacts DEF ResetStop, TypeOK
  <2>2. stops' \in [Job -> Nat]
    <3>1. stops \in [Job -> Nat]
      BY DEF TypeOK
    <3> QED
      BY <1>2, <2>1, <3>1 DEF ResetStop
  <2> QED
    BY <1>2, <2>1, <2>2 DEF ResetStop, TypeOK, Unlist, loopVars
<1>3. CASE ResetFree
  BY <1>3, DropMessagesType DEF ResetFree, TypeOK, loopVars, histVars
<1>4. CASE EndReset
  BY <1>4, DropMessagesType DEF EndReset, TypeOK, loopVars, histVars
<1> QED
  BY <1>1, <1>2, <1>3, <1>4 DEF Reset

(* A worker has a job in hand exactly where HandsFull says. *)
LEMMA HandsFullStep ==
  ASSUME TypeOK, HandsFull, Next
  PROVE  HandsFull'
<1>0. RunQAssumption /\ None \notin Job
  BY RunQAssumption DEF RunQAssumption
<1>1. ASSUME /\ UNCHANGED run
             /\ \A w \in Worker : pc'[w] = pc[w] \/ (pc[w] = "wait" /\ pc'[w] = "woken")
      PROVE  HandsFull'
  BY <1>1 DEF HandsFull
<1>2. ASSUME Api PROVE HandsFull'
  <2>1. UNCHANGED run
    BY <1>2 DEF Api, BeginCreate, StartFailed, StartDone, Send, Post, JobTimeout,
                CloseJob, CreateProxyJob, SendRemote, RunQStop, loopVars
  <2>2. UNCHANGED pc \/ Notify \/ NotifyAll
    BY <1>2 DEF Api, BeginCreate, StartFailed, StartDone, Send, Post, JobTimeout,
                CloseJob, CreateProxyJob, SendRemote, RunQStop, loopVars, Rouse
  <2> QED
    BY <1>1, <2>1, <2>2, NotifyFacts
<1>3. ASSUME Reset PROVE HandsFull'
  BY <1>3, <1>1 DEF Reset, BeginReset, ResetStop, ResetFree, EndReset, loopVars
<1>4. ASSUME NEW w \in Worker, Loop(w) \/ SpuriousWake(w)
      PROVE  HandsFull'
  <2>1. pc \in [Worker -> PCs] /\ run \in [Worker -> Job \cup {None}]
    BY DEF TypeOK
  <2>2. ASSUME NEW p, NEW j,
               pc' = [pc EXCEPT ![w] = p], run' = [run EXCEPT ![w] = j],
               j # None <=> p \in {"recv", "tmo", "post", "stop"}
        PROVE  HandsFull'
    BY <2>1, <2>2 DEF HandsFull
  <2>3. ASSUME NEW p, pc' = [pc EXCEPT ![w] = p], run' = run,
               p \in {"recv", "tmo", "post", "stop"}
                 <=> pc[w] \in {"recv", "tmo", "post", "stop"}
        PROVE  HandsFull'
    BY <2>1, <2>3 DEF HandsFull
  <2>4. CASE EnterLoop(w) \/ LeaveLoop(w) \/ AwaitJob(w) \/ SpuriousWake(w) \/ Rewake(w)
    BY <2>3, <2>4 DEF EnterLoop, LeaveLoop, AwaitJob, SpuriousWake, Rewake
  <2>5. CASE RecvDone(w) \/ TimeoutRecvDone(w)
    BY <2>3, <2>5 DEF RecvDone, TimeoutRecvDone
  <2>6. CASE TakeJob(w)
    <3>1. Head(fifo) # None
      BY <1>0, <2>6, PopFacts DEF TakeJob, TypeOK
    <3>2. /\ pc' = [pc EXCEPT ![w] = "recv"] \/ pc' = [pc EXCEPT ![w] = "stop"]
          /\ run' = [run EXCEPT ![w] = Head(fifo)]
      BY <2>6 DEF TakeJob, CallStop
    <3> QED
      BY <2>2, <3>1, <3>2
  <2>7. CASE Requeue(w)
    <3>1. run[w] # None
      BY <2>7 DEF Requeue, HandsFull
    <3>2. \/ pc' = [pc EXCEPT ![w] = "stop"] /\ run' = [run EXCEPT ![w] = run[w]]
          \/ pc' = [pc EXCEPT ![w] = "top"] /\ run' = [run EXCEPT ![w] = None]
      BY <2>7 DEF Requeue, CallStop
    <3> QED
      BY <2>2, <3>1, <3>2
  <2>8. CASE StopDone(w)
    BY <2>2, <2>8 DEF StopDone
  <2> QED
    BY <1>4, <2>4, <2>5, <2>6, <2>7, <2>8 DEF Loop
<1> QED
  BY <1>2, <1>3, <1>4 DEF Next

(* Every variable keeps its type, for every number of jobs and workers.    *)
THEOREM TypeCorrect == Spec => [](TypeOK /\ HandsFull)
<1>1. Init => TypeOK /\ HandsFull
  <2>1. Init => HandsFull
    BY DEF Init, HandsFull
  <2> QED
    BY <2>1, InitType
<1>2. TypeOK /\ HandsFull /\ [Next]_vars => (TypeOK /\ HandsFull)'
  <2> SUFFICES ASSUME TypeOK, HandsFull, [Next]_vars
               PROVE  (TypeOK /\ HandsFull)'
    OBVIOUS
  <2>1. CASE Next
    BY <2>1, ApiType, LoopType, ResetType, HandsFullStep DEF Next
  <2>2. CASE UNCHANGED vars
    BY <2>2 DEF vars, TypeOK, HandsFull
  <2> QED
    BY <2>1, <2>2
<1> QED
  BY <1>1, <1>2, PTL DEF Spec

-----------------------------------------------------------------------------
(* Where a job can be. *)
LEMMA PushJobFacts ==
  ASSUME TypeOK, NEW j \in Job, PushJob(j)
  PROVE  /\ Elements(fifo') = Elements(fifo) \cup {j}
         /\ NoRepeat(fifo) /\ j \notin Elements(fifo) => NoRepeat(fifo')
BY PushFacts DEF TypeOK, PushJob

LEMMA PlaceInit == Init => PlaceInv
<1> SUFFICES ASSUME Init PROVE PlaceInv
  OBVIOUS
<1>1. Elements(fifo) = {} /\ NoRepeat(fifo)
  BY DEF Init, Elements, NoRepeat
<1> QED
  BY <1>1 DEF Init, PlaceInv, NoDangling, OnePlace, Exclusive, NoneLost, Held,
              InFifo, Asleep, ClosedIffUnlisted, ResetAlone, StopsUnlisted

LEMMA BeginCreatePlace ==
  ASSUME TypeOK, HandsFull, PlaceInv, NEW j \in Job, BeginCreate(j)
  PROVE  PlaceInv'
<1>1. /\ j \notin live /\ j \notin Elements(fifo) /\ j \notin starting /\ rjob # j
      /\ \A w \in Worker : run[w] # j
  BY RunQAssumption DEF RunQAssumption, BeginCreate, PlaceInv, NoDangling
<1>2. /\ fifo' = fifo /\ run' = run /\ rjob' = rjob /\ starting' = starting \cup {j}
      /\ live' = live \cup {j} /\ table' = table \cup {j} /\ pc' = pc
      /\ born' = born \cup {j} /\ stopped' = stopped /\ resetting' = resetting
  BY DEF BeginCreate, ctlVars, loopVars
<1>3. color'[j] = "INIT" /\ \A k \in Job : k # j => color'[k] = color[k]
  BY DEF BeginCreate, TypeOK
<1>4. live \subseteq Job
  BY DEF TypeOK
<1>5. (live \subseteq born /\ NoDangling /\ ResetAlone /\ StopsUnlisted)'
  BY <1>1, <1>2 DEF PlaceInv, NoDangling, ResetAlone, StopsUnlisted
<1>6. Exclusive'
  BY <1>1, <1>2, <1>3, <1>4 DEF PlaceInv, OnePlace, Exclusive, Held, InFifo, Asleep
<1>7. NoneLost'
  BY <1>1, <1>2, <1>3, <1>4 DEF PlaceInv, OnePlace, NoneLost, Held, InFifo, Asleep
<1>8. ClosedIffUnlisted'
  BY <1>1, <1>2, <1>3, <1>4 DEF PlaceInv, ClosedIffUnlisted
<1> QED
  BY <1>5, <1>6, <1>7, <1>8 DEF PlaceInv, OnePlace

LEMMA StartFailedPlace ==
  ASSUME TypeOK, PlaceInv, NEW j \in Job, StartFailed(j)
  PROVE  PlaceInv'
<1>1. j \in starting /\ j \in live /\ None \notin Job
  BY RunQAssumption DEF RunQAssumption, StartFailed, PlaceInv, NoDangling
<1>2. j \notin Elements(fifo) /\ rjob # j /\ \A w \in Worker : run[w] # j
  BY <1>1 DEF PlaceInv, OnePlace, Exclusive, Held, InFifo
<1>3. /\ fifo' = fifo /\ run' = run /\ rjob' = rjob /\ starting' = starting \ {j}
      /\ live' = live \ {j} /\ table' = table \ {j} /\ pc' = pc /\ color' = color
      /\ born' = born /\ stopped' = stopped /\ resetting' = resetting
  BY DEF StartFailed, Unlist, ctlVars, loopVars
<1>4. (live \subseteq born /\ NoDangling /\ ResetAlone /\ StopsUnlisted)'
  BY <1>1, <1>2, <1>3 DEF PlaceInv, NoDangling, ResetAlone, StopsUnlisted
<1>5. Exclusive'
  BY <1>2, <1>3 DEF PlaceInv, OnePlace, Exclusive, Held, InFifo, Asleep
<1>6. NoneLost'
  BY <1>2, <1>3 DEF PlaceInv, OnePlace, NoneLost, Held, InFifo, Asleep
<1>7. ClosedIffUnlisted'
  BY <1>2, <1>3 DEF PlaceInv, ClosedIffUnlisted
<1> QED
  BY <1>4, <1>5, <1>6, <1>7 DEF PlaceInv, OnePlace

LEMMA StartDonePlace ==
  ASSUME TypeOK, PlaceInv, NEW j \in Job, StartDone(j)
  PROVE  PlaceInv'
<1>1. j \in starting /\ j \in live /\ None \notin Job /\ live \subseteq Job
  BY RunQAssumption DEF RunQAssumption, StartDone, PlaceInv, NoDangling, TypeOK
<1>2. j \notin Elements(fifo) /\ rjob # j /\ \A w \in Worker : run[w] # j
  BY <1>1 DEF PlaceInv, OnePlace, Exclusive, Held, InFifo
<1>3. color[j] # "SLEEP"
  BY <1>1 DEF PlaceInv, OnePlace, Exclusive, Asleep
<1>4. /\ run' = run /\ rjob' = rjob /\ starting' = starting \ {j} /\ live' = live
      /\ table' = table /\ pc' = pc /\ born' = born /\ stopped' = stopped
      /\ resetting' = resetting
  BY DEF StartDone, ctlVars, loopVars
<1>5. \A k \in Job : k # j => color'[k] = color[k]
  BY DEF StartDone, TypeOK
<1>6. \/ /\ Elements(fifo') = Elements(fifo) \cup {j}
         /\ NoRepeat(fifo) => NoRepeat(fifo')
         /\ color'[j] # "SLEEP" /\ (color'[j] = "CLOSED" <=> color[j] = "CLOSED")
      \/ /\ fifo' = fifo /\ color'[j] = "SLEEP" /\ color[j] # "CLOSED"
  <2>1. CASE MustRun(j)
    BY <1>2, <1>3, <2>1, PushJobFacts DEF StartDone, StartedColor, TypeOK
  <2>2. CASE ~MustRun(j)
    BY <2>2 DEF StartDone, MustRun, TypeOK
  <2> QED
    BY <2>1, <2>2
<1>7. (live \subseteq born /\ NoDangling /\ ResetAlone /\ StopsUnlisted)'
  BY <1>1, <1>4, <1>6 DEF PlaceInv, NoDangling, ResetAlone, StopsUnlisted
<1>8. Exclusive'
  BY <1>1, <1>2, <1>4, <1>5, <1>6 DEF PlaceInv, OnePlace, Exclusive, Held, InFifo, Asleep
<1>9. NoneLost'
  BY <1>1, <1>2, <1>4, <1>5, <1>6 DEF PlaceInv, OnePlace, NoneLost, Held, InFifo, Asleep
<1>10. ClosedIffUnlisted'
  BY <1>1, <1>2, <1>4, <1>5, <1>6 DEF PlaceInv, ClosedIffUnlisted
<1> QED
  BY <1>7, <1>8, <1>9, <1>10 DEF PlaceInv, OnePlace

(* A listed job is given a color that is neither SLEEP nor CLOSED, and is  *)
(* pushed if it was asleep.                                                *)
LEMMA RousePlace ==
  ASSUME TypeOK, PlaceInv, NEW j \in table, NEW c \in {"STANDBY", "TIMEOUT"},
         \/ Rouse(j, c)
         \/ /\ color[j] # "SLEEP" /\ color' = [color EXCEPT ![j] = c]
            /\ UNCHANGED <<fifo, pc, quiet>>,
         UNCHANGED <<table, live, born, starting, proxy, stopped, resetting,
                     rjob, run>>
  PROVE  PlaceInv'
<1>1. j \in live /\ j \in Job /\ live \subseteq Job /\ None \notin Job /\ rjob # j
  BY RunQAssumption DEF RunQAssumption, PlaceInv, NoDangling, TypeOK, ResetAlone
<1>2. color[j] # "CLOSED"
  BY <1>1 DEF PlaceInv, ClosedIffUnlisted
<1>3. color[j] = "SLEEP" =>
        /\ j \notin Elements(fifo) /\ j \notin starting /\ \A w \in Worker : run[w] # j
  BY <1>1 DEF PlaceInv, OnePlace, Exclusive, Held, InFifo, Asleep
<1>4. \A k \in Job : k # j => color'[k] = color[k]
  BY DEF TypeOK, Rouse
<1>5. /\ resetting => \A w \in Worker : pc'[w] = "out"
      /\ \A w \in Worker : pc'[w] = "stop" => pc[w] = "stop"
  BY NotifyFacts DEF PlaceInv, ResetAlone, Rouse
<1>6. \/ /\ color[j] = "SLEEP"
         /\ Elements(fifo') = Elements(fifo) \cup {j}
         /\ NoRepeat(fifo) => NoRepeat(fifo')
         /\ color'[j] \notin {"SLEEP", "CLOSED"}
      \/ /\ color[j] # "SLEEP" /\ fifo' = fifo /\ color'[j] \notin {"SLEEP", "CLOSED"}
  <2>1. CASE color[j] = "SLEEP"
    BY <1>1, <1>3, <2>1, PushJobFacts DEF Rouse, TypeOK
  <2>2. CASE color[j] # "SLEEP"
    BY <1>1, <1>2, <2>2 DEF Rouse, TypeOK
  <2> QED
    BY <2>1, <2>2
<1>7. (live \subseteq born /\ NoDangling /\ ResetAlone /\ StopsUnlisted)'
  BY <1>1, <1>5, <1>6 DEF PlaceInv, NoDangling, ResetAlone, StopsUnlisted
<1>8. Exclusive'
  BY <1>1, <1>3, <1>4, <1>6 DEF PlaceInv, OnePlace, Exclusive, Held, InFifo, Asleep
<1>9. NoneLost'
  BY <1>1, <1>3, <1>4, <1>6 DEF PlaceInv, OnePlace, NoneLost, Held, InFifo, Asleep
<1>10. ClosedIffUnlisted'
  BY <1>1, <1>2, <1>4, <1>6 DEF PlaceInv, ClosedIffUnlisted
<1> QED
  BY <1>7, <1>8, <1>9, <1>10 DEF PlaceInv, OnePlace

LEMMA CloseJobPlace ==
  ASSUME TypeOK, PlaceInv, NEW j \in Job, CloseJob(j)
  PROVE  PlaceInv'
<1>1. j \in table /\ j \in live /\ live \subseteq Job /\ None \notin Job /\ rjob # j
  BY RunQAssumption DEF RunQAssumption, CloseJob, PlaceInv, NoDangling, TypeOK, ResetAlone
<1>2. /\ run' = run /\ rjob' = rjob /\ starting' = starting /\ live' = live
      /\ table' = table \ {j} /\ born' = born /\ stopped' = stopped
      /\ resetting' = resetting
  BY DEF CloseJob, Unlist, ctlVars
<1>3. color[j] = "SLEEP" =>
        /\ j \notin Elements(fifo) /\ j \notin starting /\ \A w \in Worker : run[w] # j
  BY <1>1 DEF PlaceInv, OnePlace, Exclusive, Held, InFifo, Asleep
<1>4. color'[j] = "CLOSED" /\ \A k \in Job : k # j => color'[k] = color[k]
  BY DEF CloseJob, TypeOK
<1>5. /\ resetting => \A w \in Worker : pc'[w] = "out"
      /\ \A w \in Worker : pc'[w] = "stop" => pc[w] = "stop"
  BY NotifyFacts DEF PlaceInv, ResetAlone, CloseJob
<1>6. \/ /\ color[j] = "SLEEP"
         /\ Elements(fifo') = Elements(fifo) \cup {j}
         /\ NoRepeat(fifo) => NoRepeat(fifo')
      \/ color[j] # "SLEEP" /\ fifo' = fifo
  BY <1>3, PushJobFacts DEF CloseJob, PushIfAsleep
<1>7. (live \subseteq born /\ NoDangling /\ ResetAlone /\ StopsUnlisted)'
  BY <1>1, <1>2, <1>5, <1>6 DEF PlaceInv, NoDangling, ResetAlone, StopsUnlisted
<1>8. Exclusive'
  BY <1>1, <1>2, <1>3, <1>4, <1>6 DEF PlaceInv, OnePlace, Exclusive, Held, InFifo, Asleep
<1>9. NoneLost'
  BY <1>1, <1>2, <1>3, <1>4, <1>6 DEF PlaceInv, OnePlace, NoneLost, Held, InFifo, Asleep
<1>10. ClosedIffUnlisted'
  BY <1>1, <1>2, <1>4 DEF PlaceInv, ClosedIffUnlisted
<1> QED
  BY <1>7, <1>8, <1>9, <1>10 DEF PlaceInv, OnePlace

(* A step that only moves workers, and none of them to "stop", is harmless. *)
LEMMA MovePlace ==
  ASSUME PlaceInv,
         UNCHANGED <<table, live, born, starting, color, fifo, resetting, rjob, run>>,
         stopped => stopped',
         resetting => \A w \in Worker : pc'[w] = "out",
         \A w \in Worker : pc'[w] = "stop" => pc[w] = "stop"
  PROVE  PlaceInv'
<1>1. (live \subseteq born /\ NoDangling /\ ResetAlone /\ StopsUnlisted)'
  BY DEF PlaceInv, NoDangling, ResetAlone, StopsUnlisted
<1>2. Exclusive' /\ NoneLost'
  BY DEF PlaceInv, OnePlace, Exclusive, NoneLost, Held, InFifo, Asleep
<1>3. ClosedIffUnlisted'
  BY DEF PlaceInv, ClosedIffUnlisted
<1> QED
  BY <1>1, <1>2, <1>3 DEF PlaceInv, OnePlace

LEMMA ApiPlace ==
  ASSUME TypeOK, HandsFull, PlaceInv, Api
  PROVE  PlaceInv'
<1>1. ASSUME NEW j \in Job, Post(j) PROVE PlaceInv'
  BY <1>1, RousePlace DEF Post, ctlVars
<1>2. ASSUME NEW j \in Job, JobTimeout(j) PROVE PlaceInv'
  BY <1>2, RousePlace DEF JobTimeout, ctlVars
<1>3. ASSUME NEW j \in Job, CreateProxyJob(j) PROVE PlaceInv'
  <2>1. resetting => \A w \in Worker : pc'[w] = "out"
    BY <1>3 DEF CreateProxyJob, loopVars, PlaceInv, ResetAlone
  <2> QED
    BY <1>3, <2>1, MovePlace DEF CreateProxyJob, jobVars, loopVars
<1>4. ASSUME SendRemote PROVE PlaceInv'
  BY <1>1, <1>4 DEF SendRemote, TypeOK
<1>5. ASSUME RunQStop PROVE PlaceInv'
  <2>1. NotifyAll
    BY <1>5 DEF RunQStop
  <2>2. /\ resetting => \A w \in Worker : pc'[w] = "out"
        /\ \A w \in Worker : pc'[w] = "stop" => pc[w] = "stop"
    BY <2>1, NotifyFacts DEF PlaceInv, ResetAlone
  <2> QED
    BY <1>5, <2>2, MovePlace DEF RunQStop, jobVars
<1> QED
  BY <1>1, <1>2, <1>3, <1>4, <1>5, BeginCreatePlace, StartFailedPlace,
     StartDonePlace, CloseJobPlace DEF Api, Send

-----------------------------------------------------------------------------
(* A worker outside "out" shows that no reset is going on. *)
LEMMA TakeJobPlace ==
  ASSUME TypeOK, HandsFull, PlaceInv, NEW w \in Worker, TakeJob(w)
  PROVE  PlaceInv'
<1> DEFINE j == Head(fifo)
<1>1. /\ j \in Job /\ j \in Elements(fifo) /\ j \in live
      /\ Elements(fifo') \subseteq Elements(fifo)
      /\ Elements(fifo) \subseteq Elements(fifo') \cup {j}
      /\ NoRepeat(fifo) => NoRepeat(fifo') /\ j \notin Elements(fifo')
  BY PopFacts DEF TakeJob, TypeOK, PlaceInv, NoDangling
<1>2. /\ table' = table /\ live' = live /\ born' = born /\ starting' = starting
      /\ color' = color /\ rjob' = rjob /\ stopped' = stopped
      /\ resetting' = resetting
  BY DEF TakeJob, ctlVars
<1>3. run[w] = None /\ pc[w] = "top" /\ ~resetting /\ None \notin live
  BY RunQAssumption
     DEF RunQAssumption, TakeJob, HandsFull, TypeOK, PlaceInv, ResetAlone
<1>4. /\ j \notin starting /\ rjob # j /\ color[j] # "SLEEP"
      /\ \A v \in Worker : run[v] # j
  BY <1>1 DEF PlaceInv, OnePlace, Exclusive, InFifo, Held, Asleep
<1>5. /\ run'[w] = j /\ \A v \in Worker : v # w => run'[v] = run[v] /\ pc'[v] = pc[v]
      /\ pc'[w] = "stop" => IsClosed(j)
  BY DEF TakeJob, CallStop, TypeOK
<1>6. j # None /\ (IsClosed(j) => j \notin table)
  BY <1>1, <1>4, RunQAssumption
     DEF RunQAssumption, PlaceInv, ClosedIffUnlisted, IsClosed
<1> HIDE DEF j
<1>7. (live \subseteq born /\ NoDangling /\ ResetAlone /\ StopsUnlisted)'
  BY <1>1, <1>2, <1>3, <1>5, <1>6 DEF PlaceInv, NoDangling, ResetAlone, StopsUnlisted
<1>8. Exclusive'
  <2>1. \A u, v \in Worker : run'[u] = run'[v] /\ run'[u] # None => u = v
    BY <1>3, <1>4, <1>5 DEF PlaceInv, OnePlace, Exclusive
  <2>2. NoRepeat(fifo') /\ j \notin Elements(fifo')
    BY <1>1 DEF PlaceInv, OnePlace, Exclusive
  <2>3. ASSUME NEW k \in live, k # j
        PROVE  /\ Held(k)' => Held(k)
               /\ InFifo(k)' => InFifo(k)
               /\ Asleep(k)' => Asleep(k)
    BY <1>1, <1>2, <1>5, <2>3 DEF Held, InFifo, Asleep
  <2>4. ASSUME NEW k \in live, k = j
        PROVE  ~InFifo(k)' /\ ~Asleep(k)' /\ k \notin starting' /\ rjob' # k
    BY <1>2, <1>4, <2>2, <2>4 DEF InFifo, Asleep
  <2> QED
    BY <1>2, <2>1, <2>2, <2>3, <2>4 DEF PlaceInv, OnePlace, Exclusive
<1>9. NoneLost'
  BY <1>1, <1>2, <1>3, <1>4, <1>5 DEF PlaceInv, OnePlace, NoneLost, Held, InFifo, Asleep
<1>10. ClosedIffUnlisted'
  BY <1>2 DEF PlaceInv, ClosedIffUnlisted
<1> QED
  BY <1>7, <1>8, <1>9, <1>10 DEF PlaceInv, OnePlace

LEMMA RequeuePlace ==
  ASSUME TypeOK, HandsFull, PlaceInv, NEW w \in Worker, Requeue(w)
  PROVE  PlaceInv'
<1> DEFINE j == run[w]
<1>1. /\ j # None /\ j \in Job /\ j \in live /\ pc[w] = "post" /\ ~resetting
      /\ live \subseteq Job /\ None \notin Job
  BY RunQAssumption
     DEF RunQAssumption, Requeue, HandsFull, TypeOK, PlaceInv, NoDangling, ResetAlone
<1>2. /\ table' = table /\ live' = live /\ born' = born /\ starting' = starting
      /\ rjob' = rjob /\ stopped' = stopped /\ resetting' = resetting
  BY DEF Requeue, ctlVars
<1>3. /\ j \notin Elements(fifo) /\ j \notin starting /\ rjob # j
      /\ color[j] # "SLEEP" /\ \A v \in Worker : v # w => run[v] # j
  BY <1>1 DEF PlaceInv, OnePlace, Exclusive, InFifo, Held, Asleep
<1>4. IsClosed(j) <=> j \notin table
  BY <1>1, <1>3 DEF PlaceInv, ClosedIffUnlisted, IsClosed
<1>5. CASE IsClosed(j)
  <2>1. /\ color' = color /\ fifo' = fifo /\ run' = run
        /\ \A v \in Worker : v # w => pc'[v] = pc[v]
    BY <1>5 DEF Requeue, CallStop, TypeOK
  <2>2. (live \subseteq born /\ NoDangling /\ ResetAlone /\ StopsUnlisted)'
    BY <1>1, <1>2, <1>4, <1>5, <2>1
       DEF PlaceInv, NoDangling, ResetAlone, StopsUnlisted
  <2>3. Exclusive' /\ NoneLost'
    BY <1>2, <2>1 DEF PlaceInv, OnePlace, Exclusive, NoneLost, Held, InFifo, Asleep
  <2>4. ClosedIffUnlisted'
    BY <1>2, <2>1 DEF PlaceInv, ClosedIffUnlisted
  <2> QED
    BY <2>2, <2>3, <2>4 DEF PlaceInv, OnePlace
<1>6. CASE ~IsClosed(j)
  <2>1. /\ run'[w] = None /\ pc'[w] = "top"
        /\ \A v \in Worker : v # w => run'[v] = run[v] /\ pc'[v] = pc[v]
        /\ \A k \in Job : k # j => color'[k] = color[k]
    <3>1. /\ pc' = [pc EXCEPT ![w] = "top"] /\ run' = [run EXCEPT ![w] = None]
          /\ color' = [color EXCEPT ![j] = RestColor(j)]
      BY <1>6 DEF Requeue
    <3> QED
      BY <3>1 DEF TypeOK
  <2>2. \/ /\ Elements(fifo') = Elements(fifo) \cup {j}
           /\ NoRepeat(fifo) => NoRepeat(fifo')
           /\ color'[j] = "STANDBY"
        \/ /\ fifo' = fifo /\ color'[j] = "SLEEP"
    <3>1. CASE queue[j] = <<>>
      BY <1>1, <1>6, <3>1 DEF Requeue, RestColor, TypeOK
    <3>2. CASE queue[j] # <<>>
      BY <1>1, <1>3, <1>6, <3>2, PushJobFacts DEF Requeue, RestColor, TypeOK
    <3> QED
      BY <3>1, <3>2
  <2> HIDE DEF j
  <2>3. (live \subseteq born /\ NoDangling /\ ResetAlone /\ StopsUnlisted)'
    BY <1>1, <1>2, <2>1, <2>2 DEF PlaceInv, NoDangling, ResetAlone, StopsUnlisted
  <2>4. Exclusive'
    BY <1>1, <1>2, <1>3, <2>1, <2>2
       DEF PlaceInv, OnePlace, Exclusive, Held, InFifo, Asleep
  <2>5. NoneLost'
    <3>1. run[w] = j
      BY DEF j
    <3>2. ASSUME NEW k \in live', k # j
          PROVE  (Held(k) \/ InFifo(k) \/ k \in starting \/ rjob = k \/ Asleep(k))'
      BY <1>1, <1>2, <2>1, <2>2, <3>1, <3>2
         DEF PlaceInv, OnePlace, NoneLost, Held, InFifo, Asleep
    <3>3. ASSUME NEW k \in live', k = j
          PROVE  (InFifo(k) \/ Asleep(k))'
      BY <1>1, <2>2, <3>3 DEF InFifo, Asleep
    <3> QED
      BY <3>2, <3>3 DEF NoneLost
  <2>6. ClosedIffUnlisted'
    BY <1>1, <1>2, <1>4, <1>6, <2>1, <2>2 DEF PlaceInv, ClosedIffUnlisted
  <2> QED
    BY <2>3, <2>4, <2>5, <2>6 DEF PlaceInv, OnePlace
<1> QED
  BY <1>5, <1>6

LEMMA StopDonePlace ==
  ASSUME TypeOK, HandsFull, PlaceInv, NEW w \in Worker, StopDone(w)
  PROVE  PlaceInv'
<1> DEFINE j == run[w]
<1>1. /\ j # None /\ j \in Job /\ j \in live /\ pc[w] = "stop" /\ ~resetting
      /\ j \notin table /\ None \notin live
  BY RunQAssumption DEF RunQAssumption, StopDone, HandsFull, TypeOK, PlaceInv,
                        NoDangling, ResetAlone, StopsUnlisted
<1>2. /\ table' = table /\ live' = live \ {j} /\ born' = born /\ starting' = starting
      /\ rjob' = rjob /\ stopped' = stopped /\ resetting' = resetting
      /\ color' = color /\ fifo' = fifo
  BY DEF StopDone, ctlVars
<1>3. /\ j \notin Elements(fifo) /\ j \notin starting /\ rjob # j
      /\ \A v \in Worker : v # w => run[v] # j
  BY <1>1 DEF PlaceInv, OnePlace, Exclusive, InFifo, Held, Asleep
<1>4. /\ run'[w] = None /\ pc'[w] = "top" /\ run[w] = j
      /\ \A v \in Worker : v # w => run'[v] = run[v] /\ pc'[v] = pc[v]
  BY DEF StopDone, TypeOK
<1> HIDE DEF j
<1>5. (live \subseteq born /\ NoDangling /\ ResetAlone /\ StopsUnlisted)'
  BY <1>1, <1>2, <1>3, <1>4 DEF PlaceInv, NoDangling, ResetAlone, StopsUnlisted
<1>6. Exclusive'
  <2>1. \A u, v \in Worker : run'[u] = run'[v] /\ run'[u] # None => u = v
    BY <1>4 DEF PlaceInv, OnePlace, Exclusive
  <2>2. ASSUME NEW k \in live'
        PROVE  k \in live /\ (Held(k)' => Held(k))
    BY <1>1, <1>2, <1>4, <2>2 DEF Held, PlaceInv, NoDangling
  <2> QED
    BY <1>2, <2>1, <2>2 DEF PlaceInv, OnePlace, Exclusive, InFifo, Asleep
<1>7. NoneLost'
  BY <1>1, <1>2, <1>3, <1>4 DEF PlaceInv, OnePlace, NoneLost, Held, InFifo, Asleep
<1>8. ClosedIffUnlisted'
  BY <1>2 DEF PlaceInv, ClosedIffUnlisted
<1> QED
  BY <1>5, <1>6, <1>7, <1>8 DEF PlaceInv, OnePlace

LEMMA LoopPlace ==
  ASSUME TypeOK, HandsFull, PlaceInv, NEW w \in Worker, Loop(w) \/ SpuriousWake(w)
  PROVE  PlaceInv'
<1>1. CASE \/ EnterLoop(w) \/ LeaveLoop(w) \/ AwaitJob(w) \/ SpuriousWake(w)
           \/ Rewake(w) \/ RecvDone(w) \/ TimeoutRecvDone(w)
  <2>1. /\ UNCHANGED <<table, live, born, starting, color, fifo, resetting, rjob,
                       run, stopped>>
        /\ \A v \in Worker : v # w => pc'[v] = pc[v]
        /\ pc'[w] # "stop"
    BY <1>1 DEF EnterLoop, LeaveLoop, AwaitJob, SpuriousWake, Rewake, RecvDone,
                TimeoutRecvDone, jobVars, ctlVars, loopVars, TypeOK
  <2>2. ~resetting
    BY <1>1 DEF EnterLoop, LeaveLoop, AwaitJob, SpuriousWake, Rewake, RecvDone,
                TimeoutRecvDone, PlaceInv, ResetAlone
  <2> QED
    BY <2>1, <2>2, MovePlace
<1> QED
  BY <1>1, TakeJobPlace, RequeuePlace, StopDonePlace DEF Loop

-----------------------------------------------------------------------------
LEMMA ResetPlace ==
  ASSUME TypeOK, HandsFull, PlaceInv, Reset
  PROVE  PlaceInv'
<1>0. None \notin Job /\ live \subseteq Job /\ table \subseteq live
  BY RunQAssumption DEF RunQAssumption, TypeOK, PlaceInv, NoDangling
<1>1. CASE BeginReset
  <2>1. /\ UNCHANGED <<table, live, born, starting, color, fifo, rjob, run, pc,
                       stopped>>
        /\ resetting' /\ stopped /\ \A w \in Worker : pc[w] = "out"
    BY <1>1 DEF BeginReset, jobVars, loopVars
  <2>2. (live \subseteq born /\ NoDangling /\ ResetAlone /\ StopsUnlisted)'
    BY <2>1 DEF PlaceInv, NoDangling, ResetAlone, StopsUnlisted
  <2>3. Exclusive' /\ NoneLost'
    BY <2>1 DEF PlaceInv, OnePlace, Exclusive, NoneLost, Held, InFifo, Asleep
  <2>4. ClosedIffUnlisted'
    BY <2>1 DEF PlaceInv, ClosedIffUnlisted
  <2> QED
    BY <2>2, <2>3, <2>4 DEF PlaceInv, OnePlace
<1>2. CASE ResetStop
  <2> DEFINE j == Head(fifo)
  <2>1. /\ j \in Job /\ j \in Elements(fifo) /\ j \in live /\ j # None
        /\ Elements(fifo') \subseteq Elements(fifo)
        /\ Elements(fifo) \subseteq Elements(fifo') \cup {j}
        /\ NoRepeat(fifo) => NoRepeat(fifo') /\ j \notin Elements(fifo')
    BY <1>0, <1>2, PopFacts DEF ResetStop, TypeOK, PlaceInv, NoDangling
  <2>2. /\ table' = table \ {j} /\ live' = live /\ born' = born
        /\ starting' = starting /\ color' = color /\ rjob' = j /\ rjob = None
        /\ stopped' = stopped /\ resetting' = resetting /\ resetting
        /\ run' = run /\ pc' = pc /\ starting = {}
    BY <1>2 DEF ResetStop, Unlist, loopVars
  <2>3. /\ color[j] # "SLEEP" /\ \A v \in Worker : run[v] # j
    BY <2>1 DEF PlaceInv, OnePlace, Exclusive, InFifo, Held, Asleep
  <2> HIDE DEF j
  <2>4. (live \subseteq born /\ NoDangling /\ ResetAlone /\ StopsUnlisted)'
    BY <2>1, <2>2 DEF PlaceInv, NoDangling, ResetAlone, StopsUnlisted
  <2>5. Exclusive'
    BY <2>1, <2>2, <2>3 DEF PlaceInv, OnePlace, Exclusive, Held, InFifo, Asleep
  <2>6. NoneLost'
    BY <1>0, <2>1, <2>2 DEF PlaceInv, OnePlace, NoneLost, Held, InFifo, Asleep
  <2>7. ClosedIffUnlisted'
    BY <1>0, <2>1, <2>2 DEF PlaceInv, ClosedIffUnlisted
  <2> QED
    BY <2>4, <2>5, <2>6, <2>7 DEF PlaceInv, OnePlace
<1>3. CASE ResetFree
  <2>1. /\ table' = table /\ live' = live \ {rjob} /\ born' = born
        /\ starting' = starting /\ color' = color /\ rjob' = None /\ rjob # None
        /\ stopped' = stopped /\ resetting' = resetting /\ fifo' = fifo
        /\ run' = run /\ pc' = pc /\ starting = {}
    BY <1>3 DEF ResetFree, loopVars
  <2>2. /\ rjob \in live /\ rjob \notin table /\ rjob \notin Elements(fifo)
        /\ \A v \in Worker : run[v] # rjob
    BY <2>1 DEF PlaceInv, NoDangling, ResetAlone, OnePlace, Exclusive, Held, InFifo
  <2>3. (live \subseteq born /\ NoDangling /\ ResetAlone /\ StopsUnlisted)'
    BY <2>1, <2>2 DEF PlaceInv, NoDangling, ResetAlone, StopsUnlisted
  <2>4. Exclusive'
    BY <1>0, <2>1, <2>2 DEF PlaceInv, OnePlace, Exclusive, Held, InFifo, Asleep
  <2>5. NoneLost'
    BY <2>1, <2>2 DEF PlaceInv, OnePlace, NoneLost, Held, InFifo, Asleep
  <2>6. ClosedIffUnlisted'
    BY <2>1, <2>2 DEF PlaceInv, ClosedIffUnlisted
  <2> QED
    BY <2>3, <2>4, <2>5, <2>6 DEF PlaceInv, OnePlace
<1>4. CASE EndReset
  <2>1. /\ table' = {} /\ live' = live \ table /\ born' = born
        /\ starting' = starting /\ color' = color /\ rjob' = rjob /\ rjob = None
        /\ ~resetting' /\ fifo' = fifo /\ fifo = <<>>
        /\ run' = run /\ pc' = pc /\ starting = {} /\ resetting
    BY <1>4 DEF EndReset, loopVars
  <2>2. Elements(fifo) = {} /\ \A w \in Worker : run[w] = None
    BY <2>1 DEF Elements, PlaceInv, ResetAlone, HandsFull
  <2>3. \A j \in live : j \in table
    <3>1. ASSUME NEW j \in live PROVE color[j] = "SLEEP"
      BY <1>0, <2>1, <2>2 DEF PlaceInv, OnePlace, NoneLost, Held, InFifo, Asleep
    <3> QED
      BY <1>0, <2>1, <3>1 DEF PlaceInv, ClosedIffUnlisted
  <2>4. live' = {}
    BY <2>1, <2>3
  <2>5. (live \subseteq born /\ NoDangling /\ ResetAlone /\ StopsUnlisted)'
    BY <2>1, <2>2, <2>4 DEF PlaceInv, NoDangling, ResetAlone, StopsUnlisted
  <2>6. Exclusive'
    BY <2>1, <2>2, <2>4 DEF PlaceInv, OnePlace, Exclusive, Held, InFifo, Asleep
  <2>7. NoneLost' /\ ClosedIffUnlisted'
    BY <2>4 DEF NoneLost, ClosedIffUnlisted
  <2> QED
    BY <2>5, <2>6, <2>7 DEF PlaceInv, OnePlace
<1> QED
  BY <1>1, <1>2, <1>3, <1>4 DEF Reset

LEMMA PlaceInvariant == Spec => []PlaceInv
<1>1. TypeOK /\ HandsFull /\ PlaceInv /\ [Next]_vars => PlaceInv'
  <2> SUFFICES ASSUME TypeOK, HandsFull, PlaceInv, [Next]_vars
               PROVE  PlaceInv'
    OBVIOUS
  <2>1. CASE Next
    BY <2>1, ApiPlace, LoopPlace, ResetPlace DEF Next
  <2>2. CASE UNCHANGED vars
    <3>1. resetting => \A w \in Worker : pc'[w] = "out"
      BY <2>2 DEF vars, PlaceInv, ResetAlone
    <3> QED
      BY <2>2, <3>1, MovePlace DEF vars
  <2> QED
    BY <2>1, <2>2
<1> QED
  BY <1>1, PlaceInit, TypeCorrect, PTL DEF Spec

(* For every number of jobs and workers: no freed job is referred to, each *)
(* live job is in exactly one place, so that no two of its callbacks       *)
(* overlap and it is never lost, and a job is CLOSED exactly when it is    *)
(* out of the table, whatever API calls, ticks, workers and resets         *)
(* interleave.                                                             *)
THEOREM Placement == Spec => []WellPlaced
<1>1. PlaceInv => WellPlaced
  BY DEF PlaceInv, WellPlaced
<1> QED
  BY <1>1, PlaceInvariant, PTL

-----------------------------------------------------------------------------
(* Nothing has happened to a job that LemonCreateJob has not allocated.    *)
Untouched == \A j \in Job : j \notin born =>
  queue[j] = <<>> /\ sent[j] = 0 /\ got[j] = 0 /\ stops[j] = 0

(* The inductive invariant behind MailKept, CallbacksOwed and NoLostWakeup. *)
JobInv == Untouched /\ MailKept /\ CallbacksOwed /\ NoLostWakeup

(* A FIFO that holds the messages after the n-th, up to the s-th.           *)
HoldsFrom(q, n, s) == /\ n + Len(q) = s
                      /\ \A i \in 1..Len(q) : q[i] = n + i

LEMMA AppendHolds ==
  ASSUME NEW q \in Seq(Nat), NEW n \in Nat, NEW s \in Nat, HoldsFrom(q, n, s)
  PROVE  /\ HoldsFrom(Append(q, s + 1), n, s + 1)
         /\ Append(q, s + 1) # <<>>
<1>1. /\ Len(Append(q, s + 1)) = Len(q) + 1 /\ Len(q) \in Nat
      /\ \A i \in 1..Len(q) : Append(q, s + 1)[i] = q[i]
      /\ Append(q, s + 1)[Len(q) + 1] = s + 1
  OBVIOUS
<1>2. \A i \in 1..(Len(q) + 1) : i \in 1..Len(q) \/ i = Len(q) + 1
  BY <1>1
<1>3. n + (Len(q) + 1) = s + 1
  <2>1. n + Len(q) = s /\ Len(q) \in Nat
    BY <1>1 DEF HoldsFrom
  <2> QED
    BY <2>1
<1>4. \A i \in 1..(Len(q) + 1) : Append(q, s + 1)[i] = n + i
  BY <1>1, <1>2, <1>3 DEF HoldsFrom
<1>5. Append(q, s + 1) # <<>>
  BY <1>1
<1> QED
  BY <1>1, <1>3, <1>4, <1>5 DEF HoldsFrom

LEMMA TailHolds ==
  ASSUME NEW q \in Seq(Nat), NEW n \in Nat, NEW s \in Nat, HoldsFrom(q, n, s),
         q # <<>>
  PROVE  HoldsFrom(Tail(q), n + 1, s) /\ Head(q) = n + 1
<1>1. /\ Len(Tail(q)) = Len(q) - 1 /\ Len(q) \in Nat /\ Len(q) >= 1
      /\ \A i \in 1..Len(Tail(q)) : Tail(q)[i] = q[i + 1] /\ i + 1 \in 1..Len(q)
      /\ Head(q) = q[1]
  OBVIOUS
<1> QED
  BY <1>1 DEF HoldsFrom

LEMMA JobInit == Init => JobInv
<1> SUFFICES ASSUME Init PROVE JobInv
  OBVIOUS
<1>1. Untouched /\ MailKept
  BY DEF Init, Untouched, MailKept, SleepersHaveNoMail, MailInOrder
<1>2. NoPhantomTimeout
  <2> SUFFICES ASSUME NEW j \in Job
               PROVE  IF Ticked(j) THEN tocks[j] < ticks[j] ELSE tocks[j] <= ticks[j]
    BY DEF NoPhantomTimeout
  <2>1. ~Ticked(j)
    BY DEF Init, Ticked
  <2>2. tocks[j] <= ticks[j]
    BY DEF Init
  <2> QED
    BY <2>1, <2>2
<1>3. StopOnce /\ NoLostWakeup
  BY DEF Init, StopOnce, NoLostWakeup
<1> QED
  BY <1>1, <1>2, <1>3 DEF JobInv, CallbacksOwed

-----------------------------------------------------------------------------
(* Only messages, callbacks and LemonCreateJob touch what Untouched names.  *)
LEMMA UntouchedStep ==
  ASSUME TypeOK, HandsFull, PlaceInv, Untouched, Next
  PROVE  Untouched'
<1>0. table \subseteq live /\ live \subseteq born /\ Elements(fifo) \subseteq live
      /\ \A w \in Worker : run[w] # None => run[w] \in live
  BY DEF PlaceInv, NoDangling
<1>1. ASSUME born \subseteq born',
             \A j \in Job : j \notin born =>
               /\ queue'[j] = queue[j] \/ queue'[j] = <<>>
               /\ sent'[j] = sent[j] /\ got'[j] = got[j] /\ stops'[j] = stops[j]
      PROVE  Untouched'
  BY <1>1 DEF Untouched
<1>2. ASSUME NEW j \in Job, Post(j) PROVE Untouched'
  BY <1>0, <1>1, <1>2 DEF Post, PushMessage, TypeOK, ctlVars
<1>3. CASE Api
  <2>1. ASSUME NEW j \in Job, BeginCreate(j) \/ JobTimeout(j) \/ CloseJob(j)
                              \/ CreateProxyJob(j) \/ StartDone(j)
        PROVE  Untouched'
    BY <1>1, <2>1 DEF BeginCreate, JobTimeout, CloseJob, CreateProxyJob, StartDone,
                      histVars, jobVars
  <2>2. ASSUME NEW j \in Job, StartFailed(j) PROVE Untouched'
    BY <1>1, <2>2 DEF StartFailed, DropMessages, histVars
  <2>3. CASE RunQStop
    BY <1>1, <2>3 DEF RunQStop, jobVars, histVars
  <2>4. CASE SendRemote
    BY <1>2, <2>4 DEF SendRemote, TypeOK
  <2> QED
    BY <1>2, <1>3, <2>1, <2>2, <2>3, <2>4 DEF Api, Send
<1>4. ASSUME NEW w \in Worker, Loop(w) \/ SpuriousWake(w) PROVE Untouched'
  <2>1. CASE \/ EnterLoop(w) \/ LeaveLoop(w) \/ AwaitJob(w) \/ SpuriousWake(w)
             \/ Rewake(w) \/ RecvDone(w) \/ TimeoutRecvDone(w)
    BY <1>1, <2>1 DEF EnterLoop, LeaveLoop, AwaitJob, SpuriousWake, Rewake,
                      RecvDone, TimeoutRecvDone, jobVars, histVars
  <2>2. CASE TakeJob(w)
    <3>1. Head(fifo) \in born /\ Head(fifo) \in Job
      BY <1>0, <2>2, PopFacts DEF TakeJob, TypeOK
    <3>2. /\ \/ UNCHANGED stops
             \/ stops' = [stops EXCEPT ![Head(fifo)] = @ + 1]
          /\ \/ UNCHANGED <<queue, got>>
             \/ /\ queue' = [queue EXCEPT ![Head(fifo)] = Tail(@)]
                /\ got' = [got EXCEPT ![Head(fifo)] = @ + 1]
          /\ UNCHANGED <<born, sent>>
      BY <2>2 DEF TakeJob, CallStop
    <3>3. \A j \in Job : j # Head(fifo) =>
            queue'[j] = queue[j] /\ got'[j] = got[j] /\ stops'[j] = stops[j]
      BY <3>1, <3>2 DEF TypeOK
    <3> QED
      BY <1>1, <3>1, <3>2, <3>3
  <2>3. CASE Requeue(w)
    <3>1. run[w] \in born /\ run[w] \in Job
      BY <1>0, <2>3 DEF Requeue, HandsFull, TypeOK
    <3>2. /\ UNCHANGED stops \/ stops' = [stops EXCEPT ![run[w]] = @ + 1]
          /\ UNCHANGED <<born, queue, sent, got>>
      BY <2>3 DEF Requeue, CallStop
    <3> QED
      BY <1>1, <3>1, <3>2 DEF TypeOK
  <2>4. CASE StopDone(w)
    BY <1>1, <2>4 DEF StopDone, DropMessages, histVars
  <2> QED
    BY <1>4, <2>1, <2>2, <2>3, <2>4 DEF Loop
<1>5. CASE Reset
  <2>1. CASE BeginReset
    BY <1>1, <2>1 DEF BeginReset, jobVars, histVars
  <2>2. CASE ResetStop
    <3>1. Head(fifo) \in born /\ Head(fifo) \in Job
      BY <1>0, <2>2, PopFacts DEF ResetStop, TypeOK
    <3> QED
      BY <1>1, <2>2, <3>1 DEF ResetStop, TypeOK
  <2>3. CASE ResetFree
    BY <1>1, <2>3 DEF ResetFree, DropMessages, histVars
  <2>4. CASE EndReset
    BY <1>1, <2>4 DEF EndReset, DropMessages, histVars
  <2> QED
    BY <1>5, <2>1, <2>2, <2>3, <2>4 DEF Reset
<1> QED
  BY <1>3, <1>4, <1>5 DEF Next

-----------------------------------------------------------------------------
(* A step that accepts and delivers no message, and puts no job with mail   *)
(* to sleep.                                                                *)
LEMMA MailFrame ==
  ASSUME MailKept, live' \subseteq live, UNCHANGED <<sent, got>>,
         \A j \in live' : queue'[j] = queue[j],
         \A j \in live' : color'[j] = "SLEEP" => color[j] = "SLEEP" \/ queue[j] = <<>>
  PROVE  MailKept'
BY DEF MailKept, SleepersHaveNoMail, MailInOrder, Asleep

LEMMA PostMail ==
  ASSUME TypeOK, PlaceInv, MailKept, NEW j \in Job, Post(j)
  PROVE  MailKept'
<1>1. /\ j \in live /\ live' = live /\ live \subseteq Job /\ UNCHANGED got
      /\ queue' = [queue EXCEPT ![j] = Append(@, sent[j] + 1)]
      /\ sent' = [sent EXCEPT ![j] = @ + 1]
  BY DEF Post, PushMessage, PlaceInv, NoDangling, TypeOK
<1>2. /\ color'[j] # "SLEEP" /\ \A k \in Job : k # j => color'[k] = color[k]
  BY DEF Post, Rouse, TypeOK
<1>3. queue[j] \in Seq(Nat) /\ sent[j] \in Nat /\ got[j] \in Nat
  BY DEF TypeOK
<1>4. HoldsFrom(queue'[j], got[j], sent'[j])
  <2>1. HoldsFrom(queue[j], got[j], sent[j])
    BY <1>1 DEF MailKept, MailInOrder, HoldsFrom
  <2> QED
    BY <1>1, <1>3, <2>1, AppendHolds DEF TypeOK
<1>5. \A k \in live : k # j => queue'[k] = queue[k] /\ sent'[k] = sent[k]
  BY <1>1 DEF TypeOK
<1>6. MailInOrder'
  BY <1>1, <1>4, <1>5 DEF MailKept, MailInOrder, HoldsFrom
<1>7. SleepersHaveNoMail'
  BY <1>1, <1>2, <1>5 DEF MailKept, SleepersHaveNoMail, Asleep
<1> QED
  BY <1>6, <1>7 DEF MailKept

LEMMA TakeJobMail ==
  ASSUME TypeOK, PlaceInv, MailKept, NEW w \in Worker, TakeJob(w)
  PROVE  MailKept'
<1> DEFINE j == Head(fifo)
<1>1. /\ j \in Job /\ j \in live /\ color[j] # "SLEEP"
  BY PopFacts DEF TakeJob, TypeOK, PlaceInv, NoDangling, OnePlace, Exclusive, InFifo,
                  Asleep
<1>2. live' = live /\ color' = color /\ sent' = sent /\ live \subseteq Job
  BY DEF TakeJob, TypeOK
<1>3. CASE UNCHANGED <<queue, got>>
  BY <1>2, <1>3, MailFrame
<1>4. CASE /\ queue[j] # <<>> /\ queue' = [queue EXCEPT ![j] = Tail(@)]
           /\ got' = [got EXCEPT ![j] = @ + 1]
  <2> HIDE DEF j
  <2>1. queue[j] \in Seq(Nat) /\ sent[j] \in Nat /\ got[j] \in Nat
    BY <1>1 DEF TypeOK
  <2>2. HoldsFrom(queue[j], got[j], sent[j])
    BY <1>1 DEF MailKept, MailInOrder, HoldsFrom
  <2>3. HoldsFrom(Tail(queue[j]), got[j] + 1, sent[j])
    BY <1>4, <2>1, <2>2, TailHolds
  <2>4. queue'[j] = Tail(queue[j]) /\ got'[j] = got[j] + 1
    BY <1>1, <1>4 DEF TypeOK
  <2>5. \A k \in live : k # j => queue'[k] = queue[k] /\ got'[k] = got[k]
    BY <1>1, <1>2, <1>4 DEF TypeOK
  <2>6. MailInOrder'
    <3>1. ASSUME NEW k \in live, k # j
          PROVE  /\ got'[k] + Len(queue'[k]) = sent'[k]
                 /\ \A i \in 1..Len(queue'[k]) : queue'[k][i] = got'[k] + i
      BY <1>2, <2>5, <3>1 DEF MailKept, MailInOrder
    <3>2. /\ got'[j] + Len(queue'[j]) = sent'[j]
          /\ \A i \in 1..Len(queue'[j]) : queue'[j][i] = got'[j] + i
      BY <1>2, <2>3, <2>4 DEF HoldsFrom
    <3> QED
      BY <1>2, <3>1, <3>2 DEF MailInOrder
  <2>7. SleepersHaveNoMail'
    BY <1>1, <1>2, <2>5 DEF MailKept, SleepersHaveNoMail, Asleep
  <2> QED
    BY <2>6, <2>7 DEF MailKept
<1> QED
  BY <1>3, <1>4 DEF TakeJob

(* No message is lost, doubled or reordered, and no job with mail sleeps.  *)
LEMMA MailStep ==
  ASSUME TypeOK, HandsFull, PlaceInv, Untouched, MailKept, Next
  PROVE  MailKept'
<1>0. live \subseteq Job /\ live \subseteq born
  BY DEF TypeOK, PlaceInv
<1>1. ASSUME NEW j \in Job, BeginCreate(j) PROVE MailKept'
  <2>1. /\ live' = live \cup {j} /\ j \notin live /\ UNCHANGED <<queue, sent, got>>
        /\ color'[j] = "INIT" /\ \A k \in Job : k # j => color'[k] = color[k]
    BY <1>0, <1>1 DEF BeginCreate, histVars, TypeOK
  <2>2. queue[j] = <<>> /\ sent[j] = 0 /\ got[j] = 0
    BY <1>1 DEF BeginCreate, Untouched
  <2> QED
    BY <1>0, <2>1, <2>2 DEF MailKept, SleepersHaveNoMail, MailInOrder, Asleep
<1>2. ASSUME NEW j \in Job, StartFailed(j) PROVE MailKept'
  <2>1. live' \subseteq live /\ UNCHANGED <<color, sent, got>>
        /\ \A k \in live' : queue'[k] = queue[k]
    BY <1>0, <1>2 DEF StartFailed, DropMessages, histVars
  <2> QED
    BY <2>1, MailFrame
<1>3. ASSUME NEW j \in Job, StartDone(j) PROVE MailKept'
  <2>1. live' = live /\ UNCHANGED <<queue, sent, got>>
    BY <1>3 DEF StartDone, histVars
  <2>2. ASSUME NEW k \in live, color'[k] = "SLEEP"
        PROVE  color[k] = "SLEEP" \/ queue[k] = <<>>
    BY <1>0, <1>3, <2>2 DEF StartDone, MustRun, StartedColor, TypeOK
  <2> QED
    BY <2>1, <2>2, MailFrame
<1>4. ASSUME NEW j \in Job, JobTimeout(j) PROVE MailKept'
  <2>1. live' = live /\ UNCHANGED <<queue, sent, got>>
    BY <1>4 DEF JobTimeout
  <2>2. \A k \in live : color'[k] = "SLEEP" => color[k] = "SLEEP"
    BY <1>0, <1>4 DEF JobTimeout, Rouse, TypeOK
  <2> QED
    BY <2>1, <2>2, MailFrame
<1>5. ASSUME NEW j \in Job, CloseJob(j) PROVE MailKept'
  <2>1. live' = live /\ UNCHANGED <<queue, sent, got>>
    BY <1>5 DEF CloseJob, histVars
  <2>2. \A k \in live : color'[k] = "SLEEP" => color[k] = "SLEEP"
    BY <1>0, <1>5 DEF CloseJob, TypeOK
  <2> QED
    BY <2>1, <2>2, MailFrame
<1>6. CASE \/ \E j \in Job : CreateProxyJob(j)
           \/ RunQStop
           \/ BeginReset
  BY <1>6, MailFrame DEF CreateProxyJob, RunQStop, BeginReset, jobVars, histVars
<1>7. CASE SendRemote
  BY <1>7, PostMail DEF SendRemote, TypeOK
<1>8. ASSUME NEW w \in Worker,
             \/ EnterLoop(w) \/ LeaveLoop(w) \/ AwaitJob(w) \/ SpuriousWake(w)
             \/ Rewake(w) \/ RecvDone(w) \/ TimeoutRecvDone(w)
      PROVE  MailKept'
  BY <1>8, MailFrame DEF EnterLoop, LeaveLoop, AwaitJob, SpuriousWake, Rewake,
                         RecvDone, TimeoutRecvDone, jobVars, histVars
<1>9. ASSUME NEW w \in Worker, Requeue(w) PROVE MailKept'
  <2>1. live' = live /\ UNCHANGED <<queue, sent, got>>
    BY <1>9 DEF Requeue
  <2>2. run[w] \in Job
    BY <1>9 DEF Requeue, HandsFull, TypeOK
  <2>3. ASSUME NEW k \in live, color'[k] = "SLEEP"
        PROVE  color[k] = "SLEEP" \/ queue[k] = <<>>
    BY <1>0, <1>9, <2>2, <2>3 DEF Requeue, RestColor, TypeOK
  <2> QED
    BY <2>1, <2>3, MailFrame
<1>10. ASSUME NEW w \in Worker, StopDone(w) PROVE MailKept'
  <2>1. live' \subseteq live /\ UNCHANGED <<color, sent, got>>
        /\ \A k \in live' : queue'[k] = queue[k]
    BY <1>0, <1>10 DEF StopDone, DropMessages, histVars
  <2> QED
    BY <2>1, MailFrame
<1>11. CASE ResetStop \/ ResetFree \/ EndReset
  <2>1. live' \subseteq live /\ UNCHANGED <<color, sent, got>>
        /\ \A k \in live' : queue'[k] = queue[k]
    BY <1>0, <1>11 DEF ResetStop, ResetFree, EndReset, DropMessages, histVars
  <2> QED
    BY <2>1, MailFrame
<1> QED
  BY <1>1, <1>2, <1>3, <1>4, <1>5, <1>6, <1>7, <1>8, <1>9, <1>10, <1>11, PostMail,
     TakeJobMail DEF Next, Api, Loop, Reset, Send

-----------------------------------------------------------------------------
(* A step that calls no Stop, after which whoever is in one still is,      *)
(* unless the job has been freed.                                          *)
LEMMA StopFrame ==
  ASSUME StopOnce, UNCHANGED stops, live' \subseteq live,
         \A j \in live' : rjob = j => rjob' = j,
         \A w \in Worker : pc[w] = "stop" /\ run[w] \in live' =>
                             pc'[w] = "stop" /\ run'[w] = run[w]
  PROVE  StopOnce'
BY DEF StopOnce

(* A job that nobody is stopping has not been stopped. *)
LEMMA NotStopped ==
  ASSUME TypeOK, StopOnce, NEW j \in Job, j \in live, rjob # j,
         \A w \in Worker : run[w] = j => pc[w] # "stop"
  PROVE  stops[j] = 0
<1>1. stops[j] \in Nat /\ stops[j] <= 1 /\ stops[j] # 1
  BY DEF TypeOK, StopOnce
<1> QED
  BY <1>1

LEMMA CallStopOnce ==
  ASSUME TypeOK, StopOnce, NEW w \in Worker, NEW j \in Job, CallStop(w, j),
         j \in live, rjob # j, \A v \in Worker : run[v] = j => pc[v] # "stop",
         pc[w] # "stop", UNCHANGED <<live, rjob>>
  PROVE  StopOnce'
<1>1. stops[j] = 0
  BY NotStopped
<1>2. /\ stops'[j] = 1 /\ \A k \in Job : k # j => stops'[k] = stops[k]
  BY <1>1 DEF CallStop, TypeOK
<1>3. /\ pc'[w] = "stop" /\ run'[w] = j
      /\ \A v \in Worker : v # w => pc'[v] = pc[v] /\ run'[v] = run[v]
  BY DEF CallStop, TypeOK
<1>4. ASSUME NEW k \in Job, k # j
      PROVE  /\ stops'[k] <= 1
             /\ k \in live' /\ stops'[k] = 1 =>
                  rjob' = k \/ \E v \in Worker : run'[v] = k /\ pc'[v] = "stop"
  BY <1>2, <1>3, <1>4 DEF StopOnce
<1>5. stops'[j] <= 1 /\ \E v \in Worker : run'[v] = j /\ pc'[v] = "stop"
  BY <1>2, <1>3
<1> QED
  BY <1>4, <1>5 DEF StopOnce

(* No job is stopped twice, and a stopped job stays in its stopper's hand. *)
LEMMA StopStep ==
  ASSUME TypeOK, HandsFull, PlaceInv, Untouched, StopOnce, Next
  PROVE  StopOnce'
<1>0. /\ live \subseteq Job /\ live \subseteq born /\ None \notin Job
      /\ \A w \in Worker : run[w] # None => run[w] \in live
      /\ rjob # None => rjob \in live
  BY RunQAssumption DEF RunQAssumption, TypeOK, PlaceInv, NoDangling
<1>1. ASSUME NEW j \in Job, BeginCreate(j) PROVE StopOnce'
  <2>1. /\ live' = live \cup {j} /\ UNCHANGED <<stops, pc, run, rjob>>
    BY <1>1 DEF BeginCreate, histVars, loopVars, ctlVars
  <2>2. stops[j] = 0
    BY <1>1 DEF BeginCreate, Untouched
  <2> QED
    BY <2>1, <2>2 DEF StopOnce
<1>2. ASSUME NEW j \in Job, StartFailed(j) PROVE StopOnce'
  BY <1>2, StopFrame DEF StartFailed, histVars, loopVars, ctlVars
<1>3. ASSUME NEW j \in Job, StartDone(j) \/ CreateProxyJob(j)
      PROVE  StopOnce'
  BY <1>3, StopFrame DEF StartDone, CreateProxyJob, histVars, loopVars, ctlVars, jobVars
<1>4. ASSUME NEW j \in Job, Post(j) \/ JobTimeout(j) \/ CloseJob(j)
      PROVE  StopOnce'
  <2>1. UNCHANGED <<stops, live, run, rjob>>
    BY <1>4 DEF Post, JobTimeout, CloseJob, ctlVars, histVars
  <2>2. UNCHANGED pc \/ Notify
    BY <1>4 DEF Post, JobTimeout, CloseJob, Rouse
  <2>3. \A w \in Worker : pc[w] = "stop" => pc'[w] = "stop"
    BY <2>2, NotifyFacts
  <2> QED
    BY <2>1, <2>3, StopFrame
<1>5. CASE RunQStop
  <2>1. \A w \in Worker : pc[w] = "stop" => pc'[w] = "stop"
    BY <1>5, NotifyFacts DEF RunQStop
  <2> QED
    BY <1>5, <2>1, StopFrame DEF RunQStop, jobVars, histVars
<1>6. CASE SendRemote
  BY <1>4, <1>6 DEF SendRemote, TypeOK
<1>7. ASSUME NEW w \in Worker,
             \/ EnterLoop(w) \/ LeaveLoop(w) \/ AwaitJob(w) \/ SpuriousWake(w)
             \/ Rewake(w) \/ RecvDone(w) \/ TimeoutRecvDone(w)
      PROVE  StopOnce'
  <2>1. UNCHANGED <<stops, live, run, rjob>> /\ pc[w] # "stop"
    BY <1>7 DEF EnterLoop, LeaveLoop, AwaitJob, SpuriousWake, Rewake,
                RecvDone, TimeoutRecvDone, jobVars, histVars, ctlVars
  <2>2. \A v \in Worker : v # w => pc'[v] = pc[v]
    BY <1>7 DEF EnterLoop, LeaveLoop, AwaitJob, SpuriousWake, Rewake,
                RecvDone, TimeoutRecvDone, TypeOK
  <2> QED
    BY <2>1, <2>2, StopFrame
<1>8. ASSUME NEW w \in Worker, TakeJob(w) PROVE StopOnce'
  <2> DEFINE j == Head(fifo)
  <2>1. /\ j \in Job /\ j \in live /\ rjob # j /\ \A v \in Worker : run[v] # j
        /\ UNCHANGED <<live, rjob>> /\ pc[w] # "stop"
    BY <1>8, PopFacts DEF TakeJob, TypeOK, PlaceInv, NoDangling, OnePlace, Exclusive,
                          InFifo, Held, ctlVars
  <2>2. CASE CallStop(w, j)
    BY <2>1, <2>2, CallStopOnce
  <2>3. CASE UNCHANGED stops /\ pc' = [pc EXCEPT ![w] = "recv"]
             /\ run' = [run EXCEPT ![w] = j]
    <3>1. \A v \in Worker : v # w => pc'[v] = pc[v] /\ run'[v] = run[v]
      BY <2>3 DEF TypeOK
    <3> QED
      BY <2>1, <2>3, <3>1, StopFrame
  <2> QED
    BY <1>8, <2>2, <2>3 DEF TakeJob
<1>9. ASSUME NEW w \in Worker, Requeue(w) PROVE StopOnce'
  <2> DEFINE j == run[w]
  <2>1. /\ j \in Job /\ j \in live /\ j # None /\ pc[w] = "post"
        /\ UNCHANGED <<live, rjob>>
    BY <1>0, <1>9 DEF Requeue, HandsFull, ctlVars
  <2>2. rjob # j /\ \A v \in Worker : run[v] = j => v = w
    BY <2>1 DEF PlaceInv, OnePlace, Exclusive, Held
  <2>3. CASE CallStop(w, j)
    BY <2>1, <2>2, <2>3, CallStopOnce
  <2>4. CASE UNCHANGED stops /\ pc' = [pc EXCEPT ![w] = "top"]
             /\ run' = [run EXCEPT ![w] = None]
    <3>1. \A v \in Worker : v # w => pc'[v] = pc[v] /\ run'[v] = run[v]
      BY <2>4 DEF TypeOK
    <3> QED
      BY <2>1, <2>4, <3>1, StopFrame
  <2> QED
    BY <1>9, <2>3, <2>4 DEF Requeue
<1>10. ASSUME NEW w \in Worker, StopDone(w) PROVE StopOnce'
  <2>1. /\ live' = live \ {run[w]} /\ UNCHANGED <<stops, rjob>>
        /\ \A v \in Worker : v # w => pc'[v] = pc[v] /\ run'[v] = run[v]
    BY <1>10 DEF StopDone, TypeOK, histVars, ctlVars
  <2> QED
    BY <2>1, StopFrame
<1>11. CASE BeginReset
  BY <1>11, StopFrame DEF BeginReset, jobVars, loopVars, histVars
<1>12. CASE ResetStop
  <2> DEFINE j == Head(fifo)
  <2>1. /\ j \in Job /\ j \in live /\ rjob = None
        /\ \A v \in Worker : run[v] # j
    BY <1>12, PopFacts DEF ResetStop, TypeOK, PlaceInv, NoDangling, OnePlace,
                           Exclusive, InFifo, Held
  <2>2. rjob # j
    BY <1>0, <2>1
  <2>3. stops[j] = 0
    BY <2>1, <2>2, NotStopped
  <2>4. /\ stops' = [stops EXCEPT ![j] = @ + 1] /\ rjob' = j
        /\ UNCHANGED <<live, pc, run>>
    BY <1>12 DEF ResetStop, loopVars
  <2> HIDE DEF j
  <2>5. stops'[j] = 1 /\ \A k \in Job : k # j => stops'[k] = stops[k]
    BY <2>1, <2>3, <2>4 DEF TypeOK
  <2>6. ASSUME NEW k \in Job, k # j
        PROVE  /\ stops'[k] <= 1
               /\ k \in live' /\ stops'[k] = 1 =>
                    rjob' = k \/ \E v \in Worker : run'[v] = k /\ pc'[v] = "stop"
    BY <1>0, <2>1, <2>4, <2>5, <2>6 DEF StopOnce
  <2>7. stops'[j] <= 1 /\ rjob' = j
    BY <2>4, <2>5
  <2> QED
    BY <2>6, <2>7 DEF StopOnce
<1>13. CASE ResetFree
  BY <1>0, <1>13, StopFrame DEF ResetFree, loopVars, histVars
<1>14. CASE EndReset
  BY <1>14, StopFrame DEF EndReset, loopVars, histVars
<1> QED
  BY <1>1, <1>2, <1>3, <1>4, <1>5, <1>6, <1>7, <1>8, <1>9, <1>10, <1>11, <1>12,
     <1>13, <1>14 DEF Next, Api, Loop, Reset, Send

-----------------------------------------------------------------------------
(* How many timeouts a job is still owed. *)
Owed(j) == IF Ticked(j) THEN tocks[j] < ticks[j] ELSE tocks[j] <= ticks[j]

LEMMA OwedKept ==
  ASSUME TypeOK, NoPhantomTimeout, NEW j \in Job,
         tocks'[j] = tocks[j], ticks'[j] = ticks[j], Ticked(j)' => Ticked(j)
  PROVE  Owed(j)'
<1>1. tocks[j] \in Nat /\ ticks[j] \in Nat
  BY DEF TypeOK
<1>2. CASE Ticked(j)
  BY <1>1, <1>2 DEF NoPhantomTimeout, Owed
<1>3. CASE ~Ticked(j)
  BY <1>1, <1>3 DEF NoPhantomTimeout, Owed
<1> QED
  BY <1>2, <1>3

LEMMA TickFrame ==
  ASSUME TypeOK, NoPhantomTimeout, UNCHANGED <<tocks, ticks>>,
         \A j \in Job : Ticked(j)' => Ticked(j)
  PROVE  NoPhantomTimeout'
<1> SUFFICES ASSUME NEW j \in Job PROVE Owed(j)'
  BY DEF Owed, NoPhantomTimeout
<1> QED
  BY OwedKept

(* A color read without the mutex gives Recv no timeout twice. *)
LEMMA TickStep ==
  ASSUME TypeOK, HandsFull, PlaceInv, NoPhantomTimeout, Next
  PROVE  NoPhantomTimeout'
<1>1. ASSUME UNCHANGED <<tocks, ticks, run>>,
             \A j \in Job : color'[j] = "TIMEOUT" => color[j] = "TIMEOUT",
             \A w \in Worker : pc'[w] = "recv" => pc[w] = "recv"
      PROVE  NoPhantomTimeout'
  BY <1>1, TickFrame DEF Ticked
<1>2. ASSUME NEW j \in Job,
             \/ BeginCreate(j) \/ StartFailed(j) \/ StartDone(j) \/ CloseJob(j)
             \/ CreateProxyJob(j) \/ Post(j)
      PROVE  NoPhantomTimeout'
  <2>1. UNCHANGED <<tocks, ticks, run>>
    BY <1>2 DEF BeginCreate, StartFailed, StartDone, CloseJob, CreateProxyJob, Post,
                histVars, loopVars
  <2>2. ASSUME NEW k \in Job, color'[k] = "TIMEOUT" PROVE color[k] = "TIMEOUT"
    BY <1>2, <2>2 DEF BeginCreate, StartFailed, StartDone, StartedColor, CloseJob,
                      CreateProxyJob, Post, Rouse, jobVars, TypeOK
  <2>3. UNCHANGED pc \/ Notify
    BY <1>2 DEF BeginCreate, StartFailed, StartDone, CloseJob, CreateProxyJob, Post,
                Rouse, loopVars
  <2>4. \A w \in Worker : pc'[w] = "recv" => pc[w] = "recv"
    BY <2>3, NotifyFacts
  <2> QED
    BY <1>1, <2>1, <2>2, <2>4
<1>3. ASSUME NEW j \in Job, JobTimeout(j) PROVE NoPhantomTimeout'
  <2>1. /\ ticks' = [ticks EXCEPT ![j] = @ + 1] /\ UNCHANGED <<tocks, run>>
        /\ \A k \in Job : k # j => color'[k] = color[k]
        /\ UNCHANGED pc \/ Notify
    BY <1>3 DEF JobTimeout, Rouse, TypeOK
  <2>2. \A w \in Worker : pc'[w] = "recv" => pc[w] = "recv"
    BY <2>1, NotifyFacts
  <2>3. ASSUME NEW k \in Job, k # j PROVE Owed(k)'
    <3>1. Ticked(k)' => Ticked(k)
      BY <2>1, <2>2, <2>3 DEF Ticked
    <3>2. ticks'[k] = ticks[k] /\ tocks'[k] = tocks[k]
      BY <2>1, <2>3 DEF TypeOK
    <3> QED
      BY <3>1, <3>2, OwedKept
  <2>4. Owed(j)'
    <3>1. /\ ticks'[j] = ticks[j] + 1 /\ tocks'[j] = tocks[j]
          /\ ticks[j] \in Nat /\ tocks[j] \in Nat
      BY <2>1 DEF TypeOK
    <3>2. tocks[j] <= ticks[j]
      BY <3>1 DEF NoPhantomTimeout
    <3> QED
      BY <3>1, <3>2 DEF Owed
  <2> QED
    BY <2>3, <2>4 DEF Owed, NoPhantomTimeout
<1>4. CASE SendRemote
  BY <1>2, <1>4 DEF SendRemote, TypeOK
<1>5. CASE RunQStop
  <2>1. \A w \in Worker : pc'[w] = "recv" => pc[w] = "recv"
    BY <1>5, NotifyFacts DEF RunQStop
  <2> QED
    BY <1>1, <1>5, <2>1 DEF RunQStop, jobVars, histVars
<1>6. ASSUME NEW w \in Worker,
             \/ EnterLoop(w) \/ LeaveLoop(w) \/ AwaitJob(w) \/ SpuriousWake(w)
             \/ Rewake(w) \/ TimeoutRecvDone(w)
      PROVE  NoPhantomTimeout'
  <2>1. /\ UNCHANGED <<tocks, ticks, run, color>>
        /\ \A v \in Worker : pc'[v] = "recv" => pc[v] = "recv"
    BY <1>6 DEF EnterLoop, LeaveLoop, AwaitJob, SpuriousWake, Rewake,
                TimeoutRecvDone, jobVars, histVars, TypeOK
  <2> QED
    BY <1>1, <2>1
<1>7. ASSUME NEW w \in Worker, RecvDone(w) PROVE NoPhantomTimeout'
  <2>0. PICK j \in Job : run[w] = j /\ j # None
    BY <1>7 DEF RecvDone, HandsFull, TypeOK
  <2>1. /\ pc[w] = "recv" /\ UNCHANGED <<color, run, ticks>>
        /\ \A v \in Worker : v # w => pc'[v] = pc[v]
        /\ pc'[w] \in {"tmo", "post"}
    BY <1>7 DEF RecvDone, TypeOK, jobVars
  <2>2. \A v \in Worker : run[v] = j => v = w
    BY <2>0 DEF PlaceInv, OnePlace, Exclusive
  <2>3. \A k \in Job : Ticked(k)' => Ticked(k)
    <3>1. \A v \in Worker : pc'[v] = "recv" => pc[v] = "recv"
      BY <2>1
    <3> QED
      BY <2>1, <3>1 DEF Ticked
  <2>4. CASE color[j] = "TIMEOUT"
    <3>1. Ticked(j) /\ ~Ticked(j)'
      BY <2>0, <2>1, <2>2, <2>4 DEF Ticked
    <3>2. tocks' = [tocks EXCEPT ![j] = @ + 1]
      BY <1>7, <2>0, <2>4 DEF RecvDone
    <3>3. /\ tocks'[j] = tocks[j] + 1 /\ ticks'[j] = ticks[j]
          /\ ticks[j] \in Nat /\ tocks[j] \in Nat
      BY <2>1, <3>2 DEF TypeOK
    <3>4. tocks[j] < ticks[j]
      BY <2>1, <3>1 DEF NoPhantomTimeout
    <3>5. Owed(j)'
      <4>1. tocks'[j] <= ticks'[j]
        BY <3>3, <3>4
      <4> QED
        BY <3>1, <4>1 DEF Owed
    <3>6. ASSUME NEW k \in Job, k # j PROVE Owed(k)'
      <4>1. tocks'[k] = tocks[k] /\ ticks'[k] = ticks[k]
        BY <2>1, <3>2, <3>6 DEF TypeOK
      <4> QED
        BY <2>3, <4>1, OwedKept
    <3>7. \A k \in Job : Owed(k)'
      BY <3>5, <3>6
    <3> QED
      BY <3>7, Zenon DEF Owed, NoPhantomTimeout
  <2>5. CASE color[j] # "TIMEOUT"
    BY <1>7, <2>0, <2>1, <2>3, <2>5, TickFrame DEF RecvDone
  <2> QED
    BY <2>4, <2>5
<1>8. ASSUME NEW w \in Worker, TakeJob(w) PROVE NoPhantomTimeout'
  <2> DEFINE j == Head(fifo)
  <2>1. /\ j \in Job /\ \A v \in Worker : run[v] # j
    BY <1>8, PopFacts DEF TakeJob, TypeOK, PlaceInv, NoDangling, OnePlace, Exclusive,
                          InFifo, Held
  <2>2. /\ UNCHANGED <<color, ticks, tocks>> /\ run'[w] = j
        /\ run[w] = None /\ None \notin Job
        /\ \A v \in Worker : v # w => run'[v] = run[v] /\ pc'[v] = pc[v]
    BY <1>8, RunQAssumption DEF RunQAssumption, TakeJob, CallStop, TypeOK, HandsFull
  <2> HIDE DEF j
  <2>3. ASSUME NEW k \in Job, Ticked(k)' PROVE Ticked(k)
    BY <2>1, <2>2, <2>3 DEF Ticked
  <2> QED
    BY <2>2, <2>3, TickFrame
<1>9. ASSUME NEW w \in Worker, Requeue(w) PROVE NoPhantomTimeout'
  <2>0. PICK j \in Job : run[w] = j
    BY <1>9 DEF Requeue, HandsFull, TypeOK
  <2>1. UNCHANGED <<ticks, tocks>>
    BY <1>9 DEF Requeue
  <2>2. \A v \in Worker : v # w => run'[v] = run[v] /\ pc'[v] = pc[v]
    BY <1>9 DEF Requeue, CallStop, TypeOK
  <2>3. /\ color'[j] # "TIMEOUT"
        /\ \A k \in Job : k # j => color'[k] = color[k]
    BY <1>9, <2>0 DEF Requeue, IsClosed, RestColor, TypeOK
  <2>4. ASSUME NEW k \in Job, Ticked(k)' PROVE Ticked(k)
    <3>1. run[w] # k
      BY <2>0, <2>3, <2>4 DEF Ticked
    <3> QED
      BY <2>0, <2>2, <2>3, <2>4, <3>1 DEF Ticked
  <2> QED
    BY <2>1, <2>4, TickFrame
<1>10. ASSUME NEW w \in Worker, StopDone(w) PROVE NoPhantomTimeout'
  <2> DEFINE j == run[w]
  <2>1. /\ j \in Job /\ j \in live /\ UNCHANGED <<color, ticks, tocks>> /\ j # None
        /\ \A v \in Worker : v # w => run'[v] = run[v] /\ pc'[v] = pc[v]
    BY <1>10 DEF StopDone, HandsFull, TypeOK, histVars, PlaceInv, NoDangling
  <2>2. color[j] = "CLOSED"
    <3>1. j \notin table
      BY <1>10 DEF StopDone, PlaceInv, StopsUnlisted
    <3>2. rjob # j
      BY <2>1 DEF PlaceInv, OnePlace, Exclusive, Held
    <3> QED
      BY <2>1, <3>1, <3>2 DEF PlaceInv, ClosedIffUnlisted
  <2> HIDE DEF j
  <2>3. ASSUME NEW k \in Job, Ticked(k)' PROVE Ticked(k)
    <3>1. run[w] # k
      BY <2>1, <2>2, <2>3 DEF Ticked, j
    <3> QED
      BY <2>1, <2>3, <3>1 DEF Ticked
  <2> QED
    BY <2>1, <2>3, TickFrame
<1>11. CASE Reset
  BY <1>1, <1>11 DEF Reset, BeginReset, ResetStop, ResetFree, EndReset, jobVars,
                     loopVars, histVars
<1> QED
  BY <1>2, <1>3, <1>4, <1>5, <1>6, <1>7, <1>8, <1>9, <1>10, <1>11
     DEF Next, Api, Loop, Send

-----------------------------------------------------------------------------
(* A notification leaves a waiting worker awake. *)
LEMMA NotifyWakes ==
  ASSUME TypeOK, Notify
  PROVE  \/ \A w \in Worker : pc'[w] # "wait"
         \/ \E w \in Worker : pc'[w] = "woken"
<1>1. CASE Waiting = {}
  BY <1>1 DEF Notify, Waiting
<1>2. CASE Waiting # {}
  BY <1>2 DEF Notify, Waiting, Wake
<1> QED
  BY <1>1, <1>2

(* While all are blocked, only LemonCreateJob adds to the run queue. *)
LEMMA WakeStep ==
  ASSUME TypeOK, HandsFull, PlaceInv, NoLostWakeup, Next
  PROVE  NoLostWakeup'
<1>1. ASSUME UNCHANGED <<stopped, pc, fifo, quiet>> PROVE NoLostWakeup'
  BY <1>1 DEF NoLostWakeup, Elements
<1>2. ASSUME Notify PROVE NoLostWakeup'
  BY <1>2, NotifyWakes DEF NoLostWakeup
<1>3. ASSUME NEW w \in Worker, pc' = [pc EXCEPT ![w] = pc'[w]],
             pc'[w] \notin {"wait", "out"}
      PROVE  NoLostWakeup'
  BY <1>3 DEF NoLostWakeup
<1>4. ASSUME NEW j \in Job, StartDone(j) PROVE NoLostWakeup'
  <2>1. UNCHANGED <<stopped, pc>>
    BY <1>4 DEF StartDone, ctlVars, loopVars
  <2>2. \/ UNCHANGED <<fifo, quiet>>
        \/ Elements(fifo') = Elements(fifo) \cup {j} /\ quiet' = quiet \cup {j}
    BY <1>4, PushJobFacts DEF StartDone
  <2> QED
    BY <2>1, <2>2 DEF NoLostWakeup, Elements
<1>5. CASE Api
  <2>1. ASSUME NEW j \in Job,
               BeginCreate(j) \/ StartFailed(j) \/ CreateProxyJob(j)
        PROVE  NoLostWakeup'
    BY <1>1, <2>1 DEF BeginCreate, StartFailed, CreateProxyJob, ctlVars, loopVars
  <2>2. ASSUME NEW j \in Job, Post(j) \/ JobTimeout(j) \/ CloseJob(j)
        PROVE  NoLostWakeup'
    <3>1. \/ Notify
          \/ UNCHANGED <<stopped, pc, fifo, quiet>>
      BY <2>2 DEF Post, JobTimeout, CloseJob, Rouse, ctlVars
    <3> QED
      BY <1>1, <1>2, <3>1
  <2>3. CASE SendRemote
    BY <2>2, <2>3 DEF SendRemote, TypeOK
  <2>4. CASE RunQStop
    BY <2>4 DEF RunQStop, NoLostWakeup
  <2> QED
    BY <1>4, <1>5, <2>1, <2>2, <2>3, <2>4 DEF Api, Send
<1>6. ASSUME NEW w \in Worker, Loop(w) \/ SpuriousWake(w) PROVE NoLostWakeup'
  <2>1. CASE LeaveLoop(w)
    BY <2>1 DEF LeaveLoop, ctlVars, NoLostWakeup
  <2>2. CASE AwaitJob(w)
    <3>1. fifo' = <<>> /\ Elements(<<>>) = {}
      BY <2>2 DEF AwaitJob, Elements
    <3> QED
      BY <3>1 DEF NoLostWakeup
  <2>3. ASSUME NEW p \in PCs \ {"wait", "out"}, pc' = [pc EXCEPT ![w] = p]
        PROVE  NoLostWakeup'
    BY <2>3 DEF NoLostWakeup, TypeOK
  <2>4. ASSUME \/ EnterLoop(w) \/ SpuriousWake(w) \/ Rewake(w) \/ TakeJob(w)
               \/ RecvDone(w) \/ TimeoutRecvDone(w) \/ Requeue(w) \/ StopDone(w)
        PROVE  \E p \in PCs \ {"wait", "out"} : pc' = [pc EXCEPT ![w] = p]
    BY <2>4 DEF EnterLoop, SpuriousWake, Rewake, TakeJob, RecvDone,
                TimeoutRecvDone, Requeue, StopDone, CallStop, PCs
  <2> QED
    BY <1>6, <2>1, <2>2, <2>3, <2>4 DEF Loop
<1>7. CASE Reset
  <2>1. CASE BeginReset
    BY <1>1, <2>1 DEF BeginReset, loopVars
  <2>2. CASE ResetStop \/ ResetFree \/ EndReset
    <3>1. (\A w \in Worker : pc[w] = "out") /\ pc' = pc
      BY <2>2 DEF ResetStop, ResetFree, EndReset, loopVars, PlaceInv, ResetAlone
    <3> QED
      BY <3>1 DEF NoLostWakeup
  <2> QED
    BY <1>7, <2>1, <2>2 DEF Reset
<1> QED
  BY <1>5, <1>6, <1>7 DEF Next

LEMMA JobInvariant == Spec => [](TypeOK /\ HandsFull /\ PlaceInv /\ JobInv)
<1>1. TypeOK /\ HandsFull /\ PlaceInv /\ JobInv /\ [Next]_vars => JobInv'
  <2> SUFFICES ASSUME TypeOK, HandsFull, PlaceInv, JobInv, [Next]_vars
               PROVE  JobInv'
    OBVIOUS
  <2>1. CASE Next
    BY <2>1, UntouchedStep, MailStep, StopStep, TickStep, WakeStep
       DEF JobInv, CallbacksOwed
  <2>2. CASE UNCHANGED vars
    <3>1. Untouched' /\ MailKept'
      BY <2>2, MailFrame DEF vars, JobInv, Untouched
    <3>2. StopOnce'
      BY <2>2, StopFrame DEF vars, JobInv, CallbacksOwed
    <3>3. NoPhantomTimeout'
      BY <2>2, TickFrame DEF vars, JobInv, CallbacksOwed, Ticked
    <3>4. NoLostWakeup'
      BY <2>2 DEF vars, JobInv, NoLostWakeup, Elements
    <3> QED
      BY <3>1, <3>2, <3>3, <3>4 DEF JobInv, CallbacksOwed
  <2> QED
    BY <2>1, <2>2
<1> QED
  BY <1>1, JobInit, TypeCorrect, PlaceInvariant, PTL DEF Spec

(* For every number of jobs, workers and messages: a live job's FIFO holds *)
(* exactly the messages accepted for it and not yet received, in order, so *)
(* that LemonRunQLoop loses, doubles and reorders none, and a job that     *)
(* sleeps has no message waiting.                                          *)
THEOREM MailIsKept == Spec => []MailKept
BY JobInvariant, PTL DEF JobInv

(* Recv is given no more timeouts than LemonJobTimeout was called, though  *)
(* Color is read with no lock, and Stop is called at most once, by whoever *)
(* has the job in hand until it is freed.                                  *)
THEOREM CallbacksAreOwed == Spec => []CallbacksOwed
BY JobInvariant, PTL DEF JobInv

(* While every worker in the loop waits, only jobs that LemonCreateJob     *)
(* pushed without notifying can be in the run queue: LemonRunQSend,        *)
(* LemonJobTimeout and LemonCloseJob lose no wakeup, whoever they wake.    *)
THEOREM NoWakeupLost == Spec => []NoLostWakeup
BY JobInvariant, PTL DEF JobInv

-----------------------------------------------------------------------------
(* The refinement of JobContract: one lemma for each action, named for it. *)

(* The phase of a job, by where it is. *)
PhaseIs(j) ==
  /\ j \notin born => PhaseOf(j) = "unborn"
  /\ j \in born \ live => PhaseOf(j) = "gone"
  /\ j \in starting => PhaseOf(j) = "starting"
  /\ j \in live /\ rjob = j => PhaseOf(j) = "stopping"
  /\ \A w \in Worker : j \in live /\ run[w] = j =>
       /\ pc[w] = "stop" => PhaseOf(j) = "stopping"
       /\ pc[w] = "recv" /\ msg[w] # 0 => PhaseOf(j) = "receiving"
       /\ pc[w] = "tmo" => PhaseOf(j) = "ticking"
       /\ pc[w] = "post" \/ (pc[w] = "recv" /\ msg[w] = 0) => PhaseOf(j) = "idle"
  /\ j \in live \ starting /\ rjob # j /\ ~Held(j) => PhaseOf(j) = "idle"

(* What the refinement of JobContract is proved from. *)
RefInv == /\ TypeOK /\ HandsFull /\ PlaceInv /\ JobInv
          /\ \A j \in Job : PhaseIs(j)

LEMMA PhaseFacts ==
  ASSUME TypeOK, PlaceInv, NEW j \in Job
  PROVE  PhaseIs(j)
<1>1. starting \subseteq live /\ live \subseteq born
  BY DEF PlaceInv, NoDangling
<1>2. j \notin born => PhaseOf(j) = "unborn"
  BY <1>1 DEF PhaseOf
<1>3. j \in born \ live => PhaseOf(j) = "gone"
  BY <1>1 DEF PhaseOf
<1>4. j \in starting => PhaseOf(j) = "starting"
  BY <1>1 DEF PhaseOf
<1>5. j \in live /\ rjob = j => PhaseOf(j) = "stopping"
  <2>1. j \in live /\ rjob = j => j \notin starting /\ ~Held(j)
    BY DEF PlaceInv, OnePlace, Exclusive
  <2>2. ~Held(j) => ~Reading(j) /\ ~InCallback(j, "tmo")
    BY DEF Held, Reading, InCallback
  <2> QED
    BY <1>1, <2>1, <2>2 DEF PhaseOf
<1>6. ASSUME NEW w \in Worker, j \in live, run[w] = j
      PROVE  /\ pc[w] = "stop" => PhaseOf(j) = "stopping"
             /\ pc[w] = "recv" /\ msg[w] # 0 => PhaseOf(j) = "receiving"
             /\ pc[w] = "tmo" => PhaseOf(j) = "ticking"
             /\ pc[w] = "post" \/ (pc[w] = "recv" /\ msg[w] = 0) => PhaseOf(j) = "idle"
  <2>1. j \notin starting /\ rjob # j /\ j \in born
    BY <1>1, <1>6 DEF PlaceInv, OnePlace, Exclusive, Held
  <2>2. \A v \in Worker : run[v] = j => v = w
    BY <1>6, RunQAssumption DEF RunQAssumption, PlaceInv, OnePlace, Exclusive
  <2>3. /\ InCallback(j, "stop") <=> pc[w] = "stop"
        /\ InCallback(j, "tmo") <=> pc[w] = "tmo"
        /\ Reading(j) <=> pc[w] = "recv" /\ msg[w] # 0
    BY <1>6, <2>2 DEF InCallback, Reading
  <2> QED
    BY <1>6, <2>1, <2>3 DEF PhaseOf
<1>7. j \in live \ starting /\ rjob # j /\ ~Held(j) => PhaseOf(j) = "idle"
  <2>1. ~Held(j) => ~Reading(j) /\ \A p \in PCs : ~InCallback(j, p)
    BY DEF Held, Reading, InCallback
  <2> QED
    BY <1>1, <2>1 DEF PhaseOf, PCs
<1> QED
  BY <1>2, <1>3, <1>4, <1>5, <1>6, <1>7 DEF PhaseIs

(* Whoever is not touched stays in its phase. *)
LEMMA PhaseKept ==
  ASSUME NEW k \in Job,
         k \in born' <=> k \in born, k \in live' <=> k \in live,
         k \in starting' <=> k \in starting, rjob' = k <=> rjob = k,
         \A w \in Worker : run'[w] = k <=> run[w] = k,
         \A w \in Worker : run[w] = k => pc'[w] = pc[w] /\ msg'[w] = msg[w]
  PROVE  PhaseOf(k)' = PhaseOf(k)
<1>1. /\ InCallback(k, "stop")' <=> InCallback(k, "stop")
      /\ InCallback(k, "tmo")' <=> InCallback(k, "tmo")
      /\ Reading(k)' <=> Reading(k)
  BY DEF InCallback, Reading
<1> QED
  BY <1>1 DEF PhaseOf

(* The pieces of a step of JobContract, from what happens to each job. *)
LEMMA BecomeFacts ==
  ASSUME NEW j \in Job, NEW p, PhaseOf(j)' = p,
         \A k \in Job : k # j => PhaseOf(k)' = PhaseOf(k)
  PROVE  Contract!Become(j, p)
<1>1. PhaseMap' = [PhaseMap EXCEPT ![j] = p]
  BY DEF PhaseMap
<1> QED
  BY <1>1 DEF Contract!Become

LEMMA PhaseMapKept ==
  ASSUME \A k \in Job : PhaseOf(k)' = PhaseOf(k)
  PROVE  PhaseMap' = PhaseMap
BY DEF PhaseMap

LEMMA ShutMapKept ==
  ASSUME \A k \in Job : (k \in born /\ k \notin table)' <=> k \in born /\ k \notin table
  PROVE  ShutMap' = ShutMap
BY DEF ShutMap

LEMMA ArmedMapKept ==
  ASSUME \A k \in Job : (k \in table /\ Ticked(k))' <=> k \in table /\ Ticked(k)
  PROVE  ArmedMap' = ArmedMap
BY DEF ArmedMap

LEMMA CloseFacts ==
  ASSUME NEW j \in Job, j \in born', j \notin table',
         \A k \in Job : k # j => ((k \in born /\ k \notin table)' <=> k \in born /\ k \notin table),
         \A k \in Job : k # j =>
           ((k \in table /\ Ticked(k))' <=> k \in table /\ Ticked(k))
  PROVE  Contract!Close(j)
<1>1. ShutMap' = [ShutMap EXCEPT ![j] = TRUE]
  BY DEF ShutMap
<1>2. ArmedMap' = [ArmedMap EXCEPT ![j] = FALSE]
  BY DEF ArmedMap
<1> QED
  BY <1>1, <1>2 DEF Contract!Close

LEMMA MailboxDropped ==
  ASSUME TypeOK, NEW j \in Job, DropMessages({j})
  PROVE  queue' = [queue EXCEPT ![j] = <<>>]
BY DEF DropMessages, TypeOK

LEMMA OpenFacts ==
  ASSUME RefInv, NEW j \in table
  PROVE  /\ Contract!Open(j) /\ j \in live /\ j \in born /\ j \in Job /\ rjob # j
         /\ color[j] # "CLOSED"
<1>1. j \in live /\ j \in born /\ j \in Job /\ rjob # j
  BY RunQAssumption
     DEF RunQAssumption, RefInv, TypeOK, PlaceInv, NoDangling, ResetAlone
<1>2. PhaseOf(j) # "unborn"
  BY <1>1, PhaseFacts DEF RefInv, PhaseIs, PhaseOf
<1>3. color[j] # "CLOSED"
  BY <1>1 DEF RefInv, PlaceInv, ClosedIffUnlisted
<1> QED
  BY <1>1, <1>2, <1>3 DEF Contract!Open, ShutMap, PhaseMap

-----------------------------------------------------------------------------
LEMMA CreateRef ==
  ASSUME RefInv, RefInv', NEW j \in Job, BeginCreate(j)
  PROVE  Contract!Create(j)
<1>1. /\ j \notin born /\ born' = born \cup {j} /\ starting' = starting \cup {j}
      /\ table' = table \cup {j} /\ live' = live \cup {j}
      /\ color' = [color EXCEPT ![j] = "INIT"]
      /\ UNCHANGED <<queue, sent, stopped, rjob, run, pc, msg>>
  BY DEF BeginCreate, ctlVars, loopVars, histVars
<1>2. PhaseOf(j) = "unborn" /\ PhaseOf(j)' = "starting"
  BY <1>1 DEF RefInv, PhaseIs
<1>3. \A k \in Job : k # j => PhaseOf(k)' = PhaseOf(k)
  BY <1>1, PhaseKept
<1>4. Contract!Become(j, "starting")
  BY <1>2, <1>3, BecomeFacts
<1>5. ShutMap' = ShutMap
  BY <1>1, ShutMapKept
<1>6. color'[j] = "INIT" /\ j \notin table /\ \A k \in Job : k # j => color'[k] = color[k]
  BY <1>1 DEF RefInv, TypeOK, PlaceInv, NoDangling
<1>7. ArmedMap' = ArmedMap
  <2>1. \A k \in Job : (k \in table /\ Ticked(k))' <=> k \in table /\ Ticked(k)
    BY <1>1, <1>6 DEF Ticked
  <2> QED
    BY <2>1, ArmedMapKept
<1> QED
  BY <1>1, <1>2, <1>4, <1>5, <1>7 DEF Contract!Create, PhaseMap

LEMMA FailRef ==
  ASSUME RefInv, RefInv', NEW j \in Job, StartFailed(j)
  PROVE  Contract!Fail(j)
<1>1. /\ j \in starting /\ starting' = starting \ {j} /\ table' = table \ {j}
      /\ live' = live \ {j} /\ DropMessages({j})
      /\ UNCHANGED <<born, color, sent, stopped, rjob, run, pc, msg>>
  BY DEF StartFailed, Unlist, ctlVars, loopVars, histVars
<1>2. j \in born
  BY <1>1 DEF RefInv, PlaceInv, NoDangling
<1>3. PhaseOf(j) = "starting" /\ PhaseOf(j)' = "gone"
  BY <1>1, <1>2 DEF RefInv, PhaseIs
<1>4. \A k \in Job : k # j => PhaseOf(k)' = PhaseOf(k)
  BY <1>1, PhaseKept
<1>5. Contract!Become(j, "gone")
  BY <1>3, <1>4, BecomeFacts
<1>6. Contract!Close(j)
  <2>1. \A k \in Job : k # j =>
          ((k \in table /\ Ticked(k))' <=> k \in table /\ Ticked(k))
    BY <1>1 DEF Ticked
  <2> QED
    BY <1>1, <1>2, <2>1, CloseFacts
<1>7. queue' = [queue EXCEPT ![j] = <<>>]
  BY <1>1, MailboxDropped DEF RefInv
<1> QED
  BY <1>1, <1>3, <1>5, <1>6, <1>7 DEF Contract!Fail, PhaseMap

LEMMA ReadyRef ==
  ASSUME RefInv, RefInv', NEW j \in Job, StartDone(j)
  PROVE  Contract!Ready(j)
<1>1. /\ j \in starting /\ starting' = starting \ {j}
      /\ UNCHANGED <<table, live, born, queue, sent, stopped, rjob, run, pc, msg>>
  BY DEF StartDone, ctlVars, loopVars, histVars
<1>2. j \in live /\ rjob # j /\ ~Held(j)
  BY <1>1 DEF RefInv, PlaceInv, NoDangling, OnePlace, Exclusive
<1>3. PhaseOf(j) = "starting"
  BY <1>1 DEF RefInv, PhaseIs
<1>4. PhaseOf(j)' = "idle"
  <2>1. (j \in live \ starting /\ rjob # j /\ ~Held(j))'
    BY <1>1, <1>2 DEF Held
  <2> QED
    BY <2>1 DEF RefInv, PhaseIs
<1>5. \A k \in Job : k # j => PhaseOf(k)' = PhaseOf(k)
  BY <1>1, PhaseKept
<1>6. Contract!Become(j, "idle")
  BY <1>4, <1>5, BecomeFacts
<1>7. ShutMap' = ShutMap
  BY <1>1, ShutMapKept
<1>8. ASSUME NEW k \in Job
      PROVE  color'[k] = "TIMEOUT" <=> color[k] = "TIMEOUT"
  BY DEF StartDone, MustRun, StartedColor, RefInv, TypeOK
<1>9. ArmedMap' = ArmedMap
  <2>1. \A k \in Job : (k \in table /\ Ticked(k))' <=> k \in table /\ Ticked(k)
    BY <1>1, <1>8 DEF Ticked
  <2> QED
    BY <2>1, ArmedMapKept
<1> QED
  BY <1>1, <1>3, <1>6, <1>7, <1>9 DEF Contract!Ready, PhaseMap

(* A notification wakes only workers with no job in hand. *)
LEMMA NotifyHands ==
  ASSUME TypeOK, HandsFull, Notify \/ NotifyAll \/ UNCHANGED pc
  PROVE  \A w \in Worker : /\ pc'[w] = "recv" <=> pc[w] = "recv"
                           /\ run[w] # None => pc'[w] = pc[w]
<1>1. CASE UNCHANGED pc
  BY <1>1
<1>2. CASE Notify \/ NotifyAll
  BY <1>2, NotifyFacts DEF HandsFull
<1> QED
  BY <1>1, <1>2

LEMMA PostRef ==
  ASSUME RefInv, RefInv', NEW j \in Job, Post(j)
  PROVE  Contract!Accept(j)
<1>1. /\ j \in table /\ sent' = [sent EXCEPT ![j] = @ + 1]
      /\ queue' = [queue EXCEPT ![j] = Append(@, sent[j] + 1)]
      /\ UNCHANGED <<table, live, born, starting, stopped, rjob, run, msg>>
      /\ UNCHANGED pc \/ Notify
  BY DEF Post, PushMessage, Rouse, ctlVars
<1>2. \A w \in Worker : /\ pc'[w] = "recv" <=> pc[w] = "recv"
                        /\ run[w] # None => pc'[w] = pc[w]
  BY <1>1, NotifyHands DEF RefInv
<1>3. PhaseMap' = PhaseMap
  <2>1. \A k \in Job : k # None
    BY RunQAssumption DEF RunQAssumption
  <2>2. \A k \in Job : PhaseOf(k)' = PhaseOf(k)
    BY <1>1, <1>2, <2>1, PhaseKept
  <2> QED
    BY <2>2, PhaseMapKept
<1>4. ASSUME NEW k \in Job
      PROVE  color'[k] = "TIMEOUT" <=> color[k] = "TIMEOUT"
  BY DEF Post, Rouse, RefInv, TypeOK
<1>5. ArmedMap' = ArmedMap
  <2>1. \A k \in Job : (k \in table /\ Ticked(k))' <=> k \in table /\ Ticked(k)
    BY <1>1, <1>2, <1>4 DEF Ticked
  <2> QED
    BY <2>1, ArmedMapKept
<1>6. ShutMap' = ShutMap
  BY <1>1, ShutMapKept
<1>7. Contract!Open(j)
  BY <1>1, OpenFacts
<1> QED
  BY <1>1, <1>3, <1>5, <1>6, <1>7 DEF Contract!Accept

(* A tick of a job that is being given one, or has just run, is forgotten. *)
LEMMA TimeoutRef ==
  ASSUME RefInv, RefInv', NEW j \in Job, JobTimeout(j)
  PROVE  Contract!Arm(j) \/ UNCHANGED Contract!cvars
<1>1. /\ j \in table
      /\ UNCHANGED <<table, live, born, starting, queue, sent, stopped, rjob, run, msg>>
      /\ UNCHANGED pc \/ Notify
      /\ color'[j] = "TIMEOUT" /\ \A k \in Job : k # j => color'[k] = color[k]
  BY DEF JobTimeout, Rouse, ctlVars, RefInv, TypeOK
<1>2. \A w \in Worker : /\ pc'[w] = "recv" <=> pc[w] = "recv"
                        /\ run[w] # None => pc'[w] = pc[w]
  BY <1>1, NotifyHands DEF RefInv
<1>3. PhaseMap' = PhaseMap
  <2>1. \A k \in Job : k # None
    BY RunQAssumption DEF RunQAssumption
  <2>2. \A k \in Job : PhaseOf(k)' = PhaseOf(k)
    BY <1>1, <1>2, <2>1, PhaseKept
  <2> QED
    BY <2>2, PhaseMapKept
<1>4. ShutMap' = ShutMap
  BY <1>1, ShutMapKept
<1>5. /\ Contract!Open(j) /\ j \in live /\ rjob # j
  BY <1>1, OpenFacts
<1>6. \A k \in Job : k # j =>
        ((k \in table /\ Ticked(k))' <=> k \in table /\ Ticked(k))
  BY <1>1, <1>2 DEF Ticked
<1>7. CASE \A w \in Worker : run[w] = j => pc[w] = "recv"
  <2>1. Ticked(j)'
    BY <1>1, <1>2, <1>7 DEF Ticked
  <2>2. ArmedMap' = [ArmedMap EXCEPT ![j] = TRUE]
    BY <1>1, <1>6, <2>1 DEF ArmedMap
  <2>3. PhaseOf(j) \in {"starting", "idle", "receiving"}
    <3>1. CASE j \in starting
      BY <3>1 DEF RefInv, PhaseIs
    <3>2. CASE Held(j)
      BY <1>5, <1>7, <3>2 DEF Held, RefInv, PhaseIs
    <3>3. CASE j \notin starting /\ ~Held(j)
      BY <1>5, <3>3 DEF RefInv, PhaseIs
    <3> QED
      BY <3>1, <3>2, <3>3
  <2> QED
    BY <1>1, <1>3, <1>4, <1>5, <2>2, <2>3 DEF Contract!Arm, PhaseMap
<1>8. CASE ~\A w \in Worker : run[w] = j => pc[w] = "recv"
  <2>1. ~Ticked(j) /\ ~Ticked(j)'
    BY <1>1, <1>2, <1>8 DEF Ticked
  <2>2. ArmedMap' = ArmedMap
    <3>1. \A k \in Job : (k \in table /\ Ticked(k))' <=> k \in table /\ Ticked(k)
      BY <1>6, <2>1
    <3> QED
      BY <3>1, ArmedMapKept
  <2> QED
    BY <1>1, <1>3, <1>4, <2>2 DEF Contract!cvars
<1> QED
  BY <1>7, <1>8

LEMMA CloseRef ==
  ASSUME RefInv, RefInv', NEW j \in Job, CloseJob(j)
  PROVE  Contract!Shut(j)
<1>1. /\ j \in table /\ table' = table \ {j}
      /\ UNCHANGED <<live, born, starting, queue, sent, stopped, rjob, run, msg>>
      /\ Notify
      /\ \A k \in Job : k # j => color'[k] = color[k]
  BY DEF CloseJob, Unlist, ctlVars, histVars, RefInv, TypeOK
<1>2. \A w \in Worker : /\ pc'[w] = "recv" <=> pc[w] = "recv"
                        /\ run[w] # None => pc'[w] = pc[w]
  BY <1>1, NotifyHands DEF RefInv
<1>3. PhaseMap' = PhaseMap
  <2>1. \A k \in Job : k # None
    BY RunQAssumption DEF RunQAssumption
  <2>2. \A k \in Job : PhaseOf(k)' = PhaseOf(k)
    BY <1>1, <1>2, <2>1, PhaseKept
  <2> QED
    BY <2>2, PhaseMapKept
<1>4. Contract!Open(j) /\ j \in born
  BY <1>1, OpenFacts
<1>5. Contract!Close(j)
  <2>1. \A k \in Job : k # j =>
          ((k \in table /\ Ticked(k))' <=> k \in table /\ Ticked(k))
    BY <1>1, <1>2 DEF Ticked
  <2> QED
    BY <1>1, <1>4, <2>1, CloseFacts
<1> QED
  BY <1>1, <1>3, <1>4, <1>5 DEF Contract!Shut

(* A step that touches no job, and moves only workers with no job in hand. *)
LEMMA Unseen ==
  ASSUME UNCHANGED <<table, live, born, starting, color, queue, sent, rjob, run, msg>>,
         \A w \in Worker : /\ pc'[w] = "recv" <=> pc[w] = "recv"
                           /\ run[w] # None => pc'[w] = pc[w]
  PROVE  UNCHANGED <<PhaseMap, ShutMap, queue, sent, ArmedMap>>
<1>1. \A k \in Job : k # None
  BY RunQAssumption DEF RunQAssumption
<1>2. \A k \in Job : PhaseOf(k)' = PhaseOf(k)
  BY <1>1, PhaseKept
<1>3. PhaseMap' = PhaseMap
  BY <1>2, PhaseMapKept
<1>4. ShutMap' = ShutMap
  BY ShutMapKept
<1>5. ArmedMap' = ArmedMap
  <2>1. \A k \in Job : (k \in table /\ Ticked(k))' <=> k \in table /\ Ticked(k)
    BY DEF Ticked
  <2> QED
    BY <2>1, ArmedMapKept
<1> QED
  BY <1>3, <1>4, <1>5

LEMMA HaltRef ==
  ASSUME RefInv, RunQStop
  PROVE  Contract!Halt
<1>1. \A w \in Worker : /\ pc'[w] = "recv" <=> pc[w] = "recv"
                        /\ run[w] # None => pc'[w] = pc[w]
  BY NotifyHands DEF RunQStop, RefInv
<1> QED
  BY <1>1, Unseen DEF RunQStop, jobVars, histVars, Contract!Halt

-----------------------------------------------------------------------------
(* The worker's steps that no job sees. *)
LEMMA MoveRef ==
  ASSUME RefInv, NEW w \in Worker,
         \/ EnterLoop(w) \/ LeaveLoop(w) \/ AwaitJob(w) \/ SpuriousWake(w) \/ Rewake(w)
  PROVE  UNCHANGED Contract!cvars
<1>1. /\ UNCHANGED <<table, live, born, starting, color, queue, sent, rjob, run, msg,
                     stopped>>
      /\ run[w] = None
  BY DEF EnterLoop, LeaveLoop, AwaitJob, SpuriousWake, Rewake, jobVars, ctlVars,
         histVars, RefInv, HandsFull
<1>2. \A v \in Worker : /\ pc'[v] = "recv" <=> pc[v] = "recv"
                        /\ run[v] # None => pc'[v] = pc[v]
  BY <1>1 DEF EnterLoop, LeaveLoop, AwaitJob, SpuriousWake, Rewake, RefInv, TypeOK
<1> QED
  BY <1>1, <1>2, Unseen DEF Contract!cvars

(* A closed job out of the table is stopped: by a worker or by a reset.    *)
LEMMA StopRef ==
  ASSUME RefInv, NEW j \in Job, PhaseOf(j) = "idle", PhaseOf(j)' = "stopping",
         \A k \in Job : k # j => PhaseOf(k)' = PhaseOf(k),
         j \notin table \/ stopped,
         j \in born, born' = born, table' = table \ {j},
         \A k \in Job : k # j =>
           ((k \in table /\ Ticked(k))' <=> k \in table /\ Ticked(k)),
         UNCHANGED <<queue, sent, stopped>>
  PROVE  Contract!Stop(j)
<1>1. Contract!Become(j, "stopping")
  BY BecomeFacts
<1>2. Contract!Close(j)
  BY CloseFacts
<1> QED
  BY <1>1, <1>2 DEF Contract!Stop, PhaseMap, ShutMap

LEMMA TakeJobRef ==
  ASSUME RefInv, RefInv', NEW w \in Worker, TakeJob(w)
  PROVE  \/ \E j \in Job : Contract!Stop(j) \/ Contract!Receive(j)
         \/ UNCHANGED Contract!cvars
<1>0. PICK j \in Job : j = Head(fifo) /\ j \in Elements(fifo)
  BY PopFacts DEF TakeJob, RefInv, TypeOK
<1>1. /\ pc[w] = "top" /\ ~stopped /\ run[w] = None /\ j # None
      /\ UNCHANGED <<table, live, born, starting, color, stopped, rjob, sent>>
      /\ run'[w] = j
      /\ \A v \in Worker : v # w => /\ run'[v] = run[v] /\ pc'[v] = pc[v]
                                    /\ msg'[v] = msg[v]
  <2>1. /\ pc[w] = "top" /\ ~stopped /\ j # None
        /\ UNCHANGED <<table, live, born, starting, color, stopped, rjob, sent>>
    BY <1>0, RunQAssumption DEF RunQAssumption, TakeJob, ctlVars
  <2>2. run[w] = None
    BY <2>1 DEF RefInv, HandsFull
  <2>3. /\ run' = [run EXCEPT ![w] = j]
        /\ \E p \in {"stop", "recv"} : pc' = [pc EXCEPT ![w] = p]
        /\ \E x : msg' = [msg EXCEPT ![w] = x]
    BY <1>0 DEF TakeJob, CallStop
  <2>4. /\ run'[w] = j
        /\ \A v \in Worker : v # w => run'[v] = run[v] /\ pc'[v] = pc[v] /\ msg'[v] = msg[v]
    BY <2>3 DEF RefInv, TypeOK
  <2> QED
    BY <2>1, <2>2, <2>4
<1>2. j \in live /\ j \in born /\ j \notin starting /\ rjob # j /\ ~Held(j)
  BY <1>0 DEF RefInv, PlaceInv, NoDangling, OnePlace, Exclusive, InFifo
<1>3. PhaseOf(j) = "idle"
  BY <1>2 DEF RefInv, PhaseIs
<1>4. \A k \in Job : k # j => PhaseOf(k)' = PhaseOf(k)
  <2>1. \A k \in Job : k # None
    BY RunQAssumption DEF RunQAssumption
  <2>2. ASSUME NEW k \in Job, k # j
        PROVE  /\ \A v \in Worker : run'[v] = k <=> run[v] = k
               /\ \A v \in Worker : run[v] = k => pc'[v] = pc[v] /\ msg'[v] = msg[v]
    BY <1>1, <2>1, <2>2
  <2> QED
    BY <1>1, <2>2, PhaseKept
<1>5. ShutMap' = ShutMap
  BY <1>1, ShutMapKept
<1>6. ASSUME NEW k \in Job, k # j
      PROVE  (k \in table /\ Ticked(k))' <=> k \in table /\ Ticked(k)
  BY <1>1, <1>6, RunQAssumption DEF RunQAssumption, Ticked
<1>7. CASE IsClosed(j)
  <2>1. /\ pc'[w] = "stop" /\ UNCHANGED <<queue, sent>>
    BY <1>0, <1>7 DEF TakeJob, CallStop, RefInv, TypeOK
  <2>2. PhaseOf(j)' = "stopping"
    BY <1>1, <1>2, <2>1 DEF RefInv, PhaseIs
  <2>3. j \notin table
    BY <1>2, <1>7 DEF IsClosed, RefInv, PlaceInv, ClosedIffUnlisted
  <2>4. table' = table \ {j}
    BY <1>1, <2>3
  <2> QED
    BY <1>1, <1>2, <1>3, <1>4, <1>6, <2>1, <2>2, <2>3, <2>4, StopRef
<1>8. CASE ~IsClosed(j)
  <2>1. /\ pc'[w] = "recv"
        /\ \/ queue[j] = <<>> /\ msg'[w] = 0 /\ UNCHANGED queue
           \/ /\ queue[j] # <<>> /\ msg'[w] = Head(queue[j])
              /\ queue' = [queue EXCEPT ![j] = Tail(@)]
    BY <1>0, <1>8 DEF TakeJob, RefInv, TypeOK
  <2>2. Ticked(j)' <=> Ticked(j)
    BY <1>0, <1>1, <1>2, <2>1 DEF Ticked, Held
  <2>3. ArmedMap' = ArmedMap
    BY <1>1, <1>6, <2>2, ArmedMapKept
  <2>4. CASE queue[j] = <<>>
    <3>1. PhaseOf(j)' = "idle"
      BY <1>1, <1>2, <2>1, <2>4 DEF RefInv, PhaseIs
    <3>2. PhaseMap' = PhaseMap
      BY <1>3, <1>4, <3>1, PhaseMapKept
    <3> QED
      BY <1>1, <1>5, <2>1, <2>3, <2>4, <3>2 DEF Contract!cvars
  <2>5. CASE queue[j] # <<>>
    <3>1. msg'[w] # 0
      <4>1. HoldsFrom(queue[j], got[j], sent[j])
        BY <1>2 DEF RefInv, JobInv, MailKept, MailInOrder, HoldsFrom
      <4>2. queue[j] \in Seq(Nat) /\ got[j] \in Nat /\ sent[j] \in Nat
        BY DEF RefInv, TypeOK
      <4>3. Head(queue[j]) = got[j] + 1
        BY <2>5, <4>1, <4>2, TailHolds
      <4> QED
        BY <2>1, <2>5, <4>2, <4>3
    <3>2. PhaseOf(j)' = "receiving"
      BY <1>1, <1>2, <2>1, <3>1 DEF RefInv, PhaseIs
    <3>3. Contract!Become(j, "receiving")
      BY <1>4, <3>2, BecomeFacts
    <3>4. j \in table
      BY <1>2, <1>8 DEF IsClosed, RefInv, PlaceInv, ClosedIffUnlisted
    <3>5. Contract!Open(j)
      BY <3>4, OpenFacts
    <3>6. Contract!Receive(j)
      BY <1>1, <1>3, <1>5, <2>1, <2>3, <2>5, <3>3, <3>5 DEF Contract!Receive, PhaseMap
    <3> QED
      BY <3>6
  <2> QED
    BY <2>4, <2>5
<1> QED
  BY <1>7, <1>8

LEMMA RecvDoneRef ==
  ASSUME RefInv, RefInv', NEW w \in Worker, RecvDone(w) \/ TimeoutRecvDone(w)
  PROVE  \/ \E j \in Job : Contract!Tick(j) \/ Contract!Return(j)
         \/ UNCHANGED Contract!cvars
<1>0. PICK j \in Job : j = run[w] /\ j # None /\ j \in live
  BY DEF RecvDone, TimeoutRecvDone, RefInv, TypeOK, HandsFull, PlaceInv, NoDangling
<1>1. /\ UNCHANGED <<table, live, born, starting, color, stopped, rjob, sent, queue,
                     run, msg>>
      /\ \A v \in Worker : v # w => pc'[v] = pc[v]
      /\ pc[w] \in {"recv", "tmo"}
  BY DEF RecvDone, TimeoutRecvDone, jobVars, ctlVars, histVars, RefInv, TypeOK
<1>2. \A v \in Worker : run[v] = j => v = w
  BY <1>0 DEF RefInv, PlaceInv, OnePlace, Exclusive
<1>3. \A k \in Job : k # j => PhaseOf(k)' = PhaseOf(k)
  BY <1>0, <1>1, PhaseKept
<1>4. ShutMap' = ShutMap
  BY <1>1, ShutMapKept
<1>5. ASSUME NEW k \in Job, k # j
      PROVE  (k \in table /\ Ticked(k))' <=> k \in table /\ Ticked(k)
  BY <1>0, <1>1, <1>5 DEF Ticked
<1>6. CASE pc[w] = "recv" /\ color[j] = "TIMEOUT"
  <2>1. pc'[w] = "tmo"
    BY <1>0, <1>6 DEF RecvDone, TimeoutRecvDone, RefInv, TypeOK
  <2>2. PhaseOf(j) \in {"receiving", "idle"} /\ PhaseOf(j)' = "ticking"
    BY <1>0, <1>1, <1>6, <2>1 DEF RefInv, PhaseIs
  <2>3. Contract!Become(j, "ticking")
    BY <1>3, <2>2, BecomeFacts
  <2>4. j \in table
    <3>1. rjob # j
      BY <1>0 DEF RefInv, PlaceInv, OnePlace, Exclusive, Held
    <3> QED
      BY <1>0, <1>6, <3>1 DEF RefInv, PlaceInv, ClosedIffUnlisted
  <2>5. Contract!Open(j)
    BY <2>4, OpenFacts
  <2>6. Ticked(j) /\ ~Ticked(j)'
    BY <1>0, <1>1, <1>2, <1>6, <2>1 DEF Ticked
  <2>7. ArmedMap' = [ArmedMap EXCEPT ![j] = FALSE]
    BY <1>5, <2>6 DEF ArmedMap
  <2>8. Contract!Tick(j)
    BY <1>1, <1>4, <2>2, <2>3, <2>4, <2>5, <2>6, <2>7
       DEF Contract!Tick, PhaseMap, ArmedMap
  <2> QED
    BY <2>8
<1>7. CASE pc[w] = "tmo" \/ color[j] # "TIMEOUT"
  <2>1. pc'[w] = "post"
    BY <1>0, <1>7 DEF RecvDone, TimeoutRecvDone, RefInv, TypeOK
  <2>2. PhaseOf(j)' = "idle"
    BY <1>0, <1>1, <2>1 DEF RefInv, PhaseIs
  <2>3. ~Ticked(j) /\ ~Ticked(j)'
    BY <1>0, <1>1, <1>7, <2>1 DEF Ticked
  <2>4. ArmedMap' = ArmedMap
    BY <1>5, <2>3, ArmedMapKept
  <2>5. CASE PhaseOf(j) = "idle"
    <3>1. PhaseMap' = PhaseMap
      BY <1>3, <2>2, <2>5, PhaseMapKept
    <3> QED
      BY <1>1, <1>4, <2>4, <3>1 DEF Contract!cvars
  <2>6. CASE PhaseOf(j) \in {"receiving", "ticking"}
    <3>1. Contract!Become(j, "idle")
      BY <1>3, <2>2, BecomeFacts
    <3>2. Contract!Return(j)
      BY <1>1, <1>4, <2>4, <2>6, <3>1 DEF Contract!Return, PhaseMap
    <3> QED
      BY <3>2
  <2>7. PhaseOf(j) \in {"idle", "receiving", "ticking"}
    BY <1>0, <1>1 DEF RefInv, PhaseIs
  <2> QED
    BY <2>5, <2>6, <2>7
<1> QED
  BY <1>1, <1>6, <1>7

LEMMA RequeueRef ==
  ASSUME RefInv, RefInv', NEW w \in Worker, Requeue(w)
  PROVE  (\E j \in Job : Contract!Stop(j)) \/ UNCHANGED Contract!cvars
<1>0. PICK j \in Job : j = run[w] /\ j # None /\ j \in live
  BY DEF Requeue, RefInv, TypeOK, HandsFull, PlaceInv, NoDangling
<1>1. /\ UNCHANGED <<table, live, born, starting, stopped, rjob, sent, queue>>
      /\ pc[w] = "post"
      /\ \A v \in Worker : v # w => /\ run'[v] = run[v] /\ pc'[v] = pc[v]
                                    /\ msg'[v] = msg[v]
      /\ \A k \in Job : k # j => color'[k] = color[k]
  BY <1>0 DEF Requeue, CallStop, ctlVars, RefInv, TypeOK
<1>2. /\ j \in born /\ j \notin starting /\ rjob # j
      /\ \A v \in Worker : run[v] = j => v = w
  BY <1>0 DEF RefInv, PlaceInv, NoDangling, OnePlace, Exclusive, Held
<1>3. PhaseOf(j) = "idle"
  BY <1>0, <1>1 DEF RefInv, PhaseIs
<1>4. run'[w] = j \/ run'[w] = None
  BY <1>0 DEF Requeue, CallStop, RefInv, TypeOK
<1>5. \A k \in Job : k # None
  BY RunQAssumption DEF RunQAssumption
<1>6. \A k \in Job : k # j => PhaseOf(k)' = PhaseOf(k)
  BY <1>0, <1>1, <1>4, <1>5, PhaseKept
<1>7. ASSUME NEW k \in Job, k # j
      PROVE  (k \in table /\ Ticked(k))' <=> k \in table /\ Ticked(k)
  BY <1>0, <1>1, <1>4, <1>5, <1>7 DEF Ticked
<1>8. CASE IsClosed(j)
  <2>1. pc'[w] = "stop" /\ run'[w] = j
    BY <1>0, <1>8 DEF Requeue, CallStop, RefInv, TypeOK
  <2>2. PhaseOf(j)' = "stopping"
    BY <1>0, <1>1, <2>1 DEF RefInv, PhaseIs
  <2>3. j \notin table
    BY <1>0, <1>2, <1>8 DEF IsClosed, RefInv, PlaceInv, ClosedIffUnlisted
  <2>4. table' = table \ {j}
    BY <1>1, <2>3
  <2> QED
    BY <1>1, <1>2, <1>3, <1>6, <1>7, <2>2, <2>3, <2>4, StopRef
<1>9. CASE ~IsClosed(j)
  <2>1. run'[w] = None /\ color'[j] # "TIMEOUT"
    BY <1>0, <1>9 DEF Requeue, RestColor, RefInv, TypeOK
  <2>2. (j \in live \ starting /\ rjob # j /\ ~Held(j))'
    BY <1>0, <1>1, <1>2, <2>1 DEF Held
  <2>3. PhaseOf(j)' = "idle"
    BY <2>2 DEF RefInv, PhaseIs
  <2>4. PhaseMap' = PhaseMap
    BY <1>3, <1>6, <2>3, PhaseMapKept
  <2>5. ~Ticked(j) /\ ~Ticked(j)'
    BY <1>0, <1>1, <2>1 DEF Ticked
  <2>6. ArmedMap' = ArmedMap
    BY <1>7, <2>5, ArmedMapKept
  <2>7. ShutMap' = ShutMap
    BY <1>1, ShutMapKept
  <2> QED
    BY <1>1, <2>4, <2>6, <2>7 DEF Contract!cvars
<1> QED
  BY <1>8, <1>9

LEMMA StopDoneRef ==
  ASSUME RefInv, RefInv', NEW w \in Worker, StopDone(w)
  PROVE  \E j \in Job : Contract!Free(j)
<1>0. PICK j \in Job : j = run[w] /\ j # None /\ j \in live
  BY DEF StopDone, RefInv, TypeOK, HandsFull, PlaceInv, NoDangling
<1>1. /\ UNCHANGED <<table, born, starting, color, stopped, rjob, sent, msg>>
      /\ live' = live \ {j} /\ DropMessages({j})
      /\ pc[w] = "stop" /\ run'[w] = None
      /\ \A v \in Worker : v # w => run'[v] = run[v] /\ pc'[v] = pc[v]
  BY <1>0 DEF StopDone, ctlVars, histVars, RefInv, TypeOK
<1>2. j \in born /\ j \notin table
  BY <1>0, <1>1 DEF RefInv, PlaceInv, StopsUnlisted
<1>3. PhaseOf(j) = "stopping" /\ PhaseOf(j)' = "gone"
  BY <1>0, <1>1, <1>2 DEF RefInv, PhaseIs
<1>4. \A k \in Job : k # None
  BY RunQAssumption DEF RunQAssumption
<1>5. \A k \in Job : k # j => PhaseOf(k)' = PhaseOf(k)
  BY <1>0, <1>1, <1>4, PhaseKept
<1>6. Contract!Become(j, "gone")
  BY <1>3, <1>5, BecomeFacts
<1>7. queue' = [queue EXCEPT ![j] = <<>>]
  BY <1>1, MailboxDropped DEF RefInv
<1>8. ShutMap' = ShutMap
  BY <1>1, ShutMapKept
<1>9. ArmedMap' = ArmedMap
  <2>1. ASSUME NEW k \in Job
        PROVE  (k \in table /\ Ticked(k))' <=> k \in table /\ Ticked(k)
    BY <1>0, <1>1, <1>2, <1>4 DEF Ticked
  <2> QED
    BY <2>1, ArmedMapKept
<1>10. Contract!Free(j)
  BY <1>1, <1>3, <1>6, <1>7, <1>8, <1>9 DEF Contract!Free, PhaseMap
<1> QED
  BY <1>10

-----------------------------------------------------------------------------
LEMMA ResetStopRef ==
  ASSUME RefInv, RefInv', ResetStop
  PROVE  \E j \in Job : Contract!Stop(j)
<1>0. PICK j \in Job : j = Head(fifo) /\ j \in Elements(fifo)
  BY PopFacts DEF ResetStop, RefInv, TypeOK
<1>1. /\ UNCHANGED <<live, born, starting, color, stopped, queue, sent, run, pc, msg>>
      /\ table' = table \ {j} /\ rjob = None /\ rjob' = j /\ stopped
  BY <1>0 DEF ResetStop, Unlist, loopVars, RefInv, PlaceInv, ResetAlone
<1>2. j \in live /\ j \in born /\ j \notin starting /\ ~Held(j) /\ rjob # j
  BY <1>0 DEF RefInv, PlaceInv, NoDangling, OnePlace, Exclusive, InFifo
<1>3. PhaseOf(j) = "idle" /\ PhaseOf(j)' = "stopping"
  BY <1>1, <1>2 DEF RefInv, PhaseIs
<1>4. \A k \in Job : k # None
  BY RunQAssumption DEF RunQAssumption
<1>5. \A k \in Job : k # j => PhaseOf(k)' = PhaseOf(k)
  BY <1>1, <1>4, PhaseKept
<1>6. \A k \in Job : k # j =>
        ((k \in table /\ Ticked(k))' <=> k \in table /\ Ticked(k))
  BY <1>1 DEF Ticked
<1>7. Contract!Stop(j)
  BY <1>1, <1>2, <1>3, <1>5, <1>6, StopRef
<1> QED
  BY <1>7

LEMMA ResetFreeRef ==
  ASSUME RefInv, RefInv', ResetFree
  PROVE  \E j \in Job : Contract!Free(j)
<1>0. PICK j \in Job : j = rjob
  BY DEF ResetFree, RefInv, TypeOK
<1>1. /\ UNCHANGED <<table, born, starting, color, stopped, sent, run, pc, msg>>
      /\ live' = live \ {j} /\ DropMessages({j}) /\ rjob' = None
  BY <1>0 DEF ResetFree, loopVars, histVars
<1>2. \A k \in Job : k # None
  BY RunQAssumption DEF RunQAssumption
<1>3. j \in live /\ j \in born
  BY <1>0, <1>2 DEF RefInv, PlaceInv, NoDangling
<1>4. PhaseOf(j) = "stopping" /\ PhaseOf(j)' = "gone"
  BY <1>0, <1>1, <1>3 DEF RefInv, PhaseIs
<1>5. \A k \in Job : k # j => PhaseOf(k)' = PhaseOf(k)
  BY <1>0, <1>1, <1>2, PhaseKept
<1>6. Contract!Become(j, "gone")
  BY <1>4, <1>5, BecomeFacts
<1>7. queue' = [queue EXCEPT ![j] = <<>>]
  BY <1>1, MailboxDropped DEF RefInv
<1>8. ShutMap' = ShutMap
  BY <1>1, ShutMapKept
<1>9. ArmedMap' = ArmedMap
  <2>1. ASSUME NEW k \in Job
        PROVE  (k \in table /\ Ticked(k))' <=> k \in table /\ Ticked(k)
    BY <1>1 DEF Ticked
  <2> QED
    BY <2>1, ArmedMapKept
<1>10. Contract!Free(j)
  BY <1>1, <1>4, <1>6, <1>7, <1>8, <1>9 DEF Contract!Free, PhaseMap
<1> QED
  BY <1>10

(* A reset that has drained the run queue finds only sleeping jobs. *)
LEMMA EndResetRef ==
  ASSUME RefInv, RefInv', EndReset
  PROVE  Contract!Purge
<1>1. /\ UNCHANGED <<born, starting, color, sent, run, pc, msg, rjob>>
      /\ live' = live \ table /\ DropMessages(table) /\ rjob = None /\ starting = {}
      /\ table' = {} /\ stopped /\ ~stopped' /\ stopped' = FALSE
      /\ fifo = <<>> /\ resetting
  BY DEF EndReset, loopVars, histVars, RefInv, PlaceInv, ResetAlone
<1>2. \A k \in Job : k # None
  BY RunQAssumption DEF RunQAssumption
<1>3. /\ \A k \in Job : ~Held(k) /\ ~InFifo(k)
      /\ live \subseteq born /\ live \subseteq Job /\ table \subseteq live
  <2>1. \A w \in Worker : run[w] = None
    BY <1>1 DEF RefInv, PlaceInv, ResetAlone, HandsFull
  <2>2. Elements(fifo) = {}
    BY <1>1 DEF Elements
  <2> QED
    BY <1>2, <2>1, <2>2 DEF Held, InFifo, RefInv, PlaceInv, TypeOK, NoDangling
<1>4. live = table
  <2>1. ASSUME NEW k \in live PROVE k \in table
    BY <1>1, <1>2, <1>3, <2>1
       DEF RefInv, PlaceInv, OnePlace, NoneLost, Asleep, ClosedIffUnlisted
  <2> QED
    BY <1>3, <2>1
<1>5. ASSUME NEW k \in Job
      PROVE  /\ PhaseOf(k) = "idle" <=> k \in table
             /\ PhaseOf(k) \in {"unborn", "idle", "gone"}
             /\ PhaseOf(k)' = IF PhaseOf(k) = "idle" THEN "gone" ELSE PhaseOf(k)
  <2>1. CASE k \in table
    <3>1. PhaseOf(k) = "idle"
      BY <1>1, <1>2, <1>3, <1>4, <2>1 DEF RefInv, PhaseIs
    <3>2. PhaseOf(k)' = "gone"
      BY <1>1, <1>3, <1>4, <2>1 DEF RefInv, PhaseIs
    <3> QED
      BY <2>1, <3>1, <3>2
  <2>2. CASE k \in born \ table
    <3>1. PhaseOf(k) = "gone" /\ PhaseOf(k)' = "gone"
      BY <1>1, <1>4, <2>2 DEF RefInv, PhaseIs
    <3> QED
      BY <2>2, <3>1
  <2>3. CASE k \notin born
    <3>1. PhaseOf(k) = "unborn" /\ PhaseOf(k)' = "unborn" /\ k \notin table
      BY <1>1, <1>3, <2>3 DEF RefInv, PhaseIs
    <3> QED
      BY <3>1
  <2> QED
    BY <2>1, <2>2, <2>3
<1>6. \A k \in Job : PhaseMap[k] = PhaseOf(k)
  BY DEF PhaseMap
<1>7. PhaseMap' = [k \in Job |-> IF PhaseMap[k] = "idle" THEN "gone" ELSE PhaseMap[k]]
  BY <1>5, <1>6 DEF PhaseMap
<1>8. ShutMap' = [k \in Job |-> ShutMap[k] \/ PhaseMap[k] = "idle"]
  <2>1. ASSUME NEW k \in Job
        PROVE  (k \in born /\ k \notin table)' <=> ShutMap[k] \/ PhaseMap[k] = "idle"
    BY <1>1, <1>3, <1>4, <1>5, <1>6 DEF ShutMap
  <2> QED
    BY <2>1 DEF ShutMap
<1>9. queue' = [k \in Job |-> IF PhaseMap[k] = "idle" THEN <<>> ELSE queue[k]]
  BY <1>1, <1>5, <1>6 DEF DropMessages
<1>10. ArmedMap' = [k \in Job |-> FALSE]
  BY <1>1 DEF ArmedMap
<1>11. \A k \in Job : PhaseMap[k] \in {"unborn", "idle", "gone"}
  BY <1>5, <1>6
<1> QED
  BY <1>1, <1>7, <1>8, <1>9, <1>10, <1>11 DEF Contract!Purge

LEMMA StepRef ==
  ASSUME RefInv, RefInv', [Next]_vars
  PROVE  [Contract!Next]_Contract!cvars
<1>1. CASE UNCHANGED vars
  BY <1>1, Unseen DEF vars, Contract!cvars
<1>2. CASE Api
  <2>1. CASE \E j \in Job : \/ BeginCreate(j) \/ StartFailed(j) \/ StartDone(j)
                            \/ Send(j) \/ JobTimeout(j) \/ CloseJob(j)
    BY <2>1, CreateRef, FailRef, ReadyRef, PostRef, TimeoutRef, CloseRef
       DEF Send, Contract!Next
  <2>2. CASE \E j \in Job : CreateProxyJob(j)
    BY <2>2, Unseen DEF CreateProxyJob, jobVars, loopVars, histVars, Contract!cvars
  <2>3. CASE SendRemote
    <3>1. proxy \in Job
      BY <2>3 DEF SendRemote, RefInv, TypeOK
    <3> QED
      BY <2>3, <3>1, PostRef DEF SendRemote, Contract!Next
  <2>4. CASE RunQStop
    BY <2>4, HaltRef DEF Contract!Next
  <2> QED
    BY <1>2, <2>1, <2>2, <2>3, <2>4 DEF Api
<1>3. CASE \E w \in Worker : Loop(w) \/ SpuriousWake(w)
  BY <1>3, MoveRef, TakeJobRef, RecvDoneRef, RequeueRef, StopDoneRef
     DEF Loop, Contract!Next
<1>4. CASE Reset
  <2>1. CASE BeginReset
    BY <2>1, Unseen DEF BeginReset, jobVars, loopVars, histVars, Contract!cvars
  <2> QED
    BY <1>4, <2>1, ResetStopRef, ResetFreeRef, EndResetRef DEF Reset, Contract!Next
<1> QED
  BY <1>1, <1>2, <1>3, <1>4 DEF Next

LEMMA InitRef == Init => Contract!Init
<1> SUFFICES ASSUME Init PROVE Contract!Init
  OBVIOUS
<1>1. born = {} /\ table = {} /\ starting = {} /\ live = {}
  BY DEF Init
<1>2. \A k \in Job : PhaseOf(k) = "unborn"
  BY <1>1 DEF PhaseOf
<1>3. /\ PhaseMap = [k \in Job |-> "unborn"]
      /\ ShutMap = [k \in Job |-> FALSE] /\ ArmedMap = [k \in Job |-> FALSE]
  BY <1>1, <1>2 DEF PhaseMap, ShutMap, ArmedMap
<1> QED
  BY <1>3 DEF Init, Contract!Init

(* For every number of jobs, workers and messages the scheduler implements *)
(* JobContract: whatever worker runs a job, and whatever the API calls,    *)
(* ticks and resets do meanwhile, its author sees an actor that starts     *)
(* once, receives its letters one at a time in the order of the sends, is  *)
(* ticked only when armed, and is stopped last and once.                   *)
THEOREM ContractKept == Spec => KeepsContract
<1>1. TypeOK /\ PlaceInv => \A j \in Job : PhaseIs(j)
  BY PhaseFacts
<1>2. RefInv /\ RefInv' /\ [Next]_vars => [Contract!Next]_Contract!cvars
  BY StepRef
<1> QED
  BY <1>1, <1>2, InitRef, JobInvariant, PTL DEF Spec, RefInv, KeepsContract,
     Contract!Spec
=============================================================================
