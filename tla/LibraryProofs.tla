---------------------------- MODULE LibraryProofs -----------------------------
(* Theorems about the libraries that MCLibraries runs side by side, each for every
   value of its constants: the Windows condition variable, joins alone and through
   a thread group, coroutines, the IRPs of the completion ports, files of Lua,
   the allocators, the ring buffer, the hash map, the memory of the table of IRPs,
   resource packages. *)
EXTENDS RingBuffer, HashMap, IrpTable, CondVar, ThreadGroup, Coroutine, Iocp, LuaFiles, Memory,
        Resource, FiniteSetTheorems, WellFoundedInduction, TLAPS

(* Induction over numbers: a counterexample has a least one. *)
LEMMA LeastElement ==
  ASSUME NEW T, T \subseteq Nat, T # {}
  PROVE  \E x \in T : \A y \in T : x <= y
<1> DEFINE R == {ss \in Nat \X Nat : ss[1] < ss[2]}
<1>1. IsWellFoundedOn(R, Nat)
  BY NatLessThanWellFounded DEF OpToRel
<1>2. \A x, y \in Nat : x < y => <<x, y>> \in R
  OBVIOUS
<1> HIDE DEF R
<1>3. PICK x \in T : \A y \in T : ~ (<<y, x>> \in R)
  BY <1>1, WFMin
<1>4. \A y \in T : x <= y
  <2> SUFFICES ASSUME NEW y \in T, ~ (x <= y) PROVE FALSE
    OBVIOUS
  <2>1. x \in Nat /\ y \in Nat /\ y < x
    OBVIOUS
  <2> QED
    BY <1>2, <1>3, <2>1
<1> QED
  BY <1>4

-----------------------------------------------------------------------------
(* The broadcast of the condition variable has an answer to wait for. *)
At == {"out", "in", "count", "release", "wait", "countOut", "answer", "relock",
       "releaseT", "waitT", "relockT", "countOutT", "answerT",
       "notify", "notifyAll", "test", "reset", "set", "await"}
Broadcast == {"test", "reset", "set", "await"}
Broadcasting(t) == TestWaiters(t) \/ ResetAnswer(t) \/ ReleaseOne(t) \/ Answered(t)
Counted == {u \in Waiters : at[u] \in {"release", "wait", "countOut",
                                       "releaseT", "waitT", "relockT", "countOutT"}}

CvTypeOK ==
  /\ event \in BOOLEAN /\ notifyAllEvent \in BOOLEAN /\ late \in BOOLEAN
  /\ at \in [Waiters -> At]

(* NotifyMutex is held by the one thread that broadcasts. *)
OneBroadcast == \A t \in Waiters : at[t] \in Broadcast => notifyMutex = t

(* BlockThreads counts the threads that have entered a wait and not left it. *)
CountIsRight == blockThreads = Cardinality(Counted)

(* After ResetEvent somebody has still to answer, or has answered. *)
AnswerLeft ==
  \A t \in Waiters :
    at[t] = "set" /\ ~late =>
      notifyAllEvent \/ \E u \in Waiters : u \in Counted \/ at[u] \in {"answer", "answerT"}

(* After its SetEvent somebody will answer, or has answered. *)
AnswerDue ==
  \A t \in Waiters :
    at[t] = "await" /\ ~late => notifyAllEvent \/ \E u \in Waiters : WillAnswer(u)

CvInv == CvTypeOK /\ OneBroadcast /\ CountIsRight /\ AnswerLeft /\ AnswerDue

LEMMA InitCv == CvInit => CvInv
<1> SUFFICES ASSUME CvInit PROVE CvInv
  OBVIOUS
<1>1. CvTypeOK /\ OneBroadcast /\ AnswerLeft /\ AnswerDue
  BY DEF CvInit, CvTypeOK, At, OneBroadcast, Broadcast, AnswerLeft, AnswerDue
<1>2. Counted = {}
  BY DEF CvInit, Counted
<1>3. CountIsRight
  BY <1>2, FS_EmptySet DEF CvInit, CountIsRight
<1> QED
  BY <1>1, <1>3 DEF CvInv

(* A step of one thread keeps the count if it changes it by itself. *)
LEMMA CountStep ==
  ASSUME CvTypeOK, CountIsRight, NEW t \in Waiters, NEW x \in At,
         at' = [at EXCEPT ![t] = x],
         blockThreads' = IF t \in Counted
                         THEN IF t \in Counted' THEN blockThreads ELSE blockThreads - 1
                         ELSE IF t \in Counted' THEN blockThreads + 1 ELSE blockThreads
  PROVE  CountIsRight'
<1>1. IsFiniteSet(Counted) /\ Cardinality(Counted) \in Nat
  BY CondVarAssumption, FS_Subset, FS_CardinalityType DEF Counted
<1>2. Counted' = IF t \in Counted' THEN Counted \cup {t} ELSE Counted \ {t}
  BY DEF Counted, CvTypeOK
<1>3. CASE t \in Counted'
  BY <1>1, <1>2, <1>3, FS_AddElement DEF CountIsRight
<1>4. CASE t \notin Counted'
  BY <1>1, <1>2, <1>4, FS_RemoveElement DEF CountIsRight
<1> QED
  BY <1>3, <1>4

(* Nobody is counted only if BlockThreads is zero. *)
LEMMA CountedSome ==
  ASSUME CountIsRight, blockThreads # 0
  PROVE  \E u \in Waiters : u \in Counted
BY CondVarAssumption, FS_EmptySet DEF CountIsRight, Counted

(* A thread in a wait goes on: it was going to answer, and still is or has. *)
LEMMA WaiterStep ==
  ASSUME CvInv, NEW t \in Waiters, Waiting(t)
  PROVE  CvInv'
<1> USE DEF CvInv
<1>1. CvTypeOK'
  BY DEF CvTypeOK, At, Waiting, Step, CountIn, Release, Woken, CountOut, Answer, Signal, Relock,
         ReleaseT, WokenT, RelockT, CountOutT, AnswerT
<1>2. OneBroadcast'
  BY DEF CvTypeOK, OneBroadcast, Broadcast, Waiting, Step, CountIn, Release, Woken, CountOut,
         Answer, Relock, ReleaseT, WokenT, RelockT, CountOutT, AnswerT
<1>3. CountIsRight'
  <2>1. PICK x \in At : /\ at' = [at EXCEPT ![t] = x]
                        /\ blockThreads' = IF t \in Counted
                             THEN IF t \in Counted' THEN blockThreads ELSE blockThreads - 1
                             ELSE IF t \in Counted' THEN blockThreads + 1 ELSE blockThreads
    BY DEF CvTypeOK, At, Counted, Waiting, Step, CountIn, Release, Woken, CountOut, Answer,
           Relock, ReleaseT, WokenT, RelockT, CountOutT, AnswerT
  <2> QED
    BY <2>1, CountStep
<1>4. AnswerLeft'
  BY DEF CvTypeOK, AnswerLeft, Counted, Waiting, Step, CountIn, Release, Woken, CountOut,
         Answer, Signal, Relock, ReleaseT, WokenT, RelockT, CountOutT, AnswerT
<1>5. AnswerDue'
  BY DEF CvTypeOK, AnswerDue, WillAnswer, Waiting, Step, CountIn, Release, Woken, CountOut,
         Answer, Signal, Relock, ReleaseT, WokenT, RelockT, CountOutT, AnswerT
<1> QED
  BY <1>1, <1>2, <1>3, <1>4, <1>5

(* The broadcaster: AnswerLeft is established by ResetAnswer, and turned into
   AnswerDue by setting the event. *)
LEMMA BroadcastStep ==
  ASSUME CvInv, NEW t \in Waiters, Broadcasting(t)
  PROVE  CvInv'
<1> USE DEF CvInv
<1>1. CvTypeOK'
  BY DEF CvTypeOK, At, Broadcasting, Step, TestWaiters, ResetAnswer, ReleaseOne,
         Answered, Back
<1>2. OneBroadcast'
  BY DEF CvTypeOK, OneBroadcast, Broadcast, Broadcasting, Step, TestWaiters, ResetAnswer,
         ReleaseOne, Answered, Back
<1>3. CountIsRight'
  <2>1. PICK x \in At : /\ at' = [at EXCEPT ![t] = x] /\ blockThreads' = blockThreads
                        /\ t \notin Counted /\ t \notin Counted'
    BY DEF CvTypeOK, At, Counted, Broadcasting, Step, TestWaiters, ResetAnswer, ReleaseOne,
           Answered, Back
  <2> QED
    BY <2>1, CountStep
<1>4. CASE TestWaiters(t) \/ Answered(t)
  <2>1. AnswerLeft'
    BY <1>4 DEF CvTypeOK, AnswerLeft, Counted, Step, TestWaiters, Answered, Back
  <2>2. AnswerDue'
    BY <1>4 DEF CvTypeOK, AnswerDue, WillAnswer, Step, TestWaiters, Answered, Back
  <2> QED
    BY <1>1, <1>2, <1>3, <2>1, <2>2
<1>5. CASE ResetAnswer(t)
  <2>1. \A u \in Waiters : at'[u] \notin {"await"}
    BY <1>5 DEF CvTypeOK, OneBroadcast, Broadcast, Step, ResetAnswer
  <2>2. ~late' => \E u \in Waiters : (u \in Counted \/ at[u] \in {"answer", "answerT"}) /\ u # t
    <3>1. t \notin Counted /\ at[t] \notin {"answer", "answerT"}
      BY <1>5 DEF Counted, Step, ResetAnswer
    <3> QED
      BY <1>5, <3>1, CountedSome DEF ResetAnswer
  <2>3. AnswerLeft'
    BY <1>5, <2>2 DEF CvTypeOK, AnswerLeft, Counted, Step, ResetAnswer
  <2> QED
    BY <1>1, <1>2, <1>3, <2>1, <2>3 DEF AnswerDue
<1>6. CASE ReleaseOne(t)
  <2>1. \A u \in Waiters : at'[u] # "set"
    BY <1>6 DEF CvTypeOK, OneBroadcast, Broadcast, Step, ReleaseOne
  <2>2. AnswerDue'
    <3> SUFFICES ASSUME NEW s \in Waiters, at'[s] = "await", ~late'
                 PROVE  notifyAllEvent' \/ \E u \in Waiters : WillAnswer(u)'
      BY DEF AnswerDue
    <3>1. s = t /\ at[t] = "set" /\ ~late
      BY <1>6 DEF CvTypeOK, OneBroadcast, Broadcast, Step, ReleaseOne
    <3>2. CASE notifyAllEvent
      BY <1>6, <3>2 DEF ReleaseOne
    <3>3. CASE ~notifyAllEvent
      <4>1. PICK u \in Waiters : u \in Counted \/ at[u] \in {"answer", "answerT"}
        BY <3>1, <3>3 DEF AnswerLeft
      <4>2. at'[u] = at[u] /\ event'
        BY <1>6, <3>1, <4>1 DEF CvTypeOK, Counted, Step, ReleaseOne
      <4> QED
        BY <4>1, <4>2 DEF Counted, WillAnswer
    <3> QED
      BY <3>2, <3>3
  <2> QED
    BY <1>1, <1>2, <1>3, <2>1, <2>2 DEF AnswerLeft
<1> QED
  BY <1>4, <1>5, <1>6 DEF Broadcasting

(* What the callers do, and the calls themselves. *)
LEMMA CallerStep ==
  ASSUME CvInv, NEW t \in Waiters,
         \/ EnterMutex(t) \/ LeaveMutex(t) \/ CallWait(t) \/ CallWaitTimeout(t)
         \/ CallNotify(t) \/ SetTheEvent(t) \/ CallNotifyAll(t) \/ LockNotify(t)
  PROVE  CvInv'
<1> USE DEF CvInv
<1>1. CvTypeOK'
  BY DEF CvTypeOK, At, Step, EnterMutex, LeaveMutex, CallWait, CallWaitTimeout, CallNotify, SetTheEvent,
         CallNotifyAll, LockNotify, Call, Back
<1>2. OneBroadcast'
  BY CondVarAssumption
  DEF CvTypeOK, OneBroadcast, Broadcast, Step, EnterMutex, LeaveMutex, CallWait,
      CallWaitTimeout, CallNotify, SetTheEvent, CallNotifyAll, LockNotify, Call, Back
<1>3. CountIsRight'
  <2>1. PICK x \in At : /\ at' = [at EXCEPT ![t] = x] /\ t \notin Counted
                        /\ blockThreads' = IF t \in Counted' THEN blockThreads + 1
                                           ELSE blockThreads
    BY DEF CvTypeOK, At, Counted, Step, EnterMutex, LeaveMutex, CallWait, CallWaitTimeout,
           CallNotify, SetTheEvent, CallNotifyAll, LockNotify, Call, Back
  <2> QED
    BY <2>1, CountStep
<1>4. AnswerLeft'
  BY DEF CvTypeOK, AnswerLeft, Counted, Step, EnterMutex, LeaveMutex, CallWait,
         CallWaitTimeout, CallNotify, SetTheEvent, CallNotifyAll, LockNotify, Call, Back
<1>5. AnswerDue'
  BY DEF CvTypeOK, AnswerDue, WillAnswer, Step, EnterMutex, LeaveMutex, CallWait,
         CallWaitTimeout, CallNotify, SetTheEvent, CallNotifyAll, LockNotify, Call, Back
<1> QED
  BY <1>1, <1>2, <1>3, <1>4, <1>5

(* A broadcast that waits is answered, whatever plain and timed waits, other
   broadcasts and notifications go on: LemonConditionVariableNotifyAll (sys/thread.cpp)
   for any finite set of threads.  It blocks for ever in the two cases AnswerComes
   names and in no other: its ResetEvent wiped out the last answer, or those who have
   still to answer need the caller's mutex and its holder waits for NotifyMutex or
   for the answer itself. *)
THEOREM BroadcastAnswered == CvSpec => []AnswerComes
<1>1. CvInv /\ [CvNext]_cvVars => CvInv'
  <2> SUFFICES ASSUME CvInv, [CvNext]_cvVars PROVE CvInv'
    OBVIOUS
  <2>1. CASE CvNext
    BY <2>1, WaiterStep, BroadcastStep, CallerStep DEF CvNext, Notifying, Broadcasting
  <2>2. CASE UNCHANGED cvVars
    BY <2>2 DEF cvVars, CvInv, CvTypeOK, OneBroadcast, CountIsRight, Counted, AnswerLeft,
                AnswerDue, WillAnswer
  <2> QED
    BY <2>1, <2>2
<1>2. CvInv => AnswerComes
  BY DEF CvInv, AnswerDue, AnswerComes, WaitsInVain
<1> QED
  BY InitCv, <1>1, <1>2, PTL DEF CvSpec

-----------------------------------------------------------------------------
(* Joins, alone and through the group. *)
Elements(s) == {s[i] : i \in DOMAIN s}

ThTypeOK ==
  /\ handle \in [Thread -> {"none", "live", "freed"}]
  /\ run \in [Thread -> {"none", "created", "running", "ended", "astray"}]
  /\ exited \in [Thread -> BOOLEAN] /\ joinMutex \in [Thread -> Users \cup {Free}]
  /\ pjoins \in [Thread -> Nat] /\ group \in Seq(Thread) /\ inGroup \in [Thread -> BOOLEAN]
  /\ upc \in [Users -> {"idle", "lock", "check", "join", "unlock", "joined"}]
  /\ joining \in [Users -> Thread \cup {Free}] /\ todo \in [Users -> Seq(Thread)]
  /\ promised \in [Users -> SUBSET Thread]

(* Only what was created runs, and only what is in the group loses its handle. *)
HandlesKept ==
  /\ \A t \in Thread : handle[t] = "none" => run[t] = "none"
  /\ \A t \in Thread : handle[t] = "freed" => inGroup[t]
  /\ \A t \in Elements(group) : inGroup[t] /\ handle[t] # "none"
  /\ \A t \in Thread : inGroup[t] => handle[t] # "none"
  /\ \A t \in Thread : run[t] = "astray" => inGroup[t]

(* Exit counts the pthread_joins, each of a thread that has ended. *)
ExitCounts ==
  \A t \in Thread : /\ pjoins[t] = IF exited[t] THEN 1 ELSE 0
                    /\ exited[t] => run[t] = "ended"

Holding == {"check", "join", "unlock"}

(* Who is between the locking and the unlocking of JoinMutex has it. *)
JoinExcludes ==
  \A u \in Users :
    /\ upc[u] \in {"lock"} \cup Holding => joining[u] \in Thread
    /\ upc[u] \in Holding => joinMutex[joining[u]] = u
    /\ upc[u] = "join" => ~exited[joining[u]]
    /\ upc[u] = "unlock" => exited[joining[u]]

(* A join has still to see what it has promised, or has seen it. *)
PromisesKept ==
  \A u \in Users :
    /\ upc[u] \in {"idle", "joined"} => todo[u] = <<>>
    /\ upc[u] \in {"lock"} \cup Holding =>
         \A t \in promised[u] : exited[t] \/ t = joining[u] \/ t \in Elements(todo[u])
    /\ upc[u] = "joined" => \A t \in promised[u] : exited[t]

ThInv == ThTypeOK /\ HandlesKept /\ ExitCounts /\ JoinExcludes /\ PromisesKept

LEMMA InvGivesJoins == ThInv => JoinsRight
BY DEF ThInv, ThTypeOK, HandlesKept, ExitCounts, PromisesKept, JoinsRight

LEMMA HeadAndTail ==
  ASSUME NEW S, NEW s \in Seq(S), s # <<>>
  PROVE  /\ Head(s) \in S /\ Tail(s) \in Seq(S)
         /\ Elements(s) = {Head(s)} \cup Elements(Tail(s))
<1>1. /\ Head(s) \in S /\ Tail(s) \in Seq(S) /\ Head(s) = s[1] /\ Len(s) \in Nat /\ Len(s) >= 1
      /\ Len(Tail(s)) = Len(s) - 1 /\ DOMAIN s = 1 .. Len(s) /\ DOMAIN Tail(s) = 1 .. Len(Tail(s))
      /\ \A i \in 1 .. Len(Tail(s)) : Tail(s)[i] = s[i + 1]
  OBVIOUS
<1>2. \A i \in 1 .. Len(s) : i = 1 \/ i - 1 \in 1 .. (Len(s) - 1)
  BY <1>1
<1>3. \A i \in 1 .. (Len(s) - 1) : i + 1 \in 1 .. Len(s)
  BY <1>1
<1>4. \A i \in 1 .. Len(s) : i = 1 \/ Tail(s)[i - 1] = s[i]
  BY <1>1, <1>2
<1>5. ASSUME NEW x \in Elements(s) PROVE x = Head(s) \/ x \in Elements(Tail(s))
  <2>1. PICK i \in 1 .. Len(s) : x = s[i]
    BY <1>1 DEF Elements
  <2> QED
    BY <1>1, <1>2, <1>4, <2>1 DEF Elements
<1>6. ASSUME NEW x \in Elements(Tail(s)) PROVE x \in Elements(s)
  <2>1. PICK i \in 1 .. Len(Tail(s)) : x = Tail(s)[i]
    BY <1>1 DEF Elements
  <2> QED
    BY <1>1, <1>3, <2>1 DEF Elements
<1>7. Head(s) \in Elements(s)
  BY <1>1 DEF Elements
<1> QED
  BY <1>1, <1>5, <1>6, <1>7

LEMMA Prepended ==
  ASSUME NEW S, NEW s \in Seq(S), NEW x \in S
  PROVE  <<x>> \o s \in Seq(S) /\ Elements(<<x>> \o s) = {x} \cup Elements(s)
<1>1. <<x>> \o s \in Seq(S) /\ <<x>> \o s # <<>> /\ Head(<<x>> \o s) = x /\ Tail(<<x>> \o s) = s
  OBVIOUS
<1> QED
  BY <1>1, HeadAndTail

LEMMA InitTh == ThInit => ThInv
BY DEF ThInit, ThInv, ThTypeOK, HandlesKept, ExitCounts, JoinExcludes, PromisesKept, Elements,
       Holding

(* Threads and the group: no join is touched. *)
LEMMA ThreadStep ==
  ASSUME ThInv, NEW t \in Thread, NEW u \in Users,
         ThreadStarts(t) \/ ThreadEnds(t) \/ GroupAdd(t) \/ CreateThread(u, t)
  PROVE  ThInv'
<1> USE DEF ThInv
<1>1. CASE ThreadStarts(t) \/ ThreadEnds(t) \/ CreateThread(u, t)
  <2>1. ThTypeOK'
    <3>1. handle' \in [Thread -> {"none", "live", "freed"}]
      BY <1>1 DEF ThTypeOK, ThreadStarts, ThreadEnds, CreateThread
    <3>2. run' \in [Thread -> {"none", "created", "running", "ended", "astray"}]
      BY <1>1 DEF ThTypeOK, ThreadStarts, ThreadEnds, CreateThread
    <3> QED
      BY <1>1, <3>1, <3>2 DEF ThTypeOK, ThreadStarts, ThreadEnds, CreateThread
  <2>2. HandlesKept'
    <3>1. CASE ThreadStarts(t)
      BY <3>1 DEF ThTypeOK, HandlesKept, ThreadStarts
    <3>2. CASE ThreadEnds(t)
      BY <3>2 DEF ThTypeOK, HandlesKept, ThreadEnds
    <3>3. CASE CreateThread(u, t)
      BY <3>3 DEF ThTypeOK, HandlesKept, CreateThread
    <3> QED
      BY <1>1, <3>1, <3>2, <3>3
  <2>3. ExitCounts'
    BY <1>1 DEF ThTypeOK, HandlesKept, ExitCounts, ThreadStarts, ThreadEnds, CreateThread
  <2>4. JoinExcludes' /\ PromisesKept'
    BY <1>1 DEF JoinExcludes, PromisesKept, ThreadStarts, ThreadEnds, CreateThread
  <2> QED
    BY <2>1, <2>2, <2>3, <2>4
<1>2. CASE GroupAdd(t)
  <2>1. group' \in Seq(Thread) /\ Elements(group') = {t} \cup Elements(group)
    BY <1>2, Prepended DEF ThTypeOK, GroupAdd
  <2>2. ThTypeOK'
    BY <1>2, <2>1 DEF ThTypeOK, GroupAdd
  <2>4. HandlesKept'
    <3>1. /\ \A x \in Elements(group') : x = t \/ x \in Elements(group)
          /\ handle' = handle /\ run' = run /\ handle[t] = "live"
          /\ inGroup' = [inGroup EXCEPT ![t] = TRUE]
      BY <1>2, <2>1 DEF GroupAdd
    <3>2. \A x \in Elements(group') : x \in Thread
      BY <2>1, <2>2 DEF ThTypeOK, Elements
    <3> QED
      BY <3>1, <3>2 DEF ThTypeOK, HandlesKept
  <2>3. ExitCounts' /\ JoinExcludes' /\ PromisesKept'
    BY <1>2 DEF ExitCounts, JoinExcludes, PromisesKept, GroupAdd
  <2> QED
    BY <2>2, <2>3, <2>4
<1> QED
  BY <1>1, <1>2

(* The handles of the group are gone, which HandlesKept allows. *)
LEMMA ResetStep ==
  ASSUME ThInv, GroupReset
  PROVE  ThInv'
<1> USE DEF ThInv
<1>1. InGroup = Elements(group) /\ Elements(<<>>) = {}
  BY DEF InGroup, Elements
<1>2. ThTypeOK'
  BY DEF ThTypeOK, GroupReset
<1>3. HandlesKept'
  BY <1>1 DEF ThTypeOK, HandlesKept, GroupReset
<1>4. ExitCounts' /\ JoinExcludes' /\ PromisesKept'
  BY DEF ExitCounts, JoinExcludes, PromisesKept, GroupReset
<1> QED
  BY <1>2, <1>3, <1>4

(* A call of LemonThreadJoin or LemonThreadGroupJoin begins, or returns. *)
LEMMA CallStep ==
  ASSUME ThInv, NEW u \in Users,
         GroupJoin(u) \/ JoinReturned(u) \/ \E t \in Thread : CallJoin(u, t)
  PROVE  ThInv'
<1> USE DEF ThInv
<1>1. HandlesKept' /\ ExitCounts'
  BY DEF HandlesKept, ExitCounts, CallJoin, GroupJoin, JoinReturned
<1>2. ASSUME NEW t \in Thread, CallJoin(u, t) PROVE ThInv'
  <2>1. ThTypeOK'
    BY <1>2 DEF ThTypeOK, CallJoin
  <2>2. JoinExcludes'
    BY <1>2 DEF ThTypeOK, JoinExcludes, Holding, CallJoin
  <2>3. PromisesKept'
    BY <1>2 DEF ThTypeOK, PromisesKept, Holding, CallJoin
  <2> QED
    BY <1>1, <2>1, <2>2, <2>3
<1>3. CASE JoinReturned(u)
  <2>1. ThTypeOK'
    BY <1>3 DEF ThTypeOK, JoinReturned
  <2>2. JoinExcludes' /\ PromisesKept'
    BY <1>3 DEF ThTypeOK, JoinExcludes, PromisesKept, Holding, JoinReturned
  <2> QED
    BY <1>1, <2>1, <2>2
<1>4. CASE GroupJoin(u)
  <2>1. /\ Head(group) \in Thread /\ Tail(group) \in Seq(Thread)
        /\ Elements(group) = {Head(group)} \cup Elements(Tail(group))
    BY <1>4, HeadAndTail DEF ThTypeOK, GroupJoin
  <2>2. InGroup = Elements(group) /\ InGroup \subseteq Thread
    BY DEF ThTypeOK, InGroup, Elements
  <2>3. ThTypeOK'
    BY <1>4, <2>1, <2>2 DEF ThTypeOK, GroupJoin
  <2>4. JoinExcludes'
    BY <1>4, <2>1 DEF ThTypeOK, JoinExcludes, Holding, GroupJoin
  <2>5. PromisesKept'
    BY <1>4, <2>1, <2>2 DEF ThTypeOK, PromisesKept, Holding, GroupJoin
  <2> QED
    BY <1>1, <2>3, <2>4, <2>5
<1> QED
  BY <1>2, <1>3, <1>4

(* The critical section of JoinMutex. *)
LEMMA JoinStep ==
  ASSUME ThInv, NEW u \in Users, LockJoin(u) \/ CheckExit(u) \/ PthreadJoin(u) \/ UnlockJoin(u)
  PROVE  ThInv'
<1> USE DEF ThInv
<1>1. CASE LockJoin(u)
  BY <1>1, ThreadAssumption
  DEF ThTypeOK, HandlesKept, ExitCounts, JoinExcludes, PromisesKept, Holding, LockJoin
<1>2. CASE CheckExit(u)
  BY <1>2
  DEF ThTypeOK, HandlesKept, ExitCounts, JoinExcludes, PromisesKept, Holding, CheckExit, MustJoin
<1>3. CASE PthreadJoin(u)
  <2>1. joining[u] \in Thread /\ ~exited[joining[u]] /\ joinMutex[joining[u]] = u
    BY <1>3 DEF JoinExcludes, Holding, PthreadJoin
  <2>2. ThTypeOK' /\ HandlesKept' /\ ExitCounts'
    BY <1>3, <2>1 DEF ThTypeOK, HandlesKept, ExitCounts, PthreadJoin
  <2>3. JoinExcludes'
    BY <1>3, <2>1 DEF ThTypeOK, JoinExcludes, Holding, PthreadJoin
  <2>4. PromisesKept'
    BY <1>3, <2>1 DEF ThTypeOK, PromisesKept, Holding, PthreadJoin
  <2> QED
    BY <2>2, <2>3, <2>4
<1>4. CASE UnlockJoin(u)
  <2>1. joining[u] \in Thread /\ exited[joining[u]] /\ joinMutex[joining[u]] = u
    BY <1>4 DEF JoinExcludes, Holding, UnlockJoin
  <2>2. HandlesKept' /\ ExitCounts'
    BY <1>4 DEF HandlesKept, ExitCounts, UnlockJoin
  <2>3. \A w \in Users : w # u /\ upc[w] \in Holding => joining[w] # joining[u]
    BY <2>1 DEF JoinExcludes
  <2>6. /\ joinMutex' = [joinMutex EXCEPT ![joining[u]] = Free] /\ upc[u] = "unlock"
        /\ UNCHANGED <<handle, run, exited, pjoins, group, inGroup, promised>>
    BY <1>4 DEF UnlockJoin
  <2>4. CASE todo[u] = <<>>
    <3>1. /\ upc' = [upc EXCEPT ![u] = "joined"] /\ joining' = [joining EXCEPT ![u] = Free]
          /\ UNCHANGED todo
      BY <1>4, <2>4 DEF UnlockJoin
    <3>2. ThTypeOK'
      BY <2>6, <3>1 DEF ThTypeOK
    <3>3. JoinExcludes'
      BY <2>1, <2>3, <2>6, <3>1 DEF ThTypeOK, JoinExcludes, Holding
    <3>4. Elements(todo[u]) = {}
      BY <2>4 DEF Elements
    <3>5. PromisesKept'
      BY <2>1, <2>4, <2>6, <3>1, <3>4 DEF ThTypeOK, PromisesKept, Holding
    <3> QED
      BY <2>2, <3>2, <3>3, <3>5
  <2>5. CASE todo[u] # <<>>
    <3>1. /\ Head(todo[u]) \in Thread /\ Tail(todo[u]) \in Seq(Thread)
          /\ Elements(todo[u]) = {Head(todo[u])} \cup Elements(Tail(todo[u]))
      BY <2>5, HeadAndTail DEF ThTypeOK
    <3>2. /\ upc' = [upc EXCEPT ![u] = "lock"]
          /\ joining' = [joining EXCEPT ![u] = Head(todo[u])]
          /\ todo' = [todo EXCEPT ![u] = Tail(todo[u])]
      BY <1>4, <2>5 DEF UnlockJoin
    <3>3. ThTypeOK'
      BY <2>6, <3>1, <3>2 DEF ThTypeOK
    <3>4. JoinExcludes'
      BY <2>1, <2>3, <2>6, <3>1, <3>2 DEF ThTypeOK, JoinExcludes, Holding
    <3>5. PromisesKept'
      BY <2>1, <2>6, <3>1, <3>2 DEF ThTypeOK, PromisesKept, Holding
    <3> QED
      BY <2>2, <3>3, <3>4, <3>5
  <2> QED
    BY <2>4, <2>5
<1> QED
  BY <1>1, <1>2, <1>3, <1>4

(* A thread is given to pthread_join at most once and only when it has ended, a join
   that has returned has seen its threads end, and only a reset of the group takes a
   handle from a thread that still needs it (sys/thread.cpp), for any number of
   threads and users. *)
THEOREM JoinsAreRight == ThSpec => []JoinsRight
<1>1. ThInv /\ [ThNext]_thVars => ThInv'
  <2> SUFFICES ASSUME ThInv, [ThNext]_thVars PROVE ThInv'
    OBVIOUS
  <2>1. ASSUME NEW t \in Thread, NEW u \in Users,
               ThreadStarts(t) \/ ThreadEnds(t) \/ GroupAdd(t) \/ CreateThread(u, t)
        PROVE  ThInv'
    BY <2>1, ThreadStep
  <2>2. ASSUME NEW u \in Users, LockJoin(u) \/ CheckExit(u) \/ PthreadJoin(u) \/ UnlockJoin(u)
        PROVE  ThInv'
    BY <2>2, JoinStep
  <2>3. ASSUME NEW u \in Users,
               GroupJoin(u) \/ JoinReturned(u) \/ \E t \in Thread : CallJoin(u, t)
        PROVE  ThInv'
    BY <2>3, CallStep
  <2>4. CASE GroupReset
    BY <2>4, ResetStep
  <2>5. CASE UNCHANGED thVars
    BY <2>5 DEF thVars, ThInv, ThTypeOK, HandlesKept, ExitCounts, JoinExcludes, PromisesKept,
                Elements
  <2> QED
    BY <2>1, <2>2, <2>3, <2>4, <2>5, ThreadAssumption DEF ThNext
<1> QED
  BY InitTh, <1>1, InvGivesJoins, PTL DEF ThSpec

-----------------------------------------------------------------------------
(* Coroutines: a flow that was created has a parent. *)
Made(c) == c = Root \/ parent[c] \in Coro
CoTypeOK ==
  /\ cstatus \in [Coro -> {"none", "ReadyForRunning", "Running", "Sleeping", "Stopped"}]
  /\ parent \in [Coro -> Coro \cup {Lost}]
  /\ context \in [Coro -> Coro \cup {Lost}]
  /\ DOMAIN doing = Coro
  /\ flow \in Coro /\ misused \in BOOLEAN
  /\ Made(flow)
  /\ \A c \in Coro : context[c] # Lost => Made(context[c])

(* The coroutines that are in a Resume of another, or have the thread. *)
Resuming(c) == cstatus[c] = "Sleeping" /\ doing[c][1] = "resume"
OnStack(c) == c = flow \/ Resuming(c)

(* The thread's flow is at the end of a chain of calls of Resume: each is made by the
   parent of the coroutine it resumes, and begins at the root. *)
ResumeChain ==
  /\ \A c \in Coro : OnStack(c) /\ c # Root =>
       parent[c] \in Coro /\ Resuming(parent[c]) /\ doing[parent[c]] = <<"resume", c>>
  /\ \A c \in Coro : Resuming(c) =>
       \E d \in Coro : d # Root /\ doing[c] = <<"resume", d>> /\ parent[d] = c /\ OnStack(d)
  /\ OnStack(Root)

(* What the flows that are not on it do when they go on. *)
AtRest == \A c \in Coro :
  /\ cstatus[c] = "ReadyForRunning" => doing[c] = <<"start">>
  /\ cstatus[c] = "Sleeping" => doing[c][1] \in {"resume", "yield"}
  /\ cstatus[c] = "Running" <=> c = flow
  /\ cstatus[c] \in {"ReadyForRunning", "Sleeping"} => context[c] = c
  /\ cstatus[c] # "none" => parent[c] # c
FlowRuns == doing[flow][1] # "stopped"

CoRight == ResumeChain /\ AtRest /\ FlowRuns
CoInv == CoTypeOK /\ (~misused => CoRight)

LEMMA InitCo == CoInit => CoInv
<1> SUFFICES ASSUME CoInit PROVE CoInv
  OBVIOUS
<1> USE CoroutineAssumption DEF CoroutineAssumption, CoInit
<1>1. CoTypeOK
  BY DEF CoTypeOK, Made
<1>2. CoRight
  BY DEF CoRight, ResumeChain, OnStack, Resuming, AtRest, FlowRuns
<1> QED
  BY <1>1, <1>2 DEF CoInv

LEMMA CoTyped == ASSUME CoTypeOK, CoNext PROVE CoTypeOK' /\ (misused => misused')
<1> USE CoroutineAssumption DEF CoroutineAssumption, CoTypeOK
<1> DEFINE St == [Coro -> {"none", "ReadyForRunning", "Running", "Sleeping", "Stopped"}]
<1>1. ASSUME NEW st \in St, NEW f \in Coro PROVE GoesOn(st, f) \in St
  <2>1. ASSUME NEW c PROVE BackFrom(st, c) \in St
    BY DEF BackFrom
  <2> QED BY <2>1 DEF GoesOn
<1>2. ASSUME NEW c, NEW d \in Coro, Swap(c, d), UNCHANGED parent
      PROVE  /\ flow' \in Coro /\ context' \in [Coro -> Coro \cup {Lost}]
             /\ Made(flow)' /\ \A e \in Coro : context'[e] # Lost => Made(context[e])'
  BY <1>2 DEF Swap, Made
<1>3. ASSUME NEW c \in Coro, NEW p \in Coro, CreateCoroutine(c, p)
      PROVE  CoTypeOK' /\ (misused => misused')
  BY <1>3 DEF CreateCoroutine, Made
<1>4. ASSUME NEW c \in Coro, ReleaseCoroutine(c)
      PROVE  CoTypeOK' /\ (misused => misused')
  BY <1>4 DEF ReleaseCoroutine, Made
<1>5. ASSUME NEW c \in Coro, Resume(c) PROVE CoTypeOK' /\ (misused => misused')
  <2>1. /\ flow' \in Coro /\ context' \in [Coro -> Coro \cup {Lost}]
        /\ Made(flow)' /\ \A e \in Coro : context'[e] # Lost => Made(context[e])'
    BY <1>2, <1>5 DEF Resume
  <2>2. [cstatus EXCEPT ![c] = "Running", ![parent[c]] = "Sleeping"] \in St
    OBVIOUS
  <2>3. cstatus' \in St
    BY <1>1, <1>5, <2>1, <2>2 DEF Resume
  <2> QED BY <1>5, <2>1, <2>3 DEF Resume
<1>6. CASE Yield \/ ProcReturns
  <2>1. parent[flow] \in Coro /\ UNCHANGED parent
    BY <1>6 DEF Yield, ProcReturns, Made
  <2>2. /\ flow' \in Coro /\ context' \in [Coro -> Coro \cup {Lost}]
        /\ Made(flow)' /\ \A e \in Coro : context'[e] # Lost => Made(context[e])'
    BY <1>2, <1>6, <2>1 DEF Yield, ProcReturns
  <2>3. cstatus' \in St
    <3>1. [cstatus EXCEPT ![flow] = "Stopped"] \in St
      OBVIOUS
    <3>2. cstatus \in St
      OBVIOUS
    <3>3. CASE Yield
      BY <1>1, <2>2, <3>2, <3>3 DEF Yield
    <3>4. CASE ProcReturns
      BY <1>1, <2>2, <3>1, <3>4 DEF ProcReturns
    <3> QED BY <1>6, <3>3, <3>4
  <2> QED BY <1>6, <2>1, <2>2, <2>3 DEF Yield, ProcReturns
<1> QED
  BY <1>3, <1>4, <1>5, <1>6 DEF CoNext

LEMMA CreateCo ==
  ASSUME CoTypeOK, CoRight, NEW c \in Coro, NEW p \in Coro, CreateCoroutine(c, p)
  PROVE  CoRight'
<1> USE CoroutineAssumption DEF CoroutineAssumption, CoTypeOK, CreateCoroutine
<1>1. c # flow /\ c # Root /\ ~OnStack(c)
  BY DEF CoRight, ResumeChain, AtRest, OnStack, Resuming
<1>2. /\ \A d \in Coro : d # c => /\ UNCHANGED <<cstatus[d], parent[d], doing[d], context[d]>>
                                  /\ OnStack(d)' <=> OnStack(d)
                                  /\ Resuming(d)' <=> Resuming(d)
      /\ ~OnStack(c)' /\ ~Resuming(c)'
  BY <1>1 DEF OnStack, Resuming
<1>3. ResumeChain'
  BY <1>1, <1>2 DEF CoRight, ResumeChain, OnStack
<1>4. AtRest'
  BY <1>1, <1>2 DEF CoRight, AtRest
<1>5. FlowRuns'
  BY <1>1, <1>2 DEF CoRight, FlowRuns
<1> QED
  BY <1>3, <1>4, <1>5 DEF CoRight

LEMMA ReleaseCo ==
  ASSUME CoTypeOK, CoRight, NEW c \in Coro, ReleaseCoroutine(c), ~misused'
  PROVE  CoRight'
<1> USE CoroutineAssumption DEF CoroutineAssumption, CoTypeOK, ReleaseCoroutine
<1>1. c # flow /\ c # Root /\ ~OnStack(c)
  BY DEF OnStack, Resuming
<1>2. /\ \A d \in Coro : d # c => /\ UNCHANGED <<cstatus[d], parent[d], doing[d], context[d]>>
                                  /\ OnStack(d)' <=> OnStack(d)
                                  /\ Resuming(d)' <=> Resuming(d)
      /\ ~OnStack(c)' /\ ~Resuming(c)'
  BY <1>1 DEF OnStack, Resuming
<1>3. ResumeChain'
  BY <1>1, <1>2 DEF CoRight, ResumeChain, OnStack
<1>4. AtRest'
  BY <1>1, <1>2 DEF CoRight, AtRest
<1>5. FlowRuns'
  BY <1>1, <1>2 DEF CoRight, FlowRuns
<1> QED
  BY <1>3, <1>4, <1>5 DEF CoRight

LEMMA ResumeCo ==
  ASSUME CoTypeOK, CoRight, NEW c \in Coro, Resume(c), ~misused'
  PROVE  CoRight'
<1> USE CoroutineAssumption DEF CoroutineAssumption, CoTypeOK, Resume
<1>0. PICK f \in Coro : f = flow
  OBVIOUS
<1>1. f = parent[c] /\ c # f /\ c # Root
  BY <1>0 DEF CoRight, AtRest
<1>2. ~Resuming(c)
  BY <1>0, <1>1 DEF CoRight, ResumeChain, AtRest, OnStack, Resuming
<1>3. flow' = c /\ context[c] = c
  BY <1>0, <1>1 DEF CoRight, AtRest, Swap
<1>4. doing[c][1] # "resume" /\ doing[c][1] # "stopped"
  BY <1>2 DEF CoRight, AtRest, Resuming
<1>5. cstatus' = [cstatus EXCEPT ![c] = "Running", ![f] = "Sleeping"]
  BY <1>0, <1>1, <1>3, <1>4 DEF GoesOn
<1>6. /\ cstatus'[f] = "Sleeping" /\ cstatus'[c] = "Running"
      /\ doing'[f] = <<"resume", c>> /\ doing'[c] = doing[c] /\ UNCHANGED parent
      /\ context'[f] = f
      /\ \A d \in Coro : d # c /\ d # f =>
           /\ UNCHANGED <<cstatus[d], doing[d]>>
           /\ context[d] = d => context'[d] = d
  BY <1>0, <1>1, <1>3, <1>5 DEF Swap
<1>7. /\ OnStack(c)' /\ Resuming(f)' /\ ~Resuming(c)'
      /\ \A d \in Coro : /\ d # c /\ d # f => (Resuming(d)' <=> Resuming(d))
                         /\ d # c => (OnStack(d)' <=> OnStack(d))
  <2>1. OnStack(c)' /\ Resuming(f)' /\ ~Resuming(c)'
    BY <1>3, <1>6 DEF OnStack, Resuming
  <2>2. \A d \in Coro : d # c /\ d # f => (Resuming(d)' <=> Resuming(d))
    BY <1>6 DEF Resuming
  <2>3. \A d \in Coro : d # c /\ d # f => (OnStack(d)' <=> OnStack(d))
    BY <1>0, <1>3, <2>2 DEF OnStack
  <2>4. OnStack(f)' /\ OnStack(f)
    BY <1>0, <2>1 DEF OnStack
  <2> QED
    BY <2>1, <2>2, <2>3, <2>4
<1>8. ResumeChain'
  <2>1. ASSUME NEW d \in Coro, OnStack(d)', d # Root
        PROVE  parent'[d] \in Coro /\ Resuming(parent[d])' /\ doing'[parent'[d]] = <<"resume", d>>
    <3>1. CASE d = c
      BY <1>1, <1>6, <1>7, <3>1
    <3>2. CASE d # c
      <4>1. parent[d] \in Coro /\ Resuming(parent[d]) /\ doing[parent[d]] = <<"resume", d>>
        BY <1>7, <2>1, <3>2 DEF CoRight, ResumeChain
      <4>2. parent[d] # c /\ parent[d] # f
        BY <1>0, <1>2, <4>1 DEF CoRight, AtRest, Resuming
      <4> QED BY <1>6, <1>7, <4>1, <4>2
    <3> QED BY <3>1, <3>2
  <2>2. ASSUME NEW d \in Coro, Resuming(d)'
        PROVE  \E e \in Coro : e # Root /\ doing'[d] = <<"resume", e>> /\ parent'[e] = d /\ OnStack(e)'
    <3>1. CASE d = f
      BY <1>1, <1>6, <1>7, <3>1
    <3>2. CASE d # f
      <4>1. d # c /\ Resuming(d)
        BY <1>7, <2>2, <3>2
      <4>2. PICK e \in Coro : e # Root /\ doing[d] = <<"resume", e>> /\ parent[e] = d /\ OnStack(e)
        BY <4>1 DEF CoRight, ResumeChain
      <4>3. e # c
        BY <1>1, <3>2, <4>2
      <4> QED BY <1>6, <1>7, <3>2, <4>1, <4>2, <4>3
    <3> QED BY <3>1, <3>2
  <2>3. OnStack(Root)'
    BY <1>1, <1>7 DEF CoRight, ResumeChain
  <2> QED BY <2>1, <2>2, <2>3 DEF ResumeChain
<1>9. AtRest'
  <2> SUFFICES ASSUME NEW d \in Coro
               PROVE  /\ cstatus'[d] = "ReadyForRunning" => doing'[d] = <<"start">>
                      /\ cstatus'[d] = "Sleeping" => doing'[d][1] \in {"resume", "yield"}
                      /\ cstatus'[d] = "Running" <=> d = flow'
                      /\ cstatus'[d] \in {"ReadyForRunning", "Sleeping"} => context'[d] = d
                      /\ cstatus'[d] # "none" => parent'[d] # d
    BY DEF AtRest
  <2>1. CASE d = c
    BY <1>1, <1>3, <1>6, <2>1 DEF CoRight, AtRest
  <2>2. /\ cstatus[d] = "ReadyForRunning" => doing[d] = <<"start">>
        /\ cstatus[d] = "Sleeping" => doing[d][1] \in {"resume", "yield"}
        /\ cstatus[d] = "Running" <=> d = f
        /\ cstatus[d] \in {"ReadyForRunning", "Sleeping"} => context[d] = d
        /\ cstatus[d] # "none" => parent[d] # d
    BY <1>0 DEF CoRight, AtRest
  <2>3. UNCHANGED parent
    OBVIOUS
  <2> HIDE DEF Resume
  <2>4. CASE d = f
    BY <1>1, <1>3, <1>6, <2>2, <2>3, <2>4
  <2>5. CASE d # c /\ d # f
    BY <1>3, <1>6, <2>2, <2>3, <2>5
  <2> QED BY <2>1, <2>4, <2>5
<1>10. FlowRuns'
  BY <1>3, <1>4, <1>6 DEF FlowRuns
<1> QED
  BY <1>8, <1>9, <1>10 DEF CoRight

(* Yield and the end of Proc: the flow leaves the thread to its parent. *)
LEMMA LeaveCo ==
  ASSUME CoTypeOK, CoRight, Yield \/ ProcReturns
  PROVE  CoRight'
<1> USE CoroutineAssumption DEF CoroutineAssumption, CoTypeOK
<1>0. PICK f \in Coro : f = flow
  OBVIOUS
<1>1. f # Root /\ UNCHANGED <<parent, misused>>
  BY <1>0 DEF Yield, ProcReturns
<1>2. PICK p \in Coro : p = parent[f]
  BY <1>0, <1>1 DEF Made
<1>3. Resuming(p) /\ doing[p] = <<"resume", f>> /\ p # f
  BY <1>0, <1>1, <1>2 DEF CoRight, ResumeChain, OnStack, AtRest, Resuming
<1>4. Swap(f, p) /\ context[p] = p
  BY <1>0, <1>2, <1>3 DEF Yield, ProcReturns, CoRight, AtRest, Resuming
<1>5. flow' = p
  BY <1>4 DEF Swap
<1>6. PICK end :
        /\ \/ end = "Sleeping" /\ doing' = [doing EXCEPT ![f] = <<"yield">>]
           \/ end = "Stopped" /\ doing' = [doing EXCEPT ![f] = <<"stopped">>]
        /\ cstatus' = [cstatus EXCEPT ![p] = "Running", ![f] = end]
  <2>1. \A st : GoesOn(st, p) = BackFrom(st, f)
    BY <1>3 DEF GoesOn
  <2>2. CASE Yield
    <3>1. cstatus' = BackFrom(cstatus, f) /\ doing' = [doing EXCEPT ![f] = <<"yield">>]
      BY <1>0, <1>5, <2>1, <2>2 DEF Yield
    <3>2. cstatus[f] = "Running"
      BY <1>0 DEF CoRight, AtRest
    <3> QED BY <1>2, <1>3, <3>1, <3>2 DEF BackFrom
  <2>3. CASE ProcReturns
    <3>1. /\ cstatus' = BackFrom([cstatus EXCEPT ![f] = "Stopped"], f)
          /\ doing' = [doing EXCEPT ![f] = <<"stopped">>]
      BY <1>0, <1>5, <2>1, <2>3 DEF ProcReturns
    <3> QED BY <1>2, <1>3, <3>1 DEF BackFrom
  <2> QED BY <2>2, <2>3
<1>7. /\ cstatus'[p] = "Running" /\ cstatus'[f] \in {"Sleeping", "Stopped"}
      /\ cstatus'[f] = "Sleeping" => doing'[f] = <<"yield">>
      /\ doing'[f][1] # "resume"
      /\ \A d \in Coro : d # f => doing'[d] = doing[d]
      /\ \A d \in Coro : d # f /\ d # p => cstatus'[d] = cstatus[d]
  BY <1>3, <1>6
<1>8. /\ context'[f] = f
      /\ \A d \in Coro : d # f /\ d # p /\ context[d] = d => context'[d] = d
  BY <1>0, <1>4 DEF Swap
<1>9. /\ ~Resuming(f)' /\ ~OnStack(f)' /\ OnStack(p)' /\ ~Resuming(p)' /\ OnStack(p)
      /\ \A d \in Coro : d # f /\ d # p =>
           (Resuming(d)' <=> Resuming(d)) /\ (OnStack(d)' <=> OnStack(d))
  BY <1>0, <1>3, <1>5, <1>7 DEF OnStack, Resuming
<1>10. ResumeChain'
  <2>1. ASSUME NEW d \in Coro, OnStack(d)', d # Root
        PROVE  parent'[d] \in Coro /\ Resuming(parent[d])' /\ doing'[parent'[d]] = <<"resume", d>>
    <3>1. d # f /\ OnStack(d)
      BY <1>9, <2>1
    <3>2. parent[d] \in Coro /\ Resuming(parent[d]) /\ doing[parent[d]] = <<"resume", d>>
      BY <2>1, <3>1 DEF CoRight, ResumeChain
    <3>3. parent[d] # p
      BY <1>3, <3>1, <3>2
    <3>4. parent[d] # f
      BY <1>0, <3>2 DEF CoRight, AtRest, Resuming
    <3> QED BY <1>1, <1>7, <1>9, <3>2, <3>3, <3>4
  <2>2. ASSUME NEW d \in Coro, Resuming(d)'
        PROVE  \E e \in Coro : e # Root /\ doing'[d] = <<"resume", e>> /\ parent'[e] = d /\ OnStack(e)'
    <3>1. d # f /\ d # p /\ Resuming(d)
      BY <1>9, <2>2
    <3>2. PICK e \in Coro : e # Root /\ doing[d] = <<"resume", e>> /\ parent[e] = d /\ OnStack(e)
      BY <3>1 DEF CoRight, ResumeChain
    <3>3. e # f
      BY <1>2, <3>1, <3>2
    <3> QED BY <1>1, <1>7, <1>9, <3>1, <3>2, <3>3
  <2>3. OnStack(Root)'
    BY <1>1, <1>9 DEF CoRight, ResumeChain
  <2> QED BY <2>1, <2>2, <2>3 DEF ResumeChain
<1>11. AtRest'
  <2> SUFFICES ASSUME NEW d \in Coro
               PROVE  /\ cstatus'[d] = "ReadyForRunning" => doing'[d] = <<"start">>
                      /\ cstatus'[d] = "Sleeping" => doing'[d][1] \in {"resume", "yield"}
                      /\ cstatus'[d] = "Running" <=> d = flow'
                      /\ cstatus'[d] \in {"ReadyForRunning", "Sleeping"} => context'[d] = d
                      /\ cstatus'[d] # "none" => parent'[d] # d
    BY DEF AtRest
  <2>1. CASE d = f
    BY <1>0, <1>1, <1>3, <1>5, <1>7, <1>8, <2>1 DEF CoRight, AtRest
  <2>2. CASE d = p
    BY <1>1, <1>3, <1>5, <1>7, <2>2 DEF CoRight, AtRest, Resuming
  <2>3. CASE d # f /\ d # p
    BY <1>0, <1>1, <1>5, <1>7, <1>8, <2>3 DEF CoRight, AtRest
  <2> QED BY <2>1, <2>2, <2>3
<1>12. FlowRuns'
  BY <1>3, <1>5, <1>7 DEF FlowRuns
<1> QED
  BY <1>10, <1>11, <1>12 DEF CoRight

LEMMA CoStep == CoInv /\ [CoNext]_coVars => CoInv'
<1> SUFFICES ASSUME CoInv, [CoNext]_coVars PROVE CoInv'
  OBVIOUS
<1>1. CASE CoNext
  <2>1. CoTypeOK' /\ (misused => misused')
    BY <1>1, CoTyped DEF CoInv
  <2>2. ASSUME ~misused' PROVE CoRight'
    BY <1>1, <2>1, <2>2, CreateCo, ReleaseCo, ResumeCo, LeaveCo DEF CoInv, CoNext
  <2> QED BY <2>1, <2>2 DEF CoInv
<1>2. CASE UNCHANGED coVars
  BY <1>2 DEF coVars, CoInv, CoTypeOK, Made, CoRight, ResumeChain, OnStack, Resuming,
              AtRest, FlowRuns
<1> QED
  BY <1>1, <1>2

LEMMA CoFollows == CoInv => CoroutinesReturn
<1> SUFFICES ASSUME CoInv, ~misused PROVE CoroutinesReturn
  BY DEF CoroutinesReturn
<1>1. AtRest /\ FlowRuns /\ ResumeChain
  BY DEF CoInv, CoRight
<1>2. ASSUME NEW c \in Coro, cstatus[c] = "Sleeping"
      PROVE  \/ doing[c][1] = "resume" /\ parent[doing[c][2]] = c
             \/ doing[c][1] = "yield"
  <2>1. CASE doing[c][1] = "resume"
    <3>1. PICK d \in Coro : doing[c] = <<"resume", d>> /\ parent[d] = c
      BY <1>1, <1>2, <2>1 DEF ResumeChain, Resuming
    <3> QED BY <2>1, <3>1
  <2>2. CASE doing[c][1] # "resume"
    BY <1>1, <1>2, <2>2 DEF AtRest
  <2> QED BY <2>1, <2>2
<1> QED
  BY <1>1, <1>2 DEF CoroutinesReturn, AtRest, FlowRuns

(* coroutine.cpp: as long as coroutines are resumed by their parents only and none is
   released that others need, a Resume comes back to its caller, for any number of
   coroutines nested in any way. *)
THEOREM CoroutinesAreRight == CoSpec => []CoroutinesReturn
<1>1. CoSpec => []CoInv
  BY InitCo, CoStep, PTL DEF CoSpec
<1> QED
  BY <1>1, CoFollows, PTL

----------------------------------------------------------------------------
(* The completion ports: an IRP is not given back while the kernel, the port or
   a dispatcher has it, and is answered once.  The invariant says where an IRP
   can be in each phase, that a completion is in the port once, and how often
   the callback of a listed IRP has been called. *)

Phases == {"none", "inserted", "kernel", "posted", "taken", "done", "failed", "removed", "refused"}

IocpTypeOK ==
  /\ phase \in [Ops -> Phases]
  /\ freed \in SUBSET Ops /\ again \in SUBSET Ops
  /\ orphaned \in SUBSET Ops /\ iocpAsserted \in SUBSET Ops
  /\ canceled \in [Ops -> BOOLEAN] /\ callbacks \in [Ops -> Nat]
  /\ listed \in [Files -> SUBSET Ops]
  /\ port \in Seq(Ops \cup {STOP_KEY})
  /\ dpc \in [Dispatchers -> {"out", "enters", "gets", "completes", "dead"}]
  /\ takenOp \in [Dispatchers -> Ops \cup {STOP_KEY}]
  /\ \A d \in Dispatchers : dpc[d] = "completes" => takenOp[d] \in Ops

(* The threads the service counts.                                         *)
InLoop == {d \in Dispatchers : dpc[d] \in {"gets", "completes", "dead"}}

ThreadsCounted == IsFiniteSet(InLoop) /\ working = Cardinality(InLoop)

(* A closed socket is open no more; an object that is gone lists nothing;  *)
(* an IRP is listed under its own file only, and until it is completed or  *)
(* taken out.                                                              *)
ListsRight ==
  /\ closing \cap openFiles = {}
  /\ \A f \in Files \ fileObjs : listed[f] = {}
  /\ \A f \in Files : \A o \in listed[f] :
       FileOf[o] = f /\ phase[o] \in {"inserted", "kernel", "posted", "taken", "failed"}

(* What the port holds has been posted, and is in it once; what a          *)
(* dispatcher took is in no other's hands.                                 *)
PortRight ==
  /\ \A i \in 1 .. Len(port) : port[i] \in Ops => phase[port[i]] = "posted"
  /\ \A i, j \in 1 .. Len(port) : port[i] \in Ops /\ port[i] = port[j] => i = j

Handling(d) == dpc[d] = "completes"

TakenRight ==
  /\ \A d \in Dispatchers : Handling(d) => phase[takenOp[d]] = "taken"
  /\ \A d, e \in Dispatchers : Handling(d) /\ Handling(e) /\ takenOp[d] = takenOp[e] => d = e

FreesRight ==
  \A o \in freed : FileOf[o] \in openFiles => phase[o] \in {"done", "refused"}

CallRight(o) ==
  /\ phase[o] = "none" => callbacks[o] = 0 /\ ~canceled[o]
  /\ ~canceled[o] /\ FileOf[o] \in openFiles /\ phase[o] # "done" => callbacks[o] = 0
  /\ o \in listed[FileOf[o]] /\ ~canceled[o] => callbacks[o] = 0
  /\ o \notin again =>
       /\ callbacks[o] <= 1
       /\ o \in listed[FileOf[o]] /\ canceled[o] => callbacks[o] = 1
       /\ phase[o] = "done" => callbacks[o] = 1

CallsRight == \A o \in Ops : CallRight(o)

(* From its insertion until it is completed or taken out an IRP of an open *)
(* socket is listed, unless its object went; no other fails an assertion.  *)
Pending(o) == phase[o] \in {"inserted", "kernel", "posted", "taken", "failed"}

NoneLost ==
  /\ \A o \in Ops : Pending(o) /\ FileOf[o] \in openFiles => o \in listed[FileOf[o]] \cup orphaned
  /\ \A o \in iocpAsserted : FileOf[o] \in openFiles => o \in orphaned

IocpInv ==
  /\ IocpTypeOK /\ ThreadsCounted /\ ListsRight /\ PortRight /\ TakenRight
  /\ FreesRight /\ CallsRight /\ NoneLost


(* What each step of an operation does to the variables the invariant is   *)
(* about, without the arithmetic of LemonIRPCounter.                       *)
Removed(o) ==
  /\ phase[o] = "failed" /\ phase' = [phase EXCEPT ![o] = "removed"]
  /\ UNCHANGED <<freed, again, canceled, callbacks, port, openFiles, closing, ioThreads>>
  /\ iocpAsserted' \subseteq {o}
  /\ o \in iocpAsserted' => o \notin listed[FileOf[o]]
  /\ \/ /\ listed' = [listed EXCEPT ![FileOf[o]] = {}]
        /\ fileObjs' = fileObjs \ {FileOf[o]}
        /\ orphaned' = orphaned \cup (listed[FileOf[o]] \ {o})
     \/ /\ listed' = [listed EXCEPT ![FileOf[o]] = listed[FileOf[o]] \ {o}]
        /\ UNCHANGED <<fileObjs, orphaned>>

LEMMA RemoveCases ==
  ASSUME NEW o \in Ops, IocpInv, RemoveIRP(o)
  PROVE  Removed(o)
BY DEF RemoveIRP, ObjectGoes, PhaseTo, Unlisted, Removed

Completed(d) ==
  /\ takenOp[d] \in Ops /\ FileOf[takenOp[d]] \in Files
  /\ Handling(d) /\ phase[takenOp[d]] = "taken"
  /\ UNCHANGED <<canceled, again, orphaned, fileObjs, openFiles, closing, port, takenOp, working>>
  /\ \/ /\ UNCHANGED <<listed, callbacks, freed, phase>>
        /\ dpc' = [dpc EXCEPT ![d] = "dead"]
        /\ iocpAsserted' = {takenOp[d]}
        /\ takenOp[d] \notin listed[FileOf[takenOp[d]]]
     \/ /\ takenOp[d] \in listed[FileOf[takenOp[d]]]
        /\ listed' = [listed EXCEPT ![FileOf[takenOp[d]]] = @ \ {takenOp[d]}]
        /\ callbacks' = IF ~canceled[takenOp[d]] THEN Called({takenOp[d]}) ELSE callbacks
        /\ freed' = freed \cup {takenOp[d]}
        /\ phase' = [phase EXCEPT ![takenOp[d]] = "done"]
        /\ dpc' = [dpc EXCEPT ![d] = "gets"] /\ UNCHANGED iocpAsserted

LEMMA CompleteCases ==
  ASSUME NEW d \in Dispatchers, IocpInv, CompleteTaken(d)
  PROVE  Completed(d)
<1>1. takenOp[d] \in Ops /\ FileOf[takenOp[d]] \in Files /\ Handling(d) /\ phase[takenOp[d]] = "taken"
  BY IocpAssumption DEF CompleteTaken, IocpInv, IocpTypeOK, TakenRight, Handling
<1>2. listed[FileOf[takenOp[d]]] = {} \/ FileOf[takenOp[d]] \in fileObjs
  BY <1>1 DEF IocpInv, ListsRight
<1>3. QED
  BY <1>1, <1>2 DEF CompleteTaken, Unlisted, PhaseTo, NotYetCalled, Completed

Got(d) ==
  /\ port # <<>> /\ port' = Tail(port) /\ Head(port) \in Ops \cup {STOP_KEY}
  /\ dpc[d] = "gets"
  /\ UNCHANGED <<freed, canceled, callbacks, listed, fileObjs, openFiles, closing, again,
                 orphaned, iocpAsserted>>
  /\ \/ /\ Head(port) = STOP_KEY /\ UNCHANGED <<takenOp, phase>>
        /\ dpc' = [dpc EXCEPT ![d] = "out"] /\ working' = working - 1
     \/ /\ dpc' = [dpc EXCEPT ![d] = "completes"] /\ working' = working
        /\ \E o \in Ops : /\ o = Head(port) /\ phase[o] = "posted"
                          /\ takenOp' = [takenOp EXCEPT ![d] = o]
                          /\ phase' = [phase EXCEPT ![o] = "taken"]

LEMMA GetCases ==
  ASSUME NEW d \in Dispatchers, IocpInv, GetCompletion(d)
  PROVE  Got(d)
<1>1. port \in Seq(Ops \cup {STOP_KEY}) /\ port # <<>>
  BY DEF GetCompletion, IocpInv, IocpTypeOK
<1>2. Head(port) \in Ops \cup {STOP_KEY} /\ Head(port) = port[1] /\ 1 \in 1 .. Len(port)
  BY <1>1
<1>3. Head(port) \in Ops => phase[Head(port)] = "posted"
  BY <1>2 DEF IocpInv, PortRight
<1>4. QED
  BY <1>1, <1>2, <1>3 DEF GetCompletion, PhaseTo, Got

LEMMA CountedIsNat == ThreadsCounted => working \in Nat
BY FS_CardinalityType DEF ThreadsCounted

LEMMA ConcatFacts ==
  ASSUME NEW S, NEW s \in Seq(S), NEW t \in Seq(S)
  PROVE  /\ Len(s \o t) = Len(s) + Len(t)
         /\ \A i \in 1 .. Len(s) : (s \o t)[i] = s[i]
         /\ \A i \in 1 .. Len(t) : (s \o t)[Len(s) + i] = t[i]
OBVIOUS

LEMMA IocpTypes == IocpInv /\ [IocpNext]_iocpVars => IocpTypeOK'
<1>1. SUFFICES ASSUME IocpInv, [IocpNext]_iocpVars PROVE IocpTypeOK'
  OBVIOUS
<1>2. IocpTypeOK
  BY <1>1 DEF IocpInv
<1>3. ASSUME NEW o \in Ops, Insert(o) PROVE IocpTypeOK'
  BY <1>2, <1>3, IocpAssumption DEF Insert, PhaseTo, IocpTypeOK, Phases, ioThreads
<1>4. ASSUME NEW o \in Ops, CallPends(o) \/ AsyncCallFails(o) \/ FreeIRP(o) PROVE IocpTypeOK'
  BY <1>2, <1>4 DEF CallPends, AsyncCallFails, FreeIRP, PhaseTo, IocpTypeOK, Phases, ioThreads
<1>5. ASSUME NEW o \in Ops, RemoveIRP(o) PROVE IocpTypeOK'
  <2>1. Removed(o) /\ FileOf[o] \in Files
    BY <1>1, <1>5, RemoveCases, IocpAssumption
  <2>2. listed' \in [Files -> SUBSET Ops]
    BY <1>2, <2>1 DEF Removed, IocpTypeOK
  <2>3. QED
    BY <1>2, <2>1, <2>2 DEF Removed, IocpTypeOK, Phases, ioThreads
<1>6. ASSUME NEW o \in Ops, KernelCompletes(o) PROVE IocpTypeOK'
  BY <1>2, <1>6 DEF KernelCompletes, PhaseTo, IocpTypeOK, Phases, ioThreads
<1>7. ASSUME NEW f \in Files, CancelFile(f) \/ CloseFile(f) \/ CloseFileTable(f) PROVE IocpTypeOK'
  <2>1. CASE CancelFile(f)
    BY <1>2, <2>1 DEF CancelFile, Called, KeepCanceled, IocpTypeOK, ioThreads
  <2>2. CASE CloseFile(f)
    BY <1>2, <2>2 DEF CloseFile, IocpTypeOK, opVars, ioThreads
  <2>3. CASE CloseFileTable(f)
    BY <1>2, <2>3 DEF CloseFileTable, Called, IocpTypeOK, ioThreads
  <2>4. QED
    BY <1>7, <2>1, <2>2, <2>3
<1>8. ASSUME NEW d \in Dispatchers, EnterDispatch(d) \/ CountDispatch(d) PROVE IocpTypeOK'
  BY <1>2, <1>8 DEF EnterDispatch, CountDispatch, IocpTypeOK, opVars
<1>9. ASSUME NEW d \in Dispatchers, GetCompletion(d) PROVE IocpTypeOK'
  <2>1. Got(d)
    BY <1>1, <1>9, GetCases
  <2>2. port' \in Seq(Ops \cup {STOP_KEY})
    BY <1>2, <2>1 DEF Got, IocpTypeOK
  <2>3. CASE UNCHANGED <<takenOp, phase>> /\ dpc' = [dpc EXCEPT ![d] = "out"]
    BY <1>2, <2>1, <2>2, <2>3 DEF Got, IocpTypeOK
  <2>4. ASSUME NEW o \in Ops, takenOp' = [takenOp EXCEPT ![d] = o],
               phase' = [phase EXCEPT ![o] = "taken"], dpc' = [dpc EXCEPT ![d] = "completes"]
        PROVE  IocpTypeOK'
    <3>1. phase' \in [Ops -> Phases] /\ takenOp' \in [Dispatchers -> Ops \cup {STOP_KEY}]
      BY <1>2, <2>4 DEF IocpTypeOK, Phases
    <3>2. /\ dpc' \in [Dispatchers -> {"out", "enters", "gets", "completes", "dead"}]
          /\ \A e \in Dispatchers : dpc'[e] = "completes" => takenOp'[e] \in Ops
      BY <1>2, <2>4 DEF IocpTypeOK
    <3>3. QED
      BY <1>2, <2>1, <2>2, <3>1, <3>2 DEF Got, IocpTypeOK
  <2>5. QED
    BY <2>1, <2>3, <2>4 DEF Got
<1>10. ASSUME NEW d \in Dispatchers, CompleteTaken(d) PROVE IocpTypeOK'
  <2>1. Completed(d)
    BY <1>1, <1>10, CompleteCases
  <2> DEFINE o == takenOp[d]
  <2> HIDE DEF o
  <2>2. phase' \in [Ops -> Phases] /\ listed' \in [Files -> SUBSET Ops] /\ freed' \in SUBSET Ops
    <3>1. /\ phase' = phase \/ phase' = [phase EXCEPT ![o] = "done"]
          /\ listed' = listed \/ listed' = [listed EXCEPT ![FileOf[o]] = listed[FileOf[o]] \ {o}]
          /\ freed' = freed \/ freed' = freed \cup {o}
          /\ o \in Ops /\ FileOf[o] \in Files
      BY <2>1 DEF Completed, o
    <3>2. phase \in [Ops -> Phases] /\ listed \in [Files -> SUBSET Ops] /\ freed \in SUBSET Ops
      BY <1>2 DEF IocpTypeOK
    <3>3. phase' \in [Ops -> Phases]
      BY <3>1, <3>2 DEF Phases
    <3>4. listed' \in [Files -> SUBSET Ops]
      BY <3>1, <3>2
    <3>5. QED
      BY <3>1, <3>2, <3>3, <3>4
  <2>3. callbacks' \in [Ops -> Nat]
    BY <1>2, <2>1 DEF Completed, Called, IocpTypeOK
  <2>4. /\ dpc' \in [Dispatchers -> {"out", "enters", "gets", "completes", "dead"}]
        /\ \A e \in Dispatchers : dpc'[e] = "completes" => takenOp'[e] \in Ops
    BY <1>2, <2>1 DEF Completed, IocpTypeOK
  <2>5. QED
    BY <1>2, <2>1, <2>2, <2>3, <2>4 DEF Completed, IocpTypeOK
<1>11. ASSUME StopService PROVE IocpTypeOK'
  <2>1. port' = port \o [i \in 1 .. working |-> STOP_KEY] /\ working \in Nat
    BY <1>1, <1>11, CountedIsNat DEF StopService, IocpInv
  <2>2. [i \in 1 .. working |-> STOP_KEY] \in Seq(Ops \cup {STOP_KEY})
    BY <2>1
  <2>3. port' \in Seq(Ops \cup {STOP_KEY})
    BY <1>2, <2>1, <2>2 DEF IocpTypeOK
  <2>4. QED
    BY <1>2, <1>11, <2>3 DEF StopService, IocpTypeOK, opVars
<1>12. ASSUME ResetService \/ UNCHANGED iocpVars PROVE IocpTypeOK'
  BY <1>2, <1>12 DEF ResetService, iocpVars, opVars, IocpTypeOK
<1>13. QED
  BY <1>1, <1>3, <1>4, <1>5, <1>6, <1>7, <1>8, <1>9, <1>10, <1>11, <1>12 DEF IocpNext

(* The keys LemonStopIOService posts are as many as the threads in the     *)
(* loop: the counter is their number.                                      *)
LEMMA CountStays == IocpInv /\ [IocpNext]_iocpVars => ThreadsCounted'
<1>1. SUFFICES ASSUME IocpInv, [IocpNext]_iocpVars PROVE ThreadsCounted'
  OBVIOUS
<1>2. IocpTypeOK /\ ThreadsCounted
  BY <1>1 DEF IocpInv
<1>3. ASSUME InLoop' = InLoop, working' = working PROVE ThreadsCounted'
  BY <1>2, <1>3 DEF ThreadsCounted
<1>4. ASSUME NEW d \in Dispatchers, EnterDispatch(d) PROVE ThreadsCounted'
  BY <1>2, <1>3, <1>4 DEF EnterDispatch, InLoop, IocpTypeOK
<1>5. ASSUME NEW d \in Dispatchers, CountDispatch(d) PROVE ThreadsCounted'
  <2>1. InLoop' = InLoop \cup {d} /\ d \notin InLoop /\ working' = working + 1
    BY <1>2, <1>5 DEF CountDispatch, InLoop, IocpTypeOK
  <2>2. QED
    BY <1>2, <2>1, FS_AddElement DEF ThreadsCounted
<1>6. ASSUME NEW d \in Dispatchers, GetCompletion(d) PROVE ThreadsCounted'
  <2>1. Got(d)
    BY <1>1, <1>6, GetCases
  <2>2. CASE dpc' = [dpc EXCEPT ![d] = "out"] /\ working' = working - 1
    <3>1. InLoop' = InLoop \ {d} /\ d \in InLoop
      BY <1>2, <2>1, <2>2 DEF Got, InLoop, IocpTypeOK
    <3>2. QED
      BY <1>2, <2>2, <3>1, FS_RemoveElement DEF ThreadsCounted
  <2>3. CASE dpc' = [dpc EXCEPT ![d] = "completes"] /\ working' = working
    BY <1>2, <1>3, <2>1, <2>3 DEF Got, InLoop, IocpTypeOK
  <2>4. QED
    BY <2>1, <2>2, <2>3 DEF Got
<1>7. ASSUME NEW d \in Dispatchers, CompleteTaken(d) PROVE ThreadsCounted'
  <2>1. Completed(d)
    BY <1>1, <1>7, CompleteCases
  <2>2. QED
    BY <1>2, <1>3, <2>1 DEF Completed, Handling, InLoop, IocpTypeOK
<1>8. ASSUME \/ \E o \in Ops : \/ Insert(o) \/ CallPends(o) \/ AsyncCallFails(o)
                               \/ RemoveIRP(o) \/ FreeIRP(o) \/ KernelCompletes(o)
             \/ \E f \in Files : CancelFile(f) \/ CloseFile(f) \/ CloseFileTable(f)
             \/ StopService \/ ResetService \/ UNCHANGED iocpVars
      PROVE ThreadsCounted'
  <2>1. UNCHANGED <<dpc, working>>
    BY <1>8 DEF Insert, CallPends, AsyncCallFails, RemoveIRP, FreeIRP, KernelCompletes,
       CancelFile, CloseFile, CloseFileTable, StopService, ResetService, ioThreads, iocpVars
  <2>2. QED
    BY <1>3, <2>1 DEF InLoop
<1>9. QED
  BY <1>1, <1>4, <1>5, <1>6, <1>7, <1>8 DEF IocpNext

LEMMA ListsStay == IocpInv /\ [IocpNext]_iocpVars => ListsRight'
<1>1. SUFFICES ASSUME IocpInv, [IocpNext]_iocpVars PROVE ListsRight'
  OBVIOUS
<1>2. IocpTypeOK /\ ListsRight
  BY <1>1 DEF IocpInv
<1>3. ASSUME NEW o \in Ops, Insert(o) PROVE ListsRight'
  BY <1>2, <1>3, IocpAssumption DEF Insert, PhaseTo, IocpTypeOK, ListsRight
<1>4. ASSUME NEW o \in Ops,
             CallPends(o) \/ AsyncCallFails(o) \/ FreeIRP(o) \/ KernelCompletes(o)
      PROVE ListsRight'
  <2>1. UNCHANGED <<listed, fileObjs, openFiles, closing>>
    BY <1>4 DEF CallPends, AsyncCallFails, FreeIRP, KernelCompletes
  <2>2. CASE \E p \in {"kernel", "failed", "posted"} : phase' = [phase EXCEPT ![o] = p]
    BY <1>2, <2>1, <2>2 DEF IocpTypeOK, ListsRight
  <2>3. CASE phase[o] = "removed" /\ phase' = [phase EXCEPT ![o] = "refused"]
    BY <1>2, <2>1, <2>3 DEF IocpTypeOK, ListsRight
  <2>4. QED
    BY <1>4, <2>2, <2>3 DEF CallPends, AsyncCallFails, FreeIRP, KernelCompletes, PhaseTo
<1>5. ASSUME NEW o \in Ops, RemoveIRP(o) PROVE ListsRight'
  <2>1. Removed(o) /\ FileOf[o] \in Files
    BY <1>1, <1>5, RemoveCases, IocpAssumption
  <2>2. \A f \in Files \ fileObjs' : listed'[f] = {}
    BY <1>2, <2>1 DEF Removed, IocpTypeOK, ListsRight
  <2>3. ASSUME NEW f \in Files, NEW p \in listed'[f] PROVE p \in listed[f] /\ p # o
    <3>2. CASE listed' = [listed EXCEPT ![FileOf[o]] = {}]
      BY <1>2, <2>1, <2>3, <3>2 DEF IocpTypeOK, ListsRight
    <3>3. CASE listed' = [listed EXCEPT ![FileOf[o]] = listed[FileOf[o]] \ {o}]
      BY <1>2, <2>1, <2>3, <3>3 DEF IocpTypeOK, ListsRight
    <3>4. QED
      BY <2>1, <3>2, <3>3 DEF Removed
  <2>4. QED
    BY <1>2, <2>1, <2>2, <2>3 DEF Removed, IocpTypeOK, ListsRight
<1>6. ASSUME NEW f \in Files, CancelFile(f) \/ CloseFile(f) \/ CloseFileTable(f) PROVE ListsRight'
  <2>1. CASE CancelFile(f)
    BY <1>2, <2>1 DEF CancelFile, ListsRight
  <2>2. CASE CloseFile(f)
    BY <1>2, <2>2 DEF CloseFile, opVars, ListsRight
  <2>3. CASE CloseFileTable(f)
    BY <1>2, <2>3 DEF CloseFileTable, IocpTypeOK, ListsRight
  <2>4. QED
    BY <1>6, <2>1, <2>2, <2>3
<1>7. ASSUME NEW d \in Dispatchers, GetCompletion(d) PROVE ListsRight'
  <2>1. Got(d)
    BY <1>1, <1>7, GetCases
  <2>2. UNCHANGED <<listed, fileObjs, openFiles, closing>> /\ phase \in [Ops -> Phases]
    BY <1>2, <2>1 DEF Got, IocpTypeOK
  <2>3. \/ UNCHANGED phase
        \/ \E o \in Ops : phase' = [phase EXCEPT ![o] = "taken"]
    BY <2>1 DEF Got
  <2>4. \A o \in Ops : phase'[o] = phase[o] \/ phase'[o] = "taken"
    BY <2>2, <2>3
  <2>5. \A f \in Files : listed[f] \subseteq Ops
    BY <1>2 DEF IocpTypeOK
  <2>6. QED
    BY <1>2, <2>2, <2>4, <2>5 DEF ListsRight
<1>8. ASSUME NEW d \in Dispatchers, CompleteTaken(d) PROVE ListsRight'
  <2>1. Completed(d)
    BY <1>1, <1>8, CompleteCases
  <2>2. CASE UNCHANGED <<listed, phase>>
    BY <1>2, <2>1, <2>2 DEF Completed, ListsRight
  <2>3. CASE /\ listed' = [listed EXCEPT ![FileOf[takenOp[d]]] = @ \ {takenOp[d]}]
             /\ phase' = [phase EXCEPT ![takenOp[d]] = "done"]
    BY <1>2, <2>1, <2>3 DEF Completed, IocpTypeOK, ListsRight
  <2>4. QED
    BY <2>1, <2>2, <2>3 DEF Completed
<1>9. ASSUME \/ \E d \in Dispatchers : EnterDispatch(d) \/ CountDispatch(d)
             \/ StopService \/ ResetService \/ UNCHANGED iocpVars
      PROVE ListsRight'
  BY <1>2, <1>9 DEF EnterDispatch, CountDispatch, StopService, ResetService, opVars, iocpVars,
                    ListsRight
<1>10. QED
  BY <1>1, <1>3, <1>4, <1>5, <1>6, <1>7, <1>8, <1>9 DEF IocpNext

(* No step but those of the kernel and the dispatchers moves an operation  *)
(* out of the port or out of a dispatcher's hands.                         *)
LEMMA PortStays == IocpInv /\ [IocpNext]_iocpVars => PortRight'
<1>1. SUFFICES ASSUME IocpInv, [IocpNext]_iocpVars PROVE PortRight'
  OBVIOUS
<1>2. IocpTypeOK /\ PortRight
  BY <1>1 DEF IocpInv
<1>3. ASSUME NEW o \in Ops, NEW p \in Phases, phase[o] # "posted",
             phase' = [phase EXCEPT ![o] = p], port' = port
      PROVE  PortRight'
  BY <1>2, <1>3 DEF IocpTypeOK, PortRight
<1>4. ASSUME UNCHANGED <<phase, port>> PROVE PortRight'
  BY <1>2, <1>4 DEF PortRight
<1>5. ASSUME NEW o \in Ops,
             Insert(o) \/ CallPends(o) \/ AsyncCallFails(o) \/ RemoveIRP(o) \/ FreeIRP(o)
      PROVE PortRight'
  BY <1>3, <1>5 DEF Insert, CallPends, AsyncCallFails, RemoveIRP, FreeIRP, PhaseTo, Phases
<1>6. ASSUME NEW o \in Ops, KernelCompletes(o) PROVE PortRight'
  <2>1. phase[o] = "kernel" /\ phase' = [phase EXCEPT ![o] = "posted"] /\ port' = Append(port, o)
    BY <1>6 DEF KernelCompletes, PhaseTo
  <2>2. /\ Len(port') = Len(port) + 1 /\ Len(port) \in Nat
        /\ \A i \in 1 .. Len(port) : port'[i] = port[i]
        /\ port'[Len(port) + 1] = o
    BY <1>2, <2>1 DEF IocpTypeOK
  <2>3. \A i \in 1 .. Len(port) : port[i] # o
    BY <1>2, <2>1 DEF PortRight
  <2>4. phase \in [Ops -> Phases]
    BY <1>2 DEF IocpTypeOK
  <2>5. \A i \in 1 .. Len(port') : port'[i] \in Ops => phase'[port'[i]] = "posted"
    BY <1>2, <2>1, <2>2, <2>4 DEF PortRight
  <2>6. \A i, j \in 1 .. Len(port') : port'[i] \in Ops /\ port'[i] = port'[j] => i = j
    BY <1>2, <2>2, <2>3 DEF PortRight
  <2>7. QED
    BY <2>5, <2>6 DEF PortRight
<1>7. ASSUME NEW d \in Dispatchers, GetCompletion(d) PROVE PortRight'
  <2>1. Got(d)
    BY <1>1, <1>7, GetCases
  <2>2. /\ Len(port') = Len(port) - 1 /\ Len(port) \in Nat \ {0} /\ Head(port) = port[1]
        /\ \A i \in 1 .. Len(port') : port'[i] = port[i + 1]
    BY <1>2, <2>1 DEF IocpTypeOK, Got
  <2>3. ASSUME NEW i \in 1 .. Len(port'), port'[i] \in Ops
        PROVE  port'[i] # Head(port) /\ phase[port'[i]] = "posted"
    BY <1>2, <2>2, <2>3 DEF PortRight
  <2>4. \A i, j \in 1 .. Len(port') : port'[i] \in Ops /\ port'[i] = port'[j] => i = j
    BY <1>2, <2>2 DEF PortRight
  <2>5. CASE UNCHANGED phase
    BY <2>3, <2>4, <2>5 DEF PortRight
  <2>6. CASE phase' = [phase EXCEPT ![Head(port)] = "taken"]
    BY <1>2, <2>3, <2>4, <2>6 DEF IocpTypeOK, PortRight
  <2>7. QED
    BY <2>1, <2>5, <2>6 DEF Got
<1>8. ASSUME NEW d \in Dispatchers, CompleteTaken(d) PROVE PortRight'
  <2>1. Completed(d)
    BY <1>1, <1>8, CompleteCases
  <2>2. QED
    BY <1>3, <1>4, <2>1 DEF Completed, Phases
<1>9. ASSUME StopService PROVE PortRight'
  <2> DEFINE keys == [i \in 1 .. working |-> STOP_KEY]
  <2>1. port' = port \o keys /\ UNCHANGED phase /\ working \in Nat
    BY <1>1, <1>9, CountedIsNat DEF StopService, opVars, IocpInv
  <2>2. /\ keys \in Seq(Ops \cup {STOP_KEY}) /\ Len(keys) = working
        /\ \A i \in 1 .. working : keys[i] = STOP_KEY
    BY <2>1
  <2>3. port \in Seq(Ops \cup {STOP_KEY}) /\ Len(port) \in Nat
    BY <1>2 DEF IocpTypeOK
  <2> HIDE DEF keys
  <2>4. /\ Len(port') = Len(port) + working /\ \A i \in 1 .. Len(port) : port'[i] = port[i]
        /\ \A i \in 1 .. working : port'[Len(port) + i] = STOP_KEY
    <3> DEFINE S == Ops \cup {STOP_KEY}
    <3>0. port \in Seq(S) /\ keys \in Seq(S)
      BY <2>2, <2>3
    <3> HIDE DEF S
    <3>1. /\ Len(port \o keys) = Len(port) + Len(keys)
          /\ \A i \in 1 .. Len(port) : (port \o keys)[i] = port[i]
          /\ \A i \in 1 .. Len(keys) : (port \o keys)[Len(port) + i] = keys[i]
      BY <3>0, ConcatFacts
    <3>2. QED
      BY <2>1, <2>2, <3>1
  <2>5. ASSUME NEW i \in 1 .. Len(port'), port'[i] \in Ops
        PROVE  i \in 1 .. Len(port) /\ port'[i] = port[i]
    <3>1. CASE i \in 1 .. Len(port)
      BY <2>4, <3>1
    <3>2. CASE i \notin 1 .. Len(port)
      <4>1. i - Len(port) \in 1 .. working /\ Len(port) + (i - Len(port)) = i
        BY <2>1, <2>3, <2>4, <3>2
      <4>2. QED
        BY <2>4, <2>5, <4>1, IocpAssumption
    <3>3. QED
      BY <3>1, <3>2
  <2>6. \A i \in 1 .. Len(port') : port'[i] \in Ops => phase'[port'[i]] = "posted"
    BY <1>2, <2>1, <2>5 DEF PortRight
  <2>7. ASSUME NEW i \in 1 .. Len(port'), NEW j \in 1 .. Len(port'),
               port'[i] \in Ops, port'[i] = port'[j]
        PROVE  i = j
    <3>1. i \in 1 .. Len(port) /\ j \in 1 .. Len(port) /\ port[i] \in Ops /\ port[i] = port[j]
      BY <2>5, <2>7
    <3>2. QED
      BY <1>2, <3>1 DEF PortRight
  <2>8. QED
    BY <2>6, <2>7 DEF PortRight
<1>10. ASSUME \/ \E f \in Files : CancelFile(f) \/ CloseFile(f) \/ CloseFileTable(f)
              \/ \E d \in Dispatchers : EnterDispatch(d) \/ CountDispatch(d)
              \/ ResetService \/ UNCHANGED iocpVars
       PROVE PortRight'
  BY <1>4, <1>10 DEF CancelFile, CloseFile, CloseFileTable, EnterDispatch, CountDispatch,
                     ResetService, opVars, iocpVars
<1>11. QED
  BY <1>1, <1>5, <1>6, <1>7, <1>8, <1>9, <1>10 DEF IocpNext

LEMMA TakenStays == IocpInv /\ [IocpNext]_iocpVars => TakenRight'
<1>1. SUFFICES ASSUME IocpInv, [IocpNext]_iocpVars PROVE TakenRight'
  OBVIOUS
<1>2. IocpTypeOK /\ TakenRight
  BY <1>1 DEF IocpInv
<1>3. ASSUME NEW o \in Ops, NEW p \in Phases, phase[o] # "taken",
             phase' = [phase EXCEPT ![o] = p], UNCHANGED <<dpc, takenOp>>
      PROVE  TakenRight'
  BY <1>2, <1>3 DEF IocpTypeOK, TakenRight, Handling
<1>4. ASSUME UNCHANGED <<phase, takenOp>>, \A d \in Dispatchers : Handling(d)' => Handling(d)
      PROVE  TakenRight'
  BY <1>2, <1>4 DEF TakenRight, Handling
<1>5. ASSUME NEW o \in Ops, \/ Insert(o) \/ CallPends(o) \/ AsyncCallFails(o) \/ RemoveIRP(o)
                            \/ FreeIRP(o) \/ KernelCompletes(o)
      PROVE TakenRight'
  BY <1>3, <1>5 DEF Insert, CallPends, AsyncCallFails, RemoveIRP, FreeIRP, KernelCompletes,
                    PhaseTo, Phases, ioThreads
<1>6. ASSUME NEW d \in Dispatchers, EnterDispatch(d) \/ CountDispatch(d) PROVE TakenRight'
  <2>1. UNCHANGED <<phase, takenOp>>
    BY <1>6 DEF EnterDispatch, CountDispatch, opVars
  <2>2. \A e \in Dispatchers : Handling(e)' => Handling(e)
    BY <1>2, <1>6 DEF EnterDispatch, CountDispatch, Handling, IocpTypeOK
  <2>3. QED
    BY <1>4, <2>1, <2>2
<1>7. ASSUME NEW d \in Dispatchers, GetCompletion(d) PROVE TakenRight'
  <2>1. Got(d)
    BY <1>1, <1>7, GetCases
  <2>2. CASE UNCHANGED <<takenOp, phase>> /\ dpc' = [dpc EXCEPT ![d] = "out"]
    BY <1>2, <1>4, <2>2 DEF Handling, IocpTypeOK
  <2>3. ASSUME NEW o \in Ops, phase[o] = "posted", takenOp' = [takenOp EXCEPT ![d] = o],
               phase' = [phase EXCEPT ![o] = "taken"], dpc' = [dpc EXCEPT ![d] = "completes"]
        PROVE  TakenRight'
    BY <1>2, <2>3 DEF TakenRight, Handling, IocpTypeOK
  <2>4. QED
    BY <2>1, <2>2, <2>3 DEF Got
<1>8. ASSUME NEW d \in Dispatchers, CompleteTaken(d) PROVE TakenRight'
  <2>1. Completed(d)
    BY <1>1, <1>8, CompleteCases
  <2>2. takenOp' = takenOp /\ Handling(d) /\ takenOp[d] \in Ops
    BY <2>1 DEF Completed
  <2>3. CASE phase' = phase /\ dpc' = [dpc EXCEPT ![d] = "dead"]
    BY <1>2, <1>4, <2>2, <2>3 DEF Handling, IocpTypeOK
  <2>4. CASE phase' = [phase EXCEPT ![takenOp[d]] = "done"] /\ dpc' = [dpc EXCEPT ![d] = "gets"]
    BY <1>2, <2>2, <2>4 DEF TakenRight, Handling, IocpTypeOK
  <2>5. QED
    BY <2>1, <2>3, <2>4 DEF Completed
<1>9. ASSUME \/ \E f \in Files : CancelFile(f) \/ CloseFile(f) \/ CloseFileTable(f)
             \/ StopService \/ ResetService \/ UNCHANGED iocpVars
      PROVE TakenRight'
  <2>1. UNCHANGED <<phase, takenOp, dpc>>
    BY <1>9 DEF CancelFile, CloseFile, CloseFileTable, StopService, ResetService, opVars,
                ioThreads, iocpVars
  <2>2. QED
    BY <1>4, <2>1 DEF Handling
<1>10. QED
  BY <1>1, <1>5, <1>6, <1>7, <1>8, <1>9 DEF IocpNext

LEMMA FreesStay == IocpInv /\ [IocpNext]_iocpVars => FreesRight'
<1>1. SUFFICES ASSUME IocpInv, [IocpNext]_iocpVars PROVE FreesRight'
  OBVIOUS
<1>2. IocpTypeOK /\ ListsRight /\ FreesRight
  BY <1>1 DEF IocpInv
<1>3. ASSUME NEW o \in Ops, NEW p \in Phases, phase[o] \notin {"done", "refused"},
             phase' = [phase EXCEPT ![o] = p], UNCHANGED <<freed, openFiles>>
      PROVE  FreesRight'
  BY <1>2, <1>3 DEF IocpTypeOK, FreesRight
<1>4. ASSUME NEW o \in Ops, \/ Insert(o) \/ CallPends(o) \/ AsyncCallFails(o) \/ RemoveIRP(o)
                            \/ KernelCompletes(o)
      PROVE FreesRight'
  BY <1>3, <1>4 DEF Insert, CallPends, AsyncCallFails, RemoveIRP, KernelCompletes, PhaseTo, Phases
<1>5. ASSUME NEW o \in Ops, FreeIRP(o) PROVE FreesRight'
  BY <1>2, <1>5 DEF FreeIRP, PhaseTo, IocpTypeOK, FreesRight
<1>6. ASSUME NEW f \in Files, CancelFile(f) PROVE FreesRight'
  BY <1>2, <1>6 DEF CancelFile, KeepCanceled, FreesRight
<1>7. ASSUME NEW f \in Files, CloseFile(f) PROVE FreesRight'
  BY <1>2, <1>7 DEF CloseFile, opVars, FreesRight
<1>8. ASSUME NEW f \in Files, CloseFileTable(f) PROVE FreesRight'
  <2>1. \A o \in listed[f] : FileOf[o] \notin openFiles
    BY <1>2, <1>8 DEF CloseFileTable, ListsRight
  <2>2. QED
    BY <1>2, <1>8, <2>1 DEF CloseFileTable, FreesRight
<1>9. ASSUME NEW d \in Dispatchers, GetCompletion(d) PROVE FreesRight'
  <2>1. Got(d)
    BY <1>1, <1>9, GetCases
  <2>2. CASE UNCHANGED phase
    BY <1>2, <2>1, <2>2 DEF Got, FreesRight
  <2>3. QED
    BY <1>3, <2>1, <2>2 DEF Got, Phases
<1>10. ASSUME NEW d \in Dispatchers, CompleteTaken(d) PROVE FreesRight'
  <2>1. Completed(d)
    BY <1>1, <1>10, CompleteCases
  <2>2. CASE UNCHANGED <<freed, phase>>
    BY <1>2, <2>1, <2>2 DEF Completed, FreesRight
  <2>3. CASE freed' = freed \cup {takenOp[d]} /\ phase' = [phase EXCEPT ![takenOp[d]] = "done"]
    BY <1>2, <2>1, <2>3 DEF Completed, IocpTypeOK, FreesRight
  <2>4. QED
    BY <2>1, <2>2, <2>3 DEF Completed
<1>11. ASSUME \/ \E d \in Dispatchers : EnterDispatch(d) \/ CountDispatch(d)
              \/ StopService \/ ResetService \/ UNCHANGED iocpVars
       PROVE FreesRight'
  BY <1>2, <1>11 DEF EnterDispatch, CountDispatch, StopService, ResetService, opVars, iocpVars,
                     FreesRight
<1>12. QED
  BY <1>1, <1>4, <1>5, <1>6, <1>7, <1>8, <1>9, <1>10, <1>11 DEF IocpNext

(* A callback is called by the cancellation, by the close or by the        *)
(* dispatcher: the first leaves its mark, the others take the IRP out of   *)
(* the list.                                                               *)
LEMMA CallsStay == IocpInv /\ [IocpNext]_iocpVars => CallsRight'
<1>1. SUFFICES ASSUME IocpInv, [IocpNext]_iocpVars PROVE CallsRight'
  OBVIOUS
<1>2. IocpTypeOK /\ ListsRight /\ CallsRight /\ \A o \in Ops : FileOf[o] \in Files
  BY <1>1, IocpAssumption DEF IocpInv
<1>3. ASSUME NEW o \in Ops, NEW p \in Phases \ {"none", "done"}, phase[o] # "done",
             phase' = [phase EXCEPT ![o] = p],
             UNCHANGED <<canceled, callbacks, again, openFiles>>,
             \A q \in Ops : q \in listed'[FileOf[q]] => q \in listed[FileOf[q]]
      PROVE  CallsRight'
  BY <1>2, <1>3 DEF IocpTypeOK, CallsRight, CallRight
<1>4. ASSUME UNCHANGED <<phase, canceled, callbacks, again, listed>>, openFiles' \subseteq openFiles
      PROVE  CallsRight'
  BY <1>2, <1>4 DEF CallsRight, CallRight
<1>5. ASSUME NEW o \in Ops, Insert(o) PROVE CallsRight'
  <2>1. /\ phase[o] = "none" /\ phase' = [phase EXCEPT ![o] = "inserted"]
        /\ UNCHANGED <<canceled, callbacks, again, openFiles>>
    BY <1>5 DEF Insert, PhaseTo
  <2>2. \A q \in Ops \ {o} : q \in listed'[FileOf[q]] => q \in listed[FileOf[q]]
    BY <1>2, <1>5 DEF Insert, IocpTypeOK, ListsRight
  <2>3. QED
    BY <1>2, <2>1, <2>2 DEF IocpTypeOK, CallsRight, CallRight
<1>6. ASSUME NEW o \in Ops, CallPends(o) \/ AsyncCallFails(o) \/ FreeIRP(o) \/ KernelCompletes(o)
      PROVE  CallsRight'
  BY <1>3, <1>6 DEF CallPends, AsyncCallFails, FreeIRP, KernelCompletes, PhaseTo, Phases
<1>7. ASSUME NEW o \in Ops, RemoveIRP(o) PROVE CallsRight'
  <2>1. Removed(o)
    BY <1>1, <1>7, RemoveCases
  <2>2. \A q \in Ops : q \in listed'[FileOf[q]] => q \in listed[FileOf[q]]
    BY <1>2, <2>1 DEF Removed, IocpTypeOK
  <2>3. QED
    BY <1>3, <2>1, <2>2 DEF Removed, Phases
<1>8. ASSUME NEW f \in Files, CancelFile(f) PROVE CallsRight'
  <2>1. /\ canceled' = [o \in Ops |-> canceled[o] \/ o \in listed[f]]
        /\ callbacks' = [o \in Ops |-> IF o \in listed[f] THEN callbacks[o] + 1 ELSE callbacks[o]]
        /\ again' = again \cup {o \in listed[f] : canceled[o]}
        /\ UNCHANGED <<phase, listed, openFiles>>
    BY <1>8 DEF CancelFile, Called
  <2>2. ASSUME NEW o \in Ops, o \in listed[f], phase[o] # "none", FileOf[o] = f
        PROVE  /\ canceled'[o] = TRUE /\ callbacks'[o] = callbacks[o] + 1
               /\ ~canceled[o] => callbacks[o] = 0
               /\ canceled[o] => o \in again'
               /\ phase[o] # "done"
    BY <1>2, <2>1, <2>2 DEF CallsRight, CallRight, ListsRight
  <2>3. ASSUME NEW o \in Ops, o \notin listed[f]
        PROVE  canceled'[o] = canceled[o] /\ callbacks'[o] = callbacks[o] /\ (o \in again' <=> o \in again)
    BY <1>2, <2>1, <2>3 DEF IocpTypeOK
  <2>4. \A o \in listed[f] : o \in Ops /\ FileOf[o] = f /\ phase[o] # "none"
    BY <1>2 DEF ListsRight, IocpTypeOK
  <2>5. ASSUME NEW o \in Ops PROVE CallRight(o)'
    <3>1. CASE o \in listed[f]
      <4>1. FileOf[o] = f /\ phase[o] \notin {"none", "done"} /\ canceled'[o]
        BY <2>2, <2>4, <3>1
      <4>2. o \notin again' => ~canceled[o] /\ callbacks'[o] = 1
        <5>1. callbacks'[o] = callbacks[o] + 1 /\ (canceled[o] => o \in again')
          BY <2>2, <2>4, <3>1
        <5>2. ~canceled[o] => callbacks[o] = 0
          BY <2>2, <2>4, <3>1
        <5>3. QED
          BY <5>1, <5>2
      <4>3. QED
        BY <2>1, <4>1, <4>2 DEF CallRight
    <3>2. CASE o \notin listed[f]
      BY <1>2, <2>1, <2>3, <3>2 DEF CallsRight, CallRight, IocpTypeOK
    <3>3. QED
      BY <3>1, <3>2
  <2>6. QED
    BY <2>5 DEF CallsRight
<1>9. ASSUME NEW f \in Files, CloseFile(f) PROVE CallsRight'
  BY <1>4, <1>9 DEF CloseFile, opVars
<1>10. ASSUME NEW f \in Files, CloseFileTable(f) PROVE CallsRight'
  <2>1. /\ callbacks' = [o \in Ops |-> IF o \in listed[f] THEN callbacks[o] + 1 ELSE callbacks[o]]
        /\ again' = again \cup {o \in listed[f] : canceled[o]}
        /\ listed' = [listed EXCEPT ![f] = {}]
        /\ UNCHANGED <<phase, canceled, openFiles>>
    BY <1>10 DEF CloseFileTable, Called
  <2>2. \A o \in listed[f] : o \in Ops /\ FileOf[o] = f /\ phase[o] \notin {"none", "done"}
    BY <1>2 DEF ListsRight, IocpTypeOK
  <2>3. f \notin openFiles
    BY <1>2, <1>10 DEF CloseFileTable, ListsRight
  <2>4. ASSUME NEW o \in Ops, o \in listed[f]
        PROVE  /\ callbacks'[o] = callbacks[o] + 1
               /\ ~canceled[o] => callbacks[o] = 0
               /\ canceled[o] => o \in again'
               /\ o \notin listed'[FileOf[o]] /\ FileOf[o] \notin openFiles
    BY <1>2, <2>1, <2>2, <2>3, <2>4 DEF CallsRight, CallRight, IocpTypeOK
  <2>5. ASSUME NEW o \in Ops, o \notin listed[f]
        PROVE  /\ callbacks'[o] = callbacks[o] /\ (o \in again' <=> o \in again)
               /\ o \in listed'[FileOf[o]] => o \in listed[FileOf[o]]
    BY <1>2, <2>1, <2>5 DEF IocpTypeOK
  <2>6. QED
    BY <1>2, <2>1, <2>2, <2>4, <2>5 DEF CallsRight, CallRight, IocpTypeOK
<1>11. ASSUME NEW d \in Dispatchers, GetCompletion(d) PROVE CallsRight'
  <2>1. Got(d)
    BY <1>1, <1>11, GetCases
  <2>2. CASE UNCHANGED phase
    BY <1>4, <2>1, <2>2 DEF Got
  <2>3. QED
    BY <1>3, <2>1, <2>2 DEF Got, Phases
<1>12. ASSUME NEW d \in Dispatchers, CompleteTaken(d) PROVE CallsRight'
  <2>1. Completed(d)
    BY <1>1, <1>12, CompleteCases
  <2>2. CASE UNCHANGED <<listed, callbacks, phase>>
    BY <1>4, <2>1, <2>2 DEF Completed
  <2>3. ASSUME NEW o \in Ops, o \in listed[FileOf[o]],
               listed' = [listed EXCEPT ![FileOf[o]] = listed[FileOf[o]] \ {o}],
               callbacks' = IF ~canceled[o] THEN Called({o}) ELSE callbacks,
               phase' = [phase EXCEPT ![o] = "done"],
               UNCHANGED <<canceled, again, openFiles>>
        PROVE  CallsRight'
    <3>1. \A q \in Ops \ {o} : callbacks'[q] = callbacks[q] /\ phase'[q] = phase[q]
      BY <1>2, <2>3 DEF Called, IocpTypeOK
    <3>2. \A q \in Ops : q \in listed'[FileOf[q]] => q # o /\ q \in listed[FileOf[q]]
      BY <1>2, <2>3 DEF IocpTypeOK
    <3>3. o \notin again => callbacks'[o] = 1
      BY <1>2, <2>3 DEF Called, IocpTypeOK, CallsRight, CallRight
    <3>4. phase'[o] = "done"
      BY <1>2, <2>3 DEF IocpTypeOK
    <3>5. ASSUME NEW q \in Ops PROVE CallRight(q)'
      <4>1. CASE q = o
        BY <1>2, <2>3, <3>2, <3>3, <3>4, <4>1 DEF CallsRight, CallRight, IocpTypeOK
      <4>2. CASE q # o
        BY <1>2, <2>3, <3>1, <3>2, <4>2 DEF CallsRight, CallRight
      <4>3. QED
        BY <4>1, <4>2
    <3>6. QED
      BY <3>5 DEF CallsRight
  <2>4. QED
    BY <2>1, <2>2, <2>3 DEF Completed
<1>13. ASSUME \/ \E d \in Dispatchers : EnterDispatch(d) \/ CountDispatch(d)
              \/ StopService \/ ResetService \/ UNCHANGED iocpVars
       PROVE CallsRight'
  BY <1>4, <1>13 DEF EnterDispatch, CountDispatch, StopService, ResetService, opVars, iocpVars
<1>14. QED
  BY <1>1, <1>5, <1>6, <1>7, <1>8, <1>9, <1>10, <1>11, <1>12, <1>13 DEF IocpNext

(* An IRP leaves the list of an open socket by its own step, or together   *)
(* with the object, which makes it an orphan.                              *)
LEMMA NoneGetsLost == IocpInv /\ [IocpNext]_iocpVars => NoneLost'
<1>1. SUFFICES ASSUME IocpInv, [IocpNext]_iocpVars PROVE NoneLost'
  OBVIOUS
<1>2. IocpTypeOK /\ ListsRight /\ NoneLost /\ \A o \in Ops : FileOf[o] \in Files
  BY <1>1, IocpAssumption DEF IocpInv
<1>3. ASSUME UNCHANGED <<listed, orphaned, iocpAsserted>>, openFiles' \subseteq openFiles,
             \A o \in Ops : Pending(o)' => Pending(o)
      PROVE  NoneLost'
  BY <1>2, <1>3 DEF NoneLost
<1>4. ASSUME NEW o \in Ops, NEW p \in Phases \ {"none"}, Pending(o) \/ p \notin {"inserted", "kernel", "posted", "taken", "failed"},
             phase' = [phase EXCEPT ![o] = p], UNCHANGED <<listed, orphaned, iocpAsserted, openFiles>>
      PROVE  NoneLost'
  <2>1. \A q \in Ops : Pending(q)' => Pending(q)
    BY <1>2, <1>4 DEF Pending, IocpTypeOK
  <2>2. QED
    BY <1>3, <1>4, <2>1
<1>5. ASSUME NEW o \in Ops, Insert(o) PROVE NoneLost'
  <2>1. \A q \in Ops : Pending(q)' => Pending(q) \/ q = o
    BY <1>2, <1>5 DEF Insert, PhaseTo, Pending, IocpTypeOK
  <2>2. o \in listed'[FileOf[o]] /\ \A q \in Ops : q \in listed[FileOf[q]] => q \in listed'[FileOf[q]]
    BY <1>2, <1>5 DEF Insert, ListsRight, IocpTypeOK
  <2>3. QED
    BY <1>2, <1>5, <2>1, <2>2 DEF Insert, NoneLost
<1>6. ASSUME NEW o \in Ops, CallPends(o) \/ AsyncCallFails(o) \/ FreeIRP(o) \/ KernelCompletes(o)
      PROVE  NoneLost'
  BY <1>4, <1>6 DEF CallPends, AsyncCallFails, FreeIRP, KernelCompletes, PhaseTo, Phases, Pending
<1>7. ASSUME NEW o \in Ops, RemoveIRP(o) PROVE NoneLost'
  <2>1. Removed(o) /\ Pending(o)
    BY <1>1, <1>7, RemoveCases DEF Removed, Pending
  <2>2. \A q \in Ops : Pending(q)' => Pending(q) /\ q # o
    BY <1>2, <2>1 DEF Removed, Pending, IocpTypeOK
  <2>3. \A q \in Ops \ {o} : q \in listed[FileOf[q]] \cup orphaned => q \in listed'[FileOf[q]] \cup orphaned'
    BY <1>2, <2>1 DEF Removed, IocpTypeOK
  <2>4. orphaned \subseteq orphaned' /\ openFiles' = openFiles
    BY <2>1 DEF Removed
  <2>5. \A q \in iocpAsserted' : FileOf[q] \in openFiles => q \in orphaned
    BY <1>2, <2>1 DEF Removed, NoneLost
  <2>6. QED
    BY <1>2, <2>2, <2>3, <2>4, <2>5 DEF NoneLost
<1>8. ASSUME NEW f \in Files, CancelFile(f) \/ CloseFile(f) PROVE NoneLost'
  BY <1>3, <1>8 DEF CancelFile, CloseFile, opVars, Pending
<1>9. ASSUME NEW f \in Files, CloseFileTable(f) PROVE NoneLost'
  <2>1. /\ f \notin openFiles /\ listed' = [listed EXCEPT ![f] = {}]
        /\ UNCHANGED <<phase, openFiles, orphaned, iocpAsserted>>
    BY <1>2, <1>9 DEF CloseFileTable, ListsRight
  <2>2. \A o \in Ops : FileOf[o] \in openFiles => listed'[FileOf[o]] = listed[FileOf[o]]
    BY <1>2, <2>1 DEF IocpTypeOK
  <2>3. QED
    BY <1>2, <2>1, <2>2 DEF NoneLost, Pending
<1>10. ASSUME NEW d \in Dispatchers, GetCompletion(d) PROVE NoneLost'
  <2>1. Got(d)
    BY <1>1, <1>10, GetCases
  <2>2. CASE UNCHANGED phase
    BY <1>3, <2>1, <2>2 DEF Got, Pending
  <2>3. QED
    BY <1>4, <2>1, <2>2 DEF Got, Phases, Pending
<1>11. ASSUME NEW d \in Dispatchers, CompleteTaken(d) PROVE NoneLost'
  <2>1. Completed(d)
    BY <1>1, <1>11, CompleteCases
  <2> DEFINE o == takenOp[d]
  <2>2. o \in Ops /\ FileOf[o] \in Files /\ Pending(o) /\ openFiles' = openFiles /\ orphaned' = orphaned
    BY <2>1 DEF Completed, Pending
  <2>3. CASE o \notin listed[FileOf[o]]
    <3>1. UNCHANGED <<listed, phase>> /\ iocpAsserted' = {o}
      BY <2>1, <2>3 DEF Completed
    <3>2. FileOf[o] \in openFiles => o \in orphaned
      BY <1>2, <2>2, <2>3 DEF NoneLost
    <3>3. QED
      BY <1>2, <2>2, <3>1, <3>2 DEF NoneLost, Pending
  <2>4. CASE o \in listed[FileOf[o]]
    <3>1. /\ listed' = [listed EXCEPT ![FileOf[o]] = @ \ {o}]
          /\ phase' = [phase EXCEPT ![o] = "done"] /\ UNCHANGED iocpAsserted
      BY <2>1, <2>4 DEF Completed
    <3> HIDE DEF o
    <3>2. \A q \in Ops : Pending(q)' => Pending(q) /\ q # o
      BY <1>2, <2>2, <3>1 DEF Pending, IocpTypeOK
    <3>3. \A q \in Ops \ {o} : q \in listed[FileOf[q]] => q \in listed'[FileOf[q]]
      BY <1>2, <2>2, <3>1 DEF IocpTypeOK
    <3>4. QED
      BY <1>2, <2>2, <3>1, <3>2, <3>3 DEF NoneLost
  <2>5. QED
    BY <2>3, <2>4
<1>12. ASSUME \/ \E d \in Dispatchers : EnterDispatch(d) \/ CountDispatch(d)
              \/ StopService \/ ResetService \/ UNCHANGED iocpVars
       PROVE NoneLost'
  BY <1>3, <1>12 DEF EnterDispatch, CountDispatch, StopService, ResetService, opVars, iocpVars, Pending
<1>13. QED
  BY <1>1, <1>5, <1>6, <1>7, <1>8, <1>9, <1>10, <1>11, <1>12 DEF IocpNext

LEMMA IocpStart == IocpInit => IocpInv
<1>1. SUFFICES ASSUME IocpInit PROVE IocpInv
  OBVIOUS
<1>2. IocpTypeOK
  BY <1>1 DEF IocpInit, IocpTypeOK, Phases
<1>3. ThreadsCounted
  <2>1. InLoop = {}
    BY <1>1 DEF IocpInit, InLoop
  <2>2. QED
    BY <1>1, <2>1, FS_EmptySet DEF IocpInit, ThreadsCounted
<1>4. ListsRight /\ PortRight /\ TakenRight /\ FreesRight
  BY <1>1, IocpAssumption DEF IocpInit, ListsRight, PortRight, TakenRight, Handling, FreesRight
<1>5. CallsRight
  BY <1>1, IocpAssumption DEF IocpInit, CallsRight, CallRight
<1>6. NoneLost
  BY <1>1 DEF IocpInit, NoneLost, Pending
<1>7. QED
  BY <1>2, <1>3, <1>4, <1>5, <1>6 DEF IocpInv

(* However requests are submitted, refused, cancelled, closed, completed   *)
(* and dispatched, and the service stopped and reset, no IRP of an open    *)
(* socket is freed under the kernel, the port or a dispatcher, and each is *)
(* answered once unless it is cancelled again.                             *)
THEOREM FlightsAreSafe == IocpSpec => []FlightIsSafe
<1>1. IocpInv /\ [IocpNext]_iocpVars => IocpInv'
  BY IocpTypes, CountStays, ListsStay, PortStays, TakenStays, FreesStay, CallsStay, NoneGetsLost
     DEF IocpInv
<1>2. IocpInv => FlightIsSafe
  <2>1. SUFFICES ASSUME IocpInv PROVE FlightIsSafe
    OBVIOUS
  <2>2. \A o \in Ops : InFlight(o) /\ o \in freed => FileOf[o] \notin openFiles
    BY <2>1 DEF IocpInv, FreesRight, InFlight
  <2>3. QED
    BY <2>1, <2>2 DEF IocpInv, CallsRight, CallRight, NoneLost, FlightIsSafe
<1>3. QED
  BY IocpStart, <1>1, <1>2, PTL DEF IocpSpec

-----------------------------------------------------------------------------
(* Files of the io library: an open FILE has one handle, which closes it. *)
Closes == {"io_fclose", "io_pclose", "io_noclose"}
IsOpen(h) == closef[h] \in Closes

FilesTypeOK ==
  /\ closef \in [Handle -> Closes \cup {"none", "NULL"}]
  /\ file \in [Handle -> FilesOf \cup {NullFile}]
  /\ opened \in [FilesOf -> {"free", "fopen", "popen", "std"}]
  /\ holds \subseteq Handle /\ input \in Handle /\ output \in Handle
  /\ iterators \subseteq [h : Handle, toclose : BOOLEAN]

(* How a FILE was opened is how its open handles close it, and for one from the C *)
(* library there is one such handle. *)
KindsAgree == /\ \A h \in Handle : IsOpen(h) /\ file[h] # NullFile => opened[file[h]] = Kind[closef[h]]
              /\ \A s \in Stream : opened[s] # "std"
              /\ \A s \in Standard : opened[s] = "std"
OneHandle == /\ \A g, h \in Handle : IsOpen(g) /\ IsOpen(h) /\ file[g] = file[h] /\ file[g] \in Stream
                                     => g = h
             /\ \A s \in Stream : opened[s] # "free" => \E h \in Handle : IsOpen(h) /\ file[h] = s
ReachedOpen == \A h \in Reached : closef[h] # "none" /\ (IsOpen(h) => file[h] # NullFile)

FilesInv == FilesTypeOK /\ KindsAgree /\ OneHandle /\ ReachedOpen

LEMMA KindFacts ==
  /\ DOMAIN Kind = Closes /\ Kind["io_fclose"] = "fopen" /\ Kind["io_pclose"] = "popen"
  /\ Kind["io_noclose"] = "std"
  BY DEF Kind, Closes

LEMMA FilesStart == FilesInit => FilesInv
<1> SUFFICES ASSUME FilesInit PROVE FilesInv
  OBVIOUS
<1>1. FilesTypeOK
  BY FilesAssumption DEF FilesInit, FilesTypeOK, FilesAssumption, FilesOf, Standard, Closes
<1>2. KindsAgree
  BY FilesAssumption, KindFacts
  DEF FilesInit, KindsAgree, FilesAssumption, FilesOf, Standard, Closes, IsOpen
<1>3. OneHandle /\ ReachedOpen
  BY FilesAssumption DEF FilesInit, OneHandle, ReachedOpen, Reached, FilesAssumption, FilesOf,
     Standard, Closes, IsOpen
<1> QED
  BY <1>1, <1>2, <1>3 DEF FilesInv

(* A handle is made, with a FILE that was free or none. *)
LEMMA NewHandleStep ==
  ASSUME FilesInv, NEW h \in Handle, NEW s \in Opens("fopen"),
         NEW by \in {"fopen", "popen"}, NEW close \in {"io_fclose", "io_pclose"},
         Kind[close] = by, NewHandle(h, s, by, close)
  PROVE  /\ closef' \in [Handle -> Closes \cup {"none", "NULL"}]
         /\ file' \in [Handle -> FilesOf \cup {NullFile}]
         /\ opened' \in [FilesOf -> {"free", "fopen", "popen", "std"}]
         /\ KindsAgree' /\ OneHandle'
         /\ h \notin Reached /\ closef'[h] # "none" /\ file'[h] = s
         /\ \A g \in Handle : g # h => closef'[g] = closef[g] /\ file'[g] = file[g]
<1> USE DEF FilesInv
<1>1. /\ closef[h] = "none" /\ closef' = [closef EXCEPT ![h] = close]
      /\ file' = [file EXCEPT ![h] = s]
      /\ s = NullFile \/ (s \in Stream /\ opened[s] = "free")
      /\ s \in FilesOf \cup {NullFile}
  BY DEF NewHandle, Opens, FilesOf
<1>2. /\ closef' \in [Handle -> Closes \cup {"none", "NULL"}]
      /\ file' \in [Handle -> FilesOf \cup {NullFile}]
      /\ opened' \in [FilesOf -> {"free", "fopen", "popen", "std"}]
  BY <1>1 DEF FilesTypeOK, NewHandle, GivenOut, Closes
<1>3. /\ closef'[h] = close /\ file'[h] = s /\ IsOpen(h)'
      /\ \A g \in Handle : g # h => closef'[g] = closef[g] /\ file'[g] = file[g]
  BY <1>1 DEF FilesTypeOK, IsOpen, Closes
<1>4. /\ \A f \in FilesOf : f # s => opened'[f] = opened[f]
      /\ s # NullFile => opened'[s] = by
  BY <1>1, FilesAssumption DEF NewHandle, GivenOut, FilesTypeOK, FilesAssumption, FilesOf
<1>5. ~IsOpen(h)
  BY <1>1 DEF IsOpen, Closes
<1>6. \A g \in Handle : g # h /\ s # NullFile => ~(IsOpen(g) /\ file[g] = s)
  BY <1>1, KindFacts DEF KindsAgree, IsOpen, Closes
<1>7. KindsAgree'
  BY <1>1, <1>2, <1>3, <1>4, <1>6, FilesAssumption
  DEF KindsAgree, IsOpen, FilesTypeOK, FilesAssumption, FilesOf
<1>8. OneHandle'
  BY <1>1, <1>3, <1>4, <1>5, <1>6, FilesAssumption DEF OneHandle, IsOpen, FilesOf, FilesAssumption
<1> QED
  BY <1>1, <1>2, <1>3, <1>7, <1>8 DEF ReachedOpen, Closes

(* A handle is closed, or collected: its FILE, if it has one of the C library, is free. *)
LEMMA CloseHandleStep ==
  ASSUME FilesInv, NEW h \in Handle, NEW c \in {"none", "NULL"}, IsOpen(h),
         file[h] # NullFile, closef[h] # "io_noclose",
         closef' = [closef EXCEPT ![h] = c], opened' = [opened EXCEPT ![file[h]] = "free"],
         file' = file \/ (c = "none" /\ file' = [file EXCEPT ![h] = NullFile])
  PROVE  /\ closef' \in [Handle -> Closes \cup {"none", "NULL"}]
         /\ opened' \in [FilesOf -> {"free", "fopen", "popen", "std"}]
         /\ KindsAgree' /\ OneHandle'
<1> USE DEF FilesInv
<1>1. closef \in [Handle -> Closes \cup {"none", "NULL"}] /\ file \in [Handle -> FilesOf \cup {NullFile}]
  BY DEF FilesTypeOK
<1>2. file[h] \in Stream
  BY <1>1, KindFacts DEF KindsAgree, IsOpen, Closes, FilesOf
<1>3. /\ closef' \in [Handle -> Closes \cup {"none", "NULL"}]
      /\ opened' \in [FilesOf -> {"free", "fopen", "popen", "std"}]
  BY <1>2 DEF FilesTypeOK, FilesOf
<1>4. /\ opened'[file[h]] = "free" /\ \A f \in FilesOf : f # file[h] => opened'[f] = opened[f]
  BY <1>2 DEF FilesTypeOK, FilesOf
<1>5. /\ ~IsOpen(h)' /\ \A g \in Handle : g # h => (IsOpen(g)' <=> IsOpen(g)) /\ file'[g] = file[g]
                                                   /\ closef'[g] = closef[g]
  BY <1>1 DEF IsOpen, Closes
<1>6. \A g \in Handle : g # h /\ IsOpen(g) => file[g] # file[h]
  BY <1>2 DEF OneHandle
<1>7. KindsAgree'
  BY <1>1, <1>2, <1>4, <1>5, <1>6, FilesAssumption DEF KindsAgree, FilesOf, FilesAssumption
<1>8. OneHandle'
  BY <1>2, <1>4, <1>5, <1>6, FilesAssumption DEF OneHandle, FilesOf, FilesAssumption
<1> QED
  BY <1>3, <1>7, <1>8

LEMMA AuxCloseStep ==
  ASSUME FilesInv, NEW h \in Reached, ~isclosed(h), aux_close(h),
         UNCHANGED <<holds, input, output, iterators>>
  PROVE  FilesInv'
<1> USE DEF FilesInv
<1>1. h \in Handle /\ IsOpen(h) /\ file[h] # NullFile /\ file' = file
  BY DEF FilesTypeOK, Reached, ReachedOpen, isclosed, IsOpen, aux_close
<1>2. CASE closef[h] = "io_noclose"
  <2>1. closef' = closef /\ opened' = opened
    BY <1>1, <1>2 DEF aux_close, CloseStream, FilesTypeOK
  <2> QED
    BY <1>1, <2>1 DEF FilesTypeOK, KindsAgree, OneHandle, ReachedOpen, Reached, IsOpen
<1>3. CASE closef[h] # "io_noclose"
  <2>1. closef' = [closef EXCEPT ![h] = "NULL"] /\ opened' = [opened EXCEPT ![file[h]] = "free"]
    BY <1>3 DEF aux_close, CloseStream, Marked
  <2>2. /\ closef' \in [Handle -> Closes \cup {"none", "NULL"}]
        /\ opened' \in [FilesOf -> {"free", "fopen", "popen", "std"}]
        /\ KindsAgree' /\ OneHandle'
    BY <1>1, <1>3, <2>1, CloseHandleStep
  <2>3. ReachedOpen'
    BY <1>1, <2>1 DEF ReachedOpen, Reached, IsOpen, Closes, FilesTypeOK
  <2> QED
    BY <1>1, <2>2, <2>3 DEF FilesTypeOK
<1> QED
  BY <1>2, <1>3

LEMMA CollectStep ==
  ASSUME FilesInv, NEW h \in Handle, f_gc(h)
  PROVE  FilesInv'
<1> USE DEF FilesInv
<1>1. /\ closef[h] # "none" /\ h \notin Reached /\ closef' = [closef EXCEPT ![h] = "none"]
      /\ file' = [file EXCEPT ![h] = NullFile] /\ UNCHANGED <<holds, input, output, iterators>>
  BY DEF f_gc
<1>2. ReachedOpen'
  BY <1>1 DEF ReachedOpen, Reached, IsOpen, Closes, FilesTypeOK
<1>3. file' \in [Handle -> FilesOf \cup {NullFile}]
  BY <1>1 DEF FilesTypeOK
<1>4. CASE MustClose(h) /\ closef[h] # "io_noclose"
  <2>1. IsOpen(h) /\ file[h] # NullFile /\ opened' = [opened EXCEPT ![file[h]] = "free"]
    BY <1>1, <1>4 DEF f_gc, MustClose, isclosed, IsOpen, FilesTypeOK
  <2>2. /\ closef' \in [Handle -> Closes \cup {"none", "NULL"}]
        /\ opened' \in [FilesOf -> {"free", "fopen", "popen", "std"}]
        /\ KindsAgree' /\ OneHandle'
    BY <1>1, <1>4, <2>1, CloseHandleStep
  <2> QED
    BY <1>1, <1>2, <1>3, <2>2 DEF FilesTypeOK
<1>5. CASE ~(MustClose(h) /\ closef[h] # "io_noclose")
  <2>1. opened' = opened /\ (IsOpen(h) => file[h] \notin Stream)
    BY <1>5, KindFacts, FilesAssumption
    DEF f_gc, MustClose, isclosed, IsOpen, KindsAgree, FilesTypeOK, Closes, FilesAssumption, FilesOf
  <2>2. ~IsOpen(h)' /\ \A g \in Handle : g # h => closef'[g] = closef[g] /\ file'[g] = file[g]
    BY <1>1 DEF FilesTypeOK, IsOpen, Closes
  <2>3. KindsAgree' /\ OneHandle'
    BY <2>1, <2>2 DEF KindsAgree, OneHandle, IsOpen
  <2>4. closef' \in [Handle -> Closes \cup {"none", "NULL"}]
    BY <1>1 DEF FilesTypeOK
  <2> QED
    BY <1>1, <1>2, <1>3, <2>1, <2>3, <2>4 DEF FilesTypeOK
<1> QED
  BY <1>4, <1>5

(* Who gets to reach a new handle has one with a FILE. *)
LEMMA NewReachStep ==
  ASSUME FilesInv, NEW h \in Handle, NEW s \in Opens("fopen"),
         NEW by \in {"fopen", "popen"}, NEW close \in {"io_fclose", "io_pclose"},
         Kind[close] = by, NewHandle(h, s, by, close),
         holds' \subseteq Handle /\ input' \in Handle /\ output' \in Handle,
         iterators' \subseteq [h : Handle, toclose : BOOLEAN],
         Reached' \subseteq Reached \cup (IF s = NullFile THEN {} ELSE {h})
  PROVE  FilesInv'
<1> USE DEF FilesInv
<1>1. /\ closef' \in [Handle -> Closes \cup {"none", "NULL"}]
      /\ file' \in [Handle -> FilesOf \cup {NullFile}]
      /\ opened' \in [FilesOf -> {"free", "fopen", "popen", "std"}]
      /\ KindsAgree' /\ OneHandle'
      /\ h \notin Reached /\ closef'[h] # "none" /\ file'[h] = s
      /\ \A g \in Handle : g # h => closef'[g] = closef[g] /\ file'[g] = file[g]
  BY NewHandleStep
<1>2. Reached \subseteq Handle
  BY DEF FilesTypeOK, Reached
<1>3. ReachedOpen'
  BY <1>1, <1>2 DEF ReachedOpen, IsOpen
<1> QED
  BY <1>1, <1>3 DEF FilesTypeOK

LEMMA OpenStep ==
  ASSUME FilesInv, NEW h \in Handle, NEW s \in Opens("fopen"),
         \/ io_open(h, s) \/ io_popen(h, s) \/ LinesByName(h, s) \/ OpenBadMode(h)
         \/ \E which \in {"input", "output"} : DefaultByName(which, h, s)
  PROVE  FilesInv'
<1> USE DEF FilesInv, FilesTypeOK, Reached
<1>1. CASE io_open(h, s)
  BY <1>1, KindFacts, NewReachStep DEF io_open, newfile, Returned
<1>2. CASE io_popen(h, s)
  BY <1>2, KindFacts, NewReachStep DEF io_popen, Returned
<1>3. CASE LinesByName(h, s)
  <2>1. /\ NewHandle(h, s, "fopen", "io_fclose") /\ UNCHANGED <<holds, input, output>>
        /\ \/ s = NullFile /\ iterators' = iterators
           \/ s # NullFile /\ iterators' = iterators \cup {[h |-> h, toclose |-> TRUE]}
    BY <1>3 DEF LinesByName, newfile, aux_lines
  <2>2. iterators' \subseteq [h : Handle, toclose : BOOLEAN]
    <3>1. [h |-> h, toclose |-> TRUE] \in [h : Handle, toclose : BOOLEAN]
      OBVIOUS
    <3>2. iterators \subseteq [h : Handle, toclose : BOOLEAN]
      OBVIOUS
    <3>3. iterators' \subseteq iterators \cup {[h |-> h, toclose |-> TRUE]}
      BY <2>1
    <3> QED
      BY <3>1, <3>2, <3>3
  <2>3. Reached' \subseteq Reached \cup (IF s = NullFile THEN {} ELSE {h})
    BY <2>1
  <2> QED
    BY <2>1, <2>2, <2>3, KindFacts, NewReachStep
<1>4. CASE OpenBadMode(h)
  BY <1>4, KindFacts, NewReachStep DEF OpenBadMode, newfile, Opens
<1>5. ASSUME NEW which \in {"input", "output"}, DefaultByName(which, h, s) PROVE FilesInv'
  <2>1. /\ NewHandle(h, s, "fopen", "io_fclose") /\ iterators' = iterators
        /\ \/ s = NullFile /\ UNCHANGED <<holds, input, output>>
           \/ /\ s # NullFile /\ holds' = holds \cup {h}
              /\ input' \in {input, h} /\ output' \in {output, h}
    BY <1>5 DEF DefaultByName, newfile, Returned, SetDefault
  <2>2. Reached' \subseteq Reached \cup (IF s = NullFile THEN {} ELSE {h})
    BY <2>1
  <2> QED
    BY <2>1, <2>2, KindFacts, NewReachStep
<1> QED
  BY <1>1, <1>2, <1>3, <1>4, <1>5

LEMMA HoldStep ==
  ASSUME FilesInv,
         \/ \E h \in Handle : Forget(h) \/ f_lines(h)
         \/ \E h \in Handle, which \in {"input", "output"} : DefaultByHandle(which, h)
         \/ \E it \in iterators : ForgetLines(it)
         \/ UNCHANGED fileVars
  PROVE  FilesInv'
<1> USE DEF FilesInv
<1>1. UNCHANGED <<closef, file, opened>>
  BY DEF Forget, f_lines, DefaultByHandle, ForgetLines, fileVars
<1>2. \/ \E h \in Handle : holds' = holds \ {h} /\ UNCHANGED <<input, output, iterators>>
      \/ \E h \in holds \cup {input} : /\ iterators' = iterators \cup {[h |-> h, toclose |-> FALSE]}
                                      /\ UNCHANGED <<holds, input, output>>
      \/ \E h \in holds : /\ input' \in {input, h} /\ output' \in {output, h}
                          /\ UNCHANGED <<holds, iterators>>
      \/ \E it \in iterators : iterators' = iterators \ {it} /\ UNCHANGED <<holds, input, output>>
      \/ UNCHANGED <<holds, input, output, iterators>>
  <2>1. CASE \E h \in Handle : Forget(h)
    BY <2>1 DEF Forget
  <2>2. CASE \E h \in Handle : f_lines(h)
    BY <2>2 DEF f_lines, aux_lines
  <2>3. CASE \E h \in Handle, which \in {"input", "output"} : DefaultByHandle(which, h)
    BY <2>3 DEF DefaultByHandle, SetDefault
  <2>4. CASE \E it \in iterators : ForgetLines(it)
    BY <2>4 DEF ForgetLines
  <2>5. CASE UNCHANGED fileVars
    BY <2>5 DEF fileVars
  <2> QED
    BY <2>1, <2>2, <2>3, <2>4, <2>5
<1>3. /\ holds' \subseteq Handle /\ input' \in Handle /\ output' \in Handle
      /\ iterators' \subseteq [h : Handle, toclose : BOOLEAN]
  <2>1. \A h \in Handle : [h |-> h, toclose |-> FALSE] \in [h : Handle, toclose : BOOLEAN]
    OBVIOUS
  <2> QED
    BY <1>2, <2>1 DEF FilesTypeOK
<1>4. Reached' \subseteq Reached
  BY <1>2 DEF Reached
<1> QED
  BY <1>1, <1>3, <1>4 DEF FilesTypeOK, KindsAgree, OneHandle, ReachedOpen, IsOpen

LEMMA FilesStep == FilesInv /\ [FilesNext]_fileVars => FilesInv'
<1> SUFFICES ASSUME FilesInv, [FilesNext]_fileVars PROVE FilesInv'
  OBVIOUS
<1>1. CASE \E h \in Handle, s \in Opens("fopen") :
             \/ io_open(h, s) \/ io_popen(h, s) \/ LinesByName(h, s)
             \/ \E which \in {"input", "output"} : DefaultByName(which, h, s)
  BY <1>1, OpenStep
<1>2. CASE \E h \in Handle : OpenBadMode(h)
  BY <1>2, OpenStep DEF Opens
<1>3. CASE \E h \in Handle : io_close(h)
  BY <1>3, AuxCloseStep DEF io_close, Reached
<1>4. CASE \E h \in Handle : f_gc(h)
  BY <1>4, CollectStep
<1>5. CASE \E it \in iterators : EndOfLines(it)
  BY <1>5, AuxCloseStep DEF EndOfLines, Reached
<1>6. CASE \/ \E h \in Handle : Forget(h) \/ f_lines(h)
           \/ \E h \in Handle, which \in {"input", "output"} : DefaultByHandle(which, h)
           \/ \E it \in iterators : ForgetLines(it)
           \/ UNCHANGED fileVars
  BY <1>6, HoldStep
<1>7. ASSUME NEW h \in Handle, PopenUnsupported(h) PROVE FilesInv'
  <2>1. /\ closef[h] = "none" /\ closef' = [closef EXCEPT ![h] = "NULL"] /\ h \notin Reached
        /\ UNCHANGED <<file, opened, holds, input, output, iterators>>
    BY <1>7 DEF PopenUnsupported, FilesInv, ReachedOpen
  <2>2. /\ closef' \in [Handle -> Closes \cup {"none", "NULL"}]
        /\ \A g \in Handle : IsOpen(g)' <=> IsOpen(g)
        /\ \A g \in Handle : g # h => closef'[g] = closef[g]
    BY <2>1, KindFacts DEF FilesInv, FilesTypeOK, IsOpen, Closes
  <2>3. KindsAgree' /\ OneHandle'
    BY <2>1, <2>2 DEF FilesInv, KindsAgree, OneHandle, IsOpen, FilesTypeOK, Closes
  <2>4. ReachedOpen'
    BY <2>1, <2>2 DEF FilesInv, ReachedOpen, Reached, FilesTypeOK
  <2> QED
    BY <2>1, <2>2, <2>3, <2>4 DEF FilesInv, FilesTypeOK
<1> QED
  BY <1>1, <1>2, <1>3, <1>4, <1>5, <1>6, <1>7 DEF FilesNext

LEMMA FilesFollow == FilesInv => FilesOwned
<1> SUFFICES ASSUME FilesInv PROVE FilesOwned
  OBVIOUS
<1>1. \A h \in Handle : closef[h] \in DOMAIN Kind <=> IsOpen(h)
  BY KindFacts DEF IsOpen
<1>2. ASSUME NEW s \in Stream, opened[s] # "free"
      PROVE  \E h \in Handle : {g \in Handle : closef[g] \in DOMAIN Kind /\ file[g] = s} = {h}
  <2>1. PICK h \in Handle : IsOpen(h) /\ file[h] = s
    BY <1>2 DEF FilesInv, OneHandle
  <2>2. {g \in Handle : closef[g] \in DOMAIN Kind /\ file[g] = s} = {h}
    BY <1>1, <2>1 DEF FilesInv, OneHandle
  <2> QED
    BY <2>2
<1>3. Reached \subseteq Handle
  BY DEF FilesInv, FilesTypeOK, Reached
<1> QED
  BY <1>1, <1>2, <1>3 DEF FilesOwned, FilesInv, KindsAgree, ReachedOpen

(* An open FILE of liolib.c has exactly one open handle, which closes it the way it *)
(* was opened, and what a program can reach is closed or has an open FILE, whichever *)
(* of io.close, an iterator at its end and the collector comes first.               *)
THEOREM FilesAreOwned == FilesSpec => []FilesOwned
<1> QED
  BY FilesStart, FilesStep, FilesFollow, PTL DEF FilesSpec

-----------------------------------------------------------------------------
(* The memory pool: blocks of one page lie apart. *)
PageType  == [id : Nat, size : Nat, start : Nat]
BlockType == [page : Nat, from : Nat, to : Nat, asked : Nat]

(* Pages have numbers of their own, and hold the blocks above what they have to give. *)
PagesRight(list, m) ==
  /\ list \in Seq(PageType) /\ m \in Nat
  /\ \A i, j \in DOMAIN list : list[i].id = list[j].id => i = j
  /\ \A i \in DOMAIN list : list[i].id <= m /\ list[i].start <= list[i].size
  /\ \A x \in taken : \E i \in DOMAIN list :
       list[i].id = x.page /\ list[i].start <= x.from /\ x.to <= list[i].size
PoolInv == taken \subseteq BlockType /\ PagesRight(pages, made) /\ BlocksDisjoint

LEMMA AlignedFits ==
  ASSUME NEW request \in Nat
  PROVE  Aligned(request) \in Nat /\ Aligned(request) > request
<1>1. PoolAlign \in Nat /\ PoolAlign > 0
  BY PoolAssumption DEF PoolAssumption
<1>2. request % PoolAlign \in 0 .. PoolAlign - 1
  BY <1>1
<1> QED
  BY <1>1, <1>2 DEF Aligned

LEMMA PoolStart == PoolInit => PoolInv
<1> SUFFICES ASSUME PoolInit PROVE PoolInv
  OBVIOUS
<1>1. Page(1, PageSize) \in PageType
  BY PoolAssumption DEF PoolAssumption, Page, PageType
<1>2. /\ pages = <<Page(1, PageSize)>> /\ pages \in Seq(PageType) /\ DOMAIN pages = {1}
      /\ pages[1] = Page(1, PageSize) /\ made = 1 /\ taken = {}
  BY <1>1 DEF PoolInit
<1> QED
  BY <1>1, <1>2 DEF PoolInv, PagesRight, BlocksDisjoint, Page, PageType

(* A page put before the others, or behind the first. *)
LEMMA FirstPage ==
  ASSUME PagesRight(pages, made), NEW size \in Nat,
         NEW list, list = <<Page(made + 1, size)>> \o pages
  PROVE  /\ PagesRight(list, made + 1) /\ list[1] = Page(made + 1, size) /\ 1 \in DOMAIN list
         /\ \A i \in DOMAIN list : i # 1 => i - 1 \in DOMAIN pages /\ list[i] = pages[i - 1]
<1> DEFINE p == Page(made + 1, size)
<1>1. /\ p \in PageType /\ p.id = made + 1 /\ p.start <= p.size
      /\ made \in Nat /\ pages \in Seq(PageType)
  BY DEF Page, PageType, PagesRight
<1>2. /\ list \in Seq(PageType) /\ Len(list) = Len(pages) + 1 /\ Len(pages) \in Nat
      /\ DOMAIN list = 1 .. (Len(pages) + 1) /\ DOMAIN pages = 1 .. Len(pages)
      /\ list[1] = p /\ \A i \in 1 .. Len(pages) : list[i + 1] = pages[i]
  <2> HIDE DEF p
  <2> QED
    BY <1>1 DEF p
<1>3. \A i \in DOMAIN list : i # 1 => i - 1 \in DOMAIN pages /\ list[i] = pages[i - 1]
  <2> SUFFICES ASSUME NEW i \in DOMAIN list, i # 1
               PROVE  i - 1 \in DOMAIN pages /\ list[i] = pages[i - 1]
    OBVIOUS
  <2>1. i - 1 \in 1 .. Len(pages) /\ (i - 1) + 1 = i
    BY <1>2
  <2> QED
    BY <1>2, <2>1
<1>4. \A i \in DOMAIN pages : i + 1 \in DOMAIN list /\ list[i + 1] = pages[i]
  BY <1>2
<1> HIDE DEF p
<1>5. \A k \in DOMAIN pages : pages[k].id <= made /\ pages[k].id \in Nat
  <2>1. \A k \in DOMAIN pages : pages[k] \in PageType
    BY <1>1
  <2> QED
    BY <2>1 DEF PagesRight, PageType
<1>6. \A i, j \in DOMAIN list : list[i].id = list[j].id => i = j
  <2> SUFFICES ASSUME NEW i \in DOMAIN list, NEW j \in DOMAIN list, list[i].id = list[j].id
               PROVE  i = j
    OBVIOUS
  <2>1. \A k \in DOMAIN pages : pages[k].id # made + 1
    BY <1>1, <1>5
  <2>2. i \in Int /\ j \in Int
    BY <1>2
  <2>3. CASE i = 1 \/ j = 1
    BY <1>1, <1>2, <1>3, <2>1, <2>3
  <2>4. CASE i # 1 /\ j # 1
    <3>1. i - 1 = j - 1
      BY <1>3, <2>4 DEF PagesRight
    <3> QED
      BY <2>2, <3>1
  <2> QED
    BY <2>3, <2>4
<1>7. \A i \in DOMAIN list : list[i].id <= made + 1 /\ list[i].start <= list[i].size
  <2>1. \A k \in DOMAIN pages : pages[k].id <= made + 1 /\ pages[k].start <= pages[k].size
    BY <1>1, <1>5 DEF PagesRight
  <2> QED
    BY <1>1, <1>2, <1>3, <2>1
<1>8. \A x \in taken : \E i \in DOMAIN list :
        list[i].id = x.page /\ list[i].start <= x.from /\ x.to <= list[i].size
  <2> SUFFICES ASSUME NEW x \in taken
               PROVE  \E i \in DOMAIN list :
                        list[i].id = x.page /\ list[i].start <= x.from /\ x.to <= list[i].size
    OBVIOUS
  <2>1. PICK k \in DOMAIN pages :
          pages[k].id = x.page /\ pages[k].start <= x.from /\ x.to <= pages[k].size
    BY DEF PagesRight
  <2> QED
    BY <1>4, <2>1
<1>9. made + 1 \in Nat /\ 1 \in DOMAIN list
  BY <1>1, <1>2
<1>10. PagesRight(list, made + 1)
  BY <1>2, <1>6, <1>7, <1>8, <1>9 DEF PagesRight
<1> QED
  BY <1>2, <1>3, <1>9, <1>10 DEF p

(* A block is cut off the end of what a page has to give. *)
LEMMA TakeStep ==
  ASSUME taken \subseteq BlockType, BlocksDisjoint, NEW list, NEW m, PagesRight(list, m), made' = m,
         NEW i \in DOMAIN list, NEW request \in Nat, NEW n \in Nat, n > request,
         TakeFrom(list, i, request, n)
  PROVE  PoolInv'
<1> DEFINE p == list[i]
           b == [page |-> p.id, from |-> p.start - n, to |-> p.start - n + request, asked |-> request]
<1>1. /\ p \in PageType /\ p.start >= n /\ list \in Seq(PageType)
      /\ pages' = [list EXCEPT ![i].start = @ - n] /\ taken' = taken \cup {b}
  BY DEF TakeFrom, PagesRight
<1>2. p.start \in Nat /\ p.id \in Nat /\ p.size \in Nat /\ p.start <= p.size
  BY <1>1 DEF PageType, PagesRight
<1>3. /\ b \in BlockType /\ b.page = p.id /\ b.from = p.start - n /\ b.to = p.start - n + request
      /\ b.to <= p.start /\ b.to <= p.size /\ p.start - n <= p.size
  BY <1>1, <1>2 DEF BlockType
<1>4. pages'[i] = [p EXCEPT !.start = @ - n] /\ pages'[i] \in PageType
  <2>1. pages'[i] = [p EXCEPT !.start = @ - n]
    BY <1>1
  <2>2. p.start - n \in Nat
    BY <1>1, <1>2
  <2> HIDE DEF p
  <2>3. [p EXCEPT !.start = @ - n] \in PageType
    BY <1>1, <2>2 DEF PageType
  <2> QED
    BY <2>1, <2>3
<1>5. /\ DOMAIN pages' = DOMAIN list /\ pages' \in Seq(PageType)
      /\ \A j \in DOMAIN list : j # i => pages'[j] = list[j]
      /\ pages'[i].id = p.id /\ pages'[i].size = p.size /\ pages'[i].start = p.start - n
  <2>1. pages' \in Seq(PageType)
    BY <1>1, <1>4
  <2>2. DOMAIN pages' = DOMAIN list /\ \A j \in DOMAIN list : j # i => pages'[j] = list[j]
    BY <1>1
  <2>3. pages'[i].id = p.id /\ pages'[i].size = p.size /\ pages'[i].start = p.start - n
    BY <1>1, <1>4 DEF PageType
  <2> QED
    BY <2>1, <2>2, <2>3
<1>6. /\ \A j, k \in DOMAIN pages' : pages'[j].id = pages'[k].id => j = k
      /\ \A j \in DOMAIN pages' : pages'[j].id <= m
      /\ \A j \in DOMAIN pages' : pages'[j].start <= pages'[j].size
  <2>1. \A j \in DOMAIN list : pages'[j].id = list[j].id
    BY <1>5
  <2> QED
    BY <1>3, <1>5, <2>1 DEF PagesRight
<1> HIDE DEF p, b
<1>7. \A x \in taken : x.page = p.id => p.start <= x.from
  BY DEF PagesRight, p
<1>8. \A x \in taken' : \E j \in DOMAIN pages' :
        pages'[j].id = x.page /\ pages'[j].start <= x.from /\ x.to <= pages'[j].size
  <2> SUFFICES ASSUME NEW x \in taken'
               PROVE  \E j \in DOMAIN pages' :
                        pages'[j].id = x.page /\ pages'[j].start <= x.from /\ x.to <= pages'[j].size
    OBVIOUS
  <2>1. CASE x = b
    BY <1>2, <1>3, <1>5, <2>1
  <2>2. CASE x \in taken
    <3>1. PICK j \in DOMAIN list :
            list[j].id = x.page /\ list[j].start <= x.from /\ x.to <= list[j].size
      BY <2>2 DEF PagesRight
    <3>2. CASE j = i
      <4>1. x.from \in Nat /\ p.start <= x.from /\ x.to <= p.size /\ p.id = x.page
        BY <2>2, <3>1, <3>2 DEF BlockType, p
      <4>2. p.start - n <= x.from
        BY <1>2, <4>1
      <4> QED
        BY <1>5, <4>1, <4>2
    <3> QED
      BY <1>5, <3>1, <3>2
  <2> QED
    BY <1>1, <2>1, <2>2
<1>9. \A x, y \in taken' : x # y /\ x.page = y.page => x.to <= y.from \/ y.to <= x.from
  <2>1. \A x \in taken : x.page = b.page => b.to <= x.from
    <3> SUFFICES ASSUME NEW x \in taken, x.page = b.page PROVE b.to <= x.from
      OBVIOUS
    <3>1. p.start <= x.from /\ x.from \in Nat /\ b.to \in Nat
      BY <1>3, <1>7 DEF BlockType
    <3> QED
      BY <1>2, <1>3, <3>1
  <2> QED
    BY <1>1, <2>1 DEF BlocksDisjoint
<1>10. taken' \subseteq BlockType
  BY <1>1, <1>3
<1> QED
  BY <1>5, <1>6, <1>8, <1>9, <1>10 DEF PoolInv, PagesRight, BlocksDisjoint

LEMMA SecondPage ==
  ASSUME PagesRight(pages, made), pages # <<>>, NEW size \in Nat,
         NEW list, list = <<Head(pages), Page(made + 1, size)>> \o Tail(pages)
  PROVE  PagesRight(list, made + 1) /\ 2 \in DOMAIN list
<1> DEFINE p == Page(made + 1, size)
           first == <<p>> \o pages
<1>1. p \in PageType /\ pages \in Seq(PageType)
  BY DEF Page, PageType, PagesRight
<1>2. /\ PagesRight(first, made + 1) /\ first[1] = p
      /\ \A i \in DOMAIN first : i # 1 => i - 1 \in DOMAIN pages /\ first[i] = pages[i - 1]
  BY FirstPage
<1> HIDE DEF p
<1>3. /\ Len(pages) \in Nat /\ Len(pages) >= 1 /\ DOMAIN pages = 1 .. Len(pages)
      /\ Tail(pages) \in Seq(PageType) /\ Len(Tail(pages)) = Len(pages) - 1
      /\ Head(pages) = pages[1] /\ Head(pages) \in PageType
      /\ \A i \in 1 .. (Len(pages) - 1) : Tail(pages)[i] = pages[i + 1]
  BY <1>1
<1>4. /\ list \in Seq(PageType) /\ Len(list) = Len(pages) + 1
      /\ DOMAIN list = 1 .. (Len(pages) + 1)
      /\ list[1] = Head(pages) /\ list[2] = p
      /\ \A i \in 1 .. (Len(pages) - 1) : list[i + 2] = Tail(pages)[i]
  BY <1>1, <1>3 DEF p
<1>5. DOMAIN first = 1 .. (Len(pages) + 1)
  BY <1>1, <1>3
<1> HIDE DEF first
<1>6. \A i \in DOMAIN list : i # 1 /\ i # 2 => i - 1 \in DOMAIN pages /\ list[i] = pages[i - 1]
  <2> SUFFICES ASSUME NEW i \in DOMAIN list, i # 1, i # 2
               PROVE  i - 1 \in DOMAIN pages /\ list[i] = pages[i - 1]
    OBVIOUS
  <2>1. i - 2 \in 1 .. (Len(pages) - 1) /\ (i - 2) + 2 = i /\ (i - 2) + 1 = i - 1
        /\ i - 1 \in 1 .. Len(pages)
    BY <1>3, <1>4
  <2>2. list[i] = Tail(pages)[i - 2] /\ Tail(pages)[i - 2] = pages[i - 1]
    BY <1>3, <1>4, <2>1
  <2> QED
    BY <1>3, <2>1, <2>2
<1>7. /\ list[1] = first[2] /\ list[2] = first[1] /\ 1 \in DOMAIN list /\ 2 \in DOMAIN list
      /\ DOMAIN list = DOMAIN first
      /\ \A i \in DOMAIN list : i # 1 /\ i # 2 => list[i] = first[i]
  <2>1. 1 \in DOMAIN list /\ 2 \in DOMAIN list /\ DOMAIN list = DOMAIN first
    BY <1>3, <1>4, <1>5
  <2>2. first[2] = pages[1]
    <3>1. first[2] = pages[2 - 1]
      BY <1>2, <2>1
    <3> QED
      BY <3>1
  <2>3. list[1] = first[2] /\ list[2] = first[1]
    BY <1>2, <1>3, <1>4, <2>2
  <2>4. \A i \in DOMAIN list : i # 1 /\ i # 2 => list[i] = first[i]
    BY <1>2, <1>6, <2>1
  <2> QED
    BY <2>1, <2>3, <2>4
<1>8. PagesRight(list, made + 1)
  <2> DEFINE s(i) == IF i = 1 THEN 2 ELSE IF i = 2 THEN 1 ELSE i
  <2>0. /\ \A i \in DOMAIN list : s(i) \in DOMAIN first /\ list[i] = first[s(i)]
        /\ \A i, j \in DOMAIN list : s(i) = s(j) => i = j
    BY <1>7
  <2> HIDE DEF s
  <2>1. \A i, j \in DOMAIN list : list[i].id = list[j].id => i = j
    <3> SUFFICES ASSUME NEW i \in DOMAIN list, NEW j \in DOMAIN list, list[i].id = list[j].id
                 PROVE  i = j
      OBVIOUS
    <3>1. first[s(i)].id = first[s(j)].id /\ s(i) \in DOMAIN first /\ s(j) \in DOMAIN first
      BY <2>0
    <3>2. s(i) = s(j)
      BY <1>2, <3>1 DEF PagesRight
    <3> QED
      BY <2>0, <3>2
  <2>2. \A i \in DOMAIN list : list[i].id <= made + 1 /\ list[i].start <= list[i].size
    <3>1. \A i \in DOMAIN first : first[i].id <= made + 1 /\ first[i].start <= first[i].size
      BY <1>2 DEF PagesRight
    <3> QED
      BY <2>0, <3>1
  <2>3. \A i \in DOMAIN list : \E j \in DOMAIN list : list[j] = first[i]
    BY <1>7
  <2>4. \A x \in taken : \E i \in DOMAIN list :
          list[i].id = x.page /\ list[i].start <= x.from /\ x.to <= list[i].size
    <3> SUFFICES ASSUME NEW x \in taken
                 PROVE  \E i \in DOMAIN list :
                          list[i].id = x.page /\ list[i].start <= x.from /\ x.to <= list[i].size
      OBVIOUS
    <3>1. PICK j \in DOMAIN first :
            first[j].id = x.page /\ first[j].start <= x.from /\ x.to <= first[j].size
      BY <1>2 DEF PagesRight
    <3>2. PICK i \in DOMAIN list : list[i] = first[j]
      BY <1>7, <2>3
    <3> QED
      BY <3>1, <3>2
  <2> QED
    BY <1>2, <1>4, <2>1, <2>2, <2>4 DEF PagesRight
<1> QED
  BY <1>7, <1>8

LEMMA PoolAllocStep ==
  ASSUME PoolInv, NEW request \in Nat, PoolAlloc(request)
  PROVE  PoolInv'
<1> USE DEF PoolInv
<1> DEFINE n == Aligned(request)
<1>1. n \in Nat /\ n > request /\ PageSize \in Nat
  BY AlignedFits, PoolAssumption DEF PoolAssumption
<1> HIDE DEF n
<1>2. CASE /\ TakeFrom(<<Head(pages), Page(made + 1, n)>> \o Tail(pages), 2, request, n)
           /\ made' = made + 1 /\ pages # <<>>
  <2>1. PICK list : list = <<Head(pages), Page(made + 1, n)>> \o Tail(pages)
    OBVIOUS
  <2>2. PagesRight(list, made + 1) /\ 2 \in DOMAIN list
    BY <1>1, <1>2, <2>1, SecondPage
  <2> QED
    BY <1>1, <1>2, <2>1, <2>2, TakeStep
<1>3. CASE TakeFrom(pages, 1, request, n) /\ made' = made /\ pages # <<>>
  <2>1. 1 \in DOMAIN pages
    BY <1>3 DEF PagesRight
  <2> QED
    BY <1>1, <1>3, <2>1, TakeStep
<1>4. CASE TakeFrom(<<Page(made + 1, PageSize)>> \o pages, 1, request, n) /\ made' = made + 1
  <2>1. PICK list : list = <<Page(made + 1, PageSize)>> \o pages
    OBVIOUS
  <2>2. PagesRight(list, made + 1) /\ 1 \in DOMAIN list
    BY <1>1, <2>1, FirstPage
  <2> QED
    BY <1>1, <1>4, <2>1, <2>2, TakeStep
<1> QED
  BY <1>2, <1>3, <1>4 DEF PoolAlloc, n

LEMMA PoolStep == PoolInv /\ [PoolNext]_poolVars => PoolInv'
<1> SUFFICES ASSUME PoolInv, [PoolNext]_poolVars PROVE PoolInv'
  OBVIOUS
<1>1. CASE GarbageCollect
  BY <1>1 DEF GarbageCollect, PoolInv, PagesRight, BlocksDisjoint
<1>2. CASE \E size \in 0 .. MaxRequest : PoolAlloc(size)
  BY <1>2, PoolAllocStep, PoolAssumption DEF PoolAssumption
<1>3. CASE UNCHANGED poolVars
  BY <1>3 DEF poolVars, PoolInv, PagesRight, BlocksDisjoint
<1> QED
  BY <1>1, <1>2, <1>3 DEF PoolNext

-----------------------------------------------------------------------------
(* The small-object allocator: what is not held is on the free list of its chunk. *)
BlockNo == 0 .. UCHAR_MAX - 1
Byte == Nat \cup {User}
ChunkType == [first : Byte, available : Nat, byte : [BlockNo -> Byte]]

(* The free blocks of a chunk in the order of the links. *)
FreeAs(chunk, F) ==
  \E g \in [1 .. chunk.available -> BlockNo] :
    /\ chunk.available > 0 => chunk.first = g[1]
    /\ \A n \in 1 .. chunk.available : n # 1 => chunk.byte[g[n - 1]] = g[n]
    /\ \A m, n \in 1 .. chunk.available : g[m] = g[n] => m = n
    /\ F = {g[n] : n \in 1 .. chunk.available}

LEMMA FreeListIs ==
  ASSUME NEW chunk \in ChunkType, NEW F, FreeAs(chunk, F)
  PROVE  FreeList(chunk) = F
<1> DEFINE D == 1 .. chunk.available
<1>1. PICK g \in [D -> BlockNo] :
        /\ chunk.available > 0 => chunk.first = g[1]
        /\ \A n \in D : n # 1 => chunk.byte[g[n - 1]] = g[n]
        /\ F = {g[n] : n \in D}
  BY DEF FreeAs
<1> DEFINE Eq(f) == f = [n \in D |-> IF n = 1 THEN chunk.first ELSE chunk.byte[f[n - 1]]]
           f == CHOOSE f : Eq(f)
<1>2. chunk.available \in Nat
  BY DEF ChunkType
<1>3. Eq(g)
  BY <1>1, <1>2
<1>4. Eq(f)
  BY <1>3
<1>5. FreeList(chunk) = {f[n] : n \in DOMAIN f}
  BY DEF FreeList
<1> HIDE DEF f
<1>6. DOMAIN f = D /\ \A n \in D : f[n] = IF n = 1 THEN chunk.first ELSE chunk.byte[f[n - 1]]
  BY <1>4
<1>7. \A n \in D : f[n] = g[n]
  <2> DEFINE T == {n \in D : f[n] # g[n]}
  <2> SUFFICES ASSUME T # {} PROVE FALSE
    OBVIOUS
  <2>1. PICK n \in T : \A y \in T : n <= y
    <3>1. T \subseteq Nat
      BY <1>2
    <3> HIDE DEF T
    <3> QED
      BY <3>1, LeastElement
  <2>2. CASE n = 1
    BY <1>1, <1>2, <1>6, <2>2
  <2>3. CASE n # 1
    <3>1. n - 1 \in D /\ n - 1 \notin T
      BY <1>2, <2>1, <2>3
    <3>2. f[n - 1] = g[n - 1]
      BY <3>1
    <3> QED
      BY <1>1, <1>6, <2>3, <3>2
  <2> QED
    BY <2>2, <2>3
<1> QED
  BY <1>1, <1>5, <1>6, <1>7

LEMMA FreshIsFree ==
  FreshChunk \in ChunkType /\ FreeAs(FreshChunk, BlockNo)
<1>1. UCHAR_MAX \in Nat \ {0} /\ FreshChunk \in ChunkType
  BY AllocatorAssumption DEF AllocatorAssumption, FreshChunk, ChunkType, BlockNo, Byte
<1>2. /\ FreshChunk.available = UCHAR_MAX /\ FreshChunk.first = 0
      /\ \A b \in BlockNo : FreshChunk.byte[b] = b + 1
  BY DEF FreshChunk, BlockNo
<1> DEFINE D == 1 .. FreshChunk.available
           g == [n \in D |-> n - 1]
<1>3. /\ g \in [D -> BlockNo] /\ \A n \in D : g[n] = n - 1
      /\ \A m, n \in D : g[m] = g[n] => m = n
  BY <1>1, <1>2 DEF BlockNo
<1> HIDE DEF g
<1>4. BlockNo = {g[n] : n \in D}
  <2>1. \A b \in BlockNo : b + 1 \in D /\ g[b + 1] = b
    BY <1>1, <1>2, <1>3 DEF BlockNo
  <2>2. \A n \in D : g[n] \in BlockNo
    BY <1>3
  <2> HIDE DEF D
  <2> QED
    BY <2>1, <2>2
<1>5. \A n \in D : n # 1 => FreshChunk.byte[g[n - 1]] = g[n]
  <2> SUFFICES ASSUME NEW n \in D, n # 1 PROVE FreshChunk.byte[g[n - 1]] = g[n]
    OBVIOUS
  <2>1. n - 1 \in D
    BY <1>1, <1>2
  <2>2. g[n - 1] \in BlockNo /\ g[n - 1] + 1 = g[n]
    BY <1>1, <1>2, <1>3, <2>1
  <2> QED
    BY <1>2, <2>2
<1>6. FreshChunk.available > 0 => FreshChunk.first = g[1]
  BY <1>1, <1>2, <1>3
<1>7. FreeAs(FreshChunk, BlockNo)
  BY <1>3, <1>4, <1>5, <1>6 DEF FreeAs
<1> QED
  BY <1>1, <1>7

LEMMA ChunkAllocIs ==
  ASSUME NEW chunk \in ChunkType
  PROVE  ChunkAlloc(chunk) = [first |-> chunk.byte[chunk.first], available |-> chunk.available - 1,
                                 byte |-> [chunk.byte EXCEPT ![chunk.first] = User]]
<1> DEFINE c1 == [chunk EXCEPT !.byte[chunk.first] = User]
           c2 == [c1 EXCEPT !.first = chunk.byte[chunk.first]]
           y == [chunk.byte EXCEPT ![chunk.first] = User]
<1>1. ChunkAlloc(chunk) = [c2 EXCEPT !.available = @ - 1]
  BY DEF ChunkAlloc
<1>2. chunk = [first |-> chunk.first, available |-> chunk.available, byte |-> chunk.byte]
  BY DEF ChunkType
<1>3. c1 = [first |-> chunk.first, available |-> chunk.available, byte |-> y]
  BY <1>2
<1> HIDE DEF c1, y
<1>4. c2 = [first |-> chunk.byte[chunk.first], available |-> chunk.available, byte |-> y]
  BY <1>3
<1> HIDE DEF c2
<1>5. ChunkAlloc(chunk) = [first |-> chunk.byte[chunk.first], available |-> chunk.available - 1, byte |-> y]
  BY <1>1, <1>4
<1> QED
  BY <1>5 DEF y

LEMMA ChunkFreeIs ==
  ASSUME NEW chunk \in ChunkType, NEW b
  PROVE  ChunkFree(chunk, b) = [first |-> b, available |-> chunk.available + 1,
                                   byte |-> [chunk.byte EXCEPT ![b] = chunk.first]]
<1> DEFINE c1 == [chunk EXCEPT !.byte[b] = chunk.first]
           c2 == [c1 EXCEPT !.first = b]
           y == [chunk.byte EXCEPT ![b] = chunk.first]
<1>1. ChunkFree(chunk, b) = [c2 EXCEPT !.available = @ + 1]
  BY DEF ChunkFree
<1>2. chunk = [first |-> chunk.first, available |-> chunk.available, byte |-> chunk.byte]
  BY DEF ChunkType
<1>3. c1 = [first |-> chunk.first, available |-> chunk.available, byte |-> y]
  BY <1>2
<1> HIDE DEF c1, y
<1>4. c2 = [first |-> b, available |-> chunk.available, byte |-> y]
  BY <1>3
<1> HIDE DEF c2
<1>5. ChunkFree(chunk, b) = [first |-> b, available |-> chunk.available + 1, byte |-> y]
  BY <1>1, <1>4
<1> QED
  BY <1>5 DEF y

LEMMA AllocFree ==
  ASSUME NEW chunk \in ChunkType, NEW F, FreeAs(chunk, F), chunk.available > 0
  PROVE  /\ chunk.first \in F /\ F \subseteq BlockNo
         /\ ChunkAlloc(chunk) \in ChunkType
         /\ ChunkAlloc(chunk).available = chunk.available - 1
         /\ FreeAs(ChunkAlloc(chunk), F \ {chunk.first})
<1> DEFINE D == 1 .. chunk.available
           new == ChunkAlloc(chunk)
<1>1. PICK g \in [D -> BlockNo] :
        /\ chunk.first = g[1]
        /\ \A n \in D : n # 1 => chunk.byte[g[n - 1]] = g[n]
        /\ \A m, n \in D : g[m] = g[n] => m = n
        /\ F = {g[n] : n \in D}
  BY DEF FreeAs
<1>2. chunk.available \in Nat /\ 1 \in D /\ chunk.byte \in [BlockNo -> Byte] /\ User \in Byte
  BY DEF ChunkType, Byte
<1>3. chunk.first \in BlockNo /\ chunk.first \in F /\ F \subseteq BlockNo
  BY <1>1, <1>2
<1>4. /\ new.byte = [chunk.byte EXCEPT ![chunk.first] = User]
      /\ new.first = chunk.byte[chunk.first]
      /\ new.available = chunk.available - 1
      /\ new = [first |-> new.first, available |-> new.available, byte |-> new.byte]
  BY ChunkAllocIs
<1>5. new \in ChunkType
  <2>1. new.byte \in [BlockNo -> Byte] /\ new.first \in Byte /\ new.available \in Nat
    BY <1>2, <1>3, <1>4
  <2> HIDE DEF new
  <2> QED
    BY <1>4, <2>1 DEF ChunkType
<1> DEFINE E == 1 .. new.available
           h == [n \in E |-> g[n + 1]]
<1>6. \A n \in E : n + 1 \in D /\ n \in D /\ (n # 1 => n - 1 \in E)
  BY <1>2, <1>4
<1>7. h \in [E -> BlockNo] /\ \A m, n \in E : h[m] = h[n] => m = n
  BY <1>1, <1>6
<1>8. new.available > 0 => new.first = h[1]
  <2> SUFFICES ASSUME new.available > 0 PROVE new.first = h[1]
    OBVIOUS
  <2>1. 1 \in E /\ 2 \in D /\ h[1] = g[2]
    BY <1>2, <1>4, <1>6
  <2>2. chunk.byte[g[1]] = g[2]
    BY <1>1, <2>1
  <2> QED
    BY <1>1, <1>4, <2>1, <2>2
<1>9. \A n \in E : n # 1 => new.byte[h[n - 1]] = h[n]
  <2> SUFFICES ASSUME NEW n \in E, n # 1 PROVE new.byte[h[n - 1]] = h[n]
    OBVIOUS
  <2>1. n - 1 \in E /\ h[n - 1] = g[n] /\ h[n] = g[n + 1] /\ n \in D /\ n + 1 \in D /\ n + 1 # 1
    BY <1>6
  <2>2. chunk.byte[g[n]] = g[n + 1]
    <3>1. (n + 1) - 1 = n
      BY <2>1
    <3> QED
      BY <1>1, <2>1, <3>1
  <2>3. g[n] # chunk.first /\ g[n] \in BlockNo
    BY <1>1, <1>2, <2>1
  <2> HIDE DEF h, new
  <2> QED
    BY <1>2, <1>4, <2>1, <2>2, <2>3
<1>10. F \ {chunk.first} = {h[n] : n \in E}
  <2>1. \A n \in D : n = 1 \/ (n - 1 \in E /\ h[n - 1] = g[n])
    BY <1>2, <1>4
  <2>2. \A n \in E : h[n] \in F /\ h[n] # chunk.first
    BY <1>1, <1>2, <1>6
  <2> HIDE DEF h, E
  <2> QED
    BY <1>1, <2>1, <2>2
<1>11. FreeAs(new, F \ {chunk.first})
  <2> HIDE DEF new
  <2> QED
    BY <1>7, <1>8, <1>9, <1>10 DEF FreeAs
<1> QED
  BY <1>3, <1>4, <1>5, <1>11

LEMMA FreeFree ==
  ASSUME NEW chunk \in ChunkType, NEW F, FreeAs(chunk, F), NEW b \in BlockNo, b \notin F
  PROVE  /\ ChunkFree(chunk, b) \in ChunkType
         /\ ChunkFree(chunk, b).available = chunk.available + 1
         /\ FreeAs(ChunkFree(chunk, b), F \cup {b})
<1> DEFINE D == 1 .. chunk.available
           new == ChunkFree(chunk, b)
<1>1. PICK g \in [D -> BlockNo] :
        /\ chunk.available > 0 => chunk.first = g[1]
        /\ \A n \in D : n # 1 => chunk.byte[g[n - 1]] = g[n]
        /\ \A m, n \in D : g[m] = g[n] => m = n
        /\ F = {g[n] : n \in D}
  BY DEF FreeAs
<1>2. /\ chunk.available \in Nat /\ chunk.byte \in [BlockNo -> Byte] /\ chunk.first \in Byte
      /\ b \in Byte
  BY DEF ChunkType, Byte, BlockNo
<1>4. /\ new.byte = [chunk.byte EXCEPT ![b] = chunk.first]
      /\ new.first = b
      /\ new.available = chunk.available + 1
      /\ new = [first |-> new.first, available |-> new.available, byte |-> new.byte]
  <2>1. new = [first |-> b, available |-> chunk.available + 1,
               byte |-> [chunk.byte EXCEPT ![b] = chunk.first]]
    BY ChunkFreeIs
  <2> HIDE DEF new
  <2> QED
    BY <2>1
<1>5. new \in ChunkType
  <2>1. new.byte \in [BlockNo -> Byte] /\ new.first \in Byte /\ new.available \in Nat
    BY <1>2, <1>4
  <2> HIDE DEF new
  <2> QED
    BY <1>4, <2>1 DEF ChunkType
<1> DEFINE E == 1 .. new.available
           h == [n \in E |-> IF n = 1 THEN b ELSE g[n - 1]]
<1>6. 1 \in E /\ \A n \in E : n # 1 => n - 1 \in D
  BY <1>2, <1>4
<1>7. h \in [E -> BlockNo] /\ \A m, n \in E : h[m] = h[n] => m = n
  <2>1. h \in [E -> BlockNo] /\ h[1] = b /\ \A n \in E : n # 1 => h[n] = g[n - 1] /\ h[n] # b
    BY <1>1, <1>6
  <2> SUFFICES ASSUME NEW m \in E, NEW n \in E, h[m] = h[n] PROVE m = n
    BY <2>1
  <2>2. CASE m = 1 \/ n = 1
    BY <2>1, <2>2
  <2>3. CASE m # 1 /\ n # 1
    <3>1. m - 1 = n - 1
      BY <1>1, <1>6, <2>1, <2>3
    <3> QED
      BY <3>1
  <2> QED
    BY <2>2, <2>3
<1>8. new.first = h[1]
  BY <1>4, <1>6
<1>9. \A n \in E : n # 1 => new.byte[h[n - 1]] = h[n]
  <2> SUFFICES ASSUME NEW n \in E, n # 1 PROVE new.byte[h[n - 1]] = h[n]
    OBVIOUS
  <2>1. n - 1 \in E /\ n - 1 \in D /\ h[n] = g[n - 1]
    BY <1>2, <1>4
  <2>2. CASE n = 2
    <3>1. h[n - 1] = b /\ h[n] = g[1] /\ chunk.available > 0
      BY <1>2, <2>1, <2>2
    <3> HIDE DEF h, new
    <3> QED
      BY <1>1, <1>2, <1>4, <3>1
  <2>3. CASE n # 2
    <3>1. h[n - 1] = g[(n - 1) - 1] /\ n - 1 # 1 /\ (n - 1) - 1 \in D
      BY <1>2, <2>1, <2>3
    <3>2. g[(n - 1) - 1] # b /\ g[(n - 1) - 1] \in BlockNo
      BY <1>1, <3>1
    <3> HIDE DEF h, new
    <3>3. chunk.byte[g[(n - 1) - 1]] = g[n - 1]
      BY <1>1, <2>1, <3>1
    <3> QED
      BY <1>2, <1>4, <2>1, <3>1, <3>2, <3>3
  <2> QED
    BY <2>2, <2>3
<1>10. F \cup {b} = {h[n] : n \in E}
  <2>1. \A n \in D : n + 1 \in E /\ h[n + 1] = g[n]
    BY <1>2, <1>4
  <2>2. \A n \in E : h[n] = b \/ h[n] \in F
    BY <1>1, <1>6
  <2>3. h[1] = b
    BY <1>6
  <2> HIDE DEF h, E
  <2> QED
    BY <1>1, <1>6, <2>1, <2>2, <2>3
<1>11. FreeAs(new, F \cup {b})
  <2> HIDE DEF new
  <2> QED
    BY <1>7, <1>8, <1>9, <1>10 DEF FreeAs
<1> QED
  BY <1>4, <1>5, <1>11

LEMMA DivRange ==
  ASSUME NEW a \in Nat, NEW b \in Nat \ {0}
  PROVE  /\ a \div b \in Nat
         /\ b * (a \div b) <= a /\ a < b * (a \div b) + b
OBVIOUS

LEMMA TimesLess ==
  ASSUME NEW b \in Nat \ {0}, NEW p \in Int, NEW q \in Int, p >= q + 1
  PROVE  b * p >= b * q + b
OBVIOUS

LEMMA IndexFits ==
  ASSUME NEW size \in 1 .. MaxBlockSize
  PROVE  Index(size) \in Class /\ size <= Index(size) * AlignSize
<1> DEFINE a == size + AlignSize - 1
           m == MaxBlockSize + AlignSize - 1
           p == a \div AlignSize
           q == m \div AlignSize
<1>1. AlignSize \in Nat \ {0} /\ MaxBlockSize \in Nat \ {0} /\ size \in Nat /\ size >= 1
  BY AllocatorAssumption DEF AllocatorAssumption
<1>2. a \in Nat /\ m \in Nat /\ a <= m /\ a >= AlignSize
  BY <1>1
<1> HIDE DEF a, m
<1>3. p \in Nat /\ AlignSize * p <= a /\ a < AlignSize * p + AlignSize
  BY <1>1, <1>2, DivRange
<1>4. q \in Nat /\ AlignSize * q <= m /\ m < AlignSize * q + AlignSize
  BY <1>1, <1>2, DivRange
<1> HIDE DEF p, q
<1>5. AlignSize * p \in Nat /\ AlignSize * q \in Nat /\ AlignSize * p = p * AlignSize
  BY <1>1, <1>3, <1>4
<1>6. p <= q
  <2> SUFFICES ASSUME p >= q + 1 PROVE FALSE
    BY <1>3, <1>4
  <2>1. AlignSize * p >= AlignSize * q + AlignSize
    BY <1>1, <1>3, <1>4, TimesLess
  <2> QED
    BY <1>1, <1>2, <1>3, <1>4, <1>5, <2>1
<1>7. p >= 1
  <2> SUFFICES ASSUME p = 0 PROVE FALSE
    BY <1>3
  <2>1. AlignSize * p = 0
    BY <1>1
  <2> QED
    BY <1>1, <1>2, <1>3, <2>1
<1>8. size <= AlignSize * p
  BY <1>1, <1>3, <1>5 DEF a
<1>9. Index(size) = p /\ PoolSize = q
  BY DEF Index, PoolSize, p, q, a, m
<1> QED
  BY <1>3, <1>4, <1>5, <1>6, <1>7, <1>8, <1>9 DEF Class

HeldType == [class : Class, chunk : Nat, block : BlockNo, size : Nat]

(* A chunk of which the blocks in H are held: what is not held is free. *)
ChunkRight(chunk, H) ==
  /\ chunk \in ChunkType /\ IsFiniteSet(H)
  /\ FreeAs(chunk, BlockNo \ {h.block : h \in H})
  /\ chunk.available + Cardinality(H) = UCHAR_MAX

(* Blocks are held once, in the class of their size, in a chunk there is. *)
HeldRight ==
  /\ held \subseteq HeldType /\ IsFiniteSet(held)
  /\ \A h \in held : /\ h.chunk \in DOMAIN chunks[h.class]
                     /\ h.class = Index(h.size) /\ h.size <= h.class * AlignSize
  /\ \A h, k \in held : h.class = k.class /\ h.chunk = k.chunk /\ h.block = k.block => h = k

ChunksRight ==
  /\ chunks \in [Class -> Seq(ChunkType)]
  /\ \A c \in Class : \A i \in DOMAIN chunks[c] : ChunkRight(chunks[c][i], HeldIn(c, i))

HeldOf(c) == {h \in held : h.class = c}

CountsRight ==
  /\ lastAlloc \in [Class -> Nat] /\ allocBlocks \in [Class -> Nat]
  /\ \A c \in Class : /\ lastAlloc[c] # 0 => lastAlloc[c] \in DOMAIN chunks[c]
                      /\ allocBlocks[c] = Cardinality(HeldOf(c))

AllocInv == ChunksRight /\ HeldRight /\ CountsRight

LEMMA FreshRight == ChunkRight(FreshChunk, {})
<1>1. BlockNo \ {h.block : h \in {}} = BlockNo
  OBVIOUS
<1>2. FreshChunk.available = UCHAR_MAX /\ UCHAR_MAX \in Nat
  BY AllocatorAssumption DEF AllocatorAssumption, FreshChunk
<1>3. FreshChunk.available + Cardinality({}) = UCHAR_MAX
  BY <1>2, FS_EmptySet
<1>4. FreeAs(FreshChunk, BlockNo \ {h.block : h \in {}})
  BY <1>1, FreshIsFree
<1> QED
  BY <1>3, <1>4, FreshIsFree, FS_EmptySet DEF ChunkRight

LEMMA TakenBlockRight ==
  ASSUME NEW chunk, NEW H, ChunkRight(chunk, H), chunk.available > 0,
         NEW h, h.block = chunk.first
  PROVE  /\ chunk.first \in BlockNo /\ \A k \in H : k.block # chunk.first
         /\ ChunkRight(ChunkAlloc(chunk), H \cup {h})
<1> DEFINE F == BlockNo \ {k.block : k \in H}
           new == ChunkAlloc(chunk)
<1>1. /\ chunk.first \in F /\ new \in ChunkType
      /\ new.available = chunk.available - 1 /\ FreeAs(new, F \ {chunk.first})
  BY AllocFree DEF ChunkRight
<1>2. F \ {chunk.first} = BlockNo \ {k.block : k \in H \cup {h}}
  OBVIOUS
<1>3. chunk.first \in BlockNo /\ h \notin H /\ \A k \in H : k.block # chunk.first
  BY <1>1
<1>4. IsFiniteSet(H \cup {h}) /\ Cardinality(H \cup {h}) = Cardinality(H) + 1 /\ Cardinality(H) \in Nat
  BY <1>3, FS_AddElement, FS_CardinalityType DEF ChunkRight
<1>5. new.available + Cardinality(H \cup {h}) = UCHAR_MAX
  BY <1>1, <1>4 DEF ChunkRight, ChunkType
<1> QED
  BY <1>1, <1>2, <1>3, <1>4, <1>5 DEF ChunkRight

LEMMA FreedBlockRight ==
  ASSUME NEW chunk, NEW H, ChunkRight(chunk, H), NEW h \in H, h.block \in BlockNo,
         \A k \in H : k.block = h.block => k = h
  PROVE  ChunkRight(ChunkFree(chunk, h.block), H \ {h})
<1> DEFINE F == BlockNo \ {k.block : k \in H}
           new == ChunkFree(chunk, h.block)
<1>1. h.block \notin F /\ FreeAs(chunk, F) /\ chunk \in ChunkType
  BY DEF ChunkRight
<1>2. new \in ChunkType /\ new.available = chunk.available + 1 /\ FreeAs(new, F \cup {h.block})
  <2> HIDE DEF F
  <2> QED
    BY <1>1, FreeFree
<1>3. F \cup {h.block} = BlockNo \ {k.block : k \in H \ {h}}
  OBVIOUS
<1>4. IsFiniteSet(H \ {h}) /\ Cardinality(H \ {h}) = Cardinality(H) - 1 /\ Cardinality(H) \in Nat
  BY FS_RemoveElement, FS_CardinalityType DEF ChunkRight
<1>5. new.available + Cardinality(H \ {h}) = UCHAR_MAX
  BY <1>1, <1>2, <1>4 DEF ChunkRight, ChunkType
<1> QED
  BY <1>2, <1>3, <1>4, <1>5 DEF ChunkRight

LEMMA AllocStart == AllocInit => AllocInv
<1> SUFFICES ASSUME AllocInit PROVE AllocInv
  OBVIOUS
<1>1. /\ held = {} /\ \A c \in Class : chunks[c] = <<>> /\ lastAlloc[c] = 0 /\ allocBlocks[c] = 0
      /\ chunks \in [Class -> Seq(ChunkType)] /\ lastAlloc \in [Class -> Nat]
      /\ allocBlocks \in [Class -> Nat]
  BY DEF AllocInit
<1>2. \A c \in Class : HeldOf(c) = {} /\ DOMAIN chunks[c] = {}
  BY <1>1 DEF HeldOf
<1> QED
  BY <1>1, <1>2, FS_EmptySet DEF AllocInv, ChunksRight, HeldRight, CountsRight

(* An allocation out of chunk i of cs, the class's chunks and maybe a new one. *)
LEMMA TakeKeeps ==
  ASSUME AllocInv, NEW c \in Class, NEW cs \in Seq(ChunkType), NEW i \in DOMAIN cs,
         cs[i].available > 0, DOMAIN chunks[c] \subseteq DOMAIN cs,
         \A j \in DOMAIN cs : ChunkRight(cs[j], HeldIn(c, j)),
         NEW size \in Nat, c = Index(size), size <= c * AlignSize, Take(c, cs, i, size)
  PROVE  AllocInv'
<1> DEFINE h == [class |-> c, chunk |-> i, block |-> cs[i].first, size |-> size]
<1>1. /\ chunks' = [chunks EXCEPT ![c] = [cs EXCEPT ![i] = ChunkAlloc(@)]]
      /\ lastAlloc' = [lastAlloc EXCEPT ![c] = i]
      /\ allocBlocks' = [allocBlocks EXCEPT ![c] = @ + 1]
      /\ held' = held \cup {h} /\ i \in Nat /\ i # 0
  BY DEF Take
<1>2. /\ h.class = c /\ h.chunk = i /\ h.block = cs[i].first /\ h.size = size
  OBVIOUS
<1> HIDE DEF h
<1>3. /\ cs[i].first \in BlockNo /\ \A k \in HeldIn(c, i) : k.block # cs[i].first
      /\ ChunkRight(ChunkAlloc(cs[i]), HeldIn(c, i) \cup {h})
  BY <1>2, TakenBlockRight
<1>4. ChunkAlloc(cs[i]) \in ChunkType
  BY <1>3 DEF ChunkRight
<1> DEFINE new == [cs EXCEPT ![i] = ChunkAlloc(@)]
<1>5. /\ new \in Seq(ChunkType) /\ DOMAIN new = DOMAIN cs /\ new[i] = ChunkAlloc(cs[i])
      /\ \A j \in DOMAIN cs : j # i => new[j] = cs[j]
  BY <1>4
<1> HIDE DEF new
<1>6. /\ chunks' \in [Class -> Seq(ChunkType)] /\ chunks'[c] = new
      /\ \A d \in Class : d # c => chunks'[d] = chunks[d]
  BY <1>1, <1>5 DEF AllocInv, ChunksRight, new
<1>7. ChunksRight'
  <2> SUFFICES ASSUME NEW d \in Class, NEW j \in DOMAIN chunks'[d]
               PROVE  ChunkRight(chunks'[d][j], HeldIn(d, j)')
    BY <1>6 DEF ChunksRight
  <2>1. CASE d = c /\ j = i
    <3>1. HeldIn(d, j)' = HeldIn(c, i) \cup {h}
      BY <1>1, <1>2, <2>1 DEF HeldIn
    <3> QED
      BY <1>3, <1>5, <1>6, <2>1, <3>1
  <2>2. CASE ~ (d = c /\ j = i)
    <3>1. HeldIn(d, j)' = HeldIn(d, j)
      BY <1>1, <1>2, <2>2 DEF HeldIn
    <3>2. CASE d = c
      BY <1>5, <1>6, <2>2, <3>1, <3>2
    <3>3. CASE d # c
      BY <1>6, <3>1, <3>3 DEF AllocInv, ChunksRight
    <3> QED
      BY <3>2, <3>3
  <2> QED
    BY <2>1, <2>2
<1>8. h \in HeldType /\ h \notin held
  <2>1. h \in HeldType
    BY <1>1, <1>3 DEF HeldType, h
  <2>2. h \in held => h \in HeldIn(c, i)
    BY <1>2 DEF HeldIn
  <2> QED
    BY <1>2, <1>3, <2>1, <2>2
<1>9. HeldRight'
  <2>1. held' \subseteq HeldType /\ IsFiniteSet(held')
    BY <1>1, <1>8, FS_AddElement DEF AllocInv, HeldRight
  <2>2. ASSUME NEW k \in held'
        PROVE  /\ k.chunk \in DOMAIN chunks'[k.class]
               /\ k.class = Index(k.size) /\ k.size <= k.class * AlignSize
    <3>1. CASE k = h
      BY <1>2, <1>5, <1>6, <3>1
    <3>2. CASE k \in held
      <4>1. /\ k.class \in Class /\ k.chunk \in DOMAIN chunks[k.class]
            /\ k.class = Index(k.size) /\ k.size <= k.class * AlignSize
        BY <3>2 DEF AllocInv, HeldRight, HeldType
      <4> QED
        BY <1>5, <1>6, <4>1
    <3> QED
      BY <1>1, <3>1, <3>2
  <2>3. ASSUME NEW k \in held, k.class = c, k.chunk = i
        PROVE  k.block # h.block
    BY <1>2, <1>3, <2>3 DEF HeldIn
  <2>4. \A k, l \in held' : k.class = l.class /\ k.chunk = l.chunk /\ k.block = l.block => k = l
    BY <1>1, <1>2, <2>3 DEF AllocInv, HeldRight
  <2> QED
    BY <2>1, <2>2, <2>4 DEF HeldRight
<1>10. CountsRight'
  <2>1. lastAlloc' \in [Class -> Nat] /\ allocBlocks' \in [Class -> Nat]
    BY <1>1 DEF AllocInv, CountsRight
  <2>2. ASSUME NEW d \in Class
        PROVE  /\ lastAlloc'[d] # 0 => lastAlloc'[d] \in DOMAIN chunks'[d]
               /\ allocBlocks'[d] = Cardinality(HeldOf(d)')
    <3>1. CASE d = c
      <4>1. HeldOf(d)' = HeldOf(c) \cup {h} /\ h \notin HeldOf(c)
        BY <1>1, <1>2, <1>8, <3>1 DEF HeldOf
      <4>2. IsFiniteSet(HeldOf(c))
        BY FS_Subset DEF AllocInv, HeldRight, HeldOf
      <4>3. Cardinality(HeldOf(d)') = Cardinality(HeldOf(c)) + 1
        BY <4>1, <4>2, FS_AddElement
      <4> QED
        BY <1>1, <1>5, <1>6, <3>1, <4>3 DEF AllocInv, CountsRight
    <3>2. CASE d # c
      <4>1. HeldOf(d)' = HeldOf(d)
        BY <1>1, <1>2, <3>2 DEF HeldOf
      <4> QED
        BY <1>1, <1>6, <3>2, <4>1 DEF AllocInv, CountsRight
    <3> QED
      BY <3>1, <3>2
  <2> QED
    BY <2>1, <2>2 DEF CountsRight
<1> QED
  BY <1>7, <1>9, <1>10 DEF AllocInv

LEMMA SmallObjAllocKeeps ==
  ASSUME AllocInv, NEW size \in 1 .. MaxBlockSize, SmallObjAlloc(size)
  PROVE  AllocInv'
<1> DEFINE c == Index(size)
<1>1. c \in Class /\ size <= c * AlignSize /\ size \in Nat
  BY IndexFits, AllocatorAssumption DEF AllocatorAssumption
<1> HIDE DEF c
<1>2. c = Index(size)
  BY DEF c
<1>3. /\ chunks[c] \in Seq(ChunkType)
      /\ \A i \in DOMAIN chunks[c] : ChunkRight(chunks[c][i], HeldIn(c, i))
  BY <1>1 DEF AllocInv, ChunksRight
<1>4. \/ HasBlock(c, lastAlloc[c]) /\ Take(c, chunks[c], lastAlloc[c], size)
      \/ \E i \in DOMAIN chunks[c] : HasBlock(c, i) /\ Take(c, chunks[c], i, size)
      \/ Take(c, Append(chunks[c], FreshChunk), Len(chunks[c]) + 1, size)
  BY <1>2 DEF SmallObjAlloc
<1>5. CASE HasBlock(c, lastAlloc[c]) /\ Take(c, chunks[c], lastAlloc[c], size)
  <2>1. lastAlloc[c] \in DOMAIN chunks[c] /\ chunks[c][lastAlloc[c]].available > 0
    BY <1>1, <1>5 DEF HasBlock, AllocInv, CountsRight
  <2> QED
    BY <1>1, <1>2, <1>3, <1>5, <2>1, TakeKeeps
<1>6. ASSUME NEW i \in DOMAIN chunks[c], HasBlock(c, i), Take(c, chunks[c], i, size)
      PROVE  AllocInv'
  <2>1. chunks[c][i].available > 0
    BY <1>6 DEF HasBlock
  <2> QED
    BY <1>1, <1>2, <1>3, <1>6, <2>1, TakeKeeps
<1>7. CASE Take(c, Append(chunks[c], FreshChunk), Len(chunks[c]) + 1, size)
  <2> DEFINE n == Len(chunks[c]) + 1
             cs == Append(chunks[c], FreshChunk)
  <2>1. FreshChunk \in ChunkType /\ FreshChunk.available > 0
    BY FreshIsFree, AllocatorAssumption DEF AllocatorAssumption, FreshChunk
  <2>2. /\ cs \in Seq(ChunkType) /\ n \in DOMAIN cs /\ cs[n] = FreshChunk
        /\ DOMAIN chunks[c] \subseteq DOMAIN cs /\ n \notin DOMAIN chunks[c]
        /\ \A j \in DOMAIN cs : j = n \/ (j \in DOMAIN chunks[c] /\ cs[j] = chunks[c][j])
    BY <1>3, <2>1
  <2> HIDE DEF n, cs
  <2>3. HeldIn(c, n) = {}
    BY <2>2 DEF AllocInv, HeldRight, HeldIn
  <2>4. \A j \in DOMAIN cs : ChunkRight(cs[j], HeldIn(c, j))
    BY <1>3, <2>2, <2>3, FreshRight
  <2>5. Take(c, cs, n, size) /\ cs[n].available > 0
    BY <1>7, <2>1, <2>2 DEF cs, n
  <2> QED
    BY <1>1, <1>2, <2>2, <2>4, <2>5, TakeKeeps
<1> QED
  BY <1>4, <1>5, <1>6, <1>7

LEMMA SmallObjFreeKeeps ==
  ASSUME AllocInv, NEW h \in held, SmallObjFree(h)
  PROVE  AllocInv'
<1> DEFINE c == h.class
           i == h.chunk
           old == chunks[c][i]
<1>1. /\ c = Index(h.size) /\ c \in Class /\ i \in DOMAIN chunks[c] /\ h.block \in BlockNo
      /\ chunks[c] \in Seq(ChunkType) /\ ChunkRight(old, HeldIn(c, i))
  BY DEF AllocInv, ChunksRight, HeldRight, HeldType
<1>2. /\ chunks' = [chunks EXCEPT ![c][i] = ChunkFree(@, h.block)]
      /\ allocBlocks' = [allocBlocks EXCEPT ![c] = @ - 1]
      /\ held' = held \ {h} /\ lastAlloc' = lastAlloc
  BY <1>1 DEF SmallObjFree
<1>3. h \in HeldIn(c, i) /\ \A k \in HeldIn(c, i) : k.block = h.block => k = h
  BY DEF HeldIn, AllocInv, HeldRight
<1>4. ChunkRight(ChunkFree(old, h.block), HeldIn(c, i) \ {h})
  BY <1>1, <1>3, FreedBlockRight
<1>5. ChunkFree(old, h.block) \in ChunkType
  BY <1>4 DEF ChunkRight
<1> DEFINE new == [chunks[c] EXCEPT ![i] = ChunkFree(@, h.block)]
<1>6. /\ new \in Seq(ChunkType) /\ DOMAIN new = DOMAIN chunks[c] /\ new[i] = ChunkFree(old, h.block)
      /\ \A j \in DOMAIN chunks[c] : j # i => new[j] = chunks[c][j]
  BY <1>1, <1>5
<1>7. chunks' = [chunks EXCEPT ![c] = new]
  BY <1>2
<1> HIDE DEF new
<1>8. /\ chunks' \in [Class -> Seq(ChunkType)] /\ chunks'[c] = new
      /\ \A d \in Class : d # c => chunks'[d] = chunks[d]
      /\ \A d \in Class : DOMAIN chunks'[d] = DOMAIN chunks[d]
  BY <1>1, <1>6, <1>7 DEF AllocInv, ChunksRight
<1>9. ChunksRight'
  <2> SUFFICES ASSUME NEW d \in Class, NEW j \in DOMAIN chunks'[d]
               PROVE  ChunkRight(chunks'[d][j], HeldIn(d, j)')
    BY <1>8 DEF ChunksRight
  <2>1. CASE d = c /\ j = i
    <3>1. HeldIn(d, j)' = HeldIn(c, i) \ {h}
      BY <1>2, <2>1 DEF HeldIn
    <3> QED
      BY <1>4, <1>6, <1>8, <2>1, <3>1
  <2>2. CASE ~ (d = c /\ j = i)
    <3>1. HeldIn(d, j)' = HeldIn(d, j)
      BY <1>2, <2>2 DEF HeldIn
    <3>2. chunks'[d][j] = chunks[d][j] /\ j \in DOMAIN chunks[d]
      BY <1>6, <1>8, <2>2
    <3> QED
      BY <3>1, <3>2 DEF AllocInv, ChunksRight
  <2> QED
    BY <2>1, <2>2
<1>10. HeldRight'
  <2>1. held' \subseteq HeldType /\ IsFiniteSet(held')
    BY <1>2, FS_RemoveElement DEF AllocInv, HeldRight
  <2>2. \A k \in held' : k.class \in Class /\ k.chunk \in DOMAIN chunks[k.class]
    BY <1>2 DEF AllocInv, HeldRight, HeldType
  <2>3. \A k \in held' : k.chunk \in DOMAIN chunks'[k.class]
    BY <1>8, <2>2
  <2> QED
    BY <1>2, <2>1, <2>3 DEF AllocInv, HeldRight
<1>11. CountsRight'
  <2>1. IsFiniteSet(HeldOf(c)) /\ h \in HeldOf(c)
    BY FS_Subset DEF AllocInv, HeldRight, HeldOf
  <2>2. HeldOf(c)' = HeldOf(c) \ {h} /\ \A d \in Class : d # c => HeldOf(d)' = HeldOf(d)
    BY <1>2 DEF HeldOf
  <2>3. /\ Cardinality(HeldOf(c)') = Cardinality(HeldOf(c)) - 1
        /\ Cardinality(HeldOf(c)') \in Nat
    BY <2>1, <2>2, FS_RemoveElement, FS_CardinalityType
  <2>4. allocBlocks'[c] = Cardinality(HeldOf(c)') /\ \A d \in Class : d # c => allocBlocks'[d] = allocBlocks[d]
    BY <1>1, <1>2, <2>3 DEF AllocInv, CountsRight
  <2>5. \A d \in Class : allocBlocks'[d] = Cardinality(HeldOf(d)')
    BY <2>2, <2>4 DEF AllocInv, CountsRight
  <2>6. allocBlocks' \in [Class -> Nat]
    BY <1>1, <1>2, <2>3, <2>4 DEF AllocInv, CountsRight
  <2> QED
    BY <1>2, <1>8, <2>5, <2>6 DEF AllocInv, CountsRight
<1> QED
  BY <1>9, <1>10, <1>11 DEF AllocInv

LEMMA FreeAllKeeps ==
  ASSUME AllocInv, NEW c \in Class, FixObjectFreeAll(c)
  PROVE  AllocInv'
<1> DEFINE new == [i \in DOMAIN chunks[c] |-> FreshChunk]
<1>1. /\ chunks' = [chunks EXCEPT ![c] = new]
      /\ lastAlloc' = [lastAlloc EXCEPT ![c] = 0]
      /\ allocBlocks' = [allocBlocks EXCEPT ![c] = 0]
      /\ held' = {h \in held : h.class # c}
  BY DEF FixObjectFreeAll
<1>2. /\ new \in Seq(ChunkType) /\ DOMAIN new = DOMAIN chunks[c]
      /\ \A i \in DOMAIN new : new[i] = FreshChunk
  <2>1. chunks[c] \in Seq(ChunkType)
    BY DEF AllocInv, ChunksRight
  <2>2. Len(chunks[c]) \in Nat /\ DOMAIN chunks[c] = 1 .. Len(chunks[c])
    BY <2>1
  <2> QED
    BY <2>2, FreshIsFree
<1> HIDE DEF new
<1>3. /\ chunks' \in [Class -> Seq(ChunkType)] /\ chunks'[c] = new
      /\ \A d \in Class : d # c => chunks'[d] = chunks[d]
      /\ \A d \in Class : DOMAIN chunks'[d] = DOMAIN chunks[d]
  BY <1>1, <1>2 DEF AllocInv, ChunksRight
<1>4. ChunksRight'
  <2> SUFFICES ASSUME NEW d \in Class, NEW j \in DOMAIN chunks'[d]
               PROVE  ChunkRight(chunks'[d][j], HeldIn(d, j)')
    BY <1>3 DEF ChunksRight
  <2>1. CASE d = c
    <3>1. HeldIn(d, j)' = {}
      BY <1>1, <2>1 DEF HeldIn
    <3> QED
      BY <1>2, <1>3, <2>1, <3>1, FreshRight
  <2>2. CASE d # c
    <3>1. HeldIn(d, j)' = HeldIn(d, j)
      BY <1>1, <2>2 DEF HeldIn
    <3> QED
      BY <1>3, <2>2, <3>1 DEF AllocInv, ChunksRight
  <2> QED
    BY <2>1, <2>2
<1>5. HeldRight'
  <2>1. held' \subseteq held /\ IsFiniteSet(held')
    BY <1>1, FS_Subset DEF AllocInv, HeldRight
  <2>2. \A k \in held' : k.class \in Class /\ k.chunk \in DOMAIN chunks[k.class]
    BY <2>1 DEF AllocInv, HeldRight, HeldType
  <2>3. \A k \in held' : k.chunk \in DOMAIN chunks'[k.class]
    BY <1>3, <2>2
  <2> QED
    BY <2>1, <2>3 DEF AllocInv, HeldRight
<1>6. CountsRight'
  <2>1. HeldOf(c)' = {} /\ \A d \in Class : d # c => HeldOf(d)' = HeldOf(d)
    BY <1>1 DEF HeldOf
  <2>2. \A d \in Class : allocBlocks'[d] = Cardinality(HeldOf(d)')
    BY <1>1, <2>1, FS_EmptySet DEF AllocInv, CountsRight
  <2> QED
    BY <1>1, <1>3, <2>2 DEF AllocInv, CountsRight
<1> QED
  BY <1>4, <1>5, <1>6 DEF AllocInv

LEMMA AllocStep == AllocInv /\ [AllocNext]_allocVars => AllocInv'
<1> SUFFICES ASSUME AllocInv, [AllocNext]_allocVars PROVE AllocInv'
  OBVIOUS
<1>1. ASSUME UNCHANGED <<chunks, lastAlloc, allocBlocks, held>> PROVE AllocInv'
  BY <1>1 DEF AllocInv, ChunksRight, HeldRight, CountsRight, HeldIn, HeldOf
<1>2. CASE SmallObjAllocNothing
  BY <1>1, <1>2 DEF SmallObjAllocNothing
<1>3. CASE UNCHANGED allocVars
  BY <1>1, <1>3 DEF allocVars
<1> QED
  BY <1>2, <1>3, SmallObjAllocKeeps, SmallObjFreeKeeps, FreeAllKeeps DEF AllocNext

LEMMA AllocRight == AllocInv => BlocksPlaced
<1> SUFFICES ASSUME AllocInv PROVE BlocksPlaced
  OBVIOUS
<1>1. ASSUME NEW c \in Class, NEW i \in DOMAIN chunks[c]
      PROVE  /\ FreeList(chunks[c][i]) = (0 .. UCHAR_MAX - 1) \ {h.block : h \in HeldIn(c, i)}
             /\ chunks[c][i].available + Cardinality(HeldIn(c, i)) = UCHAR_MAX
  <2>1. ChunkRight(chunks[c][i], HeldIn(c, i))
    BY <1>1 DEF AllocInv, ChunksRight
  <2> QED
    BY <2>1, FreeListIs DEF ChunkRight, BlockNo
<1>2. \A h \in held : h.size <= h.class * AlignSize
  BY DEF AllocInv, HeldRight
<1>3. \A c \in Class : allocBlocks[c] = Cardinality({h \in held : h.class = c})
  BY DEF AllocInv, CountsRight, HeldOf
<1> QED
  BY <1>1, <1>2, <1>3 DEF BlocksPlaced

(* The blocks that the allocators of memory/ have given out lie apart, and what the    *)
(* small-object allocator has not given out is on the free list of its chunk, for any  *)
(* number of blocks in a chunk, any alignments and any sizes of pages and requests.    *)
THEOREM MemoryIsApart == MemorySpec => []MemoryApart
<1>1. MemoryInit => AllocInv /\ PoolInv
  BY AllocStart, PoolStart DEF MemoryInit
<1>2. AllocInv /\ PoolInv /\ [MemoryNext]_<<allocVars, poolVars>> => (AllocInv /\ PoolInv)'
  BY AllocStep, PoolStep DEF MemoryNext
<1>3. AllocInv /\ PoolInv => MemoryApart
  BY AllocRight DEF MemoryApart, PoolInv
<1> QED
  BY <1>1, <1>2, <1>3, PTL DEF MemorySpec

-----------------------------------------------------------------------------
(* The ring buffer: the block of the n-th value, counted from the back. *)
Position(b, n) == IF b >= n THEN b - n + 1 ELSE b - n + 1 + RingCapacity

InRing == [n \in 1 .. RingLength |-> data[Position(back, n)]]

RingInv ==
  /\ prev = [b \in Block |-> (b % RingCapacity) + 1]
  /\ nextBlock = [b \in Block |-> IF b = 1 THEN RingCapacity ELSE b - 1]
  /\ data \in [Block -> Values \cup {NoValue}]
  /\ front \in Block /\ back \in Block /\ validBlocks \in 0 .. RingCapacity
  /\ front = Position(back, RingLength + 1)

LEMMA CapacityIsNat == RingCapacity \in Nat \ {0}
<1>1. Blocks \in Nat \ {0} /\ BlocksPerPage \in Nat \ {0}
  BY RingAssumption DEF RingAssumption
<1>2. Blocks \div BlocksPerPage \in Nat
  BY <1>1
<1>3. Blocks \div BlocksPerPage = 0 => Blocks % BlocksPerPage # 0
  BY <1>1
<1>4. Pages \in Nat \ {0}
  BY <1>2, <1>3 DEF Pages
<1>5. \A a, b \in Nat \ {0} : a * b \in Nat \ {0}
  OBVIOUS
<1> QED
  BY <1>1, <1>4, <1>5 DEF RingCapacity

LEMMA Positions ==
  ASSUME NEW b \in Block
  PROVE  /\ \A n \in 1 .. RingCapacity + 1 : Position(b, n) \in Block
         /\ Position(b, 1) = b /\ Position(b, RingCapacity + 1) = b
         /\ \A m, n \in 1 .. RingCapacity : Position(b, m) = Position(b, n) => m = n
BY CapacityIsNat DEF Position, Block

(* One further along the links is one further in the count, from either end. *)
LEMMA Links ==
  ASSUME RingInv, NEW b \in Block
  PROVE  /\ prev[b] \in Block /\ nextBlock[b] \in Block
         /\ \A n \in 1 .. RingCapacity : /\ nextBlock[Position(b, n)] = Position(b, n + 1)
                                         /\ prev[Position(b, n + 1)] = Position(b, n)
                                         /\ Position(nextBlock[b], n) = Position(b, n + 1)
                                         /\ Position(prev[b], n + 1) = Position(b, n)
<1>1. RingCapacity \in Nat \ {0}
  BY CapacityIsNat
<1>2. \A c \in Block : c % RingCapacity = IF c = RingCapacity THEN 0 ELSE c
  BY <1>1 DEF Block
<1>3. \A c \in Block : /\ prev[c] = IF c = RingCapacity THEN 1 ELSE c + 1
                       /\ nextBlock[c] = IF c = 1 THEN RingCapacity ELSE c - 1
  <2>1. \A c \in Block : prev[c] = (c % RingCapacity) + 1
    BY DEF RingInv
  <2>2. \A c \in Block : nextBlock[c] = IF c = 1 THEN RingCapacity ELSE c - 1
    BY DEF RingInv
  <2> QED
    BY <1>1, <1>2, <2>1, <2>2
<1>4. prev[b] \in Block /\ nextBlock[b] \in Block
  BY <1>1, <1>3 DEF Block
<1> SUFFICES ASSUME NEW n \in 1 .. RingCapacity
             PROVE  /\ nextBlock[Position(b, n)] = Position(b, n + 1)
                    /\ prev[Position(b, n + 1)] = Position(b, n)
                    /\ Position(nextBlock[b], n) = Position(b, n + 1)
                    /\ Position(prev[b], n + 1) = Position(b, n)
  BY <1>4
<1>5. Position(b, n) \in Block /\ Position(b, n + 1) \in Block
  BY <1>1, Positions
<1>6. nextBlock[Position(b, n)] = Position(b, n + 1) /\ prev[Position(b, n + 1)] = Position(b, n)
  BY <1>1, <1>3, <1>5 DEF Block, Position
<1>7. Position(nextBlock[b], n) = Position(b, n + 1) /\ Position(prev[b], n + 1) = Position(b, n)
  BY <1>1, <1>3 DEF Block, Position
<1> QED
  BY <1>6, <1>7

(* The walk along the links, by induction. *)
LEMMA WalkIs ==
  ASSUME RingInv
  PROVE  \A n \in 1 .. RingCapacity : Walk[n] = Position(back, n)
<1> DEFINE D == 1 .. RingCapacity
           Eq(f) == f = [n \in D |-> IF n = 1 THEN back ELSE nextBlock[f[n - 1]]]
           g == [n \in D |-> Position(back, n)]
<1>1. RingCapacity \in Nat \ {0} /\ back \in Block
  BY CapacityIsNat DEF RingInv
<1>2. \A n \in D : n # 1 => n - 1 \in D /\ nextBlock[Position(back, n - 1)] = Position(back, n)
  <2> SUFFICES ASSUME NEW n \in D, n # 1
               PROVE  n - 1 \in D /\ nextBlock[Position(back, n - 1)] = Position(back, n)
    OBVIOUS
  <2>1. n - 1 \in D /\ (n - 1) + 1 = n
    BY <1>1
  <2> QED
    BY <1>1, <2>1, Links
<1>3. Position(back, 1) = back
  BY <1>1, Positions
<1>4. Eq(g)
  BY <1>2, <1>3
<1>5. Eq(Walk)
  <2>1. Walk = CHOOSE f : Eq(f)
    BY DEF Walk
  <2> QED
    BY <1>4, <2>1
<1>6. \A n \in D : Walk[n] = IF n = 1 THEN back ELSE nextBlock[Walk[n - 1]]
  BY <1>5
<1> DEFINE T == {n \in D : Walk[n] # Position(back, n)}
<1> SUFFICES ASSUME T # {} PROVE FALSE
  OBVIOUS
<1>7. PICK n \in T : \A m \in T : n <= m
  <2>1. T \subseteq Nat
    OBVIOUS
  <2> HIDE DEF T
  <2> QED
    BY <2>1, LeastElement
<1>8. n # 1
  BY <1>3, <1>6
<1>9. n - 1 \in D /\ n - 1 \notin T
  BY <1>1, <1>7, <1>8
<1> QED
  BY <1>2, <1>6, <1>8, <1>9

LEMMA ContentsAre == RingInv => RingContents = InRing
<1> SUFFICES ASSUME RingInv PROVE RingContents = InRing
  OBVIOUS
<1>1. RingLength \in 0 .. RingCapacity /\ RingCapacity \in Nat
  BY CapacityIsNat DEF RingInv, RingLength
<1>2. \A n \in 1 .. RingLength : Walk[n] = Position(back, n)
  BY <1>1, WalkIs
<1> QED
  BY <1>2 DEF RingContents, InRing

LEMMA RingStart == RingInit => RingInv /\ Deque!Init
<1> SUFFICES ASSUME RingInit PROVE RingInv /\ Deque!Init
  OBVIOUS
<1>1. RingCapacity \in Nat \ {0}
  BY CapacityIsNat
<1>2. 1 \in Block /\ RingLength = 0 /\ Position(1, 1) = 1
  BY <1>1 DEF RingInit, RingLength, Block, Position
<1>3. RingInv
  BY <1>1, <1>2 DEF RingInit, RingInv
<1>4. RingContents = <<>>
  BY <1>2 DEF RingContents
<1> QED
  BY <1>3, <1>4 DEF Deque!Init, RingInit

(* Sequences are equal that have the same length and the same members. *)
LEMMA SequencesEqual ==
  ASSUME NEW S, NEW s \in Seq(S), NEW t \in Seq(S), Len(s) = Len(t),
         \A n \in 1 .. Len(s) : s[n] = t[n]
  PROVE  s = t
OBVIOUS

LEMMA InRingIs ==
  ASSUME RingInv
  PROVE  /\ InRing \in Seq(Values \cup {NoValue}) /\ Len(InRing) = RingLength
         /\ \A n \in 1 .. RingLength : InRing[n] = data[Position(back, n)]
         /\ RingLength \in 0 .. RingCapacity /\ validBlocks = RingCapacity - RingLength
         /\ (validBlocks = 0 <=> RingLength = RingCapacity)
<1>1. RingLength \in 0 .. RingCapacity /\ RingCapacity \in Nat
      /\ validBlocks = RingCapacity - RingLength
  BY CapacityIsNat DEF RingInv, RingLength
<1>2. \A n \in 1 .. RingLength : data[Position(back, n)] \in Values \cup {NoValue}
  BY <1>1, Positions DEF RingInv
<1>3. /\ InRing \in Seq(Values \cup {NoValue}) /\ Len(InRing) = RingLength
      /\ \A n \in 1 .. RingLength : InRing[n] = data[Position(back, n)]
  BY <1>1, <1>2 DEF InRing
<1> QED
  BY <1>1, <1>3

(* What is in the ring after a step that leaves length values. *)
LEMMA InRingNext ==
  ASSUME NEW length \in Nat, RingLength' = length,
         \A n \in 1 .. length : data'[Position(back', n)] \in Values \cup {NoValue}
  PROVE  /\ InRing' \in Seq(Values \cup {NoValue}) /\ Len(InRing') = length
         /\ \A n \in 1 .. length : InRing'[n] = data'[Position(back', n)]
<1>1. InRing' = [n \in 1 .. length |-> data'[Position(back', n)]]
  BY DEF InRing, Position
<1> QED
  BY <1>1

DequeNext(c, d) ==
  \/ c = <<>> /\ d = c /\ lastRead' = NoValue
  \/ c # <<>> /\ d = Tail(c) /\ lastRead' = Head(c)
  \/ c # <<>> /\ d = SubSeq(c, 1, Len(c) - 1) /\ lastRead' = c[Len(c)]
  \/ \E v \in Values :
       /\ lastRead' = NoValue
       /\ \/ d = <<v>> \o (IF Len(c) = RingCapacity THEN SubSeq(c, 1, RingCapacity - 1) ELSE c)
          \/ d = Append(IF Len(c) = RingCapacity THEN Tail(c) ELSE c, v)

RingStepRight == RingInv' /\ DequeNext(InRing, InRing')

LEMMA WriteFrontRight ==
  ASSUME RingInv, NEW v \in Values, WriteFront(v) PROVE RingStepRight
<1> DEFINE V == Values \cup {NoValue}
           full == RingLength = RingCapacity
           c == IF full THEN Tail(InRing) ELSE InRing
           d == Append(c, v)
           m == IF full THEN RingLength ELSE RingLength + 1
<1>1. /\ InRing \in Seq(V) /\ Len(InRing) = RingLength
      /\ \A n \in 1 .. RingLength : InRing[n] = data[Position(back, n)]
      /\ RingLength \in 0 .. RingCapacity /\ validBlocks = RingCapacity - RingLength
      /\ (validBlocks = 0 <=> full)
      /\ RingCapacity \in Nat \ {0} /\ back \in Block /\ front \in Block
      /\ front = Position(back, RingLength + 1) /\ data \in [Block -> V]
  BY InRingIs, CapacityIsNat DEF RingInv
<1>2. /\ data' = [data EXCEPT ![front] = v] /\ front' = nextBlock[front] /\ lastRead' = NoValue
      /\ prev' = prev /\ nextBlock' = nextBlock
      /\ full => back' = nextBlock[back] /\ validBlocks' = validBlocks
      /\ ~full => validBlocks' = validBlocks - 1 /\ back' = back
  BY <1>1 DEF WriteFront
<1>3. RingLength' = m /\ m \in 1 .. RingCapacity /\ validBlocks' \in 0 .. RingCapacity
  BY <1>1, <1>2 DEF RingLength
<1>4. /\ back' \in Block /\ front' \in Block /\ data' \in [Block -> V]
  BY <1>1, <1>2, Links
<1>5. /\ full => \A n \in 1 .. RingCapacity : Position(back', n) = Position(back, n + 1)
      /\ ~full => \A n \in 1 .. RingCapacity : Position(back', n) = Position(back, n)
  BY <1>1, <1>2, Links
<1>6. front = Position(back', m)
  BY <1>1, <1>3, <1>5
<1>7. front' = Position(back', m + 1)
  BY <1>2, <1>3, <1>4, <1>6, Links
<1>8. RingInv'
  BY <1>2, <1>3, <1>4, <1>7 DEF RingInv, Block, Position
<1>9. /\ c \in Seq(V) /\ Len(c) = m - 1
      /\ \A n \in 1 .. m - 1 : c[n] = data[Position(back', n)]
  <2>1. CASE full
    <3>1. /\ InRing # <<>> /\ c \in Seq(V) /\ Len(c) = m - 1
          /\ \A n \in 1 .. m - 1 : c[n] = InRing[n + 1] /\ n + 1 \in 1 .. RingLength
      BY <1>1, <2>1
    <3> HIDE DEF c
    <3>2. \A n \in 1 .. m - 1 : Position(back', n) = Position(back, n + 1)
      BY <1>1, <1>3, <1>5, <2>1
    <3> QED
      BY <1>1, <3>1, <3>2
  <2>2. CASE ~full
    BY <1>1, <1>3, <1>5, <2>2
  <2> QED
    BY <2>1, <2>2
<1>10. \A n \in 1 .. m - 1 : Position(back', n) # front /\ Position(back', n) \in Block
  <2>1. \A n \in 1 .. m - 1 : n # m /\ n \in 1 .. RingCapacity
    BY <1>1, <1>3
  <2> HIDE DEF m
  <2>2. m \in 1 .. RingCapacity
    BY <1>3
  <2>3. \A n \in 1 .. RingCapacity : Position(back', n) \in Block
    BY <1>1, <1>4, Positions
  <2>4. \A n \in 1 .. RingCapacity : Position(back', n) = Position(back', m) => n = m
    BY <1>4, <2>2, Positions
  <2> QED
    BY <1>6, <2>1, <2>3, <2>4
<1> HIDE DEF c, m
<1>11. m \in Nat /\ m >= 1
  BY <1>3
<1>12. d \in Seq(V) /\ Len(d) = m /\ d[m] = v /\ \A n \in 1 .. m - 1 : d[n] = c[n]
  BY <1>9, <1>11
<1>13. \A n \in 1 .. m : data'[Position(back', n)] = d[n] /\ d[n] \in V
  <2> SUFFICES ASSUME NEW n \in 1 .. m PROVE data'[Position(back', n)] = d[n] /\ d[n] \in V
    OBVIOUS
  <2>1. CASE n = m
    BY <1>1, <1>2, <1>6, <1>12, <2>1
  <2>2. CASE n # m
    <3>1. n \in 1 .. m - 1 /\ d[n] = data[Position(back', n)]
      BY <1>9, <1>11, <1>12, <2>2
    <3>2. data'[Position(back', n)] = data[Position(back', n)]
      BY <1>1, <1>2, <1>10, <3>1
    <3> QED
      BY <1>1, <1>10, <3>1, <3>2
  <2> QED
    BY <2>1, <2>2
<1> HIDE DEF d
<1>14. InRing' \in Seq(V) /\ Len(InRing') = m /\ \A n \in 1 .. m : InRing'[n] = d[n]
  BY <1>3, <1>11, <1>13, InRingNext
<1>15. InRing' = d
  BY <1>12, <1>14, SequencesEqual
<1>16. DequeNext(InRing, InRing')
  BY <1>1, <1>2, <1>15 DEF DequeNext, c, d
<1> QED
  BY <1>8, <1>16 DEF RingStepRight

LEMMA WriteBackRight ==
  ASSUME RingInv, NEW v \in Values, WriteBack(v) PROVE RingStepRight
<1> DEFINE V == Values \cup {NoValue}
           full == RingLength = RingCapacity
           c == IF full THEN SubSeq(InRing, 1, RingCapacity - 1) ELSE InRing
           d == <<v>> \o c
           m == IF full THEN RingLength ELSE RingLength + 1
<1>1. /\ InRing \in Seq(V) /\ Len(InRing) = RingLength
      /\ \A n \in 1 .. RingLength : InRing[n] = data[Position(back, n)]
      /\ RingLength \in 0 .. RingCapacity /\ validBlocks = RingCapacity - RingLength
      /\ (validBlocks = 0 <=> full)
      /\ RingCapacity \in Nat \ {0} /\ back \in Block /\ front \in Block
      /\ front = Position(back, RingLength + 1) /\ data \in [Block -> V]
  BY InRingIs, CapacityIsNat DEF RingInv
<1>2. /\ data' = [data EXCEPT ![prev[back]] = v] /\ back' = prev[back] /\ lastRead' = NoValue
      /\ prev' = prev /\ nextBlock' = nextBlock
      /\ full => front' = prev[front] /\ validBlocks' = validBlocks
      /\ ~full => validBlocks' = validBlocks - 1 /\ front' = front
  BY <1>1 DEF WriteBack, FrontGivesWay
<1>3. RingLength' = m /\ m \in 1 .. RingCapacity /\ validBlocks' \in 0 .. RingCapacity
  BY <1>1, <1>2 DEF RingLength
<1>4. /\ back' \in Block /\ front' \in Block /\ data' \in [Block -> V]
  BY <1>1, <1>2, Links
<1>5. /\ Position(back', 1) = back'
      /\ \A n \in 1 .. RingCapacity : Position(back', n + 1) = Position(back, n)
  BY <1>1, <1>2, <1>4, Links, Positions
<1>6. front' = Position(back', m + 1)
  <2>1. CASE full
    <3>1. front' = Position(back, RingCapacity)
      BY <1>1, <1>2, <2>1, Links
    <3> QED
      BY <1>1, <1>5, <2>1, <3>1
  <2>2. CASE ~full
    BY <1>1, <1>2, <1>3, <1>5, <2>2
  <2> QED
    BY <2>1, <2>2
<1>7. RingInv'
  BY <1>2, <1>3, <1>4, <1>6 DEF RingInv, Block, Position
<1>8. /\ c \in Seq(V) /\ Len(c) = m - 1
      /\ \A n \in 1 .. m - 1 : c[n] = InRing[n] /\ n \in 1 .. RingLength
  BY <1>1
<1> HIDE DEF c, m
<1>9. m \in Nat /\ m >= 1 /\ \A n \in 1 .. m : n # 1 => n - 1 \in 1 .. m - 1 /\ (n - 1) + 1 = n
  BY <1>3
<1>10. d \in Seq(V) /\ Len(d) = m /\ d[1] = v /\ \A n \in 1 .. m : n # 1 => d[n] = c[n - 1]
  BY <1>8, <1>9
<1> HIDE DEF d
<1>11. \A n \in 1 .. m : data'[Position(back', n)] = d[n] /\ d[n] \in V
  <2> SUFFICES ASSUME NEW n \in 1 .. m PROVE data'[Position(back', n)] = d[n] /\ d[n] \in V
    OBVIOUS
  <2>1. CASE n = 1
    BY <1>1, <1>2, <1>4, <1>5, <1>10, <2>1
  <2>2. CASE n # 1
    <3>1. /\ n - 1 \in 1 .. RingLength /\ n - 1 \in 1 .. RingCapacity
          /\ d[n] = data[Position(back, n - 1)]
      <4>1. n - 1 \in 1 .. m - 1 /\ d[n] = c[n - 1]
        BY <1>9, <1>10, <2>2
      <4>2. n - 1 \in 1 .. RingLength /\ c[n - 1] = InRing[n - 1]
        BY <1>8, <4>1
      <4>3. n - 1 \in 1 .. RingCapacity
        BY <1>1, <4>2
      <4> QED
        BY <1>1, <4>1, <4>2, <4>3
    <3>2. Position(back', n) = Position(back, n - 1)
      BY <1>5, <1>9, <2>2, <3>1
    <3>3. Position(back', n) # Position(back', 1) /\ Position(back', n) \in Block
      <4>1. 1 \in 1 .. RingCapacity /\ n \in 1 .. RingCapacity
        BY <1>1, <1>3
      <4>2. \A k \in 1 .. RingCapacity : Position(back', k) \in Block
        BY <1>1, <1>4, Positions
      <4>3. \A j, k \in 1 .. RingCapacity : Position(back', j) = Position(back', k) => j = k
        BY <1>4, Positions
      <4> QED
        BY <2>2, <4>1, <4>2, <4>3
    <3>4. data'[Position(back', n)] = data[Position(back', n)]
      BY <1>1, <1>2, <1>5, <3>3
    <3> QED
      BY <1>1, <3>1, <3>2, <3>3, <3>4
  <2> QED
    BY <2>1, <2>2
<1>12. InRing' \in Seq(V) /\ Len(InRing') = m /\ \A n \in 1 .. m : InRing'[n] = d[n]
  BY <1>3, <1>9, <1>11, InRingNext
<1>13. InRing' = d
  BY <1>10, <1>12, SequencesEqual
<1>14. DequeNext(InRing, InRing')
  BY <1>1, <1>2, <1>13 DEF DequeNext, c, d
<1> QED
  BY <1>7, <1>14 DEF RingStepRight

LEMMA ReadBackRight ==
  ASSUME RingInv, ReadBack PROVE RingStepRight
<1> DEFINE V == Values \cup {NoValue}
           d == Tail(InRing)
           m == RingLength - 1
<1>1. /\ InRing \in Seq(V) /\ Len(InRing) = RingLength
      /\ \A n \in 1 .. RingLength : InRing[n] = data[Position(back, n)]
      /\ RingLength \in 1 .. RingCapacity /\ validBlocks = RingCapacity - RingLength
      /\ RingCapacity \in Nat \ {0} /\ back \in Block /\ front \in Block
      /\ front = Position(back, RingLength + 1) /\ data \in [Block -> V]
  BY InRingIs, CapacityIsNat DEF RingInv, ReadBack
<1>2. /\ data' = data /\ back' = nextBlock[back] /\ lastRead' = data[back] /\ front' = front
      /\ prev' = prev /\ nextBlock' = nextBlock /\ validBlocks' = validBlocks + 1
  BY DEF ReadBack
<1>3. RingLength' = m /\ m \in 0 .. RingCapacity - 1 /\ validBlocks' \in 0 .. RingCapacity
  BY <1>1, <1>2 DEF RingLength
<1>4. back' \in Block /\ \A n \in 1 .. RingCapacity : Position(back', n) = Position(back, n + 1)
  BY <1>1, <1>2, Links
<1>5. front' = Position(back', m + 1)
  BY <1>1, <1>2, <1>3, <1>4
<1>6. RingInv'
  BY <1>1, <1>2, <1>3, <1>4, <1>5 DEF RingInv, Block, Position
<1>7. /\ d \in Seq(V) /\ Len(d) = m /\ InRing # <<>> /\ Head(InRing) = InRing[1]
      /\ \A n \in 1 .. m : d[n] = InRing[n + 1] /\ n + 1 \in 1 .. RingLength
  BY <1>1
<1> HIDE DEF d
<1>8. \A n \in 1 .. m : data'[Position(back', n)] = d[n] /\ d[n] \in V
  <2>1. \A n \in 1 .. m : Position(back', n) = Position(back, n + 1)
    BY <1>1, <1>4
  <2>2. \A n \in 1 .. RingLength : data[Position(back, n)] \in V
    BY <1>1, Positions
  <2> QED
    BY <1>1, <1>2, <1>7, <2>1, <2>2
<1> HIDE DEF m
<1>9. InRing' \in Seq(V) /\ Len(InRing') = m /\ \A n \in 1 .. m : InRing'[n] = d[n]
  BY <1>3, <1>8, InRingNext
<1>10. InRing' = d
  BY <1>7, <1>9, SequencesEqual
<1>11. lastRead' = Head(InRing)
  BY <1>1, <1>2, <1>7, Positions
<1>12. DequeNext(InRing, InRing')
  BY <1>7, <1>10, <1>11 DEF DequeNext, d
<1> QED
  BY <1>6, <1>12 DEF RingStepRight

LEMMA ReadFrontRight ==
  ASSUME RingInv, ReadFront PROVE RingStepRight
<1> DEFINE V == Values \cup {NoValue}
           d == SubSeq(InRing, 1, Len(InRing) - 1)
           m == RingLength - 1
<1>1. /\ InRing \in Seq(V) /\ Len(InRing) = RingLength
      /\ \A n \in 1 .. RingLength : InRing[n] = data[Position(back, n)]
      /\ RingLength \in 1 .. RingCapacity /\ validBlocks = RingCapacity - RingLength
      /\ RingCapacity \in Nat \ {0} /\ back \in Block /\ front \in Block
      /\ front = Position(back, RingLength + 1) /\ data \in [Block -> V]
  BY InRingIs, CapacityIsNat DEF RingInv, ReadFront
<1>2. /\ data' = data /\ back' = back /\ lastRead' = data[prev[front]] /\ front' = prev[front]
      /\ prev' = prev /\ nextBlock' = nextBlock /\ validBlocks' = validBlocks + 1
  BY DEF ReadFront
<1>3. RingLength' = m /\ m \in 0 .. RingCapacity - 1 /\ validBlocks' \in 0 .. RingCapacity
  BY <1>1, <1>2 DEF RingLength
<1>4. front' = Position(back, RingLength) /\ front' \in Block /\ RingLength = m + 1
  <2>1. prev[Position(back, RingLength + 1)] = Position(back, RingLength) /\ prev[front] \in Block
    BY <1>1, Links
  <2> QED
    BY <1>1, <1>2, <2>1
<1>5. RingInv'
  <2>1. front' = Position(back', RingLength' + 1)
    BY <1>2, <1>3, <1>4
  <2> HIDE DEF m
  <2> QED
    BY <1>1, <1>2, <1>3, <1>4, <2>1 DEF RingInv, Block, Position
<1>6. /\ d \in Seq(V) /\ Len(d) = m /\ InRing # <<>>
      /\ \A n \in 1 .. m : d[n] = InRing[n] /\ n \in 1 .. RingLength
  BY <1>1
<1> HIDE DEF d
<1>7. \A n \in 1 .. m : data'[Position(back', n)] = d[n] /\ d[n] \in V
  BY <1>1, <1>2, <1>6
<1> HIDE DEF m
<1>8. InRing' \in Seq(V) /\ Len(InRing') = m /\ \A n \in 1 .. m : InRing'[n] = d[n]
  BY <1>3, <1>7, InRingNext
<1>9. InRing' = d
  BY <1>6, <1>8, SequencesEqual
<1>10. lastRead' = InRing[Len(InRing)]
  BY <1>1, <1>2, <1>4
<1>11. DequeNext(InRing, InRing')
  BY <1>6, <1>9, <1>10 DEF DequeNext, d
<1> QED
  BY <1>5, <1>11 DEF RingStepRight

LEMMA ReadNothingRight ==
  ASSUME RingInv, ReadNothing PROVE RingStepRight
<1>1. Len(InRing) = 0 /\ InRing \in Seq(Values \cup {NoValue}) /\ RingLength = 0
  BY InRingIs DEF ReadNothing
<1>2. InRing' = InRing /\ InRing = <<>>
  BY <1>1 DEF ReadNothing, InRing, RingLength, Position
<1>3. RingInv'
  BY DEF ReadNothing, RingInv, RingLength, Position
<1> QED
  BY <1>2, <1>3 DEF ReadNothing, DequeNext, RingStepRight

LEMMA RingStep == RingInv /\ RingNext => RingStepRight
BY ReadNothingRight, ReadBackRight, ReadFrontRight, WriteFrontRight, WriteBackRight DEF RingNext

(* Every step of the ring buffer of memory/, whatever the number of blocks, is a step  *)
(* of a bounded deque, by the blocks that a walk along the links passes.               *)
THEOREM RingRefinesDeque == RingSpec => RingIsDeque
<1>1. RingInv /\ [RingNext]_ringVars => RingInv'
  <2>1. RingInv /\ UNCHANGED ringVars => RingInv'
    BY DEF ringVars, RingInv, RingLength, Position
  <2> QED
    BY <2>1, RingStep DEF RingStepRight
<1>2. RingInv => RingContents = InRing
  BY ContentsAre
<1>3. RingInv' => RingContents' = InRing'
  <2>1. (RingInv => RingContents = InRing)'
    BY <1>2, PTL
  <2> QED
    BY <2>1
<1>4. RingInv /\ RingInv' /\ [RingNext]_ringVars => [Deque!Next]_<<RingContents, lastRead>>
  <2> SUFFICES ASSUME RingInv, RingInv', [RingNext]_ringVars
               PROVE  [Deque!Next]_<<RingContents, lastRead>>
    OBVIOUS
  <2>1. RingContents = InRing /\ RingContents' = InRing'
    BY <1>2, <1>3
  <2>2. CASE RingNext
    <3>1. DequeNext(RingContents, RingContents')
      BY <2>1, <2>2, RingStep DEF RingStepRight
    <3> QED
      BY <3>1 DEF DequeNext, Deque!Next, Deque!PopBack, Deque!PopFront, Deque!PushBack,
                  Deque!PushFront, Deque!Full
  <2>3. CASE UNCHANGED ringVars
    BY <2>3 DEF ringVars, RingContents, Walk, RingLength
  <2> QED
    BY <2>2, <2>3
<1> QED
  BY <1>1, <1>4, RingStart, PTL DEF RingSpec, RingIsDeque, Deque!Spec

-----------------------------------------------------------------------------
(* Recursion over numbers: applying a step again and again makes a function. *)
Steps(g, n, S, x, F) ==
  g \in [0 .. n -> S] /\ g[0] = x /\ \A i \in 1 .. n : g[i] = F[<<i, g[i - 1]>>]

LEMMA StepsExist ==
  ASSUME NEW n \in Nat, NEW S, NEW x \in S, NEW F \in [(1 .. n) \X S -> S]
  PROVE  \E g : Steps(g, n, S, x, F)
<1> DEFINE Upto(g, k) == /\ g \in [0 .. n -> S] /\ g[0] = x
                         /\ \A i \in 1 .. k : g[i] = F[<<i, g[i - 1]>>]
           T == {k \in 0 .. n : ~ \E g : Upto(g, k)}
<1>1. T = {}
  <2> SUFFICES ASSUME T # {} PROVE FALSE
    OBVIOUS
  <2>1. PICK k \in T : \A y \in T : k <= y
    <3>1. T \subseteq Nat
      OBVIOUS
    <3> HIDE DEF T
    <3> QED
      BY <3>1, LeastElement
  <2>2. k # 0
    <3>1. Upto([i \in 0 .. n |-> x], 0)
      OBVIOUS
    <3> QED
      BY <3>1
  <2>3. k - 1 \in 0 .. n /\ k - 1 \notin T /\ k \in 1 .. n
    <3>1. k \in 1 .. n /\ k - 1 \in 0 .. n
      <4>1. k \in 0 .. n
        BY <2>1
      <4> QED
        BY <2>2, <4>1
    <3> HIDE DEF T
    <3> QED
      BY <2>1, <3>1
  <2>4. PICK g : Upto(g, k - 1)
    BY <2>3
  <2> DEFINE g2 == [g EXCEPT ![k] = F[<<k, g[k - 1]>>]]
  <2>5. g[k - 1] \in S /\ F[<<k, g[k - 1]>>] \in S
    BY <2>3, <2>4
  <2>6. g2 \in [0 .. n -> S] /\ g2[k] = F[<<k, g[k - 1]>>] /\ \A i \in 0 .. n : i # k => g2[i] = g[i]
    BY <2>3, <2>4, <2>5
  <2> HIDE DEF g2
  <2>7. Upto(g2, k)
    <3> SUFFICES ASSUME NEW i \in 1 .. k PROVE g2[i] = F[<<i, g2[i - 1]>>]
      BY <2>3, <2>4, <2>6
    <3>1. i \in 0 .. n /\ i - 1 \in 0 .. n /\ g2[i - 1] = g[i - 1]
      BY <2>3, <2>6
    <3>2. CASE i = k
      BY <2>6, <3>1, <3>2
    <3>3. CASE i # k
      BY <2>3, <2>4, <2>6, <3>1, <3>3
    <3> QED
      BY <3>2, <3>3
  <2> QED
    BY <2>1, <2>7
<1>2. n \in 0 .. n /\ n \notin T
  <2> HIDE DEF T
  <2> QED
    BY <1>1
<1>3. PICK g : Upto(g, n)
  BY <1>2
<1> QED
  BY <1>3 DEF Steps

(* Chains: the sequences c of members of X that links make, headed by those of head,
   with Z for no member.  Each member is in one of them at most, and once. *)
Apart(c, B) ==
  \A b, d \in B : \A n \in 1 .. Len(c[b]), m \in 1 .. Len(c[d]) : c[b][n] = c[d][m] => b = d /\ n = m

Follow(s, first, next, pred, Z) ==
  /\ first = IF Len(s) = 0 THEN Z ELSE s[1]
  /\ \A n \in 1 .. Len(s) : /\ next[s[n]] = IF n = Len(s) THEN Z ELSE s[n + 1]
                            /\ pred[s[n]] = IF n = 1 THEN Z ELSE s[n - 1]

Chains(c, B, X, Z, head, next, pred) ==
  /\ Z \notin X /\ c \in [B -> Seq(X)] /\ Apart(c, B)
  /\ \A b \in B : Follow(c[b], head[b], next, pred, Z)

In(s, x) == \E n \in 1 .. Len(s) : s[n] = x
InOne(c, B, x) == \E b \in B : In(c[b], x)

(* The sequences c, with s in the place of b. *)
ButFor(c2, c, B, b, s) == c2 = [d \in B |-> IF d = b THEN s ELSE c[d]]

Front(x, s) == [n \in 1 .. Len(s) + 1 |-> IF n = 1 THEN x ELSE s[n - 1]]

LEMMA FrontIs ==
  ASSUME NEW X, NEW s \in Seq(X), NEW x \in X
  PROVE  /\ Front(x, s) \in Seq(X) /\ Len(Front(x, s)) = Len(s) + 1 /\ Front(x, s)[1] = x
         /\ \A n \in 2 .. Len(s) + 1 : Front(x, s)[n] = s[n - 1]
BY DEF Front

LEMMA FrontIn ==
  ASSUME NEW X, NEW s \in Seq(X), NEW x \in X, NEW y
  PROVE  In(Front(x, s), y) <=> y = x \/ In(s, y)
<1>0. /\ Front(x, s) \in Seq(X) /\ Len(Front(x, s)) = Len(s) + 1 /\ Front(x, s)[1] = x
      /\ \A n \in 2 .. Len(s) + 1 : Front(x, s)[n] = s[n - 1]
  BY FrontIs
<1>1. ASSUME NEW n \in 1 .. Len(s), s[n] = y PROVE In(Front(x, s), y)
  <2>0. n + 1 \in 2 .. Len(s) + 1 /\ n + 1 - 1 = n /\ n + 1 \in 1 .. Len(s) + 1
    OBVIOUS
  <2>1. Front(x, s)[n + 1] = y
    BY <1>0, <1>1, <2>0
  <2> QED
    BY <1>0, <2>0, <2>1 DEF In
<1>2. In(Front(x, s), x)
  <2>1. 1 \in 1 .. Len(s) + 1
    OBVIOUS
  <2> QED
    BY <1>0, <2>1 DEF In
<1>3. ASSUME NEW n \in 1 .. Len(s) + 1, Front(x, s)[n] = y PROVE y = x \/ In(s, y)
  <2>1. CASE n = 1
    BY <1>0, <1>3, <2>1
  <2>2. CASE n # 1
    <3>1. n - 1 \in 1 .. Len(s) /\ s[n - 1] = y
      BY <1>0, <1>3, <2>2
    <3> QED
      BY <3>1 DEF In
  <2> QED
    BY <2>1, <2>2
<1> QED
  BY <1>0, <1>1, <1>2, <1>3 DEF In

LEMMA DropIs ==
  ASSUME NEW X, NEW s \in Seq(X), NEW p \in 1 .. Len(s)
  PROVE  /\ Drop(s, p) \in Seq(X) /\ Len(Drop(s, p)) = Len(s) - 1
         /\ \A n \in 1 .. Len(s) - 1 : Drop(s, p)[n] = IF n < p THEN s[n] ELSE s[n + 1]
<1>1. Drop(s, p) \in Seq(X) /\ Len(Drop(s, p)) = Len(s) - 1
  BY DEF Drop
<1> QED
  BY <1>1 DEF Drop

(* A member that is in no chain is put in front of the chain of b: the links. *)
Fronted(B, X, Z, b, x, head, next, pred, head2, next2, pred2) ==
  /\ head2[b] = x /\ \A d \in B : d # b => head2[d] = head[d]
  /\ next2[x] = head[b] /\ \A y \in X : y # x => next2[y] = next[y]
  /\ pred2[x] = Z /\ \A y \in X : y # x => pred2[y] = IF y = head[b] THEN x ELSE pred[y]

LEMMA FrontChains ==
  ASSUME NEW B, NEW X, NEW Z, NEW c, NEW head, NEW next, NEW pred,
         Chains(c, B, X, Z, head, next, pred),
         NEW b \in B, NEW x \in X, ~InOne(c, B, x), NEW head2, NEW next2, NEW pred2,
         NEW c2, ButFor(c2, c, B, b, Front(x, c[b])),
         Fronted(B, X, Z, b, x, head, next, pred, head2, next2, pred2)
  PROVE  Chains(c2, B, X, Z, head2, next2, pred2)
<1> DEFINE s == c[b]
           s2 == Front(x, s)
<1>0. /\ head2[b] = x /\ \A d \in B : d # b => head2[d] = head[d]
      /\ next2[x] = head[b] /\ \A y \in X : y # x => next2[y] = next[y]
      /\ pred2[x] = Z /\ \A y \in X : y # x => pred2[y] = IF y = head[b] THEN x ELSE pred[y]
  BY DEF Fronted
<1>1. /\ Z \notin X /\ c \in [B -> Seq(X)] /\ Apart(c, B) /\ s \in Seq(X)
      /\ \A d \in B : Follow(c[d], head[d], next, pred, Z)
  BY DEF Chains
<1>2. /\ s2 \in Seq(X) /\ Len(s2) = Len(s) + 1 /\ s2[1] = x
      /\ \A n \in 2 .. Len(s) + 1 : s2[n] = s[n - 1]
  <2> HIDE DEF s
  <2>1. s \in Seq(X) /\ x \in X
    BY <1>1
  <2> QED
    BY <2>1, FrontIs
<1>3. c2 \in [B -> Seq(X)] /\ c2[b] = s2 /\ \A d \in B : d # b => c2[d] = c[d]
  BY <1>1, <1>2 DEF ButFor
<1> HIDE DEF s, s2
<1>4. Len(s) \in Nat /\ \A n \in 1 .. Len(s) : s[n] \in X /\ s[n] # x
  BY <1>1 DEF InOne, In, s
<1>5. Follow(s2, head2[b], next2, pred2, Z)
  <2>1. Follow(s, head[b], next, pred, Z)
    BY <1>1 DEF s
  <2> SUFFICES ASSUME NEW n \in 1 .. Len(s) + 1
               PROVE  /\ next2[s2[n]] = IF n = Len(s) + 1 THEN Z ELSE s2[n + 1]
                      /\ pred2[s2[n]] = IF n = 1 THEN Z ELSE s2[n - 1]
    BY <1>0, <1>2, <1>4 DEF Follow
  <2>2. CASE n = 1
    <3>1. head[b] = IF Len(s) = 0 THEN Z ELSE s[1]
      BY <2>1 DEF Follow
    <3>2. Len(s) # 0 => s2[2] = s[1]
      <4>1. Len(s) # 0 => 2 \in 2 .. Len(s) + 1
        BY <1>4
      <4>2. Len(s) # 0 => s2[2] = s[2 - 1]
        BY <1>2, <4>1
      <4> QED
        BY <4>2
    <3> QED
      BY <1>0, <1>2, <1>4, <2>2, <3>1, <3>2
  <2>3. CASE n # 1
    <3>1. n - 1 \in 1 .. Len(s) /\ s2[n] = s[n - 1] /\ (n # Len(s) + 1 => s2[n + 1] = s[n])
      <4>1. n \in 2 .. Len(s) + 1 /\ n - 1 \in 1 .. Len(s)
        BY <1>4, <2>3
      <4>2. n # Len(s) + 1 => n + 1 \in 2 .. Len(s) + 1 /\ n + 1 - 1 = n
        BY <1>4
      <4> QED
        BY <1>2, <4>1, <4>2
    <3>2. /\ next[s[n - 1]] = IF n - 1 = Len(s) THEN Z ELSE s[n]
          /\ pred[s[n - 1]] = IF n - 1 = 1 THEN Z ELSE s[n - 2]
      BY <2>1, <3>1 DEF Follow
    <3>3. next2[s2[n]] = next[s[n - 1]]
      BY <1>0, <1>4, <3>1
    <3>4. pred2[s2[n]] = s2[n - 1]
      <4>1. CASE n = 2
        <5>1. head[b] = s[1]
          BY <1>4, <2>1, <3>1, <4>1 DEF Follow
        <5> QED
          BY <1>0, <1>2, <1>4, <3>1, <4>1, <5>1
      <4>2. CASE n # 2
        <5>1. n - 2 \in 1 .. Len(s) /\ s2[n - 1] = s[n - 2] /\ n - 1 # 1
          BY <1>2, <1>4, <2>3, <4>2
        <5>2. s[n - 1] # s[1] /\ Len(s) # 0
          BY <1>1, <1>4, <3>1, <5>1 DEF Apart, s
        <5>3. s[n - 1] # head[b]
          BY <2>1, <5>2 DEF Follow
        <5> QED
          BY <1>0, <1>4, <3>1, <3>2, <5>1, <5>3
      <4> QED
        BY <4>1, <4>2
    <3> QED
      BY <1>4, <2>3, <3>1, <3>2, <3>3, <3>4
  <2> QED
    BY <2>2, <2>3
<1>6. ASSUME NEW d \in B, d # b PROVE Follow(c[d], head2[d], next2, pred2, Z)
  <2>1. Follow(c[d], head[d], next, pred, Z) /\ Follow(s, head[b], next, pred, Z)
    BY <1>1 DEF s
  <2>2. \A n \in 1 .. Len(c[d]) : c[d][n] \in X /\ c[d][n] # x /\ c[d][n] # head[b]
    <3> SUFFICES ASSUME NEW n \in 1 .. Len(c[d]), c[d][n] = head[b] PROVE FALSE
      BY <1>1 DEF InOne, In
    <3>1. c[d][n] \in X
      BY <1>1
    <3>2. Len(s) # 0 /\ c[d][n] = s[1]
      BY <1>1, <2>1, <3>1 DEF Follow
    <3> QED
      BY <1>1, <1>4, <1>6, <3>2 DEF Apart, s
  <2>3. head2[d] = head[d]
    BY <1>0, <1>6
  <2> QED
    BY <1>0, <2>1, <2>2, <2>3 DEF Follow
<1>7. Apart(c2, B)
  <2> SUFFICES ASSUME NEW d \in B, NEW e \in B, NEW n \in 1 .. Len(c2[d]), NEW m \in 1 .. Len(c2[e]),
                      c2[d][n] = c2[e][m]
               PROVE  d = e /\ n = m
    BY DEF Apart
  <2>1. \A k \in B : \A l \in 1 .. Len(c2[k]) :
          \/ k = b /\ l = 1 /\ c2[k][l] = x
          \/ k = b /\ l - 1 \in 1 .. Len(c[k]) /\ c2[k][l] = c[k][l - 1] /\ c2[k][l] # x
          \/ k # b /\ l \in 1 .. Len(c[k]) /\ c2[k][l] = c[k][l] /\ c2[k][l] # x
    <3> SUFFICES ASSUME NEW k \in B, NEW l \in 1 .. Len(c2[k])
                 PROVE  \/ k = b /\ l = 1 /\ c2[k][l] = x
                        \/ k = b /\ l - 1 \in 1 .. Len(c[k]) /\ c2[k][l] = c[k][l - 1] /\ c2[k][l] # x
                        \/ k # b /\ l \in 1 .. Len(c[k]) /\ c2[k][l] = c[k][l] /\ c2[k][l] # x
      OBVIOUS
    <3>1. CASE k # b
      BY <1>3, <3>1 DEF InOne, In
    <3>2. CASE k = b /\ l = 1
      BY <1>2, <1>3, <3>2
    <3>3. CASE k = b /\ l # 1
      <4>1. l - 1 \in 1 .. Len(s) /\ c2[k][l] = s[l - 1]
        BY <1>2, <1>3, <1>4, <3>3
      <4> QED
        BY <1>4, <3>3, <4>1 DEF s
    <3> QED
      BY <3>1, <3>2, <3>3
  <2>2. n \in Nat /\ m \in Nat
    BY <1>3
  <2>3. CASE c2[d][n] = x
    <3>1. d = b /\ n = 1
      BY <2>1, <2>3
    <3>2. e = b /\ m = 1
      BY <2>1, <2>3
    <3> QED
      BY <3>1, <3>2
  <2>4. CASE c2[d][n] # x
    <3>1. \/ d = b /\ n - 1 \in 1 .. Len(c[d]) /\ c2[d][n] = c[d][n - 1]
          \/ d # b /\ n \in 1 .. Len(c[d]) /\ c2[d][n] = c[d][n]
      BY <2>1, <2>4
    <3>2. \/ e = b /\ m - 1 \in 1 .. Len(c[e]) /\ c2[e][m] = c[e][m - 1]
          \/ e # b /\ m \in 1 .. Len(c[e]) /\ c2[e][m] = c[e][m]
      BY <2>1, <2>4
    <3>3. \A k \in 1 .. Len(c[d]), l \in 1 .. Len(c[e]) : c[d][k] = c[e][l] => d = e /\ k = l
      BY <1>1 DEF Apart
    <3> QED
      BY <2>2, <3>1, <3>2, <3>3
  <2> QED
    BY <2>3, <2>4
<1>8. \A d \in B : Follow(c2[d], head2[d], next2, pred2, Z)
  BY <1>3, <1>5, <1>6
<1> QED
  BY <1>1, <1>3, <1>7, <1>8 DEF Chains

(* The p-th member of a chain is taken out of it: the links go past it. *)
Passed(B, X, Z, b, x, head, next, pred, head2, next2, pred2) ==
  /\ head2[b] = IF pred[x] = Z THEN next[x] ELSE head[b]
  /\ \A d \in B : d # b => head2[d] = head[d]
  /\ \A y \in X : y # x => next2[y] = IF y = pred[x] THEN next[x] ELSE next[y]
  /\ \A y \in X : y # x => pred2[y] = IF y = next[x] THEN pred[x] ELSE pred[y]

LEMMA DropChains ==
  ASSUME NEW B, NEW X, NEW Z, NEW c, NEW head, NEW next, NEW pred,
         Chains(c, B, X, Z, head, next, pred),
         NEW b \in B, NEW p \in 1 .. Len(c[b]), NEW c2, ButFor(c2, c, B, b, Drop(c[b], p)),
         NEW head2, NEW next2, NEW pred2,
         Passed(B, X, Z, b, c[b][p], head, next, pred, head2, next2, pred2)
  PROVE  Chains(c2, B, X, Z, head2, next2, pred2)
<1> DEFINE x == c[b][p]
<1>0. /\ head2[b] = IF pred[x] = Z THEN next[x] ELSE head[b]
      /\ \A d \in B : d # b => head2[d] = head[d]
      /\ \A y \in X : y # x => next2[y] = IF y = pred[x] THEN next[x] ELSE next[y]
      /\ \A y \in X : y # x => pred2[y] = IF y = next[x] THEN pred[x] ELSE pred[y]
  BY DEF Passed
<1> DEFINE s == c[b]
           s2 == Drop(s, p)
           Was(n) == IF n < p THEN n ELSE n + 1
<1>1. /\ Z \notin X /\ c \in [B -> Seq(X)] /\ Apart(c, B) /\ s \in Seq(X)
      /\ \A d \in B : Follow(c[d], head[d], next, pred, Z)
  BY DEF Chains
<1>2. /\ s2 \in Seq(X) /\ Len(s2) = Len(s) - 1
      /\ \A n \in 1 .. Len(s) - 1 : s2[n] = IF n < p THEN s[n] ELSE s[n + 1]
  <2> HIDE DEF s
  <2>1. s \in Seq(X) /\ p \in 1 .. Len(s)
    BY <1>1 DEF s
  <2> QED
    BY <2>1, DropIs
<1>3. c2 \in [B -> Seq(X)] /\ c2[b] = s2 /\ \A d \in B : d # b => c2[d] = c[d]
  BY <1>1, <1>2 DEF ButFor
<1>4. p \in 1 .. Len(s) /\ x = s[p]
  OBVIOUS
<1> HIDE DEF x
<1>5. Follow(s, head[b], next, pred, Z)
  BY <1>1
<1>6. \A n, m \in 1 .. Len(s) : s[n] = s[m] => n = m
  BY <1>1 DEF Apart
<1>7. \A d \in B : d # b => \A n \in 1 .. Len(c[d]), m \in 1 .. Len(s) : c[d][n] # s[m]
  BY <1>1 DEF Apart
<1> HIDE DEF s, s2
<1>8. Len(s) \in Nat /\ p \in Nat /\ \A n \in 1 .. Len(s) : s[n] \in X /\ (n # p => s[n] # x)
  BY <1>1, <1>4, <1>6
<1>9. /\ next[x] = IF p = Len(s) THEN Z ELSE s[p + 1]
      /\ pred[x] = IF p = 1 THEN Z ELSE s[p - 1]
  BY <1>4, <1>5 DEF Follow
<1>10. \A n \in 1 .. Len(s) : (s[n] = pred[x] <=> n = p - 1) /\ (s[n] = next[x] <=> n = p + 1)
  <2> SUFFICES ASSUME NEW n \in 1 .. Len(s)
               PROVE  (s[n] = pred[x] <=> n = p - 1) /\ (s[n] = next[x] <=> n = p + 1)
    OBVIOUS
  <2>1. s[n] # Z /\ n \in Nat
    BY <1>1, <1>8
  <2>2. s[n] = pred[x] <=> n = p - 1
    <3>1. CASE p = 1
      BY <1>9, <2>1, <3>1
    <3>2. CASE p # 1
      <4>1. p - 1 \in 1 .. Len(s) /\ pred[x] = s[p - 1]
        BY <1>4, <1>8, <1>9, <3>2
      <4> QED
        BY <1>6, <4>1
    <3> QED
      BY <3>1, <3>2
  <2>3. s[n] = next[x] <=> n = p + 1
    <3>1. CASE p = Len(s)
      BY <1>8, <1>9, <2>1, <3>1
    <3>2. CASE p # Len(s)
      <4>1. p + 1 \in 1 .. Len(s) /\ next[x] = s[p + 1]
        BY <1>4, <1>8, <1>9, <3>2
      <4> QED
        BY <1>6, <4>1
    <3> QED
      BY <3>1, <3>2
  <2> QED
    BY <2>2, <2>3
<1>11. \A n \in 1 .. Len(s) - 1 : Was(n) \in 1 .. Len(s) /\ s2[n] = s[Was(n)] /\ Was(n) # p
  BY <1>2, <1>8
<1>12. Follow(s2, head2[b], next2, pred2, Z)
  <2>1. head2[b] = IF Len(s2) = 0 THEN Z ELSE s2[1]
    <3>1. CASE p = 1
      <4>1. pred[x] = Z /\ head2[b] = next[x]
        BY <1>0, <1>9, <3>1
      <4> QED
        BY <1>2, <1>4, <1>8, <1>9, <3>1, <4>1
    <3>2. CASE p # 1
      <4>1. p - 1 \in 1 .. Len(s) /\ pred[x] # Z
        BY <1>1, <1>4, <1>8, <1>9, <3>2
      <4>2. head2[b] = s[1]
        BY <1>0, <1>5, <1>8, <4>1 DEF Follow
      <4> QED
        BY <1>2, <1>4, <1>8, <3>2, <4>2
    <3> QED
      BY <3>1, <3>2
  <2> SUFFICES ASSUME NEW n \in 1 .. Len(s) - 1
               PROVE  /\ next2[s2[n]] = IF n = Len(s) - 1 THEN Z ELSE s2[n + 1]
                      /\ pred2[s2[n]] = IF n = 1 THEN Z ELSE s2[n - 1]
    BY <1>2, <2>1 DEF Follow
  <2>2. PICK m \in 1 .. Len(s) : m = (IF n < p THEN n ELSE n + 1) /\ s2[n] = s[m] /\ m # p
    BY <1>11
  <2>3. s[m] \in X /\ s[m] # x
    BY <1>8, <2>2
  <2>4. /\ next2[s[m]] = IF m = p - 1 THEN next[x] ELSE next[s[m]]
        /\ pred2[s[m]] = IF m = p + 1 THEN pred[x] ELSE pred[s[m]]
    BY <1>0, <1>10, <2>3
  <2>5. /\ next[s[m]] = IF m = Len(s) THEN Z ELSE s[m + 1]
        /\ pred[s[m]] = IF m = 1 THEN Z ELSE s[m - 1]
    BY <1>5 DEF Follow
  <2>6. n + 1 \in 1 .. Len(s) - 1 => s2[n + 1] = IF n + 1 < p THEN s[n + 1] ELSE s[n + 2]
    BY <1>2, <1>8
  <2>7. n - 1 \in 1 .. Len(s) - 1 => s2[n - 1] = IF n - 1 < p THEN s[n - 1] ELSE s[n]
    BY <1>2, <1>8
  <2>8. next2[s[m]] = IF n = Len(s) - 1 THEN Z ELSE s2[n + 1]
    <3>1. CASE m = p - 1
      <4>1. n = m /\ p = n + 1
        BY <1>8, <2>2, <3>1
      <4> QED
        <5>1. next2[s[m]] = IF n + 1 = Len(s) THEN Z ELSE s[n + 2]
          BY <1>8, <1>9, <2>4, <3>1, <4>1
        <5>2. n # Len(s) - 1 => s2[n + 1] = s[n + 2]
          BY <1>8, <2>6, <4>1
        <5> QED
          BY <1>8, <5>1, <5>2
    <3>2. CASE m # p - 1
      <4>1. next2[s[m]] = IF m = Len(s) THEN Z ELSE s[m + 1]
        BY <2>4, <2>5, <3>2
      <4>2. CASE n < p
        <5>1. m = n /\ n + 1 < p /\ n # Len(s) - 1 /\ m # Len(s)
          BY <1>4, <1>8, <2>2, <3>2, <4>2
        <5> QED
          BY <1>8, <2>6, <4>1, <5>1
      <4>3. CASE ~ (n < p)
        <5>1. m = n + 1 /\ ~ (n + 1 < p)
          BY <1>8, <2>2, <4>3
        <5> QED
          BY <1>8, <2>6, <4>1, <5>1
      <4> QED
        BY <4>2, <4>3
    <3> QED
      BY <3>1, <3>2
  <2>9. pred2[s[m]] = IF n = 1 THEN Z ELSE s2[n - 1]
    BY <1>8, <1>9, <2>2, <2>4, <2>5, <2>7
  <2> QED
    BY <2>2, <2>8, <2>9
<1>13. ASSUME NEW d \in B, d # b PROVE Follow(c[d], head2[d], next2, pred2, Z)
  <2>1. Follow(c[d], head[d], next, pred, Z) /\ head2[d] = head[d]
    BY <1>0, <1>1, <1>13
  <2>2. \A n \in 1 .. Len(c[d]) : c[d][n] \in X /\ c[d][n] # x /\ c[d][n] # Z
    BY <1>1, <1>4, <1>7, <1>13
  <2>3. \A n \in 1 .. Len(c[d]) : c[d][n] # pred[x] /\ c[d][n] # next[x]
    <3>1. p # 1 => p - 1 \in 1 .. Len(s)
      BY <1>4, <1>8
    <3>2. p # Len(s) => p + 1 \in 1 .. Len(s)
      BY <1>4, <1>8
    <3> QED
      BY <1>7, <1>9, <1>13, <2>2, <3>1, <3>2
  <2>4. \A n \in 1 .. Len(c[d]) : next2[c[d][n]] = next[c[d][n]] /\ pred2[c[d][n]] = pred[c[d][n]]
    BY <1>0, <2>2, <2>3
  <2> QED
    BY <2>1, <2>4 DEF Follow
<1>14. Apart(c2, B)
  <2> SUFFICES ASSUME NEW d \in B, NEW e \in B, NEW n \in 1 .. Len(c2[d]), NEW m \in 1 .. Len(c2[e]),
                      c2[d][n] = c2[e][m]
               PROVE  d = e /\ n = m
    BY DEF Apart
  <2>1. \A k \in B : \A l \in 1 .. Len(c2[k]) :
          \/ k = b /\ Was(l) \in 1 .. Len(c[k]) /\ c2[k][l] = c[k][Was(l)]
          \/ k # b /\ l \in 1 .. Len(c[k]) /\ c2[k][l] = c[k][l]
    <3> SUFFICES ASSUME NEW k \in B, NEW l \in 1 .. Len(c2[k])
                 PROVE  \/ k = b /\ Was(l) \in 1 .. Len(c[k]) /\ c2[k][l] = c[k][Was(l)]
                        \/ k # b /\ l \in 1 .. Len(c[k]) /\ c2[k][l] = c[k][l]
      OBVIOUS
    <3>1. CASE k # b
      BY <1>3, <3>1
    <3>2. CASE k = b
      BY <1>2, <1>3, <1>11, <3>2 DEF s
    <3> QED
      BY <3>1, <3>2
  <2>2. n \in Nat /\ m \in Nat /\ p \in Nat
    BY <1>3, <1>8
  <2>3. \/ d = b /\ Was(n) \in 1 .. Len(c[d]) /\ c2[d][n] = c[d][Was(n)]
        \/ d # b /\ n \in 1 .. Len(c[d]) /\ c2[d][n] = c[d][n]
    BY <2>1
  <2>4. \/ e = b /\ Was(m) \in 1 .. Len(c[e]) /\ c2[e][m] = c[e][Was(m)]
        \/ e # b /\ m \in 1 .. Len(c[e]) /\ c2[e][m] = c[e][m]
    BY <2>1
  <2>5. \A k \in 1 .. Len(c[d]), l \in 1 .. Len(c[e]) : c[d][k] = c[e][l] => d = e /\ k = l
    BY <1>1 DEF Apart
  <2>6. d = e /\ (n = m \/ Was(n) = Was(m))
    BY <2>3, <2>4, <2>5
  <2>7. Was(n) = Was(m) => n = m
    BY <2>2
  <2> QED
    BY <2>6, <2>7
<1>15. \A d \in B : Follow(c2[d], head2[d], next2, pred2, Z)
  BY <1>3, <1>12, <1>13
<1> QED
  BY <1>1, <1>3, <1>14, <1>15 DEF Chains

LEMMA DropIn ==
  ASSUME NEW X, NEW s \in Seq(X), NEW p \in 1 .. Len(s), NEW y
  PROVE  In(Drop(s, p), y) <=> \E n \in 1 .. Len(s) : n # p /\ s[n] = y
<1>1. /\ Len(Drop(s, p)) = Len(s) - 1 /\ Len(s) \in Nat
      /\ \A n \in 1 .. Len(s) - 1 : Drop(s, p)[n] = IF n < p THEN s[n] ELSE s[n + 1]
  BY DropIs
<1>2. ASSUME NEW n \in 1 .. Len(s) - 1, Drop(s, p)[n] = y
      PROVE  \E m \in 1 .. Len(s) : m # p /\ s[m] = y
  <2> DEFINE m == IF n < p THEN n ELSE n + 1
  <2>1. m \in 1 .. Len(s) /\ m # p /\ s[m] = y
    BY <1>1, <1>2
  <2> QED
    BY <2>1
<1>3. ASSUME NEW n \in 1 .. Len(s), n # p, s[n] = y
      PROVE  \E m \in 1 .. Len(s) - 1 : Drop(s, p)[m] = y
  <2> DEFINE m == IF n < p THEN n ELSE n - 1
  <2>1. m \in 1 .. Len(s) - 1 /\ (IF m < p THEN s[m] ELSE s[m + 1]) = s[n]
    BY <1>1, <1>3
  <2>2. Drop(s, p)[m] = y
    BY <1>1, <1>3, <2>1
  <2> QED
    BY <2>1, <2>2
<1> QED
  BY <1>1, <1>2, <1>3 DEF In

(* Following the links from the head is walking along the chain. *)
WalkEq(f, m, first, next, Z) ==
  f = [n \in 1 .. m |-> IF n = 1 THEN first ELSE IF f[n - 1] = Z THEN Z ELSE next[f[n - 1]]]

LEMMA WalkExists ==
  ASSUME NEW X, NEW Z, Z \notin X, NEW s \in Seq(X), NEW first, NEW next, NEW pred,
         Follow(s, first, next, pred, Z), NEW m \in Nat
  PROVE  WalkEq([n \in 1 .. m |-> IF n <= Len(s) THEN s[n] ELSE Z], m, first, next, Z)
<1> DEFINE g == [n \in 1 .. m |-> IF n <= Len(s) THEN s[n] ELSE Z]
<1>1. Len(s) \in Nat /\ \A n \in 1 .. Len(s) : s[n] \in X
  OBVIOUS
<1>2. /\ first = IF Len(s) = 0 THEN Z ELSE s[1]
      /\ \A n \in 1 .. Len(s) : next[s[n]] = IF n = Len(s) THEN Z ELSE s[n + 1]
  BY DEF Follow
<1>3. ASSUME NEW n \in 1 .. m
      PROVE  g[n] = IF n = 1 THEN first ELSE IF g[n - 1] = Z THEN Z ELSE next[g[n - 1]]
  <2>1. CASE n = 1
    BY <1>1, <1>2, <2>1
  <2>2. CASE n # 1
    <3>1. n - 1 \in 1 .. m /\ g[n - 1] = IF n - 1 <= Len(s) THEN s[n - 1] ELSE Z
      BY <2>2
    <3>2. CASE n - 1 <= Len(s)
      <4>1. n - 1 \in 1 .. Len(s) /\ g[n - 1] = s[n - 1] /\ g[n - 1] # Z
        BY <1>1, <3>1, <3>2
      <4>2. next[s[n - 1]] = IF n - 1 = Len(s) THEN Z ELSE s[n]
        BY <1>2, <4>1
      <4> QED
        BY <1>1, <2>2, <4>1, <4>2
    <3>3. CASE ~ (n - 1 <= Len(s))
      BY <1>1, <2>2, <3>1, <3>3
    <3> QED
      BY <3>2, <3>3
  <2> QED
    BY <2>1, <2>2
<1> QED
  BY <1>3 DEF WalkEq

LEMMA WalkUnique ==
  ASSUME NEW m \in Nat, NEW first, NEW next, NEW Z, NEW f, NEW g,
         WalkEq(f, m, first, next, Z), WalkEq(g, m, first, next, Z)
  PROVE  f = g
<1>1. /\ DOMAIN f = 1 .. m /\ DOMAIN g = 1 .. m
      /\ \A n \in 1 .. m : f[n] = IF n = 1 THEN first ELSE IF f[n - 1] = Z THEN Z ELSE next[f[n - 1]]
      /\ \A n \in 1 .. m : g[n] = IF n = 1 THEN first ELSE IF g[n - 1] = Z THEN Z ELSE next[g[n - 1]]
      /\ f = [n \in 1 .. m |-> f[n]] /\ g = [n \in 1 .. m |-> g[n]]
  BY DEF WalkEq
<1> DEFINE T == {n \in 1 .. m : f[n] # g[n]}
<1>2. T = {}
  <2> SUFFICES ASSUME T # {} PROVE FALSE
    OBVIOUS
  <2>1. PICK n \in T : \A y \in T : n <= y
    <3>1. T \subseteq Nat
      OBVIOUS
    <3> HIDE DEF T
    <3> QED
      BY <3>1, LeastElement
  <2>2. CASE n = 1
    BY <1>1, <2>2
  <2>3. CASE n # 1
    <3>1. n \in 1 .. m /\ n - 1 \in 1 .. m /\ f[n] # g[n]
      BY <2>3
    <3>2. n - 1 \notin T
      <4> HIDE DEF T
      <4> QED
        BY <2>1, <3>1
    <3>3. f[n - 1] = g[n - 1]
      BY <3>1, <3>2
    <3>4. /\ f[n] = IF f[n - 1] = Z THEN Z ELSE next[f[n - 1]]
          /\ g[n] = IF g[n - 1] = Z THEN Z ELSE next[g[n - 1]]
      BY <1>1, <2>3, <3>1
    <3> HIDE DEF T
    <3> QED
      BY <3>1, <3>3, <3>4
  <2> QED
    BY <2>2, <2>3
<1>3. \A n \in 1 .. m : f[n] = g[n]
  BY <1>2
<1>4. f = [n \in 1 .. m |-> f[n]] /\ g = [n \in 1 .. m |-> g[n]]
  BY <1>1
<1>5. [n \in 1 .. m |-> f[n]] = [n \in 1 .. m |-> g[n]]
  <2> HIDE DEF T
  <2> QED
    BY <1>3, Zenon
<1> QED
  BY <1>4, <1>5, Zenon

(* What is reached before the end of the walk is the chain. *)
WalkedTo(f, Z) == [n \in {m \in DOMAIN f : f[m] # Z} |-> f[n]]

LEMMA WalkIsChain ==
  ASSUME NEW X, NEW Z, Z \notin X, NEW s \in Seq(X), NEW first, NEW next, NEW pred,
         Follow(s, first, next, pred, Z), NEW m \in Nat, Len(s) <= m,
         NEW f, WalkEq(f, m, first, next, Z)
  PROVE  WalkedTo(f, Z) = s
<1> DEFINE g == [n \in 1 .. m |-> IF n <= Len(s) THEN s[n] ELSE Z]
<1>1. WalkEq(g, m, first, next, Z)
  BY WalkExists
<1>2. f = g
  <2> HIDE DEF g
  <2> QED
    BY <1>1, WalkUnique
<1>3. Len(s) \in Nat /\ (\A n \in 1 .. Len(s) : s[n] \in X) /\ s = [n \in 1 .. Len(s) |-> s[n]]
  OBVIOUS
<1>4. {n \in DOMAIN f : f[n] # Z} = 1 .. Len(s)
  BY <1>2, <1>3
<1>5. \A n \in 1 .. Len(s) : f[n] = s[n]
  BY <1>2, <1>3
<1> QED
  BY <1>3, <1>4, <1>5 DEF WalkedTo

LEMMA ChainLength ==
  ASSUME NEW B, NEW X, NEW Z, NEW c, NEW head, NEW next, NEW pred,
         Chains(c, B, X, Z, head, next, pred), NEW b \in B, IsFiniteSet(X)
  PROVE  Len(c[b]) <= Cardinality(X) /\ Cardinality(X) \in Nat
<1>1. c[b] \in Seq(X) /\ Apart(c, B)
  BY DEF Chains
<1> DEFINE D == 1 .. Len(c[b])
           g == [n \in D |-> c[b][n]]
<1>2. g \in Injection(D, X)
  BY <1>1 DEF Apart, Injection, IsInjective
<1>3. Len(c[b]) \in Nat
  BY <1>1
<1>4. Cardinality(D) = Len(c[b])
  <2>1. Cardinality(D) = IF 1 > Len(c[b]) THEN 0 ELSE Len(c[b]) - 1 + 1
    BY <1>3, FS_Interval
  <2> QED
    BY <1>3, <2>1
<1> HIDE DEF D, g
<1>5. Cardinality(D) <= Cardinality(X)
  BY <1>2, FS_Injection
<1> QED
  BY <1>4, <1>5, FS_CardinalityType

-----------------------------------------------------------------------------
(* The hash map. *)
NodeType == [key : MapKeys \cup {NULL}, value : MapValues \cup {NULL},
             nextNode : MapNode \cup {NULL}, prevNode : MapNode \cup {NULL}]
TableType(n) == [array : [0 .. n - 1 -> MapNode \cup {NULL}], node : [MapNode -> NodeType]]

Nexts(t) == [x \in MapNode |-> t.node[x].nextNode]
Prevs(t) == [x \in MapNode |-> t.node[x].prevNode]
ChainsOf(t, n, c) == Chains(c, 0 .. n - 1, MapNode, NULL, t.array, Nexts(t), Prevs(t))
Live(c, n) == {x \in MapNode : InOne(c, 0 .. n - 1, x)}

(* The members of a bucket hash to it, and no two have the same key. *)
Hashed(t, n, c) ==
  /\ \A b \in 0 .. n - 1 : \A x \in MapNode : In(c[b], x) => ReHashF(n, t.node[x].key) = b
  /\ \A x \in Live(c, n) : t.node[x].key \in MapKeys /\ t.node[x].value \in MapValues
  /\ \A x, y \in Live(c, n) : t.node[x].key = t.node[y].key => x = y

TableRight(t, n, c) == t \in TableType(n) /\ ChainsOf(t, n, c) /\ Hashed(t, n, c)

LEMMA MapConstants ==
  /\ MaxNodes \in Nat /\ MapNode \subseteq Nat /\ NULL \notin MapNode /\ NULL \notin MapKeys
  /\ NULL \notin MapValues /\ IsFiniteSet(MapNode) /\ Cardinality(MapNode) = MaxNodes
  /\ Buckets \in Nat \ {0} /\ Factor \in Nat \ {0}
  /\ \A k \in MapKeys, n \in Nat \ {0} : ReHashF(n, k) \in 0 .. n - 1
<1>1. MaxNodes \in Nat /\ Buckets \in Nat \ {0} /\ Factor \in Nat \ {0} /\ Hash \in [MapKeys -> Nat]
      /\ NULL \notin MapKeys \cup MapValues \cup Nat
  BY HashMapAssumption DEF HashMapAssumption
<1>2. IsFiniteSet(MapNode) /\ Cardinality(MapNode) = MaxNodes
  <2>1. /\ IsFiniteSet(1 .. MaxNodes)
        /\ Cardinality(1 .. MaxNodes) = IF 1 > MaxNodes THEN 0 ELSE MaxNodes - 1 + 1
    BY <1>1, FS_Interval
  <2> QED
    BY <1>1, <2>1 DEF MapNode
<1>3. \A k \in MapKeys, n \in Nat \ {0} : ReHashF(n, k) \in 0 .. n - 1
  <2> SUFFICES ASSUME NEW k \in MapKeys, NEW n \in Nat \ {0} PROVE ReHashF(n, k) \in 0 .. n - 1
    OBVIOUS
  <2>1. Hash[k] \in Nat
    BY <1>1
  <2> QED
    BY <2>1 DEF ReHashF
<1> QED
  BY <1>1, <1>2, <1>3 DEF MapNode

LEMMA ChainIs ==
  ASSUME NEW n \in Nat, NEW t, NEW c, ChainsOf(t, n, c), NEW b \in 0 .. n - 1
  PROVE  Chain(t, b) = c[b]
<1> DEFINE m == MaxNodes + 1
           Eq(f) == f = [i \in 1 .. m |-> IF i = 1 THEN t.array[b]
                                          ELSE LET before == f[i - 1]
                                               IN IF before = NULL THEN NULL ELSE t.node[before].nextNode]
           f == CHOOSE f : Eq(f)
           s == c[b]
           g == [i \in 1 .. m |-> IF i <= Len(s) THEN s[i] ELSE NULL]
<1>1. /\ NULL \notin MapNode /\ s \in Seq(MapNode) /\ Follow(s, t.array[b], Nexts(t), Prevs(t), NULL)
      /\ m \in Nat
  BY MapConstants DEF ChainsOf, Chains
<1>2. Len(s) <= m
  <2>1. Len(c[b]) <= Cardinality(MapNode)
    BY ChainLength, MapConstants DEF ChainsOf
  <2> QED
    BY <1>1, <2>1, MapConstants
<1>3. Chain(t, b) = WalkedTo(f, NULL)
  BY DEF Chain, WalkedTo
<1> HIDE DEF s, m
<1>4. WalkEq(g, m, t.array[b], Nexts(t), NULL)
  <2> HIDE DEF g
  <2> QED
    BY <1>1, WalkExists DEF g
<1>5. Eq(g)
  <2>1. g = [i \in 1 .. m |-> IF i = 1 THEN t.array[b] ELSE IF g[i - 1] = NULL THEN NULL ELSE Nexts(t)[g[i - 1]]]
    BY <1>4 DEF WalkEq
  <2>2. \A i \in 1 .. m : g[i] \in MapNode \cup {NULL}
    BY <1>1
  <2>3. \A i \in 1 .. m : i # 1 => g[i - 1] \in MapNode \cup {NULL}
    BY <1>1, <2>2
  <2>4. \A x \in MapNode : Nexts(t)[x] = t.node[x].nextNode
    BY DEF Nexts
  <2> HIDE DEF g
  <2> QED
    BY <2>1, <2>3, <2>4
<1>6. Eq(f)
  BY <1>5
<1> HIDE DEF f
<1>7. f = g
  <2> DEFINE T == {i \in 1 .. m : f[i] # g[i]}
  <2>1. /\ DOMAIN f = 1 .. m /\ DOMAIN g = 1 .. m
        /\ f = [i \in 1 .. m |-> f[i]] /\ g = [i \in 1 .. m |-> g[i]]
    BY <1>6
  <2>2. T = {}
    <3> SUFFICES ASSUME T # {} PROVE FALSE
      OBVIOUS
    <3>1. PICK i \in T : \A y \in T : i <= y
      <4>1. T \subseteq Nat
        OBVIOUS
      <4> HIDE DEF T
      <4> QED
        BY <4>1, LeastElement
    <3>2. i \in 1 .. m /\ f[i] # g[i]
      OBVIOUS
    <3> HIDE DEF g
    <3>3. CASE i = 1
      BY <1>5, <1>6, <3>2, <3>3
    <3>4. CASE i # 1
      <4>1. i - 1 \in 1 .. m
        BY <1>1, <3>2, <3>4
      <4>2. i - 1 \notin T
        <5> HIDE DEF T
        <5> QED
          BY <1>1, <3>1, <3>2, <4>1
      <4>3. f[i - 1] = g[i - 1]
        BY <4>1, <4>2
      <4>4. f[i] = IF f[i - 1] = NULL THEN NULL ELSE t.node[f[i - 1]].nextNode
        BY <1>6, <3>2, <3>4
      <4>5. g[i] = IF g[i - 1] = NULL THEN NULL ELSE t.node[g[i - 1]].nextNode
        BY <1>5, <3>2, <3>4
      <4> HIDE DEF T
      <4> QED
        BY <3>2, <4>3, <4>4, <4>5
    <3> QED
      BY <3>3, <3>4
  <2> HIDE DEF g
  <2> QED
    BY <2>1, <2>2
<1>8. WalkedTo(f, NULL) = s
  <2> HIDE DEF g
  <2> QED
    BY <1>1, <1>2, <1>4, <1>7, WalkIsChain
<1> QED
  BY <1>3, <1>8 DEF s

LEMMA FoundIs ==
  ASSUME NEW n \in Nat \ {0}, NEW t, NEW c, TableRight(t, n, c), NEW k \in MapKeys,
         NEW x, x = Found(t, n, k)
  PROVE  /\ x = NULL => \A y \in Live(c, n) : t.node[y].key # k
         /\ x # NULL => /\ x \in Live(c, n) /\ t.node[x].key = k
                        /\ In(c[ReHashF(n, k)], x)
<1> DEFINE b == ReHashF(n, k)
           s == c[b]
           hits == {i \in DOMAIN s : t.node[s[i]].key = k}
<1>1. b \in 0 .. n - 1 /\ NULL \notin MapNode
  BY MapConstants
<1>2. s \in Seq(MapNode) /\ Chain(t, b) = s
  BY <1>1, ChainIs DEF TableRight, ChainsOf, Chains
<1>3. x = IF hits = {} THEN NULL ELSE s[CHOOSE i \in hits : \A j \in hits : i <= j]
  BY <1>2 DEF Found
<1> HIDE DEF b
<1>4. ASSUME NEW y \in Live(c, n), t.node[y].key = k PROVE hits # {}
  <2>1. PICK d \in 0 .. n - 1 : In(c[d], y)
    BY DEF Live, InOne
  <2>2. ReHashF(n, t.node[y].key) = d
    BY <2>1 DEF TableRight, Hashed, Live
  <2>3. In(s, y)
    BY <1>4, <2>1, <2>2 DEF b
  <2>4. PICK i \in 1 .. Len(s) : s[i] = y
    BY <2>3 DEF In
  <2>5. i \in hits
    BY <1>2, <1>4, <2>4
  <2> QED
    BY <2>5
<1>5. ASSUME hits # {} PROVE x \in Live(c, n) /\ t.node[x].key = k /\ In(s, x) /\ x # NULL
  <2>1. hits \subseteq Nat /\ hits \subseteq 1 .. Len(s) /\ \A i \in hits : t.node[s[i]].key = k
    BY <1>2
  <2> HIDE DEF hits
  <2>2. \E i \in hits : \A j \in hits : i <= j
    BY <1>5, <2>1, LeastElement
  <2>3. PICK i \in hits : x = s[i]
    BY <1>3, <1>5, <2>2
  <2>4. i \in 1 .. Len(s) /\ t.node[x].key = k
    BY <2>1, <2>3
  <2>5. In(s, x) /\ x \in MapNode
    BY <1>2, <2>3, <2>4 DEF In
  <2> QED
    BY <1>1, <2>4, <2>5 DEF Live, InOne
<1> HIDE DEF hits, s
<1> QED
  BY <1>3, <1>4, <1>5 DEF s, b

-----------------------------------------------------------------------------
(* A sequence that lists a set, each member once. *)
Once(s) == \A i, j \in 1 .. Len(s) : s[i] = s[j] => i = j
Listed(s) == {s[i] : i \in 1 .. Len(s)}

LEMMA Joined ==
  ASSUME NEW X, NEW s \in Seq(X), NEW r \in Seq(X), Once(s), Once(r), Listed(s) \cap Listed(r) = {}
  PROVE  s \o r \in Seq(X) /\ Once(s \o r) /\ Listed(s \o r) = Listed(s) \cup Listed(r)
<1> DEFINE q == s \o r
<1>1. /\ q \in Seq(X) /\ Len(q) = Len(s) + Len(r) /\ Len(s) \in Nat /\ Len(r) \in Nat
      /\ \A i \in 1 .. Len(s) + Len(r) : q[i] = IF i <= Len(s) THEN s[i] ELSE r[i - Len(s)]
  OBVIOUS
<1> HIDE DEF q
<1>2. ASSUME NEW i \in 1 .. Len(q)
      PROVE  \/ i \in 1 .. Len(s) /\ q[i] = s[i] /\ q[i] \in Listed(s)
             \/ i - Len(s) \in 1 .. Len(r) /\ q[i] = r[i - Len(s)] /\ q[i] \in Listed(r)
  <2>1. CASE i <= Len(s)
    <3>1. i \in 1 .. Len(s) /\ q[i] = s[i]
      BY <1>1, <2>1
    <3> QED
      BY <3>1 DEF Listed
  <2>2. CASE ~ (i <= Len(s))
    <3>1. i - Len(s) \in 1 .. Len(r) /\ q[i] = r[i - Len(s)]
      BY <1>1, <2>2
    <3> QED
      BY <3>1 DEF Listed
  <2> QED
    BY <2>1, <2>2
<1>3. Once(q)
  <2> SUFFICES ASSUME NEW i \in 1 .. Len(q), NEW j \in 1 .. Len(q), q[i] = q[j] PROVE i = j
    BY DEF Once
  <2>1. \/ i \in 1 .. Len(s) /\ q[i] = s[i] /\ q[i] \in Listed(s)
        \/ i - Len(s) \in 1 .. Len(r) /\ q[i] = r[i - Len(s)] /\ q[i] \in Listed(r)
    BY <1>2
  <2>2. \/ j \in 1 .. Len(s) /\ q[j] = s[j] /\ q[j] \in Listed(s)
        \/ j - Len(s) \in 1 .. Len(r) /\ q[j] = r[j - Len(s)] /\ q[j] \in Listed(r)
    BY <1>2
  <2>3. ~ (q[i] \in Listed(s) /\ q[i] \in Listed(r))
    OBVIOUS
  <2>4. i \in Nat /\ j \in Nat /\ Len(s) \in Nat
    BY <1>1
  <2>5. CASE q[i] \in Listed(s)
    BY <2>1, <2>2, <2>3, <2>5 DEF Once
  <2>6. CASE q[i] \in Listed(r)
    <3>1. i - Len(s) = j - Len(s)
      BY <2>1, <2>2, <2>3, <2>6 DEF Once
    <3> QED
      BY <2>4, <3>1
  <2> QED
    BY <2>1, <2>5, <2>6
<1>4. Listed(q) = Listed(s) \cup Listed(r)
  <2>1. ASSUME NEW i \in 1 .. Len(s) PROVE s[i] \in Listed(q)
    <3>1. i \in 1 .. Len(q) /\ q[i] = s[i]
      BY <1>1
    <3> QED
      BY <3>1 DEF Listed
  <2>2. ASSUME NEW i \in 1 .. Len(r) PROVE r[i] \in Listed(q)
    <3>0. i + Len(s) \in 1 .. Len(s) + Len(r) /\ ~ (i + Len(s) <= Len(s)) /\ i + Len(s) - Len(s) = i
      BY <1>1
    <3>1. i + Len(s) \in 1 .. Len(q) /\ q[i + Len(s)] = r[i]
      BY <1>1, <3>0
    <3> QED
      BY <3>1 DEF Listed
  <2>3. ASSUME NEW i \in 1 .. Len(q) PROVE q[i] \in Listed(s) \cup Listed(r)
    BY <1>2
  <2>4. Listed(q) = {q[i] : i \in 1 .. Len(q)}
    BY DEF Listed
  <2>5. Listed(s) = {s[i] : i \in 1 .. Len(s)} /\ Listed(r) = {r[i] : i \in 1 .. Len(r)}
    BY DEF Listed
  <2> QED
    BY <2>1, <2>2, <2>3, <2>4, <2>5
<1> QED
  BY <1>1, <1>3, <1>4 DEF q

Before(c, X, n) == {x \in X : \E b \in 0 .. n - 1 : In(c[b], x)}

(* Chain after chain, all that is in a chain is listed. *)
ChainsListed(f, n, c) ==
  /\ f[0] = <<>>
  /\ \A i \in 1 .. n : f[i] = f[i - 1] \o c[i - 1]

LEMMA ListedUpto ==
  ASSUME NEW n \in Nat, NEW X, NEW c \in [0 .. n - 1 -> Seq(X)], Apart(c, 0 .. n - 1),
         NEW f, ChainsListed(f, n, c)
  PROVE  f[n] \in Seq(X) /\ Once(f[n]) /\ Listed(f[n]) = Before(c, X, n)
<1> DEFINE P(i) == f[i] \in Seq(X) /\ Once(f[i]) /\ Listed(f[i]) = Before(c, X, i)
           T == {i \in 0 .. n : ~P(i)}
<1>1. P(0)
  <2>1. <<>> \in Seq(X) /\ Once(<<>>) /\ Listed(<<>>) = {}
    BY DEF Once, Listed
  <2>2. Before(c, X, 0) = {}
    BY DEF Before
  <2> QED
    BY <2>1, <2>2 DEF ChainsListed
<1>2. ASSUME NEW i \in 1 .. n, P(i - 1) PROVE P(i)
  <2> DEFINE s == f[i - 1]
             r == c[i - 1]
  <2>1. i - 1 \in 0 .. n - 1 /\ r \in Seq(X) /\ f[i] = s \o r
    <3>1. i - 1 \in 0 .. n - 1
      OBVIOUS
    <3>2. f[i] = s \o r
      BY DEF ChainsListed
    <3> QED
      BY <3>1, <3>2
  <2>2. Once(r)
    <3>1. \A j, k \in 1 .. Len(c[i - 1]) : c[i - 1][j] = c[i - 1][k] => j = k
      BY <2>1 DEF Apart
    <3> QED
      BY <3>1 DEF Once
  <2>3. \A x : x \in Listed(r) <=> In(r, x)
    BY DEF Listed, In
  <2>4. \A x \in X : In(r, x) => x \notin Before(c, X, i - 1)
    <3> SUFFICES ASSUME NEW x \in X, In(r, x), x \in Before(c, X, i - 1) PROVE FALSE
      OBVIOUS
    <3>1. PICK b \in 0 .. (i - 1) - 1 : In(c[b], x)
      BY DEF Before
    <3>2. b \in 0 .. n - 1 /\ b # i - 1
      OBVIOUS
    <3> QED
      BY <2>1, <3>1, <3>2 DEF Apart, In
  <2>5. Listed(r) \subseteq X
    BY <2>1 DEF Listed
  <2>6. Listed(s) \cap Listed(r) = {}
    BY <1>2, <2>3, <2>4, <2>5
  <2>7. Before(c, X, i) = Before(c, X, i - 1) \cup Listed(r)
    <3>1. \A x \in X : x \in Before(c, X, i) <=> x \in Before(c, X, i - 1) \/ In(c[i - 1], x)
      <4>1. 0 .. i - 1 = (0 .. (i - 1) - 1) \cup {i - 1}
        OBVIOUS
      <4> QED
        BY <4>1 DEF Before
    <3>2. Before(c, X, i) \subseteq X /\ Before(c, X, i - 1) \subseteq X
      BY DEF Before
    <3> QED
      BY <2>3, <2>5, <3>1, <3>2
  <2> HIDE DEF s, r
  <2>8. s \in Seq(X) /\ Once(s) /\ Listed(s) = Before(c, X, i - 1)
    BY <1>2 DEF s
  <2> QED
    BY <2>1, <2>2, <2>6, <2>7, <2>8, Joined
<1> HIDE DEF P
<1>3. T = {}
  <2> SUFFICES ASSUME T # {} PROVE FALSE
    OBVIOUS
  <2>1. PICK i \in T : \A y \in T : i <= y
    <3>1. T \subseteq Nat
      OBVIOUS
    <3> HIDE DEF T
    <3> QED
      BY <3>1, LeastElement
  <2>2. i # 0
    BY <1>1
  <2>3. i \in 1 .. n /\ i - 1 \in 0 .. n /\ ~P(i)
    BY <2>2
  <2>4. i - 1 \notin T
    <3> HIDE DEF T
    <3> QED
      BY <2>1, <2>3
  <2> QED
    BY <1>2, <2>3, <2>4
<1>4. n \in 0 .. n
  OBVIOUS
<1> QED
  BY <1>3, <1>4 DEF P

LEMMA FlattenIs ==
  ASSUME NEW n \in Nat, NEW t, NEW c, ChainsOf(t, n, c)
  PROVE  /\ Flatten(t, n) \in Seq(MapNode) /\ Once(Flatten(t, n))
         /\ Listed(Flatten(t, n)) = Live(c, n)
<1> DEFINE Eq(f) == f = [i \in 0 .. n |-> IF i = 0 THEN <<>> ELSE f[i - 1] \o Chain(t, i - 1)]
           f == CHOOSE f : Eq(f)
           S == Seq(MapNode)
           F == [p \in (1 .. n) \X S |-> p[2] \o c[p[1] - 1]]
<1>1. c \in [0 .. n - 1 -> S] /\ Apart(c, 0 .. n - 1)
  BY DEF ChainsOf, Chains
<1>2. \A i \in 1 .. n : i - 1 \in 0 .. n - 1 /\ Chain(t, i - 1) = c[i - 1]
  <2> SUFFICES ASSUME NEW i \in 1 .. n PROVE i - 1 \in 0 .. n - 1 /\ Chain(t, i - 1) = c[i - 1]
    OBVIOUS
  <2>1. i - 1 \in 0 .. n - 1
    OBVIOUS
  <2> QED
    BY <2>1, ChainIs
<1>3. F \in [(1 .. n) \X S -> S] /\ <<>> \in S
  <2>1. ASSUME NEW i \in 1 .. n, NEW s \in S PROVE s \o c[i - 1] \in S
    <3>1. c[i - 1] \in S
      BY <1>1, <1>2
    <3> QED
      BY <3>1
  <2> QED
    BY <2>1
<1>4. PICK g : Steps(g, n, S, <<>>, F)
  <2> HIDE DEF F, S
  <2> QED
    BY <1>3, StepsExist
<1>5. Eq(g)
  <2>1. ASSUME NEW i \in 1 .. n PROVE g[i] = g[i - 1] \o Chain(t, i - 1)
    <3>1. g[i - 1] \in S /\ g[i] = F[<<i, g[i - 1]>>]
      <4>1. i - 1 \in 0 .. n
        OBVIOUS
      <4> HIDE DEF F, S
      <4> QED
        BY <1>4, <4>1 DEF Steps
    <3>2. F[<<i, g[i - 1]>>] = g[i - 1] \o c[i - 1]
      BY <3>1
    <3> QED
      BY <1>2, <3>1, <3>2
  <2>2. g \in [0 .. n -> S] /\ g[0] = <<>>
    <3> HIDE DEF F, S
    <3> QED
      BY <1>4 DEF Steps
  <2> HIDE DEF F, S
  <2>3. \A i \in 0 .. n : g[i] = IF i = 0 THEN <<>> ELSE g[i - 1] \o Chain(t, i - 1)
    <3> SUFFICES ASSUME NEW i \in 0 .. n, i # 0 PROVE g[i] = g[i - 1] \o Chain(t, i - 1)
      BY <2>2
    <3>1. i \in 1 .. n
      OBVIOUS
    <3> QED
      BY <2>1, <3>1
  <2>4. g = [i \in 0 .. n |-> g[i]]
    BY <2>2
  <2> QED
    BY <2>3, <2>4
<1>6. Eq(f)
  BY <1>5
<1>7. Flatten(t, n) = f[n]
  BY DEF Flatten
<1> HIDE DEF f
<1>8. ChainsListed(f, n, c)
  <2>1. f[0] = <<>>
    BY <1>6
  <2>2. ASSUME NEW i \in 1 .. n PROVE f[i] = f[i - 1] \o c[i - 1]
    BY <1>2, <1>6
  <2> QED
    BY <2>1, <2>2 DEF ChainsListed
<1>9. f[n] \in Seq(MapNode) /\ Once(f[n]) /\ Listed(f[n]) = Before(c, MapNode, n)
  BY <1>1, <1>8, ListedUpto
<1> QED
  BY <1>7, <1>9 DEF Before, Live, InOne

-----------------------------------------------------------------------------
(* A node that has left the links becomes the head of a bucket. *)
SameData(t, t2) == \A x \in MapNode : t2.node[x].key = t.node[x].key /\ t2.node[x].value = t.node[x].value

LEMMA LinkIs ==
  ASSUME NEW n \in Nat, NEW t \in TableType(n), NEW x \in MapNode, NEW b \in 0 .. n - 1,
         t.node[x].prevNode = NULL, t.array[b] # x, NEW t2, t2 = Link(t, x, b)
  PROVE  /\ t2 \in TableType(n) /\ SameData(t, t2)
         /\ t2.array[b] = x /\ \A d \in 0 .. n - 1 : d # b => t2.array[d] = t.array[d]
         /\ t2.node[x].nextNode = t.array[b] /\ t2.node[x].prevNode = NULL
         /\ \A y \in MapNode : y # x =>
              /\ t2.node[y].nextNode = t.node[y].nextNode
              /\ t2.node[y].prevNode = IF y = t.array[b] THEN x ELSE t.node[y].prevNode
<1> DEFINE h == t.array[b]
           linked == [t.node EXCEPT ![x].nextNode = h]
           array2 == [t.array EXCEPT ![b] = x]
           node2 == IF h = NULL THEN linked ELSE [linked EXCEPT ![h].prevNode = x]
<1>1. /\ t.array \in [0 .. n - 1 -> MapNode \cup {NULL}] /\ t.node \in [MapNode -> NodeType]
      /\ NULL \notin MapNode
  BY MapConstants DEF TableType
<1>2. h \in MapNode \cup {NULL} /\ h # x
  BY <1>1
<1>3. t2 = [array |-> array2, node |-> node2]
  BY DEF Link
<1>4. /\ array2 \in [0 .. n - 1 -> MapNode \cup {NULL}] /\ array2[b] = x
      /\ \A d \in 0 .. n - 1 : d # b => array2[d] = t.array[d]
  BY <1>1
<1> HIDE DEF h, array2
<1>5. /\ linked \in [MapNode -> NodeType]
      /\ linked[x] = [t.node[x] EXCEPT !.nextNode = h]
      /\ \A y \in MapNode : y # x => linked[y] = t.node[y]
  BY <1>1, <1>2 DEF NodeType
<1> HIDE DEF linked
<1>6. /\ node2 \in [MapNode -> NodeType]
      /\ \A y \in MapNode : node2[y] = IF y = h THEN [linked[y] EXCEPT !.prevNode = x] ELSE linked[y]
  <2>1. CASE h = NULL
    BY <1>1, <1>5, <2>1
  <2>2. CASE h # NULL
    <3>1. h \in MapNode
      BY <1>2, <2>2
    <3> QED
      BY <1>5, <2>2, <3>1 DEF NodeType
  <2> QED
    BY <2>1, <2>2
<1> HIDE DEF node2
<1>7. \A y \in MapNode : t.node[y] \in NodeType /\ linked[y] \in NodeType /\ node2[y] \in NodeType
  BY <1>1, <1>5, <1>6
<1>8. node2[x].nextNode = h /\ node2[x].prevNode = NULL /\ node2[x].key = t.node[x].key
      /\ node2[x].value = t.node[x].value
  BY <1>2, <1>5, <1>6, <1>7 DEF NodeType
<1>9. \A y \in MapNode : y # x =>
        /\ node2[y].nextNode = t.node[y].nextNode /\ node2[y].key = t.node[y].key
        /\ node2[y].value = t.node[y].value
        /\ node2[y].prevNode = IF y = h THEN x ELSE t.node[y].prevNode
  BY <1>5, <1>6, <1>7 DEF NodeType
<1>10. t2.array = array2 /\ t2.node = node2 /\ t2 \in TableType(n)
  BY <1>3, <1>4, <1>6 DEF TableType
<1> QED
  BY <1>4, <1>8, <1>9, <1>10 DEF SameData, h

LEMMA LinkType ==
  ASSUME NEW n \in Nat, NEW t \in TableType(n), NEW x \in MapNode, NEW b \in 0 .. n - 1
  PROVE  Link(t, x, b) \in TableType(n)
<1> DEFINE h == t.array[b]
           linked == [t.node EXCEPT ![x].nextNode = h]
           array2 == [t.array EXCEPT ![b] = x]
           node2 == IF h = NULL THEN linked ELSE [linked EXCEPT ![h].prevNode = x]
<1>1. t.array \in [0 .. n - 1 -> MapNode \cup {NULL}] /\ t.node \in [MapNode -> NodeType]
  BY DEF TableType
<1>2. h \in MapNode \cup {NULL}
  BY <1>1
<1>3. Link(t, x, b) = [array |-> array2, node |-> node2]
  BY DEF Link
<1>4. array2 \in [0 .. n - 1 -> MapNode \cup {NULL}]
  BY <1>1
<1> HIDE DEF h, array2
<1>5. linked \in [MapNode -> NodeType]
  BY <1>1, <1>2 DEF NodeType
<1> HIDE DEF linked
<1>6. node2 \in [MapNode -> NodeType]
  <2>1. CASE h = NULL
    BY <1>5, <2>1
  <2>2. CASE h # NULL
    <3>1. h \in MapNode
      BY <1>2, <2>2
    <3> QED
      BY <1>5, <2>2, <3>1 DEF NodeType
  <2> QED
    BY <2>1, <2>2
<1> HIDE DEF node2
<1> QED
  BY <1>3, <1>4, <1>6 DEF TableType

LEMMA UnlinkedIs ==
  ASSUME NEW n \in Nat, NEW t \in TableType(n), NEW x \in MapNode, NEW t2, t2 = Unlinked(t, x)
  PROVE  /\ t2 \in TableType(n) /\ SameData(t, t2) /\ t2.array = t.array
         /\ t2.node[x].prevNode = NULL
         /\ \A y \in MapNode : y # x => t2.node[y] = t.node[y]
<1>1. t.array \in [0 .. n - 1 -> MapNode \cup {NULL}] /\ t.node \in [MapNode -> NodeType]
  BY DEF TableType
<1> DEFINE node1 == [t.node EXCEPT ![x].nextNode = NULL]
           node2 == [node1 EXCEPT ![x].prevNode = NULL]
<1>2. t2 = [array |-> t.array, node |-> node2]
  BY DEF Unlinked, TableType
<1>3. /\ node1 \in [MapNode -> NodeType] /\ node1[x] = [t.node[x] EXCEPT !.nextNode = NULL]
      /\ \A y \in MapNode : y # x => node1[y] = t.node[y]
  BY <1>1 DEF NodeType
<1> HIDE DEF node1
<1>4. /\ node2 \in [MapNode -> NodeType] /\ node2[x] = [node1[x] EXCEPT !.prevNode = NULL]
      /\ \A y \in MapNode : y # x => node2[y] = node1[y]
  BY <1>3 DEF NodeType
<1> HIDE DEF node2
<1>5. t.node[x] \in NodeType /\ node1[x] \in NodeType
  BY <1>1, <1>3
<1>6. node2[x].prevNode = NULL /\ node2[x].key = t.node[x].key /\ node2[x].value = t.node[x].value
  BY <1>3, <1>4, <1>5 DEF NodeType
<1>7. \A y \in MapNode : y # x => node2[y] = t.node[y]
  BY <1>3, <1>4
<1>8. t2.array = t.array /\ t2.node = node2
  BY <1>2
<1>9. t2 \in TableType(n)
  BY <1>1, <1>2, <1>4 DEF TableType
<1> QED
  BY <1>6, <1>7, <1>8, <1>9 DEF SameData

(* Links that are as before for the members of the chains make the same chains. *)
LEMMA SameChains ==
  ASSUME NEW B, NEW X, NEW Z, NEW c, NEW head, NEW next, NEW pred,
         Chains(c, B, X, Z, head, next, pred), NEW head2, NEW next2, NEW pred2,
         \A b \in B : head2[b] = head[b],
         \A y \in X : InOne(c, B, y) => next2[y] = next[y] /\ pred2[y] = pred[y]
  PROVE  Chains(c, B, X, Z, head2, next2, pred2)
<1>1. Z \notin X /\ c \in [B -> Seq(X)] /\ Apart(c, B)
  BY DEF Chains
<1>2. ASSUME NEW b \in B PROVE Follow(c[b], head2[b], next2, pred2, Z)
  <2>1. Follow(c[b], head[b], next, pred, Z) /\ head2[b] = head[b]
    BY DEF Chains
  <2>2. ASSUME NEW i \in 1 .. Len(c[b])
        PROVE  next2[c[b][i]] = next[c[b][i]] /\ pred2[c[b][i]] = pred[c[b][i]]
    <3>1. c[b][i] \in X /\ InOne(c, B, c[b][i])
      BY <1>1 DEF InOne, In
    <3> QED
      BY <3>1
  <2> QED
    BY <2>1, <2>2 DEF Follow
<1> QED
  BY <1>1, <1>2 DEF Chains

LinkedIn(t, t2, c, c2, n, x, b) ==
  /\ t2 \in TableType(n) /\ SameData(t, t2) /\ ChainsOf(t2, n, c2)
  /\ Live(c2, n) = Live(c, n) \cup {x}
  /\ \A d \in 0 .. n - 1 : \A y : In(c2[d], y) <=> In(c[d], y) \/ (d = b /\ y = x)

LEMMA LinkChains ==
  ASSUME NEW n \in Nat, NEW t \in TableType(n), NEW c, ChainsOf(t, n, c),
         NEW x \in MapNode, x \notin Live(c, n), NEW b \in 0 .. n - 1,
         t.node[x].prevNode = NULL, NEW t2, t2 = Link(t, x, b),
         NEW c2, ButFor(c2, c, 0 .. n - 1, b, Front(x, c[b]))
  PROVE  LinkedIn(t, t2, c, c2, n, x, b)
<1>1. /\ NULL \notin MapNode /\ c \in [0 .. n - 1 -> Seq(MapNode)]
      /\ \A d \in 0 .. n - 1 : Follow(c[d], t.array[d], Nexts(t), Prevs(t), NULL)
  BY DEF ChainsOf, Chains
<1>2. ~InOne(c, 0 .. n - 1, x)
  BY DEF Live
<1>3. t.array[b] # x
  <2>1. t.array[b] = IF Len(c[b]) = 0 THEN NULL ELSE c[b][1]
    BY <1>1 DEF Follow
  <2>2. CASE Len(c[b]) = 0
    BY <1>1, <2>1, <2>2
  <2>3. CASE Len(c[b]) # 0
    <3>1. 1 \in 1 .. Len(c[b])
      BY <1>1, <2>3
    <3> QED
      BY <1>2, <2>1, <2>3, <3>1 DEF InOne, In
  <2> QED
    BY <2>2, <2>3
<1>4. /\ t2 \in TableType(n) /\ SameData(t, t2)
      /\ t2.array[b] = x /\ \A d \in 0 .. n - 1 : d # b => t2.array[d] = t.array[d]
      /\ t2.node[x].nextNode = t.array[b] /\ t2.node[x].prevNode = NULL
      /\ \A y \in MapNode : y # x =>
           /\ t2.node[y].nextNode = t.node[y].nextNode
           /\ t2.node[y].prevNode = IF y = t.array[b] THEN x ELSE t.node[y].prevNode
  BY <1>3, LinkIs
<1>5. \A y \in MapNode : /\ Nexts(t)[y] = t.node[y].nextNode /\ Prevs(t)[y] = t.node[y].prevNode
                         /\ Nexts(t2)[y] = t2.node[y].nextNode /\ Prevs(t2)[y] = t2.node[y].prevNode
  BY DEF Nexts, Prevs
<1>6. ChainsOf(t2, n, c2)
  <2>1. /\ Nexts(t2)[x] = t.array[b] /\ Prevs(t2)[x] = NULL
        /\ \A y \in MapNode : y # x => Nexts(t2)[y] = Nexts(t)[y]
        /\ \A y \in MapNode : y # x => Prevs(t2)[y] = IF y = t.array[b] THEN x ELSE Prevs(t)[y]
    BY <1>4, <1>5
  <2>2. Chains(c, 0 .. n - 1, MapNode, NULL, t.array, Nexts(t), Prevs(t))
    BY DEF ChainsOf
  <2>3. Chains(c2, 0 .. n - 1, MapNode, NULL, t2.array, Nexts(t2), Prevs(t2))
    <3> DEFINE B == 0 .. n - 1
               head == t.array
               head2 == t2.array
               next == Nexts(t)
               next2 == Nexts(t2)
               pred == Prevs(t)
               pred2 == Prevs(t2)
    <3>0. Fronted(B, MapNode, NULL, b, x, head, next, pred, head2, next2, pred2)
      BY <1>4, <2>1 DEF Fronted
    <3>1. /\ b \in B /\ ~InOne(c, B, x)
          /\ Chains(c, B, MapNode, NULL, head, next, pred)
          /\ ButFor(c2, c, B, b, Front(x, c[b]))
      BY <1>2, <2>2
    <3> HIDE DEF B, head, head2, next, next2, pred, pred2
    <3>2. Chains(c2, B, MapNode, NULL, head2, next2, pred2)
      BY <3>0, <3>1, FrontChains
    <3> QED
      BY <3>2 DEF B, head2, next2, pred2
  <2> QED
    BY <2>3 DEF ChainsOf
<1>7. ASSUME NEW d \in 0 .. n - 1, NEW y
      PROVE  In(c2[d], y) <=> In(c[d], y) \/ (d = b /\ y = x)
  <2>1. CASE d = b
    <3>1. c[b] \in Seq(MapNode) /\ c2[b] = Front(x, c[b])
      BY <1>1 DEF ButFor
    <3>2. In(Front(x, c[b]), y) <=> y = x \/ In(c[b], y)
      <4> DEFINE s == c[b]
      <4>1. s \in Seq(MapNode)
        BY <3>1
      <4> HIDE DEF s
      <4>2. In(Front(x, s), y) <=> y = x \/ In(s, y)
        BY <4>1, FrontIn
      <4> QED
        BY <4>2 DEF s
    <3> QED
      BY <2>1, <3>1, <3>2
  <2>2. CASE d # b
    BY <1>1, <2>2 DEF ButFor
  <2> QED
    BY <2>1, <2>2
<1>8. Live(c2, n) = Live(c, n) \cup {x}
  BY <1>7 DEF Live, InOne
<1> QED
  BY <1>4, <1>6, <1>7, <1>8 DEF LinkedIn

(* The table grows: after i nodes have been moved they make the chains of the new one. *)
Moved(T, t, order, new, i) ==
  \E d : /\ T \in TableType(new) /\ ChainsOf(T, new, d) /\ SameData(t, T)
         /\ Live(d, new) = {order[j] : j \in 1 .. i}
         /\ \A b \in 0 .. new - 1 : \A x \in MapNode : In(d[b], x) => ReHashF(new, t.node[x].key) = b

LEMMA MovesOne ==
  ASSUME NEW new \in Nat \ {0}, NEW t, NEW order \in Seq(MapNode), Once(order),
         \A j \in 1 .. Len(order) : t.node[order[j]].key \in MapKeys,
         NEW i \in 1 .. Len(order), NEW T, Moved(T, t, order, new, i - 1),
         NEW T2, T2 = Link(Unlinked(T, order[i]), order[i], ReHashF(new, t.node[order[i]].key))
  PROVE  Moved(T2, t, order, new, i)
<1> DEFINE x == order[i]
           b == ReHashF(new, t.node[x].key)
           U == Unlinked(T, x)
<1>1. PICK d : /\ T \in TableType(new) /\ ChainsOf(T, new, d) /\ SameData(t, T)
               /\ Live(d, new) = {order[j] : j \in 1 .. i - 1}
               /\ \A a \in 0 .. new - 1 : \A y \in MapNode : In(d[a], y) => ReHashF(new, t.node[y].key) = a
  BY DEF Moved
<1>2. x \in MapNode /\ b \in 0 .. new - 1
  BY MapConstants
<1>3. x \notin Live(d, new)
  <2>1. \A j \in 1 .. i - 1 : j \in 1 .. Len(order) /\ j # i
    OBVIOUS
  <2> QED
    BY <1>1, <2>1 DEF Once
<1>4. T2 = Link(U, x, b)
  OBVIOUS
<1> HIDE DEF x, b
<1>5. /\ U \in TableType(new) /\ SameData(T, U) /\ U.array = T.array /\ U.node[x].prevNode = NULL
      /\ \A y \in MapNode : y # x => U.node[y] = T.node[y]
  BY <1>1, <1>2, UnlinkedIs
<1> HIDE DEF U
<1>6. ChainsOf(U, new, d)
  <2> DEFINE B == 0 .. new - 1
             next == Nexts(T)
             next2 == Nexts(U)
             pred == Prevs(T)
             pred2 == Prevs(U)
  <2>1. Chains(d, B, MapNode, NULL, T.array, next, pred)
    BY <1>1 DEF ChainsOf
  <2>2. \A y \in MapNode : InOne(d, B, y) => next2[y] = next[y] /\ pred2[y] = pred[y]
    <3>1. \A y \in MapNode : y # x => next2[y] = next[y] /\ pred2[y] = pred[y]
      BY <1>5 DEF Nexts, Prevs
    <3> QED
      BY <1>3, <3>1 DEF Live
  <2>3. \A a \in B : U.array[a] = T.array[a]
    BY <1>5
  <2> HIDE DEF B, next, next2, pred, pred2
  <2>4. Chains(d, B, MapNode, NULL, U.array, next2, pred2)
    BY <2>1, <2>2, <2>3, SameChains
  <2> QED
    BY <2>4 DEF ChainsOf, B, next2, pred2
<1>7. PICK e : ButFor(e, d, 0 .. new - 1, b, Front(x, d[b]))
  BY DEF ButFor
<1>8. /\ T2 \in TableType(new) /\ SameData(U, T2) /\ ChainsOf(T2, new, e)
      /\ Live(e, new) = Live(d, new) \cup {x}
      /\ \A a \in 0 .. new - 1 : \A y : In(e[a], y) <=> In(d[a], y) \/ (a = b /\ y = x)
  <2>1. /\ new \in Nat /\ U \in TableType(new) /\ ChainsOf(U, new, d)
        /\ x \in MapNode /\ x \notin Live(d, new) /\ b \in 0 .. new - 1
        /\ U.node[x].prevNode = NULL /\ T2 = Link(U, x, b)
        /\ ButFor(e, d, 0 .. new - 1, b, Front(x, d[b]))
    BY <1>2, <1>3, <1>4, <1>5, <1>6, <1>7
  <2>2. LinkedIn(U, T2, d, e, new, x, b)
    BY <2>1, LinkChains
  <2> QED
    BY <2>2 DEF LinkedIn
<1>9. SameData(t, T2)
  BY <1>1, <1>5, <1>8 DEF SameData
<1>10. Live(e, new) = {order[j] : j \in 1 .. i}
  <2>1. 1 .. i = (1 .. i - 1) \cup {i}
    OBVIOUS
  <2> QED
    BY <1>1, <1>8, <2>1 DEF x
<1>11. ASSUME NEW a \in 0 .. new - 1, NEW y \in MapNode, In(e[a], y)
       PROVE  ReHashF(new, t.node[y].key) = a
  BY <1>1, <1>8, <1>11 DEF b
<1> QED
  BY <1>8, <1>9, <1>10, <1>11 DEF Moved

LEMMA ResizedIs ==
  ASSUME NEW n \in Nat, NEW new \in Nat \ {0}, NEW t, NEW c, TableRight(t, n, c)
  PROVE  \E d : TableRight(Resized(t, n, new), new, d) /\ SameData(t, Resized(t, n, new))
                /\ Live(d, new) = Live(c, n)
<1> DEFINE order == Flatten(t, n)
           L == Len(order)
           S == TableType(new)
           start == [array |-> [b \in 0 .. new - 1 |-> NULL], node |-> t.node]
           step(T, i) == Link(Unlinked(T, order[i]), order[i], ReHashF(new, t.node[order[i]].key))
           Eq(f) == f = [i \in 0 .. L |-> IF i = 0 THEN start ELSE step(f[i - 1], i)]
           f == CHOOSE f : Eq(f)
           F == [p \in (1 .. L) \X S |-> step(p[2], p[1])]
<1>1. Resized(t, n, new) = f[L]
  BY DEF Resized
<1>2. order \in Seq(MapNode) /\ Once(order) /\ Listed(order) = Live(c, n)
  BY FlattenIs DEF TableRight
<1>3. t \in TableType(n) /\ Hashed(t, n, c)
  BY DEF TableRight
<1> HIDE DEF order
<1>4. L \in Nat /\ \A i \in 1 .. L : order[i] \in MapNode /\ t.node[order[i]].key \in MapKeys
  BY <1>2, <1>3 DEF Listed, Hashed
<1> HIDE DEF L
<1>5. start \in S
  BY <1>3 DEF TableType
<1>6. F \in [(1 .. L) \X S -> S]
  <2>1. ASSUME NEW i \in 1 .. L, NEW T \in S PROVE step(T, i) \in S
    <3>1. order[i] \in MapNode /\ ReHashF(new, t.node[order[i]].key) \in 0 .. new - 1
      BY <1>4, MapConstants
    <3>2. Unlinked(T, order[i]) \in S
      BY <3>1, UnlinkedIs
    <3> QED
      BY <3>1, <3>2, LinkType
  <2> HIDE DEF S
  <2> QED
    BY <2>1
<1> HIDE DEF S, start
<1>7. PICK g : Steps(g, L, S, start, F)
  <2> HIDE DEF F
  <2> QED
    BY <1>4, <1>5, <1>6, StepsExist
<1>8. Eq(g)
  <2>1. ASSUME NEW i \in 1 .. L PROVE g[i] = step(g[i - 1], i)
    <3>1. g[i - 1] \in S /\ g[i] = F[<<i, g[i - 1]>>]
      <4>1. i - 1 \in 0 .. L
        BY <1>4
      <4> HIDE DEF F
      <4> QED
        BY <1>7, <4>1 DEF Steps
    <3> QED
      BY <3>1
  <2>2. g \in [0 .. L -> S] /\ g[0] = start
    <3> HIDE DEF F
    <3> QED
      BY <1>7 DEF Steps
  <2> HIDE DEF F
  <2>3. \A i \in 0 .. L : g[i] = IF i = 0 THEN start ELSE step(g[i - 1], i)
    <3> SUFFICES ASSUME NEW i \in 0 .. L, i # 0 PROVE g[i] = step(g[i - 1], i)
      BY <2>2
    <3>1. i \in 1 .. L
      BY <1>4
    <3> QED
      BY <2>1, <3>1
  <2>4. g = [i \in 0 .. L |-> g[i]]
    BY <2>2
  <2> QED
    BY <2>3, <2>4
<1>9. Eq(f)
  BY <1>8
<1> HIDE DEF f, F
<1>10. f[0] = start /\ \A i \in 1 .. L : f[i] = step(f[i - 1], i)
  <2>1. 0 \in 0 .. L /\ \A i \in 1 .. L : i \in 0 .. L /\ i # 0
    BY <1>4
  <2> QED
    BY <1>9, <2>1
<1> DEFINE N == {i \in 0 .. L : ~Moved(f[i], t, order, new, i)}
<1>11. Moved(f[0], t, order, new, 0)
  <2> DEFINE d == [b \in 0 .. new - 1 |-> <<>>]
  <2>1. start.array = [b \in 0 .. new - 1 |-> NULL] /\ start.node = t.node
    BY DEF start
  <2>2. d \in [0 .. new - 1 -> Seq(MapNode)] /\ \A b \in 0 .. new - 1 : d[b] = <<>> /\ Len(d[b]) = 0
    OBVIOUS
  <2> HIDE DEF d
  <2>3. ChainsOf(start, new, d)
    <3>1. Apart(d, 0 .. new - 1)
      BY <2>2 DEF Apart
    <3>2. ASSUME NEW b \in 0 .. new - 1
          PROVE  Follow(d[b], start.array[b], Nexts(start), Prevs(start), NULL)
      <4>1. Len(d[b]) = 0 /\ start.array[b] = NULL
        BY <2>1, <2>2
      <4> QED
        BY <4>1 DEF Follow
    <3> QED
      BY <2>2, <3>1, <3>2, MapConstants DEF ChainsOf, Chains
  <2>4. \A b \in 0 .. new - 1 : \A x : ~In(d[b], x)
    BY <2>2 DEF In
  <2>5. Live(d, new) = {order[j] : j \in 1 .. 0}
    BY <2>4 DEF Live, InOne
  <2>6. SameData(t, start)
    BY <2>1 DEF SameData
  <2> QED
    BY <1>5, <1>10, <2>3, <2>4, <2>5, <2>6 DEF Moved, S
<1>12. N = {}
  <2> SUFFICES ASSUME N # {} PROVE FALSE
    OBVIOUS
  <2>1. PICK i \in N : \A y \in N : i <= y
    <3>1. N \subseteq Nat
      BY <1>4
    <3> HIDE DEF N
    <3> QED
      BY <3>1, LeastElement
  <2>2. i \in 0 .. L /\ ~Moved(f[i], t, order, new, i)
    OBVIOUS
  <2>3. i \in 1 .. L /\ i - 1 \in 0 .. L
    BY <1>4, <1>11, <2>2
  <2>4. i - 1 \notin N
    <3> HIDE DEF N
    <3> QED
      BY <1>4, <2>1, <2>3
  <2>5. Moved(f[i - 1], t, order, new, i - 1)
    BY <2>3, <2>4
  <2>6. f[i] = step(f[i - 1], i)
    BY <1>10, <2>3
  <2>7. i \in 1 .. Len(order) /\ \A j \in 1 .. Len(order) : t.node[order[j]].key \in MapKeys
    BY <1>4, <2>3 DEF L
  <2> HIDE DEF N
  <2> QED
    BY <1>2, <2>2, <2>5, <2>6, <2>7, MovesOne
<1>13. Moved(f[L], t, order, new, L)
  <2>1. L \in 0 .. L
    BY <1>4
  <2> QED
    BY <1>12, <2>1
<1> DEFINE R == f[L]
<1> HIDE DEF N
<1>14. PICK d : /\ R \in TableType(new) /\ ChainsOf(R, new, d) /\ SameData(t, R)
                /\ Live(d, new) = {order[j] : j \in 1 .. L}
                /\ \A b \in 0 .. new - 1 : \A x \in MapNode : In(d[b], x) => ReHashF(new, t.node[x].key) = b
  BY <1>13 DEF Moved
<1> HIDE DEF R
<1>15. Live(d, new) = Live(c, n)
  BY <1>2, <1>14 DEF Listed, L
<1>16. \A x \in MapNode : R.node[x].key = t.node[x].key /\ R.node[x].value = t.node[x].value
  BY <1>14 DEF SameData
<1>17. Live(c, n) \subseteq MapNode
  BY DEF Live
<1>18. Hashed(R, new, d)
  BY <1>3, <1>14, <1>15, <1>16, <1>17 DEF Hashed
<1> QED
  BY <1>1, <1>14, <1>15, <1>18 DEF TableRight, R

-----------------------------------------------------------------------------
(* A node is taken out of its bucket. *)
UnlinkedFrom(t, t2, c, c2, n, x) ==
  /\ t2 \in TableType(n) /\ SameData(t, t2) /\ ChainsOf(t2, n, c2)
  /\ Live(c2, n) = Live(c, n) \ {x}
  /\ \A d \in 0 .. n - 1 : \A y : In(c2[d], y) => In(c[d], y)

LEMMA UnlinkTable ==
  ASSUME NEW n \in Nat, NEW t \in TableType(n), NEW x \in MapNode, NEW b \in 0 .. n - 1,
         t.node[x].prevNode # x, t.node[x].nextNode # x, NEW t2, t2 = Unlink(t, x, b)
  PROVE  /\ t2 \in TableType(n) /\ SameData(t, t2)
         /\ t2.array[b] = IF t.node[x].prevNode = NULL THEN t.node[x].nextNode ELSE t.array[b]
         /\ \A d \in 0 .. n - 1 : d # b => t2.array[d] = t.array[d]
         /\ \A y \in MapNode : y # x =>
              /\ t2.node[y].nextNode = IF y = t.node[x].prevNode THEN t.node[x].nextNode
                                       ELSE t.node[y].nextNode
              /\ t2.node[y].prevNode = IF y = t.node[x].nextNode THEN t.node[x].prevNode
                                       ELSE t.node[y].prevNode
<1> DEFINE p == t.node[x].prevNode
           q == t.node[x].nextNode
           past == IF p = NULL THEN t.node ELSE [t.node EXCEPT ![p].nextNode = q]
           node2 == IF q = NULL THEN past ELSE [past EXCEPT ![q].prevNode = p]
           array2 == IF p = NULL THEN [t.array EXCEPT ![b] = q] ELSE t.array
<1>1. /\ t.array \in [0 .. n - 1 -> MapNode \cup {NULL}] /\ t.node \in [MapNode -> NodeType]
      /\ NULL \notin MapNode
  BY MapConstants DEF TableType
<1>2. t2 = [array |-> array2, node |-> node2]
  BY DEF Unlink
<1>3. p \in MapNode \cup {NULL} /\ q \in MapNode \cup {NULL}
  <2>1. t.node[x] \in NodeType
    BY <1>1
  <2> QED
    BY <2>1 DEF NodeType
<1> HIDE DEF p, q
<1>4. /\ array2 \in [0 .. n - 1 -> MapNode \cup {NULL}]
      /\ array2[b] = (IF p = NULL THEN q ELSE t.array[b])
      /\ \A d \in 0 .. n - 1 : d # b => array2[d] = t.array[d]
  BY <1>1, <1>3
<1> HIDE DEF array2
<1>5. /\ past \in [MapNode -> NodeType]
      /\ \A y \in MapNode : past[y] = IF y = p THEN [t.node[y] EXCEPT !.nextNode = q] ELSE t.node[y]
  <2>1. CASE p = NULL
    BY <1>1, <2>1
  <2>2. CASE p # NULL
    <3>1. p \in MapNode
      BY <1>3, <2>2
    <3> QED
      BY <1>1, <1>3, <2>2, <3>1 DEF NodeType
  <2> QED
    BY <2>1, <2>2
<1> HIDE DEF past
<1>6. /\ node2 \in [MapNode -> NodeType]
      /\ \A y \in MapNode : node2[y] = IF y = q THEN [past[y] EXCEPT !.prevNode = p] ELSE past[y]
  <2>1. CASE q = NULL
    BY <1>1, <1>5, <2>1
  <2>2. CASE q # NULL
    <3>1. q \in MapNode
      BY <1>3, <2>2
    <3> QED
      BY <1>3, <1>5, <2>2, <3>1 DEF NodeType
  <2> QED
    BY <2>1, <2>2
<1> HIDE DEF node2
<1>7. ASSUME NEW y \in MapNode
      PROVE  /\ node2[y].nextNode = (IF y = p THEN q ELSE t.node[y].nextNode)
             /\ node2[y].prevNode = (IF y = q THEN p ELSE t.node[y].prevNode)
             /\ node2[y].key = t.node[y].key /\ node2[y].value = t.node[y].value
  <2>1. t.node[y] \in NodeType /\ past[y] \in NodeType /\ node2[y] \in NodeType
    BY <1>1, <1>5, <1>6
  <2>2. /\ past[y].nextNode = (IF y = p THEN q ELSE t.node[y].nextNode)
        /\ past[y].prevNode = t.node[y].prevNode
        /\ past[y].key = t.node[y].key /\ past[y].value = t.node[y].value
    BY <1>5, <2>1 DEF NodeType
  <2> QED
    BY <1>6, <2>1, <2>2 DEF NodeType
<1>8. t2.array = array2 /\ t2.node = node2 /\ t2 \in TableType(n)
  BY <1>2, <1>4, <1>6 DEF TableType
<1> QED
  BY <1>4, <1>7, <1>8 DEF SameData, p, q

LEMMA UnlinkChains ==
  ASSUME NEW n \in Nat, NEW t \in TableType(n), NEW c, ChainsOf(t, n, c),
         NEW b \in 0 .. n - 1, NEW x \in MapNode, In(c[b], x), NEW t2, t2 = Unlink(t, x, b)
  PROVE  \E c2 : UnlinkedFrom(t, t2, c, c2, n, x)
<1>1. /\ NULL \notin MapNode /\ c \in [0 .. n - 1 -> Seq(MapNode)] /\ Apart(c, 0 .. n - 1)
      /\ Follow(c[b], t.array[b], Nexts(t), Prevs(t), NULL)
  BY DEF ChainsOf, Chains
<1>2. PICK p \in 1 .. Len(c[b]) : c[b][p] = x
  BY DEF In
<1>3. \A y \in MapNode : Nexts(t)[y] = t.node[y].nextNode /\ Prevs(t)[y] = t.node[y].prevNode
  BY DEF Nexts, Prevs
<1>4. t.node[x].prevNode # x /\ t.node[x].nextNode # x
  <2>1. /\ t.node[x].nextNode = (IF p = Len(c[b]) THEN NULL ELSE c[b][p + 1])
        /\ t.node[x].prevNode = (IF p = 1 THEN NULL ELSE c[b][p - 1])
    BY <1>1, <1>2, <1>3 DEF Follow
  <2>2. Len(c[b]) \in Nat /\ \A i \in 1 .. Len(c[b]) : i # p => c[b][i] # x
    BY <1>1, <1>2 DEF Apart
  <2>3. p # 1 => c[b][p - 1] # x
    BY <2>2
  <2>4. p # Len(c[b]) => c[b][p + 1] # x
    BY <2>2
  <2> QED
    BY <1>1, <2>1, <2>3, <2>4
<1>5. /\ t2 \in TableType(n) /\ SameData(t, t2)
      /\ t2.array[b] = IF t.node[x].prevNode = NULL THEN t.node[x].nextNode ELSE t.array[b]
      /\ \A d \in 0 .. n - 1 : d # b => t2.array[d] = t.array[d]
      /\ \A y \in MapNode : y # x =>
           /\ t2.node[y].nextNode = IF y = t.node[x].prevNode THEN t.node[x].nextNode
                                    ELSE t.node[y].nextNode
           /\ t2.node[y].prevNode = IF y = t.node[x].nextNode THEN t.node[x].prevNode
                                    ELSE t.node[y].prevNode
  BY <1>4, UnlinkTable
<1>6. PICK c2 : ButFor(c2, c, 0 .. n - 1, b, Drop(c[b], p))
  BY DEF ButFor
<1>7. ChainsOf(t2, n, c2)
  <2> DEFINE B == 0 .. n - 1
             head == t.array
             head2 == t2.array
             next == Nexts(t)
             next2 == Nexts(t2)
             pred == Prevs(t)
             pred2 == Prevs(t2)
  <2>1. \A y \in MapNode : next2[y] = t2.node[y].nextNode /\ pred2[y] = t2.node[y].prevNode
    BY DEF Nexts, Prevs
  <2>2. /\ head2[b] = (IF pred[x] = NULL THEN next[x] ELSE head[b])
        /\ \A d \in B : d # b => head2[d] = head[d]
        /\ \A y \in MapNode : y # x => next2[y] = IF y = pred[x] THEN next[x] ELSE next[y]
        /\ \A y \in MapNode : y # x => pred2[y] = IF y = next[x] THEN pred[x] ELSE pred[y]
    BY <1>3, <1>5, <2>1
  <2>3. Chains(c, B, MapNode, NULL, head, next, pred)
    BY DEF ChainsOf
  <2>4. b \in B /\ ButFor(c2, c, B, b, Drop(c[b], p)) /\ x = c[b][p] /\ p \in 1 .. Len(c[b])
    BY <1>2, <1>6
  <2> HIDE DEF B, head, head2, next, next2, pred, pred2
  <2>5. Passed(B, MapNode, NULL, b, c[b][p], head, next, pred, head2, next2, pred2)
    BY <2>2, <2>4 DEF Passed
  <2>6. Chains(c2, B, MapNode, NULL, head2, next2, pred2)
    BY <2>3, <2>4, <2>5, DropChains
  <2> QED
    BY <2>6 DEF ChainsOf, B, head2, next2, pred2
<1>8. \A y : In(c2[b], y) <=> In(c[b], y) /\ y # x
  <2> DEFINE s == c[b]
  <2>1. s \in Seq(MapNode) /\ c2[b] = Drop(s, p) /\ p \in 1 .. Len(s)
    BY <1>1, <1>6 DEF ButFor
  <2>2. \A i \in 1 .. Len(s) : i # p <=> s[i] # x
    BY <1>1, <1>2 DEF Apart
  <2> HIDE DEF s
  <2> SUFFICES ASSUME NEW y PROVE In(c2[b], y) <=> In(s, y) /\ y # x
    BY DEF s
  <2>3. In(Drop(s, p), y) <=> \E i \in 1 .. Len(s) : i # p /\ s[i] = y
    BY <2>1, DropIn
  <2> QED
    BY <2>1, <2>2, <2>3 DEF In
<1>9. \A d \in 0 .. n - 1 : d # b => c2[d] = c[d] /\ ~In(c[d], x)
  BY <1>1, <1>2, <1>6 DEF ButFor, Apart, In
<1>10. ASSUME NEW d \in 0 .. n - 1, NEW y PROVE In(c2[d], y) <=> In(c[d], y) /\ y # x
  <2>1. CASE d = b
    BY <1>8, <2>1
  <2>2. CASE d # b
    BY <1>9, <2>2
  <2> QED
    BY <2>1, <2>2
<1>11. Live(c2, n) = Live(c, n) \ {x}
  BY <1>10 DEF Live, InOne
<1> QED
  BY <1>5, <1>7, <1>10, <1>11 DEF UnlinkedFrom

-----------------------------------------------------------------------------
(* The table and what it stands for. *)
Agrees(t, L, g) ==
  /\ \A k \in MapKeys : g[k] = NULL <=> \A x \in L : t.node[x].key # k
  /\ \A x \in L : g[t.node[x].key] = t.node[x].value

StandsFor(t, n, used, g) ==
  \E c : /\ TableRight(t, n, c) /\ Agrees(t, Live(c, n), g)
         /\ \A x \in Live(c, n) : x <= used

BoundIn(g) == {k \in MapKeys : g[k] # NULL}

MapInv ==
  /\ buckets \in Nat \ {0} /\ nodes \in 0 .. MaxNodes
  /\ contents \in [MapKeys -> MapValues \cup {NULL}]
  /\ StandsFor(Table, buckets, nodes, contents)
  /\ IsFiniteSet(BoundIn(contents)) /\ mapCounter = Cardinality(BoundIn(contents))

LEMMA TableEmpty ==
  ASSUME NEW n \in Nat \ {0}, NEW used \in Nat, NEW t,
         t = [array |-> [b \in 0 .. n - 1 |-> NULL], node |-> [x \in MapNode |-> Unused]],
         NEW g, g = [k \in MapKeys |-> NULL]
  PROVE  StandsFor(t, n, used, g) /\ IsFiniteSet(BoundIn(g)) /\ Cardinality(BoundIn(g)) = 0
<1> DEFINE d == [b \in 0 .. n - 1 |-> <<>>]
<1>1. d \in [0 .. n - 1 -> Seq(MapNode)] /\ \A b \in 0 .. n - 1 : Len(d[b]) = 0
  OBVIOUS
<1> HIDE DEF d
<1>2. t \in TableType(n) /\ \A b \in 0 .. n - 1 : t.array[b] = NULL
  <2>1. Unused \in NodeType
    BY DEF Unused, NodeType
  <2> QED
    BY <2>1 DEF TableType
<1>3. \A b \in 0 .. n - 1 : \A x : ~In(d[b], x)
  BY <1>1 DEF In
<1>4. Live(d, n) = {}
  BY <1>3 DEF Live, InOne
<1>5. ChainsOf(t, n, d)
  <2>1. Apart(d, 0 .. n - 1)
    BY <1>1 DEF Apart
  <2>2. ASSUME NEW b \in 0 .. n - 1 PROVE Follow(d[b], t.array[b], Nexts(t), Prevs(t), NULL)
    <3>1. Len(d[b]) = 0 /\ t.array[b] = NULL
      BY <1>1, <1>2
    <3> QED
      BY <3>1 DEF Follow
  <2> QED
    BY <1>1, <2>1, <2>2, MapConstants DEF ChainsOf, Chains
<1>6. Hashed(t, n, d)
  BY <1>3, <1>4 DEF Hashed
<1>7. Agrees(t, Live(d, n), g)
  BY <1>4 DEF Agrees
<1>8. BoundIn(g) = {}
  BY DEF BoundIn
<1> QED
  BY <1>2, <1>4, <1>5, <1>6, <1>7, <1>8, FS_EmptySet DEF StandsFor, TableRight

LEMMA MapStart == MapInit => MapInv
<1> SUFFICES ASSUME MapInit PROVE MapInv
  OBVIOUS
<1>1. Buckets \in Nat \ {0} /\ MaxNodes \in Nat
  BY MapConstants
<1>2. Table = [array |-> [b \in 0 .. Buckets - 1 |-> NULL], node |-> [x \in MapNode |-> Unused]]
  BY DEF MapInit, Table
<1>3. /\ StandsFor(Table, Buckets, 0, contents)
      /\ IsFiniteSet(BoundIn(contents)) /\ Cardinality(BoundIn(contents)) = 0
  <2>1. contents = [k \in MapKeys |-> NULL] /\ 0 \in Nat
    BY DEF MapInit
  <2> QED
    BY <1>1, <1>2, <2>1, TableEmpty
<1> QED
  BY <1>1, <1>3 DEF MapInit, MapInv

LEMMA ClearStep == MapInv /\ MapClear => MapInv'
<1> SUFFICES ASSUME MapInv, MapClear PROVE MapInv'
  OBVIOUS
<1>1. buckets \in Nat \ {0} /\ MaxNodes \in Nat /\ array \in [0 .. buckets - 1 -> MapNode \cup {NULL}]
  BY MapConstants DEF MapInv, StandsFor, TableRight, TableType, Table
<1>2. /\ array' = [b \in 0 .. buckets - 1 |-> NULL] /\ node' = [x \in MapNode |-> Unused]
      /\ contents' = [k \in MapKeys |-> NULL] /\ nodes' = 0 /\ mapCounter' = 0 /\ buckets' = buckets
  BY <1>1 DEF MapClear
<1>3. Table' = [array |-> [b \in 0 .. buckets - 1 |-> NULL], node |-> [x \in MapNode |-> Unused]]
  BY <1>2 DEF Table
<1>4. /\ StandsFor(Table', buckets, 0, contents')
      /\ IsFiniteSet(BoundIn(contents')) /\ Cardinality(BoundIn(contents')) = 0
  <2>1. 0 \in Nat
    OBVIOUS
  <2> QED
    BY <1>1, <1>2, <1>3, <2>1, TableEmpty
<1>5. StandsFor(Table, buckets, nodes, contents)'
  BY <1>2, <1>4
<1>6. IsFiniteSet(BoundIn(contents))' /\ (mapCounter = Cardinality(BoundIn(contents)))'
  BY <1>2, <1>4
<1> QED
  BY <1>1, <1>2, <1>5, <1>6 DEF MapInv

LEMMA RemoveStep ==
  ASSUME MapInv, NEW k \in MapKeys, MapRemove(k)
  PROVE  MapInv'
<1> DEFINE t == Table
           x == Found(t, buckets, k)
           b == ReHashF(buckets, k)
           t2 == Unlink(t, x, b)
<1>1. /\ x # NULL /\ Table' = t2 /\ mapCounter' = mapCounter - 1
      /\ contents' = [contents EXCEPT ![k] = NULL] /\ buckets' = buckets /\ nodes' = nodes
  BY DEF MapRemove, Table, Unlink
<1>2. PICK c : /\ TableRight(t, buckets, c) /\ Agrees(t, Live(c, buckets), contents)
               /\ \A y \in Live(c, buckets) : y <= nodes
  BY DEF MapInv, StandsFor
<1>3. /\ buckets \in Nat \ {0} /\ nodes \in 0 .. MaxNodes
      /\ contents \in [MapKeys -> MapValues \cup {NULL}]
      /\ IsFiniteSet(BoundIn(contents)) /\ mapCounter = Cardinality(BoundIn(contents))
  BY DEF MapInv
<1> HIDE DEF t
<1>4. x \in Live(c, buckets) /\ t.node[x].key = k /\ In(c[b], x)
  BY <1>1, <1>2, <1>3, FoundIs
<1>5. x \in MapNode /\ b \in 0 .. buckets - 1 /\ t \in TableType(buckets) /\ ChainsOf(t, buckets, c)
      /\ Hashed(t, buckets, c)
  BY <1>2, <1>3, <1>4, MapConstants DEF Live, TableRight
<1> HIDE DEF x, b
<1>6. PICK c2 : UnlinkedFrom(t, t2, c, c2, buckets, x)
  <2>1. buckets \in Nat
    BY <1>3
  <2> QED
    BY <1>4, <1>5, <2>1, UnlinkChains
<1> HIDE DEF t2
<1>7. /\ t2 \in TableType(buckets) /\ SameData(t, t2) /\ ChainsOf(t2, buckets, c2)
      /\ Live(c2, buckets) = Live(c, buckets) \ {x}
      /\ \A d \in 0 .. buckets - 1 : \A y : In(c2[d], y) => In(c[d], y)
  BY <1>6 DEF UnlinkedFrom
<1>8. \A y \in MapNode : t2.node[y].key = t.node[y].key /\ t2.node[y].value = t.node[y].value
  BY <1>7 DEF SameData
<1>9. Live(c, buckets) \subseteq MapNode
  BY DEF Live
<1>10. Hashed(t2, buckets, c2)
  BY <1>5, <1>7, <1>8, <1>9 DEF Hashed
<1>11. \A y \in Live(c, buckets) : y # x => t.node[y].key # k
  BY <1>4, <1>5 DEF Hashed
<1>12. Agrees(t2, Live(c2, buckets), contents')
  <2>1. ASSUME NEW j \in MapKeys
        PROVE  contents'[j] = NULL <=> \A y \in Live(c2, buckets) : t2.node[y].key # j
    <3>1. CASE j = k
      BY <1>1, <1>3, <1>7, <1>8, <1>9, <1>11, <3>1
    <3>2. CASE j # k
      <4>1. contents'[j] = contents[j]
        BY <1>1, <1>3, <3>2
      <4>2. contents[j] = NULL <=> \A y \in Live(c, buckets) : t.node[y].key # j
        BY <1>2 DEF Agrees
      <4> QED
        BY <1>4, <1>7, <1>8, <1>9, <3>2, <4>1, <4>2
    <3> QED
      BY <3>1, <3>2
  <2>2. ASSUME NEW y \in Live(c2, buckets) PROVE contents'[t2.node[y].key] = t2.node[y].value
    <3>1. y \in Live(c, buckets) /\ y # x /\ t2.node[y].key = t.node[y].key /\ t2.node[y].value = t.node[y].value
      BY <1>7, <1>8, <1>9
    <3>2. t.node[y].key # k /\ t.node[y].key \in MapKeys
      BY <1>5, <1>11, <3>1 DEF Hashed
    <3> QED
      BY <1>1, <1>2, <1>3, <3>1, <3>2 DEF Agrees
  <2> QED
    BY <2>1, <2>2 DEF Agrees
<1>13. StandsFor(Table', buckets', nodes', contents')
  <2>1. \A y \in Live(c2, buckets) : y <= nodes
    BY <1>2, <1>7
  <2> QED
    BY <1>1, <1>7, <1>10, <1>12, <2>1 DEF StandsFor, TableRight
<1>14. BoundIn(contents') = BoundIn(contents) \ {k}
  BY <1>1, <1>3 DEF BoundIn
<1>15. k \in BoundIn(contents)
  BY <1>2, <1>4 DEF Agrees, BoundIn
<1>16. /\ IsFiniteSet(BoundIn(contents'))
       /\ Cardinality(BoundIn(contents')) = Cardinality(BoundIn(contents)) - 1
  BY <1>3, <1>14, <1>15, FS_RemoveElement
<1>17. contents' \in [MapKeys -> MapValues \cup {NULL}]
  BY <1>1, <1>3
<1> QED
  BY <1>1, <1>3, <1>13, <1>16, <1>17 DEF MapInv

(* The table an addition works on, grown or not. *)
GrownTable(t, n, used, g) ==
  \E c : /\ TableRight(t, n, c) /\ Agrees(t, Live(c, n), g)
         /\ \A y \in Live(c, n) : y <= used

LEMMA GrownIs ==
  ASSUME MapInv, NEW new \in Nat \ {0}, NEW t,
         t = IF new = buckets THEN Table ELSE Resized(Table, buckets, new)
  PROVE  GrownTable(t, new, nodes, contents)
<1>1. PICK c : /\ TableRight(Table, buckets, c) /\ Agrees(Table, Live(c, buckets), contents)
               /\ \A y \in Live(c, buckets) : y <= nodes
  BY DEF MapInv, StandsFor
<1>2. buckets \in Nat
  BY DEF MapInv
<1>3. CASE new = buckets
  BY <1>1, <1>3 DEF GrownTable
<1>4. CASE new # buckets
  <2>1. t = Resized(Table, buckets, new)
    BY <1>4
  <2>2. PICK d : /\ TableRight(t, new, d) /\ SameData(Table, t)
                 /\ Live(d, new) = Live(c, buckets)
    BY <1>1, <1>2, <2>1, ResizedIs
  <2>3. \A x \in Live(c, buckets) : t.node[x].key = Table.node[x].key /\ t.node[x].value = Table.node[x].value
    BY <2>2 DEF SameData, Live
  <2>4. Agrees(t, Live(d, new), contents)
    BY <1>1, <2>2, <2>3 DEF Agrees
  <2> QED
    BY <1>1, <2>2, <2>4 DEF GrownTable
<1> QED
  BY <1>3, <1>4

LEMMA ValueSet ==
  ASSUME NEW n \in Nat \ {0}, NEW t, NEW used, NEW g \in [MapKeys -> MapValues \cup {NULL}],
         NEW c, TableRight(t, n, c), Agrees(t, Live(c, n), g),
         \A y \in Live(c, n) : y <= used,
         NEW k \in MapKeys, NEW v \in MapValues, NEW x \in Live(c, n), t.node[x].key = k,
         NEW t2, t2 = [array |-> t.array, node |-> [t.node EXCEPT ![x].value = v]],
         NEW g2, g2 = [g EXCEPT ![k] = v]
  PROVE  StandsFor(t2, n, used, g2)
<1>1. /\ t.array \in [0 .. n - 1 -> MapNode \cup {NULL}] /\ t.node \in [MapNode -> NodeType]
      /\ ChainsOf(t, n, c) /\ Hashed(t, n, c) /\ NULL \notin MapNode
  BY MapConstants DEF TableRight, TableType
<1>2. x \in MapNode /\ Live(c, n) \subseteq MapNode
  BY DEF Live
<1>3. t2.array = t.array /\ t2 \in TableType(n)
  <2>1. [t.node EXCEPT ![x].value = v] \in [MapNode -> NodeType]
    BY <1>1, <1>2 DEF NodeType
  <2> QED
    BY <1>1, <2>1 DEF TableType
<1>4. /\ \A y \in MapNode : y # x => t2.node[y] = t.node[y]
      /\ t2.node[x] = [t.node[x] EXCEPT !.value = v] /\ t.node[x] \in NodeType
  BY <1>1, <1>2
<1>5. /\ t2.node[x].value = v /\ t2.node[x].key = k
      /\ t2.node[x].nextNode = t.node[x].nextNode /\ t2.node[x].prevNode = t.node[x].prevNode
  BY <1>4 DEF NodeType
<1>6. \A y \in MapNode : /\ t2.node[y].key = t.node[y].key
                         /\ t2.node[y].nextNode = t.node[y].nextNode
                         /\ t2.node[y].prevNode = t.node[y].prevNode
  BY <1>4, <1>5
<1>7. ChainsOf(t2, n, c)
  <2>1. \A y \in MapNode : Nexts(t2)[y] = Nexts(t)[y] /\ Prevs(t2)[y] = Prevs(t)[y]
    BY <1>6 DEF Nexts, Prevs
  <2>2. Chains(c, 0 .. n - 1, MapNode, NULL, t.array, Nexts(t), Prevs(t))
    BY <1>1 DEF ChainsOf
  <2>3. \A b \in 0 .. n - 1 : t2.array[b] = t.array[b]
    BY <1>3
  <2> QED
    BY <2>1, <2>2, <2>3, SameChains DEF ChainsOf
<1>8. Hashed(t2, n, c)
  <2>1. \A y \in Live(c, n) : t2.node[y].value \in MapValues
    BY <1>1, <1>2, <1>4, <1>5 DEF Hashed
  <2> QED
    BY <1>1, <1>2, <1>6, <2>1 DEF Hashed
<1>9. \A y \in Live(c, n) : y # x => t.node[y].key # k
  BY <1>1 DEF Hashed
<1>10. Agrees(t2, Live(c, n), g2)
  <2>1. ASSUME NEW j \in MapKeys PROVE g2[j] = NULL <=> \A y \in Live(c, n) : t2.node[y].key # j
    <3>1. CASE j = k
      <4>1. g2[j] # NULL
        BY <3>1, MapConstants
      <4> QED
        BY <1>5, <3>1, <4>1
    <3>2. CASE j # k
      <4>1. g2[j] = g[j]
        BY <3>2
      <4>2. g[j] = NULL <=> \A y \in Live(c, n) : t.node[y].key # j
        BY DEF Agrees
      <4> QED
        BY <1>2, <1>6, <4>1, <4>2
    <3> QED
      BY <3>1, <3>2
  <2>2. ASSUME NEW y \in Live(c, n) PROVE g2[t2.node[y].key] = t2.node[y].value
    <3>1. CASE y = x
      BY <1>5, <3>1
    <3>2. CASE y # x
      <4>1. t.node[y].key # k /\ t.node[y].key \in MapKeys /\ t2.node[y] = t.node[y]
        BY <1>1, <1>2, <1>4, <1>9, <3>2 DEF Hashed
      <4> QED
        BY <4>1 DEF Agrees
    <3> QED
      BY <3>1, <3>2
  <2> QED
    BY <2>1, <2>2 DEF Agrees
<1> QED
  BY <1>3, <1>7, <1>8, <1>10 DEF StandsFor, TableRight

(* A table in which only the entry of x is another; a map with k bound. *)
WithEntry(t2, t, x, e) == t2 = [t EXCEPT !.node[x] = e]
WithBinding(g2, g, k, v) == g2 = [g EXCEPT ![k] = v]

(* The chains do not see the entry of a node that is in none of them. *)
LEMMA EntrySet ==
  ASSUME NEW n \in Nat \ {0}, NEW t, NEW c, TableRight(t, n, c),
         NEW x \in MapNode, x \notin Live(c, n), NEW e \in NodeType,
         NEW t2, WithEntry(t2, t, x, e)
  PROVE  /\ t2 \in TableType(n) /\ t2.node[x] = e /\ ChainsOf(t2, n, c)
         /\ \A y \in MapNode : y # x => t2.node[y] = t.node[y]
<1>1. /\ t.array \in [0 .. n - 1 -> MapNode \cup {NULL}] /\ t.node \in [MapNode -> NodeType]
      /\ t = [array |-> t.array, node |-> t.node] /\ ChainsOf(t, n, c)
  BY DEF TableRight, TableType
<1>2. t2 = [array |-> t.array, node |-> [t.node EXCEPT ![x] = e]]
  BY <1>1 DEF WithEntry
<1>3. t2.array = t.array /\ t2.node = [t.node EXCEPT ![x] = e]
  BY <1>2
<1>4. t2.node[x] = e /\ \A y \in MapNode : y # x => t2.node[y] = t.node[y]
  BY <1>1, <1>3
<1>5. t2 \in TableType(n)
  BY <1>1, <1>2 DEF TableType
<1>6. \A y \in MapNode : InOne(c, 0 .. n - 1, y) => Nexts(t2)[y] = Nexts(t)[y] /\ Prevs(t2)[y] = Prevs(t)[y]
  BY <1>4 DEF Live, Nexts, Prevs
<1>7. ChainsOf(t2, n, c)
  <2>1. Chains(c, 0 .. n - 1, MapNode, NULL, t.array, Nexts(t), Prevs(t))
    BY <1>1 DEF ChainsOf
  <2>2. \A b \in 0 .. n - 1 : t2.array[b] = t.array[b]
    BY <1>3
  <2> QED
    BY <1>6, <2>1, <2>2, SameChains DEF ChainsOf
<1> QED
  BY <1>4, <1>5, <1>7

LEMMA EntryAdded ==
  ASSUME NEW n \in Nat \ {0}, NEW t, NEW used \in Nat, NEW g \in [MapKeys -> MapValues \cup {NULL}],
         NEW c, TableRight(t, n, c), Agrees(t, Live(c, n), g), \A y \in Live(c, n) : y <= used,
         NEW k \in MapKeys, NEW v \in MapValues, \A y \in Live(c, n) : t.node[y].key # k,
         NEW x \in MapNode, x = used + 1,
         NEW e \in NodeType, e.key = k, e.value = v, e.prevNode = NULL,
         NEW t1, WithEntry(t1, t, x, e),
         NEW t2, t2 = Link(t1, x, ReHashF(n, k)),
         NEW g2, WithBinding(g2, g, k, v)
  PROVE  StandsFor(t2, n, x, g2)
<1> DEFINE b == ReHashF(n, k)
           c2 == [d \in 0 .. n - 1 |-> IF d = b THEN Front(x, c[b]) ELSE c[d]]
<1>1. x \notin Live(c, n) /\ Live(c, n) \subseteq MapNode /\ MapNode \subseteq Nat
  <2>1. MapNode \subseteq Nat /\ Live(c, n) \subseteq MapNode
    BY MapConstants DEF Live
  <2> QED
    BY <2>1
<1>2. e \in NodeType /\ e.key = k /\ e.value = v /\ e.prevNode = NULL
  OBVIOUS
<1>3. /\ t1 \in TableType(n) /\ t1.node[x] = e /\ ChainsOf(t1, n, c)
      /\ \A y \in MapNode : y # x => t1.node[y] = t.node[y]
  BY <1>1, <1>2, EntrySet
<1>4. b \in 0 .. n - 1 /\ n \in Nat /\ Hashed(t, n, c)
  BY MapConstants DEF TableRight
<1>5. ButFor(c2, c, 0 .. n - 1, b, Front(x, c[b]))
  BY DEF ButFor
<1> HIDE DEF c2
<1>6. LinkedIn(t1, t2, c, c2, n, x, b)
  <2> HIDE DEF b
  <2>1. t2 = Link(t1, x, b)
    BY DEF b
  <2> QED
    BY <1>1, <1>2, <1>3, <1>4, <1>5, <2>1, LinkChains
<1>7. /\ t2 \in TableType(n) /\ ChainsOf(t2, n, c2) /\ Live(c2, n) = Live(c, n) \cup {x}
      /\ \A d \in 0 .. n - 1 : \A y : In(c2[d], y) <=> In(c[d], y) \/ (d = b /\ y = x)
  BY <1>6 DEF LinkedIn
<1>8. t2.node[x].key = k /\ t2.node[x].value = v
  BY <1>2, <1>3, <1>6 DEF LinkedIn, SameData
<1>9. \A y \in MapNode : y # x => t2.node[y].key = t.node[y].key /\ t2.node[y].value = t.node[y].value
  BY <1>3, <1>6 DEF LinkedIn, SameData
<1>10. \A y \in Live(c, n) : /\ y # x /\ y \in MapNode
                             /\ t2.node[y].key = t.node[y].key /\ t2.node[y].value = t.node[y].value
  BY <1>1, <1>9
<1>11. \A d \in 0 .. n - 1 : \A y \in MapNode : In(c[d], y) => y \in Live(c, n)
  BY DEF Live, InOne
<1>12. Hashed(t2, n, c2)
  <2>1. ASSUME NEW d \in 0 .. n - 1, NEW y \in MapNode, In(c2[d], y)
        PROVE  ReHashF(n, t2.node[y].key) = d
    <3>1. CASE d = b /\ y = x
      BY <1>8, <3>1
    <3>2. CASE In(c[d], y)
      <4>1. ReHashF(n, t.node[y].key) = d /\ y \in Live(c, n)
        BY <1>4, <1>11, <3>2 DEF Hashed
      <4> QED
        BY <1>10, <4>1
    <3> QED
      BY <1>7, <2>1, <3>1, <3>2
  <2>2. \A y \in Live(c2, n) : t2.node[y].key \in MapKeys /\ t2.node[y].value \in MapValues
    BY <1>4, <1>7, <1>8, <1>10 DEF Hashed
  <2>3. ASSUME NEW y \in Live(c2, n), NEW z \in Live(c2, n), t2.node[y].key = t2.node[z].key
        PROVE  y = z
    <3>1. y \in Live(c, n) \/ y = x
      BY <1>7
    <3>2. z \in Live(c, n) \/ z = x
      BY <1>7
    <3> QED
      BY <1>4, <1>8, <1>10, <2>3, <3>1, <3>2 DEF Hashed
  <2> QED
    BY <2>1, <2>2, <2>3 DEF Hashed
<1>13. Agrees(t2, Live(c2, n), g2)
  <2>0. g2 = [g EXCEPT ![k] = v]
    BY DEF WithBinding
  <2>1. ASSUME NEW j \in MapKeys PROVE g2[j] = NULL <=> \A y \in Live(c2, n) : t2.node[y].key # j
    <3>1. CASE j = k
      <4>1. g2[j] # NULL
        BY <2>0, <3>1, MapConstants
      <4> QED
        BY <1>7, <1>8, <3>1, <4>1
    <3>2. CASE j # k
      <4>1. g2[j] = g[j]
        BY <2>0, <3>2
      <4>2. g[j] = NULL <=> \A y \in Live(c, n) : t.node[y].key # j
        BY DEF Agrees
      <4> QED
        BY <1>7, <1>8, <1>10, <3>2, <4>1, <4>2
    <3> QED
      BY <3>1, <3>2
  <2>2. ASSUME NEW y \in Live(c2, n) PROVE g2[t2.node[y].key] = t2.node[y].value
    <3>1. CASE y = x
      BY <1>8, <2>0, <3>1
    <3>2. CASE y # x
      <4>1. y \in Live(c, n)
        BY <1>7, <3>2
      <4>2. t.node[y].key \in MapKeys /\ t.node[y].key # k
        BY <1>4, <4>1 DEF Hashed
      <4>3. g[t.node[y].key] = t.node[y].value
        BY <4>1 DEF Agrees
      <4> QED
        BY <1>10, <2>0, <4>1, <4>2, <4>3
    <3> QED
      BY <3>1, <3>2
  <2> QED
    BY <2>1, <2>2 DEF Agrees
<1>14. ASSUME NEW y \in Live(c2, n) PROVE y <= x
  <2>1. CASE y = x
    BY <1>1, <2>1
  <2>2. CASE y \in Live(c, n)
    <3>1. y \in Nat /\ y <= used
      BY <1>1, <2>2
    <3> QED
      BY <3>1
  <2> QED
    BY <1>7, <2>1, <2>2
<1> QED
  BY <1>7, <1>12, <1>13, <1>14 DEF StandsFor, TableRight

LEMMA AddStep ==
  ASSUME MapInv, NEW k \in MapKeys, NEW v \in MapValues, MapAdd(k, v)
  PROVE  MapInv'
<1> DEFINE new == IF mapCounter > Factor * buckets THEN 2 * buckets ELSE buckets
           t == IF new = buckets THEN Table ELSE Resized(Table, buckets, new)
           old == Found(t, new, k)
           n == nodes + 1
           e == [Unused EXCEPT !.key = k, !.value = v]
           t1 == [t EXCEPT !.node[n] = e]
           added == Link(t1, n, ReHashF(new, k))
           t2 == [array |-> t.array, node |-> [t.node EXCEPT ![old].value = v]]
<1>1. /\ buckets' = new
      /\ \/ /\ old # NULL
            /\ node' = [t.node EXCEPT ![old].value = v] /\ array' = t.array
            /\ UNCHANGED <<nodes, mapCounter>>
         \/ /\ old = NULL /\ nodes < MaxNodes
            /\ node' = added.node /\ array' = added.array
            /\ nodes' = n /\ mapCounter' = mapCounter + 1
      /\ contents' = [contents EXCEPT ![k] = v]
  BY DEF MapAdd
<1>2. /\ buckets \in Nat \ {0} /\ nodes \in 0 .. MaxNodes /\ MaxNodes \in Nat
      /\ contents \in [MapKeys -> MapValues \cup {NULL}]
      /\ IsFiniteSet(BoundIn(contents)) /\ mapCounter = Cardinality(BoundIn(contents))
  BY MapConstants DEF MapInv
<1>3. new \in Nat \ {0}
  BY <1>2
<1> HIDE DEF new
<1>4. PICK c : /\ TableRight(t, new, c) /\ Agrees(t, Live(c, new), contents)
               /\ \A y \in Live(c, new) : y <= nodes
  BY <1>3, GrownIs DEF GrownTable
<1> HIDE DEF t
<1>5. /\ old = NULL => \A y \in Live(c, new) : t.node[y].key # k
      /\ old # NULL => old \in Live(c, new) /\ t.node[old].key = k
  BY <1>3, <1>4, FoundIs
<1> HIDE DEF old
<1>6. contents' \in [MapKeys -> MapValues \cup {NULL}]
  BY <1>1, <1>2
<1>7. BoundIn(contents') = BoundIn(contents) \cup {k}
  BY <1>1, <1>2, MapConstants DEF BoundIn
<1>8. (k \in BoundIn(contents)) <=> old # NULL
  BY <1>4, <1>5 DEF Agrees, BoundIn
<1>9. /\ IsFiniteSet(BoundIn(contents'))
      /\ Cardinality(BoundIn(contents')) = Cardinality(BoundIn(contents)) + (IF old # NULL THEN 0 ELSE 1)
  <2>1. /\ IsFiniteSet(BoundIn(contents) \cup {k})
        /\ Cardinality(BoundIn(contents) \cup {k}) =
             IF k \in BoundIn(contents) THEN Cardinality(BoundIn(contents)) ELSE Cardinality(BoundIn(contents)) + 1
    BY <1>2, FS_AddElement
  <2>2. Cardinality(BoundIn(contents)) \in Nat
    BY <1>2, FS_CardinalityType
  <2> QED
    BY <1>7, <1>8, <2>1, <2>2
<1>10. Cardinality(BoundIn(contents)) \in Nat
  BY <1>2, FS_CardinalityType
<1>11. CASE old # NULL
  <2>1. /\ node' = [t.node EXCEPT ![old].value = v] /\ array' = t.array
        /\ nodes' = nodes /\ mapCounter' = mapCounter
    BY <1>1, <1>11
  <2>2. Table' = t2
    BY <2>1 DEF Table
  <2>3. StandsFor(t2, new, nodes, contents')
    <3>1. contents' = [contents EXCEPT ![k] = v] /\ old \in Live(c, new) /\ t.node[old].key = k
      BY <1>1, <1>5, <1>11
    <3> HIDE DEF t2
    <3>2. t2 = [array |-> t.array, node |-> [t.node EXCEPT ![old].value = v]]
      BY DEF t2
    <3> QED
      BY <1>2, <1>3, <1>4, <3>1, <3>2, ValueSet
  <2>4. StandsFor(Table', buckets', nodes', contents')
    BY <1>1, <2>1, <2>2, <2>3
  <2>5. mapCounter' = Cardinality(BoundIn(contents'))
    BY <1>2, <1>9, <1>10, <1>11, <2>1
  <2> QED
    BY <1>1, <1>2, <1>3, <1>6, <1>9, <2>1, <2>4, <2>5 DEF MapInv
<1>12. CASE old = NULL
  <2>1. /\ nodes < MaxNodes /\ node' = added.node /\ array' = added.array
        /\ nodes' = n /\ mapCounter' = mapCounter + 1
    BY <1>1, <1>12
  <2>2. n \in MapNode /\ n \in 0 .. MaxNodes /\ n = nodes + 1 /\ nodes \in Nat
    BY <1>2, <2>1 DEF MapNode
  <2>3. StandsFor(added, new, n, contents')
    <3>1. WithBinding(contents', contents, k, v) /\ \A y \in Live(c, new) : t.node[y].key # k
      BY <1>1, <1>5, <1>12 DEF WithBinding
    <3> HIDE DEF n
    <3>2. e \in NodeType /\ e.key = k /\ e.value = v /\ e.prevNode = NULL
      BY DEF NodeType, Unused
    <3> HIDE DEF e
    <3> HIDE DEF t1
    <3>3. WithEntry(t1, t, n, e)
      BY DEF t1, WithEntry
    <3> HIDE DEF added
    <3>4. added = Link(t1, n, ReHashF(new, k))
      BY DEF added
    <3> QED
      BY <1>2, <1>3, <1>4, <2>2, <3>1, <3>2, <3>3, <3>4, EntryAdded
  <2>4. Table' = added
    <3>1. added = [array |-> added.array, node |-> added.node]
      BY DEF Link
    <3> QED
      BY <2>1, <3>1 DEF Table
  <2>5. StandsFor(Table', buckets', nodes', contents')
    BY <1>1, <2>1, <2>3, <2>4
  <2>6. mapCounter' = Cardinality(BoundIn(contents'))
    BY <1>2, <1>9, <1>10, <1>12, <2>1
  <2> QED
    BY <1>1, <1>2, <1>3, <1>6, <1>9, <2>1, <2>2, <2>5, <2>6 DEF MapInv
<1> QED
  BY <1>11, <1>12

LEMMA MapStep == MapInv /\ [MapNext]_mapVars => MapInv'
<1> SUFFICES ASSUME MapInv, [MapNext]_mapVars PROVE MapInv'
  OBVIOUS
<1>1. CASE MapClear
  BY <1>1, ClearStep
<1>2. ASSUME NEW k \in MapKeys, MapRemove(k) PROVE MapInv'
  BY <1>2, RemoveStep
<1>3. ASSUME NEW k \in MapKeys, NEW v \in MapValues, MapAdd(k, v) PROVE MapInv'
  BY <1>3, AddStep
<1>4. CASE UNCHANGED mapVars
  <2>1. /\ buckets' = buckets /\ nodes' = nodes /\ contents' = contents /\ mapCounter' = mapCounter
        /\ array' = array /\ node' = node
    BY <1>4 DEF mapVars
  <2>2. Table' = Table /\ BoundIn(contents') = BoundIn(contents)
    BY <2>1 DEF Table
  <2>3. StandsFor(Table', buckets', nodes', contents')
    BY <2>1, <2>2 DEF MapInv
  <2> QED
    BY <2>1, <2>2, <2>3 DEF MapInv
<1> QED
  BY <1>1, <1>2, <1>3, <1>4 DEF MapNext

(* Through every order of additions, removals and growth. *)
LEMMA MapRightly == MapInv => HashMapIsMap
<1> SUFFICES ASSUME MapInv PROVE HashMapIsMap
  OBVIOUS
<1> DEFINE order == Flatten(Table, buckets)
           bound == BoundIn(contents)
           L == Len(order)
           key == [i \in 1 .. L |-> node[order[i]].key]
<1>1. /\ buckets \in Nat \ {0} /\ contents \in [MapKeys -> MapValues \cup {NULL}]
      /\ mapCounter = Cardinality(bound) /\ NULL \notin MapValues
  BY MapConstants DEF MapInv
<1>2. PICK c : TableRight(Table, buckets, c) /\ Agrees(Table, Live(c, buckets), contents)
  BY DEF MapInv, StandsFor
<1>3. Table.node = node
  BY DEF Table
<1>4. /\ \A x \in Live(c, buckets) : node[x].key \in MapKeys /\ node[x].value \in MapValues
      /\ \A x, y \in Live(c, buckets) : node[x].key = node[y].key => x = y
  BY <1>2, <1>3 DEF TableRight, Hashed
<1>5. /\ \A k \in MapKeys : contents[k] = NULL <=> \A x \in Live(c, buckets) : node[x].key # k
      /\ \A x \in Live(c, buckets) : contents[node[x].key] = node[x].value
  BY <1>2, <1>3 DEF Agrees
<1>6. ASSUME NEW k \in MapKeys PROVE MapSearch(k) = contents[k]
  <2> DEFINE x == Found(Table, buckets, k)
  <2>1. MapSearch(k) = IF x = NULL THEN NULL ELSE node[x].value
    BY DEF MapSearch
  <2>2. /\ x = NULL => \A y \in Live(c, buckets) : Table.node[y].key # k
        /\ x # NULL => x \in Live(c, buckets) /\ Table.node[x].key = k
    <3> HIDE DEF x
    <3>1. x = Found(Table, buckets, k)
      BY DEF x
    <3> QED
      BY <1>1, <1>2, <3>1, FoundIs
  <2> HIDE DEF x
  <2>3. CASE x = NULL
    BY <1>3, <1>5, <2>1, <2>2, <2>3
  <2>4. CASE x # NULL
    BY <1>3, <1>5, <2>1, <2>2, <2>4
  <2> QED
    BY <2>3, <2>4
<1>7. order \in Seq(MapNode) /\ Once(order) /\ Listed(order) = Live(c, buckets)
  BY <1>1, <1>2, FlattenIs DEF TableRight
<1> HIDE DEF order
<1>8. L \in Nat /\ DOMAIN order = 1 .. L /\ \A i \in 1 .. L : order[i] \in Live(c, buckets)
  BY <1>7 DEF Listed
<1>9. \A x \in Live(c, buckets) : \E i \in 1 .. L : order[i] = x
  BY <1>7 DEF Listed
<1>10. \A i, j \in 1 .. L : order[i] = order[j] => i = j
  BY <1>7 DEF Once
<1> HIDE DEF L
<1>11. bound = {k \in MapKeys : contents[k] # NULL}
  BY DEF BoundIn
<1>12. \A i \in 1 .. L : key[i] = node[order[i]].key /\ key[i] \in bound
  <2> SUFFICES ASSUME NEW i \in 1 .. L PROVE key[i] = node[order[i]].key /\ key[i] \in bound
    OBVIOUS
  <2>1. order[i] \in Live(c, buckets)
    BY <1>8
  <2>2. node[order[i]].key \in MapKeys /\ contents[node[order[i]].key] # NULL
    BY <1>1, <1>4, <1>5, <2>1
  <2> QED
    BY <1>11, <2>2
<1>13. \A k \in bound : \E i \in 1 .. L : key[i] = k
  <2> SUFFICES ASSUME NEW k \in bound PROVE \E i \in 1 .. L : key[i] = k
    OBVIOUS
  <2>1. PICK x \in Live(c, buckets) : node[x].key = k
    BY <1>5, <1>11
  <2>2. PICK i \in 1 .. L : order[i] = x
    BY <1>9
  <2> QED
    BY <1>12, <2>1, <2>2
<1>14. \A i, j \in 1 .. L : key[i] = key[j] => i = j
  BY <1>4, <1>8, <1>10, <1>12
<1>15. Cardinality(bound) = L
  <2>1. key \in [1 .. L -> bound]
    BY <1>12
  <2> HIDE DEF key, bound
  <2>2. key \in Bijection(1 .. L, bound)
    BY <1>13, <1>14, <2>1 DEF Bijection, Injection, Surjection, IsInjective
  <2>3. ExistsBijection(1 .. L, bound)
    BY <2>2 DEF ExistsBijection
  <2> QED
    BY <1>8, <2>3, FS_CountingElements
<1>16. {node[order[i]].key : i \in 1 .. L} = bound
  <2>1. \A i \in 1 .. L : node[order[i]].key \in bound
    BY <1>12
  <2>2. \A k \in bound : \E i \in 1 .. L : node[order[i]].key = k
    BY <1>12, <1>13
  <2> HIDE DEF bound
  <2> QED
    BY <2>1, <2>2
<1>17. {k \in MapKeys : contents[k] # NULL} = bound
  BY DEF BoundIn
<1>18. MapForeach = order /\ MapSize = mapCounter /\ Len(order) = L
  BY DEF order, L, MapForeach, MapSize
<1> HIDE DEF bound
<1>19. Len(MapForeach) = Cardinality(bound) /\ MapSize = Cardinality(bound)
  BY <1>1, <1>15, <1>18
<1>20. {node[MapForeach[i]].key : i \in DOMAIN MapForeach} = bound
  BY <1>8, <1>16, <1>18
<1> QED
  BY <1>6, <1>17, <1>19, <1>20 DEF HashMapIsMap

(* Whatever the keys, their hashes and the number of buckets: a search finds *)
(* what was last added and not removed since, an iteration visits every       *)
(* binding once, and the counter is their number, through every growth of     *)
(* LemonResizeHashMap.                                                         *)
THEOREM HashMapIsRight == MapSpec => []HashMapIsMap
<1>1. MapInit => MapInv
  BY MapStart
<1>2. MapInv /\ [MapNext]_mapVars => MapInv'
  BY MapStep
<1>3. MapInv => HashMapIsMap
  BY MapRightly
<1> QED
  BY <1>1, <1>2, <1>3, PTL DEF MapSpec

-----------------------------------------------------------------------------
(* The IRP table. *)
FileBucket(n, h) == HandleHash[h] % n

LEMMA IrpConstants ==
  /\ NoIrp \notin Handles /\ NoIrp \notin Irps /\ IsFiniteSet(Handles) /\ IsFiniteSet(Irps)
  /\ FirstBuckets \in Nat \ {0} /\ Cardinality(Handles) \in Nat /\ Cardinality(Irps) \in Nat
  /\ \A h \in Handles, n \in Nat \ {0} : FileBucket(n, h) \in 0 .. n - 1
<1>1. /\ NoIrp \notin Handles \cup Irps /\ IsFiniteSet(Handles) /\ IsFiniteSet(Irps)
      /\ FirstBuckets \in Nat \ {0} /\ HandleHash \in [Handles -> Nat]
  BY IrpTableAssumption DEF IrpTableAssumption
<1>2. ASSUME NEW h \in Handles, NEW n \in Nat \ {0} PROVE FileBucket(n, h) \in 0 .. n - 1
  <2>1. HandleHash[h] \in Nat
    BY <1>1
  <2> QED
    BY <2>1 DEF FileBucket
<1> QED
  BY <1>1, <1>2, FS_CardinalityType

(* Two functions that are made by walking along the same links. *)
LEMMA WalkedIs ==
  ASSUME NEW B, NEW X, IsFiniteSet(X), NEW c, NEW head, NEW next, NEW pred,
         Chains(c, B, X, NoIrp, head, next, pred), NEW b \in B,
         NEW first, first = head[b], NEW most, most = Cardinality(X)
  PROVE  Walked(first, next, most) = c[b]
<1> DEFINE m == most + 1
           Eq(f) == f = [i \in 1 .. m |-> IF i = 1 THEN first
                                          ELSE IF f[i - 1] = NoIrp THEN NoIrp ELSE next[f[i - 1]]]
           f == CHOOSE f : Eq(f)
           s == c[b]
           g == [i \in 1 .. m |-> IF i <= Len(s) THEN s[i] ELSE NoIrp]
<1>1. NoIrp \notin X /\ s \in Seq(X) /\ Follow(s, first, next, pred, NoIrp)
  BY DEF Chains
<1>2. m \in Nat /\ Len(s) <= m
  <2>1. Len(c[b]) <= Cardinality(X) /\ Cardinality(X) \in Nat
    BY ChainLength
  <2> QED
    BY <1>1, <2>1
<1>3. Walked(first, next, most) = WalkedTo(f, NoIrp)
  BY DEF Walked, WalkedTo
<1> HIDE DEF s, m
<1>4. WalkEq(g, m, first, next, NoIrp)
  <2> HIDE DEF g
  <2> QED
    BY <1>1, <1>2, WalkExists DEF g
<1>5. Eq(f)
  <2>1. Eq(g)
    <3> HIDE DEF g
    <3> QED
      BY <1>4 DEF WalkEq
  <2> HIDE DEF g
  <2> QED
    BY <2>1
<1>6. WalkEq(f, m, first, next, NoIrp)
  <2> HIDE DEF f
  <2> QED
    BY <1>5 DEF WalkEq
<1> HIDE DEF f
<1>7. WalkedTo(f, NoIrp) = s
  BY <1>1, <1>2, <1>6, WalkIsChain
<1> QED
  BY <1>3, <1>7 DEF s

(* A chain from its end, and what comes to its end. *)
LastOf(s, Z) == IF Len(s) = 0 THEN Z ELSE s[Len(s)]

LEMMA BackwardsIs ==
  ASSUME NEW X, NEW s \in Seq(X)
  PROVE  Backwards(s) \in Seq(X) /\ Len(Backwards(s)) = Len(s)
         /\ \A n \in 1 .. Len(s) : Backwards(s)[n] = s[Len(s) + 1 - n]
BY DEF Backwards

LEMMA BackwardsFollow ==
  ASSUME NEW X, NEW s \in Seq(X), NEW Z, NEW first, NEW last, NEW next, NEW pred,
         Follow(s, first, next, pred, Z), last = LastOf(s, Z)
  PROVE  Follow(Backwards(s), last, pred, next, Z)
<1> DEFINE r == Backwards(s)
           L == Len(s)
<1>1. r \in Seq(X) /\ Len(r) = L /\ L \in Nat /\ \A n \in 1 .. L : r[n] = s[L + 1 - n]
  BY BackwardsIs
<1>2. \A n \in 1 .. L : /\ next[s[n]] = IF n = L THEN Z ELSE s[n + 1]
                        /\ pred[s[n]] = IF n = 1 THEN Z ELSE s[n - 1]
  BY DEF Follow
<1>3. last = IF L = 0 THEN Z ELSE s[L]
  BY DEF LastOf
<1> HIDE DEF r, L
<1>4. last = IF L = 0 THEN Z ELSE r[1]
  <2>1. L # 0 => 1 \in 1 .. L /\ L + 1 - 1 = L
    BY <1>1
  <2> QED
    BY <1>1, <1>3, <2>1
<1>5. ASSUME NEW n \in 1 .. L
      PROVE  /\ pred[r[n]] = IF n = L THEN Z ELSE r[n + 1]
             /\ next[r[n]] = IF n = 1 THEN Z ELSE r[n - 1]
  <2> DEFINE k == L + 1 - n
  <2>1. k \in 1 .. L /\ r[n] = s[k] /\ (k = 1 <=> n = L) /\ (k = L <=> n = 1)
    BY <1>1
  <2>2. n # L => n + 1 \in 1 .. L /\ L + 1 - (n + 1) = k - 1
    BY <1>1
  <2>3. n # 1 => n - 1 \in 1 .. L /\ L + 1 - (n - 1) = k + 1
    BY <1>1
  <2>4. n # L => r[n + 1] = s[k - 1]
    BY <1>1, <2>2
  <2>5. n # 1 => r[n - 1] = s[k + 1]
    BY <1>1, <2>3
  <2>6. /\ next[s[k]] = IF k = L THEN Z ELSE s[k + 1]
        /\ pred[s[k]] = IF k = 1 THEN Z ELSE s[k - 1]
    BY <1>2, <2>1
  <2> HIDE DEF k
  <2> QED
    BY <2>1, <2>4, <2>5, <2>6
<1> QED
  BY <1>1, <1>4, <1>5 DEF Follow, r

(* Chains of which some are left out, and some are begun. *)
OtherChains(c, B, head, c2, B2, head2, Z) ==
  \A b \in B2 : \/ b \in B /\ c2[b] = c[b] /\ head2[b] = head[b]
                \/ c2[b] = <<>> /\ head2[b] = Z

LEMMA ChainsAreOther ==
  ASSUME NEW B, NEW X, NEW Z, NEW c, NEW head, NEW next, NEW pred,
         Chains(c, B, X, Z, head, next, pred),
         NEW B2, NEW c2 \in [B2 -> Seq(X)], NEW head2, OtherChains(c, B, head, c2, B2, head2, Z)
  PROVE  Chains(c2, B2, X, Z, head2, next, pred)
<1>1. /\ Z \notin X /\ c \in [B -> Seq(X)] /\ Apart(c, B)
      /\ \A b \in B : Follow(c[b], head[b], next, pred, Z)
  BY DEF Chains
<1>2. ASSUME NEW b \in B2, NEW n \in 1 .. Len(c2[b]) PROVE b \in B /\ c2[b] = c[b]
  <2>1. CASE c2[b] = <<>>
    <3>1. Len(c2[b]) = 0
      BY <2>1
    <3> QED
      BY <3>1
  <2> QED
    BY <2>1 DEF OtherChains
<1>3. Apart(c2, B2)
  <2> SUFFICES ASSUME NEW b \in B2, NEW d \in B2, NEW n \in 1 .. Len(c2[b]), NEW k \in 1 .. Len(c2[d]),
                      c2[b][n] = c2[d][k]
               PROVE  b = d /\ n = k
    BY DEF Apart
  <2>1. b \in B /\ c2[b] = c[b] /\ d \in B /\ c2[d] = c[d]
    BY <1>2
  <2> QED
    BY <1>1, <2>1 DEF Apart
<1>4. ASSUME NEW b \in B2 PROVE Follow(c2[b], head2[b], next, pred, Z)
  <2>1. CASE b \in B /\ c2[b] = c[b] /\ head2[b] = head[b]
    BY <1>1, <2>1
  <2>2. CASE c2[b] = <<>> /\ head2[b] = Z
    <3>1. Len(c2[b]) = 0
      BY <2>2
    <3> QED
      BY <2>2, <3>1 DEF Follow
  <2> QED
    BY <2>1, <2>2 DEF OtherChains
<1> QED
  BY <1>1, <1>3, <1>4 DEF Chains

(* A chain of which some members stay, in whatever order: the links of them. *)
Parted(X, c, b, s, next, pred, next2, pred2) ==
  /\ Once(s) /\ \A n \in 1 .. Len(s) : In(c[b], s[n])
  /\ \A y \in X : ~In(s, y) => next2[y] = next[y] /\ pred2[y] = pred[y]

LEMMA PartChains ==
  ASSUME NEW B, NEW X, NEW Z, NEW c, NEW head, NEW next, NEW pred,
         Chains(c, B, X, Z, head, next, pred), NEW b \in B, NEW s \in Seq(X),
         NEW head2, NEW next2, NEW pred2, Parted(X, c, b, s, next, pred, next2, pred2),
         Follow(s, head2[b], next2, pred2, Z), \A d \in B : d # b => head2[d] = head[d],
         NEW c2, ButFor(c2, c, B, b, s)
  PROVE  Chains(c2, B, X, Z, head2, next2, pred2)
<1>1. /\ Z \notin X /\ c \in [B -> Seq(X)] /\ Apart(c, B)
      /\ \A d \in B : Follow(c[d], head[d], next, pred, Z)
  BY DEF Chains
<1>2. /\ Once(s) /\ \A n \in 1 .. Len(s) : In(c[b], s[n])
      /\ \A y \in X : ~In(s, y) => next2[y] = next[y] /\ pred2[y] = pred[y]
  BY DEF Parted
<1>3. c2 \in [B -> Seq(X)] /\ c2[b] = s /\ \A d \in B : d # b => c2[d] = c[d]
  BY <1>1 DEF ButFor
<1>4. ASSUME NEW d \in B, d # b, NEW n \in 1 .. Len(c[d]) PROVE c[d][n] \in X /\ ~In(s, c[d][n])
  <2>1. c[d][n] \in X
    BY <1>1
  <2>2. ASSUME NEW k \in 1 .. Len(s), s[k] = c[d][n] PROVE FALSE
    <3>1. PICK l \in 1 .. Len(c[b]) : c[b][l] = s[k]
      BY <1>2 DEF In
    <3> QED
      BY <1>1, <1>4, <2>2, <3>1 DEF Apart
  <2> QED
    BY <2>1, <2>2 DEF In
<1>5. Apart(c2, B)
  <2> SUFFICES ASSUME NEW d \in B, NEW e \in B, NEW n \in 1 .. Len(c2[d]), NEW k \in 1 .. Len(c2[e]),
                      c2[d][n] = c2[e][k]
               PROVE  d = e /\ n = k
    BY DEF Apart
  <2>1. CASE d = b /\ e = b
    BY <1>2, <1>3, <2>1 DEF Once
  <2>2. CASE d = b /\ e # b
    <3>1. k \in 1 .. Len(c[e]) /\ c2[e][k] = c[e][k] /\ In(s, c2[d][n])
      BY <1>3, <2>2 DEF In
    <3> QED
      BY <1>4, <2>2, <3>1
  <2>3. CASE d # b /\ e = b
    <3>1. n \in 1 .. Len(c[d]) /\ c2[d][n] = c[d][n] /\ In(s, c2[e][k])
      BY <1>3, <2>3 DEF In
    <3> QED
      BY <1>4, <2>3, <3>1
  <2>4. CASE d # b /\ e # b
    BY <1>1, <1>3, <2>4 DEF Apart
  <2> QED
    BY <2>1, <2>2, <2>3, <2>4
<1>6. ASSUME NEW d \in B PROVE Follow(c2[d], head2[d], next2, pred2, Z)
  <2>1. CASE d = b
    BY <1>3, <2>1
  <2>2. CASE d # b
    <3>1. Follow(c[d], head[d], next, pred, Z) /\ head2[d] = head[d] /\ c2[d] = c[d]
      BY <1>1, <1>3, <2>2
    <3>2. \A n \in 1 .. Len(c[d]) : next2[c[d][n]] = next[c[d][n]] /\ pred2[c[d][n]] = pred[c[d][n]]
      BY <1>2, <1>4, <2>2
    <3> QED
      BY <3>1, <3>2 DEF Follow
  <2> QED
    BY <2>1, <2>2
<1> QED
  BY <1>1, <1>3, <1>5, <1>6 DEF Chains

(* A member that is in no chain is put behind the chain of b, whose last one is e. *)
Behind(B, X, Z, b, x, e, head, next, pred, head2, next2, pred2) ==
  /\ head2[b] = IF head[b] = Z THEN x ELSE head[b]
  /\ \A d \in B : d # b => head2[d] = head[d]
  /\ next2[x] = Z /\ \A y \in X : y # x => next2[y] = IF y = e THEN x ELSE next[y]
  /\ pred2[x] = e /\ \A y \in X : y # x => pred2[y] = pred[y]

LEMMA BehindChains ==
  ASSUME NEW B, NEW X, NEW Z, NEW c, NEW head, NEW next, NEW pred,
         Chains(c, B, X, Z, head, next, pred),
         NEW b \in B, NEW x \in X, ~InOne(c, B, x), NEW e, e = LastOf(c[b], Z),
         NEW head2, NEW next2, NEW pred2,
         Behind(B, X, Z, b, x, e, head, next, pred, head2, next2, pred2),
         NEW c2, ButFor(c2, c, B, b, Append(c[b], x))
  PROVE  Chains(c2, B, X, Z, head2, next2, pred2) /\ x = LastOf(c2[b], Z)
<1> DEFINE s == c[b]
           r == Append(s, x)
           L == Len(s)
<1>0. /\ head2[b] = IF head[b] = Z THEN x ELSE head[b]
      /\ \A d \in B : d # b => head2[d] = head[d]
      /\ next2[x] = Z /\ \A y \in X : y # x => next2[y] = IF y = e THEN x ELSE next[y]
      /\ pred2[x] = e /\ \A y \in X : y # x => pred2[y] = pred[y]
  BY DEF Behind
<1>1. /\ Z \notin X /\ c \in [B -> Seq(X)] /\ Apart(c, B) /\ s \in Seq(X)
      /\ \A d \in B : Follow(c[d], head[d], next, pred, Z)
  BY DEF Chains
<1>2. /\ r \in Seq(X) /\ Len(r) = L + 1 /\ r[L + 1] = x /\ L \in Nat
      /\ \A n \in 1 .. L : r[n] = s[n]
  BY <1>1
<1>3. c2 \in [B -> Seq(X)] /\ c2[b] = r /\ \A d \in B : d # b => c2[d] = c[d]
  BY <1>1, <1>2 DEF ButFor
<1>4. e = IF L = 0 THEN Z ELSE s[L]
  BY DEF LastOf
<1>5. \A d \in B : \A n \in 1 .. Len(c[d]) : c[d][n] \in X /\ c[d][n] # x
  BY <1>1 DEF InOne, In
<1>6. \A n \in 1 .. L : s[n] \in X /\ s[n] # x
  BY <1>5
<1>7. Follow(s, head[b], next, pred, Z)
  BY <1>1
<1>8. \A n, k \in 1 .. L : s[n] = s[k] => n = k
  BY <1>1 DEF Apart
<1>9. \A d \in B : d # b => \A n \in 1 .. Len(c[d]) : c[d][n] # e
  <2> SUFFICES ASSUME NEW d \in B, d # b, NEW n \in 1 .. Len(c[d]), c[d][n] = e PROVE FALSE
    OBVIOUS
  <2>1. L # 0 /\ L \in 1 .. L /\ e = s[L]
    BY <1>1, <1>2, <1>4, <1>5
  <2> QED
    BY <1>1, <2>1 DEF Apart
<1> HIDE DEF s, r, L
<1>10. Follow(r, head2[b], next2, pred2, Z)
  <2>1. head2[b] = r[1]
    <3>1. CASE L = 0
      BY <1>0, <1>2, <1>7, <3>1 DEF Follow, L
    <3>2. CASE L # 0
      <4>1. 1 \in 1 .. L
        BY <1>2, <3>2
      <4>2. head[b] = s[1] /\ s[1] # Z
        BY <1>1, <1>6, <1>7, <3>2, <4>1 DEF Follow, L
      <4> QED
        BY <1>0, <1>2, <4>1, <4>2
    <3> QED
      BY <3>1, <3>2
  <2>2. ASSUME NEW n \in 1 .. L + 1
        PROVE  /\ next2[r[n]] = IF n = L + 1 THEN Z ELSE r[n + 1]
               /\ pred2[r[n]] = IF n = 1 THEN Z ELSE r[n - 1]
    <3>1. CASE n = L + 1
      <4>1. n # 1 => L \in 1 .. L /\ n - 1 = L /\ L # 0
        BY <1>2, <3>1
      <4>2. n = 1 => L = 0
        BY <1>2, <3>1
      <4>3. r[n] = x
        BY <1>2, <3>1
      <4> QED
        BY <1>0, <1>2, <1>4, <3>1, <4>1, <4>2, <4>3
    <3>2. CASE n # L + 1
      <4>1. n \in 1 .. L /\ r[n] = s[n] /\ s[n] \in X /\ s[n] # x /\ L # 0
        BY <1>2, <1>6, <3>2
      <4>2. n # L => n + 1 \in 1 .. L
        BY <1>2, <4>1
      <4>3. n # 1 => n - 1 \in 1 .. L
        BY <1>2, <4>1
      <4>4. /\ next[s[n]] = IF n = L THEN Z ELSE s[n + 1]
            /\ pred[s[n]] = IF n = 1 THEN Z ELSE s[n - 1]
        BY <1>7, <4>1 DEF Follow, L
      <4>5. pred2[r[n]] = IF n = 1 THEN Z ELSE r[n - 1]
        BY <1>0, <1>2, <4>1, <4>3, <4>4
      <4>6. next2[r[n]] = r[n + 1]
        <5>1. CASE n = L
          BY <1>0, <1>2, <1>4, <4>1, <5>1
        <5>2. CASE n # L
          <6>1. s[n] # e
            <7>1. L \in 1 .. L
              BY <1>2, <4>1
            <7> QED
              BY <1>4, <1>8, <4>1, <5>2, <7>1 DEF L
          <6> QED
            BY <1>0, <1>2, <4>1, <4>2, <4>4, <5>2, <6>1
        <5> QED
          BY <5>1, <5>2
      <4> QED
        BY <3>2, <4>5, <4>6
    <3> QED
      BY <3>1, <3>2
  <2>3. Len(r) # 0
    BY <1>2
  <2> QED
    BY <1>2, <2>1, <2>2, <2>3 DEF Follow
<1>11. ASSUME NEW d \in B, d # b PROVE Follow(c2[d], head2[d], next2, pred2, Z)
  <2>1. Follow(c[d], head[d], next, pred, Z) /\ head2[d] = head[d] /\ c2[d] = c[d]
    BY <1>0, <1>1, <1>3, <1>11
  <2>2. \A n \in 1 .. Len(c[d]) : next2[c[d][n]] = next[c[d][n]] /\ pred2[c[d][n]] = pred[c[d][n]]
    BY <1>0, <1>5, <1>9, <1>11
  <2> QED
    BY <2>1, <2>2 DEF Follow
<1>12. Apart(c2, B)
  <2> SUFFICES ASSUME NEW d \in B, NEW k \in B, NEW n \in 1 .. Len(c2[d]), NEW l \in 1 .. Len(c2[k]),
                      c2[d][n] = c2[k][l]
               PROVE  d = k /\ n = l
    BY DEF Apart
  <2>1. \/ d = b /\ n = L + 1 /\ c2[d][n] = x
        \/ n \in 1 .. Len(c[d]) /\ c2[d][n] = c[d][n] /\ c2[d][n] # x
    <3>1. CASE d = b
      BY <1>2, <1>3, <1>6, <3>1 DEF L, s
    <3>2. CASE d # b
      BY <1>3, <1>5, <3>2
    <3> QED
      BY <3>1, <3>2
  <2>2. \/ k = b /\ l = L + 1 /\ c2[k][l] = x
        \/ l \in 1 .. Len(c[k]) /\ c2[k][l] = c[k][l] /\ c2[k][l] # x
    <3>1. CASE k = b
      BY <1>2, <1>3, <1>6, <3>1 DEF L, s
    <3>2. CASE k # b
      BY <1>3, <1>5, <3>2
    <3> QED
      BY <3>1, <3>2
  <2>3. CASE c2[d][n] = x
    BY <2>1, <2>2, <2>3
  <2>4. CASE c2[d][n] # x
    <3>1. n \in 1 .. Len(c[d]) /\ l \in 1 .. Len(c[k]) /\ c[d][n] = c[k][l]
      BY <2>1, <2>2, <2>4
    <3> QED
      BY <1>1, <3>1 DEF Apart
  <2> QED
    BY <2>3, <2>4
<1>13. \A d \in B : Follow(c2[d], head2[d], next2, pred2, Z)
  BY <1>3, <1>10, <1>11
<1>14. x = LastOf(c2[b], Z)
  <2>1. Len(r) # 0 /\ r[Len(r)] = x
    BY <1>2
  <2> QED
    BY <1>3, <2>1 DEF LastOf
<1> QED
  BY <1>1, <1>3, <1>12, <1>13, <1>14 DEF Chains

LEMMA DropLast ==
  ASSUME NEW B, NEW X, NEW Z, NEW c, NEW head, NEW next, NEW pred,
         Chains(c, B, X, Z, head, next, pred), NEW b \in B, NEW p \in 1 .. Len(c[b])
  PROVE  LastOf(Drop(c[b], p), Z) = IF next[c[b][p]] = Z THEN pred[c[b][p]] ELSE LastOf(c[b], Z)
<1> DEFINE s == c[b]
           r == Drop(s, p)
           L == Len(s)
<1>1. Z \notin X /\ s \in Seq(X) /\ Follow(s, head[b], next, pred, Z)
  BY DEF Chains
<1>2. /\ r \in Seq(X) /\ Len(r) = L - 1 /\ L \in Nat
      /\ \A n \in 1 .. L - 1 : r[n] = IF n < p THEN s[n] ELSE s[n + 1]
  <2> HIDE DEF s
  <2>1. p \in 1 .. Len(s)
    BY DEF s
  <2> QED
    BY <1>1, <2>1, DropIs
<1>3. /\ next[s[p]] = IF p = L THEN Z ELSE s[p + 1]
      /\ pred[s[p]] = IF p = 1 THEN Z ELSE s[p - 1]
  BY <1>1 DEF Follow
<1>4. p \in 1 .. L
  OBVIOUS
<1>5. \A n \in 1 .. L : s[n] # Z
  BY <1>1
<1> HIDE DEF s, r, L
<1>6. CASE p = L
  <2>1. next[s[p]] = Z
    BY <1>3, <1>6
  <2>2. L - 1 # 0 => L - 1 \in 1 .. L - 1 /\ L - 1 < p
    BY <1>2, <1>4, <1>6
  <2>3. LastOf(r, Z) = IF p = 1 THEN Z ELSE s[p - 1]
    BY <1>2, <1>4, <1>6, <2>2 DEF LastOf
  <2> QED
    BY <1>3, <2>1, <2>3 DEF s, r
<1>7. CASE p # L
  <2>1. p + 1 \in 1 .. L /\ L # 0
    BY <1>2, <1>4, <1>7
  <2>2. next[s[p]] # Z
    BY <1>3, <1>5, <1>7, <2>1
  <2>3. L - 1 # 0 /\ L - 1 \in 1 .. L - 1 /\ ~(L - 1 < p) /\ L - 1 + 1 = L
    BY <1>2, <1>4, <1>7, <2>1
  <2>4. r[L - 1] = s[L]
    BY <1>2, <2>3
  <2>5. LastOf(r, Z) = s[L] /\ LastOf(s, Z) = s[L]
    BY <1>2, <2>1, <2>3, <2>4 DEF LastOf, L
  <2> QED
    BY <2>2, <2>5 DEF s, r
<1> QED
  BY <1>6, <1>7

(* What is left of a list when only the members of a set stay. *)
LeftOf(r, X, s, n, kept) ==
  /\ r \in Seq(X) /\ Once(r)
  /\ \A x : In(r, x) <=> x \in kept /\ \E j \in 1 .. n : s[j] = x

LEMMA KeptIs ==
  ASSUME NEW X, NEW s \in Seq(X), Once(s), NEW kept
  PROVE  LeftOf(Kept(s, kept), X, s, Len(s), kept)
<1> DEFINE L == Len(s)
           S == Seq(X)
           step(r, i) == IF s[i] \in kept THEN Append(r, s[i]) ELSE r
           Eq(f) == f = [i \in 0 .. L |-> IF i = 0 THEN <<>>
                                          ELSE IF s[i] \in kept THEN Append(f[i - 1], s[i]) ELSE f[i - 1]]
           f == CHOOSE f : Eq(f)
           F == [p \in (1 .. L) \X S |-> step(p[2], p[1])]
<1>1. L \in Nat /\ \A i \in 1 .. L : s[i] \in X
  OBVIOUS
<1>2. Kept(s, kept) = f[L]
  BY DEF Kept
<1>3. F \in [(1 .. L) \X S -> S] /\ <<>> \in S
  <2>1. ASSUME NEW i \in 1 .. L, NEW r \in S PROVE step(r, i) \in S
    BY <1>1
  <2> QED
    BY <2>1
<1>4. PICK g : Steps(g, L, S, <<>>, F)
  <2> HIDE DEF F, S, L
  <2> QED
    BY <1>1, <1>3, StepsExist
<1>5. Eq(g)
  <2>1. ASSUME NEW i \in 1 .. L PROVE g[i] = step(g[i - 1], i)
    <3>1. g[i - 1] \in S /\ g[i] = F[<<i, g[i - 1]>>]
      <4>1. i - 1 \in 0 .. L
        BY <1>1
      <4> HIDE DEF F, S, L
      <4> QED
        BY <1>4, <4>1 DEF Steps
    <3> QED
      BY <3>1
  <2>2. g \in [0 .. L -> S] /\ g[0] = <<>>
    <3> HIDE DEF F, S, L
    <3> QED
      BY <1>4 DEF Steps
  <2>3. \A i \in 0 .. L : g[i] = IF i = 0 THEN <<>> ELSE step(g[i - 1], i)
    <3> HIDE DEF F, S, L, step
    <3> SUFFICES ASSUME NEW i \in 0 .. L, i # 0 PROVE g[i] = step(g[i - 1], i)
      BY <2>2
    <3>1. i \in 1 .. L
      BY <1>1
    <3> QED
      BY <2>1, <3>1
  <2> HIDE DEF F, S, L
  <2>4. g = [i \in 0 .. L |-> g[i]]
    BY <2>2
  <2> QED
    BY <2>3, <2>4
<1>6. Eq(f)
  BY <1>5
<1> HIDE DEF f, F, S
<1>7. f[0] = <<>> /\ \A i \in 1 .. L : f[i] = step(f[i - 1], i)
  <2> HIDE DEF L
  <2>1. 0 \in 0 .. L /\ \A i \in 1 .. L : i \in 0 .. L /\ i # 0
    BY <1>1
  <2> QED
    BY <1>6, <2>1
<1> DEFINE P(i) == LeftOf(f[i], X, s, i, kept)
           N == {i \in 0 .. L : ~P(i)}
<1>8. P(0)
  <2>1. Len(<<>>) = 0 /\ <<>> \in Seq(X)
    OBVIOUS
  <2> QED
    BY <1>7, <2>1 DEF LeftOf, Once, In
<1>9. ASSUME NEW i \in 1 .. L, P(i - 1) PROVE P(i)
  <2> DEFINE r == f[i - 1]
  <2>1. /\ r \in Seq(X) /\ Once(r)
        /\ \A x : In(r, x) <=> x \in kept /\ \E j \in 1 .. i - 1 : s[j] = x
    BY <1>9 DEF LeftOf
  <2>2. f[i] = step(r, i)
    BY <1>7
  <2> HIDE DEF r
  <2>3. \A x : (\E j \in 1 .. i : s[j] = x) <=> (x = s[i] \/ \E j \in 1 .. i - 1 : s[j] = x)
    <3>1. i \in 1 .. i /\ i \in Nat /\ \A j \in 1 .. i : j = i \/ j \in 1 .. i - 1
      BY <1>1
    <3>2. \A j \in 1 .. i - 1 : j \in 1 .. i
      BY <3>1
    <3> QED
      BY <3>1, <3>2
  <2>4. ~ \E j \in 1 .. i - 1 : s[j] = s[i]
    <3> SUFFICES ASSUME NEW j \in 1 .. i - 1 PROVE s[j] # s[i]
      OBVIOUS
    <3>1. j \in 1 .. Len(s) /\ i \in 1 .. Len(s) /\ j # i
      BY <1>1
    <3> QED
      BY <3>1 DEF Once
  <2>5. CASE s[i] \in kept
    <3>1. f[i] = Append(r, s[i]) /\ s[i] \in X
      BY <1>1, <2>2, <2>5
    <3>2. /\ f[i] \in Seq(X) /\ Len(f[i]) = Len(r) + 1 /\ f[i][Len(r) + 1] = s[i] /\ Len(r) \in Nat
          /\ \A k \in 1 .. Len(r) : f[i][k] = r[k]
      BY <2>1, <3>1
    <3>3. \A k \in 1 .. Len(r) : r[k] # s[i]
      BY <2>1, <2>4 DEF In
    <3>4. Once(f[i])
      <4> SUFFICES ASSUME NEW k \in 1 .. Len(r) + 1, NEW l \in 1 .. Len(r) + 1, f[i][k] = f[i][l]
                   PROVE  k = l
        BY <3>2 DEF Once
      <4>1. \/ k = Len(r) + 1 /\ f[i][k] = s[i]
            \/ k \in 1 .. Len(r) /\ f[i][k] = r[k] /\ r[k] # s[i]
        BY <3>2, <3>3
      <4>2. \/ l = Len(r) + 1 /\ f[i][l] = s[i]
            \/ l \in 1 .. Len(r) /\ f[i][l] = r[l] /\ r[l] # s[i]
        BY <3>2, <3>3
      <4> QED
        BY <2>1, <4>1, <4>2 DEF Once
    <3>5. \A x : In(f[i], x) <=> x = s[i] \/ In(r, x)
      <4>1. \A k \in 1 .. Len(r) + 1 : k = Len(r) + 1 \/ k \in 1 .. Len(r)
        BY <3>2
      <4>2. Len(r) + 1 \in 1 .. Len(r) + 1 /\ \A k \in 1 .. Len(r) : k \in 1 .. Len(r) + 1
        BY <3>2
      <4> QED
        BY <3>2, <4>1, <4>2 DEF In
    <3> QED
      BY <2>1, <2>3, <2>5, <3>2, <3>4, <3>5 DEF LeftOf
  <2>6. CASE s[i] \notin kept
    <3>1. f[i] = r
      BY <2>2, <2>6
    <3> QED
      BY <2>1, <2>3, <2>6, <3>1 DEF LeftOf
  <2> QED
    BY <2>5, <2>6
<1>10. N = {}
  <2> SUFFICES ASSUME N # {} PROVE FALSE
    OBVIOUS
  <2>1. PICK i \in N : \A y \in N : i <= y
    <3>1. N \subseteq Nat
      BY <1>1
    <3> HIDE DEF N
    <3> QED
      BY <3>1, LeastElement
  <2>2. i \in 0 .. L /\ ~P(i)
    OBVIOUS
  <2> HIDE DEF P, L
  <2>3. i \in 1 .. L /\ i - 1 \in 0 .. L
    BY <1>1, <1>8, <2>2
  <2>4. i - 1 \notin N
    <3> HIDE DEF N
    <3> QED
      BY <1>1, <2>1, <2>3
  <2> QED
    BY <1>9, <2>2, <2>3, <2>4
<1>11. P(L)
  <2> HIDE DEF P, L
  <2>1. L \in 0 .. L
    BY <1>1
  <2> QED
    BY <1>10, <2>1
<1> QED
  BY <1>2, <1>11

-----------------------------------------------------------------------------
(* The chains of the objects. *)
TableForm(n) == [array : [0 .. n - 1 -> Handles \cup {NoIrp}],
                 nexts : [Handles -> Handles \cup {NoIrp}], prevs : [Handles -> Handles \cup {NoIrp}]]

HoldsFiles(T, n, c) ==
  /\ T \in TableForm(n) /\ Chains(c, 0 .. n - 1, Handles, NoIrp, T.array, T.nexts, T.prevs)
  /\ \A b \in 0 .. n - 1 : \A h \in Handles : In(c[b], h) => FileBucket(n, h) = b

(* An object has become the first of its chain. *)
FirstIn(T, T2, n, h) ==
  /\ T2 \in TableForm(n)
  /\ Fronted(0 .. n - 1, Handles, NoIrp, FileBucket(n, h), h,
             T.array, T.nexts, T.prevs, T2.array, T2.nexts, T2.prevs)

LEMMA TableMade ==
  ASSUME NEW n, NEW a \in [0 .. n - 1 -> Handles \cup {NoIrp}],
         NEW x \in [Handles -> Handles \cup {NoIrp}], NEW y \in [Handles -> Handles \cup {NoIrp}],
         NEW U, U = [array |-> a, nexts |-> x, prevs |-> y]
  PROVE  U \in TableForm(n)
BY DEF TableForm

LEMMA TableLength ==
  ASSUME NEW n \in Nat, NEW T \in TableForm(n)
  PROVE  Cardinality(DOMAIN T.array) = n
<1>1. DOMAIN T.array = 0 .. n - 1
  BY DEF TableForm
<1>2. Cardinality(0 .. n - 1) = IF 0 > n - 1 THEN 0 ELSE n - 1 - 0 + 1
  BY FS_Interval
<1> QED
  BY <1>1, <1>2

LEMMA FirstHolds ==
  ASSUME NEW n \in Nat \ {0}, NEW T, NEW c, HoldsFiles(T, n, c),
         NEW h \in Handles, h \notin Before(c, Handles, n), NEW T2, FirstIn(T, T2, n, h)
  PROVE  \E c2 : /\ HoldsFiles(T2, n, c2)
                 /\ Before(c2, Handles, n) = Before(c, Handles, n) \cup {h}
<1> DEFINE B == 0 .. n - 1
           b == FileBucket(n, h)
<1>1. /\ T \in TableForm(n) /\ Chains(c, B, Handles, NoIrp, T.array, T.nexts, T.prevs)
      /\ \A a \in B : \A g \in Handles : In(c[a], g) => FileBucket(n, g) = a
  BY DEF HoldsFiles
<1>2. /\ T2 \in TableForm(n)
      /\ Fronted(B, Handles, NoIrp, b, h, T.array, T.nexts, T.prevs, T2.array, T2.nexts, T2.prevs)
  BY DEF FirstIn
<1>3. b \in B /\ c \in [B -> Seq(Handles)]
  BY <1>1, IrpConstants DEF Chains
<1>4. Before(c, Handles, n) = {g \in Handles : InOne(c, B, g)}
  BY DEF Before, InOne
<1>5. PICK c2 : ButFor(c2, c, B, b, Front(h, c[b]))
  BY DEF ButFor
<1>6. Before(c2, Handles, n) = {g \in Handles : InOne(c2, B, g)}
  BY DEF Before, InOne
<1> HIDE DEF B, b
<1>7. Chains(c2, B, Handles, NoIrp, T2.array, T2.nexts, T2.prevs)
  <2>1. ~InOne(c, B, h)
    BY <1>4
  <2> QED
    BY <1>1, <1>2, <1>3, <1>5, <2>1, FrontChains
<1>8. ASSUME NEW a \in B, NEW g PROVE In(c2[a], g) <=> In(c[a], g) \/ (a = b /\ g = h)
  <2>1. CASE a = b
    <3> DEFINE s == c[b]
    <3>1. c2[b] = Front(h, s) /\ s \in Seq(Handles)
      BY <1>3, <1>5 DEF ButFor
    <3> HIDE DEF s
    <3>2. In(Front(h, s), g) <=> g = h \/ In(s, g)
      BY <3>1, FrontIn
    <3> QED
      BY <2>1, <3>1, <3>2 DEF s
  <2>2. CASE a # b
    BY <1>5, <2>2 DEF ButFor
  <2> QED
    BY <2>1, <2>2
<1>9. ASSUME NEW a \in B, NEW g \in Handles, In(c2[a], g) PROVE FileBucket(n, g) = a
  BY <1>1, <1>8, <1>9 DEF b
<1>10. Before(c2, Handles, n) = Before(c, Handles, n) \cup {h}
  BY <1>3, <1>4, <1>6, <1>8 DEF InOne
<1>11. HoldsFiles(T2, n, c2)
  BY <1>2, <1>7, <1>9 DEF HoldsFiles, B
<1> QED
  BY <1>10, <1>11

(* Pushed after Prev was reset, as the growth has it, and before, as the addition. *)
LEMMA MoveIs ==
  ASSUME NEW n \in Nat \ {0}, NEW T \in TableForm(n), NEW h \in Handles,
         T.array[FileBucket(n, h)] # h, NEW U, U = [T EXCEPT !.prevs = ClearPrev(T.prevs, h)],
         NEW T2, T2 = Pushed(U, h)
  PROVE  FirstIn(T, T2, n, h)
<1> DEFINE b == FileBucket(n, h)
           first == T.array[b]
           prevs == [T.prevs EXCEPT ![h] = NoIrp]
           prevs2 == IF first = NoIrp THEN prevs ELSE [prevs EXCEPT ![first] = h]
           nexts2 == [T.nexts EXCEPT ![h] = first]
           array2 == [T.array EXCEPT ![b] = h]
<1>1. /\ T.array \in [0 .. n - 1 -> Handles \cup {NoIrp}]
      /\ T.nexts \in [Handles -> Handles \cup {NoIrp}] /\ T.prevs \in [Handles -> Handles \cup {NoIrp}]
      /\ T = [array |-> T.array, nexts |-> T.nexts, prevs |-> T.prevs]
  BY DEF TableForm
<1>2. U = [array |-> T.array, nexts |-> T.nexts, prevs |-> prevs]
  BY <1>1 DEF ClearPrev
<1>3. b \in 0 .. n - 1 /\ NoIrp \notin Handles /\ n \in Nat /\ first # h
  BY IrpConstants
<1>4. first \in Handles \cup {NoIrp}
  BY <1>1, <1>3
<1>5. HandleHash[h] % Cardinality(DOMAIN U.array) = b
  <2>1. Cardinality(DOMAIN T.array) = n
    BY TableLength
  <2> QED
    BY <1>2, <2>1 DEF FileBucket
<1> HIDE DEF b
<1>6. U.array = T.array /\ U.nexts = T.nexts /\ U.prevs = prevs
  BY <1>2
<1>7. T2 = [array |-> array2, nexts |-> nexts2, prevs |-> prevs2]
  BY <1>5, <1>6 DEF Pushed
<1>8. T2.array = array2 /\ T2.nexts = nexts2 /\ T2.prevs = prevs2
  BY <1>7
<1>9. array2 \in [0 .. n - 1 -> Handles \cup {NoIrp}] /\ array2[b] = h
      /\ \A d \in 0 .. n - 1 : d # b => array2[d] = T.array[d]
  BY <1>1, <1>3
<1>10. nexts2 \in [Handles -> Handles \cup {NoIrp}] /\ nexts2[h] = first
       /\ \A y \in Handles : y # h => nexts2[y] = T.nexts[y]
  BY <1>1, <1>4
<1>11. prevs \in [Handles -> Handles \cup {NoIrp}] /\ prevs[h] = NoIrp
       /\ \A y \in Handles : y # h => prevs[y] = T.prevs[y]
  BY <1>1
<1> HIDE DEF prevs, array2, nexts2, first
<1>12. prevs2 \in [Handles -> Handles \cup {NoIrp}] /\ prevs2[h] = NoIrp
       /\ \A y \in Handles : y # h => prevs2[y] = IF y = first THEN h ELSE T.prevs[y]
  <2>1. CASE first = NoIrp
    BY <1>3, <1>11, <2>1
  <2>2. CASE first # NoIrp
    BY <1>3, <1>4, <1>11, <2>2
  <2> QED
    BY <2>1, <2>2
<1> HIDE DEF prevs2
<1>13. T2 \in TableForm(n)
  BY <1>7, <1>9, <1>10, <1>12 DEF TableForm
<1>14. Fronted(0 .. n - 1, Handles, NoIrp, b, h, T.array, T.nexts, T.prevs, T2.array, T2.nexts, T2.prevs)
  BY <1>8, <1>9, <1>10, <1>12 DEF Fronted, first
<1> QED
  BY <1>13, <1>14 DEF FirstIn, b

LEMMA AddIs ==
  ASSUME NEW n \in Nat \ {0}, NEW T \in TableForm(n), NEW h \in Handles,
         T.array[FileBucket(n, h)] # h, NEW P, P = Pushed(T, h),
         NEW T2, T2 = [array |-> P.array, nexts |-> P.nexts, prevs |-> [P.prevs EXCEPT ![h] = NoIrp]]
  PROVE  FirstIn(T, T2, n, h)
<1> DEFINE b == FileBucket(n, h)
           first == T.array[b]
           prevs == IF first = NoIrp THEN T.prevs ELSE [T.prevs EXCEPT ![first] = h]
           prevs2 == [prevs EXCEPT ![h] = NoIrp]
           nexts2 == [T.nexts EXCEPT ![h] = first]
           array2 == [T.array EXCEPT ![b] = h]
<1>1. /\ T.array \in [0 .. n - 1 -> Handles \cup {NoIrp}]
      /\ T.nexts \in [Handles -> Handles \cup {NoIrp}] /\ T.prevs \in [Handles -> Handles \cup {NoIrp}]
  BY DEF TableForm
<1>2. b \in 0 .. n - 1 /\ NoIrp \notin Handles /\ n \in Nat /\ first # h
  BY IrpConstants
<1>3. first \in Handles \cup {NoIrp}
  BY <1>1, <1>2
<1>4. HandleHash[h] % Cardinality(DOMAIN T.array) = b
  BY TableLength DEF FileBucket
<1> HIDE DEF b
<1>5. P.array = array2 /\ P.nexts = nexts2 /\ P.prevs = prevs
  BY <1>4 DEF Pushed
<1>6. T2 = [array |-> array2, nexts |-> nexts2, prevs |-> prevs2]
  BY <1>5
<1>7. T2.array = array2 /\ T2.nexts = nexts2 /\ T2.prevs = prevs2
  BY <1>6
<1>8. array2 \in [0 .. n - 1 -> Handles \cup {NoIrp}] /\ array2[b] = h
      /\ \A d \in 0 .. n - 1 : d # b => array2[d] = T.array[d]
  BY <1>1, <1>2
<1>9. nexts2 \in [Handles -> Handles \cup {NoIrp}] /\ nexts2[h] = first
      /\ \A y \in Handles : y # h => nexts2[y] = T.nexts[y]
  BY <1>1, <1>3
<1> HIDE DEF first
<1>10. /\ prevs \in [Handles -> Handles \cup {NoIrp}]
       /\ \A y \in Handles : prevs[y] = IF y = first THEN h ELSE T.prevs[y]
  BY <1>1, <1>2, <1>3
<1> HIDE DEF prevs, array2, nexts2
<1>11. prevs2 \in [Handles -> Handles \cup {NoIrp}] /\ prevs2[h] = NoIrp
       /\ \A y \in Handles : y # h => prevs2[y] = IF y = first THEN h ELSE T.prevs[y]
  BY <1>10
<1> HIDE DEF prevs2
<1>12. T2 \in TableForm(n)
  <2> HIDE DEF b
  <2>1. /\ array2 \in [0 .. n - 1 -> Handles \cup {NoIrp}]
        /\ nexts2 \in [Handles -> Handles \cup {NoIrp}] /\ prevs2 \in [Handles -> Handles \cup {NoIrp}]
    BY <1>8, <1>9, <1>11
  <2> QED
    BY <1>6, <2>1, TableMade
<1>13. Fronted(0 .. n - 1, Handles, NoIrp, b, h, T.array, T.nexts, T.prevs, T2.array, T2.nexts, T2.prevs)
  BY <1>7, <1>8, <1>9, <1>11 DEF Fronted, first
<1> QED
  BY <1>12, <1>13 DEF FirstIn, b

(* An object that is in no chain is not the first of one. *)
LEMMA NotFirst ==
  ASSUME NEW n \in Nat \ {0}, NEW T, NEW c, HoldsFiles(T, n, c),
         NEW h \in Handles, h \notin Before(c, Handles, n), NEW b \in 0 .. n - 1
  PROVE  T.array[b] # h
<1>1. Follow(c[b], T.array[b], T.nexts, T.prevs, NoIrp) /\ NoIrp \notin Handles /\ c[b] \in Seq(Handles)
  BY IrpConstants DEF HoldsFiles, Chains
<1>2. ~In(c[b], h)
  BY DEF Before
<1>3. T.array[b] = IF Len(c[b]) = 0 THEN NoIrp ELSE c[b][1]
  BY <1>1 DEF Follow
<1>4. CASE Len(c[b]) = 0
  BY <1>1, <1>3, <1>4
<1>5. CASE Len(c[b]) # 0
  <2>1. 1 \in 1 .. Len(c[b])
    BY <1>1, <1>5
  <2> QED
    BY <1>2, <1>3, <1>5, <2>1 DEF In
<1> QED
  BY <1>4, <1>5

(* The table grows: all objects, chain after chain, are moved to new chains. *)
MoveObject(T, h) == Pushed([T EXCEPT !.prevs = ClearPrev(T.prevs, h)], h)

LEMMA MoveType ==
  ASSUME NEW n \in Nat \ {0}, NEW T \in TableForm(n), NEW h \in Handles
  PROVE  MoveObject(T, h) \in TableForm(n)
<1> DEFINE b == FileBucket(n, h)
           first == T.array[b]
           prevs == [T.prevs EXCEPT ![h] = NoIrp]
           prevs2 == IF first = NoIrp THEN prevs ELSE [prevs EXCEPT ![first] = h]
           nexts2 == [T.nexts EXCEPT ![h] = first]
           array2 == [T.array EXCEPT ![b] = h]
           U == [T EXCEPT !.prevs = ClearPrev(T.prevs, h)]
<1>1. /\ T.array \in [0 .. n - 1 -> Handles \cup {NoIrp}]
      /\ T.nexts \in [Handles -> Handles \cup {NoIrp}] /\ T.prevs \in [Handles -> Handles \cup {NoIrp}]
      /\ T = [array |-> T.array, nexts |-> T.nexts, prevs |-> T.prevs]
  BY DEF TableForm
<1>2. U.array = T.array /\ U.nexts = T.nexts /\ U.prevs = prevs
  BY <1>1 DEF ClearPrev
<1>3. b \in 0 .. n - 1 /\ first \in Handles \cup {NoIrp}
  BY <1>1, IrpConstants
<1>4. HandleHash[h] % Cardinality(DOMAIN U.array) = b
  <2>1. Cardinality(DOMAIN T.array) = n
    BY TableLength
  <2> QED
    BY <1>2, <2>1 DEF FileBucket
<1> HIDE DEF b, U
<1>5. MoveObject(T, h) = Pushed(U, h)
  BY DEF MoveObject, U
<1>6. Pushed(U, h) = [array |-> array2, nexts |-> nexts2, prevs |-> prevs2]
  BY <1>2, <1>4 DEF Pushed
<1>7. /\ array2 \in [0 .. n - 1 -> Handles \cup {NoIrp}]
      /\ nexts2 \in [Handles -> Handles \cup {NoIrp}] /\ prevs \in [Handles -> Handles \cup {NoIrp}]
  BY <1>1, <1>3
<1> HIDE DEF prevs, array2, nexts2, first
<1>8. prevs2 \in [Handles -> Handles \cup {NoIrp}]
  BY <1>3, <1>7
<1> HIDE DEF prevs2
<1> QED
  BY <1>5, <1>6, <1>7, <1>8, TableMade

(* After i objects have been moved. *)
MovedTo(T, all, n, i) ==
  \E d : HoldsFiles(T, n, d) /\ Before(d, Handles, n) = {all[j] : j \in 1 .. i}

LEMMA ObjectMoves ==
  ASSUME NEW n \in Nat \ {0}, NEW all \in Seq(Handles), Once(all), NEW i \in 1 .. Len(all),
         NEW T, MovedTo(T, all, n, i - 1), NEW T2, T2 = MoveObject(T, all[i])
  PROVE  MovedTo(T2, all, n, i)
<1> DEFINE h == all[i]
           U == [T EXCEPT !.prevs = ClearPrev(T.prevs, h)]
<1>1. PICK d : HoldsFiles(T, n, d) /\ Before(d, Handles, n) = {all[j] : j \in 1 .. i - 1}
  BY DEF MovedTo
<1>2. h \in Handles /\ T \in TableForm(n) /\ FileBucket(n, h) \in 0 .. n - 1
  <2>1. h \in Handles
    OBVIOUS
  <2> HIDE DEF h
  <2> QED
    BY <1>1, <2>1, IrpConstants DEF HoldsFiles
<1>3. h \notin Before(d, Handles, n)
  <2>1. \A j \in 1 .. i - 1 : j \in 1 .. Len(all) /\ j # i
    OBVIOUS
  <2> QED
    BY <1>1, <2>1 DEF Once
<1>4. T2 = Pushed(U, h)
  BY DEF MoveObject
<1>5. {all[j] : j \in 1 .. i} = {all[j] : j \in 1 .. i - 1} \cup {h}
  <2>1. \A j : j \in 1 .. i <=> j \in 1 .. i - 1 \/ j = i
    OBVIOUS
  <2> QED
    BY <2>1
<1> HIDE DEF h
<1>6. T.array[FileBucket(n, h)] # h
  BY <1>1, <1>2, <1>3, NotFirst
<1>7. U = [T EXCEPT !.prevs = ClearPrev(T.prevs, h)]
  OBVIOUS
<1> HIDE DEF U
<1>8. FirstIn(T, T2, n, h)
  BY <1>2, <1>4, <1>6, <1>7, MoveIs
<1>9. PICK e : HoldsFiles(T2, n, e) /\ Before(e, Handles, n) = Before(d, Handles, n) \cup {h}
  <2>1. HoldsFiles(T, n, d) /\ h \in Handles
    BY <1>1, <1>2
  <2> QED
    BY <2>1, <1>3, <1>8, FirstHolds
<1> QED
  BY <1>1, <1>5, <1>9 DEF MovedTo

ObjTable == [array |-> irpArray, nexts |-> objNext, prevs |-> objPrev]

LEMMA BucketsAre ==
  ASSUME NEW n \in Nat, ObjTable \in TableForm(n)
  PROVE  irpBuckets = n /\ DOMAIN irpArray = 0 .. n - 1
<1>1. ObjTable.array = irpArray
  BY DEF ObjTable
<1> DEFINE T == ObjTable
<1>2. T \in TableForm(n)
  OBVIOUS
<1>3. DOMAIN T.array = 0 .. n - 1
  BY <1>2 DEF TableForm
<1> HIDE DEF T
<1>4. Cardinality(DOMAIN T.array) = n
  BY <1>2, TableLength
<1> QED
  BY <1>1, <1>3, <1>4 DEF T, irpBuckets

LEMMA IrpChainIs ==
  ASSUME NEW n \in Nat, NEW c, HoldsFiles(ObjTable, n, c), NEW b \in 0 .. n - 1
  PROVE  IrpChain(b) = c[b]
<1> DEFINE first == irpArray[b]
           most == Cardinality(Handles)
           B == 0 .. n - 1
<1>1. Chains(c, B, Handles, NoIrp, irpArray, objNext, objPrev)
  BY DEF HoldsFiles, ObjTable
<1>2. IrpChain(b) = Walked(first, objNext, most)
  BY DEF IrpChain
<1>3. b \in B /\ IsFiniteSet(Handles) /\ first = irpArray[b] /\ most = Cardinality(Handles)
  BY IrpConstants
<1> HIDE DEF first, most, B
<1>4. Walked(first, objNext, most) = c[b]
  BY <1>1, <1>3, WalkedIs
<1> QED
  BY <1>2, <1>4

(* All objects, chain after chain. *)
AllFilesEq(f, n) == f = [b \in 0 .. n |-> IF b = 0 THEN <<>> ELSE f[b - 1] \o IrpChain(b - 1)]

LEMMA AllFilesListed ==
  ASSUME NEW n \in Nat, NEW c, \A i \in 1 .. n : IrpChain(i - 1) = c[i - 1],
         NEW f, AllFilesEq(f, n)
  PROVE  ChainsListed(f, n, c)
<1>1. f = [b \in 0 .. n |-> IF b = 0 THEN <<>> ELSE f[b - 1] \o IrpChain(b - 1)]
  BY DEF AllFilesEq
<1>2. 0 \in 0 .. n /\ \A i \in 1 .. n : i \in 0 .. n /\ i # 0
  OBVIOUS
<1>3. f[0] = <<>>
  BY <1>1, <1>2
<1>4. \A i \in 1 .. n : f[i] = f[i - 1] \o c[i - 1]
  BY <1>1, <1>2
<1> QED
  BY <1>3, <1>4 DEF ChainsListed

LEMMA AllFilesAre ==
  ASSUME NEW n \in Nat, NEW c, HoldsFiles(ObjTable, n, c),
         NEW f, f = CHOOSE g : AllFilesEq(g, n)
  PROVE  f[n] \in Seq(Handles) /\ Once(f[n]) /\ Listed(f[n]) = Before(c, Handles, n)
<1> DEFINE S == Seq(Handles)
           F == [p \in (1 .. n) \X S |-> p[2] \o c[p[1] - 1]]
<1>1. c \in [0 .. n - 1 -> S] /\ Apart(c, 0 .. n - 1)
  BY DEF HoldsFiles, Chains
<1>2. \A i \in 1 .. n : i - 1 \in 0 .. n - 1 /\ IrpChain(i - 1) = c[i - 1]
  <2> SUFFICES ASSUME NEW i \in 1 .. n PROVE i - 1 \in 0 .. n - 1 /\ IrpChain(i - 1) = c[i - 1]
    OBVIOUS
  <2>1. i - 1 \in 0 .. n - 1
    OBVIOUS
  <2> QED
    BY <2>1, IrpChainIs
<1>3. F \in [(1 .. n) \X S -> S] /\ <<>> \in S
  <2>1. ASSUME NEW i \in 1 .. n, NEW s \in S PROVE s \o c[i - 1] \in S
    <3>1. c[i - 1] \in S
      BY <1>1, <1>2
    <3> QED
      BY <3>1
  <2> QED
    BY <2>1
<1>4. PICK g : Steps(g, n, S, <<>>, F)
  <2> HIDE DEF F, S
  <2> QED
    BY <1>3, StepsExist
<1>5. AllFilesEq(g, n)
  <2>1. ASSUME NEW i \in 1 .. n PROVE g[i] = g[i - 1] \o IrpChain(i - 1)
    <3>1. g[i - 1] \in S /\ g[i] = F[<<i, g[i - 1]>>]
      <4>1. i - 1 \in 0 .. n
        OBVIOUS
      <4> HIDE DEF F, S
      <4> QED
        BY <1>4, <4>1 DEF Steps
    <3>2. F[<<i, g[i - 1]>>] = g[i - 1] \o c[i - 1]
      BY <3>1
    <3> QED
      BY <1>2, <3>1, <3>2
  <2>2. g \in [0 .. n -> S] /\ g[0] = <<>>
    <3> HIDE DEF F, S
    <3> QED
      BY <1>4 DEF Steps
  <2> HIDE DEF F, S
  <2>3. \A i \in 0 .. n : g[i] = IF i = 0 THEN <<>> ELSE g[i - 1] \o IrpChain(i - 1)
    <3> SUFFICES ASSUME NEW i \in 0 .. n, i # 0 PROVE g[i] = g[i - 1] \o IrpChain(i - 1)
      BY <2>2
    <3>1. i \in 1 .. n
      OBVIOUS
    <3> QED
      BY <2>1, <3>1
  <2>4. g = [i \in 0 .. n |-> g[i]]
    BY <2>2
  <2> QED
    BY <2>3, <2>4 DEF AllFilesEq
<1>6. AllFilesEq(f, n)
  BY <1>5
<1>7. ChainsListed(f, n, c)
  BY <1>2, <1>6, AllFilesListed
<1> QED
  BY <1>1, <1>7, ListedUpto

MovesEq(f, L, start, all) == f = [i \in 0 .. L |-> IF i = 0 THEN start ELSE MoveObject(f[i - 1], all[i])]

LEMMA AllMove ==
  ASSUME NEW n \in Nat \ {0}, NEW all \in Seq(Handles), Once(all), NEW L, L = Len(all),
         NEW start \in TableForm(n), MovedTo(start, all, n, 0),
         NEW f, f = CHOOSE g : MovesEq(g, L, start, all)
  PROVE  MovedTo(f[L], all, n, L)
<1> DEFINE S == TableForm(n)
           F == [p \in (1 .. L) \X S |-> MoveObject(p[2], all[p[1]])]
<1>1. L \in Nat /\ \A i \in 1 .. L : all[i] \in Handles
  OBVIOUS
<1>2. F \in [(1 .. L) \X S -> S]
  <2>1. ASSUME NEW i \in 1 .. L, NEW T \in S PROVE MoveObject(T, all[i]) \in S
    BY <1>1, MoveType
  <2> HIDE DEF S
  <2> QED
    BY <2>1
<1> HIDE DEF S
<1>3. PICK g : Steps(g, L, S, start, F)
  <2>1. start \in S
    BY DEF S
  <2> HIDE DEF F
  <2> QED
    BY <1>1, <1>2, <2>1, StepsExist
<1>4. MovesEq(g, L, start, all)
  <2>1. ASSUME NEW i \in 1 .. L PROVE g[i] = MoveObject(g[i - 1], all[i])
    <3>1. g[i - 1] \in S /\ g[i] = F[<<i, g[i - 1]>>]
      <4>1. i - 1 \in 0 .. L
        BY <1>1
      <4> HIDE DEF F
      <4> QED
        BY <1>3, <4>1 DEF Steps
    <3> QED
      BY <3>1
  <2>2. g \in [0 .. L -> S] /\ g[0] = start
    <3> HIDE DEF F
    <3> QED
      BY <1>3 DEF Steps
  <2> HIDE DEF F
  <2>3. \A i \in 0 .. L : g[i] = IF i = 0 THEN start ELSE MoveObject(g[i - 1], all[i])
    <3> SUFFICES ASSUME NEW i \in 0 .. L, i # 0 PROVE g[i] = MoveObject(g[i - 1], all[i])
      BY <2>2
    <3>1. i \in 1 .. L
      BY <1>1
    <3> QED
      BY <2>1, <3>1
  <2>4. g = [i \in 0 .. L |-> g[i]]
    BY <2>2
  <2> QED
    BY <2>3, <2>4 DEF MovesEq
<1>5. MovesEq(f, L, start, all)
  BY <1>4
<1>6. f[0] = start /\ \A i \in 1 .. L : f[i] = MoveObject(f[i - 1], all[i])
  <2>1. 0 \in 0 .. L /\ \A i \in 1 .. L : i \in 0 .. L /\ i # 0
    BY <1>1
  <2>2. f = [i \in 0 .. L |-> IF i = 0 THEN start ELSE MoveObject(f[i - 1], all[i])]
    BY <1>5 DEF MovesEq
  <2> QED
    BY <2>1, <2>2
<1> DEFINE N == {i \in 0 .. L : ~MovedTo(f[i], all, n, i)}
<1>7. N = {}
  <2> SUFFICES ASSUME N # {} PROVE FALSE
    OBVIOUS
  <2>1. PICK i \in N : \A y \in N : i <= y
    <3>1. N \subseteq Nat
      BY <1>1
    <3> HIDE DEF N
    <3> QED
      BY <3>1, LeastElement
  <2>2. i \in 0 .. L /\ ~MovedTo(f[i], all, n, i)
    OBVIOUS
  <2>3. i \in 1 .. L /\ i - 1 \in 0 .. L
    <3>1. MovedTo(f[0], all, n, 0)
      BY <1>6
    <3> QED
      BY <1>1, <2>2, <3>1
  <2>4. i - 1 \notin N
    <3> HIDE DEF N
    <3> QED
      BY <1>1, <2>1, <2>3
  <2>5. MovedTo(f[i - 1], all, n, i - 1)
    BY <2>3, <2>4
  <2>6. f[i] = MoveObject(f[i - 1], all[i]) /\ i \in 1 .. Len(all)
    BY <1>6, <2>3
  <2> HIDE DEF N
  <2> QED
    BY <2>2, <2>5, <2>6, ObjectMoves
<1>8. L \in 0 .. L
  BY <1>1
<1> QED
  BY <1>7, <1>8

EmptyForm(n, x, y) == [array |-> [b \in 0 .. n - 1 |-> NoIrp], nexts |-> x, prevs |-> y]

LEMMA EmptyHolds ==
  ASSUME NEW n \in Nat, NEW x \in [Handles -> Handles \cup {NoIrp}],
         NEW y \in [Handles -> Handles \cup {NoIrp}], NEW T, T = EmptyForm(n, x, y)
  PROVE  T \in TableForm(n) /\ \E d : HoldsFiles(T, n, d) /\ Before(d, Handles, n) = {}
<1> DEFINE d == [b \in 0 .. n - 1 |-> <<>>]
           a == [b \in 0 .. n - 1 |-> NoIrp]
<1>1. T = [array |-> a, nexts |-> x, prevs |-> y] /\ a \in [0 .. n - 1 -> Handles \cup {NoIrp}]
      /\ \A b \in 0 .. n - 1 : a[b] = NoIrp
  BY DEF EmptyForm
<1>2. d \in [0 .. n - 1 -> Seq(Handles)] /\ \A b \in 0 .. n - 1 : d[b] = <<>> /\ Len(d[b]) = 0
  OBVIOUS
<1> HIDE DEF d, a
<1>3. T \in TableForm(n) /\ T.array = a /\ T.nexts = x /\ T.prevs = y
  BY <1>1, TableMade
<1>4. Apart(d, 0 .. n - 1)
  BY <1>2 DEF Apart
<1>5. \A b \in 0 .. n - 1 : Follow(d[b], a[b], x, y, NoIrp)
  BY <1>1, <1>2 DEF Follow
<1>6. Chains(d, 0 .. n - 1, Handles, NoIrp, a, x, y)
  BY <1>2, <1>4, <1>5, IrpConstants DEF Chains
<1>7. \A b \in 0 .. n - 1 : \A h : ~In(d[b], h)
  BY <1>2 DEF In
<1>8. HoldsFiles(T, n, d)
  BY <1>3, <1>6, <1>7 DEF HoldsFiles
<1>9. Before(d, Handles, n) = {}
  BY <1>7 DEF Before
<1> QED
  BY <1>3, <1>8, <1>9

LEMMA ResizedHolds ==
  ASSUME NEW n \in Nat \ {0}, NEW c, HoldsFiles(ObjTable, n, c), NEW m, m = 2 * n
  PROVE  \E d : HoldsFiles(ResizedTable, m, d) /\ Before(d, Handles, m) = Before(c, Handles, n)
<1> DEFINE chain == CHOOSE g : AllFilesEq(g, n)
           all == chain[n]
           L == Len(all)
           start == EmptyForm(m, objNext, objPrev)
           f == CHOOSE g : MovesEq(g, L, start, all)
<1>1. irpBuckets = n
  BY BucketsAre DEF HoldsFiles
<1>2. ResizedTable = f[L]
  BY <1>1 DEF ResizedTable, AllFilesEq, MovesEq, EmptyForm, MoveObject
<1>3. all \in Seq(Handles) /\ Once(all) /\ Listed(all) = Before(c, Handles, n)
  <2>1. chain = CHOOSE g : AllFilesEq(g, n)
    OBVIOUS
  <2> HIDE DEF chain
  <2> QED
    BY <2>1, AllFilesAre
<1> HIDE DEF all
<1>4. m \in Nat \ {0}
  OBVIOUS
<1>5. /\ objNext \in [Handles -> Handles \cup {NoIrp}] /\ objPrev \in [Handles -> Handles \cup {NoIrp}]
  <2> DEFINE T == ObjTable
  <2>1. T \in TableForm(n) /\ T.nexts = objNext /\ T.prevs = objPrev
    BY DEF HoldsFiles, ObjTable
  <2> HIDE DEF T
  <2> QED
    BY <2>1 DEF TableForm
<1>6. start = EmptyForm(m, objNext, objPrev) /\ L = Len(all) /\ f = CHOOSE g : MovesEq(g, L, start, all)
  OBVIOUS
<1> HIDE DEF start, L, f
<1>7. start \in TableForm(m) /\ \E d : HoldsFiles(start, m, d) /\ Before(d, Handles, m) = {}
  BY <1>4, <1>5, <1>6, EmptyHolds
<1>8. MovedTo(start, all, m, 0)
  <2>1. {all[j] : j \in 1 .. 0} = {}
    OBVIOUS
  <2> QED
    BY <1>7, <2>1 DEF MovedTo
<1>9. MovedTo(f[L], all, m, L)
  BY <1>3, <1>4, <1>6, <1>7, <1>8, AllMove
<1>10. {all[j] : j \in 1 .. L} = Before(c, Handles, n)
  BY <1>3, <1>6 DEF Listed
<1> QED
  BY <1>2, <1>9, <1>10 DEF MovedTo

LEMMA ObjTableIs ==
  ASSUME NEW n \in Nat \ {0}, ObjTable \in TableForm(n)
  PROVE  /\ irpArray \in [0 .. n - 1 -> Handles \cup {NoIrp}]
         /\ objNext \in [Handles -> Handles \cup {NoIrp}] /\ objPrev \in [Handles -> Handles \cup {NoIrp}]
<1> DEFINE T == ObjTable
<1>1. T \in TableForm(n) /\ T.array = irpArray /\ T.nexts = objNext /\ T.prevs = objPrev
  BY DEF ObjTable
<1> HIDE DEF T
<1> QED
  BY <1>1 DEF TableForm

LEMMA FileFound ==
  ASSUME NEW n \in Nat \ {0}, NEW c, HoldsFiles(ObjTable, n, c), NEW h \in Handles
  PROVE  SearchFile(h) <=> h \in Before(c, Handles, n)
<1> DEFINE b == FileBucket(n, h)
<1>1. irpBuckets = n /\ c \in [0 .. n - 1 -> Seq(Handles)]
      /\ \A a \in 0 .. n - 1 : \A g \in Handles : In(c[a], g) => FileBucket(n, g) = a
  BY BucketsAre DEF HoldsFiles, Chains
<1>2. b \in 0 .. n - 1
  BY IrpConstants
<1>3. HandleHash[h] % irpBuckets = b
  BY <1>1 DEF FileBucket
<1> HIDE DEF b
<1>4. IrpChain(b) = c[b]
  BY <1>2, IrpChainIs
<1>5. SearchFile(h) <=> \E i \in DOMAIN c[b] : c[b][i] = h
  BY <1>3, <1>4 DEF SearchFile
<1>6. DOMAIN c[b] = 1 .. Len(c[b])
  BY <1>1, <1>2
<1>7. SearchFile(h) <=> In(c[b], h)
  BY <1>5, <1>6 DEF In
<1> QED
  BY <1>1, <1>2, <1>7 DEF Before, b

(* An object is taken out of its chain. *)
LEMMA UnlinkHolds ==
  ASSUME NEW n \in Nat \ {0}, NEW c, HoldsFiles(ObjTable, n, c), NEW h \in Before(c, Handles, n),
         UnlinkFile(h)
  PROVE  \E d : HoldsFiles(ObjTable', n, d) /\ Before(d, Handles, n) = Before(c, Handles, n) \ {h}
<1> DEFINE b == FileBucket(n, h)
           B == 0 .. n - 1
<1>1. /\ irpBuckets = n /\ ObjTable \in TableForm(n)
      /\ Chains(c, B, Handles, NoIrp, irpArray, objNext, objPrev)
      /\ \A a \in B : \A g \in Handles : In(c[a], g) => FileBucket(n, g) = a
  BY BucketsAre DEF HoldsFiles, ObjTable
<1>2. /\ irpArray \in [B -> Handles \cup {NoIrp}]
      /\ objNext \in [Handles -> Handles \cup {NoIrp}] /\ objPrev \in [Handles -> Handles \cup {NoIrp}]
  BY <1>1, ObjTableIs
<1>3. h \in Handles /\ NoIrp \notin Handles /\ b \in B
  <2>1. h \in Handles
    BY DEF Before
  <2> QED
    BY <2>1, IrpConstants
<1>4. PICK p \in 1 .. Len(c[b]) : c[b][p] = h
  <2>1. PICK a \in B : In(c[a], h)
    BY DEF Before
  <2> QED
    BY <1>1, <1>3, <2>1 DEF In
<1>5. HandleHash[h] % irpBuckets = b
  BY <1>1 DEF FileBucket
<1> HIDE DEF b
<1>6. PICK d : ButFor(d, c, B, b, Drop(c[b], p))
  BY DEF ButFor
<1> DEFINE x == objNext[h]
           y == objPrev[h]
<1>7. x \in Handles \cup {NoIrp} /\ y \in Handles \cup {NoIrp}
  BY <1>2, <1>3
<1> HIDE DEF B
<1>8. /\ irpArray' \in [B -> Handles \cup {NoIrp}] /\ irpArray'[b] = (IF y = NoIrp THEN x ELSE irpArray[b])
      /\ \A a \in B : a # b => irpArray'[a] = irpArray[a]
  <2>1. irpArray' = IF y = NoIrp THEN [irpArray EXCEPT ![b] = x] ELSE irpArray
    BY <1>5 DEF UnlinkFile
  <2> HIDE DEF x, y
  <2> QED
    BY <1>2, <1>3, <1>7, <2>1
<1>9. /\ objNext' \in [Handles -> Handles \cup {NoIrp}]
      /\ \A g \in Handles : g # h => objNext'[g] = IF g = y THEN x ELSE objNext[g]
  <2>1. objNext' = IF y = NoIrp THEN objNext ELSE [objNext EXCEPT ![y] = x]
    BY DEF UnlinkFile
  <2> HIDE DEF x, y
  <2> QED
    BY <1>2, <1>3, <1>7, <2>1
<1>10. /\ objPrev' \in [Handles -> Handles \cup {NoIrp}]
       /\ \A g \in Handles : g # h => objPrev'[g] = IF g = x THEN y ELSE objPrev[g]
  <2>1. objPrev' = IF x = NoIrp THEN objPrev ELSE [objPrev EXCEPT ![x] = y]
    BY DEF UnlinkFile
  <2> HIDE DEF x, y
  <2> QED
    BY <1>2, <1>3, <1>7, <2>1
<1>11. Passed(B, Handles, NoIrp, b, c[b][p], irpArray, objNext, objPrev, irpArray', objNext', objPrev')
  BY <1>4, <1>8, <1>9, <1>10 DEF Passed
<1>12. Chains(d, B, Handles, NoIrp, irpArray', objNext', objPrev')
  BY <1>1, <1>3, <1>4, <1>6, <1>11, DropChains
<1>13. ObjTable' \in TableForm(n)
  <2>1. ObjTable' = [array |-> irpArray', nexts |-> objNext', prevs |-> objPrev']
    BY DEF ObjTable
  <2> QED
    BY <1>8, <1>9, <1>10, <2>1, TableMade DEF B
<1>14. c \in [B -> Seq(Handles)] /\ Apart(c, B)
  BY <1>1 DEF Chains
<1>15. ASSUME NEW a \in B, NEW g PROVE In(d[a], g) <=> In(c[a], g) /\ g # h
  <2>1. CASE a = b
    <3> DEFINE s == c[b]
    <3>1. d[b] = Drop(s, p) /\ s \in Seq(Handles) /\ p \in 1 .. Len(s) /\ s[p] = h
      BY <1>3, <1>4, <1>6, <1>14 DEF ButFor
    <3>2. \A i, j \in 1 .. Len(s) : s[i] = s[j] => i = j
      BY <1>3, <1>14 DEF Apart
    <3> HIDE DEF s
    <3>3. In(Drop(s, p), g) <=> \E i \in 1 .. Len(s) : i # p /\ s[i] = g
      BY <3>1, DropIn
    <3>4. (\E i \in 1 .. Len(s) : i # p /\ s[i] = g) <=> In(s, g) /\ g # h
      BY <3>1, <3>2 DEF In
    <3> QED
      BY <2>1, <3>1, <3>3, <3>4 DEF s
  <2>2. CASE a # b
    <3>1. d[a] = c[a]
      BY <1>6, <2>2 DEF ButFor
    <3>2. ~In(c[a], h)
      BY <1>3, <1>4, <1>14, <2>2 DEF In, Apart
    <3> QED
      BY <3>1, <3>2
  <2> QED
    BY <2>1, <2>2
<1>16. Before(d, Handles, n) = Before(c, Handles, n) \ {h}
  BY <1>15 DEF Before, B
<1>17. HoldsFiles(ObjTable', n, d)
  <2>1. ObjTable'.array = irpArray' /\ ObjTable'.nexts = objNext' /\ ObjTable'.prevs = objPrev'
    BY DEF ObjTable
  <2> QED
    BY <1>1, <1>12, <1>13, <1>15, <2>1 DEF HoldsFiles, B
<1> QED
  BY <1>16, <1>17

(* An object is put into the table, which may grow before. *)
NewFile(h) ==
  LET now  == [array |-> irpArray, nexts |-> objNext, prevs |-> [objPrev EXCEPT ![h] = NoIrp]]
      hash == Pushed(IF 2 * irpCounter > irpBuckets THEN ResizedTable ELSE now, h)
  IN irpArray' = hash.array /\ objNext' = hash.nexts /\ objPrev' = [hash.prevs EXCEPT ![h] = NoIrp]

LEMMA NewFileHolds ==
  ASSUME NEW n \in Nat \ {0}, NEW c, HoldsFiles(ObjTable, n, c),
         NEW h \in Handles, h \notin Before(c, Handles, n), NewFile(h)
  PROVE  \E m \in Nat \ {0} : \E d :
           HoldsFiles(ObjTable', m, d) /\ Before(d, Handles, m) = Before(c, Handles, n) \cup {h}
<1> DEFINE now == [array |-> irpArray, nexts |-> objNext, prevs |-> [objPrev EXCEPT ![h] = NoIrp]]
           T == IF 2 * irpCounter > irpBuckets THEN ResizedTable ELSE now
           P == Pushed(T, h)
<1>1. \E m \in Nat \ {0} : \E d : HoldsFiles(T, m, d) /\ Before(d, Handles, m) = Before(c, Handles, n)
  <2>1. \E d : HoldsFiles(now, n, d) /\ Before(d, Handles, n) = Before(c, Handles, n)
    <3> DEFINE B == 0 .. n - 1
               pred2 == [objPrev EXCEPT ![h] = NoIrp]
    <3>1. /\ ObjTable \in TableForm(n) /\ Chains(c, B, Handles, NoIrp, irpArray, objNext, objPrev)
          /\ \A a \in B : \A g \in Handles : In(c[a], g) => FileBucket(n, g) = a
      BY DEF HoldsFiles, ObjTable
    <3>2. /\ irpArray \in [B -> Handles \cup {NoIrp}]
          /\ objNext \in [Handles -> Handles \cup {NoIrp}] /\ objPrev \in [Handles -> Handles \cup {NoIrp}]
      BY <3>1, ObjTableIs
    <3>3. pred2 \in [Handles -> Handles \cup {NoIrp}] /\ \A y \in Handles : y # h => pred2[y] = objPrev[y]
      BY <3>2
    <3>4. now = [array |-> irpArray, nexts |-> objNext, prevs |-> pred2]
      OBVIOUS
    <3> HIDE DEF now, pred2
    <3>5. now \in TableForm(n)
      BY <3>2, <3>3, <3>4, TableMade
    <3>6. \A y \in Handles : InOne(c, B, y) => objNext[y] = objNext[y] /\ pred2[y] = objPrev[y]
      BY <3>3 DEF InOne, Before
    <3> HIDE DEF B
    <3>7. Chains(c, B, Handles, NoIrp, irpArray, objNext, pred2)
      BY <3>1, <3>6, SameChains
    <3>8. HoldsFiles(now, n, c)
      BY <3>1, <3>4, <3>5, <3>7 DEF HoldsFiles, B
    <3> QED
      BY <3>8
  <2>2. \E d : HoldsFiles(ResizedTable, 2 * n, d) /\ Before(d, Handles, 2 * n) = Before(c, Handles, n)
    BY ResizedHolds
  <2>3. 2 * n \in Nat \ {0}
    OBVIOUS
  <2> HIDE DEF now
  <2> QED
    BY <2>1, <2>2, <2>3
<1>2. irpArray' = P.array /\ objNext' = P.nexts /\ objPrev' = [P.prevs EXCEPT ![h] = NoIrp]
  BY DEF NewFile
<1> HIDE DEF T
<1>3. PICK m \in Nat \ {0} : \E d : HoldsFiles(T, m, d) /\ Before(d, Handles, m) = Before(c, Handles, n)
  BY <1>1
<1>4. PICK d : HoldsFiles(T, m, d) /\ Before(d, Handles, m) = Before(c, Handles, n)
  BY <1>3
<1>5. h \notin Before(d, Handles, m) /\ FileBucket(m, h) \in 0 .. m - 1 /\ T \in TableForm(m)
  BY <1>4, IrpConstants DEF HoldsFiles
<1>6. T.array[FileBucket(m, h)] # h
  <2> DEFINE b == FileBucket(m, h)
  <2>1. b \in 0 .. m - 1 /\ HoldsFiles(T, m, d) /\ h \notin Before(d, Handles, m)
    BY <1>4, <1>5
  <2> HIDE DEF b
  <2>2. T.array[b] # h
    BY <2>1, NotFirst
  <2> QED
    BY <2>2 DEF b
<1>7. P = Pushed(T, h)
  OBVIOUS
<1> HIDE DEF P
<1>8. ObjTable' = [array |-> P.array, nexts |-> P.nexts, prevs |-> [P.prevs EXCEPT ![h] = NoIrp]]
  BY <1>2 DEF ObjTable
<1> DEFINE T2 == ObjTable'
<1>9. FirstIn(T, T2, m, h)
  <2>1. T2 = [array |-> P.array, nexts |-> P.nexts, prevs |-> [P.prevs EXCEPT ![h] = NoIrp]]
    BY <1>8
  <2> HIDE DEF T2
  <2> QED
    BY <1>5, <1>6, <1>7, <2>1, AddIs
<1>10. \E e : HoldsFiles(T2, m, e) /\ Before(e, Handles, m) = Before(d, Handles, m) \cup {h}
  <2>1. HoldsFiles(T, m, d) /\ h \notin Before(d, Handles, m)
    BY <1>4, <1>5
  <2> HIDE DEF T2
  <2> QED
    BY <1>9, <2>1, FirstHolds
<1> QED
  BY <1>4, <1>10

(* The files with an object are those that have a queue, and the queues hang *)
(* from their objects.                                                        *)
ObjectsInv ==
  /\ \E n \in Nat \ {0} : \E c : HoldsFiles(ObjTable, n, c) /\ Before(c, Handles, n) = DOMAIN queues
  /\ DOMAIN queues \subseteq Handles /\ irpCounter = Cardinality(DOMAIN queues)

QueuesInv ==
  /\ firstIrp \in [Handles -> Irps \cup {NoIrp}] /\ lastIrp \in [Handles -> Irps \cup {NoIrp}]
  /\ irpNext \in [Irps -> Irps \cup {NoIrp}] /\ irpPrev \in [Irps -> Irps \cup {NoIrp}]
  /\ Chains(queues, DOMAIN queues, Irps, NoIrp, firstIrp, irpNext, irpPrev)
  /\ \A h \in DOMAIN queues : lastIrp[h] = LastOf(queues[h], NoIrp)

IrpInv == ObjectsInv /\ QueuesInv

LEMMA FilesFound ==
  ASSUME ObjectsInv, NEW h \in Handles
  PROVE  SearchFile(h) <=> h \in DOMAIN queues
<1>1. PICK n \in Nat \ {0} : \E c : HoldsFiles(ObjTable, n, c) /\ Before(c, Handles, n) = DOMAIN queues
  BY DEF ObjectsInv
<1>2. PICK c : HoldsFiles(ObjTable, n, c) /\ Before(c, Handles, n) = DOMAIN queues
  BY <1>1
<1>3. SearchFile(h) <=> h \in Before(c, Handles, n)
  BY <1>2, FileFound
<1> QED
  BY <1>2, <1>3

LEMMA FilesCounted ==
  ASSUME ObjectsInv
  PROVE  IsFiniteSet(DOMAIN queues) /\ irpCounter \in Nat
<1>1. DOMAIN queues \subseteq Handles /\ irpCounter = Cardinality(DOMAIN queues) /\ IsFiniteSet(Handles)
  BY IrpConstants DEF ObjectsInv
<1>2. IsFiniteSet(DOMAIN queues)
  BY <1>1, FS_Subset
<1> QED
  BY <1>1, <1>2, FS_CardinalityType

LEMMA FilesSame ==
  ASSUME ObjectsInv, UNCHANGED irpHashVars, DOMAIN queues' = DOMAIN queues
  PROVE  ObjectsInv'
<1>1. irpArray' = irpArray /\ irpCounter' = irpCounter /\ objNext' = objNext /\ objPrev' = objPrev
  BY DEF irpHashVars
<1>2. ObjTable' = ObjTable
  BY <1>1 DEF ObjTable
<1> QED
  BY <1>1, <1>2 DEF ObjectsInv

LEMMA FileGoes ==
  ASSUME ObjectsInv, NEW h \in DOMAIN queues, UnlinkFile(h), queues' = Without(queues, h)
  PROVE  ObjectsInv'
<1>1. PICK n \in Nat \ {0} : \E c : HoldsFiles(ObjTable, n, c) /\ Before(c, Handles, n) = DOMAIN queues
  BY DEF ObjectsInv
<1>2. PICK c : HoldsFiles(ObjTable, n, c) /\ Before(c, Handles, n) = DOMAIN queues
  BY <1>1
<1>3. DOMAIN queues' = DOMAIN queues \ {h}
  BY DEF Without
<1>4. \E d : HoldsFiles(ObjTable', n, d) /\ Before(d, Handles, n) = DOMAIN queues'
  BY <1>2, <1>3, UnlinkHolds
<1>5. irpCounter' = Cardinality(DOMAIN queues')
  <2>1. IsFiniteSet(DOMAIN queues) /\ irpCounter = Cardinality(DOMAIN queues)
    BY FilesCounted DEF ObjectsInv
  <2>2. irpCounter' = irpCounter - 1
    BY DEF UnlinkFile
  <2> QED
    BY <1>3, <2>1, <2>2, FS_RemoveElement
<1>6. DOMAIN queues' \subseteq Handles
  BY <1>3 DEF ObjectsInv
<1> QED
  BY <1>4, <1>5, <1>6 DEF ObjectsInv

LEMMA FileComes ==
  ASSUME ObjectsInv, NEW h \in Handles, h \notin DOMAIN queues, NewFile(h),
         irpCounter' = irpCounter + 1, DOMAIN queues' = DOMAIN queues \cup {h}
  PROVE  ObjectsInv'
<1>1. PICK n \in Nat \ {0} : \E c : HoldsFiles(ObjTable, n, c) /\ Before(c, Handles, n) = DOMAIN queues
  BY DEF ObjectsInv
<1>2. PICK c : HoldsFiles(ObjTable, n, c) /\ Before(c, Handles, n) = DOMAIN queues
  BY <1>1
<1>4. \E m \in Nat \ {0} : \E d : HoldsFiles(ObjTable', m, d) /\ Before(d, Handles, m) = DOMAIN queues'
  <2>1. h \notin Before(c, Handles, n)
    BY <1>2
  <2>2. \E m \in Nat \ {0} : \E d :
           HoldsFiles(ObjTable', m, d) /\ Before(d, Handles, m) = Before(c, Handles, n) \cup {h}
    BY <1>2, <2>1, NewFileHolds
  <2> QED
    BY <1>2, <2>2
<1>5. irpCounter' = Cardinality(DOMAIN queues')
  <2>1. IsFiniteSet(DOMAIN queues) /\ irpCounter = Cardinality(DOMAIN queues)
    BY FilesCounted DEF ObjectsInv
  <2> QED
    BY <2>1, FS_AddElement
<1>6. DOMAIN queues' \subseteq Handles
  BY DEF ObjectsInv
<1> QED
  BY <1>4, <1>5, <1>6 DEF ObjectsInv

LEMMA QueueIs ==
  ASSUME QueuesInv, NEW h \in DOMAIN queues
  PROVE  /\ Walked(firstIrp[h], irpNext, Cardinality(Irps)) = queues[h]
         /\ queues[h] \in Seq(Irps) /\ Once(queues[h]) /\ queues \in [DOMAIN queues -> Seq(Irps)]
<1> DEFINE B == DOMAIN queues
           first == firstIrp[h]
           most == Cardinality(Irps)
<1>1. Chains(queues, B, Irps, NoIrp, firstIrp, irpNext, irpPrev)
  BY DEF QueuesInv
<1>2. IsFiniteSet(Irps) /\ first = firstIrp[h] /\ most = Cardinality(Irps) /\ h \in B
  BY IrpConstants
<1>3. queues \in [B -> Seq(Irps)] /\ Apart(queues, B)
  BY <1>1 DEF Chains
<1> HIDE DEF B, first, most
<1>4. Walked(first, irpNext, most) = queues[h]
  BY <1>1, <1>2, WalkedIs
<1>5. Once(queues[h])
  BY <1>2, <1>3 DEF Apart, Once
<1>6. queues[h] \in Seq(Irps)
  BY <1>2, <1>3
<1> QED
  BY <1>3, <1>4, <1>5, <1>6 DEF B, first, most

LEMMA IrpStart == IrpTableInit => IrpInv
<1> SUFFICES ASSUME IrpTableInit PROVE IrpInv
  OBVIOUS
<1>1. /\ ObjTable = EmptyForm(FirstBuckets, objNext, objPrev) /\ irpCounter = 0 /\ queues = <<>>
      /\ objNext \in [Handles -> Handles \cup {NoIrp}] /\ objPrev \in [Handles -> Handles \cup {NoIrp}]
  BY DEF IrpTableInit, ObjTable, EmptyForm
<1>2. FirstBuckets \in Nat \ {0} /\ NoIrp \notin Irps
  BY IrpConstants
<1>3. DOMAIN queues = {} /\ queues \in [DOMAIN queues -> Seq(Irps)]
  <2>1. Len(queues) = 0 /\ queues \in Seq(Seq(Irps)) /\ 1 .. 0 = {}
    BY <1>1
  <2> QED
    BY <2>1
<1>4. \E d : HoldsFiles(ObjTable, FirstBuckets, d) /\ Before(d, Handles, FirstBuckets) = {}
  <2> DEFINE T == ObjTable
  <2>1. T = EmptyForm(FirstBuckets, objNext, objPrev)
    BY <1>1
  <2> HIDE DEF T
  <2>2. \E d : HoldsFiles(T, FirstBuckets, d) /\ Before(d, Handles, FirstBuckets) = {}
    BY <1>1, <1>2, <2>1, EmptyHolds
  <2> QED
    BY <2>2 DEF T
<1>5. Cardinality({}) = 0
  BY FS_EmptySet
<1>6. ObjectsInv
  BY <1>1, <1>2, <1>3, <1>4, <1>5 DEF ObjectsInv
<1>7. Chains(queues, DOMAIN queues, Irps, NoIrp, firstIrp, irpNext, irpPrev)
  BY <1>2, <1>3 DEF Chains, Apart
<1>8. QueuesInv
  BY <1>3, <1>7 DEF QueuesInv, IrpTableInit
<1> QED
  BY <1>6, <1>8 DEF IrpInv

LEMMA CancelStep ==
  ASSUME IrpInv, CancelTable
  PROVE  IrpInv'
<1>0. ObjectsInv /\ QueuesInv
  BY DEF IrpInv
<1>1. PICK n \in Nat \ {0} : \E c : HoldsFiles(ObjTable, n, c) /\ Before(c, Handles, n) = DOMAIN queues
  BY <1>0 DEF ObjectsInv
<1>2. DOMAIN irpArray = 0 .. n - 1 /\ ObjTable \in TableForm(n)
  BY <1>1, BucketsAre DEF HoldsFiles
<1>3. /\ objNext \in [Handles -> Handles \cup {NoIrp}] /\ objPrev \in [Handles -> Handles \cup {NoIrp}]
  BY <1>2, ObjTableIs
<1>4. /\ irpArray' = [b \in 0 .. n - 1 |-> NoIrp] /\ irpCounter' = 0 /\ queues' = <<>>
      /\ objNext' = objNext /\ objPrev' = objPrev /\ irpNext' = irpNext /\ irpPrev' = irpPrev
      /\ firstIrp' = [h \in Handles |-> NoIrp] /\ lastIrp' = [h \in Handles |-> NoIrp]
  BY <1>2 DEF CancelTable
<1>5. DOMAIN queues' = {} /\ queues' \in [DOMAIN queues' -> Seq(Irps)]
  <2>1. Len(queues') = 0 /\ queues' \in Seq(Seq(Irps)) /\ 1 .. 0 = {}
    BY <1>4
  <2> QED
    BY <2>1
<1>6. \E d : HoldsFiles(ObjTable', n, d) /\ Before(d, Handles, n) = {}
  <2> DEFINE T == ObjTable'
  <2>1. T = EmptyForm(n, objNext, objPrev)
    BY <1>4 DEF ObjTable, EmptyForm
  <2> HIDE DEF T
  <2>2. \E d : HoldsFiles(T, n, d) /\ Before(d, Handles, n) = {}
    BY <1>3, <2>1, EmptyHolds
  <2> QED
    BY <2>2 DEF T
<1>7. Cardinality({}) = 0
  BY FS_EmptySet
<1>8. ObjectsInv'
  BY <1>4, <1>5, <1>6, <1>7 DEF ObjectsInv
<1>9. Chains(queues', DOMAIN queues', Irps, NoIrp, firstIrp', irpNext', irpPrev')
  BY <1>5, IrpConstants DEF Chains, Apart
<1>10. QueuesInv'
  BY <1>0, <1>4, <1>5, <1>9 DEF QueuesInv
<1> QED
  BY <1>8, <1>10 DEF IrpInv

(* A file that goes takes its queue with it. *)
LEMMA QueueGoes ==
  ASSUME NEW B, NEW q, NEW first, NEW next, NEW pred, Chains(q, B, Irps, NoIrp, first, next, pred),
         NEW h \in B, NEW q2, q2 = [g \in B \ {h} |-> q[g]],
         NEW first2, \A g \in B \ {h} : first2[g] = first[g]
  PROVE  DOMAIN q2 = B \ {h} /\ Chains(q2, DOMAIN q2, Irps, NoIrp, first2, next, pred)
<1> DEFINE B2 == B \ {h}
<1>1. q \in [B -> Seq(Irps)]
  BY DEF Chains
<1>2. q2 \in [B2 -> Seq(Irps)] /\ DOMAIN q2 = B2
  BY <1>1
<1>3. OtherChains(q, B, first, q2, B2, first2, NoIrp)
  BY DEF OtherChains
<1> HIDE DEF B2
<1>4. Chains(q2, B2, Irps, NoIrp, first2, next, pred)
  BY <1>2, <1>3, ChainsAreOther
<1> QED
  BY <1>2, <1>4 DEF B2

LEMMA CloseStep ==
  ASSUME IrpInv, NEW h \in Handles, CloseIrpFile(h)
  PROVE  IrpInv'
<1>0. ObjectsInv /\ QueuesInv
  BY DEF IrpInv
<1>1. /\ SearchFile(h) /\ UnlinkFile(h) /\ queues' = Without(queues, h)
      /\ firstIrp' = [firstIrp EXCEPT ![h] = NoIrp] /\ lastIrp' = [lastIrp EXCEPT ![h] = NoIrp]
      /\ irpNext' = irpNext /\ irpPrev' = irpPrev
  BY DEF CloseIrpFile
<1>2. h \in DOMAIN queues
  BY <1>0, <1>1, FilesFound
<1>3. ObjectsInv'
  BY <1>0, <1>1, <1>2, FileGoes
<1>4. /\ firstIrp \in [Handles -> Irps \cup {NoIrp}] /\ lastIrp \in [Handles -> Irps \cup {NoIrp}]
      /\ Chains(queues, DOMAIN queues, Irps, NoIrp, firstIrp, irpNext, irpPrev)
      /\ \A g \in DOMAIN queues : lastIrp[g] = LastOf(queues[g], NoIrp)
      /\ DOMAIN queues \subseteq Handles
  BY <1>0 DEF QueuesInv, ObjectsInv
<1>5. /\ firstIrp' \in [Handles -> Irps \cup {NoIrp}] /\ lastIrp' \in [Handles -> Irps \cup {NoIrp}]
      /\ \A g \in Handles \ {h} : firstIrp'[g] = firstIrp[g] /\ lastIrp'[g] = lastIrp[g]
  BY <1>1, <1>4
<1>6. queues' = [g \in DOMAIN queues \ {h} |-> queues[g]]
  BY <1>1 DEF Without
<1>7. DOMAIN queues' = DOMAIN queues \ {h}
      /\ Chains(queues', DOMAIN queues', Irps, NoIrp, firstIrp', irpNext, irpPrev)
  <2> DEFINE q2 == queues'
             B == DOMAIN queues
             first2 == firstIrp'
  <2>1. /\ Chains(queues, B, Irps, NoIrp, firstIrp, irpNext, irpPrev) /\ h \in B
        /\ q2 = [g \in B \ {h} |-> queues[g]] /\ \A g \in B \ {h} : first2[g] = firstIrp[g]
    BY <1>2, <1>4, <1>5, <1>6
  <2> HIDE DEF q2, B, first2
  <2>2. DOMAIN q2 = B \ {h} /\ Chains(q2, DOMAIN q2, Irps, NoIrp, first2, irpNext, irpPrev)
    BY <2>1, QueueGoes
  <2> QED
    BY <2>2 DEF q2, B, first2
<1>8. \A g \in DOMAIN queues' : lastIrp'[g] = LastOf(queues'[g], NoIrp)
  <2> SUFFICES ASSUME NEW g \in DOMAIN queues \ {h} PROVE lastIrp'[g] = LastOf(queues'[g], NoIrp)
    BY <1>7
  <2>1. queues'[g] = queues[g] /\ g \in Handles
    BY <1>4, <1>6
  <2> QED
    BY <1>4, <1>5, <2>1
<1>9. QueuesInv'
  BY <1>0, <1>1, <1>5, <1>7, <1>8 DEF QueuesInv
<1> QED
  BY <1>3, <1>9 DEF IrpInv

(* What is not done is the queue from now on, with links of its own. *)
LEMMA ExecuteStep ==
  ASSUME IrpInv, NEW h \in DOMAIN queues, NEW undone, ExecuteFile(h, undone)
  PROVE  IrpInv'
<1> DEFINE list == Walked(firstIrp[h], irpNext, Cardinality(Irps))
           left == Kept(list, undone)
           n == Len(left)
           Was(k) == IF k \in 1 .. n THEN left[k] ELSE NoIrp
           place(i) == CHOOSE k \in 1 .. n : left[k] = i
           kept == {left[k] : k \in 1 .. n}
           B == DOMAIN queues
           s == queues[h]
<1>0. ObjectsInv /\ QueuesInv
  BY DEF IrpInv
<1>1. /\ firstIrp \in [Handles -> Irps \cup {NoIrp}] /\ lastIrp \in [Handles -> Irps \cup {NoIrp}]
      /\ irpNext \in [Irps -> Irps \cup {NoIrp}] /\ irpPrev \in [Irps -> Irps \cup {NoIrp}]
      /\ Chains(queues, B, Irps, NoIrp, firstIrp, irpNext, irpPrev)
      /\ \A g \in B : lastIrp[g] = LastOf(queues[g], NoIrp)
      /\ B \subseteq Handles
  BY <1>0 DEF QueuesInv, ObjectsInv
<1>2. list = s /\ s \in Seq(Irps) /\ Once(s) /\ queues \in [B -> Seq(Irps)]
  BY <1>0, QueueIs
<1>3. /\ firstIrp' = [firstIrp EXCEPT ![h] = Was(1)] /\ lastIrp' = [lastIrp EXCEPT ![h] = Was(n)]
      /\ irpNext' = [i \in Irps |-> IF i \in kept THEN Was(place(i) + 1) ELSE irpNext[i]]
      /\ irpPrev' = [i \in Irps |-> IF i \in kept THEN Was(place(i) - 1) ELSE irpPrev[i]]
      /\ queues' = [queues EXCEPT ![h] = Kept(s, undone)] /\ UNCHANGED irpHashVars
  BY DEF ExecuteFile
<1>4. left = Kept(s, undone)
  BY <1>2
<1>5. LeftOf(left, Irps, s, Len(s), undone)
  <2> HIDE DEF s, left
  <2> QED
    BY <1>2, <1>4, KeptIs
<1>6. queues' = [queues EXCEPT ![h] = left]
  BY <1>3, <1>4
<1> HIDE DEF left
<1>7. left \in Seq(Irps) /\ Once(left) /\ n \in Nat /\ \A k \in 1 .. n : left[k] \in Irps /\ In(s, left[k])
  <2> HIDE DEF s, list
  <2>1. /\ left \in Seq(Irps) /\ Once(left)
        /\ \A x : In(left, x) => \E j \in 1 .. Len(s) : s[j] = x
    BY <1>5 DEF LeftOf
  <2>2. n \in Nat /\ \A k \in 1 .. n : left[k] \in Irps /\ In(left, left[k])
    BY <2>1 DEF In
  <2> QED
    BY <2>1, <2>2 DEF In
<1> HIDE DEF s, list
<1>8. h \in Handles /\ NoIrp \notin Irps
  BY <1>1, IrpConstants
<1>9. \A k : Was(k) \in Irps \cup {NoIrp}
  BY <1>7
<1>10. /\ firstIrp' \in [Handles -> Irps \cup {NoIrp}] /\ lastIrp' \in [Handles -> Irps \cup {NoIrp}]
       /\ firstIrp'[h] = Was(1) /\ lastIrp'[h] = Was(n)
       /\ \A g \in Handles : g # h => firstIrp'[g] = firstIrp[g] /\ lastIrp'[g] = lastIrp[g]
  <2> HIDE DEF Was, n
  <2> QED
    BY <1>1, <1>3, <1>8, <1>9
<1>11. \A k \in 1 .. n : left[k] \in kept /\ place(left[k]) = k
  <2> SUFFICES ASSUME NEW k \in 1 .. n PROVE left[k] \in kept /\ place(left[k]) = k
    OBVIOUS
  <2>1. place(left[k]) \in 1 .. n /\ left[place(left[k])] = left[k]
    OBVIOUS
  <2>2. left[k] \in kept
    OBVIOUS
  <2> HIDE DEF place, kept
  <2> QED
    BY <1>7, <2>1, <2>2 DEF Once
<1>12. /\ irpNext' \in [Irps -> Irps \cup {NoIrp}] /\ irpPrev' \in [Irps -> Irps \cup {NoIrp}]
       /\ \A i \in Irps : /\ i \in kept => irpNext'[i] = Was(place(i) + 1) /\ irpPrev'[i] = Was(place(i) - 1)
                          /\ i \notin kept => irpNext'[i] = irpNext[i] /\ irpPrev'[i] = irpPrev[i]
  <2> HIDE DEF Was, n, kept, place
  <2> QED
    BY <1>1, <1>3, <1>9
<1>13. \A i \in Irps : ~In(left, i) => i \notin kept
  BY DEF In
<1> HIDE DEF kept, place
<1>14. \A k \in 1 .. n : irpNext'[left[k]] = Was(k + 1) /\ irpPrev'[left[k]] = Was(k - 1)
  <2> HIDE DEF Was, n
  <2> QED
    BY <1>7, <1>11, <1>12
<1>15. Follow(left, firstIrp'[h], irpNext', irpPrev', NoIrp)
  <2>1. firstIrp'[h] = IF n = 0 THEN NoIrp ELSE left[1]
    BY <1>7, <1>10
  <2>2. \A k \in 1 .. n : /\ irpNext'[left[k]] = IF k = n THEN NoIrp ELSE left[k + 1]
                          /\ irpPrev'[left[k]] = IF k = 1 THEN NoIrp ELSE left[k - 1]
    BY <1>7, <1>14
  <2> QED
    BY <2>1, <2>2 DEF Follow
<1>16. lastIrp'[h] = LastOf(left, NoIrp)
  BY <1>7, <1>10 DEF LastOf
<1> HIDE DEF Was, n
<1> DEFINE q2 == queues'
<1>17. ButFor(q2, queues, B, h, left)
  BY <1>2, <1>6 DEF ButFor
<1>18. Parted(Irps, queues, h, left, irpNext, irpPrev, irpNext', irpPrev')
  BY <1>7, <1>12, <1>13 DEF Parted, n, s
<1>19. \A g \in B : g # h => firstIrp'[g] = firstIrp[g]
  BY <1>1, <1>10
<1> HIDE DEF q2
<1>20. Chains(q2, B, Irps, NoIrp, firstIrp', irpNext', irpPrev')
  <2> DEFINE head2 == firstIrp'
             next2 == irpNext'
             pred2 == irpPrev'
  <2>1. /\ h \in B /\ left \in Seq(Irps) /\ Parted(Irps, queues, h, left, irpNext, irpPrev, next2, pred2)
        /\ Follow(left, head2[h], next2, pred2, NoIrp) /\ \A g \in B : g # h => head2[g] = firstIrp[g]
    BY <1>7, <1>15, <1>18, <1>19
  <2> HIDE DEF head2, next2, pred2, B
  <2>2. Chains(q2, B, Irps, NoIrp, head2, next2, pred2)
    BY <1>1, <1>17, <2>1, PartChains
  <2> QED
    BY <2>2 DEF head2, next2, pred2
<1>21. DOMAIN queues' = B
  BY <1>6
<1>22. \A g \in B : lastIrp'[g] = LastOf(queues'[g], NoIrp)
  <2> SUFFICES ASSUME NEW g \in B PROVE lastIrp'[g] = LastOf(queues'[g], NoIrp)
    OBVIOUS
  <2>1. CASE g = h
    BY <1>6, <1>16, <2>1
  <2>2. CASE g # h
    <3>1. queues'[g] = queues[g] /\ lastIrp'[g] = lastIrp[g]
      BY <1>1, <1>6, <1>10, <2>2
    <3> QED
      BY <1>1, <3>1
  <2> QED
    BY <2>1, <2>2
<1>23. QueuesInv'
  BY <1>10, <1>12, <1>20, <1>21, <1>22 DEF QueuesInv, q2
<1>24. ObjectsInv'
  BY <1>0, <1>3, <1>21, FilesSame
<1> QED
  BY <1>23, <1>24 DEF IrpInv

(* An IRP leaves its queue, and with the last one the object its chain. *)
LEMMA IrpRemoveStep ==
  ASSUME IrpInv, NEW h \in Handles, NEW i \in Irps, RemoveIrp(h, i)
  PROVE  IrpInv'
<1> DEFINE B == DOMAIN queues
           s == queues[h]
           x == irpNext[i]
           y == irpPrev[i]
<1>0. ObjectsInv /\ QueuesInv
  BY DEF IrpInv
<1>1. /\ firstIrp \in [Handles -> Irps \cup {NoIrp}] /\ lastIrp \in [Handles -> Irps \cup {NoIrp}]
      /\ irpNext \in [Irps -> Irps \cup {NoIrp}] /\ irpPrev \in [Irps -> Irps \cup {NoIrp}]
      /\ Chains(queues, B, Irps, NoIrp, firstIrp, irpNext, irpPrev)
      /\ \A g \in B : lastIrp[g] = LastOf(queues[g], NoIrp)
      /\ B \subseteq Handles
  BY <1>0 DEF QueuesInv, ObjectsInv
<1>2. h \in B
  BY DEF RemoveIrp
<1>3. s \in Seq(Irps) /\ queues \in [B -> Seq(Irps)] /\ NoIrp \notin Irps
  BY <1>0, <1>2, QueueIs, IrpConstants
<1>4. PICK p \in DOMAIN s :
       /\ s[p] = i
       /\ firstIrp' = IF y = NoIrp THEN [firstIrp EXCEPT ![h] = x] ELSE firstIrp
       /\ lastIrp' = IF x = NoIrp THEN [lastIrp EXCEPT ![h] = y] ELSE lastIrp
       /\ irpNext' = IF y = NoIrp THEN [irpNext EXCEPT ![i] = NoIrp]
                     ELSE [irpNext EXCEPT ![y] = x, ![i] = NoIrp]
       /\ irpPrev' = IF x = NoIrp THEN [irpPrev EXCEPT ![i] = NoIrp]
                     ELSE [irpPrev EXCEPT ![x] = y, ![i] = NoIrp]
       /\ IF firstIrp'[h] = NoIrp
          THEN UnlinkFile(h) /\ queues' = Without(queues, h)
          ELSE UNCHANGED irpHashVars /\ queues' = [queues EXCEPT ![h] = Drop(s, p)]
  BY DEF RemoveIrp
<1>5. p \in 1 .. Len(s)
  BY <1>3
<1>6. x \in Irps \cup {NoIrp} /\ y \in Irps \cup {NoIrp}
  BY <1>1
<1> HIDE DEF x, y
<1>7. /\ firstIrp' \in [Handles -> Irps \cup {NoIrp}]
      /\ firstIrp'[h] = (IF y = NoIrp THEN x ELSE firstIrp[h])
      /\ \A g \in Handles : g # h => firstIrp'[g] = firstIrp[g]
  BY <1>1, <1>4, <1>6
<1>8. /\ lastIrp' \in [Handles -> Irps \cup {NoIrp}]
      /\ lastIrp'[h] = (IF x = NoIrp THEN y ELSE lastIrp[h])
      /\ \A g \in Handles : g # h => lastIrp'[g] = lastIrp[g]
  BY <1>1, <1>4, <1>6
<1>9. /\ irpNext' \in [Irps -> Irps \cup {NoIrp}]
      /\ \A j \in Irps : j # i => irpNext'[j] = IF j = y THEN x ELSE irpNext[j]
  BY <1>1, <1>3, <1>4, <1>6
<1>10. /\ irpPrev' \in [Irps -> Irps \cup {NoIrp}]
       /\ \A j \in Irps : j # i => irpPrev'[j] = IF j = x THEN y ELSE irpPrev[j]
  BY <1>1, <1>3, <1>4, <1>6
<1>11. PICK c2 : ButFor(c2, queues, B, h, Drop(s, p))
  BY DEF ButFor
<1>12. Passed(B, Irps, NoIrp, h, s[p], firstIrp, irpNext, irpPrev, firstIrp', irpNext', irpPrev')
  BY <1>1, <1>4, <1>7, <1>9, <1>10 DEF Passed, x, y
<1> DEFINE head2 == firstIrp'
           next2 == irpNext'
           pred2 == irpPrev'
<1>13. Chains(c2, B, Irps, NoIrp, head2, next2, pred2)
  <2>1. Passed(B, Irps, NoIrp, h, queues[h][p], firstIrp, irpNext, irpPrev, head2, next2, pred2)
    BY <1>12
  <2>2. ButFor(c2, queues, B, h, Drop(queues[h], p)) /\ p \in 1 .. Len(queues[h])
    BY <1>5, <1>11
  <2> HIDE DEF head2, next2, pred2, B
  <2> QED
    BY <1>1, <1>2, <2>1, <2>2, DropChains
<1>14. lastIrp'[h] = LastOf(Drop(s, p), NoIrp)
  <2>1. LastOf(Drop(queues[h], p), NoIrp)
          = IF irpNext[queues[h][p]] = NoIrp THEN irpPrev[queues[h][p]] ELSE LastOf(queues[h], NoIrp)
    <3> HIDE DEF B
    <3>1. p \in 1 .. Len(queues[h])
      BY <1>5
    <3> QED
      BY <1>1, <1>2, <3>1, DropLast
  <2> QED
    BY <1>1, <1>2, <1>4, <1>8, <2>1 DEF x, y
<1>15. c2[h] = Drop(s, p) /\ \A g \in B \ {h} : c2[g] = queues[g]
  BY <1>2, <1>11 DEF ButFor
<1>16. CASE firstIrp'[h] = NoIrp
  <2>1. UnlinkFile(h) /\ queues' = Without(queues, h)
    BY <1>4, <1>16
  <2>2. ObjectsInv'
    BY <1>0, <1>2, <2>1, FileGoes
  <2>3. queues' = [g \in B \ {h} |-> c2[g]]
    BY <1>15, <2>1 DEF Without
  <2>4. DOMAIN queues' = B \ {h} /\ Chains(queues', DOMAIN queues', Irps, NoIrp, head2, next2, pred2)
    <3> DEFINE q2 == queues'
    <3>1. /\ q2 = [g \in B \ {h} |-> c2[g]] /\ \A g \in B \ {h} : head2[g] = head2[g]
          /\ h \in B
      BY <1>2, <2>3
    <3> HIDE DEF q2, B, head2, next2, pred2
    <3>2. DOMAIN q2 = B \ {h} /\ Chains(q2, DOMAIN q2, Irps, NoIrp, head2, next2, pred2)
      BY <1>13, <3>1, QueueGoes
    <3> QED
      BY <3>2 DEF q2
  <2>5. \A g \in DOMAIN queues' : lastIrp'[g] = LastOf(queues'[g], NoIrp)
    <3> SUFFICES ASSUME NEW g \in B \ {h} PROVE lastIrp'[g] = LastOf(queues'[g], NoIrp)
      BY <2>4
    <3>1. queues'[g] = queues[g] /\ g \in Handles /\ lastIrp'[g] = lastIrp[g]
      BY <1>1, <1>8, <1>15, <2>3
    <3> QED
      BY <1>1, <3>1
  <2>6. QueuesInv'
    BY <1>7, <1>8, <1>9, <1>10, <2>4, <2>5 DEF QueuesInv
  <2> QED
    BY <2>2, <2>6 DEF IrpInv
<1>17. CASE firstIrp'[h] # NoIrp
  <2>1. UNCHANGED irpHashVars /\ queues' = [queues EXCEPT ![h] = Drop(s, p)]
    BY <1>4, <1>17
  <2>2. DOMAIN queues' = B /\ queues' = c2
    BY <1>3, <1>11, <2>1 DEF ButFor
  <2>3. ObjectsInv'
    BY <1>0, <2>1, <2>2, FilesSame
  <2>4. \A g \in B : lastIrp'[g] = LastOf(queues'[g], NoIrp)
    <3> SUFFICES ASSUME NEW g \in B PROVE lastIrp'[g] = LastOf(queues'[g], NoIrp)
      OBVIOUS
    <3>1. CASE g = h
      BY <1>14, <1>15, <2>2, <3>1
    <3>2. CASE g # h
      <4>1. queues'[g] = queues[g] /\ g \in Handles /\ lastIrp'[g] = lastIrp[g]
        BY <1>1, <1>8, <1>15, <2>2, <3>2
      <4> QED
        BY <1>1, <4>1
    <3> QED
      BY <3>1, <3>2
  <2>5. QueuesInv'
    BY <1>7, <1>8, <1>9, <1>10, <1>13, <2>2, <2>4 DEF QueuesInv
  <2> QED
    BY <2>3, <2>5 DEF IrpInv
<1> QED
  BY <1>16, <1>17

(* An IRP is put behind those of its file, whose object may be new. *)
LEMMA InsertStep ==
  ASSUME IrpInv, NEW h \in Handles, NEW i \in Irps, InsertIrp(h, i)
  PROVE  IrpInv'
<1> DEFINE B == DOMAIN queues
<1>0. ObjectsInv /\ QueuesInv
  BY DEF IrpInv
<1>1. /\ firstIrp \in [Handles -> Irps \cup {NoIrp}] /\ lastIrp \in [Handles -> Irps \cup {NoIrp}]
      /\ irpNext \in [Irps -> Irps \cup {NoIrp}] /\ irpPrev \in [Irps -> Irps \cup {NoIrp}]
      /\ Chains(queues, B, Irps, NoIrp, firstIrp, irpNext, irpPrev)
      /\ \A g \in B : lastIrp[g] = LastOf(queues[g], NoIrp)
      /\ B \subseteq Handles
  BY <1>0 DEF QueuesInv, ObjectsInv
<1>2. queues \in [B -> Seq(Irps)] /\ NoIrp \notin Irps
  BY <1>1, IrpConstants DEF Chains
<1>3. ~InOne(queues, B, i)
  <2>1. \A g \in B : \A n \in 1 .. Len(queues[g]) : queues[g][n] # i
    BY <1>2 DEF InsertIrp
  <2> QED
    BY <2>1 DEF InOne, In
<1>4. SearchFile(h) <=> h \in B
  BY <1>0, FilesFound
<1>5. queues' = [g \in B \cup {h} |->
                   IF g \notin B THEN <<i>>
                   ELSE IF g = h THEN Append(queues[g], i) ELSE queues[g]]
  BY DEF InsertIrp
<1> DEFINE q2 == queues'
           head2 == firstIrp'
           next2 == irpNext'
           pred2 == irpPrev'
<1>6. CASE h \in B
  <2> DEFINE e == LastOf(queues[h], NoIrp)
  <2>1. UNCHANGED irpHashVars /\ PushIrp(h, i)
    BY <1>4, <1>6 DEF InsertIrp
  <2>2. DOMAIN queues' = B
    BY <1>5, <1>6
  <2>3. ObjectsInv'
    BY <1>0, <2>1, <2>2, FilesSame
  <2>4. e = lastIrp[h] /\ h \in Handles /\ queues[h] \in Seq(Irps)
        /\ Follow(queues[h], firstIrp[h], irpNext, irpPrev, NoIrp)
    BY <1>1, <1>2, <1>6 DEF Chains
  <2>5. /\ firstIrp[h] = NoIrp => e = NoIrp
        /\ firstIrp[h] # NoIrp => e \in Irps /\ e # i
    <3> DEFINE s == queues[h]
               L == Len(s)
    <3>1. firstIrp[h] = IF L = 0 THEN NoIrp ELSE s[1]
      BY <2>4 DEF Follow
    <3>2. e = IF L = 0 THEN NoIrp ELSE s[L]
      BY DEF LastOf
    <3>3. L \in Nat /\ \A n \in 1 .. L : s[n] \in Irps /\ s[n] # i
      BY <1>3, <1>6, <2>4 DEF InOne, In
    <3> HIDE DEF s, L, e
    <3>4. L # 0 => 1 \in 1 .. L /\ L \in 1 .. L
      BY <3>3
    <3> QED
      BY <1>2, <3>1, <3>2, <3>3, <3>4
  <2>6. /\ lastIrp' = [lastIrp EXCEPT ![h] = i] /\ irpPrev' = [irpPrev EXCEPT ![i] = e]
        /\ \/ /\ firstIrp[h] = NoIrp /\ firstIrp' = [firstIrp EXCEPT ![h] = i]
              /\ irpNext' = [irpNext EXCEPT ![i] = NoIrp]
           \/ /\ firstIrp[h] # NoIrp /\ firstIrp' = firstIrp
              /\ irpNext' = [irpNext EXCEPT ![i] = NoIrp, ![e] = i]
    BY <2>1, <2>4 DEF PushIrp
  <2> HIDE DEF e
  <2>7. e \in Irps \cup {NoIrp} /\ e # i
    BY <1>2, <2>5
  <2>8. /\ firstIrp' \in [Handles -> Irps \cup {NoIrp}]
        /\ firstIrp'[h] = (IF firstIrp[h] = NoIrp THEN i ELSE firstIrp[h])
        /\ \A g \in Handles : g # h => firstIrp'[g] = firstIrp[g]
    BY <1>1, <2>4, <2>6
  <2>9. /\ lastIrp' \in [Handles -> Irps \cup {NoIrp}] /\ lastIrp'[h] = i
        /\ \A g \in Handles : g # h => lastIrp'[g] = lastIrp[g]
    BY <1>1, <2>4, <2>6
  <2>10. /\ irpPrev' \in [Irps -> Irps \cup {NoIrp}] /\ irpPrev'[i] = e
         /\ \A j \in Irps : j # i => irpPrev'[j] = irpPrev[j]
    BY <1>1, <2>6, <2>7
  <2>11. /\ irpNext' \in [Irps -> Irps \cup {NoIrp}] /\ irpNext'[i] = NoIrp
         /\ \A j \in Irps : j # i => irpNext'[j] = IF j = e THEN i ELSE irpNext[j]
    <3>1. CASE firstIrp[h] = NoIrp
      <4>1. irpNext' = [irpNext EXCEPT ![i] = NoIrp] /\ e = NoIrp
        BY <2>5, <2>6, <3>1
      <4> QED
        BY <1>1, <1>2, <4>1
    <3>2. CASE firstIrp[h] # NoIrp
      <4>1. irpNext' = [irpNext EXCEPT ![i] = NoIrp, ![e] = i] /\ e \in Irps /\ e # i
        BY <2>5, <2>6, <3>2
      <4> QED
        BY <1>1, <4>1
    <3> QED
      BY <3>1, <3>2
  <2>12. Behind(B, Irps, NoIrp, h, i, e, firstIrp, irpNext, irpPrev, head2, next2, pred2)
    BY <1>1, <2>8, <2>10, <2>11 DEF Behind
  <2>13. ButFor(q2, queues, B, h, Append(queues[h], i))
    BY <1>5, <1>6 DEF ButFor
  <2>14. Chains(q2, B, Irps, NoIrp, head2, next2, pred2) /\ i = LastOf(q2[h], NoIrp)
    <3>1. e = LastOf(queues[h], NoIrp)
      BY DEF e
    <3> HIDE DEF q2, head2, next2, pred2, B
    <3> QED
      BY <1>1, <1>3, <1>6, <2>12, <2>13, <3>1, BehindChains
  <2>15. \A g \in B : lastIrp'[g] = LastOf(queues'[g], NoIrp)
    <3> SUFFICES ASSUME NEW g \in B PROVE lastIrp'[g] = LastOf(queues'[g], NoIrp)
      OBVIOUS
    <3>1. CASE g = h
      BY <2>9, <2>14, <3>1
    <3>2. CASE g # h
      <4>1. queues'[g] = queues[g] /\ lastIrp'[g] = lastIrp[g]
        BY <1>1, <1>5, <2>9, <3>2
      <4> QED
        BY <1>1, <4>1
    <3> QED
      BY <3>1, <3>2
  <2>16. QueuesInv'
    BY <2>2, <2>8, <2>9, <2>10, <2>11, <2>14, <2>15 DEF QueuesInv
  <2> QED
    BY <2>3, <2>16 DEF IrpInv
<1>7. CASE h \notin B
  <2> DEFINE B2 == B \cup {h}
             c == [g \in B2 |-> IF g \in B THEN queues[g] ELSE <<>>]
             head == [g \in B2 |-> IF g \in B THEN firstIrp[g] ELSE NoIrp]
  <2>1. /\ NewFile(h) /\ irpCounter' = irpCounter + 1
        /\ firstIrp' = [firstIrp EXCEPT ![h] = i] /\ lastIrp' = [lastIrp EXCEPT ![h] = i]
        /\ irpNext' = [irpNext EXCEPT ![i] = NoIrp] /\ irpPrev' = [irpPrev EXCEPT ![i] = NoIrp]
    BY <1>4, <1>7 DEF InsertIrp, NewFile
  <2>2. DOMAIN queues' = B2
    BY <1>5
  <2>3. ObjectsInv'
    BY <1>0, <1>7, <2>1, <2>2, FileComes
  <2>4. c \in [B2 -> Seq(Irps)] /\ c[h] = <<>> /\ head[h] = NoIrp
        /\ \A g \in B : c[g] = queues[g] /\ head[g] = firstIrp[g] /\ g \in B2
    BY <1>2, <1>7
  <2>5. h \in B2 /\ \A g \in B2 : g = h \/ (g \in B /\ g # h)
    BY <1>7
  <2> HIDE DEF c, head
  <2>6. OtherChains(queues, B, firstIrp, c, B2, head, NoIrp)
    BY <2>4, <2>5 DEF OtherChains
  <2>7. Chains(c, B2, Irps, NoIrp, head, irpNext, irpPrev)
    <3> HIDE DEF B, B2
    <3> QED
      BY <1>1, <2>4, <2>6, ChainsAreOther
  <2>8. ~InOne(c, B2, i)
    <3>1. Len(c[h]) = 0
      BY <2>4
    <3> QED
      BY <1>3, <2>4, <2>5, <3>1 DEF InOne, In
  <2>9. NoIrp = LastOf(c[h], NoIrp)
    <3>1. Len(c[h]) = 0
      BY <2>4
    <3> QED
      BY <3>1 DEF LastOf
  <2>10. /\ firstIrp' \in [Handles -> Irps \cup {NoIrp}] /\ lastIrp' \in [Handles -> Irps \cup {NoIrp}]
         /\ irpNext' \in [Irps -> Irps \cup {NoIrp}] /\ irpPrev' \in [Irps -> Irps \cup {NoIrp}]
         /\ firstIrp'[h] = i /\ lastIrp'[h] = i /\ irpNext'[i] = NoIrp /\ irpPrev'[i] = NoIrp
         /\ \A g \in Handles : g # h => firstIrp'[g] = firstIrp[g] /\ lastIrp'[g] = lastIrp[g]
         /\ \A j \in Irps : j # i => irpNext'[j] = irpNext[j] /\ irpPrev'[j] = irpPrev[j]
    BY <1>1, <2>1
  <2>11. Behind(B2, Irps, NoIrp, h, i, NoIrp, head, irpNext, irpPrev, head2, next2, pred2)
    <3>1. \A d \in B2 : d # h => head2[d] = head[d]
      BY <1>1, <2>4, <2>5, <2>10
    <3>2. \A j \in Irps : j # NoIrp
      BY <1>2
    <3> QED
      BY <2>4, <2>10, <3>1, <3>2 DEF Behind
  <2>12. ButFor(q2, c, B2, h, Append(c[h], i))
    <3>1. Append(c[h], i) = <<i>>
      BY <2>4
    <3>2. \A g \in B2 : q2[g] = IF g = h THEN <<i>> ELSE c[g]
      BY <1>5, <1>7, <2>4, <2>5
    <3>3. q2 = [g \in B2 |-> q2[g]]
      BY <1>5
    <3> HIDE DEF q2, B2
    <3> QED
      BY <3>1, <3>2, <3>3 DEF ButFor
  <2>13. Chains(q2, B2, Irps, NoIrp, head2, next2, pred2) /\ i = LastOf(q2[h], NoIrp)
    <3> HIDE DEF q2, head2, next2, pred2, B2
    <3> QED
      BY <2>5, <2>7, <2>8, <2>9, <2>11, <2>12, BehindChains
  <2>14. \A g \in B2 : lastIrp'[g] = LastOf(queues'[g], NoIrp)
    <3> SUFFICES ASSUME NEW g \in B2 PROVE lastIrp'[g] = LastOf(queues'[g], NoIrp)
      OBVIOUS
    <3>1. CASE g = h
      BY <2>10, <2>13, <3>1
    <3>2. CASE g # h
      <4>1. queues'[g] = queues[g] /\ lastIrp'[g] = lastIrp[g] /\ g \in B
        BY <1>1, <1>5, <2>5, <2>10, <3>2
      <4> QED
        BY <1>1, <4>1
    <3> QED
      BY <3>1, <3>2
  <2>15. QueuesInv'
    BY <2>2, <2>10, <2>13, <2>14 DEF QueuesInv
  <2> QED
    BY <2>3, <2>15 DEF IrpInv
<1> QED
  BY <1>6, <1>7

LEMMA IrpStep == IrpInv /\ [IrpTableNext]_irpTableVars => IrpInv'
<1> SUFFICES ASSUME IrpInv, [IrpTableNext]_irpTableVars PROVE IrpInv'
  OBVIOUS
<1>1. ASSUME NEW h \in Handles, NEW i \in Irps, InsertIrp(h, i) PROVE IrpInv'
  BY <1>1, InsertStep
<1>2. ASSUME NEW h \in Handles, NEW i \in Irps, RemoveIrp(h, i) PROVE IrpInv'
  BY <1>2, IrpRemoveStep
<1>3. ASSUME NEW h \in DOMAIN queues, NEW undone, ExecuteFile(h, undone) PROVE IrpInv'
  BY <1>3, ExecuteStep
<1>4. ASSUME NEW h \in Handles, CloseIrpFile(h) PROVE IrpInv'
  BY <1>4, CloseStep
<1>5. CASE CancelTable
  BY <1>5, CancelStep
<1>6. CASE UNCHANGED irpTableVars
  <2>1. /\ irpArray' = irpArray /\ irpCounter' = irpCounter /\ objNext' = objNext /\ objPrev' = objPrev
        /\ firstIrp' = firstIrp /\ lastIrp' = lastIrp /\ irpNext' = irpNext /\ irpPrev' = irpPrev
        /\ queues' = queues
    BY <1>6 DEF irpTableVars
  <2>2. ObjTable' = ObjTable
    BY <2>1 DEF ObjTable
  <2>3. ObjectsInv'
    BY <2>1, <2>2 DEF IrpInv, ObjectsInv
  <2>4. QueuesInv'
    BY <2>1 DEF IrpInv, QueuesInv
  <2> QED
    BY <2>3, <2>4 DEF IrpInv
<1> QED
  BY <1>1, <1>2, <1>3, <1>4, <1>5, <1>6 DEF IrpTableNext

(* What the walks along the links give, from the sequences of the invariant. *)
LEMMA IrpRight == IrpInv => TableIsQueues
<1> SUFFICES ASSUME IrpInv PROVE TableIsQueues
  OBVIOUS
<1>0. ObjectsInv /\ QueuesInv
  BY DEF IrpInv
<1>1. {h \in Handles : SearchFile(h)} = DOMAIN queues
  <2>1. \A h \in Handles : SearchFile(h) <=> h \in DOMAIN queues
    BY <1>0, FilesFound
  <2> QED
    BY <1>0, <2>1 DEF ObjectsInv
<1>2. irpCounter = Cardinality(DOMAIN queues)
  BY <1>0 DEF ObjectsInv
<1>3. ASSUME NEW b \in DOMAIN irpArray, NEW k \in DOMAIN IrpChain(b)
      PROVE  LET s == IrpChain(b) IN /\ HandleHash[s[k]] % irpBuckets = b
                                     /\ objPrev[s[k]] = IF k = 1 THEN NoIrp ELSE s[k - 1]
  <2>1. PICK n \in Nat \ {0} : \E c : HoldsFiles(ObjTable, n, c) /\ Before(c, Handles, n) = DOMAIN queues
    BY <1>0 DEF ObjectsInv
  <2>2. PICK c : HoldsFiles(ObjTable, n, c)
    BY <2>1
  <2>3. irpBuckets = n /\ b \in 0 .. n - 1
    BY <2>2, BucketsAre DEF HoldsFiles
  <2>4. IrpChain(b) = c[b]
    BY <2>2, <2>3, IrpChainIs
  <2> DEFINE s == c[b]
  <2>5. s \in Seq(Handles) /\ Follow(s, irpArray[b], objNext, objPrev, NoIrp)
        /\ \A h \in Handles : In(s, h) => FileBucket(n, h) = b
    BY <2>2, <2>3 DEF HoldsFiles, Chains, ObjTable
  <2>6. k \in DOMAIN s
    BY <2>4
  <2> HIDE DEF s
  <2>7. k \in 1 .. Len(s)
    BY <2>5, <2>6
  <2>8. s[k] \in Handles /\ In(s, s[k])
    BY <2>5, <2>7 DEF In
  <2>9. HandleHash[s[k]] % irpBuckets = b
    BY <2>3, <2>5, <2>8 DEF FileBucket
  <2>10. objPrev[s[k]] = IF k = 1 THEN NoIrp ELSE s[k - 1]
    BY <2>5, <2>7 DEF Follow
  <2> QED
    BY <2>4, <2>9, <2>10 DEF s
<1>4. ASSUME NEW h \in DOMAIN queues
      PROVE  /\ Walked(firstIrp[h], irpNext, Cardinality(Irps)) = queues[h]
             /\ Walked(lastIrp[h], irpPrev, Cardinality(Irps)) = Backwards(queues[h])
  <2>1. Walked(firstIrp[h], irpNext, Cardinality(Irps)) = queues[h]
    BY <1>0, QueueIs
  <2> DEFINE s == queues[h]
             r == Backwards(s)
             D == {h}
             c == [g \in D |-> r]
             last == lastIrp[h]
             most == Cardinality(Irps)
  <2>2. /\ s \in Seq(Irps) /\ Once(s) /\ NoIrp \notin Irps /\ IsFiniteSet(Irps)
        /\ Follow(s, firstIrp[h], irpNext, irpPrev, NoIrp) /\ last = LastOf(s, NoIrp)
    <3>1. s \in Seq(Irps) /\ Once(s)
      BY <1>0, QueueIs
    <3>2. Follow(s, firstIrp[h], irpNext, irpPrev, NoIrp) /\ last = LastOf(s, NoIrp)
      BY <1>0 DEF QueuesInv, Chains
    <3> QED
      BY <3>1, <3>2, IrpConstants
  <2> HIDE DEF s
  <2>3. r \in Seq(Irps) /\ Len(r) = Len(s) /\ \A n \in 1 .. Len(s) : r[n] = s[Len(s) + 1 - n]
    BY <2>2, BackwardsIs
  <2>4. Follow(r, last, irpPrev, irpNext, NoIrp)
    <3> DEFINE first == firstIrp[h]
    <3>1. Follow(s, first, irpNext, irpPrev, NoIrp) /\ last = LastOf(s, NoIrp) /\ s \in Seq(Irps)
      BY <2>2
    <3> HIDE DEF first, last
    <3> QED
      BY <3>1, BackwardsFollow
  <2> HIDE DEF r
  <2>5. \A i, j \in 1 .. Len(r) : r[i] = r[j] => i = j
    <3> SUFFICES ASSUME NEW i \in 1 .. Len(r), NEW j \in 1 .. Len(r), r[i] = r[j] PROVE i = j
      OBVIOUS
    <3> DEFINE L == Len(s)
    <3>1. L \in Nat /\ Len(r) = L
      BY <2>2, <2>3
    <3>2. L + 1 - i \in 1 .. L /\ L + 1 - j \in 1 .. L
      BY <3>1
    <3>3. s[L + 1 - i] = s[L + 1 - j]
      BY <2>3, <3>1
    <3>4. L + 1 - i = L + 1 - j
      BY <2>2, <3>2, <3>3 DEF Once
    <3> HIDE DEF L
    <3> QED
      BY <3>1, <3>4
  <2>6. c \in [D -> Seq(Irps)] /\ c[h] = r /\ \A g \in D : g = h /\ c[g] = r
    BY <2>3
  <2> HIDE DEF c, D
  <2>7. Apart(c, D)
    BY <2>5, <2>6 DEF Apart
  <2> DEFINE head == [g \in D |-> last]
  <2>8. \A g \in D : head[g] = last
    OBVIOUS
  <2>9. h \in D
    BY DEF D
  <2> HIDE DEF head, last
  <2>10. Chains(c, D, Irps, NoIrp, head, irpPrev, irpNext)
    BY <2>2, <2>4, <2>6, <2>7, <2>8 DEF Chains
  <2>11. last = head[h] /\ most = Cardinality(Irps)
    BY <2>8, <2>9
  <2> HIDE DEF most
  <2>12. Walked(last, irpPrev, most) = c[h]
    BY <2>2, <2>9, <2>10, <2>11, WalkedIs
  <2> QED
    BY <2>1, <2>6, <2>12 DEF last, most, r, s
<1> QED
  BY <1>1, <1>2, <1>3, <1>4 DEF TableIsQueues

(* Whatever the files, their hashes and the number of buckets: through every  *)
(* growth, removal, partial execution and closing exactly the files with an    *)
(* object are found, each once and in its own bucket, and the IRPs of a file   *)
(* are read forwards and backwards in the order in which they were started.    *)
THEOREM IrpTableIsRight == IrpTableSpec => []TableIsQueues
<1>1. IrpTableInit => IrpInv
  BY IrpStart
<1>2. IrpInv /\ [IrpTableNext]_irpTableVars => IrpInv'
  BY IrpStep
<1>3. IrpInv => TableIsQueues
  BY IrpRight
<1> QED
  BY <1>1, <1>2, <1>3, PTL DEF IrpTableSpec

-----------------------------------------------------------------------------
(* Resource packages.  A string table only grows, so a number denotes the same
   string for as long as its table stands.  *)
Extends(s, t) == Len(s) <= Len(t) /\ \A k \in 1 .. Len(s) : t[k] = s[k]

Pushes(g, strings, fields) ==
  /\ g[0] = strings
  /\ \A n \in 0 .. Len(fields) : g[n] \in Seq(Strings)
  /\ \A n \in 1 .. Len(fields) :
       g[n] = IF fields[n] = NoText THEN g[n - 1] ELSE Append(g[n - 1], fields[n])

LEMMA PushesAre ==
  ASSUME NEW strings \in Seq(Strings), NEW fields \in Seq(Maybe)
  PROVE  Pushes(StringsAfter(strings, fields), strings, fields)
<1> DEFINE L == Len(fields)
           S == Seq(Strings)
           step(r, i) == IF fields[i] = NoText THEN r ELSE Append(r, fields[i])
           Eq(f) == f = [n \in 0 .. L |-> IF n = 0 THEN strings
                           ELSE IF fields[n] = NoText THEN f[n - 1] ELSE Append(f[n - 1], fields[n])]
           F == [p \in (1 .. L) \X S |-> step(p[2], p[1])]
           f == StringsAfter(strings, fields)
<1>1. L \in Nat /\ \A i \in 1 .. L : fields[i] = NoText \/ fields[i] \in Strings
  BY DEF Maybe
<1>2. f = CHOOSE f2 : Eq(f2)
  BY DEF StringsAfter
<1>3. F \in [(1 .. L) \X S -> S] /\ strings \in S
  <2>1. ASSUME NEW i \in 1 .. L, NEW r \in S PROVE step(r, i) \in S
    BY <1>1
  <2> QED
    BY <2>1
<1>4. PICK g : Steps(g, L, S, strings, F)
  <2> HIDE DEF F, S, L
  <2> QED
    BY <1>1, <1>3, StepsExist
<1>5. Eq(g)
  <2>1. ASSUME NEW i \in 1 .. L PROVE g[i] = step(g[i - 1], i)
    <3>1. g[i - 1] \in S /\ g[i] = F[<<i, g[i - 1]>>]
      <4>1. i - 1 \in 0 .. L
        BY <1>1
      <4> HIDE DEF F, S, L
      <4> QED
        BY <1>4, <4>1 DEF Steps
    <3> QED
      BY <3>1
  <2>2. g \in [0 .. L -> S] /\ g[0] = strings
    <3> HIDE DEF F, S, L
    <3> QED
      BY <1>4 DEF Steps
  <2>3. \A i \in 0 .. L : g[i] = IF i = 0 THEN strings ELSE step(g[i - 1], i)
    <3> HIDE DEF F, S, L, step
    <3> SUFFICES ASSUME NEW i \in 0 .. L, i # 0 PROVE g[i] = step(g[i - 1], i)
      BY <2>2
    <3>1. i \in 1 .. L
      BY <1>1
    <3> QED
      BY <2>1, <3>1
  <2> HIDE DEF F, S, L
  <2>4. g = [i \in 0 .. L |-> g[i]]
    BY <2>2
  <2> QED
    BY <2>3, <2>4
<1>6. Eq(f)
  BY <1>2, <1>5
<1> HIDE DEF f, F
<1>7. f[0] = strings /\ \A i \in 1 .. L : f[i] = step(f[i - 1], i)
  <2> HIDE DEF L, S
  <2>1. 0 \in 0 .. L /\ \A i \in 1 .. L : i \in 0 .. L /\ i # 0
    BY <1>1
  <2> QED
    BY <1>6, <2>1
<1> DEFINE N == {i \in 0 .. L : f[i] \notin S}
<1>8. N = {}
  <2> SUFFICES ASSUME N # {} PROVE FALSE
    OBVIOUS
  <2>1. PICK i \in N : \A y \in N : i <= y
    <3>1. N \subseteq Nat
      BY <1>1
    <3> HIDE DEF N
    <3> QED
      BY <3>1, LeastElement
  <2>2. i \in 0 .. L /\ f[i] \notin S
    OBVIOUS
  <2>3. i \in 1 .. L /\ i - 1 \in 0 .. L
    BY <1>1, <1>7, <2>2
  <2>4. i - 1 \notin N
    <3> HIDE DEF N
    <3> QED
      BY <1>1, <2>1, <2>3
  <2>5. f[i - 1] \in S
    BY <2>3, <2>4
  <2>6. step(f[i - 1], i) \in S
    BY <1>1, <2>3, <2>5
  <2> QED
    BY <1>7, <2>2, <2>3, <2>6
<1>9. \A i \in 0 .. L : f[i] \in S
  BY <1>8
<1> QED
  BY <1>7, <1>9 DEF Pushes, f

LEMMA PushesExtend ==
  ASSUME NEW strings, NEW fields \in Seq(Maybe), NEW g, Pushes(g, strings, fields),
         NEW n \in 0 .. Len(fields)
  PROVE  Extends(g[n], g[Len(fields)])
<1> DEFINE L == Len(fields)
           N == {m \in n .. L : ~Extends(g[n], g[m])}
<1>1. L \in Nat /\ n \in Nat /\ n <= L
  OBVIOUS
<1>2. N = {}
  <2> SUFFICES ASSUME N # {} PROVE FALSE
    OBVIOUS
  <2>1. PICK m \in N : \A y \in N : m <= y
    <3>1. N \subseteq Nat
      BY <1>1
    <3> HIDE DEF N
    <3> QED
      BY <3>1, LeastElement
  <2>2. m \in n .. L /\ ~Extends(g[n], g[m])
    OBVIOUS
  <2>3. \A j \in 0 .. L : g[j] \in Seq(Strings)
    BY DEF Pushes
  <2>4. m # n
    <3>1. Len(g[n]) \in Nat
      BY <2>3
    <3>2. Extends(g[n], g[n])
      BY <3>1 DEF Extends
    <3> QED
      BY <2>2, <3>2
  <2>5. m \in 1 .. L /\ m - 1 \in n .. L /\ m - 1 \in 0 .. L
    BY <1>1, <2>2, <2>4
  <2>6. m - 1 \notin N
    <3> HIDE DEF N
    <3> QED
      BY <1>1, <2>1, <2>5
  <2>7. Extends(g[n], g[m - 1])
    BY <2>5, <2>6
  <2>8. g[m] = IF fields[m] = NoText THEN g[m - 1] ELSE Append(g[m - 1], fields[m])
    BY <2>5 DEF Pushes
  <2>9. g[m - 1] \in Seq(Strings) /\ g[n] \in Seq(Strings)
    BY <2>3, <2>5
  <2>10. Extends(g[m - 1], g[m]) /\ Len(g[m]) \in Nat
    <3>1. g[m] \in Seq(Strings)
      BY <1>1, <2>2, <2>3
    <3> QED
      BY <2>8, <2>9, <3>1 DEF Extends
  <2>11. Extends(g[n], g[m])
    BY <2>7, <2>9, <2>10 DEF Extends
  <2> QED
    BY <2>2, <2>11
<1> QED
  BY <1>1, <1>2

(* The numbers stand for the fields: NULL for those that were not given. *)
FieldsRight(ids, strings, fields) ==
  /\ fields \in Seq(Maybe) /\ DOMAIN ids = 1 .. Len(fields)
  /\ \A k \in 1 .. Len(fields) :
       /\ fields[k] = NoText => ids[k] = NullId
       /\ fields[k] # NoText => ids[k] \in 0 .. Len(strings) - 1 /\ strings[ids[k] + 1] = fields[k]

LEMMA FieldsStay ==
  ASSUME NEW ids, NEW s \in Seq(Strings), NEW t \in Seq(Strings), NEW fields,
         FieldsRight(ids, s, fields), Extends(s, t)
  PROVE  FieldsRight(ids, t, fields)
<1>1. Len(s) \in Nat /\ Len(t) \in Nat /\ Len(s) <= Len(t)
  BY DEF Extends
<1>2. ASSUME NEW k \in 1 .. Len(fields), fields[k] # NoText
      PROVE  ids[k] \in 0 .. Len(t) - 1 /\ t[ids[k] + 1] = fields[k]
  <2>1. ids[k] \in 0 .. Len(s) - 1 /\ s[ids[k] + 1] = fields[k]
    BY <1>2 DEF FieldsRight
  <2>2. ids[k] + 1 \in 1 .. Len(s) /\ ids[k] \in 0 .. Len(t) - 1
    BY <1>1, <2>1
  <2> QED
    BY <2>1, <2>2 DEF Extends
<1> QED
  BY <1>2 DEF FieldsRight

LEMMA PushedRight ==
  ASSUME NEW strings \in Seq(Strings), NEW fields \in Seq(Maybe)
  PROVE  /\ FieldsRight(PushedIds(strings, fields),
                        StringsAfter(strings, fields)[Len(fields)], fields)
         /\ StringsAfter(strings, fields)[Len(fields)] \in Seq(Strings)
         /\ Extends(strings, StringsAfter(strings, fields)[Len(fields)])
<1> DEFINE g == StringsAfter(strings, fields)
           L == Len(fields)
           ids == PushedIds(strings, fields)
<1>1. Pushes(g, strings, fields) /\ L \in Nat
  BY PushesAre
<1>2. ids = [k \in 1 .. L |-> IF fields[k] = NoText THEN NullId ELSE Len(g[k - 1])]
  BY DEF PushedIds
<1> HIDE DEF g, ids
<1>3. \A n \in 0 .. L : g[n] \in Seq(Strings) /\ Extends(g[n], g[L])
  <2>1. \A n \in 0 .. L : g[n] \in Seq(Strings)
    BY <1>1 DEF Pushes
  <2> QED
    BY <1>1, <2>1, PushesExtend
<1>4. ASSUME NEW k \in 1 .. L, fields[k] # NoText
      PROVE  ids[k] \in 0 .. Len(g[L]) - 1 /\ g[L][ids[k] + 1] = fields[k]
  <2>1. k \in 0 .. L /\ k - 1 \in 0 .. L
    BY <1>1
  <2>2. g[k] = Append(g[k - 1], fields[k]) /\ fields[k] \in Strings
    <3>1. fields[k] \in Maybe
      OBVIOUS
    <3>2. g[k] = IF fields[k] = NoText THEN g[k - 1] ELSE Append(g[k - 1], fields[k])
      BY <1>1 DEF Pushes
    <3> QED
      BY <1>4, <3>1, <3>2 DEF Maybe
  <2>3. ids[k] = Len(g[k - 1]) /\ g[k - 1] \in Seq(Strings) /\ g[k] \in Seq(Strings)
    BY <1>2, <1>3, <1>4, <2>1
  <2>4. ids[k] \in Nat /\ Len(g[k]) = ids[k] + 1 /\ g[k][ids[k] + 1] = fields[k]
    BY <2>2, <2>3
  <2>5. Extends(g[k], g[L]) /\ Len(g[L]) \in Nat
    BY <1>1, <1>3, <2>1
  <2>6. ids[k] + 1 \in 1 .. Len(g[k])
    BY <2>4
  <2> QED
    BY <2>4, <2>5, <2>6 DEF Extends
<1>5. FieldsRight(ids, g[L], fields)
  BY <1>2, <1>4 DEF FieldsRight
<1>6. g[L] \in Seq(Strings) /\ Extends(strings, g[L])
  <2>1. g[0] = strings /\ 0 \in 0 .. L /\ L \in 0 .. L
    BY <1>1 DEF Pushes
  <2> QED
    BY <1>3, <2>1
<1> QED
  BY <1>5, <1>6 DEF g, ids

-----------------------------------------------------------------------------
(* The table of a locale holds the items that were given, each with its fields;
   there is one for the locales with an item. *)
TextsRight(t, w) ==
  /\ t.strings \in Seq(Strings)
  /\ DOMAIN t.ids = DOMAIN w /\ DOMAIN w \subseteq Items
  /\ \A i \in DOMAIN w : /\ FieldsRight(t.ids[i], t.strings, w[i])
                         /\ i[1] = "text" => Len(w[i]) = 2 /\ w[i][1] = i[2]

LocaleRight(p, w, l) ==
  IF l \in DOMAIN p THEN TextsRight(p[l], w[l]) /\ DOMAIN w[l] # {} ELSE DOMAIN w[l] = {}

ResInv ==
  /\ DOMAIN pack \subseteq LocaleSet /\ DOMAIN want = LocaleSet /\ mixed \subseteq LocaleSet
  /\ \A l \in LocaleSet \ mixed : LocaleRight(pack, want, l)
  /\ asked # NoText => version = asked

LEMMA NothingInEmpty == DOMAIN <<>> = {}
OBVIOUS

IsWith(h, g, x, y) ==
  /\ DOMAIN h = {x} \cup DOMAIN g /\ h[x] = y
  /\ \A z \in DOMAIN g : z # x => h[z] = g[z]

LEMMA Inserted == ASSUME NEW g, NEW x, NEW y PROVE IsWith(With(g, x, y), g, x, y)
BY DEF With, IsWith

LEMMA ResStart == ResourceInit => ResInv
BY NothingInEmpty DEF ResourceInit, ResInv, LocaleRight

(* The strings of a New call. *)
LEMMA FieldsAre ==
  ASSUME NEW i \in Items, NEW f \in FieldsOf(i)
  PROVE  f \in Seq(Maybe) /\ (i[1] = "text" => Len(f) = 2 /\ f[1] = i[2])
<1>1. CASE i[1] = "message"
  <2>1. PICK m \in Maybe : f = <<m>>
    BY <1>1 DEF FieldsOf
  <2> QED
    BY <1>1, <2>1
<1>2. CASE i[1] = "text"
  <2>1. i[2] \in Strings
    BY <1>2 DEF Items
  <2>2. PICK m \in Maybe : f = <<i[2], m>>
    BY <1>2 DEF FieldsOf
  <2> QED
    BY <2>1, <2>2 DEF Maybe
<1>3. CASE i[1] # "message" /\ i[1] # "text"
  <2>1. PICK m \in Maybe, n \in Maybe : f = <<m, n>>
    BY <1>3 DEF FieldsOf
  <2> QED
    BY <1>3, <2>1
<1> QED
  BY <1>1, <1>2, <1>3

LEMMA EmptyRight == ASSUME NEW w, DOMAIN w = {} PROVE TextsRight(EmptyTable, w)
<1>1. EmptyTable.strings = <<>> /\ EmptyTable.ids = <<>> /\ <<>> \in Seq(Strings)
  BY DEF EmptyTable
<1> QED
  BY <1>1, NothingInEmpty DEF TextsRight

LEMMA ItemAdded ==
  ASSUME NEW t, NEW w, TextsRight(t, w), NEW i \in Items, i \notin DOMAIN w, NEW f \in FieldsOf(i)
  PROVE  TextsRight([ids     |-> With(t.ids, i, PushedIds(t.strings, f)),
                     strings |-> StringsAfter(t.strings, f)[Len(f)]], With(w, i, f))
<1> DEFINE ids == PushedIds(t.strings, f)
           strings == StringsAfter(t.strings, f)[Len(f)]
           ids2 == With(t.ids, i, ids)
           w2 == With(w, i, f)
           t2 == [ids |-> ids2, strings |-> strings]
<1>1. t.strings \in Seq(Strings) /\ DOMAIN t.ids = DOMAIN w /\ DOMAIN w \subseteq Items
  BY DEF TextsRight
<1>2. f \in Seq(Maybe) /\ (i[1] = "text" => Len(f) = 2 /\ f[1] = i[2])
  BY FieldsAre
<1>3. FieldsRight(ids, strings, f) /\ strings \in Seq(Strings) /\ Extends(t.strings, strings)
  BY <1>1, <1>2, PushedRight
<1> HIDE DEF ids, strings
<1>4. /\ DOMAIN ids2 = {i} \cup DOMAIN w /\ DOMAIN w2 = {i} \cup DOMAIN w
      /\ ids2[i] = ids /\ w2[i] = f
      /\ \A j \in DOMAIN w : ids2[j] = t.ids[j] /\ w2[j] = w[j]
  <2>1. IsWith(ids2, t.ids, i, ids) /\ IsWith(w2, w, i, f)
    BY Inserted
  <2> HIDE DEF ids2, w2, t2
  <2> QED
    BY <1>1, <2>1 DEF IsWith
<1> HIDE DEF ids2, w2
<1>5. ASSUME NEW j \in DOMAIN w2
      PROVE  FieldsRight(ids2[j], strings, w2[j]) /\ (j[1] = "text" => Len(w2[j]) = 2 /\ w2[j][1] = j[2])
  <2>1. CASE j = i
    BY <1>2, <1>3, <1>4, <2>1
  <2>2. CASE j \in DOMAIN w
    <3>1. FieldsRight(t.ids[j], t.strings, w[j]) /\ (j[1] = "text" => Len(w[j]) = 2 /\ w[j][1] = j[2])
      BY <2>2 DEF TextsRight
    <3>2. FieldsRight(t.ids[j], strings, w[j])
      BY <1>1, <1>3, <3>1, FieldsStay
    <3> QED
      BY <1>4, <2>2, <3>1, <3>2
  <2> QED
    BY <1>4, <2>1, <2>2
<1>6. t2.ids = ids2 /\ t2.strings = strings
  OBVIOUS
<1> HIDE DEF t2
<1>7. TextsRight(t2, w2)
  <2>1. DOMAIN t2.ids = DOMAIN w2 /\ DOMAIN w2 \subseteq Items
    BY <1>1, <1>4, <1>6
  <2> QED
    BY <1>3, <1>5, <1>6, <2>1 DEF TextsRight
<1> QED
  BY <1>7 DEF t2, ids2, w2, ids, strings

LEMMA NewItemStep ==
  ASSUME ResInv, NEW l \in LocaleSet, NEW i \in Items, NEW f \in FieldsOf(i), NewItem(l, i, f)
  PROVE  ResInv'
<1> DEFINE t == TableFor(l)
           t2 == [ids     |-> With(t.ids, i, PushedIds(t.strings, f)),
                  strings |-> StringsAfter(t.strings, f)[Len(f)]]
           w2 == With(want[l], i, f)
<1>1. /\ i \notin DOMAIN t.ids /\ pack' = With(pack, l, t2) /\ want' = [want EXCEPT ![l] = w2]
      /\ version' = version /\ mixed' = mixed /\ asked' = asked
  BY DEF NewItem
<1>2. ASSUME l \notin mixed PROVE TextsRight(t, want[l])
  <2>1. LocaleRight(pack, want, l)
    BY <1>2 DEF ResInv
  <2> QED
    BY <2>1, EmptyRight DEF LocaleRight, TableFor
<1>3. ASSUME l \notin mixed PROVE TextsRight(t2, w2)
  <2>1. TextsRight(t, want[l]) /\ i \notin DOMAIN want[l]
    BY <1>1, <1>2, <1>3 DEF TextsRight
  <2> HIDE DEF t
  <2> QED
    BY <2>1, ItemAdded
<1>7. DOMAIN w2 # {}
  <2>1. IsWith(w2, want[l], i, f)
    BY Inserted
  <2> HIDE DEF w2
  <2> QED
    BY <2>1 DEF IsWith
<1> HIDE DEF t2, w2, t
<1>4. /\ DOMAIN pack' = {l} \cup DOMAIN pack /\ pack'[l] = t2
      /\ \A k \in DOMAIN pack : k # l => pack'[k] = pack[k]
  <2>1. IsWith(pack', pack, l, t2)
    BY <1>1, Inserted
  <2> QED
    BY <2>1 DEF IsWith
<1>5. DOMAIN pack' \subseteq LocaleSet /\ DOMAIN want' = LocaleSet /\ mixed' \subseteq LocaleSet
  BY <1>1, <1>4 DEF ResInv
<1>6. ASSUME NEW k \in LocaleSet \ mixed' PROVE LocaleRight(pack', want', k)
  <2>1. DOMAIN want = LocaleSet /\ LocaleRight(pack, want, k)
    BY <1>1 DEF ResInv
  <2>2. want'[k] = IF k = l THEN w2 ELSE want[k]
    BY <1>1, <2>1
  <2>3. CASE k = l
    BY <1>1, <1>3, <1>4, <1>7, <2>2, <2>3 DEF LocaleRight
  <2>4. CASE k # l
    BY <1>4, <2>1, <2>2, <2>4 DEF LocaleRight
  <2> QED
    BY <2>3, <2>4
<1> QED
  BY <1>1, <1>5, <1>6 DEF ResInv

-----------------------------------------------------------------------------
(* A package read into tables that are not there yet. *)
LEMMA MergedRight ==
  ASSUME NEW t, NEW w, TextsRight(t, w)
  PROVE  TextsRight(MergedTable(EmptyTable, t), w)
<1> DEFINE strings == EmptyTable.strings \o t.strings
           named == [ids |-> <<>>, strings |-> strings]
           D == DOMAIN t.ids
           filed == {Filed(named, t.ids, i) : i \in D}
           last(i) == LET same == {j \in D : Filed(named, t.ids, j) = i}
                      IN CHOOSE j \in same : \A k \in same : j[2] >= k[2]
           m == MergedTable(EmptyTable, t)
<1>1. m = [ids     |-> [i \in filed \cup DOMAIN EmptyTable.ids |->
                          IF i \in filed THEN t.ids[last(i)] ELSE EmptyTable.ids[i]],
           strings |-> strings]
  BY DEF MergedTable
<1>2. EmptyTable.strings = <<>> /\ DOMAIN EmptyTable.ids = {}
  BY NothingInEmpty DEF EmptyTable
<1>3. t.strings \in Seq(Strings) /\ D = DOMAIN w /\ D \subseteq Items
  BY DEF TextsRight
<1>4. strings = t.strings
  BY <1>2, <1>3
<1>5. named.strings = t.strings
  BY <1>4
<1> HIDE DEF named, strings, m
<1>6. ASSUME NEW i \in D PROVE Filed(named, t.ids, i) = i /\ i[2] \in Nat
  <2>1. i \in Items /\ i[2] \in Nat
    BY <1>3, ResourceAssumption DEF Items
  <2>2. CASE i[1] # "text"
    BY <2>1, <2>2 DEF Filed
  <2>3. CASE i[1] = "text"
    <3>1. i[2] \in Strings /\ i = <<"text", i[2]>>
      BY <2>1, <2>3 DEF Items
    <3>2. FieldsRight(t.ids[i], t.strings, w[i]) /\ Len(w[i]) = 2 /\ w[i][1] = i[2]
      BY <1>3, <2>3 DEF TextsRight
    <3>3. w[i][1] # NoText
      BY <3>1, <3>2, ResourceAssumption
    <3>4. t.ids[i][1] \in 0 .. Len(t.strings) - 1 /\ t.strings[t.ids[i][1] + 1] = i[2]
      <4>1. 1 \in 1 .. Len(w[i])
        BY <3>2
      <4> QED
        BY <3>2, <3>3, <4>1 DEF FieldsRight
    <3>5. t.ids[i][1] # NullId
      BY <1>3, <3>4 DEF NullId
    <3> QED
      BY <1>5, <2>1, <2>3, <3>1, <3>4, <3>5 DEF Filed, StringOf
  <2> QED
    BY <2>2, <2>3
<1>7. filed = D
  BY <1>6
<1>8. ASSUME NEW i \in D PROVE last(i) = i
  <2>1. {j \in D : Filed(named, t.ids, j) = i} = {i}
    BY <1>6
  <2>2. i[2] >= i[2]
    BY <1>6
  <2> QED
    BY <2>1, <2>2
<1> HIDE DEF last, filed
<1>9. m.strings = t.strings /\ DOMAIN m.ids = D /\ \A i \in D : m.ids[i] = t.ids[i]
  BY <1>1, <1>2, <1>4, <1>7, <1>8
<1>10. TextsRight(m, w)
  BY <1>3, <1>9 DEF TextsRight
<1> QED
  BY <1>10 DEF m

(* The tables that are read: the first of each locale. *)
ReadSteps(f, n, w) == \A i \in 0 .. n : f[i] = IF i = 0 THEN <<>> ELSE ReadTable(f[i - 1], w[i])

Reads(f, n, w) == f = [i \in 0 .. n |-> IF i = 0 THEN <<>> ELSE ReadTable(f[i - 1], w[i])]

LEMMA ReadExists == ASSUME NEW n \in Nat, NEW w PROVE \E f : Reads(f, n, w)
<1> DEFINE Upto(f, k) == f = [i \in 0 .. k |-> IF i = 0 THEN <<>> ELSE ReadTable(f[i - 1], w[i])]
           T == {k \in 0 .. n : ~ \E f : Upto(f, k)}
<1>1. T = {}
  <2> SUFFICES ASSUME T # {} PROVE FALSE
    OBVIOUS
  <2>1. PICK k \in T : \A y \in T : k <= y
    <3>1. T \subseteq Nat
      OBVIOUS
    <3> HIDE DEF T
    <3> QED
      BY <3>1, LeastElement
  <2>2. k \in 0 .. n /\ ~ \E f : Upto(f, k)
    OBVIOUS
  <2>3. k # 0
    <3>1. Upto([i \in 0 .. 0 |-> <<>>], 0)
      OBVIOUS
    <3> QED
      BY <2>2, <3>1
  <2>4. k - 1 \in 0 .. n /\ k \in Nat /\ k >= 1
    BY <2>2, <2>3
  <2>5. k - 1 \notin T
    <3> HIDE DEF T
    <3> QED
      BY <2>1, <2>4
  <2>6. PICK f : Upto(f, k - 1)
    BY <2>4, <2>5
  <2> DEFINE g == [i \in 0 .. k |-> IF i = k THEN ReadTable(f[k - 1], w[k]) ELSE f[i]]
  <2>7. ASSUME NEW i \in 0 .. k
        PROVE  g[i] = IF i = 0 THEN <<>> ELSE ReadTable(g[i - 1], w[i])
    <3>1. i # 0 => i - 1 \in 0 .. k /\ i - 1 # k
      BY <2>4
    <3>2. i # 0 => g[i - 1] = f[i - 1]
      BY <3>1
    <3>3. CASE i = k
      BY <2>3, <3>2, <3>3
    <3>4. CASE i # k
      <4>1. i \in 0 .. k - 1 /\ g[i] = f[i]
        BY <2>4, <3>4
      <4>2. f[i] = IF i = 0 THEN <<>> ELSE ReadTable(f[i - 1], w[i])
        BY <2>6, <4>1
      <4> QED
        BY <3>2, <4>1, <4>2
    <3> QED
      BY <3>3, <3>4
  <2>8. g = [i \in 0 .. k |-> g[i]]
    OBVIOUS
  <2> HIDE DEF g
  <2>9. Upto(g, k)
    BY <2>7, <2>8
  <2> QED
    BY <2>2, <2>9
<1>2. n \in 0 .. n /\ n \notin T
  <2> HIDE DEF T
  <2> QED
    BY <1>1
<1>3. \E f : Upto(f, n)
  BY <1>2
<1> QED
  BY <1>3 DEF Reads

LEMMA PackageIs ==
  ASSUME Len(Written) \in Nat
  PROVE  \E f : ReadSteps(f, Len(Written), Written) /\ PackageRead = f[Len(Written)]
<1> DEFINE w == Written
           n == Len(w)
           f == CHOOSE f : Reads(f, n, w)
<1>1. PackageRead = f[n]
  BY DEF PackageRead, Reads
<1>2. \E g : Reads(g, n, w)
  <2> HIDE DEF w
  <2> QED
    BY ReadExists
<1>3. Reads(f, n, w)
  BY <1>2
<1> HIDE DEF f
<1>4. ReadSteps(f, n, w)
  <2> HIDE DEF w
  <2>1. ASSUME NEW i \in 0 .. n PROVE f[i] = IF i = 0 THEN <<>> ELSE ReadTable(f[i - 1], w[i])
    BY <1>3 DEF Reads
  <2> QED
    BY <2>1 DEF ReadSteps
<1> QED
  BY <1>1, <1>4

ReadsOne(new, tables, k) ==
  /\ DOMAIN new = {Cut[k]} \cup DOMAIN tables
  /\ Cut[k] \notin DOMAIN tables => new[Cut[k]] = MergedTable(EmptyTable, pack[k])
  /\ \A l \in DOMAIN tables : l # Cut[k] => new[l] = tables[l]

LEMMA ReadOne ==
  ASSUME NEW tables, NEW k \in LocaleSet PROVE ReadsOne(ReadTable(tables, k), tables, k)
<1> DEFINE to == Cut[k]
           old == IF to \in DOMAIN tables THEN tables[to] ELSE EmptyTable
           new == MergedTable(old, pack[k])
<1>1. ReadTable(tables, k) = With(tables, to, new)
  BY DEF ReadTable
<1>2. to \notin DOMAIN tables => new = MergedTable(EmptyTable, pack[k])
  OBVIOUS
<1> HIDE DEF new, to
<1>3. IsWith(ReadTable(tables, k), tables, to, new)
  BY <1>1, Inserted
<1> QED
  BY <1>2, <1>3 DEF IsWith, ReadsOne, to

(* Before the table at m nothing is filed under l, and from there on that table. *)
LEMMA ReadUpto ==
  ASSUME NEW n \in Nat, NEW w, NEW f, ReadSteps(f, n, w), \A i \in 1 .. n : w[i] \in LocaleSet,
         NEW l, NEW m \in Nat, \A i \in 1 .. n : Cut[w[i]] = l <=> i = m, NEW i \in 0 .. n
  PROVE  /\ (m = 0 \/ i < m) => l \notin DOMAIN f[i]
         /\ ~(m = 0 \/ i < m) => l \in DOMAIN f[i] /\ f[i][l] = MergedTable(EmptyTable, pack[w[m]])
<1> DEFINE P(j) == /\ (m = 0 \/ j < m) => l \notin DOMAIN f[j]
                   /\ ~(m = 0 \/ j < m) => /\ l \in DOMAIN f[j]
                                           /\ f[j][l] = MergedTable(EmptyTable, pack[w[m]])
           T == {j \in 0 .. n : ~P(j)}
<1>1. T = {}
  <2> SUFFICES ASSUME T # {} PROVE FALSE
    OBVIOUS
  <2>1. PICK j \in T : \A y \in T : j <= y
    <3>1. T \subseteq Nat
      OBVIOUS
    <3> HIDE DEF T
    <3> QED
      BY <3>1, LeastElement
  <2>2. j \in 0 .. n /\ ~P(j)
    OBVIOUS
  <2>3. j # 0
    <3>1. f[0] = <<>> /\ 0 \in 0 .. n
      <4> HIDE DEF T, P
      <4>1. 0 \in 0 .. n
        OBVIOUS
      <4> QED
        BY <4>1 DEF ReadSteps
    <3>2. l \notin DOMAIN f[0]
      BY <3>1, NothingInEmpty
    <3>3. m = 0 \/ 0 < m
      OBVIOUS
    <3>4. P(0)
      BY <3>2, <3>3
    <3> QED
      BY <2>2, <3>4
  <2>4. j \in 1 .. n /\ j - 1 \in 0 .. n
    BY <2>2, <2>3
  <2>5. j - 1 \notin T
    <3> HIDE DEF T
    <3> QED
      BY <2>1, <2>4
  <2>6. P(j - 1)
    BY <2>4, <2>5
  <2>7. f[j] = ReadTable(f[j - 1], w[j]) /\ w[j] \in LocaleSet /\ (Cut[w[j]] = l <=> j = m)
    <3>1. j \in 0 .. n
      BY <2>2
    <3> QED
      BY <2>3, <2>4, <3>1 DEF ReadSteps
  <2>8. /\ DOMAIN f[j] = {Cut[w[j]]} \cup DOMAIN f[j - 1]
        /\ Cut[w[j]] \notin DOMAIN f[j - 1] => f[j][Cut[w[j]]] = MergedTable(EmptyTable, pack[w[j]])
        /\ \A k \in DOMAIN f[j - 1] : k # Cut[w[j]] => f[j][k] = f[j - 1][k]
    <3>1. ReadsOne(f[j], f[j - 1], w[j])
      BY <2>7, ReadOne
    <3> QED
      BY <3>1 DEF ReadsOne
  <2>9. P(j)
    <3>1. CASE j = m
      <4>1. Cut[w[j]] = l /\ l \notin DOMAIN f[j - 1] /\ m # 0 /\ ~(j < m)
        BY <2>4, <2>6, <2>7, <3>1
      <4> QED
        BY <2>6, <2>8, <3>1, <4>1
    <3>2. CASE j # m
      <4>1. Cut[w[j]] # l /\ ((m = 0 \/ j < m) <=> (m = 0 \/ j - 1 < m))
        BY <2>4, <2>7, <3>2
      <4> QED
        BY <2>6, <2>8, <4>1
    <3> QED
      BY <3>1, <3>2
  <2> QED
    BY <2>2, <2>9
<1> QED
  BY <1>1

LEMMA ReadDomain ==
  ASSUME NEW n \in Nat, NEW w, NEW f, ReadSteps(f, n, w), \A i \in 1 .. n : w[i] \in LocaleSet,
         NEW i \in 0 .. n
  PROVE  DOMAIN f[i] \subseteq LocaleSet
<1> DEFINE T == {j \in 0 .. n : ~(DOMAIN f[j] \subseteq LocaleSet)}
<1>1. T = {}
  <2> SUFFICES ASSUME T # {} PROVE FALSE
    OBVIOUS
  <2>1. PICK j \in T : \A y \in T : j <= y
    <3>1. T \subseteq Nat
      OBVIOUS
    <3> HIDE DEF T
    <3> QED
      BY <3>1, LeastElement
  <2>2. j \in 0 .. n /\ ~(DOMAIN f[j] \subseteq LocaleSet)
    OBVIOUS
  <2>3. j # 0
    <3>1. f[0] = <<>> /\ 0 \in 0 .. n
      <4> HIDE DEF T
      <4>1. 0 \in 0 .. n
        OBVIOUS
      <4> QED
        BY <4>1 DEF ReadSteps
    <3> QED
      BY <2>2, <3>1, NothingInEmpty
  <2>4. j \in 1 .. n /\ j - 1 \in 0 .. n
    BY <2>2, <2>3
  <2>5. j - 1 \notin T
    <3> HIDE DEF T
    <3> QED
      BY <2>1, <2>4
  <2>6. DOMAIN f[j - 1] \subseteq LocaleSet
    BY <2>4, <2>5
  <2>7. f[j] = ReadTable(f[j - 1], w[j]) /\ w[j] \in LocaleSet
    <3>1. j \in 0 .. n
      BY <2>2
    <3> QED
      BY <2>3, <2>4, <3>1 DEF ReadSteps
  <2>8. DOMAIN f[j] = {Cut[w[j]]} \cup DOMAIN f[j - 1] /\ Cut[w[j]] \in LocaleSet
    <3>1. ReadsOne(f[j], f[j - 1], w[j])
      BY <2>7, ReadOne
    <3>2. Cut[w[j]] \in LocaleSet
      BY <2>7, ResourceAssumption
    <3> QED
      BY <3>1, <3>2 DEF ReadsOne
  <2> QED
    BY <2>2, <2>6, <2>8
<1> QED
  BY <1>1

(* The tables that are written: all of them while their number fits its byte. *)
LEMMA LocalesFinite ==
  /\ IsFiniteSet(LocaleSet) /\ Locales \in Seq(LocaleSet)
  /\ Once(Locales) /\ Listed(Locales) = LocaleSet
<1>1. /\ Locales \in Seq(LocaleSet) /\ DOMAIN Locales = 1 .. Len(Locales) /\ Len(Locales) \in Nat
      /\ \A j, k \in DOMAIN Locales : Locales[j] = Locales[k] => j = k
  BY ResourceAssumption
<1>2. Once(Locales) /\ Listed(Locales) = LocaleSet
  BY <1>1 DEF Once, Listed, LocaleSet
<1>3. Locales \in Surjection(1 .. Len(Locales), LocaleSet)
  <2>1. Locales \in [1 .. Len(Locales) -> LocaleSet]
    BY <1>1
  <2>2. \A l \in LocaleSet : \E k \in 1 .. Len(Locales) : Locales[k] = l
    BY <1>1 DEF LocaleSet
  <2> HIDE DEF LocaleSet
  <2> QED
    BY <2>1, <2>2 DEF Surjection
<1>4. IsFiniteSet(1 .. Len(Locales))
  BY <1>1, FS_Interval
<1> HIDE DEF LocaleSet
<1>5. IsFiniteSet(LocaleSet)
  BY <1>3, <1>4, FS_Surjection
<1> QED
  BY <1>1, <1>2, <1>5

LEMMA SizeOfOnce ==
  ASSUME NEW X, NEW s \in Seq(X), Once(s)
  PROVE  Cardinality(Listed(s)) = Len(s)
<1> DEFINE L == Len(s)
           S == Listed(s)
<1>1. L \in Nat /\ s \in [1 .. L -> S] /\ \A t \in S : \E i \in 1 .. L : s[i] = t
  BY DEF Listed
<1>2. \A i, j \in 1 .. L : s[i] = s[j] => i = j
  BY DEF Once
<1> HIDE DEF L, S
<1>3. s \in Bijection(1 .. L, S)
  BY <1>1, <1>2 DEF Bijection, Injection, Surjection, IsInjective
<1>4. ExistsBijection(1 .. L, S)
  BY <1>3 DEF ExistsBijection
<1>5. Cardinality(S) = L
  BY <1>1, <1>4, FS_CountingElements
<1> QED
  BY <1>5 DEF L, S

LEMMA ModFits ==
  ASSUME NEW x \in Nat, NEW y \in Nat \ {0}
  PROVE  x % y \in 0 .. x /\ (x < y => x % y = x)
OBVIOUS

WrittenRight ==
  /\ Len(Written) \in Nat
  /\ \A i \in 1 .. Len(Written) : Written[i] \in DOMAIN pack
  /\ \A i, j \in 1 .. Len(Written) : Written[i] = Written[j] => i = j
  /\ Cardinality(DOMAIN pack) < TableLimit =>
       \A l \in DOMAIN pack : \E i \in 1 .. Len(Written) : Written[i] = l

LEMMA WrittenIs == ASSUME DOMAIN pack \subseteq LocaleSet PROVE WrittenRight
<1> DEFINE all == Kept(Locales, DOMAIN pack)
           n == Len(all) % TableLimit
           w == SubSeq(all, 1, n)
<1>1. all \in Seq(LocaleSet) /\ Once(all) /\ Listed(all) = DOMAIN pack
  <2>1. LeftOf(all, LocaleSet, Locales, Len(Locales), DOMAIN pack)
    BY LocalesFinite, KeptIs
  <2>2. \A l \in LocaleSet : \E j \in 1 .. Len(Locales) : Locales[j] = l
    BY LocalesFinite DEF Listed
  <2> HIDE DEF all
  <2>3. \A l : In(all, l) <=> l \in DOMAIN pack
    BY <2>1, <2>2 DEF LeftOf
  <2>4. Listed(all) = DOMAIN pack
    BY <2>3 DEF Listed, In
  <2> QED
    BY <2>1, <2>4 DEF LeftOf
<1>2. Cardinality(DOMAIN pack) = Len(all) /\ Len(all) \in Nat
  <2> HIDE DEF all
  <2> QED
    BY <1>1, SizeOfOnce
<1>3. n \in 0 .. Len(all) /\ (Len(all) < TableLimit => n = Len(all))
  <2> HIDE DEF all
  <2> QED
    BY <1>2, ModFits, ResourceAssumption
<1>4. Written = w
  BY DEF Written
<1> HIDE DEF all, n
<1>5. Len(w) = n /\ \A i \in 1 .. n : w[i] = all[i] /\ i \in 1 .. Len(all)
  BY <1>1, <1>2, <1>3
<1> HIDE DEF w
<1>6. \A i \in 1 .. n : w[i] \in DOMAIN pack
  BY <1>1, <1>5 DEF Listed
<1>7. \A i, j \in 1 .. n : w[i] = w[j] => i = j
  BY <1>1, <1>5 DEF Once
<1>8. ASSUME Cardinality(DOMAIN pack) < TableLimit, NEW l \in DOMAIN pack
      PROVE  \E i \in 1 .. n : w[i] = l
  <2>1. n = Len(all)
    BY <1>2, <1>3, <1>8
  <2>2. PICK i \in 1 .. Len(all) : all[i] = l
    BY <1>1 DEF Listed
  <2> QED
    BY <1>5, <2>1, <2>2
<1> QED
  BY <1>3, <1>4, <1>5, <1>6, <1>7, <1>8 DEF WrittenRight

LEMMA ReloadStep == ASSUME ResInv, Reload PROVE ResInv'
<1> DEFINE n == Len(Written)
           w == Written
<1>1. /\ DOMAIN pack \subseteq LocaleSet /\ DOMAIN want = LocaleSet
      /\ \A l \in LocaleSet \ mixed : LocaleRight(pack, want, l)
  BY DEF ResInv
<1>2. /\ pack' = PackageRead
      /\ mixed' = {l \in LocaleSet : \/ Cardinality(DOMAIN pack) >= TableLimit
                                     \/ Cardinality(Sharing(l)) > 1
                                     \/ Sharing(l) \cap mixed # {}}
      /\ want' = [l \in LocaleSet |-> IF Cardinality(Sharing(l)) = 1
                                      THEN want[CHOOSE k \in Sharing(l) : TRUE] ELSE <<>>]
      /\ version' = version /\ asked' = asked
  BY DEF Reload
<1>3. WrittenRight
  BY <1>1, WrittenIs
<1>4. n \in Nat /\ \A i \in 1 .. n : w[i] \in LocaleSet /\ w[i] \in DOMAIN pack
  BY <1>1, <1>3 DEF WrittenRight
<1>5. PICK f : ReadSteps(f, n, w) /\ PackageRead = f[n]
  BY <1>4, PackageIs
<1> HIDE DEF n, w
<1>6. n \in 0 .. n
  BY <1>4
<1>7. DOMAIN pack' \subseteq LocaleSet
  BY <1>2, <1>4, <1>5, <1>6, ReadDomain
<1>8. ASSUME NEW l \in LocaleSet \ mixed' PROVE LocaleRight(pack', want', l)
  <2>1. /\ Cardinality(DOMAIN pack) < TableLimit /\ ~(Cardinality(Sharing(l)) > 1)
        /\ Sharing(l) \cap mixed = {}
    <3>1. IsFiniteSet(DOMAIN pack)
      BY <1>1, LocalesFinite, FS_Subset
    <3>2. Cardinality(DOMAIN pack) \in Nat /\ TableLimit \in Nat
      BY <3>1, FS_CardinalityType, ResourceAssumption
    <3>3. /\ ~(Cardinality(DOMAIN pack) >= TableLimit) /\ ~(Cardinality(Sharing(l)) > 1)
          /\ Sharing(l) \cap mixed = {}
      BY <1>2
    <3> QED
      BY <3>2, <3>3
  <2>2. IsFiniteSet(Sharing(l)) /\ Sharing(l) \subseteq DOMAIN pack
    BY <1>1, LocalesFinite, FS_Subset DEF Sharing
  <2>3. Cardinality(Sharing(l)) = 0 \/ Cardinality(Sharing(l)) = 1
    <3>1. Cardinality(Sharing(l)) \in Nat
      BY <2>2, FS_CardinalityType
    <3> QED
      BY <2>1, <3>1
  <2>4. \A i \in 1 .. n : Cut[w[i]] = l <=> w[i] \in Sharing(l)
    BY <1>4 DEF Sharing
  <2>5. CASE Cardinality(Sharing(l)) = 0
    <3>1. Sharing(l) = {}
      BY <2>2, <2>5, FS_EmptySet
    <3>2. \A i \in 1 .. n : Cut[w[i]] = l <=> i = 0
      BY <1>4, <2>4, <3>1
    <3>3. 0 \in Nat
      OBVIOUS
    <3>4. l \notin DOMAIN f[n]
      BY <1>4, <1>5, <1>6, <3>2, <3>3, ReadUpto
    <3>5. DOMAIN want'[l] = {}
      BY <1>2, <2>5, NothingInEmpty
    <3> QED
      BY <1>2, <1>5, <3>4, <3>5 DEF LocaleRight
  <2>6. CASE Cardinality(Sharing(l)) = 1
    <3>1. PICK k : Sharing(l) = {k}
      BY <2>2, <2>6, FS_Singleton
    <3>2. k \in DOMAIN pack /\ k \in LocaleSet \ mixed
      BY <1>1, <2>1, <2>2, <3>1
    <3>3. PICK m \in 1 .. n : w[m] = k
      BY <1>3, <2>1, <3>2 DEF WrittenRight, n, w
    <3>4. \A i \in 1 .. n : Cut[w[i]] = l <=> i = m
      <4>1. \A i \in 1 .. n : w[i] = w[m] => i = m
        BY <1>3, <3>3 DEF WrittenRight, n, w
      <4> QED
        BY <2>4, <3>1, <3>3, <4>1
    <3>5. m \in Nat /\ m # 0 /\ ~(n < m)
      BY <1>4, <3>3
    <3>6. l \in DOMAIN f[n] /\ f[n][l] = MergedTable(EmptyTable, pack[k])
      BY <1>4, <1>5, <1>6, <3>3, <3>4, <3>5, ReadUpto
    <3>7. want'[l] = want[k]
      <4>1. (CHOOSE x \in Sharing(l) : TRUE) = k
        BY <3>1
      <4> QED
        BY <1>2, <2>6, <4>1
    <3>8. TextsRight(pack[k], want[k]) /\ DOMAIN want[k] # {}
      BY <1>1, <3>2 DEF LocaleRight
    <3>9. TextsRight(f[n][l], want'[l])
      BY <3>6, <3>7, <3>8, MergedRight
    <3> QED
      BY <1>2, <1>5, <3>6, <3>7, <3>8, <3>9 DEF LocaleRight
  <2> QED
    BY <2>3, <2>5, <2>6
<1>9. DOMAIN want' = LocaleSet /\ mixed' \subseteq LocaleSet
  BY <1>2
<1> QED
  BY <1>1, <1>2, <1>7, <1>8, <1>9 DEF ResInv

-----------------------------------------------------------------------------
(* Version strings: a proper number is stored as it is meant. *)
Counts(f, word) == /\ f[0] = 0 /\ \A i \in 0 .. Len(word) : f[i] \in Nat
                   /\ \A i \in 1 .. Len(word) : f[i] = f[i - 1] * 10 + word[i]

LEMMA DecimalIs ==
  ASSUME NEW word \in Seq(Nat)
  PROVE  \E f : Counts(f, word) /\ DecimalOf(word) = f[Len(word)]
<1> DEFINE L == Len(word)
           Eq(f) == f = [n \in 0 .. L |-> IF n = 0 THEN 0 ELSE f[n - 1] * 10 + word[n]]
           f == CHOOSE f : Eq(f)
           F == [p \in (1 .. L) \X Nat |-> p[2] * 10 + word[p[1]]]
<1>1. L \in Nat /\ \A i \in 1 .. L : word[i] \in Nat
  OBVIOUS
<1>2. DecimalOf(word) = f[L]
  BY DEF DecimalOf
<1>3. F \in [(1 .. L) \X Nat -> Nat] /\ 0 \in Nat
  <2>1. ASSUME NEW i \in 1 .. L, NEW r \in Nat PROVE r * 10 + word[i] \in Nat
    BY <1>1
  <2> QED
    BY <2>1
<1>4. PICK g : Steps(g, L, Nat, 0, F)
  <2> HIDE DEF F, L
  <2> QED
    BY <1>1, <1>3, StepsExist
<1>5. Eq(g)
  <2>1. ASSUME NEW i \in 1 .. L PROVE g[i] = g[i - 1] * 10 + word[i]
    <3>1. g[i - 1] \in Nat /\ g[i] = F[<<i, g[i - 1]>>]
      <4>1. i - 1 \in 0 .. L
        BY <1>1
      <4> HIDE DEF F, L
      <4> QED
        BY <1>4, <4>1 DEF Steps
    <3> QED
      BY <3>1
  <2>2. g \in [0 .. L -> Nat] /\ g[0] = 0
    BY <1>4 DEF Steps
  <2>3. \A i \in 0 .. L : g[i] = IF i = 0 THEN 0 ELSE g[i - 1] * 10 + word[i]
    <3> HIDE DEF F, L
    <3> SUFFICES ASSUME NEW i \in 0 .. L, i # 0 PROVE g[i] = g[i - 1] * 10 + word[i]
      BY <2>2
    <3>1. i \in 1 .. L
      BY <1>1
    <3> QED
      BY <2>1, <3>1
  <2> HIDE DEF F, L
  <2>4. g = [i \in 0 .. L |-> g[i]]
    BY <2>2
  <2> QED
    BY <2>3, <2>4
<1>6. Eq(f)
  BY <1>5
<1> HIDE DEF f, F
<1>7. f[0] = 0 /\ \A i \in 1 .. L : f[i] = f[i - 1] * 10 + word[i]
  <2> HIDE DEF L
  <2>1. 0 \in 0 .. L /\ \A i \in 1 .. L : i \in 0 .. L /\ i # 0
    BY <1>1
  <2> QED
    BY <1>6, <2>1
<1> DEFINE N == {i \in 0 .. L : f[i] \notin Nat}
<1>8. N = {}
  <2> SUFFICES ASSUME N # {} PROVE FALSE
    OBVIOUS
  <2>1. PICK i \in N : \A y \in N : i <= y
    <3>1. N \subseteq Nat
      BY <1>1
    <3> HIDE DEF N
    <3> QED
      BY <3>1, LeastElement
  <2>2. i \in 0 .. L /\ f[i] \notin Nat
    OBVIOUS
  <2>3. i \in 1 .. L /\ i - 1 \in 0 .. L
    BY <1>1, <1>7, <2>2
  <2>4. i - 1 \notin N
    <3> HIDE DEF N
    <3> QED
      BY <1>1, <2>1, <2>3
  <2>5. f[i - 1] \in Nat
    BY <2>3, <2>4
  <2>6. f[i] = f[i - 1] * 10 + word[i] /\ word[i] \in Nat
    BY <1>1, <1>7, <2>3
  <2> QED
    BY <2>2, <2>5, <2>6
<1>9. \A i \in 0 .. L : f[i] \in Nat
  BY <1>8
<1> QED
  BY <1>2, <1>7, <1>9 DEF Counts

LEMMA CountsGrow ==
  ASSUME NEW word \in Seq(Nat), NEW f, Counts(f, word), NEW n \in 0 .. Len(word)
  PROVE  f[n] <= f[Len(word)]
<1> DEFINE L == Len(word)
           N == {m \in n .. L : ~(f[n] <= f[m])}
<1>1. /\ L \in Nat /\ n \in Nat /\ n <= L /\ \A i \in 0 .. L : f[i] \in Nat
      /\ \A i \in 1 .. L : f[i] = f[i - 1] * 10 + word[i] /\ word[i] \in Nat
  BY DEF Counts
<1>2. N = {}
  <2> SUFFICES ASSUME N # {} PROVE FALSE
    OBVIOUS
  <2>1. PICK m \in N : \A y \in N : m <= y
    <3>1. N \subseteq Nat
      BY <1>1
    <3> HIDE DEF N
    <3> QED
      BY <3>1, LeastElement
  <2>2. m \in n .. L /\ ~(f[n] <= f[m])
    OBVIOUS
  <2>3. m # n
    BY <1>1, <2>2
  <2>4. m \in 1 .. L /\ m - 1 \in n .. L /\ m - 1 \in 0 .. L
    BY <1>1, <2>2, <2>3
  <2>5. m - 1 \notin N
    <3> HIDE DEF N
    <3> QED
      BY <1>1, <2>1, <2>4
  <2>6. f[n] <= f[m - 1]
    BY <2>4, <2>5
  <2>7. f[m] = f[m - 1] * 10 + word[m] /\ word[m] \in Nat /\ f[m - 1] \in Nat /\ f[n] \in Nat
    BY <1>1, <2>4
  <2> QED
    BY <2>2, <2>6, <2>7
<1> QED
  BY <1>1, <1>2

LEMMA NumberIs ==
  ASSUME NEW word \in Seq(Nat), Proper(word)
  PROVE  Number(word) = DecimalOf(word) /\ Number(word) # Refused
<1> DEFINE L == Len(word)
           digit(n) == IF word[n] > 9 THEN 11 ELSE word[n]
           step(r, n) == (r * 10 + digit(n)) % 65536
           Eq(f) == f = [n \in 0 .. L |-> IF n = 0 THEN 0 ELSE step(f[n - 1], n)]
           h == CHOOSE h : Eq(h)
<1>1. PICK f : Counts(f, word) /\ DecimalOf(word) = f[L]
  BY DecimalIs
<1>2. L \in Nat /\ (\A k \in 1 .. L : word[k] \in 0 .. 9) /\ f[L] < 65535
  BY <1>1 DEF Proper, Refused
<1>3. \A n \in 0 .. L : f[n] \in Nat /\ f[n] < 65535
  <2>1. \A n \in 0 .. L : f[n] \in Nat /\ f[n] <= f[L]
    BY <1>1, CountsGrow DEF Counts
  <2>2. f[L] \in Nat
    BY <1>2, <2>1
  <2> QED
    BY <1>2, <2>1, <2>2
<1>4. f[0] = 0 /\ \A n \in 1 .. L : f[n] = step(f[n - 1], n)
  <2>1. ASSUME NEW n \in 1 .. L PROVE f[n] = step(f[n - 1], n)
    <3>1. f[n] = f[n - 1] * 10 + digit(n)
      <4>1. digit(n) = word[n]
        BY <1>2
      <4>2. f[n] = f[n - 1] * 10 + word[n]
        BY <1>1 DEF Counts
      <4> QED
        BY <4>1, <4>2
    <3>2. f[n] \in Nat /\ f[n] < 65536
      BY <1>2, <1>3
    <3>3. f[n] % 65536 = f[n]
      BY <3>2, ModFits
    <3> QED
      BY <3>1, <3>3
  <2> HIDE DEF step
  <2> QED
    BY <1>1, <2>1 DEF Counts
<1>7. Number(word) = h[L]
  BY DEF Number
<1> HIDE DEF step
<1> DEFINE g == [n \in 0 .. L |-> f[n]]
<1>5. Eq(g)
  <2>1. ASSUME NEW n \in 0 .. L PROVE g[n] = IF n = 0 THEN 0 ELSE step(g[n - 1], n)
    <3>1. n # 0 => n \in 1 .. L /\ n - 1 \in 0 .. L
      BY <1>2
    <3> QED
      BY <1>4, <3>1
  <2>2. g = [n \in 0 .. L |-> g[n]]
    OBVIOUS
  <2> HIDE DEF g, L
  <2> QED
    BY <2>1, <2>2
<1>6. Eq(h)
  BY <1>5
<1> HIDE DEF h, g
<1>8. h[0] = 0 /\ \A n \in 1 .. L : h[n] = step(h[n - 1], n)
  <2> HIDE DEF L
  <2>1. 0 \in 0 .. L /\ \A i \in 1 .. L : i \in 0 .. L /\ i # 0
    BY <1>2
  <2> QED
    BY <1>6, <2>1
<1> DEFINE N == {n \in 0 .. L : h[n] # f[n]}
<1>9. N = {}
  <2> SUFFICES ASSUME N # {} PROVE FALSE
    OBVIOUS
  <2>1. PICK n \in N : \A y \in N : n <= y
    <3>1. N \subseteq Nat
      BY <1>2
    <3> HIDE DEF N
    <3> QED
      BY <3>1, LeastElement
  <2>2. n \in 0 .. L /\ h[n] # f[n]
    OBVIOUS
  <2>3. n \in 1 .. L /\ n - 1 \in 0 .. L
    BY <1>2, <1>4, <1>8, <2>2
  <2>4. n - 1 \notin N
    <3> HIDE DEF N
    <3> QED
      BY <1>2, <2>1, <2>3
  <2>5. h[n - 1] = f[n - 1]
    BY <2>3, <2>4
  <2> QED
    BY <1>4, <1>8, <2>2, <2>3, <2>5
<1>10. L \in 0 .. L
  BY <1>2
<1>11. h[L] = f[L]
  BY <1>9, <1>10
<1>12. h[L] # Refused
  <2>1. f[L] \in Nat /\ f[L] < 65535
    BY <1>3, <1>10
  <2> QED
    BY <1>11, <2>1 DEF Refused
<1> QED
  BY <1>1, <1>7, <1>11, <1>12

LEMMA VersionStep ==
  ASSUME ResInv, NEW parts \in Versions, NEW clock, SetVersion(parts, clock)
  PROVE  ResInv'
<1> DEFINE proper == \A k \in 1 .. NumericParts(parts) : Proper(parts[k])
           n == NumericParts(parts)
<1>1. /\ version' = [k \in 1 .. 4 |-> IF k <= Stored(parts) THEN Number(parts[k])
                                      ELSE IF Accepted(parts) THEN clock[k] ELSE version[k]]
      /\ asked' = IF Accepted(parts) /\ proper THEN Meant(parts, clock) ELSE NoText
      /\ pack' = pack /\ want' = want /\ mixed' = mixed
  BY DEF SetVersion
<1>2. ASSUME Accepted(parts), proper PROVE version' = Meant(parts, clock)
  <2>1. Stored(parts) = n
    BY <1>2 DEF Accepted, Stored
  <2>2. parts \in Seq(Seq(Nat)) /\ n <= Len(parts) /\ n \in Nat
    <3>1. parts \in Seq(Seq(Nat))
      BY ResourceAssumption
    <3> QED
      BY <1>2, <3>1 DEF Accepted, NumericParts
  <2>3. \A k \in 1 .. n : Number(parts[k]) = DecimalOf(parts[k])
    <3>1. \A k \in 1 .. n : parts[k] \in Seq(Nat)
      BY <2>2
    <3> QED
      BY <1>2, <3>1, NumberIs
  <2>4. Meant(parts, clock) = [k \in 1 .. 4 |-> IF k <= n THEN DecimalOf(parts[k]) ELSE clock[k]]
    BY DEF Meant
  <2>5. version' = [k \in 1 .. 4 |-> IF k <= n THEN Number(parts[k]) ELSE clock[k]]
    BY <1>1, <1>2, <2>1
  <2> HIDE DEF n
  <2>6. \A k \in 1 .. 4 : k <= n => k \in 1 .. n
    BY <2>2
  <2> QED
    BY <2>3, <2>4, <2>5, <2>6
<1>3. asked' # NoText => version' = asked'
  BY <1>1, <1>2
<1> QED
  BY <1>1, <1>3 DEF ResInv, LocaleRight, TextsRight

LEMMA ResStep == ResInv /\ [ResourceNext]_packVars => ResInv'
<1> SUFFICES ASSUME ResInv, [ResourceNext]_packVars PROVE ResInv'
  OBVIOUS
<1>1. CASE \E l \in LocaleSet, i \in Items : \E f \in FieldsOf(i) : NewItem(l, i, f)
  BY <1>1, NewItemStep
<1>2. CASE Reload
  BY <1>2, ReloadStep
<1>3. CASE \E v \in Versions, tick \in {0, 43199} : SetVersion(v, <<0, 0, 365, tick>>)
  BY <1>3, VersionStep
<1>4. CASE UNCHANGED packVars
  BY <1>4 DEF packVars, ResInv, LocaleRight, TextsRight
<1> QED
  BY <1>1, <1>2, <1>3, <1>4 DEF ResourceNext

LEMMA ResRight == ResInv => ReadsBack
<1> SUFFICES ASSUME ResInv, NEW l \in LocaleSet \ mixed, NEW i \in Items
             PROVE  AnswerOf(l, i) = Wanted(l, i)
  BY DEF ReadsBack, ResInv
<1>1. LocaleRight(pack, want, l)
  BY DEF ResInv
<1>2. CASE l \notin DOMAIN pack
  BY <1>1, <1>2 DEF LocaleRight, AnswerOf, Wanted
<1>3. CASE l \in DOMAIN pack
  <2> DEFINE t == pack[l]
             w == want[l]
  <2>1. TextsRight(t, w) /\ TableFor(l) = t
    BY <1>1, <1>3 DEF LocaleRight, TableFor
  <2>2. CASE i \notin DOMAIN w
    <3>1. DOMAIN w # {} /\ i \notin DOMAIN t.ids
      BY <1>1, <1>3, <2>1, <2>2 DEF LocaleRight, TextsRight
    <3>2. AnswerOf(l, i) = Unknown(i)
      BY <1>3, <3>1 DEF AnswerOf
    <3> QED
      BY <2>2, <3>1, <3>2 DEF Wanted, Unknown
  <2>3. CASE i \in DOMAIN w
    <3>1. FieldsRight(t.ids[i], t.strings, w[i]) /\ DOMAIN t.ids = DOMAIN w
          /\ t.strings \in Seq(Strings)
      BY <2>1, <2>3 DEF TextsRight
    <3>2. AnswerOf(l, i) = [k \in DOMAIN t.ids[i] |-> StringOf(t, t.ids[i][k])]
      <4>1. AnswerOf(l, i) = StringsOf(pack[l], i)
        BY <1>3, <2>3, <3>1 DEF AnswerOf
      <4> QED
        BY <4>1 DEF StringsOf
    <3>3. Wanted(l, i) = w[i]
      <4>1. i \in DOMAIN want[l]
        BY <2>3
      <4> QED
        BY <4>1 DEF Wanted
    <3> DEFINE fields == w[i]
    <3>4. fields \in Seq(Maybe) /\ DOMAIN t.ids[i] = 1 .. Len(fields)
      BY <3>1 DEF FieldsRight
    <3>5. ASSUME NEW k \in 1 .. Len(fields) PROVE StringOf(t, t.ids[i][k]) = fields[k]
      <4>1. CASE fields[k] = NoText
        BY <3>1, <4>1 DEF FieldsRight, StringOf
      <4>2. CASE fields[k] # NoText
        <5>1. /\ t.ids[i][k] \in 0 .. Len(t.strings) - 1
              /\ t.strings[t.ids[i][k] + 1] = fields[k]
          BY <3>1, <4>2 DEF FieldsRight
        <5>2. Len(t.strings) \in Nat
          BY <3>1
        <5>3. t.ids[i][k] # NullId
          BY <5>1, <5>2 DEF NullId
        <5> QED
          BY <5>1, <5>3 DEF StringOf
      <4> QED
        BY <4>1, <4>2
    <3> HIDE DEF fields
    <3>6. fields = [k \in 1 .. Len(fields) |-> fields[k]]
      BY <3>4
    <3>7. AnswerOf(l, i) = fields
      BY <3>2, <3>4, <3>5, <3>6
    <3> QED
      BY <3>3, <3>7 DEF fields
  <2> QED
    BY <2>2, <2>3
<1> QED
  BY <1>2, <1>3

(* However often a package is written, read and added to, every item of a locale
   that shares its five bytes with no other, and the version, is found again as it
   was given (LemonReadResource, LemonWriteResource); of an item that was not given
   the answer is NULL, but for the trace catalogs of a locale that has other items,
   where GetTraceCatalog dereferences NULL. *)
THEOREM ResourceReadsBack == ResourceSpec => []ReadsBack
<1>1. ResourceInit => ResInv
  BY ResStart
<1>2. ResInv /\ [ResourceNext]_packVars => ResInv'
  BY ResStep
<1>3. ResInv => ReadsBack
  BY ResRight
<1> QED
  BY <1>1, <1>2, <1>3, PTL DEF ResourceSpec
=============================================================================
