---------------------------- MODULE ThreadGroup -----------------------------
(***************************************************************************)
(* Threads and groups of threads, the pthread build of sys/.  Any user may *)
(* join any thread; who joins holds the handle's JoinMutex, and Exit says  *)
(* that pthread_join has been done.  A group is a plain linked list        *)
(* without a lock: one user, the owner, adds to it and resets it.          *)
(***************************************************************************)
EXTENDS Naturals, Sequences

CONSTANTS Thread,   \* handles
          Users,    \* threads that create and join
          Owner,    \* the one that has the group
          Free      \* nobody, nothing

ASSUME ThreadAssumption ==
  Owner \in Users /\ Free \notin Users /\ Free \notin Thread

VARIABLES
  handle,     \* [Thread -> state of the handle's memory]
  run,        \* [Thread -> state of the thread itself]
  exited,     \* [Thread -> Exit]
  joinMutex,  \* [Thread -> owner of JoinMutex]
  pjoins,     \* [Thread -> pthread_joins that have returned]
  group,      \* the list, newest first
  inGroup,    \* [Thread -> Group is set]
  upc,        \* [Users -> where the user is]
  joining,    \* [Users -> thread being joined]
  todo,       \* [Users -> rest of the list of LemonThreadGroupJoin]
  promised    \* [Users -> threads the join in progress has to wait for]

thVars == <<handle, run, exited, joinMutex, pjoins, group, inGroup, upc, joining, todo, promised>>

ThInit ==
  /\ handle = [t \in Thread |-> "none"] /\ run = [t \in Thread |-> "none"]
  /\ exited = [t \in Thread |-> FALSE] /\ joinMutex = [t \in Thread |-> Free]
  /\ pjoins = [t \in Thread |-> 0]
  /\ group = <<>> /\ inGroup = [t \in Thread |-> FALSE]
  /\ upc = [u \in Users |-> "idle"] /\ joining = [u \in Users |-> Free]
  /\ todo = [u \in Users |-> <<>>] /\ promised = [u \in Users |-> {}]

InGroup == {group[i] : i \in DOMAIN group}

(* LemonCreateThread.                                                      *)
CreateThread(u, t) ==
  /\ upc[u] = "idle" /\ handle[t] = "none"
  /\ handle' = [handle EXCEPT ![t] = "live"]
  /\ run' = [run EXCEPT ![t] = "created"]
  /\ UNCHANGED <<exited, joinMutex, pjoins, group, inGroup, upc, joining, todo, promised>>

(* ProcWrapper reads the handle; the thread's procedure ends.              *)
ThreadStarts(t) ==
  /\ run[t] = "created"
  /\ run' = [run EXCEPT ![t] = IF handle[t] = "live" THEN "running" ELSE "astray"]
  /\ UNCHANGED <<handle, exited, joinMutex, pjoins, group, inGroup, upc, joining, todo, promised>>

ThreadEnds(t) ==
  /\ run[t] = "running"
  /\ run' = [run EXCEPT ![t] = "ended"]
  /\ UNCHANGED <<handle, exited, joinMutex, pjoins, group, inGroup, upc, joining, todo, promised>>

(* LemonThreadGroupAdd; LemonThreadGroupCreateThread is a creation and this. *)
(* A thread that is in a group already is refused.                         *)
GroupAdd(t) ==
  /\ upc[Owner] = "idle" /\ handle[t] = "live" /\ ~inGroup[t]
  /\ inGroup' = [inGroup EXCEPT ![t] = TRUE]
  /\ group' = <<t>> \o group
  /\ UNCHANGED <<handle, run, exited, joinMutex, pjoins, upc, joining, todo, promised>>

----------------------------------------------------------------------------
(* LemonThreadJoin.                                                        *)
CallJoin(u, t) ==
  /\ upc[u] = "idle" /\ handle[t] = "live"
  /\ upc' = [upc EXCEPT ![u] = "lock"]
  /\ joining' = [joining EXCEPT ![u] = t]
  /\ promised' = [promised EXCEPT ![u] = {t}]
  /\ UNCHANGED <<handle, run, exited, joinMutex, pjoins, group, inGroup, todo>>

LockJoin(u) ==
  /\ upc[u] = "lock" /\ joinMutex[joining[u]] = Free
  /\ joinMutex' = [joinMutex EXCEPT ![joining[u]] = u]
  /\ upc' = [upc EXCEPT ![u] = "check"]
  /\ UNCHANGED <<handle, run, exited, pjoins, group, inGroup, joining, todo, promised>>

NotExited(u) == TRUE   \* a mutant of the next definition
MustJoin(u) == ~exited[joining[u]]

CheckExit(u) ==
  /\ upc[u] = "check"
  /\ upc' = [upc EXCEPT ![u] = IF MustJoin(u) THEN "join" ELSE "unlock"]
  /\ UNCHANGED <<handle, run, exited, joinMutex, pjoins, group, inGroup, joining, todo, promised>>

PthreadJoin(u) ==
  /\ upc[u] = "join" /\ run[joining[u]] = "ended"
  /\ pjoins' = [pjoins EXCEPT ![joining[u]] = @ + 1]
  /\ exited' = [exited EXCEPT ![joining[u]] = TRUE]
  /\ upc' = [upc EXCEPT ![u] = "unlock"]
  /\ UNCHANGED <<handle, run, joinMutex, group, inGroup, joining, todo, promised>>

(* The join returns, or a join of the group goes to the next thread.       *)
UnlockJoin(u) ==
  /\ upc[u] = "unlock"
  /\ joinMutex' = [joinMutex EXCEPT ![joining[u]] = Free]
  /\ IF todo[u] = <<>>
     THEN /\ upc' = [upc EXCEPT ![u] = "joined"]
          /\ joining' = [joining EXCEPT ![u] = Free] /\ UNCHANGED todo
     ELSE /\ upc' = [upc EXCEPT ![u] = "lock"]
          /\ joining' = [joining EXCEPT ![u] = Head(todo[u])]
          /\ todo' = [todo EXCEPT ![u] = Tail(@)]
  /\ UNCHANGED <<handle, run, exited, pjoins, group, inGroup, promised>>

JoinReturned(u) ==
  /\ upc[u] = "joined"
  /\ upc' = [upc EXCEPT ![u] = "idle"]
  /\ promised' = [promised EXCEPT ![u] = {}]
  /\ UNCHANGED <<handle, run, exited, joinMutex, pjoins, group, inGroup, joining, todo>>

(* LemonThreadGroupJoin walks the list; what is added in front of it       *)
(* meanwhile it does not see.                                              *)
GroupJoin(u) ==
  /\ upc[u] = "idle" /\ group # <<>>
  /\ upc' = [upc EXCEPT ![u] = "lock"]
  /\ joining' = [joining EXCEPT ![u] = Head(group)]
  /\ todo' = [todo EXCEPT ![u] = Tail(group)]
  /\ promised' = [promised EXCEPT ![u] = InGroup]
  /\ UNCHANGED <<handle, run, exited, joinMutex, pjoins, group, inGroup>>

(* LemonThreadGroupReset frees the handles, joined or not, while nobody    *)
(* else uses them: threads keep running without.                           *)
GroupReset ==
  /\ upc[Owner] = "idle"
  /\ \A u \in Users : promised[u] \cap InGroup = {}
  /\ handle' = [t \in Thread |-> IF t \in InGroup THEN "freed" ELSE handle[t]]
  /\ group' = <<>>
  /\ UNCHANGED <<run, exited, joinMutex, pjoins, inGroup, upc, joining, todo, promised>>

ThNext ==
  \/ \E t \in Thread : ThreadStarts(t) \/ ThreadEnds(t) \/ GroupAdd(t)
                       \/ \E u \in Users : CreateThread(u, t) \/ CallJoin(u, t)
  \/ \E u \in Users : LockJoin(u) \/ CheckExit(u) \/ PthreadJoin(u) \/ UnlockJoin(u)
                      \/ JoinReturned(u) \/ GroupJoin(u)
  \/ GroupReset

ThSpec == ThInit /\ [][ThNext]_thVars

(* Whoever joins, alone or through the group, and however many do: a       *)
(* thread is given to pthread_join at most once, a join that has returned  *)
(* has seen all its threads end, and a thread loses its handle before it   *)
(* has read it only if the group was reset without joining it.             *)
JoinsRight ==
  /\ \A t \in Thread : pjoins[t] <= 1 /\ (pjoins[t] = 1 => run[t] = "ended")
  /\ \A u \in Users : upc[u] = "joined" => \A t \in promised[u] : run[t] = "ended"
  /\ \A t \in Thread : run[t] = "astray" => inGroup[t] /\ pjoins[t] = 0
=============================================================================
