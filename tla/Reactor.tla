------------------------------ MODULE Reactor ------------------------------
(***************************************************************************)
(* The reactor of io/: asynchronous socket operations, the table of I/O    *)
(* request packets (IRPs), the poll thread over epoll, the queue of        *)
(* completed requests and the thread that dispatches their callbacks.      *)
(*                                                                         *)
(* An operation is tried at once; when it would block, an IRP is put in    *)
(* the table under the NUMBER of the socket's descriptor and the poll      *)
(* thread tries it again whenever epoll reports that number.  Completed    *)
(* requests go through a ring of fixed capacity to the dispatch thread.    *)
(*                                                                         *)
(* Three threads: the poll thread, one dispatch thread, and one user       *)
(* thread.  A step is one critical section or one system call.             *)
(***************************************************************************)
EXTENDS Naturals, Sequences, FiniteSets

CONSTANTS Fd,         \* descriptor numbers the kernel hands out, and reuses
          Socks,      \* number of LemonIO objects of the run
          Reqs,       \* number of asynchronous requests
          Writes,     \* those that send or connect, the others receive
          Accepts,    \* those that accept
          QSize,      \* capacity of the completion queue (1024 in the code)
          MaxUnits,   \* bound: readiness events of the run
          MaxErrors,  \* bound: system calls that fail of themselves
          None        \* no thread, socket, descriptor or request

Req     == 1 .. Reqs
Sock    == 1 .. Socks
Dir     == {"read", "write"}
DirOf(r) == IF r \in Writes THEN "write" ELSE "read"
Threads == {"poll", "dispatch", "user"}

ASSUME ReactorAssumption ==
  /\ Reqs \in Nat /\ Socks \in Nat /\ Writes \subseteq Req /\ Accepts \subseteq Req \ Writes
  /\ QSize \in Nat \ {0} /\ MaxUnits \in Nat /\ MaxErrors \in Nat
  /\ None \notin Fd /\ None \notin Sock /\ None \notin Req /\ None \notin Threads

VARIABLES
  sock,      \* [Sock -> state of the object and the handle in its memory]
  ready,     \* [Sock -> [Dir -> how many operations the kernel can finish]]
  irp,       \* [Req -> irp->Self, the socket of the request]
  outcome,   \* [Req -> what became of the request]
  irps,      \* table->Array: [Fd -> FIFO of the IRPs of that descriptor]
  q,         \* completeQ->RingBuffer
  tableLock, \* owner of table->Mutex
  qLock,     \* owner of completeQ->Mutex
  status,    \* service->Status: the service is stopped
  pc, cur,   \* per thread: where it is, the request in its hands
  inner,     \* per thread: request submitted by a callback run in a full queue
  batch,     \* poll thread: descriptor and IRPs of LemonExecuteIRPs
  events,    \* poll thread: descriptors epoll_wait has reported
  pollErr,   \* poll thread: errorCode of LemonExecuteIRPs
  closing,   \* per thread: handle in LemonCloseIO or LemonCancelIO
  units, errors  \* bounded environment: readiness events, failures so far

vars == <<sock, ready, irp, outcome, irps, q, tableLock, qLock, status,
          pc, cur, inner, batch, events, pollErr, closing, units, errors>>

kernel  == <<sock, ready, units, errors>>
pollVars == <<batch, events, pollErr>>

Entry == [req : Req, err : BOOLEAN]

TypeOK ==
  /\ sock \in [Sock -> [state : {"none", "open", "freed"}, fd : Fd \cup {None}]]
  /\ ready \in [Sock -> [Dir -> Nat]]
  /\ irp \in [Req -> Sock \cup {None}]
  /\ outcome \in [Req -> {"idle", "pending", "refused", "called", "dropped"}]
  /\ irps \in [Fd -> Seq(Req)]
  /\ q \in Seq(Entry) /\ Len(q) <= QSize
  /\ tableLock \in Threads \cup {None} /\ qLock \in Threads \cup {None}
  /\ status \in BOOLEAN
  /\ pc \in [Threads -> {"idle", "get", "callback", "insert", "complete", "full",
                         "fullInsert", "fullComplete", "fullClose", "fullJoin",
                         "closeTable", "join", "events", "exec", "exited", "crashed"}]
  /\ cur \in [Threads -> Req \cup {None}]
  /\ inner \in [Threads -> Req \cup {None}]
  /\ batch \in [fd : Fd \cup {None}, list : Seq(Req)]
  /\ events \subseteq Fd
  /\ pollErr \in BOOLEAN
  /\ closing \in [Threads -> Fd \cup {None}]
  /\ units \in 0 .. MaxUnits /\ errors \in 0 .. MaxErrors

Init ==
  /\ sock = [s \in Sock |-> [state |-> "none", fd |-> None]]
  /\ ready = [s \in Sock |-> [d \in Dir |-> 0]]
  /\ irp = [r \in Req |-> None]
  /\ outcome = [r \in Req |-> "idle"]
  /\ irps = [f \in Fd |-> <<>>]
  /\ q = <<>>
  /\ tableLock = None /\ qLock = None
  /\ status = FALSE
  /\ pc = [t \in Threads |-> IF t = "poll" THEN "events" ELSE "idle"]
  /\ cur = [t \in Threads |-> None] /\ inner = [t \in Threads |-> None]
  /\ batch = [fd |-> None, list |-> <<>>] /\ events = {} /\ pollErr = FALSE
  /\ closing = [t \in Threads |-> None]
  /\ units = 0 /\ errors = 0

----------------------------------------------------------------------------
(* The kernel: readiness, and the outcomes of a system call on a handle.   *)

OpenOn(f) == {s \in Sock : sock[s].state = "open" /\ sock[s].fd = f}

Members(list) == {list[i] : i \in DOMAIN list}

Arrive(s, d) ==
  /\ sock[s].state = "open" /\ units < MaxUnits
  /\ ready' = [ready EXCEPT ![s][d] = @ + 1]
  /\ units' = units + 1
  /\ UNCHANGED <<sock, irp, outcome, irps, q, tableLock, qLock, status,
                 pc, cur, inner, pollVars, closing, errors>>

(* A system call through the handle f finishes.                            *)
CallDone(f, d) == \E s \in OpenOn(f) :
  /\ ready[s][d] > 0
  /\ ready' = [ready EXCEPT ![s][d] = @ - 1]
  /\ errors' = errors

CallBlocks(f, d) ==
  /\ \E s \in OpenOn(f) : ready[s][d] = 0
  /\ UNCHANGED <<ready, errors>>

(* It fails: the descriptor is not open, or the memory the handle is read  *)
(* from is free and no longer holds it, or the operation itself fails.     *)
CallFails(f, freed) ==
  /\ \/ (OpenOn(f) = {} \/ freed) /\ errors' = errors
     \/ errors < MaxErrors /\ errors' = errors + 1
  /\ UNCHANGED ready

----------------------------------------------------------------------------
(* Sockets.                                                                *)

(* Where user code runs without a lock, and where a thread returns to.      *)
Idle(t) == pc[t] = (IF t = "dispatch" THEN "callback" ELSE "idle") /\ t # "poll"

Home(t) == CASE t = "poll" -> "exec" [] t = "dispatch" -> "callback" [] OTHER -> "idle"

Goto(t, l) == pc' = [pc EXCEPT ![t] = l]

(* LemonIRPComplete_TS runs callbacks in a full queue, under its mutex, and *)
(* under the table's if the poll thread completes: they may call any of     *)
(* these functions, which lock what they lock.                              *)
Calls(t) == Idle(t) \/ pc[t] = "full"
WaitIn(t, l, inFull) == Goto(t, IF pc[t] = "full" THEN inFull ELSE l)

LemonSock(t, s, f) ==
  /\ Idle(t) /\ sock[s].state = "none" /\ OpenOn(f) = {}
  /\ \A u \in 1 .. s - 1 : sock[u].state # "none"
  /\ sock' = [sock EXCEPT ![s] = [state |-> "open", fd |-> f]]
  /\ UNCHANGED <<ready, irp, outcome, irps, q, tableLock, qLock, status,
                 pc, cur, inner, pollVars, closing, units, errors>>

(* LemonCloseIO, first half: io->Close leaves epoll, closes the descriptor *)
(* and frees the object; its memory keeps the number.                      *)
CloseSocket(t, s) ==
  /\ Calls(t) /\ sock[s].state = "open"
  /\ sock' = [sock EXCEPT ![s].state = "freed"]
  /\ ready' = [ready EXCEPT ![s] = [d \in Dir |-> 0]]
  /\ closing' = [closing EXCEPT ![t] = sock[s].fd]
  /\ WaitIn(t, "closeTable", "fullClose")
  /\ UNCHANGED <<irp, outcome, irps, q, tableLock, qLock, status, cur,
                 inner, pollVars, units, errors>>

(* Every IRP under a number is taken out, its Proc is called once more, and *)
(* it is freed: what the call did is lost, and no callback runs.  Of the   *)
(* IRPs a set ran to completion: all, but those that found nothing ready   *)
(* or whose socket's memory is free.                                       *)
DropIRPs(f) ==
  LET list    == Members(irps[f])
      Wants(d) == {r \in list : DirOf(r) = d}
      Live(r)  == sock[irp[r]].state = "open"
  IN  /\ \/ OpenOn(f) = {} /\ UNCHANGED ready
         \/ \E s \in OpenOn(f), done \in SUBSET list :
              /\ \A d \in Dir : LET n == Cardinality(done \cap Wants(d))
                                IN  n <= ready[s][d]
                                    /\ (n = ready[s][d] \/ \A r \in Wants(d) \ done : ~Live(r))
              /\ ready' = [ready EXCEPT ![s] =
                             [d \in Dir |-> @[d] - Cardinality(done \cap Wants(d))]]
      /\ outcome' = [r \in Req |-> IF r \in list THEN "dropped" ELSE outcome[r]]
      /\ irps' = [irps EXCEPT ![f] = <<>>]

(* LemonCloseIO, second half: LemonIRPCloseFile_TS by the number.  And the  *)
(* same for a cancelled socket.                                             *)
CloseTable(t) ==
  /\ pc[t] \in {"closeTable", "fullClose"} /\ tableLock = None
  /\ DropIRPs(closing[t])
  /\ closing' = [closing EXCEPT ![t] = None]
  /\ Goto(t, IF pc[t] = "fullClose" THEN "full" ELSE Home(t))
  /\ UNCHANGED <<sock, irp, q, tableLock, qLock, status, cur, inner, pollVars, units, errors>>

(* LemonIRPFileCancel_TS, by the number too, of an open socket.             *)
LemonCancelIO(t, s) ==
  /\ Calls(t) /\ sock[s].state = "open" /\ irps[sock[s].fd] # <<>>
  /\ closing' = [closing EXCEPT ![t] = sock[s].fd]
  /\ WaitIn(t, "closeTable", "fullClose")
  /\ UNCHANGED <<kernel, irp, outcome, irps, q, tableLock, qLock, status, cur,
                 inner, pollVars>>

----------------------------------------------------------------------------
(* Submission.  The call is tried first; only when it would block is an    *)
(* IRP created and, in a later critical section, put in the table.         *)

Ask(r, s) ==
  /\ outcome[r] = "idle" /\ \A p \in 1 .. r - 1 : outcome[p] # "idle"
  /\ sock[s].state = "open"
  /\ irp' = [irp EXCEPT ![r] = s]

Async(t, r, s) ==
  /\ Idle(t) /\ Ask(r, s)
  /\ \/ /\ CallDone(sock[s].fd, DirOf(r))
        /\ outcome' = [outcome EXCEPT ![r] = "pending"]
        /\ Goto(t, "complete") /\ cur' = [cur EXCEPT ![t] = r]
     \/ /\ CallFails(sock[s].fd, FALSE)
        /\ outcome' = [outcome EXCEPT ![r] = "refused"]
        /\ UNCHANGED <<pc, cur>>
     \/ /\ CallBlocks(sock[s].fd, DirOf(r))
        /\ outcome' = [outcome EXCEPT ![r] = "pending"]
        /\ Goto(t, "insert") /\ cur' = [cur EXCEPT ![t] = r]
  /\ UNCHANGED <<sock, irps, q, tableLock, qLock, status, inner, pollVars,
                 closing, units>>

(* LemonAsyncRecv and LemonAsyncReceiveFrom.                               *)
AsyncRead(t, r, s) == r \notin Writes \cup Accepts /\ Async(t, r, s)

(* LemonAsyncSend and LemonAsyncSendTo.                                    *)
AsyncWrite(t, r, s) == r \in Writes /\ Async(t, r, s)

(* A connection that is in progress counts as one that would block.        *)
AsyncConnect(t, r, s) == r \in Writes /\ Async(t, r, s)

AsyncAccept(t, r, s) == r \in Accepts /\ Async(t, r, s)

(* LemonInsertIRP_TS.                                                      *)
Push(r, s) == irps' = [irps EXCEPT ![sock[s].fd] = Append(@, r)]

InsertIRP(t) ==
  /\ pc[t] = "insert" /\ tableLock = None
  /\ Push(cur[t], irp[cur[t]])
  /\ cur' = [cur EXCEPT ![t] = None]
  /\ Goto(t, Home(t))
  /\ UNCHANGED <<kernel, irp, outcome, q, tableLock, qLock, status, inner,
                 pollVars, closing>>

----------------------------------------------------------------------------
(* LemonIRPComplete_TS and LemonIRPCompleteEx_TS: an entry is written at   *)
(* the back; the condition variable of the queue is not notified.  In a    *)
(* full queue the write takes the place of the oldest entry, whose         *)
(* callback runs first, under the queue's mutex and what the caller holds. *)

NewEntry(t) == [req |-> cur[t], err |-> t = "poll" /\ pollErr]

HasRoom == Len(q) < QSize

CompleteIRP(t) ==
  /\ pc[t] = "complete" /\ qLock = None
  /\ IF HasRoom
     THEN /\ q' = Append(q, NewEntry(t))
          /\ cur' = [cur EXCEPT ![t] = None]
          /\ Goto(t, Home(t))
          /\ UNCHANGED <<outcome, qLock>>
     ELSE /\ outcome' = [outcome EXCEPT ![Head(q).req] = "called"]
          /\ q' = Tail(q)
          /\ qLock' = t
          /\ Goto(t, "full")
          /\ UNCHANGED cur
  /\ UNCHANGED <<kernel, irp, irps, tableLock, status, inner, pollVars,
                 closing>>

KeepQueueLock == UNCHANGED qLock   \* a mutant of the next definition
UnlockQueue == qLock' = None

(* The callback returns: its slot takes the new entry.                     *)
CompleteFull(t) ==
  /\ pc[t] = "full"
  /\ q' = Append(q, NewEntry(t))
  /\ cur' = [cur EXCEPT ![t] = None]
  /\ UnlockQueue
  /\ Goto(t, Home(t))
  /\ UNCHANGED <<kernel, irp, outcome, irps, tableLock, status, inner,
                 pollVars, closing>>

(* The callback submits a request of its own, by any of the functions      *)
(* above; what they lock is locked inside the queue's mutex.               *)
FullAsync(t, r, s) ==
  /\ pc[t] = "full" /\ Ask(r, s)
  /\ \/ /\ CallFails(sock[s].fd, FALSE)
        /\ outcome' = [outcome EXCEPT ![r] = "refused"]
        /\ UNCHANGED <<pc, inner>>
     \/ /\ \/ CallDone(sock[s].fd, DirOf(r)) /\ Goto(t, "fullComplete")
           \/ CallBlocks(sock[s].fd, DirOf(r)) /\ Goto(t, "fullInsert")
        /\ outcome' = [outcome EXCEPT ![r] = "pending"]
        /\ inner' = [inner EXCEPT ![t] = r]
  /\ UNCHANGED <<sock, units, irps, q, tableLock, qLock, status, cur, pollVars,
                 closing>>

FullInsert(t) ==
  /\ pc[t] = "fullInsert" /\ tableLock = None
  /\ Push(inner[t], irp[inner[t]])
  /\ inner' = [inner EXCEPT ![t] = None]
  /\ Goto(t, "full")
  /\ UNCHANGED <<kernel, irp, outcome, q, tableLock, qLock, status, cur,
                 pollVars, closing>>

----------------------------------------------------------------------------
(* The poll thread.                                                        *)

RunOn == FALSE   \* a mutant of the next definition
MustLeave == status

(* EPOLLIN and EPOLLOUT without EPOLLET: what can make progress is reported *)
(* again and again.                                                        *)
MustBeReported == {f \in Fd : \E s \in OpenOn(f), d \in Dir : ready[s][d] > 0}

(* LemonIOServiceProc and epoll_wait: the descriptors that can make        *)
(* progress are reported (level triggered), others may be.                 *)
Poll ==
  /\ pc["poll"] = "events" /\ events = {}
  /\ \/ MustLeave /\ Goto("poll", "exited") /\ UNCHANGED events
     \/ /\ ~MustLeave /\ UNCHANGED pc
        /\ \E E \in SUBSET {f \in Fd : OpenOn(f) # {}} : MustBeReported \subseteq E /\ events' = E
  /\ UNCHANGED <<kernel, irp, outcome, irps, q, tableLock, qLock, status,
                 cur, inner, batch, pollErr, closing>>

LeaveList(f) == UNCHANGED irps   \* a mutant of the next definition
TakeList(f) == irps' = [irps EXCEPT ![f] = <<>>]

(* LemonExecuteIRPs_TS takes the whole list of one descriptor.             *)
ExecuteIRPs(f) ==
  /\ pc["poll"] = "events" /\ f \in events /\ tableLock = None
  /\ events' = events \ {f}
  /\ batch' = [fd |-> f, list |-> irps[f]]
  /\ TakeList(f)
  /\ pollErr' = FALSE
  /\ tableLock' = "poll"
  /\ Goto("poll", "exec")
  /\ UNCHANGED <<kernel, irp, outcome, q, qLock, status, cur, inner, closing>>

(* One round of its loop: Proc tries the request again through the handle  *)
(* in its socket's memory.  A failure sets errorCode, a call that would    *)
(* block resets it, a success leaves it as the request before left it.     *)
ExecuteIRP ==
  /\ pc["poll"] = "exec" /\ batch.list # <<>>
  /\ LET r == Head(batch.list)
         s == sock[irp[r]]
     IN  /\ \/ /\ CallDone(s.fd, DirOf(r)) /\ pollErr' = pollErr
               /\ cur' = [cur EXCEPT !["poll"] = r] /\ Goto("poll", "complete")
               /\ UNCHANGED irps
            \/ /\ CallFails(s.fd, s.state = "freed") /\ pollErr' = TRUE
               /\ cur' = [cur EXCEPT !["poll"] = r] /\ Goto("poll", "complete")
               /\ UNCHANGED irps
            \/ /\ CallBlocks(s.fd, DirOf(r)) /\ pollErr' = FALSE
               /\ irps' = [irps EXCEPT ![batch.fd] = Append(@, r)]
               /\ UNCHANGED <<pc, cur>>
         /\ batch' = [batch EXCEPT !.list = Tail(@)]
  /\ UNCHANGED <<sock, units, irp, outcome, q, tableLock, qLock, status, inner,
                 events, closing>>

ExecuteEnd ==
  /\ pc["poll"] = "exec" /\ batch.list = <<>>
  /\ tableLock' = None
  /\ batch' = [batch EXCEPT !.fd = None]
  /\ Goto("poll", "events")
  /\ UNCHANGED <<kernel, irp, outcome, irps, q, qLock, status, cur, inner,
                 events, pollErr, closing>>

----------------------------------------------------------------------------
(* The dispatch thread, LemonIODispatch.                                   *)

Dispatch ==
  /\ pc["dispatch"] = "idle" /\ ~status
  /\ Goto("dispatch", "get")
  /\ UNCHANGED <<kernel, irp, outcome, irps, q, tableLock, qLock, status,
                 cur, inner, pollVars, closing>>

DispatchAgain == Goto("dispatch", IF status THEN "idle" ELSE "get")

(* In an empty queue it waits for a time, since nobody notifies it.  The   *)
(* first definition is a mutant: it waits for the notification.            *)
AwaitNotify == Goto("dispatch", "waiting")
AwaitTimeout == DispatchAgain

(* LemonGetCompletedIRP, then the callback.  The peer of an accept that    *)
(* failed is NULL, and the dispatcher writes to it.                        *)
GetCompletedIRP ==
  /\ pc["dispatch"] = "get" /\ qLock = None
  /\ IF q = <<>> THEN AwaitTimeout /\ UNCHANGED <<q, outcome>>
     ELSE /\ q' = Tail(q)
          /\ IF Head(q).err /\ Head(q).req \in Accepts
             THEN /\ Goto("dispatch", "crashed")
                  /\ outcome' = [outcome EXCEPT ![Head(q).req] = "dropped"]
             ELSE /\ Goto("dispatch", "callback")
                  /\ outcome' = [outcome EXCEPT ![Head(q).req] = "called"]
  /\ UNCHANGED <<kernel, irp, irps, tableLock, qLock, status, cur, inner,
                 pollVars, closing>>

CallbackReturns ==
  /\ pc["dispatch"] = "callback"
  /\ DispatchAgain
  /\ UNCHANGED <<kernel, irp, outcome, irps, q, tableLock, qLock, status,
                 cur, inner, pollVars, closing>>

----------------------------------------------------------------------------
(* Stop and restart.                                                       *)

(* LemonStopIOService, which only the user thread calls, joins the poll thread. *)
StopIOService ==
  /\ Calls("user")
  /\ status' = TRUE
  /\ WaitIn("user", "join", "fullJoin")
  /\ UNCHANGED <<kernel, irp, outcome, irps, q, tableLock, qLock, cur, inner,
                 pollVars, closing>>

StopJoined ==
  /\ pc["user"] \in {"join", "fullJoin"} /\ pc["poll"] = "exited"
  /\ Goto("user", IF pc["user"] = "fullJoin" THEN "full" ELSE "idle")
  /\ UNCHANGED <<kernel, irp, outcome, irps, q, tableLock, qLock, status,
                 cur, inner, pollVars, closing>>

ResetIOService ==
  /\ pc["user"] = "idle" /\ status
  /\ status' = FALSE
  /\ Goto("poll", "events")
  /\ UNCHANGED <<kernel, irp, outcome, irps, q, tableLock, qLock, cur, inner,
                 pollVars, closing>>

----------------------------------------------------------------------------
Thread(t) ==
  \/ \E s \in Sock : \/ CloseSocket(t, s) \/ LemonCancelIO(t, s)
                     \/ \E r \in Req : \/ AsyncRead(t, r, s) \/ AsyncWrite(t, r, s)
                                       \/ AsyncConnect(t, r, s) \/ AsyncAccept(t, r, s)
                                       \/ FullAsync(t, r, s)
  \/ CloseTable(t) \/ InsertIRP(t) \/ CompleteIRP(t) \/ CompleteFull(t) \/ FullInsert(t)

PollThread == Poll \/ ExecuteIRP \/ ExecuteEnd \/ \E f \in Fd : ExecuteIRPs(f)

DispatchThread == Dispatch \/ GetCompletedIRP \/ CallbackReturns

Next ==
  /\ pc["dispatch"] # "crashed"
  /\ \/ \E t \in Threads : Thread(t)
     \/ PollThread \/ DispatchThread
     \/ StopIOService \/ StopJoined \/ ResetIOService
     \/ \E s \in Sock, f \in Fd : LemonSock("user", s, f)
     \/ \E s \in Sock, d \in Dir : Arrive(s, d)

(* Fairness: every thread runs, callbacks return, and a thread that waits   *)
(* for a mutex others keep releasing gets it in the end (strong fairness). *)
(* Nobody is obliged to submit, to close, to stop, or to send data.        *)
Goes(t) == CloseTable(t) \/ InsertIRP(t) \/ CompleteIRP(t) \/ CompleteFull(t) \/ FullInsert(t)

Fairness ==
  /\ SF_vars(PollThread \/ Goes("poll"))
  /\ SF_vars(DispatchThread \/ Goes("dispatch"))
  /\ SF_vars(StopJoined \/ Goes("user"))

Spec == Init /\ [][Next]_vars /\ Fairness

----------------------------------------------------------------------------
(* Properties.                                                             *)

Places(r) ==
  {<<"cur", t>> : t \in {u \in Threads : cur[u] = r}}
    \cup {<<"inner", t>> : t \in {u \in Threads : inner[u] = r}}
    \cup {<<"batch", i>> : i \in {j \in DOMAIN batch.list : batch.list[j] = r}}
    \cup {<<"queue", i>> : i \in {j \in DOMAIN q : q[j].req = r}}
    \cup UNION {{<<f, i>> : i \in {j \in DOMAIN irps[f] : irps[f][j] = r}} : f \in Fd}

(* A request that was accepted and has had no outcome is in exactly one    *)
(* place: a thread's hands, the table, the list the poll thread works on,  *)
(* or the completion queue; one that was called back, refused or dropped   *)
(* is in none.  So no IRP is lost or answered twice between the            *)
(* submitters, the poll thread, close, cancel and the dispatcher.          *)
OnePlace ==
  \A r \in Req : Cardinality(Places(r)) = IF outcome[r] = "pending" THEN 1 ELSE 0

(* Who has what a thread waits for: a mutex, or the end of the poll thread. *)
WaitsFor(t) ==
  CASE pc[t] \in {"insert", "fullInsert", "closeTable", "fullClose", "events"} -> tableLock
    [] pc[t] \in {"complete", "fullComplete", "get"} -> qLock
    [] pc[t] \in {"join", "fullJoin"} /\ pc["poll"] # "exited" -> "poll"
    [] OTHER -> None

Stuck == \E t, u \in Threads : WaitsFor(t) = u /\ (u = t \/ WaitsFor(u) = t)

(* A thread waits for itself, or two wait for each other, only if one of    *)
(* them is in a callback that LemonIRPComplete_TS runs in a full queue and  *)
(* that submits a request, closes or cancels a socket or stops the service  *)
(* (irp.cpp:972-982): every other path takes the table mutex before the     *)
(* queue's, and holds neither while user code runs.  One thread is enough:  *)
(* the poll thread holds both mutexes and its callback takes either again.  *)
CalledInFullQueue(t) == pc[t] \in {"fullInsert", "fullComplete", "fullClose", "fullJoin"}
StuckOnlyInFullQueue == Stuck => \E t \in Threads : CalledInFullQueue(t)

(* Together: every request is somewhere, and the threads get to it.        *)
RequestsKept == OnePlace /\ StuckOnlyInFullQueue

Running == ~status /\ ~Stuck /\ pc["dispatch"] # "crashed"

(* While the service runs no request stays unanswered for ever that the    *)
(* kernel could finish: the poll thread or the submitter completes it, and *)
(* the dispatcher calls back although the queue's condition variable is    *)
(* never notified.                                                         *)
Served ==
  \A r \in Req :
    ~<>[](/\ Running /\ outcome[r] = "pending"
          /\ (\E f \in Fd : r \in Members(irps[f])) =>
               /\ sock[irp[r]].state = "open"
               /\ ready[irp[r]][DirOf(r)] > 0)

(* LemonStopIOService returns: the poll thread it joins leaves its loop,   *)
(* whatever it was doing, unless a full queue has blocked it for ever.     *)
StopReturns ==
  pc["user"] \in {"join", "fullJoin"} ~>
    (pc["user"] \in {"idle", "full"} \/ Stuck \/ pc["dispatch"] = "crashed")
=============================================================================
