---------------------------- MODULE ReactorProofs ----------------------------
(* For any sockets, requests, descriptors and capacity of the queue every request   *)
(* of the reactor is in one place, and threads block each other only by a callback  *)
(* in a full queue that submits, closes, cancels or stops.                          *)
EXTENDS Reactor, FiniteSetTheorems, TLAPS

(* The requests of the poll thread's list, of the queue and of the table. *)
Batched == Members(batch.list)
Queued  == {q[i].req : i \in DOMAIN q}
Tabled  == [f \in Fd |-> Members(irps[f])]

\* a callback in a full queue
Full == {"full", "fullInsert", "fullComplete", "fullClose", "fullJoin"}

(* Where each thread can be. *)
PollAt     == Full \cup {"events", "exec", "complete", "exited"}
CallerAt   == Full \cup {"idle", "insert", "complete", "closeTable"}
ThreadsAt  == /\ pc["poll"] \in PollAt
              /\ pc["user"] \in CallerAt \cup {"join"}
              /\ pc["dispatch"] \in CallerAt \cup {"get", "callback", "crashed"}

(* Who stands in a section has its mutex, and the queue a slot for him. *)
InExecute == pc["poll"] \in Full \cup {"exec", "complete"}
LocksHeld == /\ tableLock \in {None, "poll"} /\ (tableLock = "poll" <=> InExecute)
             /\ \A t \in Threads : qLock = t <=> pc[t] \in Full
             /\ qLock # None => Len(q) < QSize

HandsHold == /\ \A t \in Threads : /\ cur[t] # None <=> pc[t] \in Full \cup {"insert", "complete"}
                                   /\ inner[t] # None <=> pc[t] \in {"fullInsert", "fullComplete"}
                                   /\ pc[t] \in {"closeTable", "fullClose"} => closing[t] \in Fd
             /\ batch.fd # None <=> InExecute
             /\ batch.fd = None => batch.list = <<>>

(* A stopped service is being joined or its poll thread is gone. *)
StopStands == status => pc["user"] \in {"join", "fullJoin"} \/ pc["poll"] = "exited"

SocketsHave == /\ \A s \in Sock : sock[s].state # "none" => sock[s].fd \in Fd
               /\ \A r \in Req : outcome[r] # "idle" =>
                    irp[r] \in Sock /\ sock[irp[r]].state # "none"

(* No request is in two places of different kinds, or in two hands or lists ... *)
Apart ==
  /\ \A t, u \in Threads : /\ cur[t] = cur[u] /\ cur[t] # None => t = u
                           /\ inner[t] = inner[u] /\ inner[t] # None => t = u
                           /\ cur[t] # None => cur[t] # inner[u]
  /\ \A t \in Threads : \A r \in {cur[t], inner[t]} \ {None} :
       r \notin Batched /\ r \notin Queued /\ \A f \in Fd : r \notin Tabled[f]
  /\ Batched \cap Queued = {}
  /\ \A f \in Fd : Tabled[f] \cap Batched = {} /\ Tabled[f] \cap Queued = {}
  /\ \A f, g \in Fd : f # g => Tabled[f] \cap Tabled[g] = {}

(* ... nor twice in one list ... *)
Distinct(list) == \A i, j \in DOMAIN list : list[i] = list[j] => i = j
ListedOnce == /\ Distinct(batch.list)
              /\ \A i, j \in DOMAIN q : q[i].req = q[j].req => i = j
              /\ \A f \in Fd : Distinct(irps[f])

(* ... and it is somewhere as long as it has no outcome. *)
Somewhere(r) == \/ \E t \in Threads : cur[t] = r \/ inner[t] = r
                \/ r \in Batched \/ r \in Queued \/ \E f \in Fd : r \in Tabled[f]
Awaited == \A r \in Req : outcome[r] = "pending" <=> Somewhere(r)

ReactorInv == /\ TypeOK /\ ThreadsAt /\ LocksHeld /\ HandsHold /\ StopStands
              /\ SocketsHave /\ Apart /\ ListedOnce /\ Awaited

-----------------------------------------------------------------------------
(* Lists, as sets of requests without repetition. *)
LEMMA AppendRequest ==
  ASSUME NEW S, NEW list \in Seq(S), NEW r \in S
  PROVE  /\ Append(list, r) \in Seq(S)
         /\ Members(Append(list, r)) = Members(list) \cup {r}
         /\ Distinct(list) /\ r \notin Members(list) => Distinct(Append(list, r))
<1>1. /\ Append(list, r) \in Seq(S) /\ Len(Append(list, r)) = Len(list) + 1 /\ Len(list) \in Nat
      /\ \A i \in 1..Len(list) : Append(list, r)[i] = list[i]
      /\ Append(list, r)[Len(list) + 1] = r
      /\ DOMAIN list = 1..Len(list) /\ DOMAIN Append(list, r) = 1..(Len(list) + 1)
  OBVIOUS
<1>2. 1..(Len(list) + 1) = (1..Len(list)) \cup {Len(list) + 1}
  BY <1>1
<1>3. Members(Append(list, r)) = Members(list) \cup {r}
  BY <1>1, <1>2 DEF Members
<1>4. ASSUME Distinct(list), r \notin Members(list) PROVE Distinct(Append(list, r))
  BY <1>1, <1>2, <1>4 DEF Distinct, Members
<1> QED
  BY <1>1, <1>3, <1>4

LEMMA TailRequest ==
  ASSUME NEW S, NEW list \in Seq(S), list # <<>>
  PROVE  /\ Tail(list) \in Seq(S) /\ Head(list) \in S /\ Head(list) \in Members(list)
         /\ Members(Tail(list)) \subseteq Members(list)
         /\ Members(list) = Members(Tail(list)) \cup {Head(list)}
         /\ Distinct(list) => /\ Distinct(Tail(list))
                              /\ Members(Tail(list)) = Members(list) \ {Head(list)}
<1>1. /\ Tail(list) \in Seq(S) /\ Head(list) \in S /\ Head(list) = list[1]
      /\ Len(list) \in Nat /\ Len(list) >= 1 /\ Len(Tail(list)) = Len(list) - 1
      /\ \A i \in 1..Len(Tail(list)) : Tail(list)[i] = list[i + 1]
      /\ DOMAIN list = 1..Len(list) /\ DOMAIN Tail(list) = 1..(Len(list) - 1)
  OBVIOUS
<1>2. \A i \in 1..(Len(list) - 1) : i + 1 \in 1..Len(list) /\ i + 1 # 1
  BY <1>1
<1>3. \A i \in 1..Len(list) : i # 1 => i - 1 \in 1..(Len(list) - 1) /\ (i - 1) + 1 = i
  BY <1>1
<1>4. Members(Tail(list)) \subseteq Members(list)
  BY <1>1, <1>2 DEF Members
<1>5. \A i \in 1..Len(list) : i # 1 => list[i] \in Members(Tail(list))
  <2> SUFFICES ASSUME NEW i \in 1..Len(list), i # 1 PROVE list[i] \in Members(Tail(list))
    OBVIOUS
  <2>1. Tail(list)[i - 1] = list[i] /\ i - 1 \in DOMAIN Tail(list)
    BY <1>1, <1>3
  <2> QED
    BY <2>1 DEF Members
<1>6. 1 \in 1..Len(list)
  BY <1>1
<1>7. Members(list) = Members(Tail(list)) \cup {Head(list)}
  BY <1>1, <1>4, <1>5, <1>6 DEF Members
<1>8. ASSUME Distinct(list)
      PROVE  Distinct(Tail(list)) /\ Members(Tail(list)) = Members(list) \ {Head(list)}
  <2>1. Distinct(Tail(list))
    BY <1>1, <1>2, <1>8 DEF Distinct
  <2>2. Head(list) \notin Members(Tail(list))
    BY <1>1, <1>2, <1>6, <1>8 DEF Distinct, Members
  <2> QED
    BY <2>1, <2>2, <1>7
<1> QED
  BY <1>1, <1>4, <1>6, <1>7, <1>8 DEF Members

LEMMA EmptyList == Members(<<>>) = {} /\ Distinct(<<>>) /\ \A S : <<>> \in Seq(S)
  BY DEF Members, Distinct

(* The requests of the queue, in the order of its entries. *)
LEMMA AppendEntry ==
  ASSUME TypeOK, ListedOnce, NEW e \in Entry, e.req \notin Queued, q' = Append(q, e)
  PROVE  /\ Queued' = Queued \cup {e.req}
         /\ \A i, j \in DOMAIN q' : q'[i].req = q'[j].req => i = j
         /\ q' \in Seq(Entry) /\ Len(q') = Len(q) + 1 /\ Len(q) \in Nat
<1>1. /\ q \in Seq(Entry) /\ Len(q) \in Nat /\ DOMAIN q = 1..Len(q)
      /\ Len(q') = Len(q) + 1 /\ q' \in Seq(Entry) /\ DOMAIN q' = 1..(Len(q) + 1)
      /\ \A i \in 1..Len(q) : q'[i] = q[i]
      /\ q'[Len(q) + 1] = e
  BY DEF TypeOK
<1>2. 1..(Len(q) + 1) = (1..Len(q)) \cup {Len(q) + 1}
  BY <1>1
<1>3. Queued' = Queued \cup {e.req}
  BY <1>1, <1>2 DEF Queued
<1>4. \A i, j \in DOMAIN q' : q'[i].req = q'[j].req => i = j
  BY <1>1, <1>2 DEF ListedOnce, Queued
<1> QED
  BY <1>1, <1>3, <1>4

LEMMA TailEntry ==
  ASSUME TypeOK, ListedOnce, q # <<>>, q' = Tail(q)
  PROVE  /\ Head(q) \in Entry /\ Head(q).req \in Queued
         /\ Queued' = Queued \ {Head(q).req}
         /\ \A i, j \in DOMAIN q' : q'[i].req = q'[j].req => i = j
         /\ q' \in Seq(Entry) /\ Len(q') = Len(q) - 1 /\ Len(q) \in Nat
<1>1. /\ q \in Seq(Entry) /\ Len(q) \in Nat /\ Len(q) >= 1 /\ DOMAIN q = 1..Len(q)
      /\ Len(q') = Len(q) - 1 /\ q' \in Seq(Entry) /\ DOMAIN q' = 1..(Len(q) - 1)
      /\ \A i \in 1..(Len(q) - 1) : q'[i] = q[i + 1]
      /\ Head(q) = q[1] /\ Head(q) \in Entry
  BY DEF TypeOK
<1>2. \A i \in 1..(Len(q) - 1) : i + 1 \in 1..Len(q) /\ i + 1 # 1
  BY <1>1
<1>3. \A i \in 1..Len(q) : i # 1 => i - 1 \in 1..(Len(q) - 1) /\ (i - 1) + 1 = i
  BY <1>1
<1>4. 1 \in 1..Len(q)
  BY <1>1
<1>5. \A i, j \in 1..Len(q) : q[i].req = q[j].req => i = j
  BY <1>1 DEF ListedOnce
<1>6. Queued' \subseteq Queued \ {Head(q).req}
  BY <1>1, <1>2, <1>4, <1>5 DEF Queued
<1>7. \A i \in 1..Len(q) : i # 1 => q[i].req \in Queued'
  <2> SUFFICES ASSUME NEW i \in 1..Len(q), i # 1 PROVE q[i].req \in Queued'
    OBVIOUS
  <2>1. q'[i - 1] = q[i] /\ i - 1 \in DOMAIN q'
    BY <1>1, <1>3
  <2> QED
    BY <2>1 DEF Queued
<1>8. Queued' = Queued \ {Head(q).req}
  <2> SUFFICES ASSUME NEW r \in Queued, r # Head(q).req PROVE r \in Queued'
    BY <1>6
  <2>1. PICK i \in 1..Len(q) : r = q[i].req
    BY <1>1 DEF Queued
  <2> QED
    BY <1>1, <1>7, <2>1
<1>9. \A i, j \in DOMAIN q' : q'[i].req = q'[j].req => i = j
  BY <1>1, <1>2, <1>5
<1> QED
  BY <1>1, <1>4, <1>8, <1>9 DEF Queued

(* What a push to the table and an emptied list of it do to the sets of requests. *)
LEMMA PushTable ==
  ASSUME TypeOK, ListedOnce, NEW r \in Req, NEW f \in Fd, r \notin Tabled[f],
         irps' = [irps EXCEPT ![f] = Append(@, r)]
  PROVE  /\ Tabled' = [Tabled EXCEPT ![f] = @ \cup {r}]
         /\ \A g \in Fd : Distinct(irps'[g])
         /\ irps' \in [Fd -> Seq(Req)]
<1>1. irps \in [Fd -> Seq(Req)] /\ irps[f] \in Seq(Req)
  BY DEF TypeOK
<1>2. Tabled = [g \in Fd |-> Members(irps[g])] /\ Tabled' = [g \in Fd |-> Members(irps'[g])]
  BY DEF Tabled, Members
<1>3. /\ Append(irps[f], r) \in Seq(Req)
      /\ Members(Append(irps[f], r)) = Tabled[f] \cup {r}
      /\ Distinct(Append(irps[f], r))
  BY <1>1, <1>2, AppendRequest DEF ListedOnce
<1>4. irps'[f] = Append(irps[f], r) /\ \A g \in Fd : g # f => irps'[g] = irps[g]
  BY <1>1
<1>5. Tabled' = [Tabled EXCEPT ![f] = @ \cup {r}]
  <2>1. Tabled'[f] = Tabled[f] \cup {r} /\ \A g \in Fd : g # f => Tabled'[g] = Tabled[g]
    BY <1>2, <1>3, <1>4
  <2> QED
    BY <1>2, <2>1
<1>6. \A g \in Fd : Distinct(irps'[g])
  BY <1>3, <1>4 DEF ListedOnce
<1>7. irps' \in [Fd -> Seq(Req)]
  BY <1>1, <1>3
<1> QED
  BY <1>5, <1>6, <1>7

LEMMA EmptyTable ==
  ASSUME TypeOK, ListedOnce, NEW f \in Fd, irps' = [irps EXCEPT ![f] = <<>>]
  PROVE  /\ Tabled' = [Tabled EXCEPT ![f] = {}]
         /\ \A g \in Fd : Distinct(irps'[g])
         /\ irps' \in [Fd -> Seq(Req)]
<1>1. irps \in [Fd -> Seq(Req)]
  BY DEF TypeOK
<1>2. Tabled = [g \in Fd |-> Members(irps[g])] /\ Tabled' = [g \in Fd |-> Members(irps'[g])]
  BY DEF Tabled, Members
<1>3. irps'[f] = <<>> /\ \A g \in Fd : g # f => irps'[g] = irps[g]
  BY <1>1
<1>4. Tabled' = [Tabled EXCEPT ![f] = {}]
  <2>1. Tabled'[f] = {} /\ \A g \in Fd : g # f => Tabled'[g] = Tabled[g]
    BY <1>2, <1>3, EmptyList
  <2> QED
    BY <1>2, <2>1
<1>5. \A g \in Fd : Distinct(irps'[g])
  BY <1>3, EmptyList DEF ListedOnce
<1> QED
  BY <1>1, <1>4, <1>5, EmptyList

-----------------------------------------------------------------------------
(* A request stays where it is when no list and no hand changes. *)
LEMMA RequestsStay ==
  ASSUME Apart, ListedOnce, Awaited,
         cur' = cur, inner' = inner, batch'.list = batch.list, q' = q, irps' = irps,
         outcome' = outcome
  PROVE  Apart' /\ ListedOnce' /\ Awaited'
<1>1. Batched' = Batched /\ Queued' = Queued /\ Tabled' = Tabled
  BY DEF Batched, Queued, Tabled, Members
<1>2. Apart'
  BY <1>1 DEF Apart
<1>3. ListedOnce'
  BY DEF ListedOnce, Distinct
<1>4. Awaited'
  BY <1>1 DEF Awaited, Somewhere
<1> QED
  BY <1>2, <1>3, <1>4

(* Nor is a request that was not asked yet anywhere. *)
LEMMA IdleIsNowhere ==
  ASSUME Awaited, NEW r \in Req, outcome[r] = "idle"
  PROVE  /\ \A t \in Threads : cur[t] # r /\ inner[t] # r
         /\ r \notin Batched /\ r \notin Queued /\ \A f \in Fd : r \notin Tabled[f]
  BY DEF Awaited, Somewhere

LEMMA NoneIsNoRequest == None \notin Req /\ None \notin Fd /\ None \notin Threads
  BY ReactorAssumption DEF ReactorAssumption

LEMMA CallTypes ==
  ASSUME TypeOK, NEW f, NEW d \in Dir, NEW b,
         CallDone(f, d) \/ CallFails(f, b) \/ CallBlocks(f, d)
  PROVE  ready' \in [Sock -> [Dir -> Nat]] /\ errors' \in 0 .. MaxErrors
<1>1. ready \in [Sock -> [Dir -> Nat]] /\ errors \in 0 .. MaxErrors /\ MaxErrors \in Nat
  BY ReactorAssumption DEF TypeOK, ReactorAssumption
<1>2. CASE CallDone(f, d)
  <2>1. PICK s \in Sock : /\ ready[s][d] > 0
                          /\ ready' = [ready EXCEPT ![s][d] = @ - 1] /\ errors' = errors
    BY <1>2 DEF CallDone, OpenOn
  <2>2. ready[s][d] \in Nat /\ ready[s][d] - 1 \in Nat
    BY <1>1, <2>1
  <2> QED
    BY <1>1, <2>1, <2>2
<1>3. CASE CallFails(f, b)
  BY <1>1, <1>3 DEF CallFails
<1>4. CASE CallBlocks(f, d)
  BY <1>1, <1>4 DEF CallBlocks
<1> QED
  BY <1>2, <1>3, <1>4

-----------------------------------------------------------------------------
(* Steps that move no request. *)
LEMMA ArriveStep ==
  ASSUME ReactorInv, NEW s \in Sock, NEW d \in Dir, Arrive(s, d)
  PROVE  ReactorInv'
<1> USE DEF ReactorInv
<1>1. TypeOK'
  <2>1. ready \in [Sock -> [Dir -> Nat]] /\ ready[s][d] + 1 \in Nat /\ units + 1 \in 0 .. MaxUnits
    BY ReactorAssumption DEF TypeOK, Arrive, ReactorAssumption
  <2>2. ready' \in [Sock -> [Dir -> Nat]] /\ units' \in 0 .. MaxUnits
    BY <2>1 DEF Arrive
  <2> QED
    BY <2>2 DEF TypeOK, Arrive, pollVars
<1>2. ThreadsAt' /\ LocksHeld' /\ HandsHold' /\ StopStands' /\ SocketsHave'
  BY DEF ThreadsAt, LocksHeld, InExecute, HandsHold, StopStands, SocketsHave, Arrive, pollVars
<1>3. Apart' /\ ListedOnce' /\ Awaited'
  BY RequestsStay DEF Arrive, pollVars
<1> QED
  BY <1>1, <1>2, <1>3

LEMMA SockStep ==
  ASSUME ReactorInv, NEW s \in Sock, NEW f \in Fd, LemonSock("user", s, f)
  PROVE  ReactorInv'
<1> USE DEF ReactorInv
<1>1. TypeOK'
  BY DEF TypeOK, LemonSock, pollVars
<1>2. ThreadsAt' /\ LocksHeld' /\ HandsHold' /\ StopStands'
  BY DEF ThreadsAt, LocksHeld, InExecute, HandsHold, StopStands, LemonSock, pollVars
<1>3. SocketsHave'
  BY DEF SocketsHave, LemonSock, TypeOK
<1>4. Apart' /\ ListedOnce' /\ Awaited'
  BY RequestsStay DEF LemonSock, pollVars
<1> QED
  BY <1>1, <1>2, <1>3, <1>4

LEMMA CloseSocketStep ==
  ASSUME ReactorInv, NEW t \in Threads, NEW s \in Sock, CloseSocket(t, s)
  PROVE  ReactorInv'
<1> USE DEF ReactorInv
<1>1. sock[s].fd \in Fd /\ (t = "poll" => pc[t] = "full")
  BY DEF CloseSocket, SocketsHave, Calls, Idle
<1>2. TypeOK'
  <2>1. sock' \in [Sock -> [state : {"none", "open", "freed"}, fd : Fd \cup {None}]]
    <3> DEFINE R == [state : {"none", "open", "freed"}, fd : Fd \cup {None}]
    <3>1. sock \in [Sock -> R]
      BY DEF TypeOK
    <3>2. sock[s] \in R
      BY <3>1
    <3>3. [sock[s] EXCEPT !.state = "freed"] \in R
      BY <3>2
    <3>4. sock' = [sock EXCEPT ![s] = [sock[s] EXCEPT !.state = "freed"]]
      BY DEF CloseSocket
    <3> HIDE DEF R
    <3>5. sock' \in [Sock -> R]
      BY <3>1, <3>3, <3>4
    <3> QED
      BY <3>5 DEF R
  <2>2. ready' \in [Sock -> [Dir -> Nat]]
    BY DEF TypeOK, CloseSocket
  <2>3. closing' \in [Threads -> Fd \cup {None}]
    BY <1>1 DEF TypeOK, CloseSocket
  <2>4. pc' \in [Threads -> {"idle", "get", "callback", "insert", "complete", "full",
                        "fullInsert", "fullComplete", "fullClose", "fullJoin",
                        "closeTable", "join", "events", "exec", "exited", "crashed"}]
    BY DEF TypeOK, CloseSocket, WaitIn, Goto
  <2> QED
    BY <2>1, <2>2, <2>3, <2>4 DEF TypeOK, CloseSocket, pollVars
<1>3. ThreadsAt' /\ LocksHeld' /\ StopStands'
  BY <1>1 DEF TypeOK, ThreadsAt, LocksHeld, InExecute, StopStands, CloseSocket, pollVars, WaitIn, Goto,
     Calls, Idle, Threads, PollAt, CallerAt, Full
<1>4. HandsHold'
  BY <1>1 DEF TypeOK, HandsHold, InExecute, CloseSocket, pollVars, WaitIn, Goto, Calls, Idle,
     Threads, Full
<1>5. SocketsHave'
  BY DEF SocketsHave, CloseSocket, TypeOK
<1>6. Apart' /\ ListedOnce' /\ Awaited'
  BY RequestsStay DEF CloseSocket, pollVars
<1> QED
  BY <1>2, <1>3, <1>4, <1>5, <1>6

LEMMA PollStep ==
  ASSUME ReactorInv, Poll
  PROVE  ReactorInv'
<1> USE DEF ReactorInv
<1>1. TypeOK'
  BY DEF TypeOK, Poll, Goto, Threads, kernel
<1>2. ThreadsAt' /\ LocksHeld' /\ HandsHold' /\ StopStands' /\ SocketsHave'
  BY DEF TypeOK, ThreadsAt, LocksHeld, InExecute, HandsHold, StopStands, SocketsHave, Poll, Goto,
     Threads, PollAt, CallerAt, Full, kernel
<1>3. Apart' /\ ListedOnce' /\ Awaited'
  BY RequestsStay DEF Poll
<1> QED
  BY <1>1, <1>2, <1>3

LEMMA ExecuteEndStep ==
  ASSUME ReactorInv, ExecuteEnd
  PROVE  ReactorInv'
<1> USE DEF ReactorInv
<1>1. TypeOK'
  BY DEF TypeOK, ExecuteEnd, Goto, Threads, kernel
<1>2. ThreadsAt' /\ LocksHeld' /\ HandsHold' /\ StopStands' /\ SocketsHave'
  BY NoneIsNoRequest
  DEF TypeOK, ThreadsAt, LocksHeld, InExecute, HandsHold, StopStands, SocketsHave, ExecuteEnd,
      Goto, Threads, PollAt, CallerAt, Full, kernel
<1>3. Apart' /\ ListedOnce' /\ Awaited'
  BY RequestsStay DEF ExecuteEnd, TypeOK
<1> QED
  BY <1>1, <1>2, <1>3

LEMMA DispatchStep ==
  ASSUME ReactorInv, Dispatch \/ CallbackReturns
  PROVE  ReactorInv'
<1> USE DEF ReactorInv
<1>1. TypeOK'
  BY DEF TypeOK, Dispatch, CallbackReturns, DispatchAgain, Goto, Threads, kernel, pollVars
<1>2. ThreadsAt' /\ LocksHeld' /\ HandsHold' /\ StopStands' /\ SocketsHave'
  BY DEF TypeOK, ThreadsAt, LocksHeld, InExecute, HandsHold, StopStands, SocketsHave, Dispatch,
     CallbackReturns, DispatchAgain, Goto, Threads, PollAt, CallerAt, Full, kernel, pollVars
<1>3. Apart' /\ ListedOnce' /\ Awaited'
  BY RequestsStay DEF Dispatch, CallbackReturns, pollVars
<1> QED
  BY <1>1, <1>2, <1>3

LEMMA StopStep ==
  ASSUME ReactorInv, StopIOService \/ StopJoined \/ ResetIOService
  PROVE  ReactorInv'
<1> USE DEF ReactorInv
<1>1. TypeOK'
  <2>1. CASE StopIOService
    BY <2>1 DEF TypeOK, StopIOService, WaitIn, Goto, Threads, kernel, pollVars
  <2>2. CASE StopJoined
    BY <2>2 DEF TypeOK, StopJoined, Goto, Threads, kernel, pollVars
  <2>3. CASE ResetIOService
    BY <2>3 DEF TypeOK, ResetIOService, Goto, Threads, kernel, pollVars
  <2> QED
    BY <2>1, <2>2, <2>3
<1>2. ThreadsAt' /\ LocksHeld' /\ HandsHold' /\ StopStands' /\ SocketsHave'
  BY DEF TypeOK, ThreadsAt, LocksHeld, InExecute, HandsHold, StopStands, SocketsHave,
     StopIOService, StopJoined, ResetIOService, Calls, Idle, WaitIn, Goto, Threads, PollAt, CallerAt, Full, kernel,
     pollVars
<1>3. Apart' /\ ListedOnce' /\ Awaited'
  BY RequestsStay DEF StopIOService, StopJoined, ResetIOService, pollVars
<1> QED
  BY <1>1, <1>2, <1>3

LEMMA StutterStep ==
  ASSUME ReactorInv, UNCHANGED vars
  PROVE  ReactorInv'
<1> USE DEF ReactorInv
<1>1. TypeOK' /\ ThreadsAt' /\ LocksHeld' /\ HandsHold' /\ StopStands' /\ SocketsHave'
  BY DEF TypeOK, ThreadsAt, LocksHeld, InExecute, HandsHold, StopStands, SocketsHave, vars
<1>2. Apart' /\ ListedOnce' /\ Awaited'
  BY RequestsStay DEF vars
<1> QED
  BY <1>1, <1>2

-----------------------------------------------------------------------------
(* The list of a descriptor is dropped. *)
LEMMA DropFacts ==
  ASSUME TypeOK, ListedOnce, NEW f \in Fd, DropIRPs(f)
  PROVE  /\ ready' \in [Sock -> [Dir -> Nat]]
         /\ outcome' = [r \in Req |-> IF r \in Tabled[f] THEN "dropped" ELSE outcome[r]]
         /\ outcome' \in [Req -> {"idle", "pending", "refused", "called", "dropped"}]
         /\ Tabled' = [Tabled EXCEPT ![f] = {}]
         /\ \A g \in Fd : Distinct(irps'[g])
         /\ irps' \in [Fd -> Seq(Req)]
<1>1. ready \in [Sock -> [Dir -> Nat]] /\ Tabled[f] = Members(irps[f])
  BY DEF TypeOK, Tabled
<1>2. irps' = [irps EXCEPT ![f] = <<>>]
  BY DEF DropIRPs
<1>3. Members(irps[f]) \subseteq Req
  BY DEF Members, TypeOK
<1>4. IsFiniteSet(Req)
  BY ReactorAssumption, FS_Interval DEF ReactorAssumption, Req
<1>5. \A S \in SUBSET Members(irps[f]) : Cardinality(S) \in Nat
  BY <1>3, <1>4, FS_Subset, FS_CardinalityType
<1>6. ready' \in [Sock -> [Dir -> Nat]]
  <2>1. CASE ready' = ready
    BY <1>1, <2>1
  <2>2. ASSUME NEW s \in OpenOn(f), NEW done \in SUBSET Members(irps[f]),
               \A d \in Dir :
                 Cardinality(done \cap {r \in Members(irps[f]) : DirOf(r) = d}) <= ready[s][d],
               ready' = [ready EXCEPT ![s] = [d \in Dir |-> @[d] -
                 Cardinality(done \cap {r \in Members(irps[f]) : DirOf(r) = d})]]
        PROVE  ready' \in [Sock -> [Dir -> Nat]]
    <3>1. s \in Sock
      BY DEF OpenOn
    <3>2. \A d \in Dir :
            ready[s][d] - Cardinality(done \cap {r \in Members(irps[f]) : DirOf(r) = d}) \in Nat
      <4> TAKE d \in Dir
      <4> DEFINE n == Cardinality(done \cap {r \in Members(irps[f]) : DirOf(r) = d})
      <4>1. n \in Nat
        BY <1>5
      <4>2. n <= ready[s][d] /\ ready[s][d] \in Nat
        BY <1>1, <2>2, <3>1
      <4> HIDE DEF n
      <4>3. ready[s][d] - n \in Nat
        BY <4>1, <4>2
      <4> QED
        BY <4>3 DEF n
    <3> QED
      BY <1>1, <2>2, <3>1, <3>2
  <2> QED
    BY <2>1, <2>2 DEF DropIRPs
<1>7. outcome' = [r \in Req |-> IF r \in Tabled[f] THEN "dropped" ELSE outcome[r]]
  BY <1>1 DEF DropIRPs
<1>8. outcome' \in [Req -> {"idle", "pending", "refused", "called", "dropped"}]
  BY <1>7 DEF TypeOK
<1> QED
  BY <1>2, <1>6, <1>7, <1>8, EmptyTable

LEMMA DropRequests ==
  ASSUME TypeOK, Apart, ListedOnce, Awaited, NEW f \in Fd, DropIRPs(f),
         cur' = cur, inner' = inner, batch' = batch, q' = q
  PROVE  /\ Apart' /\ ListedOnce' /\ Awaited'
         /\ \A r \in Req : outcome'[r] # "idle" => outcome[r] # "idle"
<1>1. /\ outcome' = [r \in Req |-> IF r \in Tabled[f] THEN "dropped" ELSE outcome[r]]
      /\ Tabled' = [Tabled EXCEPT ![f] = {}]
      /\ \A g \in Fd : Distinct(irps'[g])
  BY DropFacts
<1>2. Batched' = Batched /\ Queued' = Queued
  BY DEF Batched, Queued, Members
<1>3. Tabled'[f] = {} /\ \A g \in Fd : g # f => Tabled'[g] = Tabled[g]
  BY <1>1 DEF Tabled
<1>4. Apart'
  BY <1>2, <1>3 DEF Apart
<1>5. ListedOnce'
  BY <1>1 DEF ListedOnce, Distinct
<1>6. Awaited'
  <2> SUFFICES ASSUME NEW r \in Req PROVE outcome'[r] = "pending" <=> Somewhere(r)'
    BY DEF Awaited
  <2>1. CASE r \in Tabled[f]
    <3>1. r # None /\ outcome'[r] = "dropped"
      BY <1>1, <2>1, NoneIsNoRequest
    <3>2. ~Somewhere(r)'
      BY <1>2, <1>3, <2>1, <3>1 DEF Apart, Somewhere
    <3> QED
      BY <3>1, <3>2
  <2>2. CASE r \notin Tabled[f]
    <3>1. outcome'[r] = outcome[r]
      BY <1>1, <2>2
    <3>2. Somewhere(r)' <=> Somewhere(r)
      BY <1>2, <1>3, <2>2 DEF Somewhere
    <3> QED
      BY <3>1, <3>2 DEF Awaited
  <2> QED
    BY <2>1, <2>2
<1>7. ASSUME NEW r \in Req, outcome'[r] # "idle" PROVE outcome[r] # "idle"
  BY <1>1, <1>7 DEF Awaited, Somewhere
<1> QED
  BY <1>4, <1>5, <1>6, <1>7

LEMMA CloseTableStep ==
  ASSUME ReactorInv, NEW t \in Threads, CloseTable(t)
  PROVE  ReactorInv'
<1> USE DEF ReactorInv
<1>1. closing[t] \in Fd /\ (t = "poll" => pc[t] = "fullClose")
  BY DEF CloseTable, HandsHold, ThreadsAt, PollAt, Full
<1>2. DropIRPs(closing[t])
  BY DEF CloseTable
<1>3. TypeOK'
  <2>1. /\ ready' \in [Sock -> [Dir -> Nat]] /\ irps' \in [Fd -> Seq(Req)]
        /\ outcome' \in [Req -> {"idle", "pending", "refused", "called", "dropped"}]
    BY <1>1, <1>2, DropFacts
  <2> QED
    BY <2>1 DEF TypeOK, CloseTable, Goto, Home, Threads, pollVars
<1>4. ThreadsAt' /\ LocksHeld' /\ HandsHold' /\ StopStands'
  BY <1>1 DEF TypeOK, ThreadsAt, LocksHeld, InExecute, HandsHold, StopStands, CloseTable, Goto,
     Home, Threads, PollAt, CallerAt, Full, pollVars
<1>5. SocketsHave'
  BY <1>1, <1>2, DropRequests DEF SocketsHave, CloseTable, pollVars
<1>6. Apart' /\ ListedOnce' /\ Awaited'
  BY <1>1, <1>2, DropRequests DEF CloseTable, pollVars
<1> QED
  BY <1>3, <1>4, <1>5, <1>6

LEMMA CancelStep ==
  ASSUME ReactorInv, NEW t \in Threads, NEW s \in Sock, LemonCancelIO(t, s)
  PROVE  ReactorInv'
<1> USE DEF ReactorInv
<1>1. sock[s].fd \in Fd /\ (t = "poll" => pc[t] = "full")
  BY DEF LemonCancelIO, SocketsHave, Calls, Idle
<1>2. TypeOK'
  <2>1. closing' \in [Threads -> Fd \cup {None}]
    BY <1>1 DEF TypeOK, LemonCancelIO
  <2>2. pc' \in [Threads -> {"idle", "get", "callback", "insert", "complete", "full",
                        "fullInsert", "fullComplete", "fullClose", "fullJoin",
                        "closeTable", "join", "events", "exec", "exited", "crashed"}]
    BY DEF TypeOK, LemonCancelIO, WaitIn, Goto
  <2> QED
    BY <2>1, <2>2 DEF TypeOK, LemonCancelIO, kernel, pollVars
<1>3. ThreadsAt' /\ LocksHeld' /\ StopStands'
  BY <1>1 DEF TypeOK, ThreadsAt, LocksHeld, InExecute, StopStands, LemonCancelIO, kernel,
     pollVars, WaitIn, Goto, Calls, Idle, Threads, PollAt, CallerAt, Full
<1>4. HandsHold'
  BY <1>1 DEF TypeOK, HandsHold, InExecute, LemonCancelIO, kernel, pollVars, WaitIn, Goto,
     Calls, Idle, Threads, Full
<1>5. SocketsHave'
  BY DEF SocketsHave, LemonCancelIO, kernel
<1>6. Apart' /\ ListedOnce' /\ Awaited'
  BY RequestsStay DEF LemonCancelIO, pollVars
<1> QED
  BY <1>2, <1>3, <1>4, <1>5, <1>6

-----------------------------------------------------------------------------
(* A request is submitted. *)
LEMMA RefusedRequests ==
  ASSUME TypeOK, Apart, ListedOnce, Awaited, NEW r \in Req, outcome[r] = "idle",
         outcome' = [outcome EXCEPT ![r] = "refused"],
         cur' = cur, inner' = inner, batch' = batch, q' = q, irps' = irps
  PROVE  Apart' /\ ListedOnce' /\ Awaited'
<1>1. Batched' = Batched /\ Queued' = Queued /\ Tabled' = Tabled
  BY DEF Batched, Queued, Tabled, Members
<1>2. Apart' /\ ListedOnce'
  BY <1>1 DEF Apart, ListedOnce, Distinct
<1>3. Awaited'
  BY <1>1 DEF Awaited, Somewhere, TypeOK
<1> QED
  BY <1>2, <1>3

LEMMA AsyncRequests ==
  ASSUME TypeOK, Apart, ListedOnce, Awaited, NEW r \in Req, NEW t \in Threads,
         outcome[r] = "idle", outcome' = [outcome EXCEPT ![r] = "pending"],
         batch' = batch, q' = q, irps' = irps,
         \/ cur[t] = None /\ cur' = [cur EXCEPT ![t] = r] /\ inner' = inner
         \/ inner[t] = None /\ inner' = [inner EXCEPT ![t] = r] /\ cur' = cur
  PROVE  Apart' /\ ListedOnce' /\ Awaited'
<1>1. Batched' = Batched /\ Queued' = Queued /\ Tabled' = Tabled
  BY DEF Batched, Queued, Tabled, Members
<1>2. /\ \A u \in Threads : cur[u] # r /\ inner[u] # r
      /\ r \notin Batched /\ r \notin Queued /\ \A f \in Fd : r \notin Tabled[f]
  BY IdleIsNowhere
<1>3. cur \in [Threads -> Req \cup {None}] /\ inner \in [Threads -> Req \cup {None}]
  BY DEF TypeOK
<1>4. Apart'
  BY <1>1, <1>2, <1>3 DEF Apart
<1>5. ListedOnce'
  BY DEF ListedOnce, Distinct
<1>6. Awaited'
  <2> SUFFICES ASSUME NEW p \in Req PROVE outcome'[p] = "pending" <=> Somewhere(p)'
    BY DEF Awaited
  <2>1. CASE p = r
    <3>1. outcome'[r] = "pending"
      BY DEF TypeOK
    <3>2. Somewhere(r)'
      BY <1>3 DEF Somewhere
    <3> QED
      BY <2>1, <3>1, <3>2
  <2>2. CASE p # r
    <3>1. outcome'[p] = outcome[p]
      BY <2>2 DEF TypeOK
    <3>2. Somewhere(p)' <=> Somewhere(p)
      BY <1>1, <1>3, <2>2, NoneIsNoRequest DEF Somewhere
    <3> QED
      BY <3>1, <3>2 DEF Awaited
  <2> QED
    BY <2>1, <2>2
<1> QED
  BY <1>4, <1>5, <1>6

LEMMA AsyncStep ==
  ASSUME ReactorInv, NEW t \in Threads, NEW r \in Req, NEW s \in Sock, Async(t, r, s)
  PROVE  ReactorInv'
<1> USE DEF ReactorInv
<1>1. /\ DirOf(r) \in Dir /\ t # "poll" /\ cur[t] = None /\ pc[t] \in {"idle", "callback"}
      /\ outcome[r] = "idle" /\ sock[s].state = "open" /\ irp' = [irp EXCEPT ![r] = s]
  BY DEF Async, Ask, Idle, HandsHold, DirOf, Dir, Full
<1>2. ready' \in [Sock -> [Dir -> Nat]] /\ errors' \in 0 .. MaxErrors
  BY <1>1, CallTypes DEF Async
<1>3. \/ /\ pc' = pc /\ cur' = cur /\ outcome' = [outcome EXCEPT ![r] = "refused"]
      \/ /\ cur' = [cur EXCEPT ![t] = r] /\ outcome' = [outcome EXCEPT ![r] = "pending"]
         /\ pc' = [pc EXCEPT ![t] = "complete"] \/ pc' = [pc EXCEPT ![t] = "insert"]
  BY DEF Async, Goto
<1>4. UNCHANGED <<sock, irps, q, tableLock, qLock, status, inner, batch, events, pollErr, closing,
                  units>>
  BY DEF Async, pollVars
<1>5. TypeOK'
  <2>1. pc' \in [Threads -> {"idle", "get", "callback", "insert", "complete", "full",
                        "fullInsert", "fullComplete", "fullClose", "fullJoin",
                        "closeTable", "join", "events", "exec", "exited", "crashed"}]
    BY <1>1, <1>3 DEF TypeOK
  <2>2. cur' \in [Threads -> Req \cup {None}]
    <3>1. cur' = cur \/ cur' = [cur EXCEPT ![t] = r]
      BY <1>3
    <3> QED
      BY <3>1 DEF TypeOK
  <2>3. irp' \in [Req -> Sock \cup {None}]
    BY <1>1 DEF TypeOK
  <2>4. outcome' \in [Req -> {"idle", "pending", "refused", "called", "dropped"}]
    BY <1>1, <1>3 DEF TypeOK
  <2> QED
    BY <1>2, <1>4, <2>1, <2>2, <2>3, <2>4 DEF TypeOK
<1>6. ThreadsAt' /\ StopStands'
  BY <1>1, <1>3, <1>4 DEF TypeOK, ThreadsAt, StopStands, Threads, PollAt, CallerAt, Full
<1>7. LocksHeld'
  BY <1>1, <1>3, <1>4 DEF TypeOK, LocksHeld, InExecute, Threads, Full
<1>8. HandsHold'
  BY <1>1, <1>3, <1>4, NoneIsNoRequest DEF TypeOK, HandsHold, InExecute, Threads, Full
<1>9. SocketsHave'
  BY <1>1, <1>3, <1>4 DEF SocketsHave, TypeOK
<1>10. Apart' /\ ListedOnce' /\ Awaited'
  BY <1>1, <1>3, <1>4, RefusedRequests, AsyncRequests
<1> QED
  BY <1>5, <1>6, <1>7, <1>8, <1>9, <1>10

LEMMA FullAsyncStep ==
  ASSUME ReactorInv, NEW t \in Threads, NEW r \in Req, NEW s \in Sock, FullAsync(t, r, s)
  PROVE  ReactorInv'
<1> USE DEF ReactorInv
<1>1. /\ DirOf(r) \in Dir /\ inner[t] = None /\ pc[t] = "full"
      /\ outcome[r] = "idle" /\ sock[s].state = "open" /\ irp' = [irp EXCEPT ![r] = s]
  BY DEF FullAsync, Ask, HandsHold, DirOf, Dir
<1>2. ready' \in [Sock -> [Dir -> Nat]] /\ errors' \in 0 .. MaxErrors
  BY <1>1, CallTypes DEF FullAsync
<1>3. \/ /\ pc' = pc /\ inner' = inner /\ outcome' = [outcome EXCEPT ![r] = "refused"]
      \/ /\ inner' = [inner EXCEPT ![t] = r] /\ outcome' = [outcome EXCEPT ![r] = "pending"]
         /\ pc' = [pc EXCEPT ![t] = "fullComplete"] \/ pc' = [pc EXCEPT ![t] = "fullInsert"]
  BY DEF FullAsync, Goto
<1>4. UNCHANGED <<sock, irps, q, tableLock, qLock, status, cur, batch, events, pollErr, closing,
                  units>>
  BY DEF FullAsync, pollVars
<1>5. TypeOK'
  <2>1. pc' \in [Threads -> {"idle", "get", "callback", "insert", "complete", "full",
                        "fullInsert", "fullComplete", "fullClose", "fullJoin",
                        "closeTable", "join", "events", "exec", "exited", "crashed"}]
    BY <1>1, <1>3 DEF TypeOK
  <2>2. inner' \in [Threads -> Req \cup {None}]
    <3>1. inner' = inner \/ inner' = [inner EXCEPT ![t] = r]
      BY <1>3
    <3> QED
      BY <3>1 DEF TypeOK
  <2>3. irp' \in [Req -> Sock \cup {None}]
    BY <1>1 DEF TypeOK
  <2>4. outcome' \in [Req -> {"idle", "pending", "refused", "called", "dropped"}]
    <3>1. \E x \in {"refused", "pending"} : outcome' = [outcome EXCEPT ![r] = x]
      BY <1>3
    <3> QED
      BY <3>1 DEF TypeOK
  <2> QED
    BY <1>2, <1>4, <2>1, <2>2, <2>3, <2>4 DEF TypeOK
<1>6. ThreadsAt' /\ StopStands'
  BY <1>1, <1>3, <1>4 DEF TypeOK, ThreadsAt, StopStands, Threads, PollAt, CallerAt, Full
<1>7. LocksHeld'
  BY <1>1, <1>3, <1>4 DEF TypeOK, LocksHeld, InExecute, Threads, Full
<1>8. HandsHold'
  BY <1>1, <1>3, <1>4, NoneIsNoRequest DEF TypeOK, HandsHold, InExecute, Threads, Full
<1>9. SocketsHave'
  BY <1>1, <1>3, <1>4 DEF SocketsHave, TypeOK
<1>10. Apart' /\ ListedOnce' /\ Awaited'
  BY <1>1, <1>3, <1>4, RefusedRequests, AsyncRequests
<1> QED
  BY <1>5, <1>6, <1>7, <1>8, <1>9, <1>10

-----------------------------------------------------------------------------
(* A request goes from a hand to the table or to the queue. *)
LEMMA HandFacts ==
  ASSUME ReactorInv, NEW t \in Threads, NEW r \in {cur[t], inner[t]}, r # None
  PROVE  /\ r \in Req /\ outcome[r] = "pending"
         /\ irp[r] \in Sock /\ sock[irp[r]].fd \in Fd
         /\ r \notin Batched /\ r \notin Queued /\ \A f \in Fd : r \notin Tabled[f]
<1>1. r \in Req
  BY DEF ReactorInv, TypeOK
<1>2. outcome[r] = "pending"
  BY <1>1 DEF ReactorInv, Awaited, Somewhere
<1> QED
  BY <1>1, <1>2 DEF ReactorInv, SocketsHave, Apart

LEMMA PushRequests ==
  ASSUME ReactorInv, NEW t \in Threads, NEW r \in Req, NEW f \in Fd,
         irps' = [irps EXCEPT ![f] = Append(@, r)], batch' = batch, q' = q, outcome' = outcome,
         \/ cur[t] = r /\ cur' = [cur EXCEPT ![t] = None] /\ inner' = inner
         \/ inner[t] = r /\ inner' = [inner EXCEPT ![t] = None] /\ cur' = cur
  PROVE  Apart' /\ ListedOnce' /\ Awaited' /\ irps' \in [Fd -> Seq(Req)]
<1> USE DEF ReactorInv
<1>1. r \notin Batched /\ r \notin Queued /\ \A g \in Fd : r \notin Tabled[g]
  BY HandFacts, NoneIsNoRequest
<1>2. /\ Tabled' = [Tabled EXCEPT ![f] = @ \cup {r}] /\ \A g \in Fd : Distinct(irps'[g])
      /\ irps' \in [Fd -> Seq(Req)]
  BY <1>1, PushTable
<1>3. Tabled'[f] = Tabled[f] \cup {r} /\ \A g \in Fd : g # f => Tabled'[g] = Tabled[g]
  BY <1>2 DEF Tabled
<1>4. Batched' = Batched /\ Queued' = Queued
  BY DEF Batched, Queued, Members
<1>5. cur \in [Threads -> Req \cup {None}] /\ inner \in [Threads -> Req \cup {None}]
  BY DEF TypeOK
<1>6. \A u \in Threads : cur'[u] # r /\ inner'[u] # r
  BY <1>5, NoneIsNoRequest DEF Apart
<1>7. \A u \in Threads : cur'[u] \in {cur[u], None} /\ inner'[u] \in {inner[u], None}
  BY <1>5
<1>8. Apart'
  BY <1>1, <1>3, <1>4, <1>6, <1>7 DEF Apart
<1>9. ListedOnce'
  BY <1>2 DEF ListedOnce, Distinct
<1>10. Awaited'
  <2> SUFFICES ASSUME NEW p \in Req PROVE Somewhere(p)' <=> Somewhere(p)
    BY DEF Awaited
  <2>1. CASE p = r
    BY <1>3, <2>1 DEF Somewhere
  <2>2. CASE p # r
    BY <1>3, <1>4, <1>5, <2>2, NoneIsNoRequest DEF Somewhere
  <2> QED
    BY <2>1, <2>2
<1> QED
  BY <1>2, <1>8, <1>9, <1>10

LEMMA InsertStep ==
  ASSUME ReactorInv, NEW t \in Threads, InsertIRP(t)
  PROVE  ReactorInv'
<1> USE DEF ReactorInv
<1>1. cur[t] # None /\ t # "poll"
  BY DEF InsertIRP, HandsHold, ThreadsAt, PollAt, Full
<1>2. cur[t] \in Req /\ sock[irp[cur[t]]].fd \in Fd
  BY <1>1, HandFacts
<1>3. Apart' /\ ListedOnce' /\ Awaited' /\ irps' \in [Fd -> Seq(Req)]
  BY <1>2, PushRequests DEF InsertIRP, Push, pollVars
<1>4. TypeOK'
  BY <1>3 DEF TypeOK, InsertIRP, Goto, Home, Threads, kernel, pollVars
<1>5. ThreadsAt' /\ LocksHeld' /\ HandsHold' /\ StopStands' /\ SocketsHave'
  BY <1>1 DEF TypeOK, ThreadsAt, LocksHeld, InExecute, HandsHold, StopStands, SocketsHave, InsertIRP,
     Goto, Home, Threads, PollAt, CallerAt, Full, kernel, pollVars
<1> QED
  BY <1>3, <1>4, <1>5

LEMMA FullInsertStep ==
  ASSUME ReactorInv, NEW t \in Threads, FullInsert(t)
  PROVE  ReactorInv'
<1> USE DEF ReactorInv
<1>1. inner[t] # None
  BY DEF FullInsert, HandsHold
<1>2. inner[t] \in Req /\ sock[irp[inner[t]]].fd \in Fd
  BY <1>1, HandFacts
<1>3. Apart' /\ ListedOnce' /\ Awaited' /\ irps' \in [Fd -> Seq(Req)]
  BY <1>2, PushRequests DEF FullInsert, Push, pollVars
<1>4. TypeOK'
  BY <1>3 DEF TypeOK, FullInsert, Goto, Threads, kernel, pollVars
<1>5. ThreadsAt' /\ LocksHeld' /\ HandsHold' /\ StopStands' /\ SocketsHave'
  BY DEF TypeOK, ThreadsAt, LocksHeld, InExecute, HandsHold, StopStands, SocketsHave, FullInsert,
     Goto, Threads, PollAt, CallerAt, Full, kernel, pollVars
<1> QED
  BY <1>3, <1>4, <1>5

LEMMA QueueRequests ==
  ASSUME ReactorInv, NEW t \in Threads, cur[t] # None, q' = Append(q, NewEntry(t)),
         cur' = [cur EXCEPT ![t] = None], inner' = inner, batch' = batch, irps' = irps,
         outcome' = outcome
  PROVE  /\ Apart' /\ ListedOnce' /\ Awaited'
         /\ q' \in Seq(Entry) /\ Len(q') = Len(q) + 1 /\ Len(q) \in Nat
<1> USE DEF ReactorInv
<1> DEFINE r == cur[t]
<1>1. r \in Req /\ r \notin Batched /\ r \notin Queued /\ \A g \in Fd : r \notin Tabled[g]
  BY HandFacts
<1>2. NewEntry(t) \in Entry /\ NewEntry(t).req = r
  BY <1>1 DEF NewEntry, Entry, TypeOK
<1>3. /\ Queued' = Queued \cup {r} /\ \A i, j \in DOMAIN q' : q'[i].req = q'[j].req => i = j
      /\ q' \in Seq(Entry) /\ Len(q') = Len(q) + 1 /\ Len(q) \in Nat
  BY <1>1, <1>2, AppendEntry
<1>4. Batched' = Batched /\ Tabled' = Tabled
  BY DEF Batched, Tabled, Members
<1>5. cur \in [Threads -> Req \cup {None}] /\ inner \in [Threads -> Req \cup {None}]
  BY DEF TypeOK
<1> HIDE DEF r
<1>6. r = cur[t] /\ r # None
  BY DEF r
<1>7. \A u \in Threads : cur'[u] # r /\ inner'[u] # r
  BY <1>5, <1>6, NoneIsNoRequest DEF Apart
<1>8. \A u \in Threads : cur'[u] \in {cur[u], None} /\ inner'[u] = inner[u]
  BY <1>5
<1>9. Apart'
  BY <1>1, <1>3, <1>4, <1>7, <1>8 DEF Apart
<1>10. ListedOnce'
  BY <1>3 DEF ListedOnce, Distinct
<1>11. Awaited'
  <2> SUFFICES ASSUME NEW p \in Req PROVE Somewhere(p)' <=> Somewhere(p)
    BY DEF Awaited
  <2>1. CASE p = r
    BY <1>3, <1>6, <2>1 DEF Somewhere
  <2>2. CASE p # r
    BY <1>3, <1>4, <1>5, <1>6, <2>2, NoneIsNoRequest DEF Somewhere
  <2> QED
    BY <2>1, <2>2
<1> QED
  BY <1>3, <1>9, <1>10, <1>11

(* The oldest entry leaves the queue, with its callback or without. *)
LEMMA TakeRequests ==
  ASSUME ReactorInv, q # <<>>, q' = Tail(q), NEW o \in {"called", "dropped"},
         outcome' = [outcome EXCEPT ![Head(q).req] = o],
         cur' = cur, inner' = inner, batch' = batch, irps' = irps
  PROVE  /\ Apart' /\ ListedOnce' /\ Awaited'
         /\ q' \in Seq(Entry) /\ Len(q') = Len(q) - 1 /\ Len(q) \in Nat
         /\ outcome' \in [Req -> {"idle", "pending", "refused", "called", "dropped"}]
         /\ \A r \in Req : outcome'[r] # "idle" => outcome[r] # "idle"
<1> USE DEF ReactorInv
<1> DEFINE h == Head(q).req
<1>1. /\ Head(q) \in Entry /\ h \in Queued /\ Queued' = Queued \ {h}
      /\ \A i, j \in DOMAIN q' : q'[i].req = q'[j].req => i = j
      /\ q' \in Seq(Entry) /\ Len(q') = Len(q) - 1 /\ Len(q) \in Nat
  BY TailEntry
<1>2. h \in Req
  BY <1>1 DEF Entry
<1>3. Batched' = Batched /\ Tabled' = Tabled
  BY DEF Batched, Tabled, Members
<1> HIDE DEF h
<1>4. outcome' = [outcome EXCEPT ![h] = o]
  BY DEF h
<1>5. outcome' \in [Req -> {"idle", "pending", "refused", "called", "dropped"}]
  BY <1>2, <1>4 DEF TypeOK
<1>6. Apart'
  BY <1>1, <1>3 DEF Apart
<1>7. ListedOnce'
  BY <1>1 DEF ListedOnce, Distinct
<1>8. outcome[h] = "pending"
  BY <1>1, <1>2 DEF Awaited, Somewhere
<1>9. outcome'[h] = o /\ \A p \in Req : p # h => outcome'[p] = outcome[p]
  BY <1>2, <1>4 DEF TypeOK
<1>10. Awaited'
  <2> SUFFICES ASSUME NEW p \in Req PROVE outcome'[p] = "pending" <=> Somewhere(p)'
    BY DEF Awaited
  <2>1. CASE p = h
    <3>1. ~Somewhere(p)'
      BY <1>1, <1>2, <1>3, <2>1, NoneIsNoRequest DEF Somewhere, Apart
    <3> QED
      BY <1>9, <2>1, <3>1
  <2>2. CASE p # h
    <3>1. Somewhere(p)' <=> Somewhere(p)
      BY <1>1, <1>3, <2>2 DEF Somewhere
    <3> QED
      BY <1>9, <2>2, <3>1 DEF Awaited
  <2> QED
    BY <2>1, <2>2
<1> QED
  BY <1>1, <1>5, <1>6, <1>7, <1>8, <1>9, <1>10

LEMMA CompleteStep ==
  ASSUME ReactorInv, NEW t \in Threads, CompleteIRP(t)
  PROVE  ReactorInv'
<1> USE DEF ReactorInv
<1>1. cur[t] # None /\ qLock = None /\ pc[t] = "complete" /\ t # None
  BY NoneIsNoRequest DEF CompleteIRP, HandsHold
<1>2. CASE HasRoom
  <2>1. /\ Apart' /\ ListedOnce' /\ Awaited'
        /\ q' \in Seq(Entry) /\ Len(q') = Len(q) + 1 /\ Len(q) \in Nat
    BY <1>1, <1>2, QueueRequests DEF CompleteIRP, pollVars
  <2>2. Len(q') <= QSize
    BY <1>2, <2>1, ReactorAssumption DEF HasRoom, ReactorAssumption
  <2>3. TypeOK'
    BY <1>2, <2>1, <2>2 DEF TypeOK, CompleteIRP, Goto, Home, Threads, kernel, pollVars
  <2>4. ThreadsAt' /\ LocksHeld' /\ HandsHold' /\ StopStands' /\ SocketsHave'
    BY <1>1, <1>2 DEF TypeOK, ThreadsAt, LocksHeld, InExecute, HandsHold, StopStands, SocketsHave,
       CompleteIRP, Goto, Home, Threads, PollAt, CallerAt, Full, kernel, pollVars
  <2> QED
    BY <2>1, <2>3, <2>4
<1>3. CASE ~HasRoom
  <2>1. q # <<>>
    <3>1. Len(<<>>) = 0
      OBVIOUS
    <3> QED
      BY <1>3, <3>1, ReactorAssumption DEF HasRoom, ReactorAssumption
  <2>2. /\ Apart' /\ ListedOnce' /\ Awaited'
        /\ q' \in Seq(Entry) /\ Len(q') = Len(q) - 1 /\ Len(q) \in Nat
        /\ outcome' \in [Req -> {"idle", "pending", "refused", "called", "dropped"}]
        /\ \A r \in Req : outcome'[r] # "idle" => outcome[r] # "idle"
    BY <1>3, <2>1, TakeRequests DEF CompleteIRP, pollVars
  <2>3. Len(q') < QSize /\ Len(q') <= QSize
    BY <2>2, ReactorAssumption DEF TypeOK, ReactorAssumption
  <2>4. TypeOK'
    BY <1>3, <2>2, <2>3 DEF TypeOK, CompleteIRP, Goto, Threads, kernel, pollVars
  <2>5. ThreadsAt' /\ LocksHeld' /\ HandsHold' /\ StopStands'
    BY <1>1, <1>3, <2>3, NoneIsNoRequest DEF TypeOK, ThreadsAt, LocksHeld, InExecute, HandsHold,
       StopStands, CompleteIRP, Goto, Threads, PollAt, CallerAt, Full, kernel, pollVars
  <2>6. SocketsHave'
    BY <2>2 DEF SocketsHave, CompleteIRP, kernel
  <2> QED
    BY <2>2, <2>4, <2>5, <2>6
<1> QED
  BY <1>2, <1>3

LEMMA CompleteFullStep ==
  ASSUME ReactorInv, NEW t \in Threads, CompleteFull(t)
  PROVE  ReactorInv'
<1> USE DEF ReactorInv
<1>1. cur[t] # None /\ qLock = t /\ pc[t] = "full" /\ t # None /\ inner[t] = None
  BY NoneIsNoRequest DEF CompleteFull, HandsHold, LocksHeld, Full
<1>2. /\ Apart' /\ ListedOnce' /\ Awaited'
      /\ q' \in Seq(Entry) /\ Len(q') = Len(q) + 1 /\ Len(q) \in Nat
  BY <1>1, QueueRequests DEF CompleteFull, pollVars
<1>3. Len(q') <= QSize
  BY <1>1, <1>2, ReactorAssumption DEF LocksHeld, ReactorAssumption
<1>4. TypeOK'
  BY <1>2, <1>3 DEF TypeOK, CompleteFull, UnlockQueue, Goto, Home, Threads, kernel, pollVars
<1>5. ThreadsAt' /\ LocksHeld' /\ HandsHold' /\ StopStands' /\ SocketsHave'
  BY <1>1, NoneIsNoRequest DEF TypeOK, ThreadsAt, LocksHeld, InExecute, HandsHold, StopStands,
     SocketsHave, CompleteFull, UnlockQueue, Goto, Home, Threads, PollAt, CallerAt, Full, kernel,
     pollVars
<1> QED
  BY <1>2, <1>4, <1>5

LEMMA GetStep ==
  ASSUME ReactorInv, GetCompletedIRP
  PROVE  ReactorInv'
<1> USE DEF ReactorInv
<1>1. pc["dispatch"] = "get" /\ qLock = None
  BY DEF GetCompletedIRP
<1>2. CASE q = <<>>
  <2>1. TypeOK'
    BY <1>2 DEF TypeOK, GetCompletedIRP, AwaitTimeout, DispatchAgain, Goto, Threads, kernel, pollVars
  <2>2. ThreadsAt' /\ LocksHeld' /\ HandsHold' /\ StopStands' /\ SocketsHave'
    BY <1>2 DEF TypeOK, ThreadsAt, LocksHeld, InExecute, HandsHold, StopStands, SocketsHave,
       GetCompletedIRP, AwaitTimeout, DispatchAgain, Goto, Threads, PollAt, CallerAt, Full, kernel,
       pollVars
  <2>3. Apart' /\ ListedOnce' /\ Awaited'
    BY <1>2, RequestsStay DEF GetCompletedIRP, pollVars
  <2> QED
    BY <2>1, <2>2, <2>3
<1>3. CASE q # <<>>
  <2>1. PICK o \in {"called", "dropped"}, l \in {"crashed", "callback"} :
          outcome' = [outcome EXCEPT ![Head(q).req] = o] /\ pc' = [pc EXCEPT !["dispatch"] = l]
    BY <1>3 DEF GetCompletedIRP, Goto
  <2>2. q' = Tail(q) /\ UNCHANGED <<kernel, irp, irps, tableLock, qLock, status, cur, inner,
                                    pollVars, closing>>
    BY <1>3 DEF GetCompletedIRP
  <2>3. /\ Apart' /\ ListedOnce' /\ Awaited'
        /\ q' \in Seq(Entry) /\ Len(q') = Len(q) - 1 /\ Len(q) \in Nat
        /\ outcome' \in [Req -> {"idle", "pending", "refused", "called", "dropped"}]
        /\ \A r \in Req : outcome'[r] # "idle" => outcome[r] # "idle"
    BY <1>3, <2>1, <2>2, TakeRequests DEF pollVars
  <2>4. Len(q') <= QSize
    BY <2>3, ReactorAssumption DEF TypeOK, ReactorAssumption
  <2>5. TypeOK'
    BY <2>1, <2>2, <2>3, <2>4 DEF TypeOK, Threads, kernel, pollVars
  <2>6. ThreadsAt' /\ LocksHeld' /\ HandsHold' /\ StopStands'
    BY <1>1, <2>1, <2>2 DEF TypeOK, ThreadsAt, LocksHeld, InExecute, HandsHold, StopStands,
       Threads, PollAt, CallerAt, Full, kernel, pollVars
  <2>7. SocketsHave'
    BY <2>2, <2>3 DEF SocketsHave, kernel
  <2> QED
    BY <2>3, <2>5, <2>6, <2>7
<1> QED
  BY <1>2, <1>3

-----------------------------------------------------------------------------
(* The poll thread takes a list, and tries its requests. *)
LEMMA TakeListStep ==
  ASSUME ReactorInv, NEW f \in Fd, ExecuteIRPs(f)
  PROVE  ReactorInv'
<1> USE DEF ReactorInv
<1>1. /\ pc["poll"] = "events" /\ tableLock = None /\ batch.list = <<>>
      /\ irps[f] \in Seq(Req) /\ batch' = [fd |-> f, list |-> irps[f]]
  BY DEF ExecuteIRPs, HandsHold, InExecute, Full, TypeOK
<1>2. /\ Tabled' = [Tabled EXCEPT ![f] = {}] /\ \A g \in Fd : Distinct(irps'[g])
      /\ irps' \in [Fd -> Seq(Req)]
  BY EmptyTable DEF ExecuteIRPs, TakeList
<1>3. Tabled'[f] = {} /\ \A g \in Fd : g # f => Tabled'[g] = Tabled[g]
  BY <1>2 DEF Tabled
<1>4. Batched = {} /\ Batched' = Tabled[f] /\ Queued' = Queued
  BY <1>1, EmptyList DEF Batched, Tabled, Queued, Members, ExecuteIRPs
<1>5. TypeOK'
  <2>1. batch' \in [fd : Fd \cup {None}, list : Seq(Req)]
    BY <1>1
  <2> QED
    BY <1>2, <2>1 DEF TypeOK, ExecuteIRPs, Goto, Threads, kernel
<1>6. ThreadsAt' /\ LocksHeld' /\ HandsHold' /\ StopStands' /\ SocketsHave'
  BY <1>1, NoneIsNoRequest DEF TypeOK, ThreadsAt, LocksHeld, InExecute, HandsHold, StopStands,
     SocketsHave, ExecuteIRPs, Goto, Threads, PollAt, CallerAt, Full, kernel
<1>7. Apart'
  BY <1>3, <1>4 DEF Apart, ExecuteIRPs
<1>8. ListedOnce'
  BY <1>1, <1>2 DEF ListedOnce, Distinct, ExecuteIRPs
<1>9. Awaited'
  <2>1. \A p \in Req : Somewhere(p)' <=> Somewhere(p)
    BY <1>3, <1>4 DEF Somewhere, ExecuteIRPs
  <2> QED
    BY <2>1 DEF Awaited, ExecuteIRPs
<1> QED
  BY <1>5, <1>6, <1>7, <1>8, <1>9

LEMMA ExecuteStep ==
  ASSUME ReactorInv, ExecuteIRP
  PROVE  ReactorInv'
<1> USE DEF ReactorInv
<1> DEFINE r == Head(batch.list)
           b == batch.fd
<1>1. /\ pc["poll"] = "exec" /\ batch.list # <<>> /\ batch.list \in Seq(Req)
      /\ cur["poll"] = None /\ b \in Fd /\ "poll" \in Threads
      /\ batch' = [batch EXCEPT !.list = Tail(@)]
  BY DEF ExecuteIRP, HandsHold, InExecute, TypeOK, Threads, Full
<1>2. /\ r \in Req /\ r \in Batched /\ Tail(batch.list) \in Seq(Req)
      /\ Distinct(Tail(batch.list)) /\ Members(Tail(batch.list)) = Batched \ {r}
  BY <1>1, TailRequest DEF Batched, ListedOnce
<1>3. /\ batch'.list = Tail(batch.list) /\ batch'.fd = b
      /\ batch' \in [fd : Fd \cup {None}, list : Seq(Req)]
  <2>1. batch = [fd |-> b, list |-> batch.list]
    BY DEF TypeOK
  <2>2. batch' = [fd |-> b, list |-> Tail(batch.list)]
    BY <1>1, <2>1
  <2> QED
    BY <1>1, <1>2, <2>2
<1>4. Batched' = Batched \ {r} /\ Queued' = Queued
  <2>1. Batched' = Members(Tail(batch.list))
    BY <1>3 DEF Batched, Members
  <2> QED
    BY <1>2, <2>1 DEF Queued, ExecuteIRP
<1>5. /\ r # None /\ r \notin Queued /\ \A g \in Fd : r \notin Tabled[g]
      /\ \A u \in Threads : cur[u] # r /\ inner[u] # r
  BY <1>2, NoneIsNoRequest DEF Apart
<1>6. ready' \in [Sock -> [Dir -> Nat]] /\ errors' \in 0 .. MaxErrors
  <2>1. DirOf(r) \in Dir
    BY DEF DirOf, Dir
  <2> HIDE DEF r
  <2>2. PICK f, c : CallDone(f, DirOf(r)) \/ CallFails(f, c) \/ CallBlocks(f, DirOf(r))
    BY DEF ExecuteIRP, r
  <2> QED
    BY <2>1, <2>2, CallTypes
<1>7. UNCHANGED <<sock, units, irp, outcome, q, tableLock, qLock, status, inner, events, closing>>
  BY DEF ExecuteIRP
<1>8. CASE /\ cur' = [cur EXCEPT !["poll"] = r] /\ pc' = [pc EXCEPT !["poll"] = "complete"]
           /\ irps' = irps /\ pollErr' \in BOOLEAN
  <2>1. Tabled' = Tabled
    BY <1>8 DEF Tabled, Members
  <2> HIDE DEF r, b
  <2>2. TypeOK'
    BY <1>2, <1>3, <1>6, <1>7, <1>8 DEF TypeOK
  <2>3. ThreadsAt' /\ LocksHeld' /\ HandsHold' /\ StopStands' /\ SocketsHave'
    BY <1>1, <1>3, <1>5, <1>7, <1>8, NoneIsNoRequest DEF TypeOK, ThreadsAt, LocksHeld, InExecute,
       HandsHold, StopStands, SocketsHave, Threads, PollAt, CallerAt, Full, b
  <2>4. cur' \in [Threads -> Req \cup {None}] /\ cur'["poll"] = r
        /\ \A u \in Threads : u # "poll" => cur'[u] = cur[u]
    BY <1>1, <1>2, <1>8 DEF TypeOK
  <2>5. Apart'
    BY <1>1, <1>4, <1>5, <1>7, <2>1, <2>4 DEF Apart
  <2>6. ListedOnce'
    BY <1>2, <1>3, <1>7, <1>8 DEF ListedOnce, Distinct
  <2>7. \A p \in Req : Somewhere(p)' <=> Somewhere(p)
    <3> TAKE p \in Req
    <3>1. CASE p = r
      BY <1>1, <1>2, <2>4, <3>1 DEF Somewhere
    <3>2. CASE p # r
      BY <1>1, <1>4, <1>7, <2>1, <2>4, <3>2, NoneIsNoRequest DEF Somewhere
    <3> QED
      BY <3>1, <3>2
  <2> QED
    BY <1>7, <2>2, <2>3, <2>5, <2>6, <2>7 DEF Awaited
<1>9. CASE /\ irps' = [irps EXCEPT ![b] = Append(@, r)] /\ pollErr' \in BOOLEAN
           /\ pc' = pc /\ cur' = cur
  <2> HIDE DEF r, b
  <2>1. /\ Tabled' = [Tabled EXCEPT ![b] = @ \cup {r}] /\ \A g \in Fd : Distinct(irps'[g])
        /\ irps' \in [Fd -> Seq(Req)]
    BY <1>1, <1>2, <1>5, <1>9, PushTable
  <2>2. Tabled'[b] = Tabled[b] \cup {r} /\ \A g \in Fd : g # b => Tabled'[g] = Tabled[g]
    BY <1>1, <2>1 DEF Tabled
  <2>3. TypeOK'
    BY <1>3, <1>6, <1>7, <1>9, <2>1 DEF TypeOK
  <2>4. ThreadsAt' /\ LocksHeld' /\ HandsHold' /\ StopStands' /\ SocketsHave'
    BY <1>1, <1>3, <1>7, <1>9, NoneIsNoRequest DEF ThreadsAt, LocksHeld, InExecute, HandsHold,
       StopStands, SocketsHave, b
  <2>5. Apart'
    BY <1>1, <1>4, <1>5, <1>7, <1>9, <2>2 DEF Apart
  <2>6. ListedOnce'
    BY <1>2, <1>3, <1>7, <2>1 DEF ListedOnce, Distinct
  <2>7. \A p \in Req : Somewhere(p)' <=> Somewhere(p)
    <3> TAKE p \in Req
    <3>1. CASE p = r
      BY <1>1, <1>2, <2>2, <3>1 DEF Somewhere
    <3>2. CASE p # r
      BY <1>4, <1>7, <1>9, <2>2, <3>2 DEF Somewhere
    <3> QED
      BY <3>1, <3>2
  <2> QED
    BY <1>7, <2>3, <2>4, <2>5, <2>6, <2>7 DEF Awaited
<1> QED
  <2>1. pollErr \in BOOLEAN
    BY DEF TypeOK
  <2> QED
    BY <1>8, <1>9, <2>1 DEF ExecuteIRP, Goto

-----------------------------------------------------------------------------
LEMMA ReactorStart == Init => ReactorInv
<1> SUFFICES ASSUME Init PROVE ReactorInv
  OBVIOUS
<1>1. TypeOK
  <2>1. batch \in [fd : Fd \cup {None}, list : Seq(Req)] /\ irps \in [Fd -> Seq(Req)]
    BY EmptyList DEF Init
  <2>2. q \in Seq(Entry) /\ Len(q) <= QSize
    BY ReactorAssumption DEF Init, ReactorAssumption
  <2>3. units \in 0 .. MaxUnits /\ errors \in 0 .. MaxErrors
    BY ReactorAssumption DEF Init, ReactorAssumption
  <2>4. ready \in [Sock -> [Dir -> Nat]]
    BY DEF Init
  <2> QED
    BY <2>1, <2>2, <2>3, <2>4 DEF Init, TypeOK, Threads
<1>2. ThreadsAt /\ LocksHeld /\ HandsHold /\ StopStands /\ SocketsHave
  BY NoneIsNoRequest, ReactorAssumption
  DEF Init, ThreadsAt, LocksHeld, InExecute, HandsHold, StopStands, SocketsHave, Threads, PollAt,
      CallerAt, Full, ReactorAssumption
<1>3. Batched = {} /\ Queued = {} /\ \A f \in Fd : Tabled[f] = {}
  BY EmptyList DEF Init, Batched, Queued, Tabled
<1>4. Apart /\ Awaited
  BY <1>3, NoneIsNoRequest DEF Init, Apart, Awaited, Somewhere
<1>5. ListedOnce
  BY EmptyList DEF Init, ListedOnce
<1> QED
  BY <1>1, <1>2, <1>4, <1>5 DEF ReactorInv

LEMMA ThreadStep ==
  ASSUME ReactorInv, NEW t \in Threads, Thread(t)
  PROVE  ReactorInv'
<1>1. CASE \E s \in Sock : CloseSocket(t, s) \/ LemonCancelIO(t, s)
  BY <1>1, CloseSocketStep, CancelStep
<1>2. CASE \E s \in Sock, r \in Req : \/ AsyncRead(t, r, s) \/ AsyncWrite(t, r, s)
                                     \/ AsyncConnect(t, r, s) \/ AsyncAccept(t, r, s)
  BY <1>2, AsyncStep DEF AsyncRead, AsyncWrite, AsyncConnect, AsyncAccept
<1>3. CASE \E s \in Sock, r \in Req : FullAsync(t, r, s)
  BY <1>3, FullAsyncStep
<1>4. CASE CloseTable(t) \/ InsertIRP(t) \/ CompleteIRP(t) \/ CompleteFull(t) \/ FullInsert(t)
  BY <1>4, CloseTableStep, InsertStep, CompleteStep, CompleteFullStep, FullInsertStep
<1> QED
  BY <1>1, <1>2, <1>3, <1>4 DEF Thread

LEMMA ReactorStep == ReactorInv /\ [Next]_vars => ReactorInv'
<1> SUFFICES ASSUME ReactorInv, [Next]_vars PROVE ReactorInv'
  OBVIOUS
<1>1. CASE \E t \in Threads : Thread(t)
  BY <1>1, ThreadStep
<1>2. CASE PollThread
  BY <1>2, PollStep, ExecuteStep, ExecuteEndStep, TakeListStep DEF PollThread
<1>3. CASE DispatchThread
  BY <1>3, DispatchStep, GetStep DEF DispatchThread
<1>4. CASE StopIOService \/ StopJoined \/ ResetIOService
  BY <1>4, StopStep
<1>5. CASE \E s \in Sock, f \in Fd : LemonSock("user", s, f)
  BY <1>5, SockStep
<1>6. CASE \E s \in Sock, d \in Dir : Arrive(s, d)
  BY <1>6, ArriveStep
<1>7. CASE UNCHANGED vars
  BY <1>7, StutterStep
<1> QED
  BY <1>1, <1>2, <1>3, <1>4, <1>5, <1>6, <1>7 DEF Next

-----------------------------------------------------------------------------
(* A request in one of the places is nowhere else. *)
LEMMA PlacesOne ==
  ASSUME ReactorInv, NEW r \in Req, NEW p \in Places(r), NEW u \in Places(r)
  PROVE  p = u
<1> USE DEF ReactorInv
<1> DEFINE IsCur(x)   == \E t \in Threads : cur[t] = r /\ x = <<"cur", t>>
           IsInner(x) == \E t \in Threads : inner[t] = r /\ x = <<"inner", t>>
           IsBatch(x) == \E i \in DOMAIN batch.list : batch.list[i] = r /\ x = <<"batch", i>>
           IsQueue(x) == \E i \in DOMAIN q : q[i].req = r /\ x = <<"queue", i>>
           IsTable(x) == \E f \in Fd : \E i \in DOMAIN irps[f] : irps[f][i] = r /\ x = <<f, i>>
<1>1. \A x \in Places(r) : IsCur(x) \/ IsInner(x) \/ IsBatch(x) \/ IsQueue(x) \/ IsTable(x)
  BY DEF Places
<1>2. r # None
  BY NoneIsNoRequest
<1>3. \A x : /\ IsCur(x) => \E t \in Threads : cur[t] = r
             /\ IsInner(x) => \E t \in Threads : inner[t] = r
             /\ IsBatch(x) => r \in Batched
             /\ IsQueue(x) => r \in Queued
             /\ IsTable(x) => \E f \in Fd : r \in Tabled[f]
  BY DEF Batched, Queued, Tabled, Members
<1>4. CASE IsCur(p)
  <2>1. IsCur(u)
    BY <1>1, <1>2, <1>3, <1>4 DEF Apart
  <2> QED
    BY <1>2, <1>4, <2>1 DEF Apart
<1>5. CASE IsInner(p)
  <2>1. IsInner(u)
    BY <1>1, <1>2, <1>3, <1>5 DEF Apart
  <2> QED
    BY <1>2, <1>5, <2>1 DEF Apart
<1>6. CASE IsBatch(p)
  <2>1. IsBatch(u)
    BY <1>1, <1>2, <1>3, <1>6 DEF Apart
  <2> QED
    BY <1>6, <2>1 DEF ListedOnce, Distinct
<1>7. CASE IsQueue(p)
  <2>1. IsQueue(u)
    BY <1>1, <1>2, <1>3, <1>7 DEF Apart
  <2> QED
    BY <1>7, <2>1 DEF ListedOnce
<1>8. CASE IsTable(p)
  <2>1. IsTable(u)
    BY <1>1, <1>2, <1>3, <1>8 DEF Apart
  <2>2. PICK f \in Fd : \E i \in DOMAIN irps[f] : irps[f][i] = r /\ p = <<f, i>>
    BY <1>8
  <2>3. PICK g \in Fd : \E j \in DOMAIN irps[g] : irps[g][j] = r /\ u = <<g, j>>
    BY <2>1
  <2>4. r \in Tabled[f] /\ r \in Tabled[g]
    BY <2>2, <2>3 DEF Tabled, Members
  <2>5. f = g
    BY <2>4 DEF Apart
  <2> QED
    BY <2>2, <2>3, <2>5 DEF ListedOnce, Distinct
<1> QED
  BY <1>1, <1>4, <1>5, <1>6, <1>7, <1>8

LEMMA SomewherePlaces ==
  ASSUME NEW r \in Req
  PROVE  Somewhere(r) <=> Places(r) # {}
<1>1. \A t \in Threads : /\ cur[t] = r => <<"cur", t>> \in Places(r)
                         /\ inner[t] = r => <<"inner", t>> \in Places(r)
  BY DEF Places
<1>2. \A i \in DOMAIN batch.list : batch.list[i] = r => <<"batch", i>> \in Places(r)
  BY DEF Places
<1>3. \A i \in DOMAIN q : q[i].req = r => <<"queue", i>> \in Places(r)
  BY DEF Places
<1>4. \A f \in Fd : \A i \in DOMAIN irps[f] : irps[f][i] = r => <<f, i>> \in Places(r)
  BY DEF Places
<1>5. ASSUME Somewhere(r) PROVE Places(r) # {}
  BY <1>1, <1>2, <1>3, <1>4, <1>5 DEF Somewhere, Batched, Queued, Tabled, Members
<1>6. ASSUME NEW p \in Places(r) PROVE Somewhere(r)
  BY DEF Places, Somewhere, Batched, Queued, Tabled, Members
<1> QED
  BY <1>5, <1>6

LEMMA PlacesCounted == ReactorInv => OnePlace
<1> SUFFICES ASSUME ReactorInv, NEW r \in Req
             PROVE  Cardinality(Places(r)) = IF outcome[r] = "pending" THEN 1 ELSE 0
  BY DEF OnePlace
<1>1. outcome[r] = "pending" <=> Places(r) # {}
  BY SomewherePlaces DEF ReactorInv, Awaited
<1>2. CASE outcome[r] = "pending"
  <2>1. PICK p : p \in Places(r)
    BY <1>1, <1>2
  <2>2. Places(r) = {p}
    BY <2>1, PlacesOne
  <2> QED
    BY <1>2, <2>2, FS_Singleton
<1>3. CASE outcome[r] # "pending"
  BY <1>1, <1>3, FS_EmptySet
<1> QED
  BY <1>2, <1>3

LEMMA StuckInCallback == ReactorInv => StuckOnlyInFullQueue
<1> SUFFICES ASSUME ReactorInv, NEW t \in Threads, NEW u \in Threads, WaitsFor(t) = u,
                    u = t \/ WaitsFor(u) = t,
                    \A w \in Threads : ~CalledInFullQueue(w)
             PROVE  FALSE
  BY DEF StuckOnlyInFullQueue, Stuck
<1> USE DEF CalledInFullQueue
<1>1. u # None /\ t # None
  BY NoneIsNoRequest
<1>2. CASE pc[t] \in {"insert", "fullInsert", "closeTable", "fullClose", "events"}
  <2>1. u = "poll" /\ pc[u] \in Full \cup {"exec", "complete"}
    BY <1>1, <1>2 DEF WaitsFor, ReactorInv, LocksHeld, InExecute
  <2>2. pc[u] = "complete" /\ qLock = t
    BY <1>1, <1>2, <2>1 DEF WaitsFor, Full
  <2> QED
    BY <1>2, <2>2 DEF ReactorInv, LocksHeld, Full
<1>3. CASE pc[t] \in {"complete", "fullComplete", "get"}
  <2>1. qLock = u /\ pc[u] \in Full
    BY <1>3 DEF WaitsFor, ReactorInv, LocksHeld
  <2>2. pc[u] = "full" /\ u # t
    BY <1>3, <2>1 DEF Full
  <2> QED
    BY <1>1, <2>2 DEF WaitsFor
<1>4. CASE pc[t] = "join"
  <2>1. u = "poll" /\ t = "user"
    BY <1>1, <1>4 DEF WaitsFor, ReactorInv, ThreadsAt, Threads, PollAt, CallerAt, Full
  <2>2. WaitsFor("poll") = "user"
    BY <2>1
  <2>3. pc["poll"] \notin {"join", "fullJoin"}
    BY DEF ReactorInv, ThreadsAt, PollAt, Full, Threads
  <2>4. tableLock = "user" \/ qLock = "user"
    BY <1>1, <2>1, <2>2, <2>3 DEF WaitsFor, Threads
  <2> QED
    BY <1>1, <1>4, <2>1, <2>4 DEF ReactorInv, LocksHeld, Full, Threads
<1>5. CASE pc[t] \notin {"insert", "fullInsert", "closeTable", "fullClose", "events",
                         "complete", "fullComplete", "get", "join"}
  BY <1>1, <1>5 DEF WaitsFor
<1> QED
  BY <1>2, <1>3, <1>4, <1>5

(* Every request of the reactor is in one place as long as it has no outcome, and   *)
(* in none after, for any sockets, requests and threads' interleavings of irp.cpp   *)
(* and reactor_io_service.cpp; and threads wait for each other, or one for itself,  *)
(* only where a callback run in a full completion queue submits a request, closes   *)
(* or cancels a socket or stops the service.                                        *)
THEOREM RequestsAreKept == Spec => []RequestsKept
<1>1. ReactorInv => RequestsKept
  BY PlacesCounted, StuckInCallback DEF RequestsKept
<1> QED
  BY <1>1, ReactorStart, ReactorStep, PTL DEF Spec
==============================================================================
