----------------------------- MODULE IntrusiveQ -----------------------------
(***************************************************************************)
(* The linked queue that src/runQ writes out three times: for the messages *)
(* of a job (messageQ.cpp), the jobs of a RunQ (job.cpp) and the timers of *)
(* a JobTimerQ (timerQ.cpp).  The link is in the queued object itself, so  *)
(* an object can be in one queue at a time.  The callers see to that: a    *)
(* message is fresh from its allocator, a job is in one place (OnePlace in *)
(* RunQ), a timer is new or was just popped.  MultiCast has the exception. *)
(*                                                                         *)
(* items is a history variable: the sequence each queue stands for.  An    *)
(* assertion that fails ends the program, so Pop needs its assertions.     *)
(***************************************************************************)
EXTENDS Naturals, Sequences

CONSTANTS Queue, Node, Null

ASSUME NullIsNoNode == Null \notin Node

VARIABLES counter, header, tail,  \* Q->Counter, Q->Header, Q->Tail
          next,                   \* node->Next
          items

links == <<counter, header, tail, next, items>>

LinksInit ==
  /\ counter = [q \in Queue |-> 0]
  /\ header = [q \in Queue |-> Null]
  /\ tail = [q \in Queue |-> Null]
  /\ next \in [Node -> {Null}]
  /\ items = [q \in Queue |-> <<>>]

In(n, q) == \E i \in 1..Len(items[q]) : items[q][i] = n
Loose(n) == \A q \in Queue : ~In(n, q)

(* LemonPushJobMessage, LemonPushJob and LemonPushJobTimer.                *)
ForgetOld(q, n) == next' = [next EXCEPT ![n] = Null]
LinkLast(q, n) ==
  next' = IF counter[q] = 0 THEN [next EXCEPT ![n] = Null]
          ELSE [next EXCEPT ![tail[q]] = n, ![n] = Null]

PushAsserts(q) == counter[q] # 0 => header[q] # Null /\ tail[q] # Null

PushNode(q, n) ==
  /\ PushAsserts(q)
  /\ header' = IF counter[q] = 0 THEN [header EXCEPT ![q] = n] ELSE header
  /\ tail' = [tail EXCEPT ![q] = n]
  /\ LinkLast(q, n)
  /\ counter' = [counter EXCEPT ![q] = @ + 1]
  /\ items' = [items EXCEPT ![q] = Append(@, n)]

(* The assertions of LemonPopJobMessage, LemonPopJob and LemonPopJobTimer. *)
PopAsserts(q) ==
  CASE counter[q] = 0 -> TRUE
    [] counter[q] = 1 -> header[q] = tail[q] /\ header[q] # Null
    [] OTHER -> header[q] # Null /\ next[header[q]] # Null

(* The node popped is header[q].                                           *)
ClearTail(q) == tail' = IF counter[q] = 1 THEN [tail EXCEPT ![q] = Null] ELSE tail

PopNode(q) ==
  /\ counter[q] # 0 /\ PopAsserts(q)
  /\ counter' = [counter EXCEPT ![q] = @ - 1]
  /\ header' = [header EXCEPT ![q] = IF counter[q] = 1 THEN Null ELSE next[header[q]]]
  /\ ClearTail(q)
  /\ items' = [items EXCEPT ![q] = Tail(@)]
  /\ UNCHANGED next

Push(q, n) == Loose(n) /\ PushNode(q, n)

LinksNext == \E q \in Queue : PopNode(q) \/ \E n \in Node : Push(q, n)

LinksSpec == LinksInit /\ [][LinksNext]_links

-----------------------------------------------------------------------------
LinksTypeOK ==
  /\ counter \in [Queue -> Nat]
  /\ header \in [Queue -> Node \cup {Null}]
  /\ tail \in [Queue -> Node \cup {Null}]
  /\ next \in [Node -> Node \cup {Null}]
  /\ items \in [Queue -> Seq(Node)]

(* A node is at most once in at most one queue.                            *)
OneQueue ==
  \A q, r \in Queue : \A i \in 1..Len(items[q]), k \in 1..Len(items[r]) :
    items[q][i] = items[r][k] => q = r /\ i = k

(* A queue's links and counter are those of its sequence: a pop returns the *)
(* node that was pushed first, and the last link is NULL.                  *)
ChainOf(q, s) ==
  /\ counter[q] = Len(s)
  /\ IF s = <<>> THEN header[q] = Null /\ tail[q] = Null
     ELSE header[q] = s[1] /\ tail[q] = s[Len(s)] /\ next[s[Len(s)]] = Null
  /\ \A i \in 1..(Len(s) - 1) : next[s[i]] = s[i + 1]
Linked == \A q \in Queue : ChainOf(q, items[q])

(* No assertion of a push or a pop fails.                                  *)
AssertsHold == \A q \in Queue : PushAsserts(q) /\ PopAsserts(q)

LinksInv == LinksTypeOK /\ OneQueue /\ Linked
=============================================================================
