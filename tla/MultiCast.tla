----------------------------- MODULE MultiCast -----------------------------
(***************************************************************************)
(* Multicast groups (multicast.cpp) and what becomes of a message on its   *)
(* way through the FIFOs of jobs, at the level of the links: LemonRunQSend *)
(* puts one LemonJobMessage into the FIFO of every member of a group and   *)
(* counts the references to it; the last reader frees it.                  *)
(*                                                                         *)
(* LemonMultiCastSend, which visits the members under RunQMutex and the    *)
(* group mutex, and the release of a closed job's messages are sections of *)
(* several steps here; the variables cast and drop hold the mutex for them.*)
(* When and by whom jobs are run is RunQ's business; here a job may take a *)
(* message whenever it has none in hand.                                   *)
(***************************************************************************)
EXTENDS Naturals, Sequences, FiniteSets

CONSTANTS Job, Message,  \* job ids; blocks of MessageAllocator
          Null,
          Proxy,         \* the job LemonCreateProxyJob named, Null for none
          Closable,      \* bound: the jobs the application may close
          GoOn           \* bound: whether behaviours go on when they are spoilt

ASSUME MultiCastAssumption ==
  /\ Proxy \in Job \cup {Null} /\ Closable \subseteq Job /\ GoOn \in BOOLEAN
  /\ Null \notin Job \cup Message

VARIABLES
  counter, header, tail, next, items,  \* the FIFO of each job
  table, freed,    \* ids in JobTable; jobs given back to JobAllocator
  leaving,         \* jobs LemonCloseJob has taken out of the group so far
  gstate, group,   \* the group: unborn, open or closed; its members
  inuse,           \* messages allocated
  multi,           \* message->Target is a multicast id
  wrapped,         \* message->Buff is a LemonMultiCastMessage
  refs,            \* its Counter
  hand,            \* the message given to a job's Recv
  cast, unvisited,      \* the message being cast, the members still to visit
  drop,            \* the closed job whose messages are being released
  unread,          \* history: messages cast to a group without members
  spoilt           \* history: what has gone wrong with a shared message

fifos == <<counter, header, tail, next, items>>
jobs == <<table, freed, leaving>>
groups == <<gstate, group>>
kinds == <<multi, wrapped>>
mvars == <<fifos, jobs, groups, inuse, kinds, refs, hand, cast, unvisited, drop, unread, spoilt>>

INSTANCE IntrusiveQ WITH Queue <- Job, Node <- Message

CastInit ==
  /\ LinksInit
  /\ table = Job /\ freed = {} /\ leaving = {}
  /\ gstate = "unborn" /\ group = {}
  /\ inuse = {} /\ unread = {}
  /\ multi = [m \in Message |-> FALSE] /\ wrapped = [m \in Message |-> FALSE]
  /\ refs = [m \in Message |-> 0]
  /\ hand = [j \in Job |-> Null]
  /\ cast = Null /\ unvisited = {} /\ drop = Null /\ spoilt = {}

Unlocked == cast = Null /\ drop = Null

mail == <<inuse, kinds, refs>>
history == <<unread, spoilt>>

(* __LemonCreateJobMessage. *)
Alloc(m, isMulti, isWrapped) ==
  /\ m \notin inuse
  /\ inuse' = inuse \cup {m}
  /\ multi' = [multi EXCEPT ![m] = isMulti]
  /\ wrapped' = [wrapped EXCEPT ![m] = isWrapped]
  /\ unread' = unread \ {m}

Spoilt(how) == spoilt' = spoilt \cup {how}

(* LemonPushJobMessage overwrites the link of the message at the tail.  Another *)
(* member's FIFO may go by that link, since both hold the same message.         *)
LosesLink(j, m) ==
  /\ counter[j] # 0
  /\ \E k \in Job \ {j} : \E i \in 1..(Len(items[k]) - 1) :
        items[k][i] = tail[j] /\ items[k][i + 1] # m

QueueUp(j, m) ==
  /\ PushNode(j, m)
  /\ IF LosesLink(j, m) THEN Spoilt("link overwritten") ELSE UNCHANGED spoilt

-----------------------------------------------------------------------------
(* Group membership.  Nothing checks that a member is a job that exists.   *)
CreateGroup ==
  /\ gstate = "unborn" /\ gstate' = "open"
  /\ UNCHANGED <<fifos, jobs, group, mail, hand, cast, unvisited, drop, history>>

Enter(j) ==
  /\ cast = Null /\ gstate = "open"
  /\ group' = group \cup {j}
  /\ UNCHANGED <<fifos, jobs, gstate, mail, hand, cast, unvisited, drop, history>>

Leave(j) ==
  /\ cast = Null /\ gstate = "open" /\ j \in group
  /\ group' = group \ {j}
  /\ UNCHANGED <<fifos, jobs, gstate, mail, hand, cast, unvisited, drop, history>>

CloseGroup ==
  /\ cast = Null /\ gstate = "open"
  /\ gstate' = "closed" /\ group' = {}
  /\ UNCHANGED <<fifos, jobs, mail, hand, cast, unvisited, drop, history>>

(* LemonCloseJob: out of the groups first, under their mutex, then out of  *)
(* the job table, under RunQMutex.                                         *)
LeaveAll(j) ==
  /\ cast = Null /\ j \in (table \cap Closable) \ leaving
  /\ leaving' = leaving \cup {j}
  /\ group' = group \ {j}
  /\ UNCHANGED <<fifos, table, freed, gstate, mail, hand, cast, unvisited, drop, history>>

CloseJob(j) ==
  /\ Unlocked /\ j \in table \cap leaving
  /\ table' = table \ {j}
  /\ UNCHANGED <<fifos, freed, leaving, groups, mail, hand, cast, unvisited, drop, history>>

-----------------------------------------------------------------------------
(* LemonRunQSend to a local job, to the proxy job under the id of a remote *)
(* group (the test for a remote id comes first), and to the group.         *)
Unicast(j, m) ==
  /\ Unlocked /\ j \in table
  /\ Alloc(m, FALSE, FALSE)
  /\ QueueUp(j, m)
  /\ UNCHANGED <<jobs, groups, refs, hand, cast, unvisited, drop>>

RemoteGroupCast(m) ==
  /\ Unlocked /\ Proxy \in table
  /\ Alloc(m, TRUE, FALSE)
  /\ QueueUp(Proxy, m)
  /\ UNCHANGED <<jobs, groups, refs, hand, cast, unvisited, drop>>

BeginCast(m) ==
  /\ Unlocked /\ gstate = "open"
  /\ Alloc(m, TRUE, TRUE)
  /\ refs' = [refs EXCEPT ![m] = 0]
  /\ cast' = m /\ unvisited' = group
  /\ UNCHANGED <<fifos, jobs, groups, hand, drop, spoilt>>

(* LemonCloseMultiCastMessage starts with an assertion; when its Counter   *)
(* comes to n = 0 it frees the wrapper and the message.                    *)
CloseAssert(m) == multi[m] => wrapped[m]

CloseCounted(m, n) ==
  /\ refs' = [refs EXCEPT ![m] = n]
  /\ IF n = 0
     THEN inuse' = inuse \ {m} /\ wrapped' = [wrapped EXCEPT ![m] = FALSE]
     ELSE UNCHANGED <<inuse, wrapped>>

(* __LemonMultiCastSend: count, then push; if the member is no job that    *)
(* the table knows, give the count back, which frees the message if nobody *)
(* has got it yet, whether or not there are members still to visit.        *)
Counted(m) == refs' = [refs EXCEPT ![m] = @ + 1]

CastTo(j) ==
  /\ j \in unvisited /\ unvisited' = unvisited \ {j}
  /\ IF j \in table
     THEN Counted(cast) /\ QueueUp(j, cast) /\ UNCHANGED <<inuse, wrapped>>
     ELSE /\ CloseAssert(cast) /\ CloseCounted(cast, refs[cast])
          /\ IF refs[cast] = 0 /\ unvisited # {j} THEN Spoilt("freed in the cast")
             ELSE UNCHANGED spoilt
          /\ UNCHANGED fifos
  /\ UNCHANGED <<jobs, groups, multi, hand, cast, drop, unread>>

EndCast ==
  /\ cast # Null /\ unvisited = {}
  /\ cast' = Null
  /\ unread' = IF group = {} THEN unread \cup {cast} ELSE unread
  /\ UNCHANGED <<fifos, jobs, groups, mail, hand, unvisited, drop, spoilt>>

-----------------------------------------------------------------------------
(* LemonRunQLoop pops a message for Recv, and closes it afterwards.        *)
FreeEarly(m) == inuse' = inuse \ {m}
KeepForRecv(m) == UNCHANGED inuse

Take(j) ==
  /\ Unlocked /\ j \in table /\ hand[j] = Null
  /\ hand' = [hand EXCEPT ![j] = header[j]]
  /\ PopNode(j)
  /\ KeepForRecv(header[j])
  /\ UNCHANGED <<jobs, groups, kinds, refs, cast, unvisited, drop, history>>

GiveBack(j) ==
  /\ Unlocked /\ hand[j] # Null /\ CloseAssert(hand[j])
  /\ IF multi[hand[j]] THEN CloseCounted(hand[j], refs[hand[j]] - 1)
     ELSE inuse' = inuse \ {hand[j]} /\ UNCHANGED <<refs, wrapped>>
  /\ hand' = [hand EXCEPT ![j] = Null]
  /\ UNCHANGED <<fifos, jobs, groups, multi, cast, unvisited, drop, history>>

(* __LemonCloseJob frees every message in the FIFO, counted or not, though *)
(* another member of its group may have it to read.                        *)
BeginFree(j) ==
  /\ Unlocked /\ j \notin table \cup freed /\ hand[j] = Null
  /\ drop' = j
  /\ UNCHANGED <<fifos, jobs, groups, mail, hand, cast, unvisited, history>>

(* The jobs that have the message to read: in the FIFO or in a callback.   *)
Places(m) == {j \in Job : In(m, j) \/ hand[j] = m}

DropMessage ==
  /\ drop # Null /\ PopNode(drop)
  /\ inuse' = inuse \ {header[drop]}
  /\ IF Places(header[drop]) # {drop} THEN Spoilt("freed with a job") ELSE UNCHANGED spoilt
  /\ UNCHANGED <<jobs, groups, kinds, refs, hand, cast, unvisited, drop, unread>>

EndFree ==
  /\ drop # Null /\ counter[drop] = 0
  /\ freed' = freed \cup {drop} /\ drop' = Null
  /\ UNCHANGED <<fifos, table, leaving, groups, mail, hand, cast, unvisited, history>>

(* What becomes of a spoilt message is undefined: freed memory is used or  *)
(* a FIFO's links are another's.                                           *)
CastNext ==
  /\ spoilt # {} => GoOn
  /\ \/ CreateGroup \/ CloseGroup \/ EndCast \/ DropMessage \/ EndFree
     \/ \E m \in Message : BeginCast(m) \/ RemoteGroupCast(m)
     \/ \E j \in Job : \/ Enter(j) \/ Leave(j) \/ LeaveAll(j) \/ CloseJob(j)
                       \/ CastTo(j) \/ Take(j) \/ GiveBack(j) \/ BeginFree(j)
                       \/ \E m \in Message : Unicast(j, m)

CastSpec == CastInit /\ [][CastNext]_mvars

-----------------------------------------------------------------------------
(* messageQ.cpp:13, 40, 46: the assertions of the message FIFOs.  Where a  *)
(* group has several members they fail (multicast_shared).                 *)
FifoAsserts == AssertsHold

(* They fail only after a link was overwritten behind a message that two   *)
(* members still have in their FIFOs, or a message was freed that another  *)
(* member had to read: with whatever members and messages else, and though *)
(* several FIFOs hold one message, every FIFO is in order.                 *)
QueueAsserts == spoilt = {} => AssertsHold

(* The message LemonCloseMultiCastMessage gets is one LemonMultiCastSend   *)
(* has wrapped: its assertion in multicast.cpp:350 holds, and Recv was     *)
(* given the buffer that was sent.                                         *)
MultiIsWrapped == \A j \in Job : hand[j] # Null => CloseAssert(hand[j])

(* A message in a FIFO, in a callback or being cast has not been freed.    *)
MailAllocated ==
  /\ \A m \in Message : Places(m) # {} => m \in inuse
  /\ unvisited # {} => cast \in inuse

(* The count of a wrapped message is the number of members who still have  *)
(* it to read, so the last one to close it frees it and nobody earlier.    *)
RefsCount == \A m \in inuse :
  wrapped[m] => refs[m] = Cardinality(Places(m))

(* A message nobody has is only kept allocated if it was cast to a group   *)
(* without members (which nothing ever frees).                             *)
OnlyUnreadLeaks == \A m \in inuse : Places(m) = {} => m \in unread \cup {cast}

(* Together: a message lives exactly as long as some member has it to read, *)
(* unless a member that is no job came first in the cast (multicast.cpp:285 *)
(* frees it before the others get it), a closed job had it in its FIFO      *)
(* while others had it too (job.cpp:92), or a link was overwritten.         *)
MessagesCounted ==
  spoilt = {} => MailAllocated /\ RefsCount /\ OnlyUnreadLeaks
=============================================================================
