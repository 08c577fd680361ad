----------------------------- MODULE JobContract -----------------------------
(***************************************************************************)
(* What src/runQ promises to the author of a job, with no workers, no run  *)
(* queue, no colors and no locks: a job is an actor.  Its callbacks never  *)
(* overlap, Start comes first and Stop last and once, letters are received *)
(* in the order they were accepted, and nothing is received once the job   *)
(* is shut.  A tick may be lost; none is received that was not armed.      *)
(***************************************************************************)
EXTENDS Naturals, Sequences

CONSTANT Job

VARIABLES phase,    \* the callback a job is in, or where it is in its life
          shut,     \* the job has been closed: its id finds it no more
          mailbox,  \* letters accepted and not yet received
          posted,   \* number of letters accepted so far
          armed,    \* a timeout waits to be received
          down      \* the scheduler has been stopped

cvars == <<phase, shut, mailbox, posted, armed, down>>

Phases == {"unborn", "starting", "idle", "receiving", "ticking", "stopping",
           "gone"}

Init ==
  /\ phase = [j \in Job |-> "unborn"]
  /\ shut = [j \in Job |-> FALSE]
  /\ mailbox = [j \in Job |-> <<>>]
  /\ posted = [j \in Job |-> 0]
  /\ armed = [j \in Job |-> FALSE]
  /\ down = FALSE

Open(j) == ~shut[j] /\ phase[j] # "unborn"
Become(j, p) == phase' = [phase EXCEPT ![j] = p]
Close(j) == /\ shut' = [shut EXCEPT ![j] = TRUE]
            /\ armed' = [armed EXCEPT ![j] = FALSE]

Create(j) == /\ phase[j] = "unborn" /\ Become(j, "starting")
             /\ UNCHANGED <<shut, mailbox, posted, armed, down>>

Ready(j) == /\ phase[j] = "starting" /\ Become(j, "idle")
            /\ UNCHANGED <<shut, mailbox, posted, armed, down>>

Fail(j) == /\ phase[j] = "starting" /\ Become(j, "gone")
           /\ Close(j)
           /\ mailbox' = [mailbox EXCEPT ![j] = <<>>]
           /\ UNCHANGED <<posted, down>>

Accept(j) == /\ Open(j)
             /\ posted' = [posted EXCEPT ![j] = @ + 1]
             /\ mailbox' = [mailbox EXCEPT ![j] = Append(@, posted[j] + 1)]
             /\ UNCHANGED <<phase, shut, armed, down>>

Arm(j) == /\ Open(j) /\ phase[j] \in {"starting", "idle", "receiving"}
          /\ armed' = [armed EXCEPT ![j] = TRUE]
          /\ UNCHANGED <<phase, shut, mailbox, posted, down>>

Receive(j) == /\ phase[j] = "idle" /\ Open(j) /\ ~down
              /\ mailbox[j] # <<>>
              /\ Become(j, "receiving")
              /\ mailbox' = [mailbox EXCEPT ![j] = Tail(@)]
              /\ UNCHANGED <<shut, posted, armed, down>>

Tick(j) == /\ phase[j] \in {"idle", "receiving"} /\ Open(j)
           /\ armed[j]
           /\ Become(j, "ticking")
           /\ armed' = [armed EXCEPT ![j] = FALSE]
           /\ UNCHANGED <<shut, mailbox, posted, down>>

Return(j) == /\ phase[j] \in {"receiving", "ticking"} /\ Become(j, "idle")
             /\ UNCHANGED <<shut, mailbox, posted, armed, down>>

Shut(j) == /\ Open(j) /\ Close(j)
           /\ UNCHANGED <<phase, mailbox, posted, down>>

Stop(j) == /\ phase[j] = "idle" /\ (shut[j] \/ down)
           /\ Become(j, "stopping") /\ Close(j)
           /\ UNCHANGED <<mailbox, posted, down>>

Free(j) == /\ phase[j] = "stopping" /\ Become(j, "gone")
           /\ mailbox' = [mailbox EXCEPT ![j] = <<>>]
           /\ UNCHANGED <<shut, posted, armed, down>>

Halt == down' = TRUE /\ UNCHANGED <<phase, shut, mailbox, posted, armed>>

(* A reset ends with every job gone, the idle ones without a Stop. *)
Purge ==
  /\ down /\ down' = FALSE
  /\ \A j \in Job : phase[j] \in {"unborn", "idle", "gone"}
  /\ phase' = [j \in Job |-> IF phase[j] = "idle" THEN "gone" ELSE phase[j]]
  /\ shut' = [j \in Job |-> shut[j] \/ phase[j] = "idle"]
  /\ mailbox' = [j \in Job |-> IF phase[j] = "idle" THEN <<>> ELSE mailbox[j]]
  /\ armed' = [j \in Job |-> FALSE]
  /\ UNCHANGED posted

Next == \/ \E j \in Job : \/ Create(j) \/ Ready(j) \/ Fail(j) \/ Accept(j)
                          \/ Arm(j) \/ Receive(j) \/ Tick(j) \/ Return(j)
                          \/ Shut(j) \/ Stop(j) \/ Free(j)
        \/ Halt \/ Purge

Spec == Init /\ [][Next]_cvars
=============================================================================
