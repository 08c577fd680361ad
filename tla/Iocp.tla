-------------------------------- MODULE Iocp --------------------------------
(***************************************************************************)
(* The completion-port build of io/: iocp_io_service.cpp, iocp_socket.cpp  *)
(* and the LEMON_IO_IOCP branches of irp.cpp.  An IRP is in the table from *)
(* before the call that hands it to the kernel until its completion has    *)
(* been taken from the port; the kernel writes into it until then.  The    *)
(* kernel itself is external: an accepted request completes some time      *)
(* later, also on a socket that has been closed.                           *)
(*                                                                         *)
(* Every function of the table runs under its mutex and is one step; what  *)
(* a socket function does before, between and after them is others.        *)
(***************************************************************************)
EXTENDS Naturals, Sequences, FiniteSets

CONSTANTS Ops,         \* asynchronous operations, each with the IRP made for it
          Files,       \* sockets
          FileOf,      \* [Ops -> Files]
          Dispatchers, \* threads that run LemonIODispatch
          STOP_KEY,
          MaxStops,    \* bound: calls of LemonStopIOService
          MaxCallbacks \* bound: calls of one operation's callback

ASSUME IocpAssumption == FileOf \in [Ops -> Files] /\ STOP_KEY \notin Ops

VARIABLES
  phase,     \* [Ops -> where the operation is]
  freed,     \* IRPs given back to the allocator
  canceled,  \* [Ops -> irp->Canceled]
  callbacks, \* [Ops -> calls of the callback]
  listed,    \* [Files -> IRPs of the file's object, as a set]
  fileObjs,  \* files that have an object in the table
  openFiles, closing,
  port,      \* queue of the completion port
  dpc,       \* [Dispatchers -> where the thread is]
  takenOp,   \* [Dispatchers -> what it took from the port]
  stopped,   \* service->Status
  working,   \* service->WorkingThreads
  stops,     \* bounded counter
  again,     \* history: operations whose callback was called though canceled
  orphaned,  \* history: IRPs whose object went while they were listed there
  iocpAsserted \* operations for which an assertion on their object failed: the end

iocpVars == <<phase, freed, canceled, callbacks, listed, fileObjs, openFiles, closing, port,
              dpc, takenOp, stopped, working, stops, again, orphaned, iocpAsserted>>
opVars == <<phase, freed, canceled, callbacks, listed, fileObjs, again, orphaned, iocpAsserted>>
ioThreads == <<dpc, takenOp, stopped, working, stops>>

IocpInit ==
  /\ phase = [o \in Ops |-> "none"] /\ freed = {}
  /\ canceled = [o \in Ops |-> FALSE] /\ callbacks = [o \in Ops |-> 0]
  /\ listed = [f \in Files |-> {}] /\ fileObjs = {}
  /\ openFiles = Files /\ closing = {} /\ port = <<>>
  /\ dpc = [d \in Dispatchers |-> "out"] /\ takenOp = [d \in Dispatchers |-> STOP_KEY]
  /\ stopped = FALSE /\ working = 0 /\ stops = 0
  /\ again = {} /\ orphaned = {} /\ iocpAsserted = {}

PhaseTo(o, p) == phase' = [phase EXCEPT ![o] = p]
Unlisted(f, o) == listed[f] \ {o}

(* Proc of every IRP of a set: its callback.                               *)
Called(S) == [o \in Ops |-> IF o \in S THEN callbacks[o] + 1 ELSE callbacks[o]]

----------------------------------------------------------------------------
(* LemonAsyncSend, Recv, SendTo, ReceiveFrom, Connect and Accept up to the *)
(* system call: LemonCreateIRP_TS, LemonInsertIRP_TS.                      *)
Insert(o) ==
  LET f == FileOf[o] IN
  /\ phase[o] = "none" /\ f \in openFiles
  /\ PhaseTo(o, "inserted")
  /\ listed' = [listed EXCEPT ![f] = IF f \in fileObjs THEN @ \cup {o} ELSE {o}]
  /\ fileObjs' = fileObjs \cup {f}
  /\ UNCHANGED <<freed, canceled, callbacks, openFiles, closing, port, again, orphaned,
                 iocpAsserted, ioThreads>>

(* The call succeeds at once or is pending: the port will tell.  It fails, *)
(* always so on a closed socket: the function takes the IRP out again.     *)
CallPends(o) ==
  /\ phase[o] = "inserted" /\ FileOf[o] \in openFiles
  /\ PhaseTo(o, "kernel")
  /\ UNCHANGED <<freed, canceled, callbacks, listed, fileObjs, openFiles, closing, port, again,
                 orphaned, iocpAsserted, ioThreads>>

AsyncCallFails(o) ==
  /\ phase[o] = "inserted"
  /\ PhaseTo(o, "failed")
  /\ UNCHANGED <<freed, canceled, callbacks, listed, fileObjs, openFiles, closing, port, again,
                 orphaned, iocpAsserted, ioThreads>>

(* LemonIRPCounter leaves canceled IRPs out.                               *)
Counter(irps) == Cardinality({o \in irps : ~canceled[o]})

(* LemonRemoveIRP_TS: the object goes when the count is zero, with the     *)
(* canceled IRPs that are still in it.                                     *)
ObjectGoes(f, o) == f \in fileObjs /\ Counter(Unlisted(f, o)) = 0

RemoveIRP(o) ==
  LET f == FileOf[o] IN
  /\ phase[o] = "failed"
  /\ PhaseTo(o, "removed")
  /\ iocpAsserted' = {p \in {o} : f \in fileObjs /\ p \notin listed[f]}
  /\ IF ObjectGoes(f, o)
     THEN /\ listed' = [listed EXCEPT ![f] = {}] /\ fileObjs' = fileObjs \ {f}
          /\ orphaned' = orphaned \cup Unlisted(f, o)
     ELSE /\ listed' = [listed EXCEPT ![f] = Unlisted(f, o)]
          /\ UNCHANGED <<fileObjs, orphaned>>
  /\ UNCHANGED <<freed, canceled, callbacks, openFiles, closing, port, again, ioThreads>>

(* LemonCloseIRPs_TS; the function returns its error.                      *)
FreeIRP(o) ==
  /\ phase[o] = "removed"
  /\ PhaseTo(o, "refused") /\ freed' = freed \cup {o}
  /\ UNCHANGED <<canceled, callbacks, listed, fileObjs, openFiles, closing, port, again,
                 orphaned, iocpAsserted, ioThreads>>

(* External: the kernel posts the completion.                              *)
KernelCompletes(o) ==
  /\ phase[o] = "kernel"
  /\ PhaseTo(o, "posted") /\ port' = Append(port, o)
  /\ UNCHANGED <<freed, canceled, callbacks, listed, fileObjs, openFiles, closing, again,
                 orphaned, iocpAsserted, ioThreads>>

----------------------------------------------------------------------------
(* LemonCancelIO: LemonIRPFileCancel.  The kernel still has the IRPs.      *)
FreeCanceled(f) == freed' = freed \cup listed[f]   \* a mutant of the next definition
KeepCanceled(f) == UNCHANGED freed

CancelFile(f) ==
  /\ f \in openFiles \cap fileObjs
  /\ \A o \in listed[f] : callbacks[o] < MaxCallbacks
  /\ canceled' = [o \in Ops |-> canceled[o] \/ o \in listed[f]]
  /\ callbacks' = Called(listed[f])
  /\ again' = again \cup {o \in listed[f] : canceled[o]}
  /\ KeepCanceled(f)
  /\ UNCHANGED <<phase, listed, fileObjs, openFiles, closing, port, orphaned, iocpAsserted,
                 ioThreads>>

(* LemonCloseIO: closesocket, then LemonIRPCloseFile_TS, which frees the   *)
(* IRPs the kernel still has.                                              *)
CloseFile(f) ==
  /\ f \in openFiles
  /\ openFiles' = openFiles \ {f} /\ closing' = closing \cup {f}
  /\ UNCHANGED <<opVars, port, ioThreads>>

CloseFileTable(f) ==
  /\ f \in closing /\ closing' = closing \ {f}
  /\ callbacks' = Called(listed[f])
  /\ again' = again \cup {o \in listed[f] : canceled[o]}
  /\ freed' = freed \cup listed[f]
  /\ listed' = [listed EXCEPT ![f] = {}] /\ fileObjs' = fileObjs \ {f}
  /\ UNCHANGED <<phase, canceled, openFiles, port, orphaned, iocpAsserted, ioThreads>>

----------------------------------------------------------------------------
(* LemonIODispatch: the test of Status, the count, then one completion     *)
(* after the other.                                                        *)
EnterDispatch(d) ==
  /\ dpc[d] = "out" /\ ~stopped
  /\ dpc' = [dpc EXCEPT ![d] = "enters"]
  /\ UNCHANGED <<opVars, openFiles, closing, port, takenOp, stopped, working, stops>>

CountDispatch(d) ==
  /\ dpc[d] = "enters"
  /\ dpc' = [dpc EXCEPT ![d] = "gets"] /\ working' = working + 1
  /\ UNCHANGED <<opVars, openFiles, closing, port, takenOp, stopped, stops>>

GetCompletion(d) ==
  /\ dpc[d] = "gets" /\ port # <<>>
  /\ port' = Tail(port)
  /\ IF Head(port) = STOP_KEY
     THEN /\ dpc' = [dpc EXCEPT ![d] = "out"] /\ working' = working - 1
          /\ UNCHANGED <<takenOp, phase>>
     ELSE /\ dpc' = [dpc EXCEPT ![d] = "completes"]
          /\ takenOp' = [takenOp EXCEPT ![d] = Head(port)]
          /\ PhaseTo(Head(port), "taken") /\ UNCHANGED working
  /\ UNCHANGED <<freed, canceled, callbacks, listed, fileObjs, openFiles, closing, stopped, stops,
                 again, orphaned, iocpAsserted>>

(* LemonIRPComplete_TS.  No object, or one made since that does not list   *)
(* the IRP (LemonRemoveIRP): an assertion fails, which ends the program.   *)
CallAlways(o) == TRUE   \* a mutant of the next definition
NotYetCalled(o) == ~canceled[o]

CompleteTaken(d) ==
  LET o == takenOp[d]
      f == FileOf[o]
  IN /\ dpc[d] = "completes"
     /\ IF f \in fileObjs /\ o \in listed[f]
        THEN /\ listed' = [listed EXCEPT ![f] = Unlisted(f, o)]
             /\ callbacks' = IF NotYetCalled(o) THEN Called({o}) ELSE callbacks
             /\ freed' = freed \cup {o}
             /\ PhaseTo(o, "done")
             /\ dpc' = [dpc EXCEPT ![d] = "gets"]
             /\ UNCHANGED iocpAsserted
        ELSE /\ iocpAsserted' = {o} /\ dpc' = [dpc EXCEPT ![d] = "dead"]
             /\ UNCHANGED <<listed, callbacks, freed, phase>>
     /\ UNCHANGED <<canceled, fileObjs, openFiles, closing, port, takenOp, stopped, working, stops,
                    again, orphaned>>

(* LemonStopIOService: one key for every thread counted by now.            *)
StopService ==
  /\ stops < MaxStops /\ stops' = stops + 1
  /\ stopped' = TRUE /\ port' = port \o [i \in 1 .. working |-> STOP_KEY]
  /\ UNCHANGED <<opVars, openFiles, closing, dpc, takenOp, working>>

ResetService ==
  /\ stopped /\ stopped' = FALSE
  /\ UNCHANGED <<opVars, openFiles, closing, port, dpc, takenOp, working, stops>>

IocpNext ==
  /\ iocpAsserted = {}
  /\ \/ \E o \in Ops : Insert(o)
     \/ \E o \in Ops : CallPends(o)
     \/ \E o \in Ops : AsyncCallFails(o)
     \/ \E o \in Ops : RemoveIRP(o)
     \/ \E o \in Ops : FreeIRP(o)
     \/ \E o \in Ops : KernelCompletes(o)
     \/ \E f \in Files : CancelFile(f)
     \/ \E f \in Files : CloseFile(f)
     \/ \E f \in Files : CloseFileTable(f)
     \/ \E d \in Dispatchers : EnterDispatch(d)
     \/ \E d \in Dispatchers : CountDispatch(d)
     \/ \E d \in Dispatchers : GetCompletion(d)
     \/ \E d \in Dispatchers : CompleteTaken(d)
     \/ StopService
     \/ ResetService

IocpSpec == IocpInit /\ [][IocpNext]_iocpVars

----------------------------------------------------------------------------
(* The memory of an IRP stays allocated for as long as the kernel, the     *)
(* port or a dispatcher has it, whatever is cancelled, refused or stopped  *)
(* meanwhile, unless its socket has been closed; a request the kernel took *)
(* is answered by exactly one callback when its completion has been        *)
(* handled, unless it is cancelled more than once; and its completion or   *)
(* its removal finds it in the table of an open socket, unless a refused   *)
(* request took the object with the cancelled IRPs away: the assertions of *)
(* LemonIRPComplete_TS and LemonRemoveIRP fail for no other reason.        *)
InFlight(o) == phase[o] \in {"kernel", "posted", "taken"}

FlightIsSafe ==
  /\ \A o \in Ops : InFlight(o) /\ o \in freed => FileOf[o] \notin openFiles
  /\ \A o \in Ops \ again :
       /\ callbacks[o] <= 1
       /\ phase[o] = "done" => callbacks[o] = 1
       /\ phase[o] = "refused" /\ FileOf[o] \in openFiles /\ ~canceled[o] => callbacks[o] = 0
  /\ \A o \in iocpAsserted : FileOf[o] \in openFiles => o \in orphaned

(* What the text of the assertion in LemonIRPComplete_TS says: it fails    *)
(* after LemonIRPCloseFile_TS.                                             *)
FailsOnlyClosed == \A o \in iocpAsserted : FileOf[o] \notin openFiles
=============================================================================
