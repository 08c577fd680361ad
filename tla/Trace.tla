------------------------------- MODULE Trace -------------------------------
(* The local trace service (src/trace/local/, message.cpp): controllers open and
   close trace flags, the service passes the union of all controllers' flags on
   to its providers, providers put messages whose flags are open into a ring
   buffer, and the dispatch thread loads each into one message object and calls
   the consumers of every controller that has its flags open.
   Every controller and provider here is about one and the same uuid (flags of
   different uuids are kept apart by a map).  What the mutexes _mutex,
   Controller::_mutex and _providerMutex protect is done in one step;
   _controllerMutex is a variable, since it is held while callbacks run.       *)
EXTENDS Naturals, Sequences, FiniteSets

CONSTANTS App,          \* threads of the application
          Controllers, Providers, Consumers,    \* each is created and closed once
          Of,           \* the controller a consumer belongs to
          Bits,         \* trace flags are sets of these
          MaxLength,    \* of the contents of a message
          MaxCache,     \* blocks of the ring buffer
          Dispatcher,   \* the dispatch thread
          None

ASSUME TraceAssumption ==
  /\ Of \in [Consumers -> Controllers]
  /\ MaxLength \in Nat \ {0} /\ MaxCache \in Nat \ {0}
  /\ Dispatcher \notin App /\ None \notin App \cup {Dispatcher}
  /\ None \notin Controllers \cup Providers \cup Consumers
  /\ None \notin {"freedProvider", "ringFull", "offset"}
  /\ Controllers \cap Providers = {} /\ Controllers \cap Consumers = {}
  /\ Providers \cap Consumers = {}

VARIABLES
  life,            \* of controllers, providers, consumers: "none", "open", "freed"
  bits,            \* Controller::_flags of the uuid
  flag,            \* Provider::_flag
  ring,            \* the messages in _ringbuffer, the front first
  exit,            \* _exit
  controllerMutex, \* the thread that holds it, or None
  pc,              \* of each application thread, in OpenTrace or CloseTrace
  whose,           \* the controller it has called
  sum,             \* OnFlagChanged's local variable flag
  left,            \* what the loop a thread is in has not visited yet
  dispatchAt,      \* where the dispatch thread is
  message,         \* its message object: flag, length, offset
  current,         \* the controller whose OnMessage it is in
  calling,         \* the consumer whose callback it is in
  failed,          \* why the program is lost: an assertion, freed memory; or None
  alone,           \* history: threads whose change of flags no other one overlaps
  unsure,          \* history: providers that need not have the controllers' flags
  torn,            \* history: providers freed while a loop had them before it
  sought           \* history: the callback has called LemonTraceSeek

objects  == <<life, bits, flag, torn>>
changes  == <<pc, whose, sum, alone>>
dispatch == <<dispatchAt, message, current, calling, sought>>
traceVars == <<objects, changes, dispatch, ring, exit, controllerMutex, left, failed, unsure>>

Threads == App \cup {Dispatcher}
Things  == Controllers \cup Providers \cup Consumers

Open(S) == {x \in S : life[x] = "open"}

OpenBits == UNION {bits[c] : c \in Open(Controllers)}

Changing == {t \in App : pc[t] # "idle"}

TraceInit ==
  /\ life = [x \in Things |-> "none"]
  /\ bits = [c \in Controllers |-> {}] /\ flag = [p \in Providers |-> {}]
  /\ ring = <<>> /\ exit = FALSE /\ controllerMutex = None
  /\ pc = [t \in App |-> "idle"] /\ whose = [t \in App |-> None]
  /\ sum = [t \in App |-> {}]
  /\ left = [t \in Threads |-> {}]
  /\ dispatchAt = "loop" /\ message = [flag |-> {}, length |-> 0, offset |-> 0]
  /\ current = None /\ calling = None /\ failed = None
  /\ alone = {} /\ unsure = {} /\ torn = {} /\ sought = FALSE

-----------------------------------------------------------------------------
(* Objects come and go.  A constructor registers the object, a destructor waits
   for the mutex of the list it is on. *)
CreateController(c) ==
  /\ controllerMutex = None /\ ~exit /\ life[c] = "none"
  /\ life' = [life EXCEPT ![c] = "open"]
  /\ UNCHANGED <<changes, dispatch, bits, flag, torn, ring, exit, controllerMutex, left,
                 failed, unsure>>

(* Its flags die with it, and no provider is told.  The application closes the
   consumers of a controller first and no longer opens or closes its flags. *)
CloseController(c) ==
  /\ controllerMutex = None /\ life[c] = "open"
  /\ \A k \in Consumers : Of[k] = c => life[k] # "open"
  /\ \A t \in App : whose[t] # c
  /\ life' = [life EXCEPT ![c] = "freed"]
  /\ unsure' = IF bits[c] = {} THEN unsure ELSE Open(Providers)
  /\ alone' = {}
  /\ UNCHANGED <<dispatch, bits, flag, torn, ring, exit, controllerMutex, pc, whose, sum,
                 left, failed>>

(* A new provider has no flags, whatever is open, until the next change.  Its
   registration takes _providerMutex only, so a loop over the providers that is
   under way may or may not find it. *)
CreateProvider(p) ==
  /\ ~exit /\ life[p] = "none"
  /\ life' = [life EXCEPT ![p] = "open"]
  /\ \E found \in SUBSET {t \in App : pc[t] = "spread"} :
       left' = [t \in Threads |-> IF t \in found THEN left[t] \cup {p} ELSE left[t]]
  /\ unsure' = IF OpenBits = {} /\ Changing = {} THEN unsure ELSE unsure \cup {p}
  /\ UNCHANGED <<changes, dispatch, bits, flag, torn, ring, exit, controllerMutex, failed>>

(* Nor does it wait for a loop over the providers: service.cpp:88 locks
   _controllerMutex and UnRegister takes _providerMutex.  A loop that has the
   provider before it may still come to it. *)
CloseProvider(p) ==
  /\ life[p] = "open"
  /\ life' = [life EXCEPT ![p] = "freed"]
  /\ \E caught \in SUBSET {t \in App : pc[t] = "spread" /\ p \in left[t]} :
       /\ left' = [t \in Threads |-> IF t \in caught THEN left[t] ELSE left[t] \ {p}]
       /\ torn' = IF caught = {} THEN torn ELSE torn \cup {p}
  /\ unsure' = unsure \ {p}
  /\ UNCHANGED <<changes, dispatch, bits, flag, ring, exit, controllerMutex, failed>>

(* _consumersMutex of the controller: held during Controller::OnMessage. *)
ConsumersFree(k) == current # Of[k]
AnyTime(k) == TRUE      \* a mutant of the next definition
MayTouchConsumers(k) == ConsumersFree(k)

CreateConsumer(k) ==
  /\ life[k] = "none" /\ life[Of[k]] = "open" /\ ConsumersFree(k)
  /\ life' = [life EXCEPT ![k] = "open"]
  /\ UNCHANGED <<changes, dispatch, bits, flag, torn, ring, exit, controllerMutex, left,
                 failed, unsure>>

CloseConsumer(k) ==
  /\ life[k] = "open" /\ MayTouchConsumers(k)
  /\ life' = [life EXCEPT ![k] = "freed"]
  /\ UNCHANGED <<changes, dispatch, bits, flag, torn, ring, exit, controllerMutex, left,
                 failed, unsure>>

-----------------------------------------------------------------------------
(* OpenTrace adds flags, CloseTrace toggles them (controller.cpp:43); then the
   service works out the union, one controller after the other, gives the mutex
   back, takes it again and passes the union on. *)
SymmetricDifference(S, T) == (S \ T) \cup (T \ S)

Change(t, c, new) ==
  /\ pc[t] = "idle" /\ life[c] = "open" /\ ~exit
  /\ bits' = [bits EXCEPT ![c] = new]
  /\ pc' = [pc EXCEPT ![t] = "changed"] /\ whose' = [whose EXCEPT ![t] = c]
  /\ alone' = IF Changing = {} THEN {t} ELSE {}
  /\ UNCHANGED <<dispatch, life, flag, torn, ring, exit, controllerMutex, sum, left,
                 failed, unsure>>

OpenTrace(t, c, f)  == Change(t, c, bits[c] \cup f)
CloseTrace(t, c, f) == Change(t, c, SymmetricDifference(bits[c], f))

OnFlagChanged(t) ==
  /\ pc[t] = "changed" /\ controllerMutex = None
  /\ controllerMutex' = t
  /\ pc' = [pc EXCEPT ![t] = "collect"]
  /\ sum' = [sum EXCEPT ![t] = {}]
  /\ left' = [left EXCEPT ![t] = Open(Controllers)]
  /\ UNCHANGED <<objects, dispatch, ring, exit, whose, failed, alone, unsure>>

WithFlagsOf(t, c) == sum[t] \cup bits[c]

QueryFlag(t) ==
  /\ pc[t] = "collect"
  /\ \E c \in left[t] :
       /\ sum' = [sum EXCEPT ![t] = WithFlagsOf(t, c)]
       /\ left' = [left EXCEPT ![t] = @ \ {c}]
  /\ UNCHANGED <<objects, dispatch, ring, exit, controllerMutex, pc, whose, failed,
                 alone, unsure>>

Collected(t) ==
  /\ pc[t] = "collect" /\ left[t] = {}
  /\ controllerMutex' = None
  /\ pc' = [pc EXCEPT ![t] = "collected"]
  /\ UNCHANGED <<objects, dispatch, ring, exit, whose, sum, left, failed, alone,
                 unsure>>

StartSpread(t) ==
  /\ pc[t] = "collected" /\ controllerMutex = None
  /\ controllerMutex' = t
  /\ pc' = [pc EXCEPT ![t] = "spread"]
  /\ left' = [left EXCEPT ![t] = Open(Providers)]
  /\ UNCHANGED <<objects, dispatch, ring, exit, whose, sum, failed, alone, unsure>>

(* At a provider that has been freed nothing good comes of the call. *)
Spread(t) ==
  /\ pc[t] = "spread"
  /\ \E p \in left[t] :
       /\ left' = [left EXCEPT ![t] = @ \ {p}]
       /\ IF life[p] = "freed"
          THEN failed' = "freedProvider" /\ UNCHANGED <<flag, unsure>>
          ELSE /\ flag' = [flag EXCEPT ![p] = sum[t]]
               /\ unsure' = IF t \in alone THEN unsure \ {p} ELSE unsure \cup {p}
               /\ UNCHANGED failed
  /\ UNCHANGED <<changes, dispatch, life, bits, torn, ring, exit, controllerMutex>>

FlagsPassedOn(t) ==
  /\ pc[t] = "spread" /\ left[t] = {}
  /\ controllerMutex' = None
  /\ pc' = [pc EXCEPT ![t] = "idle"] /\ whose' = [whose EXCEPT ![t] = None]
  /\ UNCHANGED <<objects, dispatch, ring, exit, sum, left, failed, alone, unsure>>

-----------------------------------------------------------------------------
(* LemonNewTraceMessage, LemonTraceWrite and LemonTrace: a message of flags the
   provider has, pushed onto the front.  A ring buffer that is full gives up its
   oldest block, which the code asserts never happens (service.cpp:62). *)
Trace(p, f, length) ==
  /\ life[p] = "open" /\ ~exit /\ f \subseteq flag[p]
  /\ IF Len(ring) = MaxCache
     THEN failed' = "ringFull" /\ UNCHANGED ring
     ELSE ring' = <<[flag |-> f, length |-> length]>> \o ring /\ UNCHANGED failed
  /\ UNCHANGED <<objects, changes, dispatch, exit, controllerMutex, left, unsure>>

(* Service::Dispatch takes the newest message; Load leaves the offset of the
   message object where the last consumer left it. *)
Dispatch ==
  /\ dispatchAt = "loop" /\ ~exit /\ ring # <<>>
  /\ message' = [message EXCEPT !.flag = Head(ring).flag, !.length = Head(ring).length]
  /\ ring' = Tail(ring)
  /\ dispatchAt' = "loaded"
  /\ UNCHANGED <<objects, changes, exit, controllerMutex, left, current, calling,
                 failed, unsure, sought>>

LockControllers ==
  /\ dispatchAt = "loaded" /\ controllerMutex = None
  /\ controllerMutex' = Dispatcher
  /\ left' = [left EXCEPT ![Dispatcher] = Open(Controllers)]
  /\ dispatchAt' = "controllers"
  /\ UNCHANGED <<objects, changes, ring, exit, message, current, calling, failed,
                 unsure, sought>>

(* The controllers that want the message: their OnMessage takes their
   _consumersMutex and goes over the consumers. *)
NextController ==
  /\ dispatchAt = "controllers" /\ current = None
  /\ \E c \in left[Dispatcher] :
       /\ current' = IF message.flag \subseteq bits[c] THEN c ELSE None
       /\ left' = [left EXCEPT ![Dispatcher] =
            (@ \ {c}) \cup (IF message.flag \subseteq bits[c]
                            THEN {k \in Open(Consumers) : Of[k] = c} ELSE {})]
  /\ UNCHANGED <<objects, changes, ring, exit, controllerMutex, dispatchAt, message, calling,
                 failed, unsure, sought>>

CallConsumer ==
  /\ dispatchAt = "controllers" /\ calling = None
  /\ \E k \in left[Dispatcher] \cap Consumers :
       /\ calling' = k
       /\ left' = [left EXCEPT ![Dispatcher] = @ \ {k}]
  /\ UNCHANGED <<objects, changes, ring, exit, controllerMutex, dispatchAt, message, current,
                 failed, unsure, sought>>

(* In the callback: LemonTraceRead of up to n bytes, which asserts that the
   offset is within the message; LemonTraceSeek to the begin. *)
Read(n) ==
  /\ calling # None /\ dispatchAt = "controllers"
  /\ IF message.offset > message.length
     THEN failed' = "offset" /\ UNCHANGED message
     ELSE /\ message' = [message EXCEPT !.offset =
                           IF @ + n > message.length THEN message.length ELSE @ + n]
          /\ UNCHANGED failed
  /\ UNCHANGED <<objects, changes, ring, exit, controllerMutex, left, dispatchAt, current,
                 calling, unsure, sought>>

Seek(n) ==
  /\ calling # None /\ dispatchAt = "controllers"
  /\ message' = [message EXCEPT !.offset = IF n > message.length THEN message.length ELSE n]
  /\ sought' = TRUE
  /\ UNCHANGED <<objects, changes, ring, exit, controllerMutex, left, dispatchAt, current,
                 calling, failed, unsure>>

(* OpenTrace, CloseTrace, or closing a consumer or controller of the chain, from
   within the callback: the dispatch thread waits for a mutex it holds. *)
CallBack ==
  /\ calling # None /\ dispatchAt = "controllers"
  /\ dispatchAt' = "stuck"
  /\ UNCHANGED <<objects, changes, ring, exit, controllerMutex, left, message,
                 current, calling, failed, unsure, sought>>

Return ==
  /\ calling # None /\ dispatchAt = "controllers"
  /\ calling' = None /\ sought' = FALSE
  /\ UNCHANGED <<objects, changes, ring, exit, controllerMutex, left, dispatchAt, message,
                 current, failed, unsure>>

ControllerDone ==
  /\ current # None /\ calling = None /\ left[Dispatcher] \cap Consumers = {}
  /\ current' = None
  /\ UNCHANGED <<objects, changes, ring, exit, controllerMutex, left, dispatchAt, message,
                 calling, failed, unsure, sought>>

Delivered ==
  /\ dispatchAt = "controllers" /\ current = None /\ left[Dispatcher] = {}
  /\ controllerMutex' = None
  /\ dispatchAt' = "loop"
  /\ UNCHANGED <<objects, changes, ring, exit, left, message, current, calling,
                 failed, unsure, sought>>

(* ~Service, after everything that refers to it is closed: messages that have
   not been dispatched are lost. *)
CloseService ==
  /\ ~exit /\ Changing = {} /\ Open(Things) = {}
  /\ exit' = TRUE
  /\ UNCHANGED <<objects, changes, dispatch, ring, controllerMutex, left, failed,
                 unsure>>

DispatchEnds ==
  /\ dispatchAt = "loop" /\ exit
  /\ dispatchAt' = "joined"
  /\ UNCHANGED <<objects, changes, ring, exit, controllerMutex, left, message,
                 current, calling, failed, unsure, sought>>

-----------------------------------------------------------------------------
TraceNext ==
  /\ failed = None
  /\ \/ \E c \in Controllers : CreateController(c) \/ CloseController(c)
     \/ \E p \in Providers : CreateProvider(p) \/ CloseProvider(p)
     \/ \E k \in Consumers : CreateConsumer(k) \/ CloseConsumer(k)
     \/ \E t \in App, c \in Controllers, f \in SUBSET Bits :
           f # {} /\ (OpenTrace(t, c, f) \/ CloseTrace(t, c, f))
     \/ \E t \in App : \/ OnFlagChanged(t) \/ QueryFlag(t) \/ Collected(t)
                       \/ StartSpread(t) \/ Spread(t) \/ FlagsPassedOn(t)
     \/ \E p \in Providers, f \in SUBSET Bits, n \in 0 .. MaxLength :
           f # {} /\ Trace(p, f, n)
     \/ Dispatch \/ LockControllers \/ NextController \/ CallConsumer
     \/ \E n \in 1 .. MaxLength : Read(n)
     \/ \E n \in 0 .. MaxLength : Seek(n)
     \/ CallBack \/ Return \/ ControllerDone \/ Delivered
     \/ CloseService \/ DispatchEnds

TraceSpec == TraceInit /\ [][TraceNext]_traceVars

-----------------------------------------------------------------------------
(* A callback never runs, and no loop of the dispatch thread stands, at a consumer
   or controller that has been closed: closing waits for the mutexes the dispatch
   thread holds, in whatever order messages and closings come.  The loop that
   passes flags on has no such protection: it has a freed provider before it just
   where one was closed under it. *)
ClosedIsQuiet ==
  /\ \A x \in {current, calling} \ {None} : life[x] = "open"
  /\ calling # None => life[Of[calling]] = "open"
  /\ \A x \in left[Dispatcher] : life[x] = "open"
  /\ \A t \in Changing : \A x \in left[t] : life[x] = "open" \/ x \in torn

(* Once no call of OpenTrace or CloseTrace is under way, a provider has exactly
   the flags that some open controller has, unless it was registered or a
   controller was closed while flags were open and none were changed since, or
   the latest changes overlapped. *)
FlagsAgree ==
  Changing = {} => \A p \in Open(Providers) \ unsure : flag[p] = OpenBits

(* A callback that calls LemonTraceSeek before it reads is within the message,
   wherever the consumers before it left the offset (message.cpp:56). *)
SoughtIsWithin == sought => message.offset <= message.length

(* What can go wrong does so for these reasons only: a provider closed while flags
   are passed on; providers that have put MaxCache messages in the ring before the
   dispatch thread takes one (service.cpp:62 asserts they never do); a callback
   that reads where an earlier, longer message was left. *)
FailuresNamed ==
  /\ failed = "freedProvider" => torn # {}
  /\ failed = "ringFull" => Len(ring) = MaxCache
  /\ failed = "offset" => calling # None /\ ~sought
  /\ failed \in {None, "freedProvider", "ringFull", "offset"}

(* Together: the dispatch thread, the application's threads and the closing of
   objects do not disturb each other but in the ways that are named. *)
TraceIsConsistent ==
  ClosedIsQuiet /\ FlagsAgree /\ SoughtIsWithin /\ FailuresNamed
=============================================================================
