---------------------------- MODULE TraceProofs ----------------------------
(* The trace service keeps callbacks away from closed objects and gives providers
   the flags that are open, for any threads, controllers, providers, consumers,
   flags and bounds. *)
EXTENDS Trace, TLAPS

TraceTypeOK ==
  /\ life \in [Things -> {"none", "open", "freed"}]
  /\ bits \in [Controllers -> SUBSET Bits] /\ flag \in [Providers -> SUBSET Bits]
  /\ controllerMutex \in Threads \cup {None}
  /\ pc \in [App -> {"idle", "changed", "collect", "collected", "spread"}]
  /\ whose \in [App -> Controllers \cup {None}]
  /\ sum \in [App -> SUBSET Bits] /\ left \in [Threads -> SUBSET Things]
  /\ dispatchAt \in {"loop", "loaded", "controllers", "stuck", "joined"}
  /\ current \in Controllers \cup {None} /\ calling \in Consumers \cup {None}

(* Who holds _controllerMutex. *)
MutexHeld ==
  /\ \A t \in App : pc[t] \in {"collect", "spread"} <=> controllerMutex = t
  /\ dispatchAt \in {"controllers", "stuck"} <=> controllerMutex = Dispatcher

(* What the loops over controllers, consumers and providers have before them. *)
LoopOf(t) ==
  /\ pc[t] = "collect" => left[t] \subseteq Open(Controllers)
  /\ pc[t] = "spread" => left[t] \subseteq Open(Providers) \cup torn
  /\ pc[t] \notin {"collect", "spread"} => left[t] = {}
AppLoops ==
  /\ torn \subseteq Providers /\ \A p \in torn : life[p] = "freed"
  /\ \A t \in App : LoopOf(t)
DispatchLoop ==
  /\ left[Dispatcher] \subseteq Open(Controllers \cup Consumers)
  /\ \A k \in left[Dispatcher] \cap Consumers : current = Of[k]
  /\ current # None => life[current] = "open"
  /\ calling # None => life[calling] = "open" /\ current = Of[calling]
  /\ controllerMutex # Dispatcher => left[Dispatcher] = {} /\ current = None

(* A change of flags is alone until another one starts or a controller goes. *)
AloneIsAlone == \A t \in alone : alone = {t} /\ t \in App /\ Changing \subseteq {t}

(* Then the union it works out is that of the flags that are open. *)
BitsOf(S) == UNION {bits[c] : c \in S}
SumsRight ==
  /\ \A c \in Controllers : life[c] = "none" => bits[c] = {}
  /\ \A p \in Providers : life[p] = "none" => flag[p] = {}
  /\ \A t \in alone :
       /\ pc[t] = "collect" => sum[t] \cup BitsOf(left[t]) = OpenBits
       /\ pc[t] \in {"collected", "spread"} => sum[t] = OpenBits

(* A provider has the flags that are open, or a change will still come to it. *)
Coming(t, p) == pc[t] \in {"changed", "collect", "collected"} \/ p \in left[t]
FlagsComing == \A p \in Open(Providers) \ unsure :
  /\ Changing = {} => flag[p] = OpenBits
  /\ \A t \in alone : pc[t] = "spread" /\ p \notin left[t] => flag[p] = OpenBits
  /\ alone = {} /\ Changing # {} => \E t \in Changing : Coming(t, p)

(* A callback that has sought is within the message, which only the dispatch thread
   loads, between two callbacks. *)
MessageTypeOK ==
  /\ ring \in Seq([flag : SUBSET Bits, length : Nat])
  /\ message \in [flag : SUBSET Bits, length : Nat, offset : Nat]
  /\ sought \in BOOLEAN
MessageRight ==
  /\ MessageTypeOK /\ FailuresNamed
  /\ sought => calling # None /\ message.offset <= message.length

TraceInv == /\ TraceTypeOK /\ MutexHeld /\ AppLoops /\ DispatchLoop /\ MessageRight
            /\ AloneIsAlone /\ SumsRight /\ FlagsComing

LEMMA InitTrace == TraceInit => TraceInv
<1> SUFFICES ASSUME TraceInit PROVE TraceInv
  OBVIOUS
<1> USE TraceAssumption DEF TraceAssumption
<1>1. TraceTypeOK
  BY DEF TraceInit, TraceTypeOK, Threads, Things
<1>2. MutexHeld
  BY DEF TraceInit, MutexHeld
<1>3. AppLoops /\ DispatchLoop
  BY DEF TraceInit, AppLoops, LoopOf, DispatchLoop, Threads
<1>4. AloneIsAlone /\ SumsRight
  BY DEF TraceInit, AloneIsAlone, SumsRight, Things
<1>5. Open(Providers) = {}
  BY DEF TraceInit, Open, Things
<1>6. FlagsComing
  BY <1>5 DEF FlagsComing
<1>7. MessageRight
  <2>1. ring = <<>> /\ sought = FALSE /\ failed = None
        /\ message = [flag |-> {}, length |-> 0, offset |-> 0]
    BY DEF TraceInit
  <2>2. ring \in Seq([flag : SUBSET Bits, length : Nat])
    BY <2>1
  <2>3. message \in [flag : SUBSET Bits, length : Nat, offset : Nat]
    BY <2>1
  <2> QED BY <2>1, <2>2, <2>3 DEF MessageRight, MessageTypeOK, FailuresNamed
<1> QED
  BY <1>1, <1>2, <1>3, <1>4, <1>6, <1>7 DEF TraceInv

LEMMA TypeStep ==
  ASSUME TraceTypeOK, AppLoops, DispatchLoop, TraceNext PROVE TraceTypeOK'
<1> USE TraceAssumption DEF TraceAssumption, TraceTypeOK, objects, changes, dispatch
<1>1. ASSUME NEW c \in Controllers, CreateController(c) \/ CloseController(c)
      PROVE  TraceTypeOK'
  BY <1>1 DEF CreateController, CloseController
<1>2. ASSUME NEW p \in Providers, CreateProvider(p) PROVE TraceTypeOK'
  <2>1. left' \in [Threads -> SUBSET Things]
    BY <1>2 DEF CreateProvider, Things
  <2> QED BY <1>2, <2>1 DEF CreateProvider, Things
<1>3. ASSUME NEW p \in Providers, CloseProvider(p) PROVE TraceTypeOK'
  <2>1. left' \in [Threads -> SUBSET Things]
    BY <1>3 DEF CloseProvider
  <2> QED BY <1>3, <2>1 DEF CloseProvider
<1>4. ASSUME NEW k \in Consumers, CreateConsumer(k) \/ CloseConsumer(k)
      PROVE  TraceTypeOK'
  BY <1>4 DEF CreateConsumer, CloseConsumer
<1>5. ASSUME NEW t \in App, NEW c \in Controllers, NEW f \in SUBSET Bits,
             OpenTrace(t, c, f) \/ CloseTrace(t, c, f)
      PROVE  TraceTypeOK'
  <2>1. PICK new \in SUBSET Bits : Change(t, c, new)
    <3>1. bits[c] \cup f \in SUBSET Bits /\ SymmetricDifference(bits[c], f) \in SUBSET Bits
      BY DEF SymmetricDifference
    <3> QED BY <1>5, <3>1 DEF OpenTrace, CloseTrace
  <2> QED BY <2>1 DEF Change
<1>6. ASSUME NEW t \in App, OnFlagChanged(t) \/ StartSpread(t) PROVE TraceTypeOK'
  <2>1. left' \in [Threads -> SUBSET Things]
    BY <1>6 DEF OnFlagChanged, StartSpread, Open, Things, Threads
  <2> QED BY <1>6, <2>1 DEF OnFlagChanged, StartSpread, Threads
<1>7. ASSUME NEW t \in App, QueryFlag(t) PROVE TraceTypeOK'
  <2>0. t \in Threads
    BY DEF Threads
  <2>1. PICK c \in left[t] : /\ sum' = [sum EXCEPT ![t] = WithFlagsOf(t, c)]
                             /\ left' = [left EXCEPT ![t] = @ \ {c}]
    BY <1>7 DEF QueryFlag
  <2>2. c \in Controllers
    BY <1>7, <2>1 DEF QueryFlag, AppLoops, LoopOf, Open
  <2>3. WithFlagsOf(t, c) \in SUBSET Bits
    BY <2>2 DEF WithFlagsOf
  <2> QED BY <1>7, <2>0, <2>1, <2>3 DEF QueryFlag
<1>8. ASSUME NEW t \in App, Collected(t) \/ FlagsPassedOn(t) PROVE TraceTypeOK'
  BY <1>8 DEF Collected, FlagsPassedOn
<1>9. ASSUME NEW t \in App, Spread(t) PROVE TraceTypeOK'
  <2>1. PICK p \in left[t] : /\ \/ flag' = flag
                                \/ flag' = [flag EXCEPT ![p] = sum[t]]
                             /\ left' = [left EXCEPT ![t] = @ \ {p}]
    BY <1>9 DEF Spread
  <2> QED BY <1>9, <2>1 DEF Spread, Threads
<1>10. ASSUME NEW p \in Providers, NEW f, NEW n, Trace(p, f, n) PROVE TraceTypeOK'
  BY <1>10 DEF Trace
<1>11. CASE Dispatch \/ Return \/ CallBack \/ ControllerDone \/ Delivered
            \/ CloseService \/ DispatchEnds
  BY <1>11 DEF Dispatch, Return, CallBack, ControllerDone, Delivered, CloseService,
               DispatchEnds
<1>12. CASE LockControllers
  <2>1. left' \in [Threads -> SUBSET Things]
    BY <1>12 DEF LockControllers, Open, Things, Threads
  <2> QED BY <1>12, <2>1 DEF LockControllers, Threads
<1>13. CASE NextController
  <2>1. left' \in [Threads -> SUBSET Things]
    BY <1>13 DEF NextController, Open, Things, Threads
  <2>2. current' \in Controllers \cup {None}
    BY <1>13 DEF NextController, DispatchLoop, Open
  <2> QED BY <1>13, <2>1, <2>2 DEF NextController
<1>14. CASE CallConsumer
  <2>1. left' \in [Threads -> SUBSET Things] /\ calling' \in Consumers
    BY <1>14 DEF CallConsumer, Threads
  <2> QED BY <1>14, <2>1 DEF CallConsumer
<1>15. ASSUME NEW n, Read(n) \/ Seek(n) PROVE TraceTypeOK'
  BY <1>15 DEF Read, Seek
<1> QED
  BY <1>1, <1>2, <1>3, <1>4, <1>5, <1>6, <1>7, <1>8, <1>9, <1>10, <1>11, <1>12,
     <1>13, <1>14, <1>15 DEF TraceNext

LEMMA MutexStep ==
  ASSUME TraceTypeOK, MutexHeld, TraceNext PROVE MutexHeld'
<1> USE TraceAssumption DEF TraceAssumption, TraceTypeOK, MutexHeld, Threads,
                            objects, changes, dispatch
<1>1. ASSUME NEW c \in Controllers, CreateController(c) \/ CloseController(c)
      PROVE  MutexHeld'
  BY <1>1 DEF CreateController, CloseController
<1>2. ASSUME NEW p \in Providers, CreateProvider(p) \/ CloseProvider(p)
      PROVE  MutexHeld'
  BY <1>2 DEF CreateProvider, CloseProvider
<1>3. ASSUME NEW k \in Consumers, CreateConsumer(k) \/ CloseConsumer(k)
      PROVE  MutexHeld'
  BY <1>3 DEF CreateConsumer, CloseConsumer
<1>4. ASSUME NEW t \in App, NEW c \in Controllers, NEW f,
             OpenTrace(t, c, f) \/ CloseTrace(t, c, f)
      PROVE  MutexHeld'
  <2>1. pc[t] = "idle" /\ pc' = [pc EXCEPT ![t] = "changed"]
        /\ UNCHANGED <<controllerMutex, dispatchAt>>
    BY <1>4 DEF OpenTrace, CloseTrace, Change
  <2> QED BY <2>1
<1>5. ASSUME NEW t \in App, OnFlagChanged(t) \/ StartSpread(t) PROVE MutexHeld'
  BY <1>5 DEF OnFlagChanged, StartSpread
<1>6. ASSUME NEW t \in App, Collected(t) \/ FlagsPassedOn(t) PROVE MutexHeld'
  BY <1>6 DEF Collected, FlagsPassedOn
<1>7. ASSUME NEW t \in App, QueryFlag(t) \/ Spread(t) PROVE MutexHeld'
  BY <1>7 DEF QueryFlag, Spread
<1>8. ASSUME NEW p, NEW f, NEW n, Trace(p, f, n) PROVE MutexHeld'
  BY <1>8 DEF Trace
<1>9. CASE LockControllers
  BY <1>9 DEF LockControllers
<1>10. CASE Delivered
  BY <1>10 DEF Delivered
<1>11. CASE Dispatch \/ NextController \/ CallConsumer \/ Return \/ CallBack
            \/ ControllerDone \/ CloseService \/ DispatchEnds
  BY <1>11 DEF Dispatch, NextController, CallConsumer, Return, CallBack,
               ControllerDone, CloseService, DispatchEnds
<1>12. ASSUME NEW n, Read(n) \/ Seek(n) PROVE MutexHeld'
  BY <1>12 DEF Read, Seek
<1> QED
  BY <1>1, <1>2, <1>3, <1>4, <1>5, <1>6, <1>7, <1>8, <1>9, <1>10, <1>11, <1>12
  DEF TraceNext

(* Nothing a loop has before it is closed, since closing it waits. *)
LEMMA LoopsStep ==
  ASSUME TraceTypeOK, MutexHeld, AppLoops, DispatchLoop, TraceNext
  PROVE  AppLoops' /\ DispatchLoop'
<1> USE TraceAssumption DEF TraceAssumption, TraceTypeOK, MutexHeld, AppLoops, LoopOf,
                            DispatchLoop, Threads, objects, changes, dispatch, Open
<1>1. ASSUME NEW c \in Controllers, CreateController(c)
      PROVE  AppLoops' /\ DispatchLoop'
  BY <1>1 DEF CreateController
<1>2. ASSUME NEW c \in Controllers, CloseController(c)
      PROVE  AppLoops' /\ DispatchLoop'
  <2>1. \A t \in App : pc[t] # "collect"
    BY <1>2 DEF CloseController
  <2>2. AppLoops'
    BY <1>2, <2>1 DEF CloseController
  <2>3. left[Dispatcher] = {} /\ current = None /\ calling = None
    BY <1>2 DEF CloseController
  <2> QED BY <1>2, <2>2, <2>3 DEF CloseController
<1>3. ASSUME NEW p \in Providers, CreateProvider(p)
      PROVE  AppLoops' /\ DispatchLoop'
  <2>1. PICK found \in SUBSET {t \in App : pc[t] = "spread"} :
          left' = [t \in Threads |-> IF t \in found THEN left[t] \cup {p} ELSE left[t]]
    BY <1>3 DEF CreateProvider
  <2>2. left'[Dispatcher] = left[Dispatcher]
    BY <2>1
  <2>3. ASSUME NEW t \in App
        PROVE  LoopOf(t)'
    <3>1. /\ left'[t] \subseteq left[t] \cup {p}
          /\ pc[t] # "spread" => left'[t] = left[t]
      BY <2>1
    <3>2. pc' = pc /\ life' = [life EXCEPT ![p] = "open"] /\ life[p] = "none"
      BY <1>3 DEF CreateProvider
    <3>3. p \in Things /\ torn' = torn
      BY <1>3 DEF Things, CreateProvider
    <3> QED BY <3>1, <3>2, <3>3
  <2>4. torn' \subseteq Providers /\ \A q \in torn' : life'[q] = "freed"
    BY <1>3 DEF CreateProvider
  <2>5. DispatchLoop'
    BY <1>3, <2>2 DEF CreateProvider
  <2> QED BY <2>3, <2>4, <2>5
<1>4. ASSUME NEW p \in Providers, CloseProvider(p)
      PROVE  AppLoops' /\ DispatchLoop'
  <2>0. PICK caught \in SUBSET {t \in App : pc[t] = "spread" /\ p \in left[t]} :
          /\ left' = [t \in Threads |-> IF t \in caught THEN left[t] ELSE left[t] \ {p}]
          /\ torn' = IF caught = {} THEN torn ELSE torn \cup {p}
    BY <1>4 DEF CloseProvider
  <2>1. left'[Dispatcher] = left[Dispatcher]
    BY <2>0
  <2>2. /\ pc' = pc /\ life' = [life EXCEPT ![p] = "freed"] /\ p \in Things
        /\ life[p] = "open"
    BY <1>4 DEF CloseProvider, Things
  <2>3. torn' \subseteq Providers /\ \A q \in torn' : life'[q] = "freed"
    BY <2>0, <2>2
  <2>4. ASSUME NEW t \in App PROVE LoopOf(t)'
    <3>1. CASE t \in caught
      BY <2>0, <2>2, <3>1
    <3>2. CASE t \notin caught
      <4>1. left'[t] = left[t] \ {p} /\ torn \subseteq torn'
        BY <2>0, <3>2
      <4>2. p \notin Controllers
        OBVIOUS
      <4> QED BY <2>2, <4>1, <4>2
    <3> QED BY <3>1, <3>2
  <2>5. DispatchLoop'
    BY <1>4, <2>1, <2>2 DEF CloseProvider
  <2> QED BY <2>3, <2>4, <2>5
<1>5. ASSUME NEW k \in Consumers, CreateConsumer(k)
      PROVE  AppLoops' /\ DispatchLoop'
  BY <1>5 DEF CreateConsumer
<1>6. ASSUME NEW k \in Consumers, CloseConsumer(k)
      PROVE  AppLoops' /\ DispatchLoop'
  <2>1. k \notin left[Dispatcher] /\ calling # k /\ current # k
    BY <1>6 DEF CloseConsumer, MayTouchConsumers, ConsumersFree
  <2> QED BY <1>6, <2>1 DEF CloseConsumer
<1>7. ASSUME NEW t \in App, NEW c \in Controllers, NEW f,
             OpenTrace(t, c, f) \/ CloseTrace(t, c, f)
      PROVE  AppLoops' /\ DispatchLoop'
  <2>1. /\ pc' = [pc EXCEPT ![t] = "changed"]
        /\ UNCHANGED <<life, left, current, calling, controllerMutex, torn>>
        /\ pc[t] = "idle"
    BY <1>7 DEF OpenTrace, CloseTrace, Change
  <2> QED BY <2>1
<1>8. ASSUME NEW t \in App, OnFlagChanged(t) \/ StartSpread(t)
      PROVE  AppLoops' /\ DispatchLoop'
  <2>1. left'[Dispatcher] = left[Dispatcher] /\ t # Dispatcher
        /\ UNCHANGED <<life, current, calling>>
        /\ controllerMutex = None /\ controllerMutex' # Dispatcher
    BY <1>8 DEF OnFlagChanged, StartSpread
  <2>2. DispatchLoop'
    BY <2>1
  <2>3. AppLoops'
    BY <1>8 DEF OnFlagChanged, StartSpread
  <2> QED BY <2>2, <2>3
<1>9. ASSUME NEW t \in App, Collected(t) \/ FlagsPassedOn(t)
      PROVE  AppLoops' /\ DispatchLoop'
  <2>1. controllerMutex = t /\ controllerMutex' # Dispatcher /\ t # Dispatcher
        /\ UNCHANGED <<life, left, current, calling>>
    BY <1>9 DEF Collected, FlagsPassedOn
  <2>2. DispatchLoop'
    BY <2>1
  <2>3. AppLoops'
    BY <1>9 DEF Collected, FlagsPassedOn
  <2> QED BY <2>2, <2>3
<1>10. ASSUME NEW t \in App, QueryFlag(t) \/ Spread(t)
       PROVE  AppLoops' /\ DispatchLoop'
  <2>1. PICK c : left' = [left EXCEPT ![t] = @ \ {c}]
    BY <1>10 DEF QueryFlag, Spread
  <2>2. UNCHANGED <<life, pc, current, calling, controllerMutex, torn>>
    BY <1>10 DEF QueryFlag, Spread
  <2>3. left'[Dispatcher] = left[Dispatcher]
    BY <2>1
  <2> QED BY <2>1, <2>2, <2>3
<1>11. ASSUME NEW p, NEW f, NEW n, Trace(p, f, n)
       PROVE  AppLoops' /\ DispatchLoop'
  BY <1>11 DEF Trace
<1>12. CASE LockControllers
  <2>1. \A t \in App : left'[t] = left[t]
    BY <1>12 DEF LockControllers
  <2>2. left'[Dispatcher] = Open(Controllers) /\ current = None /\ calling = None
    BY <1>12 DEF LockControllers
  <2> QED BY <1>12, <2>1, <2>2 DEF LockControllers
<1>13. CASE NextController
  <2>1. PICK c \in left[Dispatcher] :
         /\ current' = IF message.flag \subseteq bits[c] THEN c ELSE None
         /\ left' = [left EXCEPT ![Dispatcher] =
              (@ \ {c}) \cup (IF message.flag \subseteq bits[c]
                              THEN {k \in Open(Consumers) : Of[k] = c} ELSE {})]
    BY <1>13 DEF NextController
  <2>2. controllerMutex = Dispatcher /\ current = None /\ calling = None
        /\ UNCHANGED <<life, pc, calling, controllerMutex, torn>>
    BY <1>13 DEF NextController
  <2>3. left[Dispatcher] \subseteq Open(Controllers)
    BY <2>2
  <2>4. AppLoops'
    BY <2>1, <2>2
  <2>5. CASE message.flag \subseteq bits[c]
    <3>1. /\ current' = c
          /\ left'[Dispatcher] = (left[Dispatcher] \ {c})
                                 \cup {k \in Open(Consumers) : Of[k] = c}
      BY <2>1, <2>5
    <3> QED BY <2>1, <2>2, <2>3, <2>4, <3>1
  <2>6. CASE ~(message.flag \subseteq bits[c])
    <3>1. current' = None /\ left'[Dispatcher] = left[Dispatcher] \ {c}
      BY <2>1, <2>6
    <3> QED BY <2>1, <2>2, <2>3, <2>4, <3>1
  <2> QED BY <2>5, <2>6
<1>14. CASE CallConsumer
  <2>1. PICK k \in left[Dispatcher] \cap Consumers :
          calling' = k /\ left' = [left EXCEPT ![Dispatcher] = @ \ {k}]
    BY <1>14 DEF CallConsumer
  <2>2. UNCHANGED <<life, pc, current, controllerMutex, torn>>
    BY <1>14 DEF CallConsumer
  <2>3. current = Of[k] /\ life[k] = "open"
    BY <2>1
  <2>4. AppLoops'
    BY <2>1, <2>2
  <2>5. left'[Dispatcher] = left[Dispatcher] \ {k}
    BY <2>1
  <2> QED BY <2>1, <2>2, <2>3, <2>4, <2>5
<1>15. CASE Delivered
  BY <1>15 DEF Delivered
<1>16. CASE ControllerDone
  BY <1>16 DEF ControllerDone
<1>17. CASE Dispatch \/ Return \/ CallBack \/ CloseService \/ DispatchEnds
  BY <1>17 DEF Dispatch, Return, CallBack, CloseService, DispatchEnds
<1>18. ASSUME NEW n, Read(n) \/ Seek(n) PROVE AppLoops' /\ DispatchLoop'
  BY <1>18 DEF Read, Seek
<1> QED
  BY <1>1, <1>2, <1>3, <1>4, <1>5, <1>6, <1>7, <1>8, <1>9, <1>10, <1>11, <1>12,
     <1>13, <1>14, <1>15, <1>16, <1>17, <1>18 DEF TraceNext

-----------------------------------------------------------------------------
(* The flags: one lemma for each action that touches them. *)
FlagsInv == AloneIsAlone /\ SumsRight /\ FlagsComing

LEMMA FlagsFrame ==
  ASSUME FlagsInv, UNCHANGED <<bits, flag, pc, sum, alone, unsure>>,
         \A t \in App : left'[t] = left[t],
         \A x \in Controllers \cup Providers : life'[x] = life[x]
  PROVE  FlagsInv'
<1>1. UNCHANGED <<Open(Controllers), Open(Providers), Changing>>
  BY DEF Open, Changing
<1>2. UNCHANGED OpenBits
  BY <1>1 DEF OpenBits
<1>3. AloneIsAlone'
  BY <1>1 DEF FlagsInv, AloneIsAlone
<1>4. \A t \in alone : t \in App /\ UNCHANGED BitsOf(left[t])
  BY DEF FlagsInv, AloneIsAlone, BitsOf
<1>5. SumsRight'
  BY <1>2, <1>4 DEF FlagsInv, SumsRight
<1>6. \A p, t : t \in App => (Coming(t, p)' <=> Coming(t, p))
  BY DEF Coming
<1>7. FlagsComing'
  BY <1>1, <1>2, <1>4, <1>6 DEF FlagsInv, FlagsComing, Changing
<1> QED
  BY <1>3, <1>5, <1>7 DEF FlagsInv

(* While nobody has the mutex nobody is in a loop. *)
LEMMA NobodyLoops ==
  ASSUME MutexHeld, controllerMutex = None
  PROVE  \A t \in App : pc[t] \notin {"collect", "spread"}
  BY TraceAssumption DEF TraceAssumption, MutexHeld

LEMMA CreateControllerFlags ==
  ASSUME TraceTypeOK, FlagsInv, NEW c \in Controllers, CreateController(c)
  PROVE  FlagsInv'
<1> USE DEF CreateController, changes
<1>1. bits[c] = {} /\ c \notin Open(Controllers)
  BY DEF FlagsInv, SumsRight, Open
<1>2. /\ Open(Controllers)' = Open(Controllers) \cup {c}
      /\ Open(Providers)' = Open(Providers)
  BY TraceAssumption DEF TraceAssumption, Open, TraceTypeOK, Things
<1>3. OpenBits' = OpenBits /\ Changing' = Changing
  BY <1>1, <1>2 DEF OpenBits, Changing
<1>4. AloneIsAlone'
  BY <1>3 DEF FlagsInv, AloneIsAlone
<1>5. \A t : UNCHANGED BitsOf(left[t])
  BY DEF BitsOf
<1>6. \A x \in Controllers \cup Providers : life'[x] = "none" => life[x] = "none"
  BY DEF TraceTypeOK, Things
<1>7. SumsRight'
  BY <1>3, <1>5, <1>6 DEF FlagsInv, SumsRight
<1>8. FlagsComing'
  BY <1>2, <1>3 DEF FlagsInv, FlagsComing, Coming
<1> QED
  BY <1>4, <1>7, <1>8 DEF FlagsInv

LEMMA CloseControllerFlags ==
  ASSUME TraceTypeOK, MutexHeld, FlagsInv, NEW c \in Controllers, CloseController(c)
  PROVE  FlagsInv'
<1> USE DEF CloseController
<1>1. \A t \in App : pc[t] \notin {"collect", "spread"}
  BY NobodyLoops
<1>2. alone' = {} /\ Changing' = Changing
  BY DEF Changing
<1>3. AloneIsAlone'
  BY <1>2 DEF AloneIsAlone
<1>4. \A x \in Controllers \cup Providers : life'[x] = "none" => life[x] = "none"
  BY DEF TraceTypeOK, Things
<1>5. SumsRight'
  BY <1>2, <1>4 DEF FlagsInv, SumsRight
<1>6. Open(Controllers)' = Open(Controllers) \ {c} /\ Open(Providers)' = Open(Providers)
  BY TraceAssumption DEF TraceAssumption, Open, TraceTypeOK, Things
<1>7. bits[c] # {} => FlagsComing'
  BY <1>6 DEF FlagsComing
<1>8. ASSUME bits[c] = {} PROVE FlagsComing'
  <2>1. OpenBits' = OpenBits
    BY <1>6, <1>8 DEF OpenBits
  <2>2. unsure' = unsure /\ UNCHANGED <<flag, pc, left>>
    BY <1>8
  <2>3. ASSUME NEW p \in Open(Providers) \ unsure, Changing # {}
        PROVE  \E t \in Changing : Coming(t, p)
    <3>1. CASE alone = {}
      BY <2>3, <3>1 DEF FlagsInv, FlagsComing
    <3>2. CASE alone # {}
      <4>1. PICK t \in Changing : TRUE
        BY <2>3
      <4>2. pc[t] \in {"changed", "collected"}
        BY <1>1, <4>1 DEF Changing, TraceTypeOK
      <4> QED BY <4>2 DEF Coming
    <3> QED BY <3>1, <3>2
  <2>4. FlagsComing'
    BY <1>2, <1>6, <2>1, <2>2, <2>3 DEF FlagsInv, FlagsComing, Coming
  <2> QED BY <2>4
<1> QED
  BY <1>3, <1>5, <1>7, <1>8 DEF FlagsInv

LEMMA CreateProviderFlags ==
  ASSUME TraceTypeOK, FlagsInv, NEW p \in Providers, CreateProvider(p)
  PROVE  FlagsInv'
<1> USE DEF CreateProvider, changes
<1>1. Open(Controllers)' = Open(Controllers) /\ Open(Providers)' = Open(Providers) \cup {p}
  BY TraceAssumption DEF TraceAssumption, Open, TraceTypeOK, Things
<1>2. OpenBits' = OpenBits /\ Changing' = Changing
  BY <1>1 DEF OpenBits, Changing
<1>3. \A t \in App : /\ pc[t] # "spread" => left'[t] = left[t]
                     /\ left[t] \subseteq left'[t] /\ left'[t] \subseteq left[t] \cup {p}
  BY DEF Threads
<1>4. AloneIsAlone'
  BY <1>2 DEF FlagsInv, AloneIsAlone
<1>5. \A t \in alone : t \in App /\ (pc[t] = "collect" => UNCHANGED BitsOf(left[t]))
  <2> SUFFICES ASSUME NEW t \in alone
               PROVE  t \in App /\ (pc[t] = "collect" => UNCHANGED BitsOf(left[t]))
    OBVIOUS
  <2>1. t \in App
    BY DEF FlagsInv, AloneIsAlone
  <2>2. ASSUME pc[t] = "collect" PROVE UNCHANGED BitsOf(left[t])
    <3>1. left'[t] = left[t]
      BY <1>3, <2>1, <2>2
    <3>2. bits' = bits
      OBVIOUS
    <3> QED
      BY <3>1, <3>2 DEF BitsOf
  <2> QED BY <2>1, <2>2
<1>6. \A x \in Controllers \cup Providers : life'[x] = "none" => life[x] = "none"
  BY DEF TraceTypeOK, Things
<1>7. SumsRight'
  BY <1>2, <1>5, <1>6 DEF FlagsInv, SumsRight
<1>8. ASSUME NEW q \in Open(Providers)' \ unsure'
      PROVE  /\ Changing' = {} => flag'[q] = OpenBits'
             /\ \A t \in alone' : pc'[t] = "spread" /\ q \notin left'[t] => flag'[q] = OpenBits'
             /\ alone' = {} /\ Changing' # {} => \E t \in Changing' : Coming(t, q)'
  <2>1. CASE q = p
    <3>1. OpenBits = {} /\ Changing = {} /\ life[p] = "none"
      BY <1>8, <2>1
    <3>2. flag[p] = {}
      BY <3>1 DEF FlagsInv, SumsRight
    <3> QED BY <1>2, <2>1, <3>1, <3>2
  <2>2. CASE q # p
    <3>1. q \in Open(Providers) \ unsure
      BY <1>1, <1>8, <2>2
    <3>2. \A t \in App : Coming(t, q)' <=> Coming(t, q)
      BY <1>3, <2>2 DEF Coming
    <3>3. \A t \in alone : t \in App /\ (q \notin left'[t] => q \notin left[t])
      BY <1>3, <1>5
    <3> QED BY <1>2, <3>1, <3>2, <3>3 DEF FlagsInv, FlagsComing, Changing
  <2> QED BY <2>1, <2>2
<1>9. FlagsComing'
  BY <1>8 DEF FlagsComing
<1> QED
  BY <1>4, <1>7, <1>9 DEF FlagsInv

LEMMA CloseProviderFlags ==
  ASSUME TraceTypeOK, AppLoops, FlagsInv, NEW p \in Providers, CloseProvider(p)
  PROVE  FlagsInv'
<1> USE DEF CloseProvider, changes
<1>1. Open(Controllers)' = Open(Controllers) /\ Open(Providers)' = Open(Providers) \ {p}
  BY TraceAssumption DEF TraceAssumption, Open, TraceTypeOK, Things
<1>2. OpenBits' = OpenBits /\ Changing' = Changing
  BY <1>1 DEF OpenBits, Changing
<1>3. \A t \in App : left'[t] \subseteq left[t] /\ left[t] \subseteq left'[t] \cup {p}
  BY DEF Threads
<1>4. AloneIsAlone'
  BY <1>2 DEF FlagsInv, AloneIsAlone
<1>5. ASSUME NEW t \in alone
      PROVE  t \in App /\ (pc[t] = "collect" => UNCHANGED BitsOf(left[t]))
  <2>1. t \in App
    BY DEF FlagsInv, AloneIsAlone
  <2>2. ASSUME pc[t] = "collect" PROVE p \notin left[t]
    <3>1. left[t] \subseteq Controllers
      BY <2>1, <2>2 DEF AppLoops, LoopOf, Open
    <3> QED BY <3>1, TraceAssumption DEF TraceAssumption
  <2>3. ASSUME pc[t] = "collect" PROVE left'[t] = left[t]
    <3>1. p \notin left[t] /\ left'[t] \subseteq left[t] /\ left[t] \subseteq left'[t] \cup {p}
      BY <1>3, <2>1, <2>2, <2>3
    <3> QED BY <3>1
  <2>4. ASSUME pc[t] = "collect" PROVE UNCHANGED BitsOf(left[t])
    BY <2>3, <2>4 DEF BitsOf
  <2> QED BY <2>1, <2>4
<1>6. \A x \in Controllers \cup Providers : life'[x] = "none" => life[x] = "none"
  BY DEF TraceTypeOK, Things
<1>7. SumsRight'
  BY <1>2, <1>5, <1>6 DEF FlagsInv, SumsRight
<1>8. ASSUME NEW q \in Open(Providers)' \ unsure'
      PROVE  /\ Changing' = {} => flag'[q] = OpenBits'
             /\ \A t \in alone' : pc'[t] = "spread" /\ q \notin left'[t] => flag'[q] = OpenBits'
             /\ alone' = {} /\ Changing' # {} => \E t \in Changing' : Coming(t, q)'
  <2>1. q \in Open(Providers) \ unsure /\ q # p
    BY <1>1, <1>8
  <2>2. \A t \in App : Coming(t, q)' <=> Coming(t, q)
    BY <1>3, <2>1 DEF Coming
  <2>3. \A t \in alone : t \in App /\ (q \notin left'[t] => q \notin left[t])
    BY <1>3, <1>5, <2>1
  <2> QED BY <1>2, <2>1, <2>2, <2>3 DEF FlagsInv, FlagsComing, Changing
<1>9. FlagsComing'
  BY <1>8 DEF FlagsComing
<1> QED
  BY <1>4, <1>7, <1>9 DEF FlagsInv

LEMMA ChangeFlags ==
  ASSUME TraceTypeOK, FlagsInv, NEW t \in App, NEW c \in Controllers, NEW new,
         Change(t, c, new)
  PROVE  FlagsInv'
<1> USE DEF Change
<1>1. Changing' = Changing \cup {t} /\ t \notin Changing
  BY DEF Changing, TraceTypeOK
<1>2. pc'[t] = "changed" /\ alone' \subseteq {t}
      /\ (alone' # {} => Changing = {})
  BY DEF TraceTypeOK
<1>3. AloneIsAlone'
  BY <1>1, <1>2 DEF AloneIsAlone
<1>4. SumsRight'
  BY <1>2 DEF FlagsInv, SumsRight, TraceTypeOK
<1>5. FlagsComing'
  BY <1>1, <1>2 DEF FlagsComing, Coming
<1> QED
  BY <1>3, <1>4, <1>5 DEF FlagsInv

LEMMA OnFlagChangedFlags ==
  ASSUME TraceTypeOK, FlagsInv, NEW t \in App, OnFlagChanged(t)
  PROVE  FlagsInv'
<1> USE DEF OnFlagChanged, objects
<1>1. /\ Changing' = Changing /\ t \in Changing
      /\ UNCHANGED <<OpenBits, Open(Controllers), Open(Providers)>>
  BY DEF Changing, TraceTypeOK, OpenBits, Open
<1>2. AloneIsAlone'
  BY <1>1 DEF FlagsInv, AloneIsAlone
<1>3. ASSUME NEW u \in alone, u # t
      PROVE  u \in App /\ UNCHANGED <<pc[u], sum[u], left[u]>> /\ UNCHANGED BitsOf(left[u])
  BY <1>3 DEF FlagsInv, AloneIsAlone, BitsOf, Threads
<1>4. /\ pc'[t] = "collect" /\ sum'[t] = {} /\ left'[t] = Open(Controllers)
      /\ BitsOf(left[t])' = OpenBits
  BY <1>1 DEF TraceTypeOK, Threads, BitsOf, OpenBits
<1>5. SumsRight'
  BY <1>1, <1>3, <1>4 DEF FlagsInv, SumsRight
<1>6. \A p, u : u \in App /\ Coming(u, p) => Coming(u, p)'
  BY <1>4 DEF Coming, Threads, TraceTypeOK
<1>7. FlagsComing'
  BY <1>1, <1>3, <1>4, <1>6 DEF FlagsInv, FlagsComing, Changing
<1> QED
  BY <1>2, <1>5, <1>7 DEF FlagsInv

LEMMA QueryFlagFlags ==
  ASSUME TraceTypeOK, AppLoops, FlagsInv, NEW t \in App, QueryFlag(t)
  PROVE  FlagsInv'
<1> USE DEF QueryFlag, objects
<1>1. PICK c \in left[t] : /\ sum' = [sum EXCEPT ![t] = WithFlagsOf(t, c)]
                           /\ left' = [left EXCEPT ![t] = @ \ {c}]
  OBVIOUS
<1>2. UNCHANGED <<Changing, OpenBits, Open(Controllers), Open(Providers)>>
  BY DEF Changing, OpenBits, Open
<1>3. AloneIsAlone'
  BY <1>2 DEF FlagsInv, AloneIsAlone
<1>4. sum'[t] = sum[t] \cup bits[c] /\ left'[t] = left[t] \ {c}
  BY <1>1 DEF TraceTypeOK, WithFlagsOf, Threads
<1>5. sum'[t] \cup BitsOf(left[t])' = sum[t] \cup BitsOf(left[t])
  BY <1>4 DEF BitsOf
<1>6. ASSUME NEW u \in alone, u # t
      PROVE  u \in App /\ UNCHANGED <<pc[u], sum[u], left[u]>> /\ UNCHANGED BitsOf(left[u])
  BY <1>1, <1>6 DEF FlagsInv, AloneIsAlone, BitsOf, Threads
<1>7. SumsRight'
  BY <1>2, <1>5, <1>6 DEF FlagsInv, SumsRight
<1>8. \A p, u : u \in App /\ Coming(u, p) => Coming(u, p)'
  BY <1>1 DEF Coming, Threads, TraceTypeOK
<1>9. FlagsComing'
  BY <1>2, <1>6, <1>8 DEF FlagsInv, FlagsComing, Changing
<1> QED
  BY <1>3, <1>7, <1>9 DEF FlagsInv

LEMMA CollectedFlags ==
  ASSUME TraceTypeOK, FlagsInv, NEW t \in App, Collected(t)
  PROVE  FlagsInv'
<1> USE DEF Collected, objects
<1>1. UNCHANGED <<OpenBits, Open(Controllers), Open(Providers)>> /\ Changing' = Changing
  BY DEF Changing, OpenBits, Open, TraceTypeOK
<1>2. AloneIsAlone'
  BY <1>1 DEF FlagsInv, AloneIsAlone
<1>3. t \in alone => sum[t] = OpenBits
  BY DEF FlagsInv, SumsRight, BitsOf
<1>4. ASSUME NEW u \in alone, u # t
      PROVE  u \in App /\ UNCHANGED <<pc[u], sum[u], left[u]>> /\ UNCHANGED BitsOf(left[u])
  BY <1>4 DEF FlagsInv, AloneIsAlone, BitsOf
<1>5. pc'[t] = "collected"
  BY DEF TraceTypeOK
<1>6. SumsRight'
  BY <1>1, <1>3, <1>4, <1>5 DEF FlagsInv, SumsRight
<1>7. \A p, u : u \in App /\ Coming(u, p) => Coming(u, p)'
  BY DEF Coming, TraceTypeOK
<1>8. FlagsComing'
  BY <1>1, <1>4, <1>5, <1>7 DEF FlagsInv, FlagsComing, Changing
<1> QED
  BY <1>2, <1>6, <1>8 DEF FlagsInv

LEMMA StartSpreadFlags ==
  ASSUME TraceTypeOK, FlagsInv, NEW t \in App, StartSpread(t)
  PROVE  FlagsInv'
<1> USE DEF StartSpread, objects
<1>1. UNCHANGED <<OpenBits, Open(Controllers), Open(Providers)>> /\ Changing' = Changing
  BY DEF Changing, OpenBits, Open, TraceTypeOK
<1>2. AloneIsAlone'
  BY <1>1 DEF FlagsInv, AloneIsAlone
<1>3. pc'[t] = "spread" /\ left'[t] = Open(Providers)
  BY DEF TraceTypeOK, Threads
<1>4. ASSUME NEW u \in alone, u # t
      PROVE  u \in App /\ UNCHANGED <<pc[u], sum[u], left[u]>> /\ UNCHANGED BitsOf(left[u])
  BY <1>4 DEF FlagsInv, AloneIsAlone, BitsOf, Threads
<1>5. SumsRight'
  BY <1>1, <1>3, <1>4 DEF FlagsInv, SumsRight
<1>6. \A p \in Open(Providers), u \in App : Coming(u, p) => Coming(u, p)'
  BY <1>3 DEF Coming, Threads, TraceTypeOK
<1>7. FlagsComing'
  BY <1>1, <1>3, <1>4, <1>6 DEF FlagsInv, FlagsComing, Changing
<1> QED
  BY <1>2, <1>5, <1>7 DEF FlagsInv

LEMMA SpreadFlags ==
  ASSUME TraceTypeOK, AppLoops, FlagsInv, NEW t \in App, Spread(t)
  PROVE  FlagsInv'
<1> USE DEF Spread, changes
<1>1. PICK p \in left[t] :
        /\ left' = [left EXCEPT ![t] = @ \ {p}]
        /\ IF life[p] = "freed" THEN UNCHANGED <<flag, unsure>>
           ELSE /\ flag' = [flag EXCEPT ![p] = sum[t]]
                /\ unsure' = IF t \in alone THEN unsure \ {p} ELSE unsure \cup {p}
  OBVIOUS
<1>2. UNCHANGED <<OpenBits, Open(Controllers), Open(Providers), Changing>>
  BY DEF Changing, OpenBits, Open
<1>3. p \in Providers /\ life[p] \in {"open", "freed"} /\ t \in Changing
  BY DEF AppLoops, LoopOf, Open, Changing
<1>4. AloneIsAlone'
  BY <1>2 DEF FlagsInv, AloneIsAlone
<1>5. ASSUME NEW u \in alone
      PROVE  u \in App /\ (pc[u] = "collect" => UNCHANGED BitsOf(left[u]))
  <2>1. u \in App
    BY DEF FlagsInv, AloneIsAlone
  <2>2. ASSUME pc[u] = "collect" PROVE UNCHANGED BitsOf(left[u])
    BY <1>1, <2>1, <2>2 DEF BitsOf, Threads
  <2> QED BY <2>1, <2>2
<1>6. \A q \in Providers : q # p => flag'[q] = flag[q]
  BY <1>1 DEF TraceTypeOK
<1>7. SumsRight'
  BY <1>2, <1>3, <1>5, <1>6 DEF FlagsInv, SumsRight
<1>8. ASSUME NEW q \in Open(Providers)' \ unsure'
      PROVE  /\ Changing' = {} => flag'[q] = OpenBits'
             /\ \A u \in alone' : pc'[u] = "spread" /\ q \notin left'[u] => flag'[q] = OpenBits'
             /\ alone' = {} /\ Changing' # {} => \E u \in Changing' : Coming(u, q)'
  <2>1. CASE q = p
    <3>0. life[p] # "freed"
      BY <1>2, <1>8, <2>1 DEF Open
    <3>1. t \in alone
      BY <1>1, <1>8, <2>1, <3>0
    <3>2. flag'[q] = OpenBits
      BY <1>1, <1>2, <1>3, <2>1, <3>0, <3>1 DEF FlagsInv, SumsRight, TraceTypeOK, Open
    <3> QED BY <1>2, <1>3, <3>1, <3>2
  <2>2. CASE q # p
    <3>1. q \in Open(Providers) \ unsure /\ flag'[q] = flag[q]
      BY <1>1, <1>2, <1>6, <1>8, <2>2 DEF Open
    <3>2. \A u \in App : q \in left'[u] <=> q \in left[u]
      BY <1>1, <2>2 DEF TraceTypeOK, Threads
    <3>3. \A u \in App : Coming(u, q)' <=> Coming(u, q)
      BY <3>2 DEF Coming
    <3> QED BY <1>2, <1>5, <3>1, <3>2, <3>3 DEF FlagsInv, FlagsComing, Changing
  <2> QED BY <2>1, <2>2
<1>9. FlagsComing'
  BY <1>8 DEF FlagsComing
<1> QED
  BY <1>4, <1>7, <1>9 DEF FlagsInv

LEMMA FlagsPassedOnFlags ==
  ASSUME TraceTypeOK, FlagsInv, NEW t \in App, FlagsPassedOn(t)
  PROVE  FlagsInv'
<1> USE DEF FlagsPassedOn, objects
<1>1. /\ UNCHANGED <<OpenBits, Open(Controllers), Open(Providers)>>
      /\ Changing' = Changing \ {t} /\ t \in Changing
  BY DEF Changing, OpenBits, Open, TraceTypeOK
<1>2. AloneIsAlone'
  BY <1>1 DEF FlagsInv, AloneIsAlone
<1>3. pc' = [pc EXCEPT ![t] = "idle"] /\ UNCHANGED <<sum, left, alone, unsure, flag>>
  OBVIOUS
<1>4. \A u \in alone : u \in App /\ UNCHANGED BitsOf(left[u])
  BY DEF FlagsInv, AloneIsAlone, BitsOf
<1>5. \A u \in alone : u # t => pc'[u] = pc[u]
  BY <1>3, <1>4 DEF TraceTypeOK
<1>6. SumsRight'
  BY <1>1, <1>4, <1>5 DEF FlagsInv, SumsRight, TraceTypeOK
<1>7. \A p : ~Coming(t, p)
  BY DEF Coming
<1>8. \A p, u : u \in App /\ u # t /\ Coming(u, p) => Coming(u, p)'
  BY DEF Coming, TraceTypeOK
<1>9. ASSUME NEW p \in Open(Providers)' \ unsure'
      PROVE  /\ Changing' = {} => flag'[p] = OpenBits'
             /\ \A u \in alone' : pc'[u] = "spread" /\ p \notin left'[u] => flag'[p] = OpenBits'
             /\ alone' = {} /\ Changing' # {} => \E u \in Changing' : Coming(u, p)'
  <2>1. p \in Open(Providers) \ unsure
    BY <1>1, <1>9
  <2>2. CASE alone = {}
    <3>1. PICK u \in Changing : Coming(u, p)
      BY <1>1, <2>1, <2>2 DEF FlagsInv, FlagsComing
    <3>2. u \in Changing' /\ Coming(u, p)'
      BY <1>1, <1>7, <1>8, <3>1 DEF Changing
    <3> QED BY <2>2, <3>2
  <2>3. CASE alone # {}
    <3>1. alone = {t}
      BY <1>1, <2>3 DEF FlagsInv, AloneIsAlone
    <3>2. flag[p] = OpenBits
      BY <2>1, <3>1 DEF FlagsInv, FlagsComing
    <3> QED BY <1>1, <3>1, <3>2
  <2> QED BY <2>2, <2>3
<1>10. FlagsComing'
  BY <1>9 DEF FlagsComing
<1> QED
  BY <1>2, <1>6, <1>10 DEF FlagsInv

LEMMA FlagsStep ==
  ASSUME TraceTypeOK, MutexHeld, AppLoops, FlagsInv, TraceNext
  PROVE  FlagsInv'
<1>1. ASSUME NEW c \in Controllers, CreateController(c) \/ CloseController(c)
      PROVE  FlagsInv'
  BY <1>1, CreateControllerFlags, CloseControllerFlags
<1>2. ASSUME NEW p \in Providers, CreateProvider(p) \/ CloseProvider(p)
      PROVE  FlagsInv'
  BY <1>2, CreateProviderFlags, CloseProviderFlags
<1>3. ASSUME NEW k \in Consumers, CreateConsumer(k) \/ CloseConsumer(k)
      PROVE  FlagsInv'
  <2>1. \A x \in Controllers \cup Providers : life'[x] = life[x]
    BY <1>3, TraceAssumption DEF TraceAssumption, CreateConsumer, CloseConsumer,
                                 TraceTypeOK, Things
  <2>2. UNCHANGED <<bits, flag, pc, sum, left, alone, unsure>>
    BY <1>3 DEF CreateConsumer, CloseConsumer, changes
  <2> QED BY <2>1, <2>2, FlagsFrame
<1>4. ASSUME NEW t \in App, NEW c \in Controllers, NEW f,
             OpenTrace(t, c, f) \/ CloseTrace(t, c, f)
      PROVE  FlagsInv'
  BY <1>4, ChangeFlags DEF OpenTrace, CloseTrace
<1>5. ASSUME NEW t \in App,
             \/ OnFlagChanged(t) \/ QueryFlag(t) \/ Collected(t)
             \/ StartSpread(t) \/ Spread(t) \/ FlagsPassedOn(t)
      PROVE  FlagsInv'
  BY <1>5, OnFlagChangedFlags, QueryFlagFlags, CollectedFlags, StartSpreadFlags,
     SpreadFlags, FlagsPassedOnFlags
<1>6. ASSUME NEW p, NEW f, NEW n, Trace(p, f, n) PROVE FlagsInv'
  BY <1>6, FlagsFrame DEF Trace, objects, changes
<1>7. CASE LockControllers \/ NextController \/ CallConsumer
  <2>1. UNCHANGED <<objects, changes, unsure>>
    BY <1>7 DEF LockControllers, NextController, CallConsumer
  <2>2. \A t \in App : left'[t] = left[t]
    BY <1>7, TraceAssumption DEF TraceAssumption, LockControllers, NextController,
                                 CallConsumer, TraceTypeOK, Threads
  <2> QED BY <2>1, <2>2, FlagsFrame DEF objects, changes
<1>8. CASE Dispatch \/ Return \/ CallBack \/ ControllerDone \/ Delivered
           \/ CloseService \/ DispatchEnds
  <2>1. UNCHANGED <<objects, changes, left, unsure>>
    BY <1>8 DEF Dispatch, Return, CallBack, ControllerDone, Delivered, CloseService,
                DispatchEnds
  <2> QED BY <2>1, FlagsFrame DEF objects, changes
<1>9. ASSUME NEW n, Read(n) \/ Seek(n) PROVE FlagsInv'
  BY <1>9, FlagsFrame DEF Read, Seek, objects, changes
<1> QED
  BY <1>1, <1>2, <1>3, <1>4, <1>5, <1>6, <1>7, <1>8, <1>9 DEF TraceNext

-----------------------------------------------------------------------------
(* What is wrong, and the message while a callback has it. *)
LEMMA MessageStep ==
  ASSUME TraceTypeOK, MutexHeld, AppLoops, DispatchLoop, MessageRight, TraceNext
  PROVE  MessageRight'
<1> USE TraceAssumption DEF TraceAssumption, TraceTypeOK, MessageTypeOK, MessageRight,
                            FailuresNamed, objects, changes, dispatch
<1>0. failed = None
  BY DEF TraceNext
<1>1. ASSUME UNCHANGED <<ring, message, sought, calling, failed>> PROVE MessageRight'
  BY <1>0, <1>1
<1>2. ASSUME NEW c \in Controllers, CreateController(c) \/ CloseController(c)
      PROVE  MessageRight'
  BY <1>1, <1>2 DEF CreateController, CloseController
<1>3. ASSUME NEW p \in Providers, CreateProvider(p) \/ CloseProvider(p)
      PROVE  MessageRight'
  BY <1>1, <1>3 DEF CreateProvider, CloseProvider
<1>4. ASSUME NEW k \in Consumers, CreateConsumer(k) \/ CloseConsumer(k)
      PROVE  MessageRight'
  BY <1>1, <1>4 DEF CreateConsumer, CloseConsumer
<1>5. ASSUME NEW t \in App, NEW c \in Controllers, NEW f,
             OpenTrace(t, c, f) \/ CloseTrace(t, c, f)
      PROVE  MessageRight'
  BY <1>1, <1>5 DEF OpenTrace, CloseTrace, Change
<1>6. ASSUME NEW t \in App,
             \/ OnFlagChanged(t) \/ QueryFlag(t) \/ Collected(t) \/ StartSpread(t)
             \/ FlagsPassedOn(t)
      PROVE  MessageRight'
  BY <1>1, <1>6 DEF OnFlagChanged, QueryFlag, Collected, StartSpread, FlagsPassedOn
<1>7. ASSUME NEW t \in App, Spread(t) PROVE MessageRight'
  <2>1. UNCHANGED <<ring, message, sought, calling, torn>>
    BY <1>7 DEF Spread
  <2>2. PICK p \in left[t] :
          failed' = failed \/ (failed' = "freedProvider" /\ life[p] = "freed")
    <3>1. PICK p \in left[t] :
            IF life[p] = "freed"
            THEN failed' = "freedProvider" /\ UNCHANGED <<flag, unsure>>
            ELSE /\ flag' = [flag EXCEPT ![p] = sum[t]]
                 /\ unsure' = IF t \in alone THEN unsure \ {p} ELSE unsure \cup {p}
                 /\ UNCHANGED failed
      BY <1>7, Zenon DEF Spread
    <3> QED BY <3>1, Zenon
  <2>3. life[p] = "freed" => p \in torn
    BY <1>7, <2>2 DEF Spread, AppLoops, LoopOf, Open
  <2> QED BY <1>0, <2>1, <2>2, <2>3
<1>8. ASSUME NEW p \in Providers, NEW f \in SUBSET Bits, NEW n \in 0 .. MaxLength,
             Trace(p, f, n)
      PROVE  MessageRight'
  <2>1. UNCHANGED <<message, sought, calling>>
    BY <1>8 DEF Trace
  <2>2. CASE Len(ring) = MaxCache
    BY <1>0, <1>8, <2>1, <2>2 DEF Trace
  <2>3. CASE Len(ring) # MaxCache
    <3>1. ring' = <<[flag |-> f, length |-> n]>> \o ring /\ failed' = failed
      BY <1>8, <2>3 DEF Trace
    <3>2. ring' \in Seq([flag : SUBSET Bits, length : Nat])
      BY <3>1
    <3> QED BY <1>0, <2>1, <3>1, <3>2
  <2> QED BY <2>2, <2>3
<1>9. CASE Dispatch
  <2>1. calling = None
    BY <1>9 DEF Dispatch, MutexHeld, DispatchLoop
  <2> DEFINE Block == [flag : SUBSET Bits, length : Nat]
  <2>2. Head(ring) \in Block /\ Tail(ring) \in Seq(Block)
    <3>1. ring \in Seq(Block) /\ ring # <<>>
      BY <1>9 DEF Dispatch
    <3> HIDE DEF Block
    <3> QED BY <3>1
  <2> QED BY <1>0, <1>9, <2>1, <2>2 DEF Dispatch
<1>10. CASE LockControllers \/ NextController \/ CallBack \/ ControllerDone \/ Delivered
            \/ CloseService \/ DispatchEnds
  BY <1>1, <1>10 DEF LockControllers, NextController, CallBack, ControllerDone, Delivered,
                     CloseService, DispatchEnds
<1>11. CASE CallConsumer
  <2>1. ~sought
    BY <1>11 DEF CallConsumer
  <2> QED BY <1>0, <1>11, <2>1 DEF CallConsumer
<1>12. CASE Return
  BY <1>0, <1>12 DEF Return
<1>13. ASSUME NEW n \in 1 .. MaxLength, Read(n) PROVE MessageRight'
  <2>1. UNCHANGED <<ring, sought, calling>> /\ calling # None
    BY <1>13 DEF Read
  <2>2. CASE message.offset > message.length
    BY <1>0, <1>13, <2>1, <2>2 DEF Read
  <2>3. CASE ~(message.offset > message.length)
    <3>1. /\ message' = [message EXCEPT !.offset =
                IF @ + n > message.length THEN message.length ELSE @ + n]
          /\ failed' = failed
      BY <1>13, <2>3 DEF Read
    <3>2. message' \in [flag : SUBSET Bits, length : Nat, offset : Nat]
          /\ message'.offset <= message'.length
      <4>1. n \in Nat /\ message.offset \in Nat /\ message.length \in Nat
        OBVIOUS
      <4>2. PICK at \in Nat : /\ at <= message.length
                              /\ message' = [message EXCEPT !.offset = at]
        <5>1. CASE message.offset + n > message.length
          <6>1. message' = [message EXCEPT !.offset = message.length]
            BY <3>1, <5>1
          <6>2. message.length \in Nat /\ message.length <= message.length
            BY <4>1
          <6> QED BY <6>1, <6>2
        <5>2. CASE ~(message.offset + n > message.length)
          <6>1. message' = [message EXCEPT !.offset = message.offset + n]
            BY <3>1, <5>2
          <6>2. message.offset + n \in Nat /\ message.offset + n <= message.length
            BY <4>1, <5>2
          <6> QED BY <6>1, <6>2
        <5> QED BY <5>1, <5>2
      <4> QED BY <4>1, <4>2
    <3> QED BY <1>0, <2>1, <3>1, <3>2
  <2> QED BY <2>2, <2>3
<1>14. ASSUME NEW n \in 0 .. MaxLength, Seek(n) PROVE MessageRight'
  <2>1. message' \in [flag : SUBSET Bits, length : Nat, offset : Nat]
        /\ message'.offset <= message'.length
    <3>1. n \in Nat /\ message.length \in Nat
      OBVIOUS
    <3>2. PICK at \in Nat : /\ at <= message.length
                            /\ message' = [message EXCEPT !.offset = at]
      <4>1. message' = [message EXCEPT !.offset = IF n > message.length
                                                  THEN message.length ELSE n]
        BY <1>14 DEF Seek
      <4> QED BY <3>1, <4>1
    <3> QED BY <3>1, <3>2
  <2> QED BY <1>0, <1>14, <2>1 DEF Seek
<1> QED
  BY <1>2, <1>3, <1>4, <1>5, <1>6, <1>7, <1>8, <1>9, <1>10, <1>11, <1>12, <1>13, <1>14
  DEF TraceNext

LEMMA TraceStep == TraceInv /\ [TraceNext]_traceVars => TraceInv'
<1> SUFFICES ASSUME TraceInv, [TraceNext]_traceVars PROVE TraceInv'
  OBVIOUS
<1>1. CASE TraceNext
  BY <1>1, TypeStep, MutexStep, LoopsStep, FlagsStep, MessageStep DEF TraceInv, FlagsInv
<1>2. CASE UNCHANGED traceVars
  <2> USE <1>2 DEF traceVars, objects, changes, dispatch
  <2>1. TraceTypeOK' /\ MutexHeld' /\ MessageRight'
    BY DEF TraceInv, TraceTypeOK, MutexHeld, MessageRight, MessageTypeOK, FailuresNamed
  <2>2. AppLoops' /\ DispatchLoop'
    BY DEF TraceInv, AppLoops, LoopOf, DispatchLoop, Open
  <2>3. FlagsInv'
    BY FlagsFrame DEF TraceInv, FlagsInv
  <2> QED BY <2>1, <2>2, <2>3 DEF TraceInv, FlagsInv
<1> QED
  BY <1>1, <1>2

LEMMA TraceFollows == TraceInv => TraceIsConsistent
<1> SUFFICES ASSUME TraceInv PROVE TraceIsConsistent
  OBVIOUS
<1>1. ClosedIsQuiet
  <2>1. \A x \in {current, calling} \ {None} : life[x] = "open"
    BY DEF TraceInv, DispatchLoop
  <2>2. calling # None => current # None /\ life[Of[calling]] = "open"
    BY TraceAssumption DEF TraceAssumption, TraceInv, DispatchLoop, TraceTypeOK
  <2>3. \A x \in left[Dispatcher] : life[x] = "open"
    BY DEF TraceInv, DispatchLoop, Open
  <2>4. \A t \in Changing : \A x \in left[t] : life[x] = "open" \/ x \in torn
    BY DEF TraceInv, AppLoops, LoopOf, Changing, Open
  <2> QED BY <2>1, <2>2, <2>3, <2>4 DEF ClosedIsQuiet
<1>2. FlagsAgree
  BY DEF TraceInv, FlagsComing, FlagsAgree
<1>3. SoughtIsWithin /\ FailuresNamed
  BY DEF TraceInv, MessageRight, SoughtIsWithin
<1> QED
  BY <1>1, <1>2, <1>3 DEF TraceIsConsistent

(* The dispatch thread never calls, and never stands at, an object that has been
   closed (service.cpp, controller.cpp); the loop that passes flags on stands at a
   closed provider only if it was closed under that loop; when no change of flags is
   under way a provider has the flags that some controller has open, but for the
   cases listed at FlagsAgree; and the program is lost only for the reasons listed
   at FailuresNamed: for any number of threads and objects, and of messages. *)
THEOREM TraceConsistent == TraceSpec => []TraceIsConsistent
<1>1. TraceSpec => []TraceInv
  BY InitTrace, TraceStep, PTL DEF TraceSpec
<1> QED
  BY <1>1, TraceFollows, PTL
=============================================================================
