# Verification of lemon-lib

TLA+ models of lemon-lib, checked with TLC, and proofs about them, checked with
TLAPS. Every definition is translated from the C and C++ source; `PROJECT.json`
gives, under `map`, the lines each one stands for, and lists the runs, the
theorems, the hazards of the code and the findings.

## The system

lemon-lib is a C library with an actor scheduler (`runQ`), asynchronous I/O
(`io`), memory pools (`memory`), tracing (`trace`), resource packages
(`resource`) and wrappers of the operating system (`sys`). It carries a Lua 5.2
interpreter (`lua`), which is most of its code.

| component | state | operations | what makes it hard | what makes it correct |
|---|---|---|---|---|
| scheduler, `runQ/runQ.cpp`, `job.cpp` | job table, run queue, color and FIFO of each job, Stopped, ProxyJob | create, close, send, timeout, loop, stop, reset | callbacks run with the mutex released; a job's color alone says who is responsible for it | a job is in one place, callbacks of a job never overlap, mail in order, Stop once, no lost wakeup |
| linked queues, `messageQ.cpp`, `job.cpp`, `timerQ.cpp` | Header, Tail, Counter, Next links | push, pop | links inside the queued object | the links are those of the sequence of pushes |
| multicast, `multicast.cpp` | groups, counted messages | create, close, enter, leave, cast, close message | one message, with one link, for many readers; members close at any time | freed once, by the last reader; each FIFO in order |
| timers, `timerQ.cpp` | table and queue of timers, a thread | create, close, stop, reset, rounds of the thread | a timer is used with the mutex released | no leak, no use after free, one timer a job, stop returns |
| I/O requests, `io/irp.cpp` | IRP lists of each file, completion queue | add, execute, cancel, complete, dispatch | cancellation against completion; a full completion queue | each request is in one place and answered once |
| reactor, `io/reactor_*.cpp` | poll thread, sockets | submit, poll, close, cancel, dispatch, stop | descriptor numbers reused while polled | what the kernel can finish is answered; stop returns |
| completion ports, `io/iocp_*.cpp` | IRPs in the kernel and in the port | submit, dispatch, cancel, close, stop | the kernel writes into an IRP that cancel or close may free | an IRP in flight is allocated, one callback each |
| memory, `memory/*.cpp` | free lists, hash buckets, ring, pages | alloc, free, add, remove, push, pop | one-byte free lists, growth, overwriting when full | blocks lie apart; map and ring are a map and a bounded deque |
| threads, `sys/thread.cpp` | condition variable, handles, groups | wait, notify, join | built from events on Windows; join against reset | a broadcast ends; each thread is joined once |
| coroutines, `sys/coroutine.cpp` | status and saved context of each | create, resume, yield, release | nested coroutines save the caller in the parent | a yield goes back to the one that resumed |
| trace, `trace/*.cpp` | providers, controllers, flags, message ring | open, close, post, dispatch | callbacks into the library, flags computed and applied in two sections | no closed consumer or controller is called; flags settle |
| resources, `resource/*.cpp` | string tables, package | add, write, read | numbers of strings across files | an item is read as it was given |
| Lua, `lua/*.c` | see below | compile, dump, run, collect, call, match, sort | an incremental collector, jump lists, register allocation, longjmp | programs mean what they say, nothing in use is freed |
| system wrappers, `sys/*.cpp` | none | system calls | | |

**How they interact.** Application threads call `LemonRunQLoop` and become
workers. Jobs and application threads call the API of the scheduler; the timer
thread calls `LemonJobTimeout`; a multicast calls `__LemonRunQSend_TS` for each
member under both `RunQMutex` and the groups' mutex. `LemonCloseJob` leaves the
groups, closes the timer and closes the job in three separate lock sections.
`LemonRunQStop` first stops (joins) the timer thread. `runQ` takes its jobs,
messages, timers and groups from the allocators and hash maps of `memory`, and
its mutexes, condition variables and threads from `sys`. `io` uses `memory` and
`sys`; its completion queue is the ring of `memory`. `trace` posts into such a
ring as well and calls its consumers from a thread of its own. `lua` is a static
library of its own that shares no state with the rest.

## Modules

| module | models | |
|---|---|---|
| `RunQ` | `runQ/runQ.cpp`, `job.cpp` | the scheduler, one action for each lock section |
| `JobContract` | what a job's author may rely on | abstract specification that `RunQ` implements |
| `MCRunQ` | | instances of `RunQ`; symmetry |
| `IntrusiveQ` | `messageQ.cpp`, `job.cpp`, `timerQ.cpp` | the linked queue with its assertions |
| `MultiCast` | `multicast.cpp` and the life of a message | instantiates `IntrusiveQ` for the FIFOs of the jobs |
| `TimerQ` | `timerQ.cpp` | the timer thread and the API it races with |
| `Reactor` | `io/irp.cpp`, `reactor_*.cpp` | poll thread, dispatcher and user, the epoll build |
| `IrpTable` | `io/irp.cpp` | the hash table and queues behind `Reactor` |
| `Iocp` | `io/iocp_*.cpp`, `irp.cpp` | the completion-port build |
| `Allocators`, `Memory` | `memory/fixobj.cpp`, `smallobj.cpp`, `pool.cpp` | chunks and free lists; pages, and both together |
| `HashMap` | `memory/hashmap.cpp` | linked buckets, growth |
| `RingBuffer`, `BoundedDeque` | `memory/ringbuffer.cpp` | the ring, and the deque it implements |
| `CondVar`, `ThreadGroup`, `Coroutine` | `sys/thread.cpp`, `coroutine.cpp` | Windows broadcast; joins; switching |
| `Trace` | `trace/` | service, controllers, providers, consumers |
| `MCTrace` | | `Trace` and `MultiCast` side by side, like `MCLibraries` |
| `Resource` | `resource/` | packages, written and read back |
| `Lists` | | what a loop keeps of a list, for `IrpTable` and `Resource` |
| `MCLibraries` | | the libraries side by side, see below |
| `LuaCode`, `LuaParser` | `lcode.c`, `lparser.c` | code generator; grammar rules over syntax trees |
| `LuaVM`, `LuaDump` | `lvm.c`, `lfunc.c`, `ldump.c`, `lundump.c` | a program through compiler, dump and machine |
| `LuaMeaning` | what a program means, by its tree | the reference `LuaVM` is compared with |
| `LuaPrograms`, `MCLuaVM` | | families of programs, all small combinations around one feature |
| `LuaGC`, `LuaTable`, `LuaDo` | `lgc.c`, `ltable.c`, `ldo.c` | collector; tables; calls, errors, coroutines |
| `LuaMatch`, `LuaLex` | `lstrlib.c`, `llex.c` | pattern matching; lexer and `%q` |
| `LuaSort`, `LuaFiles`, `LuaAux` | `ltablib.c`, `liolib.c`, `lauxlib.c`, `lapi.c` | table library; handles; buffers, references, stack |
| `MCLua` | | the parts of Lua side by side |
| `RunQProofs`, `TimerQProofs`, `IntrusiveQProofs`, `MultiCastProofs`, `TraceProofs`, `ReactorProofs`, `LibraryProofs`, `LuaProofs` | | theorems, see *Proofs* |

### RunQ

A step is one critical section of `RunQMutex`, or what a worker does between two
of them. `pc[w]` says where worker `w` is in `LemonRunQLoop`; in `"top"` it holds
the mutex at the head of the `while`, and while some worker is there no other
section can run (`Free`). Everything else a thread does under the mutex is one
action. `run[w]` and `msg[w]` are the loop's local variables `job` and
`message`. The callbacks `Start`, `Recv` and `Stop` take the time between two
actions; what they do to the queue is done by the API actions, which any thread
may take at any time.

- `BeginCreate`, `StartDone`, `StartFailed` are `LemonCreateJob` before and
  after `Start`. `Send`, `SendRemote`, `JobTimeout`, `CloseJob`, `RunQStop` and
  `CreateProxyJob` are the functions of those names.
- `EnterLoop`, `AwaitJob`, `Rewake`, `TakeJob`, `RecvDone`, `TimeoutRecvDone`,
  `Requeue`, `StopDone`, `LeaveLoop` are the loop. `RecvDone` reads the color
  with no lock, as the code does.
- `BeginReset`, `ResetStop`, `ResetFree`, `EndReset` are `LemonRunQReset`, which
  takes no lock. It has to be called when all workers have left the loop and no
  thread is creating a job; the model starts it only then, but API calls may
  still come between its steps.

The n-th message for a job is the number n. FIFOs are sequences here; that the
links of the code are those of a sequence is the subject of `IntrusiveQ`.
History variables (`sent`, `got`, `ticks`, `tocks`, `stops`, `quiet`) are read by
properties and by the bounds.

`KeepsContract` is the refinement: `PhaseOf` tells from the scheduler's state
which callback a job is in, and through it every step of `RunQ` is a step of
`JobContract` or leaves it alone.

### MultiCast and TimerQ

In `MultiCast` a send is taken apart: `BeginCast`, a `CastTo` for each member in
any order (the order of the hash map), `EndCast`, under the locks the code holds.
Groups are one group whose members come and go, any number of them at a time and
jobs that do not exist any more among them, as nothing checks the ids; `LeaveAll`
and `CloseJob` are the two lock sections of `LemonCloseJob`. Freeing a closed
job's messages is `BeginFree`, `DropMessage`, `EndFree`. `QueueUp` is a push into
a FIFO. An assertion that fails ends the program, so the actions that contain
assertions are guarded by them, and that they hold is a property (`QueueAsserts`,
`MultiIsWrapped`).

The history variable `spoilt` names the three ways in which a message with several
readers goes wrong: `"link overwritten"`, a push behind it in one FIFO has changed
the link that another FIFO goes by; `"freed in the cast"`, a member that is no job
gave back the count before the others had been counted; `"freed with a job"`, a
closed job freed what others have to read. What happens afterwards is undefined,
since freed memory is used. The passing run and the theorems say that everything
is right until one of the three happens, for groups of any size; the runs with
`GoOn` go on and show what comes of it.

The timer thread's pc is `"sleep"` in the wait, `"round"` and `"for"` at the
heads of its loops with the mutex held, `"check"` and `"push"` with it released.
Which timers are due is a free choice in `Check`. `Q->Stopped` is written and
read without the mutex. `EndRound` knows that `pthread_cond_timedwait` may
return at once with the mutex still held, since the deadline is computed without
carrying nanoseconds over to seconds (`sys/thread.cpp:615`). `Reset` is one step;
`LemonJobTimerQReset` takes no lock, and is for when nobody else uses the queue.

### Input and output

`Reactor` has three threads, each with a `pc`, the request in its hands (`cur`)
and the one a callback in a full queue has submitted (`inner`). The kernel is
external: `ready` counts the operations it can finish on a socket, `Arrive`
raises it, `CallDone`, `CallBlocks` and `CallFails` are the outcomes of a system
call. IRPs lie in the table under descriptor *numbers*, which a closed socket's
memory still holds and a new socket may get: `DropIRPs` and `ExecuteIRP` therefore
go by the number. A callback that `LemonIRPComplete_TS` runs in a full queue runs
with the locks its caller holds. It may do what any callback may: submit a request
(`"fullInsert"`, `"fullComplete"`), close a socket or cancel (`"fullClose"`), stop
the service (`"fullJoin"`, which only the user thread's callback does, since there
is one user of the stop). Each of these needs a mutex or a thread that may be
waiting for it: a thread blocks itself for ever there, or two block each other
(`WaitsFor`, `Stuck`), and only there.

`IrpTable` is the memory behind it (chains, growth, queues), under one mutex and
so an operation a step; its invariant is why `Reactor` may have a function from
descriptors to sequences. In `Iocp` an
operation goes through the phases none, inserted, kernel, posted, taken, done, or
failed, removed, refused; `KernelCompletes` comes whenever it likes, after a
cancellation or a close too. `CloseFileTable` frees IRPs the kernel still has, as
the code does; what is claimed is for open sockets. An object has its IRPs as a set
there. `LemonIRPCounter` leaves cancelled ones out, so that `RemoveIRP` may drop the
object with cancelled IRPs in it (`orphaned`), whose completions find nothing and
fail an assertion (`iocpAsserted`), which ends the program. One case is left out: of
three IRPs dropped together the middle one passes the assertion, which looks at its
links, once the socket has an object again; the model ends there too.

### Trace

What the service's mutex, a controller's and the providers' protect is one step;
`controllerMutex` is a variable because it is held while callbacks run, and these
may come back into the library. `StartSpread`, `Spread`, `FlagsPassedOn` are a
change of flags on its way to the providers, `Dispatch` to `Delivered` the life
of one message. `unsure` is the history of providers whose flags nobody promises.
`failed` says how the program was lost, if it was, and behaviours end there: a
provider was freed while the loop over providers stood at it (`"freedProvider"`;
`torn` are the providers closed under such a loop), the ring was full and its
assertion failed (`"ringFull"`), a consumer read a message shorter than the offset
the one before it had left (`"offset"`). `TraceIsConsistent` says when each of them
can happen and that there is no other way. A callback that opens, closes or changes
something of its own chain blocks the dispatch thread for ever (`"stuck"`).

### Memory, sys, resource

The smaller libraries keep their state to themselves. `MCLibraries` chooses one of them
in the initial state and leaves the others alone (`part`), which makes the state space
the sum and not the product. `Allocators` has UCHAR_MAX = 2 blocks in a chunk, so that
chunks fill up and empty. `RingBuffer` implements `BoundedDeque` (`RingIsDeque`).
`CondVar` is the Windows condition variable only; `RunQ` and `TimerQ` have the pthread
one as a set of waiters. A thread that calls `CallNotify` or `CallNotifyAll` is
committed to it, with the caller's mutex held or not; `late` is the history of a
broadcast whose `ResetEvent` came after the last answer. In `Resource` an item that is
not there is answered with nothing, but a trace catalog with `Crash`: `GetTraceCatalog`
dereferences what it has not found. `Coroutine` lets every coroutine resume every other;
`misused` records a resume by one who is not the parent, after which the code saves the
wrong context.

### Lua

`LuaVM` takes a program of `LuaPrograms` through the compiler, perhaps through a
dump and a load (`LuaDump`), and then executes it, one action a group of
instructions. `MeansTheProgram` compares the tables at the end with those of
`LuaMeaning`, which knows neither registers nor jumps. The compiler, the check of
its code and the meaning are recursive; they come into `LuaVM` as the constant
operators `Parsed`, `Lawful` and `Meant`, so that TLC evaluates each once for a
program. `MaxCode` cuts off programs that loop for long; their registers and
jumps are checked all the same.

`LuaGC` has one step of the collector or one of the program at a time, in both
modes, over heaps of three objects with weak tables, ephemerons, barriers, strings and
finalizers: those that `MaxOps` = 4 operations of the program build from nothing, and,
as further initial states of `MCLua`, those that three more make of two objects,
`TwoMade`: a table of any mode, a closure or a userdata, and a table, userdata or string
it may come to hold. Three are what it takes from there for an object to live only
through an old one in generational mode (change the mode, set, pop), or for a weak value
to be kept only for its finalizer (set, give the finalizer, pop). Two heaps that take
more to build are initial states as well: two ephemerons of which each
keeps the other's key (`TwoEphemerons`), and an ephemeron table met during marking
whose key is made then (`KeyMadeInMarking`). `unswept` and `early` are the histories
of the two defects of this version of the collector, see *What the runs show*.

`LuaDo` has the list of calls and beside it the C stack
that an error or yield cuts. `LuaMatch`, `LuaLex`, `LuaSort` and `LuaAux`
evaluate the algorithms of the source on all inputs of a bounded size against a
definition of what they are for.

## Runs

| run | what it checks | states | bounds |
|---|---|---|---|
| `runq` | `TypeOK`, `WellPlaced`, `MailKept`, `CallbacksOwed`, `NoLostWakeup`, `KeepsContract` | 573,342 | 2 jobs, 2 workers, 2 messages and 1 tick for each job |
| `runq_live` | `StopEndsLoops`, `MailWorkedOff`, `ClosedJobsFreed` | 190,916 | the same with no tick |
| `timerq` | `EveryTimerHeld`, `OneLateTick`, `ClosedTimersFreed`, `StopReturns`, `EveryTimerVisited` | 41,112 | 2 jobs, 3 timers |
| `io` | `RequestsKept`, `Served`, `StopReturns` | 422,749 | 1 descriptor number, 2 sockets, 3 requests (read, accept, write), a completion queue of 1, 2 readiness events, 1 error |
| `trace` | `TraceIsConsistent`, `QueueAsserts`, `MessagesCounted` | 5,063,338 | 2 application threads, 2 controllers, 1 provider, 2 consumers, 1 flag, messages of length 1, a ring of 1; a group of 2 jobs, one of them the proxy job, 3 messages |
| `libs` | `MemoryApart`, `HashMapIsMap`, `RingIsDeque`, `Linked`, `AnswerComes`, `JoinsRight`, `CoroutinesReturn`, `ReadsBack`, `TableIsQueues`, `FlightIsSafe`, `PatternsMatch`, `TextsReadBack`, `TableLibrary`, `FilesOwned`, `AuxLibrary` | 801,939 | two or three of each thing; patterns of 3 pieces, texts of 2 tokens, lists of up to 6 |
| `lua` | `NothingReadableFreed`, `KeepsEntries`, `TableIsMap`, `UnwindsSafely`, `MeansTheProgram` | 3,179,863 | 3 objects, 4 operations of the program or 3 more on two objects, 5 keys, 1 coroutine and 7 frames, all of `LuaPrograms` |
| `multicast_shared` | `FifoAsserts`, violated | | 2 members, which stay |
| `multicast_dead` | `MultiIsWrapped`, violated | | 2 members, which may close |
| `multicast_remote` | `MultiIsWrapped`, violated | | a proxy job, remote multicast id |
| `iocp_assert` | `FailsOnlyClosed`, violated | | 2 requests on a socket |
| `lua_labels` | `NoWrongOptimization`, violated | | programs with labels between local statements |

Why these bounds are enough for the cases of interest. Two workers are what it takes for
one to have a job in hand while the other handles the same job's messages, and for a
notification to reach the wrong waiter; two jobs make the run queue's order and the
round robin visible; two messages make an order, a message arriving during `Recv` of
another, and a job that goes to the back of the run queue with mail left, in `runq_live`
too. One tick for each job can fall into every window of the loop. In `TimerQ` the third
timer block lets a job's timer be closed and created anew while the closed one is still
queued. In `Reactor` two sockets on one number are what it takes to reuse it, and a
completion queue of one place is full as soon as a second request completes. Two changes
of flags that overlap need two threads, and two controllers for one to keep what the
other closes. Two members of a group share a message, and the last of them frees it; two
messages more, one for each, are what overwrites its link. A hash map of three keys, two
of which part when it grows, has chains, growth and removal in the middle.

Named bounds: `MaxSends`, `MaxTicks` (guards of `Post` and `JobTimeout`),
`Closable` (`LeaveAll`), `GoOn` (`CastNext`), `MaxCache` and `MaxLength` (`Trace`; the
code's ring and messages are longer), `MaxUnits`, `MaxErrors` (`Arrive`, `CallFails`),
`MaxStops`, `MaxCallbacks` (`StopService`, `CancelFile`), `MaxChunks`,
`MaxNodes`, `MaxPages`, `MaxCalls`, `MaxOps`, `MaxFrames` and the sizes of the
inputs in `MCLibraries.cfg` and `MCLua.cfg`. Ids are never reused. Deadlock is
checked in `runq`, `runq_live` and `timerq`; elsewhere a run may end because its
bounded work is done, its program has stopped, or (`io`) a callback in a
full queue has blocked its thread or two of them.

### What the runs show

- The scheduler is right about placement, order and exclusion. The one wakeup
  it loses is that of `LemonCreateJob`, which pushes a job that was sent messages
  during `Start` without notifying (`runQ.cpp:319`): such a job waits for the
  next notification. `NoLostWakeup` says that this is the only case, and
  `MailWorkedOff` and `ClosedJobsFreed` except these jobs (`quiet`).
- A timeout that comes between the unlocked read of the color and the relock is
  lost. `JobContract` allows the loss; `CallbacksOwed` shows the other
  direction, that no timeout is delivered that was not asked for.
- A multicast to two members works until something else is pushed behind the
  shared message into one of their FIFOs: the message has one `Next`, and the other
  FIFO goes on with what is not its own (`multicast_shared`).
- If the first member visited in a cast is no job any more, the count goes from 1 to
  0 and the message is freed before the others get it (`multicast_dead`). A job that
  is closed frees the messages in its FIFO, whoever else has them to read.
  `MessagesCounted` names both (`spoilt`) and says that otherwise the last reader
  frees a message; a message to a group without members is never freed.
- A remote multicast id is taken for a wrapped multicast message by the loop
  (`multicast_remote`). In the passing run such a message never gets past
  `GiveBack`; in the code the assertion ends the program there.
- A request is always in one place, and answered while the service runs. Threads
  block for ever only where a callback runs in a full completion queue and submits,
  closes, cancels or stops: the poll thread runs it with both mutexes held, so that it
  is enough for itself (`StuckOnlyInFullQueue` names the places).
- `LemonStopIOService` cancels nothing, against its comment in `abi.h`; a failed accept
  makes the dispatcher write through a NULL socket. `Served` leaves these two out
  (`Running`).
- An IRP of the completion ports that is cancelled twice, or cancelled and then
  closed, has its callback called twice (`again` in `FlightIsSafe`). A refused request
  takes the object of its socket away although a cancelled one is still in flight, and
  an assertion fails on an open socket (`iocp_assert`).
- The broadcast of the Windows condition variable waits for ever in two cases: its
  reset wipes out the last answer, or the waiters who have to answer need a mutex that
  the broadcaster, or one who waits for it, holds. `AnswerComes` says there is no third.
- The trace service calls no closed consumer or controller. Providers are not
  protected by the mutex the loop over them holds; a full ring fails an assertion, and
  so does a read of a message shorter than the last one's offset. `TraceIsConsistent`
  names the three.
- `GetTraceCatalog` of a catalog that is not in the package reads address 0
  (`ReadsBack` expects `Crash` there).
- An object given a finalizer during the sweep may keep its colour into the next cycle,
  which then frees what it refers to (`unswept` in `NothingReadableFreed`). An ephemeron
  table visited before the atomic step with a white key loses that key's entry if it
  gets a new value meanwhile (`early` in `KeepsEntries`). Without either exception TLC
  finds the violation.
- The compiler merges two LOADNIL instructions across a label (`lua_labels`).

## Fairness

`RunQ`: strong fairness of each worker's loop and of the end of each `Start`.
A worker competes for `RunQMutex` with threads that may call the API for ever,
so an action of it can be enabled and disabled again and again; a mutex that
serves each waiter in the end, callbacks that return and workers that are
scheduled justify strong fairness. It does not cover `SpuriousWake`: nothing may
depend on waking without a notification. API calls have no fairness: nobody has
to send or stop.

`TimerQ`: weak fairness of the thread, whose waits time out, and of the join.
The thread is never disabled by others: they hold the mutex only within a step.

`Reactor`: strong fairness of each of its three threads, of the poll thread and
the dispatcher as a whole, of the user only where it is inside a call of the
library (`Goes`, `StopJoined`). A thread runs on, callbacks return, and a mutex
others keep taking is had in the end. Nobody is obliged to submit, close, cancel,
stop, or send data to a socket.

## Proofs

For every value of the constants, with any number of jobs, workers, threads,
sockets, objects:

| theorem | module | states | by |
|---|---|---|---|
| `TypeCorrect` | `RunQProofs` | `TypeOK /\ HandsFull` | itself |
| `Placement` | | `WellPlaced` | `PlaceInv` |
| `MailIsKept`, `CallbacksAreOwed`, `NoWakeupLost` | | `MailKept`, `CallbacksOwed`, `NoLostWakeup` | `JobInv` |
| `ContractKept` | | `KeepsContract`, the refinement | `RefInv` |
| `TimersHeld`, `LateTickOnce` | `TimerQProofs` | `EveryTimerHeld`, `OneLateTick` | `TimerInv` |
| `LinksCorrect` | `IntrusiveQProofs` | `Linked /\ AssertsHold` | `LinksInv` |
| `QueuesSound`, `MessagesRight` | `MultiCastProofs` | `QueueAsserts`, `MessagesCounted` | `MailInv` |
| `TraceConsistent` | `TraceProofs` | `TraceIsConsistent` | `TraceInv` |
| `RequestsAreKept` | `ReactorProofs` | `RequestsKept` | `ReactorInv` |
| `BroadcastAnswered` | `LibraryProofs` | `AnswerComes` | `CvInv` |
| `JoinsAreRight` | | `JoinsRight` | `ThInv` |
| `CoroutinesAreRight` | | `CoroutinesReturn` | `CoInv` |
| `FlightsAreSafe` | | `FlightIsSafe` | `IocpInv` |
| `FilesAreOwned` | | `FilesOwned` | `FilesInv` |
| `MemoryIsApart` | | `MemoryApart` | `AllocInv`, `PoolInv` |
| `RingRefinesDeque` | | `RingIsDeque`, the refinement | `RingInv` |
| `HashMapIsRight` | | `HashMapIsMap` | `MapInv` |
| `IrpTableIsRight` | | `TableIsQueues` | `IrpInv` |
| `ResourceReadsBack` | | `ReadsBack` | `ResInv` |
| `LuaUnwindsSafely` | `LuaProofs` | `UnwindsSafely` for `FewFrames` | `DoInv` |

Each is proved along its inductive invariant, which TLC checked first, with a
lemma or a step for each action and in it one for each conjunct the action can
disturb.

- **Placement.** The three parts need each other: that a popped job is in
  nobody's hand needs `OnePlace`, that a job is not pushed twice by `CloseJob`
  needs that it is asleep exactly when it is in no other place, and that a freed
  job is referred to by nothing needs that a stopped job has left the table,
  which is what `ClosedIffUnlisted`, `StopsUnlisted` and `ResetAlone` say.
- **`JobInv`** is the three properties themselves, which are inductive once
  `TypeOK`, `HandsFull` and `PlaceInv` are known and nothing has happened to a
  job that was not allocated (`Untouched`): that the color of a job may be read
  with no lock rests on the worker being the one place where the job is.
- **`ContractKept`** maps step by step: `BeginCreate` to `Create`, `StartFailed`
  to `Fail`, `StartDone` to `Ready`, `Send` to `Accept`, `JobTimeout` to `Arm` or
  nothing, `CloseJob` to `Shut`, `RunQStop` to `Halt`, `TakeJob` to `Receive`,
  `Stop` or nothing, `RecvDone` to `Tick`, `Return` or nothing, `Requeue` to
  `Stop` or nothing, `StopDone` and `ResetFree` to `Free`, `ResetStop` to `Stop`,
  `EndReset` to `Purge`, every other step to nothing. `RefInv` collects what this
  needs of the invariants above, and `PhaseIs` computes the phase of a job from
  the worker that has it.
- **`LinksCorrect`** needs `OneQueue`, that a node is at most once in at most one
  queue, which `Push` has as its guard and the callers see to. The FIFOs of a
  multicast do not: there a message is in several.
- **`MailInv`** claims its part `Sound` until `spoilt` names something. A FIFO goes by
  the links between its own messages (`SharedChain`) and by nothing that the link of its
  last message says; the message being cast is the last of every FIFO it is in
  (`CastStands`), so that no push of the cast itself overwrites a link another FIFO
  goes by. A wrapped message's count is the number of jobs that have it in the FIFO or in
  hand (`CountOK`), an unwrapped one is with one job; so the one who brings the count to
  0 is the last, and what is freed nobody has.
- **`TimerInv`**: the thread has a timer in hand exactly between its two
  sections (`ThreadStands`); a timer in the table is under the id it ticks
  (`TableOwned`); a job with an open timer, or whose timer is about to be
  checked, has had no late tick yet (`LateOnce`).
- **`TraceInv`**: who loops over controllers, consumers or providers holds
  `controllerMutex` and has only open ones before him, or providers closed under the
  loop (`torn`; `MutexHeld`, `AppLoops`, `DispatchLoop`), so that closing a consumer or
  a controller waits; a callback that has sought is within the message (`MessageRight`);
  a change of flags that is alone works out the union of what is open (`AloneIsAlone`,
  `SumsRight`); a provider that is not `unsure` has the flags, or a change will still
  come to it (`FlagsComing`).
- **`ReactorInv`**: kind of place by kind of place, no request is in two hands, in
  two lists or in a hand and a list (`Apart`), nor twice in one list
  (`ListedOnce`), and it is somewhere exactly while it is pending (`Awaited`), so
  that the set of its places has one element or none. A hand is full exactly in
  the sections between taking a request and passing it on (`HandsHold`); the
  table's mutex is kept only by the poll thread at work on a list and the queue's
  only by a thread in a callback of a full queue, for which a slot is free
  (`LocksHeld`): who waits for a mutex of his own, or of one who waits for his, is in
  such a callback, or the other is. That a stopped
  service is being joined or has no poll thread (`StopStands`) keeps
  `ResetIOService` from sending back a poll thread that has a request.
- **`CvInv`** counts: `blockThreads` is the number of waiters between their two atomic
  operations; when the broadcaster goes to wait for an answer one has come or one of
  them has yet to give it, unless the reset came too late (`late`). That he can give it
  follows where the caller's mutex does not stop him (`MutexStuck`). **`ThInv`**: who is
  between the locking and the unlocking of `JoinMutex` has it, `Exit` counts the joins,
  only handles of the group are released, and what a join has promised to see it has
  seen or has before it. **`CoInv`**: as long as nobody resumes another's child the
  coroutines that sleep in a Resume form one chain from the root to the one that runs,
  each the parent of the next.
- **`IocpInv`**: an IRP is listed only under its own socket and until it is completed or
  taken out; the port has a completion once and a dispatcher has it alone, so that none
  is completed twice; a listed IRP has been called back exactly if it is cancelled, a
  freed one of an open socket is done or refused; a pending one of an open socket is
  listed or went with its object (`orphaned`, `NoneLost`); `WorkingThreads` is the
  number of threads in the loop.
- **`FilesInv`**: an open handle closes its FILE by the function for how the FILE
  was opened (`KindsAgree`), a FILE of `fopen` or `popen` has one open handle while
  it is open (`OneHandle`), and what the program reaches is closed or has its FILE
  (`ReachedOpen`).
- **`AllocInv`** says of every chunk that the links, followed from its first free
  block for as many steps as blocks are available, visit the blocks nobody holds,
  each once (`FreeAs`): an allocation drops the first of that sequence and a free
  puts one before it, so that neither needs to know how it goes on. **`PoolInv`**
  has the pages under numbers of their own and each page's blocks above what it
  has still to give.
- **`RingInv`** places `front` as many blocks behind `back` as there are values.
  The n-th value is then in a block that can be computed (`Position`), and the five
  operations are those of the deque, overwriting included.
- **`MapInv`** has for every bucket the sequence of its nodes: no node is twice in
  them, each is the `Next` of the one before it and has that one as its `Prev`
  (`Chains`), all hash to the bucket, no two have one key (`Hashed`), and what they
  hold is what the calls have bound (`Agrees`). Linking a node puts it before a
  sequence (`FrontChains`), unlinking takes it out of the middle (`DropChains`),
  wherever it is. Growth is an induction over the nodes in the order of the
  iteration: after each step the new buckets are right for the nodes moved so far
  (`ResizedIs`), whose old links are reset before.
- **`IrpInv`** has two kinds of chains, with the lemmas of `MapInv`: for each bucket
  the objects in it, all of which hash to it, together the files that have a queue
  and as many as the counter says (`ObjectsInv`); for each such file its queue, whose
  last IRP the object knows (`QueuesInv`). A new IRP comes behind its queue
  (`BehindChains`), a removal cuts one out of the middle (`DropChains`, `DropLast`),
  an execution leaves some of the IRPs and links them anew (`PartChains`). Growth
  moves the objects one by one (`ResizedHolds`); `Prev` is reset before each move,
  so that no old link is left in the new buckets. A queue may be empty while its object
  stays, which is why the files are a set of the invariant and not those with an IRP.
- **`DoInv`** ties the C stack to the lists of functions beside it. The C stack is
  one piece for each thread that has been resumed and not left, which a resume
  begins (`Pieces`). Each entry has a place `f` in the list of its thread, the Lua
  function it called (`Placed`); between the places of two entries that follow each
  other there is no C function without one (`Matched`), so that a cut of the C
  stack is a cut of the list. Each has a level `h`, what `nny` is while it is the
  last of its thread: 2 at the bottom of the main thread, 0 at a resume, one more
  for each call that no yield may cross (`Counts`). A C function that noted no
  continuation is therefore on the C stack (`Returned`), and where `nny` is 0 there
  is none to lose. `errfunc` is the handler of the protected call furthest in, and
  what it is to become is noted with each (`Handled`): in the C stack by a
  `setjmp`, in the list by a coroutine. Threads that are spoiled or stale keep the
  structure and lose the numbers. `f` and `h` are not in the program: the invariant
  says that they exist, each step says which they become.
- **`ResInv`** says of the table of each locale that is not mixed with another that
  it has the items it was given and no others, and that the numbers of an item
  stand for its fields in the strings of the table (`TextsRight`). An addition only
  appends strings, so the numbers that are there keep their meaning (`Extends`,
  `FieldsStay`). Reading back is an induction over the tables of the file: until the
  one that goes to a locale nothing is filed under it, and from there on what is
  filed is that table, with each text under its own key (`ReadUpto`, `MergedRight`).
  A proper version number is below 65,535 in every prefix, so that the 16-bit sum
  never wraps (`NumberIs`).
- Five of these speak of functions the modules define by recursion: the free list,
  the walk along the ring, the chain, the iteration and the growth of the map, the
  walk, the growth and what is left of a list in the table of IRPs, the strings, the
  tables and the numbers of a package. `FreeListIs`, `WalkIs`, `ChainIs`, `FlattenIs`,
  `ResizedIs`, `WalkedIs`, `AllFilesAre`, `AllMove`, `KeptIs`, `PushesAre`, `ReadUpto` and
  `NumberIs` show by induction that they are what the invariants say. The induction is
  over a set of numbers, the counterexamples, of which `LeastElement` picks the first;
  that lemma follows from the library's theorem that the numbers are well-founded. That
  the recursive function exists needs no induction where the invariant has one with its
  equation; elsewhere it takes one more (`StepsExist`, `ReadExists`).

The assumptions on constants are those the modules name (`RunQAssumption`,
`NullIsNoNode`, `MultiCastAssumption`, `NoneIsNeither`, `TraceAssumption`,
`CondVarAssumption`, `ThreadAssumption`, `CoroutineAssumption`, `IocpAssumption`,
`ReactorAssumption`, `FilesAssumption`, `AllocatorAssumption`, `PoolAssumption`,
`RingAssumption`, `HashMapAssumption`, `IrpTableAssumption`, `ResourceAssumption`,
`LuaDoAssumption`): null values are not among the real ones, kinds of objects are
disjoint, bounds are natural numbers, and the threads of a condition variable and the
files and IRPs of a table are finitely many. Locales are listed once each, as keys of a
map are, and five bytes cut off twice are the same five bytes. `LuaUnwindsSafely` has
the hypothesis `FewFrames` besides: two functions more than `MaxFrames` are fewer than
2^16, as `nny` is an unsigned short, which more nested calls would wrap to 0.
`LUAI_MAXCCALLS`, 200, is there to keep C calls far below it; `MaxFrames` bounds all
functions, those that Lua functions call too.

Only model-checked, and why:

- the liveness properties (`StopEndsLoops`, `MailWorkedOff`, `ClosedJobsFreed`,
  `ClosedTimersFreed`, `StopReturns`, `EveryTimerVisited`, `Served`): the prover
  knows neither fairness nor ENABLED;
- Lua: the compiler, the meaning of programs, the matcher, the lexer and the
  collector's reachability are RECURSIVE operators, of which the prover can say
  nothing, and the rest of its properties are compared with such.

## Not modelled

Allocation failures and most failing system calls; reuse of 32-bit ids; the payload of
messages (the callee owns it) and of files; `LemonCloseRunQ`, which resets and frees the
queue without waiting for its workers, so that what happens is the caller's affair; a
dispatcher of a completion port that has not counted itself yet when the stop keys are
posted. `LemonMultiCastQReset`; synchronous socket calls; the select service; version
strings of more than four parts; the truncation of a block's index to one byte in
`memory` (indices are numbers below `UCHAR_MAX`); a collection in the middle of the
growth of a Lua buffer (what `AuxLibrary` checks is that the new box is on the stack
then). The wrappers of `sys` keep no state. Of Lua: metatables, hooks, varargs, methods,
generic `for`, hexadecimal numerals, string formatting but `%q`, reading and writing of
files, stack reallocation, allocation errors, and the libraries `os`, `debug`, `math`,
`bit32`, `package` and the base functions (`loslib.c`, `ldblib.c`, `lmathlib.c`,
`lbitlib.c`, `loadlib.c`, `lbaselib.c`), with `ldebug.c`, `lstate.c`, `lzio.c`, `ltm.c`,
`lmem.c`.

## Plan

1. `TableIsMap` for every key and hash: `LuaTable` with folds and functions in place of
   its RECURSIVE operators, and an invariant like `MapInv` for the free pointer and the
   chains through main positions.
2. `NothingReadableFreed`: reachability as a fixed point that is characterised, not
   computed, and the two- and three-colour invariants of the collector by phase.
3. Callbacks in a full queue that stop the service from other threads than the user's.
