# Volt Emulator: a TLA+ model of the emulated kernel

Volt emulates the Nintendo Switch. Its heart is a C++ re-implementation of the
console's kernel (`src/core/hle/kernel`): guest threads run on host fibers and
call the kernel through supervisor calls, and everything that blocks, wakes,
orders or destroys them happens there. This directory models the blocking
primitives of that kernel, its scheduler, its timer and its sessions together
with the threads of the host that serve them, checks them with TLC and proves
most of their safety invariants, for every instance, with TLAPS.

## 1. Inventory

### The kernel

Almost all state of the kernel is guarded by one recursive lock, the *scheduler
lock* (`KAbstractSchedulerLock`). A handler takes it, changes threads and wait
queues, and on release the scheduler picks new threads for the cores. The hard
behaviours are therefore those where the state is spread over several objects
(a waiter, the thread it waits for, a word of guest memory, a timer task, a
handle), where a handler works outside the lock (light locks, guest memory), or
where an operation starts in one call and ends in another (wait and wakeup,
termination, request and reply).

| component | state | operations | must be right |
|---|---|---|---|
| `KThread`: waiters, inheritance | base and inherited priority, held locks with their waiters, the lock waited for | `AddWaiter`, `RemoveWaiter`, `RemoveWaiterByKey`, `RestorePriority`, `SetBasePriority` | inherited priorities are exact after any sequence of changes along a chain of owners |
| `KConditionVariable` | mutex and condition variable words in guest memory, the tree of waiters | `ArbitrateLock`, `ArbitrateUnlock`, `WaitProcessWideKeyAtomic`, `SignalProcessWideKey` | mutual exclusion, no lost wakeup, timeouts that race signals |
| `KLightLock`, `KLightConditionVariable` | a tag word changed by compare-and-swap, kernel waiters | `Lock`, `Unlock`, slow paths, `Wait`, `Broadcast` | mutual exclusion across fast and slow path, no lost wakeup |
| `KSynchronizationObject`, `KReadableEvent`, `KEvent` | signalled flags, lists of waiting threads | `Wait`, `NotifyAvailable`, `Signal`, `Clear`, `Reset`, cancel, timeout | exactly one result per wait, a thread is in all lists or none |
| `KAddressArbiter` | a tree of waiters per address | `SignalToAddress` (3 kinds), `WaitForAddress` (3 kinds) | compare, update and enqueue are one step; 32-bit wrap |
| `KScheduler`, `KPriorityQueue`, `GlobalSchedulerContext` | per-core queues, the highest-priority thread of each core, migration | `UpdateHighestPriorityThreads`, `RotateScheduledQueue`, `OnThreadStateChanged` | a runnable thread is in the queues, no thread on two cores, no idle core beside a ready thread |
| thread life cycle | state, suspend flags, pins, termination request | `Run`, `Suspend`, `Pin`, `SetActivity`, `Exit`, `RequestTerminate` | a thread with kernel waiters is never suspended, termination always ends |
| IPC: `KSession`, `KServerSession`, `KClientSession`, ports | request queue, current request, session state, session counts | `SendSyncRequest`, `ReceiveRequest`, `SendReply`, close of either end | every request is answered exactly once, also when an end closes |
| `ServerManager`, `MultiWait` | wait lists, sessions, deferred requests, wakeup and deferral events | `LoopProcessImpl`, `WaitSignaled`, `Process`, `LinkDeferred`, shutdown | a session is with one thread or in one list, no notification is missed |
| `KHandleTable`, `KAutoObject` | slots with linear ids, reference counts | `Add`, `Reserve`, `Register`, `Remove`, `Open`, `Close` | a stale handle never resolves, an object is destroyed once |
| `KResourceLimit` | current, limit and hint values, waiters | `Reserve` with timeout, `Release` | never above the limit, a release wakes waiters |
| `KHardwareTimer`, `CoreTiming` | tasks ordered by time, the event queue of the timer thread, pause state | `RegisterAbsoluteTask`, `CancelTask`, `DoTask`, `Advance`, `UnscheduleEvent`, `SyncPause`, `Reset` | a task fires once and not after it is cancelled, the timer thread never sleeps past an event |
| `KMemoryBlockManager`, `KPageTableBase`, `KPageHeap` | memory blocks, page bitmaps | map, unmap, reprotect, allocate | blocks partition the address space |
| `KProcess` | threads, state, handles, pins | `Run`, `Terminate`, `Exit`, `Signal` | termination reaches every thread |

### Around the kernel

CPU cores (`core/arm`, `dynarmic`), guest memory (`core/memory`), timing
(`core_timing`), system services (`core/hle/service`, among them the graphics
buffer queue `nvnflinger` and the `nvdrv` syncpoints), loader, file system,
`video_core` with its shader pipeline and caches, `audio_core`, `hid_core` and
`input_common`, `network` and the dedicated room server, settings and the Qt,
SDL and Android frontends, and the shared containers and workers of `common`.

## 2. Plan

1. `KThread`, `KConditionVariable`: the primitives every guest program uses, and
   the priority inheritance that every other kernel lock rests on. *Done, proved.*
2. `KLightLock`: the kernel's own lock, whose fast path runs without the
   scheduler lock; with an abstract lock it implements. *Done, proved.*
3. `KSynchronizationObject` with events, timeouts, cancellation and termination.
   *Done, proved.*
4. Scheduler, timer. *Done, proved.* Sessions and their servers. *Done,
   model-checked.* Open: address arbiter, resource limits, handle tables.
5. Memory blocks; services with queues of their own (buffer queue, syncpoints).
   *Open.*

Each gets a module for the code, an MC module for TLC, and, where the property
holds for every instance and is in the prover's reach, a proof.

## 3. Modules

| module | models | proofs |
|---|---|---|
| `KThread` | waiters per held lock, `RestorePriority` (`k_thread.cpp`, `k_thread.h`) | `KThread_proofs` |
| `KConditionVariable` | guest mutexes and condition variables (`k_condition_variable.cpp`) and the thread operations that reach their waiters | `KConditionVariable_proofs` |
| `Mutex` | an abstract lock: a holder, a set of queued threads, hand-over | |
| `KLightLock` | the kernel's own lock and thread suspension (`k_light_lock.cpp`) | `KLightLock_proofs` |
| `KSynchronizationObject` | waits for events and threads (`k_synchronization_object.cpp`, `k_readable_event.cpp`) | `KSynchronizationObject_proofs` |
| `CoreTiming` | the timer thread, its event queue, pausing and shutdown (`core_timing.cpp`) | `KHardwareTimer_proofs` |
| `KHardwareTimer` | the kernel's timer tasks, composed with `CoreTiming` (`k_hardware_timer.cpp`) | `KHardwareTimer_proofs` |
| `KPriorityQueue` | the scheduled and suggested queues (`k_priority_queue.h`) | `KScheduler_steps` |
| `KScheduler` | the choice of threads for cores and the cores' context switches (`k_scheduler.cpp`) | `KScheduler_steps` (queue operations and switches), `_update` (under the lock), `_proofs` |
| `KScheduler_invariant` | its inductive invariant, and the kinds of steps the proof tells apart | |
| `MultiWait` | the wait of a server for any of its objects (`os/multi_wait.cpp`) | |
| `KServerSession` | sessions, requests and ports (`k_server_session.cpp` and the files beside it) | |
| `ServerManager` | the server threads, composed with `KServerSession` (`server_manager.cpp`, `sm.cpp`) | |

`MC...` modules give the constants values for TLC.

### How the code is read

*The scheduler lock.* A handler that runs under it is one action. Where a
handler contains a loop whose length depends on the state (`RestorePriority`,
the loop of `Signal`, the loop of `NotifyAvailable`), each iteration is a step,
and a variable (`restoring`, `signal`, `notify`) holds the loop's state. What the
handler does after the loop is kept in `sleep` or `cancel`. All other actions
need `Unlocked`, that is, none of these is under way. Guest code and the
compare-and-swap paths of `KLightLock` do not take the scheduler lock, and could
run in between; each handler accesses the shared word in one atomic access, or,
in `Signal`, in one per iteration, so moving such a step before or after the
handler's other steps changes nothing.

*Trees.* A red-black tree is the set of its members. Members of equal priority
are in order of insertion, which is the relation `ahead`; a change of priority
erases and re-inserts a thread. Lists of `KSynchronizationObject` are modelled
with their pointers, since the code walks them while they change.

*Memory words.* A mutex word is the owner's handle and the wait bit; a light
lock's tag likewise. Accesses to guest memory always succeed.

*Timers.* In the modules of locks and waits an armed task is a member of `timer`
and may fire at any later moment; an infinite wait behaves as a timed one whose
task never fires. That tasks do fire, and in which order, is the subject of
`KHardwareTimer`.

*Guest code.* How a guest program takes and drops an uncontended mutex
(`GuestLock`, `GuestUnlock`) is outside this repository and is inferred from what
the kernel checks. Guests unlock only what they hold.

### KThread and KConditionVariable

`lockOwner`, `addressKey` and `condvarKey` say which tree a thread is in.
`AddWaiter`, `RemoveWaiter` and `RemoveWaiterByKey` change them and set
`restoring` to the thread whose priority has to be recomputed.
`RestorePriorityStep` is one turn of the loop in `RestorePriority`.

The actions are `WaitForAddress` (ArbitrateLock), `SignalToAddress`
(ArbitrateUnlock), `Wait` and `WaitSleep` (WaitProcessWideKeyAtomic), `Signal`,
`SignalLoop` and `SignalEnd` (SignalProcessWideKey), `SetBasePriority`, `OnTimer`,
`RequestTerminate` and `TerminateCancelWait`, `Exit`, `CloseHandle` and `Finalize`.
`holds` is not in the code: it is what a guest program believes it has locked,
and mutual exclusion says the words agree.

### KLightLock and Mutex

`Lock` and `Unlock` are one compare-and-swap; `LockSlowPath` and `UnlockSlowPath`
run under the scheduler lock. `call` is the program counter of a thread between
them. `requested`, `allowed` and `suspended` are the suspension flags: requested,
not disallowed by termination, and in effect. A suspended thread may take a few
more steps before its core reschedules, so suspension removes only fairness.

`Mutex` is what the lock promises: a thread that has queued gets the lock from
its holder, the holder passes a contended lock to a queued thread, and
nobody overtakes. `ImplementsMutex` and `HandsOver` are the refinement, with the
owner in the tag as holder and the kernel waiters as queue.

### KSynchronizationObject

A node `<<t, i>>` links thread `t` to the `i`-th object it waits for. `Wait` makes
the checks of the code in their order and links all nodes; `NotifyAvailable` is
one turn of the notification loop, in which a thread unlinks all its nodes from
all its lists while the loop stands on one of them. `WaitCancel`, `OnTimer` and
`RequestTerminate` end a wait in the three other ways, `Sleep` is the wait that
cannot be cancelled, `Exit` and `FinishTermination` signal the thread object.

### CoreTiming and KHardwareTimer

The timer thread is `host`, its place in `ThreadEntry`, `ThreadLoop` and `Advance`.
`Advance` gives `basic_lock` up while a callback runs, and `stale` records what the
sequence number is for: that the event was unscheduled meanwhile. Every other step
of `CoreTiming` is one critical section of `basic_lock`. `SyncPause` and `Reset` are
the control thread's, in several steps, since they wait for the timer thread.
`LoopingEvent` has a user of its own that schedules and unschedules it.

`KHardwareTimer` keeps `tree` in order of time, `nextTask` and `wakeup`.
`RegisterAbsoluteTask` and `DoTask` call `EnableInterrupt`, which unschedules and
schedules the one event of the timer; `arm` is the place between those calls.
`Sleep` and `EndWait` are the guest threads that use it, `Finalize` its end. Time is
bounded by `MaxTime`; the interesting orders are those of two tasks and a looping
event around the current time.

### KPriorityQueue and KScheduler

A queue is a sequence per core instead of a list per core and priority.
An operation under the scheduler lock, with `UpdateHighestPriorityThreads` at the
end of the lock, is one step; what comes after it interleaves: `RescheduleCores`
sends the interrupts, and `HandleInterrupt`, `EnableScheduling`, `ReadHighest`,
`LockContext`, `CheckSwitch` and `RereadHighest` are what a core does until it runs the
chosen thread, with the context guard it takes on the way. `SetCoreMask` and `SetActivity` keep what they
wait for in `retrying`; `FinishTermination` spins over the cores one by one.

`NumCores` is the number of cores (`NUM_CPU_CORES`, 4 in the code), and the loops over the cores are
recursive functions: `Migrated` at the end of the lock, `Rotations` in `PreemptThreads`.

Simplifications: `GetLastScheduledTick` enters as the choice of an older thread, for every core; the
yield counts as the set `quiet` of threads whose count is the process's; the
interrupts of one `RescheduleCores` are sent in one step; test and reset of
`needs_scheduling` are one step. Pinned threads, dummy threads of the host, the
interrupt task and single-core mode are left out.

### MultiWait, KServerSession and ServerManager

A request is a triple of sender, way of sending and kind; `list`, `current` and `hand` say where it is,
`references` and `answers` count. Clients and servers are actors with program
counters (`call`, and a list of jobs in `work`): a request, `ReceiveRequest`,
`SendReply`, `CleanupRequests` and the destruction of either end take several steps, under
`m_lock` and the scheduler lock as in the code. A client may be terminated at any time. `ServerManager` adds the loop of the
server threads: who has `m_selection_mutex` waits, what is found signalled leaves
the wait list and is handled outside the mutex, and goes back over the deferred list and the wakeup
event. `sm` (one thread, requests for services that are not registered are
deferred) and servers like `bsd` (several threads, no deferral) are the two
combinations the code uses; with several threads and deferral a deferral could be lost, but no
server is set up like that.

Only servers inside the emulator are modelled, which are the ones that use
`ServerManager`: `ReplyAndReceive` of guest programs, the failure paths of copying a
message, and the resource limit of sessions are not.

## 4. Runs

| run | instance | shows |
|---|---|---|
| `condvar` | 3 threads of different priority, 2 mutexes, a condition variable used with one of them, polls and timed waits, signals of one and of all; one thread changes its base priority, another may be terminated, exit, have its handle closed and be finalized | chains and cycles of owners, waits that move from the tree to a mutex, timeouts and termination on either side of that move: exclusion, visibility of waiters, exact inheritance, and the loops end |
| `light_lock` | 3 threads, 2 locks that are not nested, every thread may be suspended, fairness | refinement of `Mutex` with hand-over, no suspended thread with waiters, no lost suspension |
| `light_lock_terminating` | 3 threads, 2 nested locks, a base priority to change to, one thread may be suspended and terminated | counts and priorities when a wait is cancelled |
| `sync` | 2 threads, an event and one of the threads, waits for up to 2 of them, all timeouts, fairness | lists, missed signals, cancellation, joins that end |
| `timer` | 2 threads that sleep, a looping event, any number of pauses, exit, fairness | the interrupt is armed for the earliest task, nobody sleeps past an event, a pause is quiet, sleeps and `SyncPause` end |
| `scheduler` | 2 cores and the timer thread; 2 threads in all interleavings of the switches, 4 threads between switches | queues, idle cores, one core per thread, lost reschedules and yields |
| `ipc` | 2 clients, 1 session object used again and again; one thread that defers, or two threads that do not; asynchronous requests, close, shutdown, a client of `sm` that is terminated; fairness | answers, references, wait lists, missed notifications |
| `owner_exit_null`, `condvar_two_mutexes`, `light_lock_two_suspends`, `light_lock_cancelled`, `scheduler_mask` | | the findings below |

Four properties hold in the instance of a passing run and fail in a larger or less
restricted one: `CondVarFlag` with a fourth thread and the condition variable used
with both mutexes (finding 1), `KernelWaitersAreNotSuspended` with a second kind of
suspension (finding 3), `MutualExclusion` of `KLightLock` with a thread that is
terminated (finding 4), `ChangeIsSeen` with a third core (finding 5). The passing runs
show that nothing else in their instances breaks them.

*Bounds.* Three threads give an owner, a waiter and a third thread that changes
the order between them, a chain of two owners, and a middle element in a list;
two mutexes give chains and cycles. Two objects per wait allow a thread to be
twice in one list, and two threads two entries of either. One new priority above
or below the initial ones changes the order of the waiters. Two tasks and a looping
event give a task before and one behind the armed one. Four threads on two cores give each
core a running thread, a candidate for migration and one that is in its way. One
session object is enough for a session that closes while another opens, because
it is freed and used again. The proofs below do not depend on any of these.

Larger instances ran once, without an error, beyond the time a run may take: the
condition variable used with both mutexes (486,552 states); three threads on two
cores in all interleavings (9.05 million); IPC with all kinds of requests mixed
(20.6 million, safety only), with two threads and a terminated client
(599,773, with liveness), with a terminated asynchronous sender (366,831) and with
synchronous calls beside a close (285,700).

*Deadlock* is not checked in the runs of `KConditionVariable` (guest threads may
exit, or lock their mutexes in opposite orders), `timer` (the clock ends and the
emulator exits), and `ipc` (the server shuts down).
It is checked in all others.

*Fairness.* The host thread with the scheduler lock runs on (weak fairness of
`KernelStep`). In `sync` the worker thread and threads on their way out, in
`light_lock` the threads inside `Lock` and
`Unlock`, compete for that lock with threads that can take it again and again, and
are assumed to get it in the end (strong fairness): the lock is a spin lock of
the host without a queue, so this is a fact about probability and not about
the code. A thread that is not suspended leaves its critical sections. With
nested locks, `HandsOver` needs more than that: a holder can starve in the retry
loop of another lock's `Lock`, because the tag can change between its fast and its
slow path each time. Hence the locks of `light_lock` are not nested. In `timer` and
`ipc` weak fairness of each host thread, of a client inside a system call and of the
clock is enough: no thread needs to win a race again and again. Nothing is assumed of guest threads outside the kernel. The
scheduler is checked for safety only: `SpinEnds`, `RescheduleIsNotLost` and
`YieldIsNotLost` say that what a core waits for is on its way.

## 5. Proofs

For every set of threads, mutexes, condition variables, locks and objects, any number of
cores, all priorities, affinity masks, timeouts and lengths of a run, from the assumptions named in the modules (null values are
not members, constants have their types; threads are finitely many in `KLightLock`, since they
are counted; mutexes of `KConditionVariable` are user ones, `KernelKeys = {}`, locks of
`KLightLock` kernel ones, `KernelKeys = Keys`):

| theorem | always holds | also assumed |
|---|---|---|
| `WaitBookkeeping` | `TypeOK`, `WaitingIsQueued`, `PendingIsValid` of `KConditionVariable` | |
| `MutexCorrect`, `WakeupsCorrect` | `MutualExclusion`, `WaitersAreVisible` | |
| `TimersCorrect` | `NoStaleTimer` | |
| `InheritanceCorrect` | `PriorityIsInherited` | |
| `LightLockCalls` | `TypeOK` of `KLightLock`; a thread waits exactly while its call does | |
| `LightLockInheritance` | `PriorityIsInherited` | |
| `LightLockCounts` | `KernelWaitersAreCounted` | |
| `LightLockSuspension` | `KernelWaitersAreNotSuspended` | one kind of suspension |
| `LightLockMutualExclusion`, `LightLockWakeups` | `MutualExclusion`, `WaitersAreVisible` | no termination |
| `LightLockImplementsMutex` | `ImplementsMutex`: `KLightLock` implements `Mutex` | no termination |
| `LightLockSuspendIsNotLost` | `SuspendIsNotLost` | no termination |
| `SchedulerQueues` | `QueuesAreRight` | |
| `SchedulerContexts` | `OneCorePerThread` | |
| `SchedulerReschedules`, `SchedulerSpins` | `RescheduleIsNotLost`, `SpinEnds` | |
| `SchedulerTerminations` | `TerminatedIsOff` | |
| `SchedulerYields` | `YieldIsNotLost` | |
| `SchedulerChoices` | every core's choice is the front of its queue; `NoIdleCore` | for `NoIdleCore`: no runnable thread is more urgent than the priority from which threads may be migrated |
| `SyncCancellation`, `SyncWaitsAreQueued` | `CancelIsForSyncWaits`; a thread waits exactly while it is on a queue, and has a timer task only then | |
| `SyncLists`, `SyncNoMissedSignal` | `ListsAreRight`, `NoMissedSignal` | |
| `TimerInterruptIsArmed`, `TimerWakeupIsQueued` | `InterruptIsArmed`, `WakeupIsQueued` | |
| `TimerLoopingIsRight` | `LoopingIsRight` | |
| `TimerPausedIsQuiet`, `TimerNoOversleep` | `PausedIsQuiet`, `NoOversleep` | |

Without the added assumptions `KernelWaitersAreNotSuspended` and `MutualExclusion` fail
(findings 3 and 4); the other two theorems with one rest on mutual exclusion.

*Guest mutexes.* The inductive invariants are built up in layers. `QueueInv` (types, a waiting
thread is in exactly one tree, an interrupted handler can go on) is inductive by
itself: types alone are not, since `SignalImpl` writes the mutex named by the key
of a thread it found in a tree, and `WaitSleep` queues a thread that must still be
running. `MutexInv` (the word names the thread that holds the mutex; waiters are
registered with it, with the wait bit set) is inductive relative to `QueueInv`: the
second half is needed to know, at a hand-over, that all waiters of the mutex are
waiters of the thread that passes it on. The inheritance invariant exempts the
thread `restoring`; a step that changes the priority of a thread makes its lock
owner the next exempted one, and the loop stops only at a thread whose priority
was right. The lemmas about trees, hand-overs and inherited priorities are in
`KThread_proofs` and serve both kinds of locks.

`PriorityIsInherited` says each priority agrees with those of the waiters. When
threads wait for each other in a cycle, several assignments do, and the one
reached need not be the least urgent.

*Kernel locks.* `CallInv` ties the program counter of a thread in `Lock` to the queue it
is in, and holds also when waits are cancelled. `MutexInv` adds who owns
what: the tag names the holder or the thread in `Unlock` (`TagsAreRight`), and what a
thread holds, asks for or waits for agrees with its place (`CallsAreRight`), without which
a thread might queue behind itself. The counts are exact because every step moves
finitely many waiters from one thread to another; `SuspendInv` adds to them
that what is suspended was requested. For the refinement the
holder is the owner in the tag and the queue is the set of kernel waiters; a
fast path is a step of `Mutex`, a slow path one or a stutter, and the loop of
`RestorePriority`, suspensions and priority changes are stutters.

*Waits.* `WaitInv` relates state, wait queue, timer task and cancellation flags; all
ways a wait can end go through `EndWait`, and one lemma serves them all. `ListInv` is about the
lists. Each node has a rank, and the nodes of the waits for an object form its list: the head has the
least rank and the tail the greatest, and `next` leads from a node to the one of the next rank. So
`UnlinkNode` and `LinkNode` are lemmas about sets of nodes, and what needs induction (a walk reaches
every node, a thread links its nodes one by one) is shown from the least counterexample. For
`NoMissedSignal`, `WalkLeadsToHead` says where the loop of `NotifyAvailable` stands: it is at the head of the list,
or at a node that was taken out and from which it comes to the head by way of such nodes only.

*Timer.* `Inv` has seven parts. The queue is in the order of time with one event of a type
(`RightQueue`), and the tree in the order of time with the tasks of the waiting threads (`TreeInv`);
`HostInv` ties the place of the timer thread to the callback that runs and to the looping event, which
is in the queue during its callback unless it was unscheduled then. `ArmInv` is the heart: at every
place of `EnableInterrupt` it says whether the timer's event is in the queue and what
`m_wakeup_time` is. A thread in `EnableInterrupt` arms for the time of `m_next_task`, since it has the scheduler
lock; outside of it `m_wakeup_time` is not after the next task, and is the time of an event in the queue or of one
whose callback has yet to look at the tree. That the callback, once it has looked, no longer counts is
what makes the invariant inductive. `PauseInv` bounds `pause_end_time` by the present, without
which a looping event put back after its callback might be out of the range of times.
`CoreTiming` defines `InsertAt` and the loop of `Without` itself, as `KPriorityQueue` does.

*Scheduler.* `SchedulerInv` has five parts. `QueueInv` is about what the lock protects: the queues hold
the threads that can run, the choices are the fronts of the queues, and threads in `quiet`
share their core with no thread of their priority. `GuardInv` says that a
context is locked for the one core that has it, and that a terminated thread keeps its context
locked; without the second half a core could take up a thread that has exited. `FinishInv`
says which cores `FinishTermination` has passed. `ToldInv` follows a
change of choice to its core: at every place of the switch either the choice the core has
read is the present one or `needs_scheduling` is set, and in guest code an interrupt is there or some
actor is about to send it. `RunnersHaveCores` is needed because `YieldToAnyThread` leaves a thread
without a core for a while: it never calls again before it has one.

The proof separates the two sides of the lock. `KScheduler_steps` shows what each queue operation does
to the contents of the queues, `KScheduler_update` that the loops over the cores preserve them,
and `KScheduler_proofs` that every call is a `LockedStep`: the few facts the cores can
observe of an operation. The second half of `KScheduler_steps` preserves the invariant from `LockedStep` and
the cores' own steps, without looking at a queue. The loops need induction over the cores, and queue
operations induction over positions; both are done by hand, with the least counterexample of a set
of numbers (`LeastNatural`), after a lemma that the recursive function has a solution
(`MigratedUnfolds`, `RotationsUnfold`). The invariant was model-checked on two cores, and by simulation on
three, before it was proved. `KPriorityQueue` defines `InsertAt` and
`RemoveAt` itself, since the provers are slow in modules that extend `SequencesExt`.

`NoIdleCore` is proved while no runnable thread has a priority below
`HighestCoreMigrationAllowedPriority`. With such urgent threads the first suggestion that may not
move ends the search, and what an earlier core found can be changed by a later
core's migration; the weaker guarantee of that case is checked on two cores only. `ChangeIsSeen`
is false from three cores on (finding 5), and is checked on two.

Zenon is the prover of every leaf of these modules that names no other; leaves that need
arithmetic or the theory of sequences and records name SMT.

Only model-checked: liveness (`SchedulerLockIsReleased`, `HandsOver`, `JoinEnds`, `TimedWaitEnds`,
`SyncPauseReturns`, `RequestIsAnswered`), which is out of the prover's reach; `CondVarFlag` and
`ChangeIsSeen`, which fail in general; `NoIdleCore` with urgent threads; IPC.

## 6. Findings

1. `condvar_two_mutexes`: `Signal` steps its iterator before `SignalImpl`. When the
   signalled thread queues on a mutex and so raises the priority of a thread that
   waits for the same condition variable (holding that mutex), the raised thread is
   re-inserted before the iterator. The loop ends without it, and clears the flag
   that tells guests to signal.
2. `owner_exit_null`: a thread in ArbitrateLock keeps the owner it named open, but
   not the one a hand-over made its owner. That thread can be finalized;
   `Finalize` takes the waiter out of the lock and cancels its wait, and
   `CancelWait` dereferences the lock owner, by then null.
3. `light_lock_two_suspends`: `Resume` recomputes the suspend flags without regard
   to kernel waiters, which `TrySuspend` respects. With two suspensions
   pending, lifting one suspends a lock holder.
4. `light_lock_cancelled`: a thread terminated while it waits in `KLightLock::Lock`
   returns as if it had the lock.
5. `scheduler_mask`: after a change of the mask `SetCoreMask` waits until the thread
   is not current on a core outside of it, but looks only at the first core whose
   current thread it is. With three cores that may be one the thread is allowed on and that has yet to
   switch, while another core, outside the mask, still executes it.

Smaller observations, for which there is no run:

- `CoreTiming::Reset` (`core_timing.cpp:309-320`) sets its events before it requests
  the stop. The timer thread may take both events and wait again before it sees the
  request, and the join then lasts until something else wakes it. The model has this
  order, and no property says that the join returns.
- The comment at `k_hardware_timer.cpp:44-46` is not true of every order of
  registrations and interrupts; a needless interrupt is the only effect.
- `SyncPause(false)` lets the timer thread run before `pause_end_time` is written
  (`core_timing.cpp:287`), so a looping event may be scheduled from the old one.
- An asynchronous request whose sender is terminating is not signalled when the
  client end closes while the request is current (`ClearEvent`). Nobody is left to see it.
- `KSession` reads and sets its state without a lock when both ends close; both orders end
  the same way.

## 7. Not modelled

- The light condition variable and resource limits: the wait returns at once for a terminating
  thread with the lock taken, which would be modelled on top of `KLightLock`.
- The address arbiter: three kinds of waits and signals, each one critical section around
  one access to guest memory; its waiters and their timeouts are those of `KConditionVariable`.
- Handle tables and reference counts: the references that matter to other components are in
  `KConditionVariable` (handles of threads) and `KServerSession` (ends and requests).
- Processes, light sessions, the memory manager and page tables.
- Failing accesses to guest memory, pinned threads, single-core mode and the resource
  accounting of threads are left out of the present modules.
- Instruction translation, shader compilation, graphics and audio data paths, file formats and
  user interfaces have no concurrency or protocol that TLC could explore in a
  useful instance. They are by far the largest part of the repository.
