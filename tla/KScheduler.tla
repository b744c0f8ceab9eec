----------------------------- MODULE KScheduler -----------------------------
(***************************************************************************)
(* The kernel's scheduler (core/hle/kernel/k_scheduler.cpp): what the      *)
(* operations under the scheduler lock do to the priority queues, how the  *)
(* end of the lock chooses a thread for every core, and how the cores,     *)
(* outside the lock, switch to what was chosen for them.                   *)
(*                                                                         *)
(* An operation under the scheduler lock, with the update that Unlock makes*)
(* before it releases the lock, is one step.  What comes after it (the     *)
(* interrupts for the other cores, the test of needs_scheduling, the fiber *)
(* that switches contexts) interleaves with the other cores.               *)
(***************************************************************************)
EXTENDS KPriorityQueue

CONSTANTS
  Priority,        \* [Threads -> Nat], GetPriority of a new thread
  Affinity,        \* [Threads -> SUBSET Cores], its affinity mask
  Priorities,      \* [Threads -> SUBSET Nat], what SetPriority may give it
  Masks,           \* [Threads -> SUBSET SUBSET Cores], what SetCoreMask may
  MayPause,        \* the threads SetActivity may pause
  MayExit,         \* the threads that may exit
  Preemption,      \* [Cores -> Nat], per_core: the priority PreemptThreads rotates
  Host             \* the timer thread, which runs no guest thread

ASSUME SchedulerAssumption ==
  /\ Priority \in [Threads -> Nat] /\ Priorities \in [Threads -> SUBSET Nat]
  /\ Affinity \in [Threads -> (SUBSET Cores) \ {{}}]
  /\ Masks \in [Threads -> SUBSET ((SUBSET Cores) \ {{}})]
  /\ MayPause \subseteq Threads /\ MayExit \subseteq Threads
  /\ Preemption \in [Cores -> Nat] /\ Host \notin Cores

VARIABLES
  q,               \* the priority queues and the threads' scheduling data
  state,           \* GetState of a thread
  paused,          \* the threads with SuspendType::Thread requested
  quiet,           \* the threads whose yield count is the process's count
  highest,         \* m_state.highest_priority_thread of a core
  needs,           \* m_state.needs_scheduling
  interrupted,     \* m_is_interrupted of the physical core
  toInterrupt,     \* the cores an actor has yet to interrupt
  pc,              \* where a core is: see Pcs
  current,         \* m_current_thread, NoThread for the idle thread
  next,            \* the local highest_priority_thread of the switch
  guarded,         \* the threads whose m_context_guard is locked
  retrying,        \* what a thread waits for in SetCoreMask or SetActivity
  finishing        \* how many cores FinishTermination has passed

locked == <<q, state, paused, quiet, highest>>
vars == <<q, state, paused, quiet, highest, needs, interrupted, toInterrupt, pc, current,
          next, guarded, retrying, finishing>>

HighestCoreMigrationAllowedPriority == 2

\* "run": executes its current thread; "ipi": released the scheduler lock;
\* "read": cleared needs_scheduling in ScheduleImpl; "lock", "check",
\* "reread": in the loop of ScheduleImplFiber.
Pcs == {"run", "ipi", "read", "lock", "check", "reread"}

NoRetry == [target |-> NoThread, allowed |-> {}]

\* ThreadState::Runnable as the raw state, the suspend flags included.
Queued(t) == state[t] = "Runnable" /\ t \notin paused

----------------------------------------------------------------------------
(* UpdateHighestPriorityThreadsImpl *)

Top(top, core) == IF core = NoCore THEN NoThread ELSE top[core]
Movable(z, top) == top = NoThread \/ z.priority[top] >= HighestCoreMigrationAllowedPriority

\* The top threads the queues have at present.
Tops(z) == [c \in Cores |-> GetFront(z.scheduled[c])]

\* The suggestions for core c that are not the top thread of their core.
NotTop(z, top, c) == {s \in Range(z.suggested[c]) : Top(top, z.core[s]) # s}

\* The suggestions for core c whose core has a thread after them.
Spare(z, c) == {s \in Range(z.suggested[c]) : GetNext(z.scheduled[z.core[s]], s) # NoThread}

\* Mutant: the cores of the top threads are not looked at for another thread.
MigrateToIdle_NoCandidates(a, c) ==
  LET z == a.q
      s == First(z.suggested[c], NotTop(z, a.top, c))
  IN  IF s # NoThread /\ Movable(z, Top(a.top, z.core[s]))
      THEN [q |-> ChangeCore(z, s, c, FALSE), top |-> [a.top EXCEPT ![c] = s]]
      ELSE a

\* One idle core.  The first suggestion that is not the top of its core moves,
\* and no other is tried if it may not; if all of them are tops, the first
\* whose core has another thread does.
MigrateToIdle(a, c) ==
  LET z == a.q
      s == First(z.suggested[c], NotTop(z, a.top, c))
      u == First(z.suggested[c], Spare(z, c))
  IN  IF s # NoThread
      THEN IF Movable(z, Top(a.top, z.core[s]))
           THEN [q |-> ChangeCore(z, s, c, FALSE), top |-> [a.top EXCEPT ![c] = s]]
           ELSE a
      ELSE IF u # NoThread
      THEN [q |-> ChangeCore(z, u, c, FALSE),
            top |-> [a.top EXCEPT ![z.core[u]] = GetNext(z.scheduled[z.core[u]], u), ![c] = u]]
      ELSE a

\* The cores that were idle at first, in turn.
Migrated(z) ==
  LET after[n \in 0 .. NumCores] ==
        IF n = 0 THEN [q |-> z, top |-> Tops(z)]
        ELSE IF Tops(z)[n - 1] = NoThread THEN MigrateToIdle(after[n - 1], n - 1)
        ELSE after[n - 1]
  IN  after[NumCores]

\* Unlock, by an actor, of the queues z; UpdateHighestPriorityThread notes the
\* cores whose thread changed, once or twice.  counted: the operation called
\* IncrementScheduledCount; yielded: it set the yield count of these threads.
Unlock(actor, z, update, counted, yielded) ==
  LET m == Migrated(z)
      first == Tops(z)
      changed == {c \in Cores : highest[c] # first[c] \/ first[c] # m.top[c]}
      recount == \E c \in Cores : \/ highest[c] # first[c] /\ highest[c] # NoThread
                                  \/ first[c] # m.top[c] /\ first[c] # NoThread
      count == IF counted THEN yielded ELSE quiet \cup yielded
  IN  IF update
      THEN /\ q' = m.q
           /\ highest' = m.top
           /\ needs' = [c \in Cores |-> needs[c] \/ c \in changed]
           /\ toInterrupt' = [toInterrupt EXCEPT ![actor] = changed \ {actor}]
           /\ quiet' = IF recount THEN {} ELSE count
      ELSE /\ q' = z
           /\ quiet' = count
           /\ UNCHANGED <<highest, needs, toInterrupt>>

----------------------------------------------------------------------------
(* The operations under the scheduler lock. *)

\* Core c executes thread t, in guest code or in a system call.
Runs(c, t) == pc[c] = "run" /\ current[c] = t /\ t # NoThread
Calls(c, t) == Runs(c, t) /\ retrying[t] = NoRetry

\* A locked operation of a core ends in EnableScheduling; the timer thread
\* begins no operation before it has sent the interrupts of the last one.
Operation(actor, z, update, counted, yielded) ==
  /\ actor = Host => toInterrupt[Host] = {}
  /\ Unlock(actor, z, update, counted, yielded)
  /\ pc' = [c \in Cores |-> IF c = actor THEN "ipi" ELSE pc[c]]
  /\ UNCHANGED <<interrupted, current, next, guarded, finishing>>

\* Mutant: a thread that becomes runnable does not count as scheduling.
OnThreadStateChanged_NoCount(actor, t, was, is) ==
  Operation(actor, IF was /\ ~is THEN RemoveThread(q, t) ELSE IF is /\ ~was THEN PushBack(q, t) ELSE q,
            was # is, FALSE, {})

\* OnThreadStateChanged for a thread that was, and is, in the queues or not.
OnThreadStateChanged(actor, t, was, is) ==
  Operation(actor, IF was /\ ~is THEN RemoveThread(q, t) ELSE IF is /\ ~was THEN PushBack(q, t) ELSE q,
            was # is, was # is, {})

\* KThread::BeginWait
BeginWait(c) ==
  \E t \in Threads :
    /\ Calls(c, t)
    /\ state[t] = "Runnable"
    /\ state' = [state EXCEPT ![t] = "Waiting"]
    /\ OnThreadStateChanged(c, t, Queued(t), FALSE)
    /\ UNCHANGED <<paused, retrying>>

\* KThread::EndWait, called by another thread or by the timer.
EndWait(actor, u) ==
  /\ actor # Host => \E t \in Threads : Calls(actor, t)
  /\ state[u] = "Waiting"
  /\ state' = [state EXCEPT ![u] = "Runnable"]
  /\ OnThreadStateChanged(actor, u, FALSE, u \notin paused)
  /\ UNCHANGED <<paused, retrying>>

\* KThread::SetBasePriority and OnThreadPriorityChanged
SetPriority(c, u, p) ==
  /\ \E t \in Threads :
       /\ Calls(c, t)
       /\ p # q.priority[u]
       /\ state[u] # "Terminated"
       /\ Operation(c, IF Queued(u) THEN ChangePriority(q, u, p, u = t) ELSE [q EXCEPT !.priority[u] = p],
                    Queued(u), Queued(u), {})
  /\ UNCHANGED <<state, paused, retrying>>

\* The light lock of SetCoreMask and SetActivity is held for the thread u.
ActivityLocked(u) == \E t \in Threads : retrying[t].target = u

\* KThread::SetCoreMask up to the first release of the scheduler lock; the
\* ideal core is one of the mask.
SetCoreMask(c, u, mask) ==
  /\ \E t \in Threads, ideal \in mask :
       LET core == IF q.core[u] = NoCore \/ q.core[u] \in mask THEN q.core[u] ELSE ideal
       IN  /\ Calls(c, t)
           /\ ~ActivityLocked(u)
           /\ state[u] # "Terminated"
           /\ mask # q.affinity[u]
           /\ Operation(c, IF Queued(u) THEN ChangeAffinityMask(q, u, mask, core)
                           ELSE [q EXCEPT !.affinity[u] = mask, !.core[u] = core],
                        Queued(u), Queued(u), {})
           /\ retrying' = [retrying EXCEPT ![t] = [target |-> u, allowed |-> mask]]
  /\ UNCHANGED <<state, paused>>

\* KThread::SetActivity(Paused) up to there.
Pause(c, u) ==
  \E t \in Threads \ {u} :
    /\ Calls(c, t)
    /\ ~ActivityLocked(u)
    /\ u \in MayPause \ paused
    /\ state[u] \in {"Runnable", "Waiting"}
    /\ paused' = paused \cup {u}
    /\ OnThreadStateChanged(c, u, Queued(u), FALSE)
    /\ retrying' = [retrying EXCEPT ![t] = [target |-> u, allowed |-> {}]]
    /\ UNCHANGED state

\* KThread::SetActivity(Runnable)
Resume(c, u) ==
  /\ \E t \in Threads \ {u} : Calls(c, t)
  /\ ~ActivityLocked(u)
  /\ u \in paused
  /\ paused' = paused \ {u}
  /\ OnThreadStateChanged(c, u, FALSE, state[u] = "Runnable")
  /\ UNCHANGED <<state, retrying>>

\* Mutant: a thread that is current anywhere does not delay the caller.
MustRetry_Never(r) == FALSE

\* The first core that has the thread as its current one is looked at.
MustRetry(r) ==
  LET on == {d \in Cores : current[d] = r.target}
  IN  /\ state[r.target] # "Terminated"
      /\ on # {}
      /\ (CHOOSE d \in on : \A e \in on : d <= e) \notin r.allowed

\* One round of the loop at the end of SetCoreMask and of SetActivity.
RetryUpdate(c) ==
  \E t \in Threads :
    /\ Runs(c, t)
    /\ retrying[t] # NoRetry
    /\ retrying' = IF MustRetry(retrying[t]) THEN retrying ELSE [retrying EXCEPT ![t] = NoRetry]
    /\ Operation(c, q, FALSE, FALSE, {})
    /\ UNCHANGED <<state, paused>>

\* KThread::Exit and StartTermination
Exit(c) ==
  \E t \in MayExit :
    /\ Calls(c, t)
    /\ state[t] = "Runnable"
    /\ state' = [state EXCEPT ![t] = "Terminated"]
    /\ paused' = paused \ {t}
    /\ Operation(c, IF Queued(t) THEN RemoveThread(q, t) ELSE q, TRUE, TRUE, {})
    /\ UNCHANGED retrying

----------------------------------------------------------------------------
(* Yields and preemption.  GetLastScheduledTick is left out: older says      *)
(* whether the next thread waits longer than the suggestions.                *)

\* A yield is given up when the thread's yield count is the process's, and
\* does nothing for a thread that is not runnable any more.
Yields(c, t) == Calls(c, t) /\ t \notin quiet /\ Queued(t)

YieldWithoutCoreMigration(c) ==
  /\ \E t \in Threads :
       LET z == MoveToScheduledBack(q, t)
           n == GetFrontOf(z, z.scheduled[q.core[t]], q.priority[t])
       IN  /\ Yields(c, t)
           /\ Operation(c, z, n # t, TRUE, IF n = t THEN {t} ELSE {})
  /\ UNCHANGED <<state, paused, retrying>>

\* The suggestions that are not running on their core are tried in turn: one
\* that comes after the next thread ends the search, one that may move is moved
\* to the front, and one that may not is skipped and looked at again.
YieldWithCoreMigration(c) ==
  /\ \E t \in Threads, older \in BOOLEAN :
       LET here == q.core[t]
           z == MoveToScheduledBack(q, t)
           n == GetFrontOf(z, z.scheduled[here], q.priority[t])
           others == NotTop(z, highest, here)
           Ends(s) == \/ q.priority[s] > q.priority[t]
                      \/ q.priority[s] = q.priority[t] /\ n # t /\ older
           s == First(z.suggested[here], {o \in others : Ends(o) \/ Movable(z, Top(highest, z.core[o]))})
           moves == s # NoThread /\ ~Ends(s)
           recheck == First(z.suggested[here], others) # s
       IN  /\ Yields(c, t)
           /\ Operation(c, IF moves THEN ChangeCore(z, s, here, TRUE) ELSE z,
                        moves \/ n # t, TRUE, IF moves \/ n # t \/ recheck THEN {} ELSE {t})
  /\ UNCHANGED <<state, paused, retrying>>

\* The thread leaves its core; if the core has no other, the first suggestion
\* that is not a top thread moves to it, and this may be the thread itself.
YieldToAnyThread(c) ==
  /\ \E t \in Threads :
       LET here == q.core[t]
           z == ChangeCore(q, t, NoCore, FALSE)
           s == First(z.suggested[here], NotTop(z, Tops(z), here))
           alone == z.scheduled[here] = <<>>
           moves == alone /\ s # NoThread /\ Movable(z, Top(Tops(z), z.core[s]))
       IN  /\ Yields(c, t)
           /\ Operation(c, IF moves THEN ChangeCore(z, s, here, FALSE) ELSE z,
                        ~(alone /\ s = t), TRUE, IF alone /\ s = t THEN {t} ELSE {})
  /\ UNCHANGED <<state, paused, retrying>>

\* The first of the suggestions that may move, moved to the front of core c.
MoveFirst(z, c, some) ==
  LET s == First(z.suggested[c], {o \in some : Movable(z, Top(Tops(z), z.core[o]))})
  IN  IF s = NoThread THEN z ELSE ChangeCore(z, s, c, TRUE)

\* RotateScheduledQueue, which the timer thread calls, so that no thread of
\* the queues is the current one.
RotateScheduledQueue(z, c, p, older) ==
  LET top == GetFrontOf(z, z.scheduled[c], p)
      z1 == IF top = NoThread THEN z ELSE MoveToScheduledBack(z, top)
      n == GetFrontOf(z1, z1.scheduled[c], p)
      z2 == IF top # n /\ older THEN z1
            ELSE MoveFirst(z1, c, {s \in NotTop(z1, Tops(z1), c) : z1.priority[s] = p})
      best == GetFront(z2.scheduled[c])
      better == {s \in NotTop(z2, Tops(z2), c) : z2.priority[s] < z2.priority[best]}
  IN  IF best # NoThread /\ z2.priority[best] >= p THEN MoveFirst(z2, c, better) ELSE z2

\* The queues after each core in turn; older: the cores whose next thread has
\* waited longer than their suggestions.
Rotations(z, older) ==
  LET after[n \in 0 .. NumCores] ==
        IF n = 0 THEN z
        ELSE RotateScheduledQueue(after[n - 1], n - 1, Preemption[n - 1], n - 1 \in older)
  IN  after

\* GlobalSchedulerContext::PreemptThreads, in the timer's callback.  Rotating
\* or moving a thread counts as scheduling its process.
PreemptThreads ==
  /\ \E older \in SUBSET Cores :
       LET after == Rotations(q, older)
       IN  Operation(Host, after[NumCores], TRUE, \E c \in Cores : after[c + 1] # after[c], {})
  /\ UNCHANGED <<state, paused, retrying>>

----------------------------------------------------------------------------
(* The steps of a core, or of the timer thread, outside the lock. *)

Goto(c, from, to) == pc[c] = from /\ pc' = [pc EXCEPT ![c] = to]

\* RescheduleCores: PhysicalCore::Interrupt for every core that changed.
Interrupt(actor) ==
  /\ interrupted' = [c \in Cores |-> interrupted[c] \/ c \in toInterrupt[actor]]
  /\ toInterrupt' = [toInterrupt EXCEPT ![actor] = {}]

\* Mutant: only the other cores are told.
EnableScheduling_NoSelf(c) ==
  /\ Goto(c, "ipi", "run")
  /\ Interrupt(c)
  /\ UNCHANGED <<locked, needs, current, next, guarded, retrying, finishing>>

\* EnableScheduling: the other cores, then RescheduleCurrentCore and the start
\* of ScheduleImpl, which clears needs_scheduling: a choice made between the
\* test and the clearing is one made before the test.
EnableScheduling(c) ==
  /\ Goto(c, "ipi", IF needs[c] THEN "read" ELSE "run")
  /\ needs' = [needs EXCEPT ![c] = FALSE]
  /\ Interrupt(c)
  /\ UNCHANGED <<locked, current, next, guarded, retrying, finishing>>

RescheduleCores ==
  /\ toInterrupt[Host] # {}
  /\ Interrupt(Host)
  /\ UNCHANGED <<locked, needs, pc, current, next, guarded, retrying, finishing>>

\* KInterruptManager::HandleInterrupt, in the loop of a guest thread or of the
\* idle thread: ClearInterrupt, RequestScheduleOnInterrupt and the start of
\* ScheduleImpl.
HandleInterrupt(c) ==
  /\ interrupted[c]
  /\ Goto(c, "run", "read")
  /\ interrupted' = [interrupted EXCEPT ![c] = FALSE]
  /\ needs' = [needs EXCEPT ![c] = FALSE]
  /\ UNCHANGED <<locked, toInterrupt, current, next, guarded, retrying, finishing>>

\* Mutant: a terminated thread's context is unlocked.
Unload_Always(t) == guarded \ {t}

\* Mutant: the context stays locked until the next one is.
Unload_Keeps(t) == guarded

\* Unload
Unload(t) == IF t # NoThread /\ state[t] = "Terminated" THEN guarded ELSE guarded \ {t}

\* The rest of ScheduleImpl: go on with the thread, or leave it for the fiber.
ReadHighest(c) ==
  /\ \/ /\ highest[c] = current[c] /\ current[c] # NoThread
        /\ Goto(c, "read", "run")
        /\ UNCHANGED <<next, guarded>>
     \/ /\ highest[c] # current[c] \/ current[c] = NoThread
        /\ Goto(c, "read", "lock")
        /\ next' = [next EXCEPT ![c] = highest[c]]
        /\ guarded' = Unload(current[c])
  /\ UNCHANGED <<locked, needs, interrupted, toInterrupt, current, retrying, finishing>>

\* Mutant: the result of try_lock is ignored.
LockContext_Ignores(c) ==
  /\ Goto(c, "lock", "check")
  /\ guarded' = guarded \cup ({next[c]} \ {NoThread})
  /\ current' = [current EXCEPT ![c] = next[c]]
  /\ UNCHANGED <<locked, needs, interrupted, toInterrupt, next, retrying, finishing>>

\* try_lock of the next thread's context and SwitchThread; a core has an idle
\* thread of its own.
LockContext(c) ==
  /\ next[c] \notin guarded
  /\ Goto(c, "lock", "check")
  /\ guarded' = guarded \cup ({next[c]} \ {NoThread})
  /\ current' = [current EXCEPT ![c] = next[c]]
  /\ UNCHANGED <<locked, needs, interrupted, toInterrupt, next, retrying, finishing>>

\* The context is locked and another core interferes: on to retry, which
\* clears needs_scheduling.
GiveUp(c) ==
  /\ next[c] \in guarded
  /\ needs[c]
  /\ Goto(c, "lock", "reread")
  /\ needs' = [needs EXCEPT ![c] = FALSE]
  /\ next' = [next EXCEPT ![c] = NoThread]
  /\ UNCHANGED <<locked, interrupted, toInterrupt, current, guarded, retrying, finishing>>

\* The switch failed and is retried, or Reload and go on with the thread.
CheckSwitch(c) ==
  /\ Goto(c, "check", IF needs[c] THEN "reread" ELSE "run")
  /\ needs' = [needs EXCEPT ![c] = FALSE]
  /\ guarded' = IF needs[c] THEN guarded \ {next[c]} ELSE guarded
  /\ next' = [next EXCEPT ![c] = NoThread]
  /\ UNCHANGED <<locked, interrupted, toInterrupt, current, retrying, finishing>>

RereadHighest(c) ==
  /\ Goto(c, "reread", "lock")
  /\ next' = [next EXCEPT ![c] = highest[c]]
  /\ UNCHANGED <<locked, needs, interrupted, toInterrupt, current, guarded, retrying, finishing>>

\* KThread::FinishTermination, in a worker thread: one core after the other.
FinishTermination(t) ==
  /\ state[t] = "Terminated"
  /\ finishing[t] < NumCores
  /\ current[finishing[t]] # t
  /\ finishing' = [finishing EXCEPT ![t] = @ + 1]
  /\ UNCHANGED <<locked, needs, interrupted, toInterrupt, pc, current, next, guarded, retrying>>

----------------------------------------------------------------------------

\* The threads that exist have not been started: they wait on the first core of
\* their mask.
InitWith(exist) ==
  /\ q = [scheduled |-> [c \in Cores |-> <<>>], suggested |-> [c \in Cores |-> <<>>],
          core |-> [t \in Threads |-> CHOOSE c \in Affinity[t] : \A d \in Affinity[t] : c <= d],
          priority |-> Priority, affinity |-> Affinity]
  /\ state = [t \in Threads |-> IF t \in exist THEN "Waiting" ELSE "Terminated"]
  /\ finishing = [t \in Threads |-> IF t \in exist THEN 0 ELSE NumCores]
  /\ paused = {} /\ quiet = {}
  /\ highest = [c \in Cores |-> NoThread]
  /\ needs = [c \in Cores |-> FALSE]
  /\ interrupted = [c \in Cores |-> FALSE]
  /\ toInterrupt = [a \in Cores \cup {Host} |-> {}]
  /\ pc = [c \in Cores |-> "run"]
  /\ current = [c \in Cores |-> NoThread]
  /\ next = [c \in Cores |-> NoThread]
  /\ guarded = {}
  /\ retrying = [t \in Threads |-> NoRetry]

Init == InitWith(Threads)

\* What a core does by itself once it is asked to.
CoreStep(c) ==
  \/ EnableScheduling(c) \/ HandleInterrupt(c) \/ ReadHighest(c)
  \/ LockContext(c) \/ GiveUp(c) \/ CheckSwitch(c) \/ RereadHighest(c) \/ RetryUpdate(c)

\* What the thread it executes may ask for.
Call(c) ==
  \/ BeginWait(c) \/ Exit(c)
  \/ YieldWithoutCoreMigration(c) \/ YieldWithCoreMigration(c) \/ YieldToAnyThread(c)
  \/ \E u \in Threads :
       \/ EndWait(c, u) \/ Pause(c, u) \/ Resume(c, u)
       \/ \E p \in Priorities[u] : SetPriority(c, u, p)
       \/ \E mask \in Masks[u] : SetCoreMask(c, u, mask)

HostStep == PreemptThreads \/ \E u \in Threads : EndWait(Host, u)

Next ==
  \/ \E c \in Cores : CoreStep(c) \/ Call(c)
  \/ HostStep \/ RescheduleCores
  \/ \E t \in Threads : FinishTermination(t)

Spec == Init /\ [][Next]_vars

----------------------------------------------------------------------------
(* Properties. *)

TypeOK ==
  /\ q \in Queues
  /\ state \in [Threads -> {"Runnable", "Waiting", "Terminated"}]
  /\ paused \subseteq Threads /\ quiet \subseteq Threads /\ guarded \subseteq Threads
  /\ highest \in [Cores -> Threads \cup {NoThread}]
  /\ needs \in [Cores -> BOOLEAN] /\ interrupted \in [Cores -> BOOLEAN]
  /\ toInterrupt \in [Cores \cup {Host} -> SUBSET Cores]
  /\ pc \in [Cores -> Pcs]
  /\ current \in [Cores -> Threads \cup {NoThread}] /\ next \in [Cores -> Threads \cup {NoThread}]
  /\ retrying \in [Threads -> [target : Threads \cup {NoThread}, allowed : SUBSET Cores]]
  /\ finishing \in [Threads -> 0 .. NumCores]

\* Whatever migrations, mask and priority changes a thread went through, it is
\* once in the scheduled queue of its core and once in the suggested queue of
\* every other core of its mask while it can run, in the order of priority, and
\* in no queue otherwise; its core is one of its mask.
QueuesAreRight == TypeOK /\ HoldsThreads(q, {t \in Threads : Queued(t)})

\* Once the lock is released every core has the front of its queue, and a core
\* has none only when no thread that may run on it waits for another core: each
\* is the only one of its core (UpdateHighestPriorityThreadsImpl: "Idle cores
\* are bad"), unless a thread too urgent for migrations keeps it.
NoIdleCore ==
  \A c \in Cores :
    LET on(t) == Top(highest, q.core[t])
        waits(t) == on(t) # t
    IN  /\ highest[c] = GetFront(q.scheduled[c])
        /\ highest[c] = NoThread =>
             \/ \A t \in Range(q.suggested[c]) : ~waits(t) /\ Len(q.scheduled[q.core[t]]) = 1
             \/ \E t \in Range(q.suggested[c]) : waits(t) /\ ~Movable(q, on(t))

\* Core c executes the code of thread t.
Executes(c, t) == current[c] = t /\ pc[c] \in {"run", "ipi", "read"}

\* A core that took a thread's context from a stale choice, or from a choice
\* that moved between two cores, never executes a thread that another core
\* still executes (m_context_guard).
OneCorePerThread ==
  \A c, d \in Cores, t \in Threads : Executes(c, t) /\ Executes(d, t) => c = d

\* A core that goes on with another thread than the one chosen for it has
\* needs_scheduling set and an interrupt on the way, whatever it cleared or read
\* while the choice changed: no reschedule is lost between the lock, the
\* flag, and the fiber.
RescheduleIsNotLost ==
  \A c \in Cores :
    pc[c] = "run" /\ current[c] # highest[c] =>
      needs[c] /\ (interrupted[c] \/ \E a \in DOMAIN toInterrupt : c \in toInterrupt[a])

\* A core that spins on a context, with nothing new chosen for it, waits for
\* another core that executes the thread and has been told to leave it: cores
\* that exchange their threads do not wait for each other, and none waits for
\* a context that a terminated thread keeps locked.
SpinEnds ==
  \A c \in Cores :
    pc[c] = "lock" /\ next[c] \in guarded /\ ~needs[c] =>
      /\ state[next[c]] # "Terminated"
      /\ \E d \in Cores \ {c} : /\ current[d] = next[c]
                                /\ pc[d] = "read" \/ (pc[d] \in {"run", "ipi", "check"} /\ needs[d])

\* When SetCoreMask and SetActivity have returned, no core executes the thread
\* outside of its mask, or although it is paused, however its switch was under
\* way when they looked at the current threads.
ChangeIsSeen ==
  \A c \in Cores, t \in Threads :
    Executes(c, t) /\ ~ActivityLocked(t) /\ state[t] # "Terminated" => c \in q.affinity[t] /\ t \notin paused

\* A thread whose termination is finished, so that it may be freed, is the
\* current thread of no core, not even of one that had chosen it before.
TerminatedIsOff ==
  \A t \in Threads : finishing[t] = NumCores =>
    \A c \in Cores : current[c] # t /\ ~Executes(c, t)

\* A thread whose yields are skipped (its yield count is the process's) has
\* nobody of its priority to yield to on its core.
YieldIsNotLost ==
  \A t \in quiet : Queued(t) => OfPriority(q, q.scheduled[q.core[t]], q.priority[t]) = {t}

=============================================================================
