----------------------------- MODULE KLightLock -----------------------------
(***************************************************************************)
(* KLightLock, the lock the kernel protects its own objects with           *)
(* (core/hle/kernel/k_light_lock.cpp), and the suspension of threads, which *)
(* has to leave alone a thread that others wait for in the kernel.         *)
(*                                                                         *)
(* The fast paths of Lock and Unlock are one compare-and-swap each, outside *)
(* the scheduler lock.  The slow paths take the scheduler lock and access   *)
(* the tag once, so that the fast paths of other threads come before or     *)
(* after them.                                                             *)
(*                                                                         *)
(* A suspended thread stops when its core reschedules, which may be after   *)
(* some more steps: its steps are not disabled, but not fair either.       *)
(***************************************************************************)
EXTENDS KThread

CONSTANTS
  InitialPriority,      \* base priority each thread is created with
  Priorities,           \* priorities SetBasePriority is called with
  TerminatingPriority,  \* TerminatingThreadPriority
  MayNest,              \* <<j, k>>: lock k may be taken with lock j held
  SuspendTypes,         \* kinds of suspension requests
  MaySuspend,           \* threads that may be suspended
  MayTerminate          \* threads that may be terminated

ASSUME LightLockAssumption ==
  /\ IsFiniteSet(Threads) /\ KernelKeys = Keys /\ CondVarKeys = {}
  /\ InitialPriority \in [Threads -> Int] /\ Priorities \subseteq Int /\ TerminatingPriority \in Int
  /\ MaySuspend \subseteq Threads /\ MayTerminate \subseteq Threads

VARIABLES
  tag,          \* m_tag of each lock
  call,         \* where a thread is in Lock or Unlock
  holds,        \* the locks a thread has locked and not yet unlocked
  requested,    \* m_suspend_request_flags
  suspended,    \* the suspend flags in m_thread_state
  allowed,      \* threads whose m_suspend_allowed_flags are not cleared
  terminating,  \* threads with m_termination_requested
  cancel        \* a thread RequestTerminate has still to wake

lockVars == <<tag, call, holds>>
suspendVars == <<requested, suspended, allowed>>
vars == <<threadVars, lockVars, suspendVars, terminating, cancel>>

Free == [owner |-> NoThread, wait |-> FALSE]
NoCall == [at |-> "none", key |-> NoKey, owner |-> NoThread]

\* The scheduler lock is free.
Unlocked == restoring = NoThread /\ cancel = NoThread

Runs(t) == Unlocked /\ state[t] = "Runnable"

Init ==
  /\ ThreadInit(InitialPriority)
  /\ tag = [k \in Keys |-> Free]
  /\ call = [t \in Threads |-> NoCall]
  /\ holds = [t \in Threads |-> {}]
  /\ requested = [t \in Threads |-> {}]
  /\ suspended = [t \in Threads |-> {}]
  /\ allowed = Threads
  /\ terminating = {}
  /\ cancel = NoThread

----------------------------------------------------------------------------
(* The lock. *)

\* Mutant: a lock nobody waits for is taken for free.
IsFree_NoWaiters(k) == ~tag[k].wait

\* The lock is free (old_tag == 0).
IsFree(k) == tag[k] = Free

\* KLightLock::Lock: one compare-and-swap, by a thread that calls Lock or that
\* LockSlowPath has sent back.
Lock(t, k) ==
  /\ Runs(t)
  /\ \/ call[t] = NoCall /\ k \notin holds[t] /\ holds[t] \X {k} \subseteq MayNest
     \/ call[t].at = "lock" /\ call[t].key = k
  /\ IF IsFree(k)
     THEN /\ tag' = [tag EXCEPT ![k] = [owner |-> t, wait |-> FALSE]]
          /\ holds' = [holds EXCEPT ![t] = @ \cup {k}]
          /\ call' = [call EXCEPT ![t] = NoCall]
     ELSE /\ tag' = [tag EXCEPT ![k] = [owner |-> tag[k].owner, wait |-> TRUE]]
          /\ call' = [call EXCEPT ![t] = [at |-> "slow", key |-> k, owner |-> tag[k].owner]]
          /\ UNCHANGED holds
  /\ UNCHANGED <<threadVars, suspendVars, terminating, cancel>>

\* The suspend flags that apply to t (GetSuspendFlags).
SuspendFlags(t) == IF t \in allowed THEN requested[t] ELSE {}

\* Mutant: the tag is not read again under the scheduler lock.
IsStale_Never(k, owner) == FALSE

\* The lock changed hands before LockSlowPath had the scheduler lock.
IsStale(k, owner) == tag[k] # [owner |-> owner, wait |-> TRUE]

\* Mutant: a suspended owner is not woken.
ContinueOwner_Missing(owner) == suspended

\* The owner runs on if it is suspended, now that it has a kernel waiter.
ContinueOwner(owner) ==
  IF SuspendFlags(owner) # {} THEN [suspended EXCEPT ![owner] = {}] ELSE suspended

\* KLightLock::LockSlowPath
LockSlowPath(t) ==
  LET k == call[t].key
      owner == call[t].owner
  IN
  /\ Runs(t) /\ call[t].at = "slow"
  /\ IF IsStale(k, owner)
     THEN /\ call' = [call EXCEPT ![t] = [at |-> "lock", key |-> k, owner |-> NoThread]]
          /\ UNCHANGED <<threadVars, suspended>>
     ELSE /\ AddWaiter(owner, t, k)
          /\ state' = [state EXCEPT ![t] = "Waiting"]
          /\ call' = [call EXCEPT ![t] = [at |-> "wait", key |-> k, owner |-> NoThread]]
          /\ suspended' = ContinueOwner(owner)
          /\ UNCHANGED <<base, prio>>
  /\ UNCHANGED <<tag, holds, requested, allowed, terminating, cancel>>

\* The compare-and-swap of Unlock succeeds.
IsUncontended(t, k) == tag[k] = [owner |-> t, wait |-> FALSE]

\* KLightLock::Unlock
Unlock(t, k) ==
  /\ Runs(t) /\ call[t] = NoCall /\ k \in holds[t]
  /\ IF IsUncontended(t, k)
     THEN /\ tag' = [tag EXCEPT ![k] = Free]
          /\ holds' = [holds EXCEPT ![t] = @ \ {k}]
          /\ UNCHANGED call
     ELSE /\ call' = [call EXCEPT ![t] = [at |-> "unlock", key |-> k, owner |-> NoThread]]
          /\ UNCHANGED <<tag, holds>>
  /\ UNCHANGED <<threadVars, suspendVars, terminating, cancel>>

\* Mutant: the thread that unlocks is not suspended again.
Resuspended_Missing(t, next, kernelWaiters) ==
  [u \in Threads |-> IF u = next /\ SuspendFlags(u) # {} /\ kernelWaiters[u] > 0 THEN {}
                     ELSE suspended[u]]

\* The suspend flags after a handover from t to next: the new owner runs on if
\* threads wait for it, and t is suspended if none are left (TrySuspend).
Resuspended(t, next, kernelWaiters) ==
  [u \in Threads |-> IF u = next /\ SuspendFlags(u) # {} /\ kernelWaiters[u] > 0 THEN {}
                     ELSE IF u = t /\ SuspendFlags(t) # {} /\ kernelWaiters[t] = 0 THEN SuspendFlags(t)
                     ELSE suspended[u]]

\* next_tag: what the tag becomes when t passes lock k on.
NextTag(t, k, next) ==
  IF next = NoThread THEN Free ELSE [owner |-> next, wait |-> HeldLock(t, k) # {next}]

\* Mutant: the lock is freed, and the first waiter woken to try again.
UnlockSlowPath_Barging(t) ==
  LET k == call[t].key IN
  /\ Runs(t) /\ call[t].at = "unlock"
  /\ \E next \in HeldLock(t, k) :
       /\ RemoveWaiterByKey(t, k, next)
       /\ state' = [state EXCEPT ![next] = "Runnable"]
       /\ tag' = [tag EXCEPT ![k] = Free]
       /\ holds' = [holds EXCEPT ![t] = @ \ {k}]
       /\ call' = [call EXCEPT ![t] = NoCall, ![next] = [@ EXCEPT !.at = "lock"]]
       /\ suspended' = Resuspended(t, next, numKernelWaiters')
       /\ UNCHANGED <<base, prio, condvarKey>>
  /\ UNCHANGED <<requested, allowed, terminating, cancel>>

\* KLightLock::UnlockSlowPath
UnlockSlowPath(t) ==
  LET k == call[t].key IN
  /\ Runs(t) /\ call[t].at = "unlock"
  /\ \/ /\ HeldLock(t, k) = {}
        /\ tag' = [tag EXCEPT ![k] = NextTag(t, k, NoThread)]
        /\ holds' = [holds EXCEPT ![t] = @ \ {k}]
        /\ call' = [call EXCEPT ![t] = NoCall]
        /\ suspended' = Resuspended(t, NoThread, numKernelWaiters)
        /\ UNCHANGED threadVars
     \/ \E next \in HeldLock(t, k) :
        /\ RemoveWaiterByKey(t, k, next)
        /\ state' = [state EXCEPT ![next] = "Runnable"]
        /\ tag' = [tag EXCEPT ![k] = NextTag(t, k, next)]
        /\ holds' = [holds EXCEPT ![t] = @ \ {k}, ![next] = @ \cup {k}]
        /\ call' = [call EXCEPT ![t] = NoCall, ![next] = NoCall]
        /\ suspended' = Resuspended(t, next, numKernelWaiters')
        /\ UNCHANGED <<base, prio, condvarKey>>
  /\ UNCHANGED <<requested, allowed, terminating, cancel>>

----------------------------------------------------------------------------
(* Suspension, priorities and termination. *)

\* KThread::RequestSuspend with TrySuspend and UpdateState.
RequestSuspend(t, type) ==
  /\ Unlocked /\ t \in MaySuspend
  /\ requested' = [requested EXCEPT ![t] = @ \cup {type}]
  /\ suspended' = IF numKernelWaiters[t] > 0 THEN suspended
                  ELSE [suspended EXCEPT ![t] = IF t \in allowed THEN requested'[t] ELSE {}]
  /\ UNCHANGED <<threadVars, lockVars, allowed, terminating, cancel>>

\* KThread::Resume with UpdateState, of a thread that was asked to suspend.
Resume(t, type) ==
  /\ Unlocked /\ type \in requested[t]
  /\ requested' = [requested EXCEPT ![t] = @ \ {type}]
  /\ suspended' = [suspended EXCEPT ![t] = IF t \in allowed THEN requested'[t] ELSE {}]
  /\ UNCHANGED <<threadVars, lockVars, allowed, terminating, cancel>>

\* KThread::SetBasePriority
SetBasePriority(t, p) ==
  /\ Unlocked
  /\ base' = [base EXCEPT ![t] = p]
  /\ restoring' = t
  /\ UNCHANGED <<state, prio, waiterVars, lockVars, suspendVars, terminating, cancel>>

\* KThread::RequestTerminate, first request, up to the wakeup.
RequestTerminate(t) ==
  /\ Unlocked /\ t \in MayTerminate \ terminating
  /\ terminating' = terminating \cup {t}
  /\ IF SuspendFlags(t) # {}
     THEN allowed' = allowed \ {t} /\ suspended' = [suspended EXCEPT ![t] = {}]
     ELSE UNCHANGED <<allowed, suspended>>
  /\ IF base[t] > TerminatingPriority
     THEN base' = [base EXCEPT ![t] = TerminatingPriority] /\ restoring' = t
     ELSE UNCHANGED <<base, restoring>>
  /\ cancel' = IF state[t] = "Waiting" THEN t ELSE NoThread
  /\ UNCHANGED <<state, prio, waiterVars, lockVars, requested>>

\* The wakeup at the end of RequestTerminate, through the CancelWait of
\* k_light_lock.cpp; LockSlowPath then returns true, and Lock returns.
TerminateCancelWait ==
  /\ cancel # NoThread /\ restoring = NoThread
  /\ RemoveWaiter(cancel)
  /\ state' = [state EXCEPT ![cancel] = "Runnable"]
  /\ holds' = [holds EXCEPT ![cancel] = @ \cup {call[cancel].key}]
  /\ call' = [call EXCEPT ![cancel] = NoCall]
  /\ cancel' = NoThread
  /\ UNCHANGED <<base, prio, tag, suspendVars, terminating>>

\* RestorePriority, called by any of the handlers above.
RestorePriority ==
  /\ RestorePriorityStep
  /\ UNCHANGED <<lockVars, suspendVars, terminating, cancel>>

\* The steps of a handler that has the scheduler lock.
KernelStep == RestorePriority \/ TerminateCancelWait

\* What a thread in Lock or Unlock does next.
Proceed(t) ==
  \/ LockSlowPath(t)
  \/ UnlockSlowPath(t)
  \/ call[t].at = "lock" /\ Lock(t, call[t].key)

Next ==
  \/ KernelStep
  \/ \E t \in Threads :
       \/ Proceed(t)
       \/ \E k \in Keys : Unlock(t, k) \/ (call[t] = NoCall /\ Lock(t, k))
       \/ \E type \in SuspendTypes : RequestSuspend(t, type) \/ Resume(t, type)
       \/ \E p \in Priorities : SetBasePriority(t, p)
       \/ RequestTerminate(t)

\* The host thread that has the scheduler lock keeps running.  A thread that is
\* not suspended goes on in Lock and Unlock, and leaves each critical section; it
\* competes for the scheduler lock and gets it in the end.
Fairness ==
  /\ WF_vars(KernelStep)
  /\ \A t \in Threads :
       /\ SF_vars(suspended[t] = {} /\ Proceed(t))
       /\ \A k \in Keys : SF_vars(suspended[t] = {} /\ Unlock(t, k))

SafetySpec == Init /\ [][Next]_vars
Spec == SafetySpec /\ Fairness

----------------------------------------------------------------------------
(* Properties. *)

LockTypeOK ==
  /\ tag \in [Keys -> [owner : Threads, wait : BOOLEAN] \cup {Free}]
  /\ call \in [Threads -> [at : {"lock", "slow", "wait", "unlock"}, key : Keys,
                           owner : Threads \cup {NoThread}] \cup {NoCall}]
  /\ holds \in [Threads -> SUBSET Keys]

SuspendTypeOK ==
  /\ requested \in [Threads -> SUBSET SuspendTypes]
  /\ suspended \in [Threads -> SUBSET SuspendTypes]
  /\ allowed \subseteq Threads

TypeOK ==
  /\ ThreadTypeOK /\ LockTypeOK /\ SuspendTypeOK
  /\ terminating \subseteq Threads /\ cancel \in Threads \cup {NoThread}

\* Mutual exclusion: a thread that has returned from Lock is the thread the tag
\* names until its Unlock is done ("ASSERT(this->IsLockedByCurrentThread())").
MutualExclusion == \A t \in Threads, k \in Keys : k \in holds[t] <=> tag[k].owner = t

\* No wakeup is lost: a thread that waits for a lock is registered with the
\* thread the tag names, and the waiter bit that makes the Unlock of that thread
\* take the slow path is set.
WaitersAreVisible ==
  \A t \in Threads :
    /\ state[t] = "Waiting" <=> call[t].at = "wait"
    /\ state[t] = "Waiting" <=> lockOwner[t] # NoThread
    /\ state[t] = "Waiting" => /\ addressKey[t] = call[t].key
                               /\ tag[addressKey[t]].owner = lockOwner[t]
                               /\ tag[addressKey[t]].wait = TRUE

\* m_num_kernel_waiters is the number of threads that wait for a thread.
KernelWaitersAreCounted == \A t \in Threads : numKernelWaiters[t] = Cardinality(Waiters(t))

\* A thread that others wait for in the kernel is not suspended ("Ensure that we
\* have no waiters.", KThread::TrySuspend).
KernelWaitersAreNotSuspended == \A t \in Threads : Waiters(t) # {} => suspended[t] = {}

\* A request to suspend is not forgotten: while it has no effect, threads wait
\* for the thread or its next Unlock takes the slow path, which suspends it.
SuspendIsNotLost ==
  \A t \in Threads :
    suspended[t] # SuspendFlags(t) => Waiters(t) # {} \/ \E k \in holds[t] : tag[k].wait

\* The tag and the kernel waiters implement a lock with a queue: the holder is
\* the thread the tag names, the queue is the threads that wait in the kernel.
LockHolder == [k \in Keys |-> tag[k].owner]
LockQueue == [k \in Keys |-> {t \in Threads : lockOwner[t] # NoThread /\ addressKey[t] = k}]
M == INSTANCE Mutex WITH holder <- LockHolder, queue <- LockQueue

\* KLightLock implements Mutex: a thread that has queued gets the lock from its
\* holder, and nobody who has not queued gets it first.
ImplementsMutex == M!MutexSafety

\* The holder does pass the lock on, also when it is suspended in its critical
\* section; provided it does not wait for another lock there.
HandsOver == M!MutexSpec
=============================================================================
