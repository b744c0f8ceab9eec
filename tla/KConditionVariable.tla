------------------------ MODULE KConditionVariable ------------------------
(***************************************************************************)
(* Guest mutexes and condition variables: KConditionVariable, reached by   *)
(* the supervisor calls ArbitrateLock, ArbitrateUnlock,                    *)
(* WaitProcessWideKeyAtomic and SignalProcessWideKey, with the thread      *)
(* operations that reach into their waiters: SetBasePriority, OnTimer,     *)
(* RequestTerminate, Exit and Finalize.                                    *)
(*                                                                         *)
(* A mutex is a word of guest memory: the handle of its owner and a bit    *)
(* that says threads wait in the kernel (Svc::HandleWaitMask).  The guest  *)
(* takes and drops a free mutex without a supervisor call; those actions   *)
(* are the guest library's, known from what the kernel expects of it.      *)
(*                                                                         *)
(* A handler whose calls are separated by RestorePriority goes on in a     *)
(* later step, with the scheduler lock still taken: `signal', `sleep' and  *)
(* `cancel' say what is left to do.  No other action is enabled in between:*)
(* each handler accesses a mutex word once, or (Signal) by atomic updates  *)
(* with which the guest's own accesses commute.                            *)
(***************************************************************************)
EXTENDS KThread

CONSTANTS
  InitialPriority,      \* base priority each thread is created with
  Priorities,           \* priorities SetBasePriority is called with
  TerminatingPriority,  \* TerminatingThreadPriority
  Timeouts,             \* subset of {"zero", "finite", "infinite"}
  Counts,               \* counts Signal is called with
  MayTerminate,         \* threads that may exit or be terminated
  MayClose              \* threads whose handle may be closed

ASSUME PrioritiesAssumption ==
  /\ InitialPriority \in [Threads -> Int]
  /\ Priorities \subseteq Int
  /\ TerminatingPriority \in Int
ASSUME GuestAssumption ==
  /\ Timeouts \subseteq {"zero", "finite", "infinite"}
  /\ Counts \subseteq Int
  /\ MayTerminate \subseteq Threads /\ MayClose \subseteq Threads
ASSUME UserKeysAssumption == KernelKeys = {}

VARIABLES
  word,        \* mutex words in guest memory
  cvWord,      \* condition variable words: 1 when there may be waiters
  holds,       \* the mutexes the guest code of a thread takes as locked by it
  request,     \* the mutex and owner a thread is about to call ArbitrateLock with
  waitQueue,   \* which KThreadQueue a waiting thread is on (m_wait_queue)
  ownerRef,    \* the owner a thread in WaitForAddress keeps open
  timer,       \* threads with a task in the hardware timer
  terminating, \* threads with m_termination_requested
  handles,     \* threads whose handle is in the handle table
  crashed,     \* a null KThread was dereferenced
  signal,      \* the loop of Signal: key, iterator and calls left
  sleep,       \* a thread in Wait that has still to enter the tree
  cancel       \* a thread RequestTerminate has still to wake

memoryVars == <<word, cvWord, holds, request>>
waitVars == <<state, waitQueue, ownerRef, timer>>
lifeVars == <<terminating, handles, crashed>>
pendingVars == <<signal, sleep, cancel>>
vars == <<threadVars, memoryVars, waitVars, lifeVars, pendingVars>>

Free == [tag |-> NoThread, wait |-> FALSE]
NoRequest == [key |-> NoKey, owner |-> NoThread]
NoSignal == [key |-> NoKey, it |-> NoThread, left |-> 0]
NoSleep == [thread |-> NoThread, key |-> NoKey, cv |-> NoKey, timeout |-> "zero"]

\* The scheduler lock is free.
Unlocked ==
  /\ restoring = NoThread /\ ~crashed
  /\ signal = NoSignal /\ sleep = NoSleep /\ cancel = NoThread

\* t executes guest code.
InGuest(t) == Unlocked /\ state[t] = "Runnable" /\ request[t] = NoRequest

Init ==
  /\ ThreadInit(InitialPriority)
  /\ word = [k \in Keys |-> Free]
  /\ cvWord = [k \in CondVarKeys |-> 0]
  /\ holds = [t \in Threads |-> {}]
  /\ request = [t \in Threads |-> NoRequest]
  /\ waitQueue = [t \in Threads |-> "none"]
  /\ ownerRef = [t \in Threads |-> NoThread]
  /\ timer = {}
  /\ terminating = {}
  /\ handles = Threads
  /\ crashed = FALSE
  /\ signal = NoSignal
  /\ sleep = NoSleep
  /\ cancel = NoThread

----------------------------------------------------------------------------
(* Blocking and waking. *)

\* KThread::BeginWait on `queue', with a timer task when the wait is timed.
BeginWait(t, queue, timeout) ==
  /\ state' = [state EXCEPT ![t] = "Waiting"]
  /\ waitQueue' = [waitQueue EXCEPT ![t] = queue]
  /\ timer' = IF timeout = "finite" THEN timer \cup {t} ELSE timer

\* Mutant: the timer task is not cancelled.
EndWait_KeepsTimer(t) ==
  /\ state' = [state EXCEPT ![t] = "Runnable"]
  /\ waitQueue' = [waitQueue EXCEPT ![t] = "none"]
  /\ ownerRef' = [ownerRef EXCEPT ![t] = NoThread]
  /\ UNCHANGED timer

\* KThreadQueue::EndWait and KThreadQueue::CancelWait: t runs again, its timer
\* task is gone, and if it was in WaitForAddress it closes the owner.
EndWait(t) ==
  /\ state' = [state EXCEPT ![t] = "Runnable"]
  /\ waitQueue' = [waitQueue EXCEPT ![t] = "none"]
  /\ ownerRef' = [ownerRef EXCEPT ![t] = NoThread]
  /\ timer' = timer \ {t}

\* Mutant: the thread stays in its tree, as with the CancelWait of KThreadQueue.
CancelWait_StaysQueued(t) == EndWait(t) /\ UNCHANGED <<waiterVars, restoring>>

\* CancelWait of both queues of k_condition_variable.cpp: t leaves the tree it
\* is in and runs again.
CancelWait(t) == RemoveWaiter(t) /\ EndWait(t)

----------------------------------------------------------------------------
(* The guest's side of a mutex. *)

\* The guest locks a mutex it does not hold: takes a free one, or sets the
\* wait bit and prepares to call the kernel.
GuestLock(t, k) ==
  /\ InGuest(t) /\ k \notin holds[t]
  /\ IF word[k] = Free
     THEN /\ word' = [word EXCEPT ![k] = [tag |-> t, wait |-> FALSE]]
          /\ holds' = [holds EXCEPT ![t] = @ \cup {k}]
          /\ UNCHANGED request
     ELSE /\ word' = [word EXCEPT ![k] = [tag |-> word[k].tag, wait |-> TRUE]]
          /\ request' = [request EXCEPT ![t] = [key |-> k, owner |-> word[k].tag]]
          /\ UNCHANGED holds
  /\ UNCHANGED <<threadVars, cvWord, waitVars, lifeVars, pendingVars>>

\* The guest unlocks a mutex nobody has marked.
GuestUnlock(t, k) ==
  /\ InGuest(t) /\ k \in holds[t] /\ word[k] = [tag |-> t, wait |-> FALSE]
  /\ word' = [word EXCEPT ![k] = Free]
  /\ holds' = [holds EXCEPT ![t] = @ \ {k}]
  /\ UNCHANGED <<threadVars, cvWord, request, waitVars, lifeVars, pendingVars>>

----------------------------------------------------------------------------
(* Supervisor calls. *)

\* ArbitrateLock: KConditionVariable::WaitForAddress
WaitForAddress(t) ==
  LET k == request[t].key
      owner == request[t].owner
  IN
  /\ Unlocked /\ state[t] = "Runnable" /\ request[t] # NoRequest
  /\ request' = [request EXCEPT ![t] = NoRequest]
  /\ IF t \notin terminating /\ word[k] = [tag |-> owner, wait |-> TRUE] /\ owner \in handles
     THEN /\ AddWaiter(owner, t, k)
          /\ BeginWait(t, "address", "infinite")
          /\ ownerRef' = [ownerRef EXCEPT ![t] = owner]
          /\ UNCHANGED <<base, prio>>
     ELSE UNCHANGED <<threadVars, waitVars>>
  /\ UNCHANGED <<word, cvWord, holds, lifeVars, pendingVars>>

\* next_value: what the word of mutex k becomes when t passes it on.
NextValue(t, k, next) ==
  IF next = NoThread THEN Free ELSE [tag |-> next, wait |-> HeldLock(t, k) # {next}]

\* The first half of Wait, and SignalToAddress: t passes mutex k on to its most
\* urgent waiter, or frees it.
PassMutex(t, k) ==
  \/ /\ HeldLock(t, k) = {}
     /\ word' = [word EXCEPT ![k] = NextValue(t, k, NoThread)]
     /\ holds' = [holds EXCEPT ![t] = @ \ {k}]
     /\ UNCHANGED <<threadVars, waitVars>>
  \/ \E next \in HeldLock(t, k) :
     /\ RemoveWaiterByKey(t, k, next)
     /\ word' = [word EXCEPT ![k] = NextValue(t, k, next)]
     /\ holds' = [holds EXCEPT ![t] = @ \ {k}, ![next] = @ \cup {k}]
     /\ EndWait(next)
     /\ UNCHANGED <<base, prio, condvarKey>>

\* ArbitrateUnlock: KConditionVariable::SignalToAddress
SignalToAddress(t, k) ==
  /\ InGuest(t) /\ k \in holds[t]
  /\ PassMutex(t, k)
  /\ UNCHANGED <<cvWord, request, lifeVars, pendingVars>>

\* WaitProcessWideKeyAtomic: KConditionVariable::Wait, up to the point where
\* the thread enters the tree.
Wait(t, k, cv, timeout) ==
  /\ InGuest(t) /\ k \in holds[t] /\ t \notin terminating
  /\ PassMutex(t, k)
  /\ cvWord' = [cvWord EXCEPT ![cv] = 1]
  /\ sleep' = IF timeout = "zero" THEN NoSleep
              ELSE [thread |-> t, key |-> k, cv |-> cv, timeout |-> timeout]
  /\ UNCHANGED <<request, lifeVars, signal, cancel>>

\* The rest of KConditionVariable::Wait.
WaitSleep ==
  /\ sleep # NoSleep /\ restoring = NoThread
  /\ condvarKey' = [condvarKey EXCEPT ![sleep.thread] = sleep.cv]
  /\ addressKey' = [addressKey EXCEPT ![sleep.thread] = sleep.key]
  /\ ahead' = Inserted(sleep.thread, CondVarTree(sleep.cv))
  /\ BeginWait(sleep.thread, "condvar", sleep.timeout)
  /\ sleep' = NoSleep
  /\ UNCHANGED <<base, prio, lockOwner, numKernelWaiters, restoring, ownerRef>>
  /\ UNCHANGED <<memoryVars, lifeVars, signal, cancel>>

\* The member of tree S that follows t, or NoThread.
Follows(t, S, u) ==
  \/ /\ u \in S \ {t} /\ Precedes(t, u)
     /\ \A v \in S \ {t, u} : Precedes(t, v) => Precedes(u, v)
  \/ u = NoThread /\ \A v \in S \ {t} : ~Precedes(t, v)

\* SignalProcessWideKey: KConditionVariable::Signal up to its loop.  A count
\* that is not positive wakes all waiters; `left' is then -1.
Signal(t, cv, count) ==
  /\ InGuest(t)
  /\ \E it \in CondVarTree(cv) \cup {NoThread} :
       /\ IF CondVarTree(cv) = {} THEN it = NoThread ELSE IsFront(it, CondVarTree(cv))
       /\ signal' = [key |-> cv, it |-> it, left |-> IF count <= 0 THEN -1 ELSE count]
  /\ UNCHANGED <<threadVars, memoryVars, waitVars, lifeVars, sleep, cancel>>

\* Mutants: the word is taken whether free or not; the wait bit is not set.
UpdateLock_Steals(t, k) == [tag |-> t, wait |-> FALSE]
UpdateLock_NoWaitBit(t, k) == IF word[k] = Free THEN [tag |-> t, wait |-> FALSE] ELSE word[k]

\* UpdateLockAtomic: take a free mutex for t, or mark it as waited for.
UpdateLock(t, k) ==
  IF word[k] = Free THEN [tag |-> t, wait |-> FALSE] ELSE [tag |-> word[k].tag, wait |-> TRUE]

\* KConditionVariable::SignalImpl: t, just taken from the tree, gets its mutex,
\* waits for the owner of the mutex, or fails when there is no such thread.
SignalImpl(t) ==
  LET k == addressKey[t]
      owner == word[k].tag
  IN
  /\ word' = [word EXCEPT ![k] = UpdateLock(t, k)]
  /\ \/ /\ word[k] = Free
        /\ holds' = [holds EXCEPT ![t] = @ \cup {k}]
        /\ RemoveWaiter(t) /\ EndWait(t)
     \/ /\ word[k] # Free /\ owner \in handles
        /\ AddWaiter(owner, t, k)
        /\ UNCHANGED <<waitVars, holds>>
     \/ /\ word[k] # Free /\ owner \notin handles
        /\ RemoveWaiter(t) /\ EndWait(t)
        /\ UNCHANGED holds
  /\ UNCHANGED <<base, prio>>

\* One iteration of the loop of KConditionVariable::Signal.  The iterator is
\* moved on before SignalImpl runs.
SignalLoop ==
  /\ signal.it # NoThread /\ signal.left # 0 /\ restoring = NoThread
  /\ \E next \in Threads \cup {NoThread} :
       /\ Follows(signal.it, CondVarTree(signal.key), next)
       /\ signal' = [signal EXCEPT !.it = next, !.left = IF @ = -1 THEN -1 ELSE @ - 1]
  /\ SignalImpl(signal.it)
  /\ UNCHANGED <<cvWord, request, lifeVars, sleep, cancel>>

\* Mutant: the flag is cleared although waiters are left.
SignalEnd_AlwaysClears ==
  /\ signal # NoSignal /\ restoring = NoThread
  /\ signal.it = NoThread \/ signal.left = 0
  /\ cvWord' = [cvWord EXCEPT ![signal.key] = 0]
  /\ signal' = NoSignal
  /\ UNCHANGED <<threadVars, word, holds, request, waitVars, lifeVars, sleep, cancel>>

\* The end of KConditionVariable::Signal.
SignalEnd ==
  /\ signal # NoSignal /\ restoring = NoThread
  /\ signal.it = NoThread \/ signal.left = 0
  /\ cvWord' = IF signal.it = NoThread THEN [cvWord EXCEPT ![signal.key] = 0] ELSE cvWord
  /\ signal' = NoSignal
  /\ UNCHANGED <<threadVars, word, holds, request, waitVars, lifeVars, sleep, cancel>>

----------------------------------------------------------------------------
(* Threads. *)

\* KThread::SetBasePriority
SetBasePriority(t, p) ==
  /\ Unlocked /\ t \in handles
  /\ base' = [base EXCEPT ![t] = p]
  /\ restoring' = t
  /\ UNCHANGED <<prio, waiterVars, memoryVars, waitVars, lifeVars, pendingVars>>

\* KThread::OnTimer, called with the scheduler lock by the hardware timer.
OnTimer(t) ==
  /\ Unlocked /\ t \in timer
  /\ IF state[t] = "Waiting"
     THEN CancelWait(t) /\ UNCHANGED <<base, prio>>
     ELSE timer' = timer \ {t} /\ UNCHANGED <<threadVars, waitQueue, ownerRef>>
  /\ UNCHANGED <<memoryVars, lifeVars, pendingVars>>

\* KThread::RequestTerminate, first request, up to the wakeup.
RequestTerminate(t) ==
  /\ Unlocked /\ t \in MayTerminate \ terminating /\ state[t] \in {"Runnable", "Waiting"}
  /\ terminating' = terminating \cup {t}
  /\ IF base[t] > TerminatingPriority
     THEN base' = [base EXCEPT ![t] = TerminatingPriority] /\ restoring' = t
     ELSE UNCHANGED <<base, restoring>>
  /\ cancel' = IF state[t] = "Waiting" THEN t ELSE NoThread
  /\ UNCHANGED <<prio, waiterVars, memoryVars, waitVars, handles, crashed, signal, sleep>>

\* The wakeup at the end of KThread::RequestTerminate.
TerminateCancelWait ==
  /\ cancel # NoThread /\ restoring = NoThread
  /\ CancelWait(cancel)
  /\ cancel' = NoThread
  /\ UNCHANGED <<base, prio, memoryVars, lifeVars, signal, sleep>>

\* KThread::Exit, by the thread itself or by the terminating DPC on its way
\* back to guest code.
Exit(t) ==
  /\ InGuest(t) /\ t \in MayTerminate
  /\ state' = [state EXCEPT ![t] = "Terminated"]
  /\ UNCHANGED <<base, prio, waiterVars, restoring, memoryVars, waitQueue, ownerRef, timer>>
  /\ UNCHANGED <<lifeVars, pendingVars>>

\* svc::CloseHandle of a thread handle.
CloseHandle(t) ==
  /\ Unlocked /\ t \in handles \cap MayClose
  /\ handles' = handles \ {t}
  /\ UNCHANGED <<threadVars, memoryVars, waitVars, terminating, crashed, pendingVars>>

\* KThread::Finalize, once the last reference is closed.  Each waiter is taken
\* out of the lock before its wait is cancelled; CancelWait of a thread in
\* WaitForAddress then dereferences its null lock owner.
Finalize(t) ==
  /\ Unlocked /\ state[t] = "Terminated" /\ t \notin handles
  /\ \A u \in Threads : ownerRef[u] # t
  /\ IF \E w \in Waiters(t) : waitQueue[w] = "address"
     THEN crashed' = TRUE /\ UNCHANGED <<threadVars, waitVars>>
     ELSE LET W == Waiters(t) IN
          /\ state' = [u \in Threads |-> IF u = t THEN "Finalized"
                                         ELSE IF u \in W THEN "Runnable" ELSE state[u]]
          /\ waitQueue' = [u \in Threads |-> IF u \in W THEN "none" ELSE waitQueue[u]]
          /\ timer' = timer \ W
          /\ lockOwner' = [u \in Threads |-> IF u \in W THEN NoThread ELSE lockOwner[u]]
          /\ addressKey' = [u \in Threads |-> IF u \in W THEN NoKey ELSE addressKey[u]]
          /\ ahead' = {p \in ahead : p[1] \notin W /\ p[2] \notin W}
          /\ UNCHANGED <<base, prio, condvarKey, numKernelWaiters, restoring, ownerRef, crashed>>
  /\ UNCHANGED <<memoryVars, terminating, handles, pendingVars>>

\* RestorePriority, called by any of the handlers above.
RestorePriority ==
  /\ RestorePriorityStep
  /\ UNCHANGED <<memoryVars, waitVars, lifeVars, pendingVars>>

\* The steps of a handler that has the scheduler lock.
KernelStep ==
  \/ RestorePriority
  \/ WaitSleep
  \/ SignalLoop
  \/ SignalEnd
  \/ TerminateCancelWait

Next ==
  \/ KernelStep
  \/ \E t \in Threads, k \in Keys :
       \/ GuestLock(t, k)
       \/ GuestUnlock(t, k)
       \/ SignalToAddress(t, k)
       \/ \E cv \in CondVarKeys, timeout \in Timeouts : Wait(t, k, cv, timeout)
  \/ \E t \in Threads :
       \/ WaitForAddress(t)
       \/ \E cv \in CondVarKeys, count \in Counts : Signal(t, cv, count)
       \/ \E p \in Priorities : SetBasePriority(t, p)
       \/ OnTimer(t)
       \/ RequestTerminate(t)
       \/ Exit(t)
       \/ CloseHandle(t)
       \/ Finalize(t)

\* The host thread that has the scheduler lock keeps running.
Fairness == WF_vars(KernelStep)

SafetySpec == Init /\ [][Next]_vars
Spec == SafetySpec /\ Fairness

----------------------------------------------------------------------------
(* Properties. *)

MemoryTypeOK ==
  /\ word \in [Keys -> [tag : Threads, wait : BOOLEAN] \cup {Free}]
  /\ cvWord \in [CondVarKeys -> {0, 1}]
  /\ holds \in [Threads -> SUBSET Keys]
  /\ request \in [Threads -> [key : Keys, owner : Threads] \cup {NoRequest}]

WaitTypeOK ==
  /\ waitQueue \in [Threads -> {"none", "address", "condvar"}]
  /\ ownerRef \in [Threads -> Threads \cup {NoThread}]
  /\ timer \subseteq Threads

LifeTypeOK == terminating \subseteq Threads /\ handles \subseteq Threads /\ crashed \in BOOLEAN

PendingTypeOK ==
  /\ signal \in [key : CondVarKeys, it : Threads \cup {NoThread}, left : Int] \cup {NoSignal}
  /\ sleep \in [thread : Threads, key : Keys, cv : CondVarKeys,
                timeout : {"finite", "infinite"}] \cup {NoSleep}
  /\ cancel \in Threads \cup {NoThread}

TypeOK == ThreadTypeOK /\ MemoryTypeOK /\ WaitTypeOK /\ LifeTypeOK /\ PendingTypeOK

\* Mutual exclusion: a thread that took a mutex in guest code, or that the
\* kernel woke with success from ArbitrateLock or WaitProcessWideKeyAtomic, is
\* the thread the mutex word names; so no two threads hold one mutex.
MutualExclusion == \A t \in Threads, k \in Keys : k \in holds[t] <=> word[k].tag = t

\* No wakeup of a mutex waiter is lost: a thread that waits in the kernel for a
\* mutex is registered with the thread the mutex word names, and the wait bit
\* that makes that thread's unlock call the kernel is set.
WaitersAreVisible ==
  \A t \in Threads :
    lockOwner[t] # NoThread => word[addressKey[t]].tag = lockOwner[t] /\ word[addressKey[t]].wait = TRUE

\* A waiting thread is in exactly one tree, the one its wait queue will take it
\* out of, under the key of the mutex it wants, and a thread that does not wait
\* is in none.
WaitingIsQueued ==
  \A t \in Threads :
    /\ state[t] = "Waiting" <=> (lockOwner[t] # NoThread \/ condvarKey[t] # NoKey)
    /\ state[t] = "Waiting" <=> waitQueue[t] # "none"
    /\ state[t] = "Waiting" <=> addressKey[t] # NoKey
    /\ lockOwner[t] = NoThread \/ condvarKey[t] = NoKey

\* What a handler does after RestorePriority still applies: the iterator of
\* Signal is in the tree under the key it looks for, the thread in Wait runs and
\* the thread RequestTerminate wakes waits; and only one handler is under way.
PendingIsValid ==
  /\ signal.it # NoThread => condvarKey[signal.it] = signal.key
  /\ sleep # NoSleep => state[sleep.thread] = "Runnable"
  /\ cancel # NoThread => state[cancel] = "Waiting"
  /\ sleep = NoSleep \/ cancel = NoThread
  /\ signal = NoSignal \/ (sleep = NoSleep /\ cancel = NoThread)

\* A timer task belongs to the wait that armed it: no task is left over that
\* would end a later, untimed wait of the thread with a timeout.
NoStaleTimer == \A t \in timer : state[t] = "Waiting" /\ waitQueue[t] = "condvar"

\* The guest may skip SignalProcessWideKey when the condition variable word is
\* 0, so outside Signal it is 0 only when no thread waits for it ("If we have no
\* waiters, clear the has waiter flag").
CondVarFlag ==
  \A cv \in CondVarKeys : cvWord[cv] = 0 /\ signal.key # cv => CondVarTree(cv) = {}

\* KThread::Finalize can cancel the wait of every thread that still waits for
\* the finalized one: CancelWait finds the lock owner it removes the waiter from.
NoNullOwner == ~crashed

\* RestorePriority and the loop of Signal terminate: the scheduler lock is
\* released again, also when threads wait for each other in a cycle.
SchedulerLockIsReleased == ~Unlocked ~> Unlocked \/ crashed
=============================================================================
