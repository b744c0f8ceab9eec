------------------------------ MODULE KThread ------------------------------
(***************************************************************************)
(* The part of KThread that the blocking primitives of the kernel share:   *)
(* the waiters of a thread, kept per held lock, and the inheritance of     *)
(* their priorities (core/hle/kernel/k_thread.cpp and k_thread.h).         *)
(*                                                                         *)
(* Every operator below runs under the global scheduler lock.  A priority  *)
(* is a number, smaller meaning more urgent.  A red-black tree of waiting  *)
(* threads is the set of its members; the order among members of equal     *)
(* priority, which is the order of insertion, is the relation `ahead'.     *)
(*                                                                         *)
(* RestorePriority walks up a chain of lock owners.  Its loop is not       *)
(* folded into the handler that calls it: the handler sets `restoring' to  *)
(* the first thread of the chain and each iteration is one step of         *)
(* RestorePriorityStep, during which the scheduler lock stays taken.       *)
(***************************************************************************)
EXTENDS Integers, FiniteSets

CONSTANTS
  Threads,        \* the threads of one process
  NoThread,       \* the null KThread*
  Keys,           \* addresses a lock can have (m_address_key)
  KernelKeys,     \* the ones set by SetKernelAddressKey
  CondVarKeys,    \* addresses of condition variables (m_condvar_key)
  NoKey           \* not waiting for a lock / not in a condvar tree

ASSUME ThreadsAssumption == NoThread \notin Threads
ASSUME KeysAssumption == NoKey \notin Keys /\ NoKey \notin CondVarKeys /\ KernelKeys \subseteq Keys

VARIABLES
  state,             \* m_thread_state without its suspend flags
  base,              \* m_base_priority
  prio,              \* m_priority
  lockOwner,         \* GetLockOwner(): the owner of m_waiting_lock_info
  addressKey,        \* m_address_key, while the thread waits; a key left over
                     \* from an earlier wait is never read and is NoKey here
  condvarKey,        \* m_condvar_key while m_condvar_tree is set
  numKernelWaiters,  \* m_num_kernel_waiters
  ahead,             \* <<x, y>>: x entered the tree both are in before y
  restoring          \* the thread RestorePriority looks at next, or NoThread

waiterVars == <<lockOwner, addressKey, condvarKey, numKernelWaiters, ahead>>
threadVars == <<state, base, prio, waiterVars, restoring>>

----------------------------------------------------------------------------
(* The trees. *)

\* LockWithPriorityInheritanceInfo of `owner' for `key': the tree of waiters.
HeldLock(owner, key) == {t \in Threads : lockOwner[t] = owner /\ addressKey[t] = key}

\* All threads that wait for some lock `owner' holds.
Waiters(owner) == {t \in Threads : lockOwner[t] = owner}

\* The threads of the condition variable tree with key `key'.
CondVarTree(key) == {t \in Threads : condvarKey[t] = key}

\* The order of both trees: by priority, equal priorities by insertion.
Precedes(t, u) == prio[t] < prio[u] \/ (prio[t] = prio[u] /\ <<t, u>> \in ahead)

\* t is m_tree.front() of a tree with members S.
IsFront(t, S) == t \in S /\ \A u \in S \ {t} : Precedes(t, u)

\* The insertion order after t has left the tree it is in.
Erased(t) == {p \in ahead : p[1] # t /\ p[2] # t}

\* The insertion order after t has entered (or re-entered) a tree S.
Inserted(t, S) == Erased(t) \cup {<<u, t>> : u \in S \ {t}}

----------------------------------------------------------------------------
(* Waiters and priority inheritance. *)

\* The condition on which AddWaiter calls RestorePriority.
IsMoreUrgent(t, owner) == prio[t] < prio[owner]

\* KThread::AddWaiter
AddWaiter(owner, t, key) ==
  /\ lockOwner' = [lockOwner EXCEPT ![t] = owner]
  /\ addressKey' = [addressKey EXCEPT ![t] = key]
  /\ condvarKey' = [condvarKey EXCEPT ![t] = NoKey]
  /\ numKernelWaiters' = IF key \in KernelKeys
                         THEN [numKernelWaiters EXCEPT ![owner] = @ + 1]
                         ELSE numKernelWaiters
  /\ ahead' = Inserted(t, HeldLock(owner, key))
  /\ restoring' = IF IsMoreUrgent(t, owner) THEN owner ELSE NoThread

\* Mutant: priorities are not restored when a waiter with ours leaves.
MayHaveInherited_Strict(owner, t) == prio[owner] < prio[t] /\ prio[owner] < base[owner]

\* Our priority is the one of a thread that stops waiting, and inherited.
MayHaveInherited(owner, t) == prio[owner] = prio[t] /\ prio[owner] < base[owner]

\* KThread::RemoveWaiter, and the removal of t from a condition variable tree
\* that the CancelWait handlers do: t leaves whatever tree it is in.
RemoveWaiter(t) ==
  LET owner == lockOwner[t] IN
  /\ lockOwner' = [lockOwner EXCEPT ![t] = NoThread]
  /\ addressKey' = [addressKey EXCEPT ![t] = NoKey]
  /\ condvarKey' = [condvarKey EXCEPT ![t] = NoKey]
  /\ numKernelWaiters' = IF owner # NoThread /\ addressKey[t] \in KernelKeys
                         THEN [numKernelWaiters EXCEPT ![owner] = @ - 1]
                         ELSE numKernelWaiters
  /\ ahead' = Erased(t)
  /\ restoring' = IF owner # NoThread /\ MayHaveInherited(owner, t) THEN owner ELSE NoThread

\* Mutant: the new owner's count is not raised.
HandedOver_NotCounted(owner, next, n) == [numKernelWaiters EXCEPT ![owner] = @ - n - 1]

\* m_num_kernel_waiters when owner passes a lock and n waiters on to next.
HandedOver(owner, next, n) == [numKernelWaiters EXCEPT ![owner] = @ - n - 1, ![next] = @ + n]

\* KThread::RemoveWaiterByKey when the lock has waiters: `next' becomes the
\* owner and takes over the lock with the waiters that are left.
RemoveWaiterByKey(owner, key, next) ==
  LET left == HeldLock(owner, key) \ {next} IN
  /\ IsFront(next, HeldLock(owner, key))
  /\ lockOwner' = [t \in Threads |-> IF t = next THEN NoThread
                                     ELSE IF t \in left THEN next ELSE lockOwner[t]]
  /\ addressKey' = [addressKey EXCEPT ![next] = NoKey]
  /\ numKernelWaiters' = IF key \in KernelKeys
                         THEN HandedOver(owner, next, Cardinality(left)) ELSE numKernelWaiters
  /\ ahead' = Erased(next)
  /\ restoring' = IF MayHaveInherited(owner, next) THEN owner ELSE NoThread

\* p is the priority t should have: its own, or that of its most urgent waiter.
IsInherited(t, p) ==
  /\ p <= base[t] /\ \A w \in Waiters(t) : p <= prio[w]
  /\ p = base[t] \/ \E w \in Waiters(t) : p = prio[w]

\* Mutant: RestorePriority goes on when the priority is already the right one.
RestorePriorityStep_NoStop ==
  /\ restoring # NoThread
  /\ \E p \in {base[restoring]} \cup {prio[w] : w \in Waiters(restoring)} :
       IsInherited(restoring, p) /\ prio' = [prio EXCEPT ![restoring] = p]
  /\ restoring' = lockOwner[restoring]
  /\ UNCHANGED <<state, base, lockOwner, addressKey, condvarKey, numKernelWaiters, ahead>>

\* One iteration of KThread::RestorePriority.
RestorePriorityStep ==
  /\ restoring # NoThread
  /\ \E p \in {base[restoring]} \cup {prio[w] : w \in Waiters(restoring)} :
       /\ IsInherited(restoring, p)
       /\ IF p = prio[restoring]
          THEN restoring' = NoThread /\ UNCHANGED <<prio, ahead>>
          ELSE /\ prio' = [prio EXCEPT ![restoring] = p]
               /\ ahead' = IF lockOwner[restoring] # NoThread
                           THEN Inserted(restoring, HeldLock(lockOwner[restoring], addressKey[restoring]))
                           ELSE IF condvarKey[restoring] # NoKey
                           THEN Inserted(restoring, CondVarTree(condvarKey[restoring]))
                           ELSE ahead
               /\ restoring' = lockOwner[restoring]
  /\ UNCHANGED <<state, base, lockOwner, addressKey, condvarKey, numKernelWaiters>>

----------------------------------------------------------------------------
\* All threads have been started, wait for nothing and have their own priority.
ThreadInit(initialPriority) ==
  /\ state = [t \in Threads |-> "Runnable"]
  /\ base = initialPriority
  /\ prio = initialPriority
  /\ lockOwner = [t \in Threads |-> NoThread]
  /\ addressKey = [t \in Threads |-> NoKey]
  /\ condvarKey = [t \in Threads |-> NoKey]
  /\ numKernelWaiters = [t \in Threads |-> 0]
  /\ ahead = {}
  /\ restoring = NoThread

\* "Finalized" is a thread whose KThread object has been destroyed.
ThreadStates == {"Runnable", "Waiting", "Terminated", "Finalized"}

WaiterTypeOK ==
  /\ lockOwner \in [Threads -> Threads \cup {NoThread}]
  /\ addressKey \in [Threads -> Keys \cup {NoKey}]
  /\ condvarKey \in [Threads -> CondVarKeys \cup {NoKey}]
  /\ numKernelWaiters \in [Threads -> Int]
  /\ ahead \subseteq Threads \X Threads
  /\ restoring \in Threads \cup {NoThread}

ThreadTypeOK ==
  /\ state \in [Threads -> ThreadStates]
  /\ base \in [Threads -> Int]
  /\ prio \in [Threads -> Int]
  /\ WaiterTypeOK

\* Priority inheritance is exact: whenever the scheduler lock is free, every
\* thread runs at its base priority or at the priority of its most urgent
\* waiter, whichever is more urgent.  While RestorePriority is at work, only
\* the thread it looks at next may be off.
PriorityIsInherited ==
  \A t \in Threads \ {restoring} : state[t] # "Finalized" => IsInherited(t, prio[t])
=============================================================================
