--------------------------- MODULE KThread_proofs ---------------------------
(***************************************************************************)
(* What the operations of KThread on the waiters of a lock guarantee to    *)
(* the primitives that are built from them: they keep the types, and they  *)
(* leave every thread but the one RestorePriority looks at next with the   *)
(* priority it should have.                                                *)
(***************************************************************************)
EXTENDS KThread, TLAPS

\* Zenon is the prover of every leaf that names no other.
USE Zenon

----------------------------------------------------------------------------
(* Types. *)

\* AddWaiter keeps the types.
LEMMA AddWaiterType ==
  ASSUME ThreadTypeOK, NEW owner \in Threads, NEW t \in Threads, NEW key \in Keys,
         AddWaiter(owner, t, key)
  PROVE  WaiterTypeOK'
<1>1. ahead' \subseteq Threads \X Threads
  BY SMT DEF AddWaiter, Inserted, Erased, HeldLock, ThreadTypeOK, WaiterTypeOK
<1>2. numKernelWaiters' \in [Threads -> Int]
  BY SMT DEF AddWaiter, ThreadTypeOK, WaiterTypeOK
<1> QED
  BY <1>1, <1>2 DEF AddWaiter, ThreadTypeOK, WaiterTypeOK

\* RemoveWaiter keeps the types.
LEMMA RemoveWaiterType ==
  ASSUME ThreadTypeOK, NEW t \in Threads, RemoveWaiter(t)
  PROVE  WaiterTypeOK'
<1>1. ahead' \subseteq Threads \X Threads
  BY DEF RemoveWaiter, Erased, ThreadTypeOK, WaiterTypeOK
<1>2. numKernelWaiters' \in [Threads -> Int]
  BY SMT DEF RemoveWaiter, ThreadTypeOK, WaiterTypeOK
<1> QED
  BY <1>1, <1>2 DEF RemoveWaiter, ThreadTypeOK, WaiterTypeOK

\* RemoveWaiterByKey keeps the types, for a lock of user mode: m_num_kernel_waiters
\* is then left alone.
LEMMA RemoveWaiterByKeyType ==
  ASSUME ThreadTypeOK, NEW owner \in Threads, NEW key \in Keys \ KernelKeys, NEW next \in Threads,
         RemoveWaiterByKey(owner, key, next), UNCHANGED condvarKey
  PROVE  WaiterTypeOK'
<1>1. ahead' \subseteq Threads \X Threads
  BY DEF RemoveWaiterByKey, Erased, ThreadTypeOK, WaiterTypeOK
<1>2. lockOwner' \in [Threads -> Threads \cup {NoThread}]
  BY DEF RemoveWaiterByKey, ThreadTypeOK, WaiterTypeOK
<1> QED
  BY <1>1, <1>2 DEF RemoveWaiterByKey, ThreadTypeOK, WaiterTypeOK

\* An iteration of RestorePriority keeps the types.
LEMMA RestorePriorityType ==
  ASSUME ThreadTypeOK, RestorePriorityStep
  PROVE  ThreadTypeOK'
<1> PICK p \in {base[restoring]} \cup {prio[w] : w \in Waiters(restoring)} :
      IF p = prio[restoring]
      THEN restoring' = NoThread /\ UNCHANGED <<prio, ahead>>
      ELSE /\ prio' = [prio EXCEPT ![restoring] = p]
           /\ ahead' = IF lockOwner[restoring] # NoThread
                       THEN Inserted(restoring, HeldLock(lockOwner[restoring], addressKey[restoring]))
                       ELSE IF condvarKey[restoring] # NoKey
                       THEN Inserted(restoring, CondVarTree(condvarKey[restoring]))
                       ELSE ahead
           /\ restoring' = lockOwner[restoring]
  BY DEF RestorePriorityStep
<1>1. p \in Int
  BY SMT DEF RestorePriorityStep, Waiters, ThreadTypeOK, WaiterTypeOK
<1>2. ahead' \subseteq Threads \X Threads
  BY SMT DEF RestorePriorityStep, Inserted, Erased, HeldLock, CondVarTree, ThreadTypeOK, WaiterTypeOK
<1>3. restoring' \in Threads \cup {NoThread}
  BY ZenonT(60) DEF RestorePriorityStep, ThreadTypeOK, WaiterTypeOK
<1> QED
  BY <1>1, <1>2, <1>3, SMT DEF RestorePriorityStep, ThreadTypeOK, WaiterTypeOK

----------------------------------------------------------------------------
(* Priority inheritance.  The state may change in the same step, but no    *)
(* finalized thread comes back.                                            *)

StaysFinalized == \A u \in Threads : state[u] = "Finalized" => state'[u] = "Finalized"

\* A step that changes no priority, no owner and no thread under restoration.
LEMMA InheritanceUnchanged ==
  ASSUME PriorityIsInherited, StaysFinalized, restoring = NoThread, NoThread \notin Threads,
         UNCHANGED <<base, prio, lockOwner>>
  PROVE  PriorityIsInherited'
BY SMT DEF PriorityIsInherited, StaysFinalized, IsInherited, Waiters

\* A step that changes the base priority of t and restores it next.
LEMMA InheritanceOfBase ==
  ASSUME ThreadTypeOK, PriorityIsInherited, restoring = NoThread, NoThread \notin Threads, NEW t \in Threads, NEW p,
         base' = [base EXCEPT ![t] = p], restoring' = t, UNCHANGED <<state, prio, lockOwner>>
  PROVE  PriorityIsInherited'
BY SMT DEF PriorityIsInherited, IsInherited, Waiters, ThreadTypeOK

\* A thread that was in no lock's tree enters one: only the owner can need a
\* new priority, and if it does RestorePriority is called for it.
LEMMA AddWaiterInherits ==
  ASSUME ThreadTypeOK, PriorityIsInherited, StaysFinalized, restoring = NoThread,
         NEW owner \in Threads, NEW t \in Threads, NEW key \in Keys,
         NoThread \notin Threads, lockOwner[t] = NoThread, AddWaiter(owner, t, key), UNCHANGED <<base, prio>>
  PROVE  PriorityIsInherited'
<1> SUFFICES ASSUME NEW u \in Threads, u # restoring', state'[u] # "Finalized"
             PROVE  IsInherited(u, prio[u])'
  BY DEF PriorityIsInherited
<1>1. IsInherited(u, prio[u])
  BY DEF PriorityIsInherited, StaysFinalized
<1>2. CASE u # owner
  <2>1. Waiters(u)' = Waiters(u)
    BY <1>2 DEF Waiters, AddWaiter, ThreadTypeOK, WaiterTypeOK
  <2> QED
    BY <1>1, <2>1 DEF IsInherited
<1>3. CASE u = owner
  <2>1. Waiters(u)' = Waiters(u) \cup {t}
    BY <1>3, SMT DEF Waiters, AddWaiter, ThreadTypeOK, WaiterTypeOK
  <2>2. prio[u] <= prio[t]
    BY <1>3, SMT DEF AddWaiter, IsMoreUrgent, ThreadTypeOK
  <2> QED
    BY <1>1, <2>1, <2>2 DEF IsInherited
<1> QED
  BY <1>2, <1>3

\* A thread leaves the tree it is in: the owner of the lock keeps its priority
\* unless it had it from that thread, and then RestorePriority is called for it.
LEMMA RemoveWaiterInherits ==
  ASSUME ThreadTypeOK, PriorityIsInherited, StaysFinalized, restoring = NoThread,
         NoThread \notin Threads, NEW t \in Threads, RemoveWaiter(t), UNCHANGED <<base, prio>>
  PROVE  PriorityIsInherited'
<1> SUFFICES ASSUME NEW u \in Threads, u # restoring', state'[u] # "Finalized"
             PROVE  IsInherited(u, prio[u])'
  BY DEF PriorityIsInherited
<1>1. IsInherited(u, prio[u])
  BY DEF PriorityIsInherited, StaysFinalized
<1>2. Waiters(u)' = Waiters(u) \ {t}
  BY DEF Waiters, RemoveWaiter, ThreadTypeOK, WaiterTypeOK
<1>3. CASE u # lockOwner[t]
  <2>1. Waiters(u)' = Waiters(u)
    BY <1>2, <1>3 DEF Waiters
  <2> QED
    BY <1>1, <2>1 DEF IsInherited
<1>4. CASE u = lockOwner[t]
  <2>1. ~MayHaveInherited(u, t)
    BY <1>4 DEF RemoveWaiter
  <2> QED
    BY <1>1, <1>2, <2>1, SMT DEF IsInherited, MayHaveInherited, ThreadTypeOK
<1> QED
  BY <1>3, <1>4

\* The most urgent waiter becomes the owner and takes the others over: it needs
\* no new priority, and the old owner only if it had the new owner's.
LEMMA RemoveWaiterByKeyInherits ==
  ASSUME ThreadTypeOK, PriorityIsInherited, StaysFinalized, restoring = NoThread,
         NoThread \notin Threads, NEW owner \in Threads, NEW key \in Keys, NEW next \in Threads,
         RemoveWaiterByKey(owner, key, next), UNCHANGED <<base, prio>>
  PROVE  PriorityIsInherited'
<1> DEFINE left == HeldLock(owner, key) \ {next}
<1> SUFFICES ASSUME NEW u \in Threads, u # restoring', state'[u] # "Finalized"
             PROVE  IsInherited(u, prio[u])'
  BY DEF PriorityIsInherited
<1>1. IsInherited(u, prio[u])
  BY DEF PriorityIsInherited, StaysFinalized
<1>2. next \in Waiters(owner) /\ left \subseteq Waiters(owner)
  BY DEF Waiters, HeldLock, RemoveWaiterByKey, IsFront
<1>3. \A w \in left : prio[next] <= prio[w]
  <2>1. \A w \in left : prio[next] < prio[w] \/ prio[next] = prio[w]
    <3>1. IsFront(next, HeldLock(owner, key))
      BY DEF RemoveWaiterByKey
    <3> QED
      BY <3>1 DEF IsFront, Precedes
  <2>2. \A w \in left : prio[w] \in Int /\ prio[next] \in Int
    BY DEF HeldLock, ThreadTypeOK
  <2> QED
    BY <2>1, <2>2, SMT
<1>4. \A w \in Threads : lockOwner'[w] = IF w = next THEN NoThread
                                         ELSE IF w \in left THEN next ELSE lockOwner[w]
  BY DEF RemoveWaiterByKey
<1>5. CASE u # owner /\ u # next
  <2>1. Waiters(u)' = Waiters(u)
    BY <1>2, <1>4, <1>5 DEF Waiters
  <2> QED
    BY <1>1, <2>1 DEF IsInherited
<1>6. CASE u = owner /\ u # next
  <2>1. Waiters(u)' = Waiters(u) \ (left \cup {next})
    BY <1>4, <1>6 DEF Waiters
  <2>2. ~MayHaveInherited(u, next)
    BY <1>6 DEF RemoveWaiterByKey
  <2>3. \A w \in Waiters(u) : prio[w] \in Int
    BY DEF Waiters, ThreadTypeOK
  <2>4. prio[u] <= prio[next]
    BY <1>1, <1>2, <1>6 DEF IsInherited
  <2>5. prio[u] = base[u] \/ prio[u] < prio[next]
    BY <2>2, <2>4, <1>1, SMT DEF MayHaveInherited, IsInherited, ThreadTypeOK
  <2> QED
    BY <1>1, <1>3, <2>1, <2>3, <2>4, <2>5, SMT DEF IsInherited, ThreadTypeOK
<1>7. CASE u = next
  <2>1. \A w \in Waiters(u)' : w \in Waiters(u) \/ w \in left
    BY <1>4, <1>7 DEF Waiters
  <2>2. \A w \in Waiters(u) : w # next => w \in Waiters(u)'
    BY <1>4, <1>7 DEF Waiters
  <2>3. CASE u # owner
    <3>1. next \notin Waiters(u)
      BY <1>2, <1>7, <2>3 DEF Waiters
    <3> QED
      BY <1>1, <1>3, <1>7, <2>1, <2>2, <3>1 DEF IsInherited
  <2>4. CASE u = owner
    <3>1. prio[u] = base[u]
      BY <1>1, <1>7, <2>4, SMT DEF RemoveWaiterByKey, MayHaveInherited, IsInherited, ThreadTypeOK
    <3> QED
      BY <1>1, <1>3, <1>7, <2>1, <3>1 DEF IsInherited
  <2> QED
    BY <2>3, <2>4
<1> QED
  BY <1>5, <1>6, <1>7

\* An iteration of RestorePriority gives the thread it looks at the right
\* priority; if that is a new one, only its lock owner can be off now, and that
\* is the thread the next iteration looks at.
LEMMA RestorePriorityInherits ==
  ASSUME ThreadTypeOK, PriorityIsInherited, NoThread \notin Threads, RestorePriorityStep
  PROVE  PriorityIsInherited'
<1> SUFFICES ASSUME NEW u \in Threads, u # restoring', state'[u] # "Finalized"
             PROVE  IsInherited(u, prio[u])'
  BY DEF PriorityIsInherited
<1> PICK p \in {base[restoring]} \cup {prio[w] : w \in Waiters(restoring)} :
      /\ IsInherited(restoring, p)
      /\ IF p = prio[restoring]
         THEN restoring' = NoThread /\ UNCHANGED prio
         ELSE prio' = [prio EXCEPT ![restoring] = p] /\ restoring' = lockOwner[restoring]
  BY DEF RestorePriorityStep
<1>1. restoring \in Threads /\ UNCHANGED <<state, base, lockOwner>>
  BY DEF RestorePriorityStep, ThreadTypeOK, WaiterTypeOK
<1>2. Waiters(u)' = Waiters(u)
  BY <1>1 DEF Waiters
<1>3. IsInherited(u, IF u = restoring THEN p ELSE prio[u])
  BY <1>1 DEF PriorityIsInherited
<1>4. CASE p = prio[restoring]
  BY <1>1, <1>2, <1>3, <1>4 DEF IsInherited
<1>5. CASE p # prio[restoring]
  <2>1. \A w \in Waiters(u) : prio'[w] = prio[w]
    BY <1>1, <1>5 DEF Waiters, ThreadTypeOK
  <2>2. prio'[u] = IF u = restoring THEN p ELSE prio[u]
    BY <1>1, <1>5 DEF ThreadTypeOK
  <2> QED
    BY <1>1, <1>2, <1>3, <2>1, <2>2, SMT DEF IsInherited
<1> QED
  BY <1>4, <1>5
=============================================================================
