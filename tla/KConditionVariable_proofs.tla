--------------------- MODULE KConditionVariable_proofs ---------------------
(***************************************************************************)
(* KConditionVariable is correct, for any number of threads, mutexes,      *)
(* condition variables and priorities: first the types and the bookkeeping *)
(* of waiting threads, on which the rest depends, then mutual exclusion,   *)
(* reachable waiters, timers and priority inheritance.                     *)
(***************************************************************************)
EXTENDS KConditionVariable, KThread_proofs

\* Zenon is the prover of every leaf that names no other.
USE Zenon
USE ThreadsAssumption, KeysAssumption, PrioritiesAssumption, GuestAssumption, UserKeysAssumption

\* The types, and what they need to be inductive: Signal gives a thread the
\* mutex its m_address_key names, so a thread in the tree must have one.
QueueInv == TypeOK /\ WaitingIsQueued /\ PendingIsValid

----------------------------------------------------------------------------
(* The operators handlers are made of. *)

\* EndWait keeps the types.
LEMMA EndWaitType ==
  ASSUME TypeOK, NEW t \in Threads, EndWait(t)
  PROVE  WaitTypeOK' /\ state' \in [Threads -> ThreadStates]
BY DEF TypeOK, ThreadTypeOK, WaitTypeOK, EndWait, ThreadStates

\* PassMutex keeps the types.
LEMMA PassMutexType ==
  ASSUME TypeOK, NEW t \in Threads, NEW k \in Keys, PassMutex(t, k)
  PROVE  /\ ThreadTypeOK' /\ WaitTypeOK'
         /\ word' \in [Keys -> [tag : Threads, wait : BOOLEAN] \cup {Free}]
         /\ holds' \in [Threads -> SUBSET Keys]
<1>1. CASE /\ word' = [word EXCEPT ![k] = Free]
           /\ holds' = [holds EXCEPT ![t] = @ \ {k}]
           /\ UNCHANGED <<threadVars, waitVars>>
  BY <1>1 DEF TypeOK, ThreadTypeOK, WaiterTypeOK, MemoryTypeOK, WaitTypeOK, threadVars, waiterVars, waitVars
<1>2. ASSUME NEW next \in HeldLock(t, k),
             RemoveWaiterByKey(t, k, next), EndWait(next), UNCHANGED <<base, prio, condvarKey>>,
             word' = [word EXCEPT ![k] = [tag |-> next, wait |-> HeldLock(t, k) # {next}]],
             holds' = [holds EXCEPT ![t] = @ \ {k}, ![next] = @ \cup {k}]
      PROVE  /\ ThreadTypeOK' /\ WaitTypeOK'
             /\ word' \in [Keys -> [tag : Threads, wait : BOOLEAN] \cup {Free}]
             /\ holds' \in [Threads -> SUBSET Keys]
  <2>1. next \in Threads
    BY DEF HeldLock
  <2>2. WaiterTypeOK'
    BY <1>2, <2>1, RemoveWaiterByKeyType DEF TypeOK
  <2>3. WaitTypeOK' /\ state' \in [Threads -> ThreadStates]
    BY <1>2, <2>1, EndWaitType
  <2>4. ThreadTypeOK'
    BY <1>2, <2>2, <2>3 DEF TypeOK, ThreadTypeOK
  <2>5. [tag |-> next, wait |-> HeldLock(t, k) # {next}] \in [tag : Threads, wait : BOOLEAN]
    BY <2>1
  <2>6. word' \in [Keys -> [tag : Threads, wait : BOOLEAN] \cup {Free}]
    BY <1>2, <2>5 DEF TypeOK, MemoryTypeOK
  <2>7. holds' \in [Threads -> SUBSET Keys]
    BY <1>2, <2>1 DEF TypeOK, MemoryTypeOK
  <2> QED
    BY <2>3, <2>4, <2>6, <2>7
<1> QED
  BY <1>1, <1>2 DEF PassMutex, NextValue, HeldLock

\* After PassMutex every waiting thread is still in one tree.
LEMMA PassMutexQueued ==
  ASSUME QueueInv, NEW t \in Threads, NEW k \in Keys, PassMutex(t, k)
  PROVE  /\ WaitingIsQueued'
         /\ \A u \in Threads : /\ state[u] = "Runnable" => state'[u] = "Runnable"
                               /\ condvarKey'[u] = condvarKey[u]
                               /\ state'[u] = "Finalized" <=> state[u] = "Finalized"
<1> USE DEF QueueInv, TypeOK, ThreadTypeOK, WaiterTypeOK, WaitTypeOK
<1>1. CASE UNCHANGED <<threadVars, waitVars>>
  BY <1>1 DEF WaitingIsQueued, threadVars, waiterVars, waitVars
<1>2. ASSUME NEW next \in HeldLock(t, k), RemoveWaiterByKey(t, k, next), EndWait(next), UNCHANGED condvarKey
      PROVE  /\ WaitingIsQueued'
             /\ \A u \in Threads : /\ state[u] = "Runnable" => state'[u] = "Runnable"
                                   /\ condvarKey'[u] = condvarKey[u]
                                   /\ state'[u] = "Finalized" <=> state[u] = "Finalized"
  BY <1>2, SMT DEF RemoveWaiterByKey, EndWait, HeldLock, WaitingIsQueued
<1> QED
  BY <1>1, <1>2 DEF PassMutex

\* What Signal knows of the thread its iterator points to.
LEMMA IteratorFacts ==
  ASSUME QueueInv, signal.it # NoThread
  PROVE  /\ signal.it \in Threads /\ signal.key \in CondVarKeys
         /\ state[signal.it] = "Waiting" /\ addressKey[signal.it] \in Keys
         /\ lockOwner[signal.it] = NoThread /\ condvarKey[signal.it] # NoKey
         /\ sleep = NoSleep /\ cancel = NoThread
BY SMT DEF QueueInv, TypeOK, PendingTypeOK, ThreadTypeOK, WaiterTypeOK, NoSignal, WaitingIsQueued, PendingIsValid

\* SignalImpl either wakes the thread or makes it wait for the mutex's owner.
LEMMA SignalImplCases ==
  ASSUME QueueInv, NEW t \in Threads, addressKey[t] \in Keys, SignalImpl(t)
  PROVE  /\ UNCHANGED <<base, prio>>
         /\ \/ RemoveWaiter(t) /\ EndWait(t)
            \/ /\ word[addressKey[t]].tag \in Threads
               /\ AddWaiter(word[addressKey[t]].tag, t, addressKey[t]) /\ UNCHANGED waitVars
BY DEF SignalImpl, QueueInv, TypeOK, LifeTypeOK

\* The memory that SignalImpl writes keeps its type.
LEMMA SignalImplMemory ==
  ASSUME TypeOK, NEW t \in Threads, addressKey[t] \in Keys, SignalImpl(t)
  PROVE  /\ word' \in [Keys -> [tag : Threads, wait : BOOLEAN] \cup {Free}]
         /\ holds' \in [Threads -> SUBSET Keys]
<1> DEFINE k == addressKey[t]
<1>1. CASE /\ word' = [word EXCEPT ![k] = [tag |-> t, wait |-> FALSE]]
           /\ holds' = [holds EXCEPT ![t] = @ \cup {k}]
  BY <1>1 DEF TypeOK, MemoryTypeOK
<1>2. CASE /\ word[k] # Free /\ word' = [word EXCEPT ![k] = [tag |-> word[k].tag, wait |-> TRUE]] /\ UNCHANGED holds
  <2>1. word[k] \in [tag : Threads, wait : BOOLEAN]
    BY <1>2 DEF TypeOK, MemoryTypeOK
  <2>2. [tag |-> word[k].tag, wait |-> TRUE] \in [tag : Threads, wait : BOOLEAN]
    BY <2>1
  <2> QED
    BY <1>2, <2>2 DEF TypeOK, MemoryTypeOK
<1> QED
  BY <1>1, <1>2 DEF SignalImpl, UpdateLock

----------------------------------------------------------------------------
(* Bookkeeping: every step preserves QueueInv. *)

\* The types and the bookkeeping of waits are inductive.
LEMMA QueueInvStep == QueueInv /\ [Next]_vars => QueueInv'
<1> SUFFICES ASSUME QueueInv, [Next]_vars PROVE QueueInv'
  OBVIOUS
<1>a. TypeOK /\ ThreadTypeOK /\ MemoryTypeOK /\ WaitTypeOK /\ LifeTypeOK /\ PendingTypeOK
  BY DEF QueueInv, TypeOK
<1>b. WaitingIsQueued /\ PendingIsValid
  BY DEF QueueInv
<1>c. /\ UNCHANGED threadVars => ThreadTypeOK'
      /\ UNCHANGED memoryVars => MemoryTypeOK'
      /\ UNCHANGED waitVars => WaitTypeOK'
      /\ UNCHANGED lifeVars => LifeTypeOK'
      /\ UNCHANGED pendingVars => PendingTypeOK'
      /\ UNCHANGED <<state, lockOwner, addressKey, condvarKey, waitQueue>> => WaitingIsQueued'
      /\ Unlocked /\ UNCHANGED pendingVars => PendingIsValid'
  <2>1. UNCHANGED threadVars => ThreadTypeOK'
    BY <1>a DEF threadVars, waiterVars, ThreadTypeOK, WaiterTypeOK
  <2>2. UNCHANGED memoryVars => MemoryTypeOK'
    BY <1>a DEF memoryVars, MemoryTypeOK
  <2>3. UNCHANGED waitVars => WaitTypeOK'
    BY <1>a DEF waitVars, WaitTypeOK
  <2>4. UNCHANGED lifeVars => LifeTypeOK'
    BY <1>a DEF lifeVars, LifeTypeOK
  <2>5. UNCHANGED pendingVars => PendingTypeOK'
    BY <1>a DEF pendingVars, PendingTypeOK
  <2>6. UNCHANGED <<state, lockOwner, addressKey, condvarKey, waitQueue>> => WaitingIsQueued'
    BY <1>b DEF WaitingIsQueued
  <2>7. Unlocked /\ UNCHANGED pendingVars => PendingIsValid'
    BY SMT DEF Unlocked, pendingVars, PendingIsValid, NoSignal
  <2> QED
    BY <2>1, <2>2, <2>3, <2>4, <2>5, <2>6, <2>7
<1>d. UNCHANGED <<state, condvarKey, pendingVars>> => PendingIsValid'
  BY <1>b DEF pendingVars, PendingIsValid
<1>e. ThreadTypeOK' /\ MemoryTypeOK' /\ WaitTypeOK' /\ LifeTypeOK' /\ PendingTypeOK'
      /\ WaitingIsQueued' /\ PendingIsValid' => QueueInv'
  BY DEF QueueInv, TypeOK
<1>1. ASSUME NEW t \in Threads, NEW k \in Keys, GuestLock(t, k) PROVE QueueInv'
  <2>1. UNCHANGED <<threadVars, cvWord, waitVars, lifeVars, pendingVars>>
    BY <1>1 DEF GuestLock
  <2>2. MemoryTypeOK'
    <3>1. CASE word[k] = Free
      <4>1. [tag |-> t, wait |-> FALSE] \in [tag : Threads, wait : BOOLEAN]
        OBVIOUS
      <4>2. /\ word' = [word EXCEPT ![k] = [tag |-> t, wait |-> FALSE]]
            /\ holds' = [holds EXCEPT ![t] = @ \cup {k}] /\ UNCHANGED <<request, cvWord>>
        BY <1>1, <3>1 DEF GuestLock
      <4> QED
        BY <1>a, <4>1, <4>2 DEF MemoryTypeOK
    <3>2. CASE word[k] # Free
      <4>1. word[k] \in [tag : Threads, wait : BOOLEAN]
        BY <1>a, <3>2 DEF MemoryTypeOK
      <4>2. /\ [tag |-> word[k].tag, wait |-> TRUE] \in [tag : Threads, wait : BOOLEAN]
            /\ [key |-> k, owner |-> word[k].tag] \in [key : Keys, owner : Threads]
        BY <4>1
      <4>3. /\ word' = [word EXCEPT ![k] = [tag |-> word[k].tag, wait |-> TRUE]] /\ UNCHANGED <<holds, cvWord>>
            /\ request' = [request EXCEPT ![t] = [key |-> k, owner |-> word[k].tag]]
        BY <1>1, <3>2 DEF GuestLock
      <4> QED
        BY <1>a, <4>2, <4>3 DEF MemoryTypeOK
    <3> QED
      BY <3>1, <3>2
  <2> QED
    BY <1>c, <1>e, <1>d, <2>1, <2>2 DEF threadVars, waiterVars, waitVars
<1>2. ASSUME NEW t \in Threads, NEW k \in Keys, GuestUnlock(t, k) PROVE QueueInv'
  <2>1. UNCHANGED <<threadVars, cvWord, request, waitVars, lifeVars, pendingVars>>
    BY <1>2 DEF GuestUnlock
  <2>2. MemoryTypeOK'
    BY <1>2, <1>a DEF GuestUnlock, MemoryTypeOK
  <2> QED
    BY <1>c, <1>e, <1>d, <2>1, <2>2 DEF threadVars, waiterVars, waitVars
<1>3. ASSUME NEW t \in Threads, NEW k \in Keys, SignalToAddress(t, k) PROVE QueueInv'
  <2>1. PassMutex(t, k) /\ UNCHANGED <<cvWord, request, lifeVars, pendingVars>> /\ Unlocked
    BY <1>3 DEF SignalToAddress, InGuest
  <2>2. ThreadTypeOK' /\ WaitTypeOK' /\ MemoryTypeOK'
    BY <1>a, <2>1, PassMutexType DEF MemoryTypeOK
  <2>3. WaitingIsQueued'
    BY <2>1, PassMutexQueued
  <2> QED
    BY <1>c, <1>e, <2>1, <2>2, <2>3
<1>4. ASSUME NEW t \in Threads, NEW k \in Keys, NEW cv \in CondVarKeys, NEW timeout \in Timeouts,
             Wait(t, k, cv, timeout)
      PROVE  QueueInv'
  <2>1. /\ PassMutex(t, k) /\ UNCHANGED <<request, lifeVars, signal, cancel>> /\ Unlocked
        /\ cvWord' = [cvWord EXCEPT ![cv] = 1] /\ state[t] = "Runnable"
        /\ sleep' = IF timeout = "zero" THEN NoSleep
                    ELSE [thread |-> t, key |-> k, cv |-> cv, timeout |-> timeout]
    BY <1>4 DEF Wait, InGuest
  <2>2. PendingTypeOK'
    BY <1>a, <2>1 DEF PendingTypeOK
  <2>3. ThreadTypeOK' /\ WaitTypeOK' /\ MemoryTypeOK'
    BY <1>a, <2>1, PassMutexType DEF MemoryTypeOK
  <2>4. WaitingIsQueued' /\ state'[t] = "Runnable"
    BY <2>1, PassMutexQueued
  <2>5. PendingIsValid'
    BY <2>1, <2>4 DEF PendingIsValid, Unlocked, NoSignal
  <2> QED
    BY <1>c, <1>e, <2>1, <2>2, <2>3, <2>4, <2>5
<1>5. ASSUME NEW t \in Threads, WaitForAddress(t) PROVE QueueInv'
  <2>1. /\ Unlocked /\ request[t] # NoRequest /\ request' = [request EXCEPT ![t] = NoRequest]
        /\ UNCHANGED <<word, cvWord, holds, lifeVars, pendingVars>>
    BY <1>5 DEF WaitForAddress
  <2>2. MemoryTypeOK'
    BY <1>a, <2>1 DEF MemoryTypeOK
  <2>3. request[t].owner \in Threads /\ request[t].key \in Keys
    BY <1>a, <2>1 DEF MemoryTypeOK
  <2>4. CASE UNCHANGED <<threadVars, waitVars>>
    BY <1>c, <1>e, <2>1, <2>2, <2>4 DEF threadVars, waiterVars, waitVars
  <2>5. CASE /\ AddWaiter(request[t].owner, t, request[t].key) /\ BeginWait(t, "address", "infinite")
             /\ ownerRef' = [ownerRef EXCEPT ![t] = request[t].owner] /\ UNCHANGED <<base, prio>>
    <3>1. WaiterTypeOK'
      BY <1>a, <2>3, <2>5, AddWaiterType
    <3>2. ThreadTypeOK'
      BY <1>a, <2>5, <3>1 DEF BeginWait, ThreadTypeOK, ThreadStates
    <3>3. WaitTypeOK'
      BY <1>a, <2>3, <2>5 DEF BeginWait, WaitTypeOK
    <3>4. WaitingIsQueued'
      BY <1>a, <1>b, <2>3, <2>5 DEF BeginWait, AddWaiter, WaitingIsQueued, ThreadTypeOK, WaiterTypeOK, WaitTypeOK
    <3> QED
      BY <1>c, <1>e, <2>1, <2>2, <3>2, <3>3, <3>4
  <2> QED
    BY <1>5, <2>4, <2>5 DEF WaitForAddress
<1>6. ASSUME NEW t \in Threads, NEW cv \in CondVarKeys, NEW count \in Counts, Signal(t, cv, count) PROVE QueueInv'
  <2>1. UNCHANGED <<threadVars, memoryVars, waitVars, lifeVars, sleep, cancel>> /\ Unlocked
    BY <1>6 DEF Signal, InGuest
  <2>2. PICK it \in CondVarTree(cv) \cup {NoThread} :
          signal' = [key |-> cv, it |-> it, left |-> IF count <= 0 THEN -1 ELSE count]
    BY <1>6 DEF Signal
  <2>3. it # NoThread => it \in Threads /\ condvarKey[it] = cv
    BY DEF CondVarTree
  <2>4. PendingTypeOK'
    BY <1>a, <2>1, <2>2, <2>3, SMT DEF PendingTypeOK
  <2>5. PendingIsValid'
    BY <2>1, <2>2, <2>3 DEF PendingIsValid, Unlocked, threadVars, waiterVars
  <2> QED
    BY <1>c, <1>e, <2>1, <2>4, <2>5 DEF threadVars, waiterVars, waitVars
<1>7. ASSUME NEW t \in Threads, NEW p \in Priorities, SetBasePriority(t, p) PROVE QueueInv'
  <2>1. /\ Unlocked /\ base' = [base EXCEPT ![t] = p] /\ restoring' = t
        /\ UNCHANGED <<prio, waiterVars, memoryVars, waitVars, lifeVars, pendingVars>>
    BY <1>7 DEF SetBasePriority
  <2>2. ThreadTypeOK'
    BY <1>a, <2>1 DEF ThreadTypeOK, WaiterTypeOK, waiterVars, waitVars
  <2> QED
    BY <1>c, <1>e, <2>1, <2>2 DEF waiterVars, waitVars
<1>8. ASSUME NEW t \in Threads, RemoveWaiter(t), EndWait(t), UNCHANGED <<base, prio>>
      PROVE  ThreadTypeOK' /\ WaitTypeOK' /\ WaitingIsQueued'
  <2>1. WaiterTypeOK' /\ WaitTypeOK' /\ state' \in [Threads -> ThreadStates]
    BY <1>8, <1>a, EndWaitType, RemoveWaiterType
  <2>2. ThreadTypeOK'
    BY <1>8, <1>a, <2>1 DEF ThreadTypeOK
  <2>3. WaitingIsQueued'
    BY <1>8, <1>a, <1>b DEF RemoveWaiter, EndWait, WaitingIsQueued, ThreadTypeOK, WaiterTypeOK, WaitTypeOK
  <2> QED
    BY <2>1, <2>2, <2>3
<1>9. ASSUME NEW t \in Threads, OnTimer(t) PROVE QueueInv'
  <2>1. Unlocked /\ UNCHANGED <<memoryVars, lifeVars, pendingVars>>
    BY <1>9 DEF OnTimer
  <2>2. CASE state[t] = "Waiting"
    BY <1>c, <1>e, <1>8, <1>9, <2>1, <2>2 DEF OnTimer, CancelWait
  <2>3. CASE state[t] # "Waiting"
    <3>1. timer' = timer \ {t} /\ UNCHANGED <<threadVars, waitQueue, ownerRef>>
      BY <1>9, <2>3 DEF OnTimer
    <3>2. WaitTypeOK'
      BY <1>a, <3>1 DEF WaitTypeOK
    <3> QED
      BY <1>c, <1>e, <2>1, <3>1, <3>2 DEF threadVars, waiterVars
  <2> QED
    BY <2>2, <2>3
<1>10. ASSUME NEW t \in Threads, RequestTerminate(t) PROVE QueueInv'
  <2>1. /\ Unlocked /\ terminating' = terminating \cup {t}
        /\ cancel' = IF state[t] = "Waiting" THEN t ELSE NoThread
        /\ UNCHANGED <<prio, waiterVars, memoryVars, waitVars, handles, crashed, signal, sleep>>
    BY <1>10 DEF RequestTerminate
  <2>2. \/ base' = [base EXCEPT ![t] = TerminatingPriority] /\ restoring' = t
        \/ UNCHANGED <<base, restoring>>
    BY <1>10 DEF RequestTerminate
  <2>3. ThreadTypeOK'
    BY <1>a, <2>1, <2>2, SMT DEF ThreadTypeOK, WaiterTypeOK, waiterVars, waitVars
  <2>4. LifeTypeOK'
    BY <1>a, <2>1 DEF LifeTypeOK
  <2>5. PendingTypeOK'
    BY <1>a, <2>1 DEF PendingTypeOK
  <2>6. PendingIsValid'
    BY <2>1 DEF PendingIsValid, Unlocked, waitVars, NoSignal
  <2> QED
    BY <1>c, <1>e, <2>1, <2>3, <2>4, <2>5, <2>6 DEF waiterVars, waitVars
<1>11. ASSUME NEW t \in Threads, Exit(t) PROVE QueueInv'
  <2>1. /\ Unlocked /\ state[t] = "Runnable" /\ state' = [state EXCEPT ![t] = "Terminated"]
        /\ UNCHANGED <<base, prio, waiterVars, restoring, memoryVars, waitQueue, ownerRef, timer>>
        /\ UNCHANGED <<lifeVars, pendingVars>>
    BY <1>11 DEF Exit, InGuest
  <2>2. ThreadTypeOK'
    BY <1>a, <2>1 DEF ThreadTypeOK, WaiterTypeOK, waiterVars, ThreadStates
  <2>3. WaitTypeOK'
    BY <1>a, <2>1 DEF WaitTypeOK
  <2>4. WaitingIsQueued'
    BY <1>a, <1>b, <2>1 DEF WaitingIsQueued, ThreadTypeOK, waiterVars
  <2> QED
    BY <1>c, <1>e, <2>1, <2>2, <2>3, <2>4
<1>12. ASSUME NEW t \in Threads, CloseHandle(t) PROVE QueueInv'
  <2>1. /\ handles' = handles \ {t}
        /\ UNCHANGED <<threadVars, memoryVars, waitVars, terminating, crashed, pendingVars>>
    BY <1>12 DEF CloseHandle
  <2>2. LifeTypeOK'
    BY <1>a, <2>1 DEF LifeTypeOK
  <2> QED
    BY <1>c, <1>e, <1>d, <2>1, <2>2 DEF threadVars, waiterVars, waitVars
<1>13. ASSUME NEW t \in Threads, Finalize(t) PROVE QueueInv'
  <2>1. Unlocked /\ state[t] = "Terminated" /\ UNCHANGED <<memoryVars, terminating, handles, pendingVars>>
    BY <1>13 DEF Finalize
  <2>2. CASE crashed' = TRUE /\ UNCHANGED <<threadVars, waitVars>>
    <3>1. LifeTypeOK'
      BY <1>a, <2>1, <2>2 DEF LifeTypeOK
    <3> QED
      BY <1>c, <1>e, <2>1, <2>2, <3>1 DEF threadVars, waiterVars, waitVars
  <2>3. CASE ~(crashed' = TRUE /\ UNCHANGED <<threadVars, waitVars>>)
    <3> DEFINE W == Waiters(t)
    <3>1. /\ state' = [u \in Threads |-> IF u = t THEN "Finalized"
                                         ELSE IF u \in W THEN "Runnable" ELSE state[u]]
          /\ waitQueue' = [u \in Threads |-> IF u \in W THEN "none" ELSE waitQueue[u]]
          /\ timer' = timer \ W
          /\ lockOwner' = [u \in Threads |-> IF u \in W THEN NoThread ELSE lockOwner[u]]
          /\ addressKey' = [u \in Threads |-> IF u \in W THEN NoKey ELSE addressKey[u]]
          /\ ahead' \subseteq ahead
          /\ UNCHANGED <<base, prio, condvarKey, numKernelWaiters, restoring, ownerRef, crashed>>
      BY <1>13, <2>3 DEF Finalize
    <3>2. \A u \in W : state[u] = "Waiting" /\ condvarKey[u] = NoKey
      BY <1>b DEF Waiters, WaitingIsQueued
    <3> HIDE DEF W
    <3>3. ThreadTypeOK'
      BY <1>a, <3>1 DEF ThreadTypeOK, WaiterTypeOK, ThreadStates
    <3>4. WaitTypeOK'
      BY <1>a, <3>1 DEF WaitTypeOK
    <3>5. LifeTypeOK'
      BY <1>a, <2>1, <3>1 DEF LifeTypeOK
    <3>6. ASSUME NEW u \in Threads
          PROVE  /\ state'[u] = "Waiting" <=> (lockOwner'[u] # NoThread \/ condvarKey'[u] # NoKey)
                 /\ state'[u] = "Waiting" <=> waitQueue'[u] # "none"
                 /\ state'[u] = "Waiting" <=> addressKey'[u] # NoKey
                 /\ lockOwner'[u] = NoThread \/ condvarKey'[u] = NoKey
      BY <1>b, <2>1, <3>1, <3>2 DEF WaitingIsQueued
    <3>7. WaitingIsQueued'
      BY <3>6 DEF WaitingIsQueued
    <3> QED
      BY <1>c, <1>e, <2>1, <3>3, <3>4, <3>5, <3>7
  <2> QED
    BY <2>2, <2>3
<1>14. ASSUME RestorePriority PROVE QueueInv'
  <2>1. RestorePriorityStep /\ UNCHANGED <<memoryVars, waitVars, lifeVars, pendingVars>>
    BY <1>14 DEF RestorePriority
  <2>2. ThreadTypeOK'
    BY <1>a, <2>1, RestorePriorityType
  <2>3. UNCHANGED <<state, lockOwner, addressKey, condvarKey>>
    BY <2>1 DEF RestorePriorityStep
  <2> QED
    BY <1>c, <1>e, <1>d, <2>1, <2>2, <2>3 DEF waitVars
<1>15. ASSUME WaitSleep PROVE QueueInv'
  <2>1. /\ sleep.thread \in Threads /\ sleep.key \in Keys /\ sleep.cv \in CondVarKeys
        /\ state[sleep.thread] = "Runnable" /\ signal = NoSignal /\ cancel = NoThread
    BY <1>15, <1>a, <1>b DEF WaitSleep, PendingTypeOK, PendingIsValid
  <2>2. /\ condvarKey' = [condvarKey EXCEPT ![sleep.thread] = sleep.cv]
        /\ addressKey' = [addressKey EXCEPT ![sleep.thread] = sleep.key]
        /\ state' = [state EXCEPT ![sleep.thread] = "Waiting"]
        /\ waitQueue' = [waitQueue EXCEPT ![sleep.thread] = "condvar"]
        /\ timer' \subseteq timer \cup {sleep.thread}
        /\ UNCHANGED <<base, prio, lockOwner, numKernelWaiters, restoring, ownerRef>>
    BY <1>15 DEF WaitSleep, BeginWait
  <2>3. sleep' = NoSleep /\ UNCHANGED <<memoryVars, lifeVars, signal, cancel>>
    BY <1>15 DEF WaitSleep
  <2>4. ahead' \subseteq Threads \X Threads
    <3>1. ahead' = Inserted(sleep.thread, CondVarTree(sleep.cv)) /\ ahead \subseteq Threads \X Threads
      BY <1>15, <1>a DEF WaitSleep, ThreadTypeOK, WaiterTypeOK
    <3>2. CondVarTree(sleep.cv) \subseteq Threads
      BY DEF CondVarTree
    <3> QED
      BY <2>1, <3>1, <3>2, SMT DEF Inserted, Erased
  <2>5. ThreadTypeOK'
    BY <1>a, <2>1, <2>2, <2>4 DEF ThreadTypeOK, WaiterTypeOK, ThreadStates
  <2>6. WaitTypeOK'
    BY <1>a, <2>1, <2>2 DEF WaitTypeOK
  <2>7. PendingTypeOK' /\ PendingIsValid'
    BY <1>a, <2>1, <2>3 DEF PendingTypeOK, PendingIsValid, NoSignal
  <2>8. WaitingIsQueued'
    BY <1>a, <1>b, <2>1, <2>2, SMT DEF WaitingIsQueued, ThreadTypeOK, WaiterTypeOK, WaitTypeOK
  <2> QED
    BY <1>c, <1>e, <2>3, <2>5, <2>6, <2>7, <2>8
<1>16. ASSUME SignalLoop PROVE QueueInv'
  <2>1. /\ signal.it \in Threads /\ signal.key \in CondVarKeys /\ state[signal.it] = "Waiting"
        /\ addressKey[signal.it] \in Keys /\ condvarKey[signal.it] # NoKey /\ lockOwner[signal.it] = NoThread
        /\ sleep = NoSleep /\ cancel = NoThread
    BY <1>16, IteratorFacts DEF SignalLoop
  <2>2. PICK next \in Threads \cup {NoThread} :
          /\ Follows(signal.it, CondVarTree(signal.key), next)
          /\ signal' = [signal EXCEPT !.it = next, !.left = IF @ = -1 THEN -1 ELSE @ - 1]
    BY <1>16 DEF SignalLoop
  <2>3. signal \in [key : CondVarKeys, it : Threads \cup {NoThread}, left : Int]
    BY <1>a, <2>1, SMT DEF PendingTypeOK, NoSignal
  <2>4. /\ signal'.key = signal.key /\ signal'.it = next
        /\ signal' \in [key : CondVarKeys, it : Threads \cup {NoThread}, left : Int]
    <3>1. (IF signal.left = -1 THEN -1 ELSE signal.left - 1) \in Int
      BY <2>3, SMT
    <3>2. signal' = [key |-> signal.key, it |-> next,
                     left |-> IF signal.left = -1 THEN -1 ELSE signal.left - 1]
      BY <2>2, <2>3
    <3> QED
      BY <2>3, <3>1, <3>2
  <2>5. next # NoThread => next \in Threads /\ next # signal.it /\ condvarKey[next] = signal.key
    BY <2>2 DEF Follows, CondVarTree
  <2>6. SignalImpl(signal.it) /\ UNCHANGED <<cvWord, request, lifeVars, sleep, cancel>>
    BY <1>16 DEF SignalLoop
  <2>7. MemoryTypeOK'
    BY <1>a, <2>1, <2>6, SignalImplMemory DEF MemoryTypeOK
  <2>8. PendingTypeOK'
    BY <1>a, <2>4, <2>6 DEF PendingTypeOK
  <2>9. ASSUME \A u \in Threads \ {signal.it} : condvarKey'[u] = condvarKey[u] PROVE PendingIsValid'
    BY <2>1, <2>4, <2>5, <2>6, <2>9 DEF PendingIsValid
  <2>10. CASE RemoveWaiter(signal.it) /\ EndWait(signal.it) /\ UNCHANGED <<base, prio>>
    <3>1. PendingIsValid'
      BY <1>a, <2>1, <2>9, <2>10 DEF RemoveWaiter, ThreadTypeOK, WaiterTypeOK
    <3> QED
      BY <1>c, <1>e, <1>8, <2>1, <2>6, <2>7, <2>8, <2>10, <3>1
  <2>11. CASE /\ word[addressKey[signal.it]].tag \in Threads
              /\ AddWaiter(word[addressKey[signal.it]].tag, signal.it, addressKey[signal.it])
              /\ UNCHANGED waitVars /\ UNCHANGED <<base, prio>>
    <3>1. WaiterTypeOK'
      BY <1>a, <2>1, <2>11, AddWaiterType
    <3>2. ThreadTypeOK'
      BY <1>a, <2>11, <3>1 DEF ThreadTypeOK, waitVars
    <3>3. WaitingIsQueued'
      BY <1>a, <1>b, <2>1, <2>11 DEF AddWaiter, waitVars, WaitingIsQueued, ThreadTypeOK, WaiterTypeOK
    <3>4. PendingIsValid'
      BY <1>a, <2>1, <2>9, <2>11 DEF AddWaiter, ThreadTypeOK, WaiterTypeOK
    <3> QED
      BY <1>c, <1>e, <2>6, <2>7, <2>8, <2>11, <3>2, <3>3, <3>4
  <2> QED
    BY <2>1, <2>6, <2>10, <2>11, SignalImplCases
<1>17. ASSUME SignalEnd PROVE QueueInv'
  <2>1. /\ signal # NoSignal /\ signal' = NoSignal
        /\ cvWord' = IF signal.it = NoThread THEN [cvWord EXCEPT ![signal.key] = 0] ELSE cvWord
        /\ UNCHANGED <<threadVars, word, holds, request, waitVars, lifeVars, sleep, cancel>>
    BY <1>17 DEF SignalEnd
  <2>2. MemoryTypeOK'
    BY <1>a, <2>1 DEF MemoryTypeOK
  <2>3. PendingTypeOK' /\ PendingIsValid'
    BY <1>a, <1>b, <2>1 DEF PendingTypeOK, PendingIsValid, NoSignal
  <2> QED
    BY <1>c, <1>e, <2>1, <2>2, <2>3 DEF threadVars, waiterVars, waitVars
<1>18. ASSUME TerminateCancelWait PROVE QueueInv'
  <2>1. /\ cancel \in Threads /\ RemoveWaiter(cancel) /\ EndWait(cancel) /\ cancel' = NoThread
        /\ signal = NoSignal /\ sleep = NoSleep /\ UNCHANGED <<base, prio, memoryVars, lifeVars, signal, sleep>>
    BY <1>18, <1>a, <1>b DEF TerminateCancelWait, CancelWait, PendingTypeOK, PendingIsValid
  <2>2. PendingTypeOK' /\ PendingIsValid'
    BY <1>a, <2>1 DEF PendingTypeOK, PendingIsValid, NoSignal
  <2> QED
    BY <1>c, <1>e, <1>8, <2>1, <2>2
<1>19. CASE UNCHANGED vars
  BY <1>c, <1>e, <1>d, <1>19 DEF vars, threadVars, waiterVars, waitVars
<1> QED
  BY <1>1, <1>2, <1>3, <1>4, <1>5, <1>6, <1>7, <1>9, <1>10, <1>11, <1>12, <1>13, <1>14, <1>15, <1>16, <1>17,
     <1>18, <1>19 DEF Next, KernelStep

\* At first nobody waits.
LEMMA QueueInvInit == Init => QueueInv
<1> SUFFICES ASSUME Init PROVE QueueInv
  OBVIOUS
<1> USE DEF Init, ThreadInit
<1>1. ThreadTypeOK /\ WaitTypeOK
  BY SMT DEF ThreadTypeOK, WaiterTypeOK, WaitTypeOK, ThreadStates
<1>2. MemoryTypeOK /\ PendingTypeOK
  BY DEF MemoryTypeOK, PendingTypeOK
<1>3. LifeTypeOK
  BY DEF LifeTypeOK
<1>4. WaitingIsQueued /\ PendingIsValid
  BY DEF WaitingIsQueued, PendingIsValid, NoSignal
<1> QED
  BY <1>1, <1>2, <1>3, <1>4 DEF QueueInv, TypeOK

\* Types, and the bookkeeping they rest on: a waiting thread is in exactly one
\* tree, and what an interrupted handler has still to do applies.
THEOREM WaitBookkeeping == SafetySpec => [](TypeOK /\ WaitingIsQueued /\ PendingIsValid)
<1>1. Init => QueueInv
  BY QueueInvInit
<1>2. QueueInv /\ [Next]_vars => QueueInv'
  BY QueueInvStep
<1>3. QueueInv => TypeOK /\ WaitingIsQueued /\ PendingIsValid
  BY DEF QueueInv
<1> QED
  BY <1>1, <1>2, <1>3, PTL DEF SafetySpec

----------------------------------------------------------------------------
(* Mutual exclusion, reachable waiters, timers and priority inheritance. *)

MutexInv == MutualExclusion /\ WaitersAreVisible

\* The owner of a mutex passes it on.  By MutualExclusion the word names the
\* owner, so by WaitersAreVisible all who wait for this mutex are in its tree.
LEMMA PassMutexInv ==
  ASSUME QueueInv, MutexInv, NEW t \in Threads, NEW k \in Keys, k \in holds[t], state[t] = "Runnable",
         PassMutex(t, k)
  PROVE  MutexInv'
<1>0. /\ word \in [Keys -> [tag : Threads, wait : BOOLEAN] \cup {Free}] /\ holds \in [Threads -> SUBSET Keys]
      /\ addressKey \in [Threads -> Keys \cup {NoKey}]
  BY DEF QueueInv, TypeOK, ThreadTypeOK, WaiterTypeOK, MemoryTypeOK
<1> USE DEF MutexInv, MutualExclusion, WaitersAreVisible
<1>1. word[k].tag = t
  OBVIOUS
<1>2. \A u \in Threads : lockOwner[u] # NoThread => addressKey[u] \in Keys
  BY <1>0, SMT DEF QueueInv, WaitingIsQueued
<1>3. \A u \in Threads : lockOwner[u] # NoThread /\ addressKey[u] = k => u \in HeldLock(t, k)
  <2> SUFFICES ASSUME NEW u \in Threads, lockOwner[u] # NoThread, addressKey[u] = k PROVE lockOwner[u] = t
    BY DEF HeldLock
  <2> QED
    BY <1>1
<1>4. CASE /\ HeldLock(t, k) = {} /\ UNCHANGED <<lockOwner, addressKey>>
           /\ word' = [word EXCEPT ![k] = Free]
           /\ holds' = [holds EXCEPT ![t] = @ \ {k}]
  BY <1>0, <1>1, <1>2, <1>3, <1>4, SMT DEF Free
<1>5. ASSUME NEW next \in HeldLock(t, k), RemoveWaiterByKey(t, k, next),
             word' = [word EXCEPT ![k] = [tag |-> next, wait |-> HeldLock(t, k) # {next}]],
             holds' = [holds EXCEPT ![t] = @ \ {k}, ![next] = @ \cup {k}]
      PROVE  MutexInv'
  <2>1. next \in Threads /\ next # t
    BY DEF HeldLock, QueueInv, WaitingIsQueued
  <2>2. \A u \in Threads : lockOwner'[u] = IF u = next THEN NoThread
                                            ELSE IF u \in HeldLock(t, k) \ {next} THEN next ELSE lockOwner[u]
    BY <1>5 DEF RemoveWaiterByKey
  <2>3. \A u \in Threads \ {next} : addressKey'[u] = addressKey[u]
    BY <1>0, <1>5, <2>1, SMT DEF RemoveWaiterByKey
  <2>4. MutualExclusion'
    <3> SUFFICES ASSUME NEW u \in Threads, NEW x \in Keys PROVE x \in holds'[u] <=> word'[x].tag = u
      OBVIOUS
    <3>1. CASE x = k
      BY <1>0, <1>1, <1>5, <2>1, <3>1, SMT
    <3>2. CASE x # k
      BY <1>0, <1>5, <2>1, <3>2, SMT
    <3> QED
      BY <3>1, <3>2
  <2>5. ASSUME NEW u \in Threads, lockOwner'[u] # NoThread
        PROVE  word'[addressKey'[u]].tag = lockOwner'[u] /\ word'[addressKey'[u]].wait = TRUE
    <3>1. u # next /\ lockOwner[u] # NoThread
      BY <2>2, <2>5 DEF HeldLock
    <3>2. CASE addressKey[u] = k
      BY <1>0, <1>3, <1>5, <2>2, <2>3, <3>1, <3>2
    <3>3. CASE addressKey[u] # k
      BY <1>0, <1>2, <1>5, <2>2, <2>3, <3>1, <3>3 DEF HeldLock
    <3> QED
      BY <3>2, <3>3
  <2> QED
    BY <2>4, <2>5
<1>6. /\ NextValue(t, k, NoThread) = Free
      /\ \A next \in HeldLock(t, k) : NextValue(t, k, next) = [tag |-> next, wait |-> HeldLock(t, k) # {next}]
  BY ZenonT(60) DEF NextValue, HeldLock
<1>7. CASE /\ HeldLock(t, k) = {}
           /\ word' = [word EXCEPT ![k] = NextValue(t, k, NoThread)]
           /\ holds' = [holds EXCEPT ![t] = @ \ {k}]
           /\ UNCHANGED <<threadVars, waitVars>>
  BY <1>4, <1>6, <1>7 DEF threadVars, waiterVars
<1>8. ASSUME NEW next \in HeldLock(t, k), RemoveWaiterByKey(t, k, next),
             word' = [word EXCEPT ![k] = NextValue(t, k, next)],
             holds' = [holds EXCEPT ![t] = @ \ {k}, ![next] = @ \cup {k}]
      PROVE  MutexInv'
  <2> HIDE DEF MutexInv
  <2> QED
    BY <1>5, <1>6, <1>8
<1> HIDE DEF MutexInv
<1> QED
  BY <1>7, <1>8 DEF PassMutex

\* A thread that waits for no mutex gives up, or another does.
LEMMA RemoveWaiterMutexInv ==
  ASSUME QueueInv, MutexInv, NEW t \in Threads, RemoveWaiter(t), UNCHANGED <<word, holds>>
  PROVE  MutexInv'
BY DEF QueueInv, TypeOK, ThreadTypeOK, WaiterTypeOK, MutexInv, MutualExclusion, WaitersAreVisible, RemoveWaiter

\* Every step preserves MutexInv.
LEMMA MutexInvStep == QueueInv /\ MutexInv /\ [Next]_vars => MutexInv'
<1> SUFFICES ASSUME QueueInv, MutexInv, [Next]_vars PROVE MutexInv'
  OBVIOUS
<1>a. /\ lockOwner \in [Threads -> Threads \cup {NoThread}] /\ addressKey \in [Threads -> Keys \cup {NoKey}]
  BY DEF QueueInv, TypeOK, ThreadTypeOK, WaiterTypeOK
<1>b. word \in [Keys -> [tag : Threads, wait : BOOLEAN] \cup {Free}] /\ holds \in [Threads -> SUBSET Keys]
  BY DEF QueueInv, TypeOK, MemoryTypeOK
<1>0. \A u \in Threads : lockOwner[u] # NoThread => addressKey[u] \in Keys
  BY <1>a DEF QueueInv, WaitingIsQueued
<1> USE DEF threadVars, waiterVars, memoryVars, waitVars, lifeVars, pendingVars, InGuest
<1>1. ASSUME NEW t \in Threads, NEW k \in Keys, GuestLock(t, k) PROVE MutexInv'
  <2>1. CASE word[k] = Free
    <3>1. /\ word' = [word EXCEPT ![k] = [tag |-> t, wait |-> FALSE]]
          /\ holds' = [holds EXCEPT ![t] = @ \cup {k}] /\ UNCHANGED <<lockOwner, addressKey>>
      BY <1>1, <2>1 DEF GuestLock
    <3>2. \A u \in Threads : lockOwner[u] # NoThread => addressKey[u] # k
      BY <2>1, SMT DEF Free, MutexInv, WaitersAreVisible
    <3>3. MutualExclusion'
      BY <2>1, <3>1, <1>b, SMT DEF Free, MutexInv, MutualExclusion
    <3>4. WaitersAreVisible'
      BY <1>0, <3>1, <3>2, <1>b DEF MutexInv, WaitersAreVisible
    <3> QED
      BY <3>3, <3>4 DEF MutexInv
  <2>2. CASE word[k] # Free
    <3>1. word[k] \in [tag : Threads, wait : BOOLEAN]
      BY <2>2, <1>b
    <3>2. word' = [word EXCEPT ![k] = [tag |-> word[k].tag, wait |-> TRUE]] /\ UNCHANGED <<holds, lockOwner, addressKey>>
      BY <1>1, <2>2, <3>1 DEF GuestLock
    <3> QED
      BY <1>0, <3>1, <3>2, <1>b, SMT DEF MutexInv, MutualExclusion, WaitersAreVisible
  <2> QED
    BY <2>1, <2>2
<1>2. ASSUME NEW t \in Threads, NEW k \in Keys, GuestUnlock(t, k) PROVE MutexInv'
  <2>1. /\ word[k] = [tag |-> t, wait |-> FALSE] /\ word' = [word EXCEPT ![k] = Free]
        /\ holds' = [holds EXCEPT ![t] = @ \ {k}] /\ UNCHANGED <<lockOwner, addressKey>>
    BY <1>2 DEF GuestUnlock
  <2>2. \A u \in Threads : lockOwner[u] # NoThread => addressKey[u] # k
    BY <2>1, SMT DEF MutexInv, WaitersAreVisible
  <2>3. MutualExclusion'
    BY <2>1, <1>b, SMT DEF Free, MutexInv, MutualExclusion
  <2>4. WaitersAreVisible'
    BY <1>0, <2>1, <2>2, <1>b DEF MutexInv, WaitersAreVisible
  <2> QED
    BY <2>3, <2>4 DEF MutexInv
<1>3. ASSUME NEW t \in Threads, NEW k \in Keys, SignalToAddress(t, k) PROVE MutexInv'
  BY <1>3, PassMutexInv DEF SignalToAddress
<1>4. ASSUME NEW t \in Threads, NEW k \in Keys, NEW cv \in CondVarKeys, NEW timeout \in Timeouts,
             Wait(t, k, cv, timeout)
      PROVE  MutexInv'
  BY <1>4, PassMutexInv DEF Wait
<1>5. ASSUME NEW t \in Threads, WaitForAddress(t) PROVE MutexInv'
  <2>1. MutualExclusion'
    BY <1>5 DEF WaitForAddress, MutexInv, MutualExclusion
  <2>2. \A u \in Threads \ {t} : lockOwner'[u] = lockOwner[u] /\ addressKey'[u] = addressKey[u]
    BY <1>5, <1>a DEF WaitForAddress, AddWaiter
  <2>3. \/ lockOwner'[t] = lockOwner[t] /\ addressKey'[t] = addressKey[t]
        \/ word[addressKey'[t]].tag = lockOwner'[t] /\ word[addressKey'[t]].wait = TRUE
    BY <1>5, <1>a, SMT DEF WaitForAddress, AddWaiter
  <2>4. word' = word
    BY <1>5 DEF WaitForAddress
  <2>5. WaitersAreVisible'
    BY <2>2, <2>3, <2>4, SMT DEF MutexInv, WaitersAreVisible
  <2> QED
    BY <2>1, <2>5 DEF MutexInv
<1>6. ASSUME NEW t \in Threads, OnTimer(t) PROVE MutexInv'
  <2>1. CASE state[t] = "Waiting"
    BY <1>6, <2>1, RemoveWaiterMutexInv DEF OnTimer, CancelWait
  <2>2. CASE state[t] # "Waiting"
    BY <1>6, <2>2 DEF OnTimer, MutexInv, MutualExclusion, WaitersAreVisible
  <2> QED
    BY <2>1, <2>2
<1>7. ASSUME NEW t \in Threads, Finalize(t) PROVE MutexInv'
  BY <1>7, SMT DEF Finalize, Waiters, MutexInv, MutualExclusion, WaitersAreVisible
<1>8. ASSUME SignalLoop PROVE MutexInv'
  <2> DEFINE t == signal.it
             k == addressKey[t]
  <2>1. t \in Threads /\ k \in Keys /\ lockOwner[t] = NoThread
    BY <1>8, IteratorFacts DEF SignalLoop
  <2>2. CASE /\ word[k] = Free /\ word' = [word EXCEPT ![k] = [tag |-> t, wait |-> FALSE]]
             /\ holds' = [holds EXCEPT ![t] = @ \cup {k}] /\ RemoveWaiter(t)
    <3>1. \A u \in Threads : lockOwner[u] # NoThread => addressKey[u] # k
      BY <2>2, SMT DEF Free, MutexInv, WaitersAreVisible
    <3>2. /\ lockOwner'[t] = NoThread
          /\ \A u \in Threads \ {t} : lockOwner'[u] = lockOwner[u] /\ addressKey'[u] = addressKey[u]
      BY <1>a, <2>1, <2>2 DEF RemoveWaiter
    <3> HIDE DEF k, t
    <3>3. MutualExclusion'
      BY <1>b, <2>1, <2>2, SMT DEF Free, MutexInv, MutualExclusion
    <3>4. WaitersAreVisible'
      BY <1>0, <1>b, <2>1, <2>2, <3>1, <3>2, SMT DEF MutexInv, WaitersAreVisible
    <3> QED
      BY <3>3, <3>4 DEF MutexInv
  <2>3. CASE /\ word[k] # Free /\ word' = [word EXCEPT ![k] = [tag |-> word[k].tag, wait |-> TRUE]] /\ UNCHANGED holds
             /\ AddWaiter(word[k].tag, t, k) \/ RemoveWaiter(t)
    <3>1. word[k] \in [tag : Threads, wait : BOOLEAN]
      BY <2>1, <2>3, <1>b
    <3>2. word' = [word EXCEPT ![k] = [tag |-> word[k].tag, wait |-> TRUE]]
      BY <2>3
    <3>3. MutualExclusion'
      BY <2>1, <2>3, <3>1, <3>2, <1>b, SMT DEF MutexInv, MutualExclusion
    <3>4. \A u \in Threads \ {t} : lockOwner'[u] = lockOwner[u] /\ addressKey'[u] = addressKey[u]
      BY <1>a, <2>1, <2>3 DEF AddWaiter, RemoveWaiter
    <3>5. lockOwner'[t] = NoThread \/ (lockOwner'[t] = word[k].tag /\ addressKey'[t] = k)
      BY <1>a, <2>1, <2>3 DEF AddWaiter, RemoveWaiter
    <3>6. WaitersAreVisible'
      <4> HIDE DEF k, t
      <4>1. word' \in [Keys -> [tag : Threads, wait : BOOLEAN] \cup {Free}] /\ word'[k] = [tag |-> word[k].tag, wait |-> TRUE]
        BY <2>1, <3>1, <3>2, <1>b
      <4>2. \A x \in Keys \ {k} : word'[x] = word[x]
        BY <2>1, <3>2, <1>b
      <4>3. ASSUME NEW u \in Threads \ {t}, lockOwner[u] # NoThread
            PROVE  word'[addressKey[u]].tag = lockOwner[u] /\ word'[addressKey[u]].wait = TRUE
        <5>1. word[addressKey[u]].tag = lockOwner[u] /\ word[addressKey[u]].wait = TRUE
          BY <4>3 DEF MutexInv, WaitersAreVisible
        <5>2. CASE addressKey[u] = k
          BY <4>1, <5>1, <5>2, SMT
        <5>3. CASE addressKey[u] # k
          BY <1>0, <4>2, <4>3, <5>1, <5>3
        <5> QED
          BY <5>2, <5>3
      <4> SUFFICES ASSUME NEW u \in Threads, lockOwner'[u] # NoThread
                   PROVE  word'[addressKey'[u]].tag = lockOwner'[u] /\ word'[addressKey'[u]].wait = TRUE
        BY DEF WaitersAreVisible
      <4>4. CASE u = t
        BY <3>5, <4>1, <4>4, SMT
      <4>5. CASE u # t
        BY <3>4, <4>3, <4>5
      <4> QED
        BY <4>4, <4>5
    <3> QED
      BY <3>3, <3>6 DEF MutexInv
  <2> QED
    BY <1>8, <2>2, <2>3 DEF SignalLoop, SignalImpl, UpdateLock
<1>9. ASSUME TerminateCancelWait PROVE MutexInv'
  <2>1. cancel \in Threads
    BY <1>9 DEF TerminateCancelWait, QueueInv, TypeOK, PendingTypeOK
  <2> QED
    BY <1>9, <2>1, RemoveWaiterMutexInv DEF TerminateCancelWait, CancelWait
<1>10. ASSUME WaitSleep PROVE MutexInv'
  <2>1. sleep.thread \in Threads /\ lockOwner[sleep.thread] = NoThread
    BY <1>10 DEF WaitSleep, QueueInv, TypeOK, PendingTypeOK, PendingIsValid, WaitingIsQueued
  <2> QED
    BY <1>10, <1>a, <2>1, SMT DEF WaitSleep, MutexInv, MutualExclusion, WaitersAreVisible
<1>11. ASSUME UNCHANGED <<word, holds, lockOwner, addressKey>> PROVE MutexInv'
  BY <1>11 DEF MutexInv, MutualExclusion, WaitersAreVisible
<1>12. ASSUME NEW t \in Threads, \/ \E cv \in CondVarKeys, count \in Counts : Signal(t, cv, count)
                                 \/ \E p \in Priorities : SetBasePriority(t, p)
                                 \/ RequestTerminate(t) \/ Exit(t) \/ CloseHandle(t)
       PROVE  MutexInv'
  BY <1>11, <1>12 DEF Signal, SetBasePriority, RequestTerminate, Exit, CloseHandle
<1>13. ASSUME RestorePriority \/ SignalEnd \/ UNCHANGED vars PROVE MutexInv'
  BY <1>11, <1>13 DEF RestorePriority, RestorePriorityStep, SignalEnd, vars
<1> QED
  BY <1>1, <1>2, <1>3, <1>4, <1>5, <1>6, <1>7, <1>8, <1>9, <1>10, <1>12, <1>13 DEF Next, KernelStep

\* A timer task never outlives the wait that armed it.
LEMMA TimerStep == QueueInv /\ NoStaleTimer /\ [Next]_vars => NoStaleTimer'
<1> SUFFICES ASSUME QueueInv, NoStaleTimer, [Next]_vars PROVE NoStaleTimer'
  OBVIOUS
<1>0. state \in [Threads -> ThreadStates] /\ waitQueue \in [Threads -> {"none", "address", "condvar"}]
  BY DEF QueueInv, TypeOK, ThreadTypeOK, WaitTypeOK
<1> USE DEF NoStaleTimer, threadVars, memoryVars, waitVars, lifeVars, pendingVars, InGuest
<1>1. ASSUME NEW t \in Threads, EndWait(t) PROVE NoStaleTimer'
  BY <1>0, <1>1, SMT DEF EndWait
<1>2. ASSUME UNCHANGED waitVars PROVE NoStaleTimer'
  BY <1>2
<1>3. ASSUME NEW t \in Threads, NEW k \in Keys, PassMutex(t, k) PROVE NoStaleTimer'
  BY <1>1, <1>2, <1>3 DEF PassMutex, HeldLock
<1>4. ASSUME NEW t \in Threads, WaitForAddress(t) PROVE NoStaleTimer'
  <2>1. t \notin timer
    BY <1>4 DEF WaitForAddress
  <2>2. \/ UNCHANGED waitVars
        \/ /\ state' = [state EXCEPT ![t] = "Waiting"] /\ waitQueue' = [waitQueue EXCEPT ![t] = "address"]
           /\ timer' = timer
    BY <1>4 DEF WaitForAddress, BeginWait
  <2>3. CASE /\ state' = [state EXCEPT ![t] = "Waiting"] /\ waitQueue' = [waitQueue EXCEPT ![t] = "address"]
             /\ timer' = timer
    BY <1>0, <2>1, <2>3, SMT
  <2> QED
    BY <1>2, <2>2, <2>3
<1>5. ASSUME NEW t \in Threads, OnTimer(t) PROVE NoStaleTimer'
  BY <1>1, <1>5 DEF OnTimer, CancelWait
<1>6. ASSUME NEW t \in Threads, Exit(t) PROVE NoStaleTimer'
  BY <1>0, <1>6, SMT DEF Exit
<1>7. ASSUME NEW t \in Threads, Finalize(t) PROVE NoStaleTimer'
  <2>1. t \notin timer /\ timer \subseteq Threads
    BY <1>7 DEF Finalize, QueueInv, TypeOK, WaitTypeOK
  <2> QED
    BY <1>0, <1>7, <2>1, SMT DEF Finalize
<1>8. ASSUME WaitSleep PROVE NoStaleTimer'
  <2>1. sleep.thread \in Threads
    BY <1>8 DEF WaitSleep, QueueInv, TypeOK, PendingTypeOK
  <2> QED
    BY <1>0, <1>8, <2>1, SMT DEF WaitSleep, BeginWait
<1>9. ASSUME SignalLoop PROVE NoStaleTimer'
  <2>1. signal.it \in Threads /\ addressKey[signal.it] \in Keys /\ SignalImpl(signal.it)
    BY <1>9, IteratorFacts DEF SignalLoop
  <2> QED
    BY <1>1, <1>2, <2>1, SignalImplCases
<1>10. ASSUME TerminateCancelWait PROVE NoStaleTimer'
  BY <1>1, <1>10 DEF TerminateCancelWait, CancelWait, QueueInv, TypeOK, PendingTypeOK
<1>11. ASSUME RestorePriority \/ SignalEnd \/ UNCHANGED vars PROVE NoStaleTimer'
  BY <1>2, <1>11 DEF RestorePriority, SignalEnd, vars
<1>12. ASSUME NEW t \in Threads, NEW k \in Keys,
              \/ GuestLock(t, k) \/ GuestUnlock(t, k) \/ SignalToAddress(t, k)
              \/ \E cv \in CondVarKeys, timeout \in Timeouts : Wait(t, k, cv, timeout)
       PROVE  NoStaleTimer'
  BY <1>2, <1>3, <1>12 DEF GuestLock, GuestUnlock, SignalToAddress, Wait
<1>13. ASSUME NEW t \in Threads, \/ \E cv \in CondVarKeys, count \in Counts : Signal(t, cv, count)
                                 \/ \E p \in Priorities : SetBasePriority(t, p)
                                 \/ RequestTerminate(t) \/ CloseHandle(t)
       PROVE  NoStaleTimer'
  BY <1>2, <1>13 DEF Signal, SetBasePriority, RequestTerminate, CloseHandle
<1> QED
  BY <1>4, <1>5, <1>6, <1>7, <1>8, <1>9, <1>10, <1>11, <1>12, <1>13 DEF Next, KernelStep

\* At first every mutex is free.
LEMMA MutexInvInit == Init => QueueInv /\ MutexInv
BY QueueInvInit, SMT DEF Init, ThreadInit, MutexInv, MutualExclusion, WaitersAreVisible, Free

\* Guest mutexes exclude each other: the word of a mutex names the thread that
\* ArbitrateLock or a hand-over gave it to.
THEOREM MutexCorrect == SafetySpec => []MutualExclusion
<1>1. Init => QueueInv /\ MutexInv
  BY MutexInvInit
<1>2. QueueInv /\ MutexInv /\ [Next]_vars => (QueueInv /\ MutexInv)'
  BY QueueInvStep, MutexInvStep
<1>3. MutexInv => MutualExclusion
  BY DEF MutexInv
<1> QED
  BY <1>1, <1>2, <1>3, PTL DEF SafetySpec

\* Every waiter of a mutex is one its owner's ArbitrateUnlock will find.
THEOREM WakeupsCorrect == SafetySpec => []WaitersAreVisible
<1>1. Init => QueueInv /\ MutexInv
  BY MutexInvInit
<1>2. QueueInv /\ MutexInv /\ [Next]_vars => (QueueInv /\ MutexInv)'
  BY QueueInvStep, MutexInvStep
<1>3. MutexInv => WaitersAreVisible
  BY DEF MutexInv
<1> QED
  BY <1>1, <1>2, <1>3, PTL DEF SafetySpec

\* No timer task outlives the wait it was armed for.
THEOREM TimersCorrect == SafetySpec => []NoStaleTimer
<1>1. Init => QueueInv /\ NoStaleTimer
  BY QueueInvInit DEF Init, NoStaleTimer
<1>2. QueueInv /\ NoStaleTimer /\ [Next]_vars => (QueueInv /\ NoStaleTimer)'
  BY QueueInvStep, TimerStep
<1> QED
  BY <1>1, <1>2, PTL DEF SafetySpec

----------------------------------------------------------------------------
(* Priority inheritance. *)

\* Every step preserves the exactness of inherited priorities.
LEMMA InheritanceStep == QueueInv /\ PriorityIsInherited /\ [Next]_vars => PriorityIsInherited'
<1> SUFFICES ASSUME QueueInv, PriorityIsInherited, [Next]_vars PROVE PriorityIsInherited'
  OBVIOUS
<1>0. ThreadTypeOK /\ WaitingIsQueued
  BY DEF QueueInv, TypeOK
<1> USE DEF threadVars, waiterVars, memoryVars, waitVars, lifeVars, pendingVars, Unlocked, InGuest
<1>1. ASSUME NEW t \in Threads, NEW k \in Keys, PassMutex(t, k), restoring = NoThread PROVE PriorityIsInherited'
  <2>1. StaysFinalized
    BY <1>1, PassMutexQueued DEF StaysFinalized
  <2>2. CASE UNCHANGED <<threadVars, waitVars>>
    BY <1>1, <2>1, <2>2, InheritanceUnchanged
  <2>3. ASSUME NEW next \in HeldLock(t, k), RemoveWaiterByKey(t, k, next), UNCHANGED <<base, prio>>
        PROVE  PriorityIsInherited'
    <3>1. next \in Threads
      BY DEF HeldLock
    <3> QED
      BY <1>0, <1>1, <2>1, <2>3, <3>1, RemoveWaiterByKeyInherits
  <2> QED
    BY <1>1, <2>2, <2>3 DEF PassMutex
<1>2. ASSUME NEW t \in Threads, NEW k \in Keys,
             SignalToAddress(t, k) \/ \E cv \in CondVarKeys, timeout \in Timeouts : Wait(t, k, cv, timeout)
      PROVE  PriorityIsInherited'
  BY <1>1, <1>2 DEF SignalToAddress, Wait
<1>3. ASSUME NEW t \in Threads, WaitForAddress(t) PROVE PriorityIsInherited'
  <2>1. CASE UNCHANGED <<threadVars, waitVars>>
    BY <1>3, <2>1, InheritanceUnchanged DEF WaitForAddress, StaysFinalized
  <2>2. CASE /\ AddWaiter(request[t].owner, t, request[t].key) /\ BeginWait(t, "address", "infinite")
             /\ UNCHANGED <<base, prio>>
    <3>1. request[t].owner \in Threads /\ request[t].key \in Keys /\ restoring = NoThread
      BY <1>3 DEF WaitForAddress, QueueInv, TypeOK, MemoryTypeOK, NoRequest
    <3>2. StaysFinalized /\ lockOwner[t] = NoThread
      BY <1>0, <1>3, <2>2 DEF WaitForAddress, BeginWait, StaysFinalized, ThreadTypeOK, WaitingIsQueued
    <3> QED
      BY <1>0, <2>2, <3>1, <3>2, AddWaiterInherits
  <2> QED
    BY <1>3, <2>1, <2>2 DEF WaitForAddress
<1>4. ASSUME NEW t \in Threads, state[t] = "Waiting", restoring = NoThread, RemoveWaiter(t), EndWait(t),
             UNCHANGED <<base, prio>>
      PROVE  PriorityIsInherited'
  <2>1. StaysFinalized
    BY <1>0, <1>4 DEF EndWait, StaysFinalized, ThreadTypeOK
  <2> QED
    BY <1>0, <1>4, <2>1, RemoveWaiterInherits
<1>5. ASSUME NEW t \in Threads, OnTimer(t) PROVE PriorityIsInherited'
  <2>1. CASE state[t] = "Waiting"
    BY <1>4, <1>5, <2>1 DEF OnTimer, CancelWait
  <2>2. CASE state[t] # "Waiting"
    BY <1>5, <2>2, InheritanceUnchanged DEF OnTimer, StaysFinalized
  <2> QED
    BY <2>1, <2>2
<1>6. ASSUME TerminateCancelWait PROVE PriorityIsInherited'
  <2>1. cancel \in Threads /\ state[cancel] = "Waiting"
    BY <1>6 DEF TerminateCancelWait, QueueInv, TypeOK, PendingTypeOK, PendingIsValid
  <2> QED
    BY <1>4, <1>6, <2>1 DEF TerminateCancelWait, CancelWait
<1>7. ASSUME SignalLoop PROVE PriorityIsInherited'
  <2> DEFINE t == signal.it
  <2>1. /\ t \in Threads /\ state[t] = "Waiting" /\ addressKey[t] \in Keys /\ lockOwner[t] = NoThread
        /\ restoring = NoThread /\ SignalImpl(t)
    BY <1>7, IteratorFacts DEF SignalLoop
  <2>2. CASE RemoveWaiter(t) /\ EndWait(t) /\ UNCHANGED <<base, prio>>
    BY <1>4, <2>1, <2>2
  <2>3. CASE /\ word[addressKey[t]].tag \in Threads /\ AddWaiter(word[addressKey[t]].tag, t, addressKey[t])
             /\ UNCHANGED waitVars /\ UNCHANGED <<base, prio>>
    <3>1. StaysFinalized
      BY <2>3 DEF StaysFinalized
    <3> QED
      BY <1>0, <2>1, <2>3, <3>1, AddWaiterInherits
  <2> QED
    BY <2>1, <2>2, <2>3, SignalImplCases
<1>8. ASSUME NEW t \in Threads, NEW p \in Priorities, SetBasePriority(t, p) PROVE PriorityIsInherited'
  BY <1>0, <1>8, InheritanceOfBase DEF SetBasePriority
<1>9. ASSUME NEW t \in Threads, RequestTerminate(t) PROVE PriorityIsInherited'
  <2>1. CASE base[t] > TerminatingPriority
    BY <1>0, <1>9, <2>1, InheritanceOfBase DEF RequestTerminate
  <2>2. CASE ~(base[t] > TerminatingPriority)
    BY <1>9, <2>2, InheritanceUnchanged DEF RequestTerminate, StaysFinalized
  <2> QED
    BY <2>1, <2>2
<1>10. ASSUME NEW t \in Threads, Finalize(t) PROVE PriorityIsInherited'
  <2> SUFFICES ASSUME NEW u \in Threads \ {restoring'}, state'[u] # "Finalized" PROVE IsInherited(u, prio[u])'
    BY DEF PriorityIsInherited
  <2>1. UNCHANGED <<base, prio, restoring>>
    BY <1>10 DEF Finalize
  <2>2. state[u] # "Finalized"
    <3>1. \A w \in Waiters(t) : state[w] = "Waiting"
      BY <1>0 DEF Waiters, WaitingIsQueued
    <3> QED
      BY <1>10, <3>1 DEF Finalize
  <2>3. IsInherited(u, prio[u])
    BY <2>1, <2>2 DEF PriorityIsInherited
  <2>4. Waiters(u)' = Waiters(u)
    <3>1. CASE UNCHANGED threadVars
      BY <3>1 DEF Waiters
    <3>2. CASE ~UNCHANGED threadVars
      <4>1. /\ state'[t] = "Finalized"
            /\ lockOwner' = [w \in Threads |-> IF w \in Waiters(t) THEN NoThread ELSE lockOwner[w]]
        BY <1>10, <3>2 DEF Finalize
      <4>2. u # t
        BY <4>1
      <4> QED
        BY <4>1, <4>2 DEF Waiters
    <3> QED
      BY <3>1, <3>2
  <2> QED
    BY <2>1, <2>3, <2>4 DEF IsInherited
<1>11. ASSUME NEW t \in Threads, Exit(t) PROVE PriorityIsInherited'
  BY <1>0, <1>11, InheritanceUnchanged DEF Exit, StaysFinalized, ThreadTypeOK
<1>12. ASSUME WaitSleep PROVE PriorityIsInherited'
  <2>1. sleep.thread \in Threads /\ state[sleep.thread] = "Runnable"
    BY <1>12 DEF WaitSleep, QueueInv, TypeOK, PendingTypeOK, PendingIsValid
  <2>2. StaysFinalized
    BY <1>0, <1>12, <2>1 DEF WaitSleep, BeginWait, StaysFinalized, ThreadTypeOK
  <2> QED
    BY <1>12, <2>2, InheritanceUnchanged DEF WaitSleep
<1>13. ASSUME RestorePriority PROVE PriorityIsInherited'
  BY <1>0, <1>13, RestorePriorityInherits DEF RestorePriority
<1>14. ASSUME UNCHANGED <<state, base, prio, lockOwner, restoring>> PROVE PriorityIsInherited'
  BY <1>14, ZenonT(60) DEF PriorityIsInherited, IsInherited, Waiters
<1>15. ASSUME NEW t \in Threads, \/ \E k \in Keys : GuestLock(t, k) \/ GuestUnlock(t, k)
                                 \/ \E cv \in CondVarKeys, count \in Counts : Signal(t, cv, count)
                                 \/ CloseHandle(t)
       PROVE  PriorityIsInherited'
  BY <1>14, <1>15 DEF GuestLock, GuestUnlock, Signal, CloseHandle
<1>16. ASSUME SignalEnd \/ UNCHANGED vars PROVE PriorityIsInherited'
  BY <1>14, <1>16 DEF SignalEnd, vars
<1> QED
  BY <1>2, <1>3, <1>5, <1>6, <1>7, <1>8, <1>9, <1>10, <1>11, <1>12, <1>13, <1>15, <1>16 DEF Next, KernelStep

\* Priority inheritance is exact outside RestorePriority: chains of owners of
\* any length, priority changes, timeouts, terminations and handovers included.
THEOREM InheritanceCorrect == SafetySpec => []PriorityIsInherited
<1>1. Init => QueueInv /\ PriorityIsInherited
  BY QueueInvInit, SMT DEF Init, ThreadInit, PriorityIsInherited, IsInherited, Waiters
<1>2. QueueInv /\ PriorityIsInherited /\ [Next]_vars => (QueueInv /\ PriorityIsInherited)'
  BY QueueInvStep, InheritanceStep
<1> QED
  BY <1>1, <1>2, PTL DEF SafetySpec
=============================================================================
