------------------------- MODULE KLightLock_proofs -------------------------
(***************************************************************************)
(* KLightLock is correct, for any number of threads, locks and priorities: *)
(* the types, the bookkeeping of the threads in Lock and Unlock and        *)
(* priority inheritance, with suspensions and terminations at any time;    *)
(* mutual exclusion and the refinement of Mutex, as long as no thread is   *)
(* terminated.                                                             *)
(***************************************************************************)
EXTENDS KLightLock, KThread_proofs, FiniteSetTheorems

\* Zenon is the prover of every leaf that names no other.
USE Zenon

USE ThreadsAssumption, KeysAssumption, LightLockAssumption

\* Where a thread is in Lock agrees with its state and with the waiters of the
\* lock's owner, and a thread that is about to queue has read an owner.
CallsAreQueued ==
  /\ \A t \in Threads :
       /\ state[t] \in {"Runnable", "Waiting"}
       /\ state[t] = "Waiting" <=> call[t].at = "wait"
       /\ state[t] = "Waiting" <=> lockOwner[t] # NoThread
       /\ state[t] = "Waiting" => addressKey[t] = call[t].key
       /\ call[t].at = "slow" => call[t].owner \in Threads
  /\ cancel # NoThread => state[cancel] = "Waiting"

CallInv == TypeOK /\ CallsAreQueued

\* What Lock and Unlock write in call.
Calls == [at : {"lock", "slow", "wait", "unlock"}, key : Keys, owner : Threads \cup {NoThread}]

----------------------------------------------------------------------------
(* The operators the handlers are made of. *)

\* The waiters of a lock are finitely many.
LEMMA WaitersAreFinite ==
  ASSUME NEW S \in SUBSET Threads
  PROVE  IsFiniteSet(S) /\ Cardinality(S) \in Nat
BY FS_Subset, FS_CardinalityType

\* What UnlockSlowPath leaves after a hand-over has its types.
LEMMA HandedOverType ==
  ASSUME numKernelWaiters \in [Threads -> Int], NEW owner \in Threads, NEW next \in Threads, NEW n \in Int
  PROVE  HandedOver(owner, next, n) \in [Threads -> Int]
BY SMT DEF HandedOver

\* RemoveWaiterByKey keeps the types for a kernel lock too.
LEMMA PassOnType ==
  ASSUME ThreadTypeOK, NEW owner \in Threads, NEW key \in Keys, NEW next \in Threads,
         RemoveWaiterByKey(owner, key, next), UNCHANGED condvarKey
  PROVE  WaiterTypeOK'
<1> DEFINE left == HeldLock(owner, key) \ {next}
<1>1. ahead' \subseteq Threads \X Threads
  BY DEF RemoveWaiterByKey, Erased, ThreadTypeOK, WaiterTypeOK
<1>2. lockOwner' \in [Threads -> Threads \cup {NoThread}]
  BY DEF RemoveWaiterByKey, ThreadTypeOK, WaiterTypeOK
<1>3. Cardinality(left) \in Nat
  <2>1. left \in SUBSET Threads
    BY DEF HeldLock
  <2> QED
    BY <2>1, WaitersAreFinite
<1>4. numKernelWaiters' \in [Threads -> Int]
  <2>1. numKernelWaiters' = HandedOver(owner, next, Cardinality(left))
    BY DEF RemoveWaiterByKey
  <2>2. numKernelWaiters \in [Threads -> Int]
    BY DEF ThreadTypeOK, WaiterTypeOK
  <2> HIDE DEF left
  <2> QED
    BY <1>3, <2>1, <2>2, HandedOverType, SMT
<1>5. addressKey' \in [Threads -> Keys \cup {NoKey}]
  BY DEF RemoveWaiterByKey, ThreadTypeOK, WaiterTypeOK
<1>6. restoring' \in Threads \cup {NoThread}
  BY DEF RemoveWaiterByKey
<1> QED
  BY <1>1, <1>2, <1>4, <1>5, <1>6 DEF ThreadTypeOK, WaiterTypeOK

\* UnlockSlowPath frees the lock or passes it on.
LEMMA UnlockSlowPathCases ==
  ASSUME NEW t \in Threads, UnlockSlowPath(t)
  PROVE  /\ Runs(t) /\ call[t].at = "unlock" /\ UNCHANGED <<requested, allowed, terminating, cancel>>
         /\ \/ /\ HeldLock(t, call[t].key) = {} /\ UNCHANGED threadVars
               /\ tag' = [tag EXCEPT ![call[t].key] = Free]
               /\ holds' = [holds EXCEPT ![t] = @ \ {call[t].key}]
               /\ call' = [call EXCEPT ![t] = NoCall]
               /\ suspended' = Resuspended(t, NoThread, numKernelWaiters)
            \/ \E next \in HeldLock(t, call[t].key) :
                 /\ next \in Threads /\ RemoveWaiterByKey(t, call[t].key, next)
                 /\ state' = [state EXCEPT ![next] = "Runnable"]
                 /\ tag' = [tag EXCEPT ![call[t].key] =
                              [owner |-> next, wait |-> HeldLock(t, call[t].key) # {next}]]
                 /\ holds' = [holds EXCEPT ![t] = @ \ {call[t].key}, ![next] = @ \cup {call[t].key}]
                 /\ call' = [call EXCEPT ![t] = NoCall, ![next] = NoCall]
                 /\ suspended' = Resuspended(t, next, numKernelWaiters')
                 /\ UNCHANGED <<base, prio, condvarKey>>
BY DEF UnlockSlowPath, NextTag, HeldLock

\* LockSlowPath sends the thread back or makes it wait for the owner it read.
LEMMA LockSlowPathCases ==
  ASSUME CallInv, NEW t \in Threads, LockSlowPath(t)
  PROVE  /\ Runs(t) /\ call[t].at = "slow" /\ UNCHANGED <<tag, holds, requested, allowed, terminating, cancel>>
         /\ call[t].key \in Keys /\ call[t].owner \in Threads /\ lockOwner[t] = NoThread
         /\ \/ /\ call' = [call EXCEPT ![t] = [at |-> "lock", key |-> call[t].key, owner |-> NoThread]]
               /\ UNCHANGED <<threadVars, suspended>>
            \/ /\ tag[call[t].key] = [owner |-> call[t].owner, wait |-> TRUE]
               /\ AddWaiter(call[t].owner, t, call[t].key)
               /\ state' = [state EXCEPT ![t] = "Waiting"]
               /\ call' = [call EXCEPT ![t] = [at |-> "wait", key |-> call[t].key, owner |-> NoThread]]
               /\ suspended' = ContinueOwner(call[t].owner)
               /\ UNCHANGED <<base, prio>>
<1>1. call[t].at = "slow" /\ Runs(t)
  BY DEF LockSlowPath
<1>2. call[t] \in Calls /\ call[t].owner \in Threads /\ lockOwner[t] = NoThread
  BY <1>1, SMT DEF CallInv, TypeOK, LockTypeOK, NoCall, Calls, CallsAreQueued
<1> QED
  BY <1>1, <1>2 DEF LockSlowPath, IsStale, Calls

----------------------------------------------------------------------------
(* Every step preserves CallInv. *)

\* At first nobody is in a call.
LEMMA CallInvInit == Init => CallInv
<1> SUFFICES ASSUME Init PROVE CallInv
  OBVIOUS
<1> USE DEF Init, ThreadInit
<1>1. ThreadTypeOK
  BY SMT DEF ThreadTypeOK, WaiterTypeOK, ThreadStates
<1>2. LockTypeOK /\ SuspendTypeOK
  BY DEF LockTypeOK, SuspendTypeOK
<1>3. CallsAreQueued
  BY DEF CallsAreQueued, NoCall
<1> QED
  BY <1>1, <1>2, <1>3 DEF CallInv, TypeOK

\* The types and the bookkeeping of calls are inductive.
LEMMA CallInvStep == CallInv /\ [Next]_vars => CallInv'
<1> SUFFICES ASSUME CallInv, [Next]_vars PROVE CallInv'
  OBVIOUS
<1>a. /\ ThreadTypeOK /\ LockTypeOK /\ SuspendTypeOK /\ CallsAreQueued
      /\ terminating \subseteq Threads /\ cancel \in Threads \cup {NoThread}
  BY DEF CallInv, TypeOK
<1>b. /\ UNCHANGED threadVars => ThreadTypeOK'
      /\ UNCHANGED lockVars => LockTypeOK'
      /\ UNCHANGED suspendVars => SuspendTypeOK'
      /\ UNCHANGED <<terminating, cancel>> => (terminating \subseteq Threads /\ cancel \in Threads \cup {NoThread})'
      /\ UNCHANGED <<state, lockOwner, addressKey, call, cancel>> => CallsAreQueued'
  <2>1. UNCHANGED threadVars => ThreadTypeOK'
    BY <1>a DEF threadVars, waiterVars, ThreadTypeOK, WaiterTypeOK
  <2>2. UNCHANGED lockVars => LockTypeOK'
    BY <1>a DEF lockVars, LockTypeOK
  <2>3. UNCHANGED suspendVars => SuspendTypeOK'
    BY <1>a DEF suspendVars, SuspendTypeOK
  <2>4. UNCHANGED <<state, lockOwner, addressKey, call, cancel>> => CallsAreQueued'
    BY <1>a DEF CallsAreQueued
  <2> QED
    BY <1>a, <2>1, <2>2, <2>3, <2>4
<1>c. ThreadTypeOK' /\ LockTypeOK' /\ SuspendTypeOK' /\ CallsAreQueued'
      /\ (terminating \subseteq Threads /\ cancel \in Threads \cup {NoThread})' => CallInv'
  BY DEF CallInv, TypeOK
<1>1. ASSUME NEW t \in Threads, NEW k \in Keys, Lock(t, k) PROVE CallInv'
  <2>1. UNCHANGED <<threadVars, suspendVars, terminating, cancel>> /\ state[t] = "Runnable"
    BY <1>1 DEF Lock, Runs
  <2>2. CASE IsFree(k)
    <3>1. /\ tag' = [tag EXCEPT ![k] = [owner |-> t, wait |-> FALSE]]
          /\ holds' = [holds EXCEPT ![t] = @ \cup {k}]
          /\ call' = [call EXCEPT ![t] = NoCall]
      BY <1>1, <2>2 DEF Lock
    <3>2. [owner |-> t, wait |-> FALSE] \in [owner : Threads, wait : BOOLEAN]
      OBVIOUS
    <3>3. LockTypeOK'
      BY <1>a, <3>1, <3>2 DEF LockTypeOK
    <3>4. CallsAreQueued'
      BY <1>a, <2>1, <3>1 DEF CallsAreQueued, threadVars, waiterVars, NoCall, LockTypeOK
    <3> QED
      BY <1>b, <1>c, <2>1, <3>3, <3>4
  <2>3. CASE ~IsFree(k)
    <3>1. /\ tag' = [tag EXCEPT ![k] = [owner |-> tag[k].owner, wait |-> TRUE]]
          /\ call' = [call EXCEPT ![t] = [at |-> "slow", key |-> k, owner |-> tag[k].owner]]
          /\ UNCHANGED holds
      BY <1>1, <2>3 DEF Lock
    <3>2. tag[k] \in [owner : Threads, wait : BOOLEAN]
      BY <1>a, <2>3 DEF IsFree, LockTypeOK
    <3>3. /\ [owner |-> tag[k].owner, wait |-> TRUE] \in [owner : Threads, wait : BOOLEAN]
          /\ [at |-> "slow", key |-> k, owner |-> tag[k].owner] \in Calls
          /\ tag[k].owner \in Threads
      BY <3>2 DEF Calls
    <3>4. LockTypeOK'
      BY <1>a, <3>1, <3>3 DEF LockTypeOK, Calls
    <3>5. CallsAreQueued'
      BY <1>a, <2>1, <3>1, <3>3 DEF CallsAreQueued, threadVars, waiterVars, LockTypeOK
    <3> QED
      BY <1>b, <1>c, <2>1, <3>4, <3>5
  <2> QED
    BY <2>2, <2>3
<1>2. ASSUME NEW t \in Threads, LockSlowPath(t) PROVE CallInv'
  <2> DEFINE k == call[t].key
             owner == call[t].owner
  <2>1. /\ Runs(t) /\ call[t].at = "slow" /\ UNCHANGED <<tag, holds, requested, allowed, terminating, cancel>>
        /\ k \in Keys /\ owner \in Threads
    BY <1>2, LockSlowPathCases
  <2>2. CASE /\ call' = [call EXCEPT ![t] = [at |-> "lock", key |-> k, owner |-> NoThread]]
             /\ UNCHANGED <<threadVars, suspended>>
    <3>1. [at |-> "lock", key |-> k, owner |-> NoThread] \in Calls
      BY <2>1 DEF Calls
    <3>2. LockTypeOK'
      BY <1>a, <2>1, <2>2, <3>1 DEF LockTypeOK, Calls
    <3>3. CallsAreQueued'
      BY <1>a, <2>1, <2>2 DEF CallsAreQueued, threadVars, waiterVars, LockTypeOK, Runs
    <3> QED
      BY <1>b, <1>c, <2>1, <2>2, <3>2, <3>3 DEF suspendVars
  <2>3. CASE /\ AddWaiter(owner, t, k)
             /\ state' = [state EXCEPT ![t] = "Waiting"]
             /\ call' = [call EXCEPT ![t] = [at |-> "wait", key |-> k, owner |-> NoThread]]
             /\ suspended' = ContinueOwner(owner)
             /\ UNCHANGED <<base, prio>>
    <3>1. [at |-> "wait", key |-> k, owner |-> NoThread] \in Calls
      BY <2>1 DEF Calls
    <3>2. LockTypeOK'
      BY <1>a, <2>1, <2>3, <3>1 DEF LockTypeOK, Calls
    <3>3. WaiterTypeOK'
      BY <1>a, <2>1, <2>3, AddWaiterType
    <3>4. ThreadTypeOK'
      BY <1>a, <2>3, <3>3 DEF ThreadTypeOK, ThreadStates
    <3>5. SuspendTypeOK'
      BY <1>a, <2>1, <2>3 DEF SuspendTypeOK, ContinueOwner
    <3>6. CallsAreQueued'
      BY <1>a, <2>1, <2>3 DEF CallsAreQueued, AddWaiter, ThreadTypeOK, WaiterTypeOK, LockTypeOK, Runs
    <3> QED
      BY <1>b, <1>c, <2>1, <3>2, <3>4, <3>5, <3>6
  <2> QED
    BY <1>2, <2>2, <2>3, LockSlowPathCases
<1>3. ASSUME NEW t \in Threads, NEW k \in Keys, Unlock(t, k) PROVE CallInv'
  <2>1. /\ UNCHANGED <<threadVars, suspendVars, terminating, cancel>>
        /\ state[t] = "Runnable" /\ call[t] = NoCall
    BY <1>3 DEF Unlock, Runs
  <2>2. CASE IsUncontended(t, k)
    <3>1. /\ tag' = [tag EXCEPT ![k] = Free] /\ holds' = [holds EXCEPT ![t] = @ \ {k}] /\ UNCHANGED call
      BY <1>3, <2>2 DEF Unlock
    <3>2. LockTypeOK'
      BY <1>a, <3>1 DEF LockTypeOK
    <3> QED
      BY <1>b, <1>c, <2>1, <3>1, <3>2 DEF threadVars, waiterVars
  <2>3. CASE ~IsUncontended(t, k)
    <3>1. /\ call' = [call EXCEPT ![t] = [at |-> "unlock", key |-> k, owner |-> NoThread]]
          /\ UNCHANGED <<tag, holds>>
      BY <1>3, <2>3 DEF Unlock
    <3>2. [at |-> "unlock", key |-> k, owner |-> NoThread] \in Calls
      BY DEF Calls
    <3>3. LockTypeOK'
      BY <1>a, <3>1, <3>2 DEF LockTypeOK, Calls
    <3>4. CallsAreQueued'
      BY <1>a, <2>1, <3>1 DEF CallsAreQueued, threadVars, waiterVars, LockTypeOK, NoCall
    <3> QED
      BY <1>b, <1>c, <2>1, <3>3, <3>4
  <2> QED
    BY <2>2, <2>3
<1>4. ASSUME NEW t \in Threads, UnlockSlowPath(t) PROVE CallInv'
  <2> DEFINE k == call[t].key
  <2>1. /\ Runs(t) /\ call[t].at = "unlock" /\ UNCHANGED <<requested, allowed, terminating, cancel>>
    BY <1>4, UnlockSlowPathCases
  <2>2. k \in Keys
    BY <1>a, <2>1, SMT DEF LockTypeOK, NoCall
  <2>3. suspended' = [u \in Threads |-> suspended'[u]] /\ \A u \in Threads : suspended'[u] \subseteq SuspendTypes
    <3>1. \E next, w : suspended' = Resuspended(t, next, w)
      BY <1>4, UnlockSlowPathCases
    <3> QED
      BY <1>a, <3>1 DEF Resuspended, SuspendFlags, SuspendTypeOK
  <2>4. SuspendTypeOK'
    BY <1>a, <2>1, <2>3 DEF SuspendTypeOK
  <2>5. CASE /\ UNCHANGED threadVars
             /\ tag' = [tag EXCEPT ![k] = Free]
             /\ holds' = [holds EXCEPT ![t] = @ \ {k}]
             /\ call' = [call EXCEPT ![t] = NoCall]
    <3>1. LockTypeOK'
      BY <1>a, <2>2, <2>5 DEF LockTypeOK
    <3>2. CallsAreQueued'
      BY <1>a, <2>1, <2>5 DEF CallsAreQueued, threadVars, waiterVars, LockTypeOK, NoCall, Runs
    <3> QED
      BY <1>b, <1>c, <2>1, <2>4, <2>5, <3>1, <3>2
  <2>6. ASSUME NEW next \in HeldLock(t, k), next \in Threads, RemoveWaiterByKey(t, k, next),
               state' = [state EXCEPT ![next] = "Runnable"],
               tag' = [tag EXCEPT ![k] = [owner |-> next, wait |-> HeldLock(t, k) # {next}]],
               holds' = [holds EXCEPT ![t] = @ \ {k}, ![next] = @ \cup {k}],
               call' = [call EXCEPT ![t] = NoCall, ![next] = NoCall],
               UNCHANGED <<base, prio, condvarKey>>
        PROVE  CallInv'
    <3>1. [owner |-> next, wait |-> HeldLock(t, k) # {next}] \in [owner : Threads, wait : BOOLEAN]
      BY <2>6
    <3>2. LockTypeOK'
      BY <1>a, <2>2, <2>6, <3>1 DEF LockTypeOK
    <3>3. WaiterTypeOK'
      BY <1>a, <2>2, <2>6, PassOnType
    <3>4. ThreadTypeOK'
      BY <1>a, <2>6, <3>3 DEF ThreadTypeOK, ThreadStates
    <3>5. CallsAreQueued'
      <4>1. \A u \in Threads : u # next => (lockOwner'[u] # NoThread <=> lockOwner[u] # NoThread)
        BY <2>6 DEF RemoveWaiterByKey, HeldLock
      <4>2. lockOwner'[next] = NoThread
        BY <2>6 DEF RemoveWaiterByKey
      <4>3. \A u \in Threads : u # next => addressKey'[u] = addressKey[u]
        BY <1>a, <2>6 DEF RemoveWaiterByKey, ThreadTypeOK, WaiterTypeOK
      <4>4. cancel = NoThread /\ state[t] = "Runnable"
        BY <2>1 DEF Runs, Unlocked
      <4> QED
        BY <1>a, <2>1, <2>6, <4>1, <4>2, <4>3, <4>4, SMT DEF CallsAreQueued, ThreadTypeOK, LockTypeOK, NoCall
    <3> QED
      BY <1>b, <1>c, <2>1, <2>4, <3>2, <3>4, <3>5
  <2> QED
    BY <1>4, <2>5, <2>6, UnlockSlowPathCases
<1>5. ASSUME NEW t \in Threads, NEW type \in SuspendTypes, RequestSuspend(t, type) \/ Resume(t, type)
      PROVE  CallInv'
  <2>1. UNCHANGED <<threadVars, lockVars, allowed, terminating, cancel>>
    BY <1>5 DEF RequestSuspend, Resume
  <2>2. SuspendTypeOK'
    BY <1>a, <1>5, SMT DEF RequestSuspend, Resume, SuspendTypeOK
  <2> QED
    BY <1>b, <1>c, <2>1, <2>2 DEF threadVars, waiterVars, lockVars
<1>6. ASSUME NEW t \in Threads, NEW p \in Priorities, SetBasePriority(t, p) PROVE CallInv'
  <2>1. UNCHANGED <<state, prio, waiterVars, lockVars, suspendVars, terminating, cancel>>
    BY <1>6 DEF SetBasePriority
  <2>2. ThreadTypeOK'
    BY <1>a, <1>6 DEF SetBasePriority, ThreadTypeOK, WaiterTypeOK, waiterVars
  <2> QED
    BY <1>b, <1>c, <2>1, <2>2 DEF waiterVars, lockVars
<1>7. ASSUME NEW t \in Threads, RequestTerminate(t) PROVE CallInv'
  <2>1. UNCHANGED <<state, prio, waiterVars, lockVars, requested>> /\ terminating' = terminating \cup {t}
        /\ cancel' = (IF state[t] = "Waiting" THEN t ELSE NoThread)
    BY <1>7 DEF RequestTerminate
  <2>2. ThreadTypeOK'
    BY <1>a, <1>7, SMT DEF RequestTerminate, ThreadTypeOK, WaiterTypeOK, waiterVars
  <2>3. SuspendTypeOK'
    BY <1>a, <1>7 DEF RequestTerminate, SuspendTypeOK
  <2>4. CallsAreQueued'
    BY <1>a, <2>1 DEF CallsAreQueued, waiterVars, lockVars
  <2> QED
    BY <1>a, <1>b, <1>c, <2>1, <2>2, <2>3, <2>4
<1>8. ASSUME TerminateCancelWait PROVE CallInv'
  <2>1. /\ cancel \in Threads /\ state[cancel] = "Waiting" /\ call[cancel].at = "wait"
        /\ RemoveWaiter(cancel) /\ UNCHANGED <<base, prio, tag, suspendVars, terminating>>
        /\ state' = [state EXCEPT ![cancel] = "Runnable"]
        /\ holds' = [holds EXCEPT ![cancel] = @ \cup {call[cancel].key}]
        /\ call' = [call EXCEPT ![cancel] = NoCall] /\ cancel' = NoThread
    BY <1>a, <1>8 DEF TerminateCancelWait, CallsAreQueued
  <2>2. call[cancel].key \in Keys
    BY <1>a, <2>1, SMT DEF LockTypeOK, NoCall
  <2>3. LockTypeOK'
    BY <1>a, <2>1, <2>2 DEF LockTypeOK
  <2>4. WaiterTypeOK'
    BY <1>a, <2>1, RemoveWaiterType
  <2>5. ThreadTypeOK'
    BY <1>a, <2>1, <2>4 DEF ThreadTypeOK, ThreadStates
  <2>6. CallsAreQueued'
    BY <1>a, <2>1 DEF CallsAreQueued, RemoveWaiter, ThreadTypeOK, WaiterTypeOK, LockTypeOK, NoCall
  <2> QED
    BY <1>a, <1>b, <1>c, <2>1, <2>3, <2>5, <2>6
<1>9. ASSUME RestorePriority PROVE CallInv'
  <2>1. ThreadTypeOK'
    BY <1>a, <1>9, RestorePriorityType DEF RestorePriority
  <2> QED
    BY <1>b, <1>c, <1>9, <2>1 DEF RestorePriority, RestorePriorityStep, lockVars
<1>10. CASE UNCHANGED vars
  BY <1>b, <1>c, <1>10 DEF vars, threadVars, waiterVars, lockVars
<1>11. ASSUME NEW t \in Threads, Proceed(t) PROVE CallInv'
  <2>1. CASE call[t].at = "lock" /\ Lock(t, call[t].key)
    <3>1. call[t].key \in Keys
      BY <1>a, <2>1, SMT DEF LockTypeOK, NoCall
    <3> QED
      BY <1>1, <2>1, <3>1
  <2> QED
    BY <1>2, <1>4, <1>11, <2>1 DEF Proceed
<1> QED
  BY <1>1, <1>3, <1>5, <1>6, <1>7, <1>8, <1>9, <1>10, <1>11 DEF Next, KernelStep

\* The types, and the agreement of the calls, the states and the waiters.
THEOREM LightLockCalls == SafetySpec => [](TypeOK /\ CallsAreQueued)
<1>1. Init => CallInv
  BY CallInvInit
<1>2. CallInv /\ [Next]_vars => CallInv'
  BY CallInvStep
<1>3. CallInv => TypeOK /\ CallsAreQueued
  BY DEF CallInv
<1> QED
  BY <1>1, <1>2, <1>3, PTL DEF SafetySpec

----------------------------------------------------------------------------
(* Priority inheritance. *)

\* Every step leaves the priorities exact but for the thread restoring.
LEMMA LockInheritanceStep == CallInv /\ PriorityIsInherited /\ [Next]_vars => PriorityIsInherited'
<1> SUFFICES ASSUME CallInv, PriorityIsInherited, [Next]_vars PROVE PriorityIsInherited'
  OBVIOUS
<1>0. ThreadTypeOK /\ LockTypeOK /\ CallsAreQueued
  BY DEF CallInv, TypeOK
<1>a. ThreadTypeOK' /\ CallsAreQueued'
  BY CallInvStep DEF CallInv, TypeOK
<1>b. StaysFinalized
  BY <1>0 DEF StaysFinalized, CallsAreQueued
<1>1. ASSUME UNCHANGED <<state, base, prio, lockOwner, restoring>> PROVE PriorityIsInherited'
  BY <1>1, ZenonT(60) DEF PriorityIsInherited, IsInherited, Waiters
<1>2. ASSUME NEW t \in Threads, LockSlowPath(t) PROVE PriorityIsInherited'
  <2>1. CASE UNCHANGED threadVars
    BY <1>1, <2>1 DEF threadVars, waiterVars
  <2>2. CASE AddWaiter(call[t].owner, t, call[t].key) /\ UNCHANGED <<base, prio>>
    <3>1. call[t].owner \in Threads /\ call[t].key \in Keys /\ lockOwner[t] = NoThread /\ restoring = NoThread
      BY <1>2, LockSlowPathCases DEF Runs, Unlocked
    <3> QED
      BY <1>0, <1>b, <2>2, <3>1, AddWaiterInherits
  <2> QED
    BY <1>2, <2>1, <2>2, LockSlowPathCases
<1>3. ASSUME NEW t \in Threads, UnlockSlowPath(t) PROVE PriorityIsInherited'
  <2>1. CASE UNCHANGED threadVars
    BY <1>1, <2>1 DEF threadVars, waiterVars
  <2>2. ASSUME NEW next \in HeldLock(t, call[t].key), next \in Threads,
               RemoveWaiterByKey(t, call[t].key, next), UNCHANGED <<base, prio>>
        PROVE  PriorityIsInherited'
    <3>1. Runs(t) /\ call[t].at = "unlock"
      BY <1>3, UnlockSlowPathCases
    <3>2. call[t].key \in Keys
      BY <1>0, <3>1, SMT DEF LockTypeOK, NoCall
    <3>3. restoring = NoThread
      BY <3>1 DEF Runs, Unlocked
    <3> QED
      BY <1>0, <1>b, <2>2, <3>2, <3>3, RemoveWaiterByKeyInherits
  <2> QED
    BY <1>3, <2>1, <2>2, UnlockSlowPathCases
<1>4. ASSUME NEW t \in Threads, NEW p \in Priorities, SetBasePriority(t, p) PROVE PriorityIsInherited'
  BY <1>0, <1>4, InheritanceOfBase DEF SetBasePriority, Unlocked, waiterVars
<1>5. ASSUME NEW t \in Threads, RequestTerminate(t) PROVE PriorityIsInherited'
  <2>1. CASE base[t] > TerminatingPriority
    BY <1>0, <1>5, <2>1, InheritanceOfBase DEF RequestTerminate, Unlocked, waiterVars
  <2>2. CASE ~(base[t] > TerminatingPriority)
    BY <1>1, <1>5, <2>2 DEF RequestTerminate, waiterVars
  <2> QED
    BY <2>1, <2>2
<1>6. ASSUME TerminateCancelWait PROVE PriorityIsInherited'
  <2>1. cancel \in Threads
    BY <1>6 DEF CallInv, TypeOK, TerminateCancelWait
  <2> QED
    BY <1>0, <1>b, <1>6, <2>1, RemoveWaiterInherits DEF TerminateCancelWait
<1>7. ASSUME RestorePriority PROVE PriorityIsInherited'
  BY <1>0, <1>7, RestorePriorityInherits DEF RestorePriority
<1>8. ASSUME NEW t \in Threads, \/ \E k \in Keys \cup {NoKey} : Lock(t, k) \/ Unlock(t, k)
                                \/ \E type \in SuspendTypes : RequestSuspend(t, type) \/ Resume(t, type)
      PROVE  PriorityIsInherited'
  BY <1>1, <1>8 DEF Lock, Unlock, RequestSuspend, Resume, threadVars, waiterVars
<1>9. ASSUME NEW t \in Threads, Proceed(t) PROVE PriorityIsInherited'
  <2>1. call[t].key \in Keys \cup {NoKey}
    BY <1>0, SMT DEF LockTypeOK, NoCall
  <2> QED
    BY <1>2, <1>3, <1>8, <1>9, <2>1 DEF Proceed
<1>10. CASE UNCHANGED vars
  BY <1>1, <1>10 DEF vars, threadVars, waiterVars
<1> QED
  BY <1>4, <1>5, <1>6, <1>7, <1>8, <1>9, <1>10 DEF Next, KernelStep

\* Priority inheritance is exact for kernel locks, whoever is suspended or
\* terminated meanwhile.
THEOREM LightLockInheritance == SafetySpec => []PriorityIsInherited
<1> DEFINE Inv == CallInv /\ PriorityIsInherited
<1>1. Init => Inv
  BY CallInvInit, SMT DEF Init, ThreadInit, PriorityIsInherited, IsInherited, Waiters
<1>2. Inv /\ [Next]_vars => Inv'
  BY CallInvStep, LockInheritanceStep
<1>3. Inv => PriorityIsInherited
  OBVIOUS
<1> QED
  BY <1>1, <1>2, <1>3, PTL DEF SafetySpec

----------------------------------------------------------------------------
(* KLightLock is a lock, as long as no thread is terminated while it waits. *)

\* Nobody is, or will be, terminated.
NoTermination == terminating = {} /\ cancel = NoThread /\ allowed = Threads

\* Lock is called for a lock the thread does not hold, Unlock for one it holds.
CallsAreRight ==
  \A t \in Threads :
    /\ call[t].at \in {"lock", "slow", "wait"} => call[t].key \notin holds[t]
    /\ call[t].at = "unlock" => call[t].key \in holds[t]

\* The tag names the thread a waiter waits for, and has the waiter bit.
TagsAreRight ==
  \A t \in Threads : lockOwner[t] # NoThread => /\ tag[addressKey[t]].owner = lockOwner[t]
                                                /\ tag[addressKey[t]].wait = TRUE

MutexInv == CallInv /\ NoTermination /\ MutualExclusion /\ CallsAreRight /\ TagsAreRight

\* At first every lock is free and nobody asks for one.
LEMMA MutexInvInit == Init => MutexInv
BY CallInvInit, SMT DEF Init, ThreadInit, MutexInv, NoTermination, MutualExclusion, CallsAreRight, TagsAreRight,
  Free, NoCall

\* UnlockSlowPath of t: t is the owner, and all who wait for the lock are in its
\* tree.
LEMMA UnlockFacts ==
  ASSUME MutexInv, NEW t \in Threads, UnlockSlowPath(t)
  PROVE  /\ call[t].key \in Keys /\ call[t].key \in holds[t] /\ lockOwner[t] = NoThread
         /\ tag[call[t].key].owner = t
         /\ \A u \in Threads : call[t].key \in holds[u] <=> u = t
         /\ \A u \in Threads : lockOwner[u] # NoThread /\ addressKey[u] = call[t].key <=> u \in HeldLock(t, call[t].key)
<1>1. Runs(t) /\ call[t].at = "unlock"
  BY DEF UnlockSlowPath
<1>2. call[t].key \in Keys /\ call[t].key \in holds[t] /\ lockOwner[t] = NoThread
  BY <1>1 DEF MutexInv, CallInv, TypeOK, LockTypeOK, NoCall, CallsAreRight, CallsAreQueued, Runs
<1>3. tag[call[t].key].owner = t /\ \A u \in Threads : call[t].key \in holds[u] <=> u = t
  BY <1>2, SMT DEF MutexInv, MutualExclusion
<1>4. \A u \in Threads : lockOwner[u] # NoThread /\ addressKey[u] = call[t].key => lockOwner[u] = t
  <2> SUFFICES ASSUME NEW u \in Threads, lockOwner[u] # NoThread, addressKey[u] = call[t].key
               PROVE  lockOwner[u] = t
    OBVIOUS
  <2>1. tag[call[t].key].owner = lockOwner[u]
    BY DEF MutexInv, TagsAreRight
  <2> QED
    BY <1>3, <2>1
<1> QED
  BY <1>2, <1>3, <1>4 DEF HeldLock

\* Who owns, asks and waits stays in agreement, without terminations.
LEMMA MutexInvStep ==
  ASSUME MayTerminate = {}, MutexInv, [Next]_vars
  PROVE  MutexInv'
<1>0. /\ CallInv /\ ThreadTypeOK /\ LockTypeOK /\ CallsAreQueued
      /\ NoTermination /\ MutualExclusion /\ CallsAreRight /\ TagsAreRight
  BY DEF MutexInv, CallInv, TypeOK
<1>1. CallInv' /\ ThreadTypeOK' /\ LockTypeOK' /\ CallsAreQueued'
  BY <1>0, CallInvStep DEF CallInv, TypeOK
<1> SUFFICES NoTermination' /\ MutualExclusion' /\ CallsAreRight' /\ TagsAreRight'
  BY <1>1 DEF MutexInv
<1>a. UNCHANGED <<terminating, cancel, allowed>> => NoTermination'
  BY <1>0 DEF NoTermination
<1>b. UNCHANGED <<tag, holds>> => MutualExclusion'
  BY <1>0 DEF MutualExclusion
<1>c. UNCHANGED <<call, holds>> => CallsAreRight'
  BY <1>0 DEF CallsAreRight
<1>d. UNCHANGED <<tag, lockOwner, addressKey>> => TagsAreRight'
  BY <1>0 DEF TagsAreRight
<1>2. ASSUME NEW t \in Threads, NEW k \in Keys, Lock(t, k)
      PROVE  NoTermination' /\ MutualExclusion' /\ CallsAreRight' /\ TagsAreRight'
  <2>1. UNCHANGED <<threadVars, suspendVars, terminating, cancel>> /\ k \notin holds[t]
    BY <1>0, <1>2 DEF Lock, CallsAreRight
  <2>2. NoTermination'
    BY <1>a, <2>1 DEF suspendVars
  <2>3. CASE IsFree(k)
    <3>1. /\ tag' = [tag EXCEPT ![k] = [owner |-> t, wait |-> FALSE]]
          /\ holds' = [holds EXCEPT ![t] = @ \cup {k}]
          /\ call' = [call EXCEPT ![t] = NoCall] /\ tag[k] = Free
      BY <1>2, <2>3 DEF Lock, IsFree
    <3>2. \A u \in Threads : k \notin holds[u]
      BY <1>0, <3>1, SMT DEF MutualExclusion, Free
    <3>3. MutualExclusion'
      BY <1>0, <3>1, <3>2, SMT DEF MutualExclusion, LockTypeOK
    <3>4. CallsAreRight'
      BY <1>0, <3>1, <3>2 DEF CallsAreRight, LockTypeOK, NoCall
    <3>5. \A u \in Threads : lockOwner[u] # NoThread => addressKey[u] # k
      BY <1>0, <3>1, SMT DEF TagsAreRight, Free
    <3>6. TagsAreRight'
      BY <1>0, <2>1, <3>1, <3>5, SMTT(30) DEF TagsAreRight, LockTypeOK, threadVars, waiterVars
    <3> QED
      BY <2>2, <3>3, <3>4, <3>6
  <2>4. CASE ~IsFree(k)
    <3>1. /\ tag' = [tag EXCEPT ![k] = [owner |-> tag[k].owner, wait |-> TRUE]]
          /\ call' = [call EXCEPT ![t] = [at |-> "slow", key |-> k, owner |-> tag[k].owner]]
          /\ UNCHANGED holds
      BY <1>2, <2>4 DEF Lock
    <3>2. MutualExclusion'
      BY <1>0, <3>1, SMT DEF MutualExclusion, LockTypeOK
    <3>3. CallsAreRight'
      BY <1>0, <2>1, <3>1 DEF CallsAreRight, LockTypeOK
    <3>4. TagsAreRight'
      <4> SUFFICES ASSUME NEW u \in Threads, lockOwner[u] # NoThread
                   PROVE  tag'[addressKey[u]].owner = lockOwner[u] /\ tag'[addressKey[u]].wait = TRUE
        BY <2>1 DEF TagsAreRight, threadVars, waiterVars
      <4>1. tag[addressKey[u]].owner = lockOwner[u] /\ tag[addressKey[u]].wait = TRUE
        BY <1>0 DEF TagsAreRight
      <4>2. tag'[k] = [owner |-> tag[k].owner, wait |-> TRUE]
        BY <1>0, <3>1 DEF LockTypeOK
      <4>3. addressKey[u] # k => tag'[addressKey[u]] = tag[addressKey[u]]
        BY <1>0, <3>1, SMT DEF LockTypeOK
      <4>4. addressKey[u] = k => tag'[k].owner = lockOwner[u] /\ tag'[k].wait = TRUE
        BY <4>1, <4>2, SMT
      <4> QED
        BY <4>1, <4>3, <4>4
    <3> QED
      BY <2>2, <3>2, <3>3, <3>4
  <2> QED
    BY <2>3, <2>4
<1>3. ASSUME NEW t \in Threads, LockSlowPath(t)
      PROVE  NoTermination' /\ MutualExclusion' /\ CallsAreRight' /\ TagsAreRight'
  <2>1. /\ call[t].at = "slow" /\ UNCHANGED <<tag, holds, allowed, terminating, cancel>>
        /\ \/ /\ call' = [call EXCEPT ![t] = [at |-> "lock", key |-> call[t].key, owner |-> NoThread]]
              /\ UNCHANGED threadVars
           \/ /\ tag[call[t].key] = [owner |-> call[t].owner, wait |-> TRUE]
              /\ AddWaiter(call[t].owner, t, call[t].key)
              /\ call' = [call EXCEPT ![t] = [at |-> "wait", key |-> call[t].key, owner |-> NoThread]]
    BY <1>0, <1>3, LockSlowPathCases
  <2>2. CallsAreRight'
    BY <1>0, <2>1, SMTT(30) DEF CallsAreRight, LockTypeOK
  <2>3. TagsAreRight'
    BY <1>0, <2>1, SMT DEF TagsAreRight, AddWaiter, ThreadTypeOK, WaiterTypeOK, threadVars, waiterVars
  <2> QED
    BY <1>a, <1>b, <2>1, <2>2, <2>3
<1>4. ASSUME NEW t \in Threads, NEW k \in Keys, Unlock(t, k)
      PROVE  NoTermination' /\ MutualExclusion' /\ CallsAreRight' /\ TagsAreRight'
  <2>1. UNCHANGED <<threadVars, suspendVars, terminating, cancel>> /\ k \in holds[t] /\ call[t] = NoCall
    BY <1>4 DEF Unlock
  <2>2. NoTermination'
    BY <1>a, <2>1 DEF suspendVars
  <2>3. CASE IsUncontended(t, k)
    <3>1. /\ tag' = [tag EXCEPT ![k] = Free] /\ holds' = [holds EXCEPT ![t] = @ \ {k}] /\ UNCHANGED call
          /\ tag[k] = [owner |-> t, wait |-> FALSE]
      BY <1>4, <2>3 DEF Unlock, IsUncontended
    <3>2. \A u \in Threads : k \in holds[u] <=> u = t
      BY <1>0, <3>1, SMT DEF MutualExclusion
    <3>3. MutualExclusion'
      BY <1>0, <3>1, <3>2, SMT DEF MutualExclusion, LockTypeOK, Free
    <3>4. CallsAreRight'
      BY <1>0, <2>1, <3>1, SMT DEF CallsAreRight, LockTypeOK, NoCall
    <3>5. \A u \in Threads : lockOwner[u] # NoThread => addressKey[u] # k
      BY <1>0, <3>1, SMT DEF TagsAreRight
    <3>6. TagsAreRight'
      BY <1>0, <2>1, <3>1, <3>5, SMT DEF TagsAreRight, LockTypeOK, threadVars, waiterVars
    <3> QED
      BY <2>2, <3>3, <3>4, <3>6
  <2>4. CASE ~IsUncontended(t, k)
    <3>1. /\ call' = [call EXCEPT ![t] = [at |-> "unlock", key |-> k, owner |-> NoThread]]
          /\ UNCHANGED <<tag, holds>>
      BY <1>4, <2>4 DEF Unlock
    <3>2. CallsAreRight'
      BY <1>0, <2>1, <3>1 DEF CallsAreRight, LockTypeOK
    <3> QED
      BY <1>b, <1>d, <2>1, <2>2, <3>1, <3>2 DEF threadVars, waiterVars
  <2> QED
    BY <2>3, <2>4
<1>5. ASSUME NEW t \in Threads, UnlockSlowPath(t)
      PROVE  NoTermination' /\ MutualExclusion' /\ CallsAreRight' /\ TagsAreRight'
  <2> DEFINE k == call[t].key
  <2>1. /\ k \in Keys /\ lockOwner[t] = NoThread
        /\ \A u \in Threads : k \in holds[u] <=> u = t
        /\ \A u \in Threads : lockOwner[u] # NoThread /\ addressKey[u] = k <=> u \in HeldLock(t, k)
    BY <1>5, UnlockFacts
  <2>2. NoTermination'
    BY <1>a, <1>5, UnlockSlowPathCases
  <2>3. CASE /\ HeldLock(t, k) = {} /\ UNCHANGED threadVars
             /\ tag' = [tag EXCEPT ![k] = Free] /\ holds' = [holds EXCEPT ![t] = @ \ {k}]
             /\ call' = [call EXCEPT ![t] = NoCall]
    <3>1. MutualExclusion'
      BY <1>0, <2>1, <2>3, SMT DEF MutualExclusion, LockTypeOK, Free
    <3>2. CallsAreRight'
      BY <1>0, <2>1, <2>3 DEF CallsAreRight, LockTypeOK, NoCall
    <3>3. TagsAreRight'
      BY <1>0, <2>1, <2>3, SMT DEF TagsAreRight, LockTypeOK, threadVars, waiterVars
    <3> QED
      BY <2>2, <3>1, <3>2, <3>3
  <2>4. ASSUME NEW next \in HeldLock(t, k), next \in Threads, RemoveWaiterByKey(t, k, next),
               tag' = [tag EXCEPT ![k] = [owner |-> next, wait |-> HeldLock(t, k) # {next}]],
               holds' = [holds EXCEPT ![t] = @ \ {k}, ![next] = @ \cup {k}],
               call' = [call EXCEPT ![t] = NoCall, ![next] = NoCall]
        PROVE  MutualExclusion' /\ CallsAreRight' /\ TagsAreRight'
    <3>1. next # t /\ lockOwner[next] # NoThread /\ addressKey[next] = k
      BY <2>1, <2>4
    <3>2. \A u \in Threads : holds'[u] = IF u = t THEN holds[u] \ {k} ELSE IF u = next THEN holds[u] \cup {k} ELSE holds[u]
      BY <1>0, <2>4, <3>1 DEF LockTypeOK
    <3>3. MutualExclusion'
      BY <1>0, <2>1, <2>4, <3>1, <3>2, SMT DEF MutualExclusion, LockTypeOK
    <3>4. CallsAreRight'
      BY <1>0, <2>4, <3>1, <3>2 DEF CallsAreRight, LockTypeOK, NoCall
    <3>5. TagsAreRight'
      <4> SUFFICES ASSUME NEW u \in Threads, lockOwner'[u] # NoThread
                   PROVE  tag'[addressKey'[u]].owner = lockOwner'[u] /\ tag'[addressKey'[u]].wait = TRUE
        BY DEF TagsAreRight
      <4>1. /\ u # next /\ addressKey'[u] = addressKey[u]
            /\ lockOwner'[u] = IF u \in HeldLock(t, k) THEN next ELSE lockOwner[u]
        BY <1>0, <2>4 DEF RemoveWaiterByKey, ThreadTypeOK, WaiterTypeOK
      <4>2. lockOwner[u] # NoThread
        BY <4>1 DEF HeldLock
      <4>3. tag'[k] = [owner |-> next, wait |-> HeldLock(t, k) # {next}]
        BY <1>0, <2>1, <2>4 DEF LockTypeOK
      <4>4. CASE u \in HeldLock(t, k)
        <5>1. (HeldLock(t, k) # {next}) = TRUE
          BY <4>1, <4>4
        <5>2. tag'[k] = [owner |-> next, wait |-> TRUE]
          BY <4>3, <5>1
        <5>3. addressKey[u] = k
          BY <4>4 DEF HeldLock
        <5>4. tag'[k].owner = next /\ tag'[k].wait = TRUE
          BY <5>2, SMT
        <5> QED
          BY <4>1, <4>4, <5>3, <5>4
      <4>5. CASE u \notin HeldLock(t, k)
        <5>1. addressKey[u] # k
          BY <2>1, <4>2, <4>5
        <5>2. tag'[addressKey[u]] = tag[addressKey[u]]
          BY <1>0, <2>4, <5>1, SMT DEF LockTypeOK
        <5> QED
          BY <1>0, <4>1, <4>2, <4>5, <5>2 DEF TagsAreRight
      <4> QED
        BY <4>4, <4>5
    <3> QED
      BY <3>3, <3>4, <3>5
  <2> QED
    BY <1>5, <2>2, <2>3, <2>4, UnlockSlowPathCases
<1>6. ASSUME NEW t \in Threads, Proceed(t)
      PROVE  NoTermination' /\ MutualExclusion' /\ CallsAreRight' /\ TagsAreRight'
  <2>1. call[t].at = "lock" => call[t].key \in Keys
    BY <1>0, SMT DEF LockTypeOK, NoCall
  <2> QED
    BY <1>2, <1>3, <1>5, <1>6, <2>1 DEF Proceed
<1>7. ASSUME NEW t \in Threads, \/ \E type \in SuspendTypes : RequestSuspend(t, type) \/ Resume(t, type)
                                \/ \E p \in Priorities : SetBasePriority(t, p)
      PROVE  NoTermination' /\ MutualExclusion' /\ CallsAreRight' /\ TagsAreRight'
  <2>1. UNCHANGED <<waiterVars, lockVars, allowed, terminating, cancel>>
    BY <1>7 DEF RequestSuspend, Resume, SetBasePriority, threadVars, suspendVars
  <2>2. UNCHANGED <<lockOwner, addressKey, tag, call, holds, allowed, terminating, cancel>>
    BY <2>1 DEF waiterVars, lockVars
  <2> QED
    BY <1>a, <1>b, <1>c, <1>d, <2>2
<1>8. ASSUME NEW t \in Threads PROVE ~RequestTerminate(t) /\ ~TerminateCancelWait
  BY <1>0 DEF RequestTerminate, TerminateCancelWait, NoTermination
<1>9. CASE RestorePriority \/ UNCHANGED vars
  BY <1>a, <1>b, <1>c, <1>d, <1>9
  DEF RestorePriority, RestorePriorityStep, vars, threadVars, waiterVars, lockVars, suspendVars
<1>10. ~TerminateCancelWait
  BY <1>0 DEF TerminateCancelWait, NoTermination
<1> QED
  BY <1>2, <1>4, <1>6, <1>7, <1>8, <1>9, <1>10 DEF Next, KernelStep

\* A thread that has returned from Lock is the thread the tag names until its
\* Unlock is done.
THEOREM LightLockMutualExclusion ==
  ASSUME MayTerminate = {}
  PROVE  SafetySpec => []MutualExclusion
<1>1. Init => MutexInv
  BY MutexInvInit
<1>2. MutexInv /\ [Next]_vars => MutexInv'
  BY MutexInvStep
<1>3. MutexInv => MutualExclusion
  BY DEF MutexInv
<1> QED
  BY <1>1, <1>2, <1>3, PTL DEF SafetySpec

\* Every thread that waits for a lock is registered with the thread the tag
\* names, and the tag has the waiter bit.
THEOREM LightLockWakeups ==
  ASSUME MayTerminate = {}
  PROVE  SafetySpec => []WaitersAreVisible
<1>1. Init => MutexInv
  BY MutexInvInit
<1>2. MutexInv /\ [Next]_vars => MutexInv'
  BY MutexInvStep
<1>3. MutexInv => WaitersAreVisible
  BY DEF MutexInv, CallInv, CallsAreQueued, TagsAreRight, WaitersAreVisible
<1> QED
  BY <1>1, <1>2, <1>3, PTL DEF SafetySpec

----------------------------------------------------------------------------
(* Refinement. *)

\* Two functions that differ in one place.
LEMMA FunctionUpdate ==
  ASSUME NEW S, NEW f, NEW g, f = [j \in S |-> f[j]], g = [j \in S |-> g[j]],
         NEW k \in S, NEW v, g[k] = v, \A j \in S \ {k} : g[j] = f[j]
  PROVE  g = [f EXCEPT ![k] = v]
OBVIOUS

\* Who has queued, in the terms of KLightLock.
LEMMA QueuedIsWaiting ==
  ASSUME CallInv, NEW t \in Threads
  PROVE  M!Queued(t) <=> lockOwner[t] # NoThread
<1>1. lockOwner[t] # NoThread => addressKey[t] \in Keys
  BY SMT DEF CallInv, TypeOK, LockTypeOK, NoCall, CallsAreQueued
<1> QED
  BY <1>1 DEF M!Queued, LockQueue

\* The refinement: a free lock is a free lock of Mutex.
LEMMA InitRefines == Init => M!MutexInit
BY SMT DEF Init, ThreadInit, M!MutexInit, LockHolder, LockQueue, Free

\* The refinement: every step is one of Mutex, or a stutter.
LEMMA StepRefines ==
  ASSUME MutexInv, MayTerminate = {}, [Next]_vars
  PROVE  [M!MutexNext]_(M!mutexVars)
<1>0. /\ CallInv /\ ThreadTypeOK /\ LockTypeOK /\ CallsAreQueued
      /\ NoTermination /\ MutualExclusion /\ CallsAreRight /\ TagsAreRight
  BY DEF MutexInv, CallInv, TypeOK
<1>a. ASSUME UNCHANGED <<LockHolder, LockQueue>> PROVE [M!MutexNext]_(M!mutexVars)
  BY <1>a DEF M!mutexVars
<1>b. UNCHANGED <<lockOwner, addressKey>> => UNCHANGED LockQueue
  BY DEF LockQueue
<1>c. UNCHANGED tag => UNCHANGED LockHolder
  BY DEF LockHolder
<1>d. ASSUME NEW k \in Keys, NEW h, tag'[k].owner = h, \A j \in Keys \ {k} : tag'[j] = tag[j]
      PROVE  LockHolder' = [LockHolder EXCEPT ![k] = h]
  BY <1>d, FunctionUpdate DEF LockHolder
<1>1. ASSUME NEW t \in Threads, NEW k \in Keys, Lock(t, k) PROVE [M!MutexNext]_(M!mutexVars)
  <2>1. lockOwner[t] = NoThread /\ UNCHANGED <<lockOwner, addressKey>>
    BY <1>0, <1>1 DEF Lock, Runs, CallsAreQueued, threadVars, waiterVars
  <2>2. CASE IsFree(k)
    <3>1. tag[k] = Free /\ tag' = [tag EXCEPT ![k] = [owner |-> t, wait |-> FALSE]]
      BY <1>1, <2>2 DEF Lock, IsFree
    <3>2. LockHolder[k] = NoThread /\ LockHolder' = [LockHolder EXCEPT ![k] = t]
      <4>1. tag'[k].owner = t /\ \A j \in Keys \ {k} : tag'[j] = tag[j]
        BY <1>0, <3>1 DEF LockTypeOK
      <4>2. LockHolder[k] = NoThread
        BY <3>1, SMT DEF LockHolder, Free
      <4> QED
        BY <1>d, <4>1, <4>2
    <3>3. \A u \in Threads : lockOwner[u] # NoThread => addressKey[u] # k
      BY <1>0, <3>1, SMT DEF TagsAreRight, Free
    <3>4. LockQueue[k] = {}
      BY <3>3 DEF LockQueue
    <3>5. M!Acquire(t, k)
      BY <1>0, <1>b, <2>1, <3>2, <3>4, QueuedIsWaiting DEF M!Acquire
    <3> QED
      BY <3>5 DEF M!MutexNext
  <2>3. CASE ~IsFree(k)
    <3>1. tag' = [tag EXCEPT ![k] = [owner |-> tag[k].owner, wait |-> TRUE]]
      BY <1>1, <2>3 DEF Lock
    <3>2. LockHolder' = LockHolder
      BY <1>0, <3>1 DEF LockHolder, LockTypeOK
    <3> QED
      BY <1>a, <1>b, <2>1, <3>2
  <2> QED
    BY <2>2, <2>3
<1>2. ASSUME NEW t \in Threads, LockSlowPath(t) PROVE [M!MutexNext]_(M!mutexVars)
  <2> DEFINE k == call[t].key
             owner == call[t].owner
  <2>1. /\ call[t].at = "slow" /\ UNCHANGED tag /\ k \in Keys /\ owner \in Threads /\ lockOwner[t] = NoThread
    BY <1>0, <1>2, LockSlowPathCases
  <2>2. CASE UNCHANGED threadVars
    BY <1>a, <1>b, <1>c, <2>1, <2>2 DEF threadVars, waiterVars
  <2>3. CASE tag[k] = [owner |-> owner, wait |-> TRUE] /\ AddWaiter(owner, t, k)
    <3>1. owner # t
      BY <1>0, <2>1, <2>3, SMT DEF CallsAreRight, MutualExclusion
    <3>2. LockHolder[k] = owner
      BY <2>1, <2>3, SMT DEF LockHolder
    <3>3. \A u \in Threads : /\ lockOwner'[u] = IF u = t THEN owner ELSE lockOwner[u]
                             /\ addressKey'[u] = IF u = t THEN k ELSE addressKey[u]
      BY <1>0, <2>3 DEF AddWaiter, ThreadTypeOK, WaiterTypeOK
    <3>4. ASSUME NEW j \in Keys
          PROVE  LockQueue'[j] = IF j = k THEN LockQueue[j] \cup {t} ELSE LockQueue[j]
      <4>1. /\ \A u : u \in LockQueue'[j] <=> u \in Threads /\ lockOwner'[u] # NoThread /\ addressKey'[u] = j
            /\ \A u : u \in LockQueue[j] <=> u \in Threads /\ lockOwner[u] # NoThread /\ addressKey[u] = j
        BY DEF LockQueue
      <4>2. owner # NoThread
        BY <2>1, ThreadsAssumption
      <4> HIDE DEF k, owner
      <4>3. \A u : u # t => (u \in LockQueue'[j] <=> u \in LockQueue[j])
        BY <3>3, <4>1, ZenonT(60)
      <4>4. t \in LockQueue'[j] <=> j = k
        BY <3>3, <4>1, <4>2
      <4>5. t \notin LockQueue[j]
        BY <2>1, <4>1
      <4>6. CASE j = k
        <5>1. LockQueue'[j] = LockQueue[j] \cup {t}
          BY <4>3, <4>4, <4>6
        <5> QED
          BY <4>6, <5>1
      <4>7. CASE j # k
        <5>0. \A u : u \in LockQueue'[j] <=> u \in LockQueue[j]
          BY <4>3, <4>4, <4>5, <4>7
        <5>1. LockQueue'[j] = LockQueue[j]
          BY <5>0
        <5> QED
          BY <4>7, <5>1
      <4> QED
        BY <4>6, <4>7
    <3>5. LockQueue' = [LockQueue EXCEPT ![k] = @ \cup {t}]
      <4>1. LockQueue' = [j \in Keys |-> LockQueue'[j]] /\ LockQueue = [j \in Keys |-> LockQueue[j]]
        BY DEF LockQueue
      <4>2. DOMAIN LockQueue = Keys
        BY DEF LockQueue
      <4> HIDE DEF k, owner
      <4> QED
        BY <3>4, <4>1, <4>2
    <3>6. M!Enqueue(t, k)
      BY <1>0, <1>c, <2>1, <3>1, <3>2, <3>5, QueuedIsWaiting DEF M!Enqueue
    <3> QED
      BY <2>1, <3>6 DEF M!MutexNext
  <2> QED
    BY <1>0, <1>2, <2>2, <2>3, LockSlowPathCases
<1>3. ASSUME NEW t \in Threads, NEW k \in Keys, Unlock(t, k) PROVE [M!MutexNext]_(M!mutexVars)
  <2>1. lockOwner[t] = NoThread /\ UNCHANGED <<lockOwner, addressKey>>
    BY <1>0, <1>3 DEF Unlock, Runs, CallsAreQueued, threadVars, waiterVars
  <2>2. CASE IsUncontended(t, k)
    <3>1. tag[k] = [owner |-> t, wait |-> FALSE] /\ tag' = [tag EXCEPT ![k] = Free]
      BY <1>3, <2>2 DEF Unlock, IsUncontended
    <3>2. LockHolder[k] = t /\ LockHolder' = [LockHolder EXCEPT ![k] = NoThread]
      <4>1. tag'[k].owner = NoThread /\ \A j \in Keys \ {k} : tag'[j] = tag[j]
        BY <1>0, <3>1 DEF LockTypeOK, Free
      <4>2. LockHolder[k] = t
        BY <3>1, SMT DEF LockHolder
      <4> QED
        BY <1>d, <4>1, <4>2
    <3>3. \A u \in Threads : lockOwner[u] # NoThread => addressKey[u] # k
      BY <1>0, <3>1, SMT DEF TagsAreRight
    <3>4. LockQueue[k] = {}
      BY <3>3 DEF LockQueue
    <3>5. M!Release(t, k)
      BY <1>0, <1>b, <2>1, <3>2, <3>4, QueuedIsWaiting DEF M!Release
    <3> QED
      BY <3>5 DEF M!MutexNext
  <2>3. CASE ~IsUncontended(t, k)
    BY <1>3, <1>a, <1>b, <1>c, <2>1, <2>3 DEF Unlock
  <2> QED
    BY <2>2, <2>3
<1>4. ASSUME NEW t \in Threads, UnlockSlowPath(t) PROVE [M!MutexNext]_(M!mutexVars)
  <2> DEFINE k == call[t].key
  <2>1. /\ k \in Keys /\ lockOwner[t] = NoThread /\ tag[k].owner = t
        /\ \A u \in Threads : lockOwner[u] # NoThread /\ addressKey[u] = k <=> u \in HeldLock(t, k)
    BY <1>4, UnlockFacts
  <2>2. LockHolder[k] = t /\ LockQueue[k] = HeldLock(t, k) /\ ~M!Queued(t)
    <3>1. LockQueue[k] = HeldLock(t, k)
      BY <2>1 DEF LockQueue, HeldLock
    <3> QED
      BY <1>0, <2>1, <3>1, QueuedIsWaiting DEF LockHolder
  <2>3. CASE HeldLock(t, k) = {} /\ UNCHANGED threadVars /\ tag' = [tag EXCEPT ![k] = Free]
    <3>1. LockHolder' = [LockHolder EXCEPT ![k] = NoThread]
      <4>1. tag'[k].owner = NoThread /\ \A j \in Keys \ {k} : tag'[j] = tag[j]
        BY <1>0, <2>1, <2>3 DEF LockTypeOK, Free
      <4> QED
        BY <1>d, <2>1, <4>1
    <3>2. M!Release(t, k)
      BY <1>b, <2>2, <2>3, <3>1 DEF M!Release, threadVars, waiterVars
    <3> QED
      BY <2>1, <3>2 DEF M!MutexNext
  <2>4. ASSUME NEW next \in HeldLock(t, k), next \in Threads, RemoveWaiterByKey(t, k, next),
               tag' = [tag EXCEPT ![k] = [owner |-> next, wait |-> HeldLock(t, k) # {next}]]
        PROVE  [M!MutexNext]_(M!mutexVars)
    <3>1. LockHolder' = [LockHolder EXCEPT ![k] = next]
      <4>1. tag'[k].owner = next /\ \A j \in Keys \ {k} : tag'[j] = tag[j]
        BY <1>0, <2>1, <2>4 DEF LockTypeOK
      <4> QED
        BY <1>d, <2>1, <4>1
    <3>2. \A u \in Threads : /\ lockOwner'[u] # NoThread <=> u # next /\ lockOwner[u] # NoThread
                             /\ u # next => addressKey'[u] = addressKey[u]
      BY <1>0, <2>4 DEF RemoveWaiterByKey, HeldLock, ThreadTypeOK, WaiterTypeOK
    <3>3. next \in LockQueue[k] /\ addressKey[next] = k
      BY <2>2, <2>4 DEF HeldLock
    <3>4. \A j \in Keys : LockQueue'[j] = IF j = k THEN LockQueue[j] \ {next} ELSE LockQueue[j]
      BY <3>2, <3>3, SMT DEF LockQueue
    <3>5. LockQueue' = [LockQueue EXCEPT ![k] = @ \ {next}]
      BY <2>1, <3>4, FunctionUpdate DEF LockQueue
    <3>6. M!HandOver(t, k)
      BY <2>2, <3>1, <3>3, <3>5 DEF M!HandOver
    <3> QED
      BY <2>1, <3>6 DEF M!MutexNext
  <2> QED
    BY <1>4, <2>3, <2>4, UnlockSlowPathCases
<1>5. ASSUME NEW t \in Threads, Proceed(t) PROVE [M!MutexNext]_(M!mutexVars)
  <2>1. call[t].at = "lock" => call[t].key \in Keys
    BY <1>0, SMT DEF LockTypeOK, NoCall
  <2> QED
    BY <1>1, <1>2, <1>4, <1>5, <2>1 DEF Proceed
<1>6. ASSUME NEW t \in Threads, \/ \E type \in SuspendTypes : RequestSuspend(t, type) \/ Resume(t, type)
                                \/ \E p \in Priorities : SetBasePriority(t, p)
      PROVE  [M!MutexNext]_(M!mutexVars)
  BY <1>a, <1>b, <1>c, <1>6 DEF RequestSuspend, Resume, SetBasePriority, threadVars, waiterVars, lockVars
<1>7. ~TerminateCancelWait /\ \A t \in Threads : ~RequestTerminate(t)
  BY <1>0 DEF RequestTerminate, TerminateCancelWait, NoTermination
<1>8. CASE RestorePriority \/ UNCHANGED vars
  BY <1>a, <1>b, <1>c, <1>8 DEF RestorePriority, RestorePriorityStep, vars, threadVars, waiterVars, lockVars
<1> QED
  BY <1>1, <1>3, <1>5, <1>6, <1>7, <1>8 DEF Next, KernelStep

\* KLightLock implements Mutex: the lock goes from its holder to a thread that has
\* queued, and to a thread that has not only when nobody has.
THEOREM LightLockImplementsMutex ==
  ASSUME MayTerminate = {}
  PROVE  SafetySpec => ImplementsMutex
<1>1. Init => MutexInv /\ M!MutexInit
  BY MutexInvInit, InitRefines
<1>2. MutexInv /\ [Next]_vars => MutexInv' /\ [M!MutexNext]_(M!mutexVars)
  BY MutexInvStep, StepRefines
<1> QED
  BY <1>1, <1>2, PTL DEF SafetySpec, ImplementsMutex, M!MutexSafety

----------------------------------------------------------------------------
(* Counting. *)

\* AddWaiter counts the thread it adds.
LEMMA AddWaiterCounts ==
  ASSUME ThreadTypeOK, KernelWaitersAreCounted, NEW owner \in Threads, NEW t \in Threads, NEW k \in Keys,
         lockOwner[t] = NoThread, AddWaiter(owner, t, k)
  PROVE  KernelWaitersAreCounted'
<1> SUFFICES ASSUME NEW u \in Threads PROVE numKernelWaiters'[u] = Cardinality(Waiters(u)')
  BY DEF KernelWaitersAreCounted
<1>1. numKernelWaiters[u] = Cardinality(Waiters(u))
  BY DEF KernelWaitersAreCounted
<1>2. CASE u # owner
  <2>1. Waiters(u)' = Waiters(u)
    BY <1>2 DEF AddWaiter, Waiters, ThreadTypeOK, WaiterTypeOK
  <2> QED
    BY <1>1, <1>2, <2>1 DEF AddWaiter, ThreadTypeOK, WaiterTypeOK
<1>3. CASE u = owner
  <2>1. Waiters(u)' = Waiters(u) \cup {t} /\ t \notin Waiters(u)
    BY <1>3, SMT DEF AddWaiter, Waiters, ThreadTypeOK, WaiterTypeOK
  <2>2. IsFiniteSet(Waiters(u))
    BY WaitersAreFinite DEF Waiters
  <2>3. Cardinality(Waiters(u)') = Cardinality(Waiters(u)) + 1
    BY <2>1, <2>2, FS_AddElement
  <2>4. numKernelWaiters'[u] = numKernelWaiters[u] + 1
    BY <1>3 DEF AddWaiter, ThreadTypeOK, WaiterTypeOK
  <2> QED
    BY <1>1, <2>3, <2>4
<1> QED
  BY <1>2, <1>3

\* RemoveWaiter discounts the thread it removes.
LEMMA RemoveWaiterCounts ==
  ASSUME ThreadTypeOK, KernelWaitersAreCounted, NEW t \in Threads,
         lockOwner[t] \in Threads, addressKey[t] \in Keys, RemoveWaiter(t)
  PROVE  KernelWaitersAreCounted'
<1> SUFFICES ASSUME NEW u \in Threads PROVE numKernelWaiters'[u] = Cardinality(Waiters(u)')
  BY DEF KernelWaitersAreCounted
<1>1. numKernelWaiters[u] = Cardinality(Waiters(u))
  BY DEF KernelWaitersAreCounted
<1>2. CASE u # lockOwner[t]
  <2>1. Waiters(u)' = Waiters(u)
    BY <1>2 DEF RemoveWaiter, Waiters, ThreadTypeOK, WaiterTypeOK
  <2> QED
    BY <1>1, <1>2, <2>1 DEF RemoveWaiter, ThreadTypeOK, WaiterTypeOK
<1>3. CASE u = lockOwner[t]
  <2>1. Waiters(u)' = Waiters(u) \ {t} /\ t \in Waiters(u)
    BY <1>3 DEF RemoveWaiter, Waiters, ThreadTypeOK, WaiterTypeOK
  <2>2. IsFiniteSet(Waiters(u))
    BY WaitersAreFinite DEF Waiters
  <2>3. Cardinality(Waiters(u)') = Cardinality(Waiters(u)) - 1
    BY <2>1, <2>2, FS_RemoveElement
  <2>4. numKernelWaiters'[u] = numKernelWaiters[u] - 1
    BY <1>3 DEF RemoveWaiter, ThreadTypeOK, WaiterTypeOK
  <2> QED
    BY <1>1, <2>3, <2>4
<1> QED
  BY <1>2, <1>3

\* RemoveWaiterByKey moves the count of the waiters that are left to the new
\* owner, which itself stops waiting.
LEMMA RemoveWaiterByKeyCounts ==
  ASSUME ThreadTypeOK, KernelWaitersAreCounted, NEW owner \in Threads, NEW k \in Keys, NEW next \in Threads,
         lockOwner[owner] = NoThread, RemoveWaiterByKey(owner, k, next)
  PROVE  KernelWaitersAreCounted'
<1> DEFINE held == HeldLock(owner, k)
           left == held \ {next}
           n == Cardinality(left)
<1>1. next \in held /\ lockOwner[next] = owner /\ next # owner /\ held \subseteq Waiters(owner)
  BY DEF RemoveWaiterByKey, IsFront, HeldLock, Waiters
<1>2. /\ lockOwner' = [u \in Threads |-> IF u = next THEN NoThread ELSE IF u \in left THEN next ELSE lockOwner[u]]
      /\ numKernelWaiters' = HandedOver(owner, next, n)
  BY DEF RemoveWaiterByKey
<1>3. held \in SUBSET Threads /\ left \in SUBSET Threads /\ \A u \in Threads : Waiters(u) \in SUBSET Threads
  BY DEF HeldLock, Waiters
<1>4. /\ IsFiniteSet(held) /\ Cardinality(held) \in Nat
      /\ IsFiniteSet(left) /\ n \in Nat
      /\ \A u \in Threads : IsFiniteSet(Waiters(u)) /\ Cardinality(Waiters(u)) \in Nat
  BY <1>3, WaitersAreFinite
<1>5. n = Cardinality(held) - 1
  BY <1>1, <1>4, FS_RemoveElement
<1>6. \A u \in left : lockOwner[u] = owner
  BY DEF HeldLock
<1> SUFFICES ASSUME NEW u \in Threads PROVE numKernelWaiters'[u] = Cardinality(Waiters(u)')
  BY DEF KernelWaitersAreCounted
<1>7. numKernelWaiters[u] = Cardinality(Waiters(u))
  BY DEF KernelWaitersAreCounted
<1>8. CASE u # owner /\ u # next
  <2>1. Waiters(u)' = Waiters(u)
    BY <1>1, <1>2, <1>6, <1>8 DEF Waiters
  <2>2. numKernelWaiters'[u] = numKernelWaiters[u]
    BY <1>2, <1>8 DEF HandedOver, ThreadTypeOK, WaiterTypeOK
  <2> QED
    BY <1>7, <2>1, <2>2
<1>9. CASE u = owner
  <2>1. Waiters(u)' = Waiters(u) \ held
    BY <1>1, <1>2, <1>9 DEF Waiters
  <2>2. Waiters(u) \cap held = held
    BY <1>1, <1>9
  <2>3. Cardinality(Waiters(u)') = Cardinality(Waiters(u)) - Cardinality(held)
    BY <1>4, <2>1, <2>2, FS_Difference
  <2> HIDE DEF n
  <2>4. numKernelWaiters'[u] = numKernelWaiters[u] - n - 1
    BY <1>1, <1>2, <1>9 DEF HandedOver, ThreadTypeOK, WaiterTypeOK
  <2> QED
    BY <1>4, <1>5, <1>7, <2>3, <2>4, SMT
<1>10. CASE u = next
  <2>1. Waiters(u)' = Waiters(u) \cup left
    BY <1>1, <1>2, <1>6, <1>10 DEF Waiters
  <2>2. Waiters(u) \cap left = {}
    BY <1>1, <1>6, <1>10 DEF Waiters
  <2>3. Cardinality(Waiters(u)') = Cardinality(Waiters(u)) + n
    <3>1. Cardinality(Waiters(u) \cup left) = Cardinality(Waiters(u)) + n - Cardinality(Waiters(u) \cap left)
      BY <1>4, FS_Union
    <3>2. Cardinality(Waiters(u) \cap left) = 0
      BY <2>2, FS_EmptySet
    <3> HIDE DEF n
    <3> QED
      BY <1>4, <2>1, <3>1, <3>2, SMT
  <2> HIDE DEF n
  <2>4. numKernelWaiters'[u] = numKernelWaiters[u] + n
    BY <1>1, <1>2, <1>10 DEF HandedOver, ThreadTypeOK, WaiterTypeOK
  <2> QED
    BY <1>7, <2>3, <2>4
<1> QED
  BY <1>8, <1>9, <1>10

\* Every step that moves waiters moves their count.
LEMMA CountStep == CallInv /\ KernelWaitersAreCounted /\ [Next]_vars => KernelWaitersAreCounted'
<1> SUFFICES ASSUME CallInv, KernelWaitersAreCounted, [Next]_vars PROVE KernelWaitersAreCounted'
  OBVIOUS
<1>0. ThreadTypeOK /\ LockTypeOK /\ CallsAreQueued
  BY DEF CallInv, TypeOK
<1>1. ASSUME UNCHANGED <<lockOwner, numKernelWaiters>> PROVE KernelWaitersAreCounted'
  BY <1>1 DEF KernelWaitersAreCounted, Waiters
<1>2. ASSUME NEW t \in Threads, LockSlowPath(t) PROVE KernelWaitersAreCounted'
  <2>1. CASE UNCHANGED threadVars
    BY <1>1, <2>1 DEF threadVars, waiterVars
  <2>2. CASE AddWaiter(call[t].owner, t, call[t].key)
    BY <1>0, <1>2, <2>2, LockSlowPathCases, AddWaiterCounts
  <2> QED
    BY <1>2, <2>1, <2>2, LockSlowPathCases
<1>3. ASSUME NEW t \in Threads, UnlockSlowPath(t) PROVE KernelWaitersAreCounted'
  <2>1. CASE UNCHANGED threadVars
    BY <1>1, <2>1 DEF threadVars, waiterVars
  <2>2. ASSUME NEW next \in HeldLock(t, call[t].key), next \in Threads, RemoveWaiterByKey(t, call[t].key, next)
        PROVE  KernelWaitersAreCounted'
    <3>1. call[t].key \in Keys
      BY <1>0, <1>3, UnlockSlowPathCases, SMT DEF LockTypeOK, NoCall
    <3>2. lockOwner[t] = NoThread
      BY <1>0, <1>3, UnlockSlowPathCases DEF Runs, CallsAreQueued
    <3> QED
      BY <1>0, <2>2, <3>1, <3>2, RemoveWaiterByKeyCounts, ZenonT(60)
  <2> QED
    BY <1>3, <2>1, <2>2, UnlockSlowPathCases
<1>4. ASSUME TerminateCancelWait PROVE KernelWaitersAreCounted'
  <2>1. /\ cancel \in Threads /\ state[cancel] = "Waiting" /\ call[cancel].at = "wait"
        /\ lockOwner[cancel] # NoThread /\ addressKey[cancel] = call[cancel].key
    BY <1>0, <1>4 DEF CallInv, TypeOK, TerminateCancelWait, CallsAreQueued
  <2>2. lockOwner[cancel] \in Threads /\ addressKey[cancel] \in Keys
    BY <1>0, <2>1, SMT DEF ThreadTypeOK, WaiterTypeOK, LockTypeOK, NoCall
  <2> QED
    BY <1>0, <1>4, <2>1, <2>2, RemoveWaiterCounts DEF TerminateCancelWait
<1>5. ASSUME NEW t \in Threads, \/ \E k \in Keys \cup {NoKey} : Lock(t, k) \/ Unlock(t, k)
                                \/ \E type \in SuspendTypes : RequestSuspend(t, type) \/ Resume(t, type)
                                \/ \E p \in Priorities : SetBasePriority(t, p)
                                \/ RequestTerminate(t)
      PROVE  KernelWaitersAreCounted'
  BY <1>1, <1>5 DEF Lock, Unlock, RequestSuspend, Resume, SetBasePriority, RequestTerminate, threadVars, waiterVars
<1>6. ASSUME NEW t \in Threads, Proceed(t) PROVE KernelWaitersAreCounted'
  <2>1. call[t].key \in Keys \cup {NoKey}
    BY <1>0, SMT DEF LockTypeOK, NoCall
  <2> QED
    BY <1>2, <1>3, <1>5, <1>6, <2>1 DEF Proceed
<1>7. CASE RestorePriority \/ UNCHANGED vars
  BY <1>1, <1>7 DEF RestorePriority, RestorePriorityStep, vars, threadVars, waiterVars
<1> QED
  BY <1>4, <1>5, <1>6, <1>7 DEF Next, KernelStep

\* The number of kernel waiters that TrySuspend and UnlockSlowPath test is right,
\* whoever is suspended or terminated meanwhile.
THEOREM LightLockCounts == SafetySpec => []KernelWaitersAreCounted
<1> DEFINE Inv == CallInv /\ KernelWaitersAreCounted
<1>1. Init => Inv
  <2>1. Init => \A t \in Threads : Waiters(t) = {} /\ numKernelWaiters[t] = 0
    BY DEF Init, ThreadInit, Waiters
  <2> QED
    BY <2>1, CallInvInit, FS_EmptySet DEF KernelWaitersAreCounted
<1>2. Inv /\ [Next]_vars => Inv'
  BY CallInvStep, CountStep
<1>3. Inv => KernelWaitersAreCounted
  OBVIOUS
<1> QED
  BY <1>1, <1>2, <1>3, PTL DEF SafetySpec

----------------------------------------------------------------------------
(* Suspension. *)

\* No flag is in m_thread_state that GetSuspendFlags does not return.
SuspendedIsRequested == \A t \in Threads : suspended[t] \subseteq SuspendFlags(t)

SuspendInv == CallInv /\ KernelWaitersAreCounted /\ SuspendedIsRequested

\* A thread has kernel waiters if their number is positive, and none if it is 0.
LEMMA CountedWaiters ==
  ASSUME KernelWaitersAreCounted, NEW t \in Threads
  PROVE  numKernelWaiters[t] \in Nat /\ (numKernelWaiters[t] = 0 <=> Waiters(t) = {})
<1>1. Waiters(t) \in SUBSET Threads
  BY DEF Waiters
<1>2. IsFiniteSet(Waiters(t)) /\ Cardinality(Waiters(t)) \in Nat
  BY <1>1, WaitersAreFinite
<1>3. Cardinality(Waiters(t)) = 0 <=> Waiters(t) = {}
  BY <1>2, FS_EmptySet
<1> QED
  BY <1>2, <1>3 DEF KernelWaitersAreCounted

\* What UnlockSlowPath leaves in the suspend flags, by the waiters after it.
LEMMA ResuspendedFlags ==
  ASSUME KernelWaitersAreCounted', NEW t \in Threads, NEW next \in Threads \cup {NoThread},
         suspended' = Resuspended(t, next, numKernelWaiters'), SuspendedIsRequested,
         NEW u \in Threads
  PROVE  /\ u \notin {t, next} => suspended'[u] = suspended[u]
         /\ u = next => suspended'[u] = IF Waiters(u)' # {} THEN {}
                                       ELSE IF u = t THEN SuspendFlags(u) ELSE suspended[u]
         /\ u = t /\ u # next => suspended'[u] = IF Waiters(u)' = {} THEN SuspendFlags(u) ELSE suspended[u]
<1>1. numKernelWaiters'[u] \in Nat /\ (numKernelWaiters'[u] = 0 <=> Waiters(u)' = {})
  <2>1. Waiters(u)' \in SUBSET Threads
    BY DEF Waiters
  <2>2. IsFiniteSet(Waiters(u)') /\ Cardinality(Waiters(u)') \in Nat
    BY <2>1, WaitersAreFinite
  <2>3. Cardinality(Waiters(u)') = 0 <=> Waiters(u)' = {}
    BY <2>2, FS_EmptySet
  <2> QED
    BY <2>2, <2>3 DEF KernelWaitersAreCounted
<1>2. suspended[u] \subseteq SuspendFlags(u)
  BY DEF SuspendedIsRequested
<1>3. suspended'[u] = IF u = next /\ SuspendFlags(u) # {} /\ numKernelWaiters'[u] > 0 THEN {}
                      ELSE IF u = t /\ SuspendFlags(t) # {} /\ numKernelWaiters'[t] = 0 THEN SuspendFlags(t)
                      ELSE suspended[u]
  BY DEF Resuspended
<1>4. numKernelWaiters'[u] > 0 <=> Waiters(u)' # {}
  BY <1>1, SMT
<1> QED
  BY <1>1, <1>2, <1>3, <1>4

\* A thread is suspended by a request only, and resumed with it.
LEMMA SuspendedIsRequestedStep == SuspendInv /\ [Next]_vars => SuspendedIsRequested'
<1> SUFFICES ASSUME SuspendInv, [Next]_vars, NEW u \in Threads PROVE suspended'[u] \subseteq SuspendFlags(u)'
  BY DEF SuspendedIsRequested
<1>0. SuspendTypeOK /\ suspended[u] \subseteq SuspendFlags(u)
  BY DEF SuspendInv, CallInv, TypeOK, SuspendedIsRequested
<1>1. ASSUME UNCHANGED suspendVars PROVE suspended'[u] \subseteq SuspendFlags(u)'
  BY <1>0, <1>1 DEF suspendVars, SuspendFlags
<1>2. ASSUME NEW t \in Threads, LockSlowPath(t) PROVE suspended'[u] \subseteq SuspendFlags(u)'
  <2>1. UNCHANGED <<requested, allowed>> /\ suspended' \in {suspended, ContinueOwner(call[t].owner)}
    BY <1>2, LockSlowPathCases DEF SuspendInv
  <2> QED
    BY <1>0, <2>1 DEF ContinueOwner, SuspendFlags, SuspendTypeOK
<1>3. ASSUME NEW t \in Threads, UnlockSlowPath(t) PROVE suspended'[u] \subseteq SuspendFlags(u)'
  <2>1. UNCHANGED <<requested, allowed>> /\ \E next, w : suspended' = Resuspended(t, next, w)
    BY <1>3, UnlockSlowPathCases
  <2> QED
    BY <1>0, <2>1 DEF Resuspended, SuspendFlags
<1>4. ASSUME NEW t \in Threads, NEW type \in SuspendTypes, RequestSuspend(t, type) \/ Resume(t, type)
      PROVE  suspended'[u] \subseteq SuspendFlags(u)'
  BY <1>0, <1>4 DEF RequestSuspend, Resume, SuspendFlags, SuspendTypeOK
<1>5. ASSUME NEW t \in Threads, RequestTerminate(t) PROVE suspended'[u] \subseteq SuspendFlags(u)'
  BY <1>0, <1>5 DEF RequestTerminate, SuspendFlags, SuspendTypeOK
<1>6. ASSUME NEW t \in Threads, \/ \E k \in Keys \cup {NoKey} : Lock(t, k) \/ Unlock(t, k)
                                \/ \E p \in Priorities : SetBasePriority(t, p)
      PROVE  suspended'[u] \subseteq SuspendFlags(u)'
  BY <1>1, <1>6 DEF Lock, Unlock, SetBasePriority
<1>7. ASSUME NEW t \in Threads, Proceed(t) PROVE suspended'[u] \subseteq SuspendFlags(u)'
  <2>1. call[t].key \in Keys \cup {NoKey}
    BY SMT DEF SuspendInv, CallInv, TypeOK, LockTypeOK, NoCall
  <2> QED
    BY <1>2, <1>3, <1>6, <1>7, <2>1 DEF Proceed
<1>8. CASE KernelStep \/ UNCHANGED vars
  BY <1>1, <1>8 DEF KernelStep, RestorePriority, TerminateCancelWait, vars
<1> QED
  BY <1>4, <1>5, <1>6, <1>7, <1>8 DEF Next

\* At first no thread is suspended.
LEMMA SuspendInvInit == Init => SuspendInv
<1>1. Init => \A t \in Threads : Waiters(t) = {} /\ numKernelWaiters[t] = 0
  BY DEF Init, ThreadInit, Waiters
<1>2. Init => SuspendedIsRequested
  BY DEF Init, SuspendedIsRequested
<1> QED
  BY <1>1, <1>2, CallInvInit, FS_EmptySet DEF KernelWaitersAreCounted, SuspendInv

\* The counts and the requests together are inductive.
LEMMA SuspendInvStep == SuspendInv /\ [Next]_vars => SuspendInv'
BY CallInvStep, CountStep, SuspendedIsRequestedStep DEF SuspendInv

\* AddWaiter, Resume and TrySuspend suspend no thread that has waiters.
LEMMA NotSuspendedStep ==
  ASSUME \A a, b \in SuspendTypes : a = b, SuspendInv, KernelWaitersAreNotSuspended, [Next]_vars
  PROVE  KernelWaitersAreNotSuspended'
<1> SUFFICES ASSUME NEW u \in Threads, Waiters(u)' # {} PROVE suspended'[u] = {}
  BY DEF KernelWaitersAreNotSuspended
<1>0. /\ ThreadTypeOK /\ LockTypeOK /\ SuspendTypeOK /\ CallsAreQueued /\ CallInv
      /\ KernelWaitersAreCounted /\ SuspendedIsRequested /\ KernelWaitersAreCounted'
      /\ Waiters(u) # {} => suspended[u] = {}
      /\ suspended[u] \subseteq SuspendFlags(u)
  BY CountStep DEF SuspendInv, CallInv, TypeOK, KernelWaitersAreNotSuspended, SuspendedIsRequested
<1>1. ASSUME Waiters(u)' \subseteq Waiters(u), UNCHANGED suspended PROVE suspended'[u] = {}
  BY <1>0, <1>1
<1>2. ASSUME NEW t \in Threads, LockSlowPath(t) PROVE suspended'[u] = {}
  <2>1. CASE UNCHANGED <<threadVars, suspended>>
    BY <1>1, <2>1 DEF threadVars, waiterVars, Waiters
  <2>2. CASE AddWaiter(call[t].owner, t, call[t].key) /\ suspended' = ContinueOwner(call[t].owner)
    <3>0. lockOwner[t] = NoThread
      BY <1>0, <1>2, LockSlowPathCases, ZenonT(60)
    <3>1. u # call[t].owner => Waiters(u)' = Waiters(u)
      BY <1>0, <2>2, <3>0, SMT DEF AddWaiter, Waiters, ThreadTypeOK, WaiterTypeOK
    <3> QED
      BY <1>0, <2>2, <3>1 DEF ContinueOwner, SuspendTypeOK
  <2> QED
    BY <1>0, <1>2, <2>1, <2>2, LockSlowPathCases
<1>3. ASSUME NEW t \in Threads, UnlockSlowPath(t) PROVE suspended'[u] = {}
  <2>1. CASE UNCHANGED threadVars /\ suspended' = Resuspended(t, NoThread, numKernelWaiters)
    <3>1. suspended' = Resuspended(t, NoThread, numKernelWaiters') /\ Waiters(u)' = Waiters(u)
      BY <2>1 DEF threadVars, waiterVars, Waiters
    <3>2. suspended'[u] = suspended[u]
      BY <1>0, <3>1, ResuspendedFlags
    <3> QED
      BY <1>0, <3>1, <3>2
  <2>2. ASSUME NEW next \in HeldLock(t, call[t].key), next \in Threads, RemoveWaiterByKey(t, call[t].key, next),
               suspended' = Resuspended(t, next, numKernelWaiters')
        PROVE  suspended'[u] = {}
    <3>1. u = next => suspended'[u] = {}
      BY <1>0, <2>2, ResuspendedFlags
    <3>2. u # next => suspended'[u] = suspended[u]
      BY <1>0, <2>2, ResuspendedFlags
    <3>3. u # next => Waiters(u)' \subseteq Waiters(u)
      BY <2>2 DEF RemoveWaiterByKey, HeldLock, Waiters
    <3> QED
      BY <1>0, <3>1, <3>2, <3>3
  <2> QED
    BY <1>3, <2>1, <2>2, UnlockSlowPathCases
<1>4. ASSUME NEW t \in Threads, NEW type \in SuspendTypes, RequestSuspend(t, type) PROVE suspended'[u] = {}
  <2>1. Waiters(u)' = Waiters(u)
    BY <1>4 DEF RequestSuspend, threadVars, waiterVars, Waiters
  <2>2. numKernelWaiters[u] > 0
    BY <1>0, <2>1, CountedWaiters, SMT
  <2> QED
    BY <1>0, <1>4, <2>1, <2>2 DEF RequestSuspend, SuspendTypeOK
<1>5. ASSUME NEW t \in Threads, NEW type \in SuspendTypes, Resume(t, type) PROVE suspended'[u] = {}
  <2>1. Waiters(u)' = Waiters(u)
    BY <1>5 DEF Resume, threadVars, waiterVars, Waiters
  <2>2. requested'[t] = {}
    BY <1>0, <1>5 DEF Resume, SuspendTypeOK
  <2> QED
    BY <1>0, <1>5, <2>1, <2>2 DEF Resume, SuspendTypeOK
<1>6. ASSUME NEW t \in Threads, RequestTerminate(t) PROVE suspended'[u] = {}
  BY <1>0, <1>6 DEF RequestTerminate, waiterVars, Waiters, SuspendTypeOK
<1>7. ASSUME TerminateCancelWait PROVE suspended'[u] = {}
  <2>1. Waiters(u)' \subseteq Waiters(u)
    BY <1>0, <1>7, SMT DEF TerminateCancelWait, RemoveWaiter, Waiters, ThreadTypeOK, WaiterTypeOK
  <2> QED
    BY <1>1, <1>7, <2>1, ZenonT(60) DEF TerminateCancelWait, suspendVars
<1>8. ASSUME NEW t \in Threads, \/ \E k \in Keys \cup {NoKey} : Lock(t, k) \/ Unlock(t, k)
                                \/ \E p \in Priorities : SetBasePriority(t, p)
      PROVE  suspended'[u] = {}
  BY <1>1, <1>8 DEF Lock, Unlock, SetBasePriority, threadVars, waiterVars, suspendVars, Waiters
<1>9. ASSUME NEW t \in Threads, Proceed(t) PROVE suspended'[u] = {}
  <2>1. call[t].key \in Keys \cup {NoKey}
    BY <1>0, SMT DEF LockTypeOK, NoCall
  <2> QED
    BY <1>2, <1>3, <1>8, <1>9, <2>1 DEF Proceed
<1>10. CASE RestorePriority \/ UNCHANGED vars
  BY <1>1, <1>10 DEF RestorePriority, RestorePriorityStep, vars, threadVars, waiterVars, suspendVars, Waiters
<1> QED
  BY <1>4, <1>5, <1>6, <1>7, <1>8, <1>9, <1>10 DEF Next, KernelStep

\* With one kind of suspension request, a thread others wait for in the kernel is
\* never suspended.  (With two kinds it can be: Resume of the one applies the
\* other without the test that TrySuspend makes.)
THEOREM LightLockSuspension ==
  ASSUME \A a, b \in SuspendTypes : a = b
  PROVE  SafetySpec => []KernelWaitersAreNotSuspended
<1> DEFINE Inv == SuspendInv /\ KernelWaitersAreNotSuspended
<1>1. Init => Inv
  BY SuspendInvInit DEF Init, KernelWaitersAreNotSuspended
<1>2. Inv /\ [Next]_vars => Inv'
  BY SuspendInvStep, NotSuspendedStep
<1>3. Inv => KernelWaitersAreNotSuspended
  BY SMTT(30)
<1> QED
  BY <1>1, <1>2, <1>3, PTL DEF SafetySpec

\* A request that has to wait is applied when the last waiter is gone.
LEMMA SuspendIsNotLostStep ==
  ASSUME MayTerminate = {}, MutexInv, SuspendInv, SuspendIsNotLost, [Next]_vars
  PROVE  SuspendIsNotLost'
<1> DEFINE Kept(u) == Waiters(u) # {} \/ \E k \in holds[u] : tag[k].wait
<1> SUFFICES ASSUME NEW u \in Threads, suspended'[u] # SuspendFlags(u)', Waiters(u)' = {}
             PROVE  \E k \in holds'[u] : tag'[k].wait
  BY DEF SuspendIsNotLost
<1>0. /\ ThreadTypeOK /\ LockTypeOK /\ SuspendTypeOK /\ CallsAreQueued /\ CallInv
      /\ NoTermination /\ MutualExclusion /\ CallsAreRight /\ TagsAreRight
      /\ KernelWaitersAreCounted /\ SuspendedIsRequested /\ KernelWaitersAreCounted'
      /\ suspended[u] # SuspendFlags(u) => Kept(u)
  BY CountStep DEF SuspendInv, MutexInv, CallInv, TypeOK, SuspendIsNotLost
<1>1. ASSUME UNCHANGED <<suspended, requested, allowed, lockOwner>>,
             \A k \in holds[u] : tag[k].wait => k \in holds'[u] /\ tag'[k].wait
      PROVE  \E k \in holds'[u] : tag'[k].wait
  <2>1. suspended[u] # SuspendFlags(u) /\ Waiters(u) = {}
    BY <1>1 DEF SuspendFlags, Waiters
  <2> QED
    BY <1>0, <1>1, <2>1
<1>2. ASSUME NEW t \in Threads, NEW k \in Keys, Lock(t, k) PROVE \E j \in holds'[u] : tag'[j].wait
  <2>1. UNCHANGED <<threadVars, suspendVars>>
    BY <1>2 DEF Lock
  <2>2. \A j \in holds[u] : tag[j].wait => j \in holds'[u] /\ tag'[j].wait
    <3>1. \A j \in holds[u] : j \in holds'[u]
      <4>1. UNCHANGED holds \/ holds' = [holds EXCEPT ![t] = @ \cup {k}]
        BY <1>2 DEF Lock
      <4> QED
        BY <1>0, <4>1, SMT DEF LockTypeOK
    <3>2. CASE IsFree(k)
      <4>1. tag[k] = Free /\ tag' = [tag EXCEPT ![k] = [owner |-> t, wait |-> FALSE]]
        BY <1>2, <3>2 DEF Lock, IsFree
      <4>2. tag[k].wait = FALSE
        BY <4>1, SMT DEF Free
      <4> QED
        BY <1>0, <3>1, <4>1, <4>2 DEF LockTypeOK
    <3>3. CASE ~IsFree(k)
      <4>1. tag' = [tag EXCEPT ![k] = [owner |-> tag[k].owner, wait |-> TRUE]]
        BY <1>2, <3>3 DEF Lock
      <4> QED
        BY <1>0, <3>1, <4>1 DEF LockTypeOK
    <3> QED
      BY <3>2, <3>3
  <2> QED
    BY <1>1, <2>1, <2>2 DEF threadVars, waiterVars, suspendVars
<1>3. ASSUME NEW t \in Threads, LockSlowPath(t) PROVE \E k \in holds'[u] : tag'[k].wait
  <2>1. UNCHANGED <<tag, holds, requested, allowed>>
    BY <1>0, <1>3, LockSlowPathCases
  <2>2. CASE UNCHANGED <<threadVars, suspended>>
    BY <1>1, <2>1, <2>2 DEF threadVars, waiterVars
  <2>3. CASE AddWaiter(call[t].owner, t, call[t].key) /\ suspended' = ContinueOwner(call[t].owner)
    <3>1. lockOwner[t] = NoThread /\ call[t].owner \in Threads
      BY <1>0, <1>3, LockSlowPathCases
    <3>2. u # call[t].owner /\ Waiters(u) = {}
      <4>1. lockOwner'[t] = call[t].owner /\ \A w \in Threads \ {t} : lockOwner'[w] = lockOwner[w]
        BY <1>0, <2>3 DEF AddWaiter, ThreadTypeOK, WaiterTypeOK
      <4> QED
        BY <3>1, <4>1 DEF Waiters
    <3>3. suspended'[u] = suspended[u] /\ SuspendFlags(u)' = SuspendFlags(u)
      BY <1>0, <2>1, <2>3, <3>2 DEF ContinueOwner, SuspendTypeOK, SuspendFlags
    <3> QED
      BY <1>0, <2>1, <3>2, <3>3
  <2> QED
    BY <1>0, <1>3, <2>2, <2>3, LockSlowPathCases
<1>4. ASSUME NEW t \in Threads, NEW k \in Keys, Unlock(t, k) PROVE \E j \in holds'[u] : tag'[j].wait
  <2>1. UNCHANGED <<threadVars, suspendVars>>
    BY <1>4 DEF Unlock
  <2>2. \A j \in holds[u] : tag[j].wait => j \in holds'[u] /\ tag'[j].wait
    <3>1. CASE IsUncontended(t, k)
      <4>1. /\ tag[k] = [owner |-> t, wait |-> FALSE] /\ tag' = [tag EXCEPT ![k] = Free]
            /\ holds' = [holds EXCEPT ![t] = @ \ {k}]
        BY <1>4, <3>1 DEF Unlock, IsUncontended
      <4>2. tag[k].wait = FALSE
        BY <4>1, SMT
      <4> QED
        BY <1>0, <4>1, <4>2 DEF LockTypeOK
    <3>2. CASE ~IsUncontended(t, k)
      BY <1>4, <3>2 DEF Unlock
    <3> QED
      BY <3>1, <3>2
  <2> QED
    BY <1>1, <2>1, <2>2 DEF threadVars, waiterVars, suspendVars
<1>5. ASSUME NEW t \in Threads, UnlockSlowPath(t) PROVE \E k \in holds'[u] : tag'[k].wait
  <2> DEFINE k == call[t].key
  <2>1. /\ k \in Keys /\ lockOwner[t] = NoThread
        /\ \A w \in Threads : k \in holds[w] <=> w = t
    BY <1>5, UnlockFacts
  <2>2. SuspendFlags(u)' = SuspendFlags(u)
    BY <1>5, UnlockSlowPathCases DEF SuspendFlags
  <2>3. CASE /\ UNCHANGED threadVars /\ tag' = [tag EXCEPT ![k] = Free]
             /\ holds' = [holds EXCEPT ![t] = @ \ {k}]
             /\ suspended' = Resuspended(t, NoThread, numKernelWaiters)
    <3>1. suspended' = Resuspended(t, NoThread, numKernelWaiters') /\ Waiters(u) = {}
      BY <2>3 DEF threadVars, waiterVars, Waiters
    <3>2. u # t /\ suspended'[u] = suspended[u]
      BY <1>0, <2>2, <3>1, ResuspendedFlags
    <3>3. PICK j \in holds[u] : tag[j].wait
      BY <1>0, <2>2, <3>1, <3>2
    <3>4. j # k
      BY <2>1, <3>2
    <3>5. j \in holds'[u] /\ tag'[j] = tag[j]
      BY <1>0, <2>3, <3>2, <3>4 DEF LockTypeOK
    <3> QED
      BY <3>3, <3>5
  <2>4. ASSUME NEW next \in HeldLock(t, k), next \in Threads, RemoveWaiterByKey(t, k, next),
               tag' = [tag EXCEPT ![k] = [owner |-> next, wait |-> HeldLock(t, k) # {next}]],
               holds' = [holds EXCEPT ![t] = @ \ {k}, ![next] = @ \cup {k}],
               suspended' = Resuspended(t, next, numKernelWaiters')
        PROVE  \E j \in holds'[u] : tag'[j].wait
    <3>1. next # t
      BY <2>1, <2>4 DEF HeldLock
    <3>2. u # t /\ suspended'[u] = suspended[u]
      BY <1>0, <2>2, <2>4, <3>1, ResuspendedFlags
    <3>3. Waiters(u) = {}
      <4>1. \A w \in Threads : lockOwner[w] = u => lockOwner'[w] = u
        BY <2>4, <3>2 DEF RemoveWaiterByKey, HeldLock
      <4> QED
        BY <4>1 DEF Waiters
    <3>4. PICK j \in holds[u] : tag[j].wait
      BY <1>0, <2>2, <3>2, <3>3
    <3>5. j # k
      BY <2>1, <3>2
    <3>6. j \in holds'[u] /\ tag'[j] = tag[j]
      BY <1>0, <2>4, <3>2, <3>5 DEF LockTypeOK
    <3> QED
      BY <3>4, <3>6
  <2> QED
    BY <1>5, <2>3, <2>4, UnlockSlowPathCases
<1>6. ASSUME NEW t \in Threads, NEW type \in SuspendTypes, RequestSuspend(t, type) \/ Resume(t, type)
      PROVE  \E k \in holds'[u] : tag'[k].wait
  <2>1. UNCHANGED <<threadVars, lockVars, allowed>>
    BY <1>6 DEF RequestSuspend, Resume
  <2>2. Waiters(u) = {} /\ numKernelWaiters[u] = 0
    BY <1>0, <2>1, CountedWaiters DEF threadVars, waiterVars, Waiters
  <2>3. u # t
    <3>1. CASE RequestSuspend(t, type)
      <4>1. ASSUME u = t PROVE suspended' = [suspended EXCEPT ![t] = SuspendFlags(t)']
        BY <2>1, <2>2, <3>1, <4>1, SMT DEF RequestSuspend, SuspendFlags
      <4> QED
        BY <1>0, <4>1 DEF SuspendTypeOK
    <3>2. CASE Resume(t, type)
      BY <1>0, <2>1, <3>2 DEF Resume, SuspendTypeOK, SuspendFlags
    <3> QED
      BY <1>6, <3>1, <3>2
  <2>4. suspended[u] # SuspendFlags(u)
    BY <1>0, <1>6, <2>3 DEF RequestSuspend, Resume, SuspendTypeOK, SuspendFlags
  <2> QED
    BY <1>0, <2>1, <2>2, <2>4 DEF lockVars
<1>7. ASSUME NEW t \in Threads, Proceed(t) PROVE \E k \in holds'[u] : tag'[k].wait
  <2>1. call[t].at = "lock" => call[t].key \in Keys
    BY <1>0, SMT DEF LockTypeOK, NoCall
  <2> QED
    BY <1>2, <1>3, <1>5, <1>7, <2>1 DEF Proceed
<1>8. ASSUME NEW t \in Threads, NEW p \in Priorities, SetBasePriority(t, p) PROVE \E k \in holds'[u] : tag'[k].wait
  BY <1>1, <1>8 DEF SetBasePriority, waiterVars, lockVars, suspendVars
<1>9. ~TerminateCancelWait /\ \A t \in Threads : ~RequestTerminate(t)
  BY <1>0 DEF RequestTerminate, TerminateCancelWait, NoTermination
<1>10. CASE RestorePriority \/ UNCHANGED vars
  BY <1>1, <1>10 DEF RestorePriority, RestorePriorityStep, vars, threadVars, waiterVars, lockVars, suspendVars
<1> QED
  BY <1>2, <1>4, <1>6, <1>7, <1>8, <1>9, <1>10 DEF Next, KernelStep

\* A request to suspend a thread that has no effect yet has it at the latest when
\* the thread unlocks.
THEOREM LightLockSuspendIsNotLost ==
  ASSUME MayTerminate = {}
  PROVE  SafetySpec => []SuspendIsNotLost
<1> DEFINE Inv == MutexInv /\ SuspendInv /\ SuspendIsNotLost
<1>1. Init => Inv
  BY MutexInvInit, SuspendInvInit DEF Init, SuspendIsNotLost, SuspendFlags
<1>2. Inv /\ [Next]_vars => Inv'
  BY MutexInvStep, SuspendInvStep, SuspendIsNotLostStep
<1>3. Inv => SuspendIsNotLost
  OBVIOUS
<1> QED
  BY <1>1, <1>2, <1>3, PTL DEF SafetySpec
=============================================================================
