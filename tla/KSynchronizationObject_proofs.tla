-------------------- MODULE KSynchronizationObject_proofs --------------------
(***************************************************************************)
(* KSynchronizationObject, for any number of threads and objects.  First,   *)
(* the state of a thread, its wait queue, its timer task and the flags of   *)
(* CancelSynchronization agree, in whatever order a wait is signalled,      *)
(* cancelled, timed out or ended by termination.  Then the linked lists:    *)
(* they hold the nodes of the waits and no others, and the walk of          *)
(* NotifyAvailable reaches every one of them although nodes leave the list  *)
(* under it.                                                                *)
(***************************************************************************)
EXTENDS KSynchronizationObject, TLAPS, WellFoundedInduction

\* Zenon is the prover of every leaf that names no other.
USE Zenon

USE SyncAssumption

----------------------------------------------------------------------------
(* The bookkeeping of waits. *)

\* A thread waits while it is on a wait queue, and has a timer task only then.
WaitsAreQueued ==
  /\ \A t \in Threads : state[t] = "Waiting" <=> queue[t] # "none"
  /\ \A t \in timer : state[t] = "Waiting"

WaitTypeOK ==
  /\ state \in [Threads -> {"Runnable", "Waiting", "Terminated"}]
  /\ queue \in [Threads -> {"none", "sync", "sleep"}]
  /\ timer \subseteq Threads /\ waitCancelled \subseteq Threads

WaitInv == WaitTypeOK /\ WaitsAreQueued /\ CancelIsForSyncWaits

\* The end of a wait, whatever ended it, and also for a thread that is none.
LEMMA EndWaitInv ==
  ASSUME WaitInv, NEW t, NEW res, NEW index, EndWait(t, res, index), waitCancelled' \subseteq waitCancelled
  PROVE  WaitInv'
<1>1. /\ state' = [state EXCEPT ![t] = "Runnable"] /\ queue' = [queue EXCEPT ![t] = "none"]
      /\ cancellable' = cancellable \ {t} /\ timer' = timer \ {t}
  BY DEF EndWait
<1>2. WaitTypeOK'
  BY <1>1 DEF WaitInv, WaitTypeOK
<1>3. WaitsAreQueued'
  BY <1>1 DEF WaitInv, WaitTypeOK, WaitsAreQueued
<1>4. CancelIsForSyncWaits'
  BY <1>1 DEF WaitInv, WaitTypeOK, CancelIsForSyncWaits
<1> QED
  BY <1>2, <1>3, <1>4 DEF WaitInv

LEMMA WaitInvInit == Init => WaitInv
BY SMT DEF Init, WaitInv, WaitTypeOK, WaitsAreQueued, CancelIsForSyncWaits

LEMMA WaitInvStep == WaitInv /\ [Next]_vars => WaitInv'
<1> SUFFICES ASSUME WaitInv, [Next]_vars PROVE WaitInv'
  OBVIOUS
<1> USE DEF WaitInv, WaitTypeOK, WaitsAreQueued, CancelIsForSyncWaits
<1>1. ASSUME UNCHANGED <<state, queue, cancellable, timer>>, waitCancelled' \subseteq waitCancelled PROVE WaitInv'
  BY <1>1
<1>2. ASSUME NEW t \in Threads, NEW objs \in Lists, NEW timeout \in Timeouts, Wait(t, objs, timeout) PROVE WaitInv'
  <2>1. CASE UNCHANGED <<state, queue, cancellable, timer>> /\ waitCancelled' \in {waitCancelled, waitCancelled \ {t}}
    BY <1>1, <2>1
  <2>2. CASE /\ t \notin waitCancelled /\ UNCHANGED waitCancelled
             /\ state' = [state EXCEPT ![t] = "Waiting"] /\ queue' = [queue EXCEPT ![t] = "sync"]
             /\ cancellable' = cancellable \cup {t} /\ timer' \in {timer, timer \cup {t}}
    <3>1. WaitTypeOK'
      BY <2>2
    <3>2. WaitsAreQueued'
      BY <2>2, SMT
    <3>3. CancelIsForSyncWaits'
      BY <2>2, SMT
    <3> QED
      BY <3>1, <3>2, <3>3
  <2> QED
    BY <1>2, <2>1, <2>2 DEF Wait, ReturnFromWait
<1>3. ASSUME NEW t \in Threads, Sleep(t) PROVE WaitInv'
  <2>1. /\ state[t] = "Runnable" /\ UNCHANGED <<cancellable, waitCancelled>>
        /\ state' = [state EXCEPT ![t] = "Waiting"] /\ queue' = [queue EXCEPT ![t] = "sleep"]
        /\ timer' = timer \cup {t}
    BY <1>3 DEF Sleep
  <2>2. WaitTypeOK' /\ WaitsAreQueued'
    BY <2>1, SMT
  <2>3. CancelIsForSyncWaits'
    BY <2>1
  <2> QED
    BY <2>2, <2>3
<1>4. ASSUME NotifyAvailable PROVE WaitInv'
  <2>1. CASE UNCHANGED waitVars
    BY <1>1, <1>4, <2>1 DEF NotifyAvailable, waitVars
  <2>2. CASE EndWait(notify.node[1], "success", SyncIndex(objects[notify.node[1]], notify.object))
    BY <1>4, <2>2, EndWaitInv DEF NotifyAvailable
  <2> QED
    BY <1>4, <2>1, <2>2 DEF NotifyAvailable
<1>5. ASSUME NEW t \in Threads, WaitCancel(t) PROVE WaitInv'
  <2>1. CASE state[t] = "Waiting" /\ t \in cancellable
    <3>1. EndWait(t, "cancelled", synced[t]) /\ waitCancelled' \subseteq waitCancelled
      BY <1>5, <2>1 DEF WaitCancel, CancelWait
    <3> QED
      BY <3>1, EndWaitInv
  <2>2. CASE ~(state[t] = "Waiting" /\ t \in cancellable)
    <3>1. waitCancelled' = waitCancelled \cup {t} /\ UNCHANGED <<state, queue, cancellable, timer>>
      BY <1>5, <2>2 DEF WaitCancel, waitVars
    <3>2. queue[t] # "sync"
      BY <2>2
    <3> QED
      BY <3>1, <3>2
  <2> QED
    BY <2>1, <2>2
<1>6. ASSUME NEW t \in Threads, OnTimer(t) PROVE WaitInv'
  <2>1. state[t] = "Waiting"
    BY <1>6 DEF OnTimer
  <2>2. EndWait(t, "timeout", synced[t]) /\ UNCHANGED waitCancelled
    BY <1>6, <2>1 DEF OnTimer, CancelWait
  <2> QED
    BY <2>2, EndWaitInv
<1>7. ASSUME NEW t \in Threads, RequestTerminate(t) PROVE WaitInv'
  <2>1. CASE state[t] = "Waiting"
    <3>1. EndWait(t, "terminate", synced[t]) /\ UNCHANGED waitCancelled
      BY <1>7, <2>1 DEF RequestTerminate, CancelWait
    <3> QED
      BY <3>1, EndWaitInv
  <2>2. CASE state[t] # "Waiting"
    BY <1>1, <1>7, <2>2 DEF RequestTerminate, waitVars
  <2> QED
    BY <2>1, <2>2
<1>8. ASSUME NEW t \in Threads, Exit(t) PROVE WaitInv'
  <2>1. /\ state[t] = "Runnable" /\ state' = [state EXCEPT ![t] = "Terminated"]
        /\ UNCHANGED <<queue, cancellable, waitCancelled, timer>>
    BY <1>8 DEF Exit
  <2> QED
    BY <2>1
<1>9. CASE \/ NotifyEnd \/ UNCHANGED vars
           \/ \E e \in Events : Signal(e) \/ Reset(e)
           \/ \E t \in Threads : FinishTermination(t)
  BY <1>1, <1>9 DEF NotifyEnd, Signal, Reset, FinishTermination, vars, waitVars
<1> QED
  BY <1>2, <1>3, <1>4, <1>5, <1>6, <1>7, <1>8, <1>9 DEF Next, KernelStep

\* CancelSynchronization ends waits for objects only, and a cancellation that
\* found none is kept until the next such wait.
THEOREM SyncCancellation == SafetySpec => []CancelIsForSyncWaits
<1>1. Init => WaitInv
  BY WaitInvInit
<1>2. WaitInv /\ [Next]_vars => WaitInv'
  BY WaitInvStep
<1>3. WaitInv => CancelIsForSyncWaits
  BY DEF WaitInv
<1> QED
  BY <1>1, <1>2, <1>3, PTL DEF SafetySpec

\* A thread waits while it is on a wait queue, and no timer task outlives the
\* wait it was armed for.
THEOREM SyncWaitsAreQueued == SafetySpec => []WaitsAreQueued
<1>1. Init => WaitInv
  BY WaitInvInit
<1>2. WaitInv /\ [Next]_vars => WaitInv'
  BY WaitInvStep
<1>3. WaitInv => WaitsAreQueued
  BY DEF WaitInv
<1> QED
  BY <1>1, <1>2, <1>3, PTL DEF SafetySpec

----------------------------------------------------------------------------
(* The lists. *)

\* A set of natural numbers has a least element.
LEMMA LeastNatural ==
  ASSUME NEW S, S \subseteq Nat, S # {}
  PROVE  \E m \in S : \A k \in S : m <= k
<1>1. PICK m \in S : \A k \in S : ~(<<k, m>> \in OpToRel(<, Nat))
  BY WFMin, NatLessThanWellFounded
<1>2. \A k \in S : ~(k < m)
  BY <1>1 DEF OpToRel
<1> QED
  BY <1>2, SMT

AllPointers == [head : [Objects -> Nodes \cup {Null}], tail : [Objects -> Nodes \cup {Null}],
                next : [Nodes -> Nodes \cup {Null}]]

\* The list of o holds the nodes of V, in the order of their ranks r.  Nodes that
\* leave a list keep their ranks, so that the order of the others is untouched.
IsList(l, o, V, r) ==
  /\ V \subseteq Nodes
  /\ \A m, n \in V : r[m] = r[n] => m = n
  /\ V = {} => l.head[o] = Null /\ l.tail[o] = Null
  /\ V # {} => /\ l.head[o] \in V /\ \A n \in V : r[l.head[o]] <= r[n]
               /\ l.tail[o] \in V /\ \A n \in V : r[n] <= r[l.tail[o]]
  /\ \A n \in V : \/ n = l.tail[o] /\ l.next[n] = Null
                  \/ /\ n # l.tail[o] /\ l.next[n] \in V /\ r[n] < r[l.next[n]]
                     /\ \A m \in V : r[m] <= r[n] \/ r[l.next[n]] <= r[m]

Ranks == [Nodes -> Nat]

\* Null is no node.
LEMMA NullIsNoNode == Null \notin Nodes
BY DEF Nodes

\* Every node but the first has a predecessor: the last of those before it.
LEMMA Predecessor ==
  ASSUME NEW l \in AllPointers, NEW o \in Objects, NEW V, NEW r \in Ranks, IsList(l, o, V, r),
         NEW n \in V, n # l.head[o]
  PROVE  \E p \in V : l.next[p] = n /\ r[p] < r[n]
<1>0. V \subseteq Nodes /\ \A m \in V : r[m] \in Nat
  BY DEF IsList, Ranks
<1>1. l.head[o] \in V /\ r[l.head[o]] < r[n]
  BY <1>0, SMT DEF IsList
<1> DEFINE D == {d \in Nat : \E p \in V : r[p] < r[n] /\ d = r[n] - r[p]}
<1>2. D \subseteq Nat /\ D # {}
  BY <1>0, <1>1, SMT
<1>3. PICK d \in D : \A e \in D : d <= e
  BY <1>2, LeastNatural
<1>4. PICK p \in V : r[p] < r[n] /\ d = r[n] - r[p]
  BY <1>3
<1>5. \A m \in V : r[m] < r[n] => r[m] <= r[p]
  <2> SUFFICES ASSUME NEW m \in V, r[m] < r[n] PROVE r[m] <= r[p]
    OBVIOUS
  <2>1. r[n] - r[m] \in D
    BY <1>0, SMT
  <2>2. d <= r[n] - r[m]
    BY <1>3, <2>1
  <2> QED
    BY <1>0, <1>4, <2>2, SMT
<1>6. p # l.tail[o]
  BY <1>0, <1>4, SMT DEF IsList
<1>7. /\ l.next[p] \in V /\ r[p] < r[l.next[p]]
      /\ r[n] <= r[p] \/ r[l.next[p]] <= r[n]
  BY <1>6 DEF IsList
<1>8. r[l.next[p]] = r[n]
  BY <1>0, <1>4, <1>5, <1>7, SMT
<1> QED
  BY <1>4, <1>7, <1>8 DEF IsList

\* A walk from the head comes by the nodes of the list, and by no others.
LEMMA InListIs ==
  ASSUME NEW l \in AllPointers, NEW o \in Objects, NEW V, NEW r \in Ranks, IsList(l, o, V, r)
  PROVE  InList(l, o) = V
<1>0. V \subseteq Nodes /\ \A m \in V : r[m] \in Nat
  BY DEF IsList, Ranks
<1>1. InList(l, o) \subseteq V
  <2>1. V \in SUBSET Nodes /\ l.head[o] \in V \cup {Null} /\ \A m \in V : l.next[m] \in V \cup {Null}
    BY <1>0 DEF IsList
  <2> QED
    BY <2>1 DEF InList
<1>2. ASSUME NEW S \in SUBSET Nodes, l.head[o] \in S \cup {Null}, \A m \in S : l.next[m] \in S \cup {Null},
             NEW x \in V, x \notin S
      PROVE  FALSE
  <2> DEFINE D == {d \in Nat : \E m \in V \ S : d = r[m]}
  <2>1. D \subseteq Nat /\ D # {}
    BY <1>0, <1>2
  <2>2. PICK d \in D : \A e \in D : d <= e
    BY <2>1, LeastNatural
  <2>3. PICK n \in V \ S : d = r[n]
    BY <2>2
  <2>4. l.head[o] # Null
    BY <2>3, NullIsNoNode, <1>0 DEF IsList
  <2>5. n # l.head[o]
    BY <1>2, <2>3, <2>4
  <2>6. PICK p \in V : l.next[p] = n /\ r[p] < r[n]
    BY <2>3, <2>5, Predecessor, SMT
  <2>7. p \in S
    <3> SUFFICES ASSUME p \notin S PROVE FALSE
      OBVIOUS
    <3>1. r[p] \in D
      BY <1>0
    <3> QED
      BY <1>0, <2>2, <2>3, <2>6, <3>1, SMT
  <2> QED
    BY <1>0, <1>2, <2>3, <2>6, <2>7, NullIsNoNode
<1>3. V \subseteq InList(l, o)
  BY <1>0, <1>2 DEF InList
<1> QED
  BY <1>1, <1>3

\* Lists that share no node: UnlinkNode changes next in the list it is called for only.
LEMMA SameList ==
  ASSUME NEW l, NEW u, NEW o \in Objects, NEW V, NEW r, IsList(l, o, V, r),
         u.head[o] = l.head[o], u.tail[o] = l.tail[o], \A n \in V : u.next[n] = l.next[n]
  PROVE  IsList(u, o, V, r)
BY DEF IsList

\* UnlinkNode, by the fields of its result.
LEMMA UnlinkFields ==
  ASSUME NEW l \in AllPointers, NEW o \in Objects, NEW V, NEW r \in Ranks, IsList(l, o, V, r),
         NEW n \in V, NEW u, u = UnlinkNode(l, o, n)
  PROVE  /\ u \in AllPointers
         /\ u.head[o] = IF l.head[o] = n THEN l.next[n] ELSE l.head[o]
         /\ l.tail[o] # n => u.tail[o] = l.tail[o]
         /\ l.tail[o] = n /\ l.head[o] = n => u.tail[o] = Null
         /\ l.tail[o] = n /\ l.head[o] # n => u.tail[o] \in V /\ l.next[u.tail[o]] = n
         /\ \A m \in Nodes : u.next[m] = IF m \in V /\ l.next[m] = n THEN l.next[n] ELSE l.next[m]
         /\ \A x \in Objects : x # o => u.head[x] = l.head[x] /\ u.tail[x] = l.tail[x]
<1> DEFINE prev == {p \in V : l.next[p] = n}
           newHead == IF l.head[o] = n THEN [l.head EXCEPT ![o] = l.next[n]] ELSE l.head
           newTail == IF l.tail[o] # n THEN l.tail
                      ELSE [l.tail EXCEPT ![o] = IF prev = {} THEN Null ELSE CHOOSE p \in prev : TRUE]
           newNext == [p \in Nodes |-> IF p \in prev THEN l.next[n] ELSE l.next[p]]
<1>0. V \subseteq Nodes /\ n \in Nodes /\ l.next[n] \in Nodes \cup {Null} /\ \A m \in V : r[m] \in Nat
  BY DEF IsList, Ranks, AllPointers
<1>1. u = [head |-> newHead, tail |-> newTail, next |-> newNext]
  BY InListIs DEF UnlinkNode
<1>2. u.head = newHead /\ u.tail = newTail /\ u.next = newNext
  BY <1>1, SMT
<1>3. l.head \in [Objects -> Nodes \cup {Null}] /\ l.tail \in [Objects -> Nodes \cup {Null}]
      /\ l.next \in [Nodes -> Nodes \cup {Null}]
  BY DEF AllPointers
<1>4. l.head[o] # n => prev # {}
  BY Predecessor, SMT
<1>5. l.head[o] = n => prev = {}
  <2> SUFFICES ASSUME l.head[o] = n, NEW p \in V, l.next[p] = n PROVE FALSE
    OBVIOUS
  <2>1. r[n] <= r[p] /\ r[p] < r[n]
    BY <1>0, NullIsNoNode DEF IsList
  <2> QED
    BY <1>0, <2>1, SMT
<1>6. prev # {} => (CHOOSE p \in prev : TRUE) \in prev
  OBVIOUS
<1>7. newHead \in [Objects -> Nodes \cup {Null}] /\ newNext \in [Nodes -> Nodes \cup {Null}]
  BY <1>0, <1>3
<1>8. newTail \in [Objects -> Nodes \cup {Null}]
  BY <1>0, <1>3, <1>6
<1>9. u \in AllPointers
  BY <1>1, <1>7, <1>8, SMT DEF AllPointers
<1>10. newHead[o] = (IF l.head[o] = n THEN l.next[n] ELSE l.head[o]) /\ \A x \in Objects : x # o => newHead[x] = l.head[x]
  BY <1>3
<1>11. /\ l.tail[o] # n => newTail[o] = l.tail[o]
       /\ l.tail[o] = n => newTail[o] = IF prev = {} THEN Null ELSE CHOOSE p \in prev : TRUE
       /\ \A x \in Objects : x # o => newTail[x] = l.tail[x]
  BY <1>3
<1>12. \A m \in Nodes : newNext[m] = IF m \in V /\ l.next[m] = n THEN l.next[n] ELSE l.next[m]
  OBVIOUS
<1>13. l.tail[o] = n /\ l.head[o] # n => newTail[o] \in prev
  BY <1>4, <1>6, <1>11
<1> HIDE DEF newHead, newTail, newNext
<1>14. l.tail[o] = n /\ l.head[o] = n => newTail[o] = Null
  BY <1>5, <1>11
<1> QED
  BY <1>2, <1>9, <1>10, <1>11, <1>12, <1>13, <1>14

\* UnlinkNode takes the node out of its list and keeps the order of the others.
LEMMA UnlinkList ==
  ASSUME NEW l \in AllPointers, NEW o \in Objects, NEW V, NEW r \in Ranks, IsList(l, o, V, r),
         NEW n \in V, NEW u, u = UnlinkNode(l, o, n)
  PROVE  IsList(u, o, V \ {n}, r)
<1>0. V \subseteq Nodes /\ n \in Nodes /\ l.next[n] \in Nodes \cup {Null} /\ (\A m \in V : r[m] \in Nat) /\ Null \notin V
  BY NullIsNoNode DEF IsList, Ranks, AllPointers
<1>1. /\ u.head[o] = IF l.head[o] = n THEN l.next[n] ELSE l.head[o]
      /\ l.tail[o] # n => u.tail[o] = l.tail[o]
      /\ l.tail[o] = n /\ l.head[o] = n => u.tail[o] = Null
      /\ l.tail[o] = n /\ l.head[o] # n => u.tail[o] \in V /\ l.next[u.tail[o]] = n
      /\ \A m \in Nodes : u.next[m] = IF m \in V /\ l.next[m] = n THEN l.next[n] ELSE l.next[m]
  BY UnlinkFields, SMT
<1>2. /\ \A k, m \in V : r[k] = r[m] => k = m
      /\ l.head[o] \in V /\ \A m \in V : r[l.head[o]] <= r[m]
      /\ l.tail[o] \in V /\ \A m \in V : r[m] <= r[l.tail[o]]
      /\ \A m \in V : \/ m = l.tail[o] /\ l.next[m] = Null
                      \/ /\ m # l.tail[o] /\ l.next[m] \in V /\ r[m] < r[l.next[m]]
                         /\ \A k \in V : r[k] <= r[m] \/ r[l.next[m]] <= r[k]
  BY DEF IsList
<1>3. V \ {n} = {} => u.head[o] = Null /\ u.tail[o] = Null
  <2> SUFFICES ASSUME V \ {n} = {} PROVE u.head[o] = Null /\ u.tail[o] = Null
    OBVIOUS
  <2>1. l.head[o] = n /\ l.tail[o] = n
    BY <1>2
  <2> QED
    BY <1>1, <1>2, <2>1
<1>4. ASSUME V \ {n} # {} PROVE u.head[o] \in V \ {n} /\ \A m \in V \ {n} : r[u.head[o]] <= r[m]
  <2>1. CASE l.head[o] = n
    <3>1. l.tail[o] # n
      BY <1>0, <1>2, <1>4, <2>1, SMT
    <3>2. l.next[n] \in V /\ r[n] < r[l.next[n]] /\ \A k \in V : r[k] <= r[n] \/ r[l.next[n]] <= r[k]
      BY <1>2, <3>1
    <3>3. u.head[o] = l.next[n]
      BY <1>1, <2>1
    <3> QED
      BY <1>0, <1>2, <2>1, <3>2, <3>3, SMT
  <2>2. CASE l.head[o] # n
    BY <1>1, <1>2, <2>2
  <2> QED
    BY <2>1, <2>2
<1>5. ASSUME V \ {n} # {} PROVE u.tail[o] \in V \ {n} /\ \A m \in V \ {n} : r[m] <= r[u.tail[o]]
  <2>1. CASE l.tail[o] = n
    <3>1. l.head[o] # n
      BY <1>0, <1>2, <1>5, <2>1, SMT
    <3>2. PICK p \in V : p = u.tail[o] /\ l.next[p] = n
      BY <1>1, <2>1, <3>1
    <3>3. p # l.tail[o] /\ r[p] < r[n] /\ \A k \in V : r[k] <= r[p] \/ r[n] <= r[k]
      BY <1>0, <1>2, <3>2
    <3>4. \A m \in V \ {n} : r[m] <= r[p]
      BY <1>0, <1>2, <2>1, <3>3, SMT
    <3> QED
      BY <2>1, <3>2, <3>3, <3>4
  <2>2. CASE l.tail[o] # n
    BY <1>1, <1>2, <2>2
  <2> QED
    BY <2>1, <2>2
<1>6. ASSUME NEW m \in V \ {n}
      PROVE  \/ m = u.tail[o] /\ u.next[m] = Null
             \/ /\ m # u.tail[o] /\ u.next[m] \in V \ {n} /\ r[m] < r[u.next[m]]
                /\ \A k \in V \ {n} : r[k] <= r[m] \/ r[u.next[m]] <= r[k]
  <2>1. CASE l.next[m] = n
    <3>1. m # l.tail[o] /\ r[m] < r[n] /\ \A k \in V : r[k] <= r[m] \/ r[n] <= r[k]
      BY <1>0, <1>2, <2>1
    <3>2. u.next[m] = l.next[n]
      BY <1>0, <1>1, <2>1
    <3>3. CASE l.tail[o] = n
      <4>1. l.head[o] # n
        BY <1>0, <1>2, <3>1, SMT
      <4>2. PICK p \in V : p = u.tail[o] /\ l.next[p] = n
        BY <1>1, <3>3, <4>1
      <4>3. p # l.tail[o] /\ r[p] < r[n] /\ \A k \in V : r[k] <= r[p] \/ r[n] <= r[k]
        BY <1>0, <1>2, <4>2
      <4>4. r[p] = r[m]
        BY <1>0, <3>1, <4>3, SMT
      <4>5. p = m
        BY <1>2, <4>4
      <4>6. l.next[n] = Null
        BY <1>0, <1>2, <3>3
      <4> QED
        BY <3>2, <4>2, <4>5, <4>6
    <3>4. CASE l.tail[o] # n
      <4>1. l.next[n] \in V /\ r[n] < r[l.next[n]] /\ \A k \in V : r[k] <= r[n] \/ r[l.next[n]] <= r[k]
        BY <1>2, <3>4
      <4>2. u.tail[o] = l.tail[o]
        BY <1>1, <3>4
      <4>3. ASSUME NEW k \in V \ {n} PROVE r[k] <= r[m] \/ r[l.next[n]] <= r[k]
        <5>1. r[k] # r[n] /\ r[k] \in Nat /\ r[n] \in Nat
          BY <1>0, <1>2
        <5>2. (r[k] <= r[m] \/ r[n] <= r[k]) /\ (r[k] <= r[n] \/ r[l.next[n]] <= r[k])
          BY <3>1, <4>1
        <5> QED
          BY <5>1, <5>2, SMT
      <4> QED
        BY <1>0, <3>1, <3>2, <4>1, <4>2, <4>3, SMT
    <3> QED
      BY <3>3, <3>4
  <2>2. CASE l.next[m] # n
    <3>1. u.next[m] = l.next[m]
      BY <1>0, <1>1, <2>2
    <3>2. CASE m = l.tail[o]
      <4>1. l.tail[o] # n
        BY <3>2
      <4> QED
        BY <1>1, <1>2, <3>1, <3>2, <4>1
    <3>3. CASE m # l.tail[o]
      <4>1. l.next[m] \in V /\ r[m] < r[l.next[m]] /\ \A k \in V : r[k] <= r[m] \/ r[l.next[m]] <= r[k]
        BY <1>2, <3>3
      <4>2. m # u.tail[o]
        BY <1>0, <1>1, <1>2, <2>2, <3>3, ZenonT(60)
      <4> QED
        BY <2>2, <3>1, <4>1, <4>2
    <3> QED
      BY <3>2, <3>3
  <2> QED
    BY <2>1, <2>2
<1>7. V \ {n} \subseteq Nodes /\ \A k, m \in V \ {n} : r[k] = r[m] => k = m
  BY <1>0, <1>2
<1> QED
  BY <1>3, <1>4, <1>5, <1>6, <1>7 DEF IsList

\* LinkNode, by the fields of its result.
LEMMA LinkFields ==
  ASSUME NEW l \in AllPointers, NEW o \in Objects, NEW n \in Nodes, NEW u, u = LinkNode(l, o, n)
  PROVE  /\ u \in AllPointers
         /\ u.head[o] = IF l.tail[o] = Null THEN n ELSE l.head[o]
         /\ u.tail[o] = n
         /\ \A m \in Nodes : u.next[m] = IF m = l.tail[o] THEN n ELSE l.next[m]
         /\ \A x \in Objects : x # o => u.head[x] = l.head[x] /\ u.tail[x] = l.tail[x]
<1> DEFINE newHead == IF l.tail[o] = Null THEN [l.head EXCEPT ![o] = n] ELSE l.head
           newTail == [l.tail EXCEPT ![o] = n]
           newNext == IF l.tail[o] = Null THEN l.next ELSE [l.next EXCEPT ![l.tail[o]] = n]
<1>1. u = [head |-> newHead, tail |-> newTail, next |-> newNext]
  BY DEF LinkNode
<1>2. u.head = newHead /\ u.tail = newTail /\ u.next = newNext
  BY <1>1, SMT
<1>3. /\ l.head \in [Objects -> Nodes \cup {Null}] /\ l.tail \in [Objects -> Nodes \cup {Null}]
      /\ l.next \in [Nodes -> Nodes \cup {Null}] /\ l.tail[o] \in Nodes \cup {Null}
  BY DEF AllPointers
<1>4. /\ newHead \in [Objects -> Nodes \cup {Null}] /\ newTail \in [Objects -> Nodes \cup {Null}]
      /\ newNext \in [Nodes -> Nodes \cup {Null}]
  BY <1>3
<1>5. /\ newHead[o] = IF l.tail[o] = Null THEN n ELSE l.head[o]
      /\ newTail[o] = n
      /\ \A x \in Objects : x # o => newHead[x] = l.head[x] /\ newTail[x] = l.tail[x]
  BY <1>3
<1>6. \A m \in Nodes : newNext[m] = IF m = l.tail[o] THEN n ELSE l.next[m]
  BY <1>3, NullIsNoNode
<1>7. u \in AllPointers
  BY <1>1, <1>4, SMT DEF AllPointers
<1> QED
  BY <1>2, <1>5, <1>6, <1>7

\* LinkNode adds a node that is in no list at the end, with a rank above the others.
LEMMA LinkList ==
  ASSUME NEW l \in AllPointers, NEW o \in Objects, NEW V, NEW r \in Ranks, IsList(l, o, V, r),
         NEW n \in Nodes, n \notin V, l.next[n] = Null, NEW u, u = LinkNode(l, o, n),
         NEW s \in Ranks, \A m \in V : s[m] = r[m], V # {} => s[n] = r[l.tail[o]] + 1
  PROVE  IsList(u, o, V \cup {n}, s)
<1>0. V \subseteq Nodes /\ (\A m \in V : r[m] \in Nat) /\ Null \notin V /\ n # Null
  BY NullIsNoNode DEF IsList, Ranks
<1>1. /\ u.head[o] = IF l.tail[o] = Null THEN n ELSE l.head[o]
      /\ u.tail[o] = n
      /\ \A m \in Nodes : u.next[m] = IF m = l.tail[o] THEN n ELSE l.next[m]
  BY LinkFields, SMT
<1>2. CASE V = {}
  <2>1. l.tail[o] = Null /\ V \cup {n} = {n}
    BY <1>2 DEF IsList
  <2>2. u.head[o] = n /\ u.next[n] = Null /\ s[n] \in Nat
    BY <1>0, <1>1, <2>1 DEF Ranks
  <2> QED
    BY <1>1, <2>1, <2>2, SMT DEF IsList
<1>3. CASE V # {}
  <2>1. /\ \A k, m \in V : r[k] = r[m] => k = m
        /\ l.head[o] \in V /\ \A m \in V : r[l.head[o]] <= r[m]
        /\ l.tail[o] \in V /\ \A m \in V : r[m] <= r[l.tail[o]]
        /\ \A m \in V : \/ m = l.tail[o] /\ l.next[m] = Null
                        \/ /\ m # l.tail[o] /\ l.next[m] \in V /\ r[m] < r[l.next[m]]
                           /\ \A k \in V : r[k] <= r[m] \/ r[l.next[m]] <= r[k]
    BY <1>3 DEF IsList
  <2>2. s[n] = r[l.tail[o]] + 1 /\ s[n] \in Nat /\ \A m \in V : s[m] = r[m] /\ s[m] < s[n]
    BY <1>0, <1>3, <2>1, SMT
  <2>3. u.head[o] = l.head[o] /\ u.tail[o] = n /\ u.next[n] = Null
    BY <1>0, <1>1, <2>1
  <2>4. ASSUME NEW k \in V \cup {n}, NEW m \in V \cup {n}, s[k] = s[m] PROVE k = m
    BY <1>0, <2>1, <2>2, <2>4, SMT
  <2>5. \A m \in V \cup {n} : s[u.head[o]] <= s[m] /\ s[m] <= s[u.tail[o]]
    BY <1>0, <2>1, <2>2, <2>3, SMT
  <2>6. ASSUME NEW m \in V
        PROVE  /\ m # u.tail[o] /\ u.next[m] \in V \cup {n} /\ s[m] < s[u.next[m]]
               /\ \A k \in V \cup {n} : s[k] <= s[m] \/ s[u.next[m]] <= s[k]
    <3>0. m # u.tail[o] /\ m \in Nodes
      BY <1>0, <1>1
    <3>1. CASE m = l.tail[o]
      <4>1. u.next[m] = n
        BY <1>1, <3>0, <3>1
      <4> QED
        BY <1>0, <2>1, <2>2, <3>0, <3>1, <4>1, SMT
    <3>2. CASE m # l.tail[o]
      <4>1. /\ u.next[m] = l.next[m] /\ l.next[m] \in V /\ r[m] < r[l.next[m]]
            /\ \A k \in V : r[k] <= r[m] \/ r[l.next[m]] <= r[k]
        BY <1>1, <2>1, <3>0, <3>2
      <4>2. s[m] < s[u.next[m]] /\ s[u.next[m]] <= s[n]
        BY <1>0, <2>2, <4>1, SMT
      <4>3. \A k \in V : s[k] <= s[m] \/ s[u.next[m]] <= s[k]
        BY <2>2, <4>1
      <4> QED
        BY <3>0, <4>1, <4>2, <4>3
    <3> QED
      BY <3>1, <3>2
  <2>7. V \cup {n} \subseteq Nodes /\ V \cup {n} # {} /\ u.head[o] \in V \cup {n} /\ u.tail[o] \in V \cup {n}
    BY <1>0, <2>1, <2>3
  <2>8. \A m \in V \cup {n} : \/ m = u.tail[o] /\ u.next[m] = Null
                              \/ /\ m # u.tail[o] /\ u.next[m] \in V \cup {n} /\ s[m] < s[u.next[m]]
                                 /\ \A k \in V \cup {n} : s[k] <= s[m] \/ s[u.next[m]] <= s[k]
    BY <2>3, <2>6
  <2> QED
    BY <2>4, <2>5, <2>7, <2>8 DEF IsList
<1> QED
  BY <1>2, <1>3

----------------------------------------------------------------------------
(* The lists of all objects. *)

\* The lists hold the nodes W, ordered by r.
AreLists(l, W, r) ==
  /\ W \in [Objects -> SUBSET Nodes]
  /\ \A o, x \in Objects : o # x => W[o] \cap W[x] = {}
  /\ \A o \in Objects : IsList(l, o, W[o], r)

\* The nodes of D are in no list, and a walk that is at a and goes on through
\* them arrives at the head of the list of o.
Leads(l, o, a, D, W) ==
  /\ D \subseteq Nodes /\ \A d \in D, x \in Objects : d \notin W[x]
  /\ a \in D \cup {l.head[o]}
  /\ \A d \in D : l.next[d] \in D \cup {l.head[o]}

\* One call of UnlinkNode.  The nodes that are in no list, the one that is taken
\* out included, keep their next.
LEMMA UnlinkOne ==
  ASSUME NEW l \in AllPointers, NEW W, NEW r \in Ranks, AreLists(l, W, r),
         NEW o \in Objects, NEW n \in W[o], NEW u, u = UnlinkNode(l, o, n),
         NEW Y, Y = [W EXCEPT ![o] = @ \ {n}]
  PROVE  /\ u \in AllPointers /\ AreLists(u, Y, r)
         /\ \A m \in Nodes : m = n \/ m \notin W[o] => u.next[m] = l.next[m]
         /\ u.head[o] = IF l.head[o] = n THEN l.next[n] ELSE l.head[o]
         /\ \A x \in Objects : x # o => u.head[x] = l.head[x]
<1>1. W \in [Objects -> SUBSET Nodes] /\ IsList(l, o, W[o], r)
  BY DEF AreLists
<1>2. /\ u \in AllPointers
      /\ u.head[o] = IF l.head[o] = n THEN l.next[n] ELSE l.head[o]
      /\ \A m \in Nodes : u.next[m] = IF m \in W[o] /\ l.next[m] = n THEN l.next[n] ELSE l.next[m]
      /\ \A x \in Objects : x # o => u.head[x] = l.head[x] /\ u.tail[x] = l.tail[x]
  BY <1>1, UnlinkFields, SMT
<1>3. /\ Y \in [Objects -> SUBSET Nodes] /\ Y[o] = W[o] \ {n}
      /\ \A x \in Objects : x # o => Y[x] = W[x]
  BY <1>1
<1>4. \A x, y \in Objects : x # y => Y[x] \cap Y[y] = {}
  BY <1>3 DEF AreLists
<1>5. \A m \in Nodes : m \notin W[o] => u.next[m] = l.next[m]
  BY <1>2
<1>6. u.next[n] = l.next[n]
  BY <1>1, <1>2
<1>7. IsList(u, o, Y[o], r)
  BY <1>1, <1>3, UnlinkList
<1>8. ASSUME NEW x \in Objects, x # o PROVE IsList(u, x, Y[x], r)
  <2>1. IsList(l, x, W[x], r) /\ Y[x] = W[x] /\ W[x] \subseteq Nodes /\ W[x] \cap W[o] = {}
    BY <1>1, <1>3, <1>8 DEF AreLists
  <2>2. \A m \in W[x] : u.next[m] = l.next[m]
    BY <1>5, <2>1
  <2>3. u.head[x] = l.head[x] /\ u.tail[x] = l.tail[x]
    BY <1>2, <1>8
  <2>4. IsList(u, x, W[x], r)
    BY ONLY <1>8, <2>1, <2>2, <2>3, SameList, Zenon
  <2> QED
    BY <2>1, <2>4
<1>9. AreLists(u, Y, r)
  BY <1>3, <1>4, <1>7, <1>8 DEF AreLists
<1> QED
  BY <1>2, <1>5, <1>6, <1>9

\* A walk that leads to the head of a list still does after a call of UnlinkNode:
\* if the head is taken out, it becomes a node of the walk.
LEMMA UnlinkLeads ==
  ASSUME NEW l \in AllPointers, NEW W, NEW r \in Ranks, AreLists(l, W, r),
         NEW o \in Objects, NEW n \in W[o], NEW u, u = UnlinkNode(l, o, n),
         NEW Y, Y = [W EXCEPT ![o] = @ \ {n}],
         NEW x \in Objects, NEW a, NEW D, Leads(l, x, a, D, W)
  PROVE  \E E \in SUBSET (D \cup {n}) : Leads(u, x, a, E, Y)
<1>1. /\ \A m \in Nodes : m = n \/ m \notin W[o] => u.next[m] = l.next[m]
      /\ u.head[o] = IF l.head[o] = n THEN l.next[n] ELSE l.head[o]
      /\ \A y \in Objects : y # o => u.head[y] = l.head[y]
  BY UnlinkOne, SMT
<1>2. /\ W \in [Objects -> SUBSET Nodes] /\ n \in Nodes
      /\ \A y \in Objects : Y[y] = IF y = o THEN W[y] \ {n} ELSE W[y]
      /\ \A y \in Objects : y # o => n \notin W[y]
  BY DEF AreLists
<1>3. /\ D \subseteq Nodes /\ \A d \in D, y \in Objects : d \notin W[y]
      /\ a \in D \cup {l.head[x]}
      /\ \A d \in D : l.next[d] \in D \cup {l.head[x]}
  BY DEF Leads
<1>4. \A d \in D : u.next[d] = l.next[d]
  BY <1>1, <1>3
<1>5. CASE x = o /\ l.head[o] = n
  <2>1. u.next[n] = u.head[x]
    BY <1>1, <1>2, <1>5
  <2>2. Leads(u, x, a, D \cup {n}, Y)
    BY <1>2, <1>3, <1>4, <1>5, <2>1, SMT DEF Leads
  <2> QED
    BY <2>2
<1>6. CASE ~(x = o /\ l.head[o] = n)
  <2>1. u.head[x] = l.head[x]
    BY <1>1, <1>6
  <2>2. Leads(u, x, a, D, Y)
    BY <1>2, <1>3, <1>4, <2>1 DEF Leads
  <2> QED
    BY <2>2
<1> QED
  BY <1>5, <1>6

\* One call of LinkNode, for a node that is in no list.
LEMMA LinkOne ==
  ASSUME NEW l \in AllPointers, NEW W, NEW r \in Ranks, AreLists(l, W, r),
         NEW o \in Objects, NEW n \in Nodes, \A x \in Objects : n \notin W[x], l.next[n] = Null,
         NEW u, u = LinkNode(l, o, n), NEW Y, Y = [W EXCEPT ![o] = @ \cup {n}]
  PROVE  /\ u \in AllPointers /\ \E s \in Ranks : AreLists(u, Y, s)
         /\ \A m \in Nodes : m \notin W[o] => u.next[m] = l.next[m]
<1>1. W \in [Objects -> SUBSET Nodes] /\ IsList(l, o, W[o], r)
  BY DEF AreLists
<1>2. /\ u \in AllPointers
      /\ \A m \in Nodes : u.next[m] = IF m = l.tail[o] THEN n ELSE l.next[m]
      /\ \A x \in Objects : x # o => u.head[x] = l.head[x] /\ u.tail[x] = l.tail[x]
  BY LinkFields, SMT
<1>3. /\ Y \in [Objects -> SUBSET Nodes] /\ Y[o] = W[o] \cup {n}
      /\ \A x \in Objects : x # o => Y[x] = W[x]
  BY <1>1
<1>4. \A x, y \in Objects : x # y => Y[x] \cap Y[y] = {}
  BY <1>3, SMT DEF AreLists
<1>5. l.tail[o] \in W[o] \cup {Null}
  BY <1>1 DEF IsList
<1>6. \A m \in Nodes : m \notin W[o] => u.next[m] = l.next[m]
  BY <1>2, <1>5, NullIsNoNode, SMT
<1>7. PICK s : s = [r EXCEPT ![n] = IF W[o] = {} THEN 0 ELSE r[l.tail[o]] + 1]
  OBVIOUS
<1>8. W[o] # {} => r[l.tail[o]] \in Nat
  BY <1>1 DEF IsList, Ranks
<1>9. /\ s \in Ranks
      /\ W[o] # {} => s[n] = r[l.tail[o]] + 1
      /\ \A m \in Nodes : m # n => s[m] = r[m]
  BY <1>7, <1>8, SMT DEF Ranks
<1>10. IsList(u, o, Y[o], s)
  <2>1. \A m \in W[o] : s[m] = r[m]
    BY <1>1, <1>9
  <2>2. n \notin W[o]
    OBVIOUS
  <2>3. IsList(u, o, W[o] \cup {n}, s)
    BY <1>1, <1>9, <2>1, <2>2, LinkList
  <2> QED
    BY <1>3, <2>3
<1>11. ASSUME NEW x \in Objects, x # o PROVE IsList(u, x, Y[x], s)
  <2>1. IsList(l, x, W[x], r) /\ Y[x] = W[x] /\ W[x] \subseteq Nodes /\ W[x] \cap W[o] = {} /\ n \notin W[x]
    BY <1>1, <1>3, <1>11 DEF AreLists
  <2>2. \A m \in W[x] : u.next[m] = l.next[m] /\ s[m] = r[m]
    BY <1>6, <1>9, <2>1
  <2>3. IsList(u, x, W[x], r)
    BY <1>2, <1>11, <2>1, <2>2, SameList, SMT
  <2>4. IsList(u, x, W[x], s)
    BY <2>2, <2>3 DEF IsList
  <2> QED
    BY <2>1, <2>4
<1>12. AreLists(u, Y, s)
  BY <1>3, <1>4, <1>10, <1>11 DEF AreLists
<1>13. \E c \in Ranks : AreLists(u, Y, c)
  BY <1>9, <1>12
<1> QED
  BY <1>2, <1>6, <1>13

\* LinkNodes is a loop of LinkNode: its recursion has a solution.
LEMMA LinkNodesUnfold ==
  ASSUME NEW l, NEW t, NEW objs, Len(objs) \in Nat
  PROVE  \E f : /\ f[0] = l /\ f[Len(objs)] = LinkNodes(l, t, objs)
                /\ \A i \in 1 .. Len(objs) : f[i] = LinkNode(f[i - 1], objs[i], <<t, i>>)
<1> DEFINE N == Len(objs)
           Body(g, i) == IF i = 0 THEN l ELSE LinkNode(g[i - 1], objs[i], <<t, i>>)
           Solves(g, k) == g = [i \in 0 .. k |-> Body(g, i)]
           bad == {k \in 0 .. N : ~\E g : Solves(g, k)}
<1>0. N \in Nat
  OBVIOUS
<1> HIDE DEF N
<1>1. bad = {}
  <2> SUFFICES ASSUME bad # {} PROVE FALSE
    OBVIOUS
  <2>1. PICK m \in bad : \A k \in bad : m <= k
    <3>1. bad \subseteq Nat
      BY <1>0, SMT
    <3> QED
      BY <3>1, LeastNatural
  <2>2. m \in 0 .. N /\ ~\E g : Solves(g, m)
    OBVIOUS
  <2>3. CASE m = 0
    <3>1. PICK g : g = [n \in 0 .. 0 |-> l]
      OBVIOUS
    <3>2. Solves(g, 0)
      BY <3>1, SMT
    <3> QED
      BY <2>2, <2>3, <3>2
  <2>4. CASE m # 0
    <3>0. m \in Nat /\ m > 0 /\ m - 1 \in 0 .. N
      BY <1>0, <2>2, <2>4, SMT
    <3>1. m - 1 \notin bad
      <4>1. ~(m <= m - 1)
        BY <3>0, SMT
      <4> QED
        BY <2>1, <4>1
    <3>2. PICK g : Solves(g, m - 1)
      BY <3>0, <3>1
    <3>3. PICK h : h = [n \in 0 .. m |-> IF n = m THEN Body(g, m) ELSE g[n]]
      OBVIOUS
    <3>4. \A n \in 0 .. m : n # m => n \in 0 .. m - 1
      BY <3>0, SMT
    <3>5. \A n \in 0 .. m - 1 : g[n] = Body(g, n)
      BY <3>2
    <3>6. \A n \in 0 .. m : n # 0 => n - 1 \in 0 .. m /\ n - 1 # m
      BY <3>0, SMT
    <3>7. \A n \in 0 .. m : n # 0 => h[n - 1] = g[n - 1]
      BY <3>3, <3>6
    <3>8. \A n \in 0 .. m : Body(h, n) = Body(g, n)
      BY <3>7
    <3>9. \A n \in 0 .. m : h[n] = Body(g, n)
      BY <3>3, <3>4, <3>5
    <3>10. Solves(h, m)
      BY <3>3, <3>8, <3>9
    <3> QED
      BY <2>2, <3>10
  <2> QED
    BY <2>3, <2>4
<1>2. \E g : Solves(g, N)
  <2>1. N \in 0 .. N
    BY <1>0, SMT
  <2> QED
    BY <1>1, <2>1
<1>3. PICK f : f = CHOOSE g : Solves(g, N)
  OBVIOUS
<1>4. Solves(f, N)
  BY <1>2, <1>3
<1>5. f[0] = l
  BY <1>0, <1>4, SMT
<1>6. ASSUME NEW i \in 1 .. N PROVE f[i] = LinkNode(f[i - 1], objs[i], <<t, i>>)
  <2>1. i \in 0 .. N /\ i # 0
    BY <1>0, SMT
  <2>2. f[i] = Body(f, i)
    BY <1>4, <2>1
  <2> QED
    BY <2>1, <2>2
<1>7. f[N] = LinkNodes(l, t, objs)
  BY <1>3 DEF LinkNodes, N
<1> QED
  BY <1>5, <1>6, <1>7 DEF N

\* UnlinkNodes is a loop of UnlinkNode.
LEMMA UnlinkNodesUnfold ==
  ASSUME NEW l, NEW t, NEW objs, Len(objs) \in Nat
  PROVE  \E f : /\ f[0] = l /\ f[Len(objs)] = UnlinkNodes(l, t, objs)
                /\ \A i \in 1 .. Len(objs) : f[i] = UnlinkNode(f[i - 1], objs[i], <<t, i>>)
<1> DEFINE N == Len(objs)
           Body(g, i) == IF i = 0 THEN l ELSE UnlinkNode(g[i - 1], objs[i], <<t, i>>)
           Solves(g, k) == g = [i \in 0 .. k |-> Body(g, i)]
           bad == {k \in 0 .. N : ~\E g : Solves(g, k)}
<1>0. N \in Nat
  OBVIOUS
<1> HIDE DEF N
<1>1. bad = {}
  <2> SUFFICES ASSUME bad # {} PROVE FALSE
    OBVIOUS
  <2>1. PICK m \in bad : \A k \in bad : m <= k
    <3>1. bad \subseteq Nat
      BY <1>0, SMT
    <3> QED
      BY <3>1, LeastNatural
  <2>2. m \in 0 .. N /\ ~\E g : Solves(g, m)
    OBVIOUS
  <2>3. CASE m = 0
    <3>1. PICK g : g = [n \in 0 .. 0 |-> l]
      OBVIOUS
    <3>2. Solves(g, 0)
      BY <3>1, SMT
    <3> QED
      BY <2>2, <2>3, <3>2
  <2>4. CASE m # 0
    <3>0. m \in Nat /\ m > 0 /\ m - 1 \in 0 .. N
      BY <1>0, <2>2, <2>4, SMT
    <3>1. m - 1 \notin bad
      <4>1. ~(m <= m - 1)
        BY <3>0, SMT
      <4> QED
        BY <2>1, <4>1
    <3>2. PICK g : Solves(g, m - 1)
      BY <3>0, <3>1
    <3>3. PICK h : h = [n \in 0 .. m |-> IF n = m THEN Body(g, m) ELSE g[n]]
      OBVIOUS
    <3>4. \A n \in 0 .. m : n # m => n \in 0 .. m - 1
      BY <3>0, SMT
    <3>5. \A n \in 0 .. m - 1 : g[n] = Body(g, n)
      BY <3>2
    <3>6. \A n \in 0 .. m : n # 0 => n - 1 \in 0 .. m /\ n - 1 # m
      BY <3>0, SMT
    <3>7. \A n \in 0 .. m : n # 0 => h[n - 1] = g[n - 1]
      BY <3>3, <3>6
    <3>8. \A n \in 0 .. m : Body(h, n) = Body(g, n)
      BY <3>7
    <3>9. \A n \in 0 .. m : h[n] = Body(g, n)
      BY <3>3, <3>4, <3>5
    <3>10. Solves(h, m)
      BY <3>3, <3>8, <3>9
    <3> QED
      BY <2>2, <3>10
  <2> QED
    BY <2>3, <2>4
<1>2. \E g : Solves(g, N)
  <2>1. N \in 0 .. N
    BY <1>0, SMT
  <2> QED
    BY <1>1, <2>1
<1>3. PICK f : f = CHOOSE g : Solves(g, N)
  OBVIOUS
<1>4. Solves(f, N)
  BY <1>2, <1>3
<1>5. f[0] = l
  BY <1>0, <1>4, SMT
<1>6. ASSUME NEW i \in 1 .. N PROVE f[i] = UnlinkNode(f[i - 1], objs[i], <<t, i>>)
  <2>1. i \in 0 .. N /\ i # 0
    BY <1>0, SMT
  <2>2. f[i] = Body(f, i)
    BY <1>4, <2>1
  <2> QED
    BY <2>1, <2>2
<1>7. f[N] = UnlinkNodes(l, t, objs)
  BY <1>3 DEF UnlinkNodes, N
<1> QED
  BY <1>5, <1>6, <1>7 DEF N

\* The objects of a wait, and its nodes.
LEMMA ListFacts ==
  ASSUME NEW objs \in Lists, NEW t \in Threads
  PROVE  /\ Len(objs) \in Nat /\ Len(objs) <= MaxObjects /\ DOMAIN objs = 1 .. Len(objs)
         /\ \A i \in 1 .. Len(objs) : objs[i] \in Objects /\ <<t, i>> \in Nodes
<1>1. PICK n \in 0 .. MaxObjects : objs \in [1 .. n -> Waitable]
  BY DEF Lists
<1>2. objs \in Seq(Waitable) /\ Len(objs) = n
  BY <1>1, SMT
<1> QED
  BY <1>1, <1>2, SMT DEF Objects, Nodes

\* The first i nodes of t.
Own(t, i) == {n \in Nodes : n[1] = t /\ n[2] <= i}

\* The loop that unlinks the nodes of a thread leaves the lists of the other
\* threads' nodes in their order, and a walk that led to the head of a list still
\* does, by way of nodes that are in no list any more.
LEMMA UnlinkAll ==
  ASSUME NEW l \in AllPointers, NEW W, NEW r \in Ranks, AreLists(l, W, r),
         NEW t \in Threads, NEW objs \in Lists,
         \A i \in 1 .. Len(objs), o \in Objects : <<t, i>> \in W[o] <=> objs[i] = o,
         NEW x \in Objects, NEW a, NEW D, Leads(l, x, a, D, W),
         NEW u, u = UnlinkNodes(l, t, objs),
         NEW Y, Y = [o \in Objects |-> W[o] \ Own(t, Len(objs))]
  PROVE  /\ u \in AllPointers /\ AreLists(u, Y, r)
         /\ \A m \in Nodes : (\A o \in Objects : m \notin W[o]) => u.next[m] = l.next[m]
         /\ \E E \in SUBSET (D \cup Own(t, Len(objs))) : Leads(u, x, a, E, Y)
<1> DEFINE N == Len(objs)
           Z(i) == [o \in Objects |-> W[o] \ Own(t, i)]
<1>0. /\ N \in Nat /\ N <= MaxObjects
      /\ \A i \in 1 .. N : objs[i] \in Objects /\ <<t, i>> \in Nodes
  BY ListFacts
<1>1. PICK f : /\ f[0] = l /\ f[N] = u
               /\ \A i \in 1 .. N : f[i] = UnlinkNode(f[i - 1], objs[i], <<t, i>>)
  BY <1>0, UnlinkNodesUnfold, SMT
<1>2. W \in [Objects -> SUBSET Nodes]
  BY DEF AreLists
<1>3. \A i \in 1 .. N, o \in Objects : <<t, i>> \in W[o] <=> objs[i] = o
  OBVIOUS
<1> HIDE DEF N
<1> DEFINE P(i) == /\ f[i] \in AllPointers /\ AreLists(f[i], Z(i), r)
                   /\ \A m \in Nodes : (\A o \in Objects : m \notin W[o]) => f[i].next[m] = l.next[m]
                   /\ \E E \in SUBSET (D \cup Own(t, i)) : Leads(f[i], x, a, E, Z(i))
           bad == {i \in 0 .. N : ~P(i)}
<1>4. P(0)
  <2>1. Own(t, 0) = {}
    BY SMT DEF Own, Nodes
  <2>2. Z(0) = W
    BY <1>2, <2>1, SMT
  <2>3. f[0] \in AllPointers /\ AreLists(f[0], Z(0), r)
    BY <1>1, <2>2
  <2>4. D \in SUBSET (D \cup Own(t, 0)) /\ Leads(f[0], x, a, D, Z(0))
    BY <1>1, <2>2
  <2> HIDE DEF Z
  <2> QED
    BY <1>1, <2>3, <2>4
<1>5. ASSUME NEW i \in 1 .. N, P(i - 1) PROVE P(i)
  <2> DEFINE n == <<t, i>>
             o == objs[i]
             p == f[i - 1]
  <2>1. n \in Nodes /\ o \in Objects /\ f[i] = UnlinkNode(p, o, n)
    BY <1>0, <1>1
  <2>2. Own(t, i) = Own(t, i - 1) \cup {n} /\ n \notin Own(t, i - 1)
    <3>1. \A m \in Nodes : m[1] = t /\ m[2] = i => m = n
      BY SMT DEF Nodes
    <3>2. n[1] = t /\ n[2] = i /\ \A m \in Nodes : m[2] \in Nat
      BY SMT DEF Nodes
    <3> QED
      BY <1>0, <2>1, <3>1, <3>2, SMT DEF Own
  <2>3. n \in W[o] /\ \A y \in Objects : y # o => n \notin W[y]
    BY <1>3, <2>1
  <2>4. n \in Z(i - 1)[o] /\ Z(i) = [Z(i - 1) EXCEPT ![o] = @ \ {n}]
    <3>1. n \in Z(i - 1)[o]
      BY <2>1, <2>2, <2>3
    <3>2. \A y \in Objects : Z(i)[y] = IF y = o THEN Z(i - 1)[y] \ {n} ELSE Z(i - 1)[y]
      BY <1>2, <2>1, <2>2, <2>3, SMT
    <3>3. DOMAIN Z(i) = Objects /\ DOMAIN Z(i - 1) = Objects
      OBVIOUS
    <3>4. Z(i) = [y \in Objects |-> Z(i)[y]]
      OBVIOUS
    <3> HIDE DEF Z, n, o
    <3>5. Z(i) = [Z(i - 1) EXCEPT ![o] = @ \ {n}]
      BY <2>1, <3>2, <3>3, <3>4
    <3> QED
      BY <3>1, <3>5
  <2>5. p \in AllPointers /\ AreLists(p, Z(i - 1), r)
    BY <1>5
  <2>6. PICK C \in SUBSET (D \cup Own(t, i - 1)) : Leads(p, x, a, C, Z(i - 1))
    BY <1>5
  <2>7. \A m \in Nodes : (\A y \in Objects : m \notin W[y]) => p.next[m] = l.next[m]
    BY <1>5
  <2> HIDE DEF Z, n, o, p
  <2>8. /\ f[i] \in AllPointers /\ AreLists(f[i], Z(i), r)
        /\ \A m \in Nodes : m = n \/ m \notin Z(i - 1)[o] => f[i].next[m] = p.next[m]
    BY <2>1, <2>4, <2>5, UnlinkOne, SMT
  <2>9. \E E \in SUBSET (C \cup {n}) : Leads(f[i], x, a, E, Z(i))
    BY <2>1, <2>4, <2>5, <2>6, UnlinkLeads, SMT
  <2>10. \E E \in SUBSET (D \cup Own(t, i)) : Leads(f[i], x, a, E, Z(i))
    BY <2>2, <2>9
  <2>11. \A m \in Nodes : (\A y \in Objects : m \notin W[y]) => f[i].next[m] = l.next[m]
    BY <2>1, <2>7, <2>8 DEF Z
  <2> QED
    BY <2>8, <2>10, <2>11
<1> HIDE DEF P
<1>6. bad = {}
  <2> SUFFICES ASSUME bad # {} PROVE FALSE
    OBVIOUS
  <2>1. bad \subseteq Nat
    BY <1>0, SMT
  <2>2. PICK i \in bad : \A k \in bad : i <= k
    BY <2>1, LeastNatural
  <2>3. i \in 0 .. N /\ ~P(i) /\ i # 0
    BY <1>4
  <2>4. i \in 1 .. N /\ i - 1 \in 0 .. N /\ ~(i <= i - 1)
    BY <1>0, <2>3, SMT
  <2>5. P(i - 1)
    BY <2>2, <2>4
  <2> QED
    BY <1>5, <2>3, <2>4, <2>5
<1>7. P(N)
  BY <1>0, <1>6, SMT
<1>8. Z(N) = Y
  BY DEF N
<1> HIDE DEF Z
<1>9. /\ u \in AllPointers /\ AreLists(u, Y, r)
      /\ \A m \in Nodes : (\A o \in Objects : m \notin W[o]) => u.next[m] = l.next[m]
  BY <1>1, <1>7, <1>8 DEF P
<1>10. \E E \in SUBSET (D \cup Own(t, N)) : Leads(u, x, a, E, Y)
  <2>1. PICK E \in SUBSET (D \cup Own(t, N)) : Leads(f[N], x, a, E, Z(N))
    BY <1>7 DEF P
  <2>2. Leads(u, x, a, E, Y)
    BY <1>1, <1>8, <2>1
  <2> QED
    BY <2>2
<1> QED
  BY <1>9, <1>10 DEF N

\* Those of the first i nodes of t that are for o.
OwnFor(t, objs, i, o) == {n \in Own(t, i) : objs[n[2]] = o}

\* W, with the nodes of t for the objects of objs.
WithNodes(W, t, objs) == [o \in Objects |-> W[o] \cup OwnFor(t, objs, Len(objs), o)]

\* The loop that links the nodes of a thread, which are in no list before.
LEMMA LinkAll ==
  ASSUME NEW l \in AllPointers, NEW W, NEW r \in Ranks, AreLists(l, W, r),
         NEW t \in Threads, NEW objs \in Lists,
         \A n \in Nodes : n[1] = t => l.next[n] = Null /\ \A o \in Objects : n \notin W[o],
         NEW u, u = LinkNodes(l, t, objs),
         NEW Y, Y = WithNodes(W, t, objs)
  PROVE  /\ u \in AllPointers /\ \E s \in Ranks : AreLists(u, Y, s)
         /\ \A m \in Nodes : (\A o \in Objects : m \notin Y[o]) => u.next[m] = l.next[m]
<1> DEFINE N == Len(objs)
           Z(i) == [o \in Objects |-> W[o] \cup OwnFor(t, objs, i, o)]
<1>0. /\ N \in Nat /\ N <= MaxObjects
      /\ \A i \in 1 .. N : objs[i] \in Objects /\ <<t, i>> \in Nodes
  BY ListFacts
<1>1. PICK f : /\ f[0] = l /\ f[N] = u
               /\ \A i \in 1 .. N : f[i] = LinkNode(f[i - 1], objs[i], <<t, i>>)
  BY <1>0, LinkNodesUnfold, SMT
<1>2. W \in [Objects -> SUBSET Nodes]
  BY DEF AreLists
<1>3. \A n \in Nodes : n[1] = t => l.next[n] = Null /\ \A o \in Objects : n \notin W[o]
  OBVIOUS
<1> HIDE DEF N
<1> DEFINE P(i) == /\ f[i] \in AllPointers /\ \E s \in Ranks : AreLists(f[i], Z(i), s)
                   /\ \A m \in Nodes : (\A o \in Objects : m \notin Z(i)[o]) => f[i].next[m] = l.next[m]
           bad == {i \in 0 .. N : ~P(i)}
<1>4. P(0)
  <2>1. Own(t, 0) = {}
    BY SMT DEF Own, Nodes
  <2>2. Z(0) = W
    BY <1>2, <2>1 DEF OwnFor
  <2>3. f[0] \in AllPointers /\ AreLists(f[0], Z(0), r)
    BY <1>1, <2>2
  <2> HIDE DEF Z
  <2> QED
    BY <1>1, <2>3
<1>5. ASSUME NEW i \in 1 .. N, P(i - 1) PROVE P(i)
  <2> DEFINE n == <<t, i>>
             o == objs[i]
             p == f[i - 1]
  <2>1. n \in Nodes /\ o \in Objects /\ f[i] = LinkNode(p, o, n)
    BY <1>0, <1>1
  <2>0. n[1] = t /\ n[2] = i
    OBVIOUS
  <2>2. Own(t, i) = Own(t, i - 1) \cup {n} /\ n \notin Own(t, i - 1)
    <3>1. \A m \in Nodes : m[1] = t /\ m[2] = i => m = n
      BY SMT DEF Nodes
    <3>2. \A m \in Nodes : m[2] \in Nat
      BY SMT DEF Nodes
    <3> QED
      BY <1>0, <2>0, <2>1, <3>1, <3>2, SMT DEF Own
  <2>3. \A y \in Objects : n \notin Z(i - 1)[y]
    BY <1>3, <2>0, <2>1, <2>2 DEF OwnFor
  <2>4. Z(i) = [Z(i - 1) EXCEPT ![o] = @ \cup {n}]
    <3>1. \A y \in Objects : Z(i)[y] = IF y = o THEN Z(i - 1)[y] \cup {n} ELSE Z(i - 1)[y]
      BY <2>0, <2>1, <2>2, SMT DEF OwnFor
    <3>2. Z(i) = [y \in Objects |-> Z(i)[y]] /\ Z(i - 1) = [y \in Objects |-> Z(i - 1)[y]]
      OBVIOUS
    <3> HIDE DEF Z
    <3>3. DOMAIN Z(i - 1) = Objects
      BY <3>2
    <3> QED
      BY <3>1, <3>2, <3>3, ZenonT(60)
  <2>5. PICK s \in Ranks : p \in AllPointers /\ AreLists(p, Z(i - 1), s)
    BY <1>5
  <2>6. \A m \in Nodes : (\A y \in Objects : m \notin Z(i - 1)[y]) => p.next[m] = l.next[m]
    BY <1>5
  <2>7. p.next[n] = Null
    BY <1>3, <2>0, <2>1, <2>3, <2>6
  <2>8. \A y \in Objects : Z(i)[y] = IF y = o THEN Z(i - 1)[y] \cup {n} ELSE Z(i - 1)[y]
    BY <2>1, <2>4
  <2> HIDE DEF Z, n, o, p
  <2>9. /\ f[i] \in AllPointers /\ \E c \in Ranks : AreLists(f[i], Z(i), c)
        /\ \A m \in Nodes : m \notin Z(i - 1)[o] => f[i].next[m] = p.next[m]
    BY <2>1, <2>3, <2>4, <2>5, <2>7, LinkOne, SMT
  <2>10. \A m \in Nodes : (\A y \in Objects : m \notin Z(i)[y]) => f[i].next[m] = l.next[m]
    BY <2>1, <2>6, <2>8, <2>9
  <2> QED
    BY <2>9, <2>10
<1> HIDE DEF P
<1>6. bad = {}
  <2> SUFFICES ASSUME bad # {} PROVE FALSE
    OBVIOUS
  <2>1. bad \subseteq Nat
    BY <1>0, SMT
  <2>2. PICK i \in bad : \A k \in bad : i <= k
    BY <2>1, LeastNatural
  <2>3. i \in 0 .. N /\ ~P(i) /\ i # 0
    BY <1>4
  <2>4. i \in 1 .. N /\ i - 1 \in 0 .. N /\ ~(i <= i - 1)
    BY <1>0, <2>3, SMT
  <2>5. P(i - 1)
    BY <2>2, <2>4
  <2> QED
    BY <1>5, <2>3, <2>4, <2>5
<1>7. P(N)
  BY <1>0, <1>6, SMT
<1>8. Z(N) = Y
  BY DEF N, WithNodes
<1> HIDE DEF Z
<1>9. \E s \in Ranks : AreLists(u, Y, s)
  <2>1. PICK s \in Ranks : AreLists(f[N], Z(N), s)
    BY <1>7 DEF P
  <2>2. AreLists(u, Y, s)
    BY <1>1, <1>8, <2>1
  <2> QED
    BY <2>2
<1>10. u \in AllPointers
  BY <1>1, <1>7 DEF P
<1>11. \A m \in Nodes : (\A o \in Objects : m \notin Y[o]) => u.next[m] = l.next[m]
  BY <1>1, <1>7, <1>8 DEF P
<1> QED
  BY <1>9, <1>10, <1>11

----------------------------------------------------------------------------
(* The nodes of the waits. *)

\* The nodes that belong in the list of each object.
LinkedNodes(objs) ==
  [o \in Objects |-> {n \in Nodes : n[2] \in DOMAIN objs[n[1]] /\ objs[n[1]][n[2]] = o}]

LEMMA NoObjects == <<>> \in Lists /\ DOMAIN <<>> = {}
<1>1. <<>> \in [1 .. 0 -> Waitable] /\ 0 \in 0 .. MaxObjects
  BY SMT
<1> QED
  BY <1>1, SMT DEF Lists

\* When the wait of t ends, its nodes leave all lists.
LEMMA LinkedWithout ==
  ASSUME NEW objs \in [Threads -> Lists], NEW t \in Threads
  PROVE  LinkedNodes([objs EXCEPT ![t] = <<>>])
           = [o \in Objects |-> LinkedNodes(objs)[o] \ Own(t, Len(objs[t]))]
<1> DEFINE new == [objs EXCEPT ![t] = <<>>]
<1>1. Len(objs[t]) \in Nat /\ DOMAIN objs[t] = 1 .. Len(objs[t])
  BY ListFacts
<1>2. new[t] = <<>> /\ \A x \in Threads : x # t => new[x] = objs[x]
  OBVIOUS
<1> HIDE DEF new
<1>3. \A n \in Nodes : n[1] \in Threads /\ n[2] \in 1 .. MaxObjects
  BY DEF Nodes
<1>4. ASSUME NEW o \in Objects, NEW n \in Nodes
      PROVE  n \in LinkedNodes(new)[o] <=> n \in LinkedNodes(objs)[o] \ Own(t, Len(objs[t]))
  <2>1. CASE n[1] = t
    <3>1. n \notin LinkedNodes(new)[o]
      BY <1>2, <2>1, NoObjects DEF LinkedNodes
    <3>2. n \in LinkedNodes(objs)[o] => n \in Own(t, Len(objs[t]))
      BY <1>1, <1>3, <2>1, SMT DEF LinkedNodes, Own
    <3> QED
      BY <3>1, <3>2
  <2>2. CASE n[1] # t
    BY <1>2, <1>3, <2>2 DEF LinkedNodes, Own
  <2> QED
    BY <2>1, <2>2
<1>5. \A o \in Objects : LinkedNodes(new)[o] \subseteq Nodes /\ LinkedNodes(objs)[o] \subseteq Nodes
  BY DEF LinkedNodes
<1>6. \A o \in Objects : LinkedNodes(new)[o] = LinkedNodes(objs)[o] \ Own(t, Len(objs[t]))
  BY <1>4, <1>5
<1>7. LinkedNodes(new) = [o \in Objects |-> LinkedNodes(new)[o]]
  BY DEF LinkedNodes
<1> QED
  BY <1>6, <1>7 DEF new

\* When a wait of t begins, its nodes come into the lists of its objects.
LEMMA LinkedWith ==
  ASSUME NEW objs \in [Threads -> Lists], NEW t \in Threads, objs[t] = <<>>, NEW list \in Lists
  PROVE  LinkedNodes([objs EXCEPT ![t] = list]) = WithNodes(LinkedNodes(objs), t, list)
<1> DEFINE new == [objs EXCEPT ![t] = list]
<1>1. Len(list) \in Nat /\ DOMAIN list = 1 .. Len(list)
  BY ListFacts
<1>2. new[t] = list /\ \A x \in Threads : x # t => new[x] = objs[x]
  OBVIOUS
<1> HIDE DEF new
<1>3. \A n \in Nodes : n[1] \in Threads /\ n[2] \in 1 .. MaxObjects
  BY DEF Nodes
<1>4. ASSUME NEW o \in Objects, NEW n \in Nodes
      PROVE  n \in LinkedNodes(new)[o]
               <=> n \in LinkedNodes(objs)[o] \/ (n \in Own(t, Len(list)) /\ list[n[2]] = o)
  <2>1. CASE n[1] = t
    <3>1. n \notin LinkedNodes(objs)[o]
      BY <2>1, NoObjects DEF LinkedNodes
    <3>2. n[2] \in DOMAIN list <=> n \in Own(t, Len(list))
      BY <1>1, <1>3, <2>1, SMT DEF Own
    <3> QED
      BY <1>2, <2>1, <3>1, <3>2 DEF LinkedNodes
  <2>2. CASE n[1] # t
    BY <1>2, <1>3, <2>2 DEF LinkedNodes, Own
  <2> QED
    BY <2>1, <2>2
<1>5. \A o \in Objects : LinkedNodes(new)[o] \subseteq Nodes /\ LinkedNodes(objs)[o] \subseteq Nodes
  BY DEF LinkedNodes
<1>6. \A o \in Objects :
        LinkedNodes(new)[o] = LinkedNodes(objs)[o] \cup OwnFor(t, list, Len(list), o)
  BY <1>4, <1>5, SMT DEF Own, OwnFor
<1>7. LinkedNodes(new) = [o \in Objects |-> LinkedNodes(new)[o]]
  BY DEF LinkedNodes
<1> QED
  BY <1>6, <1>7 DEF new, WithNodes

----------------------------------------------------------------------------
(* The lists and the walk of NotifyAvailable. *)

\* Only a wait for objects has objects.
OnlyWaitsHaveObjects == \A t \in Threads : queue[t] # "sync" => objects[t] = <<>>

\* A node that is in no list points nowhere, unless NotifyAvailable has just
\* taken it out.
LooseNodesAreNull ==
  \A n \in Nodes : n[2] \notin DOMAIN objects[n[1]] /\ (Unlocked \/ queue[n[1]] = "sync") => next[n] = Null

\* NotifyAvailable is at the head of the list of its object, or at a node from
\* which it comes to that head by way of the nodes of waits that it has ended.
WalkLeadsToHead ==
  ~Unlocked => \E D : /\ Leads(Pointers, notify.object, notify.node, D, LinkedNodes(objects))
                      /\ \A d \in D : queue[d[1]] = "none"

\* A thread waits for a signalled object only while NotifyAvailable walks the
\* list of that object.
SignalsAreHandled ==
  \A t \in Threads : \A i \in DOMAIN objects[t] :
    objects[t][i] \in signaled => ~Unlocked /\ objects[t][i] = notify.object

ListInv ==
  /\ TypeOK /\ WaitInv /\ OnlyWaitsHaveObjects
  /\ \E r \in Ranks : AreLists(Pointers, LinkedNodes(objects), r)
  /\ LooseNodesAreNull /\ WalkLeadsToHead /\ SignalsAreHandled

LEMMA ListInvInit == Init => ListInv
<1> SUFFICES ASSUME Init PROVE ListInv
  OBVIOUS
<1> USE DEF Init
<1>1. TypeOK
  BY NoObjects, SMT DEF TypeOK
<1>2. WaitInv
  BY WaitInvInit
<1>3. OnlyWaitsHaveObjects /\ SignalsAreHandled
  BY DEF OnlyWaitsHaveObjects, SignalsAreHandled
<1>4. LooseNodesAreNull /\ WalkLeadsToHead
  BY DEF LooseNodesAreNull, WalkLeadsToHead, Unlocked
<1>5. \E r \in Ranks : AreLists(Pointers, LinkedNodes(objects), r)
  <2>1. LinkedNodes(objects) = [o \in Objects |-> {}]
    <3>1. \A n \in Nodes : n[1] \in Threads
      BY DEF Nodes
    <3>2. \A n \in Nodes : objects[n[1]] = <<>>
      BY <3>1
    <3>3. \A n \in Nodes : n[2] \notin DOMAIN objects[n[1]]
      BY <3>2, NoObjects
    <3>4. \A o \in Objects : {n \in Nodes : n[2] \in DOMAIN objects[n[1]] /\ objects[n[1]][n[2]] = o} = {}
      BY <3>3
    <3> QED
      BY <3>4 DEF LinkedNodes
  <2>2. \A o \in Objects : Pointers.head[o] = Null /\ Pointers.tail[o] = Null
    BY DEF Pointers
  <2>3. PICK r : r = [n \in Nodes |-> 0]
    OBVIOUS
  <2>4. AreLists(Pointers, LinkedNodes(objects), r)
    BY <2>1, <2>2 DEF AreLists, IsList
  <2> QED
    BY <2>3, <2>4 DEF Ranks
<1> QED
  BY <1>1, <1>2, <1>3, <1>4, <1>5 DEF ListInv

LEMMA PointersType == TypeOK => Pointers \in AllPointers
BY DEF TypeOK, Pointers, AllPointers

\* Steps that leave the lists and the waits for objects alone.
LEMMA FrameInv ==
  ASSUME ListInv, TypeOK', WaitInv', UNCHANGED <<objects, listVars, notify>>, signaled' \subseteq signaled,
         \A t \in Threads : queue'[t] = "sync" <=> queue[t] = "sync",
         Unlocked \/ queue' = queue
  PROVE  ListInv'
<1>0. /\ objects' = objects /\ next' = next /\ notify' = notify /\ Pointers' = Pointers
      /\ LinkedNodes(objects)' = LinkedNodes(objects)
  BY DEF listVars, Pointers, LinkedNodes
<1>1. OnlyWaitsHaveObjects'
  BY <1>0 DEF ListInv, OnlyWaitsHaveObjects
<1>2. LooseNodesAreNull'
  <2>1. \A n \in Nodes : n[1] \in Threads
    BY DEF Nodes
  <2> QED
    BY <1>0, <2>1 DEF ListInv, LooseNodesAreNull, Unlocked
<1>3. WalkLeadsToHead'
  <2>1. CASE Unlocked
    BY <1>0, <2>1 DEF WalkLeadsToHead, Unlocked
  <2>2. CASE queue' = queue
    BY <1>0, <2>2 DEF ListInv, WalkLeadsToHead, Unlocked
  <2> QED
    BY <2>1, <2>2
<1>4. SignalsAreHandled'
  BY <1>0 DEF ListInv, SignalsAreHandled, Unlocked
<1>5. \E r \in Ranks : AreLists(Pointers', LinkedNodes(objects)', r)
  BY <1>0 DEF ListInv
<1> QED
  BY <1>1, <1>2, <1>3, <1>4, <1>5 DEF ListInv

\* NotifyAvailable begins, at the head of the list.
LEMMA NotifyBegins ==
  ASSUME ListInv, Unlocked, NEW o \in Objects, signaled' = signaled \cup {o},
         notify' = [object |-> o, node |-> head[o]],
         UNCHANGED <<waitVars, waitCancelled, terminating, listVars>>
  PROVE  ListInv'
<1>0. /\ UNCHANGED <<state, queue, objects, result, synced, cancellable, timer>>
      /\ head' = head /\ tail' = tail /\ next' = next /\ Pointers' = Pointers
      /\ LinkedNodes(objects)' = LinkedNodes(objects)
  BY DEF waitVars, listVars, Pointers, LinkedNodes
<1>1. TypeOK'
  BY <1>0 DEF ListInv, TypeOK
<1>2. WaitInv'
  BY <1>0 DEF ListInv, WaitInv, WaitTypeOK, WaitsAreQueued, CancelIsForSyncWaits
<1>3. OnlyWaitsHaveObjects'
  BY <1>0 DEF ListInv, OnlyWaitsHaveObjects
<1>4. LooseNodesAreNull'
  BY <1>0 DEF ListInv, LooseNodesAreNull
<1>5. notify'.object = o /\ notify'.node = head[o] /\ ~Unlocked'
  <2>1. o # Null
    BY DEF Objects
  <2> QED
    BY <2>1 DEF Unlocked, NoNotify
<1>6. WalkLeadsToHead'
  <2>1. Leads(Pointers', o, head[o], {}, LinkedNodes(objects)')
    BY <1>0 DEF Leads, Pointers
  <2> QED
    BY <1>5, <2>1 DEF WalkLeadsToHead
<1>7. SignalsAreHandled'
  BY <1>0, <1>5 DEF ListInv, SignalsAreHandled
<1>8. \E r \in Ranks : AreLists(Pointers', LinkedNodes(objects)', r)
  BY <1>0 DEF ListInv
<1> QED
  BY <1>1, <1>2, <1>3, <1>4, <1>6, <1>7, <1>8 DEF ListInv

\* What the end of the wait of t does to the lists, and to the walk of NotifyAvailable.
LEMMA EndWaitLists ==
  ASSUME ListInv, NEW t \in Threads, NEW u, u = UnlinkNodes(Pointers, t, objects[t]),
         objects' = [objects EXCEPT ![t] = <<>>],
         NEW x \in Objects, NEW a, NEW D, Leads(Pointers, x, a, D, LinkedNodes(objects))
  PROVE  /\ u \in AllPointers
         /\ \E r \in Ranks : AreLists(u, LinkedNodes(objects'), r)
         /\ \A m \in Nodes : m[2] \notin DOMAIN objects[m[1]] => u.next[m] = next[m]
         /\ \E E \in SUBSET (D \cup Own(t, Len(objects[t]))) : Leads(u, x, a, E, LinkedNodes(objects'))
<1>1. objects \in [Threads -> Lists] /\ objects[t] \in Lists /\ Pointers \in AllPointers
  BY PointersType DEF ListInv, TypeOK
<1>2. PICK r \in Ranks : AreLists(Pointers, LinkedNodes(objects), r)
  BY DEF ListInv
<1>3. \A i \in 1 .. Len(objects[t]), o \in Objects : <<t, i>> \in LinkedNodes(objects)[o] <=> objects[t][i] = o
  <2>1. DOMAIN objects[t] = 1 .. Len(objects[t]) /\ \A i \in 1 .. Len(objects[t]) : <<t, i>> \in Nodes
    BY <1>1, ListFacts
  <2> QED
    BY <2>1 DEF LinkedNodes
<1>4. LinkedNodes(objects') = [o \in Objects |-> LinkedNodes(objects)[o] \ Own(t, Len(objects[t]))]
  BY <1>1, LinkedWithout
<1>5. /\ u \in AllPointers /\ AreLists(u, LinkedNodes(objects'), r)
      /\ \A m \in Nodes : (\A o \in Objects : m \notin LinkedNodes(objects)[o]) => u.next[m] = Pointers.next[m]
      /\ \E E \in SUBSET (D \cup Own(t, Len(objects[t]))) : Leads(u, x, a, E, LinkedNodes(objects'))
  <2> DEFINE W == LinkedNodes(objects)
             Y == LinkedNodes(objects')
             objs == objects[t]
             l == Pointers
  <2>1. /\ l \in AllPointers /\ objs \in Lists /\ AreLists(l, W, r) /\ Leads(l, x, a, D, W)
        /\ u = UnlinkNodes(l, t, objs) /\ Y = [o \in Objects |-> W[o] \ Own(t, Len(objs))]
    BY <1>1, <1>2, <1>4
  <2>2. \A i \in 1 .. Len(objs), o \in Objects : <<t, i>> \in W[o] <=> objs[i] = o
    BY <1>3
  <2> HIDE DEF W, Y, objs, l
  <2>3. /\ u \in AllPointers /\ AreLists(u, Y, r)
        /\ \A m \in Nodes : (\A o \in Objects : m \notin W[o]) => u.next[m] = l.next[m]
        /\ \E E \in SUBSET (D \cup Own(t, Len(objs))) : Leads(u, x, a, E, Y)
    BY <2>1, <2>2, UnlinkAll, SMTT(30)
  <2> QED
    BY <2>3 DEF W, Y, objs, l
<1>6. \A m \in Nodes : m[2] \notin DOMAIN objects[m[1]] => \A o \in Objects : m \notin LinkedNodes(objects)[o]
  BY DEF LinkedNodes
<1>7. Pointers.next = next
  BY DEF Pointers
<1> QED
  BY <1>5, <1>6, <1>7

\* A wait is cancelled.
LEMMA CancelWaitInv ==
  ASSUME ListInv, WaitInv', Unlocked, NEW t \in Threads, NEW res \in {"timeout", "cancelled", "terminate"},
         CancelWait(t, res), UNCHANGED <<signaled, notify>>,
         waitCancelled' \subseteq Threads, terminating' \subseteq Threads
  PROVE  ListInv'
<1> DEFINE u == UnlinkNodes(Pointers, t, objects[t])
<1>1. /\ state' = [state EXCEPT ![t] = "Runnable"] /\ queue' = [queue EXCEPT ![t] = "none"]
      /\ objects' = [objects EXCEPT ![t] = <<>>] /\ result' = [result EXCEPT ![t] = res]
      /\ synced' = [synced EXCEPT ![t] = synced[t]]
      /\ cancellable' = cancellable \ {t} /\ timer' = timer \ {t}
      /\ head' = u.head /\ tail' = u.tail
      /\ next' = [n \in Nodes |-> IF n[1] = t THEN Null ELSE u.next[n]]
  BY DEF CancelWait, EndWait
<1> HIDE DEF u
<1>2. TypeOK
  BY DEF ListInv
<1>3. Leads(Pointers, t, head[t], {}, LinkedNodes(objects)) /\ t \in Objects
  BY DEF Leads, Pointers, Objects
<1>4. /\ u \in AllPointers
      /\ \E r \in Ranks : AreLists(u, LinkedNodes(objects'), r)
      /\ \A m \in Nodes : m[2] \notin DOMAIN objects[m[1]] => u.next[m] = next[m]
  BY <1>1, <1>3, EndWaitLists DEF u
<1>5. TypeOK'
  <2>1. objects' \in [Threads -> Lists]
    BY <1>1, <1>2, NoObjects DEF TypeOK
  <2>2. /\ head' \in [Objects -> Nodes \cup {Null}] /\ tail' \in [Objects -> Nodes \cup {Null}]
        /\ next' \in [Nodes -> Nodes \cup {Null}]
    BY <1>1, <1>4 DEF AllPointers
  <2> QED
    BY <1>1, <1>2, <2>1, <2>2 DEF TypeOK
<1>6. \A n \in Nodes : n[1] \in Threads
  BY DEF Nodes
<1>7. objects'[t] = <<>> /\ queue'[t] = "none" /\ \A s \in Threads : s # t => objects'[s] = objects[s] /\ queue'[s] = queue[s]
  BY <1>1, <1>2, SMT DEF TypeOK
<1>8. OnlyWaitsHaveObjects'
  BY <1>7 DEF ListInv, OnlyWaitsHaveObjects
<1>9. LooseNodesAreNull'
  <2> SUFFICES ASSUME NEW n \in Nodes, n[2] \notin DOMAIN objects'[n[1]] PROVE next'[n] = Null
    BY DEF LooseNodesAreNull
  <2>1. CASE n[1] = t
    BY <1>1, <2>1
  <2>2. CASE n[1] # t
    <3>1. n[2] \notin DOMAIN objects[n[1]]
      BY <1>6, <1>7, <2>2
    <3>2. next[n] = Null
      BY <3>1 DEF ListInv, LooseNodesAreNull
    <3> QED
      BY <1>1, <1>4, <2>2, <3>1, <3>2
  <2> QED
    BY <2>1, <2>2
<1>10. Unlocked' /\ WalkLeadsToHead'
  BY DEF Unlocked, WalkLeadsToHead
<1>11. SignalsAreHandled'
  <2> SUFFICES ASSUME NEW s \in Threads, NEW i \in DOMAIN objects'[s], objects'[s][i] \in signaled PROVE FALSE
    BY DEF SignalsAreHandled
  <2>1. s # t
    BY <1>7, NoObjects
  <2> QED
    BY <1>7, <2>1 DEF ListInv, SignalsAreHandled
<1>12. \E r \in Ranks : AreLists(Pointers', LinkedNodes(objects'), r)
  <2>1. PICK r \in Ranks : AreLists(u, LinkedNodes(objects'), r)
    BY <1>4
  <2>2. Pointers'.head = u.head /\ Pointers'.tail = u.tail /\ Pointers'.next = next'
    BY <1>1 DEF Pointers
  <2>3. ASSUME NEW o \in Objects PROVE IsList(Pointers', o, LinkedNodes(objects')[o], r)
    <3>1. IsList(u, o, LinkedNodes(objects')[o], r)
      BY <2>1 DEF AreLists
    <3>2. \A n \in LinkedNodes(objects')[o] : n \in Nodes /\ n[1] # t
      BY <1>7, NoObjects DEF LinkedNodes
    <3>3. \A n \in LinkedNodes(objects')[o] : Pointers'.next[n] = u.next[n]
      BY <1>1, <2>2, <3>2
    <3>4. Pointers'.head[o] = u.head[o] /\ Pointers'.tail[o] = u.tail[o]
      BY <2>2
    <3> QED
      BY <3>1, <3>3, <3>4, SameList
  <2>4. AreLists(Pointers', LinkedNodes(objects'), r)
    BY <2>1, <2>3 DEF AreLists
  <2> QED
    BY <2>4
<1>13. LinkedNodes(objects)' = LinkedNodes(objects')
  BY DEF LinkedNodes
<1> QED
  BY <1>5, <1>8, <1>9, <1>10, <1>11, <1>12, <1>13 DEF ListInv

\* The first signalled object of a wait.
LEMMA FirstSignaledIs ==
  ASSUME NEW objs \in Lists, NEW t \in Threads
  PROVE  /\ FirstSignaled(objs) \in 0 .. MaxObjects
         /\ FirstSignaled(objs) = 0 => \A i \in DOMAIN objs : objs[i] \notin signaled
<1> DEFINE S == {i \in DOMAIN objs : objs[i] \in signaled}
<1>1. DOMAIN objs \subseteq 1 .. MaxObjects
  BY ListFacts, SMT
<1>2. S \subseteq Nat /\ S \subseteq 1 .. MaxObjects
  BY <1>1, SMT
<1>3. S # {} => FirstSignaled(objs) \in S
  <2> SUFFICES ASSUME S # {} PROVE FirstSignaled(objs) \in S
    OBVIOUS
  <2>1. FirstSignaled(objs) = CHOOSE i \in S : \A j \in S : i <= j
    BY DEF FirstSignaled
  <2>2. \E i \in S : \A j \in S : i <= j
    BY <1>2, LeastNatural
  <2> HIDE DEF S
  <2> QED
    BY <2>1, <2>2
<1>4. S = {} => FirstSignaled(objs) = 0
  BY DEF FirstSignaled
<1>5. FirstSignaled(objs) = 0 => S = {}
  BY <1>2, <1>3, SMT
<1> QED
  BY <1>2, <1>3, <1>4, <1>5, SMT

\* What the beginning of a wait of t does to the lists.
LEMMA WaitLists ==
  ASSUME ListInv, Unlocked, NEW t \in Threads, NEW objs \in Lists, objects[t] = <<>>,
         NEW u, u = LinkNodes(Pointers, t, objs), objects' = [objects EXCEPT ![t] = objs]
  PROVE  /\ u \in AllPointers /\ \E s \in Ranks : AreLists(u, LinkedNodes(objects'), s)
         /\ \A m \in Nodes : m[2] \notin DOMAIN objects'[m[1]] => u.next[m] = next[m]
<1>1. Pointers \in AllPointers /\ objects \in [Threads -> Lists] /\ Pointers.next = next
  BY PointersType DEF ListInv, TypeOK, Pointers
<1> DEFINE W == LinkedNodes(objects)
           Y == LinkedNodes(objects')
           l == Pointers
<1>2. Y = WithNodes(W, t, objs)
  BY <1>1, LinkedWith
<1>3. PICK r \in Ranks : AreLists(l, W, r)
  BY DEF ListInv
<1>4. \A n \in Nodes : n[1] = t => l.next[n] = Null /\ \A o \in Objects : n \notin W[o]
  <2> SUFFICES ASSUME NEW n \in Nodes, n[1] = t PROVE next[n] = Null /\ \A o \in Objects : n \notin W[o]
    BY <1>1
  <2>1. n[2] \notin DOMAIN objects[n[1]]
    BY NoObjects
  <2> QED
    BY <2>1 DEF ListInv, LooseNodesAreNull, LinkedNodes
<1>5. u = LinkNodes(l, t, objs) /\ l \in AllPointers
  BY <1>1
<1>6. \A m \in Nodes : m[2] \notin DOMAIN objects'[m[1]] => \A o \in Objects : m \notin Y[o]
  BY DEF LinkedNodes
<1> HIDE DEF l, W, Y
<1>7. /\ u \in AllPointers /\ \E s \in Ranks : AreLists(u, Y, s)
      /\ \A m \in Nodes : (\A o \in Objects : m \notin Y[o]) => u.next[m] = l.next[m]
  BY <1>2, <1>3, <1>4, <1>5, LinkAll, SMT
<1>8. \A m \in Nodes : m[2] \notin DOMAIN objects'[m[1]] => u.next[m] = next[m]
  BY <1>1, <1>6, <1>7 DEF l
<1> QED
  BY <1>7, <1>8 DEF Y

\* A thread begins to wait.
LEMMA WaitBegins ==
  ASSUME ListInv, WaitInv', Unlocked, NEW t \in Threads, NEW objs \in Lists, state[t] = "Runnable",
         FirstSignaled(objs) = 0, SetPointers(LinkNodes(Pointers, t, objs)),
         state' = [state EXCEPT ![t] = "Waiting"], queue' = [queue EXCEPT ![t] = "sync"],
         objects' = [objects EXCEPT ![t] = objs], synced' = [synced EXCEPT ![t] = 0],
         result' = [result EXCEPT ![t] = "none"], cancellable' = cancellable \cup {t},
         timer' \subseteq timer \cup {t}, UNCHANGED <<waitCancelled, terminating, signaled, notify>>
  PROVE  ListInv'
<1> DEFINE u == LinkNodes(Pointers, t, objs)
<1>1. TypeOK
  BY DEF ListInv
<1>2. queue[t] = "none" /\ objects[t] = <<>>
  BY DEF ListInv, WaitInv, WaitsAreQueued, OnlyWaitsHaveObjects
<1>6. head' = u.head /\ tail' = u.tail /\ next' = u.next
  BY DEF SetPointers
<1>7. /\ u \in AllPointers /\ \E s \in Ranks : AreLists(u, LinkedNodes(objects'), s)
      /\ \A m \in Nodes : m[2] \notin DOMAIN objects'[m[1]] => u.next[m] = next[m]
  <2>1. u = LinkNodes(Pointers, t, objs)
    OBVIOUS
  <2> HIDE DEF u
  <2> QED
    BY ONLY ListInv, Unlocked, t \in Threads, objs \in Lists, <1>2, <2>1, objects' = [objects EXCEPT ![t] = objs], WaitLists, Zenon
<1> HIDE DEF u
<1>8. Pointers' = u
  BY <1>6, <1>7 DEF Pointers, AllPointers
<1>9. TypeOK'
  <2>1. /\ head' \in [Objects -> Nodes \cup {Null}] /\ tail' \in [Objects -> Nodes \cup {Null}]
        /\ next' \in [Nodes -> Nodes \cup {Null}]
    BY <1>6, <1>7 DEF AllPointers
  <2> QED
    BY <1>1, <2>1, SMT DEF TypeOK
<1>10. objects'[t] = objs /\ queue'[t] = "sync" /\ \A s \in Threads : s # t => objects'[s] = objects[s] /\ queue'[s] = queue[s]
  BY <1>1 DEF TypeOK
<1>11. OnlyWaitsHaveObjects'
  BY <1>10 DEF ListInv, OnlyWaitsHaveObjects
<1>12. LooseNodesAreNull'
  <2> SUFFICES ASSUME NEW n \in Nodes, n[2] \notin DOMAIN objects'[n[1]] PROVE next'[n] = Null
    BY DEF LooseNodesAreNull
  <2>1. n[1] \in Threads
    BY DEF Nodes
  <2>3. next'[n] = next[n]
    BY <1>6, <1>7
  <2>4. n[2] \notin DOMAIN objects[n[1]]
    BY <1>2, <1>10, <2>1, NoObjects
  <2>5. next[n] = Null
    BY <2>4 DEF ListInv, LooseNodesAreNull
  <2> QED
    BY <2>3, <2>5
<1>13. Unlocked' /\ WalkLeadsToHead'
  BY DEF Unlocked, WalkLeadsToHead
<1>14. SignalsAreHandled'
  <2>1. \A i \in DOMAIN objs : objs[i] \notin signaled
    BY FirstSignaledIs
  <2> QED
    BY <1>10, <2>1, SMT DEF ListInv, SignalsAreHandled
<1>15. \E s \in Ranks : AreLists(Pointers', LinkedNodes(objects'), s)
  BY <1>7, <1>8
<1>16. LinkedNodes(objects)' = LinkedNodes(objects')
  BY DEF LinkedNodes
<1> QED
  BY <1>9, <1>11, <1>12, <1>13, <1>14, <1>15, <1>16 DEF ListInv

\* One iteration of NotifyAvailable.
LEMMA NotifyAvailableInv ==
  ASSUME ListInv, WaitInv', NotifyAvailable PROVE ListInv'
<1> DEFINE n == notify.node
           t == notify.node[1]
           o == notify.object
           u == UnlinkNodes(Pointers, t, objects[t])
<1>1. TypeOK /\ WaitInv /\ Pointers \in AllPointers /\ Pointers.next = next /\ Pointers.head = head
  BY PointersType DEF ListInv, TypeOK, Pointers
<1>2. /\ n # Null /\ notify' = [object |-> o, node |-> next'[n]]
      /\ UNCHANGED <<waitCancelled, terminating, signaled>>
  BY DEF NotifyAvailable
<1>3. ~Unlocked /\ o \in Objects /\ n \in Nodes /\ t \in Threads
  BY <1>1, <1>2, SMT DEF TypeOK, Unlocked, NoNotify, Nodes
<1>4. PICK D : Leads(Pointers, o, n, D, LinkedNodes(objects)) /\ \A d \in D : queue[d[1]] = "none"
  BY <1>3 DEF ListInv, WalkLeadsToHead
<1>5. notify'.object = o /\ notify'.node = next'[n] /\ ~Unlocked'
  <2>1. o # Null
    BY <1>3 DEF Objects
  <2> QED
    BY <1>2, <2>1 DEF Unlocked, NoNotify
<1>6. CASE state[t] # "Waiting"
  <2>1. UNCHANGED <<waitVars, listVars>>
    BY <1>6 DEF NotifyAvailable
  <2>2. /\ UNCHANGED <<state, queue, objects, result, synced, cancellable, timer, head, tail, next>>
        /\ Pointers' = Pointers /\ LinkedNodes(objects)' = LinkedNodes(objects)
    BY <2>1 DEF waitVars, listVars, Pointers, LinkedNodes
  <2>3. TypeOK'
    BY <1>1, <1>2, <1>3, <2>2 DEF TypeOK
  <2>4. n \in D
    <3> SUFFICES ASSUME n \notin D PROVE FALSE
      OBVIOUS
    <3>1. n = head[o]
      BY <1>1, <1>4 DEF Leads
    <3>2. PICK r \in Ranks : AreLists(Pointers, LinkedNodes(objects), r)
      BY DEF ListInv
    <3>3. n \in LinkedNodes(objects)[o]
      BY <1>1, <1>2, <1>3, <3>1, <3>2 DEF AreLists, IsList
    <3>4. n[2] \in DOMAIN objects[t]
      BY <1>3, <3>3 DEF LinkedNodes
    <3>5. queue[t] = "sync"
      BY <1>3, <3>4, NoObjects DEF ListInv, OnlyWaitsHaveObjects
    <3> QED
      BY <1>1, <1>3, <1>6, <3>5 DEF WaitInv, WaitsAreQueued
  <2>5. Leads(Pointers', o, next'[n], D, LinkedNodes(objects)')
    BY <1>1, <1>4, <2>2, <2>4 DEF Leads
  <2>6. WalkLeadsToHead'
    BY <1>4, <1>5, <2>2, <2>5 DEF WalkLeadsToHead
  <2>7. OnlyWaitsHaveObjects'
    BY <2>2 DEF ListInv, OnlyWaitsHaveObjects
  <2>8. LooseNodesAreNull'
    BY <1>5, <2>2 DEF ListInv, LooseNodesAreNull
  <2>9. SignalsAreHandled'
    BY <1>2, <1>5, <2>2 DEF ListInv, SignalsAreHandled
  <2>10. \E r \in Ranks : AreLists(Pointers', LinkedNodes(objects)', r)
    BY <2>2 DEF ListInv
  <2> QED
    BY <2>3, <2>6, <2>7, <2>8, <2>9, <2>10 DEF ListInv
<1>7. CASE state[t] = "Waiting"
  <2>1. /\ head' = u.head /\ tail' = u.tail /\ next' = u.next
        /\ state' = [state EXCEPT ![t] = "Runnable"] /\ queue' = [queue EXCEPT ![t] = "none"]
        /\ objects' = [objects EXCEPT ![t] = <<>>] /\ result' = [result EXCEPT ![t] = "success"]
        /\ synced' = [synced EXCEPT ![t] = SyncIndex(objects[t], o)]
        /\ cancellable' = cancellable \ {t} /\ timer' = timer \ {t}
    BY <1>7 DEF NotifyAvailable, SetPointers, EndWait
  <2>2. n \notin D /\ n = head[o]
    BY <1>1, <1>3, <1>4, <1>7 DEF Leads, WaitInv, WaitsAreQueued
  <2>3. n \in LinkedNodes(objects)[o] /\ n[2] \in DOMAIN objects[t] /\ objects[t][n[2]] = o
    <3>1. PICK r \in Ranks : AreLists(Pointers, LinkedNodes(objects), r)
      BY DEF ListInv
    <3>2. n \in LinkedNodes(objects)[o]
      BY <1>1, <1>2, <1>3, <2>2, <3>1 DEF AreLists, IsList
    <3> QED
      BY <1>3, <3>2 DEF LinkedNodes
  <2>4. /\ u \in AllPointers
        /\ \E r \in Ranks : AreLists(u, LinkedNodes(objects'), r)
        /\ \A m \in Nodes : m[2] \notin DOMAIN objects[m[1]] => u.next[m] = next[m]
        /\ \E E \in SUBSET (D \cup Own(t, Len(objects[t]))) : Leads(u, o, n, E, LinkedNodes(objects'))
    BY <1>3, <1>4, <2>1, EndWaitLists, ZenonT(60) DEF u
  <2>5. SyncIndex(objects[t], o) \in 0 .. MaxObjects
    <3> DEFINE S == {i \in DOMAIN objects[t] : objects[t][i] = o}
    <3>1. DOMAIN objects[t] \subseteq Nat /\ DOMAIN objects[t] \subseteq 0 .. MaxObjects
      <4>1. objects[t] \in Lists
        BY <1>1, <1>3 DEF TypeOK
      <4> QED
        BY <1>3, <4>1, ListFacts, SMT
    <3>2. S \subseteq Nat /\ S # {}
      BY <2>3, <3>1
    <3>3. \E i \in S : \A j \in S : i <= j
      BY <3>2, LeastNatural
    <3>4. \E i \in DOMAIN objects[t] : objects[t][i] = o /\ \A j \in DOMAIN objects[t] : objects[t][j] = o => i <= j
      BY <3>3
    <3>5. SyncIndex(objects[t], o) \in DOMAIN objects[t]
      BY <3>4 DEF SyncIndex
    <3> QED
      BY <3>1, <3>5
  <2> HIDE DEF u
  <2>6. Pointers' = u
    BY <2>1, <2>4 DEF Pointers, AllPointers
  <2>7. TypeOK'
    <3>1. /\ head' \in [Objects -> Nodes \cup {Null}] /\ tail' \in [Objects -> Nodes \cup {Null}]
          /\ next' \in [Nodes -> Nodes \cup {Null}]
      BY <2>1, <2>4 DEF AllPointers
    <3>2. objects' \in [Threads -> Lists]
      BY <1>1, <2>1, NoObjects DEF TypeOK
    <3>3. notify' \in [object : Objects, node : Nodes \cup {Null}]
      BY <1>2, <1>3, <3>1
    <3> QED
      BY <1>1, <1>2, <2>1, <2>5, <3>1, <3>2, <3>3 DEF TypeOK
  <2>8. objects'[t] = <<>> /\ queue'[t] = "none" /\ \A s \in Threads : s # t => objects'[s] = objects[s] /\ queue'[s] = queue[s]
    BY <1>1, <1>3, <2>1 DEF TypeOK
  <2>9. OnlyWaitsHaveObjects'
    BY <2>8 DEF ListInv, OnlyWaitsHaveObjects
  <2>10. LooseNodesAreNull'
    <3> SUFFICES ASSUME NEW m \in Nodes, m[2] \notin DOMAIN objects'[m[1]], queue'[m[1]] = "sync" PROVE next'[m] = Null
      BY <1>5 DEF LooseNodesAreNull
    <3>1. m[1] \in Threads /\ m[1] # t
      BY <2>8 DEF Nodes
    <3>2. m[2] \notin DOMAIN objects[m[1]] /\ queue[m[1]] = "sync"
      BY <2>8, <3>1
    <3>3. next[m] = Null
      BY <3>2 DEF ListInv, LooseNodesAreNull
    <3> QED
      BY <2>1, <2>4, <3>2, <3>3
  <2>11. WalkLeadsToHead'
    <3>1. PICK E \in SUBSET (D \cup Own(t, Len(objects[t]))) : Leads(u, o, n, E, LinkedNodes(objects'))
      BY <2>4
    <3>2. n \in E
      <4>1. PICK r \in Ranks : AreLists(u, LinkedNodes(objects'), r)
        BY <2>4
      <4>2. u.head[o] # n
        <5>1. u.head[o] \in LinkedNodes(objects')[o] \cup {Null}
          BY <1>3, <4>1 DEF AreLists, IsList
        <5>2. n \notin LinkedNodes(objects')[o]
          BY <1>3, <2>8, NoObjects DEF LinkedNodes
        <5> QED
          BY <1>2, <5>1, <5>2
      <4> QED
        BY <3>1, <4>2 DEF Leads
    <3>3. Leads(u, o, next'[n], E, LinkedNodes(objects'))
      BY <2>1, <3>1, <3>2 DEF Leads
    <3>4. \A d \in E : queue'[d[1]] = "none"
      <4> SUFFICES ASSUME NEW d \in E PROVE queue'[d[1]] = "none"
        OBVIOUS
      <4>1. d \in Nodes /\ d[1] \in Threads
        BY <3>1 DEF Leads, Nodes
      <4>2. d \in D \/ d[1] = t
        BY <3>1 DEF Own
      <4> QED
        BY <1>4, <2>8, <4>1, <4>2
    <3>5. LinkedNodes(objects)' = LinkedNodes(objects')
      BY DEF LinkedNodes
    <3> QED
      BY <1>5, <2>6, <3>3, <3>4, <3>5 DEF WalkLeadsToHead
  <2>12. SignalsAreHandled'
    <3> SUFFICES ASSUME NEW s \in Threads, NEW i \in DOMAIN objects'[s], objects'[s][i] \in signaled
                 PROVE  objects'[s][i] = o
      BY <1>2, <1>5 DEF SignalsAreHandled
    <3>1. s # t
      BY <2>8, NoObjects
    <3> QED
      BY <2>8, <3>1, SMT DEF ListInv, SignalsAreHandled
  <2>13. \E r \in Ranks : AreLists(Pointers', LinkedNodes(objects'), r)
    BY <2>4, <2>6
  <2>14. LinkedNodes(objects)' = LinkedNodes(objects')
    BY DEF LinkedNodes
  <2> QED
    BY <2>7, <2>9, <2>10, <2>11, <2>12, <2>13, <2>14 DEF ListInv
<1> QED
  BY <1>6, <1>7

\* NotifyAvailable ends, where the list of its object does.
LEMMA NotifyEndInv ==
  ASSUME ListInv, WaitInv', NotifyEnd PROVE ListInv'
<1> DEFINE o == notify.object
           W == LinkedNodes(objects)
<1>1. TypeOK /\ Pointers \in AllPointers /\ Pointers.next = next /\ Pointers.head = head /\ Pointers.tail = tail
  BY PointersType DEF ListInv, TypeOK, Pointers
<1>2. /\ notify # NoNotify /\ notify.node = Null /\ notify' = NoNotify
      /\ next' = [n \in Nodes |-> IF queue[n[1]] = "sync" THEN next[n] ELSE Null]
      /\ UNCHANGED <<state, queue, objects, result, synced, cancellable, timer, waitCancelled, terminating, signaled, head, tail>>
  BY DEF NotifyEnd, waitVars
<1>3. ~Unlocked /\ Unlocked' /\ o \in Objects
  BY <1>1, <1>2 DEF TypeOK, Unlocked
<1>4. PICK r \in Ranks : AreLists(Pointers, W, r)
  BY DEF ListInv
<1>5. W[o] = {}
  <2>1. head[o] = Null
    <3>1. PICK D : Leads(Pointers, o, Null, D, W)
      BY <1>2, <1>3 DEF ListInv, WalkLeadsToHead
    <3> QED
      BY <1>1, <3>1, NullIsNoNode DEF Leads
  <2>2. W[o] # {} => head[o] \in W[o] /\ W[o] \subseteq Nodes
    BY <1>1, <1>3, <1>4 DEF AreLists, IsList
  <2> QED
    BY <2>1, <2>2, NullIsNoNode
<1>6. TypeOK'
  BY <1>1, <1>2 DEF TypeOK
<1>7. OnlyWaitsHaveObjects'
  BY <1>2 DEF ListInv, OnlyWaitsHaveObjects
<1>8. LooseNodesAreNull'
  BY <1>2 DEF ListInv, LooseNodesAreNull
<1>9. WalkLeadsToHead'
  BY <1>3 DEF WalkLeadsToHead
<1>10. SignalsAreHandled'
  <2> SUFFICES ASSUME NEW s \in Threads, NEW i \in DOMAIN objects[s], objects[s][i] \in signaled PROVE FALSE
    BY <1>2 DEF SignalsAreHandled
  <2>1. objects[s][i] = o
    BY DEF ListInv, SignalsAreHandled
  <2>2. <<s, i>> \in Nodes
    <3>1. objects[s] \in Lists
      BY <1>1 DEF TypeOK
    <3> QED
      BY <3>1, ListFacts
  <2>3. <<s, i>> \in W[o]
    BY <1>3, <2>1, <2>2 DEF LinkedNodes
  <2> QED
    BY <1>5, <2>3
<1>11. ASSUME NEW x \in Objects PROVE IsList(Pointers', x, W[x], r)
  <2>1. IsList(Pointers, x, W[x], r)
    BY <1>4 DEF AreLists
  <2>2. Pointers'.head = head /\ Pointers'.tail = tail /\ Pointers'.next = next'
    BY <1>2 DEF Pointers
  <2>3. \A n \in W[x] : n \in Nodes /\ queue[n[1]] = "sync"
    <3> SUFFICES ASSUME NEW n \in W[x] PROVE n \in Nodes /\ queue[n[1]] = "sync"
      OBVIOUS
    <3>1. n \in Nodes /\ n[1] \in Threads /\ n[2] \in DOMAIN objects[n[1]]
      BY DEF LinkedNodes, Nodes
    <3> QED
      BY <3>1, NoObjects DEF ListInv, OnlyWaitsHaveObjects
  <2>4. \A n \in W[x] : Pointers'.next[n] = Pointers.next[n]
    BY <1>1, <1>2, <2>2, <2>3, SMT
  <2>5. Pointers'.head[x] = Pointers.head[x] /\ Pointers'.tail[x] = Pointers.tail[x]
    BY <1>1, <2>2
  <2> HIDE DEF W
  <2> QED
    BY <2>1, <2>4, <2>5, SameList
<1>12. AreLists(Pointers', W, r)
  BY <1>4, <1>11 DEF AreLists
<1>13. LinkedNodes(objects)' = W
  BY <1>2 DEF LinkedNodes
<1> QED
  BY <1>6, <1>7, <1>8, <1>9, <1>10, <1>12, <1>13 DEF ListInv

LEMMA ListInvStep == ListInv /\ [Next]_vars => ListInv'
<1> SUFFICES ASSUME ListInv, [Next]_vars PROVE ListInv'
  OBVIOUS
<1>1. TypeOK /\ WaitInv /\ WaitInv'
  BY WaitInvStep DEF ListInv
<1>2. ASSUME NEW t \in Threads, NEW objs \in Lists, NEW timeout \in Timeouts, Wait(t, objs, timeout) PROVE ListInv'
  <2>1. Unlocked /\ state[t] = "Runnable" /\ UNCHANGED <<terminating, signaled, notify>>
    BY <1>2 DEF Wait
  <2>2. ASSUME NEW res \in {"success", "timeout", "cancelled", "terminate"}, NEW index \in 0 .. MaxObjects,
               ReturnFromWait(t, res, index), waitCancelled' \subseteq waitCancelled
        PROVE  ListInv'
    <3>1. UNCHANGED <<state, queue, objects, cancellable, timer, listVars>>
      BY <2>2 DEF ReturnFromWait
    <3>2. TypeOK'
      BY <1>1, <2>1, <2>2 DEF TypeOK, ReturnFromWait, listVars
    <3> QED
      BY <1>1, <2>1, <3>1, <3>2, FrameInv
  <2>3. CASE \/ ReturnFromWait(t, "terminate", 0) /\ UNCHANGED waitCancelled
             \/ ReturnFromWait(t, "success", FirstSignaled(objs)) /\ UNCHANGED waitCancelled
             \/ ReturnFromWait(t, "timeout", 0) /\ UNCHANGED waitCancelled
             \/ ReturnFromWait(t, "cancelled", 0) /\ waitCancelled' = waitCancelled \ {t}
    <3>1. FirstSignaled(objs) \in 0 .. MaxObjects /\ 0 \in 0 .. MaxObjects
      BY FirstSignaledIs, SMT
    <3> QED
      BY <2>2, <2>3, <3>1
  <2>4. CASE /\ FirstSignaled(objs) = 0 /\ SetPointers(LinkNodes(Pointers, t, objs))
             /\ state' = [state EXCEPT ![t] = "Waiting"] /\ queue' = [queue EXCEPT ![t] = "sync"]
             /\ objects' = [objects EXCEPT ![t] = objs] /\ synced' = [synced EXCEPT ![t] = 0]
             /\ result' = [result EXCEPT ![t] = "none"] /\ cancellable' = cancellable \cup {t}
             /\ timer' \subseteq timer \cup {t} /\ UNCHANGED waitCancelled
    BY <1>1, <2>1, <2>4, WaitBegins
  <2> QED
    BY <1>2, <2>3, <2>4 DEF Wait
<1>3. ASSUME NEW t \in Threads, Sleep(t) PROVE ListInv'
  <2>1. /\ Unlocked /\ state[t] = "Runnable" /\ queue' = [queue EXCEPT ![t] = "sleep"]
        /\ UNCHANGED <<objects, listVars, notify, signaled>>
    BY <1>3 DEF Sleep
  <2>2. TypeOK'
    BY <1>1, <1>3, SMT DEF TypeOK, Sleep, listVars
  <2>3. \A s \in Threads : queue'[s] = "sync" <=> queue[s] = "sync"
    BY <1>1, <2>1, SMT DEF TypeOK, WaitInv, WaitsAreQueued
  <2> QED
    BY <1>1, <2>1, <2>2, <2>3, FrameInv
<1>4. ASSUME NEW t \in Threads, WaitCancel(t) PROVE ListInv'
  <2>1. Unlocked /\ UNCHANGED <<terminating, signaled, notify>>
    BY <1>4 DEF WaitCancel
  <2>2. CASE state[t] = "Waiting" /\ t \in cancellable
    <3>1. CancelWait(t, "cancelled") /\ waitCancelled' \subseteq Threads /\ terminating' \subseteq Threads
      BY <1>1, <1>4, <2>1, <2>2 DEF WaitCancel, TypeOK
    <3> QED
      BY <1>1, <2>1, <3>1, CancelWaitInv
  <2>3. CASE ~(state[t] = "Waiting" /\ t \in cancellable)
    <3>1. /\ waitCancelled' = waitCancelled \cup {t}
          /\ UNCHANGED <<state, queue, objects, result, synced, cancellable, timer, listVars>>
      BY <1>4, <2>3 DEF WaitCancel, waitVars
    <3>2. TypeOK'
      BY <1>1, <2>1, <3>1, SMT DEF TypeOK, listVars
    <3> QED
      BY <1>1, <2>1, <3>1, <3>2, FrameInv
  <2> QED
    BY <2>2, <2>3
<1>5. ASSUME NEW t \in Threads, OnTimer(t) PROVE ListInv'
  <2>1. Unlocked /\ state[t] = "Waiting" /\ UNCHANGED <<waitCancelled, terminating, signaled, notify>>
    BY <1>1, <1>5 DEF OnTimer, WaitInv, WaitsAreQueued
  <2>2. CancelWait(t, "timeout") /\ waitCancelled' \subseteq Threads /\ terminating' \subseteq Threads
    BY <1>1, <1>5, <2>1 DEF OnTimer, TypeOK
  <2> QED
    BY <1>1, <2>1, <2>2, CancelWaitInv
<1>6. ASSUME NEW t \in Threads, RequestTerminate(t) PROVE ListInv'
  <2>1. Unlocked /\ terminating' = terminating \cup {t} /\ UNCHANGED <<waitCancelled, signaled, notify>>
    BY <1>6 DEF RequestTerminate
  <2>2. CASE state[t] = "Waiting"
    <3>1. CancelWait(t, "terminate") /\ waitCancelled' \subseteq Threads /\ terminating' \subseteq Threads
      BY <1>1, <1>6, <2>1, <2>2 DEF RequestTerminate, TypeOK
    <3> QED
      BY <1>1, <2>1, <3>1, CancelWaitInv
  <2>3. CASE state[t] # "Waiting"
    <3>1. UNCHANGED <<state, queue, objects, result, synced, cancellable, timer, listVars>>
      BY <1>6, <2>3 DEF RequestTerminate, waitVars
    <3>2. TypeOK'
      BY <1>1, <2>1, <3>1 DEF TypeOK, listVars
    <3> QED
      BY <1>1, <2>1, <3>1, <3>2, FrameInv
  <2> QED
    BY <2>2, <2>3
<1>7. ASSUME NEW t \in Threads, Exit(t) PROVE ListInv'
  <2>1. /\ state' = [state EXCEPT ![t] = "Terminated"]
        /\ UNCHANGED <<queue, objects, result, synced, cancellable, timer>>
        /\ UNCHANGED <<waitCancelled, terminating, signaled, listVars, notify>>
    BY <1>7 DEF Exit
  <2>2. TypeOK'
    BY <1>1, <2>1 DEF TypeOK, listVars
  <2> QED
    BY <1>1, <2>1, <2>2, FrameInv
<1>8. ASSUME NEW e \in Events, Reset(e) PROVE ListInv'
  <2>1. /\ signaled' = signaled \ {e}
        /\ UNCHANGED <<state, queue, objects, result, synced, cancellable, timer>>
        /\ UNCHANGED <<waitCancelled, terminating, listVars, notify>>
    BY <1>8 DEF Reset, waitVars
  <2>2. TypeOK'
    BY <1>1, <2>1 DEF TypeOK, listVars
  <2> QED
    BY <1>1, <2>1, <2>2, FrameInv
<1>9. ASSUME NEW e \in Events, Signal(e) PROVE ListInv'
  <2>1. e \in Objects
    BY DEF Objects
  <2> QED
    BY <1>9, <2>1, NotifyBegins DEF Signal
<1>10. ASSUME NEW t \in Threads, FinishTermination(t) PROVE ListInv'
  <2>1. t \in Objects
    BY DEF Objects
  <2> QED
    BY <1>10, <2>1, NotifyBegins DEF FinishTermination
<1>11. CASE UNCHANGED vars
  <2>1. UNCHANGED <<state, queue, objects, result, synced, cancellable, timer, waitCancelled, terminating, signaled, listVars, notify>>
    BY <1>11 DEF vars, waitVars
  <2>2. TypeOK'
    BY <1>1, <2>1 DEF TypeOK, listVars
  <2> QED
    BY <1>1, <2>1, <2>2, FrameInv
<1>12. CASE KernelStep
  BY <1>1, <1>12, NotifyAvailableInv, NotifyEndInv DEF KernelStep
<1> QED
  BY <1>2, <1>3, <1>4, <1>5, <1>6, <1>7, <1>8, <1>9, <1>10, <1>11, <1>12 DEF Next

\* LinkNode and UnlinkNode keep the lists right: the list of an object holds the
\* nodes of the waits for it and no others, whatever the order in which waits
\* begin, are signalled, time out or are cancelled.
THEOREM SyncLists == SafetySpec => []ListsAreRight
<1>1. ListInv => ListsAreRight
  <2> SUFFICES ASSUME ListInv PROVE ListsAreRight
    OBVIOUS
  <2>1. TypeOK /\ Pointers \in AllPointers /\ Pointers.next = next /\ Pointers.head = head /\ Pointers.tail = tail
    BY PointersType DEF ListInv, TypeOK, Pointers
  <2>2. PICK r \in Ranks : AreLists(Pointers, LinkedNodes(objects), r)
    BY DEF ListInv
  <2>3. ASSUME NEW o \in Objects
        PROVE  /\ InList(Pointers, o) = {n \in Nodes : n[2] \in DOMAIN objects[n[1]] /\ objects[n[1]][n[2]] = o}
               /\ tail[o] = Null <=> head[o] = Null
               /\ tail[o] # Null => tail[o] \in InList(Pointers, o) /\ next[tail[o]] = Null
    <3> DEFINE V == LinkedNodes(objects)[o]
    <3>1. IsList(Pointers, o, V, r)
      BY <2>2 DEF AreLists
    <3>2. V = {n \in Nodes : n[2] \in DOMAIN objects[n[1]] /\ objects[n[1]][n[2]] = o}
      BY DEF LinkedNodes
    <3> HIDE DEF V
    <3>3. InList(Pointers, o) = V
      BY <2>1, <3>1, InListIs
    <3>4. /\ tail[o] = Null <=> head[o] = Null
          /\ tail[o] # Null => tail[o] \in V /\ next[tail[o]] = Null
      BY <2>1, <3>1, NullIsNoNode DEF IsList
    <3> QED
      BY <3>2, <3>3, <3>4
  <2> QED
    BY <2>1, <2>3 DEF ListsAreRight
<1>2. Init => ListInv
  BY ListInvInit
<1>3. ListInv /\ [Next]_vars => ListInv'
  BY ListInvStep
<1> QED
  BY <1>1, <1>2, <1>3, PTL DEF SafetySpec

\* No signal is missed: when NotifyAvailable is done nobody waits for the object
\* any more, although nodes leave the list while it walks along it.
THEOREM SyncNoMissedSignal == SafetySpec => []NoMissedSignal
<1>1. ListInv => NoMissedSignal
  BY DEF ListInv, SignalsAreHandled, NoMissedSignal
<1>2. Init => ListInv
  BY ListInvInit
<1>3. ListInv /\ [Next]_vars => ListInv'
  BY ListInvStep
<1> QED
  BY <1>1, <1>2, <1>3, PTL DEF SafetySpec
=============================================================================
