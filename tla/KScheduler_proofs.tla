------------------------- MODULE KScheduler_proofs -------------------------
(***************************************************************************)
(* The scheduler is correct: every call under the lock is a LockedStep, the *)
(* invariant is inductive, and the properties of KScheduler follow.        *)
(***************************************************************************)
EXTENDS KScheduler_update

\* Zenon is the prover of every leaf that names no other.
USE Zenon

\* The core that makes a call.
LEMMA CallFacts ==
  ASSUME TypeOK, NEW c \in Cores, NEW t \in Threads, Runs(c, t)
  PROVE  /\ c \in Cores \cup {Host} /\ c # Host
         /\ c \in Cores => pc[c] = "run" /\ current[c] \in Threads
         /\ IsCurrent(c, t)
  BY SchedulerAssumption DEF Runs, IsCurrent

\* KThread::BeginWait by the thread that the core executes.
LEMMA BeginWaitOK == ASSUME QueueInv, NEW c \in Cores, BeginWait(c) PROVE LockedStep(c)
<1>1. PICK t \in Threads :
        /\ Calls(c, t) /\ state[t] = "Runnable" /\ state' = [state EXCEPT ![t] = "Waiting"]
        /\ OnThreadStateChanged(c, t, Queued(t), FALSE)
        /\ UNCHANGED <<paused, retrying>>
  BY DEF BeginWait
<1>2. TypeOK /\ Runs(c, t)
  BY <1>1 DEF QueueInv, Calls
<1>3. DataOK(c)
  BY <1>1, <1>2 DEF DataOK, TypeOK
<1>4. PICK was \in BOOLEAN : was = Queued(t)
  BY DEF Queued
<1>5. /\ was = (t \in Runnables) /\ FALSE = (t \in Runnables')
      /\ Runnables' \ {t} = Runnables \ {t}
  BY <1>1, <1>2, <1>4, SMT DEF Runnables, Queued, TypeOK
<1>6. OnThreadStateChanged(c, t, was, FALSE)
  BY <1>1, <1>4
<1> QED
  BY <1>1, <1>2, <1>3, <1>5, <1>6, CallFacts, StateChangeOK

\* KThread::EndWait by another thread or by the timer.
LEMMA EndWaitOK ==
  ASSUME QueueInv, NEW actor \in Cores \cup {Host}, NEW u \in Threads, EndWait(actor, u)
  PROVE  LockedStep(actor)
<1>1. /\ actor # Host => \E t \in Threads : Calls(actor, t)
      /\ state[u] = "Waiting" /\ state' = [state EXCEPT ![u] = "Runnable"]
      /\ OnThreadStateChanged(actor, u, FALSE, u \notin paused)
      /\ UNCHANGED <<paused, retrying>>
  BY DEF EndWait
<1>2. TypeOK
  BY DEF QueueInv
<1>3. DataOK(actor)
  BY <1>1, <1>2 DEF DataOK, TypeOK
<1>4. /\ FALSE = (u \in Runnables) /\ (u \notin paused) = (u \in Runnables')
      /\ Runnables' \ {u} = Runnables \ {u}
  BY <1>1, <1>2, SMT DEF Runnables, Queued, TypeOK
<1>5. actor \in Cores => pc[actor] = "run" /\ current[actor] \in Threads
  BY <1>1, <1>2, CallFacts, SchedulerAssumption DEF Calls
<1> QED
  BY <1>1, <1>3, <1>4, <1>5, StateChangeOK

\* KThread::SetActivity to paused: the thread leaves the queues if it could run.
LEMMA PauseOK == ASSUME QueueInv, NEW c \in Cores, NEW u \in Threads, Pause(c, u) PROVE LockedStep(c)
<1>1. PICK t \in Threads \ {u} :
        /\ Calls(c, t) /\ state[u] \in {"Runnable", "Waiting"}
        /\ paused' = paused \cup {u}
        /\ OnThreadStateChanged(c, u, Queued(u), FALSE)
        /\ retrying' = [retrying EXCEPT ![t] = [target |-> u, allowed |-> {}]]
        /\ UNCHANGED state
  BY DEF Pause
<1>2. TypeOK /\ Runs(c, t)
  BY <1>1 DEF QueueInv, Calls
<1>3. DataOK(c)
  BY <1>1, <1>2 DEF DataOK, TypeOK
<1>4. PICK was \in BOOLEAN : was = Queued(u)
  BY DEF Queued
<1>5. /\ was = (u \in Runnables) /\ FALSE = (u \in Runnables')
      /\ Runnables' \ {u} = Runnables \ {u}
  BY <1>1, <1>2, <1>4, SMT DEF Runnables, Queued, TypeOK
<1>6. OnThreadStateChanged(c, u, was, FALSE)
  BY <1>1, <1>4
<1> QED
  BY <1>1, <1>2, <1>3, <1>5, <1>6, CallFacts, StateChangeOK

\* KThread::SetActivity to runnable.
LEMMA ResumeOK == ASSUME QueueInv, NEW c \in Cores, NEW u \in Threads, Resume(c, u) PROVE LockedStep(c)
<1>1. PICK t \in Threads : Calls(c, t)
  BY DEF Resume
<1>2. TypeOK /\ Runs(c, t)
  BY <1>1 DEF QueueInv, Calls
<1>3. /\ u \in paused /\ paused' = paused \ {u}
      /\ OnThreadStateChanged(c, u, FALSE, state[u] = "Runnable")
      /\ UNCHANGED <<state, retrying>>
  BY DEF Resume
<1>4. DataOK(c)
  BY <1>2, <1>3 DEF DataOK, TypeOK
<1>5. /\ FALSE = (u \in Runnables) /\ (state[u] = "Runnable") = (u \in Runnables')
      /\ Runnables' \ {u} = Runnables \ {u}
  BY <1>2, <1>3, SMT DEF Runnables, Queued, TypeOK
<1> QED
  BY <1>2, <1>3, <1>4, <1>5, CallFacts, StateChangeOK

\* The caller of SetCoreMask or SetActivity looks at the cores again.
LEMMA RetryUpdateOK == ASSUME QueueInv, NEW c \in Cores, RetryUpdate(c) PROVE LockedStep(c)
<1>1. PICK t \in Threads :
        /\ Runs(c, t)
        /\ retrying' = IF MustRetry(retrying[t]) THEN retrying ELSE [retrying EXCEPT ![t] = NoRetry]
        /\ Operation(c, q, FALSE, FALSE, {})
        /\ UNCHANGED <<state, paused>>
  BY DEF RetryUpdate
<1>2. TypeOK
  BY DEF QueueInv
<1>3. DataOK(c)
  BY <1>1, <1>2 DEF DataOK, TypeOK, NoRetry
<1>4. Runnables' = Runnables
  BY <1>1 DEF Runnables, Queued
<1> QED
  BY <1>1, <1>2, <1>3, <1>4, CallFacts, SameQueues

\* KThread::Exit: the thread that the core executes is in no queue any more.
LEMMA ExitOK == ASSUME QueueInv, NEW c \in Cores, Exit(c) PROVE LockedStep(c)
<1>1. PICK t \in Threads :
        /\ Calls(c, t) /\ state[t] = "Runnable"
        /\ state' = [state EXCEPT ![t] = "Terminated"]
        /\ paused' = paused \ {t}
        /\ Operation(c, IF Queued(t) THEN RemoveThread(q, t) ELSE q, TRUE, TRUE, {})
        /\ UNCHANGED retrying
  BY SchedulerAssumption DEF Exit
<1>2. TypeOK /\ Runs(c, t) /\ Holds(q, Runnables)
  BY <1>1 DEF QueueInv, Calls
<1>3. DataOK(c)
  BY <1>1, <1>2, CallFacts DEF DataOK, TypeOK
<1>4. Runnables' = Runnables \ {t} /\ Queued(t) = (t \in Runnables)
  BY <1>1, <1>2, SMT DEF Runnables, Queued, TypeOK
<1>5. PICK z : z = IF Queued(t) THEN RemoveThread(q, t) ELSE q
  OBVIOUS
<1>6. Holds(z, Runnables') /\ z.core = q.core
  <2>1. CASE t \in Runnables
    BY <1>2, <1>4, <1>5, <2>1, RemoveHolds
  <2>2. CASE t \notin Runnables
    BY <1>2, <1>4, <1>5, <2>2
  <2> QED
    BY <2>1, <2>2
<1>7. Prepared(c, z, TRUE, TRUE, {})
  BY <1>2, <1>3, <1>6, CallFacts DEF Prepared, QuietOK
<1> QED
  BY <1>1, <1>5, <1>7, OperationOK

\* The data of a thread that is in no queue may change.
LEMMA UnqueuedOK ==
  ASSUME QueueInv, NEW actor \in Cores \cup {Host},
         actor \in Cores => pc[actor] = "run" /\ current[actor] \in Threads,
         Runnables' = Runnables, DataOK(actor), NEW z \in Queues, NEW u \in Threads \ Runnables,
         z.scheduled = q.scheduled, z.suggested = q.suggested,
         \A t \in Threads \ {u} : /\ z.core[t] = q.core[t] /\ z.priority[t] = q.priority[t]
                                  /\ z.affinity[t] = q.affinity[t],
         z.core[u] \in z.affinity[u] \cup {NoCore}, q.core[u] \in Cores => z.core[u] \in Cores,
         Operation(actor, z, FALSE, FALSE, {})
  PROVE  LockedStep(actor)
<1>1. /\ Holds(q, Runnables) /\ highest = Tops(q) /\ IdleOK(q, Runnables) /\ QuietOK(q, Runnables, quiet \cup {})
      /\ Runnables \subseteq Threads \ {u}
  BY DEF QueueInv, Runnables
<1>2. \A t \in Threads : z.core[t] \in z.affinity[t] \cup {NoCore}
  BY <1>1, HoldsFacts
<1>3. Holds(z, Runnables)
  BY <1>1, <1>2, ChangeDataHolds, SMT
<1>4. Tops(z) = Tops(q)
  BY DEF Tops
<1>5. IdleOK(z, Runnables) /\ QuietOK(z, Runnables, quiet \cup {})
  BY <1>1, <1>4, SameData
<1>6. Prepared(actor, z, FALSE, FALSE, {})
  BY <1>1, <1>3, <1>4, <1>5 DEF Prepared
<1> QED
  BY <1>6, OperationOK

\* A change of priority moves no thread to another core.
LEMMA ChangePriorityCores ==
  ASSUME NEW y, NEW threads, Holds(y, threads), NEW t \in threads, NEW p, NEW isRunning
  PROVE  ChangePriority(y, t, p, isRunning).core = y.core
<1>1. PICK x : x = RemoveThread(y, t)
  OBVIOUS
<1>2. x \in Queues /\ x.core = y.core
  BY <1>1, RemoveHolds DEF Holds
<1>3. PICK r : r = [x EXCEPT !.priority[t] = p]
  OBVIOUS
<1>4. r.core = y.core /\ r = [scheduled |-> r.scheduled, suggested |-> r.suggested, core |-> r.core,
                              priority |-> r.priority, affinity |-> r.affinity]
  BY <1>2, <1>3 DEF Queues
<1>5. PushBack(r, t).core = r.core /\ PushFront(r, t).core = r.core
  BY <1>4 DEF PushBack, PushFront
<1>6. ChangePriority(y, t, p, isRunning) \in {PushBack(r, t), PushFront(r, t)}
  BY <1>1, <1>3 DEF ChangePriority
<1> QED
  BY <1>4, <1>5, <1>6

\* A change of mask moves the one thread to the core that is given.
LEMMA ChangeMaskCores ==
  ASSUME NEW y, NEW threads, Holds(y, threads), NEW t \in threads, NEW mask, NEW core
  PROVE  ChangeAffinityMask(y, t, mask, core).core = [y.core EXCEPT ![t] = core]
<1>1. PICK x : x = RemoveThread(y, t)
  OBVIOUS
<1>2. x \in Queues /\ x.core = y.core
  BY <1>1, RemoveHolds DEF Holds
<1>3. PICK r : r = [x EXCEPT !.affinity[t] = mask, !.core[t] = core]
  OBVIOUS
<1>4. r.core = [y.core EXCEPT ![t] = core]
      /\ r = [scheduled |-> r.scheduled, suggested |-> r.suggested, core |-> r.core,
              priority |-> r.priority, affinity |-> r.affinity]
  BY <1>2, <1>3 DEF Queues
<1>5. PushBack(r, t).core = r.core
  BY <1>4 DEF PushBack
<1>6. ChangeAffinityMask(y, t, mask, core) = PushBack(r, t)
  BY <1>1, <1>3 DEF ChangeAffinityMask
<1> QED
  BY <1>4, <1>5, <1>6

\* KThread::SetBasePriority with OnThreadPriorityChanged.
LEMMA SetPriorityOK ==
  ASSUME QueueInv, NEW c \in Cores, NEW u \in Threads, NEW p \in Priorities[u], SetPriority(c, u, p)
  PROVE  LockedStep(c)
<1>1. PICK t \in Threads :
        /\ Calls(c, t)
        /\ Operation(c, IF Queued(u) THEN ChangePriority(q, u, p, u = t) ELSE [q EXCEPT !.priority[u] = p],
                     Queued(u), Queued(u), {})
  BY DEF SetPriority
<1>2. TypeOK /\ Runs(c, t) /\ Holds(q, Runnables) /\ q \in Queues /\ UNCHANGED <<state, paused, retrying>>
  BY <1>1 DEF QueueInv, Calls, SetPriority, Holds
<1>3. p \in Nat
  BY SchedulerAssumption
<1>4. DataOK(c) /\ Runnables' = Runnables
  BY <1>2 DEF DataOK, TypeOK, Runnables, Queued
<1>5. CASE Queued(u)
  <2>1. PICK z : z = ChangePriority(q, u, p, u = t)
    OBVIOUS
  <2>2. Operation(c, z, TRUE, TRUE, {})
    BY <1>1, <1>5, <2>1
  <2>3. u \in Runnables
    BY <1>5 DEF Runnables
  <2>4. Holds(z, Runnables) /\ z.core = q.core
    <3>1. PICK isRunning \in BOOLEAN : isRunning = (u = t)
      OBVIOUS
    <3>2. z = ChangePriority(q, u, p, isRunning)
      BY <2>1, <3>1
    <3> QED
      BY <1>2, <1>3, <2>3, <3>2, ChangePriorityHolds, ChangePriorityCores, SMTT(30)
  <2>5. Prepared(c, z, TRUE, TRUE, {})
    BY <1>2, <1>4, <2>4, CallFacts DEF Prepared, QuietOK
  <2> QED
    BY <2>2, <2>5, OperationOK
<1>6. CASE ~Queued(u)
  <2>1. PICK z : z = [q EXCEPT !.priority[u] = p]
    OBVIOUS
  <2>0. Queued(u) = FALSE
    BY <1>6 DEF Queued
  <2>2. Operation(c, z, FALSE, FALSE, {})
    BY <1>1, <1>6, <2>0, <2>1
  <2>3. u \in Threads \ Runnables
    BY <1>6 DEF Runnables
  <2>4. /\ z.scheduled = q.scheduled /\ z.suggested = q.suggested /\ z.core = q.core /\ z.affinity = q.affinity
        /\ \A v \in Threads \ {u} : z.priority[v] = q.priority[v]
        /\ z \in Queues
    BY <1>2, <1>3, <2>1 DEF Queues
  <2>5. q.core[u] \in q.affinity[u] \cup {NoCore}
    BY <1>2, HoldsFacts
  <2> QED
    BY <1>2, <1>4, <2>2, <2>3, <2>4, <2>5, CallFacts, UnqueuedOK
<1> QED
  BY <1>5, <1>6

\* KThread::SetCoreMask with OnThreadAffinityMaskChanged.
LEMMA SetCoreMaskOK ==
  ASSUME QueueInv, NEW c \in Cores, NEW u \in Threads, NEW mask \in Masks[u], SetCoreMask(c, u, mask)
  PROVE  LockedStep(c)
<1>0. PICK t \in Threads, ideal \in mask :
        LET core == IF q.core[u] = NoCore \/ q.core[u] \in mask THEN q.core[u] ELSE ideal
        IN  /\ Calls(c, t)
            /\ Operation(c, IF Queued(u) THEN ChangeAffinityMask(q, u, mask, core)
                            ELSE [q EXCEPT !.affinity[u] = mask, !.core[u] = core],
                         Queued(u), Queued(u), {})
            /\ retrying' = [retrying EXCEPT ![t] = [target |-> u, allowed |-> mask]]
  BY DEF SetCoreMask
<1> DEFINE core == IF q.core[u] = NoCore \/ q.core[u] \in mask THEN q.core[u] ELSE ideal
<1>1. /\ Calls(c, t)
      /\ Operation(c, IF Queued(u) THEN ChangeAffinityMask(q, u, mask, core)
                      ELSE [q EXCEPT !.affinity[u] = mask, !.core[u] = core],
                   Queued(u), Queued(u), {})
      /\ retrying' = [retrying EXCEPT ![t] = [target |-> u, allowed |-> mask]]
  BY <1>0
<1>2. TypeOK /\ Runs(c, t) /\ Holds(q, Runnables) /\ q \in Queues /\ UNCHANGED <<state, paused>>
  BY <1>1 DEF QueueInv, Calls, SetCoreMask, Holds
<1>3. mask \subseteq Cores /\ core \in mask \cup {NoCore} /\ NoCore \notin Cores
      /\ (q.core[u] \in Cores => core \in Cores) /\ core \in Cores \cup {NoCore}
  <2>1. mask \subseteq Cores
    BY SchedulerAssumption
  <2>2. q.core[u] \in Cores \cup {NoCore}
    BY <1>2 DEF Queues
  <2>3. NoCore \notin Cores
    BY QueueAssumption, SMT DEF NoCore, Cores
  <2> QED
    BY <1>0, <2>1, <2>2, <2>3
<1> HIDE DEF core
<1>4. DataOK(c) /\ Runnables' = Runnables
  BY <1>1, <1>2, <1>3 DEF DataOK, TypeOK, Runnables, Queued
<1>5. CASE Queued(u)
  <2>1. PICK z : z = ChangeAffinityMask(q, u, mask, core)
    OBVIOUS
  <2>2. Operation(c, z, TRUE, TRUE, {})
    BY <1>1, <1>5, <2>1
  <2>3. u \in Runnables
    BY <1>5 DEF Runnables
  <2>4. Holds(z, Runnables) /\ z.core = [q.core EXCEPT ![u] = core]
    BY <1>2, <1>3, <2>1, <2>3, ChangeMaskHolds, ChangeMaskCores, SMTT(30)
  <2>5. \A v \in Threads : q.core[v] \in Cores => z.core[v] \in Cores
    BY <1>2, <1>3, <2>4 DEF Queues
  <2>6. Prepared(c, z, TRUE, TRUE, {})
    BY <1>2, <1>4, <2>4, <2>5, CallFacts DEF Prepared, QuietOK
  <2> QED
    BY <2>2, <2>6, OperationOK
<1>6. CASE ~Queued(u)
  <2>1. PICK z : z = [q EXCEPT !.affinity[u] = mask, !.core[u] = core]
    OBVIOUS
  <2>0. Queued(u) = FALSE
    BY <1>6 DEF Queued
  <2>2. Operation(c, z, FALSE, FALSE, {})
    BY <1>1, <1>6, <2>0, <2>1
  <2>3. u \in Threads \ Runnables
    BY <1>6 DEF Runnables
  <2>4. /\ z.scheduled = q.scheduled /\ z.suggested = q.suggested /\ z.priority = q.priority
        /\ \A v \in Threads \ {u} : z.core[v] = q.core[v] /\ z.affinity[v] = q.affinity[v]
        /\ z.core[u] = core /\ z.affinity[u] = mask
        /\ z \in Queues
    BY <1>2, <1>3, <2>1 DEF Queues
  <2> QED
    BY <1>2, <1>3, <1>4, <2>2, <2>3, <2>4, CallFacts, UnqueuedOK
<1> QED
  BY <1>5, <1>6

\* The periodic PreemptThreads of the timer thread.
LEMMA PreemptOK == ASSUME QueueInv, PreemptThreads PROVE LockedStep(Host)
<1>0. PICK older \in SUBSET Cores :
        LET after == Rotations(q, older)
        IN  Operation(Host, after[NumCores], TRUE, \E c \in Cores : after[c + 1] # after[c], {})
  BY DEF PreemptThreads
<1>1. PICK after : after = Rotations(q, older)
  OBVIOUS
<1> DEFINE counted == \E c \in Cores : after[c + 1] # after[c]
<1>2. PICK z : z = after[NumCores]
  OBVIOUS
<1>3. Operation(Host, z, TRUE, counted, {})
  BY <1>0, <1>1, <1>2
<1>4. /\ TypeOK /\ Holds(q, Runnables) /\ QuietOK(q, Runnables, quiet \cup {}) /\ UNCHANGED <<state, paused, retrying>>
      /\ Host \notin Cores
  BY SchedulerAssumption, SMT DEF QueueInv, PreemptThreads
<1>5. DataOK(Host) /\ Runnables' = Runnables
  BY <1>4 DEF DataOK, TypeOK, Runnables, Queued
<1>6. Keeps(q, Runnables, z) /\ (~counted => z = q)
  BY <1>1, <1>2, <1>4, RotationsKeep, SMT
<1> HIDE DEF counted
<1>7. Prepared(Host, z, TRUE, counted, {})
  BY <1>4, <1>5, <1>6 DEF Prepared, QuietOK, Keeps
<1> QED
  BY <1>3, <1>7, OperationOK

----------------------------------------------------------------------------
(* Yields. *)

\* First is at the least position of those it looks for.
LEMMA FirstIsLeast ==
  ASSUME NEW s \in Seq(Threads), NEW some, First(s, some) # NoThread
  PROVE  \E i \in 1 .. Len(s) : s[i] = First(s, some) /\ s[i] \in some /\ \A j \in 1 .. Len(s) : s[j] \in some => i <= j
<1> DEFINE found == {i \in DOMAIN s : s[i] \in some}
           m == CHOOSE i \in found : \A j \in found : i <= j
<1>1. found # {} /\ First(s, some) = s[m]
  BY DEF First
<1>2. found \subseteq Nat /\ DOMAIN s = 1 .. Len(s)
  BY SMT
<1>3. \E i \in found : \A j \in found : i <= j
  BY <1>1, <1>2, LeastNatural
<1>4. m \in found /\ \A j \in found : m <= j
  BY <1>3
<1> QED
  BY <1>1, <1>2, <1>4

\* A thread that is still the first of its priority after it was moved to the
\* back has its core's priority for itself, and its queue is as it was.
LEMMA BackIsFront ==
  ASSUME NEW y, NEW threads, Holds(y, threads), NEW t \in threads, NEW c \in Cores, c = y.core[t],
         NEW z, z = MoveToScheduledBack(y, t), GetFrontOf(z, z.scheduled[c], y.priority[t]) = t
  PROVE  /\ \A u \in threads : y.core[u] = c /\ y.priority[u] = y.priority[t] => u = t
         /\ Tops(z) = Tops(y)
<1>1. /\ z.priority = y.priority /\ t \in Threads /\ t # NoThread /\ y.priority \in [Threads -> Nat]
      /\ z.scheduled[c] = PushBackOn(y, RemoveOn(y.scheduled[c], t), t)
      /\ \A d \in Cores \ {c} : z.scheduled[d] = y.scheduled[d]
  BY MoveToBackHolds, HoldsFacts, QueueAssumption, SMT
<1>2. PICK s : s = y.scheduled[c]
  OBVIOUS
<1>3. PICK r : r = RemoveOn(s, t)
  OBVIOUS
<1>4. PICK w : w = PushBackOn(y, r, t)
  OBVIOUS
<1>5. s \in Seq(Threads) /\ Sorted(y, s) /\ Range(s) = ScheduledOn(y, threads, c) /\ t \in Range(s)
  BY <1>2, HoldsFacts, SMT DEF Lists, ScheduledOn, Scheduled
<1>6. r \in Seq(Threads) /\ Sorted(y, r) /\ Range(r) = Range(s) \ {t}
  BY <1>3, <1>5, RemoveOnFacts, SMT
<1>7. PICK k \in 1 .. Len(r) + 1 :
        /\ w = InsertAt(r, k, t)
        /\ \A i \in 1 .. k - 1 : y.priority[r[i]] <= y.priority[t]
        /\ \A i \in k .. Len(r) : y.priority[t] < y.priority[r[i]]
  <2>1. t \in Threads \ Range(r)
    BY <1>1, <1>6
  <2> QED
    BY <1>1, <1>4, <1>6, <2>1, PushBackOnFacts
<1>8. /\ w \in Seq(Threads) /\ Len(w) = Len(r) + 1
      /\ \A i \in 1 .. k - 1 : w[i] = r[i]
      /\ w[k] = t
  <2>1. /\ InsertAt(r, k, t) \in Seq(Threads) /\ Len(InsertAt(r, k, t)) = Len(r) + 1
        /\ \A i \in 1 .. k - 1 : InsertAt(r, k, t)[i] = r[i]
        /\ InsertAt(r, k, t)[k] = t
    <3>1. r \in Seq(Threads) /\ t \in Threads
      BY <1>1, <1>6
    <3> QED
      BY <3>1, InsertAtFacts, SMT
  <2> QED
    BY <1>7, <2>1
<1>9. PICK some : some = OfPriority(z, w, y.priority[t])
  OBVIOUS
<1>10. First(w, some) = t
  BY <1>1, <1>2, <1>3, <1>4, <1>9 DEF GetFrontOf
<1>11. PICK n \in 1 .. Len(w) : w[n] = t /\ \A j \in 1 .. Len(w) : w[j] \in some => n <= j
  <2>1. w \in Seq(Threads) /\ First(w, some) # NoThread
    BY <1>1, <1>8, <1>10
  <2>2. \E i \in 1 .. Len(w) : w[i] = First(w, some) /\ w[i] \in some /\ \A j \in 1 .. Len(w) : w[j] \in some => i <= j
    BY ONLY <2>1, FirstIsLeast, Zenon
  <2> QED
    BY ONLY <1>10, <2>2, Zenon
<1>12. Len(r) \in Nat /\ Len(w) \in Nat /\ k \in Nat /\ n \in Nat
  BY <1>6, <1>7, <1>8, <1>11, SMTT(30)
<1>13. \A i \in 1 .. Len(r) : r[i] # t /\ r[i] \in Threads
  BY <1>6, SMT DEF Range
<1>14. n >= k
  <2> SUFFICES ASSUME n < k PROVE FALSE
    BY <1>12, SMT
  <2>1. n \in 1 .. k - 1 /\ n \in 1 .. Len(r)
    BY <1>7, <1>11, <1>12, SMTT(30)
  <2> QED
    BY <1>8, <1>11, <1>13, <2>1
<1>15. \A i \in 1 .. Len(r) : y.priority[r[i]] # y.priority[t]
  <2> SUFFICES ASSUME NEW i \in 1 .. Len(r), y.priority[r[i]] = y.priority[t] PROVE FALSE
    OBVIOUS
  <2>1. y.priority[t] \in Nat
    BY <1>1
  <2>2. i \in 1 .. k - 1
    <3>1. i \notin k .. Len(r)
      BY <1>7, <2>1, SMTT(30)
    <3> QED
      BY <1>12, <3>1, SMT
  <2>3. i \in 1 .. Len(w) /\ w[i] = r[i]
    BY <1>8, <1>12, <2>2, SMTT(30)
  <2>4. w[i] \in some
    BY <1>1, <1>9, <2>3, SMT DEF OfPriority, Range
  <2>5. n <= i
    BY <1>11, <2>3, <2>4
  <2> QED
    BY <1>12, <1>14, <2>2, <2>5, SMT
<1>16. \A u \in threads : y.core[u] = c /\ y.priority[u] = y.priority[t] => u = t
  <2> SUFFICES ASSUME NEW u \in threads, y.core[u] = c, y.priority[u] = y.priority[t], u # t PROVE FALSE
    OBVIOUS
  <2>1. u \in Range(r)
    BY <1>5, <1>6 DEF ScheduledOn, Scheduled
  <2> QED
    BY <1>6, <1>15, <2>1, SMT DEF Range
<1>17. GetFront(w) = GetFront(s)
  <2>1. GetFront(w) = w[1] /\ 1 \in 1 .. Len(w)
    BY <1>8, <1>12, SMT DEF GetFront
  <2>2. GetFront(s) # t => GetFront(r) = GetFront(s)
    BY <1>3, <1>5, RemoveFront
  <2>3. CASE k = 1
    <3>1. w[1] = t
      BY <1>8, <2>3
    <3> SUFFICES ASSUME GetFront(s) # t PROVE FALSE
      BY <2>1, <3>1
    <3>2. GetFront(s) \in Range(s) /\ GetFront(s) = s[1] /\ 1 \in DOMAIN s
      BY <1>5, GetFrontFacts
    <3>3. PICK p \in DOMAIN s : s[p] = t
      BY <1>5 DEF Range
    <3>4. 1 < p
      BY <1>5, <3>2, <3>3, SMTT(30)
    <3>5. y.priority[s[1]] <= y.priority[t]
      BY <1>5, <3>2, <3>3, <3>4 DEF Sorted
    <3>6. s[1] \in Range(r) /\ s[1] \in Threads
      BY <1>5, <1>6, <3>2, SMTT(30)
    <3>7. PICK i \in 1 .. Len(r) : r[i] = s[1]
      BY <1>6, <3>6, SMT DEF Range
    <3>8. y.priority[t] < y.priority[r[i]]
      BY <1>7, <2>3, <3>7
    <3> QED
      BY <1>1, <3>5, <3>6, <3>7, <3>8, SMT
  <2>4. CASE k # 1
    <3>1. 1 \in 1 .. k - 1 /\ 1 \in 1 .. Len(r)
      BY <1>7, <1>12, <2>4, SMTT(30)
    <3>2. w[1] = r[1] /\ GetFront(r) = r[1] /\ y.priority[r[1]] <= y.priority[t]
      BY <1>6, <1>7, <1>8, <3>1, SMTT(30) DEF GetFront
    <3> SUFFICES ASSUME GetFront(s) = t PROVE FALSE
      BY <2>1, <2>2, <3>2
    <3>3. t = s[1] /\ 1 \in DOMAIN s
      BY <1>1, <1>5, GetFrontFacts
    <3>9. r[1] \in Range(r) /\ r[1] # t /\ r[1] \in Threads
      BY <1>6, <1>13, <3>1, SMTT(30) DEF Range
    <3>4. r[1] \in Range(s) /\ r[1] # t /\ r[1] \in Threads
      BY <1>6, <3>9
    <3>5. PICK p \in DOMAIN s : s[p] = r[1]
      BY <1>5, <3>4 DEF Range
    <3>6. 1 < p
      BY <1>5, <3>3, <3>4, <3>5, SMT
    <3>7. y.priority[t] <= y.priority[r[1]]
      BY <1>5, <3>3, <3>5, <3>6 DEF Sorted
    <3>8. y.priority[t] \in Nat /\ y.priority[r[1]] \in Nat
      BY <1>1, <3>4
    <3> QED
      BY <1>15, <3>1, <3>2, <3>7, <3>8, SMTT(30)
  <2> QED
    BY <2>3, <2>4
<1>18. \A d \in Cores : GetFront(z.scheduled[d]) = GetFront(y.scheduled[d])
  BY <1>1, <1>2, <1>3, <1>4, <1>17
<1>19. Tops(z) = Tops(y)
  BY <1>18 DEF Tops
<1> QED
  BY <1>16, <1>19

\* The thread that yields.
LEMMA YieldFacts ==
  ASSUME QueueInv, RunnersHaveCores, NEW c \in Cores, NEW t \in Threads, Yields(c, t),
         UNCHANGED <<state, paused, retrying>>
  PROVE  /\ t \in Runnables /\ q.core[t] \in Cores /\ Holds(q, Runnables)
         /\ c \in Cores \cup {Host} /\ pc[c] = "run" /\ current[c] \in Threads
         /\ IsCurrent(c, t) /\ DataOK(c) /\ Runnables' = Runnables
<1>1. TypeOK /\ Runs(c, t) /\ Queued(t) /\ Holds(q, Runnables)
  BY DEF QueueInv, Yields, Calls
<1>2. pc[c] = "run" /\ current[c] = t
  BY <1>1 DEF Runs
<1>3. DataOK(c) /\ Runnables' = Runnables
  BY <1>1 DEF DataOK, TypeOK, Runnables, Queued
<1> QED
  BY <1>1, <1>2, <1>3, CallFacts DEF RunnersHaveCores, Runnables

\* The yield that found nobody leaves the queues as they are.
LEMMA NobodyToYieldTo ==
  ASSUME QueueInv, NEW t \in Runnables, q.core[t] \in Cores, NEW z, z = MoveToScheduledBack(q, t),
         GetFrontOf(z, z.scheduled[q.core[t]], q.priority[t]) = t
  PROVE  Tops(z) = highest /\ IdleOK(z, Runnables) /\ QuietOK(z, Runnables, {t})
<1>1. Holds(q, Runnables) /\ highest = Tops(q) /\ IdleOK(q, Runnables)
  BY DEF QueueInv
<1>2. /\ \A u \in Runnables : q.core[u] = q.core[t] /\ q.priority[u] = q.priority[t] => u = t
      /\ Tops(z) = Tops(q)
  <2>1. PICK here \in Cores : here = q.core[t]
    OBVIOUS
  <2> QED
    BY <1>1, <2>1, BackIsFront, SMT
<1>3. z.core = q.core /\ z.priority = q.priority /\ z.affinity = q.affinity
  BY <1>1, MoveToBackHolds, SMT
<1>4. IdleOK(z, Runnables)
  BY <1>1, <1>2, <1>3, SameData
<1> QED
  BY <1>1, <1>2, <1>3, <1>4 DEF QuietOK

\* YieldWithoutCoreMigration keeps the invariant of the queues.
LEMMA YieldWithoutOK ==
  ASSUME QueueInv, RunnersHaveCores, NEW c \in Cores, YieldWithoutCoreMigration(c)
  PROVE  LockedStep(c)
<1>0. PICK t \in Threads :
        LET z == MoveToScheduledBack(q, t)
            n == GetFrontOf(z, z.scheduled[q.core[t]], q.priority[t])
        IN  /\ Yields(c, t)
            /\ Operation(c, z, n # t, TRUE, IF n = t THEN {t} ELSE {})
  BY DEF YieldWithoutCoreMigration
<1> DEFINE z == MoveToScheduledBack(q, t)
           n == GetFrontOf(z, z.scheduled[q.core[t]], q.priority[t])
           yielded == IF n = t THEN {t} ELSE {}
<1>1. Yields(c, t) /\ Operation(c, z, n # t, TRUE, yielded)
  BY <1>0
<1>2. UNCHANGED <<state, paused, retrying>>
  BY DEF YieldWithoutCoreMigration
<1>3. /\ t \in Runnables /\ q.core[t] \in Cores /\ Holds(q, Runnables)
      /\ c \in Cores \cup {Host} /\ pc[c] = "run" /\ current[c] \in Threads
      /\ IsCurrent(c, t) /\ DataOK(c) /\ Runnables' = Runnables
  BY <1>1, <1>2, YieldFacts
<1>4. Holds(z, Runnables) /\ z.core = q.core
  BY <1>3, MoveToBackHolds, SMT
<1>5. n = t => Tops(z) = highest /\ IdleOK(z, Runnables) /\ QuietOK(z, Runnables, {t})
  BY <1>3, NobodyToYieldTo
<1>6. yielded \subseteq Threads /\ QuietOK(z, Runnables, yielded)
  <2>1. CASE n = t
    BY <1>5, <2>1
  <2>2. CASE n # t
    BY <2>2 DEF QuietOK
  <2> QED
    BY <2>1, <2>2
<1> HIDE DEF z, n, yielded
<1>7. Prepared(c, z, n # t, TRUE, yielded)
  BY <1>3, <1>4, <1>5, <1>6 DEF Prepared
<1> QED
  BY <1>1, <1>7, OperationOK

\* YieldWithCoreMigration: the next thread of the priority, or a suggested one
\* that has waited longer.
LEMMA YieldWithOK ==
  ASSUME QueueInv, RunnersHaveCores, NEW c \in Cores, YieldWithCoreMigration(c)
  PROVE  LockedStep(c)
<1>0. PICK t \in Threads, older \in BOOLEAN :
       LET here == q.core[t]
           z == MoveToScheduledBack(q, t)
           n == GetFrontOf(z, z.scheduled[here], q.priority[t])
           others == NotTop(z, highest, here)
           Ends(s) == \/ q.priority[s] > q.priority[t]
                      \/ q.priority[s] = q.priority[t] /\ n # t /\ older
           s == First(z.suggested[here], {o \in others : Ends(o) \/ Movable(z, Top(highest, z.core[o]))})
           moves == s # NoThread /\ ~Ends(s)
           recheck == First(z.suggested[here], others) # s
       IN  /\ Yields(c, t)
           /\ Operation(c, IF moves THEN ChangeCore(z, s, here, TRUE) ELSE z,
                        moves \/ n # t, TRUE, IF moves \/ n # t \/ recheck THEN {} ELSE {t})
  BY DEF YieldWithCoreMigration
<1> DEFINE here == q.core[t]
           z == MoveToScheduledBack(q, t)
           n == GetFrontOf(z, z.scheduled[here], q.priority[t])
           others == NotTop(z, highest, here)
           Ends(s) == \/ q.priority[s] > q.priority[t]
                      \/ q.priority[s] = q.priority[t] /\ n # t /\ older
           s == First(z.suggested[here], {o \in others : Ends(o) \/ Movable(z, Top(highest, z.core[o]))})
           moves == s # NoThread /\ ~Ends(s)
           recheck == First(z.suggested[here], others) # s
           r == IF moves THEN ChangeCore(z, s, here, TRUE) ELSE z
           yielded == IF moves \/ n # t \/ recheck THEN {} ELSE {t}
<1>1. Yields(c, t) /\ Operation(c, r, moves \/ n # t, TRUE, yielded)
  BY <1>0
<1>2. UNCHANGED <<state, paused, retrying>>
  BY DEF YieldWithCoreMigration
<1>3. /\ t \in Runnables /\ here \in Cores /\ Holds(q, Runnables)
      /\ c \in Cores \cup {Host} /\ pc[c] = "run" /\ current[c] \in Threads
      /\ IsCurrent(c, t) /\ DataOK(c) /\ Runnables' = Runnables
  BY <1>1, <1>2, YieldFacts
<1>4. Holds(z, Runnables) /\ z.core = q.core
  BY <1>3, MoveToBackHolds, SMT
<1>5. n = t => Tops(z) = highest /\ IdleOK(z, Runnables) /\ QuietOK(z, Runnables, {t})
  BY <1>3, NobodyToYieldTo
<1>6. s # NoThread => s \in SuggestedFor(z, Runnables, here)
  <2>1. PICK some : some = {o \in others : Ends(o) \/ Movable(z, Top(highest, z.core[o]))}
    OBVIOUS
  <2>2. s = First(z.suggested[here], some)
    BY <2>1
  <2> HIDE DEF s, z, here
  <2>3. z.suggested[here] \in Seq(Threads) /\ Range(z.suggested[here]) = SuggestedFor(z, Runnables, here)
    BY <1>3, <1>4, HoldsFacts DEF Lists
  <2> QED
    BY <2>2, <2>3, FirstFacts, SMT
<1>7. /\ moves => s # NoThread /\ r = ChangeCore(z, s, here, TRUE)
      /\ ~moves => r = z
      /\ moves \/ n # t => yielded = {}
      /\ yielded \in {{}, {t}}
  OBVIOUS
<1> HIDE DEF z, n, s, moves, recheck, r, yielded, here, others
<1>8. Keeps(q, Runnables, r)
  <2>1. Keeps(q, Runnables, z)
    BY <1>4 DEF Keeps
  <2>2. CASE moves
    <3>1. s \in SuggestedFor(z, Runnables, here) /\ r = ChangeCore(z, s, here, TRUE) /\ here \in Cores
      BY <1>3, <1>6, <1>7, <2>2
    <3>2. Keeps(q, Runnables, ChangeCore(z, s, here, TRUE))
      BY <2>1, <3>1, ChangeCoreKeeps
    <3> QED
      BY <3>1, <3>2
  <2>3. CASE ~moves
    BY <1>7, <2>1, <2>3
  <2> QED
    BY <2>2, <2>3
<1>9. ~(moves \/ n # t) => Tops(r) = highest /\ IdleOK(r, Runnables)
  BY <1>5, <1>7
<1>10. yielded \subseteq Threads /\ QuietOK(r, Runnables, yielded)
  <2>1. CASE moves \/ n # t
    BY <1>7, <2>1 DEF QuietOK
  <2>2. CASE ~(moves \/ n # t)
    BY <1>5, <1>7, <2>2 DEF QuietOK
  <2> QED
    BY <2>1, <2>2
<1>11. Prepared(c, r, moves \/ n # t, TRUE, yielded)
  BY <1>3, <1>8, <1>9, <1>10 DEF Prepared, Keeps
<1> QED
  BY <1>1, <1>11, OperationOK

\* YieldToAnyThread: the caller gives its core up, and a suggested thread that
\* is not the top of its core comes if nobody else is there.
LEMMA YieldToAnyOK ==
  ASSUME QueueInv, RunnersHaveCores, NEW c \in Cores, YieldToAnyThread(c)
  PROVE  LockedStep(c)
<1>0. PICK t \in Threads :
       LET here == q.core[t]
           z == ChangeCore(q, t, NoCore, FALSE)
           s == First(z.suggested[here], NotTop(z, Tops(z), here))
           alone == z.scheduled[here] = <<>>
           moves == alone /\ s # NoThread /\ Movable(z, Top(Tops(z), z.core[s]))
       IN  /\ Yields(c, t)
           /\ Operation(c, IF moves THEN ChangeCore(z, s, here, FALSE) ELSE z,
                        ~(alone /\ s = t), TRUE, IF alone /\ s = t THEN {t} ELSE {})
  BY DEF YieldToAnyThread
<1> DEFINE here == q.core[t]
           z == ChangeCore(q, t, NoCore, FALSE)
           s == First(z.suggested[here], NotTop(z, Tops(z), here))
           alone == z.scheduled[here] = <<>>
           moves == alone /\ s # NoThread /\ Movable(z, Top(Tops(z), z.core[s]))
           r == IF moves THEN ChangeCore(z, s, here, FALSE) ELSE z
           yielded == IF alone /\ s = t THEN {t} ELSE {}
<1>1. Yields(c, t) /\ Operation(c, r, ~(alone /\ s = t), TRUE, yielded)
  BY <1>0
<1>2. UNCHANGED <<state, paused, retrying>>
  BY DEF YieldToAnyThread
<1>3. /\ t \in Runnables /\ here \in Cores /\ Holds(q, Runnables)
      /\ c \in Cores \cup {Host} /\ pc[c] = "run" /\ current[c] \in Threads
      /\ IsCurrent(c, t) /\ DataOK(c) /\ Runnables' = Runnables
  BY <1>1, <1>2, YieldFacts
<1>4. NoCore \notin Cores /\ here # NoCore /\ t \in Threads /\ NoThread \notin Threads /\ Runnables \subseteq Threads
  <2>1. NoCore \notin Cores
    BY QueueAssumption, SMT DEF NoCore, Cores
  <2>2. Runnables \subseteq Threads
    BY DEF Runnables
  <2> HIDE DEF here
  <2> QED
    BY <1>3, <2>1, <2>2, QueueAssumption, SMTT(30)
<1>5. s = First(z.suggested[here], NotTop(z, Tops(z), here))
  OBVIOUS
<1>6. /\ moves <=> alone /\ s # NoThread /\ Movable(z, Top(Tops(z), z.core[s]))
      /\ moves => r = ChangeCore(z, s, here, FALSE)
      /\ ~moves => r = z
      /\ alone /\ s = t => yielded = {t}
      /\ ~(alone /\ s = t) => yielded = {}
      /\ alone => z.scheduled[here] = <<>>
  OBVIOUS
<1>7. z = ChangeCore(q, t, NoCore, FALSE)
  BY SMTT(30)
<1> HIDE DEF z, s, alone, moves, r, yielded
<1>8. Holds(z, Runnables) /\ MovedTo(q, t, NoCore, z)
  BY <1>3, <1>4, <1>7, ChangeCoreHolds, ChangeCoreFields
<1>9. /\ z.core = [q.core EXCEPT ![t] = NoCore] /\ z.priority = q.priority /\ z.affinity = q.affinity
      /\ \A d \in Cores \ {here} : z.scheduled[d] = q.scheduled[d]
  BY <1>4, <1>8 DEF MovedTo
<1>10. q.core \in [Threads -> Cores \cup {NoCore}]
  BY <1>3, HoldsFacts
<1>11. z.core[t] = NoCore /\ \A u \in Threads \ {t} : z.core[u] = q.core[u]
  BY <1>4, <1>9, <1>10
<1>12. s # NoThread => s \in SuggestedFor(z, Runnables, here)
  <2>1. z.suggested[here] \in Seq(Threads) /\ Range(z.suggested[here]) = SuggestedFor(z, Runnables, here)
    BY <1>3, <1>8, HoldsFacts DEF Lists
  <2> QED
    BY <1>5, <2>1, FirstFacts, SMTT(30)
<1> HIDE DEF here
<1>13. Keeps(z, Runnables, r)
  <2>1. Keeps(z, Runnables, z)
    BY <1>8 DEF Keeps
  <2>2. CASE moves
    <3>1. s \in SuggestedFor(z, Runnables, here) /\ r = ChangeCore(z, s, here, FALSE) /\ here \in Cores
      BY <1>3, <1>6, <1>12, <2>2
    <3>2. Keeps(z, Runnables, ChangeCore(z, s, here, FALSE))
      BY <2>1, <3>1, ChangeCoreKeeps
    <3> QED
      BY <3>1, <3>2
  <2>3. CASE ~moves
    BY <1>6, <2>1, <2>3
  <2> QED
    BY <2>2, <2>3
<1>14. \A u \in Threads : q.core[u] \in Cores => r.core[u] \in Cores \/ IsCurrent(c, u)
  BY <1>3, <1>11, <1>13 DEF Keeps
<1>15. ASSUME alone, s = t
       PROVE  Tops(r) = highest /\ IdleOK(r, Runnables) /\ QuietOK(r, Runnables, {t})
  <2>1. moves /\ r = ChangeCore(z, t, here, FALSE) /\ t \in SuggestedFor(z, Runnables, here)
    BY <1>4, <1>6, <1>11, <1>12, <1>15 DEF Movable, Top
  <2>2. MovedTo(z, t, here, r) /\ Holds(r, Runnables)
    BY <1>3, <1>4, <1>8, <1>11, <1>13, <2>1, ChangeCoreFields DEF Keeps
  <2>3. /\ r.core = [z.core EXCEPT ![t] = here] /\ r.priority = q.priority /\ r.affinity = q.affinity
        /\ \A d \in Cores \ {here} : r.scheduled[d] = q.scheduled[d]
    BY <1>4, <1>9, <1>11, <2>2 DEF MovedTo
  <2>4. r.core[t] = here /\ \A u \in Threads \ {t} : r.core[u] = q.core[u]
    BY <1>4, <1>9, <1>10, <1>11, <2>3
  <2>5. q.core[t] = here
    BY DEF here
  <2>6. ScheduledOn(z, Runnables, here) = {}
    <3>1. Tops(z)[here] = GetFront(z.scheduled[here])
      BY <1>3 DEF Tops
    <3>2. Tops(z)[here] = NoThread
      BY <1>6, <1>15, <3>1 DEF GetFront
    <3> QED
      BY <1>3, <1>8, <3>2, TopsFacts
  <2>7. \A u \in Runnables \ {t} : z.core[u] # here
    BY <2>6 DEF ScheduledOn, Scheduled
  <2>8. \A u \in Runnables : (q.core[u] = here <=> u = t) /\ (r.core[u] = here <=> u = t)
    BY <1>4, <1>11, <2>4, <2>5, <2>7
  <2>9. Tops(q)[here] = t /\ Tops(r)[here] = t
    <3>1. t \in ScheduledOn(q, Runnables, here) /\ t \in ScheduledOn(r, Runnables, here)
      BY <1>3, <2>8 DEF ScheduledOn, Scheduled
    <3>2. Tops(q)[here] \in Runnables /\ q.core[Tops(q)[here]] = here
      BY <1>3, <3>1, TopsFacts, SMTT(30)
    <3>3. Tops(r)[here] \in Runnables /\ r.core[Tops(r)[here]] = here
      <4>1. /\ Tops(r) \in [Cores -> Runnables \cup {NoThread}]
            /\ Tops(r)[here] # NoThread => r.core[Tops(r)[here]] = here
            /\ Tops(r)[here] = NoThread <=> ScheduledOn(r, Runnables, here) = {}
        BY <1>3, <2>2, TopsFacts
      <4> QED
        BY <1>3, <3>1, <4>1
    <3> QED
      BY <2>8, <3>2, <3>3
  <2>10. Tops(r) = Tops(q)
    <3>1. \A d \in Cores \ {here} : Tops(r)[d] = Tops(q)[d]
      BY <2>3 DEF Tops
    <3>2. Tops(r) = [d \in Cores |-> Tops(r)[d]] /\ Tops(q) = [d \in Cores |-> Tops(q)[d]]
      BY DEF Tops
    <3> QED
      BY <1>3, <2>9, <3>1, <3>2
  <2>11. \A u \in Runnables : r.core[u] = q.core[u] /\ r.priority[u] = q.priority[u] /\ r.affinity[u] = q.affinity[u]
    BY <1>4, <2>3, <2>4, <2>5
  <2>12. highest = Tops(q) /\ IdleOK(q, Runnables)
    BY DEF QueueInv
  <2>13. IdleOK(r, Runnables)
    BY <2>10, <2>11, <2>12, SameData
  <2> QED
    BY <1>3, <2>4, <2>8, <2>10, <2>12, <2>13 DEF QuietOK
<1>16. yielded \subseteq Threads /\ QuietOK(r, Runnables, yielded)
  <2>1. CASE alone /\ s = t
    BY <1>6, <1>15, <2>1
  <2>2. CASE ~(alone /\ s = t)
    BY <1>6, <2>2 DEF QuietOK
  <2> QED
    BY <2>1, <2>2
<1>17. Prepared(c, r, ~(alone /\ s = t), TRUE, yielded)
  BY <1>3, <1>13, <1>14, <1>15, <1>16 DEF Prepared, Keeps
<1> QED
  BY <1>1, <1>17, OperationOK

----------------------------------------------------------------------------
(* The whole system. *)

\* Every action is one of the steps of KScheduler_invariant.
LEMMA NextCases ==
  ASSUME QueueInv, RunnersHaveCores, [Next]_vars
  PROVE  Step
<1>1. ASSUME NEW c \in Cores, CoreStep(c) PROVE Unlocked(c) \/ LockedStep(c)
  BY <1>1, RetryUpdateOK DEF CoreStep, Unlocked
<1>2. ASSUME NEW c \in Cores, Call(c) PROVE LockedStep(c)
  <2>1. ASSUME NEW u \in Threads, EndWait(c, u) PROVE LockedStep(c)
    BY <2>1, EndWaitOK
  <2>2. ASSUME NEW u \in Threads, Pause(c, u) \/ Resume(c, u) PROVE LockedStep(c)
    BY <2>2, PauseOK, ResumeOK
  <2>3. ASSUME NEW u \in Threads, NEW p \in Priorities[u], SetPriority(c, u, p) PROVE LockedStep(c)
    BY <2>3, SetPriorityOK
  <2>4. ASSUME NEW u \in Threads, NEW mask \in Masks[u], SetCoreMask(c, u, mask) PROVE LockedStep(c)
    BY <2>4, SetCoreMaskOK
  <2>5. CASE BeginWait(c) \/ Exit(c)
    BY <2>5, BeginWaitOK, ExitOK
  <2>6. CASE YieldWithoutCoreMigration(c) \/ YieldWithCoreMigration(c) \/ YieldToAnyThread(c)
    BY <2>6, YieldWithoutOK, YieldWithOK, YieldToAnyOK
  <2> QED
    BY <1>2, <2>1, <2>2, <2>3, <2>4, <2>5, <2>6 DEF Call
<1>3. ASSUME HostStep PROVE LockedStep(Host)
  <2>1. ASSUME NEW u \in Threads, EndWait(Host, u) PROVE LockedStep(Host)
    BY <2>1, EndWaitOK
  <2> QED
    BY <1>3, <2>1, PreemptOK DEF HostStep
<1> QED
  BY <1>1, <1>2, <1>3 DEF Next, Step

\* The invariant is inductive.
LEMMA SchedulerInvStep == SchedulerInv /\ [Next]_vars => SchedulerInv'
<1> SUFFICES ASSUME SchedulerInv, [Next]_vars PROVE SchedulerInv'
  OBVIOUS
<1>1. QueueInv /\ GuardInv /\ FinishInv /\ ToldInv /\ RunnersHaveCores
  BY DEF SchedulerInv
<1>2. Step
  BY <1>1, NextCases
<1>3. Chosen
  <2>1. Holds(q, Runnables) /\ highest = Tops(q)
    BY <1>1 DEF QueueInv
  <2> QED
    BY <2>1, TopsFacts DEF Chosen
<1>4. QueueInv' /\ GuardInv'
  BY <1>1, <1>2, QueueInvStep, GuardInvStep
<1>5. FinishInv' /\ ToldInv'
  BY <1>1, <1>2, FinishInvStep, ToldInvStep
<1>6. RunnersHaveCores'
  BY <1>2, <1>3, RunnersStep
<1> QED
  BY <1>4, <1>5, <1>6 DEF SchedulerInv

\* At first no thread has been started: the queues are empty, and so are the cores.
LEMMA SchedulerInvInit == Init => SchedulerInv
<1> SUFFICES ASSUME InitWith(Threads) PROVE SchedulerInv
  BY DEF Init
<1>1. /\ state = [t \in Threads |-> "Waiting"] /\ finishing = [t \in Threads |-> 0]
      /\ paused = {} /\ quiet = {} /\ guarded = {}
      /\ highest = [c \in Cores |-> NoThread] /\ needs = [c \in Cores |-> FALSE]
      /\ interrupted = [c \in Cores |-> FALSE] /\ toInterrupt = [a \in Cores \cup {Host} |-> {}]
      /\ pc = [c \in Cores |-> "run"] /\ current = [c \in Cores |-> NoThread]
      /\ next = [c \in Cores |-> NoThread] /\ retrying = [t \in Threads |-> NoRetry]
  BY DEF InitWith
<1>2. q.scheduled = [c \in Cores |-> <<>>] /\ q.suggested = [c \in Cores |-> <<>>]
  BY DEF InitWith
<1>3. ASSUME NEW t \in Threads PROVE q.core[t] \in q.affinity[t] /\ q.affinity[t] \subseteq Cores
  <2>1. q.affinity[t] = Affinity[t] /\ q.core[t] = CHOOSE c \in Affinity[t] : \A d \in Affinity[t] : c <= d
    BY DEF InitWith
  <2>2. Affinity[t] \subseteq Cores /\ Affinity[t] # {} /\ Affinity[t] \subseteq Nat
    BY SchedulerAssumption, QueueAssumption, SMT DEF Cores
  <2>3. \E c \in Affinity[t] : \A d \in Affinity[t] : c <= d
    BY <2>2, LeastNatural
  <2> QED
    BY <2>1, <2>2, <2>3
<1>4. q \in Queues
  <2>1. q = [scheduled |-> q.scheduled, suggested |-> q.suggested, core |-> q.core, priority |-> q.priority,
             affinity |-> q.affinity]
    BY DEF InitWith
  <2>2. q.scheduled \in [Cores -> Seq(Threads)] /\ q.suggested \in [Cores -> Seq(Threads)]
    BY <1>2, SMT
  <2>3. q.core \in [Threads -> Cores \cup {NoCore}]
    <3>1. q.core = [t \in Threads |-> q.core[t]]
      BY SMT DEF InitWith
    <3> QED
      BY <1>3, <3>1
  <2>4. q.priority \in [Threads -> Nat] /\ q.affinity \in [Threads -> SUBSET Cores]
    BY SchedulerAssumption DEF InitWith
  <2> QED
    BY <2>1, <2>2, <2>3, <2>4 DEF Queues
<1>5. Runnables = {}
  BY <1>1 DEF Runnables, Queued
<1>6. Holds(q, {})
  <2>1. \A c \in Cores : ScheduledOn(q, {}, c) = {} /\ SuggestedFor(q, {}, c) = {}
    BY DEF ScheduledOn, SuggestedFor
  <2>2. Lists(q, <<>>, {})
    BY SMT DEF Lists, Sorted, Range
  <2>3. HoldsThreads(q, {})
    BY <1>2, <1>3, <2>1, <2>2 DEF HoldsThreads
  <2> QED
    BY <1>4, <2>3 DEF Holds
<1>7. highest = Tops(q)
  BY <1>1, <1>2 DEF Tops, GetFront
<1>8. IdleOK(q, {}) /\ QuietOK(q, {}, quiet)
  BY DEF IdleOK, QuietOK, SuggestedFor
<1>9. TypeOK
  <2>1. pc \in [Cores -> Pcs] /\ state \in [Threads -> {"Runnable", "Waiting", "Terminated"}]
    BY <1>1 DEF Pcs
  <2>2. retrying \in [Threads -> [target : Threads \cup {NoThread}, allowed : SUBSET Cores]]
    BY <1>1 DEF NoRetry
  <2>3. finishing \in [Threads -> 0 .. NumCores]
    BY <1>1, QueueAssumption, SMT
  <2> QED
    BY <1>1, <1>4, <2>1, <2>2, <2>3 DEF TypeOK
<1>10. QueueInv
  BY <1>5, <1>6, <1>7, <1>8, <1>9 DEF QueueInv
<1>11. \A c \in Cores : current[c] \notin Threads /\ current[c] = highest[c] /\ pc[c] = "run" /\ toInterrupt[c] = {}
  BY <1>1, QueueAssumption
<1>12. GuardInv
  BY <1>1, <1>11 DEF GuardInv, Has
<1>13. FinishInv
  BY <1>1, <1>11, SMT DEF FinishInv
<1>14. ToldInv /\ RunnersHaveCores
  BY <1>11 DEF ToldInv, Told, RunnersHaveCores
<1> QED
  BY <1>10, <1>12, <1>13, <1>14 DEF SchedulerInv

----------------------------------------------------------------------------

\* The inductive invariant holds throughout: the queues, the contexts, the
\* terminations and the pending interrupts of KScheduler, for every number of
\* cores and threads and every choice of priorities and masks.
THEOREM SchedulerCorrect == Spec => []SchedulerInv
  BY SchedulerInvInit, SchedulerInvStep, PTL DEF Spec

\* Whatever PushBack, Remove, ChangeCore, ChangePriority, ChangeAffinityMask and
\* the rotations do in whatever order, the queues hold exactly the threads that
\* can run, each where its core and mask say, in the order of priority.
THEOREM SchedulerQueues == Spec => []QueuesAreRight
<1>1. SchedulerInv => QueuesAreRight
  BY DEF SchedulerInv, QueueInv, QueuesAreRight, Holds, Runnables
<1> QED
  BY <1>1, SchedulerCorrect, PTL

\* No two cores execute one thread: a core that switches takes m_context_guard
\* first, and the core that had the thread gives it back only after it left it.
THEOREM SchedulerContexts == Spec => []OneCorePerThread
<1>1. SchedulerInv => OneCorePerThread
  BY SMT DEF SchedulerInv, GuardInv, Has, OneCorePerThread, Executes
<1> QED
  BY <1>1, SchedulerCorrect, PTL

\* A core that executes a thread other than its highest_priority_thread has
\* needs_scheduling set and is interrupted, or some actor is about to do so:
\* the flag that ScheduleImpl clears before it reads its choice loses nothing.
THEOREM SchedulerReschedules == Spec => []RescheduleIsNotLost
<1>1. SchedulerInv => RescheduleIsNotLost
  <2> SUFFICES ASSUME SchedulerInv, NEW c \in Cores, pc[c] = "run", current[c] # highest[c]
               PROVE  needs[c] /\ (interrupted[c] \/ \E a \in DOMAIN toInterrupt : c \in toInterrupt[a])
    BY DEF RescheduleIsNotLost
  <2>1. needs[c] /\ (interrupted[c] \/ Pending(c))
    BY DEF SchedulerInv, ToldInv, Told
  <2>2. DOMAIN toInterrupt = Cores \cup {Host}
    BY DEF SchedulerInv, QueueInv, TypeOK
  <2> QED
    BY <2>1, <2>2 DEF Pending
<1> QED
  BY <1>1, SchedulerCorrect, PTL

\* The loop of ScheduleImplFiber that spins on m_context_guard waits for a core
\* that has been told to leave the thread, never for a terminated thread.
THEOREM SchedulerSpins == Spec => []SpinEnds
<1>1. SchedulerInv => SpinEnds
  <2> SUFFICES ASSUME SchedulerInv, NEW c \in Cores, pc[c] = "lock", next[c] \in guarded, ~needs[c]
               PROVE  /\ state[next[c]] # "Terminated"
                      /\ \E d \in Cores \ {c} :
                           /\ current[d] = next[c]
                           /\ pc[d] = "read" \/ (pc[d] \in {"run", "ipi", "check"} /\ needs[d])
    BY DEF SpinEnds
  <2>1. QueueInv /\ GuardInv /\ ToldInv /\ TypeOK
    BY DEF SchedulerInv, QueueInv
  <2>2. next[c] = highest[c] /\ next[c] \in Threads /\ next[c] # NoThread
    BY <2>1, QueueAssumption DEF ToldInv, Told, TypeOK
  <2>3. Holds(q, Runnables) /\ highest = Tops(q)
    BY <2>1 DEF QueueInv
  <2>4. /\ highest[c] \in Runnables
        /\ \A d \in Cores : highest[d] = highest[c] => d = c
    BY <2>2, <2>3, TopsFacts, SMTT(30)
  <2>5. state[next[c]] # "Terminated"
    BY <2>2, <2>4 DEF Runnables, Queued
  <2>6. PICK d \in Cores : Has(d, next[c])
    BY <2>1, <2>5 DEF GuardInv
  <2>7. d # c /\ current[d] = next[c] /\ pc[d] \in {"run", "ipi", "read", "check"}
    BY <2>6 DEF Has
  <2>8. pc[d] = "read" \/ needs[d]
    BY <2>1, <2>2, <2>4, <2>7 DEF ToldInv, Told, GuardInv
  <2> QED
    BY <2>5, <2>7, <2>8
<1> QED
  BY <1>1, SchedulerCorrect, PTL

\* After FinishTermination has waited for every core once, in turn, no core has
\* the thread as its current one, although the cores go on switching meanwhile.
THEOREM SchedulerTerminations == Spec => []TerminatedIsOff
<1>1. SchedulerInv => TerminatedIsOff
  <2> SUFFICES ASSUME SchedulerInv, NEW t \in Threads, finishing[t] = NumCores, NEW c \in Cores
               PROVE  current[c] # t
    BY DEF TerminatedIsOff, Executes
  <2>1. c < NumCores
    BY QueueAssumption, SMTT(30) DEF Cores
  <2> QED
    BY <2>1 DEF SchedulerInv, FinishInv
<1> QED
  BY <1>1, SchedulerCorrect, PTL

\* A yield that is skipped because the process has not been rescheduled since
\* (GetYieldScheduleCount) would have found nobody of the priority on the core.
THEOREM SchedulerYields == Spec => []YieldIsNotLost
<1>1. SchedulerInv => YieldIsNotLost
  <2> SUFFICES ASSUME SchedulerInv, NEW t \in quiet, Queued(t)
               PROVE  OfPriority(q, q.scheduled[q.core[t]], q.priority[t]) = {t}
    BY DEF YieldIsNotLost
  <2>1. t \in Runnables /\ Holds(q, Runnables) /\ QuietOK(q, Runnables, quiet)
    BY DEF SchedulerInv, QueueInv, TypeOK, Runnables
  <2>2. /\ q.core[t] \in Cores
        /\ \A u \in Runnables : q.core[u] = q.core[t] /\ q.priority[u] = q.priority[t] => u = t
    BY <2>1 DEF QuietOK
  <2>3. Range(q.scheduled[q.core[t]]) = ScheduledOn(q, Runnables, q.core[t])
    BY <2>1, <2>2, HoldsFacts DEF Lists
  <2> QED
    BY <2>1, <2>2, <2>3 DEF OfPriority, ScheduledOn, Scheduled
<1> QED
  BY <1>1, SchedulerCorrect, PTL

\* No thread that can run is too urgent for others to leave its core.
NobodyIsUrgent == \A t \in Threads : Queued(t) => q.priority[t] >= HighestCoreMigrationAllowedPriority

\* Every core has the front of its queue as its choice.  While no thread is more
\* urgent than HighestCoreMigrationAllowedPriority, a core is idle only if every
\* thread that may run on it is alone on another core, for any number of cores.
THEOREM SchedulerChoices == Spec => [](highest = Tops(q) /\ (NobodyIsUrgent => NoIdleCore))
<1>1. ASSUME SchedulerInv PROVE highest = Tops(q) /\ (NobodyIsUrgent => NoIdleCore)
  <2>1. Holds(q, Runnables) /\ highest = Tops(q) /\ IdleOK(q, Runnables)
    BY <1>1 DEF SchedulerInv, QueueInv
  <2>2. ASSUME NobodyIsUrgent, NEW c \in Cores, highest[c] = NoThread, NEW t \in Range(q.suggested[c])
        PROVE  Top(highest, q.core[t]) = t /\ Len(q.scheduled[q.core[t]]) = 1
    <3>1. NoUrgent(q, Runnables)
      BY <2>2 DEF NobodyIsUrgent, NoUrgent, Runnables
    <3>2. t \in SuggestedFor(q, Runnables, c)
      BY <2>1, <2>2, HoldsFacts DEF Lists
    <3>3. Alone(q, Runnables, t)
      BY <2>1, <2>2, <3>1, <3>2 DEF IdleOK
    <3>4. PICK s : s = q.scheduled[q.core[t]]
      OBVIOUS
    <3>5. q.core[t] \in Cores /\ s \in Seq(Threads) /\ Range(s) = {t} /\ Sorted(q, s)
      BY <2>1, <3>3, <3>4, HoldsFacts DEF Alone, Lists
    <3>6. Len(s) \in Nat /\ DOMAIN s = 1 .. Len(s) /\ \A i \in 1 .. Len(s) : s[i] = t
      BY <3>5, SMT DEF Range
    <3>7. Len(s) # 0
      BY <3>5, <3>6, SMT DEF Range
    <3>8. ~(Len(s) >= 2)
      <4>1. SUFFICES ASSUME Len(s) >= 2 PROVE FALSE
        OBVIOUS
      <4>2. 1 \in DOMAIN s /\ 2 \in DOMAIN s
        BY <3>6, <4>1, SMT
      <4> QED
        BY <3>5, <3>6, <4>2, SMT DEF Sorted
    <3>9. Len(s) = 1
      BY <3>6, <3>7, <3>8, SMT
    <3>10. GetFront(s) = t
      <4>1. s # <<>>
        BY <3>9, SMTT(30)
      <4>2. Head(s) = s[1] /\ s[1] = t
        BY <3>5, <3>6, <3>9, SMT
      <4> QED
        BY <4>1, <4>2 DEF GetFront
    <3> QED
      BY <2>1, <3>4, <3>5, <3>9, <3>10, QueueAssumption, SMTT(30) DEF Top, Tops, Cores, NoCore
  <2>3. NobodyIsUrgent => NoIdleCore
    BY <2>1, <2>2 DEF NoIdleCore, Tops
  <2> QED
    BY <2>1, <2>3
<1>2. SchedulerInv => highest = Tops(q) /\ (NobodyIsUrgent => NoIdleCore)
  BY <1>1
<1> QED
  BY <1>2, SchedulerCorrect, PTL
=============================================================================
