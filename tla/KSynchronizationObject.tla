----------------------- MODULE KSynchronizationObject -----------------------
(***************************************************************************)
(* Waiting for events and threads: KSynchronizationObject::Wait and        *)
(* NotifyAvailable, KReadableEvent, and the operations of KThread that end *)
(* such a wait: OnTimer, WaitCancel, RequestTerminate, Exit and            *)
(* FinishTermination (core/hle/kernel/k_synchronization_object.cpp,        *)
(* k_readable_event.cpp, k_thread.cpp).                                    *)
(*                                                                         *)
(* Each object has a singly linked list of nodes.  The nodes are on the    *)
(* stacks of the waiting threads: node <<t, i>> links t to the i-th object *)
(* it waits for.  NotifyAvailable walks the list of a signalled object     *)
(* while the threads it notifies unlink their nodes from all their lists;  *)
(* its loop is one step per iteration, with the scheduler lock taken       *)
(* (`notify').                                                             *)
(***************************************************************************)
EXTENDS Integers, Sequences

CONSTANTS
  Threads,     \* threads; each is also an object, signalled when it has ended
  Events,      \* readable events
  Null,        \* the null pointer
  MaxObjects,  \* objects of one wait
  Waitable,    \* objects that threads wait for
  Timeouts,    \* subset of {"zero", "finite", "infinite"}
  MayEnd       \* threads that may exit or be terminated

ASSUME SyncAssumption ==
  /\ MaxObjects \in Nat /\ Threads \cap Events = {}
  /\ Null \notin Threads \cup Events \cup (Threads \X (1..MaxObjects))
  /\ Timeouts \subseteq {"zero", "finite", "infinite"} /\ MayEnd \subseteq Threads
  /\ Waitable \subseteq Threads \cup Events

Objects == Events \cup Threads
Nodes == Threads \X (1..MaxObjects)
Lists == UNION {[1..n -> Waitable] : n \in 0..MaxObjects}

VARIABLES
  state,          \* m_thread_state
  queue,          \* m_wait_queue: "none", "sync" or "sleep"
  objects,        \* the objects of the wait a thread is in
  result,         \* what the last wait returned; m_wait_result if it blocked.
                  \* "none" during a wait: a value left over is never read
  synced,         \* its index, from 1, or 0 for none; m_synced_index likewise
  cancellable,    \* threads with m_cancellable
  waitCancelled,  \* threads with m_wait_cancelled
  terminating,    \* threads with m_termination_requested
  timer,          \* threads with a task in the hardware timer
  signaled,       \* objects that are signalled
  head, tail,     \* m_thread_list_head and m_thread_list_tail of each object
  next,           \* next of each node; Null once a node is in no list and unread
  notify          \* the loop of NotifyAvailable: object and node

listVars == <<head, tail, next>>
waitVars == <<state, queue, objects, result, synced, cancellable, timer>>
vars == <<waitVars, waitCancelled, terminating, signaled, listVars, notify>>

NoNotify == [object |-> Null, node |-> Null]

\* The scheduler lock is free.
Unlocked == notify = NoNotify

Init ==
  /\ state = [t \in Threads |-> "Runnable"]
  /\ queue = [t \in Threads |-> "none"]
  /\ objects = [t \in Threads |-> <<>>]
  /\ result = [t \in Threads |-> "none"]
  /\ synced = [t \in Threads |-> 0]
  /\ cancellable = {}
  /\ waitCancelled = {}
  /\ terminating = {}
  /\ timer = {}
  /\ signaled = {}
  /\ head = [o \in Objects |-> Null]
  /\ tail = [o \in Objects |-> Null]
  /\ next = [n \in Nodes |-> Null]
  /\ notify = NoNotify

----------------------------------------------------------------------------
(* The lists. *)

\* The pointers of all lists, as one value.
Pointers == [head |-> head, tail |-> tail, next |-> next]

\* KSynchronizationObject::LinkNode
LinkNode(l, o, n) ==
  [head |-> IF l.tail[o] = Null THEN [l.head EXCEPT ![o] = n] ELSE l.head,
   tail |-> [l.tail EXCEPT ![o] = n],
   next |-> IF l.tail[o] = Null THEN l.next ELSE [l.next EXCEPT ![l.tail[o]] = n]]

\* The nodes of the list of o: those that every walk along next from its head
\* comes by.
InList(l, o) ==
  {n \in Nodes : \A S \in SUBSET Nodes :
     l.head[o] \in S \cup {Null} /\ (\A m \in S : l.next[m] \in S \cup {Null}) => n \in S}

\* Mutant: the node does not keep its successor.
UnlinkNode_ClearsNext(l, o, n) ==
  LET prev == {p \in InList(l, o) : l.next[p] = n} IN
  [head |-> IF l.head[o] = n THEN [l.head EXCEPT ![o] = l.next[n]] ELSE l.head,
   tail |-> IF l.tail[o] # n THEN l.tail
            ELSE [l.tail EXCEPT ![o] = IF prev = {} THEN Null ELSE CHOOSE p \in prev : TRUE],
   next |-> [p \in Nodes |-> IF p = n THEN Null ELSE IF p \in prev THEN l.next[n] ELSE l.next[p]]]

\* Mutant: the tail is left on the node.
UnlinkNode_StaleTail(l, o, n) ==
  LET prev == {p \in InList(l, o) : l.next[p] = n} IN
  [head |-> IF l.head[o] = n THEN [l.head EXCEPT ![o] = l.next[n]] ELSE l.head,
   tail |-> l.tail,
   next |-> [p \in Nodes |-> IF p \in prev THEN l.next[n] ELSE l.next[p]]]

\* KSynchronizationObject::UnlinkNode
UnlinkNode(l, o, n) ==
  LET prev == {p \in InList(l, o) : l.next[p] = n} IN
  [head |-> IF l.head[o] = n THEN [l.head EXCEPT ![o] = l.next[n]] ELSE l.head,
   tail |-> IF l.tail[o] # n THEN l.tail
            ELSE [l.tail EXCEPT ![o] = IF prev = {} THEN Null ELSE CHOOSE p \in prev : TRUE],
   next |-> [p \in Nodes |-> IF p \in prev THEN l.next[n] ELSE l.next[p]]]

\* The pointers after t has linked, or unlinked, its nodes one by one.
LinkNodes(l, t, objs) ==
  LET after[i \in 0..Len(objs)] == IF i = 0 THEN l ELSE LinkNode(after[i - 1], objs[i], <<t, i>>)
  IN after[Len(objs)]
UnlinkNodes(l, t, objs) ==
  LET after[i \in 0..Len(objs)] == IF i = 0 THEN l ELSE UnlinkNode(after[i - 1], objs[i], <<t, i>>)
  IN after[Len(objs)]

SetPointers(l) == head' = l.head /\ tail' = l.tail /\ next' = l.next

----------------------------------------------------------------------------
(* The end of a wait. *)

\* Mutant: the thread stays cancellable.
EndWait_StaysCancellable(t, res, index) ==
  /\ state' = [state EXCEPT ![t] = "Runnable"]
  /\ queue' = [queue EXCEPT ![t] = "none"]
  /\ objects' = [objects EXCEPT ![t] = <<>>]
  /\ result' = [result EXCEPT ![t] = res]
  /\ synced' = [synced EXCEPT ![t] = index]
  /\ timer' = timer \ {t}
  /\ UNCHANGED cancellable

\* KThreadQueue::EndWait and CancelWait, with what the queue of a wait for
\* objects does before.
EndWait(t, res, index) ==
  /\ state' = [state EXCEPT ![t] = "Runnable"]
  /\ queue' = [queue EXCEPT ![t] = "none"]
  /\ objects' = [objects EXCEPT ![t] = <<>>]
  /\ result' = [result EXCEPT ![t] = res]
  /\ synced' = [synced EXCEPT ![t] = index]
  /\ cancellable' = cancellable \ {t}
  /\ timer' = timer \ {t}

\* CancelWait of the queue t is on.
CancelWait(t, res) ==
  LET l == UnlinkNodes(Pointers, t, objects[t]) IN
  /\ EndWait(t, res, synced[t])
  /\ head' = l.head /\ tail' = l.tail
  /\ next' = [n \in Nodes |-> IF n[1] = t THEN Null ELSE l.next[n]]

\* A wait that ends before it has begun.
ReturnFromWait(t, res, index) ==
  /\ result' = [result EXCEPT ![t] = res]
  /\ synced' = [synced EXCEPT ![t] = index]
  /\ UNCHANGED <<state, queue, objects, cancellable, timer, listVars>>

----------------------------------------------------------------------------
(* Operations. *)

\* The first of the objects that is signalled, or 0.
FirstSignaled(objs) ==
  LET S == {i \in DOMAIN objs : objs[i] \in signaled} IN
  IF S = {} THEN 0 ELSE CHOOSE i \in S : \A j \in S : i <= j

\* WaitSynchronization: KSynchronizationObject::Wait
Wait(t, objs, timeout) ==
  LET first == FirstSignaled(objs)
      l == LinkNodes(Pointers, t, objs)
  IN
  /\ Unlocked /\ state[t] = "Runnable"
  /\ \/ t \in terminating /\ ReturnFromWait(t, "terminate", 0) /\ UNCHANGED waitCancelled
     \/ t \notin terminating /\ first # 0 /\ ReturnFromWait(t, "success", first) /\ UNCHANGED waitCancelled
     \/ /\ t \notin terminating /\ first = 0 /\ timeout = "zero"
        /\ ReturnFromWait(t, "timeout", 0) /\ UNCHANGED waitCancelled
     \/ /\ t \notin terminating /\ first = 0 /\ timeout # "zero" /\ t \in waitCancelled
        /\ ReturnFromWait(t, "cancelled", 0) /\ waitCancelled' = waitCancelled \ {t}
     \/ /\ t \notin terminating /\ first = 0 /\ timeout # "zero" /\ t \notin waitCancelled
        /\ SetPointers(l)
        /\ state' = [state EXCEPT ![t] = "Waiting"]
        /\ queue' = [queue EXCEPT ![t] = "sync"]
        /\ objects' = [objects EXCEPT ![t] = objs]
        /\ synced' = [synced EXCEPT ![t] = 0]
        /\ result' = [result EXCEPT ![t] = "none"]
        /\ cancellable' = cancellable \cup {t}
        /\ timer' = IF timeout = "finite" THEN timer \cup {t} ELSE timer
        /\ UNCHANGED waitCancelled
  /\ UNCHANGED <<terminating, signaled, notify>>

\* SleepThread: KThread::Sleep
Sleep(t) ==
  /\ Unlocked /\ state[t] = "Runnable" /\ t \notin terminating
  /\ state' = [state EXCEPT ![t] = "Waiting"]
  /\ queue' = [queue EXCEPT ![t] = "sleep"]
  /\ result' = [result EXCEPT ![t] = "none"]
  /\ synced' = [synced EXCEPT ![t] = 0]
  /\ timer' = timer \cup {t}
  /\ UNCHANGED <<objects, cancellable, waitCancelled, terminating, signaled>>
  /\ UNCHANGED <<listVars, notify>>

\* KReadableEvent::Signal, up to the loop of NotifyAvailable.
Signal(e) ==
  /\ Unlocked /\ e \notin signaled
  /\ signaled' = signaled \cup {e}
  /\ notify' = [object |-> e, node |-> head[e]]
  /\ UNCHANGED <<waitVars, waitCancelled, terminating, listVars>>

\* KReadableEvent::Reset, also reached by Clear.
Reset(e) ==
  /\ Unlocked /\ e \in signaled
  /\ signaled' = signaled \ {e}
  /\ UNCHANGED <<waitVars, waitCancelled, terminating, listVars, notify>>

\* sync_index: where o comes first in a list of objects.
SyncIndex(objs, o) == CHOOSE i \in DOMAIN objs :
  objs[i] = o /\ \A j \in DOMAIN objs : objs[j] = o => i <= j

\* One iteration of KSynchronizationObject::NotifyAvailable.
NotifyAvailable ==
  LET t == notify.node[1]
      o == notify.object
  IN
  /\ notify.node # Null
  /\ IF state[t] = "Waiting"
     THEN /\ SetPointers(UnlinkNodes(Pointers, t, objects[t]))
          /\ EndWait(t, "success", SyncIndex(objects[t], o))
     ELSE UNCHANGED <<waitVars, listVars>>
  /\ notify' = [object |-> o, node |-> next'[notify.node]]
  /\ UNCHANGED <<waitCancelled, terminating, signaled>>

\* The loop of NotifyAvailable is done.
NotifyEnd ==
  /\ notify # NoNotify /\ notify.node = Null
  /\ notify' = NoNotify
  /\ next' = [n \in Nodes |-> IF queue[n[1]] = "sync" THEN next[n] ELSE Null]
  /\ UNCHANGED <<waitVars, waitCancelled, terminating, signaled, head, tail>>

\* CancelSynchronization: KThread::WaitCancel
WaitCancel(t) ==
  /\ Unlocked
  /\ IF state[t] = "Waiting" /\ t \in cancellable
     THEN CancelWait(t, "cancelled") /\ waitCancelled' = waitCancelled \ {t}
     ELSE waitCancelled' = waitCancelled \cup {t} /\ UNCHANGED <<waitVars, listVars>>
  /\ UNCHANGED <<terminating, signaled, notify>>

\* KThread::OnTimer; the hardware timer has removed the task.
OnTimer(t) ==
  /\ Unlocked /\ t \in timer
  /\ IF state[t] = "Waiting"
     THEN CancelWait(t, "timeout")
     ELSE timer' = timer \ {t} /\ UNCHANGED <<state, queue, objects, result, synced, cancellable, listVars>>
  /\ UNCHANGED <<waitCancelled, terminating, signaled, notify>>

\* Mutant: the thread is not woken.
RequestTerminate_NoWake(t) ==
  /\ Unlocked /\ t \in MayEnd \ terminating
  /\ terminating' = terminating \cup {t}
  /\ UNCHANGED <<waitVars, listVars, waitCancelled, signaled, notify>>

\* KThread::RequestTerminate, first request.
RequestTerminate(t) ==
  /\ Unlocked /\ t \in MayEnd \ terminating
  /\ terminating' = terminating \cup {t}
  /\ IF state[t] = "Waiting"
     THEN CancelWait(t, "terminate")
     ELSE UNCHANGED <<waitVars, listVars>>
  /\ UNCHANGED <<waitCancelled, signaled, notify>>

\* KThread::Exit, by ExitThread or, for a thread to be terminated, on its way
\* back to guest code.
Exit(t) ==
  /\ Unlocked /\ state[t] = "Runnable" /\ t \in MayEnd
  /\ state' = [state EXCEPT ![t] = "Terminated"]
  /\ UNCHANGED <<queue, objects, result, synced, cancellable, timer>>
  /\ UNCHANGED <<waitCancelled, terminating, signaled, listVars, notify>>

\* KThread::FinishTermination, by the worker thread.
FinishTermination(t) ==
  /\ Unlocked /\ state[t] = "Terminated" /\ t \notin signaled
  /\ signaled' = signaled \cup {t}
  /\ notify' = [object |-> t, node |-> head[t]]
  /\ UNCHANGED <<waitVars, waitCancelled, terminating, listVars>>

KernelStep == NotifyAvailable \/ NotifyEnd

Next ==
  \/ KernelStep
  \/ \E e \in Events : Signal(e) \/ Reset(e)
  \/ \E t \in Threads :
       \/ \E objs \in Lists, timeout \in Timeouts : Wait(t, objs, timeout)
       \/ Sleep(t)
       \/ WaitCancel(t)
       \/ OnTimer(t)
       \/ RequestTerminate(t)
       \/ Exit(t)
       \/ FinishTermination(t)

\* The host thread that has the scheduler lock keeps running.  A
\* terminating thread and the worker thread compete for that lock with threads
\* that may take it again and again, and get it in the end.
Fairness ==
  /\ WF_vars(KernelStep)
  /\ \A t \in Threads : /\ SF_vars(t \in terminating /\ Exit(t))
                       /\ SF_vars(FinishTermination(t))

SafetySpec == Init /\ [][Next]_vars
Spec == SafetySpec /\ Fairness

----------------------------------------------------------------------------
(* Properties. *)

TypeOK ==
  /\ state \in [Threads -> {"Runnable", "Waiting", "Terminated"}]
  /\ queue \in [Threads -> {"none", "sync", "sleep"}]
  /\ objects \in [Threads -> Lists]
  /\ result \in [Threads -> {"none", "success", "timeout", "cancelled", "terminate"}]
  /\ synced \in [Threads -> 0..MaxObjects]
  /\ cancellable \cup waitCancelled \cup terminating \cup timer \subseteq Threads
  /\ signaled \subseteq Objects
  /\ head \in [Objects -> Nodes \cup {Null}] /\ tail \in [Objects -> Nodes \cup {Null}]
  /\ next \in [Nodes -> Nodes \cup {Null}]
  /\ notify \in [object : Objects, node : Nodes \cup {Null}] \cup {NoNotify}

\* The lists are right: the list of an object holds one node for every position
\* at which a thread waits for it and no other, and its tail is its last node.
\* UnlinkNode therefore always finds its node.
ListsAreRight ==
  TypeOK /\ \A o \in Objects :
    /\ InList(Pointers, o) = {n \in Nodes : n[2] \in DOMAIN objects[n[1]] /\ objects[n[1]][n[2]] = o}
    /\ tail[o] = Null <=> head[o] = Null
    /\ tail[o] # Null => tail[o] \in InList(Pointers, o) /\ next[tail[o]] = Null

\* No signal is missed: outside NotifyAvailable no thread waits for an object
\* that is signalled.  Wait looks at the objects and links its nodes in one step,
\* and NotifyAvailable reaches every thread although nodes leave the list it walks.
NoMissedSignal ==
  Unlocked => \A t \in Threads, i \in 1..MaxObjects :
                i \in DOMAIN objects[t] => objects[t][i] \notin signaled

\* Only a wait for objects can be cancelled, so that CancelSynchronization never
\* ends a sleep, and a cancellation that found no such wait is kept for the next.
CancelIsForSyncWaits ==
  /\ cancellable = {t \in Threads : queue[t] = "sync"}
  /\ \A t \in waitCancelled : queue[t] # "sync"

\* A thread that waits for a thread that is being terminated (KThread::Terminate)
\* is woken.
JoinEnds ==
  \A t, u \in Threads :
    u \in terminating /\ queue[t] = "sync" /\ (\E i \in DOMAIN objects[t] : objects[t][i] = u)
      ~> queue[t] # "sync"

=============================================================================
