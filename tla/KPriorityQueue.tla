--------------------------- MODULE KPriorityQueue ---------------------------
(***************************************************************************)
(* The scheduler's priority queues (core/hle/kernel/k_priority_queue.h).   *)
(*                                                                         *)
(* A queue of the code is a list for every core and priority with a bit    *)
(* set of the priorities in use; here it is a sequence for every core, in  *)
(* the order of priority.  A thread that can run is in the scheduled queue *)
(* of its active core and in the suggested queues of the other cores of    *)
(* its affinity mask.                                                      *)
(*                                                                         *)
(* The state of the queues and of the threads in them is a record q with   *)
(*   scheduled, suggested   a sequence for every core                      *)
(*   core                   GetActiveCore, NoCore when it is negative      *)
(*   priority, affinity     GetPriority, GetAffinityMask                   *)
(***************************************************************************)
EXTENDS Integers, Sequences, Functions

CONSTANTS NumCores, Threads, NoThread

ASSUME QueueAssumption == NumCores \in Nat \ {0} /\ NoThread \notin Threads

Cores == 0 .. NumCores - 1
NoCore == -1

Queues == [scheduled : [Cores -> Seq(Threads)], suggested : [Cores -> Seq(Threads)],
           core : [Threads -> Cores \cup {NoCore}], priority : [Threads -> Nat],
           affinity : [Threads -> SUBSET Cores]]

----------------------------------------------------------------------------
(* One sequence.  Position is undefined for a thread that is not in it.     *)

\* As in SequencesExt, which the provers are slow to take in with its Bags.
InsertAt(s, i, e) == SubSeq(s, 1, i - 1) \o <<e>> \o SubSeq(s, i, Len(s))
RemoveAt(s, i) == SubSeq(s, 1, i - 1) \o SubSeq(s, i + 1, Len(s))

Position(s, t) == CHOOSE i \in DOMAIN s : s[i] = t

\* The first of some positions, the one behind the last when there is none.
FirstOf(s, some) == IF some = {} THEN Len(s) + 1 ELSE CHOOSE i \in some : \A j \in some : i <= j

\* KPerCoreQueue::PushBack, in the list of the thread's priority.
PushBackOn(q, s, t) ==
  InsertAt(s, FirstOf(s, {i \in DOMAIN s : q.priority[t] < q.priority[s[i]]}), t)

\* KPerCoreQueue::PushFront
PushFrontOn(q, s, t) ==
  InsertAt(s, FirstOf(s, {i \in DOMAIN s : q.priority[t] <= q.priority[s[i]]}), t)

\* KPerCoreQueue::Remove
RemoveOn(s, t) == RemoveAt(s, Position(s, t))

\* KPriorityQueueImpl::GetFront and GetNext
GetFront(s) == IF s = <<>> THEN NoThread ELSE Head(s)
GetNext(s, t) == LET i == Position(s, t) IN IF i = Len(s) THEN NoThread ELSE s[i + 1]

\* The first thread of a queue that is one of some threads: what GetFront and
\* then GetNext come to, when the caller looks for one of these.
First(s, some) ==
  LET found == {i \in DOMAIN s : s[i] \in some}
  IN  IF found = {} THEN NoThread ELSE s[CHOOSE i \in found : \A j \in found : i <= j]

\* GetFront for one priority.
OfPriority(q, s, p) == {t \in Range(s) : q.priority[t] = p}
GetFrontOf(q, s, p) == First(s, OfPriority(q, s, p))

----------------------------------------------------------------------------
(* The queues. *)

Scheduled(q, t, c) == q.core[t] = c
Suggested(q, t, c) == c \in q.affinity[t] /\ q.core[t] # c

\* PushBack and PushFront: only the scheduled queue has it in front.
PushBack(q, t) ==
  [q EXCEPT !.scheduled = [c \in Cores |-> IF Scheduled(q, t, c) THEN PushBackOn(q, @[c], t) ELSE @[c]],
            !.suggested = [c \in Cores |-> IF Suggested(q, t, c) THEN PushBackOn(q, @[c], t) ELSE @[c]]]

PushFront(q, t) ==
  [q EXCEPT !.scheduled = [c \in Cores |-> IF Scheduled(q, t, c) THEN PushFrontOn(q, @[c], t) ELSE @[c]],
            !.suggested = [c \in Cores |-> IF Suggested(q, t, c) THEN PushBackOn(q, @[c], t) ELSE @[c]]]

\* Remove
RemoveThread(q, t) ==
  [q EXCEPT !.scheduled = [c \in Cores |-> IF Scheduled(q, t, c) THEN RemoveOn(@[c], t) ELSE @[c]],
            !.suggested = [c \in Cores |-> IF Suggested(q, t, c) THEN RemoveOn(@[c], t) ELSE @[c]]]

\* MoveToScheduledBack; it returns the front of the list.
MoveToScheduledBack(q, t) ==
  [q EXCEPT !.scheduled[q.core[t]] = PushBackOn(q, RemoveOn(@, t), t)]

\* ChangePriority, after the thread's priority was set.
ChangePriority(q, t, p, isRunning) ==
  LET r == [RemoveThread(q, t) EXCEPT !.priority[t] = p]
  IN  IF isRunning THEN PushFront(r, t) ELSE PushBack(r, t)

\* ChangeAffinityMask, after the thread's mask and core were set.
ChangeAffinityMask(q, t, mask, c) ==
  PushBack([RemoveThread(q, t) EXCEPT !.affinity[t] = mask, !.core[t] = c], t)

\* Mutant: the thread is not suggested for the core it leaves.
ChangeCore_Forgets(q, t, c, toFront) ==
  LET old == q.core[t]
      left == IF old = NoCore THEN q
              ELSE [q EXCEPT !.scheduled[old] = RemoveOn(@, t)]
  IN  IF old = c THEN q
      ELSE IF c = NoCore THEN [left EXCEPT !.core[t] = c]
      ELSE [left EXCEPT !.core[t] = c, !.suggested[c] = RemoveOn(@, t),
                        !.scheduled[c] = IF toFront THEN PushFrontOn(q, @, t) ELSE PushBackOn(q, @, t)]

\* SetActiveCore and ChangeCore
ChangeCore(q, t, c, toFront) ==
  LET old == q.core[t]
      left == IF old = NoCore THEN q
              ELSE [q EXCEPT !.scheduled[old] = RemoveOn(@, t), !.suggested[old] = PushBackOn(q, @, t)]
  IN  IF old = c THEN q
      ELSE IF c = NoCore THEN [left EXCEPT !.core[t] = c]
      ELSE [left EXCEPT !.core[t] = c, !.suggested[c] = RemoveOn(@, t),
                        !.scheduled[c] = IF toFront THEN PushFrontOn(q, @, t) ELSE PushBackOn(q, @, t)]

----------------------------------------------------------------------------

\* A queue has a thread once, and its threads in the order of priority.
Sorted(q, s) == \A i, j \in DOMAIN s : i < j => s[i] # s[j] /\ q.priority[s[i]] <= q.priority[s[j]]
Lists(q, s, threads) == s \in Seq(Threads) /\ Sorted(q, s) /\ Range(s) = threads

\* The queues hold the threads that can run, each once in the scheduled queue
\* of its core and once in the suggested queue of every other core of its mask,
\* in the order of priority; a thread's core is one of its mask.
ScheduledOn(q, threads, c) == {t \in threads : Scheduled(q, t, c)}
SuggestedFor(q, threads, c) == {t \in threads : Suggested(q, t, c)}

HoldsThreads(q, threads) ==
  /\ \A c \in Cores : /\ Lists(q, q.scheduled[c], ScheduledOn(q, threads, c))
                       /\ Lists(q, q.suggested[c], SuggestedFor(q, threads, c))
  /\ \A t \in Threads : q.core[t] \in q.affinity[t] \cup {NoCore}

\* Well-formed queues that hold some threads.
Holds(q, threads) == q \in Queues /\ threads \subseteq Threads /\ HoldsThreads(q, threads)
=============================================================================
