------------------------- MODULE KScheduler_update -------------------------
(***************************************************************************)
(* The operations on the queues, and UpdateHighestPriorityThreadsImpl, which *)
(* ends every one of them: from queues that hold the threads that can run  *)
(* it makes queues that hold them, with the tops as the choices of the     *)
(* cores.  The loops over the cores are recursive functions: each is       *)
(* unfolded once, and its invariant holds by the least counterexample.     *)
(***************************************************************************)
EXTENDS KScheduler_steps

\* Zenon is the prover of every leaf that names no other.
USE Zenon

----------------------------------------------------------------------------
(* Fronts of queues. *)

\* A thread that is put into an empty queue is its front.
LEMMA PushOnEmpty ==
  ASSUME NEW z, z.priority \in [Threads -> Nat], NEW t \in Threads, NEW e \in Seq(Threads), Range(e) = {},
         NEW s, s \in {PushBackOn(z, e, t), PushFrontOn(z, e, t)}
  PROVE  GetFront(s) = t
<1>2. Sorted(z, e)
  BY DEF Sorted, Range
<1>3. PushBackOn(z, e, t) \in Seq(Threads) /\ Range(PushBackOn(z, e, t)) = {t}
  BY <1>2, PushBackOnFacts, SMT
<1>4. PushFrontOn(z, e, t) \in Seq(Threads) /\ Range(PushFrontOn(z, e, t)) = {t}
  BY <1>2, PushFrontOnFacts, SMT
<1>5. s \in Seq(Threads) /\ Range(s) = {t}
  BY <1>3, <1>4
<1> QED
  BY <1>5, GetFrontFacts

\* The front of a queue that a thread leaves.
LEMMA RemoveFront ==
  ASSUME NEW z, NEW s \in Seq(Threads), Sorted(z, s), NEW t \in Range(s)
  PROVE  /\ GetFront(s) # t => GetFront(RemoveOn(s, t)) = GetFront(s)
         /\ GetFront(s) = t => GetFront(RemoveOn(s, t)) = GetNext(s, t)
<1> DEFINE p == Position(s, t)
           r == RemoveOn(s, t)
<1>1. p \in 1 .. Len(s) /\ s[p] = t /\ r = RemoveAt(s, p)
  BY RemoveOnFacts
<1>2. /\ r \in Seq(Threads) /\ Len(r) = Len(s) - 1
      /\ \A i \in 1 .. p - 1 : r[i] = s[i]
      /\ \A i \in p .. Len(s) - 1 : r[i] = s[i + 1]
  BY <1>1, RemoveAtFacts
<1>3. GetFront(s) = s[1]
  BY <1>1, SMT DEF GetFront
<1>4. Len(r) > 0 => GetFront(r) = r[1]
  BY <1>2, SMT DEF GetFront
<1>5. Len(r) = 0 => GetFront(r) = NoThread
  BY <1>2, SMT DEF GetFront
<1>6. ASSUME s[1] # t PROVE GetFront(r) = s[1]
  <2>1. p > 1 /\ Len(r) > 0 /\ 1 \in 1 .. p - 1
    BY <1>1, <1>2, <1>6, SMT
  <2> QED
    BY <2>1, <1>2, <1>4
<1>7. ASSUME s[1] = t PROVE GetFront(r) = GetNext(s, t)
  <2>1. p = 1
    BY <1>1, <1>7, SMT DEF Sorted
  <2>2. CASE Len(s) = 1
    BY <1>2, <1>5, <2>1, <2>2, SMT DEF GetNext
  <2>3. CASE Len(s) > 1
    <3>1. Len(r) > 0 /\ 1 \in p .. Len(s) - 1
      BY <1>2, <2>1, <2>3, SMT
    <3>2. GetFront(r) = s[2]
      BY <3>1, <1>2, <1>4, SMT
    <3> QED
      BY <3>2, <2>1, <2>3, SMT DEF GetNext
  <2>4. Len(s) \in Nat /\ 1 \in 1 .. Len(s)
    BY <1>1, <2>1, SMT
  <2>5. Len(s) = 1 \/ Len(s) > 1
    BY <2>4, OneOrMore
  <2> QED
    BY <2>2, <2>3, <2>5
<1> QED
  BY <1>3, <1>6, <1>7

----------------------------------------------------------------------------
(* UpdateHighestPriorityThreadsImpl *)

\* The front of a core's queue is a thread of this core.
LEMMA TopsFacts ==
  ASSUME NEW z, NEW threads, Holds(z, threads)
  PROVE  /\ Tops(z) \in [Cores -> threads \cup {NoThread}]
         /\ \A c \in Cores : Tops(z)[c] # NoThread => z.core[Tops(z)[c]] = c
         /\ \A c \in Cores : Tops(z)[c] = NoThread <=> ScheduledOn(z, threads, c) = {}
<1> SUFFICES ASSUME NEW c \in Cores
             PROVE  /\ GetFront(z.scheduled[c]) \in threads \cup {NoThread}
                    /\ GetFront(z.scheduled[c]) # NoThread => z.core[GetFront(z.scheduled[c])] = c
                    /\ GetFront(z.scheduled[c]) = NoThread <=> ScheduledOn(z, threads, c) = {}
  BY DEF Tops
<1>1. z.scheduled[c] \in Seq(Threads) /\ Range(z.scheduled[c]) = ScheduledOn(z, threads, c)
  BY HoldsFacts DEF Lists
<1>2. \A t \in ScheduledOn(z, threads, c) : t \in threads /\ z.core[t] = c
  BY DEF ScheduledOn, Scheduled
<1> QED
  BY <1>1, <1>2, GetFrontFacts

\* A thread that shares its core, or has none, has gone to the idle core c.
Filled(a, c, threads, r) ==
  \E t \in SuggestedFor(a.q, threads, c) :
    /\ MovedTo(a.q, t, c, r.q) /\ Holds(r.q, threads) /\ r.top = Tops(r.q)
    /\ ~Alone(a.q, threads, t)
    /\ \A d \in Cores \ {c} : r.top[d] = NoThread <=> a.top[d] = NoThread

\* A thread that is not the top of its core shares it with the top, or has none.
LEMMA NotTopIsNotAlone ==
  ASSUME NEW z, NEW threads, Holds(z, threads), NEW t \in threads, Top(Tops(z), z.core[t]) # t
  PROVE  ~Alone(z, threads, t)
<1> SUFFICES ASSUME z.core[t] \in Cores, ScheduledOn(z, threads, z.core[t]) = {t} PROVE FALSE
  BY DEF Alone
<1>1. z.core[t] # NoCore
  BY QueueAssumption, SMT DEF NoCore, Cores
<1>2. PICK c \in Cores : c = z.core[t]
  OBVIOUS
<1>3. Tops(z)[c] \in threads /\ z.core[Tops(z)[c]] = c
  BY <1>2, TopsFacts, SMT
<1>4. Tops(z)[c] \in ScheduledOn(z, threads, c)
  BY <1>3 DEF ScheduledOn, Scheduled
<1> QED
  BY <1>1, <1>2, <1>4 DEF Top

\* A thread that is followed by another one in the queue of its core.
LEMMA SpareIsNotAlone ==
  ASSUME NEW z, NEW threads, Holds(z, threads), NEW t \in threads, z.core[t] \in Cores,
         GetNext(z.scheduled[z.core[t]], t) # NoThread
  PROVE  ~Alone(z, threads, t)
<1> SUFFICES ASSUME ScheduledOn(z, threads, z.core[t]) = {t} PROVE FALSE
  BY DEF Alone
<1>1. PICK s : s = z.scheduled[z.core[t]]
  OBVIOUS
<1>2. s \in Seq(Threads) /\ Sorted(z, s) /\ Range(s) = {t}
  BY <1>1, HoldsFacts DEF Lists
<1>3. Position(s, t) \in 1 .. Len(s) /\ s[Position(s, t)] = t
  BY <1>2, RemoveOnFacts
<1>4. \A i \in 1 .. Len(s) : s[i] = t
  BY <1>2, SMTT(30) DEF Range
<1>5. \A i, j \in 1 .. Len(s) : ~(i < j)
  BY <1>2, <1>4, SMT DEF Sorted
<1>6. Position(s, t) = Len(s)
  BY <1>3, <1>5, SMT
<1> QED
  BY <1>1, <1>6 DEF GetNext

\* A top thread without a thread after it has its core for itself.
LEMMA TopIsAlone ==
  ASSUME NEW z, NEW threads, Holds(z, threads), NEW t \in threads, Top(Tops(z), z.core[t]) = t,
         GetNext(z.scheduled[z.core[t]], t) = NoThread
  PROVE  Alone(z, threads, t)
<1>1. /\ t # NoThread /\ z.core[t] \in Cores \cup {NoCore} /\ NoCore \notin Cores
      /\ threads \subseteq Threads /\ NoThread \notin Threads
  BY HoldsFacts, QueueAssumption, SMT DEF NoCore, Cores
<1>2. z.core[t] \in Cores /\ Tops(z)[z.core[t]] = t
  BY <1>1 DEF Top
<1>3. PICK s : s = z.scheduled[z.core[t]]
  OBVIOUS
<1>4. s \in Seq(Threads) /\ Sorted(z, s) /\ Range(s) = ScheduledOn(z, threads, z.core[t]) /\ GetFront(s) = t
  BY <1>2, <1>3, HoldsFacts DEF Lists, Tops
<1>5. t \in Range(s) /\ t = s[1] /\ 1 \in 1 .. Len(s)
  BY <1>1, <1>4, GetFrontFacts, SMT
<1>6. Position(s, t) \in 1 .. Len(s) /\ s[Position(s, t)] = t
  BY <1>4, <1>5, RemoveOnFacts, SMT
<1>7. Position(s, t) = 1
  BY <1>4, <1>5, <1>6, SMT DEF Sorted
<1>10. PICK n \in Nat : n = Len(s)
  BY <1>4, SMT
<1>8. n = 1
  <2>1. n >= 1
    BY <1>5, <1>10, SMT
  <2>2. ASSUME n > 1 PROVE FALSE
    <3>1. 2 \in 1 .. n
      BY <2>2, SMT
    <3>2. s[2] \in Threads
      BY <1>4, <1>10, <3>1, SMT
    <3>3. GetNext(s, t) = s[2]
      BY <1>7, <1>10, <2>2, SMT DEF GetNext
    <3> QED
      BY <1>1, <1>3, <3>2, <3>3
  <2> QED
    BY <2>1, <2>2, SMT
<1>9. Range(s) = {t}
  BY <1>4, <1>5, <1>8, <1>10, SMT DEF Range
<1> QED
  BY <1>2, <1>4, <1>9 DEF Alone

\* The tops after a thread went to an idle core.
TopsMoved(z, t, c, r) ==
  /\ Tops(r)[c] = t
  /\ \A d \in Cores \ {c} : d # z.core[t] \/ Tops(z)[d] # t => Tops(r)[d] = Tops(z)[d]
  /\ z.core[t] \in Cores \ {c} /\ Tops(z)[z.core[t]] = t =>
       Tops(r)[z.core[t]] = GetNext(z.scheduled[z.core[t]], t)

\* ChangeCore to an idle core: the thread is its top, and the core that it
\* leaves gets the next one.
LEMMA MovedTops ==
  ASSUME NEW z, NEW threads, Holds(z, threads), NEW c \in Cores, Tops(z)[c] = NoThread,
         NEW t \in SuggestedFor(z, threads, c), NEW toFront, NEW r, r = ChangeCore(z, t, c, toFront)
  PROVE  MovedTo(z, t, c, r) /\ Holds(r, threads) /\ TopsMoved(z, t, c, r)
<1>1. /\ t \in threads /\ t \in Threads /\ c \in z.affinity[t] /\ z.core[t] # c /\ c \in Cores \cup {NoCore}
      /\ z.priority \in [Threads -> Nat]
  BY HoldsFacts DEF SuggestedFor, Suggested
<1>2. MovedTo(z, t, c, r)
  BY <1>1, ChangeCoreFields
<1>3. Holds(r, threads)
  BY <1>1, ChangeCoreHolds
<1>4. \A d \in Cores : Tops(r)[d] = GetFront(r.scheduled[d]) /\ Tops(z)[d] = GetFront(z.scheduled[d])
  BY DEF Tops
<1>5. Tops(r)[c] = t
  <2>1. z.scheduled[c] \in Seq(Threads) /\ Range(z.scheduled[c]) = {}
    BY <1>4, HoldsFacts, GetFrontFacts
  <2>2. r.scheduled[c] \in {PushBackOn(z, z.scheduled[c], t), PushFrontOn(z, z.scheduled[c], t)}
    BY <1>2 DEF MovedTo
  <2> QED
    BY <1>1, <1>4, <2>1, <2>2, PushOnEmpty, SMT
<1>6. ASSUME NEW d \in Cores \ {c}, d = z.core[t]
      PROVE  /\ Tops(z)[d] # t => Tops(r)[d] = Tops(z)[d]
             /\ Tops(z)[d] = t => Tops(r)[d] = GetNext(z.scheduled[d], t)
  <2>1. r.scheduled[d] = RemoveOn(z.scheduled[d], t)
    BY <1>2, <1>6 DEF MovedTo
  <2>2. t \in ScheduledOn(z, threads, d)
    BY <1>1, <1>6 DEF ScheduledOn, Scheduled
  <2>3. Lists(z, z.scheduled[d], ScheduledOn(z, threads, d))
    BY HoldsFacts
  <2>4. z.scheduled[d] \in Seq(Threads) /\ Sorted(z, z.scheduled[d]) /\ t \in Range(z.scheduled[d])
    BY <2>2, <2>3 DEF Lists
  <2>5. /\ GetFront(z.scheduled[d]) # t => GetFront(RemoveOn(z.scheduled[d], t)) = GetFront(z.scheduled[d])
        /\ GetFront(z.scheduled[d]) = t => GetFront(RemoveOn(z.scheduled[d], t)) = GetNext(z.scheduled[d], t)
    BY <2>4, RemoveFront
  <2> QED
    BY <1>4, <2>1, <2>5
<1>7. ASSUME NEW d \in Cores \ {c}, d # z.core[t] PROVE Tops(r)[d] = Tops(z)[d]
  <2>1. r.scheduled[d] = z.scheduled[d]
    BY <1>2, <1>7 DEF MovedTo
  <2> QED
    BY <1>4, <2>1
<1> QED
  BY <1>2, <1>3, <1>5, <1>6, <1>7 DEF TopsMoved

\* An idle core gets a thread, or there is none that it could get.
LEMMA MigrateStep ==
  ASSUME NEW a, NEW threads, Holds(a.q, threads), a.top = Tops(a.q), NEW c \in Cores, a.top[c] = NoThread,
         NEW r, r = MigrateToIdle(a, c)
  PROVE  \/ r = a /\ (NoUrgent(a.q, threads) => \A t \in SuggestedFor(a.q, threads, c) : Alone(a.q, threads, t))
         \/ Filled(a, c, threads, r)
<1>1. PICK z : z = a.q
  OBVIOUS
<1>0. Holds(z, threads) /\ a.top = Tops(z) /\ Tops(z)[c] = NoThread
  BY <1>1
<1>9. PICK others : others = NotTop(z, a.top, c)
  OBVIOUS
<1>2. PICK s : s = First(z.suggested[c], others)
  OBVIOUS
<1>3. PICK u : u = First(z.suggested[c], Spare(z, c))
  OBVIOUS
<1>4. /\ z.suggested[c] \in Seq(Threads) /\ Range(z.suggested[c]) = SuggestedFor(z, threads, c)
      /\ Tops(z) \in [Cores -> threads \cup {NoThread}] /\ NoThread \notin threads
      /\ \A t \in threads : z.core[t] \in Cores \cup {NoCore}
      /\ SuggestedFor(z, threads, c) \subseteq threads /\ NoCore \notin Cores
  BY <1>0, HoldsFacts, TopsFacts, QueueAssumption, SMT DEF Lists, SuggestedFor, NoCore, Cores
<1>5. ASSUME s # NoThread, Movable(z, Top(a.top, z.core[s])) PROVE Filled(a, c, threads, r)
  <2>0. s \in Range(z.suggested[c]) \cap others
    BY <1>2, <1>4, <1>5, FirstFacts
  <2>1. s \in SuggestedFor(z, threads, c) /\ Top(Tops(z), z.core[s]) # s
    BY <1>0, <1>4, <1>9, <2>0 DEF NotTop
  <2>2. r = [q |-> ChangeCore(z, s, c, FALSE), top |-> [a.top EXCEPT ![c] = s]]
    BY <1>1, <1>2, <1>5, <1>9 DEF MigrateToIdle
  <2>3. r.q = ChangeCore(z, s, c, FALSE) /\ r.top = [Tops(z) EXCEPT ![c] = s]
    BY <1>1, <2>2, SMT
  <2>4. /\ MovedTo(z, s, c, r.q) /\ Holds(r.q, threads)
        /\ Tops(r.q)[c] = s
        /\ \A d \in Cores \ {c} : d # z.core[s] \/ Tops(z)[d] # s => Tops(r.q)[d] = Tops(z)[d]
    <3>1. MovedTo(z, s, c, r.q) /\ Holds(r.q, threads) /\ TopsMoved(z, s, c, r.q)
      BY <1>0, <2>1, <2>3, MovedTops
    <3> QED
      BY <3>1 DEF TopsMoved
  <2>5. \A d \in Cores \ {c} : Tops(r.q)[d] = Tops(z)[d]
    <3> SUFFICES ASSUME NEW d \in Cores, d = z.core[s] PROVE Tops(z)[d] # s
      BY <2>4
    <3> QED
      BY <1>4, <2>1 DEF Top
  <2>6. r.top = Tops(r.q)
    <3>1. Tops(r.q) = [d \in Cores |-> Tops(r.q)[d]] /\ Tops(z) = [d \in Cores |-> Tops(z)[d]]
      BY DEF Tops
    <3> QED
      BY <2>3, <2>4, <2>5, <3>1
  <2>7. ~Alone(z, threads, s)
    BY <1>0, <1>4, <2>1, NotTopIsNotAlone
  <2> QED
    BY <1>0, <1>1, <2>1, <2>4, <2>5, <2>6, <2>7 DEF Filled
<1>6. ASSUME s # NoThread, ~Movable(z, Top(a.top, z.core[s])) PROVE r = a /\ ~NoUrgent(z, threads)
  <2>1. r = a
    BY <1>1, <1>2, <1>6, <1>9 DEF MigrateToIdle
  <2>2. s \in threads
    BY <1>2, <1>4, <1>6, FirstFacts, SMT
  <2>3. Top(a.top, z.core[s]) \in threads \cup {NoThread}
    BY <1>0, <1>4, <2>2 DEF Top
  <2> QED
    BY <1>6, <2>1, <2>3 DEF Movable, NoUrgent
<1>7. ASSUME s = NoThread, u # NoThread PROVE Filled(a, c, threads, r)
  <2>9. u \in Range(z.suggested[c]) \cap Spare(z, c)
    BY <1>3, <1>4, <1>7, FirstFacts
  <2>0. Range(z.suggested[c]) \cap others = {}
    BY <1>2, <1>4, <1>7, FirstFacts
  <2>1. /\ u \in SuggestedFor(z, threads, c)
        /\ GetNext(z.scheduled[z.core[u]], u) # NoThread
        /\ Top(Tops(z), z.core[u]) = u
    BY <1>0, <1>4, <1>9, <2>0, <2>9 DEF NotTop, Spare
  <2>2. z.core[u] \in Cores \ {c} /\ Tops(z)[z.core[u]] = u
    BY <1>4, <2>1 DEF Top, SuggestedFor, Suggested
  <2>3. r = [q |-> ChangeCore(z, u, c, FALSE),
             top |-> [a.top EXCEPT ![z.core[u]] = GetNext(z.scheduled[z.core[u]], u), ![c] = u]]
    BY <1>1, <1>2, <1>3, <1>7, <1>9 DEF MigrateToIdle
  <2>4. /\ r.q = ChangeCore(z, u, c, FALSE)
        /\ r.top = [Tops(z) EXCEPT ![z.core[u]] = GetNext(z.scheduled[z.core[u]], u), ![c] = u]
    BY <1>0, <2>3, SMT
  <2>5. /\ MovedTo(z, u, c, r.q) /\ Holds(r.q, threads)
        /\ Tops(r.q)[c] = u
        /\ \A d \in Cores \ {c} : d # z.core[u] => Tops(r.q)[d] = Tops(z)[d]
        /\ Tops(r.q)[z.core[u]] = GetNext(z.scheduled[z.core[u]], u)
    <3>1. MovedTo(z, u, c, r.q) /\ Holds(r.q, threads) /\ TopsMoved(z, u, c, r.q)
      BY <1>0, <2>1, <2>4, MovedTops
    <3> QED
      BY <2>2, <3>1 DEF TopsMoved
  <2>6. r.top = Tops(r.q)
    <3>1. Tops(r.q) = [d \in Cores |-> Tops(r.q)[d]] /\ Tops(z) = [d \in Cores |-> Tops(z)[d]]
      BY DEF Tops
    <3>2. \A d \in Cores : r.top[d] = IF d = c THEN u
                                   ELSE IF d = z.core[u] THEN GetNext(z.scheduled[z.core[u]], u) ELSE Tops(z)[d]
      BY <2>2, <2>4, <3>1
    <3>3. r.top = [d \in Cores |-> r.top[d]]
      BY <2>4, <3>1
    <3> QED
      BY <2>5, <3>1, <3>2, <3>3, SMT
  <2>7. ~Alone(z, threads, u)
    BY <1>0, <1>4, <2>1, <2>2, SpareIsNotAlone
  <2>8. \A d \in Cores \ {c} : Tops(r.q)[d] = NoThread <=> Tops(z)[d] = NoThread
    BY <1>4, <2>1, <2>2, <2>5, SMT
  <2> QED
    BY <1>0, <1>1, <2>1, <2>5, <2>6, <2>7, <2>8 DEF Filled
<1>8. ASSUME s = NoThread, u = NoThread
      PROVE  r = a /\ \A t \in SuggestedFor(z, threads, c) : Alone(z, threads, t)
  <2>1. r = a
    BY <1>1, <1>2, <1>3, <1>8, <1>9 DEF MigrateToIdle
  <2>2. Range(z.suggested[c]) \cap others = {}
    <3>1. First(z.suggested[c], others) = NoThread /\ z.suggested[c] \in Seq(Threads)
      BY <1>2, <1>4, <1>8
    <3> QED
      BY ONLY <3>1, FirstFacts, Zenon
  <2>4. Range(z.suggested[c]) \cap Spare(z, c) = {}
    BY <1>3, <1>4, <1>8, FirstFacts
  <2>3. ASSUME NEW t \in SuggestedFor(z, threads, c)
        PROVE  Top(Tops(z), z.core[t]) = t /\ GetNext(z.scheduled[z.core[t]], t) = NoThread
    BY <1>0, <1>4, <1>9, <2>2, <2>4 DEF NotTop, Spare
  <2> QED
    BY <1>0, <1>4, <2>1, <2>3, TopIsAlone
<1> QED
  BY <1>1, <1>5, <1>6, <1>7, <1>8

\* The queues z after the first n cores were looked at.
MigrationInv(z, threads, n, a) ==
  /\ Holds(a.q, threads) /\ a.top = Tops(a.q)
  /\ a.q.priority = z.priority /\ a.q.affinity = z.affinity
  /\ \A t \in Threads : z.core[t] \in Cores => a.q.core[t] \in Cores
  /\ \A t, u \in threads : t # u /\ a.q.core[t] = a.q.core[u] /\ a.q.core[t] \in Cores => z.core[t] = z.core[u]
  /\ \A c \in Cores : c >= n /\ Tops(z)[c] = NoThread => a.top[c] = NoThread
  /\ \A c \in Cores : a.top[c] = NoThread => Tops(z)[c] = NoThread
  /\ NoUrgent(z, threads) => \A c \in Cores : c < n /\ a.top[c] = NoThread =>
                               \A t \in SuggestedFor(a.q, threads, c) : Alone(a.q, threads, t)

\* An idle core that gets a thread keeps what the earlier cores have got.
LEMMA FilledKeeps ==
  ASSUME NEW z, NEW threads, NEW n \in Cores, NEW a, MigrationInv(z, threads, n, a), Tops(z)[n] = NoThread,
         NEW r, Filled(a, n, threads, r)
  PROVE  MigrationInv(z, threads, n + 1, r)
<1>1. PICK t \in SuggestedFor(a.q, threads, n) :
        /\ MovedTo(a.q, t, n, r.q) /\ Holds(r.q, threads) /\ r.top = Tops(r.q)
        /\ ~Alone(a.q, threads, t)
        /\ \A c \in Cores \ {n} : r.top[c] = NoThread <=> a.top[c] = NoThread
  BY DEF Filled
<1>2. /\ Holds(a.q, threads) /\ a.top = Tops(a.q) /\ a.top[n] = NoThread
      /\ a.q.priority = z.priority /\ a.q.affinity = z.affinity
      /\ \A u \in Threads : z.core[u] \in Cores => a.q.core[u] \in Cores
      /\ \A u, v \in threads : u # v /\ a.q.core[u] = a.q.core[v] /\ a.q.core[u] \in Cores => z.core[u] = z.core[v]
      /\ \A c \in Cores : c >= n /\ Tops(z)[c] = NoThread => a.top[c] = NoThread
      /\ \A c \in Cores : a.top[c] = NoThread => Tops(z)[c] = NoThread
      /\ NoUrgent(z, threads) => \A c \in Cores : c < n /\ a.top[c] = NoThread =>
                                   \A u \in SuggestedFor(a.q, threads, c) : Alone(a.q, threads, u)
  BY QueueAssumption, SMT DEF MigrationInv, Cores
<1>3. /\ t \in threads /\ t \in Threads /\ threads \subseteq Threads
      /\ n \in a.q.affinity[t] /\ a.q.core[t] # n /\ a.q.core \in [Threads -> Cores \cup {NoCore}]
  BY <1>1, <1>2, HoldsFacts DEF SuggestedFor, Suggested
<1>4. /\ r.q.core = [a.q.core EXCEPT ![t] = n] /\ r.q.priority = a.q.priority /\ r.q.affinity = a.q.affinity
  BY <1>1 DEF MovedTo
<1>5. r.q.core[t] = n /\ \A u \in Threads \ {t} : r.q.core[u] = a.q.core[u]
  BY <1>3, <1>4
<1>6. \A c \in Cores : a.top[c] = NoThread => \A u \in threads : a.q.core[u] # c
  <2>1. \A c \in Cores : a.top[c] = NoThread => ScheduledOn(a.q, threads, c) = {}
    BY <1>2, TopsFacts
  <2> QED
    BY <2>1 DEF ScheduledOn, Scheduled
<1>7. r.top[n] # NoThread
  <2>1. t \in ScheduledOn(r.q, threads, n)
    BY <1>3, <1>5 DEF ScheduledOn, Scheduled
  <2>2. Tops(r.q)[n] = NoThread => ScheduledOn(r.q, threads, n) = {}
    BY <1>1, TopsFacts
  <2> QED
    BY <1>1, <2>1, <2>2
<1>8. \A u \in Threads : z.core[u] \in Cores => r.q.core[u] \in Cores
  BY <1>2, <1>5
<1>9. ASSUME NEW u \in threads, NEW v \in threads, u # v, r.q.core[u] = r.q.core[v], r.q.core[u] \in Cores
      PROVE  z.core[u] = z.core[v]
  BY <1>2, <1>3, <1>5, <1>6, <1>9, SMT
<1>10. \A c \in Cores : c >= n + 1 /\ Tops(z)[c] = NoThread => r.top[c] = NoThread
  <2> SUFFICES ASSUME NEW c \in Cores, c >= n + 1, Tops(z)[c] = NoThread PROVE r.top[c] = NoThread
    OBVIOUS
  <2>1. c >= n /\ c # n
    BY QueueAssumption, SMT DEF Cores
  <2> QED
    BY <1>1, <1>2, <2>1
<1>11. \A c \in Cores : r.top[c] = NoThread => Tops(z)[c] = NoThread
  BY <1>1, <1>2, <1>7
<1>12. ASSUME NoUrgent(z, threads), NEW c \in Cores, c < n + 1, r.top[c] = NoThread,
              NEW u \in SuggestedFor(r.q, threads, c)
       PROVE  Alone(r.q, threads, u)
  <2>1. c < n /\ c # n /\ a.top[c] = NoThread
    BY <1>1, <1>7, <1>12, QueueAssumption, SMT DEF Cores
  <2>2. u \in threads /\ c \in a.q.affinity[u] /\ r.q.core[u] # c
    BY <1>4, <1>12 DEF SuggestedFor, Suggested
  <2>3. a.q.core[u] # c
    BY <1>6, <2>1, <2>2
  <2>4. u \in SuggestedFor(a.q, threads, c)
    BY <2>2, <2>3 DEF SuggestedFor, Suggested
  <2>5. Alone(a.q, threads, u)
    BY <1>2, <1>12, <2>1, <2>4
  <2>6. u # t
    BY <1>1, <2>5
  <2>7. a.q.core[u] \in Cores /\ ScheduledOn(a.q, threads, a.q.core[u]) = {u}
    BY <2>5 DEF Alone
  <2>8. r.q.core[u] = a.q.core[u] /\ a.q.core[u] # n
    BY <1>2, <1>3, <1>5, <1>6, <2>2, <2>6
  <2>9. \A v \in threads : a.q.core[v] = a.q.core[u] <=> v = u
    BY <2>2, <2>7, SMT DEF ScheduledOn, Scheduled
  <2>10. \A v \in threads : r.q.core[v] = r.q.core[u] <=> v = u
    BY <1>3, <1>5, <2>6, <2>8, <2>9
  <2>11. ScheduledOn(r.q, threads, r.q.core[u]) = {u}
    BY <2>2, <2>10 DEF ScheduledOn, Scheduled
  <2> QED
    BY <2>7, <2>8, <2>11 DEF Alone
<1> QED
  BY <1>1, <1>2, <1>4, <1>8, <1>9, <1>10, <1>11, <1>12 DEF MigrationInv

\* The core n is looked at: MigrateToIdle if it was idle at first.
Looked(z, a, n) == IF Tops(z)[n] = NoThread THEN MigrateToIdle(a, n) ELSE a

\* One turn of the loop over the idle cores.
LEMMA LookedKeeps ==
  ASSUME NEW z, NEW threads, NEW n \in Cores, NEW a, MigrationInv(z, threads, n, a)
  PROVE  MigrationInv(z, threads, n + 1, Looked(z, a, n))
<1>1. PICK r : r = Looked(z, a, n)
  OBVIOUS
<1>2. /\ Holds(a.q, threads) /\ a.top = Tops(a.q)
      /\ a.q.priority = z.priority
      /\ Tops(z)[n] = NoThread => a.top[n] = NoThread
      /\ \A c \in Cores : a.top[c] = NoThread => Tops(z)[c] = NoThread
      /\ NoUrgent(z, threads) => \A c \in Cores : c < n /\ a.top[c] = NoThread =>
                                   \A u \in SuggestedFor(a.q, threads, c) : Alone(a.q, threads, u)
  BY QueueAssumption, SMT DEF MigrationInv, Cores
<1>3. ASSUME NoUrgent(z, threads) /\ a.top[n] = NoThread =>
               \A t \in SuggestedFor(a.q, threads, n) : Alone(a.q, threads, t)
      PROVE  MigrationInv(z, threads, n + 1, a)
  <2>1. \A c \in Cores : (c < n + 1 => c < n \/ c = n) /\ (c >= n + 1 => c >= n)
    BY QueueAssumption, SMT DEF Cores
  <2>2. NoUrgent(z, threads) => \A c \in Cores : c < n + 1 /\ a.top[c] = NoThread =>
                                  \A u \in SuggestedFor(a.q, threads, c) : Alone(a.q, threads, u)
    BY <1>2, <1>3, <2>1
  <2> QED
    BY <2>1, <2>2 DEF MigrationInv
<1>4. CASE Tops(z)[n] # NoThread
  <2>1. r = a /\ a.top[n] # NoThread
    BY <1>1, <1>2, <1>4 DEF Looked
  <2> QED
    BY <1>1, <1>3, <2>1
<1>5. CASE Tops(z)[n] = NoThread
  <2>1. r = MigrateToIdle(a, n) /\ a.top[n] = NoThread
    BY <1>1, <1>2, <1>5 DEF Looked
  <2>2. \/ r = a /\ (NoUrgent(a.q, threads) => \A t \in SuggestedFor(a.q, threads, n) : Alone(a.q, threads, t))
        \/ Filled(a, n, threads, r)
    BY <1>2, <2>1, MigrateStep
  <2>3. NoUrgent(a.q, threads) = NoUrgent(z, threads)
    BY <1>2 DEF NoUrgent
  <2>4. Filled(a, n, threads, r) => MigrationInv(z, threads, n + 1, r)
    BY <1>5, FilledKeeps
  <2> QED
    BY <1>1, <1>3, <2>2, <2>3, <2>4
<1> QED
  BY <1>4, <1>5

\* The recursion of Migrated has a solution, so that it can be unfolded.
LEMMA MigratedUnfolds ==
  ASSUME NEW z
  PROVE  \E f : /\ f[0] = [q |-> z, top |-> Tops(z)]
                /\ \A n \in Cores : f[n + 1] = Looked(z, f[n], n)
                /\ Migrated(z) = f[NumCores]
<1> DEFINE Body(g, n) == IF n = 0 THEN [q |-> z, top |-> Tops(z)] ELSE Looked(z, g[n - 1], n - 1)
           Solves(g, k) == g = [n \in 0 .. k |-> Body(g, n)]
           bad == {k \in 0 .. NumCores : ~\E g : Solves(g, k)}
<1>0. NumCores \in Nat /\ NumCores > 0
  BY QueueAssumption, SMT
<1>1. bad = {}
  <2> SUFFICES ASSUME bad # {} PROVE FALSE
    OBVIOUS
  <2>1. PICK m \in bad : \A k \in bad : m <= k
    <3>1. bad \subseteq Nat
      BY <1>0, SMT
    <3> QED
      BY <3>1, LeastNatural
  <2>2. m \in 0 .. NumCores /\ ~\E g : Solves(g, m)
    OBVIOUS
  <2>3. CASE m = 0
    <3>1. PICK g : g = [n \in 0 .. 0 |-> [q |-> z, top |-> Tops(z)]]
      OBVIOUS
    <3>2. Solves(g, 0)
      BY <3>1, SMT
    <3> QED
      BY <2>2, <2>3, <3>2
  <2>4. CASE m # 0
    <3>0. m \in Nat /\ m > 0 /\ m - 1 \in 0 .. NumCores
      BY <1>0, <2>2, <2>4, SMT
    <3>1. m - 1 \in 0 .. NumCores /\ m - 1 \notin bad /\ m \in Nat /\ m > 0
      <4>1. ~(m <= m - 1)
        BY <3>0, SMT
      <4> QED
        BY <2>1, <3>0, <4>1
    <3>2. PICK g : Solves(g, m - 1)
      BY <3>1
    <3>3. PICK h : h = [n \in 0 .. m |-> IF n = m THEN Body(g, m) ELSE g[n]]
      OBVIOUS
    <3>4. \A n \in 0 .. m : n # m => n \in 0 .. m - 1
      BY <3>1, SMT
    <3>5. \A n \in 0 .. m - 1 : g[n] = Body(g, n)
      BY <3>2
    <3>6. \A n \in 0 .. m : n # 0 => n - 1 \in 0 .. m /\ n - 1 # m
      BY <3>1, SMT
    <3>7. \A n \in 0 .. m : n # 0 => h[n - 1] = g[n - 1]
      BY <3>3, <3>6
    <3>8. \A n \in 0 .. m : Body(h, n) = Body(g, n)
      BY <3>7
    <3>9. \A n \in 0 .. m : h[n] = Body(g, n)
      BY <3>3, <3>4, <3>5
    <3>10. Solves(h, m)
      BY <3>3, <3>8, <3>9
    <3> QED
      BY <2>2, <3>10
  <2> QED
    BY <2>3, <2>4
<1>2. \E g : Solves(g, NumCores)
  BY <1>0, <1>1, SMTT(30)
<1>3. PICK f : f = CHOOSE g : Solves(g, NumCores)
  OBVIOUS
<1>4. Solves(f, NumCores)
  BY <1>2, <1>3
<1>5. Migrated(z) = f[NumCores]
  BY <1>3 DEF Migrated, Looked
<1>6. f[0] = [q |-> z, top |-> Tops(z)]
  BY <1>0, <1>4, SMT
<1>7. ASSUME NEW n \in Cores PROVE f[n + 1] = Looked(z, f[n], n)
  <2>1. n \in Nat /\ n + 1 \in 0 .. NumCores /\ n + 1 # 0 /\ n + 1 - 1 = n
    BY <1>0, SMT DEF Cores
  <2>2. f[n + 1] = Body(f, n + 1)
    BY <1>4, <2>1
  <2> QED
    BY <2>1, <2>2, SMT
<1> QED
  BY <1>5, <1>6, <1>7

\* What the end of the lock makes of the queues: every thread keeps its
\* priority and mask, no two threads come together on a core, and without
\* urgent threads a core stays idle only if its suggestions have a core each.
LEMMA MigratedFacts ==
  ASSUME NEW z, NEW threads, Holds(z, threads), NEW m, m = Migrated(z)
  PROVE  MigrationInv(z, threads, NumCores, m)
<1>0. NumCores \in Nat
  BY QueueAssumption
<1>1. PICK f : /\ f[0] = [q |-> z, top |-> Tops(z)]
               /\ \A n \in Cores : f[n + 1] = Looked(z, f[n], n)
               /\ Migrated(z) = f[NumCores]
  BY MigratedUnfolds
<1> DEFINE bad == {n \in 0 .. NumCores : ~MigrationInv(z, threads, n, f[n])}
<1>2. MigrationInv(z, threads, 0, f[0])
  <2>1. f[0].q = z /\ f[0].top = Tops(z)
    BY <1>1, SMT
  <2>2. \A c \in Cores : ~(c < 0)
    BY <1>0, SMT DEF Cores
  <2> QED
    BY <2>1, <2>2 DEF MigrationInv
<1>3. bad = {}
  <2> SUFFICES ASSUME bad # {} PROVE FALSE
    OBVIOUS
  <2>1. PICK k \in bad : \A j \in bad : k <= j
    <3>1. bad \subseteq Nat
      BY <1>0, SMT
    <3> QED
      BY <3>1, LeastNatural
  <2>2. k \in 0 .. NumCores /\ ~MigrationInv(z, threads, k, f[k])
    OBVIOUS
  <2>3. k # 0
    BY <1>2, <2>2
  <2>4. k - 1 \in Cores /\ k - 1 \in 0 .. NumCores /\ k - 1 \notin bad /\ k - 1 + 1 = k
    BY <1>0, <2>1, <2>2, <2>3, SMT DEF Cores
  <2>5. MigrationInv(z, threads, k - 1, f[k - 1])
    BY <2>4
  <2>6. MigrationInv(z, threads, k - 1 + 1, Looked(z, f[k - 1], k - 1))
    BY <2>4, <2>5, LookedKeeps
  <2>7. f[k - 1 + 1] = Looked(z, f[k - 1], k - 1)
    BY <1>1, <2>4
  <2> QED
    BY <2>2, <2>4, <2>6, <2>7
<1> QED
  BY <1>0, <1>1, <1>3, SMT

----------------------------------------------------------------------------
(* RotateScheduledQueue *)

\* z holds the threads, and each has a core that had one before.
Keeps(before, threads, z) ==
  Holds(z, threads) /\ \A t \in Threads : before.core[t] \in Cores => z.core[t] \in Cores

\* The three ways in which a rotation moves a thread.
LEMMA ChangeCoreKeeps ==
  ASSUME NEW before, NEW threads, NEW z, Keeps(before, threads, z), NEW c \in Cores, NEW t \in SuggestedFor(z, threads, c),
         NEW toFront
  PROVE  Keeps(before, threads, ChangeCore(z, t, c, toFront))
<1>1. Holds(z, threads) /\ \A u \in Threads : before.core[u] \in Cores => z.core[u] \in Cores
  BY DEF Keeps
<1>2. PICK r : r = ChangeCore(z, t, c, toFront)
  OBVIOUS
<1>3. /\ t \in threads /\ t \in Threads /\ c \in z.affinity[t] /\ z.core[t] # c /\ c \in Cores \cup {NoCore}
      /\ z.core \in [Threads -> Cores \cup {NoCore}]
  BY <1>1, HoldsFacts DEF SuggestedFor, Suggested
<1>4. Holds(r, threads)
  BY <1>1, <1>2, <1>3, ChangeCoreHolds
<1>5. MovedTo(z, t, c, r)
  BY <1>1, <1>2, <1>3, ChangeCoreFields
<1>6. r.core = [z.core EXCEPT ![t] = c]
  BY <1>5 DEF MovedTo
<1> QED
  BY <1>1, <1>2, <1>3, <1>4, <1>6 DEF Keeps

\* The thread goes to the back of its priority, on the same core.
LEMMA MoveToBackKeeps ==
  ASSUME NEW before, NEW threads, NEW z, Keeps(before, threads, z), NEW t \in threads
  PROVE  Keeps(before, threads, MoveToScheduledBack(z, t))
  BY MoveToBackHolds, SMT DEF Keeps

\* The first of some suggested threads goes to the core, if there is one.
LEMMA MoveFirstKeeps ==
  ASSUME NEW before, NEW threads, NEW z, Keeps(before, threads, z), NEW c \in Cores, NEW some
  PROVE  Keeps(before, threads, MoveFirst(z, c, some))
<1>1. PICK may : may = {o \in some : Movable(z, Top(Tops(z), z.core[o]))}
  OBVIOUS
<1>2. PICK s : s = First(z.suggested[c], may)
  OBVIOUS
<1>3. z.suggested[c] \in Seq(Threads) /\ Range(z.suggested[c]) = SuggestedFor(z, threads, c)
  BY HoldsFacts DEF Keeps, Lists
<1>4. CASE s = NoThread
  BY <1>1, <1>2, <1>4 DEF MoveFirst
<1>5. CASE s # NoThread
  <2>1. s \in SuggestedFor(z, threads, c)
    BY <1>2, <1>3, <1>5, FirstFacts, SMT
  <2>2. MoveFirst(z, c, some) = ChangeCore(z, s, c, TRUE)
    BY <1>1, <1>2, <1>5 DEF MoveFirst
  <2> QED
    BY <2>1, <2>2, ChangeCoreKeeps
<1> QED
  BY <1>4, <1>5

\* A thread of a core's queue.
LEMMA FrontOfCore ==
  ASSUME NEW z, NEW threads, Holds(z, threads), NEW c \in Cores, NEW p, GetFrontOf(z, z.scheduled[c], p) # NoThread
  PROVE  GetFrontOf(z, z.scheduled[c], p) \in ScheduledOn(z, threads, c)
<1>1. z.scheduled[c] \in Seq(Threads) /\ Range(z.scheduled[c]) = ScheduledOn(z, threads, c)
  BY HoldsFacts DEF Lists
<1> QED
  BY <1>1, FirstFacts, SMT DEF GetFrontOf

\* RotateScheduledQueue moves threads, and takes none from the queues.
LEMMA RotateKeeps ==
  ASSUME NEW before, NEW threads, NEW z, Keeps(before, threads, z), NEW c \in Cores, NEW p, NEW older
  PROVE  Keeps(before, threads, RotateScheduledQueue(z, c, p, older))
<1> DEFINE top == GetFrontOf(z, z.scheduled[c], p)
           z1 == IF top = NoThread THEN z ELSE MoveToScheduledBack(z, top)
           n == GetFrontOf(z1, z1.scheduled[c], p)
           z2 == IF top # n /\ older THEN z1
                 ELSE MoveFirst(z1, c, {s \in NotTop(z1, Tops(z1), c) : z1.priority[s] = p})
           best == GetFront(z2.scheduled[c])
<1>1. top = GetFrontOf(z, z.scheduled[c], p)
  OBVIOUS
<1>2. z1 = IF top = NoThread THEN z ELSE MoveToScheduledBack(z, top)
  OBVIOUS
<1>4. z2 = IF top # n /\ older THEN z1
           ELSE MoveFirst(z1, c, {s \in NotTop(z1, Tops(z1), c) : z1.priority[s] = p})
  OBVIOUS
<1>6. RotateScheduledQueue(z, c, p, older) =
        IF best # NoThread /\ z2.priority[best] >= p
        THEN MoveFirst(z2, c, {s \in NotTop(z2, Tops(z2), c) : z2.priority[s] < z2.priority[best]}) ELSE z2
  BY DEF RotateScheduledQueue
<1> HIDE DEF top, z1, n, z2, best
<1>7. top # NoThread => top \in threads
  BY <1>1, FrontOfCore DEF Keeps, ScheduledOn
<1>8. Keeps(before, threads, z1)
  BY <1>2, <1>7, MoveToBackKeeps
<1>9. Keeps(before, threads, MoveFirst(z1, c, {s \in NotTop(z1, Tops(z1), c) : z1.priority[s] = p}))
  BY <1>8, MoveFirstKeeps
<1>10. Keeps(before, threads, z2)
  BY <1>4, <1>8, <1>9
<1>11. Keeps(before, threads,
             MoveFirst(z2, c, {s \in NotTop(z2, Tops(z2), c) : z2.priority[s] < z2.priority[best]}))
  BY <1>10, MoveFirstKeeps
<1> QED
  BY <1>6, <1>10, <1>11

\* The recursion of Rotations has a solution as well.
LEMMA RotationsUnfold ==
  ASSUME NEW z, NEW older, NEW f, f = Rotations(z, older)
  PROVE  /\ f[0] = z
         /\ \A n \in Cores : f[n + 1] = RotateScheduledQueue(f[n], n, Preemption[n], n \in older)
<1> DEFINE Body(g, n) == IF n = 0 THEN z
                         ELSE RotateScheduledQueue(g[n - 1], n - 1, Preemption[n - 1], n - 1 \in older)
           Solves(g, k) == g = [n \in 0 .. k |-> Body(g, n)]
           bad == {k \in 0 .. NumCores : ~\E g : Solves(g, k)}
<1>0. NumCores \in Nat /\ NumCores > 0
  BY QueueAssumption, SMT
<1>1. bad = {}
  <2> SUFFICES ASSUME bad # {} PROVE FALSE
    OBVIOUS
  <2>1. PICK m \in bad : \A k \in bad : m <= k
    <3>1. bad \subseteq Nat
      BY <1>0, SMT
    <3> QED
      BY <3>1, LeastNatural
  <2>2. m \in 0 .. NumCores /\ ~\E g : Solves(g, m)
    OBVIOUS
  <2>3. CASE m = 0
    <3>1. PICK g : g = [n \in 0 .. 0 |-> z]
      OBVIOUS
    <3>2. Solves(g, 0)
      BY <3>1, SMT
    <3> QED
      BY <2>2, <2>3, <3>2
  <2>4. CASE m # 0
    <3>0. m \in Nat /\ m > 0 /\ m - 1 \in 0 .. NumCores
      BY <1>0, <2>2, <2>4, SMT
    <3>1. m - 1 \in 0 .. NumCores /\ m - 1 \notin bad /\ m \in Nat /\ m > 0
      <4>1. ~(m <= m - 1)
        BY <3>0, SMT
      <4> QED
        BY <2>1, <3>0, <4>1
    <3>2. PICK g : Solves(g, m - 1)
      BY <3>1
    <3>3. PICK h : h = [n \in 0 .. m |-> IF n = m THEN Body(g, m) ELSE g[n]]
      OBVIOUS
    <3>4. \A n \in 0 .. m : n # m => n \in 0 .. m - 1
      BY <3>1, SMT
    <3>5. \A n \in 0 .. m - 1 : g[n] = Body(g, n)
      BY <3>2
    <3>6. \A n \in 0 .. m : n # 0 => n - 1 \in 0 .. m /\ n - 1 # m
      BY <3>1, SMT
    <3>7. \A n \in 0 .. m : n # 0 => h[n - 1] = g[n - 1]
      BY <3>3, <3>6
    <3>8. \A n \in 0 .. m : Body(h, n) = Body(g, n)
      BY <3>7
    <3>9. \A n \in 0 .. m : h[n] = Body(g, n)
      BY <3>3, <3>4, <3>5
    <3>10. Solves(h, m)
      BY <3>3, <3>8, <3>9
    <3> QED
      BY <2>2, <3>10
  <2> QED
    BY <2>3, <2>4
<1>2. \E g : Solves(g, NumCores)
  <2>1. NumCores \in 0 .. NumCores
    BY <1>0, SMT
  <2> QED
    BY <1>1, <2>1
<1>3. f = CHOOSE g : Solves(g, NumCores)
  BY DEF Rotations
<1>4. Solves(f, NumCores)
  BY <1>2, <1>3
<1>6. f[0] = z
  BY <1>0, <1>4, SMT
<1>7. ASSUME NEW n \in Cores PROVE f[n + 1] = RotateScheduledQueue(f[n], n, Preemption[n], n \in older)
  <2>1. n \in Nat /\ n + 1 \in 0 .. NumCores /\ n + 1 # 0 /\ n + 1 - 1 = n
    BY <1>0, SMT DEF Cores
  <2>2. f[n + 1] = Body(f, n + 1)
    BY <1>4, <2>1
  <2> QED
    BY <2>1, <2>2, SMT
<1> QED
  BY <1>6, <1>7

\* PreemptThreads rotates the queue of every core in turn.
LEMMA RotationsKeep ==
  ASSUME NEW z, NEW threads, Holds(z, threads), NEW older, NEW f, f = Rotations(z, older)
  PROVE  /\ Keeps(z, threads, f[NumCores])
         /\ (\A n \in Cores : f[n + 1] = f[n]) => f[NumCores] = z
<1>0. NumCores \in Nat
  BY QueueAssumption
<1>1. /\ f[0] = z
      /\ \A n \in Cores : f[n + 1] = RotateScheduledQueue(f[n], n, Preemption[n], n \in older)
  BY RotationsUnfold, SMT
<1> DEFINE same == \A n \in Cores : f[n + 1] = f[n]
           bad == {n \in 0 .. NumCores : ~(Keeps(z, threads, f[n]) /\ (same => f[n] = z))}
<1>2. Keeps(z, threads, f[0]) /\ f[0] = z
  BY <1>1 DEF Keeps
<1>3. bad = {}
  <2> SUFFICES ASSUME bad # {} PROVE FALSE
    OBVIOUS
  <2>1. PICK k \in bad : \A j \in bad : k <= j
    <3>1. bad \subseteq Nat
      BY <1>0, SMT
    <3> QED
      BY <3>1, LeastNatural
  <2>2. k \in 0 .. NumCores /\ ~(Keeps(z, threads, f[k]) /\ (same => f[k] = z))
    OBVIOUS
  <2>3. k # 0
    BY <1>2, <2>2
  <2>4. k - 1 \in Cores /\ k - 1 \in 0 .. NumCores /\ k - 1 \notin bad /\ k - 1 + 1 = k
    BY <1>0, <2>1, <2>2, <2>3, SMT DEF Cores
  <2>5. Keeps(z, threads, f[k - 1]) /\ (same => f[k - 1] = z)
    BY <2>4
  <2>6. Keeps(z, threads, RotateScheduledQueue(f[k - 1], k - 1, Preemption[k - 1], k - 1 \in older))
    BY <2>4, <2>5, RotateKeeps
  <2>7. f[k - 1 + 1] = RotateScheduledQueue(f[k - 1], k - 1, Preemption[k - 1], k - 1 \in older)
    BY <1>1, <2>4
  <2>8. Keeps(z, threads, f[k])
    BY <2>4, <2>6, <2>7
  <2>9. same => f[k] = z
    BY <2>4, <2>5
  <2> QED
    BY <2>2, <2>8, <2>9
<1> QED
  BY <1>0, <1>1, <1>3, SMT

----------------------------------------------------------------------------
(* The operations under the lock. *)

\* IdleOK and QuietOK depend on the data of the threads and on the tops.
LEMMA SameData ==
  ASSUME NEW y, NEW z, NEW threads, Tops(z) = Tops(y),
         \A t \in threads : z.core[t] = y.core[t] /\ z.priority[t] = y.priority[t] /\ z.affinity[t] = y.affinity[t]
  PROVE  /\ IdleOK(y, threads) => IdleOK(z, threads)
         /\ \A some : QuietOK(y, threads, some) => QuietOK(z, threads, some)
<1>1. NoUrgent(z, threads) => NoUrgent(y, threads)
  BY DEF NoUrgent
<1>2. \A c \in Cores : SuggestedFor(z, threads, c) = SuggestedFor(y, threads, c)
  BY DEF SuggestedFor, Suggested
<1>3. \A t \in threads : Alone(y, threads, t) => Alone(z, threads, t)
  BY DEF Alone, ScheduledOn, Scheduled
<1>4. \A c \in Cores : SuggestedFor(y, threads, c) \subseteq threads
  BY DEF SuggestedFor
<1>5. IdleOK(y, threads) => IdleOK(z, threads)
  BY <1>1, <1>2, <1>3, <1>4 DEF IdleOK
<1>6. \A some : QuietOK(y, threads, some) => QuietOK(z, threads, some)
  BY DEF QuietOK
<1> QED
  BY <1>5, <1>6

\* The end of the lock, for queues that hold the threads.
LEMMA MigratedOK ==
  ASSUME NEW z, NEW threads, Holds(z, threads), NEW m, m = Migrated(z)
  PROVE  /\ Holds(m.q, threads) /\ m.top = Tops(m.q)
         /\ IdleOK(m.q, threads)
         /\ \A some : QuietOK(z, threads, some) => QuietOK(m.q, threads, some)
         /\ \A t \in Threads : z.core[t] \in Cores => m.q.core[t] \in Cores
<1>1. MigrationInv(z, threads, NumCores, m)
  BY MigratedFacts
<1>2. /\ Holds(m.q, threads) /\ m.top = Tops(m.q)
      /\ m.q.priority = z.priority
      /\ \A t \in Threads : z.core[t] \in Cores => m.q.core[t] \in Cores
      /\ \A t, u \in threads : t # u /\ m.q.core[t] = m.q.core[u] /\ m.q.core[t] \in Cores => z.core[t] = z.core[u]
      /\ NoUrgent(z, threads) => \A c \in Cores : c < NumCores /\ m.top[c] = NoThread =>
                                   \A t \in SuggestedFor(m.q, threads, c) : Alone(m.q, threads, t)
      /\ threads \subseteq Threads
  BY <1>1, HoldsFacts DEF MigrationInv
<1>3. \A c \in Cores : c < NumCores
  BY QueueAssumption, SMT DEF Cores
<1>4. NoUrgent(m.q, threads) => NoUrgent(z, threads)
  BY <1>2 DEF NoUrgent
<1>5. IdleOK(m.q, threads)
  BY <1>2, <1>3, <1>4 DEF IdleOK
<1>6. ASSUME NEW some, QuietOK(z, threads, some) PROVE QuietOK(m.q, threads, some)
  <2> SUFFICES ASSUME NEW t \in some, t \in threads
               PROVE  /\ m.q.core[t] \in Cores
                      /\ \A u \in threads : m.q.core[u] = m.q.core[t] /\ m.q.priority[u] = m.q.priority[t] => u = t
    BY DEF QuietOK
  <2>1. /\ z.core[t] \in Cores
        /\ \A u \in threads : z.core[u] = z.core[t] /\ z.priority[u] = z.priority[t] => u = t
    BY <1>6 DEF QuietOK
  <2> QED
    BY <1>2, <2>1
<1> QED
  BY <1>2, <1>5, <1>6

\* DisableScheduling to EnableScheduling, after an operation left the queues z:
\* if it asked for no update, none was needed.
LEMMA UnlockOK ==
  ASSUME QueueInv, NEW actor \in Cores \cup {Host}, NEW z, NEW threads, Holds(z, threads),
         NEW update, NEW counted, NEW yielded, yielded \subseteq Threads,
         Unlock(actor, z, update, counted, yielded),
         ~update => Tops(z) = highest /\ IdleOK(z, threads),
         QuietOK(z, threads, IF counted THEN yielded ELSE quiet \cup yielded)
  PROVE  /\ Effects(actor)
         /\ Holds(q', threads) /\ highest' = Tops(q')
         /\ IdleOK(q', threads) /\ QuietOK(q', threads, quiet')
         /\ \A t \in Threads : z.core[t] \in Cores => q'.core[t] \in Cores
<1>1. PICK m : m = Migrated(z)
  OBVIOUS
<1>2. PICK first : first = Tops(z)
  OBVIOUS
<1>3. PICK count : count = IF counted THEN yielded ELSE quiet \cup yielded
  OBVIOUS
<1>4. PICK changed : changed = {c \in Cores : highest[c] # first[c] \/ first[c] # m.top[c]}
  OBVIOUS
<1>5. /\ Holds(m.q, threads) /\ m.top = Tops(m.q)
      /\ IdleOK(m.q, threads)
      /\ QuietOK(z, threads, count) => QuietOK(m.q, threads, count)
      /\ \A t \in Threads : z.core[t] \in Cores => m.q.core[t] \in Cores
  BY <1>1, MigratedOK
<1>6. /\ quiet \subseteq Threads /\ count \subseteq Threads /\ QuietOK(z, threads, count)
      /\ highest \in [Cores -> Threads \cup {NoThread}] /\ needs \in [Cores -> BOOLEAN]
      /\ toInterrupt \in [Cores \cup {Host} -> SUBSET Cores]
  BY <1>3 DEF QueueInv, TypeOK
<1>7. CASE update
  <2>1. /\ q' = m.q /\ highest' = m.top
        /\ needs' = [c \in Cores |-> needs[c] \/ c \in changed]
        /\ toInterrupt' = [toInterrupt EXCEPT ![actor] = changed \ {actor}]
        /\ quiet' \in {{}, count}
    BY <1>1, <1>2, <1>3, <1>4, <1>7 DEF Unlock
  <2>2. changed \subseteq Cores
    BY <1>4
  <2>3. ASSUME NEW c \in Cores, highest'[c] # highest[c] PROVE c \in changed
    BY <1>4, <2>1, <2>3
  <2>4. m.top \in [Cores -> Threads \cup {NoThread}]
    BY <1>5, TopsFacts, HoldsFacts, SMT
  <2>5. /\ needs' \in [Cores -> BOOLEAN]
        /\ \A c \in Cores : (needs[c] => needs'[c]) /\ (c \in changed => needs'[c])
    BY <1>6, <2>1
  <2>6. /\ toInterrupt' \in [Cores \cup {Host} -> SUBSET Cores]
        /\ toInterrupt'[actor] = changed \ {actor}
        /\ \A b \in Cores \cup {Host} : b # actor => toInterrupt'[b] = toInterrupt[b]
    BY <1>6, <2>1, <2>2
  <2>7. quiet' \subseteq Threads /\ QuietOK(q', threads, quiet')
    BY <1>5, <1>6, <2>1 DEF QuietOK
  <2>8. Effects(actor)
    BY <2>1, <2>3, <2>4, <2>5, <2>6, <2>7 DEF Effects
  <2> QED
    BY <1>5, <2>1, <2>7, <2>8
<1>8. CASE ~update
  <2>1. q' = z /\ quiet' = count /\ UNCHANGED <<highest, needs, toInterrupt>>
    BY <1>3, <1>8 DEF Unlock
  <2>2. Effects(actor)
    BY <1>6, <2>1 DEF Effects
  <2> QED
    BY <1>6, <1>8, <2>1, <2>2
<1> QED
  BY <1>7, <1>8

\* What the threads that call do to their own data.
DataOK(actor) ==
  /\ state' \in [Threads -> {"Runnable", "Waiting", "Terminated"}]
  /\ paused' \subseteq Threads
  /\ retrying' \in [Threads -> [target : Threads \cup {NoThread}, allowed : SUBSET Cores]]
  /\ \A t \in Threads : state[t] = "Terminated" => state'[t] = "Terminated"
  /\ \A t \in Threads : state'[t] = "Terminated" => state[t] = "Terminated" \/ IsCurrent(actor, t)

\* The queues that an operation leaves, before the update, hold the threads that
\* can run then; when there is no update none is needed.
Prepared(actor, z, update, counted, yielded) ==
  /\ actor \in Cores \cup {Host}
  /\ actor \in Cores => pc[actor] = "run" /\ current[actor] \in Threads
  /\ DataOK(actor)
  /\ Holds(z, Runnables') /\ yielded \subseteq Threads
  /\ ~update => Tops(z) = highest /\ IdleOK(z, Runnables')
  /\ QuietOK(z, Runnables', IF counted THEN yielded ELSE quiet \cup yielded)
  /\ \A t \in Threads : q.core[t] \in Cores => z.core[t] \in Cores \/ IsCurrent(actor, t)

\* An operation whose queues hold the threads that can run then is a step under
\* the lock.
LEMMA OperationOK ==
  ASSUME QueueInv, NEW actor, NEW z, NEW update, NEW counted, NEW yielded,
         Operation(actor, z, update, counted, yielded), Prepared(actor, z, update, counted, yielded)
  PROVE  LockedStep(actor)
<1>1. /\ Unlock(actor, z, update, counted, yielded)
      /\ actor = Host => toInterrupt[Host] = {}
      /\ pc' = [c \in Cores |-> IF c = actor THEN "ipi" ELSE pc[c]]
      /\ UNCHANGED <<interrupted, current, next, guarded, finishing>>
  BY DEF Operation
<1>2. PICK threads : threads = Runnables'
  BY SMTT(30)
<1>6. /\ actor \in Cores \cup {Host}
      /\ actor \in Cores => pc[actor] = "run" /\ current[actor] \in Threads
      /\ DataOK(actor)
      /\ Holds(z, threads) /\ yielded \subseteq Threads
      /\ ~update => Tops(z) = highest /\ IdleOK(z, threads)
      /\ QuietOK(z, threads, IF counted THEN yielded ELSE quiet \cup yielded)
      /\ \A t \in Threads : q.core[t] \in Cores => z.core[t] \in Cores \/ IsCurrent(actor, t)
  BY <1>2 DEF Prepared
<1>3. /\ Effects(actor)
      /\ Holds(q', threads) /\ highest' = Tops(q')
      /\ IdleOK(q', threads) /\ QuietOK(q', threads, quiet')
      /\ \A t \in Threads : z.core[t] \in Cores => q'.core[t] \in Cores
  BY <1>1, <1>6, UnlockOK
<1>4. TypeOK'
  <2>1. pc' \in [Cores -> Pcs]
    BY <1>1 DEF QueueInv, TypeOK, Pcs
  <2> QED
    BY <1>1, <1>3, <1>6, <2>1 DEF QueueInv, TypeOK, Effects, Holds, DataOK
<1>5. QueueInv'
  BY <1>2, <1>3, <1>4 DEF QueueInv
<1> QED
  BY <1>1, <1>3, <1>5, <1>6 DEF LockedStep, DataOK

\* The queues stay as they are, and so do the threads in them.
LEMMA SameQueues ==
  ASSUME QueueInv, NEW actor \in Cores \cup {Host},
         actor \in Cores => pc[actor] = "run" /\ current[actor] \in Threads,
         Runnables' = Runnables, Operation(actor, q, FALSE, FALSE, {}), DataOK(actor)
  PROVE  LockedStep(actor)
<1>1. Holds(q, Runnables') /\ Tops(q) = highest /\ IdleOK(q, Runnables') /\ QuietOK(q, Runnables', quiet \cup {})
  BY DEF QueueInv
<1>2. Prepared(actor, q, FALSE, FALSE, {})
  BY <1>1 DEF Prepared
<1> QED
  BY <1>2, OperationOK

\* OnThreadStateChanged, with the change of the thread's state.
LEMMA StateChangeOK ==
  ASSUME QueueInv, NEW actor \in Cores \cup {Host},
         actor \in Cores => pc[actor] = "run" /\ current[actor] \in Threads,
         NEW t \in Threads, NEW was \in BOOLEAN, NEW is \in BOOLEAN,
         was = (t \in Runnables), is = (t \in Runnables'), Runnables' \ {t} = Runnables \ {t},
         OnThreadStateChanged(actor, t, was, is), DataOK(actor)
  PROVE  LockedStep(actor)
<1>1. Holds(q, Runnables) /\ q \in Queues /\ t \in Threads
  BY DEF QueueInv, Holds
<1>2. CASE was /\ ~is
  <2>1. Operation(actor, RemoveThread(q, t), TRUE, TRUE, {})
    BY <1>2 DEF OnThreadStateChanged
  <2>2. Runnables' = Runnables \ {t} /\ t \in Runnables
    BY <1>2
  <2>3. Holds(RemoveThread(q, t), Runnables') /\ RemoveThread(q, t).core = q.core
    BY <1>1, <2>2, RemoveHolds
  <2>4. Prepared(actor, RemoveThread(q, t), TRUE, TRUE, {})
    BY <2>3 DEF Prepared, QuietOK
  <2> QED
    BY <2>1, <2>4, OperationOK
<1>3. CASE is /\ ~was
  <2>1. Operation(actor, PushBack(q, t), TRUE, TRUE, {})
    BY <1>3 DEF OnThreadStateChanged
  <2>2. Runnables' = Runnables \cup {t} /\ t \in Threads \ Runnables
    BY <1>3
  <2>3. Holds(PushBack(q, t), Runnables')
    BY <1>1, <2>2, PushHolds
  <2>4. PushBack(q, t).core = q.core
    BY <1>1 DEF PushBack, Queues
  <2>5. Prepared(actor, PushBack(q, t), TRUE, TRUE, {})
    BY <2>3, <2>4 DEF Prepared, QuietOK
  <2> QED
    BY <2>1, <2>5, OperationOK
<1>4. CASE was = is
  <2>1. Operation(actor, q, FALSE, FALSE, {})
    BY <1>4 DEF OnThreadStateChanged
  <2>2. Runnables' = Runnables
    BY <1>4, SMT
  <2> QED
    BY <2>1, <2>2, SameQueues
<1> QED
  BY <1>2, <1>3, <1>4
=============================================================================
