-------------------------- MODULE KScheduler_steps --------------------------
(***************************************************************************)
(* What the two sides of the scheduler lock do.  Under it, the operations  *)
(* of the priority queues on their contents, for any number of cores,      *)
(* threads and priorities.  Outside it, the switches of the cores, which   *)
(* preserve the invariant whatever the queues do: what happens under the   *)
(* lock is known to them by LockedStep alone.                              *)
(***************************************************************************)
EXTENDS KScheduler_invariant, TLAPS, WellFoundedInduction

\* Zenon is the prover of every leaf that names no other.
USE Zenon


----------------------------------------------------------------------------
(* Numbers and sequences. *)

\* A set of natural numbers has a least element: every induction over numbers
\* in these proofs looks at the least counterexample.
LEMMA LeastNatural ==
  ASSUME NEW S, S \subseteq Nat, S # {}
  PROVE  \E m \in S : \A k \in S : m <= k
<1>1. PICK m \in S : \A k \in S : ~(<<k, m>> \in OpToRel(<, Nat))
  BY WFMin, NatLessThanWellFounded
<1>2. \A k \in S : ~(k < m)
  BY <1>1 DEF OpToRel
<1> QED
  BY <1>2, SMT

\* The first of some positions of a sequence is not before any other of them, and
\* no position before it is one of them.
LEMMA FirstOfFacts ==
  ASSUME NEW T, NEW s \in Seq(T), NEW some \in SUBSET (DOMAIN s)
  PROVE  /\ FirstOf(s, some) \in 1 .. Len(s) + 1
         /\ \A i \in 1 .. FirstOf(s, some) - 1 : i \in DOMAIN s \ some
         /\ \A i \in FirstOf(s, some) .. Len(s) : FirstOf(s, some) \in some /\ i \in DOMAIN s
<1>1. DOMAIN s = 1 .. Len(s) /\ Len(s) \in Nat
  BY SMT
<1>2. CASE some = {}
  BY <1>1, <1>2, SMT DEF FirstOf
<1>3. CASE some # {}
  <2>1. some \subseteq Nat
    BY <1>1, SMT
  <2>2. \E i \in some : \A j \in some : i <= j
    BY <1>3, <2>1, LeastNatural
  <2>3. FirstOf(s, some) \in some /\ \A j \in some : FirstOf(s, some) <= j
    BY <1>3, <2>2 DEF FirstOf
  <2> QED
    BY <1>1, <2>3, SMT
<1> QED
  BY <1>2, <1>3

\* Two sequences one behind the other.
LEMMA ConcatFacts ==
  ASSUME NEW T, NEW a \in Seq(T), NEW b \in Seq(T)
  PROVE  /\ a \o b \in Seq(T) /\ Len(a \o b) = Len(a) + Len(b)
         /\ \A i \in 1 .. Len(a) + Len(b) : (a \o b)[i] = IF i <= Len(a) THEN a[i] ELSE b[i - Len(a)]
BY SMT

\* Inserting into a sequence at a position.
LEMMA InsertAtFacts ==
  ASSUME NEW T, NEW s \in Seq(T), NEW k \in 1 .. Len(s) + 1, NEW e \in T
  PROVE  /\ InsertAt(s, k, e) \in Seq(T)
         /\ Len(InsertAt(s, k, e)) = Len(s) + 1
         /\ \A i \in 1 .. k - 1 : InsertAt(s, k, e)[i] = s[i]
         /\ InsertAt(s, k, e)[k] = e
         /\ \A i \in k .. Len(s) : InsertAt(s, k, e)[i + 1] = s[i]
<1> DEFINE a == SubSeq(s, 1, k - 1)
           b == SubSeq(s, k, Len(s))
           ae == a \o <<e>>
           r == InsertAt(s, k, e)
<1>0. r = ae \o b
  BY DEF InsertAt
<1>1. a \in Seq(T) /\ Len(a) = k - 1 /\ \A i \in 1 .. k - 1 : a[i] = s[i]
  BY SMTT(30)
<1>2. b \in Seq(T) /\ Len(b) = Len(s) - k + 1 /\ \A i \in 1 .. Len(s) - k + 1 : b[i] = s[k + i - 1]
  BY SMTT(30)
<1> HIDE DEF a, b, r
<1>3. ae \in Seq(T) /\ Len(ae) = k /\ ae[k] = e /\ \A i \in 1 .. k - 1 : ae[i] = s[i]
  BY <1>1, SMTT(30)
<1> HIDE DEF ae
<1>4. /\ r \in Seq(T) /\ Len(r) = Len(ae) + Len(b)
      /\ \A i \in 1 .. Len(ae) + Len(b) : r[i] = IF i <= Len(ae) THEN ae[i] ELSE b[i - Len(ae)]
  BY <1>0, <1>2, <1>3, ConcatFacts
<1>5. r[k] = e /\ \A i \in 1 .. k - 1 : r[i] = s[i]
  BY <1>2, <1>3, <1>4, SMT
<1>6. ASSUME NEW i \in k .. Len(s) PROVE r[i + 1] = s[i]
  <2>1. i + 1 \in 1 .. Len(ae) + Len(b) /\ ~(i + 1 <= Len(ae)) /\ i + 1 - Len(ae) \in 1 .. Len(s) - k + 1
        /\ k + (i + 1 - Len(ae)) - 1 = i
    BY <1>2, <1>3, SMT
  <2>2. r[i + 1] = b[i + 1 - Len(ae)]
    BY <1>4, <2>1, SMT
  <2> QED
    BY <1>2, <2>1, <2>2
<1>7. Len(r) = Len(s) + 1
  BY <1>2, <1>3, <1>4, SMT
<1> QED
  BY <1>4, <1>5, <1>6, <1>7 DEF r

\* Removing from it.
LEMMA RemoveAtFacts ==
  ASSUME NEW T, NEW s \in Seq(T), NEW k \in 1 .. Len(s)
  PROVE  /\ RemoveAt(s, k) \in Seq(T)
         /\ Len(RemoveAt(s, k)) = Len(s) - 1
         /\ \A i \in 1 .. k - 1 : RemoveAt(s, k)[i] = s[i]
         /\ \A i \in k .. Len(s) - 1 : RemoveAt(s, k)[i] = s[i + 1]
<1> DEFINE a == SubSeq(s, 1, k - 1)
           b == SubSeq(s, k + 1, Len(s))
           r == RemoveAt(s, k)
<1>0. r = a \o b
  BY DEF RemoveAt
<1>1. a \in Seq(T) /\ Len(a) = k - 1 /\ \A i \in 1 .. k - 1 : a[i] = s[i]
  BY SMTT(30)
<1>2. b \in Seq(T) /\ Len(b) = Len(s) - k /\ \A i \in 1 .. Len(s) - k : b[i] = s[k + i]
  BY SMTT(30)
<1> HIDE DEF a, b, r
<1>4. /\ r \in Seq(T) /\ Len(r) = Len(a) + Len(b)
      /\ \A i \in 1 .. Len(a) + Len(b) : r[i] = IF i <= Len(a) THEN a[i] ELSE b[i - Len(a)]
  BY <1>0, <1>1, <1>2, ConcatFacts
<1>5. ASSUME NEW i \in 1 .. k - 1 PROVE r[i] = s[i]
  <2>1. i \in 1 .. Len(a) + Len(b) /\ i <= Len(a)
    BY <1>1, <1>2, SMT
  <2>2. r[i] = a[i]
    BY <1>4, <2>1
  <2> QED
    BY <1>1, <2>2
<1>6. ASSUME NEW i \in k .. Len(s) - 1 PROVE r[i] = s[i + 1]
  <2>1. /\ i - Len(a) \in 1 .. Len(s) - k /\ k + (i - Len(a)) = i + 1
        /\ i \in 1 .. Len(a) + Len(b) /\ ~(i <= Len(a))
    BY <1>1, <1>2, SMT
  <2>2. r[i] = b[i - Len(a)]
    BY <1>4, <2>1
  <2> QED
    BY <1>2, <2>1, <2>2
<1>7. Len(r) = Len(s) - 1
  BY <1>1, <1>2, <1>4, SMT
<1> QED
  BY <1>4, <1>5, <1>6, <1>7 DEF r

----------------------------------------------------------------------------
(* One queue. *)

\* A thread inserted after those that may be before it, and before those that
\* may be after it.
LEMMA InsertSorted ==
  ASSUME NEW z, z.priority \in [Threads -> Nat], NEW s \in Seq(Threads), Sorted(z, s),
         NEW t \in Threads \ Range(s), NEW k \in 1 .. Len(s) + 1,
         \A i \in 1 .. k - 1 : z.priority[s[i]] <= z.priority[t],
         \A i \in k .. Len(s) : z.priority[t] <= z.priority[s[i]]
  PROVE  /\ InsertAt(s, k, t) \in Seq(Threads)
         /\ Sorted(z, InsertAt(s, k, t))
         /\ Range(InsertAt(s, k, t)) = Range(s) \cup {t}
<1> DEFINE r == InsertAt(s, k, t)
<1>1. /\ r \in Seq(Threads) /\ Len(r) = Len(s) + 1
      /\ (\A i \in 1 .. k - 1 : r[i] = s[i]) /\ r[k] = t /\ \A i \in k .. Len(s) : r[i + 1] = s[i]
  BY InsertAtFacts, SMT
<1> HIDE DEF r
<1>2. DOMAIN r = 1 .. Len(s) + 1 /\ DOMAIN s = 1 .. Len(s) /\ Len(s) \in Nat
  BY <1>1, SMT
<1>3. \A i \in 1 .. Len(s) : s[i] \in Threads /\ s[i] # t
  BY <1>2, SMT DEF Range
<1>4. \A i \in k + 1 .. Len(s) + 1 : i - 1 \in k .. Len(s) /\ r[i] = s[i - 1]
  <2> TAKE i \in k + 1 .. Len(s) + 1
  <2>1. i - 1 \in k .. Len(s) /\ (i - 1) + 1 = i
    BY <1>2, SMT
  <2> QED
    BY <1>1, <2>1
<1>5. Sorted(z, r)
  <2> SUFFICES ASSUME NEW i \in 1 .. Len(s) + 1, NEW j \in 1 .. Len(s) + 1, i < j
               PROVE  r[i] # r[j] /\ z.priority[r[i]] <= z.priority[r[j]]
    BY <1>2 DEF Sorted
  <2>1. \A a, b \in 1 .. Len(s) : a < b => s[a] # s[b] /\ z.priority[s[a]] <= z.priority[s[b]]
    BY <1>2 DEF Sorted
  <2>2. CASE j < k
    BY <1>1, <1>2, <2>1, <2>2, SMT
  <2>3. CASE j = k
    <3>1. r[i] = s[i] /\ r[j] = t /\ i \in 1 .. k - 1 /\ i \in 1 .. Len(s)
      BY <1>1, <1>2, <2>3, SMT
    <3> QED
      BY <1>3, <3>1
  <2>4. CASE j > k
    <3>1. r[j] = s[j - 1] /\ j - 1 \in k .. Len(s)
      BY <1>2, <1>4, <2>4, SMT
    <3>2. CASE i < k
      <4>1. r[i] = s[i] /\ i \in 1 .. Len(s) /\ i < j - 1 /\ j - 1 \in 1 .. Len(s)
        BY <1>1, <1>2, <3>1, <3>2, SMT
      <4> QED
        BY <2>1, <3>1, <4>1
    <3>3. CASE i = k
      BY <1>1, <1>2, <1>3, <3>1, <3>3, SMTT(30)
    <3>4. CASE i > k
      <4>1. r[i] = s[i - 1] /\ i - 1 \in 1 .. Len(s) /\ i - 1 < j - 1 /\ j - 1 \in 1 .. Len(s)
        BY <1>2, <1>4, <3>1, <3>4, SMT
      <4> QED
        BY <2>1, <3>1, <4>1
    <3> QED
      BY <1>2, <3>2, <3>3, <3>4, SMT
  <2> QED
    BY <1>2, <2>2, <2>3, <2>4, SMT
<1>6. Range(r) = Range(s) \cup {t}
  <2>1. ASSUME NEW i \in 1 .. Len(s) PROVE s[i] \in Range(r)
    <3>1. CASE i < k
      <4>1. s[i] = r[i] /\ i \in DOMAIN r
        BY <1>1, <1>2, <3>1, SMT
      <4> QED
        BY <4>1 DEF Range
    <3>2. CASE i >= k
      <4>1. s[i] = r[i + 1] /\ i + 1 \in DOMAIN r
        BY <1>1, <1>2, <3>2, SMT
      <4> QED
        BY <4>1 DEF Range
    <3> QED
      BY <3>1, <3>2, SMT
  <2>2. t \in Range(r)
    BY <1>1, <1>2 DEF Range
  <2>3. ASSUME NEW i \in 1 .. Len(s) + 1 PROVE r[i] \in Range(s) \cup {t}
    <3>1. CASE i < k
      BY <1>1, <1>2, <3>1, SMTT(30) DEF Range
    <3>2. CASE i > k
      <4>1. r[i] = s[i - 1] /\ i - 1 \in DOMAIN s
        BY <1>2, <1>4, <3>2, SMTT(30)
      <4> QED
        BY <4>1 DEF Range
    <3> QED
      BY <1>1, <3>1, <3>2, SMT
  <2>4. Range(r) = {r[i] : i \in 1 .. Len(s) + 1} /\ Range(s) = {s[i] : i \in 1 .. Len(s)}
    BY <1>2 DEF Range
  <2> QED
    BY <2>1, <2>2, <2>3, <2>4
<1> QED
  BY <1>1, <1>5, <1>6 DEF r

\* A number that counts something counts one thing or more.
LEMMA OneOrMore ==
  ASSUME NEW n \in Nat, 1 \in 1 .. n
  PROVE  n = 1 \/ n > 1
BY SMT

\* KPerCoreQueue::PushBack keeps a queue in order, and adds the thread.
LEMMA PushBackOnFacts ==
  ASSUME NEW z, z.priority \in [Threads -> Nat], NEW s \in Seq(Threads), Sorted(z, s),
         NEW t \in Threads \ Range(s)
  PROVE  /\ PushBackOn(z, s, t) \in Seq(Threads)
         /\ Sorted(z, PushBackOn(z, s, t))
         /\ Range(PushBackOn(z, s, t)) = Range(s) \cup {t}
         /\ \E k \in 1 .. Len(s) + 1 :
              /\ PushBackOn(z, s, t) = InsertAt(s, k, t)
              /\ \A i \in 1 .. k - 1 : z.priority[s[i]] <= z.priority[t]
              /\ \A i \in k .. Len(s) : z.priority[t] < z.priority[s[i]]
<1> DEFINE A == {i \in DOMAIN s : z.priority[t] < z.priority[s[i]]}
           k == FirstOf(s, A)
<1>1. /\ DOMAIN s = 1 .. Len(s) /\ Len(s) \in Nat
      /\ z.priority[t] \in Nat /\ \A i \in 1 .. Len(s) : z.priority[s[i]] \in Nat
  BY SMT
<1>2. /\ k \in 1 .. Len(s) + 1
      /\ \A i \in 1 .. k - 1 : i \in DOMAIN s \ A
      /\ \A i \in k .. Len(s) : k \in A /\ i \in DOMAIN s
  BY FirstOfFacts
<1>5. PushBackOn(z, s, t) = InsertAt(s, k, t)
  BY DEF PushBackOn
<1> HIDE DEF k
<1>6. k \in 1 .. Len(s) + 1 /\ (\A i \in 1 .. k - 1 : z.priority[s[i]] <= z.priority[t])
      /\ \A i \in k .. Len(s) : z.priority[t] < z.priority[s[i]]
  <2>1. ASSUME NEW i \in 1 .. k - 1 PROVE z.priority[s[i]] <= z.priority[t]
    BY <1>1, <1>2, SMT
  <2>2. ASSUME NEW i \in k .. Len(s) PROVE z.priority[t] < z.priority[s[i]]
    <3>1. k \in A /\ i \in 1 .. Len(s) /\ k \in 1 .. Len(s) /\ k <= i
      BY <1>1, <1>2, SMT
    <3>2. z.priority[s[k]] <= z.priority[s[i]]
      BY <1>1, <3>1, SMT DEF Sorted
    <3> QED
      BY <1>1, <3>1, <3>2, SMT
  <2> QED
    BY <1>2, <2>1, <2>2
<1>7. /\ k \in 1 .. Len(s) + 1 /\ \A i \in 1 .. k - 1 : z.priority[s[i]] <= z.priority[t]
      /\ \A i \in k .. Len(s) : z.priority[t] <= z.priority[s[i]]
  BY <1>1, <1>6, SMT
<1>8. /\ InsertAt(s, k, t) \in Seq(Threads) /\ Sorted(z, InsertAt(s, k, t))
      /\ Range(InsertAt(s, k, t)) = Range(s) \cup {t}
  BY <1>7, InsertSorted, SMTT(30)
<1> QED
  BY <1>5, <1>6, <1>8

\* So does KPerCoreQueue::PushFront.
LEMMA PushFrontOnFacts ==
  ASSUME NEW z, z.priority \in [Threads -> Nat], NEW s \in Seq(Threads), Sorted(z, s),
         NEW t \in Threads \ Range(s)
  PROVE  /\ PushFrontOn(z, s, t) \in Seq(Threads)
         /\ Sorted(z, PushFrontOn(z, s, t))
         /\ Range(PushFrontOn(z, s, t)) = Range(s) \cup {t}
<1> DEFINE A == {i \in DOMAIN s : z.priority[t] <= z.priority[s[i]]}
           k == FirstOf(s, A)
<1>1. /\ DOMAIN s = 1 .. Len(s) /\ Len(s) \in Nat
      /\ z.priority[t] \in Nat /\ \A i \in 1 .. Len(s) : z.priority[s[i]] \in Nat
  BY SMT
<1>2. /\ k \in 1 .. Len(s) + 1
      /\ \A i \in 1 .. k - 1 : i \in DOMAIN s \ A
      /\ \A i \in k .. Len(s) : k \in A /\ i \in DOMAIN s
  BY FirstOfFacts
<1>5. PushFrontOn(z, s, t) = InsertAt(s, k, t)
  BY DEF PushFrontOn
<1> HIDE DEF k
<1>6. k \in 1 .. Len(s) + 1 /\ (\A i \in 1 .. k - 1 : z.priority[s[i]] <= z.priority[t])
      /\ \A i \in k .. Len(s) : z.priority[t] <= z.priority[s[i]]
  <2>1. ASSUME NEW i \in 1 .. k - 1 PROVE z.priority[s[i]] <= z.priority[t]
    BY <1>1, <1>2, SMT
  <2>2. ASSUME NEW i \in k .. Len(s) PROVE z.priority[t] <= z.priority[s[i]]
    <3>1. k \in A /\ i \in 1 .. Len(s) /\ k \in 1 .. Len(s) /\ k <= i
      BY <1>1, <1>2, SMT
    <3>2. z.priority[s[k]] <= z.priority[s[i]]
      BY <1>1, <3>1, SMT DEF Sorted
    <3> QED
      BY <1>1, <3>1, <3>2, SMT
  <2> QED
    BY <1>2, <2>1, <2>2
<1>7. /\ InsertAt(s, k, t) \in Seq(Threads) /\ Sorted(z, InsertAt(s, k, t))
      /\ Range(InsertAt(s, k, t)) = Range(s) \cup {t}
  BY <1>6, InsertSorted, SMTT(30)
<1> QED
  BY <1>5, <1>7

\* KPerCoreQueue::Remove keeps a queue in order, and removes the thread.
LEMMA RemoveOnFacts ==
  ASSUME NEW z, NEW s \in Seq(Threads), Sorted(z, s), NEW t \in Range(s)
  PROVE  /\ RemoveOn(s, t) \in Seq(Threads)
         /\ Sorted(z, RemoveOn(s, t))
         /\ Range(RemoveOn(s, t)) = Range(s) \ {t}
         /\ Position(s, t) \in 1 .. Len(s) /\ s[Position(s, t)] = t
         /\ RemoveOn(s, t) = RemoveAt(s, Position(s, t))
<1> DEFINE k == Position(s, t)
           r == RemoveOn(s, t)
<1>1. k \in DOMAIN s /\ s[k] = t
  BY DEF Position, Range
<1> HIDE DEF k
<1>2. DOMAIN s = 1 .. Len(s) /\ Len(s) \in Nat /\ k \in 1 .. Len(s)
  BY <1>1, SMT
<1>3. r = RemoveAt(s, k)
  BY DEF RemoveOn, k
<1> HIDE DEF r
<1>4. /\ r \in Seq(Threads) /\ Len(r) = Len(s) - 1
      /\ (\A i \in 1 .. k - 1 : r[i] = s[i]) /\ \A i \in k .. Len(s) - 1 : r[i] = s[i + 1]
  BY <1>2, <1>3, RemoveAtFacts
<1>5. DOMAIN r = 1 .. Len(s) - 1
  BY <1>4, SMT
<1>6. \A a, b \in 1 .. Len(s) : a < b => s[a] # s[b] /\ z.priority[s[a]] <= z.priority[s[b]]
  BY <1>2 DEF Sorted
<1>7. Sorted(z, r)
  <2> SUFFICES ASSUME NEW i \in 1 .. Len(s) - 1, NEW j \in 1 .. Len(s) - 1, i < j
               PROVE  r[i] # r[j] /\ z.priority[r[i]] <= z.priority[r[j]]
    BY <1>5 DEF Sorted
  <2>1. CASE j < k
    BY <1>2, <1>4, <1>6, <2>1, SMT
  <2>2. CASE j >= k
    <3>1. r[j] = s[j + 1] /\ j + 1 \in 1 .. Len(s)
      BY <1>2, <1>4, <2>2, SMT
    <3>2. CASE i < k
      <4>1. i \in 1 .. k - 1 /\ i \in 1 .. Len(s) /\ i < j + 1
        BY <1>2, <3>2, SMT
      <4>2. r[i] = s[i]
        BY <1>4, <4>1
      <4> QED
        BY <1>6, <3>1, <4>1, <4>2
    <3>3. CASE i >= k
      <4>1. r[i] = s[i + 1] /\ i + 1 \in 1 .. Len(s) /\ i + 1 < j + 1
        BY <1>2, <1>4, <3>3, SMT
      <4> QED
        BY <1>6, <3>1, <4>1
    <3> QED
      BY <1>2, <3>2, <3>3, SMT
  <2> QED
    BY <1>2, <2>1, <2>2, SMT
<1>8. Range(r) = Range(s) \ {t}
  <2>1. \A i \in 1 .. Len(s) : i # k => s[i] # t
    BY <1>1, <1>2, <1>6, SMT
  <2>2. ASSUME NEW i \in 1 .. Len(s), s[i] # t PROVE s[i] \in Range(r)
    <3>1. CASE i < k
      <4>1. s[i] = r[i] /\ i \in DOMAIN r
        BY <1>2, <1>4, <1>5, <3>1, SMT
      <4> QED
        BY <4>1 DEF Range
    <3>2. CASE i > k
      <4>1. i - 1 \in k .. Len(s) - 1 /\ (i - 1) + 1 = i
        BY <1>2, <3>2, SMT
      <4>2. s[i] = r[i - 1] /\ i - 1 \in DOMAIN r
        BY <1>2, <1>4, <1>5, <4>1, SMT
      <4> QED
        BY <4>2 DEF Range
    <3> QED
      BY <1>1, <1>2, <2>2, <3>1, <3>2, SMT
  <2>3. ASSUME NEW i \in 1 .. Len(s) - 1 PROVE r[i] \in Range(s) \ {t}
    <3>1. CASE i < k
      <4>1. r[i] = s[i] /\ i \in 1 .. Len(s) /\ i # k
        BY <1>2, <1>4, <3>1, SMT
      <4> QED
        BY <1>2, <2>1, <4>1 DEF Range
    <3>2. CASE i >= k
      <4>1. r[i] = s[i + 1] /\ i + 1 \in 1 .. Len(s) /\ i + 1 # k
        BY <1>2, <1>4, <3>2, SMT
      <4> QED
        BY <1>2, <2>1, <4>1 DEF Range
    <3> QED
      BY <1>2, <3>1, <3>2, SMT
  <2>4. Range(r) = {r[i] : i \in 1 .. Len(s) - 1} /\ Range(s) = {s[i] : i \in 1 .. Len(s)}
    BY <1>2, <1>5 DEF Range
  <2> QED
    BY <2>2, <2>3, <2>4
<1> QED
  BY <1>1, <1>2, <1>3, <1>4, <1>7, <1>8 DEF r, k

\* The front of a queue.
LEMMA GetFrontFacts ==
  ASSUME NEW s \in Seq(Threads)
  PROVE  /\ GetFront(s) = NoThread <=> Range(s) = {}
         /\ s = <<>> <=> Range(s) = {}
         /\ GetFront(s) # NoThread => GetFront(s) \in Range(s) /\ GetFront(s) = s[1] /\ 1 \in DOMAIN s
<1>1. CASE s = <<>>
  BY <1>1, QueueAssumption, SMT DEF GetFront, Range
<1>2. CASE s # <<>>
  <2>1. 1 \in DOMAIN s /\ Head(s) = s[1] /\ s[1] \in Threads
    BY <1>2, SMT
  <2> QED
    BY <1>2, <2>1, QueueAssumption DEF GetFront, Range
<1> QED
  BY <1>1, <1>2

\* The first of some threads in a queue.
LEMMA FirstFacts ==
  ASSUME NEW s \in Seq(Threads), NEW some
  PROVE  /\ First(s, some) = NoThread => Range(s) \cap some = {}
         /\ First(s, some) # NoThread => First(s, some) \in Range(s) \cap some
<1> DEFINE found == {i \in DOMAIN s : s[i] \in some}
           m == CHOOSE i \in found : \A j \in found : i <= j
<1>1. First(s, some) = IF found = {} THEN NoThread ELSE s[m]
  BY DEF First
<1>2. ASSUME found # {} PROVE m \in found
  <2>1. found \subseteq Nat
    BY SMT
  <2>2. \E i \in found : \A j \in found : i <= j
    BY <1>2, <2>1, LeastNatural
  <2> QED
    BY <2>2
<1> HIDE DEF m
<1> QED
  BY <1>1, <1>2, QueueAssumption, SMT DEF Range

\* A thread that is put into a queue is listed with the ones before.
LEMMA PushBackLists ==
  ASSUME NEW z, z.priority \in [Threads -> Nat], NEW s, NEW S, Lists(z, s, S), NEW t \in Threads \ S
  PROVE  Lists(z, PushBackOn(z, s, t), S \cup {t})
  BY PushBackOnFacts, SMT DEF Lists

\* The same in front of the threads of its priority.
LEMMA PushFrontLists ==
  ASSUME NEW z, z.priority \in [Threads -> Nat], NEW s, NEW S, Lists(z, s, S), NEW t \in Threads \ S
  PROVE  Lists(z, PushFrontOn(z, s, t), S \cup {t})
  BY PushFrontOnFacts, SMT DEF Lists

\* A thread that is removed is listed no more, and the others still are.
LEMMA RemoveLists ==
  ASSUME NEW z, NEW s, NEW S, Lists(z, s, S), NEW t \in S
  PROVE  Lists(z, RemoveOn(s, t), S \ {t})
  BY RemoveOnFacts DEF Lists

\* A list depends on the priorities of its own threads only.
LEMMA ListsOfPriority ==
  ASSUME NEW z, NEW r, NEW s, NEW S, Lists(z, s, S), \A t \in S : r.priority[t] = z.priority[t]
  PROVE  Lists(r, s, S)
<1>1. \A i \in DOMAIN s : s[i] \in S
  BY DEF Lists, Range
<1> QED
  BY <1>1 DEF Lists, Sorted

----------------------------------------------------------------------------
(* The queues. *)

\* The parts of Holds, without the record of queues.
LEMMA HoldsFacts ==
  ASSUME NEW z, NEW threads, Holds(z, threads)
  PROVE  /\ z.scheduled \in [Cores -> Seq(Threads)] /\ z.suggested \in [Cores -> Seq(Threads)]
         /\ z.core \in [Threads -> Cores \cup {NoCore}] /\ z.priority \in [Threads -> Nat]
         /\ z.affinity \in [Threads -> SUBSET Cores]
         /\ threads \subseteq Threads
         /\ \A c \in Cores : /\ Lists(z, z.scheduled[c], ScheduledOn(z, threads, c))
                             /\ Lists(z, z.suggested[c], SuggestedFor(z, threads, c))
         /\ \A t \in Threads : z.core[t] \in z.affinity[t] \cup {NoCore}
  BY DEF Holds, HoldsThreads, Queues

\* What must be shown of queues that were changed.
LEMMA HoldsIntro ==
  ASSUME NEW r, NEW threads \in SUBSET Threads,
         r = [scheduled |-> r.scheduled, suggested |-> r.suggested, core |-> r.core,
              priority |-> r.priority, affinity |-> r.affinity],
         r.core \in [Threads -> Cores \cup {NoCore}], r.priority \in [Threads -> Nat],
         r.affinity \in [Threads -> SUBSET Cores],
         r.scheduled = [c \in Cores |-> r.scheduled[c]], r.suggested = [c \in Cores |-> r.suggested[c]],
         \A c \in Cores : /\ Lists(r, r.scheduled[c], ScheduledOn(r, threads, c))
                          /\ Lists(r, r.suggested[c], SuggestedFor(r, threads, c)),
         \A t \in Threads : r.core[t] \in r.affinity[t] \cup {NoCore}
  PROVE  Holds(r, threads)
<1>1. \A c \in Cores : r.scheduled[c] \in Seq(Threads) /\ r.suggested[c] \in Seq(Threads)
  BY DEF Lists
<1>2. r.scheduled \in [Cores -> Seq(Threads)] /\ r.suggested \in [Cores -> Seq(Threads)]
  BY <1>1
<1>3. r \in Queues
  BY <1>2 DEF Queues
<1> QED
  BY <1>3 DEF Holds, HoldsThreads

\* PushBack and PushFront add a thread to the queues.
LEMMA PushHolds ==
  ASSUME NEW z, NEW threads, Holds(z, threads), NEW t \in Threads \ threads,
         NEW r, r \in {PushBack(z, t), PushFront(z, t)}
  PROVE  Holds(r, threads \cup {t})
<1>0. z \in Queues
  BY DEF Holds
<1>1. /\ r = [scheduled |-> r.scheduled, suggested |-> r.suggested, core |-> r.core,
              priority |-> r.priority, affinity |-> r.affinity]
      /\ r.core = z.core /\ r.priority = z.priority /\ r.affinity = z.affinity
      /\ r.scheduled = [c \in Cores |-> r.scheduled[c]] /\ r.suggested = [c \in Cores |-> r.suggested[c]]
      /\ \A c \in Cores :
           /\ Scheduled(z, t, c) => r.scheduled[c] \in {PushBackOn(z, z.scheduled[c], t), PushFrontOn(z, z.scheduled[c], t)}
           /\ ~Scheduled(z, t, c) => r.scheduled[c] = z.scheduled[c]
           /\ Suggested(z, t, c) => r.suggested[c] = PushBackOn(z, z.suggested[c], t)
           /\ ~Suggested(z, t, c) => r.suggested[c] = z.suggested[c]
  <2>1. CASE r = PushBack(z, t)
    BY <1>0, <2>1 DEF PushBack, Queues
  <2>2. CASE r = PushFront(z, t)
    BY <1>0, <2>2 DEF PushFront, Queues
  <2> QED
    BY <2>1, <2>2
<1>2. ASSUME NEW c \in Cores PROVE Lists(z, r.scheduled[c], ScheduledOn(z, threads \cup {t}, c))
  <2>a. t \in Threads \ ScheduledOn(z, threads, c)
    BY DEF ScheduledOn
  <2>0. Lists(z, z.scheduled[c], ScheduledOn(z, threads, c)) /\ z.priority \in [Threads -> Nat]
    BY HoldsFacts
  <2>1. CASE Scheduled(z, t, c)
    <3>1. ScheduledOn(z, threads \cup {t}, c) = ScheduledOn(z, threads, c) \cup {t}
      BY <2>1 DEF ScheduledOn
    <3>2. /\ Lists(z, PushBackOn(z, z.scheduled[c], t), ScheduledOn(z, threads, c) \cup {t})
          /\ Lists(z, PushFrontOn(z, z.scheduled[c], t), ScheduledOn(z, threads, c) \cup {t})
      BY <2>a, <2>0, PushBackLists, PushFrontLists
    <3>3. r.scheduled[c] \in {PushBackOn(z, z.scheduled[c], t), PushFrontOn(z, z.scheduled[c], t)}
      BY <1>1, <2>1
    <3> QED
      BY <3>1, <3>2, <3>3
  <2>2. CASE ~Scheduled(z, t, c)
    <3>1. ScheduledOn(z, threads \cup {t}, c) = ScheduledOn(z, threads, c)
      BY <2>2 DEF ScheduledOn
    <3> QED
      BY <1>1, <2>0, <2>2, <3>1
  <2> QED
    BY <2>1, <2>2
<1>3. ASSUME NEW c \in Cores PROVE Lists(z, r.suggested[c], SuggestedFor(z, threads \cup {t}, c))
  <2>a. t \in Threads \ SuggestedFor(z, threads, c)
    BY DEF SuggestedFor
  <2>0. Lists(z, z.suggested[c], SuggestedFor(z, threads, c)) /\ z.priority \in [Threads -> Nat]
    BY HoldsFacts
  <2>1. CASE Suggested(z, t, c)
    <3>1. SuggestedFor(z, threads \cup {t}, c) = SuggestedFor(z, threads, c) \cup {t}
      BY <2>1 DEF SuggestedFor
    <3>2. Lists(z, PushBackOn(z, z.suggested[c], t), SuggestedFor(z, threads, c) \cup {t})
      BY <2>a, <2>0, PushBackLists
    <3>3. r.suggested[c] = PushBackOn(z, z.suggested[c], t)
      BY <1>1, <2>1
    <3> QED
      BY <3>1, <3>2, <3>3
  <2>2. CASE ~Suggested(z, t, c)
    <3>1. SuggestedFor(z, threads \cup {t}, c) = SuggestedFor(z, threads, c)
      BY <2>2 DEF SuggestedFor
    <3> QED
      BY <1>1, <2>0, <2>2, <3>1
  <2> QED
    BY <2>1, <2>2
<1>4. ASSUME NEW c \in Cores
      PROVE  /\ Lists(r, r.scheduled[c], ScheduledOn(r, threads \cup {t}, c))
             /\ Lists(r, r.suggested[c], SuggestedFor(r, threads \cup {t}, c))
  <2>1. /\ ScheduledOn(r, threads \cup {t}, c) = ScheduledOn(z, threads \cup {t}, c)
        /\ SuggestedFor(r, threads \cup {t}, c) = SuggestedFor(z, threads \cup {t}, c)
    BY <1>1 DEF ScheduledOn, SuggestedFor, Scheduled, Suggested
  <2> QED
    BY <1>1, <1>2, <1>3, <2>1, ListsOfPriority
<1>5. /\ r.core \in [Threads -> Cores \cup {NoCore}] /\ r.priority \in [Threads -> Nat]
      /\ r.affinity \in [Threads -> SUBSET Cores] /\ threads \cup {t} \in SUBSET Threads
      /\ \A u \in Threads : r.core[u] \in r.affinity[u] \cup {NoCore}
  BY <1>1, HoldsFacts
<1> QED
  BY <1>1, <1>4, <1>5, HoldsIntro

\* Remove takes a thread out of the queues.
LEMMA RemoveHolds ==
  ASSUME NEW z, NEW threads, Holds(z, threads), NEW t \in threads
  PROVE  /\ Holds(RemoveThread(z, t), threads \ {t})
         /\ RemoveThread(z, t).core = z.core
         /\ RemoveThread(z, t).priority = z.priority
         /\ RemoveThread(z, t).affinity = z.affinity
<1> SUFFICES ASSUME NEW r, r = RemoveThread(z, t)
             PROVE  /\ Holds(r, threads \ {t})
                    /\ r.core = z.core /\ r.priority = z.priority /\ r.affinity = z.affinity
  OBVIOUS
<1>0. z \in Queues
  BY DEF Holds
<1>1. /\ r = [scheduled |-> r.scheduled, suggested |-> r.suggested, core |-> r.core,
              priority |-> r.priority, affinity |-> r.affinity]
      /\ r.core = z.core /\ r.priority = z.priority /\ r.affinity = z.affinity
      /\ r.scheduled = [c \in Cores |-> r.scheduled[c]] /\ r.suggested = [c \in Cores |-> r.suggested[c]]
      /\ \A c \in Cores :
           /\ Scheduled(z, t, c) => r.scheduled[c] = RemoveOn(z.scheduled[c], t)
           /\ ~Scheduled(z, t, c) => r.scheduled[c] = z.scheduled[c]
           /\ Suggested(z, t, c) => r.suggested[c] = RemoveOn(z.suggested[c], t)
           /\ ~Suggested(z, t, c) => r.suggested[c] = z.suggested[c]
  BY <1>0 DEF RemoveThread, Queues
<1>2. ASSUME NEW c \in Cores PROVE Lists(z, r.scheduled[c], ScheduledOn(z, threads \ {t}, c))
  <2>0. Lists(z, z.scheduled[c], ScheduledOn(z, threads, c))
    BY HoldsFacts
  <2>1. CASE Scheduled(z, t, c)
    <3>1. ScheduledOn(z, threads \ {t}, c) = ScheduledOn(z, threads, c) \ {t} /\ t \in ScheduledOn(z, threads, c)
      BY <2>1 DEF ScheduledOn
    <3>2. Lists(z, RemoveOn(z.scheduled[c], t), ScheduledOn(z, threads, c) \ {t})
      BY <2>0, <3>1, RemoveLists
    <3> QED
      BY <1>1, <2>1, <3>1, <3>2
  <2>2. CASE ~Scheduled(z, t, c)
    <3>1. ScheduledOn(z, threads \ {t}, c) = ScheduledOn(z, threads, c)
      BY <2>2 DEF ScheduledOn
    <3> QED
      BY <1>1, <2>0, <2>2, <3>1
  <2> QED
    BY <2>1, <2>2
<1>3. ASSUME NEW c \in Cores PROVE Lists(z, r.suggested[c], SuggestedFor(z, threads \ {t}, c))
  <2>0. Lists(z, z.suggested[c], SuggestedFor(z, threads, c))
    BY HoldsFacts
  <2>1. CASE Suggested(z, t, c)
    <3>1. SuggestedFor(z, threads \ {t}, c) = SuggestedFor(z, threads, c) \ {t} /\ t \in SuggestedFor(z, threads, c)
      BY <2>1 DEF SuggestedFor
    <3>2. Lists(z, RemoveOn(z.suggested[c], t), SuggestedFor(z, threads, c) \ {t})
      BY <2>0, <3>1, RemoveLists
    <3> QED
      BY <1>1, <2>1, <3>1, <3>2
  <2>2. CASE ~Suggested(z, t, c)
    <3>1. SuggestedFor(z, threads \ {t}, c) = SuggestedFor(z, threads, c)
      BY <2>2 DEF SuggestedFor
    <3> QED
      BY <1>1, <2>0, <2>2, <3>1
  <2> QED
    BY <2>1, <2>2
<1>4. ASSUME NEW c \in Cores
      PROVE  /\ Lists(r, r.scheduled[c], ScheduledOn(r, threads \ {t}, c))
             /\ Lists(r, r.suggested[c], SuggestedFor(r, threads \ {t}, c))
  <2>1. /\ ScheduledOn(r, threads \ {t}, c) = ScheduledOn(z, threads \ {t}, c)
        /\ SuggestedFor(r, threads \ {t}, c) = SuggestedFor(z, threads \ {t}, c)
    BY <1>1 DEF ScheduledOn, SuggestedFor, Scheduled, Suggested
  <2> QED
    BY <1>1, <1>2, <1>3, <2>1, ListsOfPriority
<1>5. /\ r.core \in [Threads -> Cores \cup {NoCore}] /\ r.priority \in [Threads -> Nat]
      /\ r.affinity \in [Threads -> SUBSET Cores] /\ threads \ {t} \in SUBSET Threads
      /\ \A u \in Threads : r.core[u] \in r.affinity[u] \cup {NoCore}
  BY <1>1, HoldsFacts
<1>6. Holds(r, threads \ {t})
  BY <1>1, <1>4, <1>5, HoldsIntro
<1> QED
  BY <1>1, <1>6

\* The data of threads that are in no queue may change.
LEMMA ChangeDataHolds ==
  ASSUME NEW z, NEW threads, Holds(z, threads),
         NEW r \in Queues, r.scheduled = z.scheduled, r.suggested = z.suggested,
         \A u \in threads : /\ r.core[u] = z.core[u] /\ r.priority[u] = z.priority[u]
                            /\ r.affinity[u] = z.affinity[u],
         \A u \in Threads : r.core[u] \in r.affinity[u] \cup {NoCore}
  PROVE  Holds(r, threads)
<1>1. ASSUME NEW c \in Cores
      PROVE  /\ Lists(r, r.scheduled[c], ScheduledOn(r, threads, c))
             /\ Lists(r, r.suggested[c], SuggestedFor(r, threads, c))
  <2>1. /\ ScheduledOn(r, threads, c) = ScheduledOn(z, threads, c) /\ ScheduledOn(z, threads, c) \subseteq threads
        /\ SuggestedFor(r, threads, c) = SuggestedFor(z, threads, c) /\ SuggestedFor(z, threads, c) \subseteq threads
    BY DEF ScheduledOn, SuggestedFor, Scheduled, Suggested
  <2>2. /\ Lists(z, r.scheduled[c], ScheduledOn(z, threads, c))
        /\ Lists(z, r.suggested[c], SuggestedFor(z, threads, c))
    BY HoldsFacts
  <2>3. /\ \A u \in ScheduledOn(z, threads, c) : r.priority[u] = z.priority[u]
        /\ \A u \in SuggestedFor(z, threads, c) : r.priority[u] = z.priority[u]
    BY <2>1
  <2>4. Lists(r, r.scheduled[c], ScheduledOn(z, threads, c))
    BY <2>2, <2>3, ListsOfPriority, SMTT(30)
  <2>5. Lists(r, r.suggested[c], SuggestedFor(z, threads, c))
    BY <2>2, <2>3, ListsOfPriority, SMT
  <2> QED
    BY <2>1, <2>4, <2>5
<1> QED
  BY <1>1, HoldsFacts DEF Holds, HoldsThreads

\* MoveToScheduledBack changes only the order of a queue.
LEMMA MoveToBackHolds ==
  ASSUME NEW z, NEW threads, Holds(z, threads), NEW t \in threads
  PROVE  /\ Holds(MoveToScheduledBack(z, t), threads)
         /\ MoveToScheduledBack(z, t).core = z.core
         /\ MoveToScheduledBack(z, t).priority = z.priority
         /\ MoveToScheduledBack(z, t).affinity = z.affinity
         /\ MoveToScheduledBack(z, t).suggested = z.suggested
         /\ \A c \in Cores : MoveToScheduledBack(z, t).scheduled[c] =
              IF c = z.core[t] THEN PushBackOn(z, RemoveOn(z.scheduled[c], t), t) ELSE z.scheduled[c]
<1> SUFFICES ASSUME NEW r, r = MoveToScheduledBack(z, t)
             PROVE  /\ Holds(r, threads)
                    /\ r.core = z.core /\ r.priority = z.priority /\ r.affinity = z.affinity
                    /\ r.suggested = z.suggested
                    /\ \A c \in Cores : r.scheduled[c] =
                         IF c = z.core[t] THEN PushBackOn(z, RemoveOn(z.scheduled[c], t), t) ELSE z.scheduled[c]
  OBVIOUS
<1>0. z \in Queues
  BY DEF Holds
<1>1. /\ r = [scheduled |-> r.scheduled, suggested |-> r.suggested, core |-> r.core,
              priority |-> r.priority, affinity |-> r.affinity]
      /\ r.core = z.core /\ r.priority = z.priority /\ r.affinity = z.affinity /\ r.suggested = z.suggested
      /\ r.scheduled = [z.scheduled EXCEPT ![z.core[t]] = PushBackOn(z, RemoveOn(z.scheduled[z.core[t]], t), t)]
  BY <1>0 DEF MoveToScheduledBack, Queues
<1>2. \A c \in Cores : r.scheduled[c] =
        IF c = z.core[t] THEN PushBackOn(z, RemoveOn(z.scheduled[c], t), t) ELSE z.scheduled[c]
  BY <1>1, HoldsFacts, SMT
<1>3. ASSUME NEW c \in Cores PROVE Lists(z, r.scheduled[c], ScheduledOn(z, threads, c))
  <2>0. Lists(z, z.scheduled[c], ScheduledOn(z, threads, c)) /\ z.priority \in [Threads -> Nat] /\ threads \subseteq Threads
    BY HoldsFacts
  <2>1. CASE c = z.core[t]
    <3>1. t \in ScheduledOn(z, threads, c)
      BY <2>1 DEF ScheduledOn, Scheduled
    <3>2. Lists(z, RemoveOn(z.scheduled[c], t), ScheduledOn(z, threads, c) \ {t})
      BY <2>0, <3>1, RemoveLists
    <3>3. t \in Threads \ (ScheduledOn(z, threads, c) \ {t})
      BY <2>0
    <3>4. Lists(z, PushBackOn(z, RemoveOn(z.scheduled[c], t), t), (ScheduledOn(z, threads, c) \ {t}) \cup {t})
      BY <2>0, <3>2, <3>3, PushBackLists
    <3>5. (ScheduledOn(z, threads, c) \ {t}) \cup {t} = ScheduledOn(z, threads, c)
      BY <3>1
    <3> QED
      BY <1>2, <2>1, <3>4, <3>5
  <2>2. CASE c # z.core[t]
    BY <1>2, <2>0, <2>2
  <2> QED
    BY <2>1, <2>2
<1>4. ASSUME NEW c \in Cores
      PROVE  /\ Lists(r, r.scheduled[c], ScheduledOn(r, threads, c))
             /\ Lists(r, r.suggested[c], SuggestedFor(r, threads, c))
  <2>1. /\ ScheduledOn(r, threads, c) = ScheduledOn(z, threads, c)
        /\ SuggestedFor(r, threads, c) = SuggestedFor(z, threads, c)
    BY <1>1 DEF ScheduledOn, SuggestedFor, Scheduled, Suggested
  <2>2. Lists(z, r.suggested[c], SuggestedFor(z, threads, c))
    BY <1>1, HoldsFacts
  <2> QED
    BY <1>1, <1>3, <2>1, <2>2, ListsOfPriority
<1>5. /\ r.core \in [Threads -> Cores \cup {NoCore}] /\ r.priority \in [Threads -> Nat]
      /\ r.affinity \in [Threads -> SUBSET Cores] /\ threads \in SUBSET Threads
      /\ \A u \in Threads : r.core[u] \in r.affinity[u] \cup {NoCore}
      /\ r.scheduled = [c \in Cores |-> r.scheduled[c]] /\ r.suggested = [c \in Cores |-> r.suggested[c]]
  BY <1>1, HoldsFacts
<1>6. Holds(r, threads)
  BY <1>1, <1>4, <1>5, HoldsIntro
<1> QED
  BY <1>1, <1>2, <1>6

\* ChangePriority.
LEMMA ChangePriorityHolds ==
  ASSUME NEW z, NEW threads, Holds(z, threads), NEW t \in threads, NEW p \in Nat, NEW isRunning \in BOOLEAN
  PROVE  Holds(ChangePriority(z, t, p, isRunning), threads)
<1>1. PICK r0 : r0 = RemoveThread(z, t)
  OBVIOUS
<1>2. PICK r : r = [r0 EXCEPT !.priority[t] = p]
  OBVIOUS
<1>3. Holds(r0, threads \ {t}) /\ r0 \in Queues /\ t \in Threads
  BY <1>1, RemoveHolds, HoldsFacts DEF Holds
<1>4. /\ r \in Queues /\ r.scheduled = r0.scheduled /\ r.suggested = r0.suggested /\ r.core = r0.core
      /\ r.affinity = r0.affinity /\ \A u \in Threads \ {t} : r.priority[u] = r0.priority[u]
  BY <1>2, <1>3 DEF Queues
<1>5. Holds(r, threads \ {t})
  <2>1. \A u \in Threads : r.core[u] \in r.affinity[u] \cup {NoCore}
    BY <1>3, <1>4, HoldsFacts
  <2>2. threads \ {t} \subseteq Threads \ {t}
    BY HoldsFacts
  <2> QED
    BY <1>3, <1>4, <2>1, <2>2, ChangeDataHolds
<1>6. t \in Threads \ (threads \ {t}) /\ (threads \ {t}) \cup {t} = threads
  BY <1>3
<1>7. Holds(PushBack(r, t), threads) /\ Holds(PushFront(r, t), threads)
  BY <1>5, <1>6, PushHolds, SMT
<1> QED
  BY <1>1, <1>2, <1>7 DEF ChangePriority

\* ChangeAffinityMask.
LEMMA ChangeMaskHolds ==
  ASSUME NEW z, NEW threads, Holds(z, threads), NEW t \in threads,
         NEW mask \in SUBSET Cores, NEW core \in mask \cup {NoCore}
  PROVE  Holds(ChangeAffinityMask(z, t, mask, core), threads)
<1>1. PICK r0 : r0 = RemoveThread(z, t)
  OBVIOUS
<1>2. PICK r : r = [r0 EXCEPT !.affinity[t] = mask, !.core[t] = core]
  OBVIOUS
<1>3. Holds(r0, threads \ {t}) /\ r0 \in Queues /\ t \in Threads
  BY <1>1, RemoveHolds, HoldsFacts DEF Holds
<1>4. /\ r \in Queues /\ r.scheduled = r0.scheduled /\ r.suggested = r0.suggested /\ r.priority = r0.priority
      /\ r.core[t] = core /\ r.affinity[t] = mask
      /\ \A u \in Threads \ {t} : r.core[u] = r0.core[u] /\ r.affinity[u] = r0.affinity[u]
  BY <1>2, <1>3 DEF Queues
<1>5. Holds(r, threads \ {t})
  <2>1. \A u \in Threads : r.core[u] \in r.affinity[u] \cup {NoCore}
    BY <1>3, <1>4, HoldsFacts
  <2>2. threads \ {t} \subseteq Threads \ {t}
    BY HoldsFacts
  <2> QED
    BY <1>3, <1>4, <2>1, <2>2, ChangeDataHolds, SMT
<1>6. t \in Threads \ (threads \ {t}) /\ (threads \ {t}) \cup {t} = threads
  BY <1>3
<1>7. Holds(PushBack(r, t), threads)
  BY <1>5, <1>6, PushHolds, SMTT(30)
<1> QED
  BY <1>1, <1>2, <1>7 DEF ChangeAffinityMask

\* r is z after thread t went to core c, from another one.
MovedTo(z, t, c, r) ==
  /\ r \in [scheduled : {r.scheduled}, suggested : {r.suggested}, core : {r.core},
             priority : {r.priority}, affinity : {r.affinity}]
  /\ r.core = [z.core EXCEPT ![t] = c] /\ r.priority = z.priority /\ r.affinity = z.affinity
  /\ r.scheduled = [d \in Cores |-> r.scheduled[d]] /\ r.suggested = [d \in Cores |-> r.suggested[d]]
  /\ z.core[t] \in Cores => /\ r.scheduled[z.core[t]] = RemoveOn(z.scheduled[z.core[t]], t)
                            /\ r.suggested[z.core[t]] = PushBackOn(z, z.suggested[z.core[t]], t)
  /\ c \in Cores => /\ r.scheduled[c] \in {PushFrontOn(z, z.scheduled[c], t), PushBackOn(z, z.scheduled[c], t)}
                    /\ r.suggested[c] = RemoveOn(z.suggested[c], t)
  /\ \A d \in Cores \ {c, z.core[t]} : r.scheduled[d] = z.scheduled[d] /\ r.suggested[d] = z.suggested[d]

\* What ChangeCore does to the fields, for a thread that is not on the core.
LEMMA ChangeCoreFields ==
  ASSUME NEW z, NEW threads, Holds(z, threads), NEW t \in threads, NEW c \in Cores \cup {NoCore}, c # z.core[t],
         NEW toFront, NEW r, r = ChangeCore(z, t, c, toFront)
  PROVE  MovedTo(z, t, c, r)
<1>1. z \in Queues /\ t \in Threads /\ z.core[t] \in Cores \cup {NoCore}
  BY HoldsFacts DEF Holds
<1>2. NoCore \notin Cores
  BY QueueAssumption, SMT DEF NoCore, Cores
<1> DEFINE l == IF z.core[t] = NoCore THEN z
                ELSE [z EXCEPT !.scheduled[z.core[t]] = RemoveOn(@, t), !.suggested[z.core[t]] = PushBackOn(z, @, t)]
           Away(y) == [y EXCEPT !.core[t] = c]
           On(y) == [y EXCEPT !.core[t] = c, !.suggested[c] = RemoveOn(@, t),
                              !.scheduled[c] = IF toFront THEN PushFrontOn(z, @, t) ELSE PushBackOn(z, @, t)]
<1>a. r = IF z.core[t] = c THEN z ELSE IF c = NoCore THEN Away(l) ELSE On(l)
  BY DEF ChangeCore
<1> HIDE DEF l, Away, On
<1>3. PICK left : left = l
  OBVIOUS
<1>b. r = IF c = NoCore THEN Away(left) ELSE On(left)
  BY ONLY <1>a, <1>3, c # z.core[t], Zenon
<1>4. r = IF c = NoCore THEN [left EXCEPT !.core[t] = c]
          ELSE [left EXCEPT !.core[t] = c, !.suggested[c] = RemoveOn(@, t),
                        !.scheduled[c] = IF toFront THEN PushFrontOn(z, @, t) ELSE PushBackOn(z, @, t)]
  BY ONLY <1>b, Zenon DEF Away, On
<1>5. /\ left \in [scheduled : {left.scheduled}, suggested : {left.suggested}, core : {z.core},
                   priority : {z.priority}, affinity : {z.affinity}]
      /\ z.core[t] = NoCore => left.scheduled = z.scheduled /\ left.suggested = z.suggested
      /\ z.core[t] # NoCore =>
           /\ left.scheduled = [z.scheduled EXCEPT ![z.core[t]] = RemoveOn(z.scheduled[z.core[t]], t)]
           /\ left.suggested = [z.suggested EXCEPT ![z.core[t]] = PushBackOn(z, z.suggested[z.core[t]], t)]
  BY <1>1, <1>3 DEF Queues, l
<1>6. /\ r \in [scheduled : {r.scheduled}, suggested : {r.suggested}, core : {r.core},
                priority : {r.priority}, affinity : {r.affinity}]
      /\ r.core = [z.core EXCEPT ![t] = c] /\ r.priority = z.priority /\ r.affinity = z.affinity
      /\ c = NoCore => r.scheduled = left.scheduled /\ r.suggested = left.suggested
      /\ c # NoCore =>
           /\ r.scheduled = [left.scheduled EXCEPT ![c] = IF toFront THEN PushFrontOn(z, left.scheduled[c], t)
                                                         ELSE PushBackOn(z, left.scheduled[c], t)]
           /\ r.suggested = [left.suggested EXCEPT ![c] = RemoveOn(left.suggested[c], t)]
  BY <1>1, <1>4, <1>5, ZenonT(60)
<1>7. z.scheduled \in [Cores -> Seq(Threads)] /\ z.suggested \in [Cores -> Seq(Threads)]
  BY <1>1 DEF Queues
<1>8. /\ left.scheduled = [d \in Cores |-> left.scheduled[d]] /\ left.suggested = [d \in Cores |-> left.suggested[d]]
      /\ z.core[t] \in Cores => /\ left.scheduled[z.core[t]] = RemoveOn(z.scheduled[z.core[t]], t)
                                /\ left.suggested[z.core[t]] = PushBackOn(z, z.suggested[z.core[t]], t)
      /\ \A d \in Cores \ {z.core[t]} : left.scheduled[d] = z.scheduled[d] /\ left.suggested[d] = z.suggested[d]
  BY <1>1, <1>2, <1>5, <1>7
<1>9. /\ r.scheduled = [d \in Cores |-> r.scheduled[d]] /\ r.suggested = [d \in Cores |-> r.suggested[d]]
      /\ c \in Cores => /\ r.scheduled[c] \in {PushFrontOn(z, left.scheduled[c], t), PushBackOn(z, left.scheduled[c], t)}
                        /\ r.suggested[c] = RemoveOn(left.suggested[c], t)
      /\ \A d \in Cores \ {c} : r.scheduled[d] = left.scheduled[d] /\ r.suggested[d] = left.suggested[d]
  BY <1>2, <1>6, <1>8, SMT
<1> QED
  BY <1>2, <1>6, <1>8, <1>9, SMT DEF MovedTo

\* ChangeCore moves a thread between the queues of two cores, or leaves it
\* without a core.
LEMMA ChangeCoreHolds ==
  ASSUME NEW z, NEW threads, Holds(z, threads), NEW t \in threads, NEW c \in Cores \cup {NoCore},
         c \in z.affinity[t] \cup {NoCore}, NEW toFront
  PROVE  Holds(ChangeCore(z, t, c, toFront), threads)
<1>1. CASE c = z.core[t]
  BY <1>1 DEF ChangeCore
<1>2. ASSUME c # z.core[t] PROVE Holds(ChangeCore(z, t, c, toFront), threads)
  <2>1. PICK r : r = ChangeCore(z, t, c, toFront)
    OBVIOUS
  <2>3. MovedTo(z, t, c, r)
    BY <1>2, <2>1, ChangeCoreFields
  <2>2. /\ r \in [scheduled : {r.scheduled}, suggested : {r.suggested}, core : {r.core},
                   priority : {r.priority}, affinity : {r.affinity}]
        /\ r.core = [z.core EXCEPT ![t] = c] /\ r.priority = z.priority /\ r.affinity = z.affinity
        /\ r.scheduled = [d \in Cores |-> r.scheduled[d]] /\ r.suggested = [d \in Cores |-> r.suggested[d]]
        /\ z.core[t] \in Cores => /\ r.scheduled[z.core[t]] = RemoveOn(z.scheduled[z.core[t]], t)
                                  /\ r.suggested[z.core[t]] = PushBackOn(z, z.suggested[z.core[t]], t)
        /\ c \in Cores => /\ r.scheduled[c] \in {PushFrontOn(z, z.scheduled[c], t), PushBackOn(z, z.scheduled[c], t)}
                          /\ r.suggested[c] = RemoveOn(z.suggested[c], t)
        /\ \A d \in Cores \ {c, z.core[t]} : r.scheduled[d] = z.scheduled[d] /\ r.suggested[d] = z.suggested[d]
    BY <2>3 DEF MovedTo
  <2>4. /\ t \in Threads /\ z.priority \in [Threads -> Nat] /\ threads \subseteq Threads
        /\ z.core \in [Threads -> Cores \cup {NoCore}] /\ z.affinity \in [Threads -> SUBSET Cores]
        /\ z.core[t] \in z.affinity[t] \cup {NoCore} /\ NoCore \notin Cores
        /\ \A u \in Threads : z.core[u] \in z.affinity[u] \cup {NoCore}
    BY HoldsFacts, QueueAssumption, SMT DEF NoCore, Cores
  <2>5. \A u \in Threads : r.core[u] = IF u = t THEN c ELSE z.core[u]
    BY <2>2, <2>4
  <2>6. ASSUME NEW d \in Cores PROVE Lists(r, r.scheduled[d], ScheduledOn(r, threads, d))
    <3>0. Lists(z, z.scheduled[d], ScheduledOn(z, threads, d))
      BY HoldsFacts
    <3>1. CASE d = z.core[t]
      <4>1. ScheduledOn(r, threads, d) = ScheduledOn(z, threads, d) \ {t} /\ t \in ScheduledOn(z, threads, d)
        BY <1>2, <2>4, <2>5, <3>1, SMT DEF ScheduledOn, Scheduled
      <4>2. Lists(z, RemoveOn(z.scheduled[d], t), ScheduledOn(z, threads, d) \ {t})
        BY <3>0, <4>1, RemoveLists
      <4> QED
        BY <2>2, <3>1, <4>1, <4>2, ListsOfPriority, SMT
    <3>2. CASE d = c
      <4>1. ScheduledOn(r, threads, d) = ScheduledOn(z, threads, d) \cup {t} /\ t \in Threads \ ScheduledOn(z, threads, d)
        BY <1>2, <2>4, <2>5, <3>2 DEF ScheduledOn, Scheduled
      <4>2. /\ Lists(z, PushBackOn(z, z.scheduled[d], t), ScheduledOn(z, threads, d) \cup {t})
            /\ Lists(z, PushFrontOn(z, z.scheduled[d], t), ScheduledOn(z, threads, d) \cup {t})
        BY <2>4, <3>0, <4>1, PushBackLists, PushFrontLists
      <4>3. Lists(z, r.scheduled[d], ScheduledOn(r, threads, d))
        BY <2>2, <3>2, <4>1, <4>2
      <4> QED
        BY <2>2, <4>3, ListsOfPriority
    <3>3. CASE d # z.core[t] /\ d # c
      <4>1. ScheduledOn(r, threads, d) = ScheduledOn(z, threads, d)
        BY <2>4, <2>5, <3>3 DEF ScheduledOn, Scheduled
      <4> QED
        BY <2>2, <3>0, <3>3, <4>1, ListsOfPriority
    <3> QED
      BY <3>1, <3>2, <3>3
  <2>7. ASSUME NEW d \in Cores PROVE Lists(r, r.suggested[d], SuggestedFor(r, threads, d))
    <3>0. Lists(z, z.suggested[d], SuggestedFor(z, threads, d))
      BY HoldsFacts
    <3>1. CASE d = c
      <4>1. SuggestedFor(r, threads, d) = SuggestedFor(z, threads, d) \ {t} /\ t \in SuggestedFor(z, threads, d)
        BY <1>2, <2>2, <2>4, <2>5, <3>1, SMT DEF SuggestedFor, Suggested
      <4>2. Lists(z, RemoveOn(z.suggested[d], t), SuggestedFor(z, threads, d) \ {t})
        BY <3>0, <4>1, RemoveLists
      <4> QED
        BY <2>2, <3>1, <4>1, <4>2, ListsOfPriority, SMTT(30)
    <3>2. CASE d = z.core[t]
      <4>1. SuggestedFor(r, threads, d) = SuggestedFor(z, threads, d) \cup {t} /\ t \in Threads \ SuggestedFor(z, threads, d)
        BY <1>2, <2>2, <2>4, <2>5, <3>2, SMT DEF SuggestedFor, Suggested
      <4>2. Lists(z, PushBackOn(z, z.suggested[d], t), SuggestedFor(z, threads, d) \cup {t})
        BY <2>4, <3>0, <4>1, PushBackLists
      <4> QED
        BY <2>2, <3>2, <4>1, <4>2, ListsOfPriority, SMT
    <3>3. CASE d # z.core[t] /\ d # c
      <4>1. SuggestedFor(r, threads, d) = SuggestedFor(z, threads, d)
        BY <2>2, <2>4, <2>5, <3>3 DEF SuggestedFor, Suggested
      <4> QED
        BY <2>2, <3>0, <3>3, <4>1, ListsOfPriority
    <3> QED
      BY <3>1, <3>2, <3>3
  <2>8. /\ r.core \in [Threads -> Cores \cup {NoCore}] /\ r.priority \in [Threads -> Nat]
        /\ r.affinity \in [Threads -> SUBSET Cores] /\ threads \in SUBSET Threads
        /\ \A u \in Threads : r.core[u] \in r.affinity[u] \cup {NoCore}
    BY <2>2, <2>4, <2>5, SMT
  <2>9. r = [scheduled |-> r.scheduled, suggested |-> r.suggested, core |-> r.core,
             priority |-> r.priority, affinity |-> r.affinity]
    BY <2>2
  <2> QED
    BY <2>1, <2>2, <2>6, <2>7, <2>8, <2>9, HoldsIntro, SMT
<1> QED
  BY <1>1, <1>2

----------------------------------------------------------------------------
(* The cores. *)


\* Outside the lock nothing of the queues changes.
LEMMA UnlockedQueues ==
  ASSUME QueueInv, UNCHANGED locked, TypeOK'
  PROVE  QueueInv'
<1>1. Runnables' = Runnables /\ q' = q /\ highest' = highest /\ quiet' = quiet
  BY DEF locked, Runnables, Queued
<1> QED
  BY <1>1 DEF QueueInv

\* RescheduleCores interrupts the cores that an actor has collected, and keeps
\* the interrupts of the other actors.
LEMMA InterruptType ==
  ASSUME TypeOK, NEW actor \in Cores \cup {Host}, Interrupt(actor)
  PROVE  /\ interrupted' \in [Cores -> BOOLEAN] /\ toInterrupt' \in [Cores \cup {Host} -> SUBSET Cores]
         /\ toInterrupt'[actor] = {} /\ \A b \in Cores \cup {Host} : b # actor => toInterrupt'[b] = toInterrupt[b]
         /\ \A c \in Cores : interrupted[c] \/ c \in toInterrupt[actor] => interrupted'[c]
<1>1. interrupted' \in [Cores -> BOOLEAN] /\ \A c \in Cores : interrupted[c] \/ c \in toInterrupt[actor] => interrupted'[c]
  BY DEF Interrupt, TypeOK
<1> QED
  BY <1>1 DEF Interrupt, TypeOK

\* The types of what a core changes outside the lock.
LEMMA UnlockedType ==
  ASSUME TypeOK, NEW c \in Cores, Unlocked(c)
  PROVE  TypeOK' /\ UNCHANGED locked
<1>1. ASSUME NEW from, NEW to \in Pcs, Goto(c, from, to) PROVE pc' \in [Cores -> Pcs]
  BY <1>1 DEF Goto, TypeOK
<1>2. ASSUME NEW b \in BOOLEAN, needs' = [needs EXCEPT ![c] = b] PROVE needs' \in [Cores -> BOOLEAN]
  BY <1>2 DEF TypeOK
<1>3. CASE EnableScheduling(c)
  <2>1. pc' \in [Cores -> Pcs]
    BY <1>1, <1>3 DEF EnableScheduling, Pcs
  <2>2. needs' \in [Cores -> BOOLEAN] /\ Interrupt(c)
    BY <1>2, <1>3 DEF EnableScheduling
  <2> QED
    BY <1>3, <2>1, <2>2, InterruptType DEF EnableScheduling, TypeOK, locked
<1>4. CASE HandleInterrupt(c)
  <2>1. pc' \in [Cores -> Pcs] /\ needs' \in [Cores -> BOOLEAN]
    BY <1>1, <1>2, <1>4 DEF HandleInterrupt, Pcs
  <2>2. interrupted' \in [Cores -> BOOLEAN]
    BY <1>4 DEF HandleInterrupt, TypeOK
  <2> QED
    BY <1>4, <2>1, <2>2 DEF HandleInterrupt, TypeOK, locked
<1>5. CASE ReadHighest(c)
  <2>1. pc' \in [Cores -> Pcs]
    BY <1>1, <1>5 DEF ReadHighest, Pcs
  <2>2. next' \in [Cores -> Threads \cup {NoThread}] /\ guarded' \subseteq Threads
    BY <1>5 DEF ReadHighest, Unload, TypeOK
  <2> QED
    BY <1>5, <2>1, <2>2 DEF ReadHighest, TypeOK, locked
<1>6. CASE LockContext(c)
  <2>1. pc' \in [Cores -> Pcs]
    BY <1>1, <1>6 DEF LockContext, Pcs
  <2>2. current' \in [Cores -> Threads \cup {NoThread}] /\ guarded' \subseteq Threads
    BY <1>6 DEF LockContext, TypeOK
  <2> QED
    BY <1>6, <2>1, <2>2 DEF LockContext, TypeOK, locked
<1>7. CASE GiveUp(c)
  <2>1. pc' \in [Cores -> Pcs] /\ needs' \in [Cores -> BOOLEAN]
    BY <1>1, <1>2, <1>7 DEF GiveUp, Pcs
  <2>2. next' \in [Cores -> Threads \cup {NoThread}]
    BY <1>7 DEF GiveUp, TypeOK
  <2> QED
    BY <1>7, <2>1, <2>2 DEF GiveUp, TypeOK, locked
<1>8. CASE CheckSwitch(c)
  <2>1. pc' \in [Cores -> Pcs] /\ needs' \in [Cores -> BOOLEAN]
    BY <1>1, <1>2, <1>8 DEF CheckSwitch, Pcs
  <2>2. next' \in [Cores -> Threads \cup {NoThread}] /\ guarded' \subseteq Threads
    BY <1>8 DEF CheckSwitch, TypeOK
  <2> QED
    BY <1>8, <2>1, <2>2 DEF CheckSwitch, TypeOK, locked
<1>9. CASE RereadHighest(c)
  <2>1. pc' \in [Cores -> Pcs]
    BY <1>1, <1>9 DEF RereadHighest, Pcs
  <2>2. next' \in [Cores -> Threads \cup {NoThread}]
    BY <1>9 DEF RereadHighest, TypeOK
  <2> QED
    BY <1>9, <2>1, <2>2 DEF RereadHighest, TypeOK, locked
<1> QED
  BY <1>3, <1>4, <1>5, <1>6, <1>7, <1>8, <1>9 DEF Unlocked

\* The queues after any step.
LEMMA QueueInvStep ==
  ASSUME QueueInv, RunnersHaveCores, Step
  PROVE  QueueInv'
<1>1. TypeOK
  BY DEF QueueInv
<1>2. CASE \E actor \in Cores \cup {Host} : LockedStep(actor)
  BY <1>2 DEF LockedStep
<1>3. CASE \E c \in Cores : Unlocked(c)
  BY <1>1, <1>3, UnlockedType, UnlockedQueues
<1>4. CASE RescheduleCores
  <2>1. TypeOK' /\ UNCHANGED locked
    BY <1>1, <1>4, InterruptType DEF RescheduleCores, TypeOK, locked
  <2> QED
    BY <2>1, UnlockedQueues
<1>5. CASE \E t \in Threads : FinishTermination(t)
  <2>1. PICK t \in Threads : FinishTermination(t)
    BY <1>5
  <2>2. finishing' \in [Threads -> 0 .. NumCores]
    BY <1>1, <2>1, QueueAssumption, SMT DEF FinishTermination, TypeOK
  <2>3. TypeOK' /\ UNCHANGED locked
    BY <1>1, <2>1, <2>2 DEF FinishTermination, TypeOK, locked
  <2> QED
    BY <2>3, UnlockedQueues
<1>6. CASE UNCHANGED vars
  <2>1. TypeOK' /\ UNCHANGED locked
    BY <1>1, <1>6 DEF vars, TypeOK, locked
  <2> QED
    BY <2>1, UnlockedQueues
<1> QED
  BY <1>2, <1>3, <1>4, <1>5, <1>6 DEF Step

\* Goto moves one core.
LEMMA GotoFacts ==
  ASSUME TypeOK, NEW c \in Cores, NEW from, NEW to, Goto(c, from, to)
  PROVE  pc[c] = from /\ pc'[c] = to /\ \A d \in Cores : d # c => pc'[d] = pc[d]
BY DEF Goto, TypeOK

\* A core goes on with the thread that it has.
LEMMA GuardsKept ==
  ASSUME TypeOK, GuardInv, UNCHANGED <<state, current, next, guarded>>, NEW c \in Cores, NEW from, NEW to,
         Goto(c, from, to), from \in {"run", "ipi", "read"}, to \in {"run", "ipi", "read"}
  PROVE  GuardInv'
<1>1. pc[c] = from /\ pc'[c] = to /\ \A d \in Cores : d # c => pc'[d] = pc[d]
  BY GotoFacts
<1>2. \A d \in Cores, t \in Threads : Has(d, t)' <=> Has(d, t)
  BY <1>1 DEF Has
<1>3. \A d \in Cores : pc'[d] = "check" <=> pc[d] = "check"
  BY <1>1
<1> QED
  BY <1>2, <1>3 DEF GuardInv, TypeOK

\* A core that has no thread goes on without one.
LEMMA GuardsWithout ==
  ASSUME TypeOK, GuardInv, UNCHANGED <<state, current, guarded>>, NEW c \in Cores, NEW from, NEW to,
         Goto(c, from, to), from \in {"lock", "reread"}, to \in {"lock", "reread"},
         \A d \in Cores : d # c => next'[d] = next[d]
  PROVE  GuardInv'
<1>1. pc[c] = from /\ pc'[c] = to /\ \A d \in Cores : d # c => pc'[d] = pc[d]
  BY GotoFacts
<1>2. \A d \in Cores, t \in Threads : Has(d, t)' <=> Has(d, t)
  BY <1>1 DEF Has
<1>3. \A d \in Cores : pc'[d] = "check" <=> d # c /\ pc[d] = "check"
  BY <1>1
<1> QED
  BY <1>2, <1>3 DEF GuardInv, TypeOK

\* A core gives its thread back: the context is unlocked unless the thread has
\* terminated.
LEMMA GuardsGiven ==
  ASSUME TypeOK, GuardInv, UNCHANGED <<state, current>>, NEW c \in Cores, NEW from, NEW to,
         Goto(c, from, to), from \in {"read", "check"}, to \in {"lock", "reread"},
         guarded' = Unload(current[c]), \A d \in Cores : d # c => next'[d] = next[d]
  PROVE  GuardInv'
<1>1. pc[c] = from /\ pc'[c] = to /\ \A d \in Cores : d # c => pc'[d] = pc[d]
  BY GotoFacts
<1>2. \A d \in Cores, t \in Threads : Has(d, t)' <=> d # c /\ Has(d, t)
  BY <1>1 DEF Has
<1>3. \A d \in Cores : pc'[d] = "check" <=> d # c /\ pc[d] = "check"
  BY <1>1
<1>4. \A t \in Threads : Has(c, t) <=> t = current[c]
  BY <1>1 DEF Has
<1>5. current[c] \in Threads \cup {NoThread} /\ NoThread \notin Threads /\ guarded \subseteq Threads
  BY QueueAssumption DEF TypeOK
<1>6. \A t \in Threads : t \in guarded' <=> t \in guarded /\ (t = current[c] => state[t] = "Terminated")
  BY <1>5 DEF Unload
<1>7. guarded' \subseteq Threads
  BY <1>5 DEF Unload
<1> QED
  BY <1>2, <1>3, <1>4, <1>5, <1>6, <1>7, SMT DEF GuardInv

\* A core takes the context of its next thread.
LEMMA GuardsTaken ==
  ASSUME TypeOK, GuardInv, NEW c \in Cores, LockContext(c)
  PROVE  GuardInv'
<1>1. pc[c] = "lock" /\ pc'[c] = "check" /\ \A d \in Cores : d # c => pc'[d] = pc[d]
  BY GotoFacts DEF LockContext
<1>2. /\ current'[c] = next[c] /\ \A d \in Cores : d # c => current'[d] = current[d]
      /\ next' = next /\ state' = state /\ next[c] \notin guarded
      /\ guarded \subseteq Threads /\ next[c] \in Threads \cup {NoThread} /\ NoThread \notin Threads
  BY QueueAssumption DEF LockContext, TypeOK, locked
<1>3. guarded' \subseteq Threads /\ \A t \in Threads : t \in guarded' <=> t \in guarded \/ t = next[c]
  BY <1>2 DEF LockContext
<1>4. \A d \in Cores, t \in Threads : Has(d, t)' <=> (d # c /\ Has(d, t)) \/ (d = c /\ t = next[c])
  BY <1>1, <1>2 DEF Has
<1>5. \A d \in Cores : pc'[d] = "check" <=> d = c \/ pc[d] = "check"
  BY <1>1
<1>6. \A d \in Cores, t \in Threads : Has(d, t) => d # c /\ t # next[c]
  BY <1>1, <1>2, SMT DEF Has, GuardInv
<1> QED
  BY <1>2, <1>3, <1>4, <1>5, <1>6, SMT DEF GuardInv

\* An operation under the lock may terminate the thread that calls it.
LEMMA GuardsLocked ==
  ASSUME TypeOK, GuardInv, NEW actor \in Cores \cup {Host}, LockedStep(actor)
  PROVE  GuardInv'
<1>1. /\ actor \in Cores => pc[actor] = "run" /\ current[actor] \in Threads
      /\ pc' = [c \in Cores |-> IF c = actor THEN "ipi" ELSE pc[c]]
      /\ UNCHANGED <<current, next, guarded>>
      /\ \A t \in Threads : state[t] = "Terminated" => state'[t] = "Terminated"
      /\ \A t \in Threads : state'[t] = "Terminated" => state[t] = "Terminated" \/ IsCurrent(actor, t)
  BY DEF LockedStep
<1>2. \A d \in Cores, t \in Threads : Has(d, t)' <=> Has(d, t)
  BY <1>1 DEF Has
<1>3. \A d \in Cores : pc'[d] = "check" <=> pc[d] = "check"
  BY <1>1
<1>4. \A t \in Threads : IsCurrent(actor, t) => actor \in Cores /\ Has(actor, t) /\ pc[actor] = "run"
  BY <1>1 DEF IsCurrent, Has
<1>5. \A d \in Cores, t \in Threads : pc[d] = "check" /\ current[d] = t => Has(d, t)
  BY DEF Has
<1>6. guarded \subseteq Threads
  BY DEF TypeOK
<1> QED
  BY <1>1, <1>2, <1>3, <1>4, <1>5, <1>6, SMT DEF GuardInv

\* The contexts after any step.
LEMMA GuardInvStep ==
  ASSUME QueueInv, RunnersHaveCores, GuardInv, Step
  PROVE  GuardInv'
<1>1. TypeOK
  BY DEF QueueInv
<1>2. CASE \E actor \in Cores \cup {Host} : LockedStep(actor)
  BY <1>1, <1>2, GuardsLocked
<1>3. ASSUME NEW c \in Cores, Unlocked(c) PROVE GuardInv'
  <2>1. CASE EnableScheduling(c)
    BY <1>1, <2>1, GuardsKept DEF EnableScheduling, locked
  <2>2. CASE HandleInterrupt(c)
    BY <1>1, <2>2, GuardsKept DEF HandleInterrupt, locked
  <2>3. CASE ReadHighest(c)
    <3>1. CASE Goto(c, "read", "run") /\ UNCHANGED <<next, guarded>>
      BY <1>1, <2>3, <3>1, GuardsKept DEF ReadHighest, locked
    <3>2. CASE Goto(c, "read", "lock") /\ next' = [next EXCEPT ![c] = highest[c]] /\ guarded' = Unload(current[c])
      <4>1. \A d \in Cores : d # c => next'[d] = next[d]
        BY <1>1, <3>2 DEF TypeOK
      <4> QED
        BY <1>1, <2>3, <3>2, <4>1, GuardsGiven DEF ReadHighest, locked
    <3> QED
      BY <2>3, <3>1, <3>2 DEF ReadHighest
  <2>4. CASE LockContext(c)
    BY <1>1, <2>4, GuardsTaken
  <2>5. CASE GiveUp(c)
    <3>1. \A d \in Cores : d # c => next'[d] = next[d]
      BY <1>1, <2>5 DEF GiveUp, TypeOK
    <3> QED
      BY <1>1, <2>5, <3>1, GuardsWithout DEF GiveUp, locked
  <2>6. CASE CheckSwitch(c)
    <3>1. /\ \A d \in Cores : d # c => next'[d] = next[d]
          /\ current[c] = next[c] /\ ~(current[c] \in Threads /\ state[current[c]] = "Terminated")
      BY <1>1, <2>6 DEF CheckSwitch, TypeOK, GuardInv, Goto
    <3>2. current[c] # NoThread => current[c] \in Threads
      BY <1>1 DEF TypeOK
    <3>3. Unload(current[c]) = guarded \ {current[c]}
      BY <3>1, <3>2 DEF Unload
    <3>4. CASE needs[c]
      <4>1. Goto(c, "check", "reread") /\ guarded' = Unload(current[c]) /\ UNCHANGED <<state, current>>
        BY <2>6, <3>1, <3>3, <3>4 DEF CheckSwitch, locked
      <4> QED
        BY <1>1, <3>1, <4>1, GuardsGiven
    <3>5. CASE ~needs[c]
      <4>1. Goto(c, "check", "run") /\ UNCHANGED <<state, current, guarded>>
        BY <2>6, <3>5 DEF CheckSwitch, locked
      <4>2. pc[c] = "check" /\ pc'[c] = "run" /\ \A d \in Cores : d # c => pc'[d] = pc[d]
        BY <1>1, <4>1, GotoFacts
      <4>3. \A d \in Cores, t \in Threads : Has(d, t)' <=> Has(d, t)
        BY <4>1, <4>2 DEF Has
      <4>4. \A d \in Cores : pc'[d] = "check" <=> d # c /\ pc[d] = "check"
        BY <4>2
      <4> QED
        BY <1>1, <3>1, <4>1, <4>3, <4>4 DEF GuardInv, TypeOK
    <3> QED
      BY <3>4, <3>5
  <2>7. CASE RereadHighest(c)
    <3>1. \A d \in Cores : d # c => next'[d] = next[d]
      BY <1>1, <2>7 DEF RereadHighest, TypeOK
    <3> QED
      BY <1>1, <2>7, <3>1, GuardsWithout DEF RereadHighest, locked
  <2> QED
    BY <1>3, <2>1, <2>2, <2>3, <2>4, <2>5, <2>6, <2>7 DEF Unlocked
<1>4. CASE RescheduleCores \/ (\E t \in Threads : FinishTermination(t)) \/ UNCHANGED vars
  <2>1. UNCHANGED <<state, pc, current, next, guarded>>
    BY <1>4 DEF RescheduleCores, FinishTermination, vars, locked
  <2> QED
    BY <2>1 DEF GuardInv, Has
<1> QED
  BY <1>2, <1>3, <1>4 DEF Step

\* The current threads after any step: a thread that terminated is chosen by no
\* core again, so that a core that was passed stays without it.
LEMMA FinishInvStep ==
  ASSUME QueueInv, RunnersHaveCores, GuardInv, FinishInv, Step
  PROVE  FinishInv'
<1>1. TypeOK
  BY DEF QueueInv
<1>2. \A t \in Threads : finishing[t] \in Nat
  BY <1>1, SMT DEF TypeOK
<1>3. CASE \E actor \in Cores \cup {Host} : LockedStep(actor)
  <2>1. /\ UNCHANGED <<finishing, current>>
        /\ \A t \in Threads : state[t] = "Terminated" => state'[t] = "Terminated"
    BY <1>3 DEF LockedStep
  <2> QED
    BY <2>1 DEF FinishInv
<1>4. ASSUME NEW c \in Cores, Unlocked(c) PROVE FinishInv'
  <2>1. CASE LockContext(c)
    <3>1. UNCHANGED <<finishing, state>> /\ next[c] \notin guarded
      BY <2>1 DEF LockContext, locked
    <3>2. \A d \in Cores : current'[d] = current[d] \/ current'[d] = next[c]
      BY <1>1, <2>1 DEF LockContext, TypeOK
    <3>3. \A t \in Threads : t = next[c] => ~(finishing[t] > 0)
      BY <3>1 DEF FinishInv, GuardInv
    <3>4. \A t \in Threads, d \in Cores : d < finishing[t] => finishing[t] > 0
      BY <1>2, QueueAssumption, SMT DEF Cores
    <3> QED
      BY <3>1, <3>2, <3>3, <3>4 DEF FinishInv
  <2>2. CASE ~LockContext(c)
    <3>1. UNCHANGED <<finishing, current, state>>
      BY <1>4, <2>2 DEF Unlocked, EnableScheduling, HandleInterrupt, ReadHighest, GiveUp, CheckSwitch,
                        RereadHighest, locked
    <3> QED
      BY <3>1 DEF FinishInv
  <2> QED
    BY <2>1, <2>2
<1>5. ASSUME NEW t \in Threads, FinishTermination(t) PROVE FinishInv'
  <2>1. /\ state[t] = "Terminated" /\ current[finishing[t]] # t /\ UNCHANGED <<state, current>>
        /\ finishing'[t] = finishing[t] + 1 /\ \A u \in Threads : u # t => finishing'[u] = finishing[u]
    BY <1>1, <1>5 DEF FinishTermination, TypeOK, locked
  <2>2. \A d \in Cores : d < finishing'[t] => d < finishing[t] \/ d = finishing[t]
    BY <1>2, <2>1, QueueAssumption, SMT DEF Cores
  <2> QED
    BY <2>1, <2>2 DEF FinishInv
<1>6. CASE RescheduleCores \/ UNCHANGED vars
  <2>1. UNCHANGED <<finishing, current, state>>
    BY <1>6 DEF RescheduleCores, vars, locked
  <2> QED
    BY <2>1 DEF FinishInv
<1> QED
  BY <1>3, <1>4, <1>5, <1>6 DEF Step

\* The cores that an actor interrupts stay told.
LEMMA InterruptTells ==
  ASSUME TypeOK, NEW actor \in Cores \cup {Host}, Interrupt(actor), NEW c \in Cores,
         interrupted[c] \/ Pending(c)
  PROVE  interrupted'[c] \/ Pending(c)'
<1>1. /\ \A b \in Cores \cup {Host} : b # actor => toInterrupt'[b] = toInterrupt[b]
      /\ interrupted[c] \/ c \in toInterrupt[actor] => interrupted'[c]
  BY InterruptType
<1> QED
  BY <1>1 DEF Pending

\* A step of core c leaves the other cores as they were.
LEMMA OthersTold ==
  ASSUME TypeOK, ToldInv, NEW c \in Cores, Unlocked(c), NEW d \in Cores, d # c
  PROVE  Told(d)'
<1>1. \A from, to : Goto(c, from, to) => pc'[d] = pc[d]
  BY DEF Goto, TypeOK
<1>2. pc'[d] = pc[d]
  BY <1>1 DEF Unlocked, EnableScheduling, HandleInterrupt, ReadHighest, LockContext, GiveUp, CheckSwitch, RereadHighest
<1>3. current'[d] = current[d] /\ next'[d] = next[d] /\ highest' = highest /\ needs'[d] = needs[d]
  BY DEF Unlocked, EnableScheduling, HandleInterrupt, ReadHighest, LockContext, GiveUp, CheckSwitch, RereadHighest,
         locked, TypeOK
<1>4. CASE EnableScheduling(c)
  <2>1. Interrupt(c)
    BY <1>4 DEF EnableScheduling
  <2>2. toInterrupt'[d] = toInterrupt[d]
    BY <2>1, InterruptType
  <2>3. interrupted[d] \/ Pending(d) => interrupted'[d] \/ Pending(d)'
    BY <2>1, InterruptTells
  <2> QED
    BY <1>2, <1>3, <2>2, <2>3 DEF ToldInv, Told, Told
<1>5. CASE ~EnableScheduling(c)
  <2>1. UNCHANGED toInterrupt /\ interrupted'[d] = interrupted[d]
    BY <1>5 DEF Unlocked, HandleInterrupt, ReadHighest, LockContext, GiveUp, CheckSwitch, RereadHighest, TypeOK
  <2>2. Pending(d)' <=> Pending(d)
    BY <2>1 DEF Pending
  <2> QED
    BY <1>2, <1>3, <2>1, <2>2 DEF ToldInv, Told, Told
<1> QED
  BY <1>4, <1>5

\* An operation under the lock tells every core whose choice changes.
LEMMA LockedTells ==
  ASSUME TypeOK, ToldInv, NEW actor \in Cores \cup {Host}, LockedStep(actor), NEW c \in Cores
  PROVE  Told(c)'
<1>1. /\ actor \in Cores => pc[actor] = "run"
      /\ actor = Host => toInterrupt[Host] = {}
      /\ pc'[c] = IF c = actor THEN "ipi" ELSE pc[c]
      /\ UNCHANGED <<interrupted, current, next>>
      /\ needs[c] => needs'[c]
      /\ highest'[c] # highest[c] => needs'[c] /\ (c = actor \/ c \in toInterrupt'[actor])
      /\ \A b \in Cores \cup {Host} : b # actor => toInterrupt'[b] = toInterrupt[b]
  BY DEF LockedStep, Effects
<1>2. toInterrupt[actor] = {}
  BY <1>1 DEF ToldInv, Told
<1>3. Pending(c) => Pending(c)'
  BY <1>1, <1>2 DEF Pending
<1>4. c # actor /\ highest'[c] # highest[c] => Pending(c)'
  BY <1>1 DEF Pending
<1>5. CASE c = actor
  <2>1. pc[c] = "run" /\ pc'[c] = "ipi"
    BY <1>1, <1>5
  <2>2. current[c] = highest[c] \/ needs[c]
    BY <2>1 DEF ToldInv, Told
  <2> QED
    BY <1>1, <2>1, <2>2 DEF Told
<1>6. CASE c # actor
  <2>1. pc'[c] = pc[c] /\ toInterrupt'[c] = toInterrupt[c]
    BY <1>1, <1>6
  <2>2. highest'[c] = highest[c] \/ (needs'[c] /\ Pending(c)')
    BY <1>1, <1>4, <1>6
  <2> QED
    BY <1>1, <1>3, <2>1, <2>2 DEF Told, ToldInv
<1> QED
  BY <1>5, <1>6

\* The cores have been told after any step.
LEMMA ToldInvStep ==
  ASSUME QueueInv, RunnersHaveCores, GuardInv, ToldInv, Step
  PROVE  ToldInv'
<1> SUFFICES ASSUME NEW e \in Cores PROVE Told(e)'
  BY DEF ToldInv, Told
<1>1. TypeOK
  BY DEF QueueInv
<1>2. CASE \E actor \in Cores \cup {Host} : LockedStep(actor)
  BY <1>1, <1>2, LockedTells
<1>3. ASSUME NEW c \in Cores, Unlocked(c) PROVE Told(c)'
  <2>1. CASE EnableScheduling(c)
    <3>1. pc[c] = "ipi" /\ pc'[c] = IF needs[c] THEN "read" ELSE "run"
      BY <1>1, <2>1, GotoFacts DEF EnableScheduling
    <3>2. UNCHANGED <<current, highest>> /\ Interrupt(c)
      BY <2>1 DEF EnableScheduling, locked
    <3>3. toInterrupt'[c] = {}
      BY <1>1, <3>2, InterruptType
    <3> QED
      BY <3>1, <3>2, <3>3 DEF Told, ToldInv
  <2>2. CASE HandleInterrupt(c)
    <3>1. pc[c] = "run" /\ pc'[c] = "read"
      BY <1>1, <2>2, GotoFacts DEF HandleInterrupt
    <3>2. UNCHANGED toInterrupt
      BY <2>2 DEF HandleInterrupt
    <3> QED
      BY <3>1, <3>2 DEF Told, ToldInv
  <2>3. CASE ReadHighest(c)
    <3>0. UNCHANGED <<toInterrupt, current, highest>>
      BY <2>3 DEF ReadHighest, locked
    <3>1. CASE highest[c] = current[c] /\ Goto(c, "read", "run")
      <4>1. pc[c] = "read" /\ pc'[c] = "run"
        BY <1>1, <3>1, GotoFacts
      <4> QED
        BY <3>0, <3>1, <4>1 DEF Told, ToldInv
    <3>2. CASE Goto(c, "read", "lock") /\ next' = [next EXCEPT ![c] = highest[c]]
      <4>1. pc[c] = "read" /\ pc'[c] = "lock"
        BY <1>1, <3>2, GotoFacts
      <4>2. next'[c] = highest[c]
        BY <1>1, <3>2 DEF TypeOK
      <4> QED
        BY <3>0, <4>1, <4>2 DEF Told, ToldInv
    <3> QED
      BY <2>3, <3>1, <3>2 DEF ReadHighest
  <2>4. CASE LockContext(c)
    <3>1. pc[c] = "lock" /\ pc'[c] = "check"
      BY <1>1, <2>4, GotoFacts DEF LockContext
    <3>2. UNCHANGED <<toInterrupt, next, needs, highest>>
      BY <2>4 DEF LockContext, locked
    <3> QED
      BY <3>1, <3>2 DEF Told, ToldInv
  <2>5. CASE GiveUp(c)
    <3>1. pc[c] = "lock" /\ pc'[c] = "reread"
      BY <1>1, <2>5, GotoFacts DEF GiveUp
    <3>2. UNCHANGED toInterrupt
      BY <2>5 DEF GiveUp
    <3> QED
      BY <3>1, <3>2 DEF Told, ToldInv
  <2>6. CASE CheckSwitch(c)
    <3>1. pc[c] = "check" /\ pc'[c] = IF needs[c] THEN "reread" ELSE "run"
      BY <1>1, <2>6, GotoFacts DEF CheckSwitch
    <3>2. UNCHANGED <<toInterrupt, current, highest>>
      BY <2>6 DEF CheckSwitch, locked
    <3>3. current[c] = next[c]
      BY <3>1 DEF GuardInv
    <3> QED
      BY <3>1, <3>2, <3>3 DEF Told, ToldInv
  <2>7. CASE RereadHighest(c)
    <3>1. pc[c] = "reread" /\ pc'[c] = "lock"
      BY <1>1, <2>7, GotoFacts DEF RereadHighest
    <3>2. UNCHANGED <<toInterrupt, highest>> /\ next'[c] = highest[c]
      BY <1>1, <2>7 DEF RereadHighest, locked, TypeOK
    <3> QED
      BY <3>1, <3>2 DEF Told, ToldInv
  <2> QED
    BY <1>3, <2>1, <2>2, <2>3, <2>4, <2>5, <2>6, <2>7 DEF Unlocked
<1>4. CASE \E c \in Cores : Unlocked(c)
  BY <1>1, <1>3, <1>4, OthersTold
<1>5. CASE RescheduleCores
  <2>1. UNCHANGED <<pc, current, next, highest, needs>> /\ Interrupt(Host)
    BY <1>5 DEF RescheduleCores, locked
  <2>2. e # Host => toInterrupt'[e] = toInterrupt[e]
    BY <1>1, <2>1, InterruptType
  <2>3. interrupted[e] \/ Pending(e) => interrupted'[e] \/ Pending(e)'
    BY <1>1, <2>1, InterruptTells
  <2> QED
    BY <2>1, <2>2, <2>3, SchedulerAssumption DEF Told, ToldInv
<1>6. CASE (\E t \in Threads : FinishTermination(t)) \/ UNCHANGED vars
  <2>1. UNCHANGED <<pc, current, next, highest, needs, interrupted, toInterrupt>>
    BY <1>6 DEF FinishTermination, vars, locked
  <2> QED
    BY <2>1 DEF Told, ToldInv, Pending
<1> QED
  BY <1>2, <1>4, <1>5, <1>6 DEF Step

\* What QueueInv says of a core's choice.
Chosen == \A c \in Cores : highest[c] # NoThread => q.core[highest[c]] = c

\* A core takes up a thread that is the top of its queue, or goes on to read
\* its choice again.
LEMMA RunnersStep ==
  ASSUME SchedulerInv, Chosen, Step
  PROVE  RunnersHaveCores'
<1>1. QueueInv /\ TypeOK /\ GuardInv /\ ToldInv /\ RunnersHaveCores
  BY DEF SchedulerInv, QueueInv
<1> SUFFICES ASSUME NEW d \in Cores, pc'[d] = "run", current'[d] \in Threads
             PROVE  q'.core[current'[d]] \in Cores
  BY DEF RunnersHaveCores
<1>2. ASSUME NEW actor \in Cores \cup {Host}, LockedStep(actor) PROVE q'.core[current'[d]] \in Cores
  <2>1. /\ actor \in Cores => pc[actor] = "run"
        /\ d # actor /\ pc[d] = "run" /\ current' = current
        /\ \A t \in Threads : q.core[t] \in Cores => q'.core[t] \in Cores \/ IsCurrent(actor, t)
    BY <1>2 DEF LockedStep
  <2>2. ~IsCurrent(actor, current[d])
    BY <1>1, <2>1, SMT DEF IsCurrent, GuardInv, Has
  <2> QED
    BY <1>1, <2>1, <2>2 DEF RunnersHaveCores
<1>3. ASSUME NEW c \in Cores, Unlocked(c) PROVE q'.core[current'[d]] \in Cores
  <2>1. q' = q
    BY <1>1, <1>3, UnlockedType DEF locked
  <2>2. CASE d # c
    <3>1. \A from, to : Goto(c, from, to) => pc'[d] = pc[d]
      BY <1>1, <2>2 DEF Goto, TypeOK
    <3>2. pc[d] = "run"
      BY <1>3, <3>1 DEF Unlocked, EnableScheduling, HandleInterrupt, ReadHighest, LockContext, GiveUp,
                        CheckSwitch, RereadHighest
    <3>3. current'[d] = current[d]
      BY <1>1, <1>3, <2>2 DEF Unlocked, EnableScheduling, HandleInterrupt, ReadHighest, LockContext, GiveUp,
                              CheckSwitch, RereadHighest, TypeOK
    <3> QED
      BY <1>1, <2>1, <3>2, <3>3 DEF RunnersHaveCores
  <2>3. CASE d = c
    <3>1. \A from, to : Goto(c, from, to) => pc[c] = from /\ to = "run"
      BY <1>1, <2>3, GotoFacts
    <3>2. CASE EnableScheduling(c)
      <4>1. pc[c] = "ipi" /\ ~needs[c] /\ current' = current
        BY <3>1, <3>2, SMT DEF EnableScheduling
      <4> QED
        BY <1>1, <2>1, <2>3, <4>1, QueueAssumption, ZenonT(60) DEF Chosen, ToldInv, Told
    <3>3. CASE ReadHighest(c)
      <4>1. current[c] = highest[c] /\ current' = current
        BY <3>1, <3>3, SMT DEF ReadHighest
      <4> QED
        BY <1>1, <2>1, <2>3, <4>1, QueueAssumption DEF Chosen
    <3>4. CASE CheckSwitch(c)
      <4>1. pc[c] = "check" /\ ~needs[c] /\ current' = current
        BY <3>1, <3>4, SMT DEF CheckSwitch
      <4>2. current[c] = highest[c]
        BY <1>1, <4>1 DEF ToldInv, Told, GuardInv
      <4> QED
        BY <1>1, <2>1, <2>3, <4>1, <4>2, QueueAssumption DEF Chosen
    <3> QED
      BY <1>3, <3>1, <3>2, <3>3, <3>4, SMT DEF Unlocked, HandleInterrupt, LockContext, GiveUp, RereadHighest
  <2> QED
    BY <2>2, <2>3
<1>4. CASE RescheduleCores \/ (\E t \in Threads : FinishTermination(t)) \/ UNCHANGED vars
  <2>1. UNCHANGED <<q, pc, current>>
    BY <1>4 DEF RescheduleCores, FinishTermination, vars, locked
  <2> QED
    BY <1>1, <2>1 DEF RunnersHaveCores
<1> QED
  BY <1>1, <1>2, <1>3, <1>4 DEF Step
=============================================================================
