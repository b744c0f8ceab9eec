------------------------ MODULE KHardwareTimer_proofs ------------------------
(***************************************************************************)
(* Theorems about the timer, for any number of threads, any timeouts and   *)
(* any run of the clock: a task in the tree has its interrupt, the looping *)
(* event is in the queue exactly while it is scheduled, a pause is quiet,  *)
(* and the timer thread does not sleep past an event.                      *)
(*                                                                         *)
(* Zenon is the prover of every leaf that names no other.                  *)
(***************************************************************************)
EXTENDS KHardwareTimer, TLAPS, WellFoundedInduction

USE Zenon

SafetySpec == Init /\ [][Next]_vars

----------------------------------------------------------------------------
(* Numbers and sequences. *)

\* A set of natural numbers has a least element: every induction over numbers
\* in these proofs looks at the least counterexample.
LEMMA LeastNatural ==
  ASSUME NEW S, S \subseteq Nat, S # {}
  PROVE  \E m \in S : \A k \in S : m <= k
<1>1. PICK m \in S : \A k \in S : ~(<<k, m>> \in OpToRel(<, Nat))
  BY WFMin, NatLessThanWellFounded
<1>2. \A k \in S : ~(k < m)
  BY <1>1 DEF OpToRel
<1> QED
  BY <1>2, SMT

\* The first of some positions of a sequence is not before any other of them, and
\* no position before it is one of them.
LEMMA FirstOfFacts ==
  ASSUME NEW T, NEW s \in Seq(T), NEW some \in SUBSET (DOMAIN s)
  PROVE  /\ FirstOf(s, some) \in 1 .. Len(s) + 1
         /\ \A i \in 1 .. FirstOf(s, some) - 1 : i \in DOMAIN s \ some
         /\ \A i \in FirstOf(s, some) .. Len(s) : FirstOf(s, some) \in some /\ i \in DOMAIN s
<1>1. DOMAIN s = 1 .. Len(s) /\ Len(s) \in Nat
  BY SMT
<1>2. CASE some = {}
  BY <1>1, <1>2, SMT DEF FirstOf
<1>3. CASE some # {}
  <2>1. some \subseteq Nat
    BY <1>1, SMT
  <2>2. \E i \in some : \A j \in some : i <= j
    BY <1>3, <2>1, LeastNatural
  <2>3. FirstOf(s, some) \in some /\ \A j \in some : FirstOf(s, some) <= j
    BY <1>3, <2>2 DEF FirstOf
  <2> QED
    BY <1>1, <2>3, SMT
<1> QED
  BY <1>2, <1>3

\* Two sequences one behind the other.
LEMMA ConcatFacts ==
  ASSUME NEW T, NEW a \in Seq(T), NEW b \in Seq(T)
  PROVE  /\ a \o b \in Seq(T) /\ Len(a \o b) = Len(a) + Len(b)
         /\ \A i \in 1 .. Len(a) + Len(b) : (a \o b)[i] = IF i <= Len(a) THEN a[i] ELSE b[i - Len(a)]
BY SMT

\* Inserting into a sequence at a position.
LEMMA InsertAtFacts ==
  ASSUME NEW T, NEW s \in Seq(T), NEW k \in 1 .. Len(s) + 1, NEW e \in T
  PROVE  /\ InsertAt(s, k, e) \in Seq(T)
         /\ Len(InsertAt(s, k, e)) = Len(s) + 1
         /\ \A i \in 1 .. k - 1 : InsertAt(s, k, e)[i] = s[i]
         /\ InsertAt(s, k, e)[k] = e
         /\ \A i \in k .. Len(s) : InsertAt(s, k, e)[i + 1] = s[i]
<1> DEFINE a == SubSeq(s, 1, k - 1)
           b == SubSeq(s, k, Len(s))
           ae == a \o <<e>>
           r == InsertAt(s, k, e)
<1>0. r = ae \o b
  BY DEF InsertAt
<1>1. a \in Seq(T) /\ Len(a) = k - 1 /\ \A i \in 1 .. k - 1 : a[i] = s[i]
  BY SMTT(30)
<1>2. b \in Seq(T) /\ Len(b) = Len(s) - k + 1 /\ \A i \in 1 .. Len(s) - k + 1 : b[i] = s[k + i - 1]
  BY SMTT(30)
<1> HIDE DEF a, b, r
<1>3. ae \in Seq(T) /\ Len(ae) = k /\ ae[k] = e /\ \A i \in 1 .. k - 1 : ae[i] = s[i]
  BY <1>1, SMTT(30)
<1> HIDE DEF ae
<1>4. /\ r \in Seq(T) /\ Len(r) = Len(ae) + Len(b)
      /\ \A i \in 1 .. Len(ae) + Len(b) : r[i] = IF i <= Len(ae) THEN ae[i] ELSE b[i - Len(ae)]
  BY <1>0, <1>2, <1>3, ConcatFacts
<1>5. r[k] = e /\ \A i \in 1 .. k - 1 : r[i] = s[i]
  BY <1>2, <1>3, <1>4, SMT
<1>6. ASSUME NEW i \in k .. Len(s) PROVE r[i + 1] = s[i]
  <2>1. i + 1 \in 1 .. Len(ae) + Len(b) /\ ~(i + 1 <= Len(ae)) /\ i + 1 - Len(ae) \in 1 .. Len(s) - k + 1
        /\ k + (i + 1 - Len(ae)) - 1 = i
    BY <1>2, <1>3, SMT
  <2>2. r[i + 1] = b[i + 1 - Len(ae)]
    BY <1>4, <2>1, SMT
  <2> QED
    BY <1>2, <2>1, <2>2
<1>7. Len(r) = Len(s) + 1
  BY <1>2, <1>3, <1>4, SMT
<1> QED
  BY <1>4, <1>5, <1>6, <1>7 DEF r

\* Two elements of s with e inserted at k: both are in s, or one is e.
IsInserted(r, s, k, e) ==
  \A x, y \in DOMAIN r : x < y =>
    \/ \E a, b \in DOMAIN s : a < b /\ r[x] = s[a] /\ r[y] = s[b]
    \/ r[y] = e /\ \E a \in 1 .. k - 1 : r[x] = s[a]
    \/ r[x] = e /\ \E b \in k .. Len(s) : r[y] = s[b]

\* What InsertAt returns.
LEMMA InsertInOrder ==
  ASSUME NEW T, NEW s \in Seq(T), NEW k \in 1 .. Len(s) + 1, NEW e \in T, NEW r, r = InsertAt(s, k, e)
  PROVE  /\ r \in Seq(T) /\ r # <<>>
         /\ Range(r) = Range(s) \cup {e} /\ IsInserted(r, s, k, e)
         /\ Head(r) = IF k = 1 THEN e ELSE s[1]
<1>1. /\ r \in Seq(T) /\ Len(r) = Len(s) + 1
      /\ (\A i \in 1 .. k - 1 : r[i] = s[i]) /\ r[k] = e /\ \A i \in k .. Len(s) : r[i + 1] = s[i]
  BY InsertAtFacts, SMT
<1>2. DOMAIN r = 1 .. Len(s) + 1 /\ DOMAIN s = 1 .. Len(s) /\ Len(s) \in Nat /\ k \in DOMAIN r
  BY <1>1, SMT
<1>3. ASSUME NEW i \in 1 .. Len(s) + 1
      PROVE  \/ i < k /\ i \in 1 .. k - 1 /\ i \in 1 .. Len(s) /\ r[i] = s[i]
             \/ i = k /\ r[i] = e
             \/ i > k /\ i - 1 \in k .. Len(s) /\ i - 1 \in 1 .. Len(s) /\ r[i] = s[i - 1]
  <2>1. CASE i < k
    <3>1. i \in 1 .. k - 1 /\ i \in 1 .. Len(s)
      BY <1>2, <2>1, SMT
    <3> QED
      BY <1>1, <2>1, <3>1
  <2>2. CASE i > k
    <3>1. i - 1 \in k .. Len(s) /\ i - 1 \in 1 .. Len(s) /\ (i - 1) + 1 = i
      BY <1>2, <2>2, SMT
    <3> QED
      BY <1>1, <2>2, <3>1
  <2>3. i < k \/ i = k \/ i > k
    BY <1>2, SMT
  <2> QED
    BY <1>1, <2>1, <2>2, <2>3
<1>4. ASSUME NEW x \in DOMAIN r, NEW y \in DOMAIN r, x < y
      PROVE  \/ \E a, b \in DOMAIN s : a < b /\ r[x] = s[a] /\ r[y] = s[b]
             \/ r[y] = e /\ \E a \in 1 .. k - 1 : r[x] = s[a]
             \/ r[x] = e /\ \E b \in k .. Len(s) : r[y] = s[b]
  <2>0. x \in 1 .. Len(s) + 1 /\ y \in 1 .. Len(s) + 1
    BY <1>2
  <2>1. CASE y < k
    <3>1. x < k
      BY <1>2, <1>4, <2>0, <2>1, SMT
    <3>2. x \in DOMAIN s /\ y \in DOMAIN s /\ r[x] = s[x] /\ r[y] = s[y]
      <4>1. ~(x > k) /\ ~(y > k) /\ x # k /\ y # k
        BY <1>2, <2>0, <2>1, <3>1, SMT
      <4> QED
        BY <1>2, <1>3, <2>0, <4>1
    <3> QED
      BY <1>4, <3>2
  <2>2. CASE y = k
    <3>1. x < k /\ ~(x > k) /\ x # k
      BY <1>2, <1>4, <2>0, <2>2, SMT
    <3> QED
      BY <1>1, <1>3, <2>0, <2>2, <3>1
  <2>3. CASE y > k
    <3>1. y - 1 \in k .. Len(s) /\ y - 1 \in DOMAIN s /\ r[y] = s[y - 1]
      <4>1. ~(y < k) /\ y # k
        BY <1>2, <2>0, <2>3, SMT
      <4> QED
        BY <1>2, <1>3, <2>0, <4>1
    <3>2. CASE x < k
      <4>1. ~(x > k) /\ x # k /\ x < y - 1
        BY <1>2, <2>0, <2>3, <3>2, SMT
      <4>2. x \in DOMAIN s /\ r[x] = s[x]
        BY <1>2, <1>3, <2>0, <4>1
      <4> QED
        BY <3>1, <4>1, <4>2
    <3>3. CASE x = k
      BY <1>1, <3>1, <3>3
    <3>4. CASE x > k
      <4>1. ~(x < k) /\ x # k /\ x - 1 < y - 1
        BY <1>2, <1>4, <2>0, <3>4, SMT
      <4>2. x - 1 \in DOMAIN s /\ r[x] = s[x - 1]
        BY <1>2, <1>3, <2>0, <4>1
      <4> QED
        BY <3>1, <4>1, <4>2
    <3>5. x < k \/ x = k \/ x > k
      BY <1>2, <2>0, SMT
    <3> QED
      BY <3>2, <3>3, <3>4, <3>5
  <2>4. y < k \/ y = k \/ y > k
    BY <1>2, <2>0, SMT
  <2> QED
    BY <2>1, <2>2, <2>3, <2>4
<1>5. Range(r) = Range(s) \cup {e}
  <2>1. ASSUME NEW i \in 1 .. Len(s) PROVE \E j \in DOMAIN r : r[j] = s[i]
    <3>1. CASE i < k
      <4>1. i \in 1 .. k - 1 /\ i \in DOMAIN r
        BY <1>2, <3>1, SMT
      <4> QED
        BY <1>1, <4>1
    <3>2. CASE ~(i < k)
      <4>1. i \in k .. Len(s) /\ i + 1 \in DOMAIN r
        BY <1>2, <3>2, SMT
      <4> QED
        BY <1>1, <4>1
    <3> QED
      BY <3>1, <3>2
  <2>2. ASSUME NEW i \in DOMAIN r PROVE r[i] = e \/ \E j \in DOMAIN s : r[i] = s[j]
    BY <1>2, <1>3
  <2> QED
    <3>1. \A i \in DOMAIN s : s[i] \in Range(r)
      BY <1>2, <2>1 DEF Range
    <3>2. \A i \in DOMAIN r : r[i] \in Range(s) \cup {e}
      BY <2>2 DEF Range
    <3>3. e \in Range(r)
      BY <1>1, <1>2 DEF Range
    <3> QED
      BY <3>1, <3>2, <3>3 DEF Range
<1>6. r # <<>>
  BY <1>1, <1>2, SMT
<1>7. IsInserted(r, s, k, e)
  BY <1>4 DEF IsInserted
<1>8. Head(r) = IF k = 1 THEN e ELSE s[1]
  <2>1. Head(r) = r[1]
    BY <1>1, <1>6, SMT
  <2>2. k # 1 => 1 \in 1 .. k - 1
    BY <1>2, SMT
  <2> QED
    BY <1>1, <2>1, <2>2
<1> QED
  BY <1>1, <1>5, <1>6, <1>7, <1>8

\* r holds the elements of s that are not at a position from i up to j, in the
\* order they have there.
IsErased(r, s, i, j) ==
  /\ \A x, y \in DOMAIN r : x < y => \E a, b \in DOMAIN s : a < b /\ r[x] = s[a] /\ r[y] = s[b]
  /\ \A x \in DOMAIN r : \E y \in DOMAIN s \ (i .. j - 1) : r[x] = s[y]
  /\ \A y \in DOMAIN s \ (i .. j - 1) : \E x \in DOMAIN r : r[x] = s[y]
  /\ r = <<>> <=> i = 1 /\ j = Len(s) + 1
  /\ r # <<>> => Head(r) = IF i = 1 THEN s[j] ELSE s[1]

\* What Erase returns.
LEMMA EraseInOrder ==
  ASSUME NEW T, NEW s \in Seq(T), NEW i \in 1 .. Len(s) + 1, NEW j \in i .. Len(s) + 1,
         NEW r, r = Erase(s, i, j)
  PROVE  r \in Seq(T) /\ IsErased(r, s, i, j)
<1>1. /\ r \in Seq(T) /\ Len(r) = Len(s) - (j - i)
      /\ \A x \in 1 .. i - 1 : r[x] = s[x]
      /\ \A x \in i .. Len(r) : x + (j - i) \in j .. Len(s) /\ r[x] = s[x + (j - i)]
  <2> DEFINE a == SubSeq(s, 1, i - 1)
             b == SubSeq(s, j, Len(s))
  <2>0. r = a \o b
    BY DEF Erase
  <2>1. a \in Seq(T) /\ Len(a) = i - 1 /\ \A x \in 1 .. i - 1 : a[x] = s[x]
    BY SMTT(30)
  <2>2. b \in Seq(T) /\ Len(b) = Len(s) - j + 1 /\ \A x \in 1 .. Len(s) - j + 1 : b[x] = s[j + x - 1]
    BY SMTT(30)
  <2> HIDE DEF a, b
  <2>a. /\ a \o b \in Seq(T) /\ Len(a \o b) = Len(a) + Len(b)
        /\ \A x \in 1 .. Len(a) + Len(b) : (a \o b)[x] = IF x <= Len(a) THEN a[x] ELSE b[x - Len(a)]
    BY <2>1, <2>2, ConcatFacts
  <2>3. /\ r \in Seq(T) /\ Len(r) = Len(a) + Len(b)
        /\ \A x \in 1 .. Len(a) + Len(b) : r[x] = IF x <= Len(a) THEN a[x] ELSE b[x - Len(a)]
    BY <2>0, <2>a
  <2>4. Len(r) = Len(s) - (j - i)
    BY <2>1, <2>2, <2>3, SMT
  <2>5. ASSUME NEW x \in 1 .. i - 1 PROVE r[x] = s[x]
    <3>1. x \in 1 .. Len(a) + Len(b) /\ x <= Len(a)
      BY <2>1, <2>2, SMT
    <3> QED
      BY <2>1, <2>3, <3>1
  <2>6. ASSUME NEW x \in i .. Len(r) PROVE x + (j - i) \in j .. Len(s) /\ r[x] = s[x + (j - i)]
    <3>1. /\ x \in 1 .. Len(a) + Len(b) /\ ~(x <= Len(a)) /\ x - Len(a) \in 1 .. Len(s) - j + 1
          /\ j + (x - Len(a)) - 1 = x + (j - i) /\ x + (j - i) \in j .. Len(s)
      BY <2>1, <2>2, <2>4, SMT
    <3>2. r[x] = b[x - Len(a)]
      BY <2>3, <3>1
    <3> QED
      BY <2>2, <3>1, <3>2
  <2> QED
    BY <2>3, <2>4, <2>5, <2>6
<1>2. /\ DOMAIN r = 1 .. Len(r) /\ DOMAIN s = 1 .. Len(s)
      /\ {Len(s), Len(r)} \subseteq Nat /\ {i, j} \subseteq Nat /\ j - i \in Nat
  BY <1>1, SMT
<1> DEFINE At(x) == IF x < i THEN x ELSE x + (j - i)
<1>3. \A x \in 1 .. Len(r) : At(x) \in 1 .. Len(s) /\ At(x) \notin i .. j - 1
  BY <1>1, <1>2, SMT
<1>4. ASSUME NEW x \in 1 .. Len(r) PROVE r[x] = s[At(x)]
  <2>1. x \in 1 .. i - 1 \/ x \in i .. Len(r)
    BY <1>2, SMT
  <2>2. x \in 1 .. i - 1 => x < i
    BY <1>2, SMT
  <2>3. x \in i .. Len(r) => ~(x < i)
    BY <1>2, SMT
  <2> QED
    BY <1>1, <2>1, <2>2, <2>3
<1>5. \A x, y \in 1 .. Len(r) : x < y => At(x) < At(y)
  BY <1>2, SMT
<1>6. ASSUME NEW y \in 1 .. Len(s), y \notin i .. j - 1 PROVE \E x \in 1 .. Len(r) : At(x) = y
  <2>1. CASE y < i
    <3>1. y \in 1 .. Len(r)
      BY <1>1, <1>2, <2>1, SMT
    <3> QED
      BY <2>1, <3>1
  <2>2. CASE ~(y < i)
    <3>1. y - (j - i) \in 1 .. Len(r) /\ ~(y - (j - i) < i) /\ (y - (j - i)) + (j - i) = y
      BY <1>1, <1>2, <1>6, <2>2, SMT
    <3> QED
      BY <3>1
  <2> QED
    BY <2>1, <2>2
<1> HIDE DEF At
<1> QED
  <2>1. ASSUME NEW x \in DOMAIN r, NEW y \in DOMAIN r, x < y
        PROVE  \E a, b \in DOMAIN s : a < b /\ r[x] = s[a] /\ r[y] = s[b]
    <3>1. At(x) \in DOMAIN s /\ At(y) \in DOMAIN s /\ At(x) < At(y) /\ r[x] = s[At(x)] /\ r[y] = s[At(y)]
      BY <1>2, <1>3, <1>4, <1>5, <2>1
    <3> QED
      BY <3>1
  <2>2. \A x \in DOMAIN r : \E y \in DOMAIN s \ (i .. j - 1) : r[x] = s[y]
    BY <1>2, <1>3, <1>4
  <2>3. ASSUME NEW y \in DOMAIN s \ (i .. j - 1) PROVE \E x \in DOMAIN r : r[x] = s[y]
    <3>1. PICK x \in 1 .. Len(r) : At(x) = y
      BY <1>2, <1>6
    <3> QED
      BY <1>2, <1>4, <3>1
  <2>5. r = <<>> <=> i = 1 /\ j = Len(s) + 1
    BY <1>1, <1>2, SMT
  <2>6. ASSUME r # <<>> PROVE Head(r) = IF i = 1 THEN s[j] ELSE s[1]
    <3>1. Head(r) = r[1] /\ 1 \in 1 .. Len(r)
      BY <1>1, <2>6, SMT
    <3>2. At(1) = IF i = 1 THEN j ELSE 1
      BY <1>2, SMT DEF At
    <3> QED
      BY <1>4, <3>1, <3>2
  <2>7. IsErased(r, s, i, j)
    BY <2>1, <2>2, <2>3, <2>5, <2>6 DEF IsErased
  <2> QED
    BY <1>1, <2>7

\* The loop of Without.
LEMMA WithoutUnfold ==
  ASSUME NEW q, NEW type, Len(q) \in Nat
  PROVE  \E f : /\ f[0] = <<>> /\ f[Len(q)] = Without(q, type)
                /\ \A i \in 1 .. Len(q) :
                     f[i] = IF q[i].type = type THEN f[i - 1] ELSE Append(f[i - 1], q[i])
<1> DEFINE N == Len(q)
           Body(g, i) == IF i = 0 THEN <<>>
                         ELSE IF q[i].type = type THEN g[i - 1] ELSE Append(g[i - 1], q[i])
           Solves(g, k) == g = [i \in 0 .. k |-> Body(g, i)]
           bad == {k \in 0 .. N : ~\E g : Solves(g, k)}
<1>0. N \in Nat
  OBVIOUS
<1> HIDE DEF N
<1>1. bad = {}
  <2> SUFFICES ASSUME bad # {} PROVE FALSE
    OBVIOUS
  <2>1. PICK m \in bad : \A k \in bad : m <= k
    <3>1. bad \subseteq Nat
      BY <1>0, SMT
    <3> QED
      BY <3>1, LeastNatural
  <2>2. m \in 0 .. N /\ ~\E g : Solves(g, m)
    OBVIOUS
  <2>3. CASE m = 0
    <3>1. PICK g : g = [n \in 0 .. 0 |-> <<>>]
      OBVIOUS
    <3>2. Solves(g, 0)
      BY <3>1, SMT
    <3> QED
      BY <2>2, <2>3, <3>2
  <2>4. CASE m # 0
    <3>0. m \in Nat /\ m > 0 /\ m - 1 \in 0 .. N
      BY <1>0, <2>2, <2>4, SMT
    <3>1. m - 1 \notin bad
      <4>1. ~(m <= m - 1)
        BY <3>0, SMT
      <4> QED
        BY <2>1, <4>1
    <3>2. PICK g : Solves(g, m - 1)
      BY <3>0, <3>1
    <3>3. PICK h : h = [n \in 0 .. m |-> IF n = m THEN Body(g, m) ELSE g[n]]
      OBVIOUS
    <3>4. \A n \in 0 .. m : n # m => n \in 0 .. m - 1
      BY <3>0, SMT
    <3>5. \A n \in 0 .. m - 1 : g[n] = Body(g, n)
      BY <3>2
    <3>6. \A n \in 0 .. m : n # 0 => n - 1 \in 0 .. m /\ n - 1 # m
      BY <3>0, SMT
    <3>7. \A n \in 0 .. m : n # 0 => h[n - 1] = g[n - 1]
      BY <3>3, <3>6
    <3>8. \A n \in 0 .. m : Body(h, n) = Body(g, n)
      BY <3>7
    <3>9. \A n \in 0 .. m : h[n] = Body(g, n)
      BY <3>3, <3>4, <3>5
    <3>10. Solves(h, m)
      BY <3>3, <3>8, <3>9
    <3> QED
      BY <2>2, <3>10
  <2> QED
    BY <2>3, <2>4
<1>2. \E g : Solves(g, N)
  <2>1. N \in 0 .. N
    BY <1>0, SMT
  <2> QED
    BY <1>1, <2>1
<1>3. PICK f : f = CHOOSE g : Solves(g, N)
  OBVIOUS
<1>4. Solves(f, N)
  BY <1>2, <1>3
<1>5. f[0] = <<>>
  BY <1>0, <1>4, SMT
<1>6. ASSUME NEW i \in 1 .. N
      PROVE  f[i] = IF q[i].type = type THEN f[i - 1] ELSE Append(f[i - 1], q[i])
  <2>1. i \in 0 .. N /\ i # 0
    BY <1>0, SMT
  <2>2. f[i] = Body(f, i)
    BY <1>4, <2>1
  <2> QED
    BY <2>1, <2>2
<1>7. f[N] = Without(q, type)
  BY <1>3 DEF Without, N
<1> QED
  BY <1>5, <1>6, <1>7 DEF N

\* r holds the events of the first n of q that have another type, in their order.
IsWithout(r, q, n, type) ==
  /\ \A x \in DOMAIN r : \E a \in 1 .. n : q[a].type # type /\ r[x] = q[a]
  /\ \A a \in 1 .. n : q[a].type # type => \E x \in DOMAIN r : r[x] = q[a]
  /\ \A x, y \in DOMAIN r : x < y => \E a, b \in 1 .. n : a < b /\ r[x] = q[a] /\ r[y] = q[b]

\* One step of that loop.
LEMMA WithoutStep ==
  ASSUME NEW T, NEW q \in Seq(T), NEW type, NEW n \in 1 .. Len(q), NEW p \in Seq(T),
         IsWithout(p, q, n - 1, type),
         NEW r, r = IF q[n].type = type THEN p ELSE Append(p, q[n])
  PROVE  r \in Seq(T) /\ IsWithout(r, q, n, type)
<1>1. /\ \A a \in 1 .. n - 1 : a \in 1 .. n /\ a < n
      /\ \A a \in 1 .. n : a = n \/ a \in 1 .. n - 1
      /\ n \in 1 .. n /\ Len(q) \in Nat
  BY SMT
<1>2. CASE q[n].type = type
  <2>1. r = p
    BY <1>2
  <2>2. \A x \in DOMAIN p : \E a \in 1 .. n : q[a].type # type /\ p[x] = q[a]
    BY <1>1 DEF IsWithout
  <2>3. \A a \in 1 .. n : q[a].type # type => \E x \in DOMAIN p : p[x] = q[a]
    BY <1>1, <1>2 DEF IsWithout
  <2>4. ASSUME NEW x \in DOMAIN p, NEW y \in DOMAIN p, x < y
        PROVE  \E a, b \in 1 .. n : a < b /\ p[x] = q[a] /\ p[y] = q[b]
    <3>1. PICK a \in 1 .. n - 1, b \in 1 .. n - 1 : a < b /\ p[x] = q[a] /\ p[y] = q[b]
      BY <2>4 DEF IsWithout
    <3> QED
      BY <1>1, <3>1
  <2>5. IsWithout(p, q, n, type)
    BY <2>2, <2>3, <2>4 DEF IsWithout
  <2> QED
    BY <2>1, <2>5
<1>3. CASE q[n].type # type
  <2>1. r = Append(p, q[n]) /\ q[n] \in T
    BY <1>3, SMT
  <2>2. r \in Seq(T) /\ Len(r) = Len(p) + 1
    BY <2>1, SMT
  <2>3. DOMAIN r = 1 .. Len(p) + 1 /\ DOMAIN p = 1 .. Len(p) /\ Len(p) \in Nat
    BY <2>2, SMT
  <2>4. r[Len(p) + 1] = q[n] /\ \A x \in 1 .. Len(p) : r[x] = p[x]
    BY <2>1, SMT
  <2>5. /\ \A x \in DOMAIN r : x = Len(p) + 1 \/ x \in DOMAIN p
        /\ Len(p) + 1 \in DOMAIN r
        /\ \A x \in DOMAIN p : x \in DOMAIN r
        /\ \A x, y \in DOMAIN r : x < y => x \in DOMAIN p
    BY <2>3, SMT
  <2>6. ASSUME NEW x \in DOMAIN r PROVE \E a \in 1 .. n : q[a].type # type /\ r[x] = q[a]
    <3>1. CASE x = Len(p) + 1
      BY <1>1, <1>3, <2>4, <3>1
    <3>2. CASE x \in DOMAIN p
      <4>1. PICK a \in 1 .. n - 1 : q[a].type # type /\ p[x] = q[a]
        BY <3>2 DEF IsWithout
      <4> QED
        BY <1>1, <2>3, <2>4, <3>2, <4>1
    <3> QED
      BY <2>5, <3>1, <3>2
  <2>7. ASSUME NEW a \in 1 .. n, q[a].type # type PROVE \E x \in DOMAIN r : r[x] = q[a]
    <3>1. CASE a = n
      BY <2>4, <2>5, <3>1
    <3>2. CASE a \in 1 .. n - 1
      <4>1. PICK x \in DOMAIN p : p[x] = q[a]
        BY <2>7, <3>2 DEF IsWithout
      <4> QED
        BY <2>3, <2>4, <2>5, <4>1
    <3> QED
      BY <1>1, <3>1, <3>2
  <2>8. ASSUME NEW x \in DOMAIN r, NEW y \in DOMAIN r, x < y
        PROVE  \E a, b \in 1 .. n : a < b /\ r[x] = q[a] /\ r[y] = q[b]
    <3>1. x \in DOMAIN p /\ r[x] = p[x]
      BY <2>3, <2>4, <2>5, <2>8
    <3>2. CASE y = Len(p) + 1
      <4>1. PICK a \in 1 .. n - 1 : p[x] = q[a]
        BY <3>1 DEF IsWithout
      <4>2. a \in 1 .. n /\ a < n /\ n \in 1 .. n /\ r[x] = q[a] /\ r[y] = q[n]
        BY <1>1, <2>4, <3>1, <3>2, <4>1
      <4> QED
        BY <4>2
    <3>3. CASE y \in DOMAIN p
      <4>1. PICK a \in 1 .. n - 1, b \in 1 .. n - 1 : a < b /\ p[x] = q[a] /\ p[y] = q[b]
        BY <2>8, <3>1, <3>3 DEF IsWithout
      <4>2. r[y] = p[y]
        BY <2>3, <2>4, <3>3
      <4> QED
        BY <1>1, <3>1, <4>1, <4>2
    <3> QED
      BY <2>5, <3>2, <3>3
  <2> QED
    BY <2>2, <2>6, <2>7, <2>8 DEF IsWithout
<1> QED
  BY <1>2, <1>3

\* Without leaves the events of other types, in their order.
LEMMA WithoutFacts ==
  ASSUME NEW T, NEW q \in Seq(T), NEW type, NEW r, r = Without(q, type)
  PROVE  r \in Seq(T) /\ IsWithout(r, q, Len(q), type)
<1>0. Len(q) \in Nat
  BY SMT
<1>1. PICK f : /\ f[0] = <<>> /\ f[Len(q)] = Without(q, type)
               /\ \A i \in 1 .. Len(q) :
                    f[i] = IF q[i].type = type THEN f[i - 1] ELSE Append(f[i - 1], q[i])
  BY <1>0, WithoutUnfold, SMT
<1> DEFINE Good(i) == f[i] \in Seq(T) /\ IsWithout(f[i], q, i, type)
           bad == {i \in 0 .. Len(q) : ~Good(i)}
<1>2. bad = {}
  <2> SUFFICES ASSUME bad # {} PROVE FALSE
    OBVIOUS
  <2>1. PICK m \in bad : \A k \in bad : m <= k
    <3>1. bad \subseteq Nat
      BY <1>0, SMT
    <3> QED
      BY <3>1, LeastNatural
  <2>2. m \in 0 .. Len(q) /\ ~Good(m)
    OBVIOUS
  <2>3. CASE m = 0
    <3>1. f[0] \in Seq(T) /\ DOMAIN f[0] = {} /\ 1 .. 0 = {}
      BY <1>1, SMT
    <3>2. Good(0)
      BY <3>1 DEF IsWithout
    <3> QED
      BY <2>2, <2>3, <3>2
  <2>4. CASE m # 0
    <3>0. m \in 1 .. Len(q) /\ m - 1 \in 0 .. Len(q) /\ ~(m <= m - 1)
      BY <1>0, <2>2, <2>4, SMT
    <3>1. Good(m - 1)
      BY <2>1, <3>0
    <3>2. f[m] = IF q[m].type = type THEN f[m - 1] ELSE Append(f[m - 1], q[m])
      BY <1>1, <3>0
    <3>3. Good(m)
      BY <3>0, <3>1, <3>2, WithoutStep
    <3> QED
      BY <2>2, <3>3
  <2> QED
    BY <2>3, <2>4
<1>3. Good(Len(q))
  <2>1. Len(q) \in 0 .. Len(q)
    BY <1>0, SMT
  <2> QED
    BY <1>2, <2>1
<1> QED
  BY <1>1, <1>3

----------------------------------------------------------------------------
(* The queue of CoreTiming. *)

\* The events that it may hold.
Events ==
  {e \in [time : 1 .. MaxTime + Period, type : {TimerEvent, LoopingEvent}, period : {0, Period}] :
     e.period = 0 <=> e.type = TimerEvent}

\* They are in the order of time, and no two of them are of one type.
Ordered(q) ==
  \A i, j \in DOMAIN q : i < j => q[i].time <= q[j].time /\ q[i].type # q[j].type

RightQueue(q) == q \in Seq(Events) /\ Ordered(q)

\* The fields of an event.
LEMMA EventFields ==
  ASSUME NEW e \in Events
  PROVE  /\ e.time \in 1 .. MaxTime + Period /\ e.time \in Nat
         /\ e.type \in {TimerEvent, LoopingEvent}
         /\ e.period = 0 <=> e.type = TimerEvent
<1>1. e.time \in 1 .. MaxTime + Period /\ e.type \in {TimerEvent, LoopingEvent} /\ (e.period = 0 <=> e.type = TimerEvent)
  BY DEF Events
<1> QED
  BY <1>1, TimingAssumption, SMT

\* What the elements of a sequence are.
LEMMA SeqFacts ==
  ASSUME NEW T, NEW s \in Seq(T)
  PROVE  /\ Len(s) \in Nat /\ DOMAIN s = 1 .. Len(s)
         /\ \A i \in DOMAIN s : s[i] \in T /\ s[i] \in Range(s)
         /\ \A x \in Range(s) : x \in T /\ \E i \in DOMAIN s : s[i] = x
         /\ s # <<>> => 1 \in DOMAIN s /\ Head(s) = s[1] /\ \A i \in DOMAIN s : i = 1 \/ 1 < i
<1>1. Len(s) \in Nat /\ DOMAIN s = 1 .. Len(s) /\ \A i \in 1 .. Len(s) : s[i] \in T
  BY SMT
<1>2. s # <<>> => 1 \in 1 .. Len(s) /\ Head(s) = s[1]
  BY SMT
<1>3. \A i \in 1 .. Len(s) : i = 1 \/ 1 < i
  BY <1>1, SMT
<1> QED
  BY <1>1, <1>2, <1>3 DEF Range

\* An event is put behind those of its time or an earlier one.
LEMMA EmplaceFacts ==
  ASSUME NEW q, RightQueue(q), NEW e \in Events, \A x \in Range(q) : x.type # e.type,
         NEW r, r = Emplace(q, e)
  PROVE  RightQueue(r) /\ r # <<>> /\ Range(r) = Range(q) \cup {e}
<1> DEFINE later == {i \in DOMAIN q : q[i].time > e.time}
           k == FirstOf(q, later)
<1>1. q \in Seq(Events) /\ Ordered(q)
  BY DEF RightQueue
<1>2. /\ Len(q) \in Nat /\ DOMAIN q = 1 .. Len(q)
      /\ \A i \in DOMAIN q : q[i] \in Events /\ q[i] \in Range(q)
  BY <1>1, SeqFacts
<1>3. /\ k \in 1 .. Len(q) + 1
      /\ \A i \in 1 .. k - 1 : i \in DOMAIN q \ later
      /\ \A i \in k .. Len(q) : k \in later /\ i \in DOMAIN q
  <2>1. later \in SUBSET DOMAIN q
    OBVIOUS
  <2> HIDE DEF later
  <2> QED
    BY <1>1, <2>1, FirstOfFacts
<1>4. r = InsertAt(q, k, e)
  BY DEF Emplace
<1>5. e.time \in Nat /\ \A i \in DOMAIN q : q[i].time \in Nat
  BY <1>2, EventFields
<1>6. \A i \in 1 .. k - 1 : i \in DOMAIN q /\ q[i].time <= e.time
  <2>1. \A i \in DOMAIN q : ~(q[i].time > e.time) => q[i].time <= e.time
    BY <1>5, SMT
  <2> QED
    BY <1>3, <2>1
<1>7. ASSUME NEW i \in k .. Len(q) PROVE i \in DOMAIN q /\ e.time <= q[i].time
  <2>1. k \in DOMAIN q /\ q[k].time > e.time /\ i \in DOMAIN q
    BY <1>3
  <2>2. i = k \/ k < i
    BY <1>2, <1>3, SMT
  <2>3. q[k].time <= q[i].time
    <3>1. CASE i = k
      BY <1>5, <2>1, <3>1, SMT
    <3>2. CASE k < i
      BY <1>1, <2>1, <3>2 DEF Ordered
    <3> QED
      BY <2>2, <3>1, <3>2
  <2> QED
    BY <1>5, <2>1, <2>3, SMT
<1> HIDE DEF k
<1>8. r \in Seq(Events) /\ r # <<>> /\ Range(r) = Range(q) \cup {e} /\ IsInserted(r, q, k, e)
  <2>1. q \in Seq(Events) /\ k \in 1 .. Len(q) + 1 /\ e \in Events
    BY <1>1, <1>3
  <2> QED
    BY ONLY <1>4, <2>1, InsertInOrder, SMT
<1>9. ASSUME NEW x \in DOMAIN r, NEW y \in DOMAIN r, x < y
      PROVE  r[x].time <= r[y].time /\ r[x].type # r[y].type
  <2>1. CASE \E a, b \in DOMAIN q : a < b /\ r[x] = q[a] /\ r[y] = q[b]
    BY <1>1, <2>1 DEF Ordered
  <2>2. CASE r[y] = e /\ \E a \in 1 .. k - 1 : r[x] = q[a]
    BY <1>2, <1>6, <2>2
  <2>3. CASE r[x] = e /\ \E b \in k .. Len(q) : r[y] = q[b]
    BY <1>2, <1>7, <2>3
  <2> QED
    BY <1>8, <1>9, <2>1, <2>2, <2>3 DEF IsInserted
<1> QED
  BY <1>8, <1>9 DEF RightQueue, Ordered

\* The first event is the earliest.
LEMMA HeadIsFirst ==
  ASSUME NEW q, RightQueue(q), q # <<>>
  PROVE  Head(q) \in Range(q) /\ Head(q) \in Events /\ \A x \in Range(q) : Head(q).time <= x.time
<1>1. q \in Seq(Events) /\ Ordered(q)
  BY DEF RightQueue
<1>2. /\ Len(q) \in Nat /\ DOMAIN q = 1 .. Len(q)
      /\ \A i \in DOMAIN q : q[i] \in Events /\ q[i] \in Range(q)
      /\ \A x \in Range(q) : x \in Events /\ \E i \in DOMAIN q : q[i] = x
      /\ 1 \in DOMAIN q /\ Head(q) = q[1] /\ \A i \in DOMAIN q : i = 1 \/ 1 < i
  BY <1>1, SeqFacts
<1>3. q[1].time \in Nat
  BY <1>2, EventFields
<1>4. q[1].time <= q[1].time
  BY <1>3, SMT
<1>5. \A i \in DOMAIN q : q[1].time <= q[i].time
  BY <1>1, <1>2, <1>4 DEF Ordered
<1>6. ASSUME NEW x \in Range(q) PROVE Head(q).time <= x.time
  <2>1. PICK i \in DOMAIN q : q[i] = x
    BY <1>2
  <2> QED
    BY <1>2, <1>5, <2>1
<1>7. Head(q) \in Range(q) /\ Head(q) \in Events
  <2>1. q[1] \in Range(q) /\ q[1] \in Events /\ Head(q) = q[1]
    BY <1>2
  <2> QED
    BY ONLY <2>1, Zenon
<1> QED
  BY <1>6, <1>7

\* A queue without the events of a type.
LEMMA IsWithoutQueue ==
  ASSUME NEW q, RightQueue(q), NEW type, NEW r \in Seq(Events), IsWithout(r, q, Len(q), type)
  PROVE  /\ RightQueue(r) /\ Range(r) = {x \in Range(q) : x.type # type}
         /\ r # <<>> => q # <<>> /\ Head(q).time <= Head(r).time
<1>1. q \in Seq(Events) /\ Ordered(q) /\ DOMAIN q = 1 .. Len(q)
  BY SeqFacts DEF RightQueue
<1>2. r \in Seq(Events) /\ IsWithout(r, q, Len(q), type)
  OBVIOUS
<1>3. RightQueue(r)
  <2>1. ASSUME NEW x \in DOMAIN r, NEW y \in DOMAIN r, x < y
        PROVE  r[x].time <= r[y].time /\ r[x].type # r[y].type
    <3>1. PICK a \in 1 .. Len(q), b \in 1 .. Len(q) : a < b /\ r[x] = q[a] /\ r[y] = q[b]
      BY <1>2, <2>1 DEF IsWithout
    <3>2. a \in DOMAIN q /\ b \in DOMAIN q
      BY <1>1
    <3> QED
      BY <1>1, <3>1, <3>2 DEF Ordered
  <2> QED
    BY <1>2, <2>1 DEF RightQueue, Ordered
<1>4. Range(r) = {x \in Range(q) : x.type # type}
  <2>1. \A x \in DOMAIN r : \E a \in DOMAIN q : q[a].type # type /\ r[x] = q[a]
    BY <1>1, <1>2 DEF IsWithout
  <2>2. \A a \in DOMAIN q : q[a].type # type => \E x \in DOMAIN r : r[x] = q[a]
    BY <1>1, <1>2 DEF IsWithout
  <2>3. \A x \in Range(r) : x \in Range(q) /\ x.type # type
    BY <2>1 DEF Range
  <2>4. \A x \in Range(q) : x.type # type => x \in Range(r)
    BY <2>2 DEF Range
  <2> QED
    BY <2>3, <2>4
<1>5. ASSUME r # <<>> PROVE q # <<>> /\ Head(q).time <= Head(r).time
  <2>1. Head(r) \in Range(q)
    BY <1>3, <1>4, <1>5, HeadIsFirst
  <2>2. q # <<>>
    BY <2>1, SMT DEF Range
  <2> QED
    BY <2>1, <2>2, HeadIsFirst
<1> QED
  BY <1>3, <1>4, <1>5

\* The events of a type leave the queue.
LEMMA WithoutQueue ==
  ASSUME NEW q, RightQueue(q), NEW type, NEW r, r = Without(q, type)
  PROVE  /\ RightQueue(r) /\ \A x : x \in Range(r) <=> x \in Range(q) /\ x.type # type
         /\ r # <<>> => q # <<>> /\ Head(q).time <= Head(r).time
<1>1. q \in Seq(Events)
  BY DEF RightQueue
<1>2. r \in Seq(Events) /\ IsWithout(r, q, Len(q), type)
  BY <1>1, WithoutFacts
<1>3. /\ RightQueue(r) /\ Range(r) = {x \in Range(q) : x.type # type}
      /\ r # <<>> => q # <<>> /\ Head(q).time <= Head(r).time
  BY ONLY RightQueue(q), <1>2, IsWithoutQueue, Zenon
<1>4. \A x : x \in Range(r) <=> x \in Range(q) /\ x.type # type
  BY ONLY <1>3, Zenon
<1> QED
  BY ONLY <1>3, <1>4, Zenon

\* The first event leaves the queue.
LEMMA TailQueue ==
  ASSUME NEW q, RightQueue(q), q # <<>>, NEW r, r = Tail(q)
  PROVE  RightQueue(r) /\ Range(r) = {x \in Range(q) : x.type # Head(q).type}
<1>1. q \in Seq(Events) /\ Ordered(q)
  BY DEF RightQueue
<1>2. /\ Len(q) \in Nat /\ DOMAIN q = 1 .. Len(q)
      /\ 1 \in DOMAIN q /\ Head(q) = q[1] /\ \A i \in DOMAIN q : i = 1 \/ 1 < i
  BY <1>1, SeqFacts
<1>3. r \in Seq(Events) /\ Len(r) = Len(q) - 1 /\ \A x \in 1 .. Len(r) : r[x] = q[x + 1]
  BY <1>1, SMT
<1>4. DOMAIN r = 1 .. Len(r)
  BY <1>3, SMT
<1>5. /\ \A x \in DOMAIN r : x + 1 \in DOMAIN q /\ 1 < x + 1
      /\ \A x, y \in DOMAIN r : x < y => x + 1 < y + 1
      /\ \A i \in DOMAIN q : 1 < i => i - 1 \in DOMAIN r /\ (i - 1) + 1 = i
  BY <1>2, <1>3, <1>4, SMT
<1>6. Ordered(r)
  <2> SUFFICES ASSUME NEW x \in DOMAIN r, NEW y \in DOMAIN r, x < y
               PROVE  r[x].time <= r[y].time /\ r[x].type # r[y].type
    BY DEF Ordered
  <2>1. /\ x + 1 \in DOMAIN q /\ y + 1 \in DOMAIN q /\ x + 1 < y + 1
        /\ r[x] = q[x + 1] /\ r[y] = q[y + 1]
    BY <1>3, <1>4, <1>5
  <2> QED
    BY <1>1, <2>1 DEF Ordered
<1>7. Range(r) = {x \in Range(q) : x.type # Head(q).type}
  <2>1. ASSUME NEW x \in DOMAIN r PROVE r[x] \in Range(q) /\ r[x].type # Head(q).type
    <3>1. x + 1 \in DOMAIN q /\ 1 < x + 1 /\ r[x] = q[x + 1]
      BY <1>3, <1>4, <1>5
    <3> QED
      BY <1>1, <1>2, <3>1 DEF Range, Ordered
  <2>2. ASSUME NEW i \in DOMAIN q, q[i].type # Head(q).type PROVE q[i] \in Range(r)
    <3>1. i - 1 \in DOMAIN r /\ (i - 1) + 1 = i
      BY <1>2, <1>5, <2>2
    <3>2. q[i] = r[i - 1]
      BY <1>3, <1>4, <3>1
    <3> QED
      BY <3>1, <3>2 DEF Range
  <2>3. \A x \in Range(r) : x \in Range(q) /\ x.type # Head(q).type
    BY <2>1 DEF Range
  <2>4. \A x \in Range(q) : x.type # Head(q).type => x \in Range(r)
    BY <2>2 DEF Range
  <2> QED
    BY <2>3, <2>4
<1> QED
  BY <1>3, <1>6, <1>7 DEF RightQueue

----------------------------------------------------------------------------
(* The tree of tasks. *)

TreeInv ==
  /\ time \in [Threads -> 0 .. MaxTime] /\ waiting \subseteq Threads
  /\ tree \in Seq(Threads) /\ TreeIsRight

\* The first task is that of m_next_task.
LEMMA NextIsFirst ==
  ASSUME TreeInv
  PROVE  /\ Len(tree) \in Nat /\ DOMAIN tree = 1 .. Len(tree)
         /\ \A i \in DOMAIN tree : tree[i] \in Threads /\ tree[i] \in waiting
         /\ \A t \in waiting : \E i \in DOMAIN tree : tree[i] = t
         /\ nextTask = NoThread <=> tree = <<>>
         /\ nextTask # NoThread =>
              /\ 1 \in DOMAIN tree /\ nextTask = tree[1] /\ nextTask = Head(tree)
              /\ nextTask \in Threads /\ nextTask \in waiting /\ time[nextTask] \in 1 .. MaxTime
<1>1. tree \in Seq(Threads) /\ Range(tree) = waiting
  BY DEF TreeInv, TreeIsRight
<1>2. /\ Len(tree) \in Nat /\ DOMAIN tree = 1 .. Len(tree)
      /\ \A i \in DOMAIN tree : tree[i] \in Threads /\ tree[i] \in waiting
      /\ \A x \in waiting : \E i \in DOMAIN tree : tree[i] = x
      /\ tree # <<>> => 1 \in DOMAIN tree /\ Head(tree) = tree[1]
  <2>1. /\ Len(tree) \in Nat /\ DOMAIN tree = 1 .. Len(tree)
        /\ \A i \in DOMAIN tree : tree[i] \in Threads /\ tree[i] \in Range(tree)
        /\ \A x \in Range(tree) : x \in Threads /\ \E i \in DOMAIN tree : tree[i] = x
        /\ tree # <<>> => 1 \in DOMAIN tree /\ Head(tree) = tree[1]
    BY <1>1, SeqFacts
  <2> QED
    BY <1>1, <2>1
<1>3. CASE tree = <<>>
  BY <1>2, <1>3 DEF TreeInv, TreeIsRight
<1>4. CASE tree # <<>>
  <2>1. nextTask = Head(tree) /\ 1 \in DOMAIN tree /\ nextTask = tree[1]
    BY <1>2, <1>4 DEF TreeInv, TreeIsRight
  <2>2. nextTask \in Threads /\ nextTask \in waiting
    BY <1>2, <2>1
  <2>3. nextTask # NoThread
    BY <2>2, TimerAssumption
  <2>4. time[nextTask] > 0 /\ time[nextTask] \in 0 .. MaxTime
    BY <2>2 DEF TreeInv, TreeIsRight
  <2>5. time[nextTask] \in 1 .. MaxTime
    BY <2>4, TimingAssumption, SMT
  <2> QED
    BY <1>2, <1>4, <2>1, <2>2, <2>3, <2>5
<1> QED
  BY <1>3, <1>4

\* A task is put behind those of its time or an earlier one, and becomes the next
\* one when it is the first.
LEMMA RegisterTree ==
  ASSUME TreeInv, NEW t \in Threads, t \notin waiting, NEW w \in 1 .. MaxTime,
         RegisterAbsoluteTaskImpl(t, w), waiting' = waiting \cup {t}
  PROVE  /\ TreeInv'
         /\ BecomesNext(w) => nextTask' = t /\ time'[t] = w
         /\ ~BecomesNext(w) => /\ nextTask # NoThread /\ nextTask' = nextTask
                               /\ time'[nextTask] = time[nextTask] /\ time[nextTask] <= w
<1> DEFINE later == {i \in DOMAIN tree : time[tree[i]] > w}
           k == FirstOf(tree, later)
<1>1. /\ Len(tree) \in Nat /\ DOMAIN tree = 1 .. Len(tree)
      /\ \A i \in DOMAIN tree : tree[i] \in Threads /\ tree[i] \in waiting /\ tree[i] # t
      /\ \A u \in waiting : \E i \in DOMAIN tree : tree[i] = u
      /\ nextTask = NoThread <=> tree = <<>>
      /\ nextTask # NoThread => 1 \in DOMAIN tree /\ nextTask = tree[1] /\ nextTask \in waiting
  BY NextIsFirst
<1>2. /\ time' = [time EXCEPT ![t] = w] /\ tree' = InsertAt(tree, k, t)
      /\ nextTask' = IF BecomesNext(w) THEN t ELSE nextTask
  BY DEF RegisterAbsoluteTaskImpl, Inserted
<1>3. /\ time \in [Threads -> 0 .. MaxTime] /\ waiting \subseteq Threads /\ tree \in Seq(Threads)
      /\ \A u \in Threads : u \in waiting <=> time[u] > 0
      /\ \A i, j \in DOMAIN tree : i < j => tree[i] # tree[j] /\ time[tree[i]] <= time[tree[j]]
  BY DEF TreeInv, TreeIsRight
<1>4. /\ w \in 0 .. MaxTime /\ w > 0 /\ w \in Nat /\ \A u \in Threads : time[u] \in Nat
  BY <1>3, TimingAssumption, SMT
<1>5. /\ time' \in [Threads -> 0 .. MaxTime] /\ time'[t] = w
      /\ \A u \in Threads : u # t => time'[u] = time[u]
  BY <1>2, <1>3, <1>4
<1>6. /\ k \in 1 .. Len(tree) + 1
      /\ \A i \in 1 .. k - 1 : i \in DOMAIN tree \ later
      /\ \A i \in k .. Len(tree) : k \in later /\ i \in DOMAIN tree
  <2>1. later \in SUBSET DOMAIN tree
    OBVIOUS
  <2> HIDE DEF later
  <2> QED
    BY <1>3, <2>1, FirstOfFacts
<1>7. \A i \in 1 .. k - 1 : i \in DOMAIN tree /\ time[tree[i]] <= w
  <2>1. \A i \in DOMAIN tree : ~(time[tree[i]] > w) => time[tree[i]] <= w
    BY <1>1, <1>4, SMT
  <2> QED
    BY <1>6, <2>1
<1>8. ASSUME NEW i \in k .. Len(tree) PROVE i \in DOMAIN tree /\ w <= time[tree[i]]
  <2>1. k \in DOMAIN tree /\ time[tree[k]] > w /\ i \in DOMAIN tree
    BY <1>6
  <2>2. i = k \/ k < i
    BY <1>1, <1>6, SMT
  <2>3. time[tree[k]] \in Nat /\ time[tree[i]] \in Nat
    BY <1>1, <1>4, <2>1
  <2>4. k < i => time[tree[k]] <= time[tree[i]]
    BY <1>3, <2>1
  <2> QED
    BY <1>4, <2>1, <2>2, <2>3, <2>4, SMT
<1>9. BecomesNext(w) <=> k = 1
  <2>1. CASE nextTask = NoThread
    <3>1. Len(tree) = 0
      BY <1>1, <2>1, SMT
    <3> QED
      BY <1>6, <2>1, <3>1, SMT DEF BecomesNext
  <2>2. CASE nextTask # NoThread
    <3>1. 1 \in DOMAIN tree /\ nextTask = tree[1]
      BY <1>1, <2>2
    <3>2. 1 \in later <=> time[nextTask] > w
      BY <3>1
    <3>3. k # 1 => 1 \in 1 .. k - 1
      BY <1>6, SMT
    <3>4. k = 1 => 1 \in k .. Len(tree)
      BY <1>1, <3>1, SMT
    <3>5. k = 1 <=> 1 \in later
      BY <1>6, <3>3, <3>4
    <3> QED
      BY <2>2, <3>2, <3>5 DEF BecomesNext
  <2> QED
    BY <2>1, <2>2
<1> HIDE DEF k
<1>10. /\ tree' \in Seq(Threads) /\ tree' # <<>>
       /\ Range(tree') = Range(tree) \cup {t} /\ IsInserted(tree', tree, k, t)
       /\ Head(tree') = IF k = 1 THEN t ELSE tree[1]
  <2>1. tree' = InsertAt(tree, k, t) /\ tree \in Seq(Threads) /\ k \in 1 .. Len(tree) + 1
    BY <1>2, <1>3, <1>6 DEF k
  <2> QED
    BY ONLY t \in Threads, <2>1, InsertInOrder, SMT
<1>11. ASSUME NEW x \in DOMAIN tree', NEW y \in DOMAIN tree', x < y
       PROVE  tree'[x] # tree'[y] /\ time'[tree'[x]] <= time'[tree'[y]]
  <2>1. CASE \E a, b \in DOMAIN tree : a < b /\ tree'[x] = tree[a] /\ tree'[y] = tree[b]
    <3>1. PICK a \in DOMAIN tree, b \in DOMAIN tree : a < b /\ tree'[x] = tree[a] /\ tree'[y] = tree[b]
      BY <2>1
    <3>2. tree[a] # tree[b] /\ time[tree[a]] <= time[tree[b]]
      BY <1>3, <3>1
    <3>3. time'[tree[a]] = time[tree[a]] /\ time'[tree[b]] = time[tree[b]]
      BY <1>1, <1>5
    <3> QED
      BY <3>1, <3>2, <3>3
  <2>2. CASE tree'[y] = t /\ \E a \in 1 .. k - 1 : tree'[x] = tree[a]
    BY <1>1, <1>5, <1>7, <2>2
  <2>3. CASE tree'[x] = t /\ \E b \in k .. Len(tree) : tree'[y] = tree[b]
    BY <1>1, <1>5, <1>8, <2>3
  <2> QED
    BY <1>10, <1>11, <2>1, <2>2, <2>3 DEF IsInserted
<1>12. nextTask' = Head(tree')
  <2>1. CASE k = 1
    BY <1>2, <1>9, <1>10, <2>1
  <2>2. CASE k # 1
    BY <1>1, <1>2, <1>9, <1>10, <2>2 DEF BecomesNext
  <2> QED
    BY <2>1, <2>2
<1>13. Range(tree') = waiting' /\ \A u \in Threads : u \in waiting' <=> time'[u] > 0
  <2>1. Range(tree) = waiting
    BY DEF TreeInv, TreeIsRight
  <2> QED
    BY <1>3, <1>4, <1>5, <1>10, <2>1
<1>14. TreeInv'
  BY <1>3, <1>5, <1>10, <1>11, <1>12, <1>13 DEF TreeInv, TreeIsRight
<1>15. BecomesNext(w) => nextTask' = t /\ time'[t] = w
  BY <1>2, <1>5
<1>16. ASSUME ~BecomesNext(w)
       PROVE  /\ nextTask # NoThread /\ nextTask' = nextTask
              /\ time'[nextTask] = time[nextTask] /\ time[nextTask] <= w
  <2>1. nextTask # NoThread /\ ~(time[nextTask] > w) /\ nextTask' = nextTask
    BY <1>2, <1>16 DEF BecomesNext
  <2>2. nextTask \in Threads /\ nextTask # t
    BY <1>1, <1>3, <2>1
  <2>3. time[nextTask] <= w
    BY <1>4, <2>1, <2>2, SMT
  <2> QED
    BY <1>5, <2>1, <2>2, <2>3
<1> QED
  BY <1>14, <1>15, <1>16

\* The tasks at some positions in a row leave the tree.
LEMMA EraseTree ==
  ASSUME TreeInv, NEW i \in 1 .. Len(tree) + 1, NEW j \in i .. Len(tree) + 1, tree' = Erase(tree, i, j),
         NEW gone, gone = {tree[x] : x \in i .. j - 1},
         time' \in [Threads -> 0 .. MaxTime],
         \A u \in Threads : time'[u] = IF u \in gone THEN 0 ELSE time[u],
         waiting' = waiting \ gone,
         nextTask' = IF tree' = <<>> THEN NoThread ELSE Head(tree')
  PROVE  TreeInv'
<1>1. /\ Len(tree) \in Nat /\ DOMAIN tree = 1 .. Len(tree)
      /\ \A x \in DOMAIN tree : tree[x] \in Threads /\ tree[x] \in waiting
      /\ \A u \in waiting : \E x \in DOMAIN tree : tree[x] = u
  BY NextIsFirst
<1>2. /\ time \in [Threads -> 0 .. MaxTime] /\ waiting \subseteq Threads /\ tree \in Seq(Threads)
      /\ \A u \in Threads : u \in waiting <=> time[u] > 0
      /\ \A x, y \in DOMAIN tree : x < y => tree[x] # tree[y] /\ time[tree[x]] <= time[tree[y]]
  BY DEF TreeInv, TreeIsRight
<1>3. tree' \in Seq(Threads) /\ IsErased(tree', tree, i, j)
  BY ONLY <1>2, i \in 1 .. Len(tree) + 1, j \in i .. Len(tree) + 1, tree' = Erase(tree, i, j), EraseInOrder, SMT
<1>4. /\ \A x, y \in DOMAIN tree' : x < y => \E a, b \in DOMAIN tree : a < b /\ tree'[x] = tree[a] /\ tree'[y] = tree[b]
      /\ \A x \in DOMAIN tree' : \E y \in DOMAIN tree \ (i .. j - 1) : tree'[x] = tree[y]
      /\ \A y \in DOMAIN tree \ (i .. j - 1) : \E x \in DOMAIN tree' : tree'[x] = tree[y]
  BY <1>3 DEF IsErased
<1>5. \A x, y \in DOMAIN tree : tree[x] = tree[y] => x = y
  <2>1. \A x, y \in DOMAIN tree : x = y \/ x < y \/ y < x
    BY <1>1, SMT
  <2> QED
    BY <1>2, <2>1
<1>6. \A x \in DOMAIN tree \ (i .. j - 1) : tree[x] \notin gone
  <2>1. \A x \in i .. j - 1 : x \in DOMAIN tree
    BY <1>1, SMT
  <2>2. SUFFICES ASSUME NEW x \in DOMAIN tree \ (i .. j - 1), tree[x] \in gone PROVE FALSE
    OBVIOUS
  <2>3. PICK y \in i .. j - 1 : tree[x] = tree[y]
    BY <2>2
  <2> QED
    BY <1>5, <2>1, <2>3
<1>7. \A x \in DOMAIN tree' : tree'[x] \in waiting' /\ tree'[x] \in Threads /\ time'[tree'[x]] = time[tree'[x]]
  <2> TAKE x \in DOMAIN tree'
  <2>1. PICK y \in DOMAIN tree \ (i .. j - 1) : tree'[x] = tree[y]
    BY <1>4
  <2>2. tree[y] \in Threads /\ tree[y] \in waiting /\ tree[y] \notin gone
    BY <1>1, <1>6
  <2> QED
    BY <2>1, <2>2
<1>8. ASSUME NEW x \in DOMAIN tree', NEW y \in DOMAIN tree', x < y
      PROVE  tree'[x] # tree'[y] /\ time'[tree'[x]] <= time'[tree'[y]]
  <2>1. PICK a \in DOMAIN tree, b \in DOMAIN tree : a < b /\ tree'[x] = tree[a] /\ tree'[y] = tree[b]
    BY <1>4, <1>8
  <2>2. tree[a] # tree[b] /\ time[tree[a]] <= time[tree[b]]
    BY <1>2, <2>1
  <2>3. time'[tree'[x]] = time[tree[a]] /\ time'[tree'[y]] = time[tree[b]]
    BY <1>7, <2>1
  <2> QED
    BY <2>1, <2>2, <2>3
<1>9. Range(tree') = waiting'
  <2>1. ASSUME NEW u \in waiting' PROVE \E x \in DOMAIN tree' : tree'[x] = u
    <3>1. u \in waiting /\ u \notin gone
      OBVIOUS
    <3>2. PICK y \in DOMAIN tree : tree[y] = u
      BY <1>1, <3>1
    <3>3. y \notin i .. j - 1
      BY <3>1, <3>2
    <3> QED
      BY <1>4, <3>2, <3>3
  <2>2. \A u \in waiting' : u \in Range(tree')
    BY <2>1 DEF Range
  <2>3. \A u \in Range(tree') : u \in waiting'
    BY <1>7, ZenonT(60) DEF Range
  <2> QED
    BY ONLY <2>2, <2>3, Zenon
<1>10. \A u \in Threads : u \in waiting' <=> time'[u] > 0
  <2>1. ~(0 > 0)
    BY SMT
  <2> QED
    BY <1>2, <2>1
<1> QED
  BY <1>2, <1>3, <1>8, <1>9, <1>10 DEF TreeInv, TreeIsRight

\* A task is cancelled, and the one behind it becomes the next one if it was that.
LEMMA CancelTree ==
  ASSUME TreeInv, NEW t \in waiting, RemoveTaskFromTree(t), waiting' = waiting \ {t}
  PROVE  /\ TreeInv'
         /\ nextTask' # NoThread => nextTask # NoThread /\ time[nextTask] <= time'[nextTask']
<1> DEFINE i == Index(tree, t)
<1>1. /\ Len(tree) \in Nat /\ DOMAIN tree = 1 .. Len(tree)
      /\ \A x \in DOMAIN tree : tree[x] \in Threads /\ tree[x] \in waiting
      /\ \A u \in waiting : \E x \in DOMAIN tree : tree[x] = u
      /\ nextTask = NoThread <=> tree = <<>>
      /\ nextTask # NoThread => 1 \in DOMAIN tree /\ nextTask = tree[1] /\ nextTask = Head(tree)
  BY NextIsFirst
<1>2. i \in DOMAIN tree /\ tree[i] = t
  BY <1>1 DEF Index
<1>3. /\ tree' = Erase(tree, i, i + 1) /\ time' = [time EXCEPT ![t] = 0]
      /\ nextTask' = IF nextTask = t THEN IF i = Len(tree) THEN NoThread ELSE tree[i + 1] ELSE nextTask
  BY DEF RemoveTaskFromTree, Behind
<1>4. /\ time \in [Threads -> 0 .. MaxTime] /\ t \in Threads /\ tree \in Seq(Threads)
      /\ \A x, y \in DOMAIN tree : x < y => tree[x] # tree[y] /\ time[tree[x]] <= time[tree[y]]
      /\ nextTask = IF tree = <<>> THEN NoThread ELSE Head(tree)
  BY DEF TreeInv, TreeIsRight
<1> HIDE DEF i
<1>5. /\ i \in 1 .. Len(tree) + 1 /\ i + 1 \in i .. Len(tree) + 1 /\ i .. (i + 1) - 1 = {i}
      /\ 0 \in 0 .. MaxTime /\ (i + 1 = Len(tree) + 1 <=> i = Len(tree)) /\ tree # <<>>
      /\ i # Len(tree) => i + 1 \in DOMAIN tree /\ i < i + 1
      /\ i # 1 => 1 < i
  BY <1>1, <1>2, <1>4, TimingAssumption, SMT
<1>6. time' \in [Threads -> 0 .. MaxTime] /\ \A u \in Threads : time'[u] = IF u \in {t} THEN 0 ELSE time[u]
  BY <1>3, <1>4, <1>5
<1>7. {t} = {tree[x] : x \in i .. (i + 1) - 1}
  BY <1>2, <1>5
<1>8. /\ tree' = <<>> <=> i = 1 /\ i = Len(tree)
      /\ tree' # <<>> => Head(tree') = IF i = 1 THEN tree[i + 1] ELSE tree[1]
  <2>1. /\ tree' = <<>> <=> i = 1 /\ i + 1 = Len(tree) + 1
        /\ tree' # <<>> => Head(tree') = IF i = 1 THEN tree[i + 1] ELSE tree[1]
    <3>1. PICK j : j = i + 1
      OBVIOUS
    <3>2. /\ tree \in Seq(Threads) /\ i \in 1 .. Len(tree) + 1 /\ j \in i .. Len(tree) + 1
          /\ tree' = Erase(tree, i, j)
      BY <1>3, <1>4, <1>5, <3>1
    <3>3. IsErased(tree', tree, i, j)
      BY ONLY <3>2, EraseInOrder, SMT
    <3> QED
      BY <3>1, <3>3 DEF IsErased
  <2> QED
    BY <1>5, <2>1
<1>9. nextTask # NoThread /\ nextTask = tree[1] /\ (nextTask = t <=> i = 1)
  BY <1>1, <1>2, <1>4, <1>5, ZenonT(60)
<1>10. nextTask' = IF tree' = <<>> THEN NoThread ELSE Head(tree')
  <2>1. CASE i = 1
    BY <1>3, <1>8, <1>9, <2>1
  <2>2. CASE i # 1
    BY <1>3, <1>8, <1>9, <2>2
  <2> QED
    BY <2>1, <2>2
<1>11. TreeInv'
  BY <1>3, <1>5, <1>6, <1>7, <1>10, EraseTree
<1>12. ASSUME nextTask' # NoThread PROVE time[nextTask] <= time'[nextTask']
  <2>1. CASE i = 1
    <3>1. i # Len(tree) /\ nextTask' = tree[i + 1]
      BY <1>3, <1>9, <1>12, <2>1
    <3>2. time[tree[i]] <= time[tree[i + 1]] /\ tree[i + 1] # t /\ tree[i + 1] \in Threads
      BY <1>1, <1>2, <1>4, <1>5, <3>1
    <3> QED
      BY <1>2, <1>6, <1>9, <2>1, <3>1, <3>2
  <2>2. CASE i # 1
    <3>1. nextTask' = nextTask /\ nextTask # t /\ nextTask \in Threads
      BY <1>1, <1>3, <1>9, <2>2
    <3>2. time'[nextTask'] = time[nextTask] /\ time[nextTask] \in 0 .. MaxTime
      BY <1>4, <1>6, <3>1
    <3> QED
      BY <3>2, SMT
  <2> QED
    BY <2>1, <2>2
<1> QED
  BY <1>9, <1>11, <1>12

\* The tasks that are due leave the tree.
LEMMA DueTree ==
  ASSUME TreeInv, tree' = Erase(tree, FirstDue, BehindDue),
         time' = [t \in Threads |-> IF t \in Due THEN 0 ELSE time[t]],
         nextTask' = IF BehindDue > Len(tree) THEN NoThread ELSE tree[BehindDue],
         waiting' = waiting \ Due
  PROVE  /\ TreeInv'
         /\ nextTask' # NoThread => nextTask' \in Threads /\ time'[nextTask'] = time[nextTask']
<1>1. /\ Len(tree) \in Nat /\ DOMAIN tree = 1 .. Len(tree)
      /\ \A x \in DOMAIN tree : tree[x] \in Threads /\ tree[x] \in waiting
      /\ nextTask = NoThread <=> tree = <<>>
      /\ nextTask # NoThread => 1 \in DOMAIN tree /\ nextTask = tree[1]
  BY NextIsFirst
<1>2. /\ time \in [Threads -> 0 .. MaxTime] /\ tree \in Seq(Threads)
      /\ \A x, y \in DOMAIN tree : x < y => tree[x] # tree[y] /\ time[tree[x]] <= time[tree[y]]
  BY DEF TreeInv, TreeIsRight
<1>3. FirstDue = 1
  <2>1. CASE nextTask = NoThread
    <3>1. Len(tree) = 0
      BY <1>1, <2>1, SMT
    <3>2. Len(tree) + 1 = 1
      BY <3>1, SMT
    <3> QED
      BY <2>1, <3>2 DEF FirstDue
  <2>2. CASE nextTask # NoThread
    <3>1. 1 \in DOMAIN tree /\ tree[1] = nextTask
      BY <1>1, <2>2
    <3>2. Index(tree, nextTask) \in DOMAIN tree /\ tree[Index(tree, nextTask)] = nextTask
      BY <3>1 DEF Index
    <3>3. \A x \in DOMAIN tree : x = 1 \/ 1 < x
      BY <1>1, SMT
    <3>4. Index(tree, nextTask) = 1
      BY <1>2, <3>1, <3>2, <3>3
    <3> QED
      BY <2>2, <3>4 DEF FirstDue
  <2> QED
    BY <2>1, <2>2
<1> DEFINE later == {i \in FirstDue .. Len(tree) : time[tree[i]] > now}
           j == BehindDue
<1>4. j \in 1 .. Len(tree) + 1
  <2>1. later \in SUBSET DOMAIN tree
    BY <1>1, <1>3
  <2>2. j = FirstOf(tree, later)
    BY DEF BehindDue
  <2> HIDE DEF later, j
  <2> QED
    BY <1>2, <2>1, <2>2, FirstOfFacts
<1>5. Due = {tree[x] : x \in 1 .. j - 1}
  BY <1>3 DEF Due
<1>6. tree' = Erase(tree, 1, j)
  BY <1>3
<1>7. j > Len(tree) <=> j = Len(tree) + 1
  BY <1>1, <1>4, SMT
<1>a. nextTask' = IF j > Len(tree) THEN NoThread ELSE tree[j]
  OBVIOUS
<1> HIDE DEF j
<1>8. /\ tree' = <<>> <=> j = Len(tree) + 1
      /\ tree' # <<>> => Head(tree') = tree[j]
  <2>1. 1 \in 1 .. Len(tree) + 1
    BY <1>1, SMT
  <2>2. IsErased(tree', tree, 1, j)
    BY ONLY <1>2, <1>4, <1>6, <2>1, EraseInOrder, SMT
  <2> QED
    BY <2>2 DEF IsErased
<1>9. nextTask' = IF tree' = <<>> THEN NoThread ELSE Head(tree')
  BY <1>7, <1>8, <1>a
<1>10. /\ time' \in [Threads -> 0 .. MaxTime]
       /\ \A u \in Threads : time'[u] = IF u \in Due THEN 0 ELSE time[u]
  <2>1. 0 \in 0 .. MaxTime
    BY TimingAssumption, SMT
  <2> QED
    BY <1>2, <2>1
<1>11. TreeInv'
  <2>1. 1 \in 1 .. Len(tree) + 1
    BY <1>1, SMT
  <2> QED
    BY <1>4, <1>5, <1>6, <1>9, <1>10, <2>1, EraseTree
<1>12. ASSUME nextTask' # NoThread PROVE nextTask' \in Threads /\ time'[nextTask'] = time[nextTask']
  <2>1. nextTask' = tree[j] /\ ~(j > Len(tree))
    BY <1>12, <1>a
  <2>2. j \in DOMAIN tree /\ \A x \in 1 .. j - 1 : x \in DOMAIN tree /\ x < j
    BY <1>1, <1>4, <2>1, SMT
  <2>3. tree[j] \in Threads /\ tree[j] \notin Due
    BY <1>1, <1>2, <1>5, <2>2
  <2> QED
    BY <1>10, <2>1, <2>3
<1> QED
  BY <1>11, <1>12

----------------------------------------------------------------------------
(* The invariant. *)

Types ==
  /\ now \in 1 .. MaxTime /\ wakeup \in 1 .. Never /\ deadline \in 0 .. MaxTime + Period
  /\ host \in {"outer", "inner", "pause", "advance", "callback", "after", "wait", "waitFor", "done"}
  /\ running \in {TimerEvent, LoopingEvent, NoEvent}
  /\ stale \in BOOLEAN /\ eventSet \in BOOLEAN /\ pauseSet \in BOOLEAN
  /\ paused \in BOOLEAN /\ pausedSet \in BOOLEAN /\ stop \in BOOLEAN
  /\ client \in {"unscheduled", "signal", "scheduled", "waiting"}

Queued(type) == \E e \in Range(queue) : e.type = type

\* What Advance is doing, and the looping event: it is in the queue while it is
\* scheduled, also during its callback unless it is unscheduled then.
HostInv ==
  /\ running # NoEvent <=> host \in {"callback", "after"}
  /\ running = LoopingEvent /\ ~stale => \E e \in Range(queue) : e.type = LoopingEvent /\ e.time <= now
  /\ client = "unscheduled" => running # LoopingEvent
  /\ ~Exiting => (Queued(LoopingEvent) <=> client \in {"signal", "scheduled"})
  /\ Exiting => queue = <<>> /\ running = NoEvent

\* The timer's callback has been called and has yet to look at the tree.
Called == host = "callback" /\ running = TimerEvent /\ ~(arm # NoArm /\ arm.by = "host")

\* EnableInterrupt is under way for the next task, or m_wakeup_time is not after
\* it; and there is an event for m_wakeup_time, or there was.
ArmInv ==
  /\ arm \in [at : {"none", "unschedule", "schedule", "signal"}, time : 0 .. MaxTime, by : {"core", "host"}]
  /\ arm.at = "none" => arm = NoArm
  /\ arm # NoArm => ~Exiting /\ nextTask # NoThread /\ arm.time = time[nextTask]
  /\ arm # NoArm /\ arm.by = "host" => host = "callback" /\ running = TimerEvent
  /\ arm.at = "schedule" => ~Queued(TimerEvent) /\ wakeup = Never
  /\ arm.at = "signal" => wakeup = arm.time
  /\ arm.at \in {"none", "signal"} /\ wakeup # Never /\ ~Exiting =>
       Called \/ \E e \in Range(queue) : e.type = TimerEvent /\ e.time = wakeup
  /\ arm = NoArm /\ nextTask # NoThread /\ ~Exiting => wakeup <= time[nextTask]

\* The timer thread has said that it is paused only while it is, and ends only
\* when it is told to.
PauseInv ==
  /\ pauseEnd \in 0 .. now
  /\ pausedSet => host \in {"outer", "inner", "pause", "done"}
  /\ host = "done" => stop
  /\ stop => control \in {"join", "joined"}

Inv == Types /\ RightQueue(queue) /\ HostInv /\ ArmInv /\ TreeInv /\ PauseInv /\ NoOversleep

\* Outside EnableInterrupt.
LEMMA NoArmAt == NoArm.at = "none"
BY DEF NoArm

\* Steps that change none of the variables of Types.
LEMMA TypesFrame ==
  ASSUME Types,
         UNCHANGED <<now, wakeup, deadline, host, running, stale, eventSet, pauseSet, paused, pausedSet, stop, client>>
  PROVE  Types'
BY SMT DEF Types, Never

\* Steps that leave the tree alone.
LEMMA TreeFrame ==
  ASSUME TreeInv, UNCHANGED <<tree, time, nextTask, waiting>> PROVE TreeInv'
BY DEF TreeInv, TreeIsRight

\* Steps that leave Advance and the looping event alone.
LEMMA HostFrame ==
  ASSUME HostInv, UNCHANGED <<queue, running, stale, client>>, now' = now, Exiting' <=> Exiting,
         host' \in {"callback", "after"} <=> host \in {"callback", "after"}
  PROVE  HostInv'
BY DEF HostInv, Queued

\* Steps that leave the timer, its events and its callback alone.
LEMMA ArmFrame ==
  ASSUME ArmInv, UNCHANGED <<arm, nextTask, time, wakeup>>, Exiting' <=> Exiting,
         \A e : e.type = TimerEvent => (e \in Range(queue') <=> e \in Range(queue)),
         host = "callback" /\ running = TimerEvent => host' = "callback" /\ running' = TimerEvent
  PROVE  ArmInv'
<1>1. Called => Called'
  BY DEF Called
<1>2. Queued(TimerEvent)' <=> Queued(TimerEvent)
  BY DEF Queued
<1>3. (\E e \in Range(queue) : e.type = TimerEvent /\ e.time = wakeup)
        => \E e \in Range(queue)' : e.type = TimerEvent /\ e.time = wakeup'
  OBVIOUS
<1>4. NoArm' = NoArm
  BY DEF NoArm
<1> QED
  BY <1>1, <1>2, <1>3, <1>4 DEF ArmInv, Never

\* Steps after which the timer thread waits for what it waited for.
LEMMA SleepFrame ==
  ASSUME NoOversleep, UNCHANGED <<host, queue, deadline>>, eventSet => eventSet',
         arm.at = "signal" => arm'.at = "signal" \/ eventSet',
         client = "signal" => client' = "signal" \/ eventSet'
  PROVE  NoOversleep'
BY DEF NoOversleep

\* Steps that take events out of the queue meanwhile.
LEMMA SleepLater ==
  ASSUME Types, RightQueue(queue), RightQueue(queue'), NoOversleep, UNCHANGED <<host, deadline>>,
         queue' # <<>> => queue # <<>> /\ Head(queue).time <= Head(queue').time,
         eventSet => eventSet', arm.at = "signal" => arm'.at = "signal", client = "signal" => client' = "signal"
  PROVE  NoOversleep'
<1> SUFFICES ASSUME host \in {"wait", "waitFor"}, queue' # <<>>
             PROVE  \/ host = "waitFor" /\ deadline <= Head(queue').time
                    \/ eventSet' \/ arm'.at = "signal" \/ client' = "signal"
  BY DEF NoOversleep
<1>1. queue # <<>> /\ Head(queue).time <= Head(queue').time
  OBVIOUS
<1>2. Head(queue).time \in Nat /\ Head(queue').time \in Nat
  BY <1>1, HeadIsFirst, EventFields
<1>3. deadline \in Nat
  BY TimingAssumption, SMT DEF Types
<1>4. deadline <= Head(queue).time => deadline <= Head(queue').time
  BY <1>1, <1>2, <1>3, SMT
<1> QED
  BY <1>1, <1>4 DEF NoOversleep

\* The loops of the timer thread.
LEMMA OuterLoopInv ==
  ASSUME Inv, OuterLoop, UNCHANGED <<timerVars, waiting>> PROVE Inv'
<1>0. Types /\ RightQueue(queue) /\ HostInv /\ ArmInv /\ TreeInv /\ PauseInv /\ NoOversleep
  BY DEF Inv
<1>1. /\ host = "outer" /\ host' = IF stop THEN "done" ELSE "inner"
      /\ UNCHANGED <<now, queue, running, stale, deadline, eventSet, pauseSet, paused,
                     pausedSet, pauseEnd, stop, control, client, tree, time, nextTask, wakeup,
                     arm, waiting>>
  BY DEF OuterLoop, Go, pauseVars, timerVars
<1>2. Types'
  BY <1>0, <1>1 DEF Types
<1>3. RightQueue(queue)'
  BY <1>0, <1>1
<1>4. HostInv'
  BY <1>0, <1>1, HostFrame DEF Exiting
<1>5. ArmInv'
  BY <1>0, <1>1, ArmFrame DEF Exiting
<1>6. TreeInv'
  BY <1>0, <1>1, TreeFrame
<1>7. PauseInv'
  BY <1>0, <1>1 DEF PauseInv
<1>8. NoOversleep'
  BY <1>0, <1>1 DEF NoOversleep
<1> QED
  BY <1>2, <1>3, <1>4, <1>5, <1>6, <1>7, <1>8 DEF Inv


\* The inner loop.
LEMMA InnerLoopInv ==
  ASSUME Inv, InnerLoop, UNCHANGED <<timerVars, waiting>> PROVE Inv'
<1>0. Types /\ RightQueue(queue) /\ HostInv /\ ArmInv /\ TreeInv /\ PauseInv /\ NoOversleep
  BY DEF Inv
<1>1. /\ host = "inner" /\ host' = IF paused \/ stop THEN "pause" ELSE "advance"
      /\ pausedSet' = (paused \/ stop)
      /\ UNCHANGED <<now, queue, running, stale, deadline, eventSet, pauseSet, paused,
                     pauseEnd, stop, control, client, tree, time, nextTask, wakeup, arm,
                     waiting>>
  BY DEF InnerLoop, Go, pauseVars, timerVars
<1>2. Types'
  BY <1>0, <1>1 DEF Types
<1>3. RightQueue(queue)'
  BY <1>0, <1>1
<1>4. HostInv'
  BY <1>0, <1>1, HostFrame DEF Exiting
<1>5. ArmInv'
  BY <1>0, <1>1, ArmFrame DEF Exiting
<1>6. TreeInv'
  BY <1>0, <1>1, TreeFrame
<1>7. PauseInv'
  BY <1>0, <1>1 DEF PauseInv
<1>8. NoOversleep'
  BY <1>0, <1>1 DEF NoOversleep
<1> QED
  BY <1>2, <1>3, <1>4, <1>5, <1>6, <1>7, <1>8 DEF Inv


\* The end of a pause.
LEMMA PauseWaitInv ==
  ASSUME Inv, PauseWait, UNCHANGED <<timerVars, waiting>> PROVE Inv'
<1>0. Types /\ RightQueue(queue) /\ HostInv /\ ArmInv /\ TreeInv /\ PauseInv /\ NoOversleep
  BY DEF Inv
<1>1. /\ host = "pause" /\ host' = "outer" /\ pauseSet' = FALSE
      /\ UNCHANGED <<now, queue, running, stale, deadline, eventSet, paused, pausedSet,
                     pauseEnd, stop, control, client, tree, time, nextTask, wakeup, arm,
                     waiting>>
  BY DEF PauseWait, Go, pauseVars, timerVars
<1>2. Types'
  BY <1>0, <1>1 DEF Types
<1>3. RightQueue(queue)'
  BY <1>0, <1>1
<1>4. HostInv'
  BY <1>0, <1>1, HostFrame DEF Exiting
<1>5. ArmInv'
  BY <1>0, <1>1, ArmFrame DEF Exiting
<1>6. TreeInv'
  BY <1>0, <1>1, TreeFrame
<1>7. PauseInv'
  BY <1>0, <1>1 DEF PauseInv
<1>8. NoOversleep'
  BY <1>0, <1>1 DEF NoOversleep
<1> QED
  BY <1>2, <1>3, <1>4, <1>5, <1>6, <1>7, <1>8 DEF Inv


\* Advance returns the time of the first event.
LEMMA AdvanceReturnInv ==
  ASSUME Inv, AdvanceReturn, UNCHANGED <<timerVars, waiting>> PROVE Inv'
<1>0. Types /\ RightQueue(queue) /\ HostInv /\ ArmInv /\ TreeInv /\ PauseInv /\ NoOversleep
  BY DEF Inv
<1>1. /\ host = "advance" /\ host' = IF queue = <<>> THEN "wait" ELSE "waitFor"
      /\ deadline' = IF queue = <<>> THEN 0 ELSE Head(queue).time
      /\ UNCHANGED <<now, queue, running, stale, eventSet, pauseSet, paused, pausedSet,
                     pauseEnd, stop, control, client, tree, time, nextTask, wakeup, arm,
                     waiting>>
  BY DEF AdvanceReturn, Go, pauseVars, timerVars
<1>2. Types'
  <2>1. deadline' \in 0 .. MaxTime + Period
    <3>1. CASE queue = <<>>
      BY <1>1, <3>1, TimingAssumption, SMT
    <3>2. CASE queue # <<>>
      <4>1. Head(queue).time \in 1 .. MaxTime + Period
        BY <1>0, <3>2, HeadIsFirst, EventFields
      <4> QED
        BY <1>1, <3>2, <4>1, TimingAssumption, SMT
    <3> QED
      BY <3>1, <3>2
  <2> QED
    BY <1>0, <1>1, <2>1 DEF Types
<1>3. RightQueue(queue)'
  BY <1>0, <1>1
<1>4. HostInv'
  BY <1>0, <1>1, HostFrame DEF Exiting
<1>5. ArmInv'
  BY <1>0, <1>1, ArmFrame DEF Exiting
<1>6. TreeInv'
  BY <1>0, <1>1, TreeFrame
<1>7. PauseInv'
  BY <1>0, <1>1 DEF PauseInv
<1>8. NoOversleep'
  <2> SUFFICES ASSUME queue # <<>> PROVE host' = "waitFor" /\ deadline' <= Head(queue').time
    BY <1>1 DEF NoOversleep
  <2>1. Head(queue).time \in Nat
    BY <1>0, HeadIsFirst, EventFields
  <2>2. Head(queue).time <= Head(queue).time
    BY <2>1, SMT
  <2> QED
    BY <1>1, <2>2
<1> QED
  BY <1>2, <1>3, <1>4, <1>5, <1>6, <1>7, <1>8 DEF Inv


\* A wait of the timer thread ends.
LEMMA EventWaitInv ==
  ASSUME Inv, EventWait, UNCHANGED <<timerVars, waiting>> PROVE Inv'
<1>0. Types /\ RightQueue(queue) /\ HostInv /\ ArmInv /\ TreeInv /\ PauseInv /\ NoOversleep
  BY DEF Inv
<1>1. /\ host \in {"wait", "waitFor"} /\ host' = "inner" /\ deadline' = 0 /\ eventSet' \in BOOLEAN
      /\ UNCHANGED <<now, queue, running, stale, pauseSet, paused, pausedSet, pauseEnd, stop,
                     control, client, tree, time, nextTask, wakeup, arm, waiting>>
  BY <1>0 DEF EventWait, Go, pauseVars, timerVars, Types
<1>2. Types'
  <2>1. 0 \in 0 .. MaxTime + Period
    BY TimingAssumption, SMT
  <2> QED
    BY <1>0, <1>1, <2>1 DEF Types
<1>3. RightQueue(queue)'
  BY <1>0, <1>1
<1>4. HostInv'
  BY <1>0, <1>1, HostFrame DEF Exiting
<1>5. ArmInv'
  BY <1>0, <1>1, ArmFrame DEF Exiting
<1>6. TreeInv'
  BY <1>0, <1>1, TreeFrame
<1>7. PauseInv'
  BY <1>0, <1>1 DEF PauseInv
<1>8. NoOversleep'
  BY <1>0, <1>1 DEF NoOversleep
<1> QED
  BY <1>2, <1>3, <1>4, <1>5, <1>6, <1>7, <1>8 DEF Inv


\* The callback of the looping event.
LEMMA LoopingCallbackInv ==
  ASSUME Inv, LoopingCallback PROVE Inv'
<1>0. Types /\ RightQueue(queue) /\ HostInv /\ ArmInv /\ TreeInv /\ PauseInv /\ NoOversleep
  BY DEF Inv
<1>1. /\ host = "callback" /\ running = LoopingEvent /\ host' = "after"
      /\ UNCHANGED <<now, queue, running, stale, deadline, eventSet, pauseSet, paused,
                     pausedSet, pauseEnd, stop, control, client, tree, time, nextTask, wakeup,
                     arm, waiting>>
  BY DEF LoopingCallback, Go, pauseVars, timerVars
<1>2. Types'
  BY <1>0, <1>1 DEF Types
<1>3. RightQueue(queue)'
  BY <1>0, <1>1
<1>4. HostInv'
  BY <1>0, <1>1, HostFrame DEF Exiting
<1>5. ArmInv'
  BY <1>0, <1>1, ArmFrame, TimingAssumption DEF Exiting
<1>6. TreeInv'
  BY <1>0, <1>1, TreeFrame
<1>7. PauseInv'
  BY <1>0, <1>1 DEF PauseInv
<1>8. NoOversleep'
  BY <1>0, <1>1 DEF NoOversleep
<1> QED
  BY <1>2, <1>3, <1>4, <1>5, <1>6, <1>7, <1>8 DEF Inv


\* Time passes.
LEMMA TickInv ==
  ASSUME Inv, Tick, UNCHANGED <<timerVars, waiting>> PROVE Inv'
<1>0. Types /\ RightQueue(queue) /\ HostInv /\ ArmInv /\ TreeInv /\ PauseInv /\ NoOversleep
  BY DEF Inv
<1>1. /\ now < MaxTime /\ now' = now + 1
      /\ UNCHANGED <<queue, host, running, stale, deadline, eventSet, pauseSet, paused,
                     pausedSet, pauseEnd, stop, control, client, tree, time, nextTask, wakeup,
                     arm, waiting>>
  BY DEF Tick, pauseVars, timerVars
<1>2. Types'
  <2>1. now' \in 1 .. MaxTime
    BY <1>0, <1>1, TimingAssumption, SMT DEF Types
  <2>2. UNCHANGED <<wakeup, deadline, host, running, stale, eventSet, pauseSet, paused, pausedSet, stop, client>>
    BY <1>1
  <2> QED
    BY <1>0, <2>1, <2>2, SMT DEF Types
<1>3. RightQueue(queue)'
  BY <1>0, <1>1
<1>4. HostInv'
  <2>1. ASSUME NEW e \in Range(queue), e.time <= now PROVE e.time <= now'
    <3>1. e.time \in Nat
      BY <1>0, SeqFacts, EventFields DEF RightQueue
    <3>2. now \in Nat
      BY <1>0, TimingAssumption, SMT DEF Types
    <3> QED
      BY <1>1, <2>1, <3>1, <3>2, SMT
  <2>2. Exiting' <=> Exiting
    BY <1>1 DEF Exiting
  <2> QED
    BY <1>0, <1>1, <2>1, <2>2 DEF HostInv, Queued
<1>5. ArmInv'
  BY <1>0, <1>1, ArmFrame DEF Exiting
<1>6. TreeInv'
  BY <1>0, <1>1, TreeFrame
<1>7. PauseInv'
  <2>1. pauseEnd' \in 0 .. now'
    BY <1>0, <1>1, TimingAssumption, SMT DEF PauseInv, Types
  <2> QED
    BY <1>0, <1>1, <2>1 DEF PauseInv
<1>8. NoOversleep'
  BY <1>0, <1>1, SleepFrame
<1> QED
  BY <1>2, <1>3, <1>4, <1>5, <1>6, <1>7, <1>8 DEF Inv


\* SyncPause begins.
LEMMA SyncPauseInv ==
  ASSUME Inv, NEW isPaused \in BOOLEAN, SyncPause(isPaused), UNCHANGED <<timerVars, waiting>> PROVE Inv'
<1>0. Types /\ RightQueue(queue) /\ HostInv /\ ArmInv /\ TreeInv /\ PauseInv /\ NoOversleep
  BY DEF Inv
<1>1. /\ control = "idle" /\ control' = "pause_event" /\ paused' \in BOOLEAN
      /\ UNCHANGED <<now, queue, host, running, stale, deadline, eventSet, pauseSet, pausedSet,
                     pauseEnd, stop, client, tree, time, nextTask, wakeup, arm, waiting>>
  BY DEF SyncPause, timerVars
<1>2. Types'
  BY <1>0, <1>1, ZenonT(60) DEF Types
<1>3. RightQueue(queue)'
  BY <1>0, <1>1
<1>4. HostInv'
  BY <1>0, <1>1, HostFrame DEF Exiting
<1>5. ArmInv'
  BY <1>0, <1>1, ArmFrame DEF Exiting
<1>6. TreeInv'
  BY <1>0, <1>1, TreeFrame
<1>7. PauseInv'
  BY <1>0, <1>1 DEF PauseInv
<1>8. NoOversleep'
  BY <1>0, <1>1, SleepFrame
<1> QED
  BY <1>2, <1>3, <1>4, <1>5, <1>6, <1>7, <1>8 DEF Inv


\* SyncPause sets the events.
LEMMA SyncPauseSetInv ==
  ASSUME Inv, SyncPauseSet, UNCHANGED <<timerVars, waiting>> PROVE Inv'
<1>0. Types /\ RightQueue(queue) /\ HostInv /\ ArmInv /\ TreeInv /\ PauseInv /\ NoOversleep
  BY DEF Inv
<1>1. /\ control \in {"pause_event", "again", "event"} /\ control' \in {"again", "event", "spin"}
      /\ pauseSet' \in BOOLEAN /\ eventSet' \in BOOLEAN /\ (eventSet => eventSet')
      /\ pauseEnd' \in {pauseEnd, now}
      /\ UNCHANGED <<now, queue, host, running, stale, deadline, paused, pausedSet, stop,
                     client, tree, time, nextTask, wakeup, arm, waiting>>
  BY <1>0 DEF SyncPauseSet, timerVars, Types
<1>2. Types'
  BY <1>0, <1>1, ZenonT(60) DEF Types
<1>3. RightQueue(queue)'
  BY <1>0, <1>1
<1>4. HostInv'
  BY <1>0, <1>1, HostFrame DEF Exiting
<1>5. ArmInv'
  BY <1>0, <1>1, ArmFrame DEF Exiting
<1>6. TreeInv'
  BY <1>0, <1>1, TreeFrame
<1>7. PauseInv'
  <2>1. pauseEnd' \in 0 .. now'
    <3>1. now \in 0 .. now
      BY <1>0, TimingAssumption, SMT DEF Types
    <3> QED
      BY <1>0, <1>1, <3>1 DEF PauseInv
  <2> QED
    BY <1>0, <1>1, <2>1 DEF PauseInv
<1>8. NoOversleep'
  BY <1>0, <1>1, SleepFrame
<1> QED
  BY <1>2, <1>3, <1>4, <1>5, <1>6, <1>7, <1>8 DEF Inv


\* SyncPause returns.
LEMMA SyncPauseReturnInv ==
  ASSUME Inv, SyncPauseReturn, UNCHANGED <<timerVars, waiting>> PROVE Inv'
<1>0. Types /\ RightQueue(queue) /\ HostInv /\ ArmInv /\ TreeInv /\ PauseInv /\ NoOversleep
  BY DEF Inv
<1>1. /\ control = "spin" /\ control' = "idle"
      /\ pauseEnd' \in {pauseEnd, now}
      /\ UNCHANGED <<now, queue, host, running, stale, deadline, eventSet, pauseSet, paused,
                     pausedSet, stop, client, tree, time, nextTask, wakeup, arm, waiting>>
  BY DEF SyncPauseReturn, timerVars
<1>2. Types'
  <2>1. UNCHANGED <<now, wakeup, deadline, host, running, stale, eventSet, pauseSet, paused, pausedSet, stop, client>>
    BY <1>1
  <2> QED
    BY <1>0, <2>1, SMT DEF Types
<1>3. RightQueue(queue)'
  BY <1>0, <1>1
<1>4. HostInv'
  BY <1>0, <1>1, HostFrame DEF Exiting
<1>5. ArmInv'
  BY <1>0, <1>1, ArmFrame DEF Exiting
<1>6. TreeInv'
  BY <1>0, <1>1, TreeFrame
<1>7. PauseInv'
  <2>1. pauseEnd' \in 0 .. now'
    <3>1. now \in 0 .. now
      BY <1>0, TimingAssumption, SMT DEF Types
    <3> QED
      BY <1>0, <1>1, <3>1 DEF PauseInv
  <2> QED
    BY <1>0, <1>1, <2>1 DEF PauseInv
<1>8. NoOversleep'
  BY <1>0, <1>1, SleepFrame
<1> QED
  BY <1>2, <1>3, <1>4, <1>5, <1>6, <1>7, <1>8 DEF Inv


\* Reset.
LEMMA ResetInv ==
  ASSUME Inv, Reset, UNCHANGED <<timerVars, waiting>> PROVE Inv'
<1>0. Types /\ RightQueue(queue) /\ HostInv /\ ArmInv /\ TreeInv /\ PauseInv /\ NoOversleep
  BY DEF Inv
<1>1. /\ UNCHANGED <<now, queue, host, running, stale, deadline, pausedSet, pauseEnd, client,
                     tree, time, nextTask, wakeup, arm, waiting>>
  BY DEF Reset, timerVars
<1>a. /\ control \in {"finalized", "reset1", "reset2", "reset3", "join"}
      /\ control' \in {"reset1", "reset2", "reset3", "join", "joined"}
  BY DEF Reset
<1>b. /\ paused' \in BOOLEAN /\ pauseSet' \in BOOLEAN /\ eventSet' \in BOOLEAN /\ (eventSet => eventSet')
      /\ stop' \in BOOLEAN /\ (stop => stop')
  BY <1>0 DEF Reset, Types
<1>c. (stop => stop') /\ (stop' => control' \in {"join", "joined"})
  <2>1. CASE control \in {"finalized", "reset1", "reset2"}
    <3>1. ~stop /\ stop' = stop
      BY <1>0, <2>1 DEF Reset, PauseInv
    <3> QED
      BY <3>1
  <2>2. CASE control = "reset3"
    BY <2>2 DEF Reset
  <2>3. CASE control = "join"
    <3>1. stop' = stop /\ control' = "joined"
      BY <2>3 DEF Reset
    <3> QED
      BY <3>1
  <2> QED
    BY <1>a, <2>1, <2>2, <2>3
<1>2. Types'
  BY <1>0, <1>1, <1>b DEF Types
<1>3. RightQueue(queue)'
  BY <1>0, <1>1
<1>4. HostInv'
  BY <1>0, <1>1, <1>a, HostFrame DEF Exiting
<1>5. ArmInv'
  BY <1>0, <1>1, <1>a, ArmFrame DEF Exiting
<1>6. TreeInv'
  BY <1>0, <1>1, TreeFrame
<1>7. PauseInv'
  BY <1>0, <1>1, <1>c DEF PauseInv
<1>8. NoOversleep'
  BY <1>0, <1>1, <1>b, SleepFrame
<1> QED
  BY <1>2, <1>3, <1>4, <1>5, <1>6, <1>7, <1>8 DEF Inv


\* ScheduleLoopingEvent sets event.
LEMMA ClientSignalInv ==
  ASSUME Inv, ClientSignal, UNCHANGED <<timerVars, waiting>> PROVE Inv'
<1>0. Types /\ RightQueue(queue) /\ HostInv /\ ArmInv /\ TreeInv /\ PauseInv /\ NoOversleep
  BY DEF Inv
<1>1. /\ client = "signal" /\ client' = "scheduled" /\ eventSet' = TRUE
      /\ UNCHANGED <<now, queue, host, running, stale, deadline, pauseSet, paused, pausedSet,
                     pauseEnd, stop, control, tree, time, nextTask, wakeup, arm, waiting>>
  BY DEF ClientSignal, pauseVars, timerVars
<1>2. Types'
  BY <1>0, <1>1 DEF Types
<1>3. RightQueue(queue)'
  BY <1>0, <1>1
<1>4. HostInv'
  <2>1. Exiting' <=> Exiting
    BY <1>1 DEF Exiting
  <2> QED
    BY <1>0, <1>1, <2>1 DEF HostInv, Queued
<1>5. ArmInv'
  BY <1>0, <1>1, ArmFrame DEF Exiting
<1>6. TreeInv'
  BY <1>0, <1>1, TreeFrame
<1>7. PauseInv'
  BY <1>0, <1>1 DEF PauseInv
<1>8. NoOversleep'
  BY <1>0, <1>1, SleepFrame
<1> QED
  BY <1>2, <1>3, <1>4, <1>5, <1>6, <1>7, <1>8 DEF Inv


\* UnscheduleEvent returns when no callback runs.
LEMMA ClientReturnInv ==
  ASSUME Inv, ClientReturn, UNCHANGED <<timerVars, waiting>> PROVE Inv'
<1>0. Types /\ RightQueue(queue) /\ HostInv /\ ArmInv /\ TreeInv /\ PauseInv /\ NoOversleep
  BY DEF Inv
<1>1. /\ client = "waiting" /\ ~InAdvance /\ client' = "unscheduled"
      /\ UNCHANGED <<now, queue, host, running, stale, deadline, eventSet, pauseSet, paused,
                     pausedSet, pauseEnd, stop, control, tree, time, nextTask, wakeup, arm,
                     waiting>>
  BY DEF ClientReturn, pauseVars, timerVars
<1>2. Types'
  BY <1>0, <1>1 DEF Types
<1>3. RightQueue(queue)'
  BY <1>0, <1>1
<1>4. HostInv'
  <2>1. Exiting' <=> Exiting
    BY <1>1 DEF Exiting
  <2>2. running = NoEvent
    BY <1>0, <1>1 DEF HostInv, InAdvance
  <2> QED
    BY <1>0, <1>1, <2>1, <2>2, TimingAssumption DEF HostInv, Queued
<1>5. ArmInv'
  BY <1>0, <1>1, ArmFrame DEF Exiting
<1>6. TreeInv'
  BY <1>0, <1>1, TreeFrame
<1>7. PauseInv'
  BY <1>0, <1>1 DEF PauseInv
<1>8. NoOversleep'
  BY <1>0, <1>1, SleepFrame
<1> QED
  BY <1>2, <1>3, <1>4, <1>5, <1>6, <1>7, <1>8 DEF Inv


\* Advance calls the callback of the first event.
LEMMA AdvanceCallInv ==
  ASSUME Inv, AdvanceCall, UNCHANGED <<timerVars, waiting>> PROVE Inv'
<1>0. Types /\ RightQueue(queue) /\ HostInv /\ ArmInv /\ TreeInv /\ PauseInv /\ NoOversleep
  BY DEF Inv
<1>1. /\ host = "advance" /\ host' = "callback" /\ queue # <<>> /\ Head(queue).time <= now
      /\ running' = Head(queue).type /\ stale' = FALSE
      /\ queue' = IF Head(queue).period = 0 THEN Tail(queue) ELSE queue
      /\ UNCHANGED <<now, deadline, eventSet, pauseSet, paused, pausedSet, pauseEnd, stop,
                     control, client, tree, time, nextTask, wakeup, arm, waiting>>
  BY DEF AdvanceCall, HeadIsDue, Go, pauseVars, timerVars
<1>a. /\ Head(queue) \in Range(queue) /\ Head(queue) \in Events /\ Head(queue).type \in {TimerEvent, LoopingEvent}
      /\ Head(queue).period = 0 <=> Head(queue).type = TimerEvent
  BY <1>0, <1>1, HeadIsFirst, EventFields
<1>b. ~Exiting /\ ~Exiting' /\ ~(arm # NoArm /\ arm.by = "host")
  BY <1>0, <1>1 DEF HostInv, ArmInv, Exiting
<1>c. ASSUME Head(queue).type = TimerEvent
      PROVE  /\ RightQueue(queue') /\ Range(queue') = {x \in Range(queue) : x.type # TimerEvent}
             /\ running' = TimerEvent /\ running' # LoopingEvent
  <2>1. queue' = Tail(queue)
    BY <1>1, <1>a, <1>c
  <2>2. RightQueue(queue') /\ Range(queue') = {x \in Range(queue) : x.type # Head(queue).type}
    BY <1>0, <1>1, <2>1, TailQueue
  <2> QED
    BY <1>1, <1>c, <2>2, TimingAssumption
<1>d. ASSUME Head(queue).type = LoopingEvent PROVE queue' = queue /\ running' = LoopingEvent
  BY <1>1, <1>a, <1>d, TimingAssumption
<1>2. Types'
  BY <1>0, <1>1, <1>a DEF Types
<1>3. RightQueue(queue)'
  BY <1>0, <1>a, <1>c, <1>d
<1>4. HostInv'
  <2>1. Queued(LoopingEvent)' <=> Queued(LoopingEvent)
    <3>1. CASE Head(queue).type = TimerEvent
      BY <1>c, <3>1, TimingAssumption DEF Queued
    <3>2. CASE Head(queue).type = LoopingEvent
      BY <1>d, <3>2 DEF Queued
    <3> QED
      BY <1>a, <3>1, <3>2
  <2>2. running' = LoopingEvent => \E e \in Range(queue') : e.type = LoopingEvent /\ e.time <= now'
    <3>1. CASE Head(queue).type = TimerEvent
      BY <1>c, <3>1
    <3>2. CASE Head(queue).type = LoopingEvent
      BY <1>1, <1>a, <1>d, <3>2
    <3> QED
      BY <1>a, <3>1, <3>2
  <2>3. client' = "unscheduled" => running' # LoopingEvent
    BY <1>0, <1>1, <1>a, <1>b DEF HostInv, Queued
  <2>4. running' # NoEvent
    BY <1>1, <1>a, TimingAssumption
  <2> QED
    BY <1>0, <1>1, <1>b, <2>1, <2>2, <2>3, <2>4 DEF HostInv
<1>5. ArmInv'
  <2>1. CASE Head(queue).type = LoopingEvent
    BY <1>0, <1>1, <1>b, <1>d, <2>1, ArmFrame
  <2>2. CASE Head(queue).type = TimerEvent
    <3>1. NoArm' = NoArm
      BY DEF NoArm
    <3>2. Called'
      BY <1>1, <1>b, <1>c, <2>2, <3>1 DEF Called
    <3>3. ~Queued(TimerEvent)'
      BY <1>c, <2>2 DEF Queued
    <3> QED
      BY <1>0, <1>1, <1>b, <3>1, <3>2, <3>3 DEF ArmInv, Never
  <2> QED
    BY <1>a, <2>1, <2>2
<1>6. TreeInv'
  BY <1>0, <1>1, TreeFrame
<1>7. PauseInv'
  BY <1>0, <1>1 DEF PauseInv
<1>8. NoOversleep'
  BY <1>0, <1>1 DEF NoOversleep
<1> QED
  BY <1>2, <1>3, <1>4, <1>5, <1>6, <1>7, <1>8 DEF Inv


\* What the queue holds when a looping event has been put back.
LEMMA AfterCallbackQueue ==
  ASSUME RightQueue(queue), now \in 1 .. MaxTime, pauseEnd \in 0 .. now,
         NEW e \in Range(queue), e.type = LoopingEvent, e.time <= now,
         NEW r, r = AfterCallback(queue, LoopingEvent, FALSE)
  PROVE  /\ RightQueue(r) /\ r # <<>>
         /\ \E x \in Range(r) : x.type = LoopingEvent
         /\ \A x : x.type = TimerEvent => (x \in Range(r) <=> x \in Range(queue))
<1> DEFINE i == CHOOSE j \in DOMAIN queue : queue[j].type = LoopingEvent
           put == [queue[i] EXCEPT !.time = NextTime(@)]
           rest == Without(queue, LoopingEvent)
<1>1. /\ DOMAIN queue = 1 .. Len(queue) /\ Len(queue) \in Nat
      /\ \A j \in DOMAIN queue : queue[j] \in Events /\ queue[j] \in Range(queue)
      /\ \A x \in Range(queue) : x \in Events /\ \E j \in DOMAIN queue : queue[j] = x
  BY SeqFacts DEF RightQueue
<1>2. PICK k \in DOMAIN queue : queue[k] = e
  BY <1>1
<1>3. i \in DOMAIN queue /\ queue[i].type = LoopingEvent
  BY <1>2
<1>4. r = Emplace(rest, put)
  BY DEF AfterCallback
<1> HIDE DEF i
<1>5. i = k
  <2>1. i < k \/ k < i \/ i = k
    BY <1>1, <1>2, <1>3, SMT
  <2> QED
    BY <1>2, <1>3, <2>1 DEF RightQueue, Ordered
<1>6. e \in Events /\ e.time \in Nat
  BY <1>1, EventFields
<1>7. NextTime(e.time) \in 1 .. MaxTime + Period
  BY <1>6, TimingAssumption, SMT DEF NextTime
<1>8. put \in Events /\ put.type = LoopingEvent
  <2>1. put = [e EXCEPT !.time = NextTime(e.time)]
    BY <1>2, <1>5
  <2> HIDE DEF put
  <2> QED
    BY <1>6, <1>7, <2>1, SMT DEF Events
<1> HIDE DEF put, rest
<1>9. RightQueue(rest) /\ \A x : x \in Range(rest) <=> x \in Range(queue) /\ x.type # LoopingEvent
  <2>1. rest = Without(queue, LoopingEvent)
    BY DEF rest
  <2> QED
    BY ONLY RightQueue(queue), <2>1, WithoutQueue, Zenon
<1>10. RightQueue(r) /\ r # <<>> /\ Range(r) = Range(rest) \cup {put}
  <2>1. \A x \in Range(rest) : x.type # put.type
    BY <1>8, <1>9
  <2> QED
    BY ONLY <1>4, <1>8, <1>9, <2>1, EmplaceFacts, Zenon
<1> QED
  BY <1>8, <1>9, <1>10, TimingAssumption


\* Advance puts a looping event back after its callback.
LEMMA AdvanceAfterInv ==
  ASSUME Inv, AdvanceAfter, UNCHANGED <<timerVars, waiting>> PROVE Inv'
<1>0. Types /\ RightQueue(queue) /\ HostInv /\ ArmInv /\ TreeInv /\ PauseInv /\ NoOversleep
  BY DEF Inv
<1>1. /\ host = "after" /\ host' = "advance" /\ running' = NoEvent /\ stale' = FALSE
      /\ queue' = IF running = LoopingEvent THEN AfterCallback(queue, running, stale) ELSE queue
      /\ UNCHANGED <<now, deadline, eventSet, pauseSet, paused, pausedSet, pauseEnd, stop,
                     control, client, tree, time, nextTask, wakeup, arm, waiting>>
  BY DEF AdvanceAfter, Go, pauseVars, timerVars
<1>a. ~Exiting /\ ~Exiting'
  BY <1>0, <1>1 DEF HostInv, Exiting
<1>b. /\ RightQueue(queue') /\ (Queued(LoopingEvent)' <=> Queued(LoopingEvent))
      /\ \A x : x.type = TimerEvent => (x \in Range(queue') <=> x \in Range(queue))
  <2>1. CASE running = LoopingEvent /\ ~stale
    <3>1. PICK e \in Range(queue) : e.type = LoopingEvent /\ e.time <= now
      BY <1>0, <2>1 DEF HostInv
    <3>2. queue' = AfterCallback(queue, LoopingEvent, FALSE)
      <4>1. stale = FALSE
        BY <1>0, <2>1 DEF Types
      <4> QED
        BY <1>1, <2>1, <4>1
    <3>3. now \in 1 .. MaxTime /\ pauseEnd \in 0 .. now
      BY <1>0 DEF Types, PauseInv
    <3>4. /\ RightQueue(queue') /\ \E x \in Range(queue') : x.type = LoopingEvent
          /\ \A x : x.type = TimerEvent => (x \in Range(queue') <=> x \in Range(queue))
      BY <1>0, <3>1, <3>2, <3>3, AfterCallbackQueue
    <3> QED
      BY <3>1, <3>4 DEF Queued
  <2>2. CASE ~(running = LoopingEvent /\ ~stale)
    <3>1. queue' = queue
      BY <1>1, <2>2 DEF AfterCallback
    <3> QED
      BY <1>0, <3>1 DEF Queued
  <2> QED
    BY <2>1, <2>2
<1>2. Types'
  BY <1>0, <1>1 DEF Types
<1>3. RightQueue(queue)'
  BY <1>b
<1>4. HostInv'
  BY <1>0, <1>1, <1>a, <1>b, TimingAssumption DEF HostInv
<1>5. ArmInv'
  BY <1>0, <1>1, <1>a, <1>b, ArmFrame
<1>6. TreeInv'
  BY <1>0, <1>1, TreeFrame
<1>7. PauseInv'
  BY <1>0, <1>1 DEF PauseInv
<1>8. NoOversleep'
  BY <1>0, <1>1 DEF NoOversleep
<1> QED
  BY <1>2, <1>3, <1>4, <1>5, <1>6, <1>7, <1>8 DEF Inv


\* ScheduleLoopingEvent puts the event into the queue.
LEMMA ClientScheduleInv ==
  ASSUME Inv, ClientSchedule, UNCHANGED <<timerVars, waiting>> PROVE Inv'
<1>0. Types /\ RightQueue(queue) /\ HostInv /\ ArmInv /\ TreeInv /\ PauseInv /\ NoOversleep
  BY DEF Inv
<1>1. /\ client = "unscheduled" /\ ~Exiting /\ client' = "signal"
      /\ queue' = Emplace(queue, [time |-> now + Period, type |-> LoopingEvent, period |-> Period])
      /\ UNCHANGED <<now, host, running, stale, deadline, eventSet, pauseSet, paused,
                     pausedSet, pauseEnd, stop, control, tree, time, nextTask, wakeup, arm,
                     waiting>>
  BY DEF ClientSchedule, Schedule, pauseVars, timerVars
<1> DEFINE put == [time |-> now + Period, type |-> LoopingEvent, period |-> Period]
<1>a. ~Exiting'
  BY <1>1 DEF Exiting
<1>b. put \in Events /\ put.type = LoopingEvent
  <2>1. now + Period \in 1 .. MaxTime + Period /\ Period # 0
    BY <1>0, TimingAssumption, SMT DEF Types
  <2> QED
    BY <2>1, TimingAssumption, SMT DEF Events
<1>c. \A x \in Range(queue) : x.type # LoopingEvent
  BY <1>0, <1>1 DEF HostInv, Queued
<1> HIDE DEF put
<1>d. RightQueue(queue') /\ Range(queue') = Range(queue) \cup {put}
  <2>1. queue' = Emplace(queue, put)
    BY <1>1 DEF put
  <2>2. \A x \in Range(queue) : x.type # put.type
    BY <1>b, <1>c
  <2> QED
    BY ONLY <1>0, <1>b, <2>1, <2>2, EmplaceFacts, Zenon
<1>2. Types'
  BY <1>0, <1>1 DEF Types
<1>3. RightQueue(queue)'
  BY <1>d
<1>4. HostInv'
  <2>1. Queued(LoopingEvent)'
    BY <1>b, <1>d DEF Queued
  <2> QED
    BY <1>0, <1>1, <1>a, <2>1 DEF HostInv
<1>5. ArmInv'
  <2>1. \A e : e.type = TimerEvent => (e \in Range(queue') <=> e \in Range(queue))
    BY <1>b, <1>d, TimingAssumption
  <2> QED
    BY <1>0, <1>1, <1>a, <2>1, ArmFrame
<1>6. TreeInv'
  BY <1>0, <1>1, TreeFrame
<1>7. PauseInv'
  BY <1>0, <1>1 DEF PauseInv
<1>8. NoOversleep'
  BY <1>0, <1>1 DEF NoOversleep
<1> QED
  BY <1>2, <1>3, <1>4, <1>5, <1>6, <1>7, <1>8 DEF Inv


\* UnscheduleEvent takes the looping event out of the queue.
LEMMA ClientUnscheduleInv ==
  ASSUME Inv, ClientUnschedule, UNCHANGED <<timerVars, waiting>> PROVE Inv'
<1>0. Types /\ RightQueue(queue) /\ HostInv /\ ArmInv /\ TreeInv /\ PauseInv /\ NoOversleep
  BY DEF Inv
<1>1. /\ client = "scheduled" /\ ~Exiting /\ client' = "waiting"
      /\ queue' = Without(queue, LoopingEvent)
      /\ stale' = (stale \/ running = LoopingEvent)
      /\ UNCHANGED <<now, host, running, deadline, eventSet, pauseSet, paused, pausedSet,
                     pauseEnd, stop, control, tree, time, nextTask, wakeup, arm, waiting>>
  BY DEF ClientUnschedule, Unschedule, pauseVars, timerVars
<1>a. ~Exiting'
  BY <1>1 DEF Exiting
<1>b. /\ RightQueue(queue') /\ \A x : x \in Range(queue') <=> x \in Range(queue) /\ x.type # LoopingEvent
      /\ queue' # <<>> => queue # <<>> /\ Head(queue).time <= Head(queue').time
  <2>1. queue' = Without(queue, LoopingEvent)
    BY <1>1
  <2> QED
    BY ONLY <1>0, <2>1, WithoutQueue, Zenon
<1>c. stale' \in BOOLEAN /\ (~stale' => running # LoopingEvent)
  BY <1>1
<1>2. Types'
  BY <1>0, <1>1, <1>c DEF Types
<1>3. RightQueue(queue)'
  BY <1>b
<1>4. HostInv'
  <2>1. ~Queued(LoopingEvent)'
    BY <1>b DEF Queued
  <2> QED
    BY <1>0, <1>1, <1>a, <1>c, <2>1 DEF HostInv
<1>5. ArmInv'
  <2>1. \A e : e.type = TimerEvent => (e \in Range(queue') <=> e \in Range(queue))
    BY <1>b, TimingAssumption
  <2> QED
    BY <1>0, <1>1, <1>a, <2>1, ArmFrame
<1>6. TreeInv'
  BY <1>0, <1>1, TreeFrame
<1>7. PauseInv'
  BY <1>0, <1>1 DEF PauseInv
<1>8. NoOversleep'
  BY <1>0, <1>1, <1>b, SleepLater
<1> QED
  BY <1>2, <1>3, <1>4, <1>5, <1>6, <1>7, <1>8 DEF Inv


\* DisableInterrupt takes the timer's event out of the queue.
LEMMA DisableInterruptInv ==
  ASSUME Inv, DisableInterrupt, UNCHANGED waiting PROVE Inv'
<1>0. Types /\ RightQueue(queue) /\ HostInv /\ ArmInv /\ TreeInv /\ PauseInv /\ NoOversleep
  BY DEF Inv
<1>1. /\ arm.at = "unschedule" /\ arm' = [arm EXCEPT !.at = "schedule"] /\ wakeup' = Never
      /\ queue' = Without(queue, TimerEvent)
      /\ stale' = (stale \/ running = TimerEvent)
      /\ UNCHANGED <<now, host, running, deadline, eventSet, pauseSet, paused, pausedSet,
                     pauseEnd, stop, control, client, tree, time, nextTask, waiting>>
  BY DEF DisableInterrupt, Unschedule, pauseVars
<1>a. arm # NoArm /\ ~Exiting /\ ~Exiting'
  <2>1. arm # NoArm
    BY <1>1, NoArmAt
  <2> QED
    BY <1>0, <1>1, <2>1 DEF ArmInv, Exiting
<1>b. /\ RightQueue(queue') /\ \A x : x \in Range(queue') <=> x \in Range(queue) /\ x.type # TimerEvent
      /\ queue' # <<>> => queue # <<>> /\ Head(queue).time <= Head(queue').time
  <2>1. queue' = Without(queue, TimerEvent)
    BY <1>1
  <2> QED
    BY ONLY <1>0, <2>1, WithoutQueue, Zenon
<1>c. stale' \in BOOLEAN /\ (~stale' => ~stale)
  BY <1>1
<1>d. Never \in 1 .. Never
  BY TimingAssumption, SMT DEF Never
<1>e. /\ arm' \in [at : {"none", "unschedule", "schedule", "signal"}, time : 0 .. MaxTime, by : {"core", "host"}]
      /\ arm'.at = "schedule" /\ arm'.time = arm.time /\ arm'.by = arm.by
  <2>1. arm \in [at : {"none", "unschedule", "schedule", "signal"}, time : 0 .. MaxTime, by : {"core", "host"}]
    BY <1>0 DEF ArmInv
  <2>2. arm' = [arm EXCEPT !.at = "schedule"]
    BY <1>1
  <2> QED
    BY ONLY <2>1, <2>2, SMT
<1>2. Types'
  BY <1>0, <1>1, <1>c, <1>d, ZenonT(60) DEF Types, Never
<1>3. RightQueue(queue)'
  BY <1>b
<1>4. HostInv'
  <2>1. \A e : e.type = LoopingEvent => (e \in Range(queue') <=> e \in Range(queue))
    BY <1>b, TimingAssumption
  <2>2. Queued(LoopingEvent)' <=> Queued(LoopingEvent)
    BY <2>1 DEF Queued
  <2> QED
    BY <1>0, <1>1, <1>a, <1>c, <2>1, <2>2 DEF HostInv
<1>5. ArmInv'
  <2>1. ~Queued(TimerEvent)'
    BY <1>b DEF Queued
  <2>2. wakeup' = Never'
    BY <1>1 DEF Never
  <2>3. arm' # NoArm
    BY <1>e, NoArmAt
  <2> QED
    BY <1>0, <1>1, <1>a, <1>e, <2>1, <2>2, <2>3 DEF ArmInv
<1>6. TreeInv'
  BY <1>0, <1>1, TreeFrame
<1>7. PauseInv'
  BY <1>0, <1>1 DEF PauseInv
<1>8. NoOversleep'
  BY <1>0, <1>1, <1>b, SleepLater
<1> QED
  BY <1>2, <1>3, <1>4, <1>5, <1>6, <1>7, <1>8 DEF Inv


\* EnableInterrupt puts the timer's event into the queue.
LEMMA ScheduleInterruptInv ==
  ASSUME Inv, ScheduleInterrupt, UNCHANGED waiting PROVE Inv'
<1>0. Types /\ RightQueue(queue) /\ HostInv /\ ArmInv /\ TreeInv /\ PauseInv /\ NoOversleep
  BY DEF Inv
<1>1. /\ arm.at = "schedule" /\ arm' = [arm EXCEPT !.at = "signal"] /\ wakeup' = arm.time
      /\ queue' = Emplace(queue, [time |-> arm.time, type |-> TimerEvent, period |-> 0])
      /\ UNCHANGED <<now, host, running, stale, deadline, eventSet, pauseSet, paused,
                     pausedSet, pauseEnd, stop, control, client, tree, time, nextTask, waiting>>
  BY DEF ScheduleInterrupt, Schedule, pauseVars
<1> DEFINE put == [time |-> arm.time, type |-> TimerEvent, period |-> 0]
<1>a. arm # NoArm /\ ~Exiting /\ ~Exiting'
  <2>1. arm # NoArm
    BY <1>1, NoArmAt
  <2> QED
    BY <1>0, <1>1, <2>1 DEF ArmInv, Exiting
<1>b. arm.time \in 1 .. MaxTime
  BY <1>0, <1>a, NextIsFirst DEF ArmInv
<1>c. put \in Events /\ put.type = TimerEvent /\ put.time = arm.time
  <2>1. arm.time \in 1 .. MaxTime + Period /\ Period # 0
    BY <1>b, TimingAssumption, SMT
  <2> QED
    BY <2>1, TimingAssumption, SMT DEF Events
<1>d. \A x \in Range(queue) : x.type # TimerEvent
  BY <1>0, <1>1 DEF ArmInv, Queued
<1> HIDE DEF put
<1>e. RightQueue(queue') /\ Range(queue') = Range(queue) \cup {put}
  <2>1. queue' = Emplace(queue, put)
    BY <1>1 DEF put
  <2>2. \A x \in Range(queue) : x.type # put.type
    BY <1>c, <1>d
  <2> QED
    BY ONLY <1>0, <1>c, <2>1, <2>2, EmplaceFacts, Zenon
<1>f. /\ arm' \in [at : {"none", "unschedule", "schedule", "signal"}, time : 0 .. MaxTime, by : {"core", "host"}]
      /\ arm'.at = "signal" /\ arm'.time = arm.time /\ arm'.by = arm.by
  <2>1. arm \in [at : {"none", "unschedule", "schedule", "signal"}, time : 0 .. MaxTime, by : {"core", "host"}]
    BY <1>0 DEF ArmInv
  <2>2. arm' = [arm EXCEPT !.at = "signal"]
    BY <1>1
  <2> QED
    BY ONLY <2>1, <2>2, SMT
<1>2. Types'
  <2>1. wakeup' \in 1 .. Never
    BY <1>1, <1>b, TimingAssumption, SMT DEF Never
  <2>2. UNCHANGED <<now, deadline, host, running, stale, eventSet, pauseSet, paused, pausedSet, stop, client>>
    BY <1>1
  <2> QED
    BY <1>0, <2>1, <2>2, SMT DEF Types, Never
<1>3. RightQueue(queue)'
  BY <1>e
<1>4. HostInv'
  <2>1. \A e : e.type = LoopingEvent => (e \in Range(queue') <=> e \in Range(queue))
    BY <1>c, <1>e, TimingAssumption
  <2>2. Queued(LoopingEvent)' <=> Queued(LoopingEvent)
    BY <2>1 DEF Queued
  <2> QED
    BY <1>0, <1>1, <1>a, <2>1, <2>2 DEF HostInv
<1>5. ArmInv'
  <2>1. \E e \in Range(queue') : e.type = TimerEvent /\ e.time = wakeup'
    BY <1>1, <1>c, <1>e
  <2>2. arm' # NoArm
    BY <1>f, NoArmAt
  <2> QED
    BY <1>0, <1>1, <1>a, <1>f, <2>1, <2>2 DEF ArmInv
<1>6. TreeInv'
  BY <1>0, <1>1, TreeFrame
<1>7. PauseInv'
  BY <1>0, <1>1 DEF PauseInv
<1>8. NoOversleep'
  BY <1>f DEF NoOversleep
<1> QED
  BY <1>2, <1>3, <1>4, <1>5, <1>6, <1>7, <1>8 DEF Inv


\* EnableInterrupt sets event and returns.
LEMMA SignalInterruptInv ==
  ASSUME Inv, SignalInterrupt, UNCHANGED waiting PROVE Inv'
<1>0. Types /\ RightQueue(queue) /\ HostInv /\ ArmInv /\ TreeInv /\ PauseInv /\ NoOversleep
  BY DEF Inv
<1>1. /\ arm.at = "signal" /\ arm' = NoArm /\ eventSet' = TRUE
      /\ host' = IF arm.by = "host" THEN "after" ELSE host
      /\ UNCHANGED <<now, queue, running, stale, deadline, pauseSet, paused, pausedSet,
                     pauseEnd, stop, control, client, tree, time, nextTask, wakeup, waiting>>
  BY DEF SignalInterrupt, pauseVars
<1>a. arm # NoArm /\ ~Exiting /\ ~Exiting'
  <2>1. arm # NoArm
    BY <1>1, NoArmAt
  <2> QED
    BY <1>0, <1>1, <2>1 DEF ArmInv, Exiting
<1>b. /\ arm.by = "host" => host = "callback" /\ running = TimerEvent
      /\ wakeup = arm.time /\ nextTask # NoThread /\ arm.time = time[nextTask]
      /\ wakeup # Never => Called \/ \E e \in Range(queue) : e.type = TimerEvent /\ e.time = wakeup
  BY <1>0, <1>1, <1>a DEF ArmInv
<1>c. arm'.at = "none" /\ arm' = NoArm'
  BY <1>1 DEF NoArm
<1>2. Types'
  BY <1>0, <1>1, <1>b DEF Types
<1>3. RightQueue(queue)'
  BY <1>0, <1>1
<1>4. HostInv'
  <2>1. host' \in {"callback", "after"} <=> host \in {"callback", "after"}
    BY <1>1, <1>b
  <2> QED
    BY <1>0, <1>1, <1>a, <2>1, HostFrame
<1>5. ArmInv'
  <2>1. Called => Called'
    BY <1>1, <1>a, <1>c DEF Called
  <2>2. arm' \in [at : {"none", "unschedule", "schedule", "signal"}, time : 0 .. MaxTime, by : {"core", "host"}]
    BY <1>1, TimingAssumption, SMT DEF NoArm
  <2>3. wakeup' <= time'[nextTask']
    <3>1. wakeup \in Nat
      BY <1>0, TimingAssumption, SMT DEF Types
    <3>2. wakeup <= wakeup
      BY <3>1, SMT
    <3> QED
      BY <1>1, <1>b, <3>2
  <2>4. wakeup' # Never' => Called' \/ \E e \in Range(queue') : e.type = TimerEvent /\ e.time = wakeup'
    BY <1>1, <1>b, <2>1 DEF Never
  <2> QED
    BY <1>c, <2>2, <2>3, <2>4 DEF ArmInv
<1>6. TreeInv'
  BY <1>0, <1>1, TreeFrame
<1>7. PauseInv'
  BY <1>0, <1>1, <1>b DEF PauseInv
<1>8. NoOversleep'
  BY <1>0, <1>1 DEF NoOversleep
<1> QED
  BY <1>2, <1>3, <1>4, <1>5, <1>6, <1>7, <1>8 DEF Inv


\* ClearPendingEvents, when no thread is in the timer or in Advance.
LEMMA ClearPendingEventsInv ==
  ASSUME Inv, ClearPendingEvents, TimerUnlocked, UNCHANGED <<timerVars, waiting>> PROVE Inv'
<1>0. Types /\ RightQueue(queue) /\ HostInv /\ ArmInv /\ TreeInv /\ PauseInv /\ NoOversleep
  BY DEF Inv
<1>1. /\ control = "idle" /\ control' = "cleared" /\ ~InAdvance /\ queue' = <<>> /\ eventSet' = TRUE /\ arm = NoArm
      /\ UNCHANGED <<now, host, running, stale, deadline, pauseSet, paused, pausedSet,
                     pauseEnd, stop, client, tree, time, nextTask, wakeup, arm, waiting>>
  BY DEF ClearPendingEvents, TimerUnlocked, timerVars
<1>a. Exiting'
  BY <1>1 DEF Exiting
<1>b. running = NoEvent
  BY <1>0, <1>1 DEF HostInv, InAdvance
<1>c. arm' = NoArm' /\ arm'.at = "none"
  BY <1>1 DEF NoArm
<1>2. Types'
  BY <1>0, <1>1, ZenonT(60) DEF Types
<1>3. RightQueue(queue)'
  <2>1. <<>> \in Seq(Events) /\ DOMAIN <<>> = {}
    BY SMT
  <2> QED
    BY <1>1, <2>1 DEF RightQueue, Ordered
<1>4. HostInv'
  BY <1>0, <1>1, <1>a, <1>b, TimingAssumption DEF HostInv
<1>5. ArmInv'
  BY <1>0, <1>1, <1>a, <1>c DEF ArmInv
<1>6. TreeInv'
  BY <1>0, <1>1, TreeFrame
<1>7. PauseInv'
  BY <1>0, <1>1 DEF PauseInv
<1>8. NoOversleep'
  BY <1>0, <1>1 DEF NoOversleep
<1> QED
  BY <1>2, <1>3, <1>4, <1>5, <1>6, <1>7, <1>8 DEF Inv


\* Finalize.
LEMMA FinalizeInv ==
  ASSUME Inv, Finalize, UNCHANGED waiting PROVE Inv'
<1>0. Types /\ RightQueue(queue) /\ HostInv /\ ArmInv /\ TreeInv /\ PauseInv /\ NoOversleep
  BY DEF Inv
<1>1. /\ control \in {"cleared", "finalize"} /\ control' \in {"finalize", "finalized"}
      /\ UNCHANGED <<now, host, running, deadline, eventSet, pauseSet, paused, pausedSet,
                     pauseEnd, stop, client, tree, time, nextTask, arm, waiting>>
  BY DEF Finalize
<1>a. Exiting /\ Exiting'
  BY <1>1 DEF Exiting
<1>b. queue = <<>> /\ running = NoEvent /\ arm = NoArm
  BY <1>0, <1>a DEF HostInv, ArmInv
<1>c. queue' = queue
  <2>1. CASE control = "cleared"
    <3>1. queue' = Without(queue, TimerEvent)
      BY <2>1 DEF Finalize, Unschedule
    <3>2. queue' # <<>> => queue # <<>>
      BY ONLY <1>0, <3>1, WithoutQueue, Zenon
    <3> QED
      BY <1>b, <3>2
  <2>2. CASE control = "finalize"
    BY <2>2 DEF Finalize
  <2> QED
    BY <1>1, <2>1, <2>2
<1>d. stale' \in BOOLEAN
  BY <1>0 DEF Finalize, Unschedule, Types
<1>e. wakeup' \in 1 .. Never
  <2>1. Never \in 1 .. Never
    BY TimingAssumption, SMT DEF Never
  <2> QED
    BY <1>0, <2>1 DEF Finalize, Types
<1>f. arm' = NoArm' /\ arm'.at = "none"
  BY <1>1, <1>b DEF NoArm
<1>2. Types'
  BY <1>0, <1>1, <1>d, <1>e, ZenonT(60) DEF Types, Never
<1>3. RightQueue(queue)'
  BY <1>0, <1>c
<1>4. HostInv'
  BY <1>0, <1>1, <1>a, <1>b, <1>c, TimingAssumption DEF HostInv
<1>5. ArmInv'
  BY <1>0, <1>1, <1>a, <1>f DEF ArmInv
<1>6. TreeInv'
  BY <1>0, <1>1, TreeFrame
<1>7. PauseInv'
  BY <1>0, <1>1 DEF PauseInv
<1>8. NoOversleep'
  BY <1>b, <1>c DEF NoOversleep
<1> QED
  BY <1>2, <1>3, <1>4, <1>5, <1>6, <1>7, <1>8 DEF Inv


\* A thread sleeps: its task becomes the next and arms the interrupt, or does not.
LEMMA SleepInv ==
  ASSUME Inv, NEW t \in Threads, NEW timeout \in Timeouts[t], Sleep(t, timeout) PROVE Inv'
<1>0. Types /\ RightQueue(queue) /\ HostInv /\ ArmInv /\ TreeInv /\ PauseInv /\ NoOversleep
  BY DEF Inv
<1>1. /\ arm = NoArm /\ ~Exiting /\ t \notin waiting /\ waiting' = waiting \cup {t}
      /\ UNCHANGED <<now, queue, host, running, stale, deadline, eventSet, pauseSet, paused,
                     pausedSet, pauseEnd, stop, control, client, wakeup>>
  BY DEF Sleep, TimerUnlocked, RegisterAbsoluteTask, timingVars, pauseVars
<1> DEFINE w == now + timeout
<1>a. /\ RegisterAbsoluteTaskImpl(t, w)
      /\ arm' = IF BecomesNext(w) /\ w <= wakeup THEN [at |-> "unschedule", time |-> w, by |-> "core"] ELSE NoArm
  BY <1>1 DEF Sleep, RegisterAbsoluteTask, EnableInterrupt
<1>b. w \in 1 .. MaxTime
  <2>1. timeout \in Nat \ {0} /\ now + timeout <= MaxTime
    BY TimerAssumption DEF Sleep
  <2> QED
    BY <1>0, <2>1, TimingAssumption, SMT DEF Types
<1> HIDE DEF w
<1>c. /\ TreeInv'
      /\ BecomesNext(w) => nextTask' = t /\ time'[t] = w
      /\ ~BecomesNext(w) => /\ nextTask # NoThread /\ nextTask' = nextTask
                            /\ time'[nextTask] = time[nextTask] /\ time[nextTask] <= w
  BY <1>0, <1>1, <1>a, <1>b, RegisterTree
<1>d. ~Exiting' /\ t # NoThread /\ NoArm' = NoArm /\ NoArm.at = "none"
  BY <1>1, TimerAssumption, NoArmAt DEF Exiting, NoArm
<1>2. Types'
  BY <1>0, <1>1, TypesFrame
<1>3. RightQueue(queue)'
  BY <1>0, <1>1
<1>4. HostInv'
  BY <1>0, <1>1, <1>d, HostFrame
<1>5. ArmInv'
  <2>1. CASE BecomesNext(w) /\ w <= wakeup
    <3>1. arm' = [at |-> "unschedule", time |-> w, by |-> "core"]
      BY <1>a, <2>1
    <3>2. arm' \in [at : {"none", "unschedule", "schedule", "signal"}, time : 0 .. MaxTime, by : {"core", "host"}]
      BY <1>b, <3>1, TimingAssumption, SMT
    <3>3. arm'.at = "unschedule" /\ arm'.time = w /\ arm'.by = "core" /\ arm' # NoArm
      <4>1. arm'.at = "unschedule" /\ arm'.time = w /\ arm'.by = "core"
        BY ONLY <3>1, SMT
      <4> QED
        BY <1>d, <4>1
    <3>4. nextTask' # NoThread /\ arm'.time = time'[nextTask']
      BY <1>c, <1>d, <2>1, <3>3
    <3> QED
      BY <1>d, <3>2, <3>3, <3>4 DEF ArmInv
  <2>2. CASE ~(BecomesNext(w) /\ w <= wakeup)
    <3>1. arm' = arm
      BY <1>1, <1>a, <2>2
    <3>2. wakeup <= time'[nextTask']
      <4>1. CASE BecomesNext(w)
        <5>1. wakeup <= w
          BY <1>0, <1>b, <2>2, <4>1, TimingAssumption, SMT DEF Types
        <5> QED
          BY <1>c, <4>1, <5>1
      <4>2. CASE ~BecomesNext(w)
        BY <1>0, <1>1, <1>c, <4>2 DEF ArmInv
      <4> QED
        BY <4>1, <4>2
    <3>3. Called => Called'
      BY <1>1, <1>d, <3>1 DEF Called
    <3>4. wakeup' # Never' => Called' \/ \E e \in Range(queue') : e.type = TimerEvent /\ e.time = wakeup'
      BY <1>0, <1>1, <1>d, <3>3 DEF ArmInv, Never
    <3> QED
      BY <1>0, <1>1, <1>d, <3>1, <3>2, <3>4 DEF ArmInv
  <2> QED
    BY <2>1, <2>2
<1>6. TreeInv'
  BY <1>c
<1>7. PauseInv'
  BY <1>0, <1>1 DEF PauseInv
<1>8. NoOversleep'
  BY <1>0, <1>1, <1>d, SleepFrame
<1> QED
  BY <1>2, <1>3, <1>4, <1>5, <1>6, <1>7, <1>8 DEF Inv


\* A wait is ended: the interrupt stays armed, for an earlier time than it need be.
LEMMA EndWaitInv ==
  ASSUME Inv, NEW t \in Threads, EndWait(t) PROVE Inv'
<1>0. Types /\ RightQueue(queue) /\ HostInv /\ ArmInv /\ TreeInv /\ PauseInv /\ NoOversleep
  BY DEF Inv
<1>1. /\ arm = NoArm /\ ~Exiting /\ t \in waiting /\ waiting' = waiting \ {t}
      /\ UNCHANGED <<now, queue, host, running, stale, deadline, eventSet, pauseSet, paused,
                     pausedSet, pauseEnd, stop, control, client, wakeup, arm>>
  BY DEF EndWait, TimerUnlocked, timingVars, pauseVars
<1>a. RemoveTaskFromTree(t)
  BY <1>0, <1>1 DEF EndWait, CancelTask, TreeInv, TreeIsRight
<1>b. /\ TreeInv'
      /\ nextTask' # NoThread => nextTask # NoThread /\ time[nextTask] <= time'[nextTask']
  BY <1>0, <1>1, <1>a, CancelTree
<1>c. ~Exiting' /\ NoArm' = NoArm /\ NoArm.at = "none"
  BY <1>1, NoArmAt DEF Exiting, NoArm
<1>2. Types'
  BY <1>0, <1>1, TypesFrame
<1>3. RightQueue(queue)'
  BY <1>0, <1>1
<1>4. HostInv'
  BY <1>0, <1>1, <1>c, HostFrame
<1>5. ArmInv'
  <2>1. ASSUME nextTask' # NoThread PROVE wakeup <= time'[nextTask']
    <3>1. /\ nextTask # NoThread /\ time[nextTask] <= time'[nextTask'] /\ wakeup <= time[nextTask]
          /\ time[nextTask] \in 1 .. MaxTime
      BY <1>0, <1>1, <1>b, <2>1, NextIsFirst DEF ArmInv
    <3>2. time'[nextTask'] \in 0 .. MaxTime
      <4>1. nextTask' \in Threads /\ time' \in [Threads -> 0 .. MaxTime]
        <5>1. tree' \in Seq(Threads) /\ nextTask' = IF tree' = <<>> THEN NoThread ELSE Head(tree')
          BY <1>b DEF TreeInv, TreeIsRight
        <5>2. tree' # <<>>
          BY <2>1, <5>1
        <5>3. Head(tree') \in Threads
          BY <5>1, <5>2, SMT
        <5> QED
          BY <1>b, <5>1, <5>2, <5>3 DEF TreeInv
      <4> QED
        BY <4>1
    <3> QED
      BY <1>0, <3>1, <3>2, TimingAssumption, SMT DEF Types
  <2>2. Called => Called'
    BY <1>1, <1>c DEF Called
  <2>3. wakeup' # Never' => Called' \/ \E e \in Range(queue') : e.type = TimerEvent /\ e.time = wakeup'
    BY <1>0, <1>1, <1>c, <2>2 DEF ArmInv, Never
  <2> QED
    BY <1>0, <1>1, <1>c, <2>1, <2>3 DEF ArmInv
<1>6. TreeInv'
  BY <1>b
<1>7. PauseInv'
  BY <1>0, <1>1 DEF PauseInv
<1>8. NoOversleep'
  BY <1>0, <1>1, <1>c, SleepFrame
<1> QED
  BY <1>2, <1>3, <1>4, <1>5, <1>6, <1>7, <1>8 DEF Inv


\* The callback of the timer takes the tasks that are due and arms the interrupt for the next.
LEMMA TimerCallbackInv ==
  ASSUME Inv, TimerCallback PROVE Inv'
<1>0. Types /\ RightQueue(queue) /\ HostInv /\ ArmInv /\ TreeInv /\ PauseInv /\ NoOversleep
  BY DEF Inv
<1>1. /\ host = "callback" /\ running = TimerEvent /\ arm = NoArm
      /\ UNCHANGED <<now, queue, running, stale, deadline, eventSet, pauseSet, paused,
                     pausedSet, pauseEnd, stop, control, client>>
  BY DEF TimerCallback, DoTask, TimerUnlocked, pauseVars
<1>a. ~Exiting /\ ~Exiting' /\ NoArm' = NoArm /\ NoArm.at = "none"
  BY <1>0, <1>1, TimingAssumption, NoArmAt DEF HostInv, Exiting, NoArm
<1>b. ASSUME wakeup = Never
      PROVE  host' = "after" /\ UNCHANGED <<tree, time, nextTask, wakeup, arm, waiting>>
  BY <1>b DEF TimerCallback, DoTask, TimedOut, Go, timerVars
<1> DEFINE next == IF BehindDue > Len(tree) THEN NoThread ELSE tree[BehindDue]
<1>c. ASSUME wakeup # Never
      PROVE  /\ tree' = Erase(tree, FirstDue, BehindDue) /\ nextTask' = next
             /\ time' = [t \in Threads |-> IF t \in Due THEN 0 ELSE time[t]]
             /\ waiting' = waiting \ Due /\ wakeup' = Never
             /\ next = NoThread => host' = "after" /\ arm' = arm
             /\ next # NoThread => host' = host /\ arm' = [at |-> "unschedule", time |-> time[next], by |-> "host"]
  BY <1>c DEF TimerCallback, DoTask, TimedOut, Go, EnableInterrupt
<1> HIDE DEF next
<1>d. ASSUME wakeup # Never
      PROVE  /\ TreeInv'
             /\ nextTask' # NoThread => nextTask' \in Threads /\ time'[nextTask'] = time[nextTask']
  <2>1. nextTask' = IF BehindDue > Len(tree) THEN NoThread ELSE tree[BehindDue]
    BY <1>c, <1>d DEF next
  <2>2. /\ tree' = Erase(tree, FirstDue, BehindDue)
        /\ time' = [t \in Threads |-> IF t \in Due THEN 0 ELSE time[t]]
        /\ waiting' = waiting \ Due
    BY <1>c, <1>d
  <2> QED
    BY ONLY <1>0, <2>1, <2>2, DueTree, Zenon
<1>e. host' \in {"callback", "after"}
  BY <1>1, <1>b, <1>c
<1>f. wakeup' = Never
  BY <1>b, <1>c
<1>2. Types'
  <2>1. Never \in 1 .. Never
    BY TimingAssumption, SMT DEF Never
  <2> QED
    BY <1>0, <1>1, <1>e, <1>f, <2>1 DEF Types, Never
<1>3. RightQueue(queue)'
  BY <1>0, <1>1
<1>4. HostInv'
  BY <1>0, <1>1, <1>a, <1>e, HostFrame
<1>5. ArmInv'
  <2>0. wakeup' = Never'
    BY <1>f DEF Never
  <2>1. CASE wakeup = Never
    BY <1>0, <1>1, <1>a, <1>b, <2>0, <2>1 DEF ArmInv, Never
  <2>2. CASE wakeup # Never /\ nextTask' = NoThread
    <3>1. arm' = arm
      BY <1>c, <2>2
    <3> QED
      BY <1>0, <1>1, <1>a, <2>0, <2>2, <3>1 DEF ArmInv
  <2>3. CASE wakeup # Never /\ nextTask' # NoThread
    <3>1. arm' = [at |-> "unschedule", time |-> time[nextTask'], by |-> "host"] /\ host' = "callback"
      BY <1>1, <1>c, <2>3
    <3>2. nextTask' \in Threads /\ time'[nextTask'] = time[nextTask']
      BY <1>d, <2>3
    <3>3. time[nextTask'] \in 0 .. MaxTime
      BY <1>0, <3>2 DEF TreeInv
    <3>4. arm' \in [at : {"none", "unschedule", "schedule", "signal"}, time : 0 .. MaxTime, by : {"core", "host"}]
      BY <3>1, <3>3, SMT
    <3>5. arm'.at = "unschedule" /\ arm'.time = time'[nextTask'] /\ arm' # NoArm
      <4>1. arm'.at = "unschedule" /\ arm'.time = time[nextTask']
        BY ONLY <3>1, SMT
      <4> QED
        BY <1>a, <3>2, <4>1
    <3> QED
      BY <1>1, <1>a, <2>3, <3>1, <3>4, <3>5 DEF ArmInv
  <2> QED
    BY <2>1, <2>2, <2>3
<1>6. TreeInv'
  <2>1. CASE wakeup = Never
    BY <1>0, <1>b, <2>1, TreeFrame
  <2> QED
    BY <1>d, <2>1
<1>7. PauseInv'
  BY <1>0, <1>1, <1>e DEF PauseInv
<1>8. NoOversleep'
  BY <1>e DEF NoOversleep
<1> QED
  BY <1>2, <1>3, <1>4, <1>5, <1>6, <1>7, <1>8 DEF Inv


----------------------------------------------------------------------------
(* The theorems. *)

LEMMA InitInv == Init => Inv
<1> SUFFICES ASSUME Init PROVE Inv
  OBVIOUS
<1> USE DEF Init, TimingInit, TimerInit
<1>1. Types
  <2>1. 1 \in 1 .. MaxTime /\ Never \in 1 .. Never /\ 0 \in 0 .. MaxTime + Period
    BY TimingAssumption, SMT DEF Never
  <2> QED
    BY <2>1 DEF Types
<1>2. RightQueue(queue)
  <2>1. <<>> \in Seq(Events) /\ DOMAIN <<>> = {}
    BY SMT
  <2> QED
    BY <2>1 DEF RightQueue, Ordered
<1>3. Range(queue) = {} /\ Range(tree) = {}
  <2>1. DOMAIN <<>> = {}
    BY SMT
  <2> QED
    BY <2>1 DEF Range
<1>4. HostInv
  BY <1>3, TimingAssumption DEF HostInv, Exiting, Queued
<1>5. ArmInv
  <2>1. NoArm \in [at : {"none", "unschedule", "schedule", "signal"}, time : 0 .. MaxTime, by : {"core", "host"}]
    BY TimingAssumption, SMT DEF NoArm
  <2> QED
    BY <2>1, NoArmAt DEF ArmInv
<1>6. TreeInv
  <2>1. time \in [Threads -> 0 .. MaxTime] /\ \A t \in Threads : ~(time[t] > 0)
    BY TimingAssumption, SMT
  <2>2. <<>> \in Seq(Threads) /\ DOMAIN <<>> = {}
    BY SMT
  <2> QED
    BY <1>3, <2>1, <2>2 DEF TreeInv, TreeIsRight
<1>7. PauseInv
  <2>1. 0 \in 0 .. 1
    BY SMT
  <2> QED
    BY <2>1 DEF PauseInv
<1>8. NoOversleep
  BY DEF NoOversleep
<1> QED
  BY <1>1, <1>2, <1>4, <1>5, <1>6, <1>7, <1>8 DEF Inv

\* One step per action.
LEMMA NextInv == Inv /\ [Next]_vars => Inv'
<1> SUFFICES ASSUME Inv, [Next]_vars PROVE Inv'
  OBVIOUS
<1>1. CASE TimerThreadStep /\ UNCHANGED <<timerVars, waiting>>
  BY <1>1, OuterLoopInv, InnerLoopInv, PauseWaitInv, AdvanceCallInv, AdvanceReturnInv, EventWaitInv, AdvanceAfterInv
     DEF TimerThreadStep
<1>2. CASE TimerCallback \/ LoopingCallback
  BY <1>2, TimerCallbackInv, LoopingCallbackInv
<1>3. CASE EnableInterruptStep /\ UNCHANGED waiting
  BY <1>3, DisableInterruptInv, ScheduleInterruptInv, SignalInterruptInv DEF EnableInterruptStep
<1>4. CASE \E t \in Threads : EndWait(t) \/ \E timeout \in Timeouts[t] : Sleep(t, timeout)
  BY <1>4, EndWaitInv, SleepInv
<1>5. CASE Tick /\ OutsideTimer
  BY <1>5, TickInv DEF OutsideTimer
<1>6. CASE ControlStep /\ OutsideTimer
  BY <1>6, SyncPauseSetInv, SyncPauseReturnInv DEF ControlStep, OutsideTimer
<1>7. CASE ClientStep /\ OutsideTimer
  BY <1>7, ClientScheduleInv, ClientSignalInv, ClientUnscheduleInv, ClientReturnInv DEF ClientStep, OutsideTimer
<1>8. CASE Reset /\ OutsideTimer
  BY <1>8, ResetInv DEF OutsideTimer
<1>9. CASE (\E isPaused \in BOOLEAN : SyncPause(isPaused)) /\ OutsideTimer
  BY <1>9, SyncPauseInv DEF OutsideTimer
<1>10. CASE ClearPendingEvents /\ TimerUnlocked /\ OutsideTimer
  BY <1>10, ClearPendingEventsInv DEF OutsideTimer
<1>11. CASE Finalize /\ UNCHANGED waiting
  BY <1>11, FinalizeInv
<1>12. CASE UNCHANGED vars
  <2>1. /\ UNCHANGED <<now, queue, host, running, stale, deadline, eventSet, client, tree, time, nextTask, wakeup, arm>>
        /\ UNCHANGED <<pauseSet, paused, pausedSet, pauseEnd, stop, control, waiting>>
    BY <1>12 DEF vars, timingVars, timerVars, pauseVars
  <2>2. Exiting' <=> Exiting
    BY <2>1 DEF Exiting
  <2>3. Types /\ RightQueue(queue) /\ HostInv /\ ArmInv /\ TreeInv /\ PauseInv /\ NoOversleep
    BY DEF Inv
  <2>4. PauseInv'
    BY <2>1, <2>3 DEF PauseInv
  <2>5. Types' /\ RightQueue(queue)' /\ TreeInv'
    BY <2>1, <2>3, TypesFrame, TreeFrame
  <2>6. HostInv' /\ ArmInv' /\ NoOversleep'
    BY <2>1, <2>2, <2>3, HostFrame, ArmFrame, SleepFrame
  <2> QED
    BY <2>4, <2>5, <2>6 DEF Inv
<1> QED
  BY <1>1, <1>2, <1>3, <1>4, <1>5, <1>6, <1>7, <1>8, <1>9, <1>10, <1>11, <1>12 DEF Next, HostStep

LEMMA TimerInvariant == SafetySpec => []Inv
BY InitInv, NextInv, PTL DEF SafetySpec

\* The events of one type that are in the queue: at most one.
LEMMA OneEvent ==
  ASSUME RightQueue(queue), NEW i \in DOMAIN queue, NEW j \in DOMAIN queue, queue[i].type = queue[j].type
  PROVE  i = j
<1>1. DOMAIN queue = 1 .. Len(queue) /\ Len(queue) \in Nat
  BY SeqFacts DEF RightQueue
<1>2. i < j \/ j < i \/ i = j
  BY <1>1, SMT
<1> QED
  BY <1>2 DEF RightQueue, Ordered

\* The elements of the queue.
LEMMA QueueRange ==
  ASSUME RightQueue(queue)
  PROVE  /\ \A i \in DOMAIN queue : queue[i] \in Range(queue) /\ queue[i] \in Events
         /\ \A e \in Range(queue) : e \in Events /\ \E i \in DOMAIN queue : queue[i] = e
BY SeqFacts DEF RightQueue

\* A task in the tree has its interrupt, for every number of threads and every
\* timeout: RegisterAbsoluteTask and DoTask arm it in two calls of CoreTiming, and
\* the steps of the timer thread between them lose no wakeup.
THEOREM TimerInterruptIsArmed == SafetySpec => []InterruptIsArmed
<1>1. Inv => InterruptIsArmed
  <2> SUFFICES ASSUME Inv PROVE InterruptIsArmed
    OBVIOUS
  <2>0. Types /\ RightQueue(queue) /\ HostInv /\ ArmInv /\ TreeInv
    BY DEF Inv
  <2>1. TypeOK
    <3>1. \A i \in DOMAIN queue : queue[i].type \in {TimerEvent, LoopingEvent}
      BY <2>0, QueueRange, EventFields
    <3>2. {stale, eventSet, pauseSet, paused, pausedSet, stop} \subseteq BOOLEAN
      BY <2>0 DEF Types
    <3>3. time \in [Threads -> 0 .. MaxTime] /\ waiting \subseteq Threads
      BY <2>0 DEF TreeInv
    <3> QED
      BY <2>0, <3>1, <3>2, <3>3 DEF TypeOK, Types
  <2>2. TreeIsRight
    BY <2>0 DEF TreeInv
  <2>3. ASSUME arm = NoArm, tree # <<>>, ~Exiting
        PROVE  \/ \E i \in DOMAIN queue : queue[i].type = TimerEvent /\ queue[i].time <= time[Head(tree)]
               \/ host = "callback" /\ running = TimerEvent
    <3>1. nextTask # NoThread /\ nextTask = Head(tree) /\ time[nextTask] \in 1 .. MaxTime
      BY <2>0, <2>3, NextIsFirst
    <3>2. wakeup <= time[nextTask]
      BY <2>0, <2>3, <3>1 DEF ArmInv
    <3>3. wakeup # Never
      BY <2>0, <3>1, <3>2, TimingAssumption, SMT DEF Never
    <3>4. Called \/ \E e \in Range(queue) : e.type = TimerEvent /\ e.time = wakeup
      BY <2>0, <2>3, <3>3, NoArmAt DEF ArmInv
    <3> QED
      BY <2>0, <3>1, <3>2, <3>4, QueueRange DEF Called
  <2> QED
    BY <2>1, <2>2, <2>3 DEF InterruptIsArmed, TimerUnlocked
<1> QED
  BY <1>1, TimerInvariant, PTL

\* The queue holds at most one event of the timer, and the one m_wakeup_time
\* speaks of unless its callback has been called.
THEOREM TimerWakeupIsQueued == SafetySpec => []WakeupIsQueued
<1>1. Inv => WakeupIsQueued
  <2> SUFFICES ASSUME Inv, arm = NoArm, ~Exiting
               PROVE  LET events == {i \in DOMAIN queue : queue[i].type = TimerEvent}
                      IN  /\ \A i, j \in events : i = j
                          /\ wakeup # Never =>
                               \/ \E i \in events : queue[i].time = wakeup
                               \/ host = "callback" /\ running = TimerEvent
    BY DEF WakeupIsQueued, TimerUnlocked
  <2>0. RightQueue(queue) /\ ArmInv
    BY DEF Inv
  <2>1. \A i, j \in DOMAIN queue : queue[i].type = TimerEvent /\ queue[j].type = TimerEvent => i = j
    BY <2>0, OneEvent
  <2>2. wakeup # Never => Called \/ \E e \in Range(queue) : e.type = TimerEvent /\ e.time = wakeup
    BY <2>0, NoArmAt DEF ArmInv
  <2> QED
    BY <2>0, <2>1, <2>2, QueueRange DEF Called
<1> QED
  BY <1>1, TimerInvariant, PTL

\* The looping event is in the queue exactly while it is scheduled, whatever its
\* user does while the callback runs, and its callback is over once
\* UnscheduleEvent has returned (sequence_number and advance_lock in Advance).
THEOREM TimerLoopingIsRight == SafetySpec => []LoopingIsRight
<1>1. Inv => LoopingIsRight
  <2> SUFFICES ASSUME Inv, ~Exiting
               PROVE  LET events == {i \in DOMAIN queue : queue[i].type = LoopingEvent}
                      IN  /\ \A i, j \in events : i = j
                          /\ events # {} <=> client \in {"signal", "scheduled"}
                          /\ client = "unscheduled" => running # LoopingEvent
    BY DEF LoopingIsRight
  <2>0. RightQueue(queue) /\ HostInv
    BY DEF Inv
  <2>1. \A i, j \in DOMAIN queue : queue[i].type = LoopingEvent /\ queue[j].type = LoopingEvent => i = j
    BY <2>0, OneEvent
  <2>2. (\E i \in DOMAIN queue : queue[i].type = LoopingEvent) <=> Queued(LoopingEvent)
    BY <2>0, QueueRange DEF Queued
  <2>3. Queued(LoopingEvent) <=> client \in {"signal", "scheduled"}
    BY <2>0 DEF HostInv
  <2>4. client = "unscheduled" => running # LoopingEvent
    BY <2>0 DEF HostInv
  <2> QED
    BY <2>1, <2>2, <2>3, <2>4
<1> QED
  BY <1>1, TimerInvariant, PTL

\* No callback runs between the returns of two calls of SyncPause when the first
\* one asked for a pause.
THEOREM TimerPausedIsQuiet == SafetySpec => []PausedIsQuiet
<1>1. Inv => PausedIsQuiet
  BY DEF Inv, PauseInv, PausedIsQuiet
<1> QED
  BY <1>1, TimerInvariant, PTL

\* The timer thread never waits past the first event of the queue without event
\* being set, or about to be, by the thread that put the event there.
THEOREM TimerNoOversleep == SafetySpec => []NoOversleep
<1>1. Inv => NoOversleep
  BY DEF Inv
<1> QED
  BY <1>1, TimerInvariant, PTL
=============================================================================
