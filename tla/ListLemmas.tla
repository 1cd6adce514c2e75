---------------------------- MODULE ListLemmas ----------------------------
(***************************************************************************)
(* What several proof modules need: the least element of a set of          *)
(* naturals, induction and recursion up to a number, and putting an        *)
(* element into a sequence and taking one out.                             *)
(***************************************************************************)
EXTENDS Integers, SequencesExt, SequenceTheorems, FiniteSetTheorems,
        WellFoundedInduction, TLAPS

\* A set of naturals has a least element: what stands for induction below.
LEMMA NatMin ==
  ASSUME NEW T, T \subseteq Nat, T # {}
  PROVE  \E m \in T : \A k \in T : m <= k
<1> DEFINE R == StrictSubsetOrdering(Nat)
           S == FiniteSubsetsOf(Nat)
           U == {1..n : n \in T}
<1>1. IsWellFoundedOn(R, S)
  BY FS_StrictSubsetOrderingWellFounded
<1>2. U \subseteq S
  BY FS_Interval DEF FiniteSubsetsOf
<1>3. U # {}
  OBVIOUS
<1>4. PICK x \in U : \A y \in U : ~ (<<y, x>> \in R)
  <2> HIDE DEF U, R, S
  <2> QED BY <1>1, <1>2, <1>3, WFMin
<1>5. PICK m \in T : x = 1..m
  OBVIOUS
<1>6. ASSUME NEW k \in T, k < m PROVE FALSE
  <2>1. 1..k \in U
    OBVIOUS
  <2>2. 1..k \subseteq 1..m /\ 1..k # 1..m /\ 1..k \in SUBSET Nat /\ 1..m \in SUBSET Nat
    <3>1. m \in 1..m /\ m \notin 1..k
      BY <1>6
    <3> QED BY <1>6, <3>1
  <2>3. <<1..k, x>> \in R
    BY <2>2, <1>5 DEF StrictSubsetOrdering
  <2> QED BY <2>1, <2>3, <1>4
<1> QED BY <1>6

\* Induction up to n, on the set of the numbers for which a fact holds.
LEMMA UpTo ==
  ASSUME NEW n \in Nat, NEW S, 0 \in S, \A m \in 1..n : m - 1 \in S => m \in S
  PROVE  \A m \in 0..n : m \in S
<1> DEFINE T == {m \in 0..n : m \notin S}
<1> SUFFICES ASSUME T # {} PROVE FALSE
  OBVIOUS
<1>1. PICK m \in T : \A k \in T : m <= k
  <2>1. T \subseteq Nat
    OBVIOUS
  <2> QED BY <2>1, NatMin
<1>2. m \in 1..n /\ m - 1 \in 0..n
  OBVIOUS
<1>3. m - 1 \notin T
  <2> HIDE DEF T
  <2> QED BY <1>1, <1>2
<1> QED BY <1>2, <1>3

\* A recursive function on 0..n has a solution: element i comes from element
\* i - 1 by step[i].
Steps(n, V, base, step) == n \in Nat /\ base \in V /\ step \in [1..n -> [V -> V]]

Solves(f, n, V, base, step) ==
  /\ f \in [0..n -> V] /\ f[0] = base
  /\ \A i \in 1..n : f[i] = step[i][f[i - 1]]

LEMMA Recursion ==
  ASSUME NEW n, NEW V, NEW base, NEW step, Steps(n, V, base, step)
  PROVE  \E f : Solves(f, n, V, base, step)
<1>0. n \in Nat /\ base \in V /\ step \in [1..n -> [V -> V]]
  BY DEF Steps
<1> DEFINE S == {m \in 0..n : \E f : Solves(f, m, V, base, step)}
<1>1. 0 \in S
  <2>1. Solves([i \in 0..0 |-> base], 0, V, base, step)
    BY <1>0 DEF Solves
  <2> QED BY <1>0, <2>1
<1>2. ASSUME NEW m \in 1..n, m - 1 \in S PROVE m \in S
  <2>1. PICK f : Solves(f, m - 1, V, base, step)
    BY <1>2
  <2> DEFINE g == [i \in 0..m |-> IF i = m THEN step[m][f[m - 1]] ELSE f[i]]
  <2>2. f[m - 1] \in V /\ step[m] \in [V -> V]
    <3>1. m - 1 \in 0..(m - 1)
      OBVIOUS
    <3> QED BY <1>0, <2>1, <3>1 DEF Solves
  <2>3. ASSUME NEW i \in 0..m PROVE g[i] \in V
    <3>1. CASE i = m
      BY <2>2, <3>1
    <3>2. CASE i # m
      <4>1. i \in 0..(m - 1)
        BY <3>2
      <4> QED BY <2>1, <3>2, <4>1 DEF Solves
    <3> QED BY <3>1, <3>2
  <2>4. g[0] = base
    BY <2>1 DEF Solves
  <2>5. ASSUME NEW i \in 1..m PROVE g[i] = step[i][g[i - 1]]
    <3>1. g[i - 1] = f[i - 1]
      OBVIOUS
    <3>2. CASE i = m
      BY <3>1, <3>2
    <3>3. CASE i # m
      <4>1. i \in 1..(m - 1)
        BY <3>3
      <4> QED BY <2>1, <3>1, <3>3, <4>1 DEF Solves
    <3> QED BY <3>2, <3>3
  <2>6. g \in [0..m -> V]
    BY <2>3
  <2> HIDE DEF g
  <2>7. Solves(g, m, V, base, step)
    BY <2>4, <2>5, <2>6 DEF Solves
  <2> QED BY <1>0, <2>7
<1>3. \A m \in 0..n : m \in S
  <2> HIDE DEF S
  <2> QED BY <1>0, <1>1, <1>2, UpTo
<1> QED BY <1>0, <1>3

\* A function that is defined by that recursion has its values in V.
LEMMA Recursive ==
  ASSUME NEW n, NEW V, NEW base, NEW step, Steps(n, V, base, step),
         NEW f, f = [i \in 0..n |-> f[i]], f[0] = base,
         \A i \in 1..n : f[i - 1] \in V => f[i] = step[i][f[i - 1]]
  PROVE  Solves(f, n, V, base, step)
<1> DEFINE S == {i \in 0..n : f[i] \in V}
<1>0. n \in Nat /\ base \in V /\ step \in [1..n -> [V -> V]]
  BY DEF Steps
<1>1. 0 \in S
  BY <1>0
<1>2. ASSUME NEW i \in 1..n, i - 1 \in S PROVE i \in S
  <2>1. f[i - 1] \in V /\ step[i] \in [V -> V] /\ f[i] = step[i][f[i - 1]]
    BY <1>0, <1>2
  <2>2. step[i][f[i - 1]] \in V
    BY <2>1
  <2> QED BY <2>1, <2>2
<1>3. \A i \in 0..n : i \in S
  <2> HIDE DEF S
  <2> QED BY <1>0, <1>1, <1>2, UpTo
<1>4. \A i \in 0..n : f[i] \in V
  BY <1>3
<1>5. \A i \in 1..n : f[i] = step[i][f[i - 1]]
  <2> SUFFICES ASSUME NEW i \in 1..n PROVE f[i] = step[i][f[i - 1]]
    OBVIOUS
  <2>1. i - 1 \in 0..n
    BY <1>0
  <2> QED BY <1>4, <2>1
<1>6. f \in [0..n -> V]
  BY <1>4
<1> QED BY <1>5, <1>6 DEF Solves

\* Removing element k of a sequence keeps the others, in their order.
LEMMA RemoveAtProperties ==
  ASSUME NEW S, NEW s \in Seq(S), NEW k \in DOMAIN s
  PROVE  /\ RemoveAt(s, k) \in Seq(S)
         /\ Len(RemoveAt(s, k)) = Len(s) - 1
         /\ \A j \in 1..(Len(s) - 1) :
              RemoveAt(s, k)[j] = IF j < k THEN s[j] ELSE s[j + 1]
<1> DEFINE a == SubSeq(s, 1, k - 1)
           b == SubSeq(s, k + 1, Len(s))
<1>1. /\ Len(s) \in Nat /\ k \in Int /\ 1 <= k /\ k <= Len(s)
      /\ \A j \in 1..Len(s) : s[j] \in S
  OBVIOUS
<1>2. /\ a \in Seq(S) /\ Len(a) = k - 1
      /\ \A j \in 1..(k - 1) : a[j] = s[j]
  <2>1. \A j \in 1..(k - 1) : s[j] \in S
    BY <1>1
  <2>2. /\ a \in Seq(S)
        /\ Len(a) = IF 1 <= k - 1 THEN k - 1 - 1 + 1 ELSE 0
        /\ \A j \in 1..(k - 1 - 1 + 1) : a[j] = s[1 + j - 1]
    BY <1>1, <2>1, SubSeqProperties
  <2> QED
    BY <1>1, <2>2
<1>3. /\ b \in Seq(S) /\ Len(b) = Len(s) - k
      /\ \A j \in 1..(Len(s) - k) : b[j] = s[k + j]
  <2>1. \A j \in (k + 1)..Len(s) : s[j] \in S
    BY <1>1
  <2>2. /\ b \in Seq(S)
        /\ Len(b) = IF k + 1 <= Len(s) THEN Len(s) - (k + 1) + 1 ELSE 0
        /\ \A j \in 1..(Len(s) - (k + 1) + 1) : b[j] = s[k + 1 + j - 1]
    BY <1>1, <2>1, SubSeqProperties
  <2> QED
    BY <1>1, <2>2
<1> HIDE DEF a, b
<1>4. /\ a \o b \in Seq(S)
      /\ Len(a \o b) = Len(a) + Len(b)
      /\ \A j \in 1..(Len(a) + Len(b)) :
           (a \o b)[j] = IF j <= Len(a) THEN a[j] ELSE b[j - Len(a)]
  BY <1>2, <1>3, ConcatProperties
<1>5. ASSUME NEW j \in 1..(Len(s) - 1)
      PROVE  (a \o b)[j] = IF j < k THEN s[j] ELSE s[j + 1]
  <2>1. CASE j < k
    <3>0. j \in 1..(Len(a) + Len(b)) /\ j <= Len(a) /\ j \in 1..(k - 1)
      BY <1>1, <1>2, <1>3, <2>1
    <3>1. (a \o b)[j] = a[j]
      BY <1>4, <3>0
    <3> QED
      BY <1>2, <2>1, <3>0, <3>1
  <2>2. CASE ~(j < k)
    <3>0. /\ j \in 1..(Len(a) + Len(b))
          /\ ~(j <= Len(a))
          /\ Len(a) = k - 1
      BY <1>1, <1>2, <1>3, <2>2
    <3>1. /\ (a \o b)[j] = b[j - (k - 1)]
          /\ j - (k - 1) \in 1..(Len(s) - k)
      <4>1. (a \o b)[j] = b[j - Len(a)]
        BY <1>4, <3>0, SMTT(30)
      <4> QED
        BY <1>1, <2>2, <3>0, <4>1
    <3>2. b[j - (k - 1)] = s[k + (j - (k - 1))]
      BY <1>3, <3>1
    <3> QED
      BY <1>1, <2>2, <3>1, <3>2
  <2> QED
    BY <2>1, <2>2
<1>6. RemoveAt(s, k) = a \o b
  BY DEF RemoveAt, a, b
<1>7. Len(a \o b) = Len(s) - 1
  BY <1>1, <1>2, <1>3, <1>4
<1> QED
  BY <1>4, <1>5, <1>6, <1>7

\* Putting an element in at position p keeps the others, in their order.
LEMMA InsertAtProperties ==
  ASSUME NEW S, NEW s \in Seq(S), NEW x \in S, NEW p \in 1..(Len(s) + 1)
  PROVE  /\ InsertAt(s, p, x) \in Seq(S)
         /\ Len(InsertAt(s, p, x)) = Len(s) + 1
         /\ \A k \in 1..(Len(s) + 1) :
              InsertAt(s, p, x)[k] =
                IF k < p THEN s[k] ELSE IF k = p THEN x ELSE s[k - 1]
<1> DEFINE a == SubSeq(s, 1, p - 1)
           b == SubSeq(s, p, Len(s))
<1>0. Len(s) \in Nat /\ p \in Int /\ 1 <= p /\ p <= Len(s) + 1
  OBVIOUS
<1>1. /\ a \in Seq(S) /\ Len(a) = p - 1
      /\ \A k \in 1..(p - 1) : a[k] = s[k]
  BY SubSeqProperties
<1>2. /\ b \in Seq(S) /\ Len(b) = Len(s) + 1 - p
      /\ \A k \in 1..(Len(s) + 1 - p) : b[k] = s[p + k - 1]
  BY SubSeqProperties
<1>3. InsertAt(s, p, x) = (a \o <<x>>) \o b
  BY DEF InsertAt
<1> HIDE DEF a, b
<1> DEFINE c == a \o <<x>>
<1>4. <<x>> \in Seq(S) /\ Len(<<x>>) = 1 /\ <<x>>[1] = x
  OBVIOUS
<1>5. /\ c \in Seq(S) /\ Len(c) = p
      /\ \A k \in 1..p : c[k] = IF k < p THEN s[k] ELSE x
  BY <1>1, <1>4, ConcatProperties
<1> HIDE DEF c
<1>6. /\ c \o b \in Seq(S) /\ Len(c \o b) = Len(s) + 1
      /\ \A k \in 1..(Len(s) + 1) :
           (c \o b)[k] = IF k <= p THEN c[k] ELSE b[k - p]
  BY <1>2, <1>5, ConcatProperties
<1>7. ASSUME NEW k \in 1..(Len(s) + 1)
      PROVE  (c \o b)[k] = IF k < p THEN s[k] ELSE IF k = p THEN x ELSE s[k - 1]
  <2>1. CASE k <= p
    BY <2>1, <1>5, <1>6
  <2>2. CASE k > p
    <3>1. k - p \in 1..(Len(s) + 1 - p) /\ b[k - p] = s[p + (k - p) - 1]
      BY <2>2, <1>2
    <3> QED
      BY <2>2, <3>1, <1>6
  <2>3. k <= p \/ k > p
    BY <1>0
  <2> QED
    BY <2>1, <2>2, <2>3
<1> QED
  BY <1>3, <1>6, <1>7 DEF c
============================================================================
