------------------------------ MODULE TimingProofs ------------------------------
(***************************************************************************)
(* Theorems about the times of speech: what is cut out of the audio        *)
(* (AudioCut) and how subtitles are laid out (SubtitleLayout), for audio   *)
(* and utterances of any length and number.                                *)
(*                                                                         *)
(* What the models compute in a loop is a recursive function on 0 .. n.    *)
(* Computed shows that it exists, so that it has its values step by step;  *)
(* Steps carries an invariant of the loop from the first step to the last, *)
(* as a set of numbers that has 0 and with every number the next one.      *)
(***************************************************************************)
EXTENDS AudioCut, SubtitleLayout, FiniteSetTheorems, SequenceTheorems, WellFoundedInduction, TLAPS

-------------------------------------------------------------------------------
(***************************************************************************)
(* Numbers, steps and orders.                                              *)
(***************************************************************************)
\* Among numbers there is a least one.
LEMMA Least ==
    ASSUME NEW S \in SUBSET Nat, S # {}
    PROVE  \E x \in S : \A y \in S : x <= y
  <1>1. \E x \in S : \A y \in S : ~ (<<y, x>> \in OpToRel(<,Nat))
    BY WFMin, NatLessThanWellFounded
  <1>2. \A x, y \in S : y < x => <<y, x>> \in OpToRel(<,Nat)
    <2> SUFFICES ASSUME NEW x \in S, NEW y \in S, y < x PROVE <<y, x>> \in OpToRel(<,Nat)
      OBVIOUS
    <2>1. <<y, x>> \in Nat \X Nat /\ <<y,x>>[1] < <<y,x>>[2]
      OBVIOUS
    <2> QED
      BY <2>1, Zenon DEF OpToRel
  <1>3. PICK x \in S : \A y \in S : ~ (<<y, x>> \in OpToRel(<,Nat))
    BY <1>1
  <1>4. \A y \in S : ~ (y < x)
    BY <1>2, <1>3
  <1>5. \A y \in S : x <= y
    BY <1>4
  <1> QED
    BY <1>5

\* What holds in the beginning and is kept by every step holds in the end.
LEMMA Steps ==
    ASSUME NEW n \in Nat, NEW S, 0 \in S,
           \A k \in 1..n : k - 1 \in S => k \in S
    PROVE  \A k \in 0..n : k \in S
  <1> SUFFICES ASSUME NEW m \in 0..n, m \notin S PROVE FALSE
    OBVIOUS
  <1> DEFINE T == {k \in 0..n : k \notin S}
  <1>1. T \in SUBSET Nat /\ T # {}
    OBVIOUS
  <1>2. PICK x \in T : \A y \in T : x <= y
    <2> HIDE DEF T
    <2> QED
      BY <1>1, Least
  <1>3. x \in 1..n /\ x \notin S
    BY <1>2
  <1>4. x - 1 \in S
    BY <1>2, <1>3
  <1> QED
    BY <1>3, <1>4

\* What may become of a value in n steps.
Runs(T, base, n, step) == {f \in [0..n -> T] : f[0] = base /\ \A k \in 1..n : f[k] = step[<<k, f[k - 1]>>]}

\* A value can be computed step by step.
LEMMA Computed ==
    ASSUME NEW T, NEW base \in T, NEW n \in Nat, NEW step \in [(1..n) \X T -> T]
    PROVE  Runs(T, base, n, step) # {}
  <1> DEFINE S == {m \in 0..n : \E f \in [0..m -> T] : f[0] = base /\ \A k \in 1..m : f[k] = step[<<k, f[k - 1]>>]}
  <1>1. 0 \in S
    <2> DEFINE g == [k \in 0..0 |-> base]
    <2>1. g \in [0..0 -> T] /\ g[0] = base
      OBVIOUS
    <2>2. \A k \in 1..0 : g[k] = step[<<k, g[k - 1]>>]
      OBVIOUS
    <2> HIDE DEF g
    <2> QED
      BY <2>1, <2>2
  <1>2. \A m \in 1..n : m - 1 \in S => m \in S
    <2> SUFFICES ASSUME NEW m \in 1..n, m - 1 \in S PROVE m \in S
      OBVIOUS
    <2>1. PICK f \in [0..(m - 1) -> T] : f[0] = base /\ \A k \in 1..(m - 1) : f[k] = step[<<k, f[k - 1]>>]
      OBVIOUS
    <2> DEFINE g == [k \in 0..m |-> IF k = m THEN step[<<m, f[m - 1]>>] ELSE f[k]]
    <2>2. f[m - 1] \in T
      BY <2>1
    <2>3. step[<<m, f[m - 1]>>] \in T
      BY <2>2
    <2>4. \A k \in 0..m : k # m => k \in 0..(m - 1) /\ g[k] = f[k] /\ f[k] \in T
      BY <2>1
    <2>5. g[m] = step[<<m, f[m - 1]>>] /\ g[m - 1] = f[m - 1] /\ g[0] = f[0]
      OBVIOUS
    <2>6. g \in [0..m -> T]
      BY <2>3, <2>4, <2>5
    <2>7. \A k \in 1..m : g[k] = step[<<k, g[k - 1]>>]
      <3> SUFFICES ASSUME NEW k \in 1..m PROVE g[k] = step[<<k, g[k - 1]>>]
        OBVIOUS
      <3>1. CASE k = m
        BY <3>1, <2>5
      <3>2. CASE k # m
        <4>1. k \in 1..(m - 1) /\ k - 1 \in 0..m /\ k - 1 # m
          BY <3>2
        <4>2. g[k] = f[k] /\ g[k - 1] = f[k - 1]
          BY <4>1, <2>4, <3>2
        <4> HIDE DEF g
        <4> QED
          BY <4>1, <4>2, <2>1
      <3> QED
        BY <3>1, <3>2
    <2> HIDE DEF g
    <2> QED
      BY <2>1, <2>5, <2>6, <2>7
  <1>3. n \in S
    <2> HIDE DEF S
    <2>1. \A k \in 0..n : k \in S
      BY <1>1, <1>2, Steps
    <2> QED
      BY <2>1
  <1> QED
    BY <1>3 DEF Runs

\* Pairs of numbers are in a total order.
LEMMA BeforeOrders ==
    /\ \A i \in Int \X Int : Before(i, i)
    /\ \A i, k \in Int \X Int : Before(i, k) \/ Before(k, i)
    /\ \A i, k \in Int \X Int : Before(i, k) /\ Before(k, i) => i = k
    /\ \A i, j, k \in Int \X Int : Before(i, j) /\ Before(j, k) => Before(i, k)
  <1>1. \A i \in Int \X Int : i[1] \in Int /\ i[2] \in Int /\ i = <<i[1], i[2]>>
    OBVIOUS
  <1>2. \A i, k \in Int \X Int : Before(i, k) \/ Before(k, i)
    BY <1>1 DEF Before
  <1>3. \A i, k \in Int \X Int : Before(i, k) /\ Before(k, i) => i[1] = k[1] /\ i[2] = k[2]
    BY <1>1 DEF Before
  <1>4. \A i, k \in Int \X Int : Before(i, k) /\ Before(k, i) => i = k
    <2> SUFFICES ASSUME NEW i \in Int \X Int, NEW k \in Int \X Int, Before(i, k), Before(k, i) PROVE i = k
      OBVIOUS
    <2>1. i[1] = k[1] /\ i[2] = k[2] /\ i = <<i[1], i[2]>> /\ k = <<k[1], k[2]>>
      BY <1>1, <1>3
    <2> QED
      BY <2>1, Zenon
  <1>5. \A i, j, k \in Int \X Int : Before(i, j) /\ Before(j, k) => Before(i, k)
    BY <1>1 DEF Before
  <1> QED
    BY <1>1, <1>2, <1>4, <1>5 DEF Before

\* sorted: each once, in order.
LEMMA Ranked ==
    ASSUME NEW T \in SUBSET (Int \X Int), NEW S \in SUBSET T, IsFiniteSet(S)
    PROVE  /\ InOrder(S) \in Seq(T) /\ Len(InOrder(S)) = Cardinality(S)
           /\ DOMAIN InOrder(S) = 1..Cardinality(S) /\ Cardinality(S) \in Nat
           /\ \A n \in DOMAIN InOrder(S) : InOrder(S)[n] \in S
           /\ \A i \in S : \E n \in DOMAIN InOrder(S) : InOrder(S)[n] = i
           /\ \A j, k \in DOMAIN InOrder(S) : j < k => InOrder(S)[j] # InOrder(S)[k] /\ Before(InOrder(S)[j], InOrder(S)[k])
  <1> DEFINE N == Cardinality(S)
             B(i) == {k \in S : Before(k, i)}
             R == [i \in S |-> Rank(S, i)]
             seq == InOrder(S)
  <1>1. IsFiniteSet(S) /\ N \in Nat
    BY FS_CardinalityType
  <1>2. \A i \in S : IsFiniteSet(B(i)) /\ Cardinality(B(i)) \in Nat /\ Cardinality(B(i)) <= N /\ Cardinality(B(i)) # 0
    <2> SUFFICES ASSUME NEW i \in S
                 PROVE  IsFiniteSet(B(i)) /\ Cardinality(B(i)) \in Nat /\ Cardinality(B(i)) <= N /\ Cardinality(B(i)) # 0
      OBVIOUS
    <2>1. i \in B(i)
      BY BeforeOrders
    <2>2. B(i) \in SUBSET S
      OBVIOUS
    <2> HIDE DEF B
    <2>3. B(i) # {}
      BY <2>1
    <2> QED
      BY <1>1, <2>2, <2>3, FS_Subset, FS_CardinalityType, FS_EmptySet
  <1>3. \A i \in S : R[i] = Cardinality(B(i)) /\ R[i] \in 1..N
    <2> SUFFICES ASSUME NEW i \in S PROVE R[i] = Cardinality(B(i)) /\ R[i] \in 1..N
      OBVIOUS
    <2>1. R[i] = Cardinality(B(i))
      BY DEF Rank
    <2> HIDE DEF B, R
    <2> QED
      BY <2>1, <1>1, <1>2
  <1>4. \A i, k \in S : Before(i, k) /\ i # k => R[i] < R[k]
    <2> SUFFICES ASSUME NEW i \in S, NEW k \in S, Before(i, k), i # k PROVE R[i] < R[k]
      OBVIOUS
    <2>1. k \in B(k) /\ k \notin B(i)
      BY BeforeOrders
    <2>2. B(i) \in SUBSET B(k)
      BY BeforeOrders
    <2>3. IsFiniteSet(B(k)) /\ Cardinality(B(k)) \in Nat /\ Cardinality(B(i)) \in Nat
      BY <1>2
    <2> HIDE DEF B
    <2>4. Cardinality(B(i)) <= Cardinality(B(k)) /\ Cardinality(B(i)) # Cardinality(B(k))
      BY <2>1, <2>2, <2>3, FS_Subset
    <2>5. Cardinality(B(i)) < Cardinality(B(k))
      BY <2>3, <2>4
    <2> HIDE DEF R
    <2> QED
      BY <1>3, <2>5
  <1> HIDE DEF B
  <1>5. \A i, k \in S : R[i] = R[k] => i = k
    <2> SUFFICES ASSUME NEW i \in S, NEW k \in S, R[i] = R[k], i # k PROVE FALSE
      OBVIOUS
    <2> HIDE DEF R
    <2>1. R[i] < R[k] \/ R[k] < R[i]
      BY <1>4, BeforeOrders
    <2> QED
      BY <2>1, <1>1, <1>3
  <1>6. R \in Injection(S, 1..N)
    <2>1. R \in [S -> 1..N]
      BY <1>3
    <2> HIDE DEF R, N
    <2> QED
      BY <2>1, <1>5 DEF Injection, IsInjective
  <1>7. R \in Surjection(S, 1..N)
    <2>1. IsFiniteSet(1..N) /\ Cardinality(1..N) = N
      <3> HIDE DEF N
      <3> QED
        BY <1>1, FS_Interval
    <2> HIDE DEF R
    <2> QED
      BY <1>6, <2>1, FS_Injection
  <1>8. \A n \in 1..N : \E i \in S : R[i] = n
    <2> HIDE DEF R, N
    <2> QED
      BY <1>7 DEF Surjection
  <1>9. \A i \in S : R[i] = Rank(S, i)
    OBVIOUS
  <1> HIDE DEF R
  <1>10. \A n \in 1..N : seq[n] \in S /\ R[seq[n]] = n
    <2> SUFFICES ASSUME NEW n \in 1..N PROVE seq[n] \in S /\ R[seq[n]] = n
      OBVIOUS
    <2>1. seq[n] = CHOOSE i \in S : Rank(S, i) = n
      BY DEF InOrder
    <2>2. \E i \in S : Rank(S, i) = n
      BY <1>8, <1>9
    <2>3. seq[n] \in S /\ Rank(S, seq[n]) = n
      <3> HIDE DEF seq, N
      <3> QED
        BY <2>1, <2>2
    <2> QED
      BY <2>3, <1>9
  <1>11. seq \in Seq(T) /\ Len(seq) = N /\ DOMAIN seq = 1..N
    <2>1. DOMAIN seq = 1..N /\ seq = [n \in 1..N |-> seq[n]]
      BY DEF InOrder
    <2> HIDE DEF seq, N
    <2>2. \A n \in 1..N : seq[n] \in T
      BY <1>10
    <2>3. seq \in [1..N -> T]
      BY <2>1, <2>2
    <2> QED
      BY <1>1, <2>3
  <1> HIDE DEF seq, N
  <1>12. \A i \in S : \E n \in DOMAIN seq : seq[n] = i
    <2> SUFFICES ASSUME NEW i \in S PROVE \E n \in DOMAIN seq : seq[n] = i
      OBVIOUS
    <2>1. R[i] \in 1..N
      BY <1>3
    <2>2. seq[R[i]] \in S /\ R[seq[R[i]]] = R[i]
      BY <2>1, <1>10
    <2>3. seq[R[i]] = i
      BY <2>2, <1>5
    <2> QED
      BY <2>1, <2>3, <1>11
  <1>13. \A j, k \in DOMAIN seq : j < k => seq[j] # seq[k] /\ Before(seq[j], seq[k])
    <2> SUFFICES ASSUME NEW j \in 1..N, NEW k \in 1..N, j < k PROVE seq[j] # seq[k] /\ Before(seq[j], seq[k])
      BY <1>11
    <2>1. seq[j] \in S /\ seq[k] \in S /\ R[seq[j]] = j /\ R[seq[k]] = k
      BY <1>10
    <2>2. ~(R[seq[k]] < R[seq[j]]) /\ R[seq[k]] # R[seq[j]]
      BY <2>1, <1>1
    <2>3. seq[j] # seq[k]
      BY <2>2
    <2>4. ~Before(seq[k], seq[j])
      BY <2>1, <2>2, <2>3, <1>4
    <2> QED
      BY <2>1, <2>3, <2>4, BeforeOrders
  <1> QED
    BY <1>1, <1>10, <1>11, <1>12, <1>13 DEF seq, N

-------------------------------------------------------------------------------
(***************************************************************************)
(* Flattened and sorted sequences.                                         *)
(***************************************************************************)
\* What is in order already is sorted.
LEMMA InOrderAlready ==
    ASSUME NEW f \in Seq(Int \X Int), \A j, k \in DOMAIN f : j < k => f[j] # f[k] /\ Before(f[j], f[k])
    PROVE  InOrder(ToSet(f)) = f
  <1> DEFINE n == Len(f)
             U(m) == {f[j] : j \in 1..m}
             S == ToSet(f)
             A == {m \in 0..n : IsFiniteSet(U(m)) /\ Cardinality(U(m)) = m}
  <1>1. n \in Nat /\ DOMAIN f = 1..n /\ f = [k \in 1..n |-> f[k]] /\ \A k \in 1..n : f[k] \in Int \X Int
    OBVIOUS
  <1>2. \A j, k \in 1..n : j < k => f[j] # f[k] /\ Before(f[j], f[k])
    BY <1>1
  <1>3. S = U(n)
    BY <1>1 DEF ToSet
  <1> HIDE DEF n, S
  <1>4. 0 \in A
    <2>1. U(0) = {} /\ 0 \in 0..n
      BY <1>1
    <2>2. IsFiniteSet({}) /\ Cardinality({}) = 0
      BY FS_EmptySet
    <2> HIDE DEF U
    <2> QED
      BY <2>1, <2>2
  <1>5. \A m \in 1..n : m - 1 \in A => m \in A
    <2> SUFFICES ASSUME NEW m \in 1..n, m - 1 \in A PROVE m \in A
      OBVIOUS
    <2>1. U(m) = U(m - 1) \cup {f[m]}
      <3>1. 1..m = 1..(m - 1) \cup {m}
        OBVIOUS
      <3> QED
        BY <3>1
    <2>2. f[m] \notin U(m - 1)
      <3> SUFFICES ASSUME NEW j \in 1..(m - 1), f[m] = f[j] PROVE FALSE
        OBVIOUS
      <3>1. j \in 1..n /\ j < m
        <4> HIDE DEF A, U
        <4> QED
          BY <1>1
      <3> QED
        BY <3>1, <1>2
    <2>3. IsFiniteSet(U(m - 1)) /\ Cardinality(U(m - 1)) = m - 1 /\ m \in 0..n
      OBVIOUS
    <2> HIDE DEF U
    <2>4. IsFiniteSet(U(m - 1) \cup {f[m]}) /\ Cardinality(U(m - 1) \cup {f[m]}) = Cardinality(U(m - 1)) + 1
      BY <2>2, <2>3, FS_AddElement
    <2>5. IsFiniteSet(U(m)) /\ Cardinality(U(m)) = (m - 1) + 1
      BY <2>1, <2>3, <2>4, Zenon
    <2>6. (m - 1) + 1 = m
      OBVIOUS
    <2> QED
      BY <2>3, <2>5, <2>6
  <1>6. \A m \in 0..n : IsFiniteSet(U(m)) /\ Cardinality(U(m)) = m
    <2> HIDE DEF A
    <2>1. \A m \in 0..n : m \in A
      BY <1>1, <1>4, <1>5, Steps
    <2> HIDE DEF U
    <2> QED
      BY <2>1 DEF A
  <1>7. ASSUME NEW k \in 1..n PROVE Rank(S, f[k]) = k
    <2>1. {i \in S : Before(i, f[k])} = U(k)
      <3>1. ASSUME NEW i \in S, Before(i, f[k]) PROVE i \in U(k)
        <4>1. PICK j \in 1..n : i = f[j]
          BY <1>3
        <4>2. ~(k < j)
          <5> SUFFICES ASSUME k < j PROVE FALSE
            OBVIOUS
          <5>1. f[k] # f[j] /\ Before(f[k], f[j]) /\ f[k] \in Int \X Int /\ f[j] \in Int \X Int
            BY <1>1, <1>2
          <5> QED
            BY <5>1, <3>1, <4>1, BeforeOrders
        <4>3. j \in 1..k
          BY <1>1, <4>2
        <4> QED
          BY <4>1, <4>3
      <3>2. ASSUME NEW j \in 1..k PROVE f[j] \in S /\ Before(f[j], f[k])
        <4>1. j \in 1..n /\ (j < k \/ j = k)
          BY <1>1
        <4>2. f[j] \in S
          BY <4>1, <1>3
        <4>3. Before(f[j], f[k])
          BY <4>1, <1>1, <1>2, BeforeOrders
        <4> QED
          BY <4>2, <4>3
      <3> QED
        BY <3>1, <3>2
    <2> HIDE DEF U
    <2>2. k \in 0..n
      BY <1>1
    <2> QED
      BY <2>1, <2>2, <1>6 DEF Rank
  <1>8. Cardinality(S) = n
    <2> HIDE DEF U
    <2> QED
      BY <1>1, <1>3, <1>6
  <1>9. ASSUME NEW k \in 1..n PROVE (CHOOSE i \in S : Rank(S, i) = k) = f[k]
    <2>1. f[k] \in S /\ Rank(S, f[k]) = k
      BY <1>3, <1>7
    <2>2. ASSUME NEW i \in S, Rank(S, i) = k PROVE i = f[k]
      <3>1. PICK j \in 1..n : i = f[j]
        BY <1>3
      <3> QED
        BY <3>1, <2>2, <1>7
    <2> QED
      BY <2>1, <2>2
  <1>10. InOrder(S) = [k \in 1..n |-> CHOOSE i \in S : Rank(S, i) = k]
    BY <1>8 DEF InOrder
  <1>11. InOrder(S) = [k \in 1..n |-> f[k]]
    BY <1>9, <1>10
  <1> QED
    BY <1>1, <1>11 DEF S

\* Every element of a sequence comes before the later ones.
Related(R, seq) == \A j, k \in DOMAIN seq : j < k => <<seq[j], seq[k]>> \in R

\* Two sequences one after the other.
LEMMA Joined ==
    ASSUME NEW T, NEW s \in Seq(T), NEW t \in Seq(T)
    PROVE  /\ s \o t \in Seq(T) /\ Len(s \o t) = Len(s) + Len(t)
           /\ \A k \in 1..Len(s) : (s \o t)[k] = s[k]
           /\ \A k \in 1..Len(t) : (s \o t)[Len(s) + k] = t[k]
           /\ ToSet(s \o t) = ToSet(s) \cup ToSet(t)
           /\ \A R : Related(R, s) /\ Related(R, t) /\ ToSet(s) \X ToSet(t) \subseteq R => Related(R, s \o t)
  <1> DEFINE c == s \o t
             m == Len(s)
             n == Len(t)
  <1>1. /\ m \in Nat /\ n \in Nat /\ DOMAIN s = 1..m /\ DOMAIN t = 1..n
        /\ \A k \in 1..m : s[k] \in T
        /\ \A k \in 1..n : t[k] \in T
    OBVIOUS
  <1>2. c \in Seq(T) /\ Len(c) = m + n /\ DOMAIN c = 1..(m + n)
    BY ConcatProperties
  <1>3. \A k \in 1..(m + n) : c[k] = IF k <= m THEN s[k] ELSE t[k - m]
    BY ConcatProperties
  <1> HIDE DEF c, m, n
  <1>4. \A k \in 1..m : k \in 1..(m + n) /\ c[k] = s[k]
    BY <1>1, <1>3
  <1>5. \A k \in 1..n : m + k \in 1..(m + n) /\ c[m + k] = t[k]
    <2> SUFFICES ASSUME NEW k \in 1..n PROVE m + k \in 1..(m + n) /\ c[m + k] = t[k]
      OBVIOUS
    <2>1. m + k \in 1..(m + n) /\ ~(m + k <= m) /\ (m + k) - m = k
      BY <1>1
    <2> QED
      BY <2>1, <1>3
  <1>6. \A j \in 1..(m + n) : j \in 1..m \/ (j - m \in 1..n /\ c[j] = t[j - m])
    <2> SUFFICES ASSUME NEW j \in 1..(m + n), j \notin 1..m PROVE j - m \in 1..n /\ c[j] = t[j - m]
      OBVIOUS
    <2>1. j - m \in 1..n /\ ~(j <= m)
      BY <1>1
    <2> QED
      BY <2>1, <1>3
  <1>7. ToSet(c) = ToSet(s) \cup ToSet(t)
    <2>1. \A x : x \in ToSet(c) <=> \E k \in 1..(m + n) : x = c[k]
      BY <1>2 DEF ToSet
    <2>2. \A x : x \in ToSet(s) <=> \E k \in 1..m : x = s[k]
      BY <1>1 DEF ToSet
    <2>3. \A x : x \in ToSet(t) <=> \E k \in 1..n : x = t[k]
      BY <1>1 DEF ToSet
    <2>4. ASSUME NEW x \in ToSet(c) PROVE x \in ToSet(s) \cup ToSet(t)
      <3>1. PICK j \in 1..(m + n) : x = c[j]
        BY <2>1
      <3>2. CASE j \in 1..m
        BY <3>1, <3>2, <1>4, <2>2
      <3>3. CASE j \notin 1..m
        <4>1. j - m \in 1..n /\ x = t[j - m]
          BY <3>1, <3>3, <1>6
        <4> QED
          BY <4>1, <2>3
      <3> QED
        BY <3>2, <3>3
    <2>5. ASSUME NEW x \in ToSet(s) PROVE x \in ToSet(c)
      <3>1. PICK j \in 1..m : x = s[j]
        BY <2>2
      <3> QED
        BY <3>1, <1>4, <2>1
    <2>6. ASSUME NEW x \in ToSet(t) PROVE x \in ToSet(c)
      <3>1. PICK j \in 1..n : x = t[j]
        BY <2>3
      <3>2. m + j \in 1..(m + n) /\ x = c[m + j]
        BY <3>1, <1>5
      <3> QED
        BY <3>2, <2>1
    <2> QED
      BY <2>4, <2>5, <2>6
  <1>8. ASSUME NEW R, Related(R, s), Related(R, t), ToSet(s) \X ToSet(t) \subseteq R PROVE Related(R, c)
    <2> SUFFICES ASSUME NEW j \in 1..(m + n), NEW k \in 1..(m + n), j < k PROVE <<c[j], c[k]>> \in R
      BY <1>2 DEF Related
    <2>1. CASE k \in 1..m
      <3>1. j \in 1..m
        BY <2>1, <1>1
      <3> QED
        BY <2>1, <3>1, <1>1, <1>4, <1>8 DEF Related
    <2>2. CASE k \notin 1..m /\ j \in 1..m
      <3>1. k - m \in 1..n /\ c[k] = t[k - m] /\ c[j] = s[j]
        BY <2>2, <1>4, <1>6
      <3>2. s[j] \in ToSet(s) /\ t[k - m] \in ToSet(t)
        BY <2>2, <3>1, <1>1 DEF ToSet
      <3> QED
        BY <3>1, <3>2, <1>8
    <2>3. CASE k \notin 1..m /\ j \notin 1..m
      <3>1. c[j] = t[j - m] /\ j - m \in 1..n /\ c[k] = t[k - m] /\ k - m \in 1..n
        BY <2>3, <1>6
      <3>2. j - m < k - m
        BY <1>1
      <3> QED
        BY <3>1, <3>2, <1>1, <1>8 DEF Related
    <2> QED
      BY <2>1, <2>2, <2>3
  <1> QED
    BY <1>2, <1>4, <1>5, <1>7, <1>8 DEF c, m, n

\* A sequence of sequences, computed step by step.
LEMMA FlattenComputed ==
    ASSUME NEW T, NEW parts \in Seq(Seq(T))
    PROVE  \E f : /\ f[0] = <<>> /\ \A k \in 0..Len(parts) : f[k] \in Seq(T)
                  /\ \A k \in 1..Len(parts) : f[k] = f[k - 1] \o parts[k]
                  /\ FlattenSeq(parts) = f[Len(parts)]
  <1> DEFINE n == Len(parts)
             Q == Seq(T)
             step == [p \in (1..n) \X Q |-> p[2] \o parts[p[1]]]
  <1>1. n \in Nat /\ DOMAIN parts = 1..n /\ \A k \in 1..n : parts[k] \in Q
    OBVIOUS
  <1>2. <<>> \in Q
    OBVIOUS
  <1>3. step \in [(1..n) \X Q -> Q]
    <2>1. \A k \in 1..n, t \in Q : t \o parts[k] \in Q
      BY <1>1
    <2> HIDE DEF Q, n
    <2> QED
      BY <2>1
  <1>4. PICK f \in [0..n -> Q] : f[0] = <<>> /\ \A k \in 1..n : f[k] = step[<<k, f[k - 1]>>]
    <2>1. n \in Nat
      BY <1>1
    <2> HIDE DEF Q, n, step
    <2>2. Runs(Q, <<>>, n, step) # {}
      BY <2>1, <1>2, <1>3, Computed, Zenon
    <2> QED
      BY <2>2 DEF Runs
  <1> HIDE DEF n
  <1>5. \A k \in 0..n : f[k] \in Q
    <2> HIDE DEF Q, step
    <2> QED
      BY <1>4
  <1>6. \A k \in 1..n : f[k] = f[k - 1] \o parts[k]
    <2> SUFFICES ASSUME NEW k \in 1..n PROVE f[k] = f[k - 1] \o parts[k]
      OBVIOUS
    <2>1. f[k - 1] \in Q
      <3> HIDE DEF Q
      <3> QED
        BY <1>1, <1>5
    <2> HIDE DEF Q
    <2> QED
      BY <1>4, <2>1
  <1>7. CASE n = 0
    <2>1. FlattenSeq(parts) = <<>>
      BY <1>7, <1>1 DEF FlattenSeq, n
    <2> QED
      BY <1>4, <1>5, <1>6, <1>7, <2>1 DEF n
  <1>8. CASE n # 0
    <2> DEFINE G(q, k) == q \o parts[k]
               F(g) == [k \in 1..n |-> IF k = 1 THEN parts[k] ELSE G(g[k - 1], k)]
               flatten == CHOOSE g : g = F(g)
               h == [k \in 1..n |-> f[k]]
    <2>1. \A k \in 1..n : h[k] = IF k = 1 THEN parts[k] ELSE G(h[k - 1], k)
      <3> SUFFICES ASSUME NEW k \in 1..n PROVE h[k] = IF k = 1 THEN parts[k] ELSE G(h[k - 1], k)
        OBVIOUS
      <3>1. CASE k = 1
        <4>1. f[0] = <<>>
          BY <1>4, Zenon
        <4>2. f[k] = <<>> \o parts[k]
          <5>1. k - 1 = 0
            BY <3>1
          <5>2. f[k] = f[k - 1] \o parts[k]
            BY <1>6
          <5> QED
            BY <4>1, <5>1, <5>2, Zenon
        <4>3. parts[k] \in Seq(T)
          BY <1>1
        <4>4. <<>> \o parts[k] = parts[k]
          BY <4>3
        <4> QED
          BY <3>1, <4>2, <4>4
      <3>2. CASE k # 1
        <4>1. k - 1 \in 1..n
          BY <1>1, <3>2
        <4> QED
          BY <3>2, <4>1, <1>6
      <3> QED
        BY <3>1, <3>2
    <2>2. h = F(h)
      <3> HIDE DEF G
      <3> QED
        BY <2>1
    <2>3. flatten = F(flatten)
      <3> HIDE DEF F
      <3> QED
        BY <2>2
    <2>4. \A k \in 1..n : flatten[k] = IF k = 1 THEN parts[k] ELSE G(flatten[k - 1], k)
      <3> HIDE DEF flatten, G
      <3>1. \A k \in 1..n : F(flatten)[k] = IF k = 1 THEN parts[k] ELSE G(flatten[k - 1], k)
        OBVIOUS
      <3> HIDE DEF F
      <3> QED
        BY <2>3, <3>1, Zenon
    <2>5. FlattenSeq(parts) = flatten[n]
      BY <1>1, <1>8 DEF FlattenSeq, n
    <2> DEFINE S == {m \in 0..n : m = 0 \/ flatten[m] = f[m]}
    <2> HIDE DEF flatten
    <2>6. \A k \in 1..n : k - 1 \in S => k \in S
      <3> SUFFICES ASSUME NEW k \in 1..n, k - 1 \in S PROVE k \in S
        OBVIOUS
      <3>1. CASE k = 1
        <4>1. flatten[k] = parts[k]
          BY <3>1, <2>4, Zenon
        <4>2. f[k] = parts[k]
          BY <3>1, <2>1
        <4> QED
          BY <4>1, <4>2
      <3>2. CASE k # 1
        <4>1. k - 1 # 0 /\ flatten[k - 1] = f[k - 1]
          BY <3>2
        <4>2. flatten[k] = flatten[k - 1] \o parts[k]
          BY <3>2, <2>4, Zenon
        <4>3. f[k] = f[k - 1] \o parts[k]
          BY <1>6
        <4>4. flatten[k] = f[k]
          BY <4>1, <4>2, <4>3, Zenon
        <4> QED
          BY <4>4
      <3> QED
        BY <3>1, <3>2
    <2>7. 0 \in S
      BY <1>1
    <2> HIDE DEF S
    <2>8. n \in S
      <3>1. \A k \in 0..n : k \in S
        BY <1>1, <2>6, <2>7, Steps
      <3> QED
        BY <3>1, <1>1
    <2>9. FlattenSeq(parts) = f[n]
      BY <2>5, <2>8, <1>8 DEF S
    <2> QED
      BY <1>4, <1>5, <1>6, <2>9 DEF n
  <1> QED
    BY <1>7, <1>8

\* What a sequence of sequences holds, and in which order.
LEMMA Flattened ==
    ASSUME NEW T, NEW parts \in Seq(Seq(T))
    PROVE  /\ FlattenSeq(parts) \in Seq(T)
           /\ ToSet(FlattenSeq(parts)) = UNION {ToSet(parts[k]) : k \in DOMAIN parts}
           /\ \A R : /\ \A k \in DOMAIN parts : Related(R, parts[k])
                     /\ \A j, k \in DOMAIN parts : j < k => ToSet(parts[j]) \X ToSet(parts[k]) \subseteq R
                     => Related(R, FlattenSeq(parts))
  <1> DEFINE n == Len(parts)
             U(m) == UNION {ToSet(parts[k]) : k \in 1..m}
  <1>1. n \in Nat /\ DOMAIN parts = 1..n /\ \A k \in 1..n : parts[k] \in Seq(T)
    OBVIOUS
  <1>2. PICK f : /\ f[0] = <<>> /\ \A k \in 0..n : f[k] \in Seq(T)
                 /\ \A k \in 1..n : f[k] = f[k - 1] \o parts[k]
                 /\ FlattenSeq(parts) = f[n]
    BY FlattenComputed
  <1> HIDE DEF n
  <1>3. ASSUME NEW k \in 1..n
        PROVE  /\ f[k - 1] \in Seq(T) /\ parts[k] \in Seq(T) /\ f[k] = f[k - 1] \o parts[k]
               /\ ToSet(f[k]) = ToSet(f[k - 1]) \cup ToSet(parts[k])
    <2>1. k - 1 \in 0..n
      BY <1>1
    <2>2. f[k - 1] \in Seq(T) /\ parts[k] \in Seq(T) /\ f[k] = f[k - 1] \o parts[k]
      BY <1>1, <1>2, <2>1
    <2>3. ToSet(f[k - 1] \o parts[k]) = ToSet(f[k - 1]) \cup ToSet(parts[k])
      BY <2>2, Joined
    <2> QED
      BY <2>2, <2>3
  <1>4. \A k \in 0..n : ToSet(f[k]) = U(k)
    <2> DEFINE S == {k \in 0..n : ToSet(f[k]) = U(k)}
    <2>1. 0 \in S
      <3>1. U(0) = {} /\ ToSet(<<>>) = {} /\ 0 \in 0..n
        BY <1>1 DEF ToSet
      <3> HIDE DEF U
      <3> QED
        BY <3>1, <1>2
    <2>2. \A k \in 1..n : k - 1 \in S => k \in S
      <3> SUFFICES ASSUME NEW k \in 1..n, k - 1 \in S PROVE k \in S
        OBVIOUS
      <3>1. 1..k = 1..(k - 1) \cup {k} /\ k \in 0..n
        OBVIOUS
      <3>2. \A x : x \in U(k) <=> \E j \in 1..k : x \in ToSet(parts[j])
        OBVIOUS
      <3>3. \A x : x \in U(k - 1) <=> \E j \in 1..(k - 1) : x \in ToSet(parts[j])
        OBVIOUS
      <3>4. ToSet(f[k - 1]) = U(k - 1)
        OBVIOUS
      <3> HIDE DEF U
      <3>5. U(k) = U(k - 1) \cup ToSet(parts[k])
        BY <3>1, <3>2, <3>3
      <3> QED
        BY <1>3, <3>1, <3>4, <3>5
    <2> HIDE DEF S
    <2>3. \A k \in 0..n : k \in S
      BY <1>1, <2>1, <2>2, Steps
    <2> QED
      BY <2>3 DEF S
  <1>5. ToSet(FlattenSeq(parts)) = UNION {ToSet(parts[k]) : k \in DOMAIN parts}
    <2>1. n \in 0..n
      BY <1>1
    <2> QED
      BY <2>1, <1>1, <1>2, <1>4
  <1>6. FlattenSeq(parts) \in Seq(T)
    BY <1>1, <1>2
  <1>7. ASSUME NEW R, \A k \in DOMAIN parts : Related(R, parts[k]),
               \A j, k \in DOMAIN parts : j < k => ToSet(parts[j]) \X ToSet(parts[k]) \subseteq R
        PROVE  Related(R, FlattenSeq(parts))
    <2> DEFINE S == {k \in 0..n : Related(R, f[k])}
    <2>1. 0 \in S
      <3>1. Related(R, <<>>)
        BY DEF Related
      <3> QED
        BY <1>1, <1>2, <3>1
    <2>2. \A k \in 1..n : k - 1 \in S => k \in S
      <3> SUFFICES ASSUME NEW k \in 1..n, k - 1 \in S PROVE k \in S
        OBVIOUS
      <3>1. Related(R, f[k - 1]) /\ Related(R, parts[k]) /\ k \in 0..n
        BY <1>1, <1>7
      <3>2. ToSet(f[k - 1]) \X ToSet(parts[k]) \subseteq R
        <4> SUFFICES ASSUME NEW x \in ToSet(f[k - 1]), NEW y \in ToSet(parts[k]) PROVE <<x, y>> \in R
          OBVIOUS
        <4>1. k - 1 \in 0..n
          BY <1>1
        <4>2. x \in U(k - 1)
          <5> HIDE DEF U
          <5> QED
            BY <4>1, <1>4
        <4>3. PICK j \in 1..(k - 1) : x \in ToSet(parts[j])
          BY <4>2
        <4>4. j \in 1..n /\ j < k
          BY <1>1
        <4> QED
          BY <1>1, <4>3, <4>4, <1>7
      <3>3. f[k - 1] \in Seq(T) /\ parts[k] \in Seq(T) /\ f[k] = f[k - 1] \o parts[k]
        BY <1>3
      <3>4. Related(R, f[k - 1] \o parts[k])
        BY <3>1, <3>2, <3>3, Joined
      <3> QED
        BY <3>1, <3>3, <3>4
    <2> HIDE DEF S
    <2>3. \A k \in 0..n : k \in S
      BY <1>1, <2>1, <2>2, Steps
    <2>4. n \in S
      BY <2>3, <1>1
    <2> QED
      BY <2>4, <1>2 DEF S
  <1> QED
    BY <1>5, <1>6, <1>7

\* The ways to put n things in order.
Orders(n) == {p \in [1..n -> 1..n] : /\ \A j, k \in 1..n : p[j] = p[k] => j = k
                                     /\ \A k \in 1..n : \E j \in 1..n : p[j] = k}

\* Sorting puts the elements in the order of their starts.
LEMMA ByStartOrders ==
    ASSUME NEW T, NEW seq \in Seq(T), \A k \in DOMAIN seq : seq[k].start \in Int
    PROVE  \E p \in Orders(Len(seq)) :
              /\ ByStart(seq) = [n \in 1..Len(seq) |-> seq[p[n]]]
              /\ \A j, k \in 1..Len(seq) : j < k => seq[p[j]].start <= seq[p[k]].start
  <1> DEFINE N == Len(seq)
             S == {<<seq[k].start, k>> : k \in DOMAIN seq}
             order == InOrder(S)
             p == [n \in 1..N |-> order[n][2]]
  <1>1. N \in Nat /\ DOMAIN seq = 1..N /\ \A k \in 1..N : seq[k].start \in Int /\ seq[k] \in T
    OBVIOUS
  <1>2. S \in SUBSET (Int \X Int)
    <2> HIDE DEF N
    <2> QED
      BY <1>1
  <1>3. IsFiniteSet(S) /\ Cardinality(S) = N
    <2> DEFINE b == [k \in 1..N |-> <<seq[k].start, k>>]
    <2>1. b \in Bijection(1..N, S)
      <3> HIDE DEF N
      <3>1. b \in [1..N -> S]
        BY <1>1
      <3>2. \A j, k \in 1..N : b[j] = b[k] => j = k
        OBVIOUS
      <3>3. \A s \in S : \E k \in 1..N : b[k] = s
        BY <1>1
      <3> HIDE DEF b, S
      <3> QED
        BY <3>1, <3>2, <3>3, Zenon DEF Bijection, Injection, Surjection, IsInjective
    <2> HIDE DEF b, S
    <2>2. IsFiniteSet(1..N) /\ Cardinality(1..N) = N
      <3> HIDE DEF N
      <3>1. 1 \in Int /\ N \in Int /\ (1 > N => N = 0) /\ N - 1 + 1 = N
        BY <1>1
      <3>2. IsFiniteSet(1..N) /\ Cardinality(1..N) = IF 1 > N THEN 0 ELSE N - 1 + 1
        BY <3>1, FS_Interval
      <3> QED
        BY <3>1, <3>2
    <2> HIDE DEF N
    <2>3. ExistsBijection(1..N, S)
      BY <2>1 DEF ExistsBijection
    <2> QED
      BY <2>2, <2>3, FS_Bijection
  <1> HIDE DEF N
  <1>4. /\ DOMAIN order = 1..N
        /\ \A n \in 1..N : order[n] \in S
        /\ \A i \in S : \E n \in 1..N : order[n] = i
        /\ \A j, k \in 1..N : j < k => order[j] # order[k] /\ Before(order[j], order[k])
    <2> HIDE DEF S
    <2>1. /\ DOMAIN InOrder(S) = 1..Cardinality(S)
          /\ \A n \in DOMAIN InOrder(S) : InOrder(S)[n] \in S
          /\ \A i \in S : \E n \in DOMAIN InOrder(S) : InOrder(S)[n] = i
          /\ \A j, k \in DOMAIN InOrder(S) : j < k => InOrder(S)[j] # InOrder(S)[k] /\ Before(InOrder(S)[j], InOrder(S)[k])
      <3>1. Int \X Int \in SUBSET (Int \X Int)
        OBVIOUS
      <3> QED
        BY <3>1, <1>2, <1>3, Ranked, Zenon
    <2> HIDE DEF order
    <2>2. order = InOrder(S)
      BY DEF order
    <2> QED
      BY <1>3, <2>1, <2>2
  <1>5. ByStart(seq) = [n \in 1..N |-> seq[order[n][2]]]
    BY <1>1 DEF ByStart
  <1> HIDE DEF order
  <1>6. \A n \in 1..N : p[n] \in 1..N /\ order[n] = <<seq[p[n]].start, p[n]>>
    <2> SUFFICES ASSUME NEW n \in 1..N PROVE p[n] \in 1..N /\ order[n] = <<seq[p[n]].start, p[n]>>
      OBVIOUS
    <2>1. PICK k \in 1..N : order[n] = <<seq[k].start, k>>
      <3>1. order[n] \in S
        BY <1>4
      <3> QED
        BY <3>1, <1>1
    <2>2. p[n] = k
      BY <2>1
    <2> HIDE DEF p
    <2> QED
      BY <2>1, <2>2
  <1>7. p \in [1..N -> 1..N] /\ ByStart(seq) = [n \in 1..N |-> seq[p[n]]]
    BY <1>5, <1>6
  <1> HIDE DEF p
  <1>8. \A j, k \in 1..N : p[j] = p[k] => j = k
    <2> SUFFICES ASSUME NEW j \in 1..N, NEW k \in 1..N, p[j] = p[k], j # k PROVE FALSE
      OBVIOUS
    <2>1. order[j] = order[k]
      BY <1>6
    <2>2. j < k \/ k < j
      OBVIOUS
    <2> QED
      BY <2>1, <2>2, <1>4
  <1>9. \A k \in 1..N : \E j \in 1..N : p[j] = k
    <2> SUFFICES ASSUME NEW k \in 1..N PROVE \E j \in 1..N : p[j] = k
      OBVIOUS
    <2>1. <<seq[k].start, k>> \in S
      BY <1>1
    <2>2. PICK j \in 1..N : order[j] = <<seq[k].start, k>>
      BY <2>1, <1>4
    <2> QED
      BY <2>2, <1>6
  <1>10. \A j, k \in 1..N : j < k => seq[p[j]].start <= seq[p[k]].start
    <2> SUFFICES ASSUME NEW j \in 1..N, NEW k \in 1..N, j < k PROVE seq[p[j]].start <= seq[p[k]].start
      OBVIOUS
    <2>1. Before(order[j], order[k]) /\ order[j] = <<seq[p[j]].start, p[j]>> /\ order[k] = <<seq[p[k]].start, p[k]>>
      BY <1>4, <1>6
    <2>2. seq[p[j]].start \in Int /\ seq[p[k]].start \in Int
      BY <1>1, <1>6
    <2> QED
      BY <2>1, <2>2 DEF Before
  <1> QED
    BY <1>7, <1>8, <1>9, <1>10, Zenon DEF Orders, N

\* sorted, by start: the same elements, in the order of their starts.
LEMMA ByStartKeeps ==
    ASSUME NEW T, NEW seq \in Seq(T), \A k \in DOMAIN seq : seq[k].start \in Int
    PROVE  /\ ByStart(seq) \in Seq(T) /\ Len(ByStart(seq)) = Len(seq) /\ ToSet(ByStart(seq)) = ToSet(seq)
           /\ \A j, k \in DOMAIN ByStart(seq) : j < k => ByStart(seq)[j].start <= ByStart(seq)[k].start
  <1> DEFINE N == Len(seq)
             c == ByStart(seq)
  <1>1. N \in Nat /\ DOMAIN seq = 1..N /\ \A k \in 1..N : seq[k] \in T
    OBVIOUS
  <1>2. PICK p \in Orders(N) : /\ c = [n \in 1..N |-> seq[p[n]]]
                               /\ \A j, k \in 1..N : j < k => seq[p[j]].start <= seq[p[k]].start
    BY ByStartOrders
  <1> HIDE DEF N, c
  <1>3. \A n \in 1..N : p[n] \in 1..N
    BY <1>2 DEF Orders
  <1>4. c \in [1..N -> T] /\ DOMAIN c = 1..N
    BY <1>1, <1>2, <1>3
  <1>5. c \in Seq(T) /\ Len(c) = N
    BY <1>1, <1>4
  <1>6. ToSet(c) = ToSet(seq)
    <2>1. \A x : x \in ToSet(c) <=> \E n \in 1..N : x = seq[p[n]]
      BY <1>2, <1>4 DEF ToSet
    <2>2. \A x : x \in ToSet(seq) <=> \E n \in 1..N : x = seq[n]
      BY <1>1 DEF ToSet
    <2>3. \A k \in 1..N : \E j \in 1..N : p[j] = k
      BY <1>2 DEF Orders
    <2>4. ASSUME NEW x \in ToSet(c) PROVE x \in ToSet(seq)
      BY <1>3, <2>1, <2>2
    <2>5. ASSUME NEW x \in ToSet(seq) PROVE x \in ToSet(c)
      <3>1. PICK k \in 1..N : x = seq[k]
        BY <2>2
      <3>2. PICK j \in 1..N : p[j] = k
        BY <2>3
      <3>3. x = seq[p[j]]
        BY <3>1, <3>2
      <3> QED
        BY <3>3, <2>1
    <2> QED
      BY <2>4, <2>5
  <1>7. \A j, k \in 1..N : j < k => c[j].start <= c[k].start
    BY <1>2
  <1> QED
    BY <1>4, <1>5, <1>6, <1>7 DEF c, N

\* What is in the order of its starts already stays as it is.
LEMMA ByStartAlready ==
    ASSUME NEW T, NEW seq \in Seq(T), \A k \in DOMAIN seq : seq[k].start \in Int,
           \A j, k \in DOMAIN seq : j < k => seq[j].start <= seq[k].start
    PROVE  ByStart(seq) = seq
  <1> DEFINE N == Len(seq)
             f == [k \in 1..N |-> <<seq[k].start, k>>]
  <1>1. N \in Nat /\ DOMAIN seq = 1..N /\ seq = [k \in 1..N |-> seq[k]]
    OBVIOUS
  <1>2. \A k \in 1..N : seq[k].start \in Int
    BY <1>1
  <1>3. \A j, k \in 1..N : j < k => seq[j].start <= seq[k].start
    BY <1>1
  <1>4. {<<seq[k].start, k>> : k \in DOMAIN seq} = ToSet(f)
    BY <1>1 DEF ToSet
  <1> HIDE DEF N
  <1>5. f \in Seq(Int \X Int) /\ DOMAIN f = 1..N
    <2>1. f \in [1..N -> Int \X Int]
      BY <1>1, <1>2
    <2> HIDE DEF f
    <2> QED
      BY <1>1, <2>1
  <1>6. \A j, k \in 1..N : j < k => f[j] # f[k] /\ Before(f[j], f[k])
    <2> SUFFICES ASSUME NEW j \in 1..N, NEW k \in 1..N, j < k PROVE f[j] # f[k] /\ Before(f[j], f[k])
      OBVIOUS
    <2>1. f[j] = <<seq[j].start, j>> /\ f[k] = <<seq[k].start, k>>
      OBVIOUS
    <2>2. seq[j].start <= seq[k].start /\ seq[j].start \in Int /\ seq[k].start \in Int
      BY <1>2, <1>3
    <2> HIDE DEF f
    <2> QED
      BY <2>1, <2>2 DEF Before
  <1>7. \A k \in 1..N : f[k][2] = k
    OBVIOUS
  <1> HIDE DEF f
  <1>8. InOrder(ToSet(f)) = f
    BY <1>5, <1>6, InOrderAlready
  <1>9. ByStart(seq) = [n \in 1..N |-> seq[f[n][2]]]
    BY <1>1, <1>4, <1>8 DEF ByStart
  <1> QED
    BY <1>1, <1>7, <1>9

\* Facts about rounding.
LEMMA Rounded ==
    /\ \A n \in Nat, d \in Nat \ {0} : RoundDiv(n, d) \in Nat
    /\ \A t \in Nat : Ms(t) \in Nat
    /\ \A t \in Nat : Ms(2 * t) = t
  <1>1. ASSUME NEW n \in Nat, NEW d \in Nat \ {0} PROVE RoundDiv(n, d) \in Nat
    <2>1. n \div d \in Nat
      OBVIOUS
    <2> QED
      BY <2>1 DEF RoundDiv
  <1>2. ASSUME NEW t \in Nat PROVE Ms(2 * t) = t
    BY DEF Ms, RoundDiv
  <1> QED
    BY <1>1, <1>2 DEF Ms

-------------------------------------------------------------------------------
(***************************************************************************)
(* Intervals, and what the loops of AudioCut leave of them.                *)
(***************************************************************************)
Covers(seq, u) == \E k \in DOMAIN seq : seq[k][1] <= u /\ u < seq[k][2]
\* Intervals in the order of their starts; intervals that do not overlap, in order.
Sorted(seq) == seq \in Seq(Interval) /\ \A j, k \in DOMAIN seq : j < k => seq[j][1] <= seq[k][1]
Ordered(seq) == seq \in Seq(Interval) /\ \A j, k \in DOMAIN seq : j < k => seq[j][2] <= seq[k][1]

\* The ends of an interval.
LEMMA IntervalFacts ==
    /\ \A i \in Interval : i[1] \in 0..Length /\ i[2] \in 0..Length /\ i[1] < i[2] /\ i = <<i[1], i[2]>>
                           /\ i[1] \in Int /\ i[2] \in Int
    /\ \A a, b \in 0..Length : a < b => <<a, b>> \in Interval
  <1>1. \A i \in (0 .. Length) \X (0 .. Length) : i[1] \in 0..Length /\ i[2] \in 0..Length /\ i = <<i[1], i[2]>>
    OBVIOUS
  <1> QED
    BY <1>1 DEF Interval

\* An interval appended after the others.
LEMMA AppendedCovers ==
    ASSUME NEW seq \in Seq(Interval), NEW i \in Interval
    PROVE  /\ Append(seq, i) \in Seq(Interval)
           /\ Len(Append(seq, i)) = Len(seq) + 1
           /\ DOMAIN Append(seq, i) = 1..(Len(seq) + 1) /\ DOMAIN seq = 1..Len(seq) /\ Len(seq) \in Nat
           /\ \A k \in DOMAIN seq : Append(seq, i)[k] = seq[k] /\ seq[k] \in Interval
           /\ Append(seq, i)[Len(seq) + 1] = i
           /\ \A u : Covers(Append(seq, i), u) <=> Covers(seq, u) \/ (i[1] <= u /\ u < i[2])
  <1>1. /\ Append(seq, i) \in Seq(Interval)
           /\ Len(Append(seq, i)) = Len(seq) + 1
           /\ DOMAIN Append(seq, i) = 1..(Len(seq) + 1) /\ DOMAIN seq = 1..Len(seq)  /\ Len(seq) \in Nat
           /\ \A k \in DOMAIN seq : Append(seq, i)[k] = seq[k] /\ seq[k] \in Interval
           /\ Append(seq, i)[Len(seq) + 1] = i
    OBVIOUS
  <1>2. DOMAIN Append(seq, i) = DOMAIN seq \cup {Len(seq) + 1}
    BY <1>1
  <1> QED
    BY <1>1, <1>2 DEF Covers

\* An interval appended after the end of the others.
LEMMA AppendedOrdered ==
    ASSUME NEW seq, Ordered(seq), NEW a \in 0..Length, NEW b \in 0..Length, a < b,
           \A k \in DOMAIN seq : seq[k][2] <= a
    PROVE  /\ Ordered(Append(seq, <<a, b>>))
           /\ \A u \in Int : Covers(Append(seq, <<a, b>>), u) <=> Covers(seq, u) \/ (a <= u /\ u < b)
           /\ \A k \in DOMAIN Append(seq, <<a, b>>) : Append(seq, <<a, b>>)[k][2] <= b
  <1> DEFINE i == <<a, b>>
             s == Append(seq, i)
  <1>1. i \in Interval /\ i[1] = a /\ i[2] = b
    BY IntervalFacts
  <1>2. seq \in Seq(Interval)
    BY DEF Ordered
  <1>3. /\ s \in Seq(Interval)
        /\ DOMAIN s = 1..(Len(seq) + 1) /\ DOMAIN seq = 1..Len(seq) /\ Len(seq) \in Nat
        /\ \A k \in DOMAIN seq : s[k] = seq[k] /\ seq[k] \in Interval
        /\ s[Len(seq) + 1] = i
        /\ \A u : Covers(s, u) <=> Covers(seq, u) \/ (i[1] <= u /\ u < i[2])
    <2> HIDE DEF i
    <2> QED
      BY <1>1, <1>2, AppendedCovers
  <1> HIDE DEF s, i
  <1>4. \A k \in DOMAIN s : k = Len(seq) + 1 \/ k \in DOMAIN seq
    BY <1>3
  <1>5. \A j, k \in DOMAIN s : j < k => s[j][2] <= s[k][1]
    <2> SUFFICES ASSUME NEW j \in DOMAIN s, NEW k \in DOMAIN s, j < k PROVE s[j][2] <= s[k][1]
      OBVIOUS
    <2>1. j \in DOMAIN seq
      BY <1>3, <1>4
    <2>2. CASE k \in DOMAIN seq
      BY <2>1, <2>2, <1>3 DEF Ordered
    <2>3. CASE k = Len(seq) + 1
      BY <2>1, <2>3, <1>3, <1>1
    <2> QED
      BY <2>2, <2>3, <1>4
  <1>6. \A k \in DOMAIN s : s[k][2] <= b
    <2> SUFFICES ASSUME NEW k \in DOMAIN s PROVE s[k][2] <= b
      OBVIOUS
    <2>1. CASE k \in DOMAIN seq
      <3>1. s[k] = seq[k] /\ seq[k][2] <= a /\ seq[k][2] \in Int /\ a \in Int /\ b \in Int
        BY <2>1, <1>3, IntervalFacts
      <3> QED
        BY <3>1
    <2>2. CASE k = Len(seq) + 1
      BY <2>2, <1>3, <1>1
    <2> QED
      BY <2>1, <2>2, <1>4
  <1>7. Ordered(s) /\ \A u \in Int : Covers(s, u) <=> Covers(seq, u) \/ (a <= u /\ u < b)
    BY <1>1, <1>3, <1>5 DEF Ordered
  <1> QED
    BY <1>6, <1>7 DEF s, i

\* The loop of kept_intervals.
LEMMA BetweenComputed ==
    ASSUME NEW cuts \in Seq(Interval)
    PROVE  \E f :
              /\ f[0] = [left |-> <<>>, at |-> 0]
              /\ \A k \in 1..Len(cuts) : f[k] = LeaveOut(f[k - 1], cuts[k])
              /\ Between(cuts) = IF f[Len(cuts)].at < Length
                                 THEN Append(f[Len(cuts)].left, <<f[Len(cuts)].at, Length>>)
                                 ELSE f[Len(cuts)].left
  <1> DEFINE n == Len(cuts)
             T == [left : Seq(Interval), at : 0..Length]
             base == [left |-> <<>>, at |-> 0]
             step == [p \in (1..n) \X T |-> LeaveOut(p[2], cuts[p[1]])]
  <1>1. n \in Nat /\ \A k \in 1..n : cuts[k] \in Interval
    OBVIOUS
  <1>2. base \in T
    BY AudioScale
  <1>3. \A t \in T, c \in Interval : LeaveOut(t, c) \in T
    <2> SUFFICES ASSUME NEW t \in T, NEW c \in Interval PROVE LeaveOut(t, c) \in T
      OBVIOUS
    <2>1. t.left \in Seq(Interval) /\ t.at \in 0..Length /\ c[1] \in 0..Length /\ c[2] \in 0..Length
      BY IntervalFacts
    <2>2. UpperOf(t.at, c[2]) \in 0..Length
      BY <2>1 DEF UpperOf
    <2>3. c[1] > t.at => Append(t.left, <<t.at, c[1]>>) \in Seq(Interval)
      BY <2>1, IntervalFacts
    <2> QED
      BY <2>1, <2>2, <2>3 DEF LeaveOut
  <1>4. step \in [(1..n) \X T -> T]
    <2> HIDE DEF T, n
    <2> QED
      BY <1>1, <1>3
  <1>5. PICK f \in [0..n -> T] : f[0] = base /\ \A k \in 1..n : f[k] = step[<<k, f[k - 1]>>]
    <2>1. n \in Nat
      BY <1>1
    <2> HIDE DEF T, n, base, step
    <2>2. Runs(T, base, n, step) # {}
      BY <2>1, <1>2, <1>4, Computed, Zenon
    <2> QED
      BY <2>2 DEF Runs
  <1>6. \A k \in 1..n : f[k] = LeaveOut(f[k - 1], cuts[k])
    <2> SUFFICES ASSUME NEW k \in 1..n PROVE f[k] = LeaveOut(f[k - 1], cuts[k])
      OBVIOUS
    <2>1. f[k - 1] \in T
      <3> HIDE DEF T
      <3> QED
        BY <1>1
    <2> HIDE DEF T
    <2> QED
      BY <1>5, <2>1
  <1> DEFINE F(g) == [k \in 0..n |-> IF k = 0 THEN base ELSE LeaveOut(g[k - 1], cuts[k])]
             upTo == CHOOSE g : g = F(g)
  <1>7. f = F(f)
    <2> HIDE DEF T, base, n
    <2> QED
      BY <1>1, <1>5, <1>6
  <1>8. upTo = F(upTo)
    <2> HIDE DEF F
    <2> QED
      BY <1>7
  <1>9. /\ upTo[0] = base
        /\ \A k \in 1..n : upTo[k] = LeaveOut(upTo[k - 1], cuts[k])
    <2> HIDE DEF upTo, base, n
    <2>1. \A k \in 0..n : F(upTo)[k] = IF k = 0 THEN base ELSE LeaveOut(upTo[k - 1], cuts[k])
      OBVIOUS
    <2> HIDE DEF F
    <2>2. \A k \in 0..n : upTo[k] = IF k = 0 THEN base ELSE LeaveOut(upTo[k - 1], cuts[k])
      BY <1>8, <2>1, Zenon
    <2> QED
      BY <1>1, <2>2
  <1>10. Between(cuts) = IF upTo[n].at < Length THEN Append(upTo[n].left, <<upTo[n].at, Length>>) ELSE upTo[n].left
    BY DEF Between
  <1> QED
    <2> HIDE DEF upTo
    <2> QED
      BY <1>9, <1>10

\* What the first n cuts take away.
Taken(cuts, n, u) == \E j \in 1..n : cuts[j][1] <= u /\ u < cuts[j][2]

\* One cut more takes its own units away.
LEMMA TakenStep ==
    ASSUME NEW cuts, NEW n \in Nat \ {0}, NEW u
    PROVE  Taken(cuts, n, u) <=> Taken(cuts, n - 1, u) \/ (cuts[n][1] <= u /\ u < cuts[n][2])
  <1>1. 1..n = 1..(n - 1) \cup {n}
    OBVIOUS
  <1> QED
    BY <1>1 DEF Taken

\* Between the cuts is what no cut takes.
LEMMA BetweenLeaves ==
    ASSUME NEW cuts, Sorted(cuts)
    PROVE  /\ Ordered(Between(cuts))
           /\ \A u \in Int : Covers(Between(cuts), u) <=> 0 <= u /\ u < Length /\ ~Covers(cuts, u)
  <1> DEFINE n == Len(cuts)
  <1>1. /\ cuts \in Seq(Interval) /\ n \in Nat /\ DOMAIN cuts = 1..n
        /\ \A k \in 1..n : cuts[k] \in Interval /\ cuts[k][1] \in 0..Length /\ cuts[k][2] \in 0..Length /\ cuts[k][1] < cuts[k][2]
        /\ \A j, k \in 1..n : j < k => cuts[j][1] <= cuts[k][1]
    <2>1. cuts \in Seq(Interval)
      BY DEF Sorted
    <2>2. \A k \in 1..n : cuts[k] \in Interval
      BY <2>1
    <2> QED
      BY <2>1, <2>2, IntervalFacts DEF Sorted
  <1>2. Length \in Nat
    BY AudioScale
  <1> HIDE DEF n
  <1>3. PICK f :
              /\ f[0] = [left |-> <<>>, at |-> 0]
              /\ \A k \in 1..n : f[k] = LeaveOut(f[k - 1], cuts[k])
              /\ Between(cuts) = IF f[n].at < Length THEN Append(f[n].left, <<f[n].at, Length>>) ELSE f[n].left
    BY <1>1, BetweenComputed DEF n
  <1> DEFINE Inv(k) ==
        /\ f[k].at \in 0..Length
        /\ Ordered(f[k].left)
        /\ \A j \in DOMAIN f[k].left : f[k].left[j][2] <= f[k].at
        /\ \A j \in DOMAIN f[k].left, m \in 1..n : m >= k => f[k].left[j][2] <= cuts[m][1]
        /\ \A j \in 1..k : cuts[j][2] <= f[k].at
        /\ \A u \in Int : Covers(f[k].left, u) <=> 0 <= u /\ u < f[k].at /\ ~Taken(cuts, k, u)
  <1>4. Inv(0)
    <2>1. f[0].at = 0 /\ f[0].left = <<>>
      BY <1>3
    <2>2. Ordered(<<>>) /\ \A u : ~Covers(<<>>, u)
      BY DEF Ordered, Covers
    <2> QED
      BY <2>1, <2>2, <1>2
  <1>5. \A k \in 1..n : Inv(k - 1) => Inv(k)
    <2> SUFFICES ASSUME NEW k \in 1..n, Inv(k - 1) PROVE Inv(k)
      OBVIOUS
    <2> DEFINE acc == f[k - 1]
               c == cuts[k]
    <2>1. /\ f[k].at = UpperOf(acc.at, c[2])
          /\ f[k].left = IF c[1] > acc.at THEN Append(acc.left, <<acc.at, c[1]>>) ELSE acc.left
      <3>1. f[k] = LeaveOut(acc, c)
        BY <1>3
      <3> HIDE DEF acc, c
      <3> QED
        BY <3>1 DEF LeaveOut
    <2>2. c[1] \in 0..Length /\ c[2] \in 0..Length /\ c[1] < c[2]
      BY <1>1
    <2>3. /\ acc.at \in 0..Length /\ Ordered(acc.left)
          /\ \A j \in DOMAIN acc.left : acc.left[j][2] <= acc.at
          /\ \A j \in DOMAIN acc.left, m \in 1..n : m >= k - 1 => acc.left[j][2] <= cuts[m][1]
          /\ \A j \in 1..(k - 1) : cuts[j][2] <= acc.at
          /\ \A u \in Int : Covers(acc.left, u) <=> 0 <= u /\ u < acc.at /\ ~Taken(cuts, k - 1, u)
      OBVIOUS
    <2> HIDE DEF acc, c
    <2>4. f[k].at \in 0..Length /\ acc.at <= f[k].at /\ c[2] <= f[k].at /\ (f[k].at = acc.at \/ f[k].at = c[2])
      BY <2>1, <2>2, <2>3 DEF UpperOf
    <2>5. /\ Ordered(f[k].left)
          /\ \A u \in Int : Covers(f[k].left, u) <=> Covers(acc.left, u) \/ (acc.at <= u /\ u < c[1])
          /\ \A j \in DOMAIN f[k].left : f[k].left[j][2] <= c[1]
      <3>1. \A j \in DOMAIN acc.left : acc.left[j][2] <= c[1]
        BY <2>3 DEF c
      <3>2. CASE c[1] > acc.at
        <4>1. f[k].left = Append(acc.left, <<acc.at, c[1]>>)
          BY <2>1, <3>2
        <4>2. acc.at < c[1] /\ acc.at \in 0..Length /\ c[1] \in 0..Length /\ Ordered(acc.left)
              /\ \A j \in DOMAIN acc.left : acc.left[j][2] <= acc.at
          BY <3>2, <2>2, <2>3
        <4> HIDE DEF Inv
        <4>3. /\ Ordered(Append(acc.left, <<acc.at, c[1]>>))
              /\ \A u \in Int : Covers(Append(acc.left, <<acc.at, c[1]>>), u) <=> Covers(acc.left, u) \/ (acc.at <= u /\ u < c[1])
              /\ \A j \in DOMAIN Append(acc.left, <<acc.at, c[1]>>) : Append(acc.left, <<acc.at, c[1]>>)[j][2] <= c[1]
          BY <4>2, AppendedOrdered
        <4> QED
          BY <4>1, <4>3
      <3>3. CASE ~(c[1] > acc.at)
        <4>1. f[k].left = acc.left
          BY <2>1, <3>3
        <4> QED
          BY <4>1, <2>2, <2>3, <3>1, <3>3
      <3> QED
        BY <3>2, <3>3
    <2>6. \A j \in DOMAIN f[k].left : f[k].left[j][2] <= f[k].at
      <3> SUFFICES ASSUME NEW j \in DOMAIN f[k].left PROVE f[k].left[j][2] <= f[k].at
        OBVIOUS
      <3>1. f[k].left[j] \in Interval
        BY <2>5 DEF Ordered
      <3>2. f[k].left[j][2] \in Int
        BY <3>1, IntervalFacts
      <3> QED
        BY <3>2, <2>2, <2>4, <2>5
    <2>7. \A j \in DOMAIN f[k].left, m \in 1..n : m >= k => f[k].left[j][2] <= cuts[m][1]
      <3> SUFFICES ASSUME NEW j \in DOMAIN f[k].left, NEW m \in 1..n, m >= k PROVE f[k].left[j][2] <= cuts[m][1]
        OBVIOUS
      <3>1. f[k].left[j] \in Interval
        BY <2>5 DEF Ordered
      <3>2. f[k].left[j][2] \in Int /\ f[k].left[j][2] <= c[1]
        BY <3>1, <2>5, IntervalFacts
      <3>3. c[1] <= cuts[m][1] /\ c[1] \in Int /\ cuts[m][1] \in Int
        BY <1>1 DEF c
      <3> QED
        BY <3>2, <3>3
    <2>8. \A j \in 1..k : cuts[j][2] <= f[k].at
      <3> SUFFICES ASSUME NEW j \in 1..k PROVE cuts[j][2] <= f[k].at
        OBVIOUS
      <3>1. CASE j = k
        BY <3>1, <2>4 DEF c
      <3>2. CASE j # k
        <4>1. j \in 1..(k - 1) /\ cuts[j][2] \in Int
          BY <3>2, <1>1
        <4> QED
          BY <4>1, <2>3, <2>4
      <3> QED
        BY <3>1, <3>2
    <2>9. \A u \in Int : Covers(f[k].left, u) <=> 0 <= u /\ u < f[k].at /\ ~Taken(cuts, k, u)
      <3> SUFFICES ASSUME NEW u \in Int PROVE Covers(f[k].left, u) <=> 0 <= u /\ u < f[k].at /\ ~Taken(cuts, k, u)
        OBVIOUS
      <3>1. Taken(cuts, k, u) <=> Taken(cuts, k - 1, u) \/ (c[1] <= u /\ u < c[2])
        BY TakenStep DEF c
      <3>2. Covers(f[k].left, u) <=> Covers(acc.left, u) \/ (acc.at <= u /\ u < c[1])
        BY <2>5
      <3>3. Covers(acc.left, u) <=> 0 <= u /\ u < acc.at /\ ~Taken(cuts, k - 1, u)
        BY <2>3
      <3>4. Covers(acc.left, u) => u < c[1]
        <4> SUFFICES ASSUME Covers(acc.left, u) PROVE u < c[1]
          OBVIOUS
        <4>1. PICK j \in DOMAIN acc.left : acc.left[j][1] <= u /\ u < acc.left[j][2]
          BY DEF Covers
        <4>2. acc.left[j] \in Interval
          BY <2>3 DEF Ordered
        <4>3. acc.left[j][2] \in Int /\ acc.left[j][2] <= c[1]
          BY <4>2, <2>3, IntervalFacts DEF c
        <4> QED
          BY <4>1, <4>3, <2>2
      <3>5. Taken(cuts, k - 1, u) => u < acc.at
        <4> SUFFICES ASSUME Taken(cuts, k - 1, u) PROVE u < acc.at
          OBVIOUS
        <4>1. PICK j \in 1..(k - 1) : cuts[j][1] <= u /\ u < cuts[j][2]
          BY DEF Taken
        <4>2. cuts[j][2] \in Int /\ cuts[j][2] <= acc.at
          BY <1>1, <2>3
        <4> QED
          BY <4>1, <4>2, <2>3
      <3>6. acc.at \in Nat /\ c[1] \in Nat /\ c[2] \in Nat /\ f[k].at \in Nat
        BY <2>2, <2>3, <2>4, <1>2
      <3> HIDE DEF Inv
      <3> QED
        BY <3>1, <3>2, <3>3, <3>4, <3>5, <3>6, <2>2, <2>4
    <2> QED
      BY <2>4, <2>5, <2>6, <2>7, <2>8, <2>9
  <1>6. Inv(n)
    <2> DEFINE S == {k \in 0..n : Inv(k)}
    <2> HIDE DEF Inv
    <2>1. 0 \in S /\ \A k \in 1..n : k - 1 \in S => k \in S
      BY <1>1, <1>4, <1>5
    <2> HIDE DEF S
    <2>2. \A k \in 0..n : k \in S
      BY <1>1, <2>1, Steps
    <2>3. n \in S
      BY <1>1, <2>2
    <2> QED
      BY <2>3 DEF S
  <1>7. \A u : Covers(cuts, u) <=> Taken(cuts, n, u)
    BY <1>1 DEF Covers, Taken
  <1>8. CASE f[n].at < Length
    <2>1. Between(cuts) = Append(f[n].left, <<f[n].at, Length>>)
      BY <1>3, <1>8
    <2>2. Length \in 0..Length
      BY <1>2
    <2>3. /\ Ordered(Between(cuts))
          /\ \A u \in Int : Covers(Between(cuts), u) <=> Covers(f[n].left, u) \/ (f[n].at <= u /\ u < Length)
      BY <2>1, <2>2, <1>6, <1>8, AppendedOrdered
    <2>4. \A u \in Int : Taken(cuts, n, u) => u < f[n].at
      <3> SUFFICES ASSUME NEW u \in Int, Taken(cuts, n, u) PROVE u < f[n].at
        OBVIOUS
      <3>1. PICK j \in 1..n : cuts[j][1] <= u /\ u < cuts[j][2]
        BY DEF Taken
      <3>2. cuts[j][2] \in Int /\ cuts[j][2] <= f[n].at /\ f[n].at \in Int
        BY <1>1, <1>6
      <3> QED
        BY <3>1, <3>2
    <2>5. f[n].at \in Nat /\ \A u \in Int : Covers(f[n].left, u) <=> 0 <= u /\ u < f[n].at /\ ~Taken(cuts, n, u)
      BY <1>6
    <2> QED
      BY <2>3, <2>4, <2>5, <1>2, <1>7, <1>8
  <1>9. CASE ~(f[n].at < Length)
    <2>1. Between(cuts) = f[n].left /\ f[n].at = Length
      BY <1>3, <1>9, <1>6, <1>2
    <2> QED
      BY <2>1, <1>6, <1>7
  <1> QED
    BY <1>8, <1>9

\* There are finitely many intervals.
LEMMA IntervalsFinite ==
    ASSUME NEW S \in SUBSET Interval
    PROVE  IsFiniteSet(S) /\ Cardinality(S) \in Nat
  <1>1. IsFiniteSet(0..Length)
    BY AudioScale, FS_Interval
  <1>2. IsFiniteSet((0..Length) \X (0..Length))
    BY <1>1, FS_Product
  <1>3. S \in SUBSET ((0..Length) \X (0..Length))
    BY DEF Interval
  <1> QED
    BY <1>2, <1>3, FS_Subset, FS_CardinalityType

\* Intervals in order are in a sequence.
LEMMA IntervalsRanked ==
    ASSUME NEW S \in SUBSET Interval
    PROVE  /\ InOrder(S) \in Seq(Interval) /\ Len(InOrder(S)) = Cardinality(S)
           /\ DOMAIN InOrder(S) = 1..Cardinality(S) /\ Cardinality(S) \in Nat
           /\ \A n \in DOMAIN InOrder(S) : InOrder(S)[n] \in S
           /\ \A i \in S : \E n \in DOMAIN InOrder(S) : InOrder(S)[n] = i
           /\ \A j, k \in DOMAIN InOrder(S) : j < k => InOrder(S)[j] # InOrder(S)[k] /\ Before(InOrder(S)[j], InOrder(S)[k])
  <1>1. Interval \in SUBSET (Int \X Int)
    BY IntervalFacts DEF Interval
  <1> QED
    BY <1>1, IntervalsFinite, Ranked

\* In order, intervals cover what they covered.
LEMMA InOrderCovers ==
    ASSUME NEW S \in SUBSET Interval
    PROVE  /\ Sorted(InOrder(S))
           /\ \A u : Covers(InOrder(S), u) <=> \E i \in S : i[1] <= u /\ u < i[2]
  <1> DEFINE seq == InOrder(S)
  <1>1. /\ seq \in Seq(Interval)
        /\ \A n \in DOMAIN seq : seq[n] \in S
        /\ \A i \in S : \E n \in DOMAIN seq : seq[n] = i
        /\ \A j, k \in DOMAIN seq : j < k => Before(seq[j], seq[k])
    BY IntervalsRanked
  <1> HIDE DEF seq
  <1>2. \A i, k \in Interval : Before(i, k) => i[1] <= k[1]
    BY IntervalFacts DEF Before
  <1>3. \A u : Covers(seq, u) <=> \E i \in S : i[1] <= u /\ u < i[2]
    BY <1>1 DEF Covers
  <1>4. Sorted(seq)
    <2>1. \A j \in DOMAIN seq : seq[j] \in Interval
      BY <1>1
    <2> QED
      BY <1>1, <1>2, <2>1 DEF Sorted
  <1> QED
    BY <1>3, <1>4 DEF seq

\* Intervals that do not overlap follow one another when they are in order.
LEMMA ApartInOrder ==
    ASSUME NEW S \in SUBSET Interval, \A i, k \in S : i = k \/ i[2] <= k[1] \/ k[2] <= i[1]
    PROVE  Ordered(InOrder(S))
  <1> DEFINE seq == InOrder(S)
  <1>1. /\ seq \in Seq(Interval)
        /\ \A n \in DOMAIN seq : seq[n] \in S
        /\ \A j, k \in DOMAIN seq : j < k => seq[j] # seq[k] /\ Before(seq[j], seq[k])
    BY IntervalsRanked
  <1> HIDE DEF seq
  <1>2. \A i, k \in S : Before(i, k) /\ i # k => i[2] <= k[1]
    <2> SUFFICES ASSUME NEW i \in S, NEW k \in S, Before(i, k), i # k PROVE i[2] <= k[1]
      OBVIOUS
    <2>1. i[1] \in Int /\ i[2] \in Int /\ k[1] \in Int /\ k[2] \in Int /\ i[1] < i[2] /\ k[1] < k[2]
      BY IntervalFacts
    <2>2. i[2] <= k[1] \/ k[2] <= i[1]
      OBVIOUS
    <2> QED
      BY <2>1, <2>2 DEF Before
  <1> QED
    BY <1>1, <1>2 DEF Ordered, seq

\* The last interval replaced by one that reaches further.
LEMMA LastExtended ==
    ASSUME NEW acc \in Seq(Interval), acc # <<>>, NEW i \in Interval, i[1] <= Last(acc)[2]
    PROVE  /\ Join(acc, i) \in Seq(Interval)
           /\ DOMAIN Join(acc, i) = 1..Len(acc) /\ Len(Join(acc, i)) = Len(acc) /\ Len(acc) \in Nat \ {0}
           /\ \A k \in 1..Len(acc) : k # Len(acc) => Join(acc, i)[k] = acc[k]
           /\ Join(acc, i)[Len(acc)][1] = Last(acc)[1]
           /\ Join(acc, i)[Len(acc)][2] = UpperOf(Last(acc)[2], i[2])
  <1> DEFINE n == Len(acc)
             l == acc[n]
             new == <<l[1], UpperOf(l[2], i[2])>>
  <1>1. n \in Nat \ {0} /\ l \in Interval /\ l = Last(acc) /\ DOMAIN acc = 1..n
    <2>1. n \in Nat \ {0} /\ DOMAIN acc = 1..n
      BY EmptySeq, LenProperties
    <2> QED
      BY <2>1 DEF Last
  <1>2. Join(acc, i) = [acc EXCEPT ![n] = new]
    BY <1>1 DEF Join, Last
  <1>3. new \in Interval /\ new[1] = l[1] /\ new[2] = UpperOf(l[2], i[2])
    <2>1. l[1] \in 0..Length /\ l[2] \in 0..Length /\ i[2] \in 0..Length /\ l[1] < l[2] /\ i[1] < i[2]
      BY <1>1, IntervalFacts
    <2>2. UpperOf(l[2], i[2]) \in 0..Length /\ l[1] < UpperOf(l[2], i[2])
      BY <2>1 DEF UpperOf
    <2> QED
      BY <2>1, <2>2, IntervalFacts
  <1> HIDE DEF new
  <1> DEFINE s == [acc EXCEPT ![n] = new]
  <1>4. s \in Seq(Interval) /\ Len(s) = n /\ \A j \in 1..n : s[j] = IF j = n THEN new ELSE acc[j]
    BY <1>1, <1>3, ExceptSeq
  <1>5. DOMAIN s = 1..n
    BY <1>1
  <1> HIDE DEF s, l, n
  <1>6. s[n] = new /\ \A k \in 1..n : k # n => s[k] = acc[k]
    BY <1>1, <1>4
  <1> USE DEF n
  <1> QED
    BY <1>1, <1>2, <1>3, <1>4, <1>5, <1>6 DEF s

\* The loop that joins intervals.
LEMMA MergedComputed ==
    ASSUME NEW seq \in Seq(Interval)
    PROVE  \E f : /\ f[0] = <<>>
                  /\ \A k \in 1..Len(seq) : f[k] = Join(f[k - 1], seq[k])
                  /\ Merged(seq) = f[Len(seq)]
  <1> DEFINE n == Len(seq)
             T == Seq(Interval)
             step == [p \in (1..n) \X T |-> Join(p[2], seq[p[1]])]
  <1>1. n \in Nat /\ \A k \in 1..n : seq[k] \in Interval
    OBVIOUS
  <1>2. <<>> \in T
    OBVIOUS
  <1>3. \A t \in T, c \in Interval : Join(t, c) \in T
    <2> SUFFICES ASSUME NEW t \in T, NEW c \in Interval PROVE Join(t, c) \in T
      OBVIOUS
    <2>1. CASE t # <<>> /\ c[1] <= Last(t)[2]
      BY <2>1, LastExtended
    <2>2. CASE ~(t # <<>> /\ c[1] <= Last(t)[2])
      BY <2>2 DEF Join
    <2> QED
      BY <2>1, <2>2
  <1>4. step \in [(1..n) \X T -> T]
    <2> HIDE DEF T, n
    <2> QED
      BY <1>1, <1>3
  <1>5. PICK f \in [0..n -> T] : f[0] = <<>> /\ \A k \in 1..n : f[k] = step[<<k, f[k - 1]>>]
    <2>1. n \in Nat
      BY <1>1
    <2> HIDE DEF T, n, step
    <2>2. Runs(T, <<>>, n, step) # {}
      BY <2>1, <1>2, <1>4, Computed, Zenon
    <2> QED
      BY <2>2 DEF Runs
  <1>6. \A k \in 1..n : f[k] = Join(f[k - 1], seq[k])
    <2> SUFFICES ASSUME NEW k \in 1..n PROVE f[k] = Join(f[k - 1], seq[k])
      OBVIOUS
    <2>1. f[k - 1] \in T
      <3> HIDE DEF T
      <3> QED
        BY <1>1
    <2> HIDE DEF T
    <2> QED
      BY <1>5, <2>1
  <1> DEFINE F(g) == [k \in 0..n |-> IF k = 0 THEN <<>> ELSE Join(g[k - 1], seq[k])]
             upTo == CHOOSE g : g = F(g)
  <1>7. f = F(f)
    <2> HIDE DEF T, n
    <2> QED
      BY <1>1, <1>5, <1>6
  <1>8. upTo = F(upTo)
    <2> HIDE DEF F
    <2> QED
      BY <1>7
  <1>9. upTo[0] = <<>> /\ \A k \in 1..n : upTo[k] = Join(upTo[k - 1], seq[k])
    <2> HIDE DEF upTo, n
    <2>1. \A k \in 0..n : F(upTo)[k] = IF k = 0 THEN <<>> ELSE Join(upTo[k - 1], seq[k])
      OBVIOUS
    <2> HIDE DEF F
    <2>2. \A k \in 0..n : upTo[k] = IF k = 0 THEN <<>> ELSE Join(upTo[k - 1], seq[k])
      BY <1>8, <2>1, Zenon
    <2> QED
      BY <1>1, <2>2
  <1>10. Merged(seq) = upTo[n]
    BY DEF Merged
  <1> QED
    <2> HIDE DEF upTo
    <2> QED
      BY <1>9, <1>10

\* Joined intervals do not overlap, and cover what they covered.
LEMMA MergedKeeps ==
    ASSUME NEW seq, Sorted(seq)
    PROVE  Ordered(Merged(seq)) /\ \A u \in Int : Covers(Merged(seq), u) <=> Covers(seq, u)
  <1> DEFINE n == Len(seq)
  <1>1. /\ seq \in Seq(Interval) /\ n \in Nat /\ DOMAIN seq = 1..n
        /\ \A k \in 1..n : seq[k] \in Interval
        /\ \A j, k \in 1..n : j < k => seq[j][1] <= seq[k][1]
    BY DEF Sorted
  <1> HIDE DEF n
  <1>2. PICK f : /\ f[0] = <<>>
                 /\ \A k \in 1..n : f[k] = Join(f[k - 1], seq[k])
                 /\ Merged(seq) = f[n]
    BY <1>1, MergedComputed DEF n
  <1> DEFINE Inv(k) ==
        /\ Ordered(f[k])
        /\ k > 0 => f[k] # <<>> /\ Last(f[k])[1] <= seq[k][1]
        /\ k = 0 => f[k] = <<>>
        /\ \A u \in Int : Covers(f[k], u) <=> Taken(seq, k, u)
  <1>3. Inv(0)
    BY <1>2 DEF Ordered, Covers, Taken
  <1>4. \A k \in 1..n : Inv(k - 1) => Inv(k)
    <2> SUFFICES ASSUME NEW k \in 1..n, Inv(k - 1) PROVE Inv(k)
      OBVIOUS
    <2> DEFINE acc == f[k - 1]
               c == seq[k]
    <2>1. f[k] = Join(acc, c)
      BY <1>2
    <2>2. c \in Interval /\ c[1] \in 0..Length /\ c[2] \in 0..Length /\ c[1] < c[2]
      BY <1>1, IntervalFacts
    <2>3. /\ Ordered(acc) /\ acc \in Seq(Interval)
          /\ acc # <<>> => Last(acc)[1] <= c[1]
          /\ \A u \in Int : Covers(acc, u) <=> Taken(seq, k - 1, u)
      <3>1. acc # <<>> => Last(acc)[1] <= c[1]
        <4> SUFFICES ASSUME acc # <<>> PROVE Last(acc)[1] <= c[1]
          OBVIOUS
        <4>0. k - 1 = 0 => acc = <<>>
          BY <1>2
        <4>1. k - 1 \in 1..n /\ k - 1 < k
          <5> HIDE DEF acc, Inv
          <5> QED
            BY <4>0, <1>1
        <4>2. Last(acc)[1] <= seq[k - 1][1]
          BY <4>1
        <4>3. seq[k - 1][1] <= seq[k][1] /\ seq[k - 1][1] \in Int /\ seq[k][1] \in Int
          <5>1. seq[k - 1] \in Interval /\ seq[k] \in Interval /\ seq[k - 1][1] <= seq[k][1]
            <6> HIDE DEF acc, Inv
            <6> QED
              BY <1>1, <4>1
          <5> QED
            BY <5>1, IntervalFacts
        <4>4. acc[Len(acc)] \in Interval
          BY EmptySeq, LenProperties DEF Ordered
        <4>5. Last(acc)[1] \in Int
          BY <4>4, IntervalFacts DEF Last
        <4> QED
          BY <4>2, <4>3, <4>5
      <3> QED
        BY <3>1 DEF Ordered
    <2> HIDE DEF acc, c
    <2>4. /\ Ordered(f[k]) /\ f[k] # <<>> /\ Last(f[k])[1] <= c[1]
          /\ \A u \in Int : Covers(f[k], u) <=> Covers(acc, u) \/ (c[1] <= u /\ u < c[2])
      <3>1. CASE acc # <<>> /\ c[1] <= Last(acc)[2]
        <4> DEFINE s == Join(acc, c)
                   m == Len(acc)
        <4>1. /\ s \in Seq(Interval) /\ DOMAIN s = 1..m /\ Len(s) = m /\ m \in Nat \ {0}
              /\ \A j \in 1..m : j # m => s[j] = acc[j]
              /\ s[m][1] = Last(acc)[1] /\ s[m][2] = UpperOf(Last(acc)[2], c[2])
          BY <2>2, <2>3, <3>1, LastExtended
        <4>2. DOMAIN acc = 1..m /\ Last(acc) = acc[m] /\ \A j \in 1..m : acc[j] \in Interval
          BY <2>3, <4>1, LenProperties DEF Last
        <4>3. \A i, j \in 1..m : i < j => acc[i][2] <= acc[j][1]
          BY <2>3, <4>2 DEF Ordered
        <4> HIDE DEF s, m
        <4>4. \A i, j \in 1..m : i < j => s[i][2] <= s[j][1]
          <5> SUFFICES ASSUME NEW i \in 1..m, NEW j \in 1..m, i < j PROVE s[i][2] <= s[j][1]
            OBVIOUS
          <5>1. s[i] = acc[i] /\ s[j][1] = acc[j][1]
            BY <4>1, <4>2
          <5> QED
            BY <5>1, <4>3
        <4>5. Ordered(s)
          BY <4>1, <4>4 DEF Ordered
        <4>6. s # <<>> /\ Last(s) = s[m]
          BY <4>1 DEF Last
        <4>7. \A u \in Int : Covers(s, u) <=> Covers(acc, u) \/ (c[1] <= u /\ u < c[2])
          <5> SUFFICES ASSUME NEW u \in Int PROVE Covers(s, u) <=> Covers(acc, u) \/ (c[1] <= u /\ u < c[2])
            OBVIOUS
          <5> DEFINE early == \E j \in 1..(m - 1) : acc[j][1] <= u /\ u < acc[j][2]
          <5>1. 1..m = 1..(m - 1) \cup {m}
            BY <4>1
          <5>2. Covers(acc, u) <=> early \/ (acc[m][1] <= u /\ u < acc[m][2])
            BY <4>2, <5>1 DEF Covers
          <5>3. Covers(s, u) <=> early \/ (s[m][1] <= u /\ u < s[m][2])
            <6>1. \A j \in 1..(m - 1) : s[j] = acc[j]
              BY <4>1
            <6> QED
              BY <4>1, <5>1, <6>1 DEF Covers
          <5>4. acc[m][1] \in Int /\ acc[m][2] \in Int /\ acc[m][1] < acc[m][2]
            BY <4>1, <4>2, IntervalFacts
          <5>5. (s[m][1] <= u /\ u < s[m][2]) <=> (acc[m][1] <= u /\ u < acc[m][2]) \/ (c[1] <= u /\ u < c[2])
            BY <5>4, <4>1, <4>2, <3>1, <2>2, <2>3 DEF UpperOf
          <5> HIDE DEF early
          <5> QED
            BY <5>2, <5>3, <5>5
        <4> QED
          BY <2>1, <2>3, <3>1, <4>1, <4>5, <4>6, <4>7 DEF s
      <3>2. CASE ~(acc # <<>> /\ c[1] <= Last(acc)[2])
        <4>1. f[k] = Append(acc, c)
          BY <2>1, <3>2 DEF Join
        <4>2. c = <<c[1], c[2]>>
          BY <2>2, IntervalFacts
        <4>3. \A j \in DOMAIN acc : acc[j][2] <= c[1]
          <5> SUFFICES ASSUME NEW j \in DOMAIN acc PROVE acc[j][2] <= c[1]
            OBVIOUS
          <5>1. /\ Len(acc) \in Nat \ {0} /\ j \in 1..Len(acc) /\ Last(acc) = acc[Len(acc)] /\ acc # <<>>
                /\ acc[j] \in Interval /\ acc[Len(acc)] \in Interval /\ DOMAIN acc = 1..Len(acc)
            BY <2>3, LenProperties, EmptySeq DEF Last
          <5>2. /\ acc[j][2] \in Int /\ acc[Len(acc)][1] \in Int /\ acc[Len(acc)][2] \in Int
                /\ acc[Len(acc)][1] < acc[Len(acc)][2]
            BY <5>1, IntervalFacts
          <5>3. j = Len(acc) \/ acc[j][2] <= acc[Len(acc)][1]
            BY <5>1, <2>3 DEF Ordered
          <5> QED
            BY <5>1, <5>2, <5>3, <3>2, <2>2
        <4>4. /\ Ordered(Append(acc, <<c[1], c[2]>>))
              /\ \A u \in Int : Covers(Append(acc, <<c[1], c[2]>>), u) <=> Covers(acc, u) \/ (c[1] <= u /\ u < c[2])
          BY <2>2, <2>3, <4>3, AppendedOrdered
        <4>5. f[k] # <<>> /\ Last(f[k]) = c
          BY <4>1, <2>2, <2>3 DEF Last
        <4>6. Append(acc, c) = Append(acc, <<c[1], c[2]>>)
          BY <4>2, Zenon
        <4>7. f[k] = Append(acc, <<c[1], c[2]>>)
          BY <4>1, <4>6, Zenon
        <4>8. Ordered(f[k]) /\ \A u \in Int : Covers(f[k], u) <=> Covers(acc, u) \/ (c[1] <= u /\ u < c[2])
          BY <4>4, <4>7, Zenon
        <4>9. Last(f[k])[1] <= c[1]
          BY <4>5, <2>2
        <4> QED
          BY <4>5, <4>8, <4>9
      <3> QED
        BY <3>1, <3>2
    <2>5. \A u \in Int : Covers(f[k], u) <=> Taken(seq, k, u)
      BY <2>3, <2>4, TakenStep DEF c
    <2> QED
      BY <2>4, <2>5 DEF c
  <1>5. Inv(n)
    <2> DEFINE S == {k \in 0..n : Inv(k)}
    <2> HIDE DEF Inv
    <2>1. 0 \in S /\ \A k \in 1..n : k - 1 \in S => k \in S
      BY <1>1, <1>3, <1>4
    <2> HIDE DEF S
    <2>2. \A k \in 0..n : k \in S
      BY <1>1, <2>1, Steps
    <2>3. n \in S
      BY <1>1, <2>2
    <2> QED
      BY <2>3 DEF S
  <1>6. \A u : Covers(seq, u) <=> Taken(seq, n, u)
    BY <1>1 DEF Covers, Taken
  <1> QED
    BY <1>2, <1>5, <1>6

\* Ordered intervals lie where what they cover lies.
LEMMA CoversBounds ==
    ASSUME NEW seq, Ordered(seq), NEW a \in Int, NEW b \in Int, \A u \in Int : Covers(seq, u) => a <= u /\ u < b
    PROVE  \A k \in DOMAIN seq : a <= seq[k][1] /\ seq[k][2] <= b
  <1> SUFFICES ASSUME NEW k \in DOMAIN seq PROVE a <= seq[k][1] /\ seq[k][2] <= b
    OBVIOUS
  <1>1. seq[k] \in Interval
    BY DEF Ordered
  <1>2. seq[k][1] \in Int /\ seq[k][2] \in Int /\ seq[k][1] < seq[k][2]
    BY <1>1, IntervalFacts
  <1>3. Covers(seq, seq[k][1]) /\ Covers(seq, seq[k][2] - 1) /\ seq[k][2] - 1 \in Int
    BY <1>2 DEF Covers
  <1> QED
    BY <1>2, <1>3

\* One step of subtract_intervals.
LEMMA CutFromFacts ==
    ASSUME NEW i \in Interval, NEW c \in Interval, NEW acc \in [left : Seq(Interval), at : 0..Length]
    PROVE  /\ CutFrom(i, acc, c) \in [left : Seq(Interval), at : 0..Length]
           /\ c[2] <= acc.at \/ c[1] >= i[2] => CutFrom(i, acc, c) = acc
           /\ ~(c[2] <= acc.at \/ c[1] >= i[2]) =>
                /\ CutFrom(i, acc, c).at = LowerOf(i[2], c[2])
                /\ CutFrom(i, acc, c).left = IF c[1] > acc.at THEN Append(acc.left, <<acc.at, c[1]>>) ELSE acc.left
  <1>1. /\ i[1] \in 0..Length /\ i[2] \in 0..Length /\ i[1] < i[2]
        /\ c[1] \in 0..Length /\ c[2] \in 0..Length /\ c[1] < c[2]
        /\ acc.at \in 0..Length /\ acc.left \in Seq(Interval) /\ Length \in Nat
    BY IntervalFacts, AudioScale
  <1>2. CASE c[2] <= acc.at \/ c[1] >= i[2]
    BY <1>2 DEF CutFrom
  <1>3. CASE ~(c[2] <= acc.at \/ c[1] >= i[2])
    <2> DEFINE left == IF c[1] > acc.at THEN Append(acc.left, <<acc.at, c[1]>>) ELSE acc.left
    <2>1. LowerOf(c[1], i[2]) = c[1] /\ LowerOf(i[2], UpperOf(acc.at, c[2])) = LowerOf(i[2], c[2])
      BY <1>1, <1>3 DEF LowerOf, UpperOf
    <2>2. CutFrom(i, acc, c) = [left |-> left, at |-> LowerOf(i[2], c[2])]
      BY <2>1, <1>3 DEF CutFrom
    <2>3. LowerOf(i[2], c[2]) \in 0..Length
      BY <1>1 DEF LowerOf
    <2>4. left \in Seq(Interval)
      <3>1. CASE c[1] > acc.at
        <4>1. <<acc.at, c[1]>> \in Interval
          BY <1>1, <3>1, IntervalFacts
        <4> QED
          BY <1>1, <3>1, <4>1
      <3>2. CASE ~(c[1] > acc.at)
        BY <1>1, <3>2
      <3> QED
        BY <3>1, <3>2
    <2> HIDE DEF left
    <2>5. CutFrom(i, acc, c).at = LowerOf(i[2], c[2]) /\ CutFrom(i, acc, c).left = left
      BY <2>2
    <2> QED
      BY <1>3, <2>2, <2>3, <2>4, <2>5 DEF left
  <1> QED
    BY <1>2, <1>3

\* The loop of subtract_intervals over the cuts.
LEMMA PiecesComputed ==
    ASSUME NEW i \in Interval, NEW cuts \in Seq(Interval)
    PROVE  \E f :
              /\ f[0] = [left |-> <<>>, at |-> i[1]]
              /\ \A k \in 1..Len(cuts) : f[k] = CutFrom(i, f[k - 1], cuts[k])
              /\ Pieces(i, cuts) = IF f[Len(cuts)].at < i[2]
                                   THEN Append(f[Len(cuts)].left, <<f[Len(cuts)].at, i[2]>>)
                                   ELSE f[Len(cuts)].left
  <1> DEFINE n == Len(cuts)
             T == [left : Seq(Interval), at : 0..Length]
             base == [left |-> <<>>, at |-> i[1]]
             step == [p \in (1..n) \X T |-> CutFrom(i, p[2], cuts[p[1]])]
  <1>1. n \in Nat /\ \A k \in 1..n : cuts[k] \in Interval
    OBVIOUS
  <1>2. base \in T
    BY IntervalFacts
  <1>3. \A t \in T, c \in Interval : CutFrom(i, t, c) \in T
    BY CutFromFacts
  <1>4. step \in [(1..n) \X T -> T]
    <2> HIDE DEF T, n
    <2> QED
      BY <1>1, <1>3
  <1>5. PICK f \in [0..n -> T] : f[0] = base /\ \A k \in 1..n : f[k] = step[<<k, f[k - 1]>>]
    <2>1. n \in Nat
      BY <1>1
    <2> HIDE DEF T, n, base, step
    <2>2. Runs(T, base, n, step) # {}
      BY <2>1, <1>2, <1>4, Computed, Zenon
    <2> QED
      BY <2>2 DEF Runs
  <1>6. \A k \in 1..n : f[k] = CutFrom(i, f[k - 1], cuts[k])
    <2> SUFFICES ASSUME NEW k \in 1..n PROVE f[k] = CutFrom(i, f[k - 1], cuts[k])
      OBVIOUS
    <2>1. f[k - 1] \in T
      <3> HIDE DEF T
      <3> QED
        BY <1>1
    <2> HIDE DEF T
    <2> QED
      BY <1>5, <2>1
  <1> DEFINE F(g) == [k \in 0..n |-> IF k = 0 THEN base ELSE CutFrom(i, g[k - 1], cuts[k])]
             upTo == CHOOSE g : g = F(g)
  <1>7. f = F(f)
    <2> HIDE DEF T, base, n
    <2> QED
      BY <1>1, <1>5, <1>6
  <1>8. upTo = F(upTo)
    <2> HIDE DEF F
    <2> QED
      BY <1>7
  <1>9. upTo[0] = base /\ \A k \in 1..n : upTo[k] = CutFrom(i, upTo[k - 1], cuts[k])
    <2> HIDE DEF upTo, base, n
    <2>1. \A k \in 0..n : F(upTo)[k] = IF k = 0 THEN base ELSE CutFrom(i, upTo[k - 1], cuts[k])
      OBVIOUS
    <2> HIDE DEF F
    <2>2. \A k \in 0..n : upTo[k] = IF k = 0 THEN base ELSE CutFrom(i, upTo[k - 1], cuts[k])
      BY <1>8, <2>1, Zenon
    <2> QED
      BY <1>1, <2>2
  <1>10. Pieces(i, cuts) = IF upTo[n].at < i[2] THEN Append(upTo[n].left, <<upTo[n].at, i[2]>>) ELSE upTo[n].left
    BY DEF Pieces
  <1> QED
    <2> HIDE DEF upTo
    <2> QED
      BY <1>9, <1>10

\* What cuts leave of an interval.
LEMMA PiecesLeave ==
    ASSUME NEW i \in Interval, NEW cuts, Sorted(cuts)
    PROVE  /\ Ordered(Pieces(i, cuts))
           /\ \A u \in Int : Covers(Pieces(i, cuts), u) <=> i[1] <= u /\ u < i[2] /\ ~Covers(cuts, u)
  <1> DEFINE n == Len(cuts)
             T == [left : Seq(Interval), at : 0..Length]
  <1>1. /\ cuts \in Seq(Interval) /\ n \in Nat /\ DOMAIN cuts = 1..n
        /\ \A k \in 1..n : cuts[k] \in Interval /\ cuts[k][1] \in 0..Length /\ cuts[k][2] \in 0..Length /\ cuts[k][1] < cuts[k][2]
        /\ \A j, k \in 1..n : j < k => cuts[j][1] <= cuts[k][1]
    <2>1. cuts \in Seq(Interval)
      BY DEF Sorted
    <2>2. \A k \in 1..n : cuts[k] \in Interval
      BY <2>1
    <2>3. n \in Nat /\ DOMAIN cuts = 1..n
      BY <2>1
    <2>4. \A j, k \in 1..n : j < k => cuts[j][1] <= cuts[k][1]
      BY <2>3 DEF Sorted
    <2> HIDE DEF n
    <2>5. \A k \in 1..n : cuts[k][1] \in 0..Length /\ cuts[k][2] \in 0..Length /\ cuts[k][1] < cuts[k][2]
      BY <2>2, IntervalFacts
    <2> QED
      BY <2>1, <2>2, <2>3, <2>4, <2>5
  <1>2. Length \in Nat /\ i[1] \in 0..Length /\ i[2] \in 0..Length /\ i[1] < i[2]
    BY AudioScale, IntervalFacts
  <1> HIDE DEF n
  <1>3. PICK f :
              /\ f[0] = [left |-> <<>>, at |-> i[1]]
              /\ \A k \in 1..n : f[k] = CutFrom(i, f[k - 1], cuts[k])
              /\ Pieces(i, cuts) = IF f[n].at < i[2] THEN Append(f[n].left, <<f[n].at, i[2]>>) ELSE f[n].left
    BY <1>1, PiecesComputed DEF n
  <1> DEFINE Inv(k) ==
        /\ f[k] \in T
        /\ i[1] <= f[k].at /\ f[k].at <= i[2]
        /\ Ordered(f[k].left)
        /\ \A j \in DOMAIN f[k].left : f[k].left[j][2] <= f[k].at
        /\ \A j \in DOMAIN f[k].left, m \in 1..n : m >= k => f[k].left[j][2] <= cuts[m][1]
        /\ \A j \in 1..k : cuts[j][2] <= f[k].at \/ f[k].at = i[2] \/ cuts[j][1] >= i[2]
        /\ \A u \in Int : Covers(f[k].left, u) <=> i[1] <= u /\ u < f[k].at /\ ~Taken(cuts, k, u)
  <1>4. Inv(0)
    <2>1. f[0].at = i[1] /\ f[0].left = <<>> /\ f[0] \in T
      BY <1>2, <1>3
    <2>2. Ordered(<<>>) /\ \A u : ~Covers(<<>>, u)
      BY DEF Ordered, Covers
    <2> QED
      BY <2>1, <2>2, <1>2
  <1>5. \A k \in 1..n : Inv(k - 1) => Inv(k)
    <2> SUFFICES ASSUME NEW k \in 1..n, Inv(k - 1) PROVE Inv(k)
      OBVIOUS
    <2> DEFINE acc == f[k - 1]
               c == cuts[k]
    <2>1. f[k] = CutFrom(i, acc, c)
      BY <1>3
    <2>2. c \in Interval /\ c[1] \in 0..Length /\ c[2] \in 0..Length /\ c[1] < c[2]
      BY <1>1
    <2>3. /\ acc \in T /\ acc.at \in 0..Length /\ acc.left \in Seq(Interval) /\ i[1] <= acc.at /\ acc.at <= i[2]
          /\ Ordered(acc.left)
          /\ \A j \in DOMAIN acc.left : acc.left[j][2] <= acc.at
          /\ \A j \in DOMAIN acc.left, m \in 1..n : m >= k - 1 => acc.left[j][2] <= cuts[m][1]
          /\ \A j \in 1..(k - 1) : cuts[j][2] <= acc.at \/ acc.at = i[2] \/ cuts[j][1] >= i[2]
          /\ \A u \in Int : Covers(acc.left, u) <=> i[1] <= u /\ u < acc.at /\ ~Taken(cuts, k - 1, u)
      OBVIOUS
    <2>4. \A u \in Int : Taken(cuts, k, u) <=> Taken(cuts, k - 1, u) \/ (c[1] <= u /\ u < c[2])
      BY TakenStep
    <2> HIDE DEF acc, c, Inv
    <2>5. \A u \in Int : Covers(acc.left, u) => u < c[1]
      <3> SUFFICES ASSUME NEW u \in Int, Covers(acc.left, u) PROVE u < c[1]
        OBVIOUS
      <3>1. PICK j \in DOMAIN acc.left : acc.left[j][1] <= u /\ u < acc.left[j][2]
        BY DEF Covers
      <3>2. acc.left[j] \in Interval
        BY <2>3 DEF Ordered
      <3>3. acc.left[j][2] \in Int
        BY <3>2, IntervalFacts
      <3>4. acc.left[j][2] <= c[1]
        BY <2>3 DEF c
      <3> QED
        BY <3>1, <3>3, <3>4, <2>2
    <2>6. CASE c[2] <= acc.at \/ c[1] >= i[2]
      <3>1. f[k] = acc
        <4>1. CutFrom(i, acc, c) = acc
          BY <2>2, <2>3, <2>6, CutFromFacts, Zenon
        <4> QED
          BY <2>1, <4>1
      <3>2. \A j \in 1..k : cuts[j][2] <= acc.at \/ acc.at = i[2] \/ cuts[j][1] >= i[2]
        <4> SUFFICES ASSUME NEW j \in 1..k PROVE cuts[j][2] <= acc.at \/ acc.at = i[2] \/ cuts[j][1] >= i[2]
          OBVIOUS
        <4>1. CASE j = k
          BY <4>1, <2>6 DEF c
        <4>2. CASE j # k
          BY <4>2, <2>3
        <4> QED
          BY <4>1, <4>2
      <3>3. \A u \in Int : Covers(acc.left, u) <=> i[1] <= u /\ u < acc.at /\ ~Taken(cuts, k, u)
        BY <2>2, <2>3, <2>4, <2>5
      <3>4. \A j \in DOMAIN acc.left, m \in 1..n : m >= k => acc.left[j][2] <= cuts[m][1]
        BY <2>3
      <3> QED
        BY <3>1, <3>2, <3>3, <3>4, <2>3, Zenon DEF Inv
    <2>7. CASE ~(c[2] <= acc.at \/ c[1] >= i[2])
      <3>1. /\ f[k] \in T
            /\ f[k].at = LowerOf(i[2], c[2])
            /\ f[k].left = IF c[1] > acc.at THEN Append(acc.left, <<acc.at, c[1]>>) ELSE acc.left
        BY <2>1, <2>2, <2>3, <2>7, CutFromFacts
      <3>2. f[k].at \in 0..Length /\ acc.at < c[2] /\ acc.at <= f[k].at /\ f[k].at <= i[2] /\ f[k].at <= c[2]
            /\ c[1] < f[k].at /\ c[1] < i[2] /\ (f[k].at = i[2] \/ f[k].at = c[2])
        BY <3>1, <2>2, <2>3, <2>7, <1>2 DEF LowerOf
      <3>3. /\ Ordered(f[k].left)
            /\ \A u \in Int : Covers(f[k].left, u) <=> Covers(acc.left, u) \/ (acc.at <= u /\ u < c[1])
            /\ \A j \in DOMAIN f[k].left : f[k].left[j][2] <= c[1]
        <4>1. \A j \in DOMAIN acc.left : acc.left[j][2] <= c[1]
          BY <2>3 DEF c
        <4>2. CASE c[1] > acc.at
          <5>1. f[k].left = Append(acc.left, <<acc.at, c[1]>>)
            BY <3>1, <4>2
          <5>2. acc.at < c[1] /\ acc.at \in 0..Length /\ c[1] \in 0..Length /\ Ordered(acc.left)
                /\ \A j \in DOMAIN acc.left : acc.left[j][2] <= acc.at
            BY <4>2, <2>2, <2>3
          <5>3. /\ Ordered(Append(acc.left, <<acc.at, c[1]>>))
                /\ \A u \in Int : Covers(Append(acc.left, <<acc.at, c[1]>>), u) <=> Covers(acc.left, u) \/ (acc.at <= u /\ u < c[1])
                /\ \A j \in DOMAIN Append(acc.left, <<acc.at, c[1]>>) : Append(acc.left, <<acc.at, c[1]>>)[j][2] <= c[1]
            BY <5>2, AppendedOrdered
          <5> QED
            BY <5>1, <5>3
        <4>3. CASE ~(c[1] > acc.at)
          <5>1. f[k].left = acc.left
            BY <3>1, <4>3
          <5> QED
            BY <5>1, <2>2, <2>3, <4>1, <4>3
        <4> QED
          BY <4>2, <4>3
      <3>4. \A j \in DOMAIN f[k].left : f[k].left[j][2] \in Int
        <4>1. \A j \in DOMAIN f[k].left : f[k].left[j] \in Interval
          BY <3>3 DEF Ordered
        <4> QED
          BY <4>1, IntervalFacts
      <3>5. \A j \in DOMAIN f[k].left : f[k].left[j][2] <= f[k].at
        BY <3>2, <3>3, <3>4, <2>2
      <3>6. \A j \in DOMAIN f[k].left, m \in 1..n : m >= k => f[k].left[j][2] <= cuts[m][1]
        <4> SUFFICES ASSUME NEW j \in DOMAIN f[k].left, NEW m \in 1..n, m >= k PROVE f[k].left[j][2] <= cuts[m][1]
          OBVIOUS
        <4>1. f[k].left[j][2] \in Int /\ f[k].left[j][2] <= c[1]
          BY <3>3, <3>4
        <4>2. c[1] <= cuts[m][1] /\ c[1] \in Int /\ cuts[m][1] \in Int
          BY <1>1 DEF c
        <4> QED
          BY <4>1, <4>2
      <3>7. \A j \in 1..k : cuts[j][2] <= f[k].at \/ f[k].at = i[2] \/ cuts[j][1] >= i[2]
        <4> SUFFICES ASSUME NEW j \in 1..k PROVE cuts[j][2] <= f[k].at \/ f[k].at = i[2] \/ cuts[j][1] >= i[2]
          OBVIOUS
        <4>1. CASE j = k
          BY <4>1, <3>2, <2>2 DEF c
        <4>2. CASE j # k
          <5>1. j \in 1..(k - 1) /\ cuts[j][2] \in Int /\ cuts[j][1] \in Int
            BY <4>2, <1>1
          <5>2. cuts[j][2] <= acc.at \/ acc.at = i[2] \/ cuts[j][1] >= i[2]
            BY <5>1, <2>3
          <5>3. acc.at \in Int /\ f[k].at \in Int /\ i[2] \in Int /\ acc.at <= f[k].at /\ f[k].at <= i[2]
            BY <2>3, <3>2, <1>2
          <5> QED
            BY <5>1, <5>2, <5>3
        <4> QED
          BY <4>1, <4>2
      <3>8. \A u \in Int : Covers(f[k].left, u) <=> i[1] <= u /\ u < f[k].at /\ ~Taken(cuts, k, u)
        <4> SUFFICES ASSUME NEW u \in Int PROVE Covers(f[k].left, u) <=> i[1] <= u /\ u < f[k].at /\ ~Taken(cuts, k, u)
          OBVIOUS
        <4>1. Taken(cuts, k, u) <=> Taken(cuts, k - 1, u) \/ (c[1] <= u /\ u < c[2])
          BY <2>4
        <4>2. Covers(f[k].left, u) <=> Covers(acc.left, u) \/ (acc.at <= u /\ u < c[1])
          BY <3>3
        <4>3. Covers(acc.left, u) <=> i[1] <= u /\ u < acc.at /\ ~Taken(cuts, k - 1, u)
          BY <2>3
        <4>4. Covers(acc.left, u) => u < c[1]
          BY <2>5
        <4>5. Taken(cuts, k - 1, u) /\ u < i[2] => u < acc.at
          <5> SUFFICES ASSUME Taken(cuts, k - 1, u), u < i[2] PROVE u < acc.at
            OBVIOUS
          <5>1. PICK j \in 1..(k - 1) : cuts[j][1] <= u /\ u < cuts[j][2]
            BY DEF Taken
          <5>2. cuts[j][2] \in Int /\ cuts[j][1] \in Int /\ (cuts[j][2] <= acc.at \/ acc.at = i[2] \/ cuts[j][1] >= i[2])
            BY <1>1, <2>3
          <5> QED
            BY <5>1, <5>2, <2>3, <1>2
        <4>6. acc.at \in Int /\ c[1] \in Int /\ c[2] \in Int /\ f[k].at \in Int /\ i[1] \in Int /\ i[2] \in Int
          BY <2>2, <2>3, <3>2, <1>2
        <4> QED
          BY <4>1, <4>2, <4>3, <4>4, <4>5, <4>6, <2>2, <2>3, <3>2
      <3>9. i[1] <= f[k].at /\ f[k].at <= i[2]
        BY <3>2, <2>3, <1>2
      <3> QED
        BY <3>1, <3>3, <3>5, <3>6, <3>7, <3>8, <3>9, Zenon DEF Inv
    <2> QED
      BY <2>6, <2>7, Zenon
  <1>6. Inv(n)
    <2> DEFINE S == {k \in 0..n : Inv(k)}
    <2> HIDE DEF Inv
    <2>1. 0 \in S /\ \A k \in 1..n : k - 1 \in S => k \in S
      BY <1>1, <1>4, <1>5
    <2> HIDE DEF S
    <2>2. \A k \in 0..n : k \in S
      BY <1>1, <2>1, Steps
    <2>3. n \in S
      BY <1>1, <2>2
    <2> QED
      BY <2>3 DEF S
  <1>7. \A u : Covers(cuts, u) <=> Taken(cuts, n, u)
    BY <1>1 DEF Covers, Taken
  <1>8. f[n].at \in 0..Length /\ f[n].at <= i[2] /\ i[1] <= f[n].at
        /\ \A u \in Int : Covers(f[n].left, u) <=> i[1] <= u /\ u < f[n].at /\ ~Taken(cuts, n, u)
    BY <1>6
  <1>9. CASE f[n].at < i[2]
    <2>1. Pieces(i, cuts) = Append(f[n].left, <<f[n].at, i[2]>>)
      BY <1>3, <1>9
    <2>2. /\ Ordered(Pieces(i, cuts))
          /\ \A u \in Int : Covers(Pieces(i, cuts), u) <=> Covers(f[n].left, u) \/ (f[n].at <= u /\ u < i[2])
      <3>1. Ordered(f[n].left) /\ \A j \in DOMAIN f[n].left : f[n].left[j][2] <= f[n].at
        BY <1>6
      <3>2. /\ Ordered(Append(f[n].left, <<f[n].at, i[2]>>))
            /\ \A u \in Int : Covers(Append(f[n].left, <<f[n].at, i[2]>>), u) <=> Covers(f[n].left, u) \/ (f[n].at <= u /\ u < i[2])
        <4> HIDE DEF Inv
        <4> QED
          BY <3>1, <1>2, <1>8, <1>9, AppendedOrdered
      <3> QED
        BY <2>1, <3>2
    <2>3. \A u \in Int : Taken(cuts, n, u) /\ u < i[2] => u < f[n].at
      <3> SUFFICES ASSUME NEW u \in Int, Taken(cuts, n, u), u < i[2] PROVE u < f[n].at
        OBVIOUS
      <3>1. PICK j \in 1..n : cuts[j][1] <= u /\ u < cuts[j][2]
        BY DEF Taken
      <3>2. cuts[j][2] \in Int /\ cuts[j][1] \in Int /\ (cuts[j][2] <= f[n].at \/ f[n].at = i[2] \/ cuts[j][1] >= i[2])
        BY <1>1, <1>6
      <3> QED
        BY <3>1, <3>2, <1>2, <1>8, <1>9
    <2> QED
      BY <2>2, <2>3, <1>2, <1>7, <1>8, <1>9
  <1>10. CASE ~(f[n].at < i[2])
    <2>1. Pieces(i, cuts) = f[n].left /\ f[n].at = i[2]
      BY <1>3, <1>10, <1>8, <1>2
    <2> QED
      BY <2>1, <1>6, <1>7, <1>8
  <1> QED
    BY <1>9, <1>10

\* Intervals before a time, and intervals after it.
LEMMA ConcatOrdered ==
    ASSUME NEW s, NEW t, Ordered(s), Ordered(t), NEW a \in Int,
           \A k \in DOMAIN s : s[k][2] <= a, \A k \in DOMAIN t : a <= t[k][1]
    PROVE  /\ Ordered(s \o t)
           /\ \A u : Covers(s \o t, u) <=> Covers(s, u) \/ Covers(t, u)
  <1> DEFINE m == Len(s)
             n == Len(t)
             c == s \o t
  <1>1. s \in Seq(Interval) /\ t \in Seq(Interval)
    BY DEF Ordered
  <1>2. m \in Nat /\ n \in Nat /\ DOMAIN s = 1..m /\ DOMAIN t = 1..n
    BY <1>1
  <1>3. /\ c \in Seq(Interval) /\ DOMAIN c = 1..(m + n)
        /\ \A k \in 1..m : c[k] = s[k] /\ s[k] \in Interval
        /\ \A k \in 1..n : c[m + k] = t[k] /\ t[k] \in Interval
    <2>1. c \in Seq(Interval) /\ Len(c) = m + n
      BY <1>1, ConcatProperties
    <2>2. \A k \in 1..(m + n) : c[k] = IF k <= m THEN s[k] ELSE t[k - m]
      BY <1>1, ConcatProperties
    <2>3. DOMAIN c = 1..(m + n)
      <3> HIDE DEF c, m, n
      <3> QED
        BY <2>1, LenProperties
    <2>4. \A k \in 1..m : s[k] \in Interval
      BY <1>1
    <2>5. \A k \in 1..n : t[k] \in Interval
      BY <1>1
    <2> HIDE DEF c, m, n
    <2>6. \A k \in 1..m : c[k] = s[k]
      BY <2>2, <1>2
    <2>7. \A k \in 1..n : c[m + k] = t[k]
      <3> SUFFICES ASSUME NEW k \in 1..n PROVE c[m + k] = t[k]
        OBVIOUS
      <3>1. m + k \in 1..(m + n) /\ ~(m + k <= m) /\ (m + k) - m = k
        BY <1>2
      <3> QED
        BY <3>1, <2>2
    <2> QED
      BY <2>1, <2>3, <2>4, <2>5, <2>6, <2>7
  <1> HIDE DEF c, m, n
  <1>7. ASSUME NEW k \in 1..n PROVE c[m + k] = t[k]
    BY <1>3
  <1>4. \A j \in 1..(m + n) : j \in 1..m \/ (j - m \in 1..n /\ c[j] = t[j - m])
    <2> SUFFICES ASSUME NEW j \in 1..(m + n), j \notin 1..m PROVE j - m \in 1..n /\ c[j] = t[j - m]
      OBVIOUS
    <2>1. \E k \in 1..n : m + k = j
      <3>1. j - m \in 1..n /\ m + (j - m) = j
        BY <1>2
      <3> QED
        BY <3>1
    <2>2. PICK k \in 1..n : m + k = j
      BY <2>1
    <2>3. c[m + k] = t[k]
      BY <1>7, <2>2
    <2>4. k = j - m
      BY <2>2, <1>2
    <2>5. c[j] = t[k]
      BY <2>2, <2>3, Zenon
    <2> QED
      BY <2>4, <2>5
  <1>5. \A j, k \in 1..(m + n) : j < k => c[j][2] <= c[k][1]
    <2> SUFFICES ASSUME NEW j \in 1..(m + n), NEW k \in 1..(m + n), j < k PROVE c[j][2] <= c[k][1]
      OBVIOUS
    <2>1. CASE k \in 1..m
      <3>1. j \in 1..m
        BY <2>1, <1>2
      <3>2. c[j] = s[j] /\ c[k] = s[k]
        BY <2>1, <3>1, <1>3
      <3> QED
        BY <2>1, <3>1, <3>2, <1>2 DEF Ordered
    <2>2. CASE k \notin 1..m /\ j \in 1..m
      <3>1. c[j] = s[j] /\ c[k] = t[k - m] /\ k - m \in 1..n
        BY <2>2, <1>3, <1>4
      <3>2. s[j][2] <= a /\ a <= t[k - m][1]
        BY <2>2, <3>1, <1>2
      <3>3. s[j][2] \in Int /\ t[k - m][1] \in Int
        BY <2>2, <3>1, <1>3, IntervalFacts
      <3> QED
        BY <3>1, <3>2, <3>3
    <2>3. CASE k \notin 1..m /\ j \notin 1..m
      <3>1. c[j] = t[j - m] /\ j - m \in 1..n /\ c[k] = t[k - m] /\ k - m \in 1..n
        BY <2>3, <1>4
      <3>2. j - m < k - m
        BY <1>2
      <3> QED
        BY <3>1, <3>2, <1>2 DEF Ordered
    <2> QED
      BY <2>1, <2>2, <2>3
  <1>6. \A u : Covers(c, u) <=> Covers(s, u) \/ Covers(t, u)
    <2> SUFFICES ASSUME NEW u PROVE Covers(c, u) <=> Covers(s, u) \/ Covers(t, u)
      OBVIOUS
    <2>1. ASSUME Covers(c, u) PROVE Covers(s, u) \/ Covers(t, u)
      <3>1. PICK j \in 1..(m + n) : c[j][1] <= u /\ u < c[j][2]
        BY <2>1, <1>3 DEF Covers
      <3>2. CASE j \in 1..m
        BY <3>1, <3>2, <1>2, <1>3 DEF Covers
      <3>3. CASE j \notin 1..m
        <4>1. j - m \in DOMAIN t /\ c[j] = t[j - m]
          BY <3>3, <1>2, <1>4
        <4> QED
          BY <3>1, <4>1 DEF Covers
      <3> QED
        BY <3>2, <3>3
    <2>2. ASSUME Covers(s, u) PROVE Covers(c, u)
      <3>1. PICK j \in 1..m : s[j][1] <= u /\ u < s[j][2]
        BY <2>2, <1>2 DEF Covers
      <3>2. j \in DOMAIN c /\ c[j] = s[j]
        BY <1>2, <1>3
      <3> QED
        BY <3>1, <3>2 DEF Covers
    <2>3. ASSUME Covers(t, u) PROVE Covers(c, u)
      <3>1. PICK j \in 1..n : t[j][1] <= u /\ u < t[j][2]
        BY <2>3, <1>2 DEF Covers
      <3>2. m + j \in 1..(m + n)
        BY <1>2
      <3>3. c[m + j] = t[j]
        BY <1>7, <3>1
      <3>4. m + j \in DOMAIN c
        BY <1>3, <3>2, Zenon
      <3> HIDE DEF c
      <3> QED
        BY <3>1, <3>3, <3>4 DEF Covers
    <2> QED
      BY <2>1, <2>2, <2>3
  <1> QED
    BY <1>3, <1>5, <1>6 DEF Ordered, c

\* The loop of subtract_intervals over the intervals.
LEMMA SubtractComputed ==
    ASSUME NEW intervals \in Seq(Interval), NEW S \in SUBSET Interval
    PROVE  \E f : /\ f[0] = <<>>
                  /\ \A k \in 1..Len(intervals) : f[k] = f[k - 1] \o Pieces(intervals[k], InOrder(S))
                  /\ Subtract(intervals, S) = f[Len(intervals)]
  <1> DEFINE n == Len(intervals)
             T == Seq(Interval)
             P(k) == Pieces(intervals[k], InOrder(S))
             step == [p \in (1..n) \X T |-> p[2] \o P(p[1])]
  <1>1. n \in Nat /\ \A k \in 1..n : intervals[k] \in Interval
    OBVIOUS
  <1>2. <<>> \in T
    OBVIOUS
  <1>3. \A k \in 1..n : P(k) \in T
    <2> SUFFICES ASSUME NEW k \in 1..n PROVE P(k) \in T
      OBVIOUS
    <2>1. Ordered(P(k))
      <3>1. Sorted(InOrder(S)) /\ intervals[k] \in Interval
        BY <1>1, InOrderCovers
      <3> QED
        BY <3>1, PiecesLeave
    <2> QED
      BY <2>1 DEF Ordered
  <1> HIDE DEF P
  <1>4. step \in [(1..n) \X T -> T]
    <2>1. \A k \in 1..n, t \in T : t \o P(k) \in T
      BY <1>3
    <2> HIDE DEF T, n
    <2> QED
      BY <2>1
  <1>5. PICK f \in [0..n -> T] : f[0] = <<>> /\ \A k \in 1..n : f[k] = step[<<k, f[k - 1]>>]
    <2>1. n \in Nat
      BY <1>1
    <2> HIDE DEF T, n, step
    <2>2. Runs(T, <<>>, n, step) # {}
      BY <2>1, <1>2, <1>4, Computed, Zenon
    <2> QED
      BY <2>2 DEF Runs
  <1>6. \A k \in 1..n : f[k] = f[k - 1] \o P(k)
    <2> SUFFICES ASSUME NEW k \in 1..n PROVE f[k] = f[k - 1] \o P(k)
      OBVIOUS
    <2>1. f[k - 1] \in T
      <3> HIDE DEF T
      <3> QED
        BY <1>1
    <2> HIDE DEF T
    <2> QED
      BY <1>5, <2>1
  <1> DEFINE G(q, k) == q \o P(k)
             F(g) == [k \in 0..n |-> IF k = 0 THEN <<>> ELSE G(g[k - 1], k)]
             upTo == CHOOSE g : g = F(g)
  <1>7. f = F(f)
    <2>1. \A k \in 1..n : f[k] = G(f[k - 1], k)
      BY <1>6
    <2> HIDE DEF T, n, G
    <2> QED
      BY <1>1, <1>5, <2>1
  <1>8. upTo = F(upTo)
    <2> HIDE DEF F
    <2> QED
      BY <1>7
  <1>9. upTo[0] = <<>> /\ \A k \in 1..n : upTo[k] = G(upTo[k - 1], k)
    <2> HIDE DEF upTo, n, G
    <2>1. \A k \in 0..n : F(upTo)[k] = IF k = 0 THEN <<>> ELSE G(upTo[k - 1], k)
      OBVIOUS
    <2> HIDE DEF F
    <2>2. \A k \in 0..n : upTo[k] = IF k = 0 THEN <<>> ELSE G(upTo[k - 1], k)
      BY <1>8, <2>1, Zenon
    <2> QED
      BY <1>1, <2>2
  <1>10. Subtract(intervals, S) = upTo[n]
    BY DEF Subtract, P
  <1> QED
    <2> HIDE DEF upTo
    <2> QED
      BY <1>9, <1>10 DEF P

\* What cuts leave of intervals: what was in one of them and in no cut.
LEMMA SubtractLeaves ==
    ASSUME NEW intervals, Ordered(intervals), NEW S \in SUBSET Interval
    PROVE  /\ Ordered(Subtract(intervals, S))
           /\ \A u \in Int : Covers(Subtract(intervals, S), u) <=>
                                Covers(intervals, u) /\ ~\E c \in S : c[1] <= u /\ u < c[2]
  <1> DEFINE n == Len(intervals)
             cuts == InOrder(S)
  <1>1. /\ intervals \in Seq(Interval) /\ n \in Nat /\ DOMAIN intervals = 1..n
        /\ \A k \in 1..n : intervals[k] \in Interval
        /\ \A j, k \in 1..n : j < k => intervals[j][2] <= intervals[k][1]
    BY DEF Ordered
  <1>2. Sorted(cuts) /\ \A u : Covers(cuts, u) <=> \E c \in S : c[1] <= u /\ u < c[2]
    BY InOrderCovers
  <1>3. PICK f : /\ f[0] = <<>>
                 /\ \A k \in 1..n : f[k] = f[k - 1] \o Pieces(intervals[k], cuts)
                 /\ Subtract(intervals, S) = f[n]
    BY <1>1, SubtractComputed
  <1> HIDE DEF n, cuts
  <1> DEFINE Inv(k) ==
        /\ Ordered(f[k])
        /\ \A u \in Int : Covers(f[k], u) <=> Taken(intervals, k, u) /\ ~Covers(cuts, u)
  <1>4. Inv(0)
    BY <1>3 DEF Ordered, Covers, Taken
  <1>5. \A k \in 1..n : Inv(k - 1) => Inv(k)
    <2> SUFFICES ASSUME NEW k \in 1..n, Inv(k - 1) PROVE Inv(k)
      OBVIOUS
    <2> DEFINE acc == f[k - 1]
               i == intervals[k]
               p == Pieces(i, cuts)
    <2>1. f[k] = acc \o p
      BY <1>3
    <2>2. i \in Interval /\ i[1] \in Int /\ i[2] \in Int /\ i[1] < i[2]
      BY <1>1, IntervalFacts
    <2>3. Ordered(acc) /\ \A u \in Int : Covers(acc, u) <=> Taken(intervals, k - 1, u) /\ ~Covers(cuts, u)
      OBVIOUS
    <2>4. Ordered(p) /\ \A u \in Int : Covers(p, u) <=> i[1] <= u /\ u < i[2] /\ ~Covers(cuts, u)
      BY <1>2, <2>2, PiecesLeave
    <2>5. \A u \in Int : Taken(intervals, k, u) <=> Taken(intervals, k - 1, u) \/ (i[1] <= u /\ u < i[2])
      BY TakenStep
    <2> HIDE DEF Inv, acc, p
    <2>6. \A u \in Int : Taken(intervals, k - 1, u) => 0 <= u /\ u < i[1]
      <3> SUFFICES ASSUME NEW u \in Int, Taken(intervals, k - 1, u) PROVE 0 <= u /\ u < i[1]
        OBVIOUS
      <3>1. PICK j \in 1..(k - 1) : intervals[j][1] <= u /\ u < intervals[j][2]
        BY DEF Taken
      <3>2. intervals[j] \in Interval /\ intervals[j][2] <= i[1]
        BY <1>1
      <3>3. intervals[j][1] \in 0..Length /\ intervals[j][2] \in Int
        BY <3>2, IntervalFacts
      <3> QED
        BY <3>1, <3>2, <3>3, <2>2
    <2> HIDE DEF i
    <2>7. \A j \in DOMAIN acc : acc[j][2] <= i[1]
      <3>1. \A u \in Int : Covers(acc, u) => 0 <= u /\ u < i[1]
        BY <2>3, <2>6
      <3>2. \A j \in DOMAIN acc : 0 <= acc[j][1] /\ acc[j][2] <= i[1]
        <4>1. 0 \in Int
          OBVIOUS
        <4> QED
          BY <3>1, <4>1, <2>2, <2>3, CoversBounds, Zenon
      <3> QED
        BY <3>2
    <2>8. \A j \in DOMAIN p : i[1] <= p[j][1]
      <3>1. \A u \in Int : Covers(p, u) => i[1] <= u /\ u < i[2]
        BY <2>4
      <3> QED
        BY <3>1, <2>2, <2>4, CoversBounds
    <2>9. Ordered(f[k]) /\ \A u : Covers(f[k], u) <=> Covers(acc, u) \/ Covers(p, u)
      BY <2>1, <2>2, <2>3, <2>4, <2>7, <2>8, ConcatOrdered
    <2>10. \A u \in Int : Covers(f[k], u) <=> Taken(intervals, k, u) /\ ~Covers(cuts, u)
      BY <2>3, <2>4, <2>5, <2>9
    <2> QED
      BY <2>9, <2>10 DEF Inv
  <1>6. Inv(n)
    <2> DEFINE T == {k \in 0..n : Inv(k)}
    <2> HIDE DEF Inv
    <2>1. 0 \in T /\ \A k \in 1..n : k - 1 \in T => k \in T
      BY <1>1, <1>4, <1>5
    <2> HIDE DEF T
    <2>2. \A k \in 0..n : k \in T
      BY <1>1, <2>1, Steps
    <2>3. n \in T
      BY <1>1, <2>2
    <2> QED
      BY <2>3 DEF T
  <1>7. \A u : Covers(intervals, u) <=> Taken(intervals, n, u)
    BY <1>1 DEF Covers, Taken
  <1> QED
    BY <1>2, <1>3, <1>6, <1>7

\* What both keep is what each keeps.
LEMMA CommonKeeps ==
    ASSUME NEW a, NEW b, Ordered(a), Ordered(b)
    PROVE  /\ Ordered(Common(a, b))
           /\ \A u \in Int : Covers(Common(a, b), u) <=> Covers(a, u) /\ Covers(b, u)
  <1> DEFINE M == {Meet(p[1], p[2]) : p \in {p \in ToSet(a) \X ToSet(b) : Overlap(p[1], p[2])}}
  <1>1. Common(a, b) = InOrder(M)
    BY DEF Common
  <1>2. /\ \A j \in DOMAIN a : a[j] \in Interval
        /\ \A j \in DOMAIN b : b[j] \in Interval
        /\ DOMAIN a \subseteq Int /\ DOMAIN b \subseteq Int
    BY DEF Ordered
  <1>3. \A m : m \in M <=> \E j \in DOMAIN a, k \in DOMAIN b : Overlap(a[j], b[k]) /\ m = Meet(a[j], b[k])
    <2>1. \A j \in DOMAIN a, k \in DOMAIN b : Overlap(a[j], b[k]) => Meet(a[j], b[k]) \in M
      <3> SUFFICES ASSUME NEW j \in DOMAIN a, NEW k \in DOMAIN b, Overlap(a[j], b[k]) PROVE Meet(a[j], b[k]) \in M
        OBVIOUS
      <3> DEFINE p == <<a[j], b[k]>>
      <3>1. p \in ToSet(a) \X ToSet(b) /\ p[1] = a[j] /\ p[2] = b[k]
        BY DEF ToSet
      <3> HIDE DEF p
      <3> QED
        BY <3>1
    <2>2. \A m \in M : \E j \in DOMAIN a, k \in DOMAIN b : Overlap(a[j], b[k]) /\ m = Meet(a[j], b[k])
      BY DEF ToSet
    <2> HIDE DEF M
    <2> QED
      BY <2>1, <2>2
  <1> HIDE DEF M
  <1>4. \A i, k \in Interval : Overlap(i, k) =>
           /\ Meet(i, k) \in Interval
           /\ \A u \in Int : (Meet(i, k)[1] <= u /\ u < Meet(i, k)[2]) <=> (i[1] <= u /\ u < i[2]) /\ (k[1] <= u /\ u < k[2])
           /\ i[1] <= Meet(i, k)[1] /\ Meet(i, k)[2] <= i[2] /\ k[1] <= Meet(i, k)[1] /\ Meet(i, k)[2] <= k[2]
    <2> SUFFICES ASSUME NEW i \in Interval, NEW k \in Interval, Overlap(i, k)
                 PROVE  /\ Meet(i, k) \in Interval
                        /\ \A u \in Int : (Meet(i, k)[1] <= u /\ u < Meet(i, k)[2]) <=> (i[1] <= u /\ u < i[2]) /\ (k[1] <= u /\ u < k[2])
                        /\ i[1] <= Meet(i, k)[1] /\ Meet(i, k)[2] <= i[2] /\ k[1] <= Meet(i, k)[1] /\ Meet(i, k)[2] <= k[2]
      OBVIOUS
    <2>1. /\ i[1] \in 0..Length /\ i[2] \in 0..Length /\ i[1] < i[2]
          /\ k[1] \in 0..Length /\ k[2] \in 0..Length /\ k[1] < k[2]
      BY IntervalFacts
    <2> DEFINE x == UpperOf(i[1], k[1])
               y == LowerOf(i[2], k[2])
    <2>2. Meet(i, k) = <<x, y>> /\ Meet(i, k)[1] = x /\ Meet(i, k)[2] = y
      BY DEF Meet
    <2>3. x \in 0..Length /\ y \in 0..Length /\ x < y
      BY <2>1 DEF UpperOf, LowerOf, Overlap
    <2>4. <<x, y>> \in Interval
      <3> HIDE DEF x, y
      <3> QED
        BY <2>3, IntervalFacts
    <2>5. /\ \A u \in Int : (x <= u /\ u < y) <=> (i[1] <= u /\ u < i[2]) /\ (k[1] <= u /\ u < k[2])
          /\ i[1] <= x /\ y <= i[2] /\ k[1] <= x /\ y <= k[2]
      BY <2>1 DEF UpperOf, LowerOf
    <2> HIDE DEF x, y
    <2> QED
      BY <2>2, <2>4, <2>5
  <1>5. M \in SUBSET Interval
    BY <1>2, <1>3, <1>4
  <1>6. \A m, w \in M : m = w \/ m[2] <= w[1] \/ w[2] <= m[1]
    <2> SUFFICES ASSUME NEW m \in M, NEW w \in M, m # w PROVE m[2] <= w[1] \/ w[2] <= m[1]
      OBVIOUS
    <2>1. PICK j \in DOMAIN a, k \in DOMAIN b : Overlap(a[j], b[k]) /\ m = Meet(a[j], b[k])
      BY <1>3
    <2>2. PICK g \in DOMAIN a, h \in DOMAIN b : Overlap(a[g], b[h]) /\ w = Meet(a[g], b[h])
      BY <1>3
    <2>3. /\ a[j] \in Interval /\ a[g] \in Interval /\ b[k] \in Interval /\ b[h] \in Interval
          /\ m \in Interval /\ w \in Interval
          /\ a[j][1] <= m[1] /\ m[2] <= a[j][2] /\ b[k][1] <= m[1] /\ m[2] <= b[k][2]
          /\ a[g][1] <= w[1] /\ w[2] <= a[g][2] /\ b[h][1] <= w[1] /\ w[2] <= b[h][2]
      <3>1. a[j] \in Interval /\ a[g] \in Interval /\ b[k] \in Interval /\ b[h] \in Interval
        BY <1>2, <2>1, <2>2
      <3> QED
        BY <3>1, <2>1, <2>2, <1>4, <1>5
    <2>4. /\ a[j][1] \in Int /\ a[j][2] \in Int /\ a[g][1] \in Int /\ a[g][2] \in Int
          /\ b[k][1] \in Int /\ b[k][2] \in Int /\ b[h][1] \in Int /\ b[h][2] \in Int
          /\ m[1] \in Int /\ m[2] \in Int /\ w[1] \in Int /\ w[2] \in Int
      BY <2>3, IntervalFacts
    <2>5. j \in Int /\ g \in Int /\ k \in Int /\ h \in Int
      BY <1>2, <2>1, <2>2
    <2>6. j # g \/ k # h
      BY <2>1, <2>2
    <2>7. CASE j < g
      <3>1. a[j][2] <= a[g][1]
        BY <2>1, <2>2, <2>7 DEF Ordered
      <3> QED
        BY <3>1, <2>3, <2>4
    <2>8. CASE g < j
      <3>1. a[g][2] <= a[j][1]
        BY <2>1, <2>2, <2>8 DEF Ordered
      <3> QED
        BY <3>1, <2>3, <2>4
    <2>9. CASE k < h
      <3>1. b[k][2] <= b[h][1]
        BY <2>1, <2>2, <2>9 DEF Ordered
      <3> QED
        BY <3>1, <2>3, <2>4
    <2>10. CASE h < k
      <3>1. b[h][2] <= b[k][1]
        BY <2>1, <2>2, <2>10 DEF Ordered
      <3> QED
        BY <3>1, <2>3, <2>4
    <2> QED
      BY <2>5, <2>6, <2>7, <2>8, <2>9, <2>10
  <1>7. Ordered(InOrder(M))
    BY <1>5, <1>6, ApartInOrder
  <1>8. \A u \in Int : Covers(InOrder(M), u) <=> Covers(a, u) /\ Covers(b, u)
    <2> SUFFICES ASSUME NEW u \in Int PROVE Covers(InOrder(M), u) <=> Covers(a, u) /\ Covers(b, u)
      OBVIOUS
    <2>1. Covers(InOrder(M), u) <=> \E i \in M : i[1] <= u /\ u < i[2]
      BY <1>5, InOrderCovers
    <2>2. ASSUME NEW i \in M, i[1] <= u /\ u < i[2] PROVE Covers(a, u) /\ Covers(b, u)
      <3>1. PICK j \in DOMAIN a, k \in DOMAIN b : Overlap(a[j], b[k]) /\ i = Meet(a[j], b[k])
        BY <1>3
      <3>2. a[j] \in Interval /\ b[k] \in Interval
        BY <1>2, <3>1
      <3>3. (a[j][1] <= u /\ u < a[j][2]) /\ (b[k][1] <= u /\ u < b[k][2])
        BY <3>1, <3>2, <2>2, <1>4
      <3> QED
        BY <3>1, <3>3 DEF Covers
    <2>3. ASSUME Covers(a, u), Covers(b, u) PROVE \E i \in M : i[1] <= u /\ u < i[2]
      <3>1. PICK j \in DOMAIN a : a[j][1] <= u /\ u < a[j][2]
        BY <2>3 DEF Covers
      <3>2. PICK k \in DOMAIN b : b[k][1] <= u /\ u < b[k][2]
        BY <2>3 DEF Covers
      <3>3. a[j] \in Interval /\ b[k] \in Interval
        BY <1>2, <3>1, <3>2
      <3>4. Overlap(a[j], b[k])
        <4>1. a[j][1] \in Int /\ a[j][2] \in Int /\ b[k][1] \in Int /\ b[k][2] \in Int
          BY <3>3, IntervalFacts
        <4> QED
          BY <4>1, <3>1, <3>2 DEF Overlap
      <3>5. Meet(a[j], b[k]) \in M
        BY <3>1, <3>2, <3>4, <1>3
      <3>6. Meet(a[j], b[k])[1] <= u /\ u < Meet(a[j], b[k])[2]
        BY <3>1, <3>2, <3>3, <3>4, <1>4
      <3> QED
        BY <3>5, <3>6
    <2> QED
      BY <2>1, <2>2, <2>3
  <1> QED
    BY <1>1, <1>7, <1>8

\* Intervals stay intervals when they lose or gain ends.
LEMMA EndsKept ==
    /\ \A i \in Interval : Widened(i, Guard) \in Interval
    /\ \A i \in Interval : i[2] - i[1] >= Silent => Narrowed(i, Padding) \in Interval
    /\ \A i \in Interval : i[2] - i[1] - 2 * Edge \in Shortest..Longest => Narrowed(i, Edge) \in Interval
  <1>1. \A i \in Interval : i[1] \in 0..Length /\ i[2] \in 0..Length /\ i[1] < i[2]
    BY IntervalFacts
  <1>2. Length \in Nat /\ Guard \in Nat /\ Silent \in Nat /\ Padding \in Nat /\ Edge \in Nat /\ Longest \in Nat
        /\ Shortest \in Nat /\ Shortest > 0 /\ Silent > 2 * Padding
    BY AudioScale
  <1>3. ASSUME NEW i \in Interval PROVE Widened(i, Guard) \in Interval
    <2>1. UpperOf(0, i[1] - Guard) \in 0..Length /\ LowerOf(Length, i[2] + Guard) \in 0..Length
          /\ UpperOf(0, i[1] - Guard) < LowerOf(Length, i[2] + Guard)
      BY <1>1, <1>2 DEF UpperOf, LowerOf
    <2> QED
      BY <2>1, IntervalFacts DEF Widened
  <1>4. ASSUME NEW i \in Interval, i[2] - i[1] >= Silent PROVE Narrowed(i, Padding) \in Interval
    <2>1. i[1] + Padding \in 0..Length /\ i[2] - Padding \in 0..Length /\ i[1] + Padding < i[2] - Padding
      BY <1>1, <1>2, <1>4
    <2> QED
      BY <2>1, IntervalFacts DEF Narrowed
  <1>5. ASSUME NEW i \in Interval, i[2] - i[1] - 2 * Edge \in Shortest..Longest PROVE Narrowed(i, Edge) \in Interval
    <2>1. i[1] + Edge \in 0..Length /\ i[2] - Edge \in 0..Length /\ i[1] + Edge < i[2] - Edge
      BY <1>1, <1>2, <1>5
    <2> QED
      BY <2>1, IntervalFacts DEF Narrowed
  <1> QED
    BY <1>3, <1>4, <1>5

\* Nothing, and the whole audio.
LEMMA NothingCovers ==
    /\ Ordered(<<>>) /\ \A u : ~Covers(<<>>, u)
    /\ Ordered(<<<<0, Length>>>>) /\ \A u \in Int : Covers(<<<<0, Length>>>>, u) <=> 0 <= u /\ u < Length
  <1>1. <<0, Length>> \in Interval
    <2>1. 0 \in 0..Length /\ Length \in 0..Length /\ 0 < Length
      BY AudioScale
    <2> QED
      BY <2>1, IntervalFacts
  <1> QED
    BY <1>1 DEF Ordered, Covers

\* kept_intervals keeps all but the long stretches, less their ends.
LEMMA WithoutLongKeeps ==
    ASSUME NEW S \in SUBSET Interval
    PROVE  /\ Ordered(WithoutLong(S, Silent))
           /\ \A u \in Int : Covers(WithoutLong(S, Silent), u) <=>
                 /\ 0 <= u /\ u < Length
                 /\ ~\E s \in S : s[2] - s[1] >= Silent /\ s[1] + Padding <= u /\ u < s[2] - Padding
  <1> DEFINE N == {Narrowed(s, Padding) : s \in {s \in S : s[2] - s[1] >= Silent}}
  <1>1. N \in SUBSET Interval
    BY EndsKept
  <1>2. \A u : (\E c \in N : c[1] <= u /\ u < c[2]) <=>
               (\E s \in S : s[2] - s[1] >= Silent /\ s[1] + Padding <= u /\ u < s[2] - Padding)
    <2>1. \A s : Narrowed(s, Padding)[1] = s[1] + Padding /\ Narrowed(s, Padding)[2] = s[2] - Padding
      BY DEF Narrowed
    <2>2. \A u : (\E c \in N : c[1] <= u /\ u < c[2]) <=>
                 \E s \in S : s[2] - s[1] >= Silent /\ Narrowed(s, Padding)[1] <= u /\ u < Narrowed(s, Padding)[2]
      OBVIOUS
    <2> QED
      BY <2>1, <2>2, Zenon
  <1>3. WithoutLong(S, Silent) = Between(InOrder(N))
    BY DEF WithoutLong
  <1> HIDE DEF N
  <1>4. Sorted(InOrder(N)) /\ \A u : Covers(InOrder(N), u) <=> \E c \in N : c[1] <= u /\ u < c[2]
    BY <1>1, InOrderCovers
  <1>5. /\ Ordered(Between(InOrder(N)))
        /\ \A u \in Int : Covers(Between(InOrder(N)), u) <=> 0 <= u /\ u < Length /\ ~Covers(InOrder(N), u)
    BY <1>4, BetweenLeaves
  <1> QED
    BY <1>2, <1>3, <1>4, <1>5, Zenon

\* protect_intervals keeps what it is given and, with a margin, what speaks against a removal.
LEMMA ProtectKeeps ==
    ASSUME NEW intervals, Ordered(intervals), NEW P \in SUBSET Interval
    PROVE  /\ Ordered(Protect(intervals, P))
           /\ \A u \in Int : Covers(Protect(intervals, P), u) <=>
                 \/ Covers(intervals, u)
                 \/ \E p \in P : Widened(p, Guard)[1] <= u /\ u < Widened(p, Guard)[2]
  <1> DEFINE W == {Widened(p, Guard) : p \in P}
             U == ToSet(intervals) \cup W
  <1>1. W \in SUBSET Interval
    BY EndsKept
  <1>2. ToSet(intervals) \in SUBSET Interval
    BY DEF Ordered, ToSet
  <1>3. \A u : (\E c \in W : c[1] <= u /\ u < c[2]) <=>
               \E p \in P : Widened(p, Guard)[1] <= u /\ u < Widened(p, Guard)[2]
    OBVIOUS
  <1>4. \A u : (\E c \in ToSet(intervals) : c[1] <= u /\ u < c[2]) <=> Covers(intervals, u)
    BY DEF ToSet, Covers
  <1>5. Protect(intervals, P) = Merged(InOrder(U))
    BY DEF Protect
  <1> HIDE DEF W
  <1>6. U \in SUBSET Interval
    BY <1>1, <1>2
  <1>7. \A u : (\E c \in U : c[1] <= u /\ u < c[2]) <=>
               (\E c \in ToSet(intervals) : c[1] <= u /\ u < c[2]) \/ (\E c \in W : c[1] <= u /\ u < c[2])
    OBVIOUS
  <1> HIDE DEF U
  <1>8. Sorted(InOrder(U)) /\ \A u : Covers(InOrder(U), u) <=> \E c \in U : c[1] <= u /\ u < c[2]
    BY <1>6, InOrderCovers
  <1>9. Ordered(Merged(InOrder(U))) /\ \A u \in Int : Covers(Merged(InOrder(U)), u) <=> Covers(InOrder(U), u)
    BY <1>8, MergedKeeps
  <1> QED
    BY <1>3, <1>4, <1>5, <1>7, <1>8, <1>9, Zenon

\* Intervals overlap when they share a unit.
LEMMA OverlapShares ==
    ASSUME NEW i \in Interval, NEW k \in Interval
    PROVE  Overlap(i, k) <=> \E u \in Int : i[1] <= u /\ u < i[2] /\ k[1] <= u /\ u < k[2]
  <1>1. i[1] \in Int /\ i[2] \in Int /\ k[1] \in Int /\ k[2] \in Int /\ i[1] < i[2] /\ k[1] < k[2]
    BY IntervalFacts
  <1>2. UpperOf(i[1], k[1]) \in Int
    BY <1>1 DEF UpperOf
  <1>3. Overlap(i, k) => LET u == UpperOf(i[1], k[1]) IN i[1] <= u /\ u < i[2] /\ k[1] <= u /\ u < k[2]
    BY <1>1 DEF Overlap, UpperOf
  <1>4. ASSUME NEW u \in Int, i[1] <= u, u < i[2], k[1] <= u, u < k[2] PROVE Overlap(i, k)
    BY <1>1, <1>4 DEF Overlap
  <1> QED
    BY <1>2, <1>3, <1>4

\* A removal is carried out exactly when it meets nothing that is protected.
LEMMA Excluded ==
    ASSUME NEW S \in SUBSET Interval, NEW P \in SUBSET Interval
    PROVE  /\ Exclude(S, P) \in SUBSET S
           /\ \A r \in Exclude(S, P), p \in P, u \in Int :
                 r[1] <= u /\ u < r[2] => ~(Widened(p, Guard)[1] <= u /\ u < Widened(p, Guard)[2])
           /\ \A r \in S : (\A p \in P : ~Overlap(r, Widened(p, Guard))) => r \in Exclude(S, P)
  <1> DEFINE q == Protect(<<>>, P)
  <1>1. /\ Ordered(q)
        /\ \A u \in Int : Covers(q, u) <=> \E p \in P : Widened(p, Guard)[1] <= u /\ u < Widened(p, Guard)[2]
    BY NothingCovers, ProtectKeeps
  <1>2. Exclude(S, P) = {r \in S : ~\E p \in ToSet(q) : Overlap(r, p)}
    BY DEF Exclude
  <1> HIDE DEF q
  <1>3. ToSet(q) \in SUBSET Interval /\ \A u : Covers(q, u) <=> \E c \in ToSet(q) : c[1] <= u /\ u < c[2]
    BY <1>1 DEF Ordered, Covers, ToSet
  <1>4. ASSUME NEW r \in Exclude(S, P), NEW p \in P, NEW u \in Int, r[1] <= u, u < r[2],
               Widened(p, Guard)[1] <= u, u < Widened(p, Guard)[2]
        PROVE  FALSE
    <2>1. Covers(q, u)
      BY <1>1, <1>4, Zenon
    <2>2. PICK c \in ToSet(q) : c[1] <= u /\ u < c[2]
      BY <2>1, <1>3
    <2>3. r \in Interval /\ c \in Interval /\ ~Overlap(r, c)
      BY <1>2, <1>3, <2>2
    <2> QED
      BY <2>2, <2>3, <1>4, OverlapShares
  <1>5. ASSUME NEW r \in S, \A p \in P : ~Overlap(r, Widened(p, Guard)), NEW c \in ToSet(q), Overlap(r, c)
        PROVE  FALSE
    <2>1. r \in Interval /\ c \in Interval
      BY <1>3
    <2>2. PICK u \in Int : r[1] <= u /\ u < r[2] /\ c[1] <= u /\ u < c[2]
      BY <2>1, <1>5, OverlapShares
    <2>3. Covers(q, u)
      BY <2>2, <1>3
    <2>4. PICK p \in P : Widened(p, Guard)[1] <= u /\ u < Widened(p, Guard)[2]
      BY <2>3, <1>1
    <2>5. Widened(p, Guard) \in Interval
      BY EndsKept
    <2>6. Overlap(r, Widened(p, Guard))
      BY <2>1, <2>2, <2>4, <2>5, OverlapShares
    <2> QED
      BY <2>6, <1>5
  <1> QED
    BY <1>2, <1>4, <1>5

\* What the filter keeps.
LEMMA FilteredKeeps ==
    ASSUME NEW S \in SUBSET Interval, confirmed \in SUBSET Interval, protected \in SUBSET Interval
    PROVE  /\ Ordered(Filtered(S))
           /\ \A u \in Int : Covers(Filtered(S), u) <=>
                 /\ \/ Covers(WithoutLong(S, Silent), u)
                    \/ \E p \in protected : Widened(p, Guard)[1] <= u /\ u < Widened(p, Guard)[2]
                 /\ ~\E c \in Exclude(confirmed, protected) : c[1] <= u /\ u < c[2]
  <1> DEFINE w == WithoutLong(S, Silent)
             q == Protect(w, protected)
             X == Exclude(confirmed, protected)
  <1>1. Ordered(w)
    BY WithoutLongKeeps
  <1>2. X \in SUBSET Interval
    BY Excluded
  <1>3. Filtered(S) = Subtract(q, X)
    BY DEF Filtered
  <1> HIDE DEF w, X
  <1>4. /\ Ordered(q)
        /\ \A u \in Int : Covers(q, u) <=>
              \/ Covers(w, u)
              \/ \E p \in protected : Widened(p, Guard)[1] <= u /\ u < Widened(p, Guard)[2]
    BY <1>1, ProtectKeeps
  <1> HIDE DEF q
  <1>5. /\ Ordered(Subtract(q, X))
        /\ \A u \in Int : Covers(Subtract(q, X), u) <=> Covers(q, u) /\ ~\E c \in X : c[1] <= u /\ u < c[2]
    BY <1>2, <1>4, SubtractLeaves
  <1>6. \A u \in Int : Covers(Filtered(S), u) <=>
              /\ \/ Covers(w, u)
                 \/ \E p \in protected : Widened(p, Guard)[1] <= u /\ u < Widened(p, Guard)[2]
              /\ ~\E c \in X : c[1] <= u /\ u < c[2]
    BY <1>3, <1>4, <1>5, Zenon
  <1> QED
    BY <1>3, <1>5, <1>6, Zenon DEF w, X

\* The clock of the shortened audio runs on by the length of what is kept.
LEMMA TimelineComputed ==
    ASSUME NEW seq \in Seq(Interval)
    PROVE  \E f : /\ f \in [0..Len(seq) -> Int] /\ f[0] = 0
                  /\ \A k \in 1..Len(seq) : f[k] = f[k - 1] + seq[k][2] - seq[k][1]
                  /\ Timeline(seq) = [k \in 1..Len(seq) |-> [from |-> f[k - 1], to |-> f[k],
                                                            start |-> seq[k][1], end |-> seq[k][2]]]
  <1> DEFINE n == Len(seq)
             T == Int
             step == [p \in (1..n) \X T |-> p[2] + seq[p[1]][2] - seq[p[1]][1]]
  <1>1. n \in Nat /\ DOMAIN seq = 1..n /\ \A k \in 1..n : seq[k] \in Interval
    OBVIOUS
  <1>2. \A k \in 1..n : seq[k][1] \in Int /\ seq[k][2] \in Int
    BY <1>1, IntervalFacts
  <1>3. step \in [(1..n) \X T -> T]
    <2>1. \A k \in 1..n, t \in T : t + seq[k][2] - seq[k][1] \in T
      BY <1>2
    <2> HIDE DEF T, n
    <2> QED
      BY <2>1
  <1>4. PICK f \in [0..n -> T] : f[0] = 0 /\ \A k \in 1..n : f[k] = step[<<k, f[k - 1]>>]
    <2>1. n \in Nat /\ 0 \in T
      BY <1>1
    <2> HIDE DEF T, n, step
    <2>2. Runs(T, 0, n, step) # {}
      BY <2>1, <1>3, Computed, Zenon
    <2> QED
      BY <2>2 DEF Runs
  <1>5. \A k \in 1..n : f[k] = f[k - 1] + seq[k][2] - seq[k][1]
    <2> SUFFICES ASSUME NEW k \in 1..n PROVE f[k] = f[k - 1] + seq[k][2] - seq[k][1]
      OBVIOUS
    <2>1. f[k - 1] \in T
      <3> HIDE DEF T
      <3> QED
        BY <1>1
    <2> HIDE DEF T
    <2> QED
      BY <1>4, <2>1
  <1> DEFINE G(q, k) == q + seq[k][2] - seq[k][1]
             F(g) == [k \in 0..n |-> IF k = 0 THEN 0 ELSE G(g[k - 1], k)]
             cursor == CHOOSE g : g = F(g)
  <1>6. f = F(f)
    <2>1. \A k \in 1..n : f[k] = G(f[k - 1], k)
      BY <1>5
    <2> HIDE DEF T, n, G
    <2> QED
      BY <1>1, <1>4, <2>1
  <1>7. cursor = F(cursor)
    <2> HIDE DEF F
    <2> QED
      BY <1>6
  <1>8. /\ DOMAIN cursor = 0..n /\ cursor[0] = 0
        /\ \A k \in 1..n : cursor[k] = G(cursor[k - 1], k)
    <2> HIDE DEF cursor, G, n
    <2>1. DOMAIN F(cursor) = 0..n /\ \A k \in 0..n : F(cursor)[k] = IF k = 0 THEN 0 ELSE G(cursor[k - 1], k)
      OBVIOUS
    <2> HIDE DEF F
    <2>2. DOMAIN cursor = 0..n /\ \A k \in 0..n : cursor[k] = IF k = 0 THEN 0 ELSE G(cursor[k - 1], k)
      BY <1>7, <2>1, Zenon
    <2> QED
      BY <1>1, <2>2
  <1>9. Timeline(seq) = [k \in 1..n |-> [from |-> cursor[k - 1], to |-> cursor[k],
                                        start |-> seq[k][1], end |-> seq[k][2]]]
    BY <1>1 DEF Timeline
  <1>10. cursor \in [0..n -> Int]
    <2> DEFINE S == {k \in 0..n : cursor[k] \in Int}
    <2> HIDE DEF cursor
    <2>1. 0 \in S
      BY <1>1, <1>8
    <2>2. \A k \in 1..n : k - 1 \in S => k \in S
      <3> SUFFICES ASSUME NEW k \in 1..n, k - 1 \in S PROVE k \in S
        OBVIOUS
      <3>1. cursor[k - 1] \in Int /\ seq[k][1] \in Int /\ seq[k][2] \in Int
        BY <1>2
      <3>2. cursor[k] = cursor[k - 1] + seq[k][2] - seq[k][1]
        BY <1>8
      <3> HIDE DEF n
      <3> QED
        BY <1>1, <3>1, <3>2
    <2> HIDE DEF S, n
    <2>3. \A k \in 0..n : k \in S
      BY <1>1, <2>1, <2>2, Steps
    <2>4. \A k \in 0..n : cursor[k] \in Int
      BY <2>3 DEF S
    <2>5. cursor = [k \in DOMAIN cursor |-> cursor[k]]
      BY <1>7, Zenon DEF n
    <2> QED
      BY <1>8, <2>4, <2>5
  <1> QED
    <2> HIDE DEF cursor
    <2> QED
      BY <1>8, <1>9, <1>10

\* Ordered intervals hold as many units as the shortened audio is long.
LEMMA UnitsCounted ==
    ASSUME NEW seq, Ordered(seq), NEW f \in [0..Len(seq) -> Int], f[0] = 0,
           \A k \in 1..Len(seq) : f[k] = f[k - 1] + seq[k][2] - seq[k][1]
    PROVE  Cardinality(UNION {Units(seq[k]) : k \in DOMAIN seq}) = f[Len(seq)]
  <1> DEFINE n == Len(seq)
             U(m) == UNION {Units(seq[k]) : k \in 1..m}
             S == {m \in 0..n : IsFiniteSet(U(m)) /\ Cardinality(U(m)) = f[m]}
  <1>1. /\ n \in Nat /\ DOMAIN seq = 1..n
        /\ \A k \in 1..n : seq[k][1] \in Int /\ seq[k][2] \in Int /\ seq[k][1] < seq[k][2]
        /\ \A j, k \in 1..n : j < k => seq[j][2] <= seq[k][1]
    <2>1. seq \in Seq(Interval)
      BY DEF Ordered
    <2>2. n \in Nat /\ DOMAIN seq = 1..n /\ \A k \in 1..n : seq[k] \in Interval
      BY <2>1
    <2> HIDE DEF n
    <2> QED
      BY <2>2, IntervalFacts DEF Ordered
  <1>2. f \in [0..n -> Int] /\ \A k \in 1..n : f[k] = f[k - 1] + seq[k][2] - seq[k][1]
    OBVIOUS
  <1> HIDE DEF n
  <1>3. 0 \in S
    <2>1. U(0) = {}
      OBVIOUS
    <2> HIDE DEF U
    <2>2. IsFiniteSet(U(0)) /\ Cardinality(U(0)) = 0
      BY <2>1, FS_EmptySet, Zenon
    <2>3. 0 \in 0..n
      BY <1>1
    <2> QED
      BY <2>2, <2>3
  <1>4. \A m \in 1..n : m - 1 \in S => m \in S
    <2> SUFFICES ASSUME NEW m \in 1..n, m - 1 \in S PROVE m \in S
      OBVIOUS
    <2> DEFINE a == seq[m][1]
               b == seq[m][2]
               A == U(m - 1)
               B == a..(b - 1)
    <2>1. 1..m = 1..(m - 1) \cup {m}
      OBVIOUS
    <2>2. U(m) = A \cup B
      <3>1. \A u : u \in U(m) <=> \E k \in 1..m : u \in Units(seq[k])
        OBVIOUS
      <3>2. \A u : u \in A <=> \E k \in 1..(m - 1) : u \in Units(seq[k])
        OBVIOUS
      <3>3. B = Units(seq[m])
        BY DEF Units
      <3> HIDE DEF U, A, B
      <3> QED
        BY <2>1, <3>1, <3>2, <3>3
    <2>3. A \cap B = {}
      <3> SUFFICES ASSUME NEW u \in A, u \in B PROVE FALSE
        OBVIOUS
      <3>1. PICK k \in 1..(m - 1) : u \in seq[k][1]..(seq[k][2] - 1)
        BY DEF Units
      <3>2. k \in 1..n /\ k < m
        BY <1>1
      <3>3. seq[k][2] <= a
        BY <3>2, <1>1
      <3>4. seq[k][1] \in Int /\ seq[k][2] \in Int /\ a \in Int /\ b \in Int
        BY <3>2, <1>1
      <3> QED
        BY <3>1, <3>3, <3>4
    <2>4. IsFiniteSet(A) /\ Cardinality(A) = f[m - 1]
      OBVIOUS
    <2>5. a \in Int /\ b \in Int /\ a < b
      BY <1>1
    <2>6. IsFiniteSet(B) /\ Cardinality(B) = b - a
      <3>1. b - 1 \in Int /\ a <= b - 1 /\ (b - 1) - a + 1 = b - a
        BY <2>5
      <3>2. IsFiniteSet(B) /\ Cardinality(B) = IF a > b - 1 THEN 0 ELSE (b - 1) - a + 1
        BY <3>1, <2>5, FS_Interval
      <3> QED
        BY <3>1, <3>2, <2>5
    <2>7. m - 1 \in 0..n /\ m \in 0..n /\ f[m - 1] \in Int
      BY <1>1, <1>2
    <2> HIDE DEF A, B, U
    <2>8. A \cap B = {} /\ IsFiniteSet(A \cup B)
          /\ Cardinality(A \cup B) = Cardinality(A) + Cardinality(B) - Cardinality(A \cap B)
      BY <2>3, <2>4, <2>6, FS_Union
    <2>9. Cardinality({}) = 0
      BY FS_EmptySet
    <2>10. Cardinality(A \cup B) = f[m - 1] + (b - a)
      <3> HIDE DEF a, b
      <3>1. Cardinality(A \cap B) = 0
        BY <2>8, <2>9, Zenon
      <3>2. Cardinality(A \cup B) = f[m - 1] + (b - a) - 0
        BY <3>1, <2>4, <2>6, <2>8, Zenon
      <3> QED
        BY <3>2, <2>5, <2>7
    <2>11. f[m] = f[m - 1] + (b - a)
      BY <1>2, <2>5, <2>7
    <2> QED
      BY <2>2, <2>7, <2>8, <2>10, <2>11
  <1> HIDE DEF S
  <1>5. \A m \in 0..n : m \in S
    BY <1>1, <1>3, <1>4, Steps
  <1>6. Cardinality(U(n)) = f[n]
    <2>1. n \in S
      BY <1>5, <1>1
    <2> HIDE DEF U
    <2> QED
      BY <2>1 DEF S
  <1>7. UNION {Units(seq[k]) : k \in DOMAIN seq} = U(n)
    BY <1>1
  <1> HIDE DEF U
  <1> QED
    BY <1>6, <1>7 DEF n

-------------------------------------------------------------------------------
(***************************************************************************)
(* The cut.                                                                *)
(***************************************************************************)
(***************************************************************************)
(* What the stages have done so far.                                       *)
(***************************************************************************)
NotSilent == IF filter THEN Filtered(silences) ELSE <<<<0, Length>>>>

\* The inductive invariant of the cut: everything found is an interval of the audio;
CutType == cutting \in {"detect", "confirm", "cut", "done"} /\ speech \in SUBSET Interval /\ noises \in SUBSET Interval
\* what was not confirmed is protected;
Judged == cutting \in {"cut", "done"} =>
             confirmed \in SUBSET Candidates /\ protected = speech \cup (Candidates \ confirmed)
\* and what is kept is what the filters leave of what they were told.
CutDone == cutting = "done" =>
              /\ silences \in SUBSET Interval /\ quiet \in SUBSET Interval
              /\ kept = IF voice THEN Common(NotSilent, WithoutLong(quiet, Silent)) ELSE NotSilent
              /\ spans = Timeline(kept)

CutInv == CutType /\ Judged /\ CutDone

\* What the detectors may find.
LEMMA FoundAreIntervals == \A n \in Int : \A S \in UpTo(n) : S \in SUBSET Interval
  <1> SUFFICES ASSUME NEW n \in Int, NEW S \in UpTo(n) PROVE S \in SUBSET Interval
    OBVIOUS
  <1>1. PICK k \in 0..n : S \in {ToSet(f) : f \in [1..k -> Interval]}
    BY Zenon DEF UpTo
  <1>2. PICK f \in [1..k -> Interval] : S = ToSet(f)
    BY <1>1
  <1> QED
    BY <1>2 DEF ToSet

\* A candidate is an interval of the audio.
LEMMA CandidatesLie ==
    ASSUME CutType
    PROVE  Candidates \in SUBSET Interval
  <1> QED
    BY EndsKept DEF CutType, Candidates

\* Every stage keeps the invariant.
LEMMA CutInvStep == CutInv /\ [CutNext]_cutVars => CutInv'
  <1> SUFFICES ASSUME CutInv, [CutNext]_cutVars PROVE CutInv'
    OBVIOUS
  <1>0. CutType /\ Judged /\ CutDone
    BY DEF CutInv
  <1>1. CASE DetectVocalizations
    <2>1. PICK E \in UpTo(MaxFindings) : \E S \in SUBSET E : speech' = S /\ noises' = E \ S
      BY <1>1 DEF DetectVocalizations
    <2>2. MaxFindings \in Int
      BY AudioScale
    <2>3. E \in SUBSET Interval
      BY <2>2, FoundAreIntervals
    <2>4. cutting' = "confirm"
      BY <1>1 DEF DetectVocalizations
    <2> QED
      BY <2>1, <2>3, <2>4 DEF CutInv, CutType, Judged, CutDone
  <1>2. CASE Confirm
    <2>1. cutting' = "cut" /\ UNCHANGED <<speech, noises>>
      BY <1>2 DEF Confirm
    <2>2. PICK A \in SUBSET Candidates : confirmed' = A /\ protected' = speech \cup (Candidates \ A)
      BY <1>2 DEF Confirm
    <2>3. Candidates' = Candidates
      BY <2>1 DEF Candidates
    <2> QED
      BY <1>0, <2>1, <2>2, <2>3 DEF CutInv, CutType, Judged, CutDone
  <1>3. CASE Cut
    <2>1. cutting = "cut" /\ cutting' = "done" /\ UNCHANGED <<speech, noises, confirmed, protected>> /\ spans' = Timeline(kept')
      BY <1>3 DEF Cut
    <2>2. Candidates' = Candidates /\ CutType' /\ Judged'
      BY <1>0, <2>1 DEF CutType, Judged, Candidates
    <2>3. PICK n \in {MaxFindings - Cardinality(speech \cup noises)} :
             \E S \in Stretches(n) : \E Q \in Stretches(n - Cardinality(S)), f, v \in BOOLEAN :
                /\ silences' = S /\ quiet' = Q /\ filter' = f /\ voice' = v
                /\ LET heard == IF f THEN Filtered(S) ELSE <<<<0, Length>>>>
                   IN  kept' = IF v THEN Common(heard, WithoutLong(Q, Silent)) ELSE heard
      BY <1>3 DEF Cut
    <2>4. PICK S \in Stretches(n) : \E Q \in Stretches(n - Cardinality(S)), f, v \in BOOLEAN :
                /\ silences' = S /\ quiet' = Q /\ filter' = f /\ voice' = v
                /\ LET heard == IF f THEN Filtered(S) ELSE <<<<0, Length>>>>
                   IN  kept' = IF v THEN Common(heard, WithoutLong(Q, Silent)) ELSE heard
      BY <2>3
    <2>5. PICK Q \in Stretches(n - Cardinality(S)), f \in BOOLEAN, v \in BOOLEAN :
                /\ silences' = S /\ quiet' = Q /\ filter' = f /\ voice' = v
                /\ LET heard == IF f THEN Filtered(S) ELSE <<<<0, Length>>>>
                   IN  kept' = IF v THEN Common(heard, WithoutLong(Q, Silent)) ELSE heard
      BY <2>4
    <2>6. speech \in SUBSET Interval /\ noises \in SUBSET Interval /\ MaxFindings \in Int
      BY <1>0, AudioScale DEF CutType
    <2>7. Cardinality(speech \cup noises) \in Int
      BY <2>6, IntervalsFinite
    <2>8. n \in Int
      BY <2>3, <2>6, <2>7
    <2>9. S \in SUBSET Interval
      BY <2>8, FoundAreIntervals DEF Stretches
    <2>10. n - Cardinality(S) \in Int
      BY <2>8, <2>9, IntervalsFinite
    <2>11. Q \in SUBSET Interval
      BY <2>10, FoundAreIntervals DEF Stretches
    <2>12. Filtered(silences)' = Filtered(S)
      BY <2>1, <2>5 DEF Filtered
    <2>13. NotSilent' = IF f THEN Filtered(S) ELSE <<<<0, Length>>>>
      BY <2>5, <2>12 DEF NotSilent
    <2>14. CutDone'
      BY <2>1, <2>5, <2>9, <2>11, <2>13 DEF CutDone
    <2> QED
      BY <2>2, <2>14 DEF CutInv
  <1>4. CASE UNCHANGED cutVars
    BY <1>0, <1>4 DEF cutVars, CutInv, CutType, Judged, CutDone, Candidates, NotSilent, Filtered
  <1> QED
    BY <1>1, <1>2, <1>3, <1>4 DEF CutNext

\* Every step of the preparation hands on intervals, and what the detectors and
\* the second look have found is what the cut is computed from.
THEOREM CutsComputed == CutSpec => []CutInv
  <1>1. CutInit => CutInv
    BY DEF CutInit, CutInv, CutType, Judged, CutDone
  <1> QED
    BY <1>1, CutInvStep, PTL DEF CutSpec

\* What is kept, in terms of single units of the audio.
LEMMA KeptUnits ==
    ASSUME CutInv, cutting = "done"
    PROVE  /\ Ordered(kept)
           /\ confirmed \in SUBSET Interval /\ protected \in SUBSET Interval
           /\ \A u \in Int : Covers(kept, u) <=>
                 /\ 0 <= u /\ u < Length
                 /\ filter =>
                       /\ \/ Covers(WithoutLong(silences, Silent), u)
                          \/ \E p \in protected : Widened(p, Guard)[1] <= u /\ u < Widened(p, Guard)[2]
                       /\ ~\E c \in Exclude(confirmed, protected) : c[1] <= u /\ u < c[2]
                 /\ voice => Covers(WithoutLong(quiet, Silent), u)
  <1>1. /\ silences \in SUBSET Interval /\ quiet \in SUBSET Interval
        /\ kept = IF voice THEN Common(NotSilent, WithoutLong(quiet, Silent)) ELSE NotSilent
    BY DEF CutInv, CutDone
  <1>2. confirmed \in SUBSET Interval /\ protected \in SUBSET Interval
    BY CandidatesLie DEF CutInv, Judged, CutType
  <1> DEFINE W == WithoutLong(silences, Silent)
             V == WithoutLong(quiet, Silent)
             F(u) == /\ \/ Covers(W, u)
                        \/ \E p \in protected : Widened(p, Guard)[1] <= u /\ u < Widened(p, Guard)[2]
                     /\ ~\E c \in Exclude(confirmed, protected) : c[1] <= u /\ u < c[2]
  <1>3. Ordered(V) /\ \A u \in Int : Covers(V, u) => 0 <= u /\ u < Length
    BY <1>1, WithoutLongKeeps
  <1>4. Ordered(Filtered(silences)) /\ \A u \in Int : Covers(Filtered(silences), u) <=> F(u)
    BY <1>1, <1>2, FilteredKeeps
  <1>5. \A u \in Int : F(u) => 0 <= u /\ u < Length
    <2> SUFFICES ASSUME NEW u \in Int, F(u) PROVE 0 <= u /\ u < Length
      OBVIOUS
    <2>1. CASE Covers(W, u)
      BY <2>1, <1>1, WithoutLongKeeps
    <2>2. ASSUME NEW p \in protected, Widened(p, Guard)[1] <= u, u < Widened(p, Guard)[2] PROVE 0 <= u /\ u < Length
      <3>1. Widened(p, Guard) \in Interval
        BY <1>2, EndsKept
      <3>2. Widened(p, Guard)[1] \in 0..Length /\ Widened(p, Guard)[2] \in 0..Length /\ Length \in Nat
        BY <3>1, IntervalFacts, AudioScale
      <3> QED
        BY <3>2, <2>2
    <2> QED
      BY <2>1, <2>2
  <1> HIDE DEF V, W, F
  <1>6. Ordered(NotSilent) /\ \A u \in Int : Covers(NotSilent, u) <=> 0 <= u /\ u < Length /\ (filter => F(u))
    <2>1. CASE filter
      BY <2>1, <1>4, <1>5 DEF NotSilent
    <2>2. CASE ~filter
      BY <2>2, NothingCovers DEF NotSilent
    <2> QED
      BY <2>1, <2>2
  <1>7. Ordered(kept) /\ \A u \in Int : Covers(kept, u) <=>
                            0 <= u /\ u < Length /\ (filter => F(u)) /\ (voice => Covers(V, u))
    <2>1. CASE voice
      <3>1. kept = Common(NotSilent, V)
        BY <2>1, <1>1 DEF V
      <3>2. Ordered(Common(NotSilent, V)) /\ \A u \in Int : Covers(Common(NotSilent, V), u) <=> Covers(NotSilent, u) /\ Covers(V, u)
        BY <1>3, <1>6, CommonKeeps
      <3> QED
        BY <2>1, <3>1, <3>2, <1>6
    <2>2. CASE ~voice
      BY <2>2, <1>1, <1>6
    <2> QED
      BY <2>1, <2>2
  <1> QED
    BY <1>2, <1>7 DEF F, V, W

\* What remains is what the kept intervals cover.
LEMMA RemainingUnits ==
    ASSUME Ordered(kept)
    PROVE  \A u : u \in Remaining <=> u \in Int /\ Covers(kept, u)
  <1>1. \A k \in DOMAIN kept : kept[k] \in Interval
    BY DEF Ordered
  <1>2. \A k \in DOMAIN kept : kept[k][1] \in Int /\ kept[k][2] \in Int
    BY <1>1, IntervalFacts
  <1>3. \A u : u \in Remaining <=> \E k \in DOMAIN kept : u \in kept[k][1] .. (kept[k][2] - 1)
    BY DEF Remaining, Units
  <1>4. \A u, k : k \in DOMAIN kept => (u \in kept[k][1] .. (kept[k][2] - 1) <=> u \in Int /\ kept[k][1] <= u /\ u < kept[k][2])
    BY <1>2
  <1> QED
    BY <1>3, <1>4 DEF Covers

\* Speech is kept with its margin.
LEMMA KeepsSpeech == CutInv => SpeechKept
  <1> SUFFICES ASSUME CutInv, cutting = "done", ~voice,
                      NEW p \in speech \cup (Candidates \ confirmed), NEW u \in Units(Widened(p, Guard))
               PROVE  u \in Remaining
    BY DEF SpeechKept
  <1>1. p \in protected
    BY DEF CutInv, Judged
  <1>2. /\ Ordered(kept) /\ confirmed \in SUBSET Interval /\ protected \in SUBSET Interval
        /\ \A t \in Int : Covers(kept, t) <=>
              /\ 0 <= t /\ t < Length
              /\ filter =>
                    /\ \/ Covers(WithoutLong(silences, Silent), t)
                       \/ \E q \in protected : Widened(q, Guard)[1] <= t /\ t < Widened(q, Guard)[2]
                    /\ ~\E c \in Exclude(confirmed, protected) : c[1] <= t /\ t < c[2]
              /\ voice => Covers(WithoutLong(quiet, Silent), t)
    BY KeptUnits
  <1>3. Widened(p, Guard) \in Interval
    BY <1>1, <1>2, EndsKept
  <1>4. u \in Int /\ Widened(p, Guard)[1] <= u /\ u < Widened(p, Guard)[2] /\ 0 <= u /\ u < Length
    <2>1. /\ Widened(p, Guard)[1] \in 0..Length /\ Widened(p, Guard)[2] \in 0..Length /\ Length \in Nat
          /\ u \in Widened(p, Guard)[1] .. (Widened(p, Guard)[2] - 1)
      BY <1>3, IntervalFacts, AudioScale DEF Units
    <2> QED
      BY <2>1
  <1>5. ASSUME NEW c \in Exclude(confirmed, protected), c[1] <= u, u < c[2] PROVE FALSE
    BY <1>1, <1>2, <1>4, <1>5, Excluded
  <1>6. Covers(kept, u)
    BY <1>1, <1>2, <1>4, <1>5
  <1> QED
    BY <1>2, <1>4, <1>6, RemainingUnits

\* Nothing is cut without a cause.
LEMMA CutsForCause == CutInv => CutForCause
  <1> SUFFICES ASSUME CutInv, cutting = "done", NEW u \in (0 .. Length - 1) \ Remaining
               PROVE  \/ filter /\ \E s \in silences : s[2] - s[1] >= Silent /\ u \in Units(Narrowed(s, Padding))
                      \/ voice /\ \E q \in quiet : q[2] - q[1] >= Silent /\ u \in Units(Narrowed(q, Padding))
                      \/ filter /\ \E n \in noises : /\ u \in Units(Narrowed(n, Edge)) /\ Narrowed(n, Edge) \in confirmed
                                                     /\ \A s \in speech : u \notin Units(Widened(s, Guard))
    BY DEF CutForCause
  <1>1. /\ Ordered(kept) /\ confirmed \in SUBSET Interval /\ protected \in SUBSET Interval
        /\ \A t \in Int : Covers(kept, t) <=>
              /\ 0 <= t /\ t < Length
              /\ filter =>
                    /\ \/ Covers(WithoutLong(silences, Silent), t)
                       \/ \E q \in protected : Widened(q, Guard)[1] <= t /\ t < Widened(q, Guard)[2]
                    /\ ~\E c \in Exclude(confirmed, protected) : c[1] <= t /\ t < c[2]
              /\ voice => Covers(WithoutLong(quiet, Silent), t)
    BY KeptUnits
  <1>2. u \in Int /\ 0 <= u /\ u < Length
    BY AudioScale
  <1>3. ~Covers(kept, u)
    BY <1>1, <1>2, RemainingUnits
  <1>4. silences \in SUBSET Interval /\ quiet \in SUBSET Interval /\ Padding \in Nat /\ Edge \in Nat
        /\ noises \in SUBSET Interval /\ speech \in SUBSET Interval
    BY AudioScale DEF CutInv, CutDone, CutType
  <1>5. ASSUME NEW S \in SUBSET Interval, ~Covers(WithoutLong(S, Silent), u)
        PROVE  \E s \in S : s[2] - s[1] >= Silent /\ u \in Units(Narrowed(s, Padding))
    <2>1. PICK s \in S : s[2] - s[1] >= Silent /\ s[1] + Padding <= u /\ u < s[2] - Padding
      BY <1>2, <1>5, WithoutLongKeeps
    <2>2. s[1] \in Int /\ s[2] \in Int
      BY IntervalFacts
    <2>3. u \in (s[1] + Padding) .. ((s[2] - Padding) - 1)
      BY <1>2, <1>4, <2>1, <2>2
    <2>4. u \in Units(Narrowed(s, Padding))
      BY <2>3 DEF Units, Narrowed
    <2> QED
      BY <2>1, <2>4
  <1>6. CASE voice /\ ~Covers(WithoutLong(quiet, Silent), u)
    BY <1>4, <1>5, <1>6
  <1>7. CASE filter /\ ~Covers(WithoutLong(silences, Silent), u)
    BY <1>4, <1>5, <1>7
  <1>8. ASSUME filter, NEW c \in Exclude(confirmed, protected), c[1] <= u, u < c[2]
        PROVE  \E n \in noises : /\ u \in Units(Narrowed(n, Edge)) /\ Narrowed(n, Edge) \in confirmed
                                 /\ \A s \in speech : u \notin Units(Widened(s, Guard))
    <2>1. c \in confirmed /\ c \in Candidates /\ speech \subseteq protected
      BY <1>1, <1>3, <1>8, Excluded DEF CutInv, Judged, CutDone
    <2>2. PICK n \in noises : c = Narrowed(n, Edge)
      BY <2>1 DEF Candidates
    <2>3. c \in Interval
      BY <2>1, <1>1
    <2>4. u \in Units(c)
      <3>1. c[1] \in Int /\ c[2] \in Int
        BY <2>3, IntervalFacts
      <3>2. u \in c[1] .. (c[2] - 1)
        BY <3>1, <1>2, <1>8
      <3> QED
        BY <3>2 DEF Units
    <2>5. ASSUME NEW s \in speech, u \in Units(Widened(s, Guard)) PROVE FALSE
      <3>1. s \in protected /\ Widened(s, Guard) \in Interval
        BY <2>1, <1>4, EndsKept
      <3>2. Widened(s, Guard)[1] \in Int /\ Widened(s, Guard)[2] \in Int
        BY <3>1, IntervalFacts
      <3>3. u \in Widened(s, Guard)[1] .. (Widened(s, Guard)[2] - 1)
        BY <2>5 DEF Units
      <3>4. Widened(s, Guard)[1] <= u /\ u < Widened(s, Guard)[2]
        BY <3>2, <3>3, <1>2
      <3> QED
        BY <3>1, <3>4, <1>1, <1>2, <1>8, Excluded
    <2> QED
      BY <2>1, <2>2, <2>4, <2>5
  <1> QED
    BY <1>1, <1>2, <1>3, <1>6, <1>7, <1>8

\* A confirmed noise is cut.
LEMMA CutsNoise == CutInv => NoiseCut
  <1> SUFFICES ASSUME CutInv, cutting = "done", filter, NEW r \in confirmed,
                      \A p \in protected : ~Overlap(r, Widened(p, Guard)),
                      NEW u \in Units(r), u \in Remaining
               PROVE  FALSE
    BY DEF NoiseCut
  <1>1. /\ Ordered(kept) /\ confirmed \in SUBSET Interval /\ protected \in SUBSET Interval
        /\ \A t \in Int : Covers(kept, t) =>
              (filter => ~\E c \in Exclude(confirmed, protected) : c[1] <= t /\ t < c[2])
    BY KeptUnits
  <1>2. u \in Int /\ Covers(kept, u)
    BY <1>1, RemainingUnits
  <1>3. r \in Exclude(confirmed, protected)
    BY <1>1, Excluded
  <1>4. r[1] <= u /\ u < r[2]
    <2>1. r[1] \in Int /\ r[2] \in Int /\ u \in r[1] .. (r[2] - 1)
      BY <1>1, IntervalFacts DEF Units
    <2> QED
      BY <2>1
  <1> QED
    BY <1>1, <1>2, <1>3, <1>4

\* The timeline is that of the kept intervals.
LEMMA AgreesOnTime == CutInv => ClocksAgree
  <1> SUFFICES ASSUME CutInv, cutting = "done"
               PROVE  /\ \A k \in DOMAIN spans :
                           /\ <<spans[k].start, spans[k].end>> = kept[k]
                           /\ spans[k].to - spans[k].from = spans[k].end - spans[k].start
                           /\ spans[k].from = (IF k = 1 THEN 0 ELSE spans[k - 1].to)
                           /\ k > 1 => spans[k - 1].end <= spans[k].start
                      /\ (IF spans = <<>> THEN 0 ELSE Last(spans).to) = Cardinality(Remaining)
    BY DEF ClocksAgree
  <1> DEFINE n == Len(kept)
  <1>1. Ordered(kept) /\ spans = Timeline(kept)
    BY KeptUnits DEF CutInv, CutDone
  <1>2. /\ kept \in Seq(Interval) /\ n \in Nat /\ DOMAIN kept = 1..n
        /\ \A k \in 1..n : kept[k] \in Interval
        /\ \A j, k \in 1..n : j < k => kept[j][2] <= kept[k][1]
    <2>1. kept \in Seq(Interval)
      BY <1>1 DEF Ordered
    <2>2. n \in Nat /\ DOMAIN kept = 1..n /\ \A k \in 1..n : kept[k] \in Interval
      BY <2>1
    <2> HIDE DEF n
    <2> QED
      BY <1>1, <2>1, <2>2 DEF Ordered
  <1>3. \A k \in 1..n : kept[k][1] \in Int /\ kept[k][2] \in Int /\ kept[k] = <<kept[k][1], kept[k][2]>>
    BY <1>2, IntervalFacts
  <1>4. PICK f : /\ f \in [0..n -> Int] /\ f[0] = 0
                 /\ \A k \in 1..n : f[k] = f[k - 1] + kept[k][2] - kept[k][1]
                 /\ Timeline(kept) = [k \in 1..n |-> [from |-> f[k - 1], to |-> f[k],
                                                     start |-> kept[k][1], end |-> kept[k][2]]]
    BY <1>2, TimelineComputed
  <1> HIDE DEF n
  <1>5. /\ DOMAIN spans = 1..n
        /\ \A k \in 1..n : /\ spans[k].from = f[k - 1] /\ spans[k].to = f[k]
                            /\ spans[k].start = kept[k][1] /\ spans[k].end = kept[k][2]
    BY <1>1, <1>4
  <1>6. ASSUME NEW k \in 1..n
        PROVE  /\ <<spans[k].start, spans[k].end>> = kept[k]
               /\ spans[k].to - spans[k].from = spans[k].end - spans[k].start
               /\ spans[k].from = (IF k = 1 THEN 0 ELSE spans[k - 1].to)
               /\ k > 1 => spans[k - 1].end <= spans[k].start
    <2>1. <<spans[k].start, spans[k].end>> = kept[k]
      BY <1>3, <1>5, Zenon
    <2>2. spans[k].to - spans[k].from = spans[k].end - spans[k].start
      <3>1. f[k - 1] \in Int /\ f[k] = f[k - 1] + kept[k][2] - kept[k][1]
        BY <1>2, <1>4
      <3>2. kept[k][1] \in Int /\ kept[k][2] \in Int
        BY <1>3
      <3>3. f[k] - f[k - 1] = kept[k][2] - kept[k][1]
        BY <3>1, <3>2
      <3> QED
        BY <1>5, <3>3
    <2>3. CASE k = 1
      BY <1>4, <1>5, <2>1, <2>2, <2>3
    <2>4. CASE k # 1
      <3>1. k - 1 \in 1..n /\ k - 1 < k
        BY <1>2, <2>4
      <3>2. spans[k - 1].to = f[k - 1] /\ spans[k - 1].end = kept[k - 1][2]
        BY <3>1, <1>5
      <3>3. kept[k - 1][2] <= kept[k][1]
        BY <3>1, <1>2
      <3> QED
        BY <1>5, <2>1, <2>2, <2>4, <3>2, <3>3
    <2> QED
      BY <2>3, <2>4
  <1>7. Remaining = UNION {Units(kept[k]) : k \in DOMAIN kept}
    BY DEF Remaining
  <1>8. Cardinality(Remaining) = f[n]
    <2>1. Cardinality(UNION {Units(kept[k]) : k \in DOMAIN kept}) = f[Len(kept)]
      BY <1>1, <1>4, UnitsCounted DEF n
    <2> QED
      BY <1>7, <2>1 DEF n
  <1>9. (IF spans = <<>> THEN 0 ELSE Last(spans).to) = f[n]
    <2>1. CASE n = 0
      <3>1. spans = <<>>
        BY <1>1, <1>4, <2>1
      <3> QED
        BY <3>1, <2>1, <1>4
    <2>2. CASE n # 0
      <3>1. n \in 1..n
        BY <1>2, <2>2
      <3>2. spans # <<>>
        BY <1>5, <3>1
      <3>3. Len(spans) = n
        BY <1>1, <1>2, <1>4
      <3> QED
        BY <1>5, <3>1, <3>2, <3>3 DEF Last
    <2> QED
      BY <2>1, <2>2
  <1> QED
    BY <1>5, <1>6, <1>8, <1>9

\* The cut takes what may be cut, all of it, and the timeline says where, for an
\* audio of any length, any margins and whatever the detectors report.
THEOREM CutIsSound == CutSpec => []CutSound
  <1>1. CutInv => CutSound
    BY KeepsSpeech, CutsForCause, CutsNoise, AgreesOnTime DEF CutSound
  <1> QED
    BY <1>1, CutsComputed, PTL

-------------------------------------------------------------------------------
(***************************************************************************)
(* Subtitles: their lines, slots and pages.                                *)
(***************************************************************************)
\* What is said in one line, and what is said at a time.
LineSet == [cue : Nat, line : Nat, part : Nat, length : Nat \ {0}, breaks : Seq(Nat \ {0}) \ {<<>>}]
\* Utterances and subtitles.
CueSet == [start : Nat, end : Nat, lines : Seq(LineSet) \ {<<>>}]

\* Division with a remainder.
LEMMA Divided ==
    \A a \in Nat, d \in Nat \ {0} : a \div d \in Nat /\ d * (a \div d) <= a /\ a < d * (a \div d) + d
  <1> QED
    OBVIOUS

\* The greater factor, the greater product.
LEMMA Products ==
    \A a, b, d \in Nat : a <= b => a * d <= b * d
  <1> QED
    OBVIOUS

\* The pages have room for the lines, the last one for at least one.
LEMMA PagesEnough ==
    ASSUME NEW b \in CueSet
    PROVE  /\ Len(b.lines) \in Nat \ {0} /\ PageCount(b) \in Nat \ {0}
           /\ (PageCount(b) - 1) * MaxLines < Len(b.lines)
           /\ Len(b.lines) <= PageCount(b) * MaxLines
           /\ Len(b.lines) <= MaxLines => PageCount(b) = 1
  <1> DEFINE len == Len(b.lines)
             n == PageCount(b)
             M == MaxLines
  <1>1. len \in Nat \ {0} /\ M \in Nat \ {0}
    <2>1. b.lines \in Seq(LineSet) /\ b.lines # <<>>
      BY DEF CueSet
    <2> QED
      BY <2>1, LayoutScale
  <1>2. n = (len + M - 1) \div M
    BY DEF PageCount
  <1> HIDE DEF len, n, M
  <1>3. len + M - 1 \in Nat
    BY <1>1
  <1>4. n \in Nat /\ M * n <= len + M - 1 /\ len + M - 1 < M * n + M
    BY <1>1, <1>2, <1>3, Divided
  <1>5. n # 0
    BY <1>1, <1>4
  <1>6. n - 1 \in Nat /\ M * n = (n - 1) * M + M /\ M * n = n * M
    BY <1>1, <1>4, <1>5
  <1>7. ASSUME len <= M PROVE n = 1
    <2> SUFFICES ASSUME n >= 2 PROVE FALSE
      BY <1>4, <1>5
    <2>1. 2 * M <= n * M
      BY <1>1, <1>4, Products
    <2> QED
      BY <1>1, <1>4, <1>6, <1>7, <2>1
  <1>8. (n - 1) * M \in Nat /\ n * M \in Nat
    BY <1>1, <1>4, <1>6
  <1> QED
    BY <1>1, <1>4, <1>5, <1>6, <1>7, <1>8 DEF len, n, M

\* Every page has lines, no more than fit, and every line is on a page.
LEMMA PageHolds ==
    ASSUME NEW b \in CueSet
    PROVE  /\ \A n \in 1..PageCount(b) : /\ PageLines(b, n) \in Seq(LineSet) \ {<<>>}
                                         /\ Len(PageLines(b, n)) \in 1..MaxLines
                                         /\ ToSet(PageLines(b, n)) \subseteq ToSet(b.lines)
           /\ \A x \in ToSet(b.lines) : \E n \in 1..PageCount(b) : x \in ToSet(PageLines(b, n))
           /\ \A n \in 1..PageCount(b) - 1 : SubSeq(b.lines, 1, n * MaxLines) \in Seq(LineSet)
  <1> DEFINE s == b.lines
             len == Len(s)
             N == PageCount(b)
             M == MaxLines
             first(n) == (n - 1) * M + 1
             last(n) == LowerOf(n * M, len)
  <1>1. s \in Seq(LineSet) /\ s # <<>>
    BY DEF CueSet
  <1>2. DOMAIN s = 1..len /\ \A k \in 1..len : s[k] \in LineSet
    BY <1>1
  <1>3. len \in Nat \ {0} /\ N \in Nat \ {0} /\ (N - 1) * M < len /\ len <= N * M
    BY PagesEnough
  <1>4. M \in Nat \ {0}
    BY LayoutScale
  <1>5. \A n \in 1..N : PageLines(b, n) = SubSeq(s, first(n), last(n))
    BY DEF PageLines
  <1> HIDE DEF s, len, N, M
  <1>6. ASSUME NEW n \in 1..N
        PROVE  /\ first(n) \in 1..len /\ last(n) \in first(n)..len /\ last(n) - first(n) + 1 \in 1..M
               /\ last(n) = (IF n * M <= len THEN n * M ELSE len)
    <2>1. (n - 1) \in Nat /\ (N - 1) \in Nat /\ n - 1 <= N - 1
      BY <1>3
    <2>2. (n - 1) * M <= (N - 1) * M
      BY <2>1, <1>4, Products
    <2>3. n * M = (n - 1) * M + M /\ (n - 1) * M \in Nat /\ n * M \in Nat /\ (N - 1) * M \in Nat
      BY <2>1, <1>4
    <2> QED
      BY <1>3, <1>4, <2>2, <2>3 DEF LowerOf
  <1>7. ASSUME NEW n \in 1..N
        PROVE  /\ PageLines(b, n) \in Seq(LineSet) \ {<<>>}
               /\ Len(PageLines(b, n)) = last(n) - first(n) + 1
               /\ DOMAIN PageLines(b, n) = 1..(last(n) - first(n) + 1)
               /\ \A i \in 1..(last(n) - first(n) + 1) : PageLines(b, n)[i] = s[first(n) + i - 1]
    <2> DEFINE f == first(n)
               l == last(n)
    <2>0. f \in 1..len /\ l \in f..len /\ l - f + 1 \in 1..M
      BY <1>6
    <2> HIDE DEF f, l
    <2>2. f <= l /\ l - f + 1 \in Nat \ {0}
      BY <2>0, <1>3
    <2>1. f \in Int /\ l \in Int /\ \A i \in f..l : s[i] \in LineSet
      <3>1. \A i \in f..l : i \in 1..len
        BY <2>0, <1>3
      <3> QED
        BY <2>0, <3>1, <1>2, <1>3
    <2>3. /\ SubSeq(s, f, l) \in Seq(LineSet) /\ Len(SubSeq(s, f, l)) = l - f + 1
          /\ \A i \in 1..(l - f + 1) : SubSeq(s, f, l)[i] = s[f + i - 1]
      BY <2>1, <2>2, SubSeqProperties
    <2>4. SubSeq(s, f, l) # <<>> /\ DOMAIN SubSeq(s, f, l) = 1..(l - f + 1)
      <3> DEFINE c == SubSeq(s, f, l)
      <3>1. c \in Seq(LineSet) /\ Len(c) = l - f + 1
        BY <2>3
      <3> HIDE DEF c
      <3>2. DOMAIN c = 1..(l - f + 1) /\ c # <<>>
        <4>1. DOMAIN c = 1..Len(c) /\ (c = <<>> => Len(c) = 0)
          BY <3>1
        <4> QED
          BY <2>2, <3>1, <4>1
      <3> QED
        BY <3>2 DEF c
    <2> QED
      BY <2>3, <2>4, <1>5 DEF f, l
  <1> HIDE DEF first, last
  <1>8. ASSUME NEW n \in 1..N PROVE ToSet(PageLines(b, n)) \subseteq ToSet(s)
    <2> SUFFICES ASSUME NEW i \in 1..(last(n) - first(n) + 1) PROVE PageLines(b, n)[i] \in ToSet(s)
      BY <1>7 DEF ToSet
    <2>1. first(n) + i - 1 \in 1..len
      BY <1>3, <1>6
    <2>2. PageLines(b, n)[i] = s[first(n) + i - 1]
      BY <1>7
    <2> QED
      BY <2>1, <2>2, <1>2 DEF ToSet
  <1>9. ASSUME NEW x \in ToSet(s) PROVE \E n \in 1..N : x \in ToSet(PageLines(b, n))
    <2>1. PICK k \in 1..len : x = s[k]
      BY <1>2 DEF ToSet
    <2> DEFINE q == (k - 1) \div M
               n == q + 1
    <2>2. k - 1 \in Nat /\ q \in Nat /\ M * q <= k - 1 /\ k - 1 < M * q + M
      BY <1>3, <1>4, Divided
    <2> HIDE DEF q
    <2>3. q < N
      <3> SUFFICES ASSUME N <= q PROVE FALSE
        BY <1>3, <2>2
      <3>1. N * M <= q * M
        BY <1>3, <1>4, <2>2, Products
      <3>2. q * M = M * q /\ q * M \in Nat /\ N * M \in Nat
        BY <1>3, <1>4, <2>2
      <3> QED
        BY <3>1, <3>2, <2>2, <1>3
    <2>4. n \in 1..N /\ n - 1 = q
      BY <2>2, <2>3, <1>3
    <2>5. first(n) = q * M + 1 /\ n * M = q * M + M /\ q * M = M * q /\ M * q \in Nat
      BY <2>2, <2>4, <1>4 DEF first
    <2>6. last(n) = (IF n * M <= len THEN n * M ELSE len) /\ last(n) \in Int
      BY <2>4, <1>3, <1>6
    <2>7. first(n) <= k /\ k <= last(n) /\ first(n) \in Int
      BY <2>2, <2>5, <2>6, <1>3
    <2> HIDE DEF n
    <2> DEFINE i == k - first(n) + 1
    <2>8. i \in 1..(last(n) - first(n) + 1) /\ first(n) + i - 1 = k
      BY <2>6, <2>7
    <2> HIDE DEF i
    <2>9. PageLines(b, n)[i] = s[k] /\ i \in DOMAIN PageLines(b, n)
      BY <2>4, <2>8, <1>7
    <2>10. x \in ToSet(PageLines(b, n))
      BY <2>1, <2>9 DEF ToSet
    <2> QED
      BY <2>4, <2>10
  <1>10. ASSUME NEW n \in 1..N - 1 PROVE SubSeq(s, 1, n * M) \in Seq(LineSet)
    <2>1. n \in Nat /\ N - 1 \in Nat /\ n <= N - 1
      BY <1>3
    <2>2. n * M <= (N - 1) * M
      BY <2>1, <1>4, Products
    <2>3. n * M \in Nat /\ n * M <= len /\ (N - 1) * M \in Nat
      BY <2>1, <2>2, <1>3, <1>4
    <2>4. \A i \in 1..(n * M) : s[i] \in LineSet
      BY <2>3, <1>2, <1>3
    <2> QED
      BY <2>3, <2>4, SubSeqProperties
  <1>11. \A n \in 1..N : Len(PageLines(b, n)) \in 1..M
    BY <1>6, <1>7
  <1> QED
    BY <1>7, <1>8, <1>9, <1>10, <1>11 DEF s, N, M

\* Words weigh something.
LEMMA Weighed ==
    ASSUME NEW lines \in Seq(LineSet)
    PROVE  Weight(lines) \in Nat /\ (lines # <<>> => Weight(lines) # 0)
  <1> DEFINE n == Len(lines)
             T == Nat
             step == [p \in (1..n) \X T |-> p[2] + lines[p[1]].length]
  <1>1. n \in Nat /\ \A k \in 1..n : lines[k] \in LineSet
    OBVIOUS
  <1>2. \A k \in 1..n : lines[k].length \in Nat \ {0}
    BY <1>1 DEF LineSet
  <1>3. step \in [(1..n) \X T -> T]
    <2>1. \A k \in 1..n, t \in T : t + lines[k].length \in T
      BY <1>2
    <2> HIDE DEF T, n
    <2> QED
      BY <2>1
  <1>4. PICK f \in [0..n -> T] : f[0] = 0 /\ \A k \in 1..n : f[k] = step[<<k, f[k - 1]>>]
    <2>1. n \in Nat /\ 0 \in T
      BY <1>1
    <2> HIDE DEF T, n, step
    <2>2. Runs(T, 0, n, step) # {}
      BY <2>1, <1>3, Computed, Zenon
    <2> QED
      BY <2>2 DEF Runs
  <1>5. \A k \in 1..n : f[k] = f[k - 1] + lines[k].length
    <2> SUFFICES ASSUME NEW k \in 1..n PROVE f[k] = f[k - 1] + lines[k].length
      OBVIOUS
    <2>1. f[k - 1] \in T
      <3> HIDE DEF T
      <3> QED
        BY <1>1
    <2> HIDE DEF T
    <2> QED
      BY <1>4, <2>1
  <1> DEFINE G(q, k) == q + lines[k].length
             F(g) == [k \in 0..n |-> IF k = 0 THEN 0 ELSE G(g[k - 1], k)]
             upTo == CHOOSE g : g = F(g)
  <1>6. f = F(f)
    <2>1. \A k \in 1..n : f[k] = G(f[k - 1], k)
      BY <1>5
    <2> HIDE DEF T, n, G
    <2> QED
      BY <1>1, <1>4, <2>1
  <1>7. upTo = F(upTo)
    <2> HIDE DEF F
    <2> QED
      BY <1>6
  <1>8. upTo[0] = 0 /\ \A k \in 1..n : upTo[k] = G(upTo[k - 1], k)
    <2> HIDE DEF upTo, G, n
    <2>1. \A k \in 0..n : F(upTo)[k] = IF k = 0 THEN 0 ELSE G(upTo[k - 1], k)
      OBVIOUS
    <2> HIDE DEF F
    <2>2. \A k \in 0..n : upTo[k] = IF k = 0 THEN 0 ELSE G(upTo[k - 1], k)
      BY <1>7, <2>1, Zenon
    <2> QED
      BY <1>1, <2>2
  <1>9. Weight(lines) = upTo[n]
    BY DEF Weight
  <1> DEFINE S == {k \in 0..n : upTo[k] \in Nat /\ (k > 0 => upTo[k] # 0)}
  <1> HIDE DEF upTo
  <1>10. 0 \in S
    BY <1>1, <1>8
  <1>11. \A k \in 1..n : k - 1 \in S => k \in S
    <2> SUFFICES ASSUME NEW k \in 1..n, k - 1 \in S PROVE k \in S
      OBVIOUS
    <2>1. upTo[k - 1] \in Nat /\ lines[k].length \in Nat \ {0} /\ k \in 0..n
      BY <1>2
    <2>2. upTo[k] = upTo[k - 1] + lines[k].length
      BY <1>8
    <2> QED
      BY <2>1, <2>2
  <1> HIDE DEF S
  <1>12. n \in S
    <2>1. \A k \in 0..n : k \in S
      BY <1>1, <1>10, <1>11, Steps
    <2> QED
      BY <2>1, <1>1
  <1>13. lines # <<>> => n > 0
    BY DEF n
  <1> QED
    BY <1>1, <1>9, <1>12, <1>13 DEF S

\* Subtitles, in whole milliseconds, and which may follow which.
BlockSet == {c \in CueSet : From(c) < To(c) /\ c.start = 2 * From(c) /\ c.end = 2 * To(c)}
\* One ends before the other begins.
Following == {p \in BlockSet \X BlockSet : To(p[1]) <= From(p[2])}

\* Times are whole milliseconds.
LEMMA Clocks == \A c \in CueSet : From(c) \in Nat /\ To(c) \in Nat
  <1> QED
    BY Rounded DEF CueSet, From, To

\* A subtitle has the times and lines it is given.
LEMMA BlockFacts ==
    ASSUME NEW p \in Nat, NEW q \in Nat, p < q, NEW lines \in Seq(LineSet) \ {<<>>}
    PROVE  /\ Block(p, q, lines) \in BlockSet /\ Block(p, q, lines).lines = lines
           /\ From(Block(p, q, lines)) = p /\ To(Block(p, q, lines)) = q
  <1> DEFINE b == Block(p, q, lines)
  <1>1. b \in CueSet
    BY DEF Block, CueSet
  <1>2. b.start = 2 * p /\ b.end = 2 * q /\ b.lines = lines
    BY DEF Block
  <1> HIDE DEF b
  <1>3. From(b) = p /\ To(b) = q
    BY <1>2, Rounded DEF From, To
  <1> QED
    BY <1>1, <1>2, <1>3 DEF BlockSet, b

\* A subtitle is made of its times and lines.
LEMMA BlockItself == \A c \in BlockSet : Block(From(c), To(c), c.lines) = c
  <1> SUFFICES ASSUME NEW c \in BlockSet PROVE Block(From(c), To(c), c.lines) = c
    OBVIOUS
  <1>1. c = [start |-> c.start, end |-> c.end, lines |-> c.lines]
    BY DEF BlockSet, CueSet
  <1>2. c.start = 2 * From(c) /\ c.end = 2 * To(c)
    BY DEF BlockSet
  <1> QED
    BY <1>1, <1>2, Zenon DEF Block

\* A page begins where the last one ends, and leaves the others their time.
LEMMA Turned ==
    ASSUME NEW b \in CueSet, Room(b), NEW n \in 1..PageCount(b), NEW cursor \in Int,
           From(b) <= cursor, cursor <= To(b) - (PageCount(b) - (n - 1))
    PROVE  /\ Turn(b, n, cursor) \in Int /\ cursor < Turn(b, n, cursor)
           /\ Turn(b, n, cursor) <= To(b) - (PageCount(b) - n)
  <1>1. PageCount(b) \in Nat \ {0} /\ From(b) \in Nat /\ To(b) \in Nat /\ To(b) - From(b) >= PageCount(b)
    BY PagesEnough, Clocks DEF Room
  <1> DEFINE W == RoundDiv((To(b) - From(b)) * Weight(SubSeq(b.lines, 1, n * MaxLines)), Weight(b.lines))
  <1>2. CASE n = PageCount(b)
    BY <1>1, <1>2 DEF Turn
  <1>3. CASE n # PageCount(b)
    <2>1. n \in 1..PageCount(b) - 1
      BY <1>1, <1>3
    <2>2. SubSeq(b.lines, 1, n * MaxLines) \in Seq(LineSet)
      BY <2>1, PageHolds
    <2>3. Weight(SubSeq(b.lines, 1, n * MaxLines)) \in Nat
      BY <2>2, Weighed
    <2>4. b.lines \in Seq(LineSet) /\ b.lines # <<>>
      BY DEF CueSet
    <2>5. Weight(b.lines) \in Nat \ {0}
      BY <2>4, Weighed
    <2>6. (To(b) - From(b)) * Weight(SubSeq(b.lines, 1, n * MaxLines)) \in Nat
      BY <1>1, <2>3
    <2>7. W \in Nat
      BY <2>5, <2>6, Rounded
    <2> HIDE DEF W
    <2>8. Turn(b, n, cursor) = LowerOf(To(b) - (PageCount(b) - n), UpperOf(cursor + 1, From(b) + W))
      BY <1>3 DEF Turn, W
    <2> QED
      BY <1>1, <2>7, <2>8 DEF LowerOf, UpperOf
  <1> QED
    BY <1>2, <1>3

\* A page ends at a time.
LEMMA TurnType ==
    ASSUME NEW b \in CueSet
    PROVE  \A n \in 1..PageCount(b), cursor \in Int : Turn(b, n, cursor) \in Int
  <1> SUFFICES ASSUME NEW n \in 1..PageCount(b), NEW cursor \in Int PROVE Turn(b, n, cursor) \in Int
    OBVIOUS
  <1>1. PageCount(b) \in Nat \ {0} /\ From(b) \in Nat /\ To(b) \in Nat
    BY PagesEnough, Clocks
  <1> DEFINE p == SubSeq(b.lines, 1, n * MaxLines)
             a == (To(b) - From(b)) * Weight(p)
             W == RoundDiv(a, Weight(b.lines))
  <1>2. CASE n = PageCount(b)
    BY <1>1, <1>2 DEF Turn
  <1>3. CASE n # PageCount(b)
    <2>1. n \in 1..PageCount(b) - 1
      BY <1>1, <1>3
    <2>2. p \in Seq(LineSet)
      BY <2>1, PageHolds
    <2>3. Weight(p) \in Nat
      BY <2>2, Weighed
    <2>4. b.lines \in Seq(LineSet) /\ b.lines # <<>>
      BY DEF CueSet
    <2>5. Weight(b.lines) \in Nat \ {0}
      BY <2>4, Weighed
    <2> HIDE DEF p
    <2>6. a \in Int
      BY <1>1, <2>3
    <2> HIDE DEF a
    <2>7. W \in Int
      BY <2>5, <2>6 DEF RoundDiv
    <2> HIDE DEF W
    <2>8. Turn(b, n, cursor) = LowerOf(To(b) - (PageCount(b) - n), UpperOf(cursor + 1, From(b) + W))
      BY <1>3 DEF Turn, W, a, p
    <2> QED
      BY <1>1, <2>7, <2>8 DEF LowerOf, UpperOf
  <1> QED
    BY <1>2, <1>3

\* The loop over the pages.
LEMMA PagesComputed ==
    ASSUME NEW b \in CueSet
    PROVE  \E f : /\ f[0] = From(b)
                  /\ \A n \in 1..PageCount(b) : f[n] = Turn(b, n, f[n - 1])
                  /\ Pages(b) = [n \in 1..PageCount(b) |-> Block(f[n - 1], f[n], PageLines(b, n))]
  <1> DEFINE N == PageCount(b)
             T == Int
             step == [p \in (1..N) \X T |-> Turn(b, p[1], p[2])]
  <1>1. N \in Nat /\ From(b) \in T
    BY PagesEnough, Clocks
  <1>2. step \in [(1..N) \X T -> T]
    BY TurnType
  <1>3. PICK f \in [0..N -> T] : f[0] = From(b) /\ \A k \in 1..N : f[k] = step[<<k, f[k - 1]>>]
    <2> HIDE DEF T, N, step
    <2>2. Runs(T, From(b), N, step) # {}
      BY <1>1, <1>2, Computed, Zenon
    <2> QED
      BY <2>2 DEF Runs
  <1>4. \A k \in 1..N : f[k] = Turn(b, k, f[k - 1])
    <2> SUFFICES ASSUME NEW k \in 1..N PROVE f[k] = Turn(b, k, f[k - 1])
      OBVIOUS
    <2>1. f[k - 1] \in T
      <3> HIDE DEF T
      <3> QED
        BY <1>1
    <2> HIDE DEF T
    <2> QED
      BY <1>3, <2>1
  <1> DEFINE F(g) == [k \in 0..N |-> IF k = 0 THEN From(b) ELSE Turn(b, k, g[k - 1])]
             cursor == CHOOSE g : g = F(g)
  <1>5. f = F(f)
    <2> HIDE DEF T, N
    <2> QED
      BY <1>1, <1>3, <1>4
  <1>6. cursor = F(cursor)
    <2> HIDE DEF F
    <2> QED
      BY <1>5
  <1>7. cursor[0] = From(b) /\ \A k \in 1..N : cursor[k] = Turn(b, k, cursor[k - 1])
    <2> HIDE DEF cursor, N
    <2>1. \A k \in 0..N : F(cursor)[k] = IF k = 0 THEN From(b) ELSE Turn(b, k, cursor[k - 1])
      OBVIOUS
    <2> HIDE DEF F
    <2>2. \A k \in 0..N : cursor[k] = IF k = 0 THEN From(b) ELSE Turn(b, k, cursor[k - 1])
      BY <1>6, <2>1, Zenon
    <2> QED
      BY <1>1, <2>2
  <1>8. Pages(b) = [n \in 1..N |-> Block(cursor[n - 1], cursor[n], PageLines(b, n))]
    BY DEF Pages
  <1> QED
    <2> HIDE DEF cursor
    <2> QED
      BY <1>7, <1>8

\* The pages of a subtitle follow one another within its time.
LEMMA PagesFollow ==
    ASSUME NEW b \in CueSet, Room(b)
    PROVE  /\ Pages(b) \in Seq(BlockSet) /\ DOMAIN Pages(b) = 1..PageCount(b)
           /\ Related(Following, Pages(b))
           /\ \A n \in 1..PageCount(b) : /\ Pages(b)[n].lines = PageLines(b, n)
                                         /\ From(b) <= From(Pages(b)[n]) /\ To(Pages(b)[n]) <= To(b)
           /\ PageCount(b) = 1 => From(Pages(b)[1]) = From(b) /\ To(Pages(b)[1]) = To(b)
  <1> DEFINE N == PageCount(b)
  <1>1. N \in Nat \ {0} /\ From(b) \in Nat /\ To(b) \in Nat /\ To(b) - From(b) >= N
    BY PagesEnough, Clocks DEF Room
  <1>2. PICK f : /\ f[0] = From(b)
                 /\ \A n \in 1..N : f[n] = Turn(b, n, f[n - 1])
                 /\ Pages(b) = [n \in 1..N |-> Block(f[n - 1], f[n], PageLines(b, n))]
    BY PagesComputed
  <1> DEFINE S == {n \in 0..N : f[n] \in Int /\ From(b) <= f[n] /\ f[n] <= To(b) - (N - n) /\ (n > 0 => f[n - 1] < f[n])}
  <1> HIDE DEF N
  <1>3. 0 \in S
    BY <1>1, <1>2
  <1>4. \A n \in 1..N : n - 1 \in S => n \in S
    <2> SUFFICES ASSUME NEW n \in 1..N, n - 1 \in S PROVE n \in S
      OBVIOUS
    <2>1. f[n - 1] \in Int /\ From(b) <= f[n - 1] /\ f[n - 1] <= To(b) - (N - (n - 1)) /\ n \in 0..N
      OBVIOUS
    <2>2. Turn(b, n, f[n - 1]) \in Int /\ f[n - 1] < Turn(b, n, f[n - 1]) /\ Turn(b, n, f[n - 1]) <= To(b) - (N - n)
      BY <2>1, Turned DEF N
    <2>3. f[n] = Turn(b, n, f[n - 1])
      BY <1>2
    <2>4. f[n] \in Int /\ f[n - 1] < f[n] /\ f[n] <= To(b) - (N - n)
      BY <2>2, <2>3, Zenon
    <2>5. From(b) <= f[n]
      BY <2>1, <2>4, <1>1
    <2> QED
      BY <2>1, <2>4, <2>5
  <1>5. \A n \in 0..N : f[n] \in Int /\ From(b) <= f[n] /\ f[n] <= To(b) - (N - n) /\ (n > 0 => f[n - 1] < f[n])
    <2> HIDE DEF S
    <2>1. \A n \in 0..N : n \in S
      BY <1>1, <1>3, <1>4, Steps
    <2> QED
      BY <2>1 DEF S
  <1>6. ASSUME NEW n \in 1..N
        PROVE  /\ Pages(b)[n] \in BlockSet /\ Pages(b)[n].lines = PageLines(b, n)
               /\ From(Pages(b)[n]) = f[n - 1] /\ To(Pages(b)[n]) = f[n]
               /\ From(b) <= f[n - 1] /\ f[n] <= To(b)
    <2>1. n - 1 \in 0..N /\ n \in 0..N /\ n > 0
      BY <1>1
    <2>2. f[n - 1] \in Nat /\ f[n] \in Nat /\ f[n - 1] < f[n] /\ From(b) <= f[n - 1] /\ f[n] <= To(b)
      BY <1>1, <1>5, <2>1
    <2>3. PageLines(b, n) \in Seq(LineSet) \ {<<>>}
      BY PageHolds DEF N
    <2>4. Pages(b)[n] = Block(f[n - 1], f[n], PageLines(b, n))
      BY <1>2
    <2> QED
      BY <2>2, <2>3, <2>4, BlockFacts
  <1>7. DOMAIN Pages(b) = 1..N /\ Pages(b) \in Seq(BlockSet)
    <2>1. DOMAIN Pages(b) = 1..N /\ Pages(b) = [n \in 1..N |-> Pages(b)[n]]
      BY <1>2
    <2>2. Pages(b) \in [1..N -> BlockSet]
      BY <2>1, <1>6
    <2> QED
      BY <1>1, <2>1, <2>2
  <1>8. \A j, k \in 0..N : j <= k => f[j] <= f[k]
    <2> SUFFICES ASSUME NEW j \in 0..N PROVE \A k \in 0..N : j <= k => f[j] <= f[k]
      OBVIOUS
    <2> DEFINE A == {k \in 0..N : j <= k => f[j] <= f[k]}
    <2>1. 0 \in A
      <3>1. j <= 0 => j = 0
        OBVIOUS
      <3> QED
        BY <3>1, <1>1, <1>5
    <2>2. \A k \in 1..N : k - 1 \in A => k \in A
      <3> SUFFICES ASSUME NEW k \in 1..N, k - 1 \in A, j <= k PROVE f[j] <= f[k]
        BY <1>1
      <3>1. k - 1 \in 0..N /\ k \in 0..N /\ k > 0
        BY <1>1
      <3>2. f[k - 1] < f[k] /\ f[k - 1] \in Int /\ f[k] \in Int /\ f[j] \in Int
        BY <3>1, <1>5
      <3>3. CASE j = k
        BY <3>3, <3>2
      <3>4. CASE j <= k - 1
        BY <3>4, <3>2
      <3> QED
        BY <3>1, <3>3, <3>4
    <2> HIDE DEF A
    <2>3. \A k \in 0..N : k \in A
      BY <1>1, <2>1, <2>2, Steps
    <2> QED
      BY <2>3 DEF A
  <1>9. Related(Following, Pages(b))
    <2> SUFFICES ASSUME NEW j \in 1..N, NEW k \in 1..N, j < k PROVE <<Pages(b)[j], Pages(b)[k]>> \in Following
      BY <1>7 DEF Related
    <2>1. j \in 0..N /\ k - 1 \in 0..N /\ j <= k - 1
      BY <1>1
    <2>2. f[j] <= f[k - 1]
      BY <2>1, <1>8
    <2>3. Pages(b)[j] \in BlockSet /\ Pages(b)[k] \in BlockSet /\ To(Pages(b)[j]) = f[j] /\ From(Pages(b)[k]) = f[k - 1]
      BY <1>6
    <2> QED
      BY <2>2, <2>3 DEF Following
  <1>10. ASSUME N = 1 PROVE From(Pages(b)[1]) = From(b) /\ To(Pages(b)[1]) = To(b)
    <2>1. 1 \in 1..N /\ 1 - 1 = 0 /\ 1 = PageCount(b)
      BY <1>1, <1>10 DEF N
    <2>2. From(Pages(b)[1]) = f[1 - 1] /\ To(Pages(b)[1]) = f[1]
      BY <2>1, <1>6
    <2>3. f[1] = Turn(b, 1, f[1 - 1])
      BY <2>1, <1>2
    <2>4. Turn(b, 1, f[1 - 1]) = To(b)
      BY <2>1 DEF Turn
    <2> QED
      BY <2>1, <2>2, <2>3, <2>4, <1>2
  <1> QED
    BY <1>6, <1>7, <1>9, <1>10 DEF N

\* Transcripts of utterances that last at least a millisecond.
Timed(seq) == seq \in Seq(CueSet) /\ \A k \in DOMAIN seq : From(seq[k]) < To(seq[k])

\* Utterances that last.
LEMMA TimedFacts ==
    ASSUME NEW seq, Timed(seq)
    PROVE  /\ Len(seq) \in Nat /\ DOMAIN seq = 1..Len(seq)
           /\ \A k \in 1..Len(seq) : /\ seq[k] \in CueSet /\ From(seq[k]) \in Nat /\ To(seq[k]) \in Nat
                                     /\ From(seq[k]) < To(seq[k])
                                     /\ seq[k].lines \in Seq(LineSet) /\ seq[k].lines # <<>>
  <1>1. seq \in Seq(CueSet)
    BY DEF Timed
  <1>2. Len(seq) \in Nat /\ DOMAIN seq = 1..Len(seq) /\ \A k \in 1..Len(seq) : seq[k] \in CueSet
    BY <1>1
  <1>3. \A c \in CueSet : c.lines \in Seq(LineSet) /\ c.lines # <<>>
    BY DEF CueSet
  <1> QED
    BY <1>2, <1>3, Clocks DEF Timed

\* Slots last, and do not overlap.
LEMMA SlotFacts ==
    ASSUME NEW seq, Timed(seq)
    PROVE  /\ Points(seq) \in SUBSET Nat /\ Slots(seq) \in SUBSET (Nat \X Nat) /\ IsFiniteSet(Slots(seq))
           /\ \A s \in Slots(seq) : s[1] < s[2]
           /\ \A s, t \in Slots(seq) : s # t /\ Before(s, t) => s[2] <= t[1]
  <1> DEFINE n == Len(seq)
             P == Points(seq)
  <1>1. n \in Nat /\ DOMAIN seq = 1..n /\ \A k \in 1..n : From(seq[k]) \in Nat /\ To(seq[k]) \in Nat
    BY TimedFacts
  <1>2. P \in SUBSET Nat
    BY <1>1 DEF Points
  <1>3. IsFiniteSet(P)
    <2> DEFINE A == {From(seq[k]) : k \in 1..n}
               B == {To(seq[k]) : k \in 1..n}
    <2>1. IsFiniteSet(1..n)
      BY <1>1, FS_Interval
    <2>2. P = A \cup B
      BY <1>1 DEF Points
    <2>3. IsFiniteSet(A)
      <3>1. [k \in 1..n |-> From(seq[k])] \in Surjection(1..n, A)
        BY DEF Surjection
      <3> HIDE DEF A, n
      <3> QED
        BY <2>1, <3>1, FS_Surjection DEF ExistsSurjection
    <2>4. IsFiniteSet(B)
      <3>1. [k \in 1..n |-> To(seq[k])] \in Surjection(1..n, B)
        BY DEF Surjection
      <3> HIDE DEF B, n
      <3> QED
        BY <2>1, <3>1, FS_Surjection DEF ExistsSurjection
    <2> HIDE DEF A, B, P
    <2> QED
      BY <2>2, <2>3, <2>4, FS_Union
  <1>4. Slots(seq) \in SUBSET (P \X P)
    BY DEF Slots
  <1>5. \A s \in Slots(seq) : /\ s[1] \in P /\ s[2] \in P /\ s[1] < s[2] /\ s = <<s[1], s[2]>>
                              /\ \A p \in P : ~(s[1] < p /\ p < s[2])
    BY DEF Slots
  <1> HIDE DEF P
  <1>6. IsFiniteSet(Slots(seq))
    BY <1>3, <1>4, FS_Product, FS_Subset
  <1>7. ASSUME NEW s \in Slots(seq), NEW t \in Slots(seq), s # t, Before(s, t) PROVE s[2] <= t[1]
    <2>1. /\ s[1] \in Nat /\ s[2] \in Nat /\ t[1] \in Nat /\ t[2] \in Nat /\ s[1] < s[2] /\ t[1] < t[2]
          /\ t[1] \in P /\ t[2] \in P /\ s[2] \in P
      BY <1>2, <1>5
    <2>2. ~(s[1] < t[1] /\ t[1] < s[2]) /\ ~(s[1] < t[2] /\ t[2] < s[2]) /\ ~(t[1] < s[2] /\ s[2] < t[2])
      BY <1>5, <2>1
    <2>3. ~(s[1] = t[1] /\ s[2] = t[2])
      <3>1. s = <<s[1], s[2]>> /\ t = <<t[1], t[2]>>
        BY <1>5
      <3> QED
        BY <3>1, <1>7, Zenon
    <2>4. s[1] < t[1] \/ (s[1] = t[1] /\ s[2] <= t[2])
      BY <1>7 DEF Before
    <2> QED
      BY <2>1, <2>2, <2>3, <2>4
  <1>8. Slots(seq) \in SUBSET (Nat \X Nat)
    BY <1>2, <1>4
  <1> QED
    BY <1>2, <1>5, <1>6, <1>7, <1>8 DEF P

\* Whoever speaks from one point to another is heard in a slot between them.
LEMMA SlotThere ==
    ASSUME NEW seq, Timed(seq), NEW i \in DOMAIN seq, NEW p \in Points(seq), NEW q \in Points(seq),
           From(seq[i]) <= p, p < q, q <= To(seq[i])
    PROVE  \E s \in Slots(seq) : Active(seq[i], s) /\ s[1] = p /\ s[2] <= q
  <1> DEFINE P == Points(seq)
             L == {r \in P : p < r}
  <1>1. P \in SUBSET Nat
    BY SlotFacts
  <1>2. From(seq[i]) \in Nat /\ To(seq[i]) \in Nat
    BY TimedFacts
  <1> HIDE DEF P
  <1>3. p \in P /\ q \in P
    BY DEF P
  <1>4. L \in SUBSET Nat /\ q \in L
    BY <1>1, <1>3
  <1>5. PICK r \in L : \A x \in L : r <= x
    <2> HIDE DEF L
    <2>1. L # {}
      BY <1>4
    <2> QED
      BY <2>1, <1>4, Least
  <1>6. r \in P /\ p < r /\ r <= q /\ r \in Nat
    BY <1>1, <1>4, <1>5
  <1>7. \A x \in P : ~(p < x /\ x < r)
    <2> SUFFICES ASSUME NEW x \in P, p < x, x < r PROVE FALSE
      OBVIOUS
    <2>1. x \in L /\ x \in Nat
      BY <1>1
    <2> QED
      BY <2>1, <1>5, <1>6
  <1> DEFINE s == <<p, r>>
  <1>8. Active(seq[i], s)
    <2>1. s[1] = p /\ s[2] = r
      OBVIOUS
    <2> HIDE DEF s
    <2> QED
      BY <2>1, <1>1, <1>2, <1>3, <1>6 DEF Active
  <1>9. s \in Slots(seq)
    <2>1. s \in P \X P /\ s[1] = p /\ s[2] = r
      BY <1>3, <1>6
    <2> HIDE DEF s
    <2> QED
      BY <2>1, <1>6, <1>7, <1>8 DEF Slots, P
  <1> QED
    BY <1>6, <1>8, <1>9

\* What is shown in a slot is what everybody says who speaks in it.
LEMMA LinesThere ==
    ASSUME NEW seq, Timed(seq), NEW s \in Slots(seq)
    PROVE  /\ LinesAt(seq, s) \in Seq(LineSet) \ {<<>>}
           /\ \A x : x \in ToSet(LinesAt(seq, s)) <=>
                        \E k \in DOMAIN seq : Active(seq[k], s) /\ x \in ToSet(seq[k].lines)
  <1> DEFINE n == Len(seq)
             parts == [k \in DOMAIN seq |-> IF Active(seq[k], s) THEN seq[k].lines ELSE <<>>]
  <1>1. n \in Nat /\ DOMAIN seq = 1..n /\ \A k \in 1..n : seq[k].lines \in Seq(LineSet) /\ seq[k].lines # <<>>
    BY TimedFacts
  <1>2. LinesAt(seq, s) = FlattenSeq(parts)
    BY DEF LinesAt
  <1> HIDE DEF n
  <1>3. parts \in Seq(Seq(LineSet)) /\ DOMAIN parts = 1..n
    <2>1. \A k \in 1..n : parts[k] \in Seq(LineSet)
      BY <1>1
    <2>2. DOMAIN parts = 1..n /\ parts = [k \in 1..n |-> parts[k]]
      BY <1>1
    <2> HIDE DEF parts
    <2>3. parts \in [1..n -> Seq(LineSet)]
      BY <2>1, <2>2
    <2> QED
      BY <1>1, <2>2, <2>3
  <1>4. \A k \in 1..n : parts[k] = IF Active(seq[k], s) THEN seq[k].lines ELSE <<>>
    BY <1>1
  <1> HIDE DEF parts
  <1>5. FlattenSeq(parts) \in Seq(LineSet) /\ ToSet(FlattenSeq(parts)) = UNION {ToSet(parts[k]) : k \in DOMAIN parts}
    BY <1>3, Flattened
  <1>6. ToSet(<<>>) = {}
    BY DEF ToSet
  <1>7. \A x : x \in ToSet(LinesAt(seq, s)) <=>
                  \E k \in DOMAIN seq : Active(seq[k], s) /\ x \in ToSet(seq[k].lines)
    <2>1. \A x : x \in ToSet(LinesAt(seq, s)) <=> \E k \in 1..n : x \in ToSet(parts[k])
      BY <1>2, <1>3, <1>5
    <2> QED
      BY <2>1, <1>1, <1>4, <1>6
  <1>8. LinesAt(seq, s) # <<>>
    <2>1. PICK k \in DOMAIN seq : Active(seq[k], s)
      BY DEF Slots
    <2>2. seq[k].lines \in Seq(LineSet) /\ seq[k].lines # <<>>
      BY <1>1
    <2>3. seq[k].lines[1] \in ToSet(seq[k].lines)
      BY <2>2 DEF ToSet
    <2>4. seq[k].lines[1] \in ToSet(LinesAt(seq, s))
      BY <1>7, <2>1, <2>3
    <2> QED
      BY <2>4, <1>6
  <1> QED
    BY <1>2, <1>5, <1>7, <1>8

\* The sweep has a subtitle for each slot, in order.
LEMMA Swept ==
    ASSUME NEW seq, Timed(seq)
    PROVE  /\ Sweep(seq) \in Seq(BlockSet) /\ Related(Following, Sweep(seq))
           /\ \A n \in DOMAIN Sweep(seq) : \E s \in Slots(seq) :
                 From(Sweep(seq)[n]) = s[1] /\ To(Sweep(seq)[n]) = s[2] /\ Sweep(seq)[n].lines = LinesAt(seq, s)
           /\ \A s \in Slots(seq) : \E n \in DOMAIN Sweep(seq) :
                 From(Sweep(seq)[n]) = s[1] /\ To(Sweep(seq)[n]) = s[2] /\ Sweep(seq)[n].lines = LinesAt(seq, s)
  <1> DEFINE S == Slots(seq)
             slots == InOrder(S)
             w == Sweep(seq)
  <1>1. /\ S \in SUBSET (Nat \X Nat) /\ IsFiniteSet(S)
        /\ \A s \in S : s[1] < s[2]
        /\ \A s, t \in S : s # t /\ Before(s, t) => s[2] <= t[1]
    BY SlotFacts
  <1>2. \A s \in S : LinesAt(seq, s) \in Seq(LineSet) \ {<<>>}
    BY LinesThere
  <1>3. w = [n \in DOMAIN slots |-> Block(slots[n][1], slots[n][2], LinesAt(seq, slots[n]))]
    BY DEF Sweep
  <1>4. /\ slots \in Seq(S) /\ Len(slots) \in Nat /\ DOMAIN slots = 1..Len(slots)
        /\ \A s \in S : \E n \in DOMAIN slots : slots[n] = s
        /\ \A j, k \in DOMAIN slots : j < k => slots[j] # slots[k] /\ Before(slots[j], slots[k])
    <2> HIDE DEF S
    <2>1. S \in SUBSET (Int \X Int) /\ S \in SUBSET S
      BY <1>1
    <2>2. /\ slots \in Seq(S)
          /\ \A s \in S : \E n \in DOMAIN slots : slots[n] = s
          /\ \A j, k \in DOMAIN slots : j < k => slots[j] # slots[k] /\ Before(slots[j], slots[k])
      BY <1>1, <2>1, Ranked, Zenon
    <2> HIDE DEF slots
    <2> QED
      BY <2>2
  <1> HIDE DEF S, slots, w
  <1>5. \A n \in DOMAIN slots : slots[n] \in S
    BY <1>4
  <1>6. ASSUME NEW n \in DOMAIN slots
        PROVE  /\ w[n] \in BlockSet /\ w[n].lines = LinesAt(seq, slots[n])
               /\ From(w[n]) = slots[n][1] /\ To(w[n]) = slots[n][2]
    <2>1. slots[n] \in S
      BY <1>5
    <2>2. slots[n][1] \in Nat /\ slots[n][2] \in Nat /\ slots[n][1] < slots[n][2]
      BY <1>1, <2>1
    <2>3. LinesAt(seq, slots[n]) \in Seq(LineSet) \ {<<>>}
      BY <1>2, <2>1
    <2>4. w[n] = Block(slots[n][1], slots[n][2], LinesAt(seq, slots[n]))
      BY <1>3
    <2> QED
      BY <2>2, <2>3, <2>4, BlockFacts
  <1>7. w \in Seq(BlockSet) /\ DOMAIN w = DOMAIN slots
    <2>1. DOMAIN w = DOMAIN slots /\ w = [n \in DOMAIN slots |-> w[n]]
      BY <1>3
    <2>2. w \in [1..Len(slots) -> BlockSet]
      BY <2>1, <1>4, <1>6
    <2> QED
      BY <1>4, <2>1, <2>2
  <1>8. Related(Following, w)
    <2> SUFFICES ASSUME NEW j \in DOMAIN slots, NEW k \in DOMAIN slots, j < k PROVE <<w[j], w[k]>> \in Following
      BY <1>7 DEF Related
    <2>1. slots[j] \in S /\ slots[k] \in S /\ slots[j] # slots[k] /\ Before(slots[j], slots[k])
      BY <1>4, <1>5
    <2>2. slots[j][2] <= slots[k][1]
      BY <2>1, <1>1
    <2>3. w[j] \in BlockSet /\ w[k] \in BlockSet /\ To(w[j]) = slots[j][2] /\ From(w[k]) = slots[k][1]
      BY <1>6
    <2> QED
      BY <2>2, <2>3 DEF Following
  <1>9. \A n \in DOMAIN w : \E s \in S : From(w[n]) = s[1] /\ To(w[n]) = s[2] /\ w[n].lines = LinesAt(seq, s)
    BY <1>5, <1>6, <1>7
  <1>10. \A s \in S : \E n \in DOMAIN w : From(w[n]) = s[1] /\ To(w[n]) = s[2] /\ w[n].lines = LinesAt(seq, s)
    <2> SUFFICES ASSUME NEW s \in S PROVE \E n \in DOMAIN w : From(w[n]) = s[1] /\ To(w[n]) = s[2] /\ w[n].lines = LinesAt(seq, s)
      OBVIOUS
    <2>1. PICK n \in DOMAIN slots : slots[n] = s
      BY <1>4
    <2> QED
      BY <2>1, <1>6, <1>7
  <1> QED
    BY <1>7, <1>8, <1>9, <1>10 DEF S, w

\* Sorting leaves a transcript what it is.
LEMMA TimedSorted ==
    ASSUME NEW seq, Timed(seq)
    PROVE  Timed(ByStart(seq)) /\ ToSet(ByStart(seq)) = ToSet(seq)
  <1> DEFINE c == ByStart(seq)
  <1>1. seq \in Seq(CueSet) /\ \A k \in DOMAIN seq : From(seq[k]) < To(seq[k])
    BY DEF Timed
  <1>2. \A x \in CueSet : x.start \in Int
    BY DEF CueSet
  <1>3. \A k \in DOMAIN seq : seq[k].start \in Int
    BY <1>1, <1>2
  <1>4. c \in Seq(CueSet) /\ ToSet(c) = ToSet(seq)
    BY <1>1, <1>3, ByStartKeeps
  <1> HIDE DEF c
  <1>5. \A x \in ToSet(seq) : From(x) < To(x)
    BY <1>1 DEF ToSet
  <1>6. \A k \in DOMAIN c : c[k] \in ToSet(c)
    BY DEF ToSet
  <1>7. \A k \in DOMAIN c : From(c[k]) < To(c[k])
    BY <1>4, <1>5, <1>6
  <1>8. Timed(c)
    BY <1>4, <1>7 DEF Timed
  <1> QED
    BY <1>4, <1>8 DEF c

\* What is laid out are the pages of what is shown from slot to slot.
LEMMA LaidOut ==
    ASSUME NEW seq, Timed(seq), CanLayOut(seq)
    PROVE  /\ LayOut(seq) \in Seq(BlockSet) /\ Related(Following, LayOut(seq))
           /\ \A b \in ToSet(LayOut(seq)) :
                 /\ Len(b.lines) \in 1..MaxLines
                 /\ \E s \in Slots(ByStart(seq)) : /\ s[1] <= From(b) /\ To(b) <= s[2]
                                                   /\ ToSet(b.lines) \subseteq ToSet(LinesAt(ByStart(seq), s))
           /\ \A s \in Slots(ByStart(seq)) : \A x \in ToSet(LinesAt(ByStart(seq), s)) :
                 \E b \in ToSet(LayOut(seq)) : s[1] <= From(b) /\ To(b) <= s[2] /\ x \in ToSet(b.lines)
  <1> DEFINE c == ByStart(seq)
             w == Sweep(c)
             n == Len(w)
             parts == [k \in DOMAIN w |-> Pages(w[k])]
  <1>1. Timed(c)
    BY TimedSorted
  <1>2. LayOut(seq) = FlattenSeq(parts)
    BY DEF LayOut
  <1>3. \A k \in DOMAIN w : Room(w[k])
    BY DEF CanLayOut
  <1> HIDE DEF c
  <1>4. /\ w \in Seq(BlockSet) /\ Related(Following, w)
        /\ \A k \in DOMAIN w : \E s \in Slots(c) : From(w[k]) = s[1] /\ To(w[k]) = s[2] /\ w[k].lines = LinesAt(c, s)
        /\ \A s \in Slots(c) : \E k \in DOMAIN w : From(w[k]) = s[1] /\ To(w[k]) = s[2] /\ w[k].lines = LinesAt(c, s)
    BY <1>1, Swept
  <1> HIDE DEF w
  <1>5. n \in Nat /\ DOMAIN w = 1..n /\ \A k \in 1..n : w[k] \in BlockSet
    BY <1>4
  <1>6. BlockSet \subseteq CueSet
    BY DEF BlockSet
  <1>7. ASSUME NEW k \in 1..n
        PROVE  /\ w[k] \in CueSet /\ Room(w[k])
               /\ Pages(w[k]) \in Seq(BlockSet) /\ Related(Following, Pages(w[k]))
               /\ DOMAIN Pages(w[k]) = 1..PageCount(w[k])
               /\ \A p \in 1..PageCount(w[k]) : /\ Pages(w[k])[p].lines = PageLines(w[k], p)
                                                /\ From(w[k]) <= From(Pages(w[k])[p]) /\ To(Pages(w[k])[p]) <= To(w[k])
    <2>1. w[k] \in CueSet /\ Room(w[k])
      BY <1>3, <1>5, <1>6
    <2> QED
      BY <2>1, PagesFollow
  <1>8. DOMAIN parts = 1..n /\ parts \in Seq(Seq(BlockSet)) /\ \A k \in 1..n : parts[k] = Pages(w[k])
    <2>1. DOMAIN parts = 1..n /\ parts = [k \in 1..n |-> Pages(w[k])]
      BY <1>5
    <2>2. \A k \in 1..n : Pages(w[k]) \in Seq(BlockSet)
      BY <1>7
    <2> HIDE DEF parts, n
    <2>3. parts \in [1..n -> Seq(BlockSet)]
      BY <2>1, <2>2
    <2> QED
      BY <1>5, <2>1, <2>3
  <1> HIDE DEF n, parts
  <1>9. ASSUME NEW k \in 1..n, NEW b \in ToSet(parts[k])
        PROVE  /\ b \in BlockSet /\ From(w[k]) <= From(b) /\ To(b) <= To(w[k])
               /\ \E p \in 1..PageCount(w[k]) : b.lines = PageLines(w[k], p)
    <2>1. PICK p \in 1..PageCount(w[k]) : b = Pages(w[k])[p]
      BY <1>7, <1>8 DEF ToSet
    <2> DEFINE pages == Pages(w[k])
    <2>2. pages \in Seq(BlockSet) /\ p \in DOMAIN pages /\ b = pages[p]
      BY <1>7, <2>1
    <2>3. b \in BlockSet
      <3> HIDE DEF pages
      <3> QED
        BY <2>2
    <2> QED
      BY <2>1, <2>3, <1>7
  <1>10. /\ LayOut(seq) \in Seq(BlockSet)
         /\ ToSet(LayOut(seq)) = UNION {ToSet(parts[k]) : k \in 1..n}
         /\ Related(Following, LayOut(seq))
    <2>1. \A k \in 1..n : Related(Following, parts[k])
      BY <1>7, <1>8
    <2>2. ASSUME NEW j \in 1..n, NEW k \in 1..n, j < k PROVE ToSet(parts[j]) \X ToSet(parts[k]) \subseteq Following
      <3> SUFFICES ASSUME NEW x \in ToSet(parts[j]), NEW y \in ToSet(parts[k]) PROVE <<x, y>> \in Following
        OBVIOUS
      <3>1. x \in BlockSet /\ To(x) <= To(w[j]) /\ y \in BlockSet /\ From(w[k]) <= From(y)
        BY <1>9
      <3>2. <<w[j], w[k]>> \in Following
        BY <1>4, <1>5, <2>2 DEF Related
      <3>3. To(w[j]) <= From(w[k])
        BY <3>2 DEF Following
      <3>4. To(x) \in Nat /\ To(w[j]) \in Nat /\ From(w[k]) \in Nat /\ From(y) \in Nat
        BY <3>1, <1>5, <1>6, Clocks
      <3>5. To(x) <= From(y)
        BY <3>1, <3>3, <3>4
      <3> QED
        BY <3>1, <3>5 DEF Following
    <2> QED
      BY <1>2, <1>8, <2>1, <2>2, Flattened
  <1>11. ASSUME NEW b \in ToSet(LayOut(seq))
         PROVE  /\ Len(b.lines) \in 1..MaxLines
                /\ \E s \in Slots(c) : s[1] <= From(b) /\ To(b) <= s[2] /\ ToSet(b.lines) \subseteq ToSet(LinesAt(c, s))
    <2>1. PICK k \in 1..n : b \in ToSet(parts[k])
      BY <1>10
    <2>2. From(w[k]) <= From(b) /\ To(b) <= To(w[k]) /\ \E p \in 1..PageCount(w[k]) : b.lines = PageLines(w[k], p)
      BY <1>9, <2>1
    <2>3. PICK p \in 1..PageCount(w[k]) : b.lines = PageLines(w[k], p)
      BY <2>2
    <2>4. Len(b.lines) \in 1..MaxLines /\ ToSet(b.lines) \subseteq ToSet(w[k].lines)
      BY <1>7, <2>3, PageHolds
    <2>5. PICK s \in Slots(c) : From(w[k]) = s[1] /\ To(w[k]) = s[2] /\ w[k].lines = LinesAt(c, s)
      BY <1>4, <1>5
    <2> QED
      BY <2>2, <2>4, <2>5
  <1>12. ASSUME NEW s \in Slots(c), NEW x \in ToSet(LinesAt(c, s))
         PROVE  \E b \in ToSet(LayOut(seq)) : s[1] <= From(b) /\ To(b) <= s[2] /\ x \in ToSet(b.lines)
    <2>1. PICK k \in 1..n : From(w[k]) = s[1] /\ To(w[k]) = s[2] /\ w[k].lines = LinesAt(c, s)
      BY <1>4, <1>5
    <2>2. w[k] \in CueSet /\ x \in ToSet(w[k].lines)
      BY <1>7, <2>1
    <2>3. PICK p \in 1..PageCount(w[k]) : x \in ToSet(PageLines(w[k], p))
      BY <2>2, PageHolds
    <2> DEFINE b == Pages(w[k])[p]
    <2>4. b.lines = PageLines(w[k], p) /\ From(w[k]) <= From(b) /\ To(b) <= To(w[k]) /\ p \in DOMAIN Pages(w[k])
      BY <1>7
    <2>5. b \in ToSet(parts[k])
      BY <1>8, <2>4 DEF ToSet
    <2> HIDE DEF b
    <2>6. b \in ToSet(LayOut(seq))
      BY <1>10, <2>5
    <2> QED
      BY <2>1, <2>3, <2>4, <2>6
  <1> QED
    BY <1>10, <1>11, <1>12 DEF c

\* Everything said is shown when it is said, for all of its time.
LEMMA DialogueLaid ==
    ASSUME NEW seq, Timed(seq), CanLayOut(seq)
    PROVE  /\ \A b \in ToSet(LayOut(seq)) : \A x \in ToSet(b.lines) :
                 \E i \in DOMAIN seq : x \in ToSet(seq[i].lines) /\ From(seq[i]) <= From(b) /\ To(b) <= To(seq[i])
           /\ \A i, j \in DOMAIN seq : \A x \in ToSet(seq[i].lines) :
                 UpperOf(From(seq[i]), From(seq[j])) < LowerOf(To(seq[i]), To(seq[j])) =>
                    \E b \in ToSet(LayOut(seq)) :
                       /\ x \in ToSet(b.lines)
                       /\ UpperOf(From(seq[i]), From(seq[j])) <= From(b) /\ To(b) <= LowerOf(To(seq[i]), To(seq[j]))
  <1> DEFINE c == ByStart(seq)
             blks == ToSet(LayOut(seq))
  <1>1. Timed(c) /\ ToSet(c) = ToSet(seq)
    BY TimedSorted
  <1>2. /\ \A b \in blks : \E s \in Slots(c) : s[1] <= From(b) /\ To(b) <= s[2] /\ ToSet(b.lines) \subseteq ToSet(LinesAt(c, s))
        /\ \A s \in Slots(c) : \A x \in ToSet(LinesAt(c, s)) :
              \E b \in blks : s[1] <= From(b) /\ To(b) <= s[2] /\ x \in ToSet(b.lines)
        /\ \A b \in blks : b \in CueSet
    <2>1. LayOut(seq) \in Seq(BlockSet)
      BY LaidOut
    <2>2. \A b \in blks : b \in CueSet
      BY <2>1 DEF ToSet, BlockSet
    <2> QED
      BY <2>2, LaidOut
  <1> HIDE DEF c, blks
  <1>3. \A i \in DOMAIN seq : \E k \in DOMAIN c : c[k] = seq[i]
    BY <1>1 DEF ToSet
  <1>4. \A k \in DOMAIN c : \E i \in DOMAIN seq : c[k] = seq[i]
    BY <1>1 DEF ToSet
  <1>5. \A s \in Slots(c) : s[1] \in Nat /\ s[2] \in Nat
    BY <1>1, SlotFacts
  <1>6. \A i \in DOMAIN seq : From(seq[i]) \in Nat /\ To(seq[i]) \in Nat
    BY TimedFacts
  <1>7. ASSUME NEW b \in blks, NEW x \in ToSet(b.lines)
        PROVE  \E i \in DOMAIN seq : x \in ToSet(seq[i].lines) /\ From(seq[i]) <= From(b) /\ To(b) <= To(seq[i])
    <2>1. PICK s \in Slots(c) : s[1] <= From(b) /\ To(b) <= s[2] /\ x \in ToSet(LinesAt(c, s))
      BY <1>2
    <2>2. PICK k \in DOMAIN c : Active(c[k], s) /\ x \in ToSet(c[k].lines)
      BY <1>1, <2>1, LinesThere
    <2>3. PICK i \in DOMAIN seq : c[k] = seq[i]
      BY <1>4
    <2>4. From(seq[i]) <= s[1] /\ s[2] <= To(seq[i]) /\ x \in ToSet(seq[i].lines)
      BY <2>2, <2>3 DEF Active
    <2>5. From(b) \in Nat /\ To(b) \in Nat
      BY <1>2, Clocks
    <2> QED
      BY <2>1, <2>4, <2>5, <1>5, <1>6
  <1>8. ASSUME NEW i \in DOMAIN seq, NEW j \in DOMAIN seq, NEW x \in ToSet(seq[i].lines),
               UpperOf(From(seq[i]), From(seq[j])) < LowerOf(To(seq[i]), To(seq[j]))
        PROVE  \E b \in blks : /\ x \in ToSet(b.lines)
                               /\ UpperOf(From(seq[i]), From(seq[j])) <= From(b)
                               /\ To(b) <= LowerOf(To(seq[i]), To(seq[j]))
    <2> DEFINE p == UpperOf(From(seq[i]), From(seq[j]))
               q == LowerOf(To(seq[i]), To(seq[j]))
    <2>1. PICK k \in DOMAIN c : c[k] = seq[i]
      BY <1>3
    <2>2. PICK m \in DOMAIN c : c[m] = seq[j]
      BY <1>3
    <2>3. p \in Nat /\ q \in Nat /\ From(c[k]) <= p /\ p < q /\ q <= To(c[k])
      BY <1>6, <1>8, <2>1 DEF UpperOf, LowerOf
    <2>4. p \in Points(c)
      <3>1. p = From(c[k]) \/ p = From(c[m])
        BY <2>1, <2>2 DEF UpperOf
      <3> QED
        BY <3>1 DEF Points
    <2>5. q \in Points(c)
      <3>1. q = To(c[k]) \/ q = To(c[m])
        BY <2>1, <2>2 DEF LowerOf
      <3> QED
        BY <3>1 DEF Points
    <2> HIDE DEF p, q
    <2>6. PICK s \in Slots(c) : Active(c[k], s) /\ s[1] = p /\ s[2] <= q
      BY <1>1, <2>3, <2>4, <2>5, SlotThere
    <2>7. x \in ToSet(LinesAt(c, s))
      BY <1>1, <2>1, <2>6, LinesThere
    <2>8. PICK b \in blks : s[1] <= From(b) /\ To(b) <= s[2] /\ x \in ToSet(b.lines)
      BY <1>2, <2>7
    <2>9. From(b) \in Nat /\ To(b) \in Nat
      BY <1>2, Clocks
    <2>10. p <= From(b) /\ To(b) <= q
      BY <2>3, <2>6, <2>8, <2>9, <1>5
    <2> QED
      BY <2>8, <2>10 DEF p, q
  <1> QED
    BY <1>7, <1>8 DEF blks

\* Of sequences that are all empty but one, that one is left.
LEMMA FlattenLone ==
    ASSUME NEW T, NEW parts \in Seq(Seq(T)), NEW k \in DOMAIN parts,
           \A m \in DOMAIN parts : m # k => parts[m] = <<>>
    PROVE  FlattenSeq(parts) = parts[k]
  <1> DEFINE n == Len(parts)
  <1>1. n \in Nat /\ DOMAIN parts = 1..n /\ k \in 1..n /\ \A m \in 1..n : parts[m] \in Seq(T)
    OBVIOUS
  <1>2. PICK f : /\ f[0] = <<>> /\ \A m \in 0..n : f[m] \in Seq(T)
                 /\ \A m \in 1..n : f[m] = f[m - 1] \o parts[m]
                 /\ FlattenSeq(parts) = f[n]
    BY FlattenComputed
  <1>3. \A s \in Seq(T) : <<>> \o s = s /\ s \o <<>> = s
    OBVIOUS
  <1> HIDE DEF n
  <1> DEFINE S == {m \in 0..n : f[m] = IF m < k THEN <<>> ELSE parts[k]}
  <1>4. 0 \in S
    BY <1>1, <1>2
  <1>5. \A m \in 1..n : m - 1 \in S => m \in S
    <2> SUFFICES ASSUME NEW m \in 1..n, m - 1 \in S PROVE m \in S
      OBVIOUS
    <2>a. m \in 0..n /\ f[m - 1] = IF m - 1 < k THEN <<>> ELSE parts[k]
      OBVIOUS
    <2> HIDE DEF S
    <2>b. parts[m] \in Seq(T) /\ parts[k] \in Seq(T)
      BY <1>1, Zenon
    <2>c. f[m] = f[m - 1] \o parts[m]
      BY <1>2, Zenon
    <2>1. f[m] = f[m - 1] \o parts[m] /\ parts[m] \in Seq(T) /\ parts[k] \in Seq(T) /\ m \in 0..n
      BY <2>a, <2>b, <2>c, Zenon
    <2> USE DEF S
    <2>2. CASE m < k
      <3>0. m # k /\ m - 1 < k /\ m \in DOMAIN parts
        BY <2>2, <1>1
      <3>1. f[m - 1] = <<>> /\ parts[m] = <<>>
        BY <3>0, <2>a, Zenon
      <3>2. f[m] = <<>>
        BY <2>1, <3>1, <1>3
      <3> QED
        BY <2>1, <2>2, <3>2
    <2>3. CASE m = k
      <3>1. f[m - 1] = <<>> /\ parts[m] = parts[k]
        BY <2>3, <1>1
      <3>2. f[m] = parts[k]
        BY <2>1, <3>1, <1>3
      <3>3. ~(m < k)
        BY <2>3, <1>1
      <3> QED
        BY <2>1, <3>2, <3>3
    <2>4. CASE m > k
      <3>1. ~(m - 1 < k) /\ ~(m < k) /\ m # k
        BY <2>4, <1>1
      <3>2. f[m - 1] = parts[k] /\ parts[m] = <<>>
        BY <3>1, <1>1
      <3>3. f[m] = parts[k]
        BY <2>1, <3>2, <1>3
      <3> QED
        BY <2>1, <3>1, <3>3
    <2> QED
      BY <1>1, <2>2, <2>3, <2>4
  <1> HIDE DEF S
  <1>6. n \in S
    <2>1. \A m \in 0..n : m \in S
      BY <1>1, <1>4, <1>5, Steps
    <2> QED
      BY <2>1, <1>1
  <1>7. f[n] = parts[k]
    BY <1>1, <1>6 DEF S
  <1> QED
    BY <1>2, <1>7

\* A sequence in parts of one element each.
LEMMA FlattenSingles ==
    ASSUME NEW T, NEW seq \in Seq(T)
    PROVE  FlattenSeq([k \in DOMAIN seq |-> <<seq[k]>>]) = seq
  <1> DEFINE n == Len(seq)
             parts == [k \in DOMAIN seq |-> <<seq[k]>>]
  <1>1. n \in Nat /\ DOMAIN seq = 1..n /\ \A k \in 1..n : seq[k] \in T
    OBVIOUS
  <1>2. parts \in Seq(Seq(T)) /\ DOMAIN parts = 1..n /\ Len(parts) = n /\ \A k \in 1..n : parts[k] = <<seq[k]>>
    <2>1. \A k \in 1..n : <<seq[k]>> \in Seq(T)
      BY <1>1
    <2>2. DOMAIN parts = 1..n /\ parts = [k \in 1..n |-> <<seq[k]>>]
      BY <1>1
    <2> HIDE DEF parts, n
    <2>3. parts \in [1..n -> Seq(T)]
      BY <2>1, <2>2
    <2> QED
      BY <1>1, <2>2, <2>3
  <1> HIDE DEF parts, n
  <1>3. PICK f : /\ f[0] = <<>> /\ \A m \in 0..n : f[m] \in Seq(T)
                 /\ \A m \in 1..n : f[m] = f[m - 1] \o parts[m]
                 /\ FlattenSeq(parts) = f[n]
    BY <1>2, FlattenComputed
  <1> DEFINE S == {m \in 0..n : Len(f[m]) = m /\ \A j \in 1..m : f[m][j] = seq[j]}
  <1>4. 0 \in S
    BY <1>1, <1>3
  <1>5. \A m \in 1..n : m - 1 \in S => m \in S
    <2> SUFFICES ASSUME NEW m \in 1..n, m - 1 \in S PROVE m \in S
      OBVIOUS
    <2>a. m \in 0..n /\ m - 1 \in 0..n
      BY <1>1
    <2>b. f[m - 1] \in Seq(T) /\ f[m] = f[m - 1] \o parts[m] /\ parts[m] = <<seq[m]>>
      BY <1>2, <1>3, <2>a, Zenon
    <2>c. <<seq[m]>> \in Seq(T)
      BY <1>1
    <2>1. f[m] = f[m - 1] \o <<seq[m]>> /\ f[m - 1] \in Seq(T) /\ <<seq[m]>> \in Seq(T) /\ m \in 0..n
      BY <2>a, <2>b, <2>c, Zenon
    <2>2. Len(f[m - 1]) = m - 1 /\ \A j \in 1..(m - 1) : f[m - 1][j] = seq[j]
      OBVIOUS
    <2> DEFINE s == f[m - 1]
               t == <<seq[m]>>
    <2>3. Len(t) = 1 /\ t[1] = seq[m]
      OBVIOUS
    <2>4. s \in Seq(T) /\ t \in Seq(T) /\ f[m] = s \o t /\ Len(s) = m - 1 /\ \A j \in 1..(m - 1) : s[j] = seq[j]
      BY <2>1, <2>2
    <2> HIDE DEF s, t, S
    <2>d. s \in Seq(T) /\ t \in Seq(T)
      BY <2>4
    <2>5. /\ Len(s \o t) = Len(s) + Len(t)
          /\ \A k \in 1..Len(s) : (s \o t)[k] = s[k]
          /\ \A k \in 1..Len(t) : (s \o t)[Len(s) + k] = t[k]
      <3>1. \A p, q \in Seq(T) : /\ Len(p \o q) = Len(p) + Len(q)
                                 /\ \A k \in 1..Len(p) : (p \o q)[k] = p[k]
                                 /\ \A k \in 1..Len(q) : (p \o q)[Len(p) + k] = q[k]
        BY Joined
      <3> QED
        BY <2>d, <3>1
    <2>6. Len(f[m]) = m /\ f[m][m] = seq[m] /\ \A j \in 1..(m - 1) : f[m][j] = seq[j]
      <3>1. Len(s) + Len(t) = m /\ Len(s) + 1 = m /\ 1 \in 1..Len(t)
        BY <2>3, <2>4
      <3>2. Len(s \o t) = m /\ (s \o t)[m] = t[1]
        BY <2>5, <3>1
      <3> QED
        BY <2>3, <2>4, <2>5, <3>2
    <2>7. \A j \in 1..m : f[m][j] = seq[j]
      BY <2>6
    <2> QED
      BY <2>1, <2>6, <2>7 DEF S
  <1> HIDE DEF S
  <1>6. n \in S
    <2>1. \A m \in 0..n : m \in S
      BY <1>1, <1>4, <1>5, Steps
    <2> QED
      BY <2>1, <1>1
  <1>7. f[n] \in Seq(T) /\ Len(f[n]) = n /\ \A j \in 1..n : f[n][j] = seq[j]
    BY <1>1, <1>3, <1>6 DEF S
  <1>8. Len(seq) = n
    BY DEF n
  <1>9. f[n] = seq
    <2> DEFINE g == f[n]
    <2>1. g \in Seq(T) /\ Len(g) = n /\ \A j \in 1..n : g[j] = seq[j]
      BY <1>7
    <2> HIDE DEF g
    <2>2. g = seq
      BY <2>1, <1>8
    <2> QED
      BY <2>2 DEF g
  <1> QED
    BY <1>3, <1>9 DEF parts

\* A subtitle that fits is its own page.
LEMMA OnePage ==
    ASSUME NEW b \in BlockSet, Len(b.lines) <= MaxLines
    PROVE  Room(b) /\ Pages(b) = <<b>>
  <1>1. b \in CueSet /\ From(b) < To(b) /\ From(b) \in Nat /\ To(b) \in Nat
    BY Clocks DEF BlockSet
  <1>2. PageCount(b) = 1 /\ Len(b.lines) \in Nat \ {0}
    BY <1>1, PagesEnough
  <1>3. Room(b)
    BY <1>1, <1>2 DEF Room
  <1> DEFINE pages == Pages(b)
  <1>4. /\ pages \in Seq(BlockSet) /\ DOMAIN pages = 1..1
        /\ pages[1].lines = PageLines(b, 1) /\ From(pages[1]) = From(b) /\ To(pages[1]) = To(b)
    <2>1. 1 \in 1..PageCount(b)
      BY <1>2
    <2> QED
      BY <1>1, <1>2, <1>3, <2>1, PagesFollow
  <1>5. PageLines(b, 1) = b.lines
    <2> DEFINE s == b.lines
    <2>1. s \in Seq(LineSet) /\ Len(s) \in Nat /\ Len(s) <= MaxLines /\ MaxLines \in Nat
      BY <1>1, LayoutScale DEF CueSet
    <2>2. (1 - 1) * MaxLines + 1 = 1 /\ LowerOf(1 * MaxLines, Len(s)) = Len(s)
      BY <2>1 DEF LowerOf
    <2>3. PageLines(b, 1) = SubSeq(s, (1 - 1) * MaxLines + 1, LowerOf(1 * MaxLines, Len(s)))
      BY DEF PageLines
    <2> HIDE DEF s
    <2>4. SubSeq(s, 1, Len(s)) = s
      BY <2>1
    <2>5. PageLines(b, 1) = s
      BY <2>2, <2>3, <2>4, Zenon
    <2> QED
      BY <2>5 DEF s
  <1> HIDE DEF pages
  <1>6. pages[1] = b
    <2>1. pages[1] \in BlockSet
      <3>1. pages \in Seq(BlockSet) /\ 1 \in DOMAIN pages
        BY <1>4
      <3> QED
        BY <3>1
    <2> QED
      BY <2>1, <1>4, <1>5, BlockItself
  <1>7. pages = <<b>>
    <2>1. Len(pages) = 1
      BY <1>4
    <2> QED
      BY <2>1, <1>4, <1>6
  <1> QED
    BY <1>3, <1>7 DEF pages

\* Subtitles that fit and follow one another.
Fitting(seq) == /\ seq \in Seq(BlockSet) /\ Related(Following, seq)
                /\ \A k \in DOMAIN seq : Len(seq[k].lines) <= MaxLines

\* Subtitles that follow one another and have no line too many.
LEMMA FittingFacts ==
    ASSUME NEW seq, Fitting(seq)
    PROVE  /\ Len(seq) \in Nat /\ DOMAIN seq = 1..Len(seq) /\ seq = [k \in 1..Len(seq) |-> seq[k]]
           /\ \A k \in 1..Len(seq) : /\ seq[k] \in BlockSet /\ seq[k] \in CueSet /\ Len(seq[k].lines) <= MaxLines
                                     /\ From(seq[k]) \in Nat /\ To(seq[k]) \in Nat /\ From(seq[k]) < To(seq[k])
           /\ \A j, k \in 1..Len(seq) : j < k => To(seq[j]) <= From(seq[k])
           /\ Timed(seq)
  <1>1. seq \in Seq(BlockSet)
    BY DEF Fitting
  <1>2. Len(seq) \in Nat /\ DOMAIN seq = 1..Len(seq) /\ seq = [k \in 1..Len(seq) |-> seq[k]] /\ \A k \in 1..Len(seq) : seq[k] \in BlockSet
    BY <1>1
  <1>3. \A b \in BlockSet : b \in CueSet /\ From(b) < To(b)
    BY DEF BlockSet
  <1>4. ASSUME NEW k \in 1..Len(seq)
        PROVE  /\ seq[k] \in BlockSet /\ seq[k] \in CueSet /\ Len(seq[k].lines) <= MaxLines
               /\ From(seq[k]) \in Nat /\ To(seq[k]) \in Nat /\ From(seq[k]) < To(seq[k])
    BY <1>2, <1>3, Clocks DEF Fitting
  <1>5. ASSUME NEW j \in 1..Len(seq), NEW k \in 1..Len(seq), j < k PROVE To(seq[j]) <= From(seq[k])
    <2>1. <<seq[j], seq[k]>> \in Following
      BY <1>2, <1>5 DEF Fitting, Related
    <2> QED
      BY <2>1 DEF Following
  <1>6. Timed(seq)
    <2>1. BlockSet \subseteq CueSet
      BY <1>3
    <2>2. seq \in Seq(CueSet)
      BY <1>1, <2>1
    <2> QED
      BY <2>2, <1>2, <1>4 DEF Timed
  <1> QED
    BY <1>2, <1>4, <1>5, <1>6

\* They are sorted.
LEMMA FittingSorted ==
    ASSUME NEW seq, Fitting(seq)
    PROVE  ByStart(seq) = seq
  <1> DEFINE n == Len(seq)
  <1>1. /\ n \in Nat /\ DOMAIN seq = 1..n /\ seq \in Seq(BlockSet)
        /\ \A k \in 1..n : seq[k] \in BlockSet /\ From(seq[k]) \in Nat /\ To(seq[k]) \in Nat /\ From(seq[k]) < To(seq[k])
        /\ \A j, k \in 1..n : j < k => To(seq[j]) <= From(seq[k])
    BY FittingFacts DEF Fitting
  <1> HIDE DEF n
  <1>2. \A b \in BlockSet : b.start = 2 * From(b)
    BY DEF BlockSet
  <1>3. \A k \in 1..n : seq[k].start = 2 * From(seq[k])
    BY <1>1, <1>2
  <1>4. \A k \in DOMAIN seq : seq[k].start \in Int
    BY <1>1, <1>3
  <1>5. \A j, k \in DOMAIN seq : j < k => seq[j].start <= seq[k].start
    <2> SUFFICES ASSUME NEW j \in 1..n, NEW k \in 1..n, j < k PROVE seq[j].start <= seq[k].start
      BY <1>1
    <2>1. From(seq[j]) <= From(seq[k]) /\ From(seq[j]) \in Nat /\ From(seq[k]) \in Nat
      BY <1>1
    <2> QED
      BY <2>1, <1>3
  <1> QED
    BY <1>1, <1>4, <1>5, ByStartAlready

\* Their slots are their times.
LEMMA FittingSlots ==
    ASSUME NEW seq, Fitting(seq)
    PROVE  /\ InOrder(Slots(seq)) = [k \in 1..Len(seq) |-> <<From(seq[k]), To(seq[k])>>]
           /\ \A m, k \in 1..Len(seq) : Active(seq[m], <<From(seq[k]), To(seq[k])>>) <=> m = k
  <1> DEFINE n == Len(seq)
             a(k) == From(seq[k])
             z(k) == To(seq[k])
             f == [k \in 1..n |-> <<a(k), z(k)>>]
  <1>1. /\ n \in Nat /\ DOMAIN seq = 1..n
        /\ \A k \in 1..n : a(k) \in Nat /\ z(k) \in Nat /\ a(k) < z(k)
        /\ \A j, k \in 1..n : j < k => z(j) <= a(k)
    BY FittingFacts
  <1>2. Points(seq) = {a(k) : k \in 1..n} \cup {z(k) : k \in 1..n}
    BY <1>1 DEF Points
  <1>3. \A m \in 1..n : \A s : Active(seq[m], s) <=> a(m) <= s[1] /\ s[2] <= z(m)
    BY DEF Active
  <1>4. \A x : x \in ToSet(f) <=> \E k \in 1..n : x = <<a(k), z(k)>>
    BY DEF ToSet
  <1>5. DOMAIN f = 1..n /\ \A k \in 1..n : f[k] = <<a(k), z(k)>>
    OBVIOUS
  <1>6. f \in Seq(Int \X Int)
    <2>1. \A k \in 1..n : <<a(k), z(k)>> \in Int \X Int
      BY <1>1
    <2> HIDE DEF n, a, z
    <2> QED
      BY <1>1, <2>1
  <1> HIDE DEF n, a, z, f
  <1>7. ASSUME NEW k \in 1..n, NEW x \in Points(seq), a(k) < x, x < z(k) PROVE FALSE
    <2>1. PICK m \in 1..n : x = a(m) \/ x = z(m)
      BY <1>2
    <2>2. /\ a(m) \in Nat /\ z(m) \in Nat /\ a(m) < z(m) /\ a(k) \in Nat /\ z(k) \in Nat
          /\ m < k => z(m) <= a(k)
          /\ k < m => z(k) <= a(m)
      BY <1>1
    <2>3. m = k \/ m < k \/ k < m
      BY <1>1
    <2> QED
      BY <1>7, <2>1, <2>2, <2>3
  <1>8. ASSUME NEW m \in 1..n, NEW k \in 1..n, a(m) <= a(k), z(k) <= z(m) PROVE m = k
    <2>1. /\ a(m) \in Nat /\ z(m) \in Nat /\ a(m) < z(m) /\ a(k) \in Nat /\ z(k) \in Nat /\ a(k) < z(k)
          /\ m < k => z(m) <= a(k)
          /\ k < m => z(k) <= a(m)
      BY <1>1
    <2>2. m = k \/ m < k \/ k < m
      BY <1>1
    <2> QED
      BY <1>8, <2>1, <2>2
  <1>9. ASSUME NEW k \in 1..n PROVE <<a(k), z(k)>> \in Slots(seq)
    <2> DEFINE s == <<a(k), z(k)>>
    <2>1. s[1] = a(k) /\ s[2] = z(k)
      OBVIOUS
    <2>2. s \in Points(seq) \X Points(seq)
      BY <1>2
    <2> HIDE DEF s
    <2>3. Active(seq[k], s)
      <3>1. Active(seq[k], s) <=> a(k) <= s[1] /\ s[2] <= z(k)
        BY <1>3, Zenon
      <3>2. a(k) \in Nat /\ z(k) \in Nat
        BY <1>1
      <3>3. a(k) <= s[1] /\ s[2] <= z(k)
        BY <2>1, <3>2
      <3> QED
        BY <3>1, <3>3
    <2>4. s[1] < s[2] /\ ~\E p \in Points(seq) : s[1] < p /\ p < s[2]
      BY <2>1, <1>1, <1>7
    <2>5. s \in Slots(seq)
      BY <1>1, <2>2, <2>3, <2>4 DEF Slots
    <2> QED
      BY <2>5 DEF s
  <1>10. ASSUME NEW s \in Slots(seq) PROVE \E k \in 1..n : s = <<a(k), z(k)>>
    <2>1. s \in Points(seq) \X Points(seq) /\ s[1] < s[2] /\ ~\E p \in Points(seq) : s[1] < p /\ p < s[2]
      BY DEF Slots
    <2>2. PICK k \in 1..n : Active(seq[k], s)
      BY <1>1 DEF Slots
    <2>3. a(k) <= s[1] /\ s[2] <= z(k) /\ a(k) \in Nat /\ z(k) \in Nat /\ a(k) < z(k)
      BY <2>2, <1>1, <1>3
    <2>4. s[1] \in Points(seq) /\ s[2] \in Points(seq) /\ s = <<s[1], s[2]>>
      BY <2>1
    <2>5. Points(seq) \subseteq Nat
      BY <1>1, <1>2
    <2>6. ~(a(k) < s[1] /\ s[1] < z(k)) /\ ~(a(k) < s[2] /\ s[2] < z(k))
      BY <2>4, <1>7
    <2>7. s[1] = a(k) /\ s[2] = z(k)
      BY <2>1, <2>3, <2>4, <2>5, <2>6
    <2>8. s = <<a(k), z(k)>>
      BY <2>4, <2>7, Zenon
    <2> QED
      BY <2>8
  <1>11. Slots(seq) = ToSet(f)
    BY <1>4, <1>9, <1>10
  <1>12. \A j, k \in DOMAIN f : j < k => f[j] # f[k] /\ Before(f[j], f[k])
    <2> SUFFICES ASSUME NEW j \in 1..n, NEW k \in 1..n, j < k PROVE f[j] # f[k] /\ Before(f[j], f[k])
      BY <1>5
    <2>1. f[j] = <<a(j), z(j)>> /\ f[k] = <<a(k), z(k)>>
      BY <1>5
    <2>2. a(j) < a(k) /\ a(j) \in Nat /\ a(k) \in Nat
      BY <1>1
    <2>3. f[j][1] = a(j) /\ f[k][1] = a(k)
      BY <2>1
    <2> QED
      BY <2>2, <2>3 DEF Before
  <1>13. InOrder(ToSet(f)) = f
    BY <1>6, <1>12, InOrderAlready
  <1>14. ASSUME NEW m \in 1..n, NEW k \in 1..n PROVE Active(seq[m], <<a(k), z(k)>>) <=> m = k
    <2> DEFINE s == <<a(k), z(k)>>
    <2>1. s[1] = a(k) /\ s[2] = z(k)
      OBVIOUS
    <2> HIDE DEF s
    <2>2. Active(seq[m], s) <=> m = k
      <3>1. a(k) \in Nat /\ z(k) \in Nat
        BY <1>1
      <3> QED
        BY <2>1, <3>1, <1>3, <1>8
    <2> QED
      BY <2>2 DEF s
  <1> QED
    BY <1>11, <1>13, <1>14 DEF f, n, a, z

\* Laid out again, they are what they were.
LEMMA LaidAgain ==
    ASSUME NEW seq, Fitting(seq)
    PROVE  CanLayOut(seq) /\ LayOut(seq) = seq
  <1> DEFINE n == Len(seq)
             slot(k) == <<From(seq[k]), To(seq[k])>>
             w == Sweep(seq)
  <1>1. /\ n \in Nat /\ DOMAIN seq = 1..n /\ seq = [k \in 1..n |-> seq[k]]
        /\ \A k \in 1..n : /\ seq[k] \in BlockSet /\ seq[k] \in CueSet /\ Len(seq[k].lines) <= MaxLines
                           /\ From(seq[k]) < To(seq[k])
    BY FittingFacts
  <1>2. ByStart(seq) = seq
    BY FittingSorted
  <1>3. InOrder(Slots(seq)) = [k \in 1..n |-> slot(k)] /\ \A m, k \in 1..n : Active(seq[m], slot(k)) <=> m = k
    BY FittingSlots
  <1>4. w = [k \in 1..n |-> Block(From(seq[k]), To(seq[k]), LinesAt(seq, slot(k)))]
    <2> DEFINE slots == InOrder(Slots(seq))
    <2>1. w = [k \in DOMAIN slots |-> Block(slots[k][1], slots[k][2], LinesAt(seq, slots[k]))]
      BY DEF Sweep
    <2>2. DOMAIN slots = 1..n /\ \A k \in 1..n : slots[k] = slot(k) /\ slots[k][1] = From(seq[k]) /\ slots[k][2] = To(seq[k])
      BY <1>3
    <2> HIDE DEF slots, w, slot
    <2> QED
      BY <2>1, <2>2
  <1> HIDE DEF n, slot, w
  <1>5. ASSUME NEW k \in 1..n PROVE LinesAt(seq, slot(k)) = seq[k].lines
    <2> DEFINE parts == [m \in DOMAIN seq |-> IF Active(seq[m], slot(k)) THEN seq[m].lines ELSE <<>>]
    <2>1. LinesAt(seq, slot(k)) = FlattenSeq(parts)
      BY DEF LinesAt
    <2>2. \A b \in CueSet : b.lines \in Seq(LineSet)
      BY DEF CueSet
    <2>3. DOMAIN parts = 1..n /\ \A m \in 1..n : parts[m] = IF m = k THEN seq[m].lines ELSE <<>>
      BY <1>1, <1>3
    <2>4. parts = [m \in 1..n |-> parts[m]]
      BY <1>1
    <2> HIDE DEF parts
    <2>5. \A m \in 1..n : parts[m] \in Seq(LineSet)
      <3>1. \A m \in 1..n : seq[m].lines \in Seq(LineSet)
        BY <1>1, <2>2
      <3>2. <<>> \in Seq(LineSet)
        OBVIOUS
      <3> QED
        BY <2>3, <3>1, <3>2
    <2>6. parts \in Seq(Seq(LineSet))
      <3>1. parts \in [1..n -> Seq(LineSet)]
        BY <2>4, <2>5
      <3> QED
        BY <1>1, <3>1
    <2>7. FlattenSeq(parts) = parts[k]
      <3>1. k \in DOMAIN parts /\ \A m \in DOMAIN parts : m # k => parts[m] = <<>>
        BY <2>3
      <3> QED
        BY <2>6, <3>1, FlattenLone
    <2> QED
      BY <2>1, <2>3, <2>7
  <1>6. w = seq
    <2>1. \A k \in 1..n : Block(From(seq[k]), To(seq[k]), LinesAt(seq, slot(k))) = seq[k]
      <3> SUFFICES ASSUME NEW k \in 1..n PROVE Block(From(seq[k]), To(seq[k]), LinesAt(seq, slot(k))) = seq[k]
        OBVIOUS
      <3>1. Block(From(seq[k]), To(seq[k]), seq[k].lines) = seq[k]
        BY <1>1, BlockItself
      <3> QED
        BY <3>1, <1>5, Zenon
    <2>2. w = [k \in 1..n |-> seq[k]]
      BY <1>4, <2>1
    <2> QED
      BY <1>1, <2>2, Zenon
  <1>7. \A k \in 1..n : Room(seq[k]) /\ Pages(seq[k]) = <<seq[k]>>
    BY <1>1, OnePage
  <1>8. Sweep(ByStart(seq)) = seq
    BY <1>2, <1>6, Zenon DEF w
  <1>9. CanLayOut(seq)
    <2>1. \A k \in DOMAIN seq : From(seq[k]) < To(seq[k]) /\ Room(seq[k])
      BY <1>1, <1>7
    <2> QED
      BY <2>1, <1>8, Zenon DEF CanLayOut
  <1>10. LayOut(seq) = seq
    <2>1. LayOut(seq) = FlattenSeq([k \in DOMAIN seq |-> Pages(seq[k])])
      BY <1>8 DEF LayOut
    <2>2. [k \in DOMAIN seq |-> Pages(seq[k])] = [k \in DOMAIN seq |-> <<seq[k]>>]
      BY <1>1, <1>7
    <2>3. FlattenSeq([k \in DOMAIN seq |-> <<seq[k]>>]) = seq
      <3>1. seq \in Seq(BlockSet)
        BY DEF Fitting
      <3> QED
        BY <3>1, FlattenSingles
    <2> QED
      BY <2>1, <2>2, <2>3, Zenon
  <1> QED
    BY <1>9, <1>10

\* They can be reviewed.
LEMMA FittingReviewable ==
    ASSUME NEW seq, Fitting(seq), seq # <<>>, NEW slack \in Nat,
           \A k \in DOMAIN seq : seq[k].end <= Duration + Leeway
    PROVE  Reviewable(seq, slack)
  <1> DEFINE n == Len(seq)
  <1>1. /\ n \in Nat /\ DOMAIN seq = 1..n
        /\ \A k \in 1..n : /\ seq[k] \in BlockSet /\ Len(seq[k].lines) <= MaxLines
                           /\ From(seq[k]) \in Nat /\ To(seq[k]) \in Nat /\ From(seq[k]) < To(seq[k])
        /\ \A j, k \in 1..n : j < k => To(seq[j]) <= From(seq[k])
    BY FittingFacts
  <1>2. \A b \in BlockSet : b.start = 2 * From(b) /\ b.end = 2 * To(b)
    BY DEF BlockSet
  <1> HIDE DEF n
  <1>3. ASSUME NEW k \in 1..n PROVE seq[k].start < seq[k].end
    <2>1. seq[k].start = 2 * From(seq[k]) /\ seq[k].end = 2 * To(seq[k])
      BY <1>1, <1>2
    <2> QED
      BY <2>1, <1>1
  <1>4. ASSUME NEW k \in 1..n, k > 1 PROVE seq[k].start >= seq[k - 1].end - slack
    <2>1. k - 1 \in 1..n /\ k - 1 < k
      BY <1>1, <1>4
    <2>2. To(seq[k - 1]) <= From(seq[k]) /\ To(seq[k - 1]) \in Nat /\ From(seq[k]) \in Nat
      BY <1>1, <2>1
    <2>3. seq[k].start = 2 * From(seq[k]) /\ seq[k - 1].end = 2 * To(seq[k - 1])
      BY <1>1, <1>2, <2>1
    <2> QED
      BY <2>2, <2>3
  <1> QED
    BY <1>1, <1>3, <1>4 DEF Reviewable

-------------------------------------------------------------------------------
(***************************************************************************)
(* The lines of a draft.                                                   *)
(***************************************************************************)
\* Subtitles whose lines the draft does not break.
AllFit(seq) == \A k \in DOMAIN seq : \A n \in DOMAIN seq[k].lines : Fits(seq[k].lines[n])

\* A line is broken into lines that fit, one that fits not at all.
LEMMA LineWrapped ==
    ASSUME NEW line \in LineSet
    PROVE  /\ Wrap(line) \in Seq(LineSet) /\ Wrap(line) # <<>>
           /\ \A x \in ToSet(Wrap(line)) : Fits(x)
           /\ Fits(line) => Wrap(line) = <<line>>
  <1> DEFINE breaks == line.breaks
             n == Len(breaks)
  <1>1. /\ n \in Nat \ {0} /\ DOMAIN breaks = 1..n /\ \A k \in 1..n : breaks[k] \in Nat \ {0}
        /\ line.cue \in Nat /\ line.line \in Nat
    BY DEF LineSet
  <1>2. CASE Fits(line)
    <2>1. Wrap(line) = <<line>>
      BY <1>2 DEF Wrap, Fits
    <2>2. ToSet(<<line>>) = {line}
      BY DEF ToSet
    <2> QED
      BY <2>1, <2>2, <1>2
  <1>3. CASE ~Fits(line)
    <2> DEFINE piece(k) == [cue |-> line.cue, line |-> line.line, part |-> k, length |-> breaks[k], breaks |-> <<breaks[k]>>]
               w == [k \in 1..n |-> piece(k)]
    <2>1. Wrap(line) = w
      BY <1>1, <1>3 DEF Wrap, Fits
    <2>2. ASSUME NEW k \in 1..n PROVE piece(k) \in LineSet /\ Fits(piece(k))
      <3>1. piece(k) = [cue |-> line.cue, line |-> line.line, part |-> k, length |-> breaks[k], breaks |-> <<breaks[k]>>]
        OBVIOUS
      <3>2. k \in Nat /\ breaks[k] \in Nat \ {0} /\ <<breaks[k]>> \in Seq(Nat \ {0}) /\ <<breaks[k]>> # <<>>
            /\ Len(<<breaks[k]>>) = 1
        BY <1>1
      <3> HIDE DEF n, breaks
      <3>3. piece(k) \in LineSet
        BY <3>1, <3>2, <1>1 DEF LineSet
      <3>4. piece(k).breaks = <<breaks[k]>>
        BY <3>1
      <3> QED
        BY <3>2, <3>3, <3>4 DEF Fits
    <2> HIDE DEF piece
    <2>3. w \in [1..n -> LineSet] /\ DOMAIN w = 1..n /\ \A k \in 1..n : Fits(w[k])
      BY <2>2
    <2> HIDE DEF w
    <2>4. w \in Seq(LineSet) /\ w # <<>>
      BY <1>1, <2>3
    <2>5. \A x \in ToSet(w) : Fits(x)
      BY <2>3 DEF ToSet
    <2> QED
      BY <1>3, <2>1, <2>4, <2>5
  <1> QED
    BY <1>2, <1>3

\* The lines of a subtitle are wrapped one after the other.
LEMMA TextWrapped ==
    ASSUME NEW lines \in Seq(LineSet), lines # <<>>
    PROVE  LET w == FlattenSeq([n \in DOMAIN lines |-> Wrap(lines[n])])
           IN  /\ w \in Seq(LineSet) \ {<<>>}
               /\ \A n \in DOMAIN w : Fits(w[n])
               /\ (\A n \in DOMAIN lines : Fits(lines[n])) => w = lines
  <1> DEFINE parts == [n \in DOMAIN lines |-> Wrap(lines[n])]
             w == FlattenSeq(parts)
             m == Len(lines)
  <1>1. m \in Nat \ {0} /\ DOMAIN lines = 1..m /\ \A n \in 1..m : lines[n] \in LineSet
    OBVIOUS
  <1> HIDE DEF m
  <1>2. /\ DOMAIN parts = 1..m
        /\ \A n \in 1..m : /\ parts[n] \in Seq(LineSet) /\ parts[n] # <<>> /\ \A x \in ToSet(parts[n]) : Fits(x)
                           /\ Fits(lines[n]) => parts[n] = <<lines[n]>>
    BY <1>1, LineWrapped
  <1>3. parts = [n \in 1..m |-> parts[n]]
    BY <1>1
  <1> HIDE DEF parts
  <1>4. parts \in Seq(Seq(LineSet))
    <2>1. parts \in [1..m -> Seq(LineSet)]
      BY <1>2, <1>3
    <2> QED
      BY <1>1, <2>1
  <1>5. w \in Seq(LineSet) /\ ToSet(w) = UNION {ToSet(parts[n]) : n \in DOMAIN parts}
    BY <1>4, Flattened
  <1>6. w # <<>>
    <2>1. 1 \in 1..m /\ parts[1] \in Seq(LineSet) /\ parts[1] # <<>>
      BY <1>1, <1>2
    <2>2. 1 \in DOMAIN parts[1]
      BY <2>1
    <2>3. parts[1][1] \in ToSet(parts[1])
      BY <2>2 DEF ToSet
    <2>4. parts[1][1] \in ToSet(w)
      BY <1>2, <1>5, <2>1, <2>3
    <2>5. ToSet(<<>>) = {}
      BY DEF ToSet
    <2> QED
      BY <2>4, <2>5
  <1> HIDE DEF w
  <1>7. ASSUME NEW n \in DOMAIN w PROVE Fits(w[n])
    <2>1. w[n] \in ToSet(w)
      BY DEF ToSet
    <2>2. PICK k \in 1..m : w[n] \in ToSet(parts[k])
      BY <1>2, <1>5, <2>1
    <2>3. \A x \in ToSet(parts[k]) : Fits(x)
      BY <1>2, <2>2
    <2> QED
      BY <2>2, <2>3
  <1>8. ASSUME \A n \in DOMAIN lines : Fits(lines[n]) PROVE w = lines
    <2>1. parts = [n \in DOMAIN lines |-> <<lines[n]>>]
      <3>1. \A n \in 1..m : parts[n] = <<lines[n]>>
        BY <1>1, <1>2, <1>8
      <3> QED
        BY <1>1, <1>3, <3>1
    <2>2. FlattenSeq([n \in DOMAIN lines |-> <<lines[n]>>]) = lines
      BY FlattenSingles
    <2> QED
      BY <2>1, <2>2 DEF w
  <1> QED
    BY <1>5, <1>6, <1>7, <1>8 DEF w, parts

\* Wrapped subtitles are subtitles whose lines fit, and those whose lines fit
\* stay as they are.
LEMMA SubtitlesWrapped ==
    ASSUME NEW seq \in Seq(CueSet)
    PROVE  Wrapped(seq) \in Seq(CueSet) /\ AllFit(Wrapped(seq)) /\ (AllFit(seq) => Wrapped(seq) = seq)
  <1> DEFINE n == Len(seq)
             text(k) == FlattenSeq([i \in DOMAIN seq[k].lines |-> Wrap(seq[k].lines[i])])
             w == Wrapped(seq)
  <1>1. n \in Nat /\ DOMAIN seq = 1..n /\ seq = [k \in 1..n |-> seq[k]] /\ \A k \in 1..n : seq[k] \in CueSet
    OBVIOUS
  <1>2. w = [k \in 1..n |-> [seq[k] EXCEPT !.lines = text(k)]]
    BY <1>1 DEF Wrapped
  <1> HIDE DEF n, w
  <1>3. ASSUME NEW k \in 1..n
        PROVE  /\ w[k] \in CueSet /\ \A i \in DOMAIN w[k].lines : Fits(w[k].lines[i])
               /\ (\A i \in DOMAIN seq[k].lines : Fits(seq[k].lines[i])) => w[k] = seq[k]
    <2>1. /\ seq[k] = [start |-> seq[k].start, end |-> seq[k].end, lines |-> seq[k].lines]
          /\ seq[k].start \in Nat /\ seq[k].end \in Nat /\ seq[k].lines \in Seq(LineSet) /\ seq[k].lines # <<>>
      BY <1>1 DEF CueSet
    <2>2. /\ text(k) \in Seq(LineSet) \ {<<>>} /\ \A i \in DOMAIN text(k) : Fits(text(k)[i])
          /\ (\A i \in DOMAIN seq[k].lines : Fits(seq[k].lines[i])) => text(k) = seq[k].lines
      BY <2>1, TextWrapped
    <2> HIDE DEF text
    <2>3. w[k] = [seq[k] EXCEPT !.lines = text(k)]
      BY <1>2
    <2>4. w[k] = [start |-> seq[k].start, end |-> seq[k].end, lines |-> text(k)]
      BY <2>1, <2>3
    <2>5. w[k] \in CueSet /\ w[k].lines = text(k)
      BY <2>1, <2>2, <2>4 DEF CueSet
    <2> QED
      BY <2>1, <2>2, <2>4, <2>5
  <1>4. DOMAIN w = 1..n /\ w = [k \in 1..n |-> w[k]]
    BY <1>2
  <1>5. w \in Seq(CueSet)
    <2>1. w \in [1..n -> CueSet]
      BY <1>3, <1>4
    <2> QED
      BY <1>1, <2>1
  <1>6. AllFit(w)
    BY <1>3, <1>4 DEF AllFit
  <1>7. AllFit(seq) => w = seq
    BY <1>1, <1>3, <1>4 DEF AllFit
  <1> QED
    BY <1>5, <1>6, <1>7 DEF w

-------------------------------------------------------------------------------
(***************************************************************************)
(* The layout.                                                             *)
(***************************************************************************)
\* What every state of the layout satisfies: every utterance ends with the video,
\* its lines fit where the two widths are one, and the subtitles are what the
\* transcript, and a draft what the subtitles are laid out to.
LayoutInv ==
    /\ laying \in {"speech", "transcript", "laid", "selected", "saved", "refused", "invalid"}
    /\ cues \in Seq(CueSet) /\ blocks \in Seq(CueSet)
    /\ laying \in {"speech", "selected"} => cues = <<>>
    /\ \A i \in DOMAIN cues : cues[i].end <= Duration
    /\ (LaidNarrowly <=> DraftedNarrowly) => AllFit(cues)
    /\ laying = "laid" \/ (laying \in {"saved", "invalid"} /\ cues # <<>>) => CanLayOut(cues) /\ blocks = LayOut(cues)
    /\ laying = "invalid" /\ cues # <<>> => ~(LaidNarrowly <=> DraftedNarrowly)
    /\ laying = "saved" =>
          /\ CanLayOut(Wrapped(blocks)) /\ laid = LayOut(Wrapped(blocks)) /\ laid # <<>>
          /\ \A k \in DOMAIN laid : laid[k].end <= Duration + Leeway

\* Rounding adds half a millisecond at most.
LEMMA RoundedUp == \A t \in Nat : 2 * Ms(t) <= t + 1
  <1> QED
    BY DEF Ms, RoundDiv

\* What is laid out follows one another, shows something if there is something,
\* fits if the lines did and ends as they do.
LEMMA Subtitled ==
    ASSUME NEW seq \in Seq(CueSet), CanLayOut(seq)
    PROVE  /\ Timed(seq) /\ Fitting(LayOut(seq)) /\ (seq # <<>> => LayOut(seq) # <<>>)
           /\ \A k \in DOMAIN LayOut(seq) : Len(LayOut(seq)[k].lines) \in 1..MaxLines
           /\ AllFit(seq) => AllFit(LayOut(seq))
           /\ \A d \in Nat : (\A i \in DOMAIN seq : seq[i].end <= d) => \A k \in DOMAIN LayOut(seq) : LayOut(seq)[k].end <= d + 1
  <1> DEFINE w == LayOut(seq)
  <1>1. Timed(seq)
    BY DEF Timed, CanLayOut
  <1>2. /\ w \in Seq(BlockSet) /\ Related(Following, w)
        /\ \A b \in ToSet(w) : Len(b.lines) \in 1..MaxLines
    BY <1>1, LaidOut
  <1>3. ASSUME seq # <<>> PROVE w # <<>>
    <2>1. 1 \in DOMAIN seq
      BY <1>3
    <2>2. seq[1].lines \in Seq(LineSet) /\ seq[1].lines # <<>> /\ From(seq[1]) < To(seq[1])
      BY <1>1, <2>1, TimedFacts
    <2>3. seq[1].lines[1] \in ToSet(seq[1].lines)
      BY <2>2 DEF ToSet
    <2>4. UpperOf(From(seq[1]), From(seq[1])) < LowerOf(To(seq[1]), To(seq[1]))
      BY <2>2 DEF UpperOf, LowerOf
    <2> HIDE DEF w
    <2>5. \E b \in ToSet(w) : TRUE
      BY <1>1, <2>1, <2>3, <2>4, DialogueLaid DEF w
    <2>6. ToSet(<<>>) = {}
      BY DEF ToSet
    <2> QED
      BY <2>5, <2>6
  <1>4. \A b \in ToSet(w) : \A x \in ToSet(b.lines) :
           \E i \in DOMAIN seq : x \in ToSet(seq[i].lines) /\ From(seq[i]) <= From(b) /\ To(b) <= To(seq[i])
    BY <1>1, DialogueLaid
  <1> HIDE DEF w
  <1>5. \A k \in DOMAIN w : w[k] \in ToSet(w) /\ Len(w[k].lines) \in 1..MaxLines
    BY <1>2 DEF ToSet
  <1>6. Fitting(w)
    <2>1. MaxLines \in Nat
      BY LayoutScale
    <2> QED
      BY <1>2, <1>5, <2>1 DEF Fitting
  <1>7. ASSUME AllFit(seq) PROVE AllFit(w)
    <2> SUFFICES ASSUME NEW k \in DOMAIN w, NEW n \in DOMAIN w[k].lines PROVE Fits(w[k].lines[n])
      BY DEF AllFit
    <2>1. w[k].lines[n] \in ToSet(w[k].lines)
      BY DEF ToSet
    <2>2. PICK i \in DOMAIN seq : w[k].lines[n] \in ToSet(seq[i].lines)
      BY <1>4, <1>5, <2>1
    <2> QED
      BY <1>7, <2>2 DEF AllFit, ToSet
  <1>8. ASSUME NEW d \in Nat, \A i \in DOMAIN seq : seq[i].end <= d, NEW k \in DOMAIN w
        PROVE  w[k].end <= d + 1
    <2>1. w[k] \in BlockSet
      BY <1>2
    <2>2. w[k].lines \in Seq(LineSet) /\ w[k].lines # <<>> /\ w[k].end = 2 * To(w[k]) /\ To(w[k]) \in Nat
      BY <2>1, Clocks DEF BlockSet, CueSet
    <2>3. w[k].lines[1] \in ToSet(w[k].lines)
      BY <2>2 DEF ToSet
    <2>4. PICK i \in DOMAIN seq : To(w[k]) <= To(seq[i])
      BY <1>4, <1>5, <2>3
    <2>5. seq[i] \in CueSet
      BY <2>4
    <2>6. seq[i].end \in Nat /\ To(seq[i]) = Ms(seq[i].end) /\ To(seq[i]) \in Nat
      BY <2>5, Clocks DEF CueSet, To
    <2>7. 2 * To(seq[i]) <= seq[i].end + 1
      BY <2>6, RoundedUp
    <2> QED
      BY <1>8, <2>2, <2>4, <2>6, <2>7
  <1> QED
    BY <1>1, <1>3, <1>5, <1>6, <1>7, <1>8 DEF w

\* What is said, or selected: utterances that end in time, and whose lines fit if
\* those of the texts do.
LEMMA Uttered ==
    ASSUME NEW n \in Nat, NEW last \in Nat, NEW times \in Times(n, last), NEW texts \in [1..n -> Wordings]
    PROVE  LET c == Utterances(times, texts)
           IN  /\ c \in Seq(CueSet) /\ DOMAIN c = 1..n
               /\ \A i \in DOMAIN c : c[i].end <= last
               /\ (\A i \in 1..n : \A k \in DOMAIN texts[i] : Fits(texts[i][k])) => AllFit(c)
  <1> DEFINE c == Utterances(times, texts)
  <1>1. times \in [1..n -> {t \in (0..last) \X (0..last) : t[1] < t[2]}]
    BY DEF Times
  <1>2. c = [i \in 1..n |-> [start |-> times[i][1], end |-> times[i][2], lines |-> Lines(i, texts[i])]]
    BY <1>1 DEF Utterances
  <1> HIDE DEF c
  <1>3. ASSUME NEW i \in 1..n
        PROVE  /\ c[i] \in CueSet /\ c[i].end <= last
               /\ (\A k \in DOMAIN texts[i] : Fits(texts[i][k])) => \A k \in DOMAIN c[i].lines : Fits(c[i].lines[k])
    <2> DEFINE S == [length : Nat \ {0}, breaks : Seq(Nat \ {0}) \ {<<>>}]
               text == texts[i]
               m == Len(text)
               t == Lines(i, text)
    <2>1. times[i][1] \in Nat /\ times[i][2] \in Nat /\ times[i][2] <= last /\ i \in Nat
      BY <1>1
    <2>2. text \in Seq(S) /\ text # <<>>
      BY LayoutScale
    <2>3. m \in Nat \ {0} /\ DOMAIN text = 1..m /\ \A k \in 1..m : text[k] \in S
      <3> HIDE DEF S, text
      <3> QED
        BY <2>2
    <2>4. t = [k \in 1..m |-> [cue |-> i, line |-> k, part |-> 0, length |-> text[k].length, breaks |-> text[k].breaks]]
      BY <2>3 DEF Lines
    <2>5. c[i] = [start |-> times[i][1], end |-> times[i][2], lines |-> t]
      BY <1>2
    <2> HIDE DEF text, m, t
    <2>6. ASSUME NEW k \in 1..m PROVE t[k] \in LineSet /\ t[k].breaks = text[k].breaks
      <3>1. /\ text[k].length \in Nat \ {0} /\ text[k].breaks \in Seq(Nat \ {0}) \ {<<>>} /\ k \in Nat
            /\ t[k] = [cue |-> i, line |-> k, part |-> 0, length |-> text[k].length, breaks |-> text[k].breaks]
        BY <2>3, <2>4
      <3> QED
        BY <2>1, <3>1 DEF LineSet
    <2>7. t \in Seq(LineSet) /\ t # <<>> /\ DOMAIN t = 1..m
      <3>1. t \in [1..m -> LineSet] /\ DOMAIN t = 1..m
        BY <2>4, <2>6
      <3>2. t \in Seq(LineSet)
        BY <2>3, <3>1
      <3> QED
        BY <2>3, <3>1, <3>2
    <2>8. c[i] \in CueSet /\ c[i].lines = t /\ c[i].end = times[i][2]
      BY <2>1, <2>5, <2>7 DEF CueSet
    <2>9. (\A k \in DOMAIN text : Fits(text[k])) => \A k \in DOMAIN t : Fits(t[k])
      BY <2>3, <2>6, <2>7 DEF Fits
    <2> QED
      BY <2>1, <2>8, <2>9 DEF text
  <1>4. DOMAIN c = 1..n /\ c = [i \in 1..n |-> c[i]]
    BY <1>2
  <1>5. c \in Seq(CueSet)
    <2>1. c \in [1..n -> CueSet]
      BY <1>3, <1>4
    <2> QED
      BY <2>1
  <1>6. (\A i \in 1..n : \A k \in DOMAIN texts[i] : Fits(texts[i][k])) => AllFit(c)
    BY <1>3, <1>4 DEF AllFit
  <1> QED
    BY <1>3, <1>4, <1>5, <1>6 DEF c

\* Theorem: whatever is transcribed or selected, the subtitles are what it is laid
\* out to, and so is the draft.
THEOREM SubtitlesLaid == LayoutSpec => []LayoutInv
  <1>1. LayoutInit => LayoutInv
    <2> SUFFICES ASSUME LayoutInit PROVE LayoutInv
      OBVIOUS
    <2>1. laying = "speech" /\ cues = <<>> /\ blocks = <<>> /\ <<>> \in Seq(CueSet) /\ DOMAIN <<>> = {}
      BY DEF LayoutInit
    <2> QED
      BY <2>1 DEF LayoutInv, AllFit
  <1>2. LayoutInv /\ [LayoutNext]_layoutVars => LayoutInv'
    <2> SUFFICES ASSUME LayoutInv, [LayoutNext]_layoutVars PROVE LayoutInv'
      OBVIOUS
    <2>1. CASE Transcribe
      <3>1. laying' = "transcript" /\ UNCHANGED <<language, blocks, laid>>
        BY <2>1 DEF Transcribe
      <3>2. PICK n \in 0..MaxUtterances : \E times \in Times(n, Duration), texts \in [1..n -> Wordings] :
               /\ LaidNarrowly \/ ~DraftedNarrowly => \A i \in 1..n : \A k \in DOMAIN texts[i] : Fits(texts[i][k])
               /\ cues' = Utterances(times, texts)
        BY <2>1 DEF Transcribe
      <3>3. PICK times \in Times(n, Duration), texts \in [1..n -> Wordings] :
               /\ LaidNarrowly \/ ~DraftedNarrowly => \A i \in 1..n : \A k \in DOMAIN texts[i] : Fits(texts[i][k])
               /\ cues' = Utterances(times, texts)
        BY <3>2
      <3>4. n \in Nat /\ Duration \in Nat
        BY LayoutScale
      <3>5. cues' \in Seq(CueSet) /\ (\A i \in DOMAIN cues' : cues'[i].end <= Duration)
            /\ ((\A i \in 1..n : \A k \in DOMAIN texts[i] : Fits(texts[i][k])) => AllFit(cues'))
        BY <3>3, <3>4, Uttered
      <3>6. (LaidNarrowly' <=> LaidNarrowly) /\ (DraftedNarrowly' <=> DraftedNarrowly)
        BY <3>1 DEF LaidNarrowly, DraftedNarrowly
      <3>7. (LaidNarrowly <=> DraftedNarrowly) => AllFit(cues')
        BY <3>3, <3>5
      <3> QED
        BY <3>1, <3>5, <3>6, <3>7 DEF LayoutInv, AllFit
    <2>2. CASE Select
      <3>1. laying = "speech" /\ laying' = "selected" /\ UNCHANGED <<language, cues, laid>>
        BY <2>2 DEF Select
      <3>2. PICK n \in 1..MaxUtterances : \E times \in Times(n, Duration + 2 * Leeway), texts \in [1..n -> Wordings] :
               blocks' = Utterances(times, texts)
        BY <2>2 DEF Select
      <3>3. n \in Nat /\ Duration + 2 * Leeway \in Nat
        BY LayoutScale
      <3>4. blocks' \in Seq(CueSet)
        BY <3>2, <3>3, Uttered
      <3>5. (LaidNarrowly' <=> LaidNarrowly) /\ (DraftedNarrowly' <=> DraftedNarrowly)
        BY <3>1 DEF LaidNarrowly, DraftedNarrowly
      <3> QED
        BY <3>1, <3>4, <3>5 DEF LayoutInv, AllFit
    <2>3. CASE Lay
      <3>1. laying = "transcript" /\ UNCHANGED <<language, cues, laid>>
        BY <2>3 DEF Lay
      <3>2. (LaidNarrowly' <=> LaidNarrowly) /\ (DraftedNarrowly' <=> DraftedNarrowly)
        BY <3>1 DEF LaidNarrowly, DraftedNarrowly
      <3>3. CASE CanLayOut(cues)
        <4>1. laying' = "laid" /\ blocks' = LayOut(cues)
          BY <2>3, <3>3 DEF Lay
        <4>2. LayOut(cues) \in Seq(CueSet)
          <5>1. LayOut(cues) \in Seq(BlockSet)
            BY <3>3, Subtitled DEF LayoutInv, Fitting
          <5>2. BlockSet \subseteq CueSet
            BY DEF BlockSet
          <5> QED
            BY <5>1, <5>2
        <4> QED
          BY <3>1, <3>2, <3>3, <4>1, <4>2 DEF LayoutInv, AllFit
      <3>4. CASE ~CanLayOut(cues)
        <4>1. laying' = "refused" /\ blocks' = blocks
          BY <2>3, <3>4 DEF Lay
        <4> QED
          BY <3>1, <3>2, <4>1 DEF LayoutInv, AllFit
      <3> QED
        BY <3>3, <3>4
    <2>4. CASE SaveDraft
      <3>1. laying \in {"laid", "selected"} /\ UNCHANGED <<language, cues, blocks>> /\ cues \in Seq(CueSet) /\ blocks \in Seq(CueSet)
        BY <2>4 DEF SaveDraft, LayoutInv
      <3>2. (LaidNarrowly' <=> LaidNarrowly) /\ (DraftedNarrowly' <=> DraftedNarrowly)
        BY <3>1 DEF LaidNarrowly, DraftedNarrowly
      <3> DEFINE Passes(slack) ==
                   Reviewable(blocks, slack) /\ CanLayOut(Wrapped(blocks)) /\ Reviewable(LayOut(Wrapped(blocks)), slack)
      <3>3. PICK slack \in {1, 2} :
               IF Passes(slack) THEN laying' = "saved" /\ laid' = LayOut(Wrapped(blocks))
               ELSE laying' = "invalid" /\ UNCHANGED laid
        BY <2>4 DEF SaveDraft
      <3>4. cues # <<>> => laying = "laid" /\ CanLayOut(cues) /\ blocks = LayOut(cues)
        BY <3>1 DEF LayoutInv
      <3>5. ASSUME cues # <<>>, LaidNarrowly <=> DraftedNarrowly PROVE Passes(slack)
        <4>1. AllFit(cues) /\ (\A i \in DOMAIN cues : cues[i].end <= Duration) /\ Duration \in Nat /\ Leeway \in Nat \ {0}
          BY <3>5, LayoutScale DEF LayoutInv
        <4>2. /\ Fitting(blocks) /\ blocks # <<>> /\ AllFit(blocks)
              /\ \A k \in DOMAIN blocks : blocks[k].end <= Duration + 1
          BY <3>1, <3>4, <3>5, <4>1, Subtitled
        <4>3. Wrapped(blocks) = blocks
          BY <3>1, <4>2, SubtitlesWrapped
        <4>4. \A k \in DOMAIN blocks : blocks[k].end <= Duration + Leeway
          <5>1. \A k \in DOMAIN blocks : blocks[k] \in CueSet
            BY <3>1
          <5>2. \A k \in DOMAIN blocks : blocks[k].end \in Nat
            BY <5>1 DEF CueSet
          <5> QED
            BY <4>1, <4>2, <5>2
        <4>5. CanLayOut(blocks) /\ LayOut(blocks) = blocks
          BY <4>2, LaidAgain
        <4>6. Reviewable(blocks, slack)
          <5>1. slack \in Nat
            BY <3>3
          <5> QED
            BY <4>2, <4>4, <5>1, FittingReviewable
        <4> QED
          BY <4>3, <4>5, <4>6
      <3>6. CASE Passes(slack)
        <4>1. laying' = "saved" /\ laid' = LayOut(Wrapped(blocks))
          BY <3>3, <3>6
        <4>2. CanLayOut(Wrapped(blocks))
          BY <3>6
        <4>3. laid' # <<>> /\ \A k \in DOMAIN laid' : laid'[k].end <= Duration + Leeway
          BY <3>6, <4>1 DEF Reviewable
        <4> HIDE DEF Passes
        <4> QED
          BY <3>1, <3>2, <3>4, <4>1, <4>2, <4>3 DEF LayoutInv, AllFit
      <3>7. CASE ~Passes(slack)
        <4> HIDE DEF Passes
        <4>1. laying' = "invalid"
          BY <3>3, <3>7
        <4>2. cues # <<>> => ~(LaidNarrowly <=> DraftedNarrowly)
          BY <3>5, <3>7
        <4> QED
          BY <3>1, <3>2, <3>4, <4>1, <4>2 DEF LayoutInv, AllFit
      <3> QED
        BY <3>6, <3>7
    <2>5. CASE UNCHANGED layoutVars
      BY <2>5 DEF layoutVars, LayoutInv, LaidNarrowly, DraftedNarrowly, AllFit
    <2> QED
      BY <2>1, <2>2, <2>3, <2>4, <2>5 DEF LayoutNext
  <1> QED
    BY <1>1, <1>2, PTL DEF LayoutSpec

\* What is laid out follows one another.
LEMMA Followed ==
    ASSUME NEW seq \in Seq(CueSet), CanLayOut(seq)
    PROVE  Follow(LayOut(seq))
  <1> DEFINE w == LayOut(seq)
  <1>1. Fitting(w) /\ \A k \in DOMAIN w : Len(w[k].lines) \in 1..MaxLines
    BY Subtitled
  <1> HIDE DEF w
  <1>2. /\ Len(w) \in Nat /\ DOMAIN w = 1..Len(w) /\ \A k \in 1..Len(w) : From(w[k]) < To(w[k])
        /\ \A i, j \in 1..Len(w) : i < j => To(w[i]) <= From(w[j])
    BY <1>1, FittingFacts
  <1>3. ASSUME NEW k \in DOMAIN w, k > 1 PROVE To(w[k - 1]) <= From(w[k])
    <2>1. k - 1 \in 1..Len(w) /\ k - 1 < k
      BY <1>2, <1>3
    <2> QED
      BY <2>1, <1>2
  <1>4. Follow(w)
    BY <1>1, <1>2, <1>3 DEF Follow
  <1> QED
    BY <1>4 DEF w

\* Subtitles follow one another.
LEMMA KeptInTime == LayoutInv => FollowOneAnother
  <1> SUFFICES ASSUME LayoutInv PROVE FollowOneAnother
    OBVIOUS
  <1>1. laying = "laid" => Follow(blocks)
    BY Followed DEF LayoutInv
  <1>2. laying = "saved" => Follow(laid)
    BY Followed, SubtitlesWrapped DEF LayoutInv
  <1> QED
    BY <1>1, <1>2 DEF FollowOneAnother

\* Whatever is laid out is shown in its time.
LEMMA AllShown ==
    ASSUME NEW seq \in Seq(CueSet), CanLayOut(seq)
    PROVE  Keeps(seq, LayOut(seq))
  <1>1. Timed(seq)
    BY Subtitled
  <1> QED
    BY <1>1, DialogueLaid DEF Keeps

\* Everything said is shown.
LEMMA KeptWhole == LayoutInv => DialogueKept
  <1> SUFFICES ASSUME LayoutInv PROVE DialogueKept
    OBVIOUS
  <1>1. laying = "laid" => Keeps(cues, blocks)
    BY AllShown DEF LayoutInv
  <1>2. laying = "saved" => Keeps(Wrapped(blocks), laid)
    BY AllShown, SubtitlesWrapped DEF LayoutInv
  <1> QED
    BY <1>1, <1>2 DEF DialogueKept

\* A review takes what was laid out to its width as it is, and a draft that is
\* saved again stays what it is.
LEMMA KeptAsLaid == LayoutInv => SavedAsLaid
  <1> SUFFICES ASSUME LayoutInv PROVE SavedAsLaid
    OBVIOUS
  <1>1. cues \in Seq(CueSet) /\ blocks \in Seq(CueSet)
    BY DEF LayoutInv
  <1>2. ASSUME cues # <<>>, LaidNarrowly <=> DraftedNarrowly, laying = "saved" PROVE laid = blocks
    <2>1. AllFit(cues) /\ CanLayOut(cues) /\ blocks = LayOut(cues) /\ laid = LayOut(Wrapped(blocks))
      BY <1>2 DEF LayoutInv
    <2>2. Fitting(blocks) /\ AllFit(blocks)
      BY <1>1, <2>1, Subtitled
    <2>3. Wrapped(blocks) = blocks /\ LayOut(blocks) = blocks
      BY <1>1, <2>2, SubtitlesWrapped, LaidAgain
    <2> QED
      BY <2>1, <2>3
  <1>3. ASSUME laying = "saved"
        PROVE  Reviewable(laid, 1) /\ CanLayOut(Wrapped(laid)) /\ LayOut(Wrapped(laid)) = laid
    <2> DEFINE seq == Wrapped(blocks)
    <2>1. /\ CanLayOut(seq) /\ laid = LayOut(seq) /\ laid # <<>>
          /\ \A k \in DOMAIN laid : laid[k].end <= Duration + Leeway
      BY <1>3 DEF LayoutInv
    <2>2. seq \in Seq(CueSet) /\ AllFit(seq)
      BY <1>1, SubtitlesWrapped
    <2> HIDE DEF seq
    <2>3. Fitting(laid) /\ AllFit(laid)
      BY <2>1, <2>2, Subtitled
    <2>4. laid \in Seq(CueSet)
      BY <2>3 DEF Fitting, BlockSet
    <2>5. Wrapped(laid) = laid
      BY <2>3, <2>4, SubtitlesWrapped
    <2>6. CanLayOut(laid) /\ LayOut(laid) = laid
      BY <2>3, LaidAgain
    <2>7. Reviewable(laid, 1)
      BY <2>1, <2>3, FittingReviewable
    <2> QED
      BY <2>5, <2>6, <2>7
  <1>4. cues # <<>> /\ (LaidNarrowly <=> DraftedNarrowly) => laying # "invalid"
    BY DEF LayoutInv
  <1> QED
    BY <1>2, <1>3, <1>4 DEF SavedAsLaid

\* Theorem: what is laid out shows everything in its time, a review takes it as it
\* is where the two widths are one, and a draft shows everything in its time too.
THEOREM LayoutIsSound == LayoutSpec => []LayoutSound
  <1>1. LayoutInv => LayoutSound
    BY KeptInTime, KeptWhole, KeptAsLaid DEF LayoutSound
  <1> QED
    BY <1>1, SubtitlesLaid, PTL
===============================================================================
