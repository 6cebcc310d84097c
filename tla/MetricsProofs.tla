---------------------------- MODULE MetricsProofs ----------------------------
(***************************************************************************)
(* The metrics of a protocol, for any protocol, choice of metrics, number  *)
(* of timer callbacks, names, events and seconds.                          *)
(***************************************************************************)
EXTENDS Metrics, FiniteSetTheorems, SequenceTheorems, WellFoundedInduction,
        TLAPS

-----------------------------------------------------------------------------
(***************************************************************************)
(* Loops as recursive functions of the position                            *)
(***************************************************************************)
\* A set of numbers that is not empty has a least one.
LEMMA LeastNumber ==
    ASSUME NEW T \in SUBSET Nat, T # {}
    PROVE  \E m \in T : \A k \in T : m <= k
  <1> DEFINE R == OpToRel(<, Nat)
  <1>1. IsWellFoundedOn(R, Nat)
    BY NatLessThanWellFounded
  <1> HIDE DEF R
  <1>2. PICK m \in T : \A k \in T : ~(<<k, m>> \in R)
    BY <1>1, WFMin
  <1>3. \A k \in T : ~(k < m)
    BY <1>2 DEF R, OpToRel
  <1> QED
    BY <1>3

\* What holds before the first position and is kept by each step holds at the
\* end.
LEMMA IndexInduction ==
    ASSUME NEW n \in Nat, NEW T, 0 \in T,
           \A i \in 1..n : i - 1 \in T => i \in T
    PROVE  n \in T /\ \A i \in 0..n : i \in T
  <1> DEFINE U == {i \in 0..n : i \notin T}
  <1>1. U = {}
    <2> SUFFICES ASSUME U # {} PROVE FALSE
      OBVIOUS
    <2>1. PICK m \in U : \A k \in U : m <= k
      <3>1. U \in SUBSET Nat
        OBVIOUS
      <3> QED
        BY <3>1, LeastNumber
    <2>2. m \in 1..n /\ m - 1 \in 0..n /\ ~(m <= m - 1)
      BY <2>1
    <2>3. m - 1 \in T
      BY <2>1, <2>2
    <2> QED
      BY <2>1, <2>2, <2>3
  <1> QED
    BY <1>1

\* h is what a loop with the steps g makes of b.
IsRun(h, n, A, b, g) == /\ h \in [0..n -> A] /\ h[0] = b
                        /\ \A i \in 1..n : h[i] = g[<<h[i - 1], i>>]

\* There is such an h.
LEMMA RunExists ==
    ASSUME NEW n \in Nat, NEW A, NEW b \in A, NEW g \in [A \X (1..n) -> A]
    PROVE  \E h : IsRun(h, n, A, b, g)
  <1> DEFINE Run(h, m) == IsRun(h, m, A, b, g)
             T == {m \in 0..n : \E h : Run(h, m)}
  <1>1. 0 \in T
    <2>1. Run([i \in 0..0 |-> b], 0)
      BY DEF IsRun
    <2> HIDE DEF Run
    <2> QED
      BY <2>1
  <1>2. ASSUME NEW m \in 1..n, m - 1 \in T PROVE m \in T
    <2>0. PICK h : Run(h, m - 1)
      BY <1>2
    <2>1. /\ h \in [0..(m - 1) -> A] /\ h[0] = b
          /\ \A i \in 1..(m - 1) : h[i] = g[<<h[i - 1], i>>]
      BY <2>0 DEF IsRun
    <2> DEFINE k == [i \in 0..m |-> IF i = m THEN g[<<h[m - 1], m>>] ELSE h[i]]
    <2>2. m \in Nat /\ m >= 1 /\ m <= n /\ m - 1 \in 0..(m - 1)
      OBVIOUS
    <2>3. g[<<h[m - 1], m>>] \in A
      BY <2>1, <2>2
    <2>4. k \in [0..m -> A]
      BY <2>1, <2>2, <2>3
    <2>5. k[0] = b
      BY <2>1, <2>2
    <2>6. \A i \in 1..m : k[i] = g[<<k[i - 1], i>>]
      <3> TAKE i \in 1..m
      <3>1. i - 1 \in 0..m /\ i \in 0..m /\ i - 1 # m /\ k[i - 1] = h[i - 1]
        BY <2>2
      <3>2. CASE i = m
        BY <3>1, <3>2
      <3>3. CASE i # m
        <4>1. i \in 1..(m - 1)
          BY <2>2, <3>3
        <4> QED
          BY <2>1, <3>1, <3>3, <4>1
      <3> QED
        BY <3>2, <3>3
    <2>7. Run(k, m)
      BY <2>4, <2>5, <2>6 DEF IsRun
    <2> HIDE DEF Run, k
    <2> QED
      BY <2>7
  <1>3. n \in T
    <2> HIDE DEF T
    <2> QED
      BY <1>1, <1>2, IndexInduction
  <1> QED
    BY <1>3

-----------------------------------------------------------------------------
(***************************************************************************)
(* Sums                                                                    *)
(***************************************************************************)
\* f is the sum of the first k numbers, for each k
IsSum(f, s) == /\ f \in [0..Len(s) -> Int] /\ f[0] = 0
               /\ \A k \in 1..Len(s) : f[k] = f[k - 1] + s[k]

\* SumOf is the last of the sums.
LEMMA SumRun ==
    ASSUME NEW s \in Seq(Int)
    PROVE  \E f : IsSum(f, s) /\ SumOf(s) = f[Len(s)]
  <1> DEFINE n == Len(s)
             F == CHOOSE f : f = [k \in 0..n |-> IF k = 0 THEN 0 ELSE f[k - 1] + s[k]]
             g == [x \in Int \X (1..n) |-> x[1] + s[x[2]]]
  <1>1. n \in Nat /\ 0 \in Int /\ \A k \in 1..n : s[k] \in Int
    OBVIOUS
  <1>2. SumOf(s) = F[n]
    BY DEF SumOf
  <1>3. g \in [Int \X (1..n) -> Int]
    BY <1>1
  <1> HIDE DEF n, g
  <1>4. PICK h : IsRun(h, n, Int, 0, g)
    BY <1>1, <1>3, RunExists, Zenon
  <1>5. /\ h \in [0..n -> Int] /\ h[0] = 0
        /\ \A k \in 1..n : h[k] = g[<<h[k - 1], k>>]
    BY <1>4 DEF IsRun
  <1>6. \A k \in 1..n : h[k] = h[k - 1] + s[k]
    <2> TAKE k \in 1..n
    <2>1. k - 1 \in 0..n
      BY <1>1
    <2>2. <<h[k - 1], k>> \in Int \X (1..n)
      BY <1>5, <2>1
    <2> QED
      BY <1>5, <2>2 DEF g
  <1>7. h = [k \in 0..n |-> IF k = 0 THEN 0 ELSE h[k - 1] + s[k]]
    <2>1. \A k \in 0..n : h[k] = IF k = 0 THEN 0 ELSE h[k - 1] + s[k]
      BY <1>1, <1>5, <1>6
    <2> QED
      BY <1>5, <2>1
  <1>8. F = [k \in 0..n |-> IF k = 0 THEN 0 ELSE F[k - 1] + s[k]]
    BY <1>7
  <1> HIDE DEF F
  <1> DEFINE T == {k \in 0..n : F[k] \in Int /\ F[k] = h[k]}
  <1>9. 0 \in T
    BY <1>1, <1>5, <1>8
  <1>10. ASSUME NEW k \in 1..n, k - 1 \in T PROVE k \in T
    <2>1. k \in 0..n /\ F[k] = F[k - 1] + s[k]
      BY <1>1, <1>8
    <2> QED
      BY <1>1, <1>6, <1>10, <2>1
  <1>11. n \in T
    <2> HIDE DEF T
    <2> QED
      BY <1>1, <1>9, <1>10, IndexInduction
  <1>12. IsSum(h, s)
    BY <1>5, <1>6 DEF IsSum, n
  <1> QED
    BY <1>2, <1>11, <1>12 DEF n

\* Sums of sequences that agree on their first n numbers agree up to n, and
\* sums of smaller numbers are smaller.
LEMMA SumCompare ==
    ASSUME NEW s \in Seq(Int), NEW u \in Seq(Int), NEW f, NEW h,
           IsSum(f, s), IsSum(h, u), NEW n \in 0..Len(s), n <= Len(u)
    PROVE  /\ (\A k \in 1..n : s[k] = u[k]) => f[n] = h[n]
           /\ (\A k \in 1..n : s[k] <= u[k]) => f[n] <= h[n]
  <1>0. /\ f \in [0..Len(s) -> Int] /\ h \in [0..Len(u) -> Int]
        /\ f[0] = 0 /\ h[0] = 0
        /\ \A k \in 1..Len(s) : f[k] = f[k - 1] + s[k]
        /\ \A k \in 1..Len(u) : h[k] = h[k - 1] + u[k]
    BY DEF IsSum
  <1>1. n \in Nat /\ \A k \in 0..n : k \in 0..Len(s) /\ k \in 0..Len(u)
    OBVIOUS
  <1>10. \A k \in 1..n : s[k] \in Int /\ u[k] \in Int
    OBVIOUS
  <1>2. ASSUME \A k \in 1..n : s[k] = u[k] PROVE f[n] = h[n]
    <2> DEFINE T == {k \in 0..n : f[k] = h[k]}
    <2>1. 0 \in T
      BY <1>0, <1>1
    <2>2. ASSUME NEW k \in 1..n, k - 1 \in T PROVE k \in T
      BY <1>0, <1>1, <1>2, <2>2
    <2>3. n \in T
      <3> HIDE DEF T
      <3> QED
        BY <1>1, <2>1, <2>2, IndexInduction
    <2> QED
      BY <2>3
  <1>3. ASSUME \A k \in 1..n : s[k] <= u[k] PROVE f[n] <= h[n]
    <2> DEFINE T == {k \in 0..n : f[k] <= h[k]}
    <2>1. 0 \in T
      BY <1>0, <1>1
    <2>2. ASSUME NEW k \in 1..n, k - 1 \in T PROVE k \in T
      <3>1. f[k] = f[k - 1] + s[k] /\ h[k] = h[k - 1] + u[k] /\ k \in 0..n
        BY <1>0, <1>1
      <3>2. f[k - 1] <= h[k - 1] /\ s[k] <= u[k] /\ k - 1 \in 0..n
        BY <1>3, <2>2
      <3>3. f[k - 1] \in Int /\ h[k - 1] \in Int /\ s[k] \in Int /\ u[k] \in Int
        BY <1>0, <1>1, <1>10, <3>2
      <3> QED
        BY <3>1, <3>2, <3>3
    <2>3. n \in T
      <3> HIDE DEF T
      <3> QED
        BY <1>1, <2>1, <2>2, IndexInduction
    <2> QED
      BY <2>3
  <1> QED
    BY <1>2, <1>3

\* A sum is a number, not negative when its terms are not.
LEMMA SumType ==
    ASSUME NEW s \in Seq(Int)
    PROVE  /\ SumOf(s) \in Int
           /\ s = <<>> => SumOf(s) = 0
           /\ (\A k \in 1..Len(s) : 0 <= s[k]) => 0 <= SumOf(s)
  <1>1. PICK f : IsSum(f, s) /\ SumOf(s) = f[Len(s)]
    BY SumRun
  <1>2. /\ f \in [0..Len(s) -> Int] /\ f[0] = 0
        /\ \A k \in 1..Len(s) : f[k] = f[k - 1] + s[k]
    BY <1>1 DEF IsSum
  <1>3. Len(s) \in Nat /\ (s = <<>> => Len(s) = 0) /\ \A k \in 1..Len(s) : s[k] \in Int
    OBVIOUS
  <1>4. ASSUME \A k \in 1..Len(s) : 0 <= s[k] PROVE 0 <= SumOf(s)
    <2> DEFINE T == {k \in 0..Len(s) : 0 <= f[k]}
    <2>1. 0 \in T
      BY <1>2, <1>3
    <2>2. ASSUME NEW k \in 1..Len(s), k - 1 \in T PROVE k \in T
      <3>1. s[k] \in Int /\ 0 <= s[k] /\ f[k - 1] \in Int /\ 0 <= f[k - 1]
        BY <1>2, <1>3, <1>4, <2>2
      <3> QED
        BY <1>2, <1>3, <3>1
    <2>3. Len(s) \in T
      <3> HIDE DEF T
      <3> QED
        BY <1>3, <2>1, <2>2, IndexInduction
    <2> QED
      BY <1>1, <2>3
  <1> QED
    BY <1>1, <1>2, <1>3, <1>4

\* One number more
LEMMA SumAppend ==
    ASSUME NEW s \in Seq(Int), NEW x \in Int
    PROVE  SumOf(Append(s, x)) = SumOf(s) + x
  <1> DEFINE u == Append(s, x)
             n == Len(s)
  <1>0. u \in Seq(Int) /\ Len(u) = n + 1 /\ u[n + 1] = x /\ n \in Nat
        /\ \A k \in 1..n : s[k] = u[k]
    OBVIOUS
  <1> HIDE DEF u, n
  <1>1. PICK f : IsSum(f, s) /\ SumOf(s) = f[n]
    BY SumRun DEF n
  <1>2. PICK h : IsSum(h, u) /\ SumOf(u) = h[n + 1]
    BY <1>0, SumRun
  <1>3. f[n] = h[n]
    <2>1. n \in 0..Len(s) /\ n <= Len(u)
      BY <1>0 DEF n
    <2> QED
      BY <1>0, <1>1, <1>2, <2>1, SumCompare
  <1>4. h[n + 1] = h[(n + 1) - 1] + u[n + 1]
    <2>1. n + 1 \in 1..Len(u)
      BY <1>0
    <2> QED
      BY <1>2, <2>1 DEF IsSum
  <1>5. (n + 1) - 1 = n
    BY <1>0
  <1> QED
    BY <1>0, <1>1, <1>2, <1>3, <1>4, <1>5 DEF u

\* One number replaced
LEMMA SumExcept ==
    ASSUME NEW s \in Seq(Int), NEW u \in Seq(Int), Len(u) = Len(s),
           NEW j \in 1..Len(s), \A k \in 1..Len(s) : k # j => u[k] = s[k]
    PROVE  SumOf(u) = SumOf(s) + u[j] - s[j]
  <1> DEFINE n == Len(s)
  <1>0. n \in Nat /\ Len(u) = n
    OBVIOUS
  <1> HIDE DEF n
  <1>1. PICK f : IsSum(f, s) /\ SumOf(s) = f[n]
    BY SumRun DEF n
  <1>2. PICK h : IsSum(h, u) /\ SumOf(u) = h[n]
    BY <1>0, SumRun
  <1>3. /\ f \in [0..n -> Int] /\ h \in [0..n -> Int]
        /\ \A k \in 1..n : f[k] = f[k - 1] + s[k] /\ h[k] = h[k - 1] + u[k]
        /\ \A k \in 1..n : s[k] \in Int /\ u[k] \in Int
    BY <1>0, <1>1, <1>2 DEF IsSum, n
  <1>4. j \in 1..n /\ j - 1 \in 0..n /\ j \in 0..n /\ \A k \in 1..(j - 1) : k \in 1..n /\ k # j
    BY <1>0 DEF n
  <1>5. f[j - 1] = h[j - 1]
    BY <1>0, <1>1, <1>2, <1>4, SumCompare DEF n
  <1> DEFINE d == u[j] - s[j]
             T == {k \in 0..n : k >= j => h[k] = f[k] + d}
  <1>50. d \in Int
    BY <1>3, <1>4
  <1>6. 0 \in T
    BY <1>0, <1>4
  <1>7. ASSUME NEW k \in 1..n, k - 1 \in T PROVE k \in T
    <2> SUFFICES ASSUME k >= j PROVE h[k] = f[k] + d
      BY <1>0
    <2>0. k - 1 \in 0..n /\ f[k - 1] \in Int /\ h[k - 1] \in Int
      BY <1>0, <1>3
    <2>1. CASE k = j
      BY <1>3, <1>5, <2>0, <2>1
    <2>2. CASE k > j
      <3>1. u[k] = s[k] /\ h[k - 1] = f[k - 1] + d
        BY <1>0, <1>4, <1>7, <2>2 DEF n
      <3> HIDE DEF d
      <3> QED
        BY <1>3, <1>50, <2>0, <3>1
    <2> QED
      BY <1>4, <2>1, <2>2
  <1>8. n \in T
    <2> HIDE DEF T
    <2> QED
      BY <1>0, <1>6, <1>7, IndexInduction
  <1> QED
    BY <1>0, <1>1, <1>2, <1>3, <1>4, <1>8

\* Fewer numbers, or smaller ones, have a smaller sum.
LEMMA SumSmaller ==
    ASSUME NEW s \in Seq(Nat), NEW u \in Seq(Nat), Len(s) <= Len(u),
           \A k \in 1..Len(s) : s[k] <= u[k]
    PROVE  SumOf(s) <= SumOf(u)
  <1> DEFINE n == Len(s)
             m == Len(u)
  <1>0. s \in Seq(Int) /\ u \in Seq(Int) /\ n \in Nat /\ m \in Nat /\ n <= m
    OBVIOUS
  <1>00. \A k \in 1..m : u[k] \in Nat
    OBVIOUS
  <1> HIDE DEF n, m
  <1>1. PICK f : IsSum(f, s) /\ SumOf(s) = f[n]
    BY <1>0, SumRun DEF n
  <1>2. PICK h : IsSum(h, u) /\ SumOf(u) = h[m]
    BY <1>0, SumRun DEF m
  <1>3. f[n] <= h[n]
    BY <1>0, <1>1, <1>2, SumCompare DEF n, m
  <1>4. h \in [0..m -> Int] /\ \A k \in 1..m : h[k] = h[k - 1] + u[k]
    BY <1>2 DEF IsSum, m
  <1>40. f \in [0..n -> Int]
    BY <1>1 DEF IsSum, n
  <1> DEFINE T == {k \in 0..m : k >= n => h[n] <= h[k]}
  <1>5. 0 \in T
    BY <1>0, <1>4
  <1>6. ASSUME NEW k \in 1..m, k - 1 \in T PROVE k \in T
    <2> SUFFICES ASSUME k >= n PROVE h[n] <= h[k]
      BY <1>0
    <2>1. h[k - 1] \in Int /\ h[k] = h[k - 1] + u[k] /\ u[k] \in Nat /\ h[n] \in Int
      BY <1>0, <1>00, <1>4
    <2>2. CASE k = n
      BY <2>1, <2>2, <1>0, <1>4
    <2>3. CASE k > n
      BY <1>0, <1>6, <2>1, <2>3
    <2> QED
      BY <1>0, <2>2, <2>3
  <1>7. m \in T
    <2> HIDE DEF T
    <2> QED
      BY <1>0, <1>5, <1>6, IndexInduction
  <1> QED
    BY <1>0, <1>1, <1>2, <1>3, <1>4, <1>40, <1>7

-----------------------------------------------------------------------------
(***************************************************************************)
(* The metrics of a protocol and the observers of an event                 *)
(***************************************************************************)
Class == Avgs \cup Hashes \cup Maps

\* The metrics that are active are metrics of the protocol.
LEMMA ActiveType ==
    ASSUME NEW all \in Seq(Class), NEW mask
    PROVE  ActiveMetrics(all, mask) \in Seq(Class)
  <1> DEFINE n == Len(all)
             A == Seq(Class)
             F == CHOOSE f : f = [k \in 0..n |->
                    IF k = 0 THEN <<>>
                    ELSE IF k - 1 \in mask THEN Append(f[k - 1], all[k])
                    ELSE f[k - 1]]
             g == [x \in A \X (1..n) |->
                    IF x[2] - 1 \in mask THEN Append(x[1], all[x[2]]) ELSE x[1]]
  <1>1. n \in Nat /\ <<>> \in A /\ \A k \in 1..n : all[k] \in Class
    OBVIOUS
  <1>2. ActiveMetrics(all, mask) = F[n]
    BY DEF ActiveMetrics
  <1>3. g \in [A \X (1..n) -> A]
    <2>1. \A a \in A, k \in 1..n : Append(a, all[k]) \in A
      BY <1>1
    <2> QED
      BY <2>1
  <1>30. \A a \in A, k \in 1..n :
           g[<<a, k>>] = IF k - 1 \in mask THEN Append(a, all[k]) ELSE a
    OBVIOUS
  <1> HIDE DEF n, A, g
  <1>4. PICK h : IsRun(h, n, A, <<>>, g)
    BY <1>1, <1>3, RunExists, Zenon
  <1>5. /\ h \in [0..n -> A] /\ h[0] = <<>>
        /\ \A k \in 1..n : h[k] = g[<<h[k - 1], k>>]
    BY <1>4 DEF IsRun
  <1>6. \A k \in 1..n : h[k] = IF k - 1 \in mask THEN Append(h[k - 1], all[k])
                              ELSE h[k - 1]
    <2> TAKE k \in 1..n
    <2>1. k - 1 \in 0..n
      BY <1>1
    <2>2. h[k - 1] \in A
      BY <1>5, <2>1
    <2> QED
      BY <1>5, <1>30, <2>2
  <1>7. h = [k \in 0..n |-> IF k = 0 THEN <<>>
                            ELSE IF k - 1 \in mask THEN Append(h[k - 1], all[k])
                            ELSE h[k - 1]]
    <2>1. \A k \in 0..n : h[k] = IF k = 0 THEN <<>>
                            ELSE IF k - 1 \in mask THEN Append(h[k - 1], all[k])
                            ELSE h[k - 1]
      <3> TAKE k \in 0..n
      <3>1. CASE k = 0
        BY <1>5, <3>1
      <3>2. CASE k # 0
        <4>1. k \in 1..n
          BY <1>1, <3>2
        <4> QED
          BY <1>6, <3>2, <4>1, Zenon
      <3> QED
        BY <3>1, <3>2
    <2> QED
      BY <1>5, <2>1
  <1>8. F = [k \in 0..n |-> IF k = 0 THEN <<>>
                            ELSE IF k - 1 \in mask THEN Append(F[k - 1], all[k])
                            ELSE F[k - 1]]
    BY <1>7
  <1> HIDE DEF F
  <1> DEFINE T == {k \in 0..n : F[k] \in A}
  <1>9. 0 \in T
    BY <1>1, <1>8
  <1>10. ASSUME NEW k \in 1..n, k - 1 \in T PROVE k \in T
    <2>0. k \in 0..n /\ k # 0
      BY <1>1
    <2>1. F[k] = IF k - 1 \in mask THEN Append(F[k - 1], all[k]) ELSE F[k - 1]
      BY <1>8, <2>0, Zenon
    <2>2. F[k - 1] \in A /\ all[k] \in Class
      BY <1>1, <1>10
    <2>3. Append(F[k - 1], all[k]) \in A
      BY <2>2 DEF A
    <2> QED
      BY <2>0, <2>1, <2>2, <2>3
  <1>11. n \in T
    <2> HIDE DEF T
    <2> QED
      BY <1>1, <1>9, <1>10, IndexInduction
  <1> QED
    BY <1>2, <1>11 DEF A

\* The protocols have metrics of these classes.
LEMMA ProtocolClasses ==
    ASSUME NEW p \in {"HTTP", "MEMCACHED", "MYSQL"}
    PROVE  ProtocolMetrics[p] \in Seq(Class)
  <1> DEFINE C == {"Rst", "ReqRate", "ErrRate", "Tp", "TpRev", "ConnRate", "Client",
                   "ReqPath", "ReqMethod", "ReqType", "RspStatus"}
  <1>1. C \subseteq Class
    BY DEF Class, Avgs, Rates, Tps, Hashes, Maps
  <1>2. /\ ProtocolMetrics["HTTP"] =
             <<"Rst", "ReqRate", "ErrRate", "Tp", "TpRev", "ConnRate", "Client",
               "ReqPath", "ReqMethod", "ReqType", "RspStatus">>
        /\ ProtocolMetrics["MEMCACHED"] =
             <<"Rst", "ErrRate", "Tp", "TpRev", "ReqType", "RspStatus">>
        /\ ProtocolMetrics["MYSQL"] = <<"Rst", "ReqRate", "Tp", "TpRev", "ReqType">>
    BY DEF ProtocolMetrics
  <1>3. /\ ProtocolMetrics["HTTP"] \in Seq(C)
        /\ ProtocolMetrics["MEMCACHED"] \in Seq(C)
        /\ ProtocolMetrics["MYSQL"] \in Seq(C)
    BY <1>2
  <1> HIDE DEF C
  <1> QED
    BY <1>1, <1>3

\* o lists, from the last to the first, the metrics up to n that are to be told
Tells(o, n, ev) ==
    /\ o \in Seq(1..n)
    /\ \A k \in 1..Len(o) : ev \in Subscribed(metrics[o[k]])
    /\ \A j, k \in 1..Len(o) : j < k => o[k] < o[j]
    /\ \A i \in 1..n : ev \in Subscribed(metrics[i]) => \E k \in 1..Len(o) : o[k] = i

\* One metric more
LEMMA TellsStep ==
    ASSUME NEW n \in Nat, n > 0, NEW ev, NEW o, Tells(o, n - 1, ev)
    PROVE  Tells(IF ev \in Subscribed(metrics[n]) THEN <<n>> \o o ELSE o, n, ev)
  <1>0. o \in Seq(1..(n - 1)) /\ \A k \in 1..Len(o) : o[k] \in 1..(n - 1)
    BY DEF Tells
  <1>1. o \in Seq(1..n)
    BY <1>0
  <1>2. CASE ev \notin Subscribed(metrics[n])
    <2>1. \A i \in 1..n : i = n \/ i \in 1..(n - 1)
      OBVIOUS
    <2> QED
      BY <1>1, <1>2, <2>1 DEF Tells
  <1>3. CASE ev \in Subscribed(metrics[n])
    <2> DEFINE q == <<n>> \o o
    <2>1. q \in Seq(1..n) /\ Len(q) = Len(o) + 1 /\ q[1] = n
          /\ \A k \in 2..Len(q) : q[k] = o[k - 1]
      BY <1>1
    <2> HIDE DEF q
    <2>2. \A k \in 1..Len(q) : k = 1 \/ (k \in 2..Len(q) /\ k - 1 \in 1..Len(o))
      BY <1>0, <2>1
    <2>3. \A k \in 1..Len(q) : ev \in Subscribed(metrics[q[k]])
      BY <1>3, <2>1, <2>2 DEF Tells
    <2>4. ASSUME NEW j \in 1..Len(q), NEW k \in 1..Len(q), j < k
          PROVE  q[k] < q[j]
      <3>1. k \in 2..Len(q) /\ k - 1 \in 1..Len(o) /\ q[k] = o[k - 1]
        BY <2>1, <2>2, <2>4
      <3>2. CASE j = 1
        BY <1>0, <2>1, <3>1, <3>2
      <3>3. CASE j # 1
        <4>1. j - 1 \in 1..Len(o) /\ q[j] = o[j - 1] /\ j - 1 < k - 1
          BY <2>1, <2>2, <2>4, <3>3
        <4> QED
          BY <3>1, <4>1 DEF Tells
      <3> QED
        BY <3>2, <3>3
    <2>5. ASSUME NEW i \in 1..n, ev \in Subscribed(metrics[i])
          PROVE  \E k \in 1..Len(q) : q[k] = i
      <3>1. CASE i = n
        <4>1. 1 \in 1..Len(q)
          BY <1>0, <2>1
        <4> QED
          BY <2>1, <3>1, <4>1
      <3>2. CASE i # n
        <4>1. PICK k \in 1..Len(o) : o[k] = i
          BY <2>5, <3>2 DEF Tells
        <4>2. k + 1 \in 2..Len(q) /\ k + 1 \in 1..Len(q) /\ (k + 1) - 1 = k
          BY <1>0, <2>1
        <4> QED
          BY <2>1, <4>1, <4>2
      <3> QED
        BY <3>1, <3>2
    <2> QED
      BY <1>3, <2>1, <2>3, <2>4, <2>5 DEF Tells, q
  <1> QED
    BY <1>2, <1>3

\* The observers of an event are the metrics that have subscribed.
LEMMA ObserversTold ==
    ASSUME metrics \in Seq(Class), NEW ev
    PROVE  Tells(Observers(ev), Len(metrics), ev)
  <1> DEFINE n == Len(metrics)
             A == Seq(Nat)
             S(k) == ev \in Subscribed(metrics[k])
             F == CHOOSE f : f = [k \in 0..n |->
                    IF k = 0 THEN <<>>
                    ELSE IF S(k) THEN <<k>> \o f[k - 1]
                    ELSE f[k - 1]]
             g == [x \in A \X (1..n) |-> IF S(x[2]) THEN <<x[2]>> \o x[1] ELSE x[1]]
  <1>1. n \in Nat /\ <<>> \in A
    OBVIOUS
  <1>2. Observers(ev) = F[n]
    BY DEF Observers
  <1> HIDE DEF S
  <1>29. \A a \in A, k \in 1..n : <<k>> \o a \in A
    BY <1>1
  <1>3. g \in [A \X (1..n) -> A]
    BY <1>29
  <1>30. \A a \in A, k \in 1..n : g[<<a, k>>] = IF S(k) THEN <<k>> \o a ELSE a
    OBVIOUS
  <1> HIDE DEF n, A, g
  <1>4. PICK h : IsRun(h, n, A, <<>>, g)
    BY <1>1, <1>3, RunExists, Zenon
  <1>5. /\ h \in [0..n -> A] /\ h[0] = <<>>
        /\ \A k \in 1..n : h[k] = g[<<h[k - 1], k>>]
    BY <1>4 DEF IsRun
  <1>6. \A k \in 1..n : h[k] = IF S(k) THEN <<k>> \o h[k - 1] ELSE h[k - 1]
    <2> TAKE k \in 1..n
    <2>1. k - 1 \in 0..n
      BY <1>1
    <2>2. h[k - 1] \in A
      BY <1>5, <2>1
    <2> QED
      BY <1>5, <1>30, <2>2
  <1>7. h = [k \in 0..n |-> IF k = 0 THEN <<>>
                            ELSE IF S(k) THEN <<k>> \o h[k - 1]
                            ELSE h[k - 1]]
    <2>1. \A k \in 0..n : h[k] = IF k = 0 THEN <<>>
                            ELSE IF S(k) THEN <<k>> \o h[k - 1]
                            ELSE h[k - 1]
      <3> TAKE k \in 0..n
      <3>1. CASE k = 0
        BY <1>5, <3>1
      <3>2. CASE k # 0
        <4>1. k \in 1..n
          BY <1>1, <3>2
        <4> QED
          BY <1>6, <3>2, <4>1, Zenon
      <3> QED
        BY <3>1, <3>2
    <2> QED
      BY <1>5, <2>1
  <1>8. F = [k \in 0..n |-> IF k = 0 THEN <<>>
                            ELSE IF S(k) THEN <<k>> \o F[k - 1]
                            ELSE F[k - 1]]
    BY <1>7
  <1> HIDE DEF F
  <1> DEFINE T == {k \in 0..n : Tells(F[k], k, ev)}
  <1>9. 0 \in T
    <2>1. F[0] = <<>> /\ 0 \in 0..n
      BY <1>1, <1>8
    <2>2. Tells(<<>>, 0, ev)
      BY DEF Tells
    <2> QED
      BY <2>1, <2>2
  <1>10. ASSUME NEW k \in 1..n, k - 1 \in T PROVE k \in T
    <2>0. k \in 0..n /\ k # 0
      BY <1>1
    <2>1. F[k] = IF S(k) THEN <<k>> \o F[k - 1] ELSE F[k - 1]
      BY <1>8, <2>0, Zenon
    <2>2. k \in Nat /\ k > 0 /\ Tells(F[k - 1], k - 1, ev)
      BY <1>1, <1>10
    <2>3. Tells(IF S(k) THEN <<k>> \o F[k - 1] ELSE F[k - 1], k, ev)
      BY <2>2, TellsStep DEF S
    <2> QED
      BY <2>0, <2>1, <2>3
  <1>11. n \in T
    <2> HIDE DEF T
    <2> QED
      BY <1>1, <1>9, <1>10, IndexInduction
  <1> QED
    BY <1>2, <1>11 DEF n

-----------------------------------------------------------------------------
(***************************************************************************)
(* The handlers, operation by operation                                    *)
(***************************************************************************)
Events == {"newFlow", "flowUpdate", "request", "response", "timer", "interval"}
Parts  == {"process", "branch", "reset"}
CallSet == [metric : Nat, ev : Events \cup Parts, arg : Name \cup {None} \cup Nat]

\* A call that thread t may have to make
GoodCall(t, e) ==
    /\ e \in CallSet
    /\ \/ e.metric = 0 /\ e.ev \in Parts /\ t \in Callback
       \/ /\ e.metric \in Index /\ e.ev \in Subscribed(metrics[e.metric])
          /\ e.ev \in {"timer", "interval"} => t \in Callback
          /\ e.ev = "flowUpdate" => e.arg \in Nat
          /\ e.ev = "response" => e.arg \in Name
          /\ e.ev = "request" => e.arg \in Name \cup {None}

MapOps(x)  == <<Op("totRead", ""), Op("totWrite", ""), Op("mapEnter", ""),
                OpOf("mapLeave", "", x)>>

\* The events of each class
LEMMA ClassEvents ==
    ASSUME NEW c \in Class
    PROVE  /\ Subscribed(c) \subseteq Events
           /\ c \in Hashes => Subscribed(c) = {"interval", "request"}
           /\ c \in Maps => Subscribed(c) = {"interval",
                              IF c = "ReqType" THEN "request" ELSE "response"}
           /\ c \in Rates => Subscribed(c) = {"interval", "timer",
                               IF c = "ReqRate" THEN "request" ELSE "newFlow"}
           /\ c \in Tps => Subscribed(c) = {"interval", "timer", "flowUpdate"}
           /\ c = "ErrRate" => Subscribed(c) = {"interval", "timer", "response"}
           /\ c = "Rst" => Subscribed(c) = {"interval", "response"}
           /\ c \in Avgs \/ c \in Hashes \/ c \in Maps
           /\ c \in Avgs => c \notin Hashes /\ c \notin Maps
           /\ c \in Hashes => c \notin Maps
           /\ c \in Avgs <=> c \in Rates \/ c \in Tps \/ c = "ErrRate" \/ c = "Rst"
           /\ c \in Rates => c \notin Tps
           /\ c \in {"ErrRate", "Rst"} => c \notin Rates /\ c \notin Tps
  BY DEF Class, Subscribed, Events, Avgs, Rates, Tps, Hashes, Maps

\* Hash::add within a handler
LEMMA HashCall ==
    ASSUME metrics \in Seq(Class), NEW t, NEW e, GoodCall(t, e), e.metric # 0,
           metrics[e.metric] \in Hashes
    PROVE  /\ e.metric \in Index
           /\ \/ e.ev = "interval" /\ Ops(e) = HashOnInterval /\ t \in Callback
              \/ /\ e.ev = "request" /\ e.arg \in Name \cup {None}
                 /\ Ops(e) = HashAdd(e.arg) \/ Ops(e) = AddTotal
  <1> DEFINE c == metrics[e.metric]
  <1>1. e.metric \in Index /\ e.ev \in Subscribed(c) /\ c \in Class
        /\ (e.ev = "interval" => t \in Callback)
        /\ (e.ev = "request" => e.arg \in Name \cup {None})
    BY DEF GoodCall, Index
  <1>2. e.ev = "interval" \/ e.ev = "request"
    BY <1>1, ClassEvents
  <1>3. Ops(e) = Handler(c, e.ev, e.arg)
    BY DEF Ops
  <1> HIDE DEF c
  <1>4. c \in Hashes /\ c \notin Avgs /\ c \notin Maps
    BY <1>1, ClassEvents DEF c
  <1>5. CASE e.ev = "interval"
    BY <1>1, <1>3, <1>4, <1>5 DEF Handler, OnIntervalExpired
  <1>6. CASE e.ev = "request"
    <2>1. Ops(e) = OnEvent(c, e.arg)
      BY <1>3, <1>6 DEF Handler
    <2>3. c = "Client" \/ c = "ReqPath" \/ c = "ReqMethod"
      BY <1>4 DEF Hashes
    <2>4. \/ OnEvent(c, e.arg) = HashAdd(e.arg)
          \/ OnEvent(c, e.arg) = AddTotal
      BY <2>3 DEF OnEvent, ClientOnRequest, ReqPathOnRequest, ReqMethodOnRequest
    <2> QED
      BY <1>1, <1>6, <2>1, <2>4
  <1> QED
    BY <1>2, <1>5, <1>6

\* ... and of the maps
LEMMA MapCall ==
    ASSUME metrics \in Seq(Class), NEW t, NEW e, GoodCall(t, e), e.metric # 0,
           metrics[e.metric] \in Maps
    PROVE  /\ e.metric \in Index
           /\ \/ e.ev = "interval" /\ Ops(e) = MapOnInterval /\ t \in Callback
              \/ /\ e.ev \in {"request", "response"} /\ e.arg \in Name \cup {None}
                 /\ Ops(e) = MapOps(e.arg)
  <1> DEFINE c == metrics[e.metric]
  <1>1. e.metric \in Index /\ e.ev \in Subscribed(c) /\ c \in Class
        /\ (e.ev = "interval" => t \in Callback)
        /\ (e.ev = "request" => e.arg \in Name \cup {None})
        /\ (e.ev = "response" => e.arg \in Name)
    BY DEF GoodCall, Index
  <1>2. e.ev = "interval" \/ e.ev = "request" \/ e.ev = "response"
    BY <1>1, ClassEvents
  <1>3. Ops(e) = Handler(c, e.ev, e.arg)
    BY DEF Ops
  <1> HIDE DEF c
  <1>4. c \in Maps /\ c \notin Avgs /\ c \notin Hashes
    BY <1>1, ClassEvents DEF c
  <1>5. CASE e.ev = "interval"
    BY <1>1, <1>3, <1>4, <1>5 DEF Handler, OnIntervalExpired
  <1>6. CASE e.ev # "interval"
    <2>1. Ops(e) = OnEvent(c, e.arg)
      BY <1>2, <1>3, <1>6 DEF Handler
    <2>3. c = "ReqType" \/ c = "RspStatus"
      BY <1>4 DEF Maps
    <2>4. OnEvent(c, e.arg) = MapOps(e.arg)
      BY <2>3 DEF OnEvent, ReqTypeOnRequest, RspStatusOnResponse, MapOps
    <2> QED
      BY <1>1, <1>2, <1>6, <2>1, <2>4
  <1> QED
    BY <1>5, <1>6

\* The parts of processData
LEMMA OwnCall ==
    ASSUME NEW t, NEW e, GoodCall(t, e), e.metric = 0
    PROVE  /\ t \in Callback
           /\ \/ /\ e.ev = "process" /\ Len(Ops(e)) = 3
                 /\ Ops(e) = <<Op("stepRead", ""), Op("stepWrite", ""),
                               Op("hashProcess", "")>>
              \/ e.ev = "branch" /\ Ops(e) = <<Op("branch", "")>> /\ Len(Ops(e)) = 1
              \/ e.ev = "reset" /\ Ops(e) = <<Op("stepReset", "")>> /\ Len(Ops(e)) = 1
  <1>1. e.ev \in Parts /\ t \in Callback
    BY DEF GoodCall, Index
  <1>2. \/ /\ e.ev = "process"
           /\ Ops(e) = <<Op("stepRead", ""), Op("stepWrite", ""), Op("hashProcess", "")>>
        \/ e.ev = "branch" /\ Ops(e) = <<Op("branch", "")>>
        \/ e.ev = "reset" /\ Ops(e) = <<Op("stepReset", "")>>
    BY <1>1 DEF Ops, ProcessData, Parts
  <1> QED
    BY <1>1, <1>2

\* What a metric that reports an average does
AvgKinds == {"set", "add", "minimize", "maximize", "get", "perSecond", "sinceMark",
             "num", "den", "ifZero", "ifNone", "msg", "msgTest", "delta", "mark"}
AvgOps == {o \in [kind : AvgKinds, var : ValueName, arg : Int \cup {None}] :
             /\ o.kind = "msg" => o.var \in {"avg", "min", "max"}
             /\ o.kind \notin {"set", "add", "minimize", "maximize"} => o.arg = None}
          \cup {Op("send", "")}

\* Operations on Values
LEMMA ValueOps ==
    /\ \A v \in ValueName : \A k \in AvgKinds \ {"msg"} : Op(k, v) \in AvgOps
    /\ \A v \in {"avg", "min", "max"} : Op("msg", v) \in AvgOps
    /\ \A v \in ValueName, x \in Int :
         \A k \in {"set", "add", "minimize", "maximize"} : OpOf(k, v, x) \in AvgOps
    /\ \A v \in ValueName : Zero(v) \in AvgOps
    /\ Op("send", "") \in AvgOps
  <1>1. {"avg", "min", "max"} \subseteq ValueName /\ 0 \in Int
    BY DEF ValueName
  <1>2. \A v \in ValueName : \A k \in AvgKinds \ {"msg"} : Op(k, v) \in AvgOps
    BY DEF Op, AvgOps
  <1>3. \A v \in {"avg", "min", "max"} : Op("msg", v) \in AvgOps
    BY <1>1 DEF Op, AvgOps, AvgKinds
  <1>4. \A v \in ValueName, x \in Int :
          \A k \in {"set", "add", "minimize", "maximize"} : OpOf(k, v, x) \in AvgOps
    BY DEF OpOf, AvgOps, AvgKinds
  <1>5. \A v \in ValueName : Zero(v) \in AvgOps
    BY <1>1, <1>4 DEF Zero
  <1> QED
    BY <1>2, <1>3, <1>4, <1>5 DEF AvgOps

\* The handlers are made of them.
LEMMA AvgCall ==
    ASSUME metrics \in Seq(Class), NEW t, NEW e, GoodCall(t, e), e.metric # 0,
           metrics[e.metric] \in Avgs
    PROVE  /\ e.metric \in Index
           /\ Ops(e) \in Seq(AvgOps) /\ Ops(e) # <<>>
           /\ e.ev \in {"timer", "interval"} => t \in Callback
  <1> DEFINE c == metrics[e.metric]
  <1> USE MetricsAssumption
  <1>1. e.metric \in Index /\ e.ev \in Subscribed(c) /\ c \in Class
        /\ (e.ev \in {"timer", "interval"} => t \in Callback)
        /\ (e.ev = "flowUpdate" => e.arg \in Nat)
    BY DEF GoodCall, Index
  <1>3. Ops(e) = Handler(c, e.ev, e.arg)
    BY DEF Ops
  <1> HIDE DEF c
  <1>4. c \in Avgs /\ c \notin Hashes /\ c \notin Maps
    BY <1>1, ClassEvents DEF c
  <1>5. {"subtotal", "total", "subsum", "sum", "avg", "min", "max"} = ValueName
    BY DEF ValueName
  <1>6. CASE e.ev = "interval"
    <2>1. Ops(e) = GetAvg(c) \o <<Op("set", "avg")>> \o SendMsg \o ResetMetric(c)
      BY <1>3, <1>4, <1>6 DEF Handler, OnIntervalExpired, AvgOnInterval
    <2>2. GetAvg(c) \in Seq(AvgOps)
      <3>0. /\ Op("perSecond", "sum") \in AvgOps /\ Op("sinceMark", "total") \in AvgOps
            /\ Op("ifZero", "total") \in AvgOps /\ Op("num", "sum") \in AvgOps
            /\ Op("den", "total") \in AvgOps
        BY <1>5, ValueOps DEF AvgKinds
      <3>1. <<Op("perSecond", "sum")>> \in Seq(AvgOps)
        BY <3>0
      <3>2. <<Op("sinceMark", "total")>> \in Seq(AvgOps)
        BY <3>0
      <3>3. Ratio("sum", "total") \in Seq(AvgOps)
        BY <3>0 DEF Ratio
      <3> QED
        BY <3>1, <3>2, <3>3, ClassEvents, <1>1, <1>4 DEF GetAvg
    <2>3. <<Op("set", "avg")>> \in Seq(AvgOps)
      <3>1. Op("set", "avg") \in AvgOps
        BY <1>5, ValueOps DEF AvgKinds
      <3> QED
        BY <3>1
    <2>4. SendMsg \in Seq(AvgOps)
      <3>1. /\ Op("msg", "avg") \in AvgOps /\ Op("msgTest", "min") \in AvgOps
            /\ Op("msg", "min") \in AvgOps /\ Op("msg", "max") \in AvgOps
            /\ Op("send", "") \in AvgOps
        BY <1>5, ValueOps DEF AvgKinds
      <3>2. \A a, b, c1, d, f \in AvgOps : <<a, b, c1, d, f>> \in Seq(AvgOps)
        OBVIOUS
      <3> QED
        BY <3>1, <3>2, Zenon DEF SendMsg
    <2>5. ResetMetric(c) \in Seq(AvgOps)
      <3>1. /\ Zero("total") \in AvgOps /\ Zero("subtotal") \in AvgOps
            /\ Zero("sum") \in AvgOps /\ Zero("subsum") \in AvgOps
            /\ Zero("avg") \in AvgOps /\ Zero("max") \in AvgOps
            /\ OpOf("set", "min", Huge) \in AvgOps /\ Op("mark", "total") \in AvgOps
        <4>1. Huge \in Int
          BY DEF Huge
        <4> QED
          BY <1>5, <4>1, ValueOps DEF AvgKinds
      <3>2. <<Zero("total"), Zero("subtotal"), Zero("sum"), Zero("subsum"),
              Zero("avg"), OpOf("set", "min", Huge), Zero("max")>> \in Seq(AvgOps)
        BY <3>1
      <3>3. <<Op("mark", "total")>> \in Seq(AvgOps) /\ <<>> \in Seq(AvgOps)
        BY <3>1
      <3>4. \A s, u \in Seq(AvgOps) : s \o u \in Seq(AvgOps)
        OBVIOUS
      <3> QED
        BY <3>2, <3>3, <3>4, Zenon DEF ResetMetric
    <2>6. \A s, u \in Seq(AvgOps) :
            s \o u \in Seq(AvgOps) /\ (s # <<>> \/ u # <<>> => s \o u # <<>>)
      OBVIOUS
    <2>7. <<Op("set", "avg")>> # <<>>
      OBVIOUS
    <2>8. Ops(e) \in Seq(AvgOps) /\ Ops(e) # <<>>
      BY <2>1, <2>2, <2>3, <2>4, <2>5, <2>6, <2>7, Zenon
    <2> QED
      BY <1>1, <2>8
  <1>7. CASE e.ev = "timer"
    <2>1. Ops(e) = OnTimerExpired(c)
      BY <1>3, <1>7 DEF Handler
    <2>2. c \in Rates \/ c \in Tps \/ c = "ErrRate"
      BY <1>1, <1>4, <1>7, ClassEvents
    <2>3. CASE c = "ReqRate"
      <3>1. /\ Op("get", "subtotal") \in AvgOps /\ Op("minimize", "min") \in AvgOps
            /\ Op("maximize", "max") \in AvgOps /\ Op("add", "sum") \in AvgOps
            /\ Zero("subtotal") \in AvgOps
        BY <1>5, ValueOps DEF AvgKinds
      <3> QED
        BY <1>1, <2>1, <2>3, <3>1 DEF OnTimerExpired, ReqRateOnTimer, Tps
    <2>4. CASE c = "ConnRate"
      <3>1. /\ Op("get", "subtotal") \in AvgOps /\ Op("minimize", "min") \in AvgOps
            /\ Op("maximize", "max") \in AvgOps /\ Op("add", "sum") \in AvgOps
            /\ Zero("subtotal") \in AvgOps
        BY <1>5, ValueOps DEF AvgKinds
      <3> QED
        BY <1>1, <2>1, <2>4, <3>1 DEF OnTimerExpired, ConnRateOnTimer, Tps
    <2>5. CASE c = "ErrRate"
      <3>0. /\ Op("ifZero", "subtotal") \in AvgOps /\ Op("num", "subsum") \in AvgOps
            /\ Op("den", "subtotal") \in AvgOps
        BY <1>5, ValueOps DEF AvgKinds
      <3>1. Ratio("subsum", "subtotal") \in Seq(AvgOps)
        BY <3>0 DEF Ratio
      <3>2. /\ Op("minimize", "min") \in AvgOps
            /\ Op("maximize", "max") \in AvgOps
            /\ Zero("subtotal") \in AvgOps /\ Zero("subsum") \in AvgOps
        BY <1>5, ValueOps DEF AvgKinds
      <3>3. <<Op("minimize", "min"), Op("maximize", "max"), Zero("subsum"),
              Zero("subtotal")>> \in Seq(AvgOps)
        BY <3>2
      <3>4. \A s, u \in Seq(AvgOps) : s \o u \in Seq(AvgOps)
        OBVIOUS
      <3>5. ErrRateOnTimer \in Seq(AvgOps)
        BY <3>1, <3>3, <3>4, Zenon DEF ErrRateOnTimer
      <3>6. ErrRateOnTimer # <<>>
        BY DEF ErrRateOnTimer, Ratio
      <3> QED
        BY <1>1, <2>1, <2>5, <3>5, <3>6 DEF OnTimerExpired, Tps
    <2>6. CASE c \in Tps
      <3>1. /\ Op("ifNone", "total") \in AvgOps /\ Op("minimize", "min") \in AvgOps
            /\ Op("maximize", "max") \in AvgOps /\ Op("delta", "total") \in AvgOps
        BY <1>5, ValueOps DEF AvgKinds
      <3> QED
        BY <1>1, <2>1, <2>6, <3>1 DEF OnTimerExpired, TpOnTimer, Tps
    <2> QED
      BY <2>2, <2>3, <2>4, <2>5, <2>6 DEF Rates
  <1>8. CASE e.ev \notin {"interval", "timer"}
    <2>1. Ops(e) = OnEvent(c, e.arg)
      BY <1>3, <1>8 DEF Handler
    <2>2. Scale \in Int /\ ResponseTime(e.arg) \in Int
      BY DEF ResponseTime
    <2>3. /\ OpOf("add", "subtotal", Scale) \in AvgOps
          /\ OpOf("add", "total", Scale) \in AvgOps
          /\ OpOf("add", "subsum", Scale) \in AvgOps
          /\ OpOf("add", "sum", Scale) \in AvgOps
          /\ OpOf("add", "sum", ResponseTime(e.arg)) \in AvgOps
          /\ OpOf("minimize", "min", ResponseTime(e.arg)) \in AvgOps
          /\ OpOf("maximize", "max", ResponseTime(e.arg)) \in AvgOps
      BY <1>5, <2>2, ValueOps
    <2>4. CASE c \in Rates
      BY <1>1, <2>1, <2>3, <2>4
         DEF OnEvent, Rates, ConnRateOnNewFlow, ReqRateOnRequest
    <2>5. CASE c = "ErrRate"
      BY <1>1, <2>1, <2>3, <2>5 DEF OnEvent, ErrRateOnResponse
    <2>6. CASE c = "Rst"
      BY <1>1, <2>1, <2>3, <2>6 DEF OnEvent, RstOnResponse
    <2>7. CASE c \in Tps
      <3>1. e.ev = "flowUpdate"
        BY <1>1, <1>8, <2>7, ClassEvents
      <3>2. Scale * e.arg \in Int
        BY <1>1, <3>1
      <3>3. OpOf("set", "total", Scale * e.arg) \in AvgOps
        BY <1>5, <3>2, ValueOps
      <3> QED
        BY <1>1, <2>1, <2>7, <3>3 DEF OnEvent, Tps, TpOnFlowUpdate, TpRevOnFlowUpdate
    <2> QED
      BY <1>1, <1>4, <2>4, <2>5, <2>6, <2>7, ClassEvents
  <1> QED
    BY <1>6, <1>7, <1>8

-----------------------------------------------------------------------------
(***************************************************************************)
(* Types                                                                   *)
(***************************************************************************)
Names     == Name \cup {None}
RecordSet == [name : Names, cnt : Int]
EntrySet  == Names \X Int \X Int
MsgSet    == [avg : Int, min : Int, max : Int]
Locals    == [reg : Int, num : Int, node : Nat, msg : MsgSet]
MetricSet ==
    [val : [ValueName -> Int], timerRef : Int, intervalRef : Int, total : Int,
     nodes : Seq(RecordSet), holder : Thread \cup {None}, cfl : Seq(EntrySet),
     users : SUBSET Thread]
HistSet ==
    [received : Nat, exposed : Nat, told : Int,
     report : {None} \cup MsgSet \cup Seq(EntrySet),
     done : [Names -> Nat], met : BOOLEAN]

Types ==
    /\ setup \in Setups /\ metrics \in Seq(Class)
    /\ obj \in [Index -> MetricSet] /\ hist \in [Index -> HistSet]
    /\ payload \in [Tps -> Nat]
    /\ int_step \in Int /\ ticks \in Nat /\ events \in Nat
    /\ dead \in BOOLEAN /\ overlapped \in BOOLEAN /\ steady \in BOOLEAN
    /\ failed \in {"no", "race"}
    /\ work \in [Thread -> Seq(CallSet)] /\ pc \in [Thread -> Nat \ {0}]
    /\ loc \in [Thread -> Locals]

\* Threads run handlers that exist, and are in the first of them.
AtWork ==
    \A t \in Thread :
        /\ \A k \in 1..Len(work[t]) : GoodCall(t, work[t][k])
        /\ IF Busy(t) THEN pc[t] <= Len(Ops(Call(t))) ELSE pc[t] = 1
        /\ pc[t] = 1 => loc[t] = NoLocals

BInv == Types /\ AtWork

\* The metrics of an analysis do not change, nor what they do.
LEMMA SameCalls ==
    ASSUME metrics' = metrics
    PROVE  /\ Index' = Index
           /\ \A e : Ops(e)' = Ops(e)
           /\ \A t, e : GoodCall(t, e)' <=> GoodCall(t, e)
  <1>1. Index' = Index
    BY DEF Index
  <1>2. ASSUME NEW e PROVE Ops(e)' = Ops(e)
    BY DEF Ops
  <1>3. ASSUME NEW t, NEW e PROVE GoodCall(t, e)' <=> GoodCall(t, e)
    BY DEF GoodCall, Index
  <1> QED
    BY <1>1, <1>2, <1>3

\* How many operations the handlers have
LEMMA OpLengths ==
    /\ Len(HashOnInterval) = 6 /\ Len(MapOnInterval) = 6 /\ Len(AddTotal) = 2
    /\ \A x : Len(HashAdd(x)) = 6 /\ Len(MapOps(x)) = 4
  BY DEF HashOnInterval, MapOnInterval, AddTotal, HashAdd, MapOps

\* A handler is a sequence of operations, which is not empty.
LEMMA CallLength ==
    ASSUME metrics \in Seq(Class), NEW t, NEW e, GoodCall(t, e)
    PROVE  Len(Ops(e)) \in Nat /\ Len(Ops(e)) >= 1
  <1> DEFINE n == Len(Ops(e))
  <1>1. CASE e.metric = 0
    <2>1. n = 3 \/ n = 1
      BY <1>1, OwnCall, Zenon
    <2> HIDE DEF n
    <2>2. n \in Nat /\ n >= 1
      BY <2>1
    <2> QED
      BY <2>2 DEF n
  <1>2. CASE e.metric # 0
    <2>1. metrics[e.metric] \in Class
      BY <1>2 DEF GoodCall, Index
    <2>2. CASE metrics[e.metric] \in Avgs
      <3>1. Ops(e) \in Seq(AvgOps) /\ Ops(e) # <<>>
        BY <1>2, <2>2, AvgCall
      <3> HIDE DEF n
      <3> QED
        BY <3>1
    <2>3. CASE metrics[e.metric] \in Hashes
      <3>1. Ops(e) = HashOnInterval \/ Ops(e) = HashAdd(e.arg) \/ Ops(e) = AddTotal
        BY <1>2, <2>3, HashCall
      <3>2. n = 6 \/ n = 2
        BY <3>1, OpLengths, Zenon
      <3> HIDE DEF n
      <3>3. n \in Nat /\ n >= 1
        BY <3>2
      <3> QED
        BY <3>3 DEF n
    <2>4. CASE metrics[e.metric] \in Maps
      <3>1. Ops(e) = MapOnInterval \/ Ops(e) = MapOps(e.arg)
        BY <1>2, <2>4, MapCall
      <3>2. n = 6 \/ n = 4
        BY <3>1, OpLengths, Zenon
      <3> HIDE DEF n
      <3>3. n \in Nat /\ n >= 1
        BY <3>2
      <3> QED
        BY <3>3 DEF n
    <2> QED
      BY <2>1, <2>2, <2>3, <2>4, ClassEvents
  <1> QED
    BY <1>1, <1>2

\* The first call of a busy thread
LEMMA CallFacts ==
    ASSUME BInv, NEW t \in Thread, Busy(t)
    PROVE  /\ Call(t) \in CallSet /\ GoodCall(t, Call(t))
           /\ Call(t) = work[t][1] /\ Len(work[t]) \in Nat /\ Len(work[t]) >= 1
           /\ pc[t] \in 1..Len(Ops(Call(t)))
           /\ loc[t] \in Locals
           /\ Tail(work[t]) \in Seq(CallSet)
           /\ Len(Tail(work[t])) = Len(work[t]) - 1
           /\ \A k \in 1..Len(Tail(work[t])) :
                k + 1 \in 1..Len(work[t]) /\ Tail(work[t])[k] = work[t][k + 1]
  <1>1. work[t] \in Seq(CallSet) /\ work[t] # <<>> /\ pc[t] \in Nat \ {0} /\ loc[t] \in Locals
    BY DEF BInv, Types, Busy
  <1>2. 1 \in 1..Len(work[t]) /\ Call(t) = work[t][1]
    BY <1>1 DEF Call
  <1>3. GoodCall(t, work[t][1]) /\ pc[t] <= Len(Ops(Call(t)))
    BY <1>2 DEF BInv, AtWork
  <1>4. Call(t) \in CallSet
    BY <1>2, <1>3 DEF GoodCall
  <1>5. /\ Tail(work[t]) \in Seq(CallSet)
        /\ Len(Tail(work[t])) = Len(work[t]) - 1
        /\ \A k \in 1..Len(Tail(work[t])) :
             k + 1 \in 1..Len(work[t]) /\ Tail(work[t])[k] = work[t][k + 1]
    BY <1>1
  <1>7. Len(Ops(Call(t))) \in Nat
    BY <1>2, <1>3, CallLength DEF BInv, Types
  <1> QED
    BY <1>1, <1>2, <1>3, <1>4, <1>5, <1>7

\* Where a thread can be: in processData, ...
OwnAt(t) ==
    /\ At(t) = 0 /\ t \in Callback
    /\ \/ /\ Call(t).ev = "process" /\ Len(Ops(Call(t))) = 3
          /\ \/ pc[t] = 1 /\ Now(t) = Op("stepRead", "")
             \/ pc[t] = 2 /\ Now(t) = Op("stepWrite", "")
             \/ pc[t] = 3 /\ Now(t) = Op("hashProcess", "")
       \/ Call(t).ev = "branch" /\ Len(Ops(Call(t))) = 1 /\ pc[t] = 1
          /\ Now(t) = Op("branch", "")
       \/ Call(t).ev = "reset" /\ Len(Ops(Call(t))) = 1 /\ pc[t] = 1
          /\ Now(t) = Op("stepReset", "")

\* ... in the handler of a request of a metric with a hash table, ...
HashAt(t) ==
    LET x == Call(t).arg IN
    /\ At(t) \in Index /\ metrics[At(t)] \in Hashes
    /\ Call(t).ev = "request" /\ x \in Names
    /\ \/ pc[t] = 1 /\ Now(t) = Op("totRead", "") /\ Len(Ops(Call(t))) \in {2, 6}
       \/ pc[t] = 2 /\ Now(t) = Op("totWrite", "") /\ Len(Ops(Call(t))) \in {2, 6}
       \/ pc[t] = 3 /\ Now(t) = OpOf("find", "", x) /\ Len(Ops(Call(t))) = 6
       \/ pc[t] = 4 /\ Now(t) = OpOf("create", "", x) /\ Len(Ops(Call(t))) = 6
       \/ pc[t] = 5 /\ Now(t) = OpOf("cntRead", "", x) /\ Len(Ops(Call(t))) = 6
       \/ pc[t] = 6 /\ Now(t) = OpOf("cntWrite", "", x) /\ Len(Ops(Call(t))) = 6

\* ... at the end of its interval, ...
HashEndAt(t) ==
    /\ At(t) \in Index /\ metrics[At(t)] \in Hashes
    /\ Call(t).ev = "interval" /\ t \in Callback /\ Len(Ops(Call(t))) = 6
    /\ \/ pc[t] = 1 /\ Now(t) = Op("lockAll", "")
       \/ pc[t] = 2 /\ Now(t) = Op("walk", "")
       \/ pc[t] = 3 /\ Now(t) = Op("unlockAll", "")
       \/ pc[t] = 4 /\ Now(t) = Op("send", "")
       \/ pc[t] = 5 /\ Now(t) = Op("freeEnter", "")
       \/ pc[t] = 6 /\ Now(t) = Op("freeLeave", "")

\* ... the same for a map, ...
MapAt(t) ==
    LET x == Call(t).arg IN
    /\ At(t) \in Index /\ metrics[At(t)] \in Maps
    /\ Call(t).ev \in {"request", "response"} /\ x \in Names /\ Len(Ops(Call(t))) = 4
    /\ \/ pc[t] = 1 /\ Now(t) = Op("totRead", "")
       \/ pc[t] = 2 /\ Now(t) = Op("totWrite", "")
       \/ pc[t] = 3 /\ Now(t) = Op("mapEnter", "")
       \/ pc[t] = 4 /\ Now(t) = OpOf("mapLeave", "", x)

MapEndAt(t) ==
    /\ At(t) \in Index /\ metrics[At(t)] \in Maps
    /\ Call(t).ev = "interval" /\ t \in Callback /\ Len(Ops(Call(t))) = 6
    /\ \/ pc[t] = 1 /\ Now(t) = Op("ifNoTotal", "")
       \/ pc[t] = 2 /\ Now(t) = Op("iterEnter", "")
       \/ pc[t] = 3 /\ Now(t) = Op("iterLeave", "")
       \/ pc[t] = 4 /\ Now(t) = Op("send", "")
       \/ pc[t] = 5 /\ Now(t) = Op("freeEnter", "")
       \/ pc[t] = 6 /\ Now(t) = Op("freeLeave", "")

\* ... or in a handler of an average.
AvgAt(t) ==
    /\ At(t) \in Index /\ metrics[At(t)] \in Avgs /\ Now(t) \in AvgOps
    /\ Len(Ops(Call(t))) \in Nat

\* There is no other place.
LEMMA Places ==
    ASSUME BInv, NEW t \in Thread, Busy(t)
    PROVE  \/ OwnAt(t) \/ HashAt(t) \/ HashEndAt(t) \/ MapAt(t) \/ MapEndAt(t)
           \/ AvgAt(t)
  <1> DEFINE e == Call(t)
             o == Ops(e)
             p == pc[t]
  <1>1. /\ GoodCall(t, e) /\ p \in 1..Len(o) /\ metrics \in Seq(Class)
        /\ Now(t) = o[p] /\ At(t) = e.metric
    BY CallFacts DEF Now, At, BInv, Types
  <1>2. CASE e.metric = 0
    <2>1. CASE e.ev = "process"
      <3>1. Len(o) = 3 /\ o = <<Op("stepRead", ""), Op("stepWrite", ""), Op("hashProcess", "")>>
            /\ t \in Callback
        BY <1>1, <1>2, <2>1, OwnCall, Zenon
      <3> HIDE DEF o, p, e
      <3>10. Len(o) = 3
        BY <3>1, Zenon
      <3>2. p = 1 \/ p = 2 \/ p = 3
        BY <1>1, <3>10
      <3>3. o[1] = Op("stepRead", "") /\ o[2] = Op("stepWrite", "") /\ o[3] = Op("hashProcess", "")
        BY <3>1
      <3> QED
        BY <1>1, <1>2, <2>1, <3>1, <3>2, <3>3 DEF OwnAt, o, p, e
    <2>2. CASE e.ev = "branch"
      <3>1. Len(o) = 1 /\ o = <<Op("branch", "")>> /\ t \in Callback
        BY <1>1, <1>2, <2>2, OwnCall, Zenon
      <3> HIDE DEF o, p, e
      <3>10. Len(o) = 1
        BY <3>1, Zenon
      <3>11. p = 1
        BY <1>1, <3>10
      <3>12. o[1] = Op("branch", "")
        BY <3>1
      <3>2. p = 1 /\ o[1] = Op("branch", "")
        BY <3>11, <3>12
      <3> QED
        BY <1>1, <1>2, <2>2, <3>1, <3>2 DEF OwnAt, o, p, e
    <2>3. CASE e.ev = "reset"
      <3>1. Len(o) = 1 /\ o = <<Op("stepReset", "")>> /\ t \in Callback
        BY <1>1, <1>2, <2>3, OwnCall, Zenon
      <3> HIDE DEF o, p, e
      <3>10. Len(o) = 1
        BY <3>1, Zenon
      <3>11. p = 1
        BY <1>1, <3>10
      <3>12. o[1] = Op("stepReset", "")
        BY <3>1
      <3>2. p = 1 /\ o[1] = Op("stepReset", "")
        BY <3>11, <3>12
      <3> QED
        BY <1>1, <1>2, <2>3, <3>1, <3>2 DEF OwnAt, o, p, e
    <2>4. e.ev \in Parts
      BY <1>1, <1>2 DEF GoodCall, Index
    <2> QED
      BY <2>1, <2>2, <2>3, <2>4 DEF Parts
  <1>3. CASE e.metric # 0
    <2> DEFINE c == metrics[e.metric]
    <2>1. c \in Class /\ e.metric \in Index
      BY <1>1, <1>3 DEF GoodCall, Index
    <2>2. CASE c \in Avgs
      <3>1. o \in Seq(AvgOps)
        BY <1>1, <1>3, <2>2, AvgCall
      <3>2. o[p] \in AvgOps /\ Len(o) \in Nat
        BY <1>1, <3>1
      <3> HIDE DEF o, p
      <3> QED
        BY <1>1, <2>1, <2>2, <3>2 DEF AvgAt, o, p
    <2>3. CASE c \in Hashes
      <3>1. \/ e.ev = "interval" /\ o = HashOnInterval /\ t \in Callback
            \/ e.ev = "request" /\ e.arg \in Names /\ o = HashAdd(e.arg)
            \/ e.ev = "request" /\ e.arg \in Names /\ o = AddTotal
        BY <1>1, <1>3, <2>3, HashCall DEF Names
      <3>2. CASE e.ev = "interval" /\ o = HashOnInterval /\ t \in Callback
        <4>1. p = 1 \/ p = 2 \/ p = 3 \/ p = 4 \/ p = 5 \/ p = 6
          BY <1>1, <3>2, OpLengths
        <4>2. /\ HashOnInterval[1] = Op("lockAll", "") /\ HashOnInterval[2] = Op("walk", "")
              /\ HashOnInterval[3] = Op("unlockAll", "") /\ HashOnInterval[4] = Op("send", "")
              /\ HashOnInterval[5] = Op("freeEnter", "") /\ HashOnInterval[6] = Op("freeLeave", "")
          BY DEF HashOnInterval
        <4>3. Now(t) = HashOnInterval[p] /\ Len(o) = 6
          BY <1>1, <3>2, OpLengths
        <4> HIDE DEF p, o, e
        <4> QED
          BY <1>1, <2>1, <2>3, <3>2, <4>1, <4>2, <4>3 DEF HashEndAt, p, o, e
      <3>3. CASE e.ev = "request" /\ e.arg \in Names /\ o = HashAdd(e.arg)
        <4>1. p = 1 \/ p = 2 \/ p = 3 \/ p = 4 \/ p = 5 \/ p = 6
          BY <1>1, <3>3, OpLengths
        <4>2. \A x : /\ HashAdd(x)[1] = Op("totRead", "") /\ HashAdd(x)[2] = Op("totWrite", "")
                     /\ HashAdd(x)[3] = OpOf("find", "", x)
                     /\ HashAdd(x)[4] = OpOf("create", "", x)
                     /\ HashAdd(x)[5] = OpOf("cntRead", "", x)
                     /\ HashAdd(x)[6] = OpOf("cntWrite", "", x)
          BY DEF HashAdd
        <4>3. Now(t) = HashAdd(e.arg)[p] /\ Len(o) = 6
          BY <1>1, <3>3, OpLengths
        <4> HIDE DEF p, o, e
        <4> QED
          BY <1>1, <2>1, <2>3, <3>3, <4>1, <4>2, <4>3 DEF HashAt, p, o, e
      <3>4. CASE e.ev = "request" /\ e.arg \in Names /\ o = AddTotal
        <4>1. p = 1 \/ p = 2
          BY <1>1, <3>4, OpLengths
        <4>2. AddTotal[1] = Op("totRead", "") /\ AddTotal[2] = Op("totWrite", "")
          BY DEF AddTotal
        <4>3. Now(t) = AddTotal[p] /\ Len(o) = 2
          BY <1>1, <3>4, OpLengths
        <4> HIDE DEF p, o, e
        <4> QED
          BY <1>1, <2>1, <2>3, <3>4, <4>1, <4>2, <4>3 DEF HashAt, p, o, e
      <3> QED
        BY <3>1, <3>2, <3>3, <3>4
    <2>4. CASE c \in Maps
      <3>1. \/ e.ev = "interval" /\ o = MapOnInterval /\ t \in Callback
            \/ e.ev \in {"request", "response"} /\ e.arg \in Names /\ o = MapOps(e.arg)
        BY <1>1, <1>3, <2>4, MapCall DEF Names
      <3>2. CASE e.ev = "interval" /\ o = MapOnInterval /\ t \in Callback
        <4>1. p = 1 \/ p = 2 \/ p = 3 \/ p = 4 \/ p = 5 \/ p = 6
          BY <1>1, <3>2, OpLengths
        <4>2. /\ MapOnInterval[1] = Op("ifNoTotal", "") /\ MapOnInterval[2] = Op("iterEnter", "")
              /\ MapOnInterval[3] = Op("iterLeave", "") /\ MapOnInterval[4] = Op("send", "")
              /\ MapOnInterval[5] = Op("freeEnter", "") /\ MapOnInterval[6] = Op("freeLeave", "")
          BY DEF MapOnInterval
        <4>3. Now(t) = MapOnInterval[p] /\ Len(o) = 6
          BY <1>1, <3>2, OpLengths
        <4> HIDE DEF p, o, e
        <4> QED
          BY <1>1, <2>1, <2>4, <3>2, <4>1, <4>2, <4>3 DEF MapEndAt, p, o, e
      <3>3. CASE e.ev \in {"request", "response"} /\ e.arg \in Names /\ o = MapOps(e.arg)
        <4>1. p = 1 \/ p = 2 \/ p = 3 \/ p = 4
          BY <1>1, <3>3, OpLengths
        <4>2. \A x : /\ MapOps(x)[1] = Op("totRead", "") /\ MapOps(x)[2] = Op("totWrite", "")
                     /\ MapOps(x)[3] = Op("mapEnter", "")
                     /\ MapOps(x)[4] = OpOf("mapLeave", "", x)
          BY DEF MapOps
        <4>3. Now(t) = MapOps(e.arg)[p] /\ Len(o) = 4
          BY <1>1, <3>3, OpLengths
        <4> HIDE DEF p, o, e
        <4> QED
          BY <1>1, <2>1, <2>4, <3>3, <4>1, <4>2, <4>3 DEF MapAt, p, o, e
      <3> QED
        BY <3>1, <3>2, <3>3
    <2> QED
      BY <2>1, <2>2, <2>3, <2>4, ClassEvents
  <1> QED
    BY <1>2, <1>3

-----------------------------------------------------------------------------
(***************************************************************************)
(* Steps of a thread                                                       *)
(***************************************************************************)
Others(t) == \A u \in Thread : u # t => /\ work'[u] = work[u] /\ pc'[u] = pc[u]
                                        /\ loc'[u] = loc[u]
ThreadTypes == /\ work \in [Thread -> Seq(CallSet)] /\ pc \in [Thread -> Nat \ {0}]
               /\ loc \in [Thread -> Locals]

\* A thread goes on within a handler, or to other calls.
ThreadStep(t) ==
    /\ ThreadTypes' /\ Others(t)
    /\ \/ work'[t] = work[t] /\ pc'[t] > 1 /\ pc'[t] <= Len(Ops(Call(t)))
       \/ /\ pc'[t] = 1 /\ loc'[t] = NoLocals
          /\ \A k \in 1..Len(work'[t]) : GoodCall(t, work'[t][k])

\* No locals are locals.
LEMMA NoLocalsType == NoLocals \in Locals
  BY DEF NoLocals, Locals, MsgSet

\* What Goto does
LEMMA GotoFacts ==
    ASSUME BInv, NEW t \in Thread, NEW w \in Seq(CallSet), NEW n \in Nat \ {0},
           NEW l \in Locals, Goto(t, w, n, l)
    PROVE  /\ ThreadTypes' /\ Others(t)
           /\ work'[t] = w /\ pc'[t] = n /\ loc'[t] = l
  BY DEF BInv, Types, Goto, ThreadTypes, Others

\* What Advance does
LEMMA AdvanceFacts ==
    ASSUME BInv, NEW t \in Thread, Busy(t), NEW n \in Nat \ {0},
           NEW l \in Locals, Advance(t, n, l)
    PROVE  /\ ThreadStep(t)
           /\ \/ /\ pc[t] + n <= Len(Ops(Call(t))) /\ work'[t] = work[t]
                 /\ pc'[t] = pc[t] + n /\ loc'[t] = l
              \/ /\ pc[t] + n > Len(Ops(Call(t))) /\ work'[t] = Tail(work[t])
                 /\ pc'[t] = 1 /\ loc'[t] = NoLocals
  <1>1. /\ pc[t] \in 1..Len(Ops(Call(t))) /\ Tail(work[t]) \in Seq(CallSet)
        /\ \A k \in 1..Len(Tail(work[t])) :
             k + 1 \in 1..Len(work[t]) /\ Tail(work[t])[k] = work[t][k + 1]
        /\ work[t] \in Seq(CallSet)
    BY CallFacts DEF BInv, Types
  <1>2. \A k \in 1..Len(work[t]) : GoodCall(t, work[t][k])
    BY DEF BInv, AtWork
  <1>3. CASE pc[t] + n <= Len(Ops(Call(t)))
    <2>1. Goto(t, work[t], pc[t] + n, l) /\ pc[t] + n \in Nat \ {0} /\ pc[t] + n > 1
      BY <1>1, <1>3 DEF Advance
    <2> QED
      BY <1>1, <1>3, <2>1, GotoFacts DEF ThreadStep
  <1>4. CASE ~(pc[t] + n <= Len(Ops(Call(t))))
    <2>1. Goto(t, Tail(work[t]), 1, NoLocals) /\ 1 \in Nat \ {0}
      BY <1>4 DEF Advance
    <2>2. pc[t] + n > Len(Ops(Call(t)))
      BY <1>1, <1>4
    <2>3. /\ ThreadTypes' /\ Others(t)
          /\ work'[t] = Tail(work[t]) /\ pc'[t] = 1 /\ loc'[t] = NoLocals
      BY <1>1, <2>1, GotoFacts, NoLocalsType
    <2>4. \A k \in 1..Len(work'[t]) : GoodCall(t, work'[t][k])
      BY <1>1, <1>2, <2>3
    <2> QED
      BY <2>2, <2>3, <2>4 DEF ThreadStep
  <1> QED
    BY <1>3, <1>4

\* ... and Continue
LEMMA ContinueFacts ==
    ASSUME BInv, NEW t \in Thread, Busy(t), NEW l \in Locals, Continue(t, l)
    PROVE  /\ ThreadStep(t)
           /\ \/ /\ pc[t] + 1 <= Len(Ops(Call(t))) /\ work'[t] = work[t]
                 /\ pc'[t] = pc[t] + 1 /\ loc'[t] = l
              \/ /\ pc[t] + 1 > Len(Ops(Call(t))) /\ work'[t] = Tail(work[t])
                 /\ pc'[t] = 1 /\ loc'[t] = NoLocals
  <1>1. Advance(t, 1, l) /\ 1 \in Nat \ {0}
    BY DEF Continue
  <1> QED
    BY <1>1, AdvanceFacts

\* Then every thread is still in a handler that it may run.
LEMMA StepAtWork ==
    ASSUME BInv, NEW t \in Thread, Busy(t), ThreadStep(t), metrics' = metrics
    PROVE  AtWork'
  <1> DEFINE Good(u, w) == \A k \in 1..Len(w) : GoodCall(u, w[k])
             In(w, p) == IF w # <<>> THEN p <= Len(Ops(Head(w))) ELSE p = 1
             Fine(u, w, p, l) == Good(u, w) /\ In(w, p) /\ (p = 1 => l = NoLocals)
  <1>1. \A u \in Thread : Fine(u, work[u], pc[u], loc[u])
    BY DEF BInv, AtWork, Busy, Call
  <1>2. \A u \in Thread : Fine(u, work'[u], pc'[u], loc'[u])
    <2> TAKE u \in Thread
    <2>1. CASE u # t
      BY <1>1, <2>1 DEF ThreadStep, Others
    <2>2. CASE u = t
      <3>1. CASE work'[t] = work[t] /\ pc'[t] > 1 /\ pc'[t] <= Len(Ops(Call(t)))
        <4>1. pc'[t] # 1
          BY <3>1 DEF ThreadStep, ThreadTypes
        <4> QED
          BY <1>1, <2>2, <3>1, <4>1 DEF Busy, Call
      <3>2. CASE /\ pc'[t] = 1 /\ loc'[t] = NoLocals
                 /\ \A k \in 1..Len(work'[t]) : GoodCall(t, work'[t][k])
        <4>1. ASSUME work'[t] # <<>> PROVE 1 <= Len(Ops(Head(work'[t])))
          <5>1. Head(work'[t]) = work'[t][1] /\ 1 \in 1..Len(work'[t])
            BY <4>1 DEF ThreadStep, ThreadTypes
          <5>2. GoodCall(t, Head(work'[t]))
            BY <3>2, <5>1
          <5> QED
            BY <5>2, CallLength DEF BInv, Types
        <4> QED
          BY <2>2, <3>2, <4>1
      <3> QED
        BY <2>2, <3>1, <3>2 DEF ThreadStep
    <2> QED
      BY <2>1, <2>2
  <1>3. \A u \in Thread : /\ \A k \in 1..Len(work'[u]) : GoodCall(u, work'[u][k])
                          /\ IF work'[u] # <<>> THEN pc'[u] <= Len(Ops(Head(work'[u])))
                             ELSE pc'[u] = 1
                          /\ pc'[u] = 1 => loc'[u] = NoLocals
    BY <1>2
  <1> QED
    BY <1>3 DEF AtWork, Busy, Call, GoodCall, Ops, Index

-----------------------------------------------------------------------------
(***************************************************************************)
(* What threads are told to do                                             *)
(***************************************************************************)

\* Calls that thread t may make
Calls(t, w) == w \in Seq(CallSet) /\ \A k \in 1..Len(w) : GoodCall(t, w[k])

\* The calls of t that tell the metrics of event ev, which is about x
Informs(t, ev, x, w) ==
    /\ Calls(t, w)
    /\ \A k \in 1..Len(w) : /\ w[k].ev = ev /\ w[k].metric \in Index
                            /\ ev # "flowUpdate" => w[k].arg = x
    /\ \A j, k \in 1..Len(w) : j # k => w[j].metric # w[k].metric
    /\ \A i \in Index : ev \in Subscribed(metrics[i]) =>
         \E k \in 1..Len(w) : w[k].metric = i

\* A thread that notifies runs handlers of metrics that have subscribed, each
\* of them once.
LEMMA NotifyCalls ==
    ASSUME Types, NEW t, NEW ev \in Events, NEW x \in Names,
           ev \in {"timer", "interval"} => t \in Callback,
           ev = "response" => x \in Name
    PROVE  Informs(t, ev, x, Notify(ev, x))
  <1> DEFINE obs == Observers(ev)
             n == Len(obs)
             f == [k \in 1..n |->
                     [metric |-> obs[k], ev |-> ev,
                      arg |-> IF ev = "flowUpdate" THEN payload[metrics[obs[k]]] ELSE x]]
  <1>1. Notify(ev, x) = f
    BY DEF Notify
  <1>2. Tells(obs, Len(metrics), ev) /\ metrics \in Seq(Class) /\ payload \in [Tps -> Nat]
    BY ObserversTold DEF Types
  <1>3. /\ n \in Nat /\ obs \in Seq(Index)
        /\ \A k \in 1..n : obs[k] \in Index /\ ev \in Subscribed(metrics[obs[k]])
        /\ \A j, k \in 1..n : j < k => obs[k] < obs[j]
        /\ \A i \in Index : ev \in Subscribed(metrics[i]) => \E k \in 1..n : obs[k] = i
    <2>1. obs \in Seq(Index)
      BY <1>2 DEF Tells, Index
    <2>2. n \in Nat /\ \A k \in 1..n : obs[k] \in Index
      BY <2>1
    <2> QED
      BY <1>2, <2>1, <2>2 DEF Tells, Index
  <1> HIDE DEF obs, n
  <1>4. \A k \in 1..n : f[k] = [metric |-> obs[k], ev |-> ev,
                       arg |-> IF ev = "flowUpdate" THEN payload[metrics[obs[k]]] ELSE x]
    OBVIOUS
  <1>5. ASSUME NEW k \in 1..n
        PROVE  /\ GoodCall(t, f[k]) /\ f[k] \in CallSet /\ f[k].ev = ev
               /\ f[k].metric = obs[k] /\ (ev # "flowUpdate" => f[k].arg = x)
    <2>1. obs[k] \in Index /\ ev \in Subscribed(metrics[obs[k]]) /\ metrics[obs[k]] \in Class
      BY <1>2, <1>3 DEF Index
    <2>2. CASE ev = "flowUpdate"
      <3>1. metrics[obs[k]] \in Tps
        BY <2>1, <2>2 DEF Class, Subscribed, Avgs, Rates, Tps, Hashes, Maps
      <3>2. payload[metrics[obs[k]]] \in Nat
        BY <1>2, <3>1
      <3>3. f[k] = [metric |-> obs[k], ev |-> ev, arg |-> payload[metrics[obs[k]]]]
        BY <1>4, <2>2
      <3> HIDE DEF f
      <3> QED
        BY <2>1, <2>2, <3>2, <3>3 DEF GoodCall, CallSet, Index
    <2>3. CASE ev # "flowUpdate"
      <3>3. f[k] = [metric |-> obs[k], ev |-> ev, arg |-> x]
        BY <1>4, <2>3
      <3> HIDE DEF f
      <3> QED
        BY <2>1, <2>3, <3>3 DEF GoodCall, CallSet, Index, Names, Events, Parts
    <2> QED
      BY <2>2, <2>3
  <1>6. f \in Seq(CallSet) /\ Len(f) = n
    <2>1. f \in [1..n -> CallSet]
      BY <1>5
    <2> QED
      BY <1>3, <2>1
  <1> HIDE DEF f
  <1>7. ASSUME NEW j \in 1..n, NEW k \in 1..n, j # k PROVE obs[j] # obs[k]
    <2>1. /\ obs[j] \in Int /\ obs[k] \in Int
          /\ (j < k => obs[k] < obs[j]) /\ (k < j => obs[j] < obs[k])
      BY <1>3 DEF Index
    <2>2. j < k \/ k < j
      BY <1>3, <1>7
    <2> QED
      BY <2>1, <2>2
  <1> QED
    BY <1>1, <1>3, <1>5, <1>6, <1>7 DEF Calls, Informs

\* Two sequences of calls, one after the other
LEMMA CallsJoined ==
    ASSUME NEW t, NEW v, NEW w, Calls(t, v), Calls(t, w)
    PROVE  /\ Calls(t, v \o w) /\ Len(v \o w) = Len(v) + Len(w)
           /\ \A k \in 1..Len(v) : (v \o w)[k] = v[k]
           /\ \A k \in 1..Len(w) : (v \o w)[Len(v) + k] = w[k]
           /\ \A k \in 1..Len(v \o w) :
                \/ k \in 1..Len(v) /\ (v \o w)[k] = v[k]
                \/ k - Len(v) \in 1..Len(w) /\ (v \o w)[k] = w[k - Len(v)]
  <1>1. v \in Seq(CallSet) /\ w \in Seq(CallSet)
    BY DEF Calls
  <1>2. /\ v \o w \in Seq(CallSet) /\ Len(v \o w) = Len(v) + Len(w)
        /\ \A k \in 1..Len(v) : (v \o w)[k] = v[k]
        /\ \A k \in 1..Len(w) : (v \o w)[Len(v) + k] = w[k]
    BY <1>1
  <1>3. \A k \in 1..Len(v \o w) :
                \/ k \in 1..Len(v) /\ (v \o w)[k] = v[k]
                \/ k - Len(v) \in 1..Len(w) /\ (v \o w)[k] = w[k - Len(v)]
    BY <1>1
  <1> QED
    BY <1>2, <1>3 DEF Calls

\* The parts of processData are calls of a callback.
LEMMA OwnCalls ==
    ASSUME NEW t \in Callback, NEW part \in Parts
    PROVE  /\ Calls(t, Own(part)) /\ Len(Own(part)) = 1
           /\ Own(part)[1] = [metric |-> 0, ev |-> part, arg |-> None]
  BY DEF Calls, Own, GoodCall, CallSet, Parts

\* So are the handlers that a flow causes.
LEMMA ExtractCalls ==
    ASSUME Types, NEW t, NEW ev \in {"newFlow", "request", "response", "flowUpdate"},
           NEW x \in Names, ev = "response" => x \in Name
    PROVE  /\ Calls(t, ExtractData(ev, x))
           /\ \A k \in 1..Len(ExtractData(ev, x)) :
                /\ ExtractData(ev, x)[k].ev \in {ev, "flowUpdate"}
                /\ ExtractData(ev, x)[k].metric \in Index
  <1> DEFINE a == Notify(ev, x)
             b == Notify("flowUpdate", x)
  <1>1. /\ Calls(t, a) /\ Calls(t, b)
        /\ \A k \in 1..Len(a) : a[k].ev = ev /\ a[k].metric \in Index
        /\ \A k \in 1..Len(b) : b[k].ev = "flowUpdate" /\ b[k].metric \in Index
    <2>1. /\ ev \in Events /\ "flowUpdate" \in Events
          /\ (ev \in {"timer", "interval"} => t \in Callback)
          /\ ("flowUpdate" \in {"timer", "interval"} => t \in Callback)
          /\ ("flowUpdate" = "response" => x \in Name)
      BY DEF Events
    <2>2. Informs(t, ev, x, a)
      BY <2>1, NotifyCalls
    <2>3. Informs(t, "flowUpdate", x, b)
      BY <2>1, NotifyCalls
    <2> HIDE DEF a, b
    <2> QED
      BY <2>2, <2>3 DEF Informs
  <1> DEFINE P(w) == /\ Calls(t, w)
                     /\ \A k \in 1..Len(w) : /\ w[k].ev \in {ev, "flowUpdate"}
                                              /\ w[k].metric \in Index
             u == IF ev = "newFlow" THEN a ELSE <<>>
             v == IF ev \in {"request", "response"} THEN a ELSE <<>>
  <1>2. ExtractData(ev, x) = (u \o b) \o v
    BY DEF ExtractData
  <1> HIDE DEF a, b
  <1>3. ASSUME NEW p, NEW q, P(p), P(q) PROVE P(p \o q)
    BY <1>3, CallsJoined
  <1>4. P(<<>>)
    BY DEF Calls
  <1>5. P(u) /\ P(b) /\ P(v)
    BY <1>1, <1>4
  <1> HIDE DEF P, u, v
  <1>6. P((u \o b) \o v)
    BY <1>3, <1>5
  <1> QED
    BY <1>2, <1>6 DEF P

\* The rest of a thread's calls
LEMMA RestCalls ==
    ASSUME BInv, NEW t \in Thread, Busy(t)
    PROVE  Calls(t, work[t]) /\ Calls(t, Tail(work[t]))
  <1>1. \A k \in 1..Len(work[t]) : GoodCall(t, work[t][k])
    BY DEF BInv, AtWork
  <1>2. work[t] \in Seq(CallSet)
    BY DEF BInv, Types
  <1> QED
    BY <1>1, <1>2, CallFacts DEF Calls

-----------------------------------------------------------------------------
(***************************************************************************)
(* Every step keeps the types                                              *)
(***************************************************************************)

\* The parts of an operation
LEMMA OpParts ==
    /\ \A k, v : Op(k, v).kind = k /\ Op(k, v).var = v /\ Op(k, v).arg = None
    /\ \A k, v, x : /\ OpOf(k, v, x).kind = k /\ OpOf(k, v, x).var = v
                   /\ OpOf(k, v, x).arg = x
    /\ \A o \in AvgOps :
         \/ o.kind = "send"
         \/ /\ o.kind \in AvgKinds /\ o.var \in ValueName /\ o.arg \in Int \cup {None}
            /\ o.kind = "msg" => o.var \in {"avg", "min", "max"}
  <1>1. \A k, v : Op(k, v).kind = k /\ Op(k, v).var = v /\ Op(k, v).arg = None
    BY DEF Op
  <1>2. \A k, v, x : /\ OpOf(k, v, x).kind = k /\ OpOf(k, v, x).var = v
                    /\ OpOf(k, v, x).arg = x
    BY DEF OpOf
  <1>3. ASSUME NEW o \in AvgOps
        PROVE  \/ o.kind = "send"
               \/ /\ o.kind \in AvgKinds /\ o.var \in ValueName /\ o.arg \in Int \cup {None}
                  /\ o.kind = "msg" => o.var \in {"avg", "min", "max"}
    <2>1. CASE o = Op("send", "")
      BY <1>1, <2>1
    <2>2. CASE o # Op("send", "")
      BY <2>2 DEF AvgOps
    <2> QED
      BY <2>1, <2>2
  <1> QED
    BY <1>1, <1>2, <1>3

\* The kind of an operation
LEMMA KindOf ==
    ASSUME NEW o, NEW x, NEW K, \E k \in K : o = Op(k, "") \/ o = OpOf(k, "", x)
    PROVE  o.kind \in K
  <1>1. PICK k \in K : o = Op(k, "") \/ o = OpOf(k, "", x)
    OBVIOUS
  <1>2. Op(k, "").kind = k /\ OpOf(k, "", x).kind = k
    BY DEF Op, OpOf
  <1>3. CASE o = Op(k, "")
    BY <1>2, <1>3, Zenon
  <1>4. CASE o = OpOf(k, "", x)
    BY <1>2, <1>4, Zenon
  <1> QED
    BY <1>1, <1>3, <1>4

\* The operation tells the place.
LEMMA Located ==
    ASSUME BInv, NEW t \in Thread, Busy(t)
    PROVE  LET k == Now(t).kind IN
           /\ k \in AvgKinds => AvgAt(t)
           /\ k = "send" => AvgAt(t) \/ HashEndAt(t) \/ MapEndAt(t)
           /\ k \in {"stepRead", "stepWrite", "stepReset", "hashProcess", "branch"} => OwnAt(t)
           /\ k \in {"totRead", "totWrite"} => HashAt(t) \/ MapAt(t)
           /\ k \in {"find", "create", "cntRead", "cntWrite"} => HashAt(t)
           /\ k \in {"lockAll", "walk", "unlockAll"} => HashEndAt(t)
           /\ k \in {"freeEnter", "freeLeave"} => HashEndAt(t) \/ MapEndAt(t)
           /\ k \in {"mapEnter", "mapLeave"} => MapAt(t)
           /\ k \in {"iterEnter", "iterLeave", "ifNoTotal"} => MapEndAt(t)
           /\ k \in AvgKinds \cup {"send", "stepRead", "stepWrite", "stepReset",
                "hashProcess", "branch", "totRead", "totWrite", "find", "create",
                "cntRead", "cntWrite", "lockAll", "walk", "unlockAll", "freeEnter",
                "freeLeave", "mapEnter", "mapLeave", "iterEnter", "iterLeave", "ifNoTotal"}
  <1> DEFINE kd == Now(t).kind
  <1>1. CASE OwnAt(t)
    <2> DEFINE K == {"stepRead", "stepWrite", "stepReset", "hashProcess", "branch"}
    <2>1. \E a \in K : Now(t) = Op(a, "") \/ Now(t) = OpOf(a, "", Call(t).arg)
      BY <1>1, Zenon DEF OwnAt
    <2>2. kd \in K
      <3> HIDE DEF K
      <3> QED
        BY <2>1, KindOf
    <2> QED
      BY <1>1, <2>2 DEF AvgKinds, kd
  <1>2. CASE HashAt(t)
    <2> DEFINE K == {"totRead", "totWrite", "find", "create", "cntRead", "cntWrite"}
    <2>1. \E a \in K : Now(t) = Op(a, "") \/ Now(t) = OpOf(a, "", Call(t).arg)
      BY <1>2, Zenon DEF HashAt
    <2>2. kd \in K
      <3> HIDE DEF K
      <3> QED
        BY <2>1, KindOf
    <2> QED
      BY <1>2, <2>2 DEF AvgKinds, kd
  <1>3. CASE HashEndAt(t)
    <2> DEFINE K == {"lockAll", "walk", "unlockAll", "send", "freeEnter", "freeLeave"}
    <2>1. \E a \in K : Now(t) = Op(a, "") \/ Now(t) = OpOf(a, "", Call(t).arg)
      BY <1>3, Zenon DEF HashEndAt
    <2>2. kd \in K
      <3> HIDE DEF K
      <3> QED
        BY <2>1, KindOf
    <2> QED
      BY <1>3, <2>2 DEF AvgKinds, kd
  <1>4. CASE MapAt(t)
    <2> DEFINE K == {"totRead", "totWrite", "mapEnter", "mapLeave"}
    <2>1. \E a \in K : Now(t) = Op(a, "") \/ Now(t) = OpOf(a, "", Call(t).arg)
      BY <1>4, Zenon DEF MapAt
    <2>2. kd \in K
      <3> HIDE DEF K
      <3> QED
        BY <2>1, KindOf
    <2> QED
      BY <1>4, <2>2 DEF AvgKinds, kd
  <1>5. CASE MapEndAt(t)
    <2> DEFINE K == {"ifNoTotal", "iterEnter", "iterLeave", "send", "freeEnter", "freeLeave"}
    <2>1. \E a \in K : Now(t) = Op(a, "") \/ Now(t) = OpOf(a, "", Call(t).arg)
      BY <1>5, Zenon DEF MapEndAt
    <2>2. kd \in K
      <3> HIDE DEF K
      <3> QED
        BY <2>1, KindOf
    <2> QED
      BY <1>5, <2>2 DEF AvgKinds, kd
  <1>6. CASE AvgAt(t)
    <2>1. kd \in AvgKinds \/ kd = "send"
      BY <1>6, OpParts DEF AvgAt
    <2> QED
      BY <1>6, <2>1 DEF AvgKinds, kd
  <1> QED
    BY <1>1, <1>2, <1>3, <1>4, <1>5, <1>6, Places

\* A thread's step that keeps what is shared within its types
LEMMA BInvStep ==
    ASSUME BInv, NEW t \in Thread, Busy(t), ThreadStep(t),
           UNCHANGED <<setup, metrics, ticks, payload, dead, overlapped, steady, failed>>,
           obj' \in [Index -> MetricSet], hist' \in [Index -> HistSet],
           int_step' \in Int, events' \in Nat
    PROVE  BInv'
  <1>1. AtWork'
    BY StepAtWork
  <1>2. ThreadTypes'
    BY DEF ThreadStep
  <1>3. Index' = Index
    BY SameCalls
  <1> QED
    BY <1>1, <1>2, <1>3 DEF BInv, Types, ThreadTypes

\* The place of a metric's operation
LEMMA MetricPlace ==
    ASSUME BInv, NEW t \in Thread, At(t) \in Index
    PROVE  /\ obj[At(t)] \in MetricSet /\ hist[At(t)] \in HistSet
           /\ metrics[At(t)] \in Class
  BY DEF BInv, Types, Index

\* Nothing happens to the metrics other than the one that t is at, ...
Else(t) == \A j \in Index : j # At(t) => obj'[j] = obj[j] /\ hist'[j] = hist[j]

\* ... and to it only what has to do with averages.
SameLists == \A j \in Index :
    /\ obj'[j].total = obj[j].total /\ obj'[j].nodes = obj[j].nodes
    /\ obj'[j].holder = obj[j].holder /\ obj'[j].cfl = obj[j].cfl
    /\ obj'[j].users = obj[j].users
    /\ hist'[j].done = hist[j].done

\* One metric is given other members.
LEMMA PutMetric ==
    ASSUME BInv, NEW i \in Index, NEW m \in MetricSet, obj' = [obj EXCEPT ![i] = m]
    PROVE  /\ obj' \in [Index -> MetricSet] /\ obj'[i] = m
           /\ \A j \in Index : j # i => obj'[j] = obj[j]
  BY DEF BInv, Types

\* ... or another history.
LEMMA PutHist ==
    ASSUME BInv, NEW i \in Index, NEW h \in HistSet, hist' = [hist EXCEPT ![i] = h]
    PROVE  /\ hist' \in [Index -> HistSet] /\ hist'[i] = h
           /\ \A j \in Index : j # i => hist'[j] = hist[j]
  BY DEF BInv, Types

\* Members that change one at a time
LEMMA MetricFields ==
    ASSUME NEW m \in MetricSet
    PROVE  /\ \A x \in Int : [m EXCEPT !.timerRef = x] \in MetricSet
           /\ \A x \in Int : [m EXCEPT !.intervalRef = x] \in MetricSet
           /\ \A x \in Int : [m EXCEPT !.total = x] \in MetricSet
           /\ \A x \in Seq(RecordSet) : [m EXCEPT !.nodes = x] \in MetricSet
           /\ \A x \in Thread \cup {None} : [m EXCEPT !.holder = x] \in MetricSet
           /\ \A x \in Seq(EntrySet) : [m EXCEPT !.cfl = x] \in MetricSet
           /\ \A x \in SUBSET Thread : [m EXCEPT !.users = x] \in MetricSet
           /\ m.timerRef \in Int /\ m.intervalRef \in Int /\ m.total \in Int
           /\ m.nodes \in Seq(RecordSet) /\ m.cfl \in Seq(EntrySet)
           /\ m.users \in SUBSET Thread /\ m.holder \in Thread \cup {None}
  BY DEF MetricSet

\* Modify works on a Value.
LEMMA ModifyBasic ==
    ASSUME BInv, NEW t \in Thread, Modify(t)
    PROVE  /\ BInv' /\ AvgAt(t) /\ ThreadStep(t) /\ Now(t).var \in ValueName
           /\ Arg(t) \in Int /\ Else(t) /\ SameLists
           /\ UNCHANGED <<env, int_step, failed>>
           /\ obj'[At(t)].val = [obj[At(t)].val EXCEPT ![Now(t).var] =
                Modified(Now(t).kind, obj[At(t)].val[Now(t).var], Arg(t))]
  <1> DEFINE kd == Now(t).kind
             vn == Now(t).var
             i == At(t)
  <1>1. Busy(t) /\ kd \in {"set", "add", "minimize", "maximize"}
    BY DEF Modify
  <1>2. AvgAt(t)
    BY <1>1, Located DEF AvgKinds
  <1>3. i \in Index /\ Now(t) \in AvgOps
    BY <1>2 DEF AvgAt
  <1>4. vn \in ValueName /\ Now(t).arg \in Int \cup {None}
    BY <1>1, <1>3, OpParts
  <1>5. loc[t] \in Locals
    BY DEF BInv, Types
  <1>6. Arg(t) \in Int
    BY <1>4, <1>5 DEF Arg, Locals
  <1>7. obj[i] \in MetricSet /\ hist[i] \in HistSet
    BY <1>3, MetricPlace
  <1>8. ThreadStep(t)
    BY <1>1, <1>5, ContinueFacts DEF Modify
  <1>9. obj[i].val[vn] \in Int
    BY <1>4, <1>7 DEF MetricSet
  <1>10. Modified(kd, obj[i].val[vn], Arg(t)) \in Int
    BY <1>1, <1>6, <1>9 DEF Modified
  <1>11. /\ obj' \in [Index -> MetricSet] /\ \A j \in Index : j # i => obj'[j] = obj[j]
         /\ obj'[i].val = [obj[i].val EXCEPT ![vn] = Modified(kd, obj[i].val[vn], Arg(t))]
         /\ obj'[i].total = obj[i].total /\ obj'[i].nodes = obj[i].nodes
         /\ obj'[i].holder = obj[i].holder /\ obj'[i].cfl = obj[i].cfl
         /\ obj'[i].users = obj[i].users
    <2>1. obj' = [obj EXCEPT ![i].val[vn] = Modified(kd, @, Arg(t))]
      BY DEF Modify
    <2>2. obj \in [Index -> MetricSet]
      BY DEF BInv, Types
    <2> HIDE DEF kd, vn, i
    <2> DEFINE q == [obj[i].val EXCEPT ![vn] = Modified(kd, obj[i].val[vn], Arg(t))]
               m == [obj[i] EXCEPT !.val = q]
    <2>3. obj' = [obj EXCEPT ![i] = m]
      BY <1>3, <1>4, <2>1, <2>2
    <2>4. q \in [ValueName -> Int]
      BY <1>4, <1>7, <1>10 DEF MetricSet
    <2> HIDE DEF q
    <2>5. /\ m \in MetricSet /\ m.val = q
          /\ m.total = obj[i].total /\ m.nodes = obj[i].nodes
          /\ m.holder = obj[i].holder /\ m.cfl = obj[i].cfl /\ m.users = obj[i].users
      BY <1>7, <2>4 DEF MetricSet
    <2> HIDE DEF m
    <2>6. /\ obj' \in [Index -> MetricSet] /\ obj'[i] = m
          /\ \A j \in Index : j # i => obj'[j] = obj[j]
      BY <1>3, <2>3, <2>5, PutMetric DEF i
    <2> QED
      BY <2>5, <2>6 DEF q
  <1>12. /\ hist' \in [Index -> HistSet] /\ \A j \in Index : j # i => hist'[j] = hist[j]
         /\ hist'[i].done = hist[i].done
    <2> DEFINE P == metrics[i] \in Rates /\ vn = "subtotal" /\ kd = "add"
               Q == P /\ \E u \in Callback : PastRead(u, i)
               R == metrics[i] \in {"ErrRate", "Rst"} /\ Disturbed(t, i)
    <2>1. hist' = [hist EXCEPT
             ![i].received = @ + (IF P THEN 1 ELSE 0),
             ![i].exposed = @ + (IF Q THEN 1 ELSE 0),
             ![i].met = @ \/ R]
      BY DEF Modify
    <2>2. hist \in [Index -> HistSet]
      BY DEF BInv, Types
    <2>3. R \in BOOLEAN
      BY DEF Disturbed
    <2> HIDE DEF kd, vn, i, P, Q, R
    <2>4. ASSUME NEW a \in Nat, NEW b \in Nat, NEW c \in BOOLEAN
          PROVE  [hist[i] EXCEPT !.received = a, !.exposed = b, !.met = c] \in HistSet
      BY <1>7 DEF HistSet
    <2>5. hist[i].received \in Nat /\ hist[i].exposed \in Nat /\ hist[i].met \in BOOLEAN
      BY <1>7 DEF HistSet
    <2>6. hist' = [hist EXCEPT ![i] = [hist[i] EXCEPT !.received = hist[i].received + (IF P THEN 1 ELSE 0),
                     !.exposed = hist[i].exposed + (IF Q THEN 1 ELSE 0), !.met = hist[i].met \/ R]]
      BY <1>3, <2>1, <2>2
    <2>7. (hist[i].met \/ R) \in BOOLEAN
      BY <2>3, <2>5
    <2>70. /\ hist[i].received + (IF P THEN 1 ELSE 0) \in Nat
           /\ hist[i].exposed + (IF Q THEN 1 ELSE 0) \in Nat
      BY <2>5
    <2>8. [hist[i] EXCEPT !.received = hist[i].received + (IF P THEN 1 ELSE 0),
                     !.exposed = hist[i].exposed + (IF Q THEN 1 ELSE 0), !.met = hist[i].met \/ R] \in HistSet
      BY <2>4, <2>7, <2>70, Zenon
    <2> DEFINE h == [hist[i] EXCEPT !.received = hist[i].received + (IF P THEN 1 ELSE 0),
                     !.exposed = hist[i].exposed + (IF Q THEN 1 ELSE 0), !.met = hist[i].met \/ R]
    <2>9. h.done = hist[i].done
      BY <1>7 DEF HistSet
    <2> HIDE DEF h
    <2>10. /\ hist' \in [Index -> HistSet] /\ hist'[i] = h
           /\ \A j \in Index : j # i => hist'[j] = hist[j]
      BY <1>3, <2>6, <2>8, PutHist DEF h, i
    <2> QED
      BY <2>9, <2>10
  <1>13. BInv'
    <2>1. int_step' \in Int /\ events' \in Nat
          /\ UNCHANGED <<setup, metrics, ticks, payload, dead, overlapped, steady, failed>>
      BY DEF BInv, Types, Modify, env
    <2> QED
      BY <1>1, <1>8, <1>11, <1>12, <2>1, BInvStep
  <1>14. Else(t)
    BY <1>11, <1>12 DEF Else
  <1>15. SameLists
    BY <1>11, <1>12 DEF SameLists
  <1>16. UNCHANGED <<env, int_step, failed>>
    BY DEF Modify
  <1> QED
    BY <1>2, <1>4, <1>6, <1>8, <1>11, <1>13, <1>14, <1>15, <1>16

\* Locals that a step changes
LEMMA LocalTypes ==
    ASSUME NEW l \in Locals
    PROVE  /\ \A r \in Int : [l EXCEPT !.reg = r] \in Locals
           /\ \A r \in Int : [l EXCEPT !.num = r] \in Locals
           /\ \A n \in Nat : [l EXCEPT !.node = n] \in Locals
           /\ \A m \in MsgSet : [l EXCEPT !.msg = m] \in Locals
           /\ l.msg \in MsgSet /\ l.reg \in Int /\ l.num \in Int /\ l.node \in Nat
           /\ \A v \in {"avg", "min", "max"}, r \in Int : [l EXCEPT !.msg[v] = r] \in Locals
  <1>1. /\ \A r \in Int : [l EXCEPT !.reg = r] \in Locals
        /\ \A r \in Int : [l EXCEPT !.num = r] \in Locals
        /\ \A n \in Nat : [l EXCEPT !.node = n] \in Locals
        /\ \A m \in MsgSet : [l EXCEPT !.msg = m] \in Locals
        /\ l.msg \in MsgSet /\ l.reg \in Int /\ l.num \in Int /\ l.node \in Nat
    BY DEF Locals
  <1>2. \A v \in {"avg", "min", "max"}, r \in Int : [l.msg EXCEPT ![v] = r] \in MsgSet
    <2>1. l.msg \in [avg : Int, min : Int, max : Int]
      BY <1>1 DEF MsgSet
    <2> DEFINE m == l.msg
    <2> HIDE DEF m
    <2>2. ASSUME NEW r \in Int
          PROVE  /\ [m EXCEPT !["avg"] = r] \in MsgSet
                 /\ [m EXCEPT !["min"] = r] \in MsgSet
                 /\ [m EXCEPT !["max"] = r] \in MsgSet
      BY <2>1 DEF MsgSet, m
    <2> QED
      BY <2>2 DEF m
  <1>3. \A v \in {"avg", "min", "max"}, r \in Int : [l EXCEPT !.msg[v] = r] \in Locals
    <2> TAKE v \in {"avg", "min", "max"}, r \in Int
    <2>1. [l EXCEPT !.msg[v] = r] = [l EXCEPT !.msg = [l.msg EXCEPT ![v] = r]]
      OBVIOUS
    <2> QED
      BY <1>1, <1>2, <2>1
  <1> QED
    BY <1>1, <1>3

\* Read only changes the locals.
LEMMA ReadBasic ==
    ASSUME BInv, NEW t \in Thread, Read(t)
    PROVE  /\ BInv' /\ AvgAt(t) /\ ThreadStep(t)
           /\ UNCHANGED <<env, obj, int_step, failed, hist>>
  <1>0. Busy(t) /\ UNCHANGED <<env, obj, int_step, failed, hist>>
    BY DEF Read
  <1>1. Now(t).kind \in AvgKinds
    BY DEF Read, AvgKinds
  <1>2. AvgAt(t)
    BY <1>0, <1>1, Located
  <1>3. At(t) \in Index /\ Now(t) \in AvgOps /\ loc[t] \in Locals
    BY <1>2 DEF AvgAt, BInv, Types
  <1>4. /\ Now(t).var \in ValueName
        /\ Now(t).kind = "msg" => Now(t).var \in {"avg", "min", "max"}
    BY <1>1, <1>3, OpParts DEF AvgKinds
  <1>5. obj[At(t)] \in MetricSet
    BY <1>3, MetricPlace
  <1>6. Cur(t) \in Int /\ obj[At(t)].intervalRef \in Int
    BY <1>4, <1>5 DEF Cur, MetricSet
  <1> DEFINE v == Cur(t)
             o == obj[At(t)]
  <1>7. Interval \in Nat \ {0} /\ Scale \in Nat \ {0}
    BY MetricsAssumption
  <1>8. /\ Got(v) \in Int /\ v \div Interval \in Int
        /\ (v - o.intervalRef) \div Interval \in Int
    BY <1>6, <1>7 DEF Got
  <1>9. loc[t].num \in Int
    BY <1>3 DEF Locals
  <1>10. (IF v > 0 THEN (loc[t].num * Scale) \div v
          ELSE IF loc[t].num = 0 THEN NaN ELSE Inf) \in Int
    BY <1>6, <1>7, <1>9 DEF NaN, Inf
  <1>11. \E n \in {1, 2, 3, 4}, l \in Locals : Advance(t, n, l)
    <2> DEFINE kd == Now(t).kind
               w == IF v > 0 THEN (loc[t].num * Scale) \div v
                    ELSE IF loc[t].num = 0 THEN NaN ELSE Inf
    <2>1. \/ Continue(t, Local(t, Got(v)))
          \/ Continue(t, Local(t, v \div Interval))
          \/ Continue(t, Local(t, (v - o.intervalRef) \div Interval))
          \/ Continue(t, [loc[t] EXCEPT !.num = v])
          \/ Continue(t, Local(t, w))
          \/ Advance(t, 3, Local(t, 0))
          \/ Continue(t, loc[t])
          \/ Advance(t, 4, loc[t])
          \/ kd = "msg" /\ Continue(t, [loc[t] EXCEPT !.msg[Now(t).var] = v])
          \/ Advance(t, 2, loc[t])
      BY DEF Read
    <2>2. w \in Int
      BY <1>10
    <2> HIDE DEF w, v, o
    <2>3. /\ Local(t, Got(v)) \in Locals /\ Local(t, v \div Interval) \in Locals
          /\ Local(t, (v - o.intervalRef) \div Interval) \in Locals
          /\ [loc[t] EXCEPT !.num = v] \in Locals
          /\ Local(t, w) \in Locals /\ Local(t, 0) \in Locals
      <3>1. \A r \in Int : Local(t, r) \in Locals
        BY <1>3, LocalTypes DEF Local
      <3>2. \A r \in Int : [loc[t] EXCEPT !.num = r] \in Locals
        BY <1>3, LocalTypes
      <3>3. v \in Int /\ 0 \in Int
        BY <1>6 DEF v
      <3> QED
        BY <1>8, <2>2, <3>1, <3>2, <3>3 DEF v, o
    <2>4. kd = "msg" => [loc[t] EXCEPT !.msg[Now(t).var] = v] \in Locals
      BY <1>3, <1>4, <1>6, LocalTypes DEF v
    <2> HIDE DEF kd
    <2>5. 1 \in {1, 2, 3, 4} /\ 2 \in {1, 2, 3, 4} /\ 3 \in {1, 2, 3, 4} /\ 4 \in {1, 2, 3, 4}
      OBVIOUS
    <2> QED
      BY <1>3, <2>1, <2>3, <2>4, <2>5, Zenon DEF Continue
  <1>12. ThreadStep(t)
    BY <1>0, <1>11, AdvanceFacts
  <1>13. BInv'
    <2>1. /\ obj' \in [Index -> MetricSet] /\ hist' \in [Index -> HistSet]
          /\ int_step' \in Int /\ events' \in Nat
          /\ UNCHANGED <<setup, metrics, ticks, payload, dead, overlapped, steady, failed>>
      BY <1>0 DEF BInv, Types, env
    <2> QED
      BY <1>0, <1>12, <2>1, BInvStep
  <1> QED
    BY <1>0, <1>2, <1>12, <1>13

\* One entry more in the list to send
LEMMA CflAddType ==
    ASSUME NEW list \in Seq(EntrySet), NEW node \in RecordSet, NEW total \in Int
    PROVE  /\ CflAdd(list, node, total) \in Seq(EntrySet)
           /\ Len(list) <= CflSize => Len(CflAdd(list, node, total)) <= CflSize
  <1> DEFINE e == <<node.name, node.cnt, total>>
  <1>1. e \in EntrySet
    BY DEF EntrySet, RecordSet
  <1>2. CflSize \in Nat
    BY MetricsAssumption
  <1> HIDE DEF e
  <1>3. Append(list, e) \in Seq(EntrySet) /\ Len(Append(list, e)) = Len(list) + 1
    BY <1>1
  <1>4. CASE total > 0 /\ node.cnt * CflSize > total /\ Len(list) < CflSize
    <2>1. CflAdd(list, node, total) = Append(list, e)
      BY <1>4 DEF CflAdd, e
    <2> QED
      BY <1>2, <1>3, <1>4, <2>1
  <1>5. CASE ~(total > 0 /\ node.cnt * CflSize > total /\ Len(list) < CflSize)
    <2>1. CflAdd(list, node, total) = list
      BY <1>5 DEF CflAdd
    <2> QED
      BY <2>1
  <1> QED
    BY <1>4, <1>5

\* f[k] is the list after the first k records
IsCfl(f, list, nodes, total) ==
    /\ f \in [0..Len(nodes) -> Seq(EntrySet)] /\ f[0] = list
    /\ \A k \in 1..Len(nodes) : f[k] = CflAdd(f[k - 1], nodes[k], total)

\* The loop over the records of a map
LEMMA CflRun ==
    ASSUME NEW list \in Seq(EntrySet), NEW nodes \in Seq(RecordSet), NEW total \in Int
    PROVE  \E f : /\ IsCfl(f, list, nodes, total)
                  /\ CflAddAll(list, nodes, total) = f[Len(nodes)]
  <1> DEFINE n == Len(nodes)
             A == Seq(EntrySet)
             C(l, k) == CflAdd(l, nodes[k], total)
             F == CHOOSE f : f = [k \in 0..n |-> IF k = 0 THEN list ELSE C(f[k - 1], k)]
             g == [x \in A \X (1..n) |-> C(x[1], x[2])]
  <1>1. n \in Nat /\ list \in A
    OBVIOUS
  <1>2. CflAddAll(list, nodes, total) = F[n]
    BY DEF CflAddAll
  <1>3. \A a \in A, k \in 1..n : C(a, k) \in A
    BY CflAddType
  <1> HIDE DEF C
  <1>4. g \in [A \X (1..n) -> A]
    BY <1>3
  <1>40. \A a \in A, k \in 1..n : g[<<a, k>>] = C(a, k)
    OBVIOUS
  <1> HIDE DEF n, A, g
  <1>5. PICK h : IsRun(h, n, A, list, g)
    BY <1>1, <1>4, RunExists, Zenon
  <1>6. /\ h \in [0..n -> A] /\ h[0] = list
        /\ \A k \in 1..n : h[k] = g[<<h[k - 1], k>>]
    BY <1>5 DEF IsRun
  <1>7. \A k \in 1..n : h[k] = C(h[k - 1], k)
    <2> TAKE k \in 1..n
    <2>1. k - 1 \in 0..n
      BY <1>1
    <2>2. h[k - 1] \in A
      BY <1>6, <2>1
    <2> QED
      BY <1>6, <1>40, <2>2
  <1>8. h = [k \in 0..n |-> IF k = 0 THEN list ELSE C(h[k - 1], k)]
    <2>1. \A k \in 0..n : h[k] = IF k = 0 THEN list ELSE C(h[k - 1], k)
      <3> TAKE k \in 0..n
      <3>1. CASE k = 0
        BY <1>6, <3>1
      <3>2. CASE k # 0
        <4>1. k \in 1..n
          BY <1>1, <3>2
        <4> QED
          BY <1>7, <3>2, <4>1, Zenon
      <3> QED
        BY <3>1, <3>2
    <2> QED
      BY <1>6, <2>1
  <1>9. F = [k \in 0..n |-> IF k = 0 THEN list ELSE C(F[k - 1], k)]
    BY <1>8
  <1> HIDE DEF F
  <1> DEFINE T == {k \in 0..n : F[k] \in A}
  <1>10. 0 \in T
    BY <1>1, <1>9
  <1>11. ASSUME NEW k \in 1..n, k - 1 \in T PROVE k \in T
    <2>0. k \in 0..n /\ k # 0
      BY <1>1
    <2>1. F[k] = C(F[k - 1], k)
      BY <1>9, <2>0, Zenon
    <2>2. F[k - 1] \in A
      BY <1>11
    <2> QED
      BY <1>3, <2>0, <2>1, <2>2
  <1>12. ASSUME NEW k \in 0..n PROVE F[k] \in A
    <2> DEFINE U == {j \in 0..k : F[j] \in A}
    <2>1. k \in Nat /\ 0 \in U
      BY <1>1, <1>10
    <2>2. ASSUME NEW j \in 1..k, j - 1 \in U PROVE j \in U
      <3>1. j \in 1..n /\ j - 1 \in T
        BY <1>1, <2>2
      <3> QED
        BY <1>11, <3>1
    <2>3. k \in U
      <3> HIDE DEF U
      <3> QED
        BY <2>1, <2>2, IndexInduction
    <2> QED
      BY <2>3
  <1>13. F \in [0..n -> A] /\ F[0] = list /\ \A k \in 1..n : F[k] = C(F[k - 1], k)
    <2>1. \A k \in 1..n : F[k] = C(F[k - 1], k)
      <3> TAKE k \in 1..n
      <3>1. k \in 0..n /\ k # 0
        BY <1>1
      <3> QED
        BY <1>9, <3>1, Zenon
    <2>2. F[0] = list
      BY <1>1, <1>9
    <2> QED
      BY <1>9, <1>12, <2>1, <2>2
  <1>14. IsCfl(F, list, nodes, total)
    BY <1>13 DEF IsCfl, n, A, C
  <1> QED
    BY <1>2, <1>14 DEF n

\* What the loop gives
LEMMA CflAllType ==
    ASSUME NEW list \in Seq(EntrySet), NEW nodes \in Seq(RecordSet), NEW total \in Int
    PROVE  /\ CflAddAll(list, nodes, total) \in Seq(EntrySet)
           /\ Len(list) <= CflSize => Len(CflAddAll(list, nodes, total)) <= CflSize
  <1> DEFINE n == Len(nodes)
  <1>0. n \in Nat /\ \A k \in 1..n : nodes[k] \in RecordSet
    OBVIOUS
  <1>1. PICK f : IsCfl(f, list, nodes, total) /\ CflAddAll(list, nodes, total) = f[n]
    BY CflRun
  <1>2. /\ f \in [0..n -> Seq(EntrySet)] /\ f[0] = list
        /\ \A k \in 1..n : f[k] = CflAdd(f[k - 1], nodes[k], total)
    BY <1>1 DEF IsCfl
  <1> HIDE DEF n
  <1>3. n \in 0..n
    BY <1>0
  <1>4. ASSUME Len(list) <= CflSize PROVE Len(f[n]) <= CflSize
    <2> DEFINE T == {k \in 0..n : Len(f[k]) <= CflSize}
    <2>1. 0 \in T
      BY <1>0, <1>2, <1>4
    <2>2. ASSUME NEW k \in 1..n, k - 1 \in T PROVE k \in T
      <3>1. k \in 0..n /\ k - 1 \in 0..n
        BY <1>0
      <3>2. f[k - 1] \in Seq(EntrySet) /\ Len(f[k - 1]) <= CflSize
        BY <1>2, <2>2, <3>1
      <3> QED
        BY <1>0, <1>2, <3>1, <3>2, CflAddType
    <2>3. n \in T
      <3> HIDE DEF T
      <3> QED
        BY <1>0, <2>1, <2>2, IndexInduction
    <2> QED
      BY <2>3
  <1> QED
    BY <1>1, <1>2, <1>3, <1>4 DEF n

\* Delta remembers the bytes, Mark those at the end of the interval.
LEMMA MarkBasic ==
    ASSUME BInv, NEW t \in Thread, Delta(t) \/ Mark(t)
    PROVE  /\ BInv' /\ AvgAt(t) /\ ThreadStep(t) /\ Else(t) /\ SameLists /\ hist' = hist
           /\ obj'[At(t)].val = obj[At(t)].val /\ UNCHANGED <<env, int_step, failed>>
  <1>1. Busy(t) /\ Now(t).kind \in {"delta", "mark"}
    BY DEF Delta, Mark, Is
  <1>2. AvgAt(t)
    BY <1>1, Located DEF AvgKinds
  <1>3. At(t) \in Index /\ Now(t) \in AvgOps /\ loc[t] \in Locals
    BY <1>2 DEF AvgAt, BInv, Types
  <1>4. Now(t).var \in ValueName
    BY <1>1, <1>3, OpParts
  <1>5. obj[At(t)] \in MetricSet
    BY <1>3, MetricPlace
  <1>6. Cur(t) \in Int /\ obj[At(t)].timerRef \in Int
    BY <1>4, <1>5 DEF Cur, MetricSet
  <1>7. UNCHANGED <<env, int_step, failed, hist>>
    BY DEF Delta, Mark
  <1>8. Scale \in Nat \ {0} /\ UIntMod \in Nat \ {0}
    BY MetricsAssumption
  <1> DEFINE i == At(t)
             d == (Cur(t) - obj[i].timerRef) % (Scale * UIntMod)
  <1>9. d \in Int
    <2>1. Scale * UIntMod \in Nat \ {0}
      BY <1>8
    <2>2. Cur(t) - obj[i].timerRef \in Int
      BY <1>6
    <2> HIDE DEF i
    <2> QED
      BY <2>1, <2>2
  <1>10. \/ obj' = [obj EXCEPT ![i].timerRef = Cur(t)] /\ Continue(t, Local(t, d))
         \/ obj' = [obj EXCEPT ![i].intervalRef = Cur(t)] /\ Continue(t, loc[t])
    BY DEF Delta, Mark
  <1> HIDE DEF d
  <1>11. Local(t, d) \in Locals
    BY <1>3, <1>9, LocalTypes DEF Local
  <1>12. ThreadStep(t)
    BY <1>1, <1>3, <1>10, <1>11, ContinueFacts
  <1> HIDE DEF i
  <1>120. i \in Index /\ obj[i] \in MetricSet
    BY <1>3, <1>5 DEF i
  <1>13. \E m \in MetricSet :
           /\ obj' = [obj EXCEPT ![i] = m] /\ m.val = obj[i].val
           /\ m.total = obj[i].total /\ m.nodes = obj[i].nodes
           /\ m.holder = obj[i].holder /\ m.cfl = obj[i].cfl /\ m.users = obj[i].users
    <2> DEFINE a == [obj[i] EXCEPT !.timerRef = Cur(t)]
               b == [obj[i] EXCEPT !.intervalRef = Cur(t)]
    <2>1. a \in MetricSet /\ b \in MetricSet
      BY <1>6, <1>120, MetricFields
    <2>2. /\ a.val = obj[i].val
          /\ a.total = obj[i].total /\ a.nodes = obj[i].nodes
          /\ a.holder = obj[i].holder /\ a.cfl = obj[i].cfl /\ a.users = obj[i].users
      BY <1>120 DEF MetricSet
    <2>3. /\ b.val = obj[i].val
          /\ b.total = obj[i].total /\ b.nodes = obj[i].nodes
          /\ b.holder = obj[i].holder /\ b.cfl = obj[i].cfl /\ b.users = obj[i].users
      BY <1>120 DEF MetricSet
    <2>4. obj' = [obj EXCEPT ![i] = a] \/ obj' = [obj EXCEPT ![i] = b]
      BY <1>10
    <2> HIDE DEF a, b
    <2> QED
      BY <2>1, <2>2, <2>3, <2>4
  <1>14. PICK m \in MetricSet :
           /\ obj' = [obj EXCEPT ![i] = m] /\ m.val = obj[i].val
           /\ m.total = obj[i].total /\ m.nodes = obj[i].nodes
           /\ m.holder = obj[i].holder /\ m.cfl = obj[i].cfl /\ m.users = obj[i].users
    BY <1>13
  <1>15. /\ obj' \in [Index -> MetricSet] /\ obj'[i] = m
         /\ \A j \in Index : j # i => obj'[j] = obj[j]
    BY <1>120, <1>14, PutMetric
  <1>16. BInv'
    <2>1. /\ hist' \in [Index -> HistSet]
          /\ int_step' \in Int /\ events' \in Nat
          /\ UNCHANGED <<setup, metrics, ticks, payload, dead, overlapped, steady, failed>>
      BY <1>7 DEF BInv, Types, env
    <2> QED
      BY <1>1, <1>12, <1>15, <2>1, BInvStep
  <1>17. Else(t)
    BY <1>7, <1>15 DEF Else, i
  <1>18. SameLists
    <2> SUFFICES ASSUME NEW j \in Index
                 PROVE  /\ obj'[j].total = obj[j].total /\ obj'[j].nodes = obj[j].nodes
                        /\ obj'[j].holder = obj[j].holder /\ obj'[j].cfl = obj[j].cfl
                        /\ obj'[j].users = obj[j].users
                        /\ hist'[j].done = hist[j].done
      BY DEF SameLists
    <2>1. CASE j = i
      BY <1>7, <1>14, <1>15, <2>1
    <2>2. CASE j # i
      BY <1>7, <1>15, <2>2
    <2> QED
      BY <2>1, <2>2
  <1> QED
    BY <1>2, <1>7, <1>12, <1>14, <1>15, <1>16, <1>17, <1>18 DEF i

\* Send ends the callback, or sends the report.
LEMMA SendBasic ==
    ASSUME BInv, NEW t \in Thread, Send(t)
    PROVE  /\ BInv' /\ ThreadStep(t) /\ Else(t) /\ SameLists /\ obj' = obj
           /\ AvgAt(t) \/ HashEndAt(t) \/ MapEndAt(t)
           /\ UNCHANGED <<env, int_step, failed>>
  <1>1. Is(t, "send") /\ Busy(t) /\ Now(t).kind = "send"
    BY DEF Send, Is
  <1>2. AvgAt(t) \/ HashEndAt(t) \/ MapEndAt(t)
    BY <1>1, Located
  <1>3. At(t) \in Index /\ loc[t] \in Locals
    BY <1>2 DEF AvgAt, HashEndAt, MapEndAt, BInv, Types
  <1>4. UNCHANGED <<env, obj, int_step, failed>>
    BY DEF Send
  <1> DEFINE i == At(t)
             c == metrics[i]
             r == IF c \in Avgs THEN loc[t].msg ELSE obj[i].cfl
             told == IF c \in Rates THEN hist[i].told + (loc[t].msg.avg * Interval) \div Scale
                     ELSE hist[i].told
  <1>5. obj[i] \in MetricSet /\ hist[i] \in HistSet
    BY <1>3, MetricPlace
  <1>6. /\ ThreadStep(t) /\ hist' \in [Index -> HistSet]
        /\ \A j \in Index : j # i => hist'[j] = hist[j]
        /\ \A j \in Index : hist'[j].done = hist[j].done
    <2>1. CASE dead /\ Goto(t, <<>>, 1, NoLocals) /\ UNCHANGED hist
      <3>1. <<>> \in Seq(CallSet) /\ 1 \in Nat \ {0} /\ NoLocals \in Locals
        BY NoLocalsType
      <3>2. ThreadStep(t)
        <4>1. ThreadTypes' /\ Others(t) /\ work'[t] = <<>> /\ pc'[t] = 1 /\ loc'[t] = NoLocals
          BY <2>1, <3>1, GotoFacts
        <4> QED
          BY <4>1 DEF ThreadStep
      <3>3. hist' \in [Index -> HistSet] /\ hist' = hist
        BY <2>1 DEF BInv, Types
      <3> QED
        BY <3>2, <3>3
    <2>2. CASE /\ ~dead /\ hist' = [hist EXCEPT ![i].report = r, ![i].told = told]
               /\ Continue(t, [loc[t] EXCEPT !.msg = NoLocals.msg])
      <3>1. NoLocals.msg \in MsgSet
        BY NoLocalsType, LocalTypes
      <3>2. [loc[t] EXCEPT !.msg = NoLocals.msg] \in Locals
        BY <1>3, <3>1, LocalTypes
      <3>3. ThreadStep(t)
        BY <1>1, <2>2, <3>2, ContinueFacts
      <3>4. r \in {None} \cup MsgSet \cup Seq(EntrySet)
        BY <1>3, <1>5, LocalTypes, MetricFields
      <3>5. told \in Int
        <4>1. loc[t].msg.avg \in Int /\ hist[i].told \in Int
          BY <1>3, <1>5, LocalTypes DEF MsgSet, HistSet
        <4>2. Interval \in Nat \ {0} /\ Scale \in Nat \ {0}
          BY MetricsAssumption
        <4> HIDE DEF i, c
        <4> QED
          BY <4>1, <4>2
      <3> HIDE DEF r, told
      <3>6. [hist[i] EXCEPT !.report = r, !.told = told] \in HistSet
        BY <1>5, <3>4, <3>5 DEF HistSet
      <3>7. [hist[i] EXCEPT !.report = r, !.told = told].done = hist[i].done
        BY <1>5 DEF HistSet
      <3>8. hist' = [hist EXCEPT ![i] = [hist[i] EXCEPT !.report = r, !.told = told]]
        BY <2>2
      <3> DEFINE h == [hist[i] EXCEPT !.report = r, !.told = told]
      <3> HIDE DEF i, h
      <3>9. /\ hist' \in [Index -> HistSet] /\ hist'[i] = h
            /\ \A j \in Index : j # i => hist'[j] = hist[j]
        BY <1>3, <3>6, <3>8, PutHist DEF h, i
      <3> QED
        BY <3>3, <3>7, <3>9 DEF h
    <2>3. \/ dead /\ Goto(t, <<>>, 1, NoLocals) /\ UNCHANGED hist
          \/ /\ ~dead /\ hist' = [hist EXCEPT ![i].report = r, ![i].told = told]
             /\ Continue(t, [loc[t] EXCEPT !.msg = NoLocals.msg])
      BY DEF Send
    <2> QED
      BY <2>1, <2>2, <2>3
  <1>7. BInv'
    <2>1. /\ obj' \in [Index -> MetricSet]
          /\ int_step' \in Int /\ events' \in Nat
          /\ UNCHANGED <<setup, metrics, ticks, payload, dead, overlapped, steady, failed>>
      BY <1>4 DEF BInv, Types, env
    <2> QED
      BY <1>1, <1>6, <2>1, BInvStep
  <1>8. Else(t) /\ SameLists
    BY <1>4, <1>6 DEF Else, SameLists
  <1> QED
    BY <1>2, <1>4, <1>6, <1>7, <1>8

\* What an event is about
LEMMA NamedType ==
    ASSUME NEW ev \in Told \cup {"flowUpdate"}, NEW x \in Named(ev)
    PROVE  /\ ev \in {"newFlow", "request", "response", "flowUpdate"} /\ x \in Names
           /\ ev = "response" => x \in Name
  BY MetricsAssumption DEF Told, Named, Names

\* processData works on int_step, ...
LEMMA StepBasic ==
    ASSUME BInv, NEW t \in Thread, Step(t)
    PROVE  /\ BInv' /\ OwnAt(t) /\ ThreadStep(t) /\ UNCHANGED <<env, obj, failed, hist>>
  <1>0. UNCHANGED <<env, obj, failed, hist>>
    BY DEF Step
  <1>1. Busy(t) /\ Now(t).kind \in {"stepRead", "stepWrite", "stepReset"}
    BY DEF Step, Is
  <1>2. OwnAt(t)
    BY <1>1, Located
  <1>3. loc[t] \in Locals /\ int_step \in Int /\ NoLocals \in Locals
    BY NoLocalsType DEF BInv, Types
  <1>4. Local(t, int_step) \in Locals /\ loc[t].reg \in Int
    BY <1>3, LocalTypes DEF Local
  <1>5. /\ Continue(t, Local(t, int_step)) \/ Continue(t, NoLocals)
        /\ int_step' = int_step \/ int_step' = loc[t].reg + 1 \/ int_step' = 0
    BY DEF Step
  <1>6. ThreadStep(t)
    BY <1>1, <1>3, <1>4, <1>5, ContinueFacts
  <1>7. BInv'
    <2>1. /\ obj' \in [Index -> MetricSet] /\ hist' \in [Index -> HistSet]
          /\ events' \in Nat /\ int_step' \in Int
          /\ UNCHANGED <<setup, metrics, ticks, payload, dead, overlapped, steady, failed>>
      BY <1>0, <1>3, <1>4, <1>5 DEF BInv, Types, env
    <2> QED
      BY <1>1, <1>6, <2>1, BInvStep
  <1> QED
    BY <1>0, <1>2, <1>6, <1>7

\* A step to other calls
LEMMA GotoStep ==
    ASSUME BInv, NEW t \in Thread, NEW w, Calls(t, w), Goto(t, w, 1, NoLocals)
    PROVE  ThreadStep(t) /\ work'[t] = w /\ pc'[t] = 1 /\ loc'[t] = NoLocals
  <1>1. w \in Seq(CallSet) /\ 1 \in Nat \ {0} /\ NoLocals \in Locals
    BY NoLocalsType DEF Calls
  <1>2. /\ ThreadTypes' /\ Others(t)
        /\ work'[t] = w /\ pc'[t] = 1 /\ loc'[t] = NoLocals
    BY <1>1, GotoFacts
  <1> QED
    BY <1>2 DEF ThreadStep, Calls

\* ... goes over the flows, ...
LEMMA HashProcessBasic ==
    ASSUME BInv, NEW t \in Thread, HashProcess(t)
    PROVE  /\ BInv' /\ OwnAt(t) /\ ThreadStep(t) /\ Calls(t, Tail(work[t]))
           /\ pc'[t] = 1
           /\ \E w : /\ Calls(t, w) /\ work'[t] = w \o Tail(work[t])
                     /\ \A k \in 1..Len(w) :
                          /\ w[k].ev \in {"newFlow", "request", "response", "flowUpdate"}
                          /\ w[k].metric \in Index
           /\ UNCHANGED <<setup, metrics, ticks, payload, dead, overlapped,
                          steady, obj, int_step, failed, hist>>
  <1>0. UNCHANGED <<setup, metrics, ticks, payload, dead, overlapped,
                    steady, obj, int_step, failed, hist>>
    BY DEF HashProcess
  <1>1. Busy(t) /\ Now(t).kind = "hashProcess"
    BY DEF HashProcess, Is
  <1>2. OwnAt(t)
    BY <1>1, Located
  <1>3. Types /\ None \in Names /\ Calls(t, Tail(work[t]))
    BY <1>1, RestCalls DEF BInv, Names
  <1>4. \E w : /\ Calls(t, w) /\ Goto(t, w \o Tail(work[t]), 1, NoLocals)
               /\ \A k \in 1..Len(w) :
                    /\ w[k].ev \in {"newFlow", "request", "response", "flowUpdate"}
                    /\ w[k].metric \in Index
    <2>1. CASE Goto(t, Notify("flowUpdate", None) \o Tail(work[t]), 1, NoLocals)
      <3>1. /\ "flowUpdate" \in Events
            /\ ("flowUpdate" \in {"timer", "interval"} => t \in Callback)
            /\ ("flowUpdate" = "response" => None \in Name)
        BY DEF Events
      <3>2. Informs(t, "flowUpdate", None, Notify("flowUpdate", None))
        BY <1>3, <3>1, NotifyCalls
      <3>3. /\ Calls(t, Notify("flowUpdate", None))
            /\ \A k \in 1..Len(Notify("flowUpdate", None)) :
                  /\ Notify("flowUpdate", None)[k].ev = "flowUpdate"
                  /\ Notify("flowUpdate", None)[k].metric \in Index
        BY <3>2 DEF Informs
      <3> QED
        BY <2>1, <3>3
    <2>2. CASE \E ev \in Told : \E x \in Named(ev) :
                 Goto(t, ExtractData(ev, x) \o Tail(work[t]), 1, NoLocals)
      <3>0. PICK ev \in Told : \E x \in Named(ev) :
                 Goto(t, ExtractData(ev, x) \o Tail(work[t]), 1, NoLocals)
        BY <2>2
      <3>1. PICK x \in Named(ev) :
                 Goto(t, ExtractData(ev, x) \o Tail(work[t]), 1, NoLocals)
        BY <3>0
      <3>2. /\ ev \in {"newFlow", "request", "response", "flowUpdate"} /\ x \in Names
            /\ ev = "response" => x \in Name
        BY NamedType
      <3>3. /\ Calls(t, ExtractData(ev, x))
            /\ \A k \in 1..Len(ExtractData(ev, x)) :
                  /\ ExtractData(ev, x)[k].ev \in {ev, "flowUpdate"}
                  /\ ExtractData(ev, x)[k].metric \in Index
        BY <1>3, <3>2, ExtractCalls
      <3> QED
        BY <3>1, <3>2, <3>3
    <2> QED
      BY <2>1, <2>2 DEF HashProcess
  <1>5. PICK w : /\ Calls(t, w) /\ Goto(t, w \o Tail(work[t]), 1, NoLocals)
                 /\ \A k \in 1..Len(w) :
                      /\ w[k].ev \in {"newFlow", "request", "response", "flowUpdate"}
                      /\ w[k].metric \in Index
    BY <1>4
  <1>6. Calls(t, w \o Tail(work[t]))
    BY <1>3, <1>5, CallsJoined
  <1>7. ThreadStep(t) /\ work'[t] = w \o Tail(work[t]) /\ pc'[t] = 1
    BY <1>5, <1>6, GotoStep
  <1>8. BInv'
    <2>1. /\ obj' \in [Index -> MetricSet] /\ hist' \in [Index -> HistSet]
          /\ events' \in Nat /\ int_step' \in Int
          /\ UNCHANGED <<setup, metrics, ticks, payload, dead, overlapped, steady, failed>>
      BY <1>0 DEF BInv, Types, HashProcess
    <2> QED
      BY <1>1, <1>7, <2>1, BInvStep
  <1> QED
    BY <1>0, <1>2, <1>3, <1>5, <1>7, <1>8

\* ... and goes on to the reports, or ends.
LEMMA BranchBasic ==
    ASSUME BInv, NEW t \in Thread, Branch(t)
    PROVE  /\ BInv' /\ OwnAt(t) /\ ThreadStep(t) /\ pc'[t] = 1
           /\ \/ work'[t] = <<>>
              \/ \E w : /\ Informs(t, "interval", None, w)
                        /\ work'[t] = w \o Own("reset") /\ Calls(t, Own("reset"))
                        /\ int_step >= Interval
           /\ UNCHANGED <<env, obj, int_step, failed, hist>>
  <1>0. UNCHANGED <<env, obj, int_step, failed, hist>>
    BY DEF Branch
  <1>1. Busy(t) /\ Now(t).kind = "branch"
    BY DEF Branch, Is
  <1>2. OwnAt(t) /\ t \in Callback
    BY <1>1, Located DEF OwnAt
  <1> DEFINE w == Notify("interval", None)
             r == Own("reset")
             all == IF IntervalOver THEN w \o r ELSE <<>>
  <1>3. Informs(t, "interval", None, w)
    <2>1. /\ "interval" \in Events
          /\ ("interval" \in {"timer", "interval"} => t \in Callback)
          /\ ("interval" = "response" => None \in Name)
          /\ None \in Names /\ Types
      BY <1>2 DEF Events, Names, BInv
    <2> QED
      BY <2>1, NotifyCalls
  <1>4. Calls(t, r)
    BY <1>2, OwnCalls DEF Parts
  <1>5. Calls(t, <<>>)
    BY DEF Calls
  <1>6. Goto(t, all, 1, NoLocals)
    BY DEF Branch
  <1> HIDE DEF w, r
  <1>7. Calls(t, all)
    BY <1>3, <1>4, <1>5, CallsJoined DEF Informs
  <1>8. ThreadStep(t) /\ work'[t] = all /\ pc'[t] = 1
    BY <1>6, <1>7, GotoStep
  <1>9. BInv'
    <2>1. /\ obj' \in [Index -> MetricSet] /\ hist' \in [Index -> HistSet]
          /\ events' \in Nat /\ int_step' \in Int
          /\ UNCHANGED <<setup, metrics, ticks, payload, dead, overlapped, steady, failed>>
      BY <1>0 DEF BInv, Types, env
    <2> QED
      BY <1>1, <1>8, <2>1, BInvStep
  <1> QED
    BY <1>0, <1>2, <1>3, <1>4, <1>8, <1>9 DEF IntervalOver, r

\* Each operation of these handlers is at one position.
LEMMA Positions ==
    ASSUME NEW t
    PROVE  LET k == Now(t).kind
               n == Len(Ops(Call(t))) IN
           /\ HashAt(t) =>
                /\ k = "totRead" => pc[t] = 1 /\ (n = 2 \/ n = 6)
                /\ k = "totWrite" => pc[t] = 2 /\ (n = 2 \/ n = 6)
                /\ k = "find" => pc[t] = 3 /\ n = 6 /\ Now(t).arg = Call(t).arg
                /\ k = "create" => pc[t] = 4 /\ n = 6 /\ Now(t).arg = Call(t).arg
                /\ k = "cntRead" => pc[t] = 5 /\ n = 6 /\ Now(t).arg = Call(t).arg
                /\ k = "cntWrite" => pc[t] = 6 /\ n = 6 /\ Now(t).arg = Call(t).arg
           /\ HashEndAt(t) =>
                /\ n = 6
                /\ k = "lockAll" => pc[t] = 1
                /\ k = "walk" => pc[t] = 2
                /\ k = "unlockAll" => pc[t] = 3
                /\ k = "send" => pc[t] = 4
                /\ k = "freeEnter" => pc[t] = 5
                /\ k = "freeLeave" => pc[t] = 6
           /\ MapAt(t) =>
                /\ n = 4
                /\ k = "totRead" => pc[t] = 1
                /\ k = "totWrite" => pc[t] = 2
                /\ k = "mapEnter" => pc[t] = 3
                /\ k = "mapLeave" => pc[t] = 4 /\ Now(t).arg = Call(t).arg
           /\ MapEndAt(t) =>
                /\ n = 6
                /\ k = "ifNoTotal" => pc[t] = 1
                /\ k = "iterEnter" => pc[t] = 2
                /\ k = "iterLeave" => pc[t] = 3
                /\ k = "send" => pc[t] = 4
                /\ k = "freeEnter" => pc[t] = 5
                /\ k = "freeLeave" => pc[t] = 6
  <1> DEFINE k == Now(t).kind
             n == Len(Ops(Call(t)))
             x == Call(t).arg
             p == pc[t]
  <1>0. /\ \A a : Op(a, "").kind = a
        /\ \A a : OpOf(a, "", x).kind = a /\ OpOf(a, "", x).arg = x
    BY DEF Op, OpOf
  <1>1. ASSUME HashAt(t)
        PROVE  \/ k = "totRead" /\ p = 1 /\ (n = 2 \/ n = 6)
               \/ k = "totWrite" /\ p = 2 /\ (n = 2 \/ n = 6)
               \/ k = "find" /\ p = 3 /\ n = 6 /\ Now(t).arg = x
               \/ k = "create" /\ p = 4 /\ n = 6 /\ Now(t).arg = x
               \/ k = "cntRead" /\ p = 5 /\ n = 6 /\ Now(t).arg = x
               \/ k = "cntWrite" /\ p = 6 /\ n = 6 /\ Now(t).arg = x
    <2>1. \/ Now(t) = Op("totRead", "") /\ p = 1 /\ (n = 2 \/ n = 6)
          \/ Now(t) = Op("totWrite", "") /\ p = 2 /\ (n = 2 \/ n = 6)
          \/ Now(t) = OpOf("find", "", x) /\ p = 3 /\ n = 6
          \/ Now(t) = OpOf("create", "", x) /\ p = 4 /\ n = 6
          \/ Now(t) = OpOf("cntRead", "", x) /\ p = 5 /\ n = 6
          \/ Now(t) = OpOf("cntWrite", "", x) /\ p = 6 /\ n = 6
      BY <1>1, Zenon DEF HashAt
    <2> HIDE DEF n, p, x
    <2> QED
      BY <1>0, <2>1, Zenon
  <1>2. ASSUME HashEndAt(t)
        PROVE  n = 6 /\ \/ k = "lockAll" /\ p = 1
                        \/ k = "walk" /\ p = 2
                        \/ k = "unlockAll" /\ p = 3
                        \/ k = "send" /\ p = 4
                        \/ k = "freeEnter" /\ p = 5
                        \/ k = "freeLeave" /\ p = 6
    BY <1>0, <1>2, Zenon DEF HashEndAt
  <1>3. ASSUME MapAt(t)
        PROVE  n = 4 /\ \/ k = "totRead" /\ p = 1
                        \/ k = "totWrite" /\ p = 2
                        \/ k = "mapEnter" /\ p = 3
                        \/ k = "mapLeave" /\ p = 4 /\ Now(t).arg = x
    BY <1>0, <1>3, Zenon DEF MapAt
  <1>4. ASSUME MapEndAt(t)
        PROVE  n = 6 /\ \/ k = "ifNoTotal" /\ p = 1
                        \/ k = "iterEnter" /\ p = 2
                        \/ k = "iterLeave" /\ p = 3
                        \/ k = "send" /\ p = 4
                        \/ k = "freeEnter" /\ p = 5
                        \/ k = "freeLeave" /\ p = 6
    BY <1>0, <1>4, Zenon DEF MapEndAt
  <1> HIDE DEF k, n, x, p
  <1> QED
    BY <1>1, <1>2, <1>3, <1>4 DEF k, n, x, p

\* The fields of a metric after one of them has been changed
LEMMA FieldsAfter ==
    ASSUME NEW m \in MetricSet
    PROVE  /\ \A x \in Int : LET n == [m EXCEPT !.total = x] IN
                /\ n \in MetricSet /\ n.total = x /\ n.nodes = m.nodes
                /\ n.holder = m.holder /\ n.cfl = m.cfl /\ n.users = m.users
                /\ n.val = m.val
           /\ \A x \in Seq(RecordSet) : LET n == [m EXCEPT !.nodes = x] IN
                /\ n \in MetricSet /\ n.total = m.total /\ n.nodes = x
                /\ n.holder = m.holder /\ n.cfl = m.cfl /\ n.users = m.users
                /\ n.val = m.val
           /\ \A x \in Thread \cup {None} : LET n == [m EXCEPT !.holder = x] IN
                /\ n \in MetricSet /\ n.total = m.total /\ n.nodes = m.nodes
                /\ n.holder = x /\ n.cfl = m.cfl /\ n.users = m.users
                /\ n.val = m.val
           /\ \A x \in Seq(EntrySet) : LET n == [m EXCEPT !.cfl = x] IN
                /\ n \in MetricSet /\ n.total = m.total /\ n.nodes = m.nodes
                /\ n.holder = m.holder /\ n.cfl = x /\ n.users = m.users
                /\ n.val = m.val
           /\ \A x \in SUBSET Thread : LET n == [m EXCEPT !.users = x] IN
                /\ n \in MetricSet /\ n.total = m.total /\ n.nodes = m.nodes
                /\ n.holder = m.holder /\ n.cfl = m.cfl /\ n.users = x
                /\ n.val = m.val
  BY DEF MetricSet

\* The history after a name has been counted
LEMMA DoneAfter ==
    ASSUME NEW h \in HistSet, NEW x \in Names
    PROVE  LET g == [h EXCEPT !.done[x] = h.done[x] + 1] IN
           /\ g \in HistSet /\ g.done = [h.done EXCEPT ![x] = h.done[x] + 1]
           /\ g.met = h.met /\ g.report = h.report
  <1>1. h.done \in [Names -> Nat]
    BY DEF HistSet
  <1> DEFINE d == [h.done EXCEPT ![x] = h.done[x] + 1]
  <1>2. d \in [Names -> Nat]
    BY <1>1
  <1>3. [h EXCEPT !.done[x] = h.done[x] + 1] = [h EXCEPT !.done = d]
    OBVIOUS
  <1> HIDE DEF d
  <1>4. [h EXCEPT !.done = d] \in HistSet /\ [h EXCEPT !.done = d].done = d
        /\ [h EXCEPT !.done = d].met = h.met /\ [h EXCEPT !.done = d].report = h.report
    BY <1>2 DEF HistSet
  <1> QED
    BY <1>3, <1>4 DEF d

\* The total is read, and written.
TotalDone(t) ==
    LET i == At(t) IN
    \/ /\ pc[t] = 1 /\ obj' = obj
       /\ hist'[i].done = hist[i].done /\ hist'[i].report = hist[i].report
       /\ hist'[i].met = (hist[i].met \/ \E u \in Thread \ {t} : Adding(u, i))
       /\ work'[t] = work[t] /\ pc'[t] = 2 /\ loc'[t] = Local(t, obj[i].total)
    \/ /\ pc[t] = 2 /\ hist' = hist
       /\ obj'[i].total = loc[t].reg + 1 /\ obj'[i].nodes = obj[i].nodes
       /\ obj'[i].holder = obj[i].holder /\ obj'[i].cfl = obj[i].cfl
       /\ obj'[i].users = obj[i].users
       /\ \/ Len(Ops(Call(t))) > 2 /\ work'[t] = work[t] /\ pc'[t] = 3 /\ loc'[t] = loc[t]
          \/ work'[t] = Tail(work[t]) /\ pc'[t] = 1 /\ Len(Ops(Call(t))) = 2

\* reqTotal++ or rspTotal++
LEMMA TotalBasic ==
    ASSUME BInv, NEW t \in Thread, Total(t)
    PROVE  /\ BInv' /\ ThreadStep(t) /\ Else(t) /\ TotalDone(t)
           /\ HashAt(t) \/ MapAt(t)
           /\ UNCHANGED <<env, int_step, failed>>
  <1>0. UNCHANGED <<env, int_step, failed>>
    BY DEF Total
  <1>1. Busy(t) /\ Now(t).kind \in {"totRead", "totWrite"}
    BY DEF Total, Is
  <1>2. HashAt(t) \/ MapAt(t)
    BY <1>1, Located
  <1>3. At(t) \in Index /\ loc[t] \in Locals
    BY <1>2 DEF HashAt, MapAt, BInv, Types
  <1> DEFINE n == Len(Ops(Call(t)))
  <1>4. /\ Now(t).kind = "totRead" => pc[t] = 1 /\ (n = 2 \/ n = 4 \/ n = 6)
        /\ Now(t).kind = "totWrite" => pc[t] = 2 /\ (n = 2 \/ n = 4 \/ n = 6)
    BY <1>2, Positions
  <1> DEFINE i == At(t)
  <1>5. obj[i] \in MetricSet /\ hist[i] \in HistSet
    BY <1>3, MetricPlace
  <1>6. obj[i].total \in Int /\ loc[t].reg \in Int
    BY <1>3, <1>5, LocalTypes, MetricFields
  <1>7. CASE Is(t, "totRead")
    <2>1. /\ Continue(t, Local(t, obj[i].total)) /\ obj' = obj
          /\ hist' = [hist EXCEPT ![i].met = hist[i].met \/ \E u \in Thread \ {t} : Adding(u, i)]
      BY <1>1, <1>7 DEF Total, Is
    <2>2. Local(t, obj[i].total) \in Locals
      BY <1>3, <1>6, LocalTypes DEF Local
    <2>3. pc[t] = 1 /\ (n = 2 \/ n = 4 \/ n = 6)
      BY <1>4, <1>7 DEF Is
    <2>4. /\ ThreadStep(t)
          /\ work'[t] = work[t] /\ pc'[t] = 2 /\ loc'[t] = Local(t, obj[i].total)
      <3> HIDE DEF n
      <3>1. pc[t] + 1 <= n /\ pc[t] + 1 = 2 /\ ~(pc[t] + 1 > n)
        BY <2>3
      <3> HIDE DEF i
      <3> QED
        BY <1>1, <2>1, <2>2, <3>1, ContinueFacts DEF n
    <2> DEFINE b == hist[i].met \/ \E u \in Thread \ {t} : Adding(u, i)
               h == [hist[i] EXCEPT !.met = b]
    <2>5. b \in BOOLEAN
      BY <1>5 DEF HistSet
    <2>6. hist' = [hist EXCEPT ![i] = h]
      BY <2>1
    <2> HIDE DEF b
    <2>7. h \in HistSet /\ h.met = b /\ h.done = hist[i].done /\ h.report = hist[i].report
      BY <1>5, <2>5 DEF HistSet
    <2> HIDE DEF h, i
    <2>8. /\ hist' \in [Index -> HistSet] /\ hist'[i] = h
          /\ \A j \in Index : j # i => hist'[j] = hist[j]
      BY <1>3, <2>6, <2>7, PutHist DEF i
    <2>9. obj' \in [Index -> MetricSet] /\ \A j \in Index : obj'[j] = obj[j]
      BY <2>1 DEF BInv, Types
    <2>10. TotalDone(t)
      BY <2>1, <2>3, <2>4, <2>7, <2>8 DEF TotalDone, b, i
    <2>11. Else(t)
      BY <2>8, <2>9 DEF Else, i
    <2>12. BInv'
      <3>1. /\ int_step' \in Int /\ events' \in Nat
            /\ UNCHANGED <<setup, metrics, ticks, payload, dead, overlapped, steady, failed>>
        BY <1>0 DEF BInv, Types, env
      <3> QED
        BY <1>1, <2>4, <2>8, <2>9, <3>1, BInvStep
    <2> QED
      BY <1>0, <1>2, <2>4, <2>10, <2>11, <2>12
  <1>8. CASE Is(t, "totWrite")
    <2>1. /\ Continue(t, loc[t]) /\ hist' = hist
          /\ obj' = [obj EXCEPT ![i].total = loc[t].reg + 1]
      BY <1>1, <1>8 DEF Total, Is
    <2>3. pc[t] = 2 /\ (n = 2 \/ n = 4 \/ n = 6)
      BY <1>4, <1>8 DEF Is
    <2>4. /\ ThreadStep(t)
          /\ \/ Len(Ops(Call(t))) > 2 /\ work'[t] = work[t] /\ pc'[t] = 3 /\ loc'[t] = loc[t]
             \/ work'[t] = Tail(work[t]) /\ pc'[t] = 1 /\ Len(Ops(Call(t))) = 2
      BY <1>1, <1>3, <2>1, <2>3, ContinueFacts, SMTT(30)
    <2> DEFINE m == [obj[i] EXCEPT !.total = loc[t].reg + 1]
    <2>5. obj' = [obj EXCEPT ![i] = m]
      BY <2>1
    <2>6. loc[t].reg + 1 \in Int
      BY <1>6
    <2>7. /\ m \in MetricSet /\ m.total = loc[t].reg + 1 /\ m.nodes = obj[i].nodes
          /\ m.holder = obj[i].holder /\ m.cfl = obj[i].cfl /\ m.users = obj[i].users
      BY <1>5, <2>6, FieldsAfter
    <2> HIDE DEF m, i
    <2>8. /\ obj' \in [Index -> MetricSet] /\ obj'[i] = m
          /\ \A j \in Index : j # i => obj'[j] = obj[j]
      BY <1>3, <2>5, <2>7, PutMetric DEF i
    <2>9. hist' \in [Index -> HistSet]
      BY <2>1 DEF BInv, Types
    <2>10. TotalDone(t)
      BY <2>1, <2>3, <2>4, <2>7, <2>8 DEF TotalDone, i
    <2>11. Else(t)
      BY <2>1, <2>8 DEF Else, i
    <2>12. BInv'
      <3>1. /\ int_step' \in Int /\ events' \in Nat
            /\ UNCHANGED <<setup, metrics, ticks, payload, dead, overlapped, steady, failed>>
        BY <1>0 DEF BInv, Types, env
      <3> QED
        BY <1>1, <2>4, <2>8, <2>9, <3>1, BInvStep
    <2> QED
      BY <1>0, <1>2, <2>4, <2>10, <2>11, <2>12
  <1> QED
    BY <1>7, <1>8 DEF Total

\* A step that gives metric i other members and another history
LEMMA ListStep ==
    ASSUME BInv, NEW t \in Thread, Busy(t), ThreadStep(t), NEW i \in Index, At(t) = i,
           NEW m \in MetricSet, NEW h \in HistSet,
           obj' = [obj EXCEPT ![i] = m] \/ (obj' = obj /\ m = obj[i]),
           hist' = [hist EXCEPT ![i] = h] \/ (hist' = hist /\ h = hist[i]),
           UNCHANGED <<env, int_step, failed>>
    PROVE  BInv' /\ Else(t) /\ obj'[i] = m /\ hist'[i] = h
  <1>1. obj \in [Index -> MetricSet] /\ hist \in [Index -> HistSet]
    BY DEF BInv, Types
  <1>2. /\ obj' \in [Index -> MetricSet] /\ obj'[i] = m
        /\ \A j \in Index : j # i => obj'[j] = obj[j]
    BY <1>1, PutMetric
  <1>3. /\ hist' \in [Index -> HistSet] /\ hist'[i] = h
        /\ \A j \in Index : j # i => hist'[j] = hist[j]
    BY <1>1, PutHist
  <1>4. /\ int_step' \in Int /\ events' \in Nat
        /\ UNCHANGED <<setup, metrics, ticks, payload, dead, overlapped, steady, failed>>
    BY DEF BInv, Types, env
  <1>5. BInv'
    BY <1>2, <1>3, <1>4, BInvStep
  <1> QED
    BY <1>2, <1>3, <1>5 DEF Else

\* k is the first record of metric i for name x
First(i, x, k) == k \in Matches(i, x) /\ \A j \in Matches(i, x) : k <= j

\* There is one if there is any.
LEMMA FirstMatch ==
    ASSUME BInv, NEW i \in Index, NEW x, Matches(i, x) # {}
    PROVE  First(i, x, Smallest(Matches(i, x))) /\ Smallest(Matches(i, x)) \in Nat
  <1> DEFINE S == Matches(i, x)
  <1>1. obj[i].nodes \in Seq(RecordSet)
    <2>1. obj[i] \in MetricSet
      BY DEF BInv, Types
    <2> QED
      BY <2>1, MetricFields
  <1>2. S \in SUBSET Nat
    BY <1>1 DEF Matches
  <1> HIDE DEF S
  <1>3. \E k \in S : \A j \in S : k <= j
    BY <1>2, LeastNumber DEF S
  <1>4. Smallest(S) \in S /\ \A j \in S : Smallest(S) <= j
    BY <1>3 DEF Smallest
  <1> QED
    BY <1>2, <1>4 DEF First, S

\* A record is looked for, ...
FindDone(t) ==
    LET i == At(t)  x == Call(t).arg IN
    /\ pc[t] = 3 /\ obj' = obj /\ hist' = hist /\ work'[t] = work[t]
    /\ \/ Matches(i, x) = {} /\ pc'[t] = 4 /\ loc'[t] = loc[t]
       \/ /\ pc'[t] = 5 /\ loc'[t] = [loc[t] EXCEPT !.node = Smallest(Matches(i, x))]
          /\ First(i, x, Smallest(Matches(i, x)))
    /\ Unheld(t, i)

\* Hash::find
LEMMA FindBasic ==
    ASSUME BInv, NEW t \in Thread, Find(t)
    PROVE  /\ BInv' /\ HashAt(t) /\ ThreadStep(t) /\ Else(t) /\ FindDone(t)
           /\ UNCHANGED <<env, int_step, failed>>
  <1> DEFINE i == At(t)
             x == Now(t).arg
             n == Len(Ops(Call(t)))
             S == Matches(i, x)
  <1>1. /\ Busy(t) /\ Now(t).kind = "find" /\ Unheld(t, i)
        /\ UNCHANGED <<env, obj, int_step, failed, hist>>
    BY DEF Find, Is
  <1>2. HashAt(t)
    BY <1>1, Located
  <1>3. i \in Index /\ loc[t] \in Locals
    BY <1>2 DEF HashAt, BInv, Types
  <1>4. pc[t] = 3 /\ n = 6 /\ x = Call(t).arg
    BY <1>1, <1>2, Positions
  <1>5. \/ S = {} /\ Advance(t, 1, loc[t])
        \/ S # {} /\ Advance(t, 2, [loc[t] EXCEPT !.node = Smallest(S)])
    BY DEF Find, Lookup, Continue
  <1> HIDE DEF n, i, x
  <1>6. ASSUME S = {} /\ Advance(t, 1, loc[t]) PROVE ThreadStep(t) /\ FindDone(t)
    <2>1. 1 \in Nat \ {0} /\ pc[t] + 1 = 4 /\ pc[t] + 1 <= n /\ ~(pc[t] + 1 > n)
      BY <1>4
    <2>2. ThreadStep(t) /\ work'[t] = work[t] /\ pc'[t] = 4 /\ loc'[t] = loc[t]
      BY <1>1, <1>3, <1>6, <2>1, AdvanceFacts DEF n
    <2>3. FindDone(t)
      BY <1>1, <1>4, <1>6, <2>2 DEF FindDone, i
    <2> QED
      BY <2>2, <2>3
  <1>7. ASSUME S # {} /\ Advance(t, 2, [loc[t] EXCEPT !.node = Smallest(S)])
        PROVE  ThreadStep(t) /\ FindDone(t)
    <2>1. 2 \in Nat \ {0} /\ pc[t] + 2 = 5 /\ pc[t] + 2 <= n /\ ~(pc[t] + 2 > n)
      BY <1>4
    <2>2. First(i, x, Smallest(S)) /\ Smallest(S) \in Nat
      BY <1>3, <1>7, FirstMatch
    <2>3. [loc[t] EXCEPT !.node = Smallest(S)] \in Locals
      BY <1>3, <2>2, LocalTypes
    <2> DEFINE l == [loc[t] EXCEPT !.node = Smallest(S)]
    <2> HIDE DEF l, S
    <2>4. ThreadStep(t) /\ work'[t] = work[t] /\ pc'[t] = 5 /\ loc'[t] = l
      BY <1>1, <1>3, <1>7, <2>1, <2>3, AdvanceFacts DEF n, l
    <2>5. FindDone(t)
      BY <1>1, <1>4, <1>7, <2>2, <2>4 DEF FindDone, i, S, l
    <2> QED
      BY <2>4, <2>5
  <1>8. BInv' /\ Else(t)
    <2>1. obj[i] \in MetricSet /\ hist[i] \in HistSet
      BY <1>3, MetricPlace DEF i
    <2>2. UNCHANGED <<env, int_step, failed>> /\ obj' = obj /\ hist' = hist /\ ThreadStep(t)
      BY <1>1, <1>5, <1>6, <1>7
    <2> QED
      BY <1>1, <1>3, <2>1, <2>2, ListStep DEF i
  <1> QED
    BY <1>1, <1>2, <1>5, <1>6, <1>7, <1>8

\* ... or created, ...
CreateDone(t) ==
    LET i == At(t)  x == Call(t).arg IN
    /\ pc[t] = 4 /\ work'[t] = Tail(work[t]) /\ pc'[t] = 1
    /\ obj'[i].nodes = Append(obj[i].nodes, [name |-> x, cnt |-> 1])
    /\ obj'[i].total = obj[i].total /\ obj'[i].holder = obj[i].holder
    /\ obj'[i].cfl = obj[i].cfl /\ obj'[i].users = obj[i].users
    /\ hist'[i].done = [hist[i].done EXCEPT ![x] = hist[i].done[x] + 1]
    /\ hist'[i].met = hist[i].met /\ hist'[i].report = hist[i].report
    /\ Unheld(t, i)

\* Hash::create
LEMMA CreateBasic ==
    ASSUME BInv, NEW t \in Thread, Create(t)
    PROVE  /\ BInv' /\ HashAt(t) /\ ThreadStep(t) /\ Else(t) /\ CreateDone(t)
           /\ UNCHANGED <<env, int_step, failed>>
  <1> DEFINE i == At(t)
             x == Now(t).arg
             n == Len(Ops(Call(t)))
             q == Append(obj[i].nodes, [name |-> x, cnt |-> 1])
             m == [obj[i] EXCEPT !.nodes = q]
             h == [hist[i] EXCEPT !.done[x] = hist[i].done[x] + 1]
  <1>1. /\ Busy(t) /\ Now(t).kind = "create" /\ Unheld(t, i)
        /\ UNCHANGED <<env, int_step, failed>>
        /\ Advance(t, 3, loc[t])
    BY DEF Create, Is
  <1>2. HashAt(t)
    BY <1>1, Located
  <1>3. i \in Index /\ loc[t] \in Locals /\ Call(t).arg \in Names
    BY <1>2 DEF HashAt, BInv, Types
  <1>4. pc[t] = 4 /\ n = 6 /\ x = Call(t).arg
    BY <1>1, <1>2, Positions
  <1>5. obj' = [obj EXCEPT ![i] = m] /\ hist' = [hist EXCEPT ![i] = h]
    BY DEF Create
  <1>6. obj[i] \in MetricSet /\ hist[i] \in HistSet /\ obj[i].nodes \in Seq(RecordSet)
    BY <1>3, MetricPlace, MetricFields
  <1> HIDE DEF x
  <1>7. q \in Seq(RecordSet)
    <2>1. [name |-> x, cnt |-> 1] \in RecordSet
      BY <1>3, <1>4 DEF RecordSet
    <2> QED
      BY <1>6, <2>1
  <1> HIDE DEF q, n, i
  <1>8. /\ m \in MetricSet /\ m.total = obj[i].total /\ m.nodes = q
        /\ m.holder = obj[i].holder /\ m.cfl = obj[i].cfl /\ m.users = obj[i].users
    BY <1>6, <1>7, FieldsAfter
  <1>9. /\ h \in HistSet /\ h.done = [hist[i].done EXCEPT ![x] = hist[i].done[x] + 1]
        /\ h.met = hist[i].met /\ h.report = hist[i].report
    <2>1. x \in Names
      BY <1>3, <1>4
    <2> QED
      BY <1>6, <2>1, DoneAfter, Zenon
  <1>10. ThreadStep(t) /\ work'[t] = Tail(work[t]) /\ pc'[t] = 1
    <2>1. 3 \in Nat \ {0} /\ ~(pc[t] + 3 <= n)
      BY <1>4
    <2> QED
      BY <1>1, <1>3, <2>1, AdvanceFacts DEF n
  <1> HIDE DEF m, h
  <1>11. BInv' /\ Else(t) /\ obj'[i] = m /\ hist'[i] = h
    <2>1. At(t) = i
      BY DEF i
    <2> QED
      <3>1. /\ Busy(t) /\ ThreadStep(t) /\ i \in Index /\ m \in MetricSet /\ h \in HistSet
            /\ UNCHANGED <<env, int_step, failed>>
        BY <1>1, <1>3, <1>8, <1>9, <1>10
      <3>2. obj' = [obj EXCEPT ![i] = m] /\ hist' = [hist EXCEPT ![i] = h]
        BY <1>5
      <3> QED
        BY <2>1, <3>1, <3>2, ListStep, Zenon
  <1>12. CreateDone(t)
    BY <1>1, <1>4, <1>8, <1>9, <1>10, <1>11 DEF CreateDone, i, q, x
  <1> QED
    BY <1>1, <1>2, <1>10, <1>11, <1>12

\* ... or counted in.
CountDone(t) ==
    LET i == At(t)  x == Call(t).arg  k == loc[t].node IN
    \/ /\ pc[t] = 5 /\ obj' = obj /\ hist' = hist /\ work'[t] = work[t]
       /\ pc'[t] = 6 /\ loc'[t] = Local(t, obj[i].nodes[k].cnt)
    \/ /\ pc[t] = 6 /\ work'[t] = Tail(work[t]) /\ pc'[t] = 1
       /\ obj'[i].nodes = [obj[i].nodes EXCEPT ![k] =
                             [obj[i].nodes[k] EXCEPT !.cnt = loc[t].reg + 1]]
       /\ obj'[i].total = obj[i].total /\ obj'[i].holder = obj[i].holder
       /\ obj'[i].cfl = obj[i].cfl /\ obj'[i].users = obj[i].users
       /\ hist'[i].done = [hist[i].done EXCEPT ![x] = hist[i].done[x] + 1]
       /\ hist'[i].met = hist[i].met /\ hist'[i].report = hist[i].report

\* e->cnt++
LEMMA CountBasic ==
    ASSUME BInv, NEW t \in Thread, Count(t), First(At(t), Call(t).arg, loc[t].node)
    PROVE  /\ BInv' /\ HashAt(t) /\ ThreadStep(t) /\ Else(t) /\ CountDone(t)
           /\ UNCHANGED <<env, int_step, failed>>
  <1> DEFINE i == At(t)
             x == Now(t).arg
             k == loc[t].node
             n == Len(Ops(Call(t)))
             r == [obj[i].nodes[k] EXCEPT !.cnt = loc[t].reg + 1]
             q == [obj[i].nodes EXCEPT ![k] = r]
             m == [obj[i] EXCEPT !.nodes = q]
             h == [hist[i] EXCEPT !.done[x] = hist[i].done[x] + 1]
  <1>1. /\ Busy(t) /\ Now(t).kind \in {"cntRead", "cntWrite"}
        /\ UNCHANGED <<env, int_step, failed>>
    BY DEF Count, Is
  <1>2. HashAt(t)
    BY <1>1, Located
  <1>3. i \in Index /\ loc[t] \in Locals /\ Call(t).arg \in Names
    BY <1>2 DEF HashAt, BInv, Types
  <1>4. /\ Now(t).kind = "cntRead" => pc[t] = 5 /\ n = 6 /\ x = Call(t).arg
        /\ Now(t).kind = "cntWrite" => pc[t] = 6 /\ n = 6 /\ x = Call(t).arg
    BY <1>2, Positions
  <1>5. obj[i] \in MetricSet /\ hist[i] \in HistSet /\ obj[i].nodes \in Seq(RecordSet)
    BY <1>3, MetricPlace, MetricFields
  <1>6. k \in 1..Len(obj[i].nodes) /\ loc[t].reg \in Int
    BY <1>3, <1>5, LocalTypes DEF First, Matches
  <1>7. obj[i].nodes[k] \in RecordSet /\ obj[i].nodes[k].cnt \in Int
    <2>1. obj[i].nodes[k] \in RecordSet
      BY <1>5, <1>6
    <2> QED
      BY <2>1 DEF RecordSet
  <1>8. CASE Is(t, "cntRead")
    <2>1. Continue(t, Local(t, obj[i].nodes[k].cnt)) /\ obj' = obj /\ hist' = hist
      BY <1>1, <1>8 DEF Count, Is
    <2>2. pc[t] = 5 /\ n = 6
      BY <1>4, <1>8 DEF Is
    <2>3. Local(t, obj[i].nodes[k].cnt) \in Locals
      BY <1>3, <1>7, LocalTypes DEF Local
    <2> DEFINE l == Local(t, obj[i].nodes[k].cnt)
    <2> HIDE DEF l, n
    <2>4. pc[t] + 1 <= n /\ ~(pc[t] + 1 > n) /\ pc[t] + 1 = 6
      BY <2>2
    <2>5. ThreadStep(t) /\ work'[t] = work[t] /\ pc'[t] = 6 /\ loc'[t] = l
      BY <1>1, <2>1, <2>3, <2>4, ContinueFacts DEF n, l
    <2>6. CountDone(t)
      BY <2>1, <2>2, <2>5 DEF CountDone, l
    <2>7. BInv' /\ Else(t)
      BY <1>1, <1>3, <1>5, <2>1, <2>5, ListStep
    <2> QED
      BY <1>1, <1>2, <2>5, <2>6, <2>7
  <1>9. CASE Is(t, "cntWrite")
    <2>1. Continue(t, [loc[t] EXCEPT !.node = 0])
      BY <1>1, <1>9 DEF Count, Is
    <2>10. obj' = [obj EXCEPT ![i] = m] /\ hist' = [hist EXCEPT ![i] = h]
      BY <1>1, <1>9 DEF Count, Is
    <2>2. pc[t] = 6 /\ n = 6 /\ x = Call(t).arg
      BY <1>4, <1>9 DEF Is
    <2>3. [loc[t] EXCEPT !.node = 0] \in Locals
      BY <1>3, LocalTypes
    <2>4. ThreadStep(t) /\ work'[t] = Tail(work[t]) /\ pc'[t] = 1
      <3> HIDE DEF n
      <3>1. ~(pc[t] + 1 <= n)
        BY <2>2
      <3> QED
        BY <1>1, <2>1, <2>3, <3>1, ContinueFacts DEF n
    <2>5. q \in Seq(RecordSet)
      <3>1. r \in RecordSet
        BY <1>6, <1>7 DEF RecordSet
      <3> HIDE DEF r
      <3> QED
        BY <1>5, <1>6, <3>1
    <2> HIDE DEF q, x, n
    <2>6. /\ m \in MetricSet /\ m.total = obj[i].total /\ m.nodes = q
          /\ m.holder = obj[i].holder /\ m.cfl = obj[i].cfl /\ m.users = obj[i].users
      BY <1>5, <2>5, FieldsAfter
    <2>7. /\ h \in HistSet /\ h.done = [hist[i].done EXCEPT ![x] = hist[i].done[x] + 1]
          /\ h.met = hist[i].met /\ h.report = hist[i].report
      <3>1. x \in Names
        BY <1>3, <2>2
      <3> QED
        BY <1>5, <3>1, DoneAfter, Zenon
    <2> HIDE DEF m, h, i
    <2>8. BInv' /\ Else(t) /\ obj'[i] = m /\ hist'[i] = h
      <3>1. /\ Busy(t) /\ ThreadStep(t) /\ i \in Index /\ m \in MetricSet /\ h \in HistSet
            /\ UNCHANGED <<env, int_step, failed>> /\ At(t) = i
        BY <1>1, <1>3, <2>4, <2>6, <2>7 DEF i
      <3> QED
        BY <2>10, <3>1, ListStep, Zenon
    <2>9. CountDone(t)
      BY <2>2, <2>4, <2>6, <2>7, <2>8 DEF CountDone, i, q
    <2> QED
      BY <1>1, <1>2, <2>4, <2>8, <2>9
  <1> QED
    BY <1>8, <1>9 DEF Count

\* The list to send is filled under the locks.
CflDone(t) ==
    LET i == At(t)  k == loc[t].node IN
    /\ hist' = hist /\ obj'[i].total = obj[i].total /\ obj'[i].nodes = obj[i].nodes
    /\ obj'[i].users = obj[i].users
    /\ work'[t] = work[t]
    /\ \/ /\ pc[t] = 1 /\ pc'[t] = 2 /\ loc'[t] = [loc[t] EXCEPT !.node = 1]
          /\ obj[i].holder = None /\ obj'[i].holder = t /\ obj'[i].cfl = obj[i].cfl
       \/ /\ pc[t] = 2 /\ pc'[t] = 2 /\ loc'[t] = [loc[t] EXCEPT !.node = k + 1]
          /\ k \in 1..Len(obj[i].nodes) /\ obj'[i].holder = obj[i].holder
          /\ obj'[i].cfl = CflAdd(obj[i].cfl, obj[i].nodes[k], obj[i].total)
       \/ /\ pc[t] = 2 /\ pc'[t] = 3 /\ loc'[t] = [loc[t] EXCEPT !.node = 0]
          /\ k \notin 1..Len(obj[i].nodes) /\ obj'[i].holder = obj[i].holder
          /\ obj'[i].cfl = obj[i].cfl
       \/ /\ pc[t] = 3 /\ pc'[t] = 4 /\ loc'[t] = loc[t]
          /\ obj'[i].holder = None /\ obj'[i].cfl = obj[i].cfl

\* cflUpdate
LEMMA CflBasic ==
    ASSUME BInv, NEW t \in Thread, CflUpdate(t)
    PROVE  /\ BInv' /\ HashEndAt(t) /\ ThreadStep(t) /\ Else(t) /\ CflDone(t)
           /\ UNCHANGED <<env, int_step, failed>>
  <1> DEFINE i == At(t)
             k == loc[t].node
             n == Len(Ops(Call(t)))
             o == obj[i]
  <1>1. /\ Busy(t) /\ Now(t).kind \in {"lockAll", "walk", "unlockAll"}
        /\ UNCHANGED <<env, int_step, failed, hist>>
    BY DEF CflUpdate, Is
  <1>2. HashEndAt(t)
    BY <1>1, Located
  <1>3. i \in Index /\ loc[t] \in Locals /\ k \in Nat
    <2>1. i \in Index /\ loc[t] \in Locals
      BY <1>2 DEF HashEndAt, BInv, Types
    <2> QED
      BY <2>1, LocalTypes
  <1>4. /\ n = 6
        /\ Now(t).kind = "lockAll" => pc[t] = 1
        /\ Now(t).kind = "walk" => pc[t] = 2
        /\ Now(t).kind = "unlockAll" => pc[t] = 3
    BY <1>2, Positions
  <1>5. o \in MetricSet /\ hist[i] \in HistSet /\ o.nodes \in Seq(RecordSet)
        /\ o.cfl \in Seq(EntrySet) /\ o.total \in Int
    BY <1>3, MetricPlace, MetricFields
  <1>6. DOMAIN o.nodes = 1..Len(o.nodes)
    BY <1>5
  <1>7. \A j \in Nat : [loc[t] EXCEPT !.node = j] \in Locals
    BY <1>3, LocalTypes
  <1> HIDE DEF n, i, o, k
  <1>8. At(t) = i /\ o = obj[i]
    BY DEF i, o
  \* a step of the thread with new members m
  <1>9. ASSUME NEW m \in MetricSet, obj' = [obj EXCEPT ![i] = m] \/ (obj' = obj /\ m = obj[i]),
               ThreadStep(t)
        PROVE  BInv' /\ Else(t) /\ obj'[i] = m /\ hist' = hist
    <2>1. hist' = hist /\ UNCHANGED <<env, int_step, failed>>
      BY <1>1
    <2>2. /\ Busy(t) /\ ThreadStep(t) /\ i \in Index /\ At(t) = i /\ hist[i] \in HistSet
          /\ obj' = [obj EXCEPT ![i] = m] \/ (obj' = obj /\ m = obj[i])
      BY <1>1, <1>3, <1>5, <1>8, <1>9
    <2>3. BInv' /\ Else(t) /\ obj'[i] = m
      BY <2>1, <2>2, ListStep, ZenonT(60)
    <2> QED
      BY <2>1, <2>3
  <1>10. CASE Is(t, "lockAll")
    <2> DEFINE m == [o EXCEPT !.holder = t]
    <2>1. /\ Continue(t, [loc[t] EXCEPT !.node = 1]) /\ o.holder = None
          /\ obj' = [obj EXCEPT ![i] = m]
      BY <1>1, <1>10 DEF CflUpdate, Is, i, o
    <2>2. pc[t] = 1 /\ pc[t] + 1 = 2 /\ pc[t] + 1 <= n /\ ~(pc[t] + 1 > n)
      BY <1>4, <1>10 DEF Is
    <2>3. [loc[t] EXCEPT !.node = 1] \in Locals
      BY <1>7
    <2>4. ThreadStep(t) /\ work'[t] = work[t] /\ pc'[t] = 2 /\ loc'[t] = [loc[t] EXCEPT !.node = 1]
      BY <1>1, <2>1, <2>2, <2>3, ContinueFacts DEF n
    <2>5. /\ m \in MetricSet /\ m.total = o.total /\ m.nodes = o.nodes
          /\ m.holder = t /\ m.cfl = o.cfl /\ m.users = o.users
      BY <1>5, FieldsAfter
    <2> HIDE DEF m
    <2>6. BInv' /\ Else(t) /\ obj'[i] = m /\ hist' = hist
      BY <1>9, <2>1, <2>4, <2>5
    <2>7. CflDone(t)
      BY <2>1, <2>2, <2>4, <2>5, <2>6 DEF CflDone, i, o
    <2> QED
      BY <1>1, <1>2, <2>4, <2>6, <2>7
  <1>11. CASE Is(t, "walk") /\ k \in DOMAIN o.nodes
    <2> DEFINE c == CflAdd(o.cfl, o.nodes[k], o.total)
               m == [o EXCEPT !.cfl = c]
               l == [loc[t] EXCEPT !.node = k + 1]
    <2>1. Goto(t, work[t], pc[t], l) /\ obj' = [obj EXCEPT ![i] = m]
      BY <1>1, <1>11 DEF CflUpdate, Is, i, o, k
    <2>2. pc[t] = 2
      BY <1>4, <1>11 DEF Is
    <2>3. l \in Locals
      BY <1>3, <1>7
    <2> HIDE DEF l
    <2>4. ThreadStep(t) /\ work'[t] = work[t] /\ pc'[t] = 2 /\ loc'[t] = l
      <3>1. work[t] \in Seq(CallSet) /\ pc[t] \in Nat \ {0}
        BY DEF BInv, Types
      <3>2. /\ ThreadTypes' /\ Others(t)
            /\ work'[t] = work[t] /\ pc'[t] = pc[t] /\ loc'[t] = l
        BY <2>1, <2>3, <3>1, GotoFacts
      <3>3. pc'[t] > 1 /\ pc'[t] <= n
        BY <1>4, <2>2, <3>2
      <3> QED
        BY <2>2, <3>2, <3>3 DEF ThreadStep, n
    <2>5. c \in Seq(EntrySet)
      <3>1. o.nodes[k] \in RecordSet
        BY <1>5, <1>11
      <3> QED
        BY <1>5, <3>1, CflAddType
    <2> HIDE DEF c
    <2>6. /\ m \in MetricSet /\ m.total = o.total /\ m.nodes = o.nodes
          /\ m.holder = o.holder /\ m.cfl = c /\ m.users = o.users
      BY <1>5, <2>5, FieldsAfter
    <2> HIDE DEF m
    <2>7. BInv' /\ Else(t) /\ obj'[i] = m /\ hist' = hist
      BY <1>9, <2>1, <2>4, <2>6
    <2>8. CflDone(t)
      BY <1>6, <1>11, <2>2, <2>4, <2>6, <2>7 DEF CflDone, i, o, k, c, l
    <2> QED
      BY <1>1, <1>2, <2>4, <2>7, <2>8
  <1>12. CASE Is(t, "walk") /\ k \notin DOMAIN o.nodes
    <2>1. /\ Continue(t, [loc[t] EXCEPT !.node = 0]) /\ obj' = obj
      BY <1>1, <1>12 DEF CflUpdate, Is, i, o, k
    <2>2. pc[t] = 2 /\ pc[t] + 1 = 3 /\ pc[t] + 1 <= n /\ ~(pc[t] + 1 > n)
      BY <1>4, <1>12 DEF Is
    <2>3. [loc[t] EXCEPT !.node = 0] \in Locals
      BY <1>7
    <2>4. ThreadStep(t) /\ work'[t] = work[t] /\ pc'[t] = 3 /\ loc'[t] = [loc[t] EXCEPT !.node = 0]
      BY <1>1, <2>1, <2>2, <2>3, ContinueFacts DEF n
    <2>6. BInv' /\ Else(t) /\ obj'[i] = o /\ hist' = hist
      BY <1>5, <1>8, <1>9, <2>1, <2>4
    <2>7. CflDone(t)
      BY <1>6, <1>12, <2>1, <2>2, <2>4, <2>6 DEF CflDone, i, o, k
    <2> QED
      BY <1>1, <1>2, <2>4, <2>6, <2>7
  <1>13. CASE Is(t, "unlockAll")
    <2> DEFINE m == [o EXCEPT !.holder = None]
    <2>1. Continue(t, loc[t]) /\ obj' = [obj EXCEPT ![i] = m]
      BY <1>1, <1>13 DEF CflUpdate, Is, i, o
    <2>2. pc[t] = 3 /\ pc[t] + 1 = 4 /\ pc[t] + 1 <= n /\ ~(pc[t] + 1 > n)
      BY <1>4, <1>13 DEF Is
    <2>4. ThreadStep(t) /\ work'[t] = work[t] /\ pc'[t] = 4 /\ loc'[t] = loc[t]
      BY <1>1, <1>3, <2>1, <2>2, ContinueFacts DEF n
    <2>5. /\ m \in MetricSet /\ m.total = o.total /\ m.nodes = o.nodes
          /\ m.holder = None /\ m.cfl = o.cfl /\ m.users = o.users
      BY <1>5, FieldsAfter
    <2> HIDE DEF m
    <2>6. BInv' /\ Else(t) /\ obj'[i] = m /\ hist' = hist
      BY <1>9, <2>1, <2>4, <2>5
    <2>7. CflDone(t)
      BY <2>2, <2>4, <2>5, <2>6 DEF CflDone, i, o
    <2> QED
      BY <1>1, <1>2, <2>4, <2>6, <2>7
  <1> QED
    BY <1>10, <1>11, <1>12, <1>13 DEF CflUpdate, i, o, k

\* A thread enters what no two threads may be in at once, ...
EnterDone(t) ==
    LET i == At(t) IN
    \/ failed' = "race" /\ UNCHANGED <<obj, hist, work, pc, loc>>
    \/ /\ failed' = failed /\ hist' = hist
       /\ work'[t] = work[t] /\ pc'[t] = pc[t] + 1 /\ loc'[t] = loc[t]
       /\ \/ MapAt(t) /\ pc[t] = 3
          \/ MapEndAt(t) /\ pc[t] \in {2, 5}
          \/ HashEndAt(t) /\ pc[t] = 5
       /\ obj[i].users = {} /\ obj'[i].users = {t}
       /\ obj'[i].total = obj[i].total /\ obj'[i].nodes = obj[i].nodes
       /\ obj'[i].holder = obj[i].holder /\ obj'[i].cfl = obj[i].cfl

\* The program fails, or the thread is the only one there.
LEMMA EnterBasic ==
    ASSUME BInv, NEW t \in Thread, Enter(t), failed = "no"
    PROVE  /\ BInv' /\ Else(t) /\ EnterDone(t) /\ At(t) \in Index
           /\ metrics[At(t)] \notin Avgs
           /\ failed' = "no" => ThreadStep(t)
           /\ UNCHANGED <<env, int_step>>
  <1> DEFINE i == At(t)
             n == Len(Ops(Call(t)))
             o == obj[i]
             m == [o EXCEPT !.users = {t}]
  <1>1. Busy(t) /\ Now(t).kind \in {"mapEnter", "iterEnter", "freeEnter"}
    BY DEF Enter, Is
  <1>2. MapAt(t) \/ MapEndAt(t) \/ HashEndAt(t)
    BY <1>1, Located
  <1>3. i \in Index /\ loc[t] \in Locals /\ metrics[i] \notin Avgs
    <2>1. i \in Index /\ loc[t] \in Locals /\ (metrics[i] \in Maps \/ metrics[i] \in Hashes)
      BY <1>2 DEF HashEndAt, MapEndAt, MapAt, BInv, Types
    <2>2. metrics[i] \in Class
      BY <2>1, MetricPlace
    <2> QED
      BY <2>1, <2>2, ClassEvents
  <1>4. /\ \/ MapAt(t) /\ pc[t] = 3
           \/ MapEndAt(t) /\ pc[t] \in {2, 5}
           \/ HashEndAt(t) /\ pc[t] = 5
        /\ \/ pc[t] = 3 /\ n = 4
           \/ pc[t] = 2 /\ n = 6
           \/ pc[t] = 5 /\ n = 6
    <2>1. CASE MapAt(t)
      BY <1>1, <1>2, <2>1, Positions, Located
    <2>2. CASE MapEndAt(t)
      BY <1>1, <1>2, <2>2, Positions, Located
    <2>3. CASE HashEndAt(t)
      BY <1>1, <1>2, <2>3, Positions, Located
    <2> QED
      BY <1>2, <2>1, <2>2, <2>3
  <1>5. o \in MetricSet /\ hist[i] \in HistSet
    BY <1>3, MetricPlace
  <1>6. CASE failed' = "race" /\ UNCHANGED <<env, obj, int_step, work, pc, loc, hist>>
    <2>1. AtWork'
      BY <1>6 DEF BInv, AtWork, env, Busy, Call, GoodCall, Index, Ops
    <2>2. Types'
      <3>1. Index' = Index
        BY <1>6 DEF Index, env
      <3> QED
        BY <1>6, <3>1 DEF BInv, Types, env
    <2>3. Else(t) /\ EnterDone(t)
      BY <1>6 DEF Else, EnterDone
    <2> QED
      BY <1>3, <1>6, <2>1, <2>2, <2>3 DEF BInv, env
  <1>7. CASE /\ o.users = {} /\ obj' = [obj EXCEPT ![i] = m] /\ Continue(t, loc[t])
             /\ UNCHANGED <<env, int_step, failed, hist>>
    <2> HIDE DEF n
    <2>1. pc[t] + 1 <= n /\ ~(pc[t] + 1 > n)
      BY <1>4
    <2>2. ThreadStep(t) /\ work'[t] = work[t] /\ pc'[t] = pc[t] + 1 /\ loc'[t] = loc[t]
      BY <1>1, <1>3, <1>7, <2>1, ContinueFacts DEF n
    <2>3. /\ m \in MetricSet /\ m.total = o.total /\ m.nodes = o.nodes
          /\ m.holder = o.holder /\ m.cfl = o.cfl /\ m.users = {t}
      <3>1. {t} \in SUBSET Thread
        OBVIOUS
      <3> QED
        BY <1>5, <3>1, FieldsAfter
    <2> HIDE DEF m, o, i
    <2>4. BInv' /\ Else(t) /\ obj'[i] = m
      <3>1. /\ i \in Index /\ At(t) = i /\ hist[i] \in HistSet /\ hist' = hist
            /\ obj' = [obj EXCEPT ![i] = m] /\ UNCHANGED <<env, int_step, failed>>
        BY <1>3, <1>5, <1>7 DEF i
      <3>2. Busy(t) /\ ThreadStep(t) /\ m \in MetricSet
        BY <1>1, <2>2, <2>3
      <3> QED
        BY <3>1, <3>2, ListStep, Zenon
    <2>5. EnterDone(t)
      BY <1>4, <1>7, <2>2, <2>3, <2>4 DEF EnterDone, i, o
    <2> QED
      BY <1>3, <1>7, <2>2, <2>4, <2>5 DEF i
  <1> QED
    BY <1>6, <1>7 DEF Enter, Fail

\* ... and leaves it.
LeaveDone(t) ==
    LET i == At(t)  x == Call(t).arg IN
    /\ obj'[i].users = {} /\ obj'[i].total = obj[i].total
    /\ obj'[i].holder = obj[i].holder
    /\ \/ /\ MapAt(t) /\ pc[t] = 4 /\ obj'[i].nodes = Increment(obj[i].nodes, x)
          /\ obj'[i].cfl = obj[i].cfl
          /\ hist'[i].done = [hist[i].done EXCEPT ![x] = hist[i].done[x] + 1]
          /\ hist'[i].met = hist[i].met /\ hist'[i].report = hist[i].report
          /\ work'[t] = Tail(work[t]) /\ pc'[t] = 1
       \/ /\ MapEndAt(t) /\ pc[t] = 3 /\ hist' = hist /\ obj'[i].nodes = obj[i].nodes
          /\ obj'[i].cfl = CflAddAll(obj[i].cfl, obj[i].nodes, obj[i].total)
          /\ work'[t] = work[t] /\ pc'[t] = 4 /\ loc'[t] = loc[t]
       \/ /\ MapEndAt(t) \/ HashEndAt(t)
          /\ pc[t] = 6 /\ hist' = hist /\ obj'[i].nodes = obj[i].nodes
          /\ obj'[i].cfl = <<>> /\ work'[t] = Tail(work[t]) /\ pc'[t] = 1

\* Records that count one more
LEMMA IncrementType ==
    ASSUME NEW q \in Seq(RecordSet), NEW x \in Names
    PROVE  Increment(q, x) \in Seq(RecordSet)
  <1>1. CASE \E k \in DOMAIN q : q[k].name = x
    <2>1. \A k \in DOMAIN q : q[k] \in RecordSet
      OBVIOUS
    <2>2. \A k \in DOMAIN q : [q[k] EXCEPT !.cnt = q[k].cnt + 1] \in RecordSet
      BY <2>1 DEF RecordSet
    <2> DEFINE s == [k \in DOMAIN q |-> IF q[k].name = x
                                       THEN [q[k] EXCEPT !.cnt = q[k].cnt + 1] ELSE q[k]]
    <2>3. Increment(q, x) = s
      BY <1>1 DEF Increment
    <2>4. s \in [1..Len(q) -> RecordSet]
      BY <2>1, <2>2
    <2>5. s \in Seq(RecordSet)
      <3> HIDE DEF s
      <3> QED
        BY <2>4
    <2> QED
      BY <2>3, <2>5
  <1>2. CASE ~\E k \in DOMAIN q : q[k].name = x
    <2>1. [name |-> x, cnt |-> 1] \in RecordSet
      BY DEF RecordSet
    <2> QED
      BY <1>2, <2>1 DEF Increment
  <1> QED
    BY <1>1, <1>2

\* The end of the map's or the list's use
LEMMA LeaveBasic ==
    ASSUME BInv, NEW t \in Thread, Leave(t)
    PROVE  /\ BInv' /\ ThreadStep(t) /\ Else(t) /\ LeaveDone(t) /\ At(t) \in Index
           /\ UNCHANGED <<env, int_step, failed>>
  <1> DEFINE i == At(t)
             n == Len(Ops(Call(t)))
             o == obj[i]
             x == Now(t).arg
  <1>1. /\ Busy(t) /\ Now(t).kind \in {"mapLeave", "iterLeave", "freeLeave"}
        /\ UNCHANGED <<env, int_step, failed>> /\ Continue(t, loc[t])
    BY DEF Leave, Is
  <1>2. /\ Now(t).kind = "mapLeave" => MapAt(t) /\ pc[t] = 4 /\ n = 4 /\ x = Call(t).arg
        /\ Now(t).kind = "iterLeave" => MapEndAt(t) /\ pc[t] = 3 /\ n = 6
        /\ Now(t).kind = "freeLeave" => (MapEndAt(t) \/ HashEndAt(t)) /\ pc[t] = 6 /\ n = 6
    <2>1. /\ Now(t).kind = "mapLeave" => MapAt(t)
          /\ Now(t).kind = "iterLeave" => MapEndAt(t)
          /\ Now(t).kind = "freeLeave" => MapEndAt(t) \/ HashEndAt(t)
      BY <1>1, Located
    <2> QED
      BY <2>1, Positions
  <1>3. i \in Index /\ loc[t] \in Locals /\ (MapAt(t) => Call(t).arg \in Names)
    BY <1>1, <1>2 DEF HashEndAt, MapEndAt, MapAt, BInv, Types
  <1>5. /\ o \in MetricSet /\ hist[i] \in HistSet /\ o.nodes \in Seq(RecordSet)
        /\ o.cfl \in Seq(EntrySet) /\ o.total \in Int
    BY <1>3, MetricPlace, MetricFields
  <1> HIDE DEF n
  <1>6. /\ ThreadStep(t)
        /\ pc[t] + 1 <= n => work'[t] = work[t] /\ pc'[t] = pc[t] + 1 /\ loc'[t] = loc[t]
        /\ pc[t] + 1 > n => work'[t] = Tail(work[t]) /\ pc'[t] = 1
    <2>1. n \in Int /\ pc[t] \in Int
      BY <1>1, <1>2
    <2>2. ~(pc[t] + 1 <= n /\ pc[t] + 1 > n)
      BY <2>1
    <2> QED
      BY <1>1, <1>3, <2>2, ContinueFacts DEF n
  <1> HIDE DEF i, o, x
  <1>7. ASSUME NEW m \in MetricSet, NEW h \in HistSet, obj' = [obj EXCEPT ![i] = m],
               hist' = [hist EXCEPT ![i] = h] \/ (hist' = hist /\ h = hist[i])
        PROVE  BInv' /\ Else(t) /\ obj'[i] = m /\ hist'[i] = h
    <2>1. /\ At(t) = i /\ i \in Index /\ Busy(t) /\ ThreadStep(t)
          /\ UNCHANGED <<env, int_step, failed>>
      BY <1>1, <1>3, <1>6 DEF i
    <2> QED
      <3>1. CASE hist' = [hist EXCEPT ![i] = h]
        BY <1>7, <2>1, <3>1, ListStep, ZenonT(40)
      <3>2. CASE hist' = hist /\ h = hist[i]
        BY <1>7, <2>1, <3>2, ListStep, ZenonT(40)
      <3> QED
        BY <1>7, <3>1, <3>2
  <1>8. \A c \in Seq(EntrySet), q \in Seq(RecordSet) :
          LET m == [o EXCEPT !.users = {}, !.nodes = q]
              p == [o EXCEPT !.users = {}, !.cfl = c] IN
          /\ m \in MetricSet /\ m.total = o.total /\ m.nodes = q
          /\ m.holder = o.holder /\ m.cfl = o.cfl /\ m.users = {}
          /\ p \in MetricSet /\ p.total = o.total /\ p.nodes = o.nodes
          /\ p.holder = o.holder /\ p.cfl = c /\ p.users = {}
    BY <1>5 DEF MetricSet
  <1>9. CASE Is(t, "mapLeave")
    <2> DEFINE q == Increment(o.nodes, x)
               m == [o EXCEPT !.users = {}, !.nodes = q]
               h == [hist[i] EXCEPT !.done[x] = hist[i].done[x] + 1]
    <2>1. obj' = [obj EXCEPT ![i] = m] /\ hist' = [hist EXCEPT ![i] = h]
      BY <1>1, <1>9 DEF Leave, Is, i, o, x
    <2>2. MapAt(t) /\ pc[t] = 4 /\ pc[t] + 1 > n /\ x = Call(t).arg /\ x \in Names
      BY <1>2, <1>3, <1>9 DEF Is
    <2>3. q \in Seq(RecordSet)
      BY <1>5, <2>2, IncrementType
    <2> HIDE DEF q
    <2>4. /\ m \in MetricSet /\ m.total = o.total /\ m.nodes = q
          /\ m.holder = o.holder /\ m.cfl = o.cfl /\ m.users = {}
      BY <1>5, <1>8, <2>3, Zenon
    <2>5. /\ h \in HistSet /\ h.done = [hist[i].done EXCEPT ![x] = hist[i].done[x] + 1]
          /\ h.met = hist[i].met /\ h.report = hist[i].report
      BY <1>5, <2>2, DoneAfter, Zenon
    <2> HIDE DEF m, h
    <2>6. BInv' /\ Else(t) /\ obj'[i] = m /\ hist'[i] = h
      BY <1>7, <2>1, <2>4, <2>5
    <2>7. LeaveDone(t)
      BY <1>6, <2>2, <2>4, <2>5, <2>6 DEF LeaveDone, i, o, q
    <2> QED
      BY <1>1, <1>3, <1>6, <2>6, <2>7 DEF i
  <1>10. CASE Is(t, "iterLeave")
    <2> DEFINE c == CflAddAll(o.cfl, o.nodes, o.total)
               m == [o EXCEPT !.users = {}, !.cfl = c]
    <2>1. obj' = [obj EXCEPT ![i] = m] /\ hist' = hist
      BY <1>1, <1>10 DEF Leave, Is, i, o
    <2>2. MapEndAt(t) /\ pc[t] = 3 /\ pc[t] + 1 = 4 /\ pc[t] + 1 <= n
      BY <1>2, <1>10 DEF Is
    <2>3. c \in Seq(EntrySet)
      BY <1>5, CflAllType
    <2> HIDE DEF c
    <2>4. /\ m \in MetricSet /\ m.total = o.total /\ m.nodes = o.nodes
          /\ m.holder = o.holder /\ m.cfl = c /\ m.users = {}
      BY <1>5, <1>8, <2>3, Zenon
    <2> HIDE DEF m
    <2>6. BInv' /\ Else(t) /\ obj'[i] = m
      BY <1>5, <1>7, <2>1, <2>4
    <2>7. LeaveDone(t)
      BY <1>6, <2>1, <2>2, <2>4, <2>6 DEF LeaveDone, i, o, c
    <2> QED
      BY <1>1, <1>3, <1>6, <2>6, <2>7 DEF i
  <1>11. CASE Is(t, "freeLeave")
    <2> DEFINE m == [o EXCEPT !.users = {}, !.cfl = <<>>]
    <2>1. obj' = [obj EXCEPT ![i] = m] /\ hist' = hist
      BY <1>1, <1>11 DEF Leave, Is, i, o
    <2>2. (MapEndAt(t) \/ HashEndAt(t)) /\ pc[t] = 6 /\ pc[t] + 1 > n
      BY <1>2, <1>11 DEF Is
    <2>3. <<>> \in Seq(EntrySet)
      OBVIOUS
    <2>4. /\ m \in MetricSet /\ m.total = o.total /\ m.nodes = o.nodes
          /\ m.holder = o.holder /\ m.cfl = <<>> /\ m.users = {}
      BY <1>5, <1>8, <2>3, Zenon
    <2> HIDE DEF m
    <2>6. BInv' /\ Else(t) /\ obj'[i] = m
      BY <1>5, <1>7, <2>1, <2>4
    <2>7. LeaveDone(t)
      BY <1>6, <2>1, <2>2, <2>4, <2>6 DEF LeaveDone, i, o
    <2> QED
      BY <1>1, <1>3, <1>6, <2>6, <2>7 DEF i
  <1> QED
    BY <1>9, <1>10, <1>11 DEF Leave

\* A map without requests is not reported.
LEMMA IfNoTotalBasic ==
    ASSUME BInv, NEW t \in Thread, IfNoTotal(t)
    PROVE  /\ BInv' /\ MapEndAt(t) /\ ThreadStep(t) /\ Else(t)
           /\ UNCHANGED <<env, obj, int_step, failed, hist>> /\ pc[t] = 1
           /\ \/ work'[t] = work[t] /\ pc'[t] = 2 /\ loc'[t] = loc[t]
              \/ work'[t] = Tail(work[t]) /\ pc'[t] = 1
  <1> DEFINE n == Len(Ops(Call(t)))
  <1>1. /\ Busy(t) /\ Now(t).kind = "ifNoTotal"
        /\ UNCHANGED <<env, obj, int_step, failed, hist>>
        /\ Advance(t, 6, loc[t]) \/ Advance(t, 1, loc[t])
    BY DEF IfNoTotal, Is, Continue
  <1>2. MapEndAt(t) /\ loc[t] \in Locals
    BY <1>1, Located DEF BInv, Types
  <1>3. pc[t] = 1 /\ n = 6 /\ At(t) \in Index
    BY <1>1, <1>2, Positions DEF MapEndAt
  <1> HIDE DEF n
  <1>4. /\ 6 \in Nat \ {0} /\ 1 \in Nat \ {0} /\ pc[t] + 6 > n /\ ~(pc[t] + 6 <= n)
        /\ pc[t] + 1 <= n /\ ~(pc[t] + 1 > n) /\ pc[t] + 1 = 2
    BY <1>3
  <1>5. /\ ThreadStep(t)
        /\ \/ work'[t] = work[t] /\ pc'[t] = 2 /\ loc'[t] = loc[t]
           \/ work'[t] = Tail(work[t]) /\ pc'[t] = 1
    BY <1>1, <1>2, <1>4, AdvanceFacts DEF n
  <1>6. obj[At(t)] \in MetricSet /\ hist[At(t)] \in HistSet
    BY <1>3, MetricPlace
  <1>7. BInv' /\ Else(t)
    BY <1>1, <1>3, <1>5, <1>6, ListStep
  <1> QED
    BY <1>1, <1>2, <1>3, <1>5, <1>7

-----------------------------------------------------------------------------
(***************************************************************************)
(* The records that threads count in                                       *)
(***************************************************************************)

\* t is in the handler of a request of a metric with a hash table
HashReq(t) == /\ Busy(t) /\ At(t) \in Index /\ metrics[At(t)] \in Hashes
              /\ Call(t).ev = "request"

\* The record that a thread has found is the first one with the name.
NodeInv == \A t \in Thread :
    HashReq(t) /\ pc[t] \in {5, 6} => First(At(t), Call(t).arg, loc[t].node)

\* Records are not removed, and keep their names.
Grows(i) ==
    /\ Len(obj[i].nodes) <= Len(obj'[i].nodes)
    /\ \A k \in 1..Len(obj[i].nodes) : obj'[i].nodes[k].name = obj[i].nodes[k].name

SameEnv == UNCHANGED <<env, int_step, failed>>

\* The steps of a thread, by what they do to the lists
AvgStep(t)  == AvgAt(t) /\ ThreadStep(t) /\ Else(t) /\ SameLists /\ SameEnv
OwnStep(t)  == /\ OwnAt(t) /\ ThreadStep(t)
               /\ UNCHANGED <<obj, hist, failed, setup, metrics, ticks, payload,
                              dead, overlapped, steady>>
ReportStep(t) == /\ HashEndAt(t) \/ MapEndAt(t)
                 /\ Send(t) /\ pc[t] = 4 /\ ThreadStep(t) /\ Else(t) /\ SameLists
                 /\ obj' = obj /\ SameEnv
TotalStep(t) == /\ HashAt(t) \/ MapAt(t)
                /\ TotalDone(t) /\ ThreadStep(t) /\ Else(t) /\ SameEnv
FindStep(t)  == HashAt(t) /\ FindDone(t) /\ ThreadStep(t) /\ Else(t) /\ SameEnv
CreateStep(t) == HashAt(t) /\ CreateDone(t) /\ ThreadStep(t) /\ Else(t) /\ SameEnv
CountStep(t) == HashAt(t) /\ CountDone(t) /\ ThreadStep(t) /\ Else(t) /\ SameEnv
CflStep(t)   == HashEndAt(t) /\ CflDone(t) /\ ThreadStep(t) /\ Else(t) /\ SameEnv
FailStep     == failed' = "race" /\ UNCHANGED <<env, int_step, obj, hist, work, pc, loc>>
EnterStep(t) == /\ At(t) \in Index /\ metrics[At(t)] \notin Avgs /\ EnterDone(t)
                /\ ThreadStep(t) /\ Else(t) /\ SameEnv /\ failed' = "no"
LeaveStep(t) == /\ At(t) \in Index /\ LeaveDone(t) /\ ThreadStep(t) /\ Else(t) /\ SameEnv
SkipStep(t)  == /\ MapEndAt(t) /\ pc[t] = 1 /\ ThreadStep(t) /\ Else(t) /\ SameEnv
                /\ obj' = obj /\ hist' = hist
                /\ \/ work'[t] = work[t] /\ pc'[t] = 2 /\ loc'[t] = loc[t]
                   \/ work'[t] = Tail(work[t]) /\ pc'[t] = 1
ListSteps(t) == \/ AvgStep(t) \/ OwnStep(t) \/ ReportStep(t) \/ TotalStep(t)
                \/ FindStep(t) \/ CreateStep(t) \/ CountStep(t) \/ CflStep(t)
                \/ FailStep \/ EnterStep(t) \/ LeaveStep(t) \/ SkipStep(t)

\* Where HashReq is
LEMMA HashReqAt ==
    ASSUME BInv, NEW t \in Thread, Busy(t)
    PROVE  HashReq(t) <=> HashAt(t)
  <1>1. HashAt(t) => HashReq(t)
    BY DEF HashAt, HashReq
  <1>2. ASSUME HashReq(t) PROVE HashAt(t)
    <2>1. metrics[At(t)] \in Class /\ metrics[At(t)] \in Hashes /\ At(t) # 0
      <3>1. At(t) \in Index /\ metrics \in Seq(Class)
        BY <1>2 DEF HashReq, BInv, Types
      <3> QED
        BY <1>2, <3>1 DEF HashReq, Index
    <2>2. metrics[At(t)] \notin Avgs /\ metrics[At(t)] \notin Maps
      BY <2>1, ClassEvents
    <2>3. ~OwnAt(t)
      BY <2>1 DEF OwnAt
    <2>4. ~HashEndAt(t)
      BY <1>2 DEF HashEndAt, HashReq
    <2>5. ~MapAt(t) /\ ~MapEndAt(t) /\ ~AvgAt(t)
      BY <2>2 DEF MapAt, MapEndAt, AvgAt
    <2> QED
      BY <2>3, <2>4, <2>5, Places
  <1> QED
    BY <1>1, <1>2

\* Every operation is one of these steps.
LEMMA OperationCases ==
    ASSUME BInv, NodeInv, NEW t \in Thread, Operation(t), failed = "no"
    PROVE  BInv' /\ ListSteps(t) /\ metrics' = metrics /\ setup' = setup /\ ticks' = ticks
  <1>1. CASE Modify(t)
    BY <1>1, ModifyBasic DEF ListSteps, AvgStep, SameEnv, env
  <1>2. CASE Read(t)
    <2>1. Else(t) /\ SameLists
      BY <1>2, ReadBasic DEF Else, SameLists
    <2> QED
      BY <1>2, <2>1, ReadBasic DEF ListSteps, AvgStep, SameEnv, env
  <1>3. CASE Delta(t) \/ Mark(t)
    BY <1>3, MarkBasic DEF ListSteps, AvgStep, SameEnv, env
  <1>4. CASE Send(t)
    <2>1. HashEndAt(t) \/ MapEndAt(t) => pc[t] = 4
      <3>1. Now(t).kind = "send"
        BY <1>4 DEF Send, Is
      <3> QED
        BY <3>1, Positions
    <2> QED
      BY <1>4, <2>1, SendBasic DEF ListSteps, AvgStep, ReportStep, SameEnv, env
  <1>5. CASE Step(t)
    BY <1>5, StepBasic DEF ListSteps, OwnStep, env
  <1>6. CASE HashProcess(t)
    BY <1>6, HashProcessBasic DEF ListSteps, OwnStep
  <1>7. CASE Branch(t)
    BY <1>7, BranchBasic DEF ListSteps, OwnStep, env
  <1>8. CASE Total(t)
    BY <1>8, TotalBasic DEF ListSteps, TotalStep, SameEnv, env
  <1>9. CASE Find(t)
    BY <1>9, FindBasic DEF ListSteps, FindStep, SameEnv, env
  <1>10. CASE Create(t)
    BY <1>10, CreateBasic DEF ListSteps, CreateStep, SameEnv, env
  <1>11. CASE Count(t)
    <2>1. Busy(t) /\ Now(t).kind \in {"cntRead", "cntWrite"}
      BY <1>11 DEF Count, Is
    <2>2. HashAt(t)
      BY <2>1, Located
    <2>3. HashReq(t) /\ pc[t] \in {5, 6}
      BY <2>1, <2>2, HashReqAt, Positions
    <2>4. First(At(t), Call(t).arg, loc[t].node)
      BY <2>3 DEF NodeInv
    <2> QED
      BY <1>11, <2>4, CountBasic DEF ListSteps, CountStep, SameEnv, env
  <1>12. CASE CflUpdate(t)
    BY <1>12, CflBasic DEF ListSteps, CflStep, SameEnv, env
  <1>13. CASE Enter(t)
    <2>1. /\ BInv' /\ Else(t) /\ EnterDone(t) /\ At(t) \in Index
          /\ metrics[At(t)] \notin Avgs
          /\ failed' = "no" => ThreadStep(t)
          /\ UNCHANGED <<env, int_step>>
      BY <1>13, EnterBasic
    <2>2. CASE failed' = "race" /\ UNCHANGED <<obj, hist, work, pc, loc>>
      BY <2>1, <2>2 DEF ListSteps, FailStep, env
    <2>3. CASE ~(failed' = "race" /\ UNCHANGED <<obj, hist, work, pc, loc>>)
      <3>1. failed' = failed
        BY <2>1, <2>3 DEF EnterDone
      <3> QED
        BY <2>1, <3>1 DEF ListSteps, EnterStep, SameEnv, env
    <2> QED
      BY <2>2, <2>3
  <1>14. CASE Leave(t)
    BY <1>14, LeaveBasic DEF ListSteps, LeaveStep, SameEnv, env
  <1>15. CASE IfNoTotal(t)
    BY <1>15, IfNoTotalBasic DEF ListSteps, SkipStep, SameEnv, env
  <1> QED
    BY <1>1, <1>2, <1>3, <1>4, <1>5, <1>6, <1>7, <1>8, <1>9, <1>10, <1>11, <1>12,
       <1>13, <1>14, <1>15 DEF Operation

\* What else happens: a thread is given calls, ...
StartStep(t) ==
    /\ ~Busy(t) /\ Others(t) /\ pc'[t] = pc[t] /\ loc'[t] = loc[t]
    /\ Calls(t, work'[t]) /\ work' \in [Thread -> Seq(CallSet)]
    /\ UNCHANGED <<setup, metrics, obj, hist, failed, int_step, dead>>

\* ... by a flow that is closed or by the timer, ...
FlowStart(t) ==
    /\ StartStep(t) /\ t = "flow" /\ ticks' = ticks /\ overlapped' = overlapped
    /\ \A k \in 1..Len(work'[t]) :
         /\ work'[t][k].ev \in {"newFlow", "request", "response", "flowUpdate"}
         /\ work'[t][k].metric \in Index
TimerStart(t) ==
    /\ StartStep(t) /\ t \in Callback /\ ticks' = ticks + 1 /\ ticks < setup.ticks
    /\ overlapped' = (overlapped \/ \E u \in Callback : Busy(u))
    /\ \E w : /\ Informs(t, "timer", None, w)
              /\ work'[t] = Own("process") \o (w \o Own("branch"))
              /\ Calls(t, w \o Own("branch"))

\* ... or nothing that the threads see.
NoStep == UNCHANGED <<setup, metrics, obj, hist, failed, int_step, work, pc, loc,
                      ticks, overlapped>>

\* A thread that is given calls may make them.
LEMMA StartAtWork ==
    ASSUME BInv, NEW t \in Thread, StartStep(t)
    PROVE  AtWork'
  <1> DEFINE Good(u, w) == \A k \in 1..Len(w) : GoodCall(u, w[k])
             In(w, p) == IF w # <<>> THEN p <= Len(Ops(Head(w))) ELSE p = 1
             Fine(u, w, p, l) == Good(u, w) /\ In(w, p) /\ (p = 1 => l = NoLocals)
  <1>1. \A u \in Thread : Fine(u, work[u], pc[u], loc[u])
    BY DEF BInv, AtWork, Busy, Call
  <1>2. \A u \in Thread : Fine(u, work'[u], pc'[u], loc'[u])
    <2> TAKE u \in Thread
    <2>1. CASE u # t
      BY <1>1, <2>1 DEF StartStep, Others
    <2>2. CASE u = t
      <3>1. pc'[t] = 1 /\ loc'[t] = NoLocals /\ Good(t, work'[t])
        BY <1>1 DEF StartStep, Busy, Calls
      <3>2. ASSUME work'[t] # <<>> PROVE 1 <= Len(Ops(Head(work'[t])))
        <4>1. Head(work'[t]) = work'[t][1] /\ 1 \in 1..Len(work'[t])
          BY <3>2 DEF StartStep, Calls
        <4>2. GoodCall(t, Head(work'[t]))
          BY <3>1, <4>1
        <4> QED
          BY <4>2, CallLength DEF BInv, Types
      <3> QED
        BY <2>2, <3>1, <3>2
    <2> QED
      BY <2>1, <2>2
  <1>3. \A u \in Thread : /\ \A k \in 1..Len(work'[u]) : GoodCall(u, work'[u][k])
                          /\ IF work'[u] # <<>> THEN pc'[u] <= Len(Ops(Head(work'[u])))
                             ELSE pc'[u] = 1
                          /\ pc'[u] = 1 => loc'[u] = NoLocals
    BY <1>2
  <1>4. metrics' = metrics
    BY DEF StartStep
  <1> QED
    BY <1>3, <1>4 DEF AtWork, Busy, Call, GoodCall, Ops, Index

\* A flow is closed.
LEMMA FlowClosedBasic ==
    ASSUME BInv, NEW ev \in Told \cup {"flowUpdate"}, NEW x \in Named(ev),
           FlowClosed(ev, x)
    PROVE  BInv' /\ FlowStart("flow")
  <1> DEFINE t == "flow"
             w == ExtractData(ev, x)
  <1>0. t \in Thread
    BY DEF Thread
  <1>1. /\ ev \in {"newFlow", "request", "response", "flowUpdate"} /\ x \in Names
        /\ ev = "response" => x \in Name
    BY NamedType
  <1>2. /\ Calls(t, w)
        /\ \A k \in 1..Len(w) : w[k].ev \in {ev, "flowUpdate"} /\ w[k].metric \in Index
    BY <1>1, ExtractCalls DEF BInv
  <1>3. /\ ~Busy(t) /\ work' = [work EXCEPT ![t] = w] /\ UNCHANGED <<pc, loc>>
        /\ events' = events + 1 /\ payload' = [c \in Tps |-> 0] /\ steady' = FALSE
        /\ UNCHANGED <<setup, metrics, ticks, dead, overlapped, obj, int_step, failed, hist>>
    BY DEF FlowClosed
  <1> HIDE DEF w, t
  <1>4. work \in [Thread -> Seq(CallSet)] /\ w \in Seq(CallSet)
    BY <1>2 DEF BInv, Types, Calls
  <1>5. work' \in [Thread -> Seq(CallSet)] /\ work'[t] = w /\ Others(t)
    BY <1>0, <1>3, <1>4 DEF Others
  <1>6. StartStep(t)
    BY <1>2, <1>3, <1>5 DEF StartStep
  <1>7. AtWork'
    BY <1>0, <1>6, StartAtWork
  <1>8. Types'
    <2>1. Index' = Index
      BY <1>3 DEF Index
    <2>2. payload' \in [Tps -> Nat]
      BY <1>3
    <2>3. events' \in Nat /\ steady' \in BOOLEAN
      <3>1. events \in Nat /\ events' = events + 1
        BY <1>3 DEF BInv, Types
      <3>2. events' \in Nat
        BY <3>1
      <3>3. steady' = FALSE
        BY <1>3, Zenon
      <3>4. steady' \in BOOLEAN
        BY <3>3, Zenon
      <3> QED
        BY <3>2, <3>4
    <2>4. /\ setup \in Setups /\ metrics \in Seq(Class)
          /\ obj \in [Index -> MetricSet] /\ hist \in [Index -> HistSet]
          /\ int_step \in Int /\ ticks \in Nat
          /\ dead \in BOOLEAN /\ overlapped \in BOOLEAN /\ failed \in {"no", "race"}
          /\ pc \in [Thread -> Nat \ {0}] /\ loc \in [Thread -> Locals]
      BY DEF BInv, Types
    <2> QED
      BY <1>3, <1>5, <2>1, <2>2, <2>3, <2>4, Zenon DEF Types
  <1>9. FlowStart(t)
    <2>1. \A k \in 1..Len(work'[t]) :
            /\ work'[t][k].ev \in {"newFlow", "request", "response", "flowUpdate"}
            /\ work'[t][k].metric \in Index
      BY <1>1, <1>2, <1>5
    <2> QED
      BY <1>3, <1>6, <2>1 DEF FlowStart, t
  <1> QED
    BY <1>7, <1>8, <1>9 DEF BInv, t

\* The timer fires.
LEMMA FireBasic ==
    ASSUME BInv, NEW t \in Callback, Fire(t)
    PROVE  BInv' /\ TimerStart(t)
  <1> DEFINE v == Notify("timer", None)
             a == Own("process")
             b == Own("branch")
             w == a \o (v \o b)
  <1>0. t \in Thread
    BY DEF Thread
  <1>1. Informs(t, "timer", None, v)
    <2>1. /\ "timer" \in Events
          /\ ("timer" \in {"timer", "interval"} => t \in Callback)
          /\ ("timer" = "response" => None \in Name)
          /\ None \in Names /\ Types
      BY DEF Events, Names, BInv
    <2> QED
      BY <2>1, NotifyCalls
  <1>2. Calls(t, a) /\ Calls(t, b)
    BY OwnCalls DEF Parts
  <1>3. /\ ~Busy(t) /\ ticks < setup.ticks /\ UNCHANGED <<pc, loc>>
        /\ work' = [work EXCEPT ![t] = (a \o v) \o b]
        /\ ticks' = ticks + 1
        /\ overlapped' = (overlapped \/ \E u \in Callback : Busy(u))
        /\ UNCHANGED <<setup, metrics, events, payload, dead, steady, obj, int_step,
                       failed, hist>>
    BY DEF Fire
  <1> HIDE DEF v, a, b
  <1>4. Calls(t, v) /\ Calls(t, v \o b)
    <2>1. Calls(t, v)
      BY <1>1 DEF Informs
    <2> QED
      BY <1>2, <2>1, CallsJoined
  <1>5. Calls(t, w)
    BY <1>2, <1>4, CallsJoined
  <1>6. (a \o v) \o b = w
    <2>1. a \in Seq(CallSet) /\ b \in Seq(CallSet) /\ v \in Seq(CallSet)
      BY <1>2, <1>4 DEF Calls
    <2> QED
      BY <2>1, ConcatAssociative
  <1> HIDE DEF w
  <1>7. work \in [Thread -> Seq(CallSet)] /\ w \in Seq(CallSet)
    BY <1>5 DEF BInv, Types, Calls
  <1>8. work' \in [Thread -> Seq(CallSet)] /\ work'[t] = w /\ Others(t)
    BY <1>0, <1>3, <1>6, <1>7 DEF Others
  <1>9. StartStep(t)
    BY <1>3, <1>5, <1>8 DEF StartStep
  <1>10. AtWork'
    BY <1>0, <1>9, StartAtWork
  <1>11. Types'
    <2>1. Index' = Index
      BY <1>3 DEF Index
    <2>2. overlapped' \in BOOLEAN
      BY <1>3 DEF BInv, Types
    <2> QED
      BY <1>3, <1>8, <2>1, <2>2 DEF BInv, Types
  <1>12. TimerStart(t)
    BY <1>1, <1>3, <1>4, <1>8, <1>9 DEF TimerStart, w, a, b
  <1> QED
    BY <1>10, <1>11, <1>12 DEF BInv

\* Data arrives, the peer goes, or the program has come to its end: nothing
\* that the threads see.
LEMMA QuietBasic ==
    ASSUME BInv, PeerGone \/ (\E c \in Tps : FlowGrows(c)) \/ Halted \/ UNCHANGED vars
    PROVE  BInv' /\ NoStep
  <1>1. /\ UNCHANGED <<setup, metrics, obj, hist, failed, int_step, work, pc, loc,
                       ticks, overlapped, steady>>
        /\ \/ UNCHANGED <<payload, events, dead>>
           \/ dead' = TRUE /\ UNCHANGED <<payload, events>>
           \/ /\ events' = events + 1 /\ dead' = dead
              /\ \E c \in Tps : payload' = [payload EXCEPT ![c] = (@ + 1) % UIntMod]
    BY DEF PeerGone, FlowGrows, Halted, vars
  <1>2. AtWork'
    <2>1. AtWork
      BY DEF BInv
    <2>2. UNCHANGED <<metrics, work, pc, loc>>
      BY <1>1
    <2> QED
      BY <2>1, <2>2, ZenonT(60) DEF AtWork, Busy, Call, GoodCall, Ops, Index
  <1>3. payload' \in [Tps -> Nat]
    <2>1. payload \in [Tps -> Nat] /\ UIntMod \in Nat \ {0}
      BY MetricsAssumption DEF BInv, Types
    <2>2. \A c \in Tps : (payload[c] + 1) % UIntMod \in Nat
      BY <2>1
    <2>3. ASSUME NEW c \in Tps, payload' = [payload EXCEPT ![c] = (@ + 1) % UIntMod]
          PROVE  payload' \in [Tps -> Nat]
      BY <2>1, <2>2, <2>3
    <2> QED
      BY <1>1, <2>1, <2>3
  <1>4. events' \in Nat
    BY <1>1 DEF BInv, Types
  <1>5. dead' \in BOOLEAN
    <2>1. dead \in BOOLEAN
      BY DEF BInv, Types
    <2> QED
      BY <1>1, <2>1
  <1>6. Index' = Index
    BY <1>1 DEF Index
  <1>7. /\ setup \in Setups /\ metrics \in Seq(Class)
        /\ obj \in [Index -> MetricSet] /\ hist \in [Index -> HistSet]
        /\ int_step \in Int /\ ticks \in Nat
        /\ overlapped \in BOOLEAN /\ steady \in BOOLEAN /\ failed \in {"no", "race"}
        /\ work \in [Thread -> Seq(CallSet)]
        /\ pc \in [Thread -> Nat \ {0}] /\ loc \in [Thread -> Locals]
    BY DEF BInv, Types
  <1>8. Types'
    BY <1>1, <1>3, <1>4, <1>5, <1>6, <1>7, Zenon DEF Types
  <1> QED
    BY <1>1, <1>2, <1>8 DEF BInv, NoStep

\* What processData itself does
OwnDone(t) ==
    \/ /\ Call(t).ev = "process" /\ pc[t] = 1 /\ work'[t] = work[t] /\ pc'[t] = 2
       /\ loc'[t] = Local(t, int_step) /\ int_step' = int_step
    \/ /\ Call(t).ev = "process" /\ pc[t] = 2 /\ work'[t] = work[t] /\ pc'[t] = 3
       /\ int_step' = loc[t].reg + 1
    \/ /\ Call(t).ev = "process" /\ pc[t] = 3 /\ pc'[t] = 1 /\ int_step' = int_step
       /\ \E w : /\ Calls(t, w) /\ work'[t] = w \o Tail(work[t])
                 /\ \A k \in 1..Len(w) :
                      /\ w[k].ev \in {"newFlow", "request", "response", "flowUpdate"}
                      /\ w[k].metric \in Index
    \/ /\ Call(t).ev = "branch" /\ pc'[t] = 1 /\ int_step' = int_step
       /\ \/ work'[t] = <<>>
          \/ \E w : /\ Informs(t, "interval", None, w) /\ Calls(t, Own("reset"))
                    /\ work'[t] = w \o Own("reset") /\ int_step >= Interval
    \/ /\ Call(t).ev = "reset" /\ pc'[t] = 1 /\ work'[t] = Tail(work[t])
       /\ int_step' = 0

\* ... and where
LEMMA OwnPositions ==
    ASSUME NEW t, OwnAt(t)
    PROVE  LET k == Now(t).kind
               n == Len(Ops(Call(t)))
               e == Call(t).ev IN
           \/ k = "stepRead" /\ e = "process" /\ pc[t] = 1 /\ n = 3
           \/ k = "stepWrite" /\ e = "process" /\ pc[t] = 2 /\ n = 3
           \/ k = "hashProcess" /\ e = "process" /\ pc[t] = 3 /\ n = 3
           \/ k = "branch" /\ e = "branch" /\ pc[t] = 1 /\ n = 1
           \/ k = "stepReset" /\ e = "reset" /\ pc[t] = 1 /\ n = 1
  <1>1. \A a : Op(a, "").kind = a
    BY DEF Op
  <1> QED
    BY <1>1, Zenon DEF OwnAt

\* processData works on int_step.
LEMMA StepOwn ==
    ASSUME BInv, NEW t \in Thread, Step(t)
    PROVE  OwnDone(t)
  <1>1. OwnAt(t) /\ Busy(t)
    BY StepBasic DEF Step, Is
  <1> DEFINE n == Len(Ops(Call(t)))
  <1>2. loc[t] \in Locals /\ int_step \in Int /\ NoLocals \in Locals
    BY NoLocalsType DEF BInv, Types
  <1>3. Local(t, int_step) \in Locals
    BY <1>2, LocalTypes DEF Local
  <1>4. CASE Is(t, "stepRead") /\ Continue(t, Local(t, int_step)) /\ UNCHANGED int_step
    <2>1. Call(t).ev = "process" /\ pc[t] = 1 /\ n = 3
      BY <1>1, <1>4, OwnPositions DEF Is
    <2> HIDE DEF n
    <2>2. pc[t] + 1 = 2 /\ ~(pc[t] + 1 > n)
      BY <2>1
    <2> QED
      BY <1>1, <1>3, <1>4, <2>1, <2>2, ContinueFacts DEF OwnDone, n
  <1>5. CASE Is(t, "stepWrite") /\ int_step' = loc[t].reg + 1 /\ Continue(t, NoLocals)
    <2>1. Call(t).ev = "process" /\ pc[t] = 2 /\ n = 3
      BY <1>1, <1>5, OwnPositions DEF Is
    <2> HIDE DEF n
    <2>2. pc[t] + 1 = 3 /\ ~(pc[t] + 1 > n)
      BY <2>1
    <2> QED
      BY <1>1, <1>2, <1>5, <2>1, <2>2, ContinueFacts DEF OwnDone, n
  <1>6. CASE Is(t, "stepReset") /\ int_step' = 0 /\ Continue(t, NoLocals)
    <2>1. Call(t).ev = "reset" /\ pc[t] = 1 /\ n = 1
      BY <1>1, <1>6, OwnPositions DEF Is
    <2> HIDE DEF n
    <2>2. ~(pc[t] + 1 <= n)
      BY <2>1
    <2> QED
      BY <1>1, <1>2, <1>6, <2>1, <2>2, ContinueFacts DEF OwnDone, n
  <1> QED
    BY <1>4, <1>5, <1>6 DEF Step

\* A step of processData itself is one of these.
LEMMA OwnCases ==
    ASSUME BInv, NEW t \in Thread, Operation(t), OwnStep(t)
    PROVE  OwnDone(t)
  <1>2. CASE Step(t)
    BY <1>2, StepOwn
  <1>3. CASE HashProcess(t)
    <2>1. Call(t).ev = "process" /\ pc[t] = 3
      BY <1>3, OwnPositions DEF OwnStep, HashProcess, Is
    <2>2. /\ pc'[t] = 1 /\ int_step' = int_step
          /\ \E w : /\ Calls(t, w) /\ work'[t] = w \o Tail(work[t])
                 /\ \A k \in 1..Len(w) :
                      /\ w[k].ev \in {"newFlow", "request", "response", "flowUpdate"}
                      /\ w[k].metric \in Index
      BY <1>3, HashProcessBasic
    <2> QED
      BY <2>1, <2>2 DEF OwnDone
  <1>4. CASE Branch(t)
    <2>1. Call(t).ev = "branch"
      BY <1>4, OwnPositions DEF OwnStep, Branch, Is
    <2>2. /\ pc'[t] = 1 /\ int_step' = int_step
          /\ \/ work'[t] = <<>>
             \/ \E w : /\ Informs(t, "interval", None, w) /\ Calls(t, Own("reset"))
                       /\ work'[t] = w \o Own("reset") /\ int_step >= Interval
      BY <1>4, BranchBasic
    <2> QED
      BY <2>1, <2>2 DEF OwnDone
  <1>5. Busy(t)
    BY DEF Operation, Modify, Read, Delta, Mark, Send, Step, HashProcess, Branch, Total,
           Find, Create, Count, CflUpdate, Enter, Leave, IfNoTotal, Is
  <1>6. Now(t).kind \in {"stepRead", "stepWrite", "stepReset", "hashProcess", "branch"}
    BY OwnPositions DEF OwnStep
  <1>7. Step(t) \/ HashProcess(t) \/ Branch(t)
    BY <1>6 DEF Operation, Modify, Read, Delta, Mark, Send, Total, Find, Create, Count,
                CflUpdate, Enter, Leave, IfNoTotal, Is
  <1> QED
    BY <1>2, <1>3, <1>4, <1>7

\* Every step of the program
AnyStep ==
    \/ \E t \in Thread : Operation(t) /\ ListSteps(t) /\ failed = "no" /\ ticks' = ticks
    \/ FlowStart("flow") /\ failed = "no"
    \/ \E t \in Callback : TimerStart(t)
    \/ NoStep

\* Every step is one of these, and keeps the types.
LEMMA NextCases ==
    ASSUME BInv, NodeInv, [Next]_vars
    PROVE  BInv' /\ AnyStep /\ metrics' = metrics /\ setup' = setup
  <1>1. ASSUME NEW ev \in Told \cup {"flowUpdate"}, NEW x \in Named(ev), failed = "no",
               FlowClosed(ev, x)
        PROVE  BInv' /\ AnyStep /\ metrics' = metrics /\ setup' = setup
    BY <1>1, FlowClosedBasic DEF AnyStep, FlowStart, StartStep
  <1>2. ASSUME NEW t \in Callback, Fire(t)
        PROVE  BInv' /\ AnyStep /\ metrics' = metrics /\ setup' = setup
    BY <1>2, FireBasic DEF AnyStep, TimerStart, StartStep
  <1>3. ASSUME PeerGone \/ (\E c \in Tps : FlowGrows(c)) \/ Halted \/ UNCHANGED vars
        PROVE  BInv' /\ AnyStep /\ metrics' = metrics /\ setup' = setup
    BY <1>3, QuietBasic DEF AnyStep, NoStep
  <1>4. ASSUME NEW t \in Thread, Operation(t), failed = "no"
        PROVE  BInv' /\ AnyStep /\ metrics' = metrics /\ setup' = setup
    BY <1>4, OperationCases DEF AnyStep
  <1> QED
    BY <1>1, <1>2, <1>3, <1>4 DEF Next

\* A metric with a hash table grows by a record at a time, the rest do not.
LEMMA AllGrow ==
    ASSUME BInv, AnyStep, NEW i \in Index, metrics' = metrics, metrics[i] \notin Maps
    PROVE  Grows(i)
  <1>0. obj[i].nodes \in Seq(RecordSet) /\ Len(obj[i].nodes) \in Nat
    <2>1. obj[i] \in MetricSet
      BY DEF BInv, Types
    <2> QED
      BY <2>1, MetricFields
  <1>1. ASSUME obj'[i].nodes = obj[i].nodes PROVE Grows(i)
    BY <1>0, <1>1 DEF Grows
  <1>2. ASSUME NEW t \in Thread, ListSteps(t) PROVE Grows(i)
    <2>1. CASE obj' = obj
      BY <1>1, <2>1
    <2>2. CASE SameLists
      BY <1>1, <2>2 DEF SameLists
    <2>3. CASE Else(t) /\ At(t) # i
      <3>1. obj'[i] = obj[i]
        BY <2>3 DEF Else
      <3> QED
        BY <1>1, <3>1
    <2>4. CASE At(t) = i /\ CreateStep(t)
      <3> DEFINE q == obj[i].nodes
                 r == [name |-> Call(t).arg, cnt |-> 1]
      <3>1. obj'[i].nodes = Append(q, r) /\ r \in RecordSet
        <4>1. Call(t).arg \in Names
          BY <2>4 DEF CreateStep, HashAt
        <4>2. r \in RecordSet
          BY <4>1 DEF RecordSet
        <4>3. obj'[i].nodes = Append(q, r)
          BY <2>4 DEF CreateStep, CreateDone
        <4> QED
          BY <4>2, <4>3
      <3> HIDE DEF q, r
      <3>2. q \in Seq(RecordSet)
        BY <1>0 DEF q
      <3>3. Len(Append(q, r)) = Len(q) + 1 /\ \A k \in 1..Len(q) : Append(q, r)[k] = q[k]
        BY <3>1, <3>2
      <3> QED
        BY <1>0, <3>1, <3>3 DEF Grows, q
    <2>5. CASE At(t) = i /\ CountStep(t)
      <3> DEFINE q == obj[i].nodes
                 j == loc[t].node
                 c == loc[t].reg + 1
      <3>1. \/ obj' = obj
            \/ obj'[i].nodes = [q EXCEPT ![j] = [q[j] EXCEPT !.cnt = c]]
        BY <2>5 DEF CountStep, CountDone
      <3> HIDE DEF q, j, c
      <3>2. q \in Seq(RecordSet) /\ Len(q) \in Nat
        BY <1>0 DEF q
      <3>3. ASSUME obj'[i].nodes = [q EXCEPT ![j] = [q[j] EXCEPT !.cnt = c]]
            PROVE  Grows(i)
        <4>1. Len(obj'[i].nodes) = Len(q)
          BY <3>2, <3>3
        <4>2. ASSUME NEW k \in 1..Len(q) PROVE obj'[i].nodes[k].name = q[k].name
          <5>1. q[k] \in RecordSet
            BY <3>2
          <5>2. [q[k] EXCEPT !.cnt = c].name = q[k].name
            BY <5>1 DEF RecordSet
          <5>3. obj'[i].nodes[k] = IF k = j THEN [q[j] EXCEPT !.cnt = c] ELSE q[k]
            BY <3>2, <3>3
          <5> QED
            BY <5>2, <5>3
        <4> QED
          BY <3>2, <4>1, <4>2 DEF Grows, q
      <3> QED
        BY <2>1, <3>1, <3>3
    <2>6. CASE At(t) = i /\ (TotalStep(t) \/ CflStep(t) \/ EnterStep(t))
      <3>1. obj'[i].nodes = obj[i].nodes \/ obj' = obj
        BY <2>6 DEF TotalStep, TotalDone, CflStep, CflDone, EnterStep, EnterDone
      <3> QED
        BY <1>1, <2>1, <3>1
    <2>7. CASE At(t) = i /\ LeaveStep(t)
      <3>1. obj'[i].nodes = obj[i].nodes
        BY <2>7 DEF LeaveStep, LeaveDone, MapAt
      <3> QED
        BY <1>1, <3>1
    <2> QED
      BY <1>2, <2>1, <2>2, <2>3, <2>4, <2>5, <2>6, <2>7
      DEF ListSteps, AvgStep, OwnStep, ReportStep, TotalStep, FindStep, FindDone, CreateStep,
          CountStep, CflStep, FailStep, EnterStep, LeaveStep, SkipStep
  <1>3. ASSUME obj' = obj PROVE Grows(i)
    BY <1>1, <1>3
  <1> QED
    BY <1>2, <1>3 DEF AnyStep, FlowStart, TimerStart, StartStep, NoStep

\* The first record with a name stays the first one.
LEMMA FirstStays ==
    ASSUME BInv, BInv', NEW i \in Index, Grows(i), NEW x, NEW k, First(i, x, k), Index' = Index
    PROVE  First(i, x, k)'
  <1> DEFINE p == obj[i].nodes
             q == obj'[i].nodes
  <1>1. p \in Seq(RecordSet) /\ q \in Seq(RecordSet)
    <2>1. obj[i] \in MetricSet /\ obj'[i] \in MetricSet
      BY DEF BInv, Types
    <2> QED
      BY <2>1, MetricFields
  <1>2. /\ Len(p) <= Len(q) /\ \A j \in 1..Len(p) : q[j].name = p[j].name
    BY DEF Grows
  <1>3. /\ Matches(i, x) = {j \in 1..Len(p) : p[j].name = x}
        /\ Matches(i, x)' = {j \in 1..Len(q) : q[j].name = x}
    BY <1>1 DEF Matches
  <1> HIDE DEF p, q
  <1>4. k \in 1..Len(p) /\ p[k].name = x /\ \A j \in 1..Len(p) : p[j].name = x => k <= j
    BY <1>3 DEF First
  <1>5. k \in 1..Len(q) /\ q[k].name = x
    BY <1>1, <1>2, <1>4
  <1>6. ASSUME NEW j \in 1..Len(q), q[j].name = x PROVE k <= j
    <2>1. CASE j \in 1..Len(p)
      BY <1>2, <1>4, <1>6, <2>1
    <2>2. CASE j \notin 1..Len(p)
      BY <1>1, <1>4, <2>2
    <2> QED
      BY <2>1, <2>2
  <1> QED
    BY <1>3, <1>5, <1>6 DEF First

\* A thread is in one place.
LEMMA OnePlace ==
    ASSUME BInv, NEW t \in Thread
    PROVE  /\ OwnAt(t) => ~HashAt(t) /\ ~HashEndAt(t) /\ ~MapAt(t) /\ ~MapEndAt(t) /\ ~AvgAt(t)
           /\ HashAt(t) => ~HashEndAt(t) /\ ~MapAt(t) /\ ~MapEndAt(t) /\ ~AvgAt(t)
           /\ HashEndAt(t) => ~MapAt(t) /\ ~MapEndAt(t) /\ ~AvgAt(t)
           /\ MapAt(t) => ~MapEndAt(t) /\ ~AvgAt(t)
           /\ MapEndAt(t) => ~AvgAt(t)
  <1>1. At(t) \in Index => metrics[At(t)] \in Class /\ At(t) # 0
    BY DEF BInv, Types, Index
  <1>2. At(t) \in Index =>
          /\ metrics[At(t)] \in Avgs => metrics[At(t)] \notin Hashes /\ metrics[At(t)] \notin Maps
          /\ metrics[At(t)] \in Hashes => metrics[At(t)] \notin Maps
    BY <1>1, ClassEvents
  <1>3. /\ OwnAt(t) => At(t) = 0
        /\ HashAt(t) => At(t) \in Index /\ metrics[At(t)] \in Hashes /\ Call(t).ev = "request"
        /\ HashEndAt(t) => At(t) \in Index /\ metrics[At(t)] \in Hashes /\ Call(t).ev = "interval"
        /\ MapAt(t) => At(t) \in Index /\ metrics[At(t)] \in Maps /\ Call(t).ev # "interval"
        /\ MapEndAt(t) => At(t) \in Index /\ metrics[At(t)] \in Maps /\ Call(t).ev = "interval"
        /\ AvgAt(t) => At(t) \in Index /\ metrics[At(t)] \in Avgs
    BY DEF OwnAt, HashAt, HashEndAt, MapAt, MapEndAt, AvgAt
  <1> QED
    BY <1>1, <1>2, <1>3

\* The steps that a thread takes in each place
LEMMA PlaceSteps ==
    ASSUME BInv, NEW t \in Thread, ListSteps(t)
    PROVE  /\ OwnAt(t) => OwnStep(t) \/ FailStep
           /\ HashAt(t) => TotalStep(t) \/ FindStep(t) \/ CreateStep(t) \/ CountStep(t) \/ FailStep
           /\ HashEndAt(t) => CflStep(t) \/ ReportStep(t) \/ EnterStep(t) \/ LeaveStep(t) \/ FailStep
           /\ MapAt(t) => TotalStep(t) \/ EnterStep(t) \/ LeaveStep(t) \/ FailStep
           /\ MapEndAt(t) => \/ ReportStep(t) \/ EnterStep(t) \/ LeaveStep(t) \/ SkipStep(t)
                             \/ FailStep
           /\ AvgAt(t) => AvgStep(t) \/ FailStep
  <1>1. /\ AvgStep(t) => AvgAt(t)
        /\ OwnStep(t) => OwnAt(t)
        /\ ReportStep(t) => HashEndAt(t) \/ MapEndAt(t)
        /\ TotalStep(t) => HashAt(t) \/ MapAt(t)
        /\ FindStep(t) \/ CreateStep(t) \/ CountStep(t) => HashAt(t)
        /\ CflStep(t) => HashEndAt(t)
        /\ SkipStep(t) => MapEndAt(t)
    BY DEF AvgStep, OwnStep, ReportStep, TotalStep, FindStep, CreateStep, CountStep, CflStep, SkipStep
  <1>2. EnterStep(t) => \/ MapAt(t) \/ MapEndAt(t) \/ HashEndAt(t) \/ FailStep
    <2>1. EnterStep(t) => EnterDone(t) /\ failed' = "no"
      BY DEF EnterStep
    <2>2. "no" # "race"
      OBVIOUS
    <2> QED
      BY <2>1, <2>2, Zenon DEF EnterDone
  <1>3. LeaveStep(t) => MapAt(t) \/ MapEndAt(t) \/ HashEndAt(t)
    BY DEF LeaveStep, LeaveDone
  <1> QED
    BY <1>1, <1>2, <1>3, OnePlace, Zenon DEF ListSteps

\* What another thread does leaves a thread where it is.
LEMMA OthersStay ==
    ASSUME NEW t \in Thread, Others(t), NEW u \in Thread, u # t, metrics' = metrics
    PROVE  /\ Busy(u)' <=> Busy(u)
           /\ Call(u)' = Call(u) /\ At(u)' = At(u) /\ pc'[u] = pc[u] /\ loc'[u] = loc[u]
           /\ work'[u] = work[u]
           /\ HashReq(u)' <=> HashReq(u)
  BY DEF Others, Busy, Call, At, HashReq, Index

\* The record that a thread has found remains the first one with the name.
LEMMA NodeInvNext ==
    ASSUME BInv, NodeInv, BInv', AnyStep, metrics' = metrics
    PROVE  NodeInv'
  <1>0. Index' = Index
    BY DEF Index
  <1>1. ASSUME NEW u \in Thread, HashReq(u), First(At(u), Call(u).arg, loc[u].node),
               Call(u)' = Call(u), loc'[u].node = loc[u].node
        PROVE  First(At(u), Call(u).arg, loc[u].node)'
    <2>1. At(u) \in Index /\ metrics[At(u)] \notin Maps
      <3>1. At(u) \in Index /\ metrics[At(u)] \in Hashes /\ metrics[At(u)] \in Class
        BY <1>1 DEF HashReq, BInv, Types, Index
      <3> QED
        BY <3>1, ClassEvents
    <2>2. PICK i, x, k : i = At(u) /\ x = Call(u).arg /\ k = loc[u].node
      OBVIOUS
    <2>3. First(i, x, k)'
      BY <1>0, <1>1, <2>1, <2>2, AllGrow, FirstStays
    <2>4. At(u)' = i /\ Call(u)'.arg = x /\ loc'[u].node = k
      BY <1>1, <2>2 DEF At
    <2> QED
      BY <2>3, <2>4
  <1>2. ASSUME NEW u \in Thread, HashReq(u), pc[u] \in {5, 6},
               Call(u)' = Call(u), loc'[u].node = loc[u].node
        PROVE  First(At(u), Call(u).arg, loc[u].node)'
    BY <1>1, <1>2 DEF NodeInv
  <1> DEFINE Ok(u) == HashReq(u)' /\ pc'[u] \in {5, 6}
                        => First(At(u), Call(u).arg, loc[u].node)'
  <1>3. ASSUME NEW t \in Thread, Others(t), NEW u \in Thread, u # t PROVE Ok(u)
    <2>1. /\ Call(u)' = Call(u) /\ loc'[u] = loc[u] /\ pc'[u] = pc[u]
          /\ HashReq(u)' <=> HashReq(u)
      BY <1>3, OthersStay
    <2> QED
      BY <1>2, <2>1
  <1>4. ASSUME UNCHANGED <<work, pc, loc>>, NEW u \in Thread PROVE Ok(u)
    <2>1. Call(u)' = Call(u) /\ (HashReq(u)' <=> HashReq(u))
      BY <1>4 DEF Call, HashReq, Busy, At, Index
    <2> QED
      BY <1>2, <1>4, <2>1
  <1>5. ASSUME NEW t \in Thread, Operation(t), ListSteps(t) PROVE Ok(t)
    <2>0. CASE FailStep
      BY <1>4, <2>0 DEF FailStep
    <2> SUFFICES ASSUME ~FailStep, HashReq(t)', pc'[t] \in {5, 6}
                 PROVE  First(At(t), Call(t).arg, loc[t].node)'
      BY <2>0
    <2>1. ThreadStep(t)
      BY <1>5 DEF ListSteps, AvgStep, OwnStep, ReportStep, TotalStep, FindStep, CreateStep,
                  CountStep, CflStep, EnterStep, LeaveStep, SkipStep
    <2>2. work'[t] = work[t]
      BY <2>1 DEF ThreadStep
    <2>3. Call(t)' = Call(t) /\ HashReq(t) /\ Busy(t) /\ At(t)' = At(t)
      BY <2>2 DEF Call, HashReq, Busy, At, Index
    <2>4. HashAt(t) /\ loc[t] \in Locals
      BY <2>3, HashReqAt DEF BInv, Types
    <2>5. TotalStep(t) \/ FindStep(t) \/ CreateStep(t) \/ CountStep(t)
      BY <1>5, <2>4, PlaceSteps
    <2>6. ~TotalStep(t) /\ ~CreateStep(t)
      BY DEF TotalStep, TotalDone, CreateStep, CreateDone
    <2>7. CASE FindStep(t)
      <3> DEFINE i == At(t)
                 x == Call(t).arg
                 k == Smallest(Matches(i, x))
      <3>1. /\ obj' = obj /\ First(i, x, k)
            /\ loc'[t] = [loc[t] EXCEPT !.node = k]
        BY <2>7 DEF FindStep, FindDone
      <3> HIDE DEF k
      <3>2. loc'[t].node = k
        BY <2>4, <3>1 DEF Locals
      <3>3. First(At(t), Call(t).arg, loc[t].node)'
        BY <2>3, <3>1, <3>2 DEF First, Matches, i, x
      <3> QED
        BY <3>3
    <2>8. CASE CountStep(t)
      <3>1. pc[t] = 5 /\ loc'[t] = Local(t, obj[At(t)].nodes[loc[t].node].cnt)
        BY <2>8 DEF CountStep, CountDone
      <3>2. loc'[t].node = loc[t].node
        BY <2>4, <3>1 DEF Local, Locals
      <3> QED
        BY <1>2, <2>3, <3>1, <3>2
    <2> QED
      BY <2>5, <2>6, <2>7, <2>8
  <1>6. ASSUME NEW t \in Thread, StartStep(t) PROVE Ok(t)
    <2>1. pc'[t] = 1
      BY <1>6 DEF StartStep, BInv, AtWork
    <2> QED
      BY <2>1
  <1>7. ASSUME NEW t \in Thread, Operation(t), ListSteps(t), NEW u \in Thread PROVE Ok(u)
    <2>1. CASE u = t
      BY <1>5, <1>7, <2>1
    <2>2. CASE u # t /\ FailStep
      BY <1>4, <2>2 DEF FailStep
    <2>3. CASE u # t /\ ~FailStep
      <3>1. ThreadStep(t)
        BY <1>7, <2>3 DEF ListSteps, AvgStep, OwnStep, ReportStep, TotalStep, FindStep, CreateStep,
                    CountStep, CflStep, EnterStep, LeaveStep, SkipStep
      <3> QED
        BY <1>3, <2>3, <3>1 DEF ThreadStep
    <2> QED
      BY <2>1, <2>2, <2>3
  <1>8. ASSUME NEW t \in Thread, StartStep(t), NEW u \in Thread PROVE Ok(u)
    <2>1. CASE u = t
      BY <1>6, <1>8, <2>1
    <2>2. CASE u # t
      BY <1>3, <1>8, <2>2 DEF StartStep
    <2> QED
      BY <2>1, <2>2
  <1>9. "flow" \in Thread /\ Callback \subseteq Thread
    BY DEF Thread
  <1>10. \A u \in Thread : Ok(u)
    <2> TAKE u \in Thread
    <2>1. CASE FlowStart("flow")
      BY <1>8, <1>9, <2>1 DEF FlowStart
    <2>2. CASE \E t \in Callback : TimerStart(t)
      BY <1>8, <1>9, <2>2 DEF TimerStart
    <2>3. CASE NoStep
      BY <1>4, <2>3 DEF NoStep
    <2>4. CASE \E t \in Thread : Operation(t) /\ ListSteps(t)
      BY <1>7, <2>4
    <2> QED
      BY <2>1, <2>2, <2>3, <2>4 DEF AnyStep
  <1> QED
    BY <1>10 DEF NodeInv

\* At the start no thread is at work.
LEMMA InitBasic ==
    ASSUME Init
    PROVE  BInv /\ NodeInv
  <1>1. setup \in Setups /\ setup.protocol \in {"HTTP", "MEMCACHED", "MYSQL"}
    BY MetricsAssumption DEF Init, Setup
  <1>2. metrics \in Seq(Class)
    <2>1. ProtocolMetrics[setup.protocol] \in Seq(Class)
      BY <1>1, ProtocolClasses
    <2> QED
      BY <2>1, ActiveType DEF Init
  <1>3. NewMetric \in MetricSet
    <2>1. [v \in ValueName |-> IF v = "min" THEN Huge ELSE 0] \in [ValueName -> Int]
      BY DEF Huge
    <2>2. <<>> \in Seq(RecordSet) /\ <<>> \in Seq(EntrySet) /\ {} \in SUBSET Thread
      OBVIOUS
    <2> QED
      BY <2>1, <2>2 DEF NewMetric, MetricSet
  <1>4. NewHistory \in HistSet
    <2>1. [n \in Name \cup {None} |-> 0] \in [Names -> Nat]
      BY DEF Names
    <2>2. FALSE \in BOOLEAN
      OBVIOUS
    <2> QED
      BY <2>1, <2>2 DEF NewHistory, HistSet
  <1>5. /\ obj \in [Index -> MetricSet] /\ hist \in [Index -> HistSet]
    BY <1>3, <1>4 DEF Init
  <1>6. /\ payload \in [Tps -> Nat] /\ int_step \in Int /\ ticks \in Nat /\ events \in Nat
        /\ failed \in {"no", "race"}
    BY DEF Init
  <1>7. dead \in BOOLEAN /\ overlapped \in BOOLEAN /\ steady \in BOOLEAN
    BY DEF Init
  <1>8. work = [t \in Thread |-> <<>>] /\ pc = [t \in Thread |-> 1]
        /\ loc = [t \in Thread |-> NoLocals]
    BY DEF Init
  <1>9. work \in [Thread -> Seq(CallSet)] /\ pc \in [Thread -> Nat \ {0}]
        /\ loc \in [Thread -> Locals]
    BY <1>8, NoLocalsType
  <1>10. Types
    BY <1>1, <1>2, <1>5, <1>6, <1>7, <1>9, Zenon DEF Types
  <1>11. AtWork /\ NodeInv
    BY <1>8 DEF AtWork, NodeInv, Busy, HashReq
  <1> QED
    BY <1>10, <1>11 DEF BInv

\* Threads run handlers that exist, each on its own record.
THEOREM Basics == Spec => [](BInv /\ NodeInv)
  <1>1. Init => BInv /\ NodeInv
    BY InitBasic
  <1>2. BInv /\ NodeInv /\ [Next]_vars => (BInv /\ NodeInv)'
    BY NextCases, NodeInvNext
  <1> QED
    BY <1>1, <1>2, PTL DEF Spec

-----------------------------------------------------------------------------
(***************************************************************************)
(* One metric with a list                                                  *)
(***************************************************************************)

\* t is past the first operation of a handler of metric i.
Mid(t, i) == Busy(t) /\ At(t) = i /\ pc[t] >= 2

\* A step that does not concern metric i
Aside(i) ==
    /\ obj'[i] = obj[i] /\ hist'[i] = hist[i]
    /\ \A u \in Thread :
         /\ Mid(u, i)' <=> Mid(u, i)
         /\ Mid(u, i) => /\ Call(u)' = Call(u) /\ pc'[u] = pc[u] /\ loc'[u] = loc[u]
                         /\ work'[u] = work[u]

\* t makes a step in a handler of metric i.
Acts(t, i) ==
    /\ Busy(t) /\ At(t) = i /\ Operation(t) /\ ListSteps(t) /\ ~FailStep
    /\ ThreadStep(t) /\ Others(t) /\ failed = "no"

\* A step of a thread moves that thread alone, unless the program fails.
LEMMA StepShape ==
    ASSUME NEW t \in Thread, ListSteps(t)
    PROVE  FailStep \/ (ThreadStep(t) /\ Others(t))
  BY DEF ListSteps, AvgStep, OwnStep, ReportStep, TotalStep, FindStep, CreateStep, CountStep,
         CflStep, EnterStep, LeaveStep, SkipStep, ThreadStep

\* A thread that makes a step has something to run.
LEMMA OperationBusy ==
    ASSUME NEW t, Operation(t)
    PROVE  Busy(t)
  BY DEF Operation, Modify, Read, Delta, Mark, Send, Step, HashProcess, Branch, Total,
         Find, Create, Count, CflUpdate, Enter, Leave, IfNoTotal, Is

\* The other threads stay where they are,
LEMMA MidOther ==
    ASSUME NEW t \in Thread, Others(t), NEW u \in Thread, u # t, NEW i, metrics' = metrics
    PROVE  /\ Mid(u, i)' <=> Mid(u, i)
           /\ Call(u)' = Call(u) /\ pc'[u] = pc[u] /\ loc'[u] = loc[u] /\ work'[u] = work[u]
  BY DEF Others, Mid, Busy, At, Call

\* and all of them do when nothing of them changes.
LEMMA MidSame ==
    ASSUME UNCHANGED <<work, pc, loc>>, NEW u \in Thread, NEW i
    PROVE  /\ Mid(u, i)' <=> Mid(u, i)
           /\ Call(u)' = Call(u) /\ pc'[u] = pc[u] /\ loc'[u] = loc[u] /\ work'[u] = work[u]
  BY DEF Mid, Busy, At, Call

\* Seen from one metric, a step is aside, or of a thread in its handler.
LEMMA ListView ==
    ASSUME BInv, BInv', AnyStep, metrics' = metrics, NEW i \in Index
    PROVE  Aside(i) \/ \E t \in Thread : Acts(t, i)
  <1>1. ASSUME UNCHANGED <<obj, hist, work, pc, loc>> PROVE Aside(i)
    BY <1>1, MidSame DEF Aside
  <1>2. ASSUME NEW t \in Thread, StartStep(t) PROVE Aside(i)
    <2>1. Others(t) /\ obj'[i] = obj[i] /\ hist'[i] = hist[i] /\ pc'[t] = 1 /\ pc[t] = 1
      BY <1>2 DEF StartStep, BInv, AtWork
    <2>2. ~Mid(t, i) /\ ~Mid(t, i)'
      BY <2>1 DEF Mid
    <2> QED
      BY <2>1, <2>2, MidOther DEF Aside
  <1>3. ASSUME NEW t \in Thread, Operation(t), ListSteps(t), failed = "no"
        PROVE  Aside(i) \/ Acts(t, i)
    <2>1. Busy(t)
      BY <1>3, OperationBusy
    <2>2. CASE FailStep
      BY <1>1, <2>2 DEF FailStep
    <2>3. CASE ~FailStep /\ At(t) = i
      BY <1>3, <2>1, <2>3, StepShape DEF Acts
    <2>4. CASE ~FailStep /\ At(t) # i
      <3>1. ThreadStep(t) /\ Others(t)
        BY <1>3, <2>4, StepShape
      <3>2. obj'[i] = obj[i] /\ hist'[i] = hist[i]
        <4>1. Else(t) \/ UNCHANGED <<obj, hist>>
          BY <1>3, <2>4 DEF ListSteps, AvgStep, OwnStep, ReportStep, TotalStep, FindStep,
               CreateStep, CountStep, CflStep, EnterStep, LeaveStep, SkipStep
        <4> QED
          BY <2>4, <4>1 DEF Else
      <3>3. ~Mid(t, i)
        BY <2>4 DEF Mid
      <3>4. ~Mid(t, i)'
        <4>1. work'[t] = work[t] \/ pc'[t] = 1
          BY <3>1 DEF ThreadStep
        <4> QED
          BY <2>4, <4>1 DEF Mid, At, Call
      <3> QED
        BY <3>1, <3>2, <3>3, <3>4, MidOther DEF Aside
    <2> QED
      BY <2>2, <2>3, <2>4
  <1>4. "flow" \in Thread /\ Callback \subseteq Thread
    BY DEF Thread
  <1> QED
    BY <1>1, <1>2, <1>3, <1>4 DEF AnyStep, FlowStart, TimerStart, NoStep

\* What a thread in a handler of a metric with a list may do to it
LEMMA ActCases ==
    ASSUME BInv, NEW i \in Index, metrics[i] \notin Avgs, NEW t \in Thread, Acts(t, i)
    PROVE  /\ \/ HashAt(t) /\ (TotalStep(t) \/ FindStep(t) \/ CreateStep(t) \/ CountStep(t))
              \/ MapAt(t) /\ (TotalStep(t) \/ EnterStep(t) \/ LeaveStep(t))
              \/ /\ HashEndAt(t)
                 /\ CflStep(t) \/ ReportStep(t) \/ EnterStep(t) \/ LeaveStep(t)
              \/ /\ MapEndAt(t)
                 /\ ReportStep(t) \/ EnterStep(t) \/ LeaveStep(t) \/ SkipStep(t)
           /\ loc[t] \in Locals /\ obj[i] \in MetricSet /\ hist[i] \in HistSet
           /\ obj[i].nodes \in Seq(RecordSet) /\ obj[i].total \in Int
  <1>1. Busy(t) /\ At(t) = i /\ ListSteps(t) /\ ~FailStep
    BY DEF Acts
  <1>2. ~OwnAt(t) /\ ~AvgAt(t)
    <2>1. i # 0
      BY DEF Index
    <2> QED
      BY <1>1, <2>1, Zenon DEF OwnAt, AvgAt
  <1>3. HashAt(t) \/ HashEndAt(t) \/ MapAt(t) \/ MapEndAt(t)
    BY <1>1, <1>2, Places
  <1>4. loc[t] \in Locals /\ obj[i] \in MetricSet /\ hist[i] \in HistSet
    BY DEF BInv, Types
  <1> QED
    BY <1>1, <1>3, <1>4, PlaceSteps, MetricFields

\* t holds the mutexes of all buckets of metric i.
Locked(t, i) == /\ metrics[i] \in Hashes /\ Mid(t, i) /\ Call(t).ev = "interval"
                /\ pc[t] \in {2, 3}

\* t is in code of metric i that must not run twice at once.
Inside(t, i) ==
    /\ Mid(t, i)
    /\ \/ metrics[i] \in Maps /\ Call(t).ev = "interval" /\ pc[t] \in {3, 6}
       \/ metrics[i] \in Hashes /\ Call(t).ev = "interval" /\ pc[t] = 6
       \/ metrics[i] \in Maps /\ Call(t).ev \in {"request", "response"} /\ pc[t] = 4

\* The list has room, and whoever is recorded as holding or using is.
Room(i) ==
    /\ Len(obj[i].cfl) <= CflSize
    /\ obj[i].holder # None => Locked(obj[i].holder, i)
    /\ \A t \in obj[i].users : Inside(t, i)

\* A thread that another one does not move
LEMMA RoomOther ==
    ASSUME metrics' = metrics, NEW i, NEW u, Mid(u, i)' <=> Mid(u, i),
           Mid(u, i) => Call(u)' = Call(u) /\ pc'[u] = pc[u]
    PROVE  /\ Locked(u, i) => Locked(u, i)'
           /\ Inside(u, i) => Inside(u, i)'
  BY DEF Locked, Inside

\* No step lets the list outgrow its array, or forgets who holds the buckets.
LEMMA RoomNext ==
    ASSUME BInv, BInv', AnyStep, metrics' = metrics, NEW i \in Index, Room(i)
    PROVE  Room(i)'
  <1>0. /\ Index' = Index /\ metrics[i] \in Class
        /\ obj[i] \in MetricSet /\ obj'[i] \in MetricSet
        /\ obj[i].cfl \in Seq(EntrySet) /\ obj[i].users \in SUBSET Thread
        /\ obj[i].holder \in Thread \cup {None} /\ obj[i].total \in Int
        /\ obj[i].nodes \in Seq(RecordSet)
    <2>1. /\ Index' = Index /\ metrics[i] \in Class
          /\ obj[i] \in MetricSet /\ obj'[i] \in MetricSet
      <3>1. Index' = Index /\ metrics[i] \in Class
        BY DEF BInv, Types, Index
      <3>2. obj \in [Index -> MetricSet] /\ obj' \in [Index -> MetricSet]
        BY <3>1 DEF BInv, Types
      <3> QED
        BY <3>1, <3>2
    <2> QED
      BY <2>1, MetricFields
  <1>1. CASE Aside(i)
    <2>1. \A u \in Thread : /\ Locked(u, i) => Locked(u, i)'
                            /\ Inside(u, i) => Inside(u, i)'
      BY <1>1, RoomOther DEF Aside
    <2>2. obj'[i] = obj[i]
      BY <1>1 DEF Aside
    <2>3. PICK h : h = obj[i].holder
      OBVIOUS
    <2>4. h # None => Locked(h, i)'
      BY <1>0, <2>1, <2>3 DEF Room
    <2>5. Len(obj[i].cfl) <= CflSize /\ \A u \in obj[i].users : Inside(u, i)'
      BY <1>0, <2>1 DEF Room
    <2> QED
      BY <2>2, <2>3, <2>4, <2>5 DEF Room
  <1>2. ASSUME NEW t \in Thread, Acts(t, i) PROVE Room(i)'
    <2>0. /\ Busy(t) /\ At(t) = i /\ Others(t) /\ ThreadStep(t) /\ ListSteps(t) /\ ~FailStep
          /\ pc[t] \in Nat \ {0} /\ pc'[t] \in Nat \ {0}
      BY <1>2 DEF Acts, BInv, Types
    <2>1. \A u \in Thread : u # t => /\ Locked(u, i) => Locked(u, i)'
                                     /\ Inside(u, i) => Inside(u, i)'
      BY <2>0, MidOther, RoomOther
    <2>a. ASSUME Len(obj'[i].cfl) <= CflSize,
                 obj'[i].holder # None => \/ obj'[i].holder = t /\ Locked(t, i)'
                                          \/ obj'[i].holder = obj[i].holder /\ obj[i].holder # t
                                          \/ obj'[i].holder = obj[i].holder /\ ~Locked(t, i),
                 \/ obj'[i].users \subseteq {t} /\ (t \in obj'[i].users => Inside(t, i)')
                 \/ obj'[i].users = obj[i].users /\ ~Inside(t, i)
          PROVE  Room(i)'
      <3>0. PICK h : h = obj'[i].holder
        OBVIOUS
      <3>1. h # None => Locked(h, i)'
        BY <1>0, <2>1, <2>a, <3>0 DEF Room
      <3>2. \A u \in obj'[i].users : Inside(u, i)'
        BY <1>0, <2>1, <2>a DEF Room
      <3> QED
        BY <2>a, <3>0, <3>1, <3>2 DEF Room
    <2>b. Len(obj[i].cfl) <= CflSize
      BY DEF Room
    <2>2. CASE metrics[i] \in Avgs
      <3>1. AvgStep(t)
        <4>1. ~OwnAt(t) /\ ~HashAt(t) /\ ~HashEndAt(t) /\ ~MapAt(t) /\ ~MapEndAt(t)
          <5>1. metrics[i] \in Class /\ i # 0
            BY DEF BInv, Types, Index
          <5>2. metrics[i] \notin Hashes /\ metrics[i] \notin Maps
            BY <2>2, <5>1, ClassEvents
          <5> QED
            BY <2>0, <5>1, <5>2, Zenon DEF OwnAt, HashAt, HashEndAt, MapAt, MapEndAt
        <4> QED
          BY <2>0, <4>1, Places, PlaceSteps
      <3>2. SameLists
        BY <3>1 DEF AvgStep
      <3>3. ~Locked(t, i) /\ ~Inside(t, i)
        <4>1. metrics[i] \notin Hashes /\ metrics[i] \notin Maps
          BY <2>2, ClassEvents DEF BInv, Types, Index
        <4> QED
          BY <4>1 DEF Locked, Inside
      <3>4. obj'[i].holder = obj[i].holder /\ obj'[i].cfl = obj[i].cfl
            /\ obj'[i].users = obj[i].users
        BY <3>2 DEF SameLists
      <3> QED
        BY <2>a, <2>b, <3>3, <3>4
    <2>3. CASE HashAt(t) /\ (TotalStep(t) \/ FindStep(t) \/ CreateStep(t) \/ CountStep(t))
      <3>1. ~Locked(t, i) /\ ~Inside(t, i)
        <4>1. Call(t).ev = "request" /\ metrics[i] \in Hashes /\ metrics[i] \in Class
          BY <1>0, <2>0, <2>3 DEF HashAt
        <4>2. metrics[i] \notin Maps
          BY <4>1, ClassEvents
        <4> QED
          BY <4>1, <4>2 DEF Locked, Inside
      <3>2. obj'[i].holder = obj[i].holder /\ obj'[i].cfl = obj[i].cfl
            /\ obj'[i].users = obj[i].users
        BY <2>0, <2>3 DEF TotalStep, TotalDone, FindStep, FindDone, CreateStep, CreateDone,
                          CountStep, CountDone
      <3> QED
        BY <2>a, <2>b, <3>1, <3>2
    <2>4. CASE TotalStep(t) \/ SkipStep(t) \/ ReportStep(t)
      <3>1. obj'[i].holder = obj[i].holder /\ obj'[i].cfl = obj[i].cfl
            /\ obj'[i].users = obj[i].users
        BY <2>0, <2>4 DEF TotalStep, TotalDone, SkipStep, ReportStep
      <3>2. ~Locked(t, i) /\ ~Inside(t, i)
        <4>1. /\ TotalStep(t) => pc[t] \in {1, 2} /\ Call(t).ev # "interval"
              /\ SkipStep(t) => pc[t] = 1
              /\ ReportStep(t) => pc[t] = 4 /\ Call(t).ev = "interval"
          BY DEF TotalStep, TotalDone, HashAt, MapAt, HashEndAt, MapEndAt, SkipStep, ReportStep
        <4> QED
          BY <2>4, <4>1 DEF Locked, Inside, Mid
      <3> QED
        BY <2>a, <2>b, <3>1, <3>2
    <2>5. CASE CflStep(t)
      <3> DEFINE l == obj[i].cfl
                 k == loc[t].node
                 r == obj[i].nodes[k]
                 n == obj[i].total
      <3>1. /\ obj'[i].users = obj[i].users /\ work'[t] = work[t]
            /\ metrics[i] \in Hashes /\ Call(t).ev = "interval"
            /\ \/ /\ pc[t] = 1 /\ pc'[t] = 2 /\ obj'[i].holder = t
               \/ /\ pc[t] = 2 /\ pc'[t] \in {2, 3} /\ obj'[i].holder = obj[i].holder
               \/ /\ pc[t] = 3 /\ pc'[t] = 4 /\ obj'[i].holder = None
            /\ \/ obj'[i].cfl = l
               \/ k \in 1..Len(obj[i].nodes) /\ obj'[i].cfl = CflAdd(l, r, n)
        BY <2>0, <2>5 DEF CflStep, CflDone, HashEndAt
      <3>2. Len(obj'[i].cfl) <= CflSize
        <4>1. k \in 1..Len(obj[i].nodes) => r \in RecordSet
          BY <1>0
        <4> HIDE DEF l, r, n, k
        <4>2. l \in Seq(EntrySet) /\ n \in Int /\ Len(l) <= CflSize
          BY <1>0, <2>b DEF l, n
        <4>3. r \in RecordSet => Len(CflAdd(l, r, n)) <= CflSize
          BY <4>2, CflAddType
        <4> QED
          BY <3>1, <4>1, <4>2, <4>3
      <3>3. metrics[i] \notin Maps
        BY <3>1, ClassEvents DEF BInv, Types, Index
      <3>4. ~Inside(t, i)
        BY <3>1, <3>3 DEF Inside
      <3>5. pc'[t] \in {2, 3} => Locked(t, i)'
        BY <2>0, <3>1 DEF Locked, Mid, Busy, At, Call
      <3>6. pc[t] # 1 => obj'[i].holder = None \/ pc'[t] \in {2, 3}
        BY <3>1
      <3> QED
        BY <2>a, <3>1, <3>2, <3>4, <3>5
    <2>6. CASE EnterStep(t)
      <3>1. /\ work'[t] = work[t] /\ pc'[t] = pc[t] + 1
            /\ \/ MapAt(t) /\ pc[t] = 3
               \/ MapEndAt(t) /\ pc[t] \in {2, 5}
               \/ HashEndAt(t) /\ pc[t] = 5
            /\ obj'[i].users = {t}
            /\ obj'[i].holder = obj[i].holder /\ obj'[i].cfl = obj[i].cfl
        <4>1. EnterDone(t) /\ failed' = "no" /\ ~(failed' = "race")
          BY <2>6 DEF EnterStep
        <4> QED
          BY <2>0, <4>1 DEF EnterDone
      <3>2. Inside(t, i)'
        <4>1. /\ Call(t)' = Call(t) /\ Busy(t)' /\ At(t)' = i
          BY <2>0, <3>1 DEF Call, Busy, At
        <4>2. /\ MapAt(t) => metrics[i] \in Maps /\ Call(t).ev \in {"request", "response"}
              /\ MapEndAt(t) => metrics[i] \in Maps /\ Call(t).ev = "interval"
              /\ HashEndAt(t) => metrics[i] \in Hashes /\ Call(t).ev = "interval"
          BY <2>0 DEF MapAt, MapEndAt, HashEndAt
        <4>3. \/ MapAt(t) /\ pc'[t] = 4
              \/ MapEndAt(t) /\ pc'[t] \in {3, 6}
              \/ HashEndAt(t) /\ pc'[t] = 6
          BY <3>1
        <4>4. Mid(t, i)'
          BY <4>1, <4>3 DEF Mid
        <4> QED
          BY <4>1, <4>2, <4>3, <4>4 DEF Inside
      <3>3. ~Locked(t, i)
        <4>1. MapAt(t) \/ MapEndAt(t) => metrics[i] \in Maps /\ metrics[i] \in Class
          BY <1>0, <2>0 DEF MapAt, MapEndAt
        <4>2. MapAt(t) \/ MapEndAt(t) => metrics[i] \notin Hashes
          BY <4>1, ClassEvents
        <4> QED
          BY <3>1, <4>2 DEF Locked
      <3> QED
        BY <2>a, <2>b, <3>1, <3>2, <3>3
    <2>7. CASE LeaveStep(t)
      <3>1. /\ obj'[i].users = {} /\ obj'[i].holder = obj[i].holder
            /\ \/ (MapAt(t) \/ MapEndAt(t))
               \/ pc[t] = 6
            /\ \/ obj'[i].cfl = obj[i].cfl \/ obj'[i].cfl = <<>>
               \/ obj'[i].cfl = CflAddAll(obj[i].cfl, obj[i].nodes, obj[i].total)
        BY <2>0, <2>7 DEF LeaveStep, LeaveDone
      <3>2. Len(obj'[i].cfl) <= CflSize
        <4>1. Len(CflAddAll(obj[i].cfl, obj[i].nodes, obj[i].total)) <= CflSize
          BY <1>0, <2>b, CflAllType
        <4>2. Len(<<>>) <= CflSize
          BY MetricsAssumption
        <4> QED
          BY <2>b, <3>1, <4>1, <4>2
      <3>3. ~Locked(t, i)
        <4>1. MapAt(t) \/ MapEndAt(t) => metrics[i] \in Maps /\ metrics[i] \in Class
          BY <1>0, <2>0 DEF MapAt, MapEndAt
        <4>2. MapAt(t) \/ MapEndAt(t) => metrics[i] \notin Hashes
          BY <4>1, ClassEvents
        <4> QED
          BY <3>1, <4>2 DEF Locked
      <3> QED
        BY <2>a, <3>1, <3>2, <3>3
    <2> QED
      BY <1>2, <2>2, <2>3, <2>4, <2>5, <2>6, <2>7, ActCases
  <1> QED
    BY <1>1, <1>2, ListView

-----------------------------------------------------------------------------
(***************************************************************************)
(* The seconds that are counted                                            *)
(***************************************************************************)

\* A thread goes on in a handler, or leaves it.
Stays(t) == work'[t] = work[t] /\ pc'[t] > 1
Leaves(t) == work'[t] = Tail(work[t]) /\ pc'[t] = 1
Ends(t)  == work'[t] = <<>> /\ pc'[t] = 1

\* Advance stays in the handler or leaves it.
LEMMA AdvanceMoves ==
    ASSUME BInv, NEW t \in Thread, NEW n \in Nat \ {0}, NEW l, Advance(t, n, l)
    PROVE  Stays(t) \/ Leaves(t)
  <1>1. pc[t] \in Nat \ {0} /\ pc[t] + n > 1
    BY DEF BInv, Types
  <1>2. work \in [Thread -> Seq(CallSet)] /\ pc \in [Thread -> Nat \ {0}]
    BY DEF BInv, Types
  <1>3. CASE Goto(t, work[t], pc[t] + n, l)
    BY <1>1, <1>2, <1>3 DEF Goto, Stays
  <1>4. CASE Goto(t, Tail(work[t]), 1, NoLocals)
    BY <1>1, <1>2, <1>4 DEF Goto, Leaves
  <1> QED
    BY <1>3, <1>4 DEF Advance

\* A thread stays in its handler, leaves it, ends, or is in processData itself.
LEMMA WorkMoves ==
    ASSUME BInv, NEW t \in Thread, Operation(t), ListSteps(t), ~FailStep
    PROVE  Stays(t) \/ Leaves(t) \/ Ends(t) \/ OwnStep(t)
  <1>1. ASSUME NEW l, NEW n \in {1, 2, 3, 4, 6}, Advance(t, n, l)
        PROVE  Stays(t) \/ Leaves(t)
    BY <1>1, AdvanceMoves
  <1>2. ASSUME NEW l, Continue(t, l) PROVE Stays(t) \/ Leaves(t)
    BY <1>1, <1>2 DEF Continue
  <1>3. CASE AvgStep(t) \/ ReportStep(t)
    <2>1. Busy(t) /\ (AvgAt(t) \/ HashEndAt(t) \/ MapEndAt(t))
      BY <1>3, OperationBusy DEF AvgStep, ReportStep
    <2>2. Modify(t) \/ Read(t) \/ Delta(t) \/ Mark(t) \/ Send(t)
      <3>1. CASE AvgStep(t)
        <4>1. Now(t).kind \in AvgKinds \cup {"send"}
          BY <3>1, OpParts DEF AvgStep, AvgAt
        <4> QED
          BY <4>1 DEF Operation, Step, HashProcess, Branch, Total, Find, Create, Count,
                      CflUpdate, Enter, Leave, IfNoTotal, Is, AvgKinds
      <3>2. CASE ReportStep(t)
        BY <3>2 DEF ReportStep
      <3> QED
        BY <1>3, <3>1, <3>2
    <2>3. Modify(t) => \E l : Continue(t, l)
      BY DEF Modify
    <2>4. Delta(t) \/ Mark(t) => \E l : Continue(t, l)
      BY DEF Delta, Mark
    <2>5. Read(t) => \E l : Continue(t, l) \/ Advance(t, 2, l) \/ Advance(t, 3, l) \/ Advance(t, 4, l)
      BY DEF Read
    <2>6. Send(t) => (\E l : Continue(t, l)) \/ Goto(t, <<>>, 1, NoLocals)
      BY DEF Send
    <2>7. Goto(t, <<>>, 1, NoLocals) => Ends(t)
      BY DEF Goto, Ends, BInv, Types
    <2> QED
      BY <1>1, <1>2, <2>2, <2>3, <2>4, <2>5, <2>6, <2>7
  <1>4. CASE TotalStep(t)
    BY <1>4 DEF TotalStep, TotalDone, Stays, Leaves
  <1>5. CASE FindStep(t)
    BY <1>5 DEF FindStep, FindDone, Stays, Leaves
  <1>6. CASE CreateStep(t) \/ CountStep(t)
    BY <1>6 DEF CreateStep, CreateDone, CountStep, CountDone, Stays, Leaves
  <1>7. CASE CflStep(t)
    BY <1>7 DEF CflStep, CflDone, Stays
  <1>8. CASE EnterStep(t)
    <2>1. EnterDone(t) /\ failed' = "no" /\ ~(failed' = "race")
      BY <1>8 DEF EnterStep
    <2>2. work'[t] = work[t] /\ pc'[t] = pc[t] + 1
      BY <2>1 DEF EnterDone
    <2> QED
      BY <2>2 DEF Stays, BInv, Types
  <1>9. CASE LeaveStep(t) \/ SkipStep(t)
    BY <1>9 DEF LeaveStep, LeaveDone, SkipStep, Stays, Leaves
  <1> QED
    BY <1>3, <1>4, <1>5, <1>6, <1>7, <1>8, <1>9 DEF ListSteps

\* processData is called once, and its first part is the first call.
ProcessFirst(t) == \A k \in 1..Len(work[t]) : work[t][k].ev = "process" => k = 1

\* What a thread has to run after a call does not begin with processData.
LEMMA AfterCall ==
    ASSUME BInv, NEW t \in Thread, Operation(t), ListSteps(t), ~FailStep, ProcessFirst(t)
    PROVE  Stays(t) \/ (pc'[t] = 1 /\ \A k \in 1..Len(work'[t]) : work'[t][k].ev # "process")
  <1>0. Busy(t)
    BY OperationBusy
  <1>1. \A k \in 1..Len(Tail(work[t])) : Tail(work[t])[k].ev # "process"
    <2> TAKE k \in 1..Len(Tail(work[t]))
    <2>1. k + 1 \in 1..Len(work[t]) /\ Tail(work[t])[k] = work[t][k + 1] /\ k + 1 # 1
      BY <1>0, CallFacts
    <2> QED
      BY <2>1 DEF ProcessFirst
  <1>2. CASE Leaves(t)
    BY <1>1, <1>2 DEF Leaves
  <1>3. CASE Ends(t)
    BY <1>3 DEF Ends
  <1>4. CASE OwnStep(t)
    <2>1. OwnDone(t)
      BY <1>4, OwnCases
    <2>2. CASE \E w : /\ Calls(t, w) /\ work'[t] = w \o Tail(work[t])
                      /\ \A k \in 1..Len(w) :
                           /\ w[k].ev \in {"newFlow", "request", "response", "flowUpdate"}
                           /\ w[k].metric \in Index
      <3>1. PICK w : /\ Calls(t, w) /\ work'[t] = w \o Tail(work[t])
                     /\ \A k \in 1..Len(w) :
                           w[k].ev \in {"newFlow", "request", "response", "flowUpdate"}
        BY <2>2
      <3>2. Calls(t, Tail(work[t]))
        BY <1>0, RestCalls
      <3>3. ASSUME NEW k \in 1..Len(w \o Tail(work[t]))
            PROVE  (w \o Tail(work[t]))[k].ev # "process"
        <4>1. \/ k \in 1..Len(w) /\ (w \o Tail(work[t]))[k] = w[k]
              \/ /\ k - Len(w) \in 1..Len(Tail(work[t]))
                 /\ (w \o Tail(work[t]))[k] = Tail(work[t])[k - Len(w)]
          BY <3>1, <3>2, CallsJoined
        <4> QED
          BY <1>1, <3>1, <4>1
      <3> QED
        BY <2>1, <3>1, <3>3, SMTT(30) DEF OwnDone, Stays
    <2>3. ASSUME NEW w, Informs(t, "interval", None, w), Calls(t, Own("reset")),
                 work'[t] = w \o Own("reset")
          PROVE  \A k \in 1..Len(work'[t]) : work'[t][k].ev # "process"
      <3> DEFINE r == Own("reset")
      <3>1. Calls(t, w) /\ \A k \in 1..Len(w) : w[k].ev = "interval"
        BY <2>3 DEF Informs
      <3>2. Len(r) = 1 /\ r[1].ev = "reset"
        BY DEF Own
      <3> HIDE DEF r
      <3>3. ASSUME NEW k \in 1..Len(w \o r) PROVE (w \o r)[k].ev # "process"
        <4>1. \/ k \in 1..Len(w) /\ (w \o r)[k] = w[k]
              \/ k - Len(w) \in 1..Len(r) /\ (w \o r)[k] = r[k - Len(w)]
          BY <2>3, <3>1, CallsJoined DEF r
        <4> QED
          BY <3>1, <3>2, <4>1
      <3> QED
        BY <2>3, <3>3 DEF r
    <2>4. CASE work'[t] = <<>> /\ pc'[t] = 1
      BY <1>3, <2>4 DEF Ends
    <2>5. CASE work'[t] = Tail(work[t]) /\ pc'[t] = 1
      BY <1>2, <2>5 DEF Leaves
    <2>6. CASE work'[t] = work[t] /\ pc'[t] \in {2, 3}
      BY <2>6 DEF Stays
    <2> QED
      BY <2>1, <2>2, <2>3, <2>4, <2>5, <2>6 DEF OwnDone
  <1> QED
    BY <1>2, <1>3, <1>4, WorkMoves

\* Callbacks that have not read int_step yet
Starting == {t \in Callback : Busy(t) /\ Call(t).ev = "process" /\ pc[t] = 1}

\* int_step counts at most the callbacks that have read it.
StepInv ==
    /\ ticks <= setup.ticks
    /\ \A t \in Thread : ProcessFirst(t)
    /\ 0 <= int_step /\ int_step <= ticks - Cardinality(Starting)
    /\ \A t \in Callback :
         Busy(t) /\ Call(t).ev = "process" /\ pc[t] = 2 =>
           0 <= loc[t].reg /\ loc[t].reg + 1 <= ticks - Cardinality(Starting)

\* There are finitely many of them.
LEMMA StartingFinite ==
    IsFiniteSet(Starting) /\ Cardinality(Starting) \in Nat
  <1>1. IsFiniteSet(Callback) /\ Starting \subseteq Callback
    BY MetricsAssumption DEF Starting
  <1> QED
    BY <1>1, FS_Subset, FS_CardinalityType

\* A part of processData is a call of its own.
LEMMA PartIsOwn ==
    ASSUME BInv, NEW t \in Thread, Busy(t), Call(t).ev \in Parts
    PROVE  OwnAt(t)
  <1>1. GoodCall(t, Call(t))
    BY CallFacts
  <1>2. ASSUME At(t) \in Index PROVE FALSE
    <2>1. metrics[At(t)] \in Class /\ At(t) # 0
      BY <1>2 DEF BInv, Types, Index
    <2>2. Call(t).ev \in Subscribed(metrics[At(t)])
      BY <1>1, <2>1 DEF GoodCall, At
    <2>3. Call(t).ev \in Events
      BY <2>1, <2>2, ClassEvents
    <2> QED
      BY <2>3 DEF Events, Parts
  <1> QED
    BY <1>2, Places DEF HashAt, HashEndAt, MapAt, MapEndAt, AvgAt

\* No step puts the first part of processData anywhere else.
LEMMA ProcessFirstNext ==
    ASSUME BInv, AnyStep, metrics' = metrics, \A t \in Thread : ProcessFirst(t)
    PROVE  \A t \in Thread : ProcessFirst(t)'
  <1>1. ASSUME NEW u \in Thread, work'[u] = work[u] PROVE ProcessFirst(u)'
    BY <1>1 DEF ProcessFirst
  <1>2. ASSUME NEW t \in Thread, Others(t), ProcessFirst(t)'
        PROVE  \A u \in Thread : ProcessFirst(u)'
    BY <1>1, <1>2 DEF Others
  <1>3. ASSUME NEW t \in Thread, Operation(t), ListSteps(t)
        PROVE  \A u \in Thread : ProcessFirst(u)'
    <2>1. CASE FailStep
      BY <1>1, <2>1 DEF FailStep
    <2>2. CASE ~FailStep
      <3>1. Others(t) /\ ThreadStep(t)
        BY <1>3, <2>2, StepShape
      <3>2. ProcessFirst(t)'
        BY <1>3, <2>2, AfterCall DEF Stays, ProcessFirst
      <3> QED
        BY <1>2, <3>1, <3>2
    <2> QED
      BY <2>1, <2>2
  <1>4. ASSUME FlowStart("flow") PROVE \A u \in Thread : ProcessFirst(u)'
    <2>1. "flow" \in Thread /\ Others("flow")
      BY <1>4 DEF Thread, FlowStart, StartStep
    <2>2. ProcessFirst("flow")'
      BY <1>4 DEF FlowStart, ProcessFirst
    <2> QED
      BY <1>2, <2>1, <2>2
  <1>5. ASSUME NEW t \in Callback, TimerStart(t) PROVE \A u \in Thread : ProcessFirst(u)'
    <2>1. t \in Thread /\ Others(t)
      BY <1>5 DEF Thread, TimerStart, StartStep
    <2>2. PICK w : /\ Informs(t, "timer", None, w)
                   /\ work'[t] = Own("process") \o (w \o Own("branch"))
                   /\ Calls(t, w \o Own("branch"))
      BY <1>5 DEF TimerStart
    <2> DEFINE a == Own("process")
               b == Own("branch")
    <2>3. Calls(t, a) /\ Calls(t, b) /\ Len(a) = 1 /\ Len(b) = 1 /\ b[1].ev = "branch"
      BY OwnCalls DEF Parts, Own
    <2>4. Calls(t, w) /\ \A k \in 1..Len(w) : w[k].ev = "timer"
      BY <2>2 DEF Informs
    <2> HIDE DEF a, b
    <2>5. \A k \in 1..Len(w \o b) : (w \o b)[k].ev # "process"
      <3> TAKE k \in 1..Len(w \o b)
      <3>1. \/ k \in 1..Len(w) /\ (w \o b)[k] = w[k]
            \/ k - Len(w) \in 1..Len(b) /\ (w \o b)[k] = b[k - Len(w)]
        <4>1. Calls(t, w) /\ Calls(t, b)
          BY <2>3, <2>4
        <4>2. \A n \in 1..Len(w \o b) :
                \/ n \in 1..Len(w) /\ (w \o b)[n] = w[n]
                \/ n - Len(w) \in 1..Len(b) /\ (w \o b)[n] = b[n - Len(w)]
          BY <4>1, CallsJoined
        <4> QED
          BY <4>2, Zenon
      <3> QED
        BY <2>3, <2>4, <3>1
    <2>6. \A k \in 1..Len(a \o (w \o b)) : (a \o (w \o b))[k].ev = "process" => k = 1
      <3> TAKE k \in 1..Len(a \o (w \o b))
      <3>1. \/ k \in 1..Len(a)
            \/ /\ k - Len(a) \in 1..Len(w \o b)
               /\ (a \o (w \o b))[k] = (w \o b)[k - Len(a)]
        <4>1. Calls(t, w \o b)
          BY <2>2 DEF b
        <4>2. Calls(t, a)
          BY <2>3
        <4> QED
          BY <4>1, <4>2, CallsJoined
      <3>2. CASE k \in 1..Len(a)
        BY <2>3, <3>2
      <3>3. CASE /\ k - Len(a) \in 1..Len(w \o b)
                 /\ (a \o (w \o b))[k] = (w \o b)[k - Len(a)]
        BY <2>5, <3>3
      <3> QED
        BY <3>1, <3>2, <3>3
    <2>7. ProcessFirst(t)'
      BY <2>2, <2>6 DEF ProcessFirst, a, b
    <2> QED
      BY <1>2, <2>1, <2>7
  <1>6. ASSUME NoStep PROVE \A u \in Thread : ProcessFirst(u)'
    BY <1>1, <1>6 DEF NoStep
  <1> QED
    BY <1>3, <1>4, <1>5, <1>6 DEF AnyStep

\* What a step does to the callbacks that have not read int_step
LEMMA StartingNext ==
    ASSUME BInv, AnyStep, metrics' = metrics, \A t \in Thread : ProcessFirst(t)
    PROVE  \/ Starting' = Starting /\ ticks' = ticks
           \/ \E t \in Callback : /\ TimerStart(t) /\ t \notin Starting
                                  /\ Starting' = Starting \cup {t}
           \/ \E t \in Starting : /\ Starting' = Starting \ {t} /\ OwnDone(t) /\ OwnStep(t)
  <1> DEFINE S(t) == Busy(t) /\ Call(t).ev = "process" /\ pc[t] = 1
  <1>1. ASSUME NEW t \in Thread, Others(t) PROVE \A u \in Callback \ {t} : S(u)' <=> S(u)
    BY <1>1 DEF Others, Thread, Busy, Call
  <1>2. ASSUME NEW t \in Thread, Operation(t), ListSteps(t), ticks' = ticks
        PROVE  \/ Starting' = Starting /\ ticks' = ticks
               \/ t \in Starting /\ Starting' = Starting \ {t} /\ OwnDone(t) /\ OwnStep(t)
    <2>1. CASE FailStep
      BY <1>2, <2>1 DEF FailStep, Starting, Busy, Call
    <2>2. CASE ~FailStep
      <3>1. Others(t) /\ ThreadStep(t)
        BY <1>2, <2>2, StepShape
      <3>2. ~S(t)'
        <4>1. CASE Stays(t)
          BY <4>1 DEF Stays
        <4>2. CASE pc'[t] = 1 /\ \A k \in 1..Len(work'[t]) : work'[t][k].ev # "process"
          <5>1. Busy(t)' => 1 \in 1..Len(work'[t]) /\ Call(t)' = work'[t][1]
            <6>1. work'[t] \in Seq(CallSet)
              BY <3>1 DEF ThreadStep, ThreadTypes
            <6> QED
              BY <6>1 DEF Busy, Call
          <5> QED
            BY <4>2, <5>1
        <4> QED
          BY <1>2, <2>2, <4>1, <4>2, AfterCall
      <3>3. \A u \in Callback : u \in Starting' <=> u \in Starting /\ u # t
        BY <1>1, <3>1, <3>2 DEF Starting
      <3>4. Starting \subseteq Callback /\ Starting' \subseteq Callback
        BY DEF Starting
      <3>5. Starting' = Starting \ {t}
        BY <3>3, <3>4
      <3>6. CASE t \in Starting
        <4>1. OwnAt(t)
          BY <3>6, PartIsOwn DEF Starting, Parts
        <4>2. OwnStep(t)
          BY <1>2, <2>2, <4>1, PlaceSteps
        <4> QED
          BY <1>2, <3>5, <3>6, <4>2, OwnCases
      <3>7. CASE t \notin Starting
        BY <1>2, <3>5, <3>7
      <3> QED
        BY <3>6, <3>7
    <2> QED
      BY <2>1, <2>2
  <1>3. ASSUME FlowStart("flow") PROVE Starting' = Starting /\ ticks' = ticks
    <2>1. Others("flow") /\ "flow" \notin Callback /\ "flow" \in Thread /\ ticks' = ticks
      BY <1>3, MetricsAssumption DEF FlowStart, StartStep, Thread
    <2> QED
      BY <1>1, <2>1 DEF Starting
  <1>4. ASSUME NEW t \in Callback, TimerStart(t)
        PROVE  t \notin Starting /\ Starting' = Starting \cup {t}
    <2>1. t \in Thread /\ Others(t) /\ ~Busy(t) /\ pc'[t] = pc[t]
      BY <1>4 DEF TimerStart, StartStep, Thread
    <2>2. pc'[t] = 1
      BY <2>1 DEF BInv, AtWork
    <2>3. PICK w : work'[t] = Own("process") \o w /\ Calls(t, w)
      BY <1>4 DEF TimerStart
    <2> DEFINE a == Own("process")
    <2>4. /\ Calls(t, a) /\ Len(a) = 1
          /\ a[1] = [metric |-> 0, ev |-> "process", arg |-> None]
      BY OwnCalls DEF Parts
    <2> HIDE DEF a
    <2>5. /\ Calls(t, a \o w) /\ Len(a \o w) = Len(a) + Len(w)
          /\ \A k \in 1..Len(a) : (a \o w)[k] = a[k]
      <3>1. Calls(t, a) /\ Calls(t, w)
        BY <2>3, <2>4
      <3> QED
        BY <3>1, CallsJoined
    <2>6. work'[t] = a \o w
      BY <2>3 DEF a
    <2>7. work'[t] # <<>> /\ Head(work'[t]) = a[1]
      <3>1. a \o w \in Seq(CallSet) /\ w \in Seq(CallSet) /\ 1 \in 1..Len(a)
        BY <2>3, <2>4, <2>5 DEF Calls
      <3>2. Len(a \o w) >= 1 /\ (a \o w)[1] = a[1]
        BY <2>4, <2>5, <3>1
      <3> QED
        BY <2>6, <3>1, <3>2
    <2>8. S(t)'
      BY <2>2, <2>4, <2>7 DEF Busy, Call
    <2> QED
      BY <1>1, <2>1, <2>8 DEF Starting
  <1>5. ASSUME NoStep PROVE Starting' = Starting /\ ticks' = ticks
    BY <1>5 DEF NoStep, Starting, Busy, Call
  <1> QED
    BY <1>2, <1>3, <1>4, <1>5 DEF AnyStep

\* No step counts a second that has not passed.
LEMMA StepInvNext ==
    ASSUME BInv, BInv', AnyStep, metrics' = metrics, setup' = setup, StepInv
    PROVE  StepInv'
  <1>1. \A t \in Thread : ProcessFirst(t) /\ ProcessFirst(t)'
    BY ProcessFirstNext DEF StepInv
  <1>2. /\ ticks \in Nat /\ ticks' \in Nat /\ int_step \in Int /\ setup.ticks \in Nat
        /\ \A t \in Thread : loc[t] \in Locals /\ loc[t].reg \in Int
    <2>1. ticks \in Nat /\ ticks' \in Nat /\ int_step \in Int /\ setup \in Setups
      BY DEF BInv, Types
    <2>2. \A t \in Thread : loc[t] \in Locals
      BY DEF BInv, Types
    <2>3. \A t \in Thread : loc[t].reg \in Int
      BY <2>2, LocalTypes
    <2> QED
      BY <2>1, <2>2, <2>3, MetricsAssumption DEF Setup
  <1> DEFINE c == Cardinality(Starting)
             P(t) == Busy(t) /\ Call(t).ev = "process" /\ pc[t] = 2
  <1>3. c \in Nat /\ IsFiniteSet(Starting)
    BY StartingFinite
  <1>4. /\ ticks <= setup.ticks /\ 0 <= int_step /\ int_step <= ticks - c
        /\ \A t \in Callback : P(t) => 0 <= loc[t].reg /\ loc[t].reg + 1 <= ticks - c
    BY DEF StepInv
  <1>5. Callback \subseteq Thread
    BY DEF Thread
  <1>6. ASSUME NEW t \in Thread, Others(t)
        PROVE  \A u \in Callback : u # t => (P(u)' <=> P(u)) /\ loc'[u] = loc[u]
    BY <1>5, <1>6 DEF Others, Busy, Call
  <1>a. ASSUME ticks' <= setup.ticks, c' \in Nat, 0 <= int_step', int_step' <= ticks' - c',
               \A t \in Callback : P(t)' => 0 <= loc'[t].reg /\ loc'[t].reg + 1 <= ticks' - c'
        PROVE  StepInv'
    BY <1>1, <1>a DEF StepInv
  <1>7. ASSUME NEW t \in Callback, TimerStart(t), t \notin Starting, Starting' = Starting \cup {t}
        PROVE  StepInv'
    <2>1. c' = c + 1
      BY <1>3, <1>7, FS_AddElement
    <2>2. /\ ticks' = ticks + 1 /\ ticks < setup.ticks /\ int_step' = int_step /\ Others(t)
          /\ pc'[t] = pc[t] /\ ~Busy(t)
      BY <1>7 DEF TimerStart, StartStep
    <2>3. pc'[t] = 1
      BY <1>5, <2>2 DEF BInv, AtWork
    <2>4. ~P(t)'
      BY <2>3
    <2> HIDE DEF c, P
    <2>5. ticks' <= setup.ticks /\ ticks' - c' = ticks - c
      BY <1>2, <1>3, <2>1, <2>2
    <2>6. \A u \in Callback : P(u)' => 0 <= loc'[u].reg /\ loc'[u].reg + 1 <= ticks' - c'
      BY <1>4, <1>5, <1>6, <2>2, <2>4, <2>5
    <2> QED
      BY <1>3, <1>4, <1>a, <2>1, <2>2, <2>5, <2>6
  <1>8. ASSUME NEW t \in Starting, Starting' = Starting \ {t}, OwnDone(t), OwnStep(t)
        PROVE  StepInv'
    <2>1. t \in Callback /\ t \in Thread /\ pc[t] = 1 /\ Call(t).ev = "process"
      BY <1>5, <1>8 DEF Starting
    <2>2. c' = c - 1
      BY <1>3, <1>8, FS_RemoveElement
    <2>3. /\ int_step' = int_step /\ loc'[t] = Local(t, int_step) /\ ticks' = ticks /\ Others(t)
      BY <1>8, <2>1 DEF OwnDone, OwnStep, ThreadStep
    <2>4. loc'[t].reg = int_step
      BY <1>2, <2>1, <2>3 DEF Local, Locals
    <2>c. c' \in Nat
      <3>1. IsFiniteSet(Starting')
        BY <1>3, <1>8, FS_RemoveElement
      <3> QED
        BY <3>1, FS_CardinalityType
    <2> HIDE DEF c, P
    <2>5. ticks' <= setup.ticks /\ ticks' - c' = ticks - c + 1
      BY <1>2, <1>3, <1>4, <2>2, <2>3
    <2>6. ASSUME NEW u \in Callback, P(u)'
          PROVE  0 <= loc'[u].reg /\ loc'[u].reg + 1 <= ticks' - c'
      <3>1. CASE u = t
        BY <1>2, <1>3, <1>4, <2>4, <2>5, <3>1
      <3>2. CASE u # t
        <4>1. P(u) /\ loc'[u] = loc[u]
          BY <1>6, <2>1, <2>3, <2>6, <3>2
        <4>2. 0 <= loc[u].reg /\ loc[u].reg + 1 <= ticks - c /\ loc[u].reg \in Int
          BY <1>2, <1>4, <1>5, <4>1
        <4> QED
          BY <1>2, <1>3, <2>5, <4>1, <4>2
      <3> QED
        BY <3>1, <3>2
    <2>7. int_step' <= ticks' - c'
      BY <1>2, <1>3, <1>4, <2>3, <2>5
    <2> QED
      BY <1>4, <1>a, <2>c, <2>3, <2>5, <2>6, <2>7
  <1>9. ASSUME Starting' = Starting, ticks' = ticks,
               int_step' = int_step \/ int_step' = 0
                 \/ \E t \in Callback : P(t) /\ int_step' = loc[t].reg + 1,
               \A u \in Callback : P(u)' => P(u) /\ loc'[u] = loc[u]
        PROVE  StepInv'
    <2>1. c' = c
      BY <1>9
    <2> HIDE DEF c, P
    <2>2. 0 <= int_step' /\ int_step' <= ticks - c
      <3>1. CASE int_step' = int_step
        BY <1>4, <3>1
      <3>2. CASE int_step' = 0
        BY <1>2, <1>3, <1>4, <3>2
      <3>3. ASSUME NEW t \in Callback, P(t), int_step' = loc[t].reg + 1
            PROVE  0 <= int_step' /\ int_step' <= ticks - c
        BY <1>2, <1>4, <1>5, <3>3
      <3> QED
        BY <1>9, <3>1, <3>2, <3>3
    <2> QED
      BY <1>3, <1>4, <1>9, <1>a, <2>1, <2>2
  <1>10. ASSUME NEW t \in Thread, Operation(t), ListSteps(t),
                Starting' = Starting, ticks' = ticks
         PROVE  StepInv'
    <2>1. CASE FailStep
      BY <1>9, <1>10, <2>1 DEF FailStep, Busy, Call
    <2>2. CASE ~FailStep
      <3>1. Others(t) /\ ThreadStep(t) /\ Busy(t)
        BY <1>10, <2>2, StepShape, OperationBusy
      <3>2. CASE OwnStep(t)
        <4>1. OwnDone(t) /\ OwnAt(t) /\ t \in Callback
          BY <1>10, <3>2, OwnCases DEF OwnStep, OwnAt
        <4>2. ~(Call(t).ev = "process" /\ pc[t] = 1)
          <5>1. ASSUME Call(t).ev = "process", pc[t] = 1 PROVE FALSE
            <6>1. t \in Starting
              BY <3>1, <4>1, <5>1 DEF Starting
            <6>2. pc'[t] = 2
              BY <4>1, <5>1 DEF OwnDone
            <6> QED
              BY <1>10, <6>1, <6>2 DEF Starting
          <5> QED
            BY <5>1
        <4>3. ~P(t)'
          BY <4>1, <4>2 DEF OwnDone
        <4>4. int_step' = int_step \/ int_step' = 0 \/ (P(t) /\ int_step' = loc[t].reg + 1)
          <5>1. \/ int_step' = int_step \/ int_step' = 0
                \/ /\ Call(t).ev = "process" /\ pc[t] = 2 /\ int_step' = loc[t].reg + 1
            BY <4>1, Zenon DEF OwnDone
          <5> QED
            BY <3>1, <5>1 DEF P
        <4>5. \A u \in Callback : P(u)' => P(u) /\ loc'[u] = loc[u]
          <5> HIDE DEF P
          <5> QED
            BY <1>6, <3>1, <4>3
        <4> QED
          BY <1>9, <1>10, <4>1, <4>4, <4>5
      <3>3. CASE ~OwnStep(t)
        <4>1. int_step' = int_step
          BY <1>10, <2>2, <3>3 DEF ListSteps, AvgStep, ReportStep, TotalStep, FindStep, CreateStep,
                    CountStep, CflStep, EnterStep, LeaveStep, SkipStep, SameEnv
        <4>2. ~P(t)'
          <5>1. CASE Stays(t)
            <6>1. ~(Call(t).ev = "process")
              <7>1. ASSUME Call(t).ev = "process" PROVE FALSE
                <8>1. OwnAt(t)
                  BY <3>1, <7>1, PartIsOwn DEF Parts
                <8> QED
                  BY <1>10, <2>2, <3>3, <8>1, PlaceSteps
              <7> QED
                BY <7>1
            <6> QED
              BY <5>1, <6>1 DEF Stays, Call
          <5>2. CASE pc'[t] = 1
            BY <5>2
          <5> QED
            BY <1>1, <1>10, <2>2, <5>1, <5>2, AfterCall
        <4>3. \A u \in Callback : P(u)' => P(u) /\ loc'[u] = loc[u]
          <5> HIDE DEF P
          <5> QED
            BY <1>6, <3>1, <4>2
        <4> QED
          BY <1>9, <1>10, <4>1, <4>3
      <3> QED
        BY <3>2, <3>3
    <2> QED
      BY <2>1, <2>2
  <1>11. ASSUME FlowStart("flow"), Starting' = Starting, ticks' = ticks PROVE StepInv'
    <2>1. Others("flow") /\ "flow" \notin Callback /\ "flow" \in Thread /\ int_step' = int_step
      BY <1>11, MetricsAssumption DEF FlowStart, StartStep, Thread
    <2>2. \A u \in Callback : P(u)' => P(u) /\ loc'[u] = loc[u]
      <3> HIDE DEF P
      <3> QED
        BY <1>6, <2>1
    <2> QED
      BY <1>9, <1>11, <2>1, <2>2
  <1>12. ASSUME NoStep, Starting' = Starting PROVE StepInv'
    BY <1>9, <1>12 DEF NoStep, Busy, Call
  <1>13. CASE Starting' = Starting /\ ticks' = ticks
    <2>1. ASSUME NEW t \in Callback, TimerStart(t) PROVE FALSE
      <3>1. ticks' = ticks + 1
        BY <2>1 DEF TimerStart
      <3> QED
        BY <1>2, <1>13, <3>1
    <2> QED
      BY <1>10, <1>11, <1>12, <1>13, <2>1 DEF AnyStep
  <1>14. \/ Starting' = Starting /\ ticks' = ticks
         \/ \E t \in Callback : /\ TimerStart(t) /\ t \notin Starting
                                /\ Starting' = Starting \cup {t}
         \/ \E t \in Starting : /\ Starting' = Starting \ {t} /\ OwnDone(t) /\ OwnStep(t)
    BY <1>1, StartingNext
  <1> QED
    BY <1>7, <1>8, <1>13, <1>14

-----------------------------------------------------------------------------
(***************************************************************************)
(* TypeOK                                                                  *)
(***************************************************************************)
TInv == BInv /\ NodeInv /\ StepInv /\ \A i \in Index : Room(i)

\* The class of the metric and the event tell the place.
LEMMA PlaceOf ==
    ASSUME BInv, NEW t \in Thread, Busy(t), At(t) \in Index
    PROVE  LET c == metrics[At(t)] IN
           /\ c \in Hashes /\ Call(t).ev = "interval" => HashEndAt(t)
           /\ c \in Hashes /\ Call(t).ev # "interval" => HashAt(t)
           /\ c \in Maps /\ Call(t).ev = "interval" => MapEndAt(t)
           /\ c \in Maps /\ Call(t).ev # "interval" => MapAt(t)
           /\ c \in Avgs => AvgAt(t)
           /\ c \in Class
  <1> DEFINE c == metrics[At(t)]
  <1>1. c \in Class /\ At(t) # 0
    BY DEF BInv, Types, Index
  <1>2. /\ c \in Avgs => c \notin Hashes /\ c \notin Maps
        /\ c \in Hashes => c \notin Maps
    BY <1>1, ClassEvents
  <1>3. /\ OwnAt(t) => At(t) = 0
        /\ HashAt(t) => c \in Hashes /\ Call(t).ev = "request"
        /\ HashEndAt(t) => c \in Hashes /\ Call(t).ev = "interval"
        /\ MapAt(t) => c \in Maps /\ Call(t).ev # "interval"
        /\ MapEndAt(t) => c \in Maps /\ Call(t).ev = "interval"
        /\ AvgAt(t) => c \in Avgs
    BY DEF OwnAt, HashAt, HashEndAt, MapAt, MapEndAt, AvgAt
  <1>4. OwnAt(t) \/ HashAt(t) \/ HashEndAt(t) \/ MapAt(t) \/ MapEndAt(t) \/ AvgAt(t)
    BY Places
  <1> QED
    BY <1>1, <1>2, <1>3, <1>4

\* Whoever holds the buckets is walking over them.
LEMMA LockedKind ==
    ASSUME BInv, NEW t \in Thread, NEW i \in Index, Locked(t, i)
    PROVE  Busy(t) /\ At(t) = i /\ Now(t).kind \in {"walk", "unlockAll"}
  <1>1. Busy(t) /\ At(t) = i /\ pc[t] \in {2, 3}
    BY DEF Locked, Mid
  <1>2. HashEndAt(t)
    BY <1>1, PlaceOf DEF Locked
  <1> DEFINE p == pc[t]
             o == Now(t)
  <1>3. p = 1 \/ p = 4 \/ p = 5 \/ p = 6 \/ o = Op("walk", "") \/ o = Op("unlockAll", "")
    BY <1>2, Zenon DEF HashEndAt
  <1>4. p # 1 /\ p # 4 /\ p # 5 /\ p # 6
    BY <1>1
  <1> HIDE DEF p, o
  <1>5. o = Op("walk", "") \/ o = Op("unlockAll", "")
    BY <1>3, <1>4, Zenon
  <1>6. \A k : Op(k, "").kind = k
    BY DEF Op
  <1>7. o.kind = "walk" \/ o.kind = "unlockAll"
    BY <1>5, <1>6, Zenon
  <1> QED
    BY <1>1, <1>7 DEF o

\* Whoever uses the map, or frees the list, is in it.
LEMMA InsideKind ==
    ASSUME BInv, NEW t \in Thread, NEW i \in Index, Inside(t, i)
    PROVE  /\ Busy(t) /\ At(t) = i
           /\ Now(t).kind \in {"mapLeave", "iterLeave", "freeLeave"}
  <1>1. Busy(t) /\ At(t) = i
    BY DEF Inside, Mid
  <1>2. \/ MapEndAt(t) /\ pc[t] \in {3, 6}
        \/ HashEndAt(t) /\ pc[t] = 6
        \/ MapAt(t) /\ pc[t] = 4
    BY <1>1, PlaceOf DEF Inside
  <1> DEFINE p == pc[t]
             o == Now(t)
             Last == \/ o = Op("iterLeave", "") \/ o = Op("freeLeave", "")
                     \/ o = OpOf("mapLeave", "", Call(t).arg)
  <1>3. /\ MapEndAt(t) => p = 1 \/ p = 2 \/ p = 4 \/ p = 5 \/ Last
        /\ HashEndAt(t) => p = 1 \/ p = 2 \/ p = 3 \/ p = 4 \/ p = 5 \/ Last
        /\ MapAt(t) => p = 1 \/ p = 2 \/ p = 3 \/ Last
    BY Zenon DEF MapEndAt, HashEndAt, MapAt
  <1> HIDE DEF p, Last
  <1>4. Last
    BY <1>2, <1>3 DEF p
  <1>5. \A k, x : Op(k, "").kind = k /\ OpOf(k, "", x).kind = k
    BY DEF Op, OpOf
  <1>6. o.kind = "mapLeave" \/ o.kind = "iterLeave" \/ o.kind = "freeLeave"
    BY <1>4, <1>5, Zenon DEF Last
  <1> QED
    BY <1>1, <1>6 DEF o

\* The invariant gives TypeOK,
LEMMA TInvTypeOK == TInv => TypeOK
  <1> SUFFICES ASSUME TInv PROVE TypeOK
    OBVIOUS
  <1>1. BInv /\ StepInv
    BY DEF TInv
  <1>2. int_step \in 0..setup.ticks
    <2>1. int_step \in Int /\ ticks \in Nat /\ setup.ticks \in Nat
      BY <1>1, MetricsAssumption DEF BInv, Types, Setup
    <2>2. Cardinality(Starting) \in Nat
      BY StartingFinite
    <2>3. ticks <= setup.ticks /\ 0 <= int_step /\ int_step <= ticks - Cardinality(Starting)
      BY <1>1 DEF StepInv
    <2> QED
      BY <2>1, <2>2, <2>3
  <1>3. failed \in {"no", "race"}
    BY <1>1 DEF BInv, Types
  <1>4. ASSUME NEW i \in Index
        PROVE  /\ \A v \in ValueName : obj[i].val[v] \in Int
               /\ Len(obj[i].cfl) <= CflSize
               /\ obj[i].holder # None =>
                    /\ Busy(obj[i].holder) /\ At(obj[i].holder) = i
                    /\ Now(obj[i].holder).kind \in {"walk", "unlockAll"}
               /\ \A t \in obj[i].users :
                    /\ Busy(t) /\ At(t) = i
                    /\ Now(t).kind \in {"mapLeave", "iterLeave", "freeLeave"}
    <2>1. obj[i] \in MetricSet /\ Room(i)
      BY <1>1 DEF TInv, BInv, Types
    <2>2. \A v \in ValueName : obj[i].val[v] \in Int
      BY <2>1 DEF MetricSet
    <2>3. obj[i].holder \in Thread \cup {None} /\ obj[i].users \in SUBSET Thread
      BY <2>1, MetricFields
    <2>4. obj[i].holder # None =>
                    /\ Busy(obj[i].holder) /\ At(obj[i].holder) = i
                    /\ Now(obj[i].holder).kind \in {"walk", "unlockAll"}
      BY <1>1, <2>1, <2>3, LockedKind DEF Room
    <2>5. \A t \in obj[i].users :
                    /\ Busy(t) /\ At(t) = i
                    /\ Now(t).kind \in {"mapLeave", "iterLeave", "freeLeave"}
      BY <1>1, <2>1, <2>3, InsideKind DEF Room
    <2> QED
      BY <2>1, <2>2, <2>4, <2>5 DEF Room
  <1> QED
    BY <1>2, <1>3, <1>4 DEF TypeOK

\* holds at first,
LEMMA TInvInit == Init => TInv
  <1> SUFFICES ASSUME Init PROVE TInv
    OBVIOUS
  <1>1. BInv /\ NodeInv
    BY InitBasic
  <1>2. /\ work = [t \in Thread |-> <<>>] /\ int_step = 0 /\ ticks = 0
        /\ obj = [i \in Index |-> NewMetric]
    BY DEF Init
  <1>3. setup.ticks \in Nat
    BY <1>1, MetricsAssumption DEF BInv, Types, Setup
  <1>4. \A t \in Thread : ~Busy(t) /\ work[t] = <<>>
    BY <1>2 DEF Busy
  <1>5. Callback \subseteq Thread
    BY DEF Thread
  <1>6. Starting = {}
    BY <1>4, <1>5 DEF Starting
  <1>7. Cardinality(Starting) = 0
    BY <1>6, FS_EmptySet
  <1>8. \A t \in Thread : ProcessFirst(t)
    BY <1>4 DEF ProcessFirst
  <1>9. StepInv
    BY <1>2, <1>3, <1>4, <1>5, <1>7, <1>8 DEF StepInv
  <1>10. ASSUME NEW i \in Index PROVE Room(i)
    <2>1. obj[i].cfl = <<>> /\ obj[i].holder = None /\ obj[i].users = {}
      BY <1>2 DEF NewMetric
    <2>2. Len(<<>>) <= CflSize
      BY MetricsAssumption
    <2> QED
      BY <2>1, <2>2 DEF Room
  <1> QED
    BY <1>1, <1>9, <1>10 DEF TInv

\* and is kept by every step.
LEMMA TInvNext == TInv /\ [Next]_vars => TInv'
  <1> SUFFICES ASSUME TInv, [Next]_vars PROVE TInv'
    OBVIOUS
  <1>1. BInv /\ NodeInv /\ StepInv
    BY DEF TInv
  <1>2. BInv' /\ AnyStep /\ metrics' = metrics /\ setup' = setup
    BY <1>1, NextCases
  <1>3. NodeInv' /\ StepInv'
    BY <1>1, <1>2, NodeInvNext, StepInvNext
  <1>4. \A i \in Index : Room(i)'
    BY <1>1, <1>2, RoomNext DEF TInv
  <1>5. Index' = Index
    BY <1>2 DEF Index
  <1> QED
    BY <1>2, <1>3, <1>4, <1>5 DEF TInv

\* TypeOK, for any number of callbacks, metrics, names and events: int_step
\* counts no second that the timer has not fired, although callbacks race on
\* it; the list that is sent never outgrows its array; whoever is recorded as
\* holding the buckets, or as being in the map, is there.
THEOREM MetricsTyped == Spec => []TypeOK
  <1>1. Init => TInv
    BY TInvInit
  <1>2. TInv /\ [Next]_vars => TInv'
    BY TInvNext
  <1>3. TInv => TypeOK
    BY TInvTypeOK
  <1> QED
    BY <1>1, <1>2, <1>3, PTL DEF Spec
==============================================================================
