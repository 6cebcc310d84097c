------------------------- MODULE MetricsCountProofs -------------------------
(***************************************************************************)
(* What the metrics of a protocol count, for any protocol, choice of       *)
(* metrics, number of timer callbacks, names, events and seconds.          *)
(***************************************************************************)
EXTENDS MetricsProofs

-----------------------------------------------------------------------------
(***************************************************************************)
(* FewDuplicates                                                           *)
(***************************************************************************)

\* The counts that CountOf adds up
Counts(q, x) == [k \in DOMAIN q |-> IF q[k].name = x THEN q[k].cnt ELSE 0]

\* They are numbers, one for each record.
LEMMA CountType ==
    ASSUME NEW q \in Seq(RecordSet), NEW x
    PROVE  /\ Counts(q, x) \in Seq(Int) /\ Len(Counts(q, x)) = Len(q)
           /\ CountOf(q, x) = SumOf(Counts(q, x)) /\ CountOf(q, x) \in Int
  <1> DEFINE f == Counts(q, x)
  <1>1. Len(q) \in Nat /\ DOMAIN q = 1..Len(q) /\ \A k \in 1..Len(q) : q[k] \in RecordSet
    OBVIOUS
  <1>2. \A k \in 1..Len(q) : (IF q[k].name = x THEN q[k].cnt ELSE 0) \in Int
    BY <1>1 DEF RecordSet
  <1>3. f = [k \in 1..Len(q) |-> IF q[k].name = x THEN q[k].cnt ELSE 0]
    BY <1>1 DEF Counts
  <1>4. f \in Seq(Int) /\ Len(f) = Len(q)
    BY <1>1, <1>2, <1>3
  <1>5. CountOf(q, x) = SumOf(f)
    BY DEF CountOf, Counts
  <1> HIDE DEF f
  <1>6. SumOf(f) \in Int
    BY <1>4, SumType
  <1> QED
    BY <1>4, <1>5, <1>6 DEF f

\* A record that is appended
LEMMA CountAppend ==
    ASSUME NEW q \in Seq(RecordSet), NEW x, NEW r \in RecordSet
    PROVE  CountOf(Append(q, r), x) = CountOf(q, x) + (IF r.name = x THEN r.cnt ELSE 0)
  <1> DEFINE f == Counts(q, x)
             c == IF r.name = x THEN r.cnt ELSE 0
             g == Counts(Append(q, r), x)
  <1>1. c \in Int
    BY DEF RecordSet
  <1>2. Append(q, r) \in Seq(RecordSet) /\ Len(Append(q, r)) = Len(q) + 1 /\ Len(q) \in Nat
    OBVIOUS
  <1>3. f \in Seq(Int) /\ Len(f) = Len(q) /\ CountOf(q, x) = SumOf(f)
    BY CountType
  <1>4. g \in Seq(Int) /\ Len(g) = Len(q) + 1 /\ CountOf(Append(q, r), x) = SumOf(g)
    <2> DEFINE a == Append(q, r)
    <2>1. a \in Seq(RecordSet) /\ Len(a) = Len(q) + 1
      BY <1>2
    <2> HIDE DEF a
    <2>2. Counts(a, x) \in Seq(Int) /\ Len(Counts(a, x)) = Len(a) /\ CountOf(a, x) = SumOf(Counts(a, x))
      BY <2>1, CountType
    <2> QED
      BY <2>1, <2>2 DEF a
  <1>5. g = Append(f, c)
    <2>1. \A k \in 1..Len(q) : g[k] = f[k]
      BY <1>2 DEF Counts
    <2>2. g[Len(q) + 1] = c
      BY <1>2 DEF Counts
    <2> HIDE DEF f, g, c
    <2> QED
      BY <1>1, <1>2, <1>3, <1>4, <2>1, <2>2
  <1> HIDE DEF f, g, c
  <1>6. SumOf(Append(f, c)) = SumOf(f) + c
    BY <1>1, <1>3, SumAppend
  <1> QED
    BY <1>3, <1>4, <1>5, <1>6 DEF c

\* t is in Hash::add of metric i, for name x, at operation n.
Adds(t, i, x, n) == Mid(t, i) /\ Call(t).ev = "request" /\ Call(t).arg = x /\ pc[t] = n

\* The threads that have not found the name and are going to create a record
Creating(i, x) == {t \in Thread : Adds(t, i, x, 4)}

Few(i, x) ==
    /\ Cardinality(Matches(i, x)) + Cardinality(Creating(i, x)) <= Cardinality(Thread)
    /\ CountOf(obj[i].nodes, x) <= hist[i].done[x]
    /\ \A t \in Thread : Adds(t, i, x, 6) =>
         CountOf(obj[i].nodes, x) - obj[i].nodes[loc[t].node].cnt + loc[t].reg
           <= hist[i].done[x]

\* The sets that are counted are finite.
LEMMA Finiteness ==
    ASSUME BInv, NEW i \in Index, NEW x
    PROVE  /\ IsFiniteSet(Thread) /\ Cardinality(Thread) \in Nat
           /\ IsFiniteSet(Creating(i, x)) /\ Cardinality(Creating(i, x)) \in Nat
           /\ Cardinality(Creating(i, x)) <= Cardinality(Thread)
           /\ IsFiniteSet(Matches(i, x)) /\ Cardinality(Matches(i, x)) \in Nat
  <1>1. IsFiniteSet(Thread)
    <2>1. IsFiniteSet(Callback) /\ Thread = Callback \cup {"flow"}
      BY MetricsAssumption DEF Thread
    <2> QED
      BY <2>1, FS_AddElement
  <1>2. Creating(i, x) \subseteq Thread
    BY DEF Creating
  <1>3. IsFiniteSet(Matches(i, x))
    <2>1. obj[i] \in MetricSet
      BY DEF BInv, Types
    <2>2. obj[i].nodes \in Seq(RecordSet)
      BY <2>1, MetricFields
    <2>3. Matches(i, x) \subseteq 1..Len(obj[i].nodes) /\ Len(obj[i].nodes) \in Nat
      BY <2>2 DEF Matches
    <2>4. IsFiniteSet(1..Len(obj[i].nodes))
      BY <2>3, FS_Interval
    <2> QED
      BY <2>3, <2>4, FS_Subset
  <1>4. IsFiniteSet(Creating(i, x)) /\ Cardinality(Creating(i, x)) <= Cardinality(Thread)
    BY <1>1, <1>2, FS_Subset
  <1> QED
    BY <1>1, <1>3, <1>4, FS_CardinalityType

\* The record that a thread has found
LEMMA FoundRecord ==
    ASSUME BInv, NodeInv, NEW i \in Index, metrics[i] \in Hashes, NEW x, NEW t \in Thread,
           Adds(t, i, x, 5) \/ Adds(t, i, x, 6)
    PROVE  /\ First(i, x, loc[t].node) /\ loc[t].node \in 1..Len(obj[i].nodes)
           /\ obj[i].nodes[loc[t].node].name = x
           /\ obj[i].nodes[loc[t].node].cnt \in Int /\ loc[t].reg \in Int
  <1>1. HashReq(t) /\ pc[t] \in {5, 6} /\ At(t) = i /\ Call(t).arg = x
    BY DEF Adds, Mid, HashReq
  <1>2. First(i, x, loc[t].node)
    BY <1>1 DEF NodeInv
  <1>3. obj[i] \in MetricSet /\ loc[t] \in Locals
    BY DEF BInv, Types
  <1>4. obj[i].nodes \in Seq(RecordSet) /\ loc[t].reg \in Int
    BY <1>3, MetricFields, LocalTypes
  <1>5. loc[t].node \in 1..Len(obj[i].nodes) /\ obj[i].nodes[loc[t].node].name = x
    BY <1>2, <1>4 DEF First, Matches
  <1>6. obj[i].nodes[loc[t].node] \in RecordSet
    BY <1>4, <1>5
  <1> QED
    BY <1>2, <1>4, <1>5, <1>6 DEF RecordSet

\* A step that leaves the records alone, and nobody to create one
LEMMA FewSame ==
    ASSUME BInv, BInv', NEW i \in Index, Index' = Index, NEW x, Few(i, x),
           obj'[i].nodes = obj[i].nodes, hist'[i].done = hist[i].done,
           Creating(i, x)' \subseteq Creating(i, x),
           \A u \in Thread : Adds(u, i, x, 6)' => Adds(u, i, x, 6) /\ loc'[u] = loc[u]
    PROVE  Few(i, x)'
  <1>1. /\ IsFiniteSet(Creating(i, x)) /\ Cardinality(Creating(i, x)) \in Nat
        /\ Cardinality(Matches(i, x)) \in Nat /\ Cardinality(Thread) \in Nat
    BY Finiteness
  <1>2. /\ Cardinality(Creating(i, x)') <= Cardinality(Creating(i, x))
        /\ Cardinality(Creating(i, x)') \in Nat
    BY <1>1, FS_Subset, FS_CardinalityType
  <1>3. Matches(i, x)' = Matches(i, x)
    BY DEF Matches
  <1> DEFINE a == Cardinality(Matches(i, x))
             b == Cardinality(Creating(i, x))
             d == Cardinality(Creating(i, x)')
             n == Cardinality(Thread)
  <1>4. a + b <= n
    BY DEF Few
  <1>5. a + d <= n
    <2> HIDE DEF a, b, d, n
    <2>1. a \in Nat /\ b \in Nat /\ d \in Nat /\ n \in Nat /\ d <= b
      BY <1>1, <1>2 DEF a, b, d, n
    <2> QED
      BY <1>4, <2>1
  <1>6. (Cardinality(Matches(i, x)) + Cardinality(Creating(i, x)) <= Cardinality(Thread))'
    BY <1>3, <1>5 DEF Thread
  <1>7. \A u \in Thread : Adds(u, i, x, 6)' =>
         CountOf(obj'[i].nodes, x) - obj'[i].nodes[loc'[u].node].cnt + loc'[u].reg
           <= hist'[i].done[x]
    BY DEF Few
  <1>8. CountOf(obj'[i].nodes, x) <= hist'[i].done[x]
    BY DEF Few
  <1>9. CountOf(obj[i].nodes, x)' = CountOf(obj'[i].nodes, x)
    BY DEF CountOf, SumOf
  <1> QED
    BY <1>6, <1>7, <1>8, <1>9 DEF Few, Thread

\* A thread that another one does not move
LEMMA AddsOther ==
    ASSUME NEW i, NEW x, NEW u, NEW n, Mid(u, i)' <=> Mid(u, i),
           Mid(u, i) => Call(u)' = Call(u) /\ pc'[u] = pc[u]
    PROVE  Adds(u, i, x, n)' <=> Adds(u, i, x, n)
  BY DEF Adds

\* Hash::find
LEMMA FewFind ==
    ASSUME BInv, BInv', NodeInv, NEW i \in Index, Index' = Index, NEW x, Few(i, x),
           metrics[i] \in Hashes, NEW t \in Thread, Acts(t, i), FindStep(t),
           \A u \in Thread : u # t => /\ \A n \in {4, 6} : Adds(u, i, x, n)' <=> Adds(u, i, x, n)
                                      /\ loc'[u] = loc[u]
    PROVE  Few(i, x)'
  <1>1. /\ At(t) = i /\ Busy(t) /\ obj' = obj /\ hist' = hist /\ pc[t] = 3 /\ work'[t] = work[t]
        /\ pc'[t] = 5 \/ (pc'[t] = 4 /\ Matches(i, Call(t).arg) = {})
    BY DEF Acts, FindStep, FindDone
  <1>2. ~Adds(t, i, x, 6)'
    BY <1>1 DEF Adds
  <1>3. CASE ~Adds(t, i, x, 4)'
    <2>1. Creating(i, x)' \subseteq Creating(i, x)
      BY <1>3 DEF Creating, Thread
    <2> QED
      BY <1>1, <1>2, <2>1, FewSame
  <1>4. CASE Adds(t, i, x, 4)'
    <2>1. Call(t)' = Call(t)
      BY <1>1 DEF Call
    <2>2. Matches(i, x) = {}
      BY <1>1, <1>4, <2>1 DEF Adds
    <2>3. Matches(i, x)' = {}
      BY <1>1, <2>2 DEF Matches
    <2>4. Cardinality(Matches(i, x)') = 0
      BY <2>3, FS_EmptySet
    <2>5. (Cardinality(Creating(i, x)) <= Cardinality(Thread) /\ Cardinality(Creating(i, x)) \in Nat)'
      <3>1. Creating(i, x)' \subseteq Thread /\ IsFiniteSet(Thread)
        BY Finiteness DEF Creating, Thread
      <3>2. Thread' = Thread
        BY DEF Thread
      <3> QED
        BY <3>1, <3>2, FS_Subset, FS_CardinalityType
    <2>6. (Cardinality(Matches(i, x)) + Cardinality(Creating(i, x)) <= Cardinality(Thread))'
      BY <2>4, <2>5
    <2>7. /\ CountOf(obj'[i].nodes, x) <= hist'[i].done[x]
          /\ \A u \in Thread : Adds(u, i, x, 6)' =>
               CountOf(obj'[i].nodes, x) - obj'[i].nodes[loc'[u].node].cnt + loc'[u].reg
                 <= hist'[i].done[x]
      BY <1>1, <1>2 DEF Few
    <2>8. CountOf(obj[i].nodes, x)' = CountOf(obj'[i].nodes, x)
      BY DEF CountOf, SumOf
    <2> QED
      BY <2>6, <2>7, <2>8 DEF Few, Thread
  <1> QED
    BY <1>3, <1>4

\* Hash::create
LEMMA FewCreate ==
    ASSUME BInv, BInv', NodeInv, NEW i \in Index, Index' = Index, NEW x \in Names, Few(i, x),
           metrics[i] \in Hashes, NEW t \in Thread, Acts(t, i), CreateStep(t),
           \A u \in Thread : u # t => /\ \A n \in {4, 6} : Adds(u, i, x, n)' <=> Adds(u, i, x, n)
                                      /\ loc'[u] = loc[u]
    PROVE  Few(i, x)'
  <1> DEFINE y == Call(t).arg
             q == obj[i].nodes
             r == [name |-> y, cnt |-> 1]
  <1>1. /\ At(t) = i /\ Busy(t) /\ pc[t] = 4 /\ pc'[t] = 1 /\ y \in Names
        /\ obj'[i].nodes = Append(q, r) /\ Call(t).ev = "request"
        /\ hist'[i].done = [hist[i].done EXCEPT ![y] = hist[i].done[y] + 1]
    BY DEF Acts, CreateStep, CreateDone, HashAt
  <1>2. /\ q \in Seq(RecordSet) /\ r \in RecordSet /\ r.name = y /\ r.cnt = 1
        /\ hist[i].done \in [Names -> Nat]
    <2>1. obj[i] \in MetricSet /\ hist[i] \in HistSet
      BY DEF BInv, Types
    <2>2. q \in Seq(RecordSet)
      BY <2>1, MetricFields
    <2>3. r \in RecordSet
      BY <1>1 DEF RecordSet
    <2>4. hist[i].done \in [Names -> Nat]
      BY <2>1 DEF HistSet
    <2> QED
      BY <2>2, <2>3, <2>4
  <1>3. CountOf(obj'[i].nodes, x) = CountOf(q, x) + (IF y = x THEN 1 ELSE 0)
    <2> HIDE DEF q, r
    <2>1. CountOf(Append(q, r), x) = CountOf(q, x) + (IF r.name = x THEN r.cnt ELSE 0)
      BY <1>2, CountAppend
    <2> QED
      BY <1>1, <1>2, <2>1 DEF q
  <1>4. hist'[i].done[x] = hist[i].done[x] + (IF y = x THEN 1 ELSE 0) /\ hist[i].done[x] \in Nat
    BY <1>1, <1>2
  <1>5. CountOf(q, x) \in Int
    BY <1>2, CountType
  <1>6. CountOf(q, x) <= hist[i].done[x]
    BY DEF Few
  <1>7. CountOf(obj'[i].nodes, x) <= hist'[i].done[x]
    <2> HIDE DEF q, y
    <2> QED
      BY <1>3, <1>4, <1>5, <1>6
  <1>8. ASSUME NEW u \in Thread, Adds(u, i, x, 6)'
        PROVE  CountOf(obj'[i].nodes, x) - obj'[i].nodes[loc'[u].node].cnt + loc'[u].reg
                 <= hist'[i].done[x]
    <2>1. u # t
      BY <1>1, <1>8 DEF Adds
    <2>2. Adds(u, i, x, 6) /\ loc'[u] = loc[u]
      BY <1>8, <2>1
    <2> DEFINE k == loc[u].node
               g == loc[u].reg
               c == q[k].cnt
    <2>3. CountOf(q, x) - c + g <= hist[i].done[x]
      BY <2>2 DEF Few
    <2>4. k \in 1..Len(q) /\ c \in Int /\ g \in Int
      BY <2>2, FoundRecord
    <2>5. obj'[i].nodes[k] = q[k]
      <3> HIDE DEF q, r, k
      <3> QED
        BY <1>1, <1>2, <2>4 DEF q
    <2>6. /\ obj'[i].nodes[loc'[u].node].cnt = c /\ loc'[u].reg = g
      BY <2>2, <2>5
    <2> DEFINE a == CountOf(q, x)
               b == CountOf(obj'[i].nodes, x)
               d == hist[i].done[x]
               e == hist'[i].done[x]
               z == IF y = x THEN 1 ELSE 0
    <2>7. a \in Int /\ b = a + z /\ e = d + z /\ d \in Nat /\ a - c + g <= d /\ z \in Int
      BY <1>3, <1>4, <1>5, <2>3
    <2> HIDE DEF a, b, c, d, e, z, g
    <2>8. b - c + g <= e
      BY <2>4, <2>7
    <2> QED
      BY <2>6, <2>8 DEF b, e
  <1>9. (Cardinality(Matches(i, x)) + Cardinality(Creating(i, x)) <= Cardinality(Thread))'
    <2>1. /\ IsFiniteSet(Matches(i, x)) /\ Cardinality(Matches(i, x)) \in Nat
          /\ IsFiniteSet(Creating(i, x)) /\ Cardinality(Creating(i, x)) \in Nat
          /\ Cardinality(Thread) \in Nat
      BY Finiteness
    <2>2. ~Adds(t, i, x, 4)'
      BY <1>1 DEF Adds
    <2>3. \A u \in Thread : u \in Creating(i, x)' <=> u \in Creating(i, x) /\ u # t
      BY <2>2 DEF Creating, Thread
    <2>4. Creating(i, x)' = Creating(i, x) \ {t}
      <3>1. Creating(i, x)' \subseteq Thread /\ Creating(i, x) \subseteq Thread
        BY DEF Creating, Thread
      <3> QED
        BY <2>3, <3>1
    <2>5. CASE y # x
      <3>1. Matches(i, x)' = Matches(i, x)
        <4>1. Matches(i, x)' = {k \in 1..Len(Append(q, r)) : Append(q, r)[k].name = x}
          BY <1>1, <1>2 DEF Matches
        <4>2. Matches(i, x) = {k \in 1..Len(q) : q[k].name = x}
          BY <1>2 DEF Matches
        <4> HIDE DEF q, r
        <4>3. \A k \in 1..Len(Append(q, r)) : \/ k \in 1..Len(q) /\ Append(q, r)[k] = q[k]
                                              \/ k = Len(q) + 1 /\ Append(q, r)[k] = r
          BY <1>2
        <4>4. 1..Len(q) \subseteq 1..Len(Append(q, r))
          BY <1>2
        <4> QED
          BY <1>2, <2>5, <4>1, <4>2, <4>3, <4>4
      <3>2. Creating(i, x)' \subseteq Creating(i, x)
        BY <2>4
      <3>3. /\ Cardinality(Creating(i, x)') <= Cardinality(Creating(i, x))
            /\ Cardinality(Creating(i, x)') \in Nat
        BY <2>1, <3>2, FS_Subset, FS_CardinalityType
      <3> DEFINE a == Cardinality(Matches(i, x))
                 b == Cardinality(Creating(i, x))
                 d == Cardinality(Creating(i, x)')
                 n == Cardinality(Thread)
      <3>4. a + b <= n
        BY DEF Few
      <3>5. a + d <= n
        <4> HIDE DEF a, b, d, n
        <4>1. a \in Nat /\ b \in Nat /\ d \in Nat /\ n \in Nat /\ d <= b
          BY <2>1, <3>3 DEF a, b, d, n
        <4> QED
          BY <3>4, <4>1
      <3> QED
        BY <3>1, <3>5 DEF Thread
    <2>6. CASE y = x
      <3>1. t \in Creating(i, x)
        BY <1>1, <2>6 DEF Creating, Adds, Mid
      <3>2. Cardinality(Creating(i, x)') = Cardinality(Creating(i, x)) - 1
        BY <2>1, <2>4, <3>1, FS_RemoveElement
      <3>3. Matches(i, x)' = Matches(i, x) \cup {Len(q) + 1} /\ Len(q) + 1 \notin Matches(i, x)
        <4>1. Matches(i, x)' = {k \in 1..Len(Append(q, r)) : Append(q, r)[k].name = x}
          BY <1>1, <1>2 DEF Matches
        <4>2. Matches(i, x) = {k \in 1..Len(q) : q[k].name = x}
          BY <1>2 DEF Matches
        <4> HIDE DEF q, r
        <4>3. \A k \in 1..Len(Append(q, r)) : \/ k \in 1..Len(q) /\ Append(q, r)[k] = q[k]
                                              \/ k = Len(q) + 1 /\ Append(q, r)[k] = r
          BY <1>2
        <4>4. /\ 1..Len(q) \subseteq 1..Len(Append(q, r))
              /\ Len(q) + 1 \in 1..Len(Append(q, r)) /\ Len(q) + 1 \notin 1..Len(q)
              /\ Append(q, r)[Len(q) + 1] = r
          BY <1>2
        <4> HIDE DEF y
        <4> QED
          BY <1>2, <2>6, <4>1, <4>2, <4>3, <4>4
      <3>4. Cardinality(Matches(i, x)') = Cardinality(Matches(i, x)) + 1
        BY <2>1, <3>3, FS_AddElement
      <3> DEFINE a == Cardinality(Matches(i, x))
                 b == Cardinality(Creating(i, x))
                 c == Cardinality(Matches(i, x)')
                 d == Cardinality(Creating(i, x)')
                 n == Cardinality(Thread)
      <3>5. a + b <= n
        BY DEF Few
      <3>6. c + d <= n
        <4> HIDE DEF a, b, c, d, n
        <4>1. a \in Nat /\ b \in Nat /\ c = a + 1 /\ d = b - 1 /\ n \in Nat
          BY <2>1, <3>2, <3>4 DEF a, b, c, d, n
        <4> QED
          BY <3>5, <4>1
      <3> QED
        BY <3>6 DEF Thread
    <2> QED
      BY <2>5, <2>6
  <1>10. CountOf(obj[i].nodes, x)' = CountOf(obj'[i].nodes, x)
    BY DEF CountOf, SumOf
  <1> QED
    BY <1>7, <1>8, <1>9, <1>10 DEF Few, Thread

\* A record is given another count.
Recount(q, j, c) == [q EXCEPT ![j] = [q[j] EXCEPT !.cnt = c]]

Recounted(q, x, j, c, p) ==
    /\ p \in Seq(RecordSet) /\ Len(p) = Len(q) /\ p[j].cnt = c
    /\ \A k \in 1..Len(q) : p[k].name = q[k].name /\ (k # j => p[k] = q[k])
    /\ CountOf(p, x) = CountOf(q, x) + (IF q[j].name = x THEN c - q[j].cnt ELSE 0)

\* A record whose count is changed
LEMMA CountExcept ==
    ASSUME NEW q \in Seq(RecordSet), NEW x, NEW j \in 1..Len(q), NEW c \in Int
    PROVE  Recounted(q, x, j, c, Recount(q, j, c))
  <1> DEFINE p == Recount(q, j, c)
             f == Counts(q, x)
             g == Counts(p, x)
             r == [q[j] EXCEPT !.cnt = c]
  <1>0. q[j] \in RecordSet /\ Len(q) \in Nat
    OBVIOUS
  <1>1. q[j] \in RecordSet /\ q[j].cnt \in Int /\ Len(q) \in Nat
    BY <1>0 DEF RecordSet
  <1>2. r \in RecordSet /\ r.name = q[j].name /\ r.cnt = c
    BY <1>1 DEF RecordSet
  <1>p. p = [q EXCEPT ![j] = r]
    BY DEF Recount
  <1> HIDE DEF r, p
  <1>3. p \in Seq(RecordSet) /\ Len(p) = Len(q) /\ p[j] = r
        /\ \A k \in 1..Len(q) : k # j => p[k] = q[k]
    BY <1>2, <1>p
  <1>4. f \in Seq(Int) /\ Len(f) = Len(q) /\ CountOf(q, x) = SumOf(f)
    BY CountType
  <1>5. g \in Seq(Int) /\ Len(g) = Len(q) /\ CountOf(p, x) = SumOf(g)
    BY <1>3, CountType
  <1>6. /\ \A k \in 1..Len(q) : k # j => g[k] = f[k]
        /\ f[j] = IF q[j].name = x THEN q[j].cnt ELSE 0
        /\ g[j] = IF q[j].name = x THEN c ELSE 0
    BY <1>2, <1>3 DEF Counts
  <1> HIDE DEF f, g
  <1>7. SumOf(g) = SumOf(f) + g[j] - f[j]
    BY <1>4, <1>5, <1>6, SumExcept
  <1>8. SumOf(f) \in Int /\ f[j] \in Int /\ g[j] \in Int
    BY <1>4, <1>5, SumType
  <1>9. CountOf(p, x) = CountOf(q, x) + (IF q[j].name = x THEN c - q[j].cnt ELSE 0)
    BY <1>1, <1>4, <1>5, <1>6, <1>7, <1>8
  <1>10. Recounted(q, x, j, c, p)
    BY <1>2, <1>3, <1>9 DEF Recounted
  <1> QED
    BY <1>10 DEF p

\* e->cnt++
LEMMA FewCount ==
    ASSUME BInv, BInv', NodeInv, NEW i \in Index, Index' = Index, NEW x \in Names, Few(i, x),
           metrics[i] \in Hashes, NEW t \in Thread, Acts(t, i), CountStep(t),
           \A u \in Thread : u # t => /\ \A n \in {4, 6} : Adds(u, i, x, n)' <=> Adds(u, i, x, n)
                                      /\ loc'[u] = loc[u]
    PROVE  Few(i, x)'
  <1> DEFINE y == Call(t).arg
             q == obj[i].nodes
             j == loc[t].node
             c == loc[t].reg + 1
  <1>1. /\ At(t) = i /\ Busy(t) /\ y \in Names /\ Call(t).ev = "request" /\ loc[t] \in Locals
        /\ \/ /\ pc[t] = 5 /\ obj' = obj /\ hist' = hist /\ work'[t] = work[t]
              /\ pc'[t] = 6 /\ loc'[t] = Local(t, q[j].cnt)
           \/ /\ pc[t] = 6 /\ pc'[t] = 1
              /\ obj'[i].nodes = [q EXCEPT ![j] = [q[j] EXCEPT !.cnt = c]]
              /\ hist'[i].done = [hist[i].done EXCEPT ![y] = hist[i].done[y] + 1]
    BY DEF Acts, CountStep, CountDone, HashAt, BInv, Types
  <1>2. pc'[t] # 4 /\ ~Adds(t, i, x, 4)'
    BY <1>1 DEF Adds
  <1>3. Creating(i, x)' \subseteq Creating(i, x)
    BY <1>2 DEF Creating, Thread
  <1>4. /\ q \in Seq(RecordSet) /\ hist[i].done \in [Names -> Nat] /\ CountOf(q, x) \in Int
    <2>1. obj[i] \in MetricSet /\ hist[i] \in HistSet
      BY DEF BInv, Types
    <2>2. q \in Seq(RecordSet)
      BY <2>1, MetricFields
    <2>3. hist[i].done \in [Names -> Nat]
      BY <2>1 DEF HistSet
    <2> QED
      BY <2>2, <2>3, CountType
  <1>5. Adds(t, i, y, 5) \/ Adds(t, i, y, 6)
    BY <1>1 DEF Adds, Mid
  <1>6. /\ First(i, y, j) /\ j \in 1..Len(q) /\ q[j].name = y /\ q[j].cnt \in Int
        /\ loc[t].reg \in Int
    BY <1>5, FoundRecord
  <1>7. CountOf(q, x) <= hist[i].done[x]
    BY DEF Few
  <1>8. CountOf(obj[i].nodes, x)' = CountOf(obj'[i].nodes, x)
    BY DEF CountOf, SumOf
  <1>c. ASSUME Cardinality(Matches(i, x)') = Cardinality(Matches(i, x))
        PROVE  (Cardinality(Matches(i, x)) + Cardinality(Creating(i, x)) <= Cardinality(Thread))'
    <2>1. /\ IsFiniteSet(Creating(i, x)) /\ Cardinality(Creating(i, x)) \in Nat
          /\ Cardinality(Matches(i, x)) \in Nat /\ Cardinality(Thread) \in Nat
      BY Finiteness
    <2>2. /\ Cardinality(Creating(i, x)') <= Cardinality(Creating(i, x))
          /\ Cardinality(Creating(i, x)') \in Nat
      BY <1>3, <2>1, FS_Subset, FS_CardinalityType
    <2> DEFINE a == Cardinality(Matches(i, x))
               b == Cardinality(Creating(i, x))
               d == Cardinality(Creating(i, x)')
               n == Cardinality(Thread)
    <2>3. a + b <= n
      BY DEF Few
    <2>4. a + d <= n
      <3> HIDE DEF a, b, d, n
      <3>1. a \in Nat /\ b \in Nat /\ d \in Nat /\ n \in Nat /\ d <= b
        BY <2>1, <2>2 DEF a, b, d, n
      <3> QED
        BY <2>3, <3>1
    <2> QED
      BY <1>c, <2>4 DEF Thread
  <1>9. CASE pc[t] = 5
    <2>1. /\ obj' = obj /\ hist' = hist /\ work'[t] = work[t] /\ pc'[t] = 6
          /\ loc'[t] = Local(t, q[j].cnt)
      BY <1>1, <1>9
    <2>2. loc'[t].reg = q[j].cnt /\ loc'[t].node = j
      BY <1>1, <1>6, <2>1 DEF Local, Locals
    <2>3. ASSUME NEW u \in Thread, Adds(u, i, x, 6)'
          PROVE  CountOf(obj'[i].nodes, x) - obj'[i].nodes[loc'[u].node].cnt + loc'[u].reg
                   <= hist'[i].done[x]
      <3>1. CASE u = t
        <4> DEFINE a == CountOf(q, x)
                   b == q[j].cnt
                   d == hist[i].done[x]
        <4>1. a \in Int /\ b \in Int /\ d \in Nat /\ a <= d
          BY <1>4, <1>6, <1>7
        <4>2. /\ CountOf(obj'[i].nodes, x) = a /\ obj'[i].nodes[loc'[u].node].cnt = b
              /\ loc'[u].reg = b /\ hist'[i].done[x] = d
          BY <2>1, <2>2, <3>1
        <4> HIDE DEF a, b, d
        <4>3. a - b + b <= d
          BY <4>1
        <4> QED
          BY <4>2, <4>3
      <3>2. CASE u # t
        BY <2>1, <2>3, <3>2 DEF Few
      <3> QED
        BY <3>1, <3>2
    <2>4. Matches(i, x)' = Matches(i, x)
      BY <2>1 DEF Matches
    <2>5. (Cardinality(Matches(i, x)) + Cardinality(Creating(i, x)) <= Cardinality(Thread))'
      BY <1>c, <2>4
    <2>6. CountOf(obj'[i].nodes, x) <= hist'[i].done[x]
      BY <1>7, <2>1
    <2> QED
      BY <1>8, <2>3, <2>5, <2>6 DEF Few, Thread
  <1>10. CASE pc[t] = 6
    <2> DEFINE p == obj'[i].nodes
               z == IF y = x THEN 1 ELSE 0
    <2>1. /\ pc'[t] = 1 /\ p = [q EXCEPT ![j] = [q[j] EXCEPT !.cnt = c]]
          /\ hist'[i].done = [hist[i].done EXCEPT ![y] = hist[i].done[y] + 1]
      BY <1>1, <1>10
    <2>2. /\ Len(p) = Len(q) /\ p[j].cnt = c /\ p \in Seq(RecordSet)
          /\ \A k \in 1..Len(q) : p[k].name = q[k].name /\ (k # j => p[k] = q[k])
          /\ CountOf(p, x) = CountOf(q, x) + (IF q[j].name = x THEN c - q[j].cnt ELSE 0)
      <3>1. c \in Int
        BY <1>6
      <3> HIDE DEF p, q, j, c
      <3>2. /\ q \in Seq(RecordSet) /\ j \in 1..Len(q) /\ c \in Int
        BY <1>4, <1>6, <3>1
      <3>3. p = Recount(q, j, c)
        BY <2>1 DEF Recount
      <3>4. Recounted(q, x, j, c, Recount(q, j, c))
        BY <3>2, CountExcept
      <3> QED
        BY <3>3, <3>4 DEF Recounted
    <2>3. hist'[i].done[x] = hist[i].done[x] + z /\ hist[i].done[x] \in Nat
      BY <1>1, <1>4, <2>1
    <2>4. Matches(i, x)' = Matches(i, x)
      <3>1. Matches(i, x)' = {k \in 1..Len(p) : p[k].name = x}
        BY <2>2 DEF Matches
      <3>2. Matches(i, x) = {k \in 1..Len(q) : q[k].name = x}
        BY <1>4 DEF Matches
      <3> HIDE DEF p, q
      <3> QED
        BY <2>2, <3>1, <3>2
    <2>5. (Cardinality(Matches(i, x)) + Cardinality(Creating(i, x)) <= Cardinality(Thread))'
      BY <1>c, <2>4
    <2>6. ASSUME y = x
          PROVE  CountOf(q, x) - q[j].cnt + loc[t].reg <= hist[i].done[x]
      <3>1. Adds(t, i, x, 6)
        BY <1>1, <1>10, <2>6 DEF Adds, Mid
      <3> QED
        BY <3>1 DEF Few
    <2> DEFINE A == CountOf(q, x)
               B == CountOf(p, x)
               D == hist[i].done[x]
               E == hist'[i].done[x]
               m == q[j].cnt
               g == loc[t].reg
    <2>a. /\ A \in Int /\ D \in Nat /\ m \in Int /\ g \in Int /\ c = g + 1 /\ E = D + z
          /\ A <= D /\ (y = x => A - m + g <= D)
          /\ B = A + (IF y = x THEN c - m ELSE 0)
      BY <1>4, <1>6, <1>7, <2>2, <2>3, <2>6
    <2>7. B <= E
      <3> HIDE DEF A, B, D, E, m, g, y, c
      <3> QED
        BY <2>a
    <2>8. ASSUME NEW u \in Thread, Adds(u, i, x, 6)'
          PROVE  CountOf(obj'[i].nodes, x) - obj'[i].nodes[loc'[u].node].cnt + loc'[u].reg
                   <= hist'[i].done[x]
      <3>1. u # t
        BY <2>1, <2>8 DEF Adds
      <3>2. Adds(u, i, x, 6) /\ loc'[u] = loc[u]
        BY <2>8, <3>1
      <3> DEFINE k == loc[u].node
                 h == loc[u].reg
                 v == q[k].cnt
      <3>3. A - v + h <= D
        BY <3>2 DEF Few
      <3>4. First(i, x, k) /\ k \in 1..Len(q) /\ q[k].name = x /\ v \in Int /\ h \in Int
        BY <3>2, FoundRecord
      <3>5. y = x => k = j
        <4>1. First(i, y, j) /\ j \in Nat /\ k \in Nat
          BY <1>6, <3>4
        <4> HIDE DEF y, j, k
        <4> QED
          BY <3>4, <4>1 DEF First
      <3>6. k # j => p[k].cnt = v
        BY <2>2, <3>4
      <3>7. y # x => k # j
        BY <1>6, <3>4
      <3>8. p[k].cnt \in Int /\ (y = x => p[k].cnt = c /\ v = m) /\ (y # x => p[k].cnt = v)
        <4>1. p[k] \in RecordSet
          BY <2>2, <3>4
        <4> QED
          BY <2>2, <3>5, <3>6, <3>7, <4>1 DEF RecordSet
      <3> DEFINE w == p[k].cnt
      <3>9. B - w + h <= E
        <4>1. /\ w \in Int /\ (y = x => w = c /\ v = m) /\ (y # x => w = v)
              /\ v \in Int /\ h \in Int /\ A - v + h <= D
          BY <3>3, <3>4, <3>8
        <4> HIDE DEF A, B, D, E, m, g, y, c, w, v, h
        <4> QED
          BY <2>a, <4>1
      <3> QED
        BY <3>2, <3>9
    <2> QED
      BY <1>8, <2>5, <2>7, <2>8 DEF Few, Thread
  <1> QED
    BY <1>1, <1>9, <1>10

\* No step makes more records of a name than there are threads, nor counts
\* more than was asked for.
LEMMA FewNext ==
    ASSUME BInv, BInv', NodeInv, AnyStep, metrics' = metrics, NEW i \in Index,
           metrics[i] \in Hashes, NEW x \in Names, Few(i, x)
    PROVE  Few(i, x)'
  <1>0. Index' = Index
    BY DEF Index
  <1>1. CASE Aside(i)
    <2>1. ASSUME NEW u \in Thread, NEW n
          PROVE  Adds(u, i, x, n)' <=> Adds(u, i, x, n)
      <3>1. /\ Mid(u, i)' <=> Mid(u, i)
            /\ Mid(u, i) => Call(u)' = Call(u) /\ pc'[u] = pc[u]
        BY <1>1 DEF Aside
      <3> QED
        BY <3>1, AddsOther
    <2>2. Creating(i, x)' \subseteq Creating(i, x)
      BY <2>1 DEF Creating, Thread
    <2>3. \A u \in Thread : Adds(u, i, x, 6)' => Adds(u, i, x, 6) /\ loc'[u] = loc[u]
      BY <1>1, <2>1 DEF Adds, Aside
    <2>4. obj'[i].nodes = obj[i].nodes /\ hist'[i].done = hist[i].done
      BY <1>1 DEF Aside
    <2> QED
      BY <1>0, <2>2, <2>3, <2>4, FewSame
  <1>2. ASSUME NEW t \in Thread, Acts(t, i) PROVE Few(i, x)'
    <2>0. metrics[i] \notin Avgs /\ metrics[i] \notin Maps
      <3>1. metrics[i] \in Class
        BY DEF BInv, Types, Index
      <3> QED
        BY <3>1, ClassEvents
    <2>1. \/ HashAt(t) /\ (TotalStep(t) \/ FindStep(t) \/ CreateStep(t) \/ CountStep(t))
          \/ HashEndAt(t) /\ (CflStep(t) \/ ReportStep(t) \/ EnterStep(t) \/ LeaveStep(t))
      <3>1. ~MapAt(t) /\ ~MapEndAt(t)
        BY <1>2, <2>0 DEF MapAt, MapEndAt, Acts
      <3> QED
        BY <1>2, <2>0, <3>1, ActCases
    <2>2. ASSUME NEW u \in Thread, u # t
          PROVE  /\ \A n \in {4, 6} : Adds(u, i, x, n)' <=> Adds(u, i, x, n)
                 /\ loc'[u] = loc[u]
      <3>1. /\ Mid(u, i)' <=> Mid(u, i)
            /\ Call(u)' = Call(u) /\ pc'[u] = pc[u] /\ loc'[u] = loc[u]
        BY <1>2, <2>2, MidOther DEF Acts
      <3> QED
        BY <3>1, AddsOther
    <2>3. CASE FindStep(t)
      BY <1>0, <1>2, <2>2, <2>3, FewFind
    <2>4. CASE CreateStep(t)
      BY <1>0, <1>2, <2>2, <2>4, FewCreate
    <2>5. CASE CountStep(t)
      BY <1>0, <1>2, <2>2, <2>5, FewCount
    <2>6. ASSUME obj'[i].nodes = obj[i].nodes, hist'[i].done = hist[i].done,
                 ~Adds(t, i, x, 4)', ~Adds(t, i, x, 6)'
          PROVE  Few(i, x)'
      <3>1. Creating(i, x)' \subseteq Creating(i, x)
        BY <2>2, <2>6 DEF Creating, Thread
      <3>2. \A u \in Thread : Adds(u, i, x, 6)' => Adds(u, i, x, 6) /\ loc'[u] = loc[u]
        BY <2>2, <2>6
      <3> QED
        BY <1>0, <2>6, <3>1, <3>2, FewSame
    <2>7. CASE TotalStep(t)
      <3>1. /\ obj'[i].nodes = obj[i].nodes /\ hist'[i].done = hist[i].done
            /\ pc'[t] \in {1, 2, 3}
        BY <1>2, <2>7 DEF TotalStep, TotalDone, Acts
      <3> QED
        BY <2>6, <3>1 DEF Adds
    <2>8. CASE HashEndAt(t) /\ (CflStep(t) \/ ReportStep(t) \/ EnterStep(t) \/ LeaveStep(t))
      <3>1. Call(t).ev = "interval" /\ At(t) = i
        BY <1>2, <2>8 DEF HashEndAt, Acts
      <3>2. work'[t] = work[t] \/ pc'[t] = 1
        BY <1>2 DEF Acts, ThreadStep
      <3>3. ASSUME NEW n PROVE ~Adds(t, i, x, n)'
        BY <3>1, <3>2 DEF Adds, Mid, Call
      <3>4. ~MapAt(t) /\ ~FailStep
        BY <1>2, <2>0 DEF MapAt, Acts
      <3>5. obj'[i].nodes = obj[i].nodes /\ hist'[i].done = hist[i].done
        BY <2>8, <3>1, <3>4
        DEF CflStep, CflDone, ReportStep, SameLists, EnterStep, EnterDone, LeaveStep, LeaveDone
      <3> QED
        BY <2>6, <3>3, <3>5
    <2> QED
      BY <2>1, <2>3, <2>4, <2>5, <2>7, <2>8
  <1> QED
    BY <1>1, <1>2, ListView

\* The invariant of Hash::add
FInv == /\ BInv /\ NodeInv
        /\ \A i \in Index : metrics[i] \in Hashes => \A x \in Names : Few(i, x)

\* It holds at first,
LEMMA FInvInit ==
    ASSUME Init
    PROVE  FInv
  <1>1. BInv /\ NodeInv
    BY InitBasic
  <1>2. ASSUME NEW i \in Index, metrics[i] \in Hashes, NEW x \in Names PROVE Few(i, x)
    <2>1. obj[i] = NewMetric /\ hist[i] = NewHistory
      BY <1>2 DEF Init, Index
    <2>2. obj[i].nodes = <<>> /\ hist[i].done[x] = 0
      BY <2>1 DEF NewMetric, NewHistory, Names
    <2>3. Matches(i, x) = {}
      BY <2>2 DEF Matches
    <2>4. CountOf(obj[i].nodes, x) = 0
      <3>1. <<>> \in Seq(RecordSet) /\ Len(<<>>) = 0
        OBVIOUS
      <3>2. /\ Counts(<<>>, x) \in Seq(Int) /\ Len(Counts(<<>>, x)) = 0
            /\ CountOf(<<>>, x) = SumOf(Counts(<<>>, x))
        BY <3>1, CountType
      <3>3. SumOf(Counts(<<>>, x)) = 0
        BY <3>2, SumRun DEF IsSum
      <3> QED
        BY <2>2, <3>2, <3>3
    <2>5. \A t \in Thread : ~Busy(t)
      BY DEF Init, Busy
    <2>6. Creating(i, x) = {} /\ \A t \in Thread : ~Adds(t, i, x, 6)
      BY <2>5 DEF Creating, Adds, Mid
    <2>7. Cardinality(Thread) \in Nat /\ Cardinality({}) = 0
      BY <1>1, Finiteness, FS_EmptySet
    <2> QED
      BY <2>2, <2>3, <2>4, <2>6, <2>7 DEF Few
  <1> QED
    BY <1>1, <1>2 DEF FInv

\* and every step keeps it.
LEMMA FInvNext ==
    ASSUME FInv, [Next]_vars
    PROVE  FInv'
  <1>1. BInv /\ NodeInv
    BY DEF FInv
  <1>2. BInv' /\ AnyStep /\ metrics' = metrics
    BY <1>1, NextCases
  <1>3. NodeInv'
    BY <1>1, <1>2, NodeInvNext
  <1>4. ASSUME NEW i \in Index, metrics[i] \in Hashes, NEW x \in Names PROVE Few(i, x)'
    BY <1>1, <1>2, <1>4, FewNext DEF FInv
  <1>5. Index' = Index /\ Names' = Names
    BY <1>2 DEF Index, Names
  <1> QED
    BY <1>2, <1>3, <1>4, <1>5 DEF FInv

\* However the threads race in Hash::add, a name has no more records than
\* there are threads, and no request is counted twice: for any number of
\* threads, names and requests.
THEOREM AtMostOneRecordPerThread == Spec => []FewDuplicates
  <1>1. FInv => FewDuplicates
    <2> SUFFICES ASSUME FInv, NEW i \in Index, metrics[i] \in Hashes, NEW x \in Names
                 PROVE  /\ Cardinality(Matches(i, x)) <= Cardinality(Thread)
                        /\ CountOf(obj[i].nodes, x) <= hist[i].done[x]
      BY DEF FewDuplicates, Names
    <2>1. BInv /\ Few(i, x)
      BY DEF FInv
    <2>2. /\ Cardinality(Matches(i, x)) \in Nat /\ Cardinality(Creating(i, x)) \in Nat
          /\ Cardinality(Thread) \in Nat
      BY <2>1, Finiteness
    <2>3. /\ Cardinality(Matches(i, x)) + Cardinality(Creating(i, x)) <= Cardinality(Thread)
          /\ CountOf(obj[i].nodes, x) <= hist[i].done[x]
      BY <2>1 DEF Few
    <2> QED
      BY <2>2, <2>3
  <1> QED
    BY <1>1, FInvInit, FInvNext, PTL DEF Spec

-----------------------------------------------------------------------------
(***************************************************************************)
(* One callback at a time, and what it has to do                           *)
(***************************************************************************)

\* As long as callbacks have not overlapped, at most one of them is at work.
Solo == ~overlapped => \A u, w \in Callback : Busy(u) /\ Busy(w) => u = w

\* Every step keeps it so.
LEMMA SoloNext ==
    ASSUME BInv, BInv', Solo, AnyStep
    PROVE  Solo' /\ (overlapped => overlapped')
  <1>0. overlapped \in BOOLEAN /\ Callback \subseteq Thread /\ "flow" \notin Callback
    BY MetricsAssumption DEF BInv, Types, Thread
  <1>1. ASSUME overlapped' = overlapped, \A u \in Callback : Busy(u)' => Busy(u)
        PROVE  Solo' /\ (overlapped => overlapped')
    BY <1>1 DEF Solo
  <1>2. ASSUME NEW t \in Thread, Operation(t), ListSteps(t)
        PROVE  Solo' /\ (overlapped => overlapped')
    <2>1. overlapped' = overlapped
      BY <1>2 DEF ListSteps, AvgStep, OwnStep, ReportStep, TotalStep, FindStep, CreateStep,
           CountStep, CflStep, EnterStep, LeaveStep, SkipStep, FailStep, SameEnv, env
    <2>2. Busy(t)
      BY <1>2, OperationBusy
    <2>3. \A u \in Thread : Busy(u)' => Busy(u)
      <3>1. CASE FailStep
        BY <3>1 DEF FailStep, Busy
      <3>2. CASE Others(t)
        BY <2>2, <3>2 DEF Others, Busy
      <3> QED
        BY <1>2, <3>1, <3>2, StepShape
    <2> QED
      BY <1>0, <1>1, <2>1, <2>3
  <1>3. CASE FlowStart("flow")
    <2>1. overlapped' = overlapped /\ Others("flow")
      BY <1>3 DEF FlowStart, StartStep
    <2>2. \A u \in Callback : Busy(u)' => Busy(u)
      BY <1>0, <2>1 DEF Others, Busy
    <2> QED
      BY <1>1, <2>1, <2>2
  <1>4. ASSUME NEW t \in Callback, TimerStart(t)
        PROVE  Solo' /\ (overlapped => overlapped')
    <2>1. Others(t) /\ overlapped' = (overlapped \/ \E u \in Callback : Busy(u))
      BY <1>4 DEF TimerStart, StartStep
    <2>2. \A u \in Callback : u # t => (Busy(u)' <=> Busy(u))
      BY <1>0, <2>1 DEF Others, Busy
    <2> QED
      BY <2>1, <2>2 DEF Solo
  <1>5. CASE NoStep
    BY <1>1, <1>5 DEF NoStep, Busy
  <1> QED
    BY <1>2, <1>3, <1>4, <1>5 DEF AnyStep

\* Thread t has still to tell metric i of the second that has passed.
ToTell(t, i) == \E k \in 1..Len(work[t]) : work[t][k].ev = "timer" /\ work[t][k].metric = i

\* A callback tells a metric of a second once, before it tells any of the end
\* of the interval.
TellsOnce(t) ==
    /\ ProcessFirst(t)
    /\ \A j, k \in 1..Len(work[t]) :
         /\ /\ work[t][j].ev = "timer" /\ work[t][k].ev = "timer"
            /\ work[t][j].metric = work[t][k].metric
            => j = k
         /\ work[t][j].ev = "interval" => work[t][k].ev # "timer"
         /\ work[t][j].ev = "branch" /\ work[t][k].ev = "timer" => k < j
    /\ Busy(t) /\ Call(t).ev = "process" =>
         \A i \in Index : "timer" \in Subscribed(metrics[i]) => ToTell(t, i)

\* When a callback leaves a handler
LEMMA TellsTail ==
    ASSUME BInv, NEW t \in Thread, Busy(t), TellsOnce(t), work'[t] = Tail(work[t])
    PROVE  TellsOnce(t)'
  <1> DEFINE w == work[t]
             v == Tail(work[t])
  <1>1. /\ Len(v) \in Nat
        /\ \A k \in 1..Len(v) : k + 1 \in 1..Len(w) /\ v[k] = w[k + 1]
    BY CallFacts
  <1> HIDE DEF w, v
  <1>2. \A k \in 1..Len(v) : v[k].ev # "process"
    <2> TAKE k \in 1..Len(v)
    <2>1. k + 1 \in 1..Len(w) /\ v[k] = w[k + 1] /\ k + 1 # 1
      BY <1>1
    <2> QED
      BY <2>1 DEF TellsOnce, ProcessFirst, w
  <1>3. ASSUME NEW j \in 1..Len(v), NEW k \in 1..Len(v)
        PROVE  /\ v[j].ev = "timer" /\ v[k].ev = "timer" /\ v[j].metric = v[k].metric => j = k
               /\ v[j].ev = "interval" => v[k].ev # "timer"
               /\ v[j].ev = "branch" /\ v[k].ev = "timer" => k < j
    <2>1. j + 1 \in 1..Len(w) /\ k + 1 \in 1..Len(w) /\ v[j] = w[j + 1] /\ v[k] = w[k + 1]
      BY <1>1
    <2>2. PICK a \in 1..Len(w), b \in 1..Len(w) : a = j + 1 /\ b = k + 1
      BY <2>1
    <2>3. /\ w[a].ev = "timer" /\ w[b].ev = "timer" /\ w[a].metric = w[b].metric => a = b
          /\ w[a].ev = "interval" => w[b].ev # "timer"
          /\ w[a].ev = "branch" /\ w[b].ev = "timer" => b < a
      BY DEF TellsOnce, w
    <2> QED
      BY <2>1, <2>2, <2>3
  <1>4. v # <<>> => 1 \in 1..Len(v) /\ Head(v) = v[1]
    BY CallFacts DEF v
  <1> QED
    BY <1>2, <1>3, <1>4 DEF TellsOnce, ProcessFirst, Busy, Call, v

\* ... nothing but data, when it comes to flowHashProcess
LEMMA TellsJoin ==
    ASSUME BInv, NEW t \in Thread, Busy(t), TellsOnce(t), NEW w, Calls(t, w),
           \A k \in 1..Len(w) : w[k].ev \in {"newFlow", "request", "response", "flowUpdate"},
           work'[t] = w \o Tail(work[t])
    PROVE  TellsOnce(t)'
  <1> DEFINE x == work[t]
             v == Tail(work[t])
             z == w \o v
             n == Len(w)
  <1>1. /\ Len(v) \in Nat
        /\ \A k \in 1..Len(v) : k + 1 \in 1..Len(x) /\ v[k] = x[k + 1]
    BY CallFacts
  <1>2. Calls(t, w) /\ Calls(t, v)
    BY RestCalls
  <1>3. /\ z \in Seq(CallSet) /\ n \in Nat
        /\ \A k \in 1..Len(z) : \/ k \in 1..n /\ z[k] = w[k]
                                \/ k - n \in 1..Len(v) /\ z[k] = v[k - n]
    BY <1>2, CallsJoined DEF Calls
  <1> HIDE DEF x, v, z, n
  <1>4. ASSUME NEW k \in 1..Len(z)
        PROVE  \/ z[k].ev \in {"newFlow", "request", "response", "flowUpdate"}
               \/ /\ k - n \in 1..Len(v) /\ k - n + 1 \in 1..Len(x) /\ z[k] = x[k - n + 1]
                  /\ k - n + 1 # 1
    <2>1. CASE k \in 1..n /\ z[k] = w[k]
      BY <2>1 DEF n
    <2>2. CASE k - n \in 1..Len(v) /\ z[k] = v[k - n]
      <3>1. PICK a \in 1..Len(v) : a = k - n
        BY <2>2
      <3>2. a + 1 \in 1..Len(x) /\ v[a] = x[a + 1] /\ a + 1 # 1
        BY <1>1
      <3> QED
        BY <2>2, <3>1, <3>2
    <2> QED
      BY <1>3, <2>1, <2>2
  <1>5. \A k \in 1..Len(z) : z[k].ev # "process"
    BY <1>4 DEF TellsOnce, ProcessFirst, x
  <1>6. ASSUME NEW j \in 1..Len(z), NEW k \in 1..Len(z)
        PROVE  /\ z[j].ev = "timer" /\ z[k].ev = "timer" /\ z[j].metric = z[k].metric => j = k
               /\ z[j].ev = "interval" => z[k].ev # "timer"
               /\ z[j].ev = "branch" /\ z[k].ev = "timer" => k < j
    <2>1. CASE \/ z[j].ev \in {"newFlow", "request", "response", "flowUpdate"}
               \/ z[k].ev \in {"newFlow", "request", "response", "flowUpdate"}
      BY <2>1
    <2>2. CASE /\ j - n + 1 \in 1..Len(x) /\ z[j] = x[j - n + 1]
               /\ k - n + 1 \in 1..Len(x) /\ z[k] = x[k - n + 1]
      <3>1. PICK a \in 1..Len(x), b \in 1..Len(x) : a = j - n + 1 /\ b = k - n + 1
        BY <2>2
      <3>2. /\ x[a].ev = "timer" /\ x[b].ev = "timer" /\ x[a].metric = x[b].metric => a = b
            /\ x[a].ev = "interval" => x[b].ev # "timer"
            /\ x[a].ev = "branch" /\ x[b].ev = "timer" => b < a
        BY DEF TellsOnce, x
      <3> QED
        BY <1>3, <2>2, <3>1, <3>2
    <2> QED
      BY <1>4, <2>1, <2>2
  <1>7. z # <<>> => 1 \in 1..Len(z) /\ Head(z) = z[1]
    BY <1>3
  <1> QED
    BY <1>5, <1>6, <1>7, SMTT(30) DEF TellsOnce, ProcessFirst, Busy, Call, z, v

\* A callback starts with a second to tell of.
LEMMA TellsStart ==
    ASSUME BInv, BInv', NEW t \in Callback, TimerStart(t), metrics' = metrics
    PROVE  TellsOnce(t)'
  <1> DEFINE a == Own("process")
             b == Own("branch")
  <1>1. PICK w : /\ Informs(t, "timer", None, w) /\ work'[t] = a \o (w \o b)
                 /\ Calls(t, w \o b)
    BY DEF TimerStart
  <1>2. /\ Calls(t, a) /\ Calls(t, b) /\ Len(a) = 1 /\ Len(b) = 1
        /\ a[1].ev = "process" /\ b[1].ev = "branch"
    BY OwnCalls DEF Parts, Own
  <1> HIDE DEF a, b
  <1> DEFINE c == w \o b
             z == a \o c
             n == Len(w)
  <1>3. /\ Calls(t, w) /\ n \in Nat
        /\ \A k \in 1..n : w[k].ev = "timer" /\ w[k].metric \in Index
        /\ \A j, k \in 1..n : j # k => w[j].metric # w[k].metric
        /\ \A i \in Index : "timer" \in Subscribed(metrics[i]) => \E k \in 1..n : w[k].metric = i
    BY <1>1 DEF Informs, Calls
  <1>4. Len(c) = n + 1 /\ (\A k \in 1..n : c[k] = w[k]) /\ c[n + 1] = b[1]
    <2>1. /\ Len(c) = n + Len(b) /\ \A k \in 1..n : c[k] = w[k]
          /\ \A k \in 1..Len(b) : c[n + k] = b[k]
      <3>1. Calls(t, w) /\ Calls(t, b)
        BY <1>2, <1>3
      <3> QED
        BY <3>1, CallsJoined DEF b
    <2> HIDE DEF c, n
    <2> QED
      BY <1>2, <2>1
  <1>5. Calls(t, a) /\ Calls(t, c)
    BY <1>1, <1>2
  <1> HIDE DEF c
  <1>6. Len(z) = n + 2 /\ z[1] = a[1] /\ \A k \in 1..(n + 1) : z[k + 1] = c[k]
    <2>1. /\ Len(z) = Len(a) + Len(c) /\ \A k \in 1..Len(a) : z[k] = a[k]
          /\ \A k \in 1..Len(c) : z[Len(a) + k] = c[k]
      BY <1>5, CallsJoined
    <2> HIDE DEF z, n
    <2>2. n \in Nat
      BY <1>3
    <2> QED
      BY <1>2, <1>4, <2>1, <2>2
  <1>7. z = work'[t]
    BY <1>1 DEF c
  <1> HIDE DEF z, n
  <1>8. /\ z[1].ev = "process" /\ z[n + 2].ev = "branch"
        /\ \A k \in 2..(n + 1) : k - 1 \in 1..n /\ z[k] = w[k - 1] /\ z[k].ev = "timer"
    <2>1. n \in Nat
      BY <1>3
    <2>2. z[n + 2] = c[n + 1]
      <3>1. n + 1 \in 1..(n + 1) /\ (n + 1) + 1 = n + 2
        BY <2>1
      <3> QED
        BY <1>6, <3>1
    <2>3. ASSUME NEW k \in 2..(n + 1)
          PROVE  k - 1 \in 1..n /\ z[k] = w[k - 1] /\ z[k].ev = "timer"
      <3>1. PICK m \in 1..n : m = k - 1
        BY <2>1
      <3>2. m \in 1..(n + 1) /\ m + 1 = k
        BY <2>1, <3>1
      <3>3. z[m + 1] = c[m] /\ c[m] = w[m] /\ w[m].ev = "timer"
        BY <1>3, <1>4, <1>6, <3>2
      <3> QED
        BY <3>1, <3>2, <3>3
    <2> QED
      BY <1>2, <1>4, <1>6, <2>2, <2>3
  <1>9. \A k \in 1..Len(z) : k = 1 \/ k \in 2..(n + 1) \/ k = n + 2
    BY <1>3, <1>6
  <1>10. \A k \in 1..Len(z) : z[k].ev = "process" => k = 1
    BY <1>8, <1>9
  <1>11. ASSUME NEW j \in 1..Len(z), NEW k \in 1..Len(z)
         PROVE  /\ z[j].ev = "timer" /\ z[k].ev = "timer" /\ z[j].metric = z[k].metric => j = k
                /\ z[j].ev = "interval" => z[k].ev # "timer"
                /\ z[j].ev = "branch" /\ z[k].ev = "timer" => k < j
    <2>0. z[j].ev = "branch" /\ z[k].ev = "timer" => k < j
      <3>1. ASSUME z[j].ev = "branch", z[k].ev = "timer" PROVE k < j
        <4>1. j = n + 2 /\ k \in 2..(n + 1)
          BY <1>8, <1>9, <3>1
        <4> QED
          BY <1>3, <4>1
      <3> QED
        BY <3>1
    <2>1. z[j].ev # "interval"
      BY <1>8, <1>9
    <2>2. ASSUME z[j].ev = "timer", z[k].ev = "timer", z[j].metric = z[k].metric PROVE j = k
      <3>1. j \in 2..(n + 1) /\ k \in 2..(n + 1)
        BY <1>8, <1>9, <2>2
      <3>2. j - 1 \in 1..n /\ k - 1 \in 1..n /\ w[j - 1].metric = w[k - 1].metric
        BY <1>8, <2>2, <3>1
      <3>3. PICK p \in 1..n, q \in 1..n : p = j - 1 /\ q = k - 1
        BY <3>2
      <3>4. p = q
        BY <1>3, <3>2, <3>3
      <3> QED
        BY <3>1, <3>3, <3>4
    <2> QED
      BY <2>0, <2>1, <2>2
  <1>12. ASSUME NEW i \in Index, "timer" \in Subscribed(metrics[i])
         PROVE  \E k \in 1..Len(z) : z[k].ev = "timer" /\ z[k].metric = i
    <2>1. PICK m \in 1..n : w[m].metric = i
      BY <1>3, <1>12
    <2>2. m + 1 \in 2..(n + 1) /\ (m + 1) - 1 = m /\ m + 1 \in 1..Len(z)
      BY <1>3, <1>6
    <2>3. PICK k \in 1..Len(z) : k = m + 1
      BY <2>2
    <2>4. z[k].ev = "timer" /\ z[k] = w[m]
      BY <1>8, <2>2, <2>3
    <2> QED
      BY <2>1, <2>4
  <1>13. Index' = Index
    BY DEF Index
  <1> QED
    BY <1>7, <1>10, <1>11, <1>12, <1>13 DEF TellsOnce, ProcessFirst, ToTell

\* A callback comes to the end of the interval.
LEMMA TellsBranch ==
    ASSUME BInv, NEW t \in Callback, NEW w, Informs(t, "interval", None, w),
           Calls(t, Own("reset")), work'[t] = w \o Own("reset")
    PROVE  TellsOnce(t)'
  <1> DEFINE r == Own("reset")
             z == w \o r
  <1>1. Calls(t, w) /\ \A k \in 1..Len(w) : w[k].ev = "interval"
    BY DEF Informs
  <1>2. Len(r) = 1 /\ r[1].ev = "reset" /\ Calls(t, r)
    BY DEF Own
  <1> HIDE DEF r
  <1>3. z \in Seq(CallSet) /\ \A k \in 1..Len(z) : z[k].ev \in {"interval", "reset"}
    <2>0. Calls(t, w) /\ Calls(t, r)
      BY <1>1, <1>2
    <2>1. /\ Calls(t, z)
          /\ \A k \in 1..Len(z) :
               \/ k \in 1..Len(w) /\ z[k] = w[k]
               \/ k - Len(w) \in 1..Len(r) /\ z[k] = r[k - Len(w)]
      BY <2>0, CallsJoined DEF r
    <2>2. z \in Seq(CallSet)
      BY <2>1 DEF Calls
    <2> HIDE DEF z
    <2> QED
      BY <1>1, <1>2, <2>1, <2>2
  <1>4. z = work'[t]
    BY DEF r
  <1> HIDE DEF z
  <1>5. z # <<>> => Head(z).ev # "process"
    BY <1>3
  <1> QED
    BY <1>3, <1>4, <1>5 DEF TellsOnce, ProcessFirst, Busy, Call

\* Every step keeps the order.
LEMMA TellsNext ==
    ASSUME BInv, BInv', AnyStep, metrics' = metrics, \A t \in Callback : TellsOnce(t)
    PROVE  \A t \in Callback : TellsOnce(t)'
  <1>0. Callback \subseteq Thread /\ "flow" \notin Callback /\ Index' = Index
    BY MetricsAssumption DEF Thread, Index
  <1>1. ASSUME NEW u \in Callback, work'[u] = work[u] PROVE TellsOnce(u)'
    BY <1>0, <1>1 DEF TellsOnce, ProcessFirst, ToTell, Busy, Call
  <1>2. ASSUME NEW t \in Thread, Others(t), t \in Callback => TellsOnce(t)'
        PROVE  \A u \in Callback : TellsOnce(u)'
    BY <1>0, <1>1, <1>2 DEF Others
  <1>3. ASSUME NEW t \in Thread, Operation(t), ListSteps(t), ~FailStep, t \in Callback
        PROVE  TellsOnce(t)'
    <2>1. Busy(t) /\ TellsOnce(t)
      BY <1>3, OperationBusy
    <2>2. CASE Stays(t)
      BY <1>1, <1>3, <2>2 DEF Stays
    <2>3. CASE work'[t] = Tail(work[t])
      BY <2>1, <2>3, TellsTail
    <2>4. CASE work'[t] = <<>>
      BY <2>4 DEF TellsOnce, ProcessFirst, Busy
    <2>5. CASE OwnStep(t)
      <3>1. OwnDone(t)
        BY <1>3, <2>5, OwnCases
      <3>2. ASSUME NEW w, Calls(t, w), work'[t] = w \o Tail(work[t]),
                   \A k \in 1..Len(w) :
                     w[k].ev \in {"newFlow", "request", "response", "flowUpdate"}
            PROVE  TellsOnce(t)'
        BY <2>1, <3>2, TellsJoin
      <3>3. ASSUME NEW w, Informs(t, "interval", None, w), Calls(t, Own("reset")),
                   work'[t] = w \o Own("reset")
            PROVE  TellsOnce(t)'
        BY <1>3, <3>3, TellsBranch
      <3>4. work'[t] = work[t] => TellsOnce(t)'
        BY <1>1, <1>3
      <3> QED
        BY <2>3, <2>4, <3>1, <3>2, <3>3, <3>4 DEF OwnDone
    <2> QED
      BY <1>3, <2>2, <2>3, <2>4, <2>5, WorkMoves DEF Leaves, Ends
  <1>4. ASSUME NEW t \in Thread, Operation(t), ListSteps(t)
        PROVE  \A u \in Callback : TellsOnce(u)'
    <2>1. CASE FailStep
      BY <1>1, <2>1 DEF FailStep
    <2> QED
      BY <1>2, <1>3, <1>4, <2>1, StepShape
  <1>5. ASSUME FlowStart("flow") PROVE \A u \in Callback : TellsOnce(u)'
    BY <1>0, <1>1, <1>5 DEF FlowStart, StartStep, Others
  <1>6. ASSUME NEW t \in Callback, TimerStart(t) PROVE \A u \in Callback : TellsOnce(u)'
    BY <1>0, <1>2, <1>6, TellsStart DEF TimerStart, StartStep
  <1>7. ASSUME NoStep PROVE \A u \in Callback : TellsOnce(u)'
    BY <1>1, <1>7 DEF NoStep
  <1> QED
    BY <1>4, <1>5, <1>6, <1>7 DEF AnyStep

-----------------------------------------------------------------------------
(***************************************************************************)
(* ReqRate and ConnRate                                                    *)
(***************************************************************************)

\* The position in the timer's handler at which sum is added to
AddAt(c) == IF c = "ReqRate" THEN 4 ELSE 2

\* Two sequences, one after the other
LEMMA Concat ==
    ASSUME NEW S, NEW a \in Seq(S), NEW b \in Seq(S), NEW r, r = a \o b
    PROVE  /\ r \in Seq(S) /\ Len(r) = Len(a) + Len(b)
           /\ \A k \in 1..Len(a) : r[k] = a[k]
           /\ \A k \in 1..Len(b) : r[Len(a) + k] = b[k]
  OBVIOUS

\* The parts of a handler, one after another
IsJoined(a, b, c, d, r) ==
    Len(a) = 1 /\ Len(b) = 1 /\ Len(c) = 5 /\ Len(d) = 7 =>
        /\ Len(r) = 14 /\ r[1] = a[1] /\ r[2] = b[1]
        /\ \A k \in 1..5 : r[k + 2] = c[k]
        /\ \A k \in 1..7 : r[k + 7] = d[k]

\* ... have their operations in the handler.
LEMMA Joined ==
    ASSUME NEW S, NEW a \in Seq(S), NEW b \in Seq(S), NEW c \in Seq(S), NEW d \in Seq(S),
           NEW r, r = a \o b \o c \o d
    PROVE  IsJoined(a, b, c, d, r)
  <1>1. PICK p : p = a \o b
    OBVIOUS
  <1>2. PICK q : q = p \o c
    OBVIOUS
  <1>3. r = q \o d
    BY <1>1, <1>2
  <1>4. /\ p \in Seq(S) /\ Len(p) = Len(a) + Len(b)
        /\ \A k \in 1..Len(a) : p[k] = a[k]
        /\ \A k \in 1..Len(b) : p[Len(a) + k] = b[k]
    BY <1>1, Concat
  <1>5. p \in Seq(S)
    BY <1>4
  <1>6. /\ q \in Seq(S) /\ Len(q) = Len(p) + Len(c)
        /\ \A k \in 1..Len(p) : q[k] = p[k]
        /\ \A k \in 1..Len(c) : q[Len(p) + k] = c[k]
    BY <1>2, <1>5, Concat
  <1>7. q \in Seq(S)
    BY <1>6
  <1>8. /\ Len(r) = Len(q) + Len(d)
        /\ \A k \in 1..Len(q) : r[k] = q[k]
        /\ \A k \in 1..Len(d) : r[Len(q) + k] = d[k]
    BY <1>3, <1>7, Concat
  <1> SUFFICES ASSUME Len(a) = 1, Len(b) = 1, Len(c) = 5, Len(d) = 7
               PROVE  /\ Len(r) = 14 /\ r[1] = a[1] /\ r[2] = b[1]
                      /\ \A k \in 1..5 : r[k + 2] = c[k]
                      /\ \A k \in 1..7 : r[k + 7] = d[k]
    BY DEF IsJoined
  <1>9. Len(p) = 2 /\ p[1] = a[1] /\ p[2] = b[1]
    <2>1. 1 \in 1..Len(a) /\ 1 \in 1..Len(b) /\ Len(a) + 1 = 2
      OBVIOUS
    <2> QED
      BY <1>4, <2>1
  <1>10. Len(q) = 7 /\ q[1] = p[1] /\ q[2] = p[2] /\ \A k \in 1..5 : q[k + 2] = c[k]
    <2>1. \A k \in 1..5 : Len(p) + k = k + 2
      BY <1>9
    <2> QED
      BY <1>6, <1>9, <2>1
  <1>11. Len(r) = 14 /\ (\A k \in 1..7 : r[k] = q[k]) /\ \A k \in 1..7 : r[k + 7] = d[k]
    <2>1. \A k \in 1..7 : Len(q) + k = k + 7
      BY <1>10
    <2>2. Len(q) = 7
      BY <1>10
    <2>a. Len(r) = Len(q) + Len(d)
      BY <1>8
    <2>b. Len(r) = 14
      BY <2>2, <2>a
    <2>c. \A k \in 1..Len(q) : r[k] = q[k]
      BY <1>8
    <2>3. Len(r) = 14 /\ \A k \in 1..7 : r[k] = q[k]
      BY <2>2, <2>b, <2>c
    <2>4. \A k \in 1..7 : r[k + 7] = d[k]
      BY <1>8, <2>1
    <2> QED
      BY <2>3, <2>4
  <1>12. 1 \in 1..7 /\ 2 \in 1..7 /\ \A k \in 1..5 : k + 2 \in 1..7
    OBVIOUS
  <1> QED
    BY <1>9, <1>10, <1>11, <1>12

\* What a rate does at the end of an interval
RateIntervalOps(o) ==
    /\ o[1] = Op("perSecond", "sum") /\ o[2] = Op("set", "avg") /\ o[3] = Op("msg", "avg")
    /\ o[4] = Op("msgTest", "min") /\ o[5] = Op("msg", "min") /\ o[6] = Op("msg", "max")
    /\ o[7] = Op("send", "") /\ o[8] = Zero("total") /\ o[9] = Zero("subtotal")
    /\ o[10] = Zero("sum") /\ o[11] = Zero("subsum") /\ o[12] = Zero("avg")
    /\ o[13] = OpOf("set", "min", Huge) /\ o[14] = Zero("max")

\* ... one operation after the other
LEMMA RateInterval ==
    LET g == <<Op("perSecond", "sum")>>
        b == <<Op("set", "avg")>>
        s == <<Op("msg", "avg"), Op("msgTest", "min"), Op("msg", "min"), Op("msg", "max"),
               Op("send", "")>>
        z == <<Zero("total"), Zero("subtotal"), Zero("sum"), Zero("subsum"), Zero("avg"),
               OpOf("set", "min", Huge), Zero("max")>>
        o == g \o b \o s \o (<<>> \o z)
    IN  Len(o) = 14 /\ RateIntervalOps(o)
  <1>1. PICK a1, a2, a3, a4, a5, a6, a7 :
          /\ a1 = Op("perSecond", "sum") /\ a2 = Op("set", "avg") /\ a3 = Op("msg", "avg")
          /\ a4 = Op("msgTest", "min") /\ a5 = Op("msg", "min") /\ a6 = Op("msg", "max")
          /\ a7 = Op("send", "")
    OBVIOUS
  <1>2. PICK b1, b2, b3, b4, b5, b6, b7 :
          /\ b1 = Zero("total") /\ b2 = Zero("subtotal") /\ b3 = Zero("sum")
          /\ b4 = Zero("subsum") /\ b5 = Zero("avg") /\ b6 = OpOf("set", "min", Huge)
          /\ b7 = Zero("max")
    OBVIOUS
  <1>3. PICK S : S = {a1, a2, a3, a4, a5, a6, a7, b1, b2, b3, b4, b5, b6, b7}
    OBVIOUS
  <1>4. /\ a1 \in S /\ a2 \in S /\ a3 \in S /\ a4 \in S /\ a5 \in S /\ a6 \in S /\ a7 \in S
        /\ b1 \in S /\ b2 \in S /\ b3 \in S /\ b4 \in S /\ b5 \in S /\ b6 \in S /\ b7 \in S
    BY <1>3
  <1>5. PICK g, b, s, z : /\ g = <<a1>> /\ b = <<a2>> /\ s = <<a3, a4, a5, a6, a7>>
                          /\ z = <<b1, b2, b3, b4, b5, b6, b7>>
    OBVIOUS
  <1>6. g \in Seq(S) /\ b \in Seq(S) /\ s \in Seq(S) /\ z \in Seq(S)
    BY <1>4, <1>5
  <1>7. /\ Len(g) = 1 /\ Len(b) = 1 /\ Len(s) = 5 /\ Len(z) = 7
    BY <1>5
  <1>8. /\ g[1] = a1 /\ b[1] = a2 /\ s[1] = a3 /\ s[2] = a4 /\ s[3] = a5 /\ s[4] = a6
        /\ s[5] = a7 /\ z[1] = b1 /\ z[2] = b2 /\ z[3] = b3 /\ z[4] = b4 /\ z[5] = b5
        /\ z[6] = b6 /\ z[7] = b7
    BY <1>5
  <1>9. <<>> \o z = z
    BY <1>6
  <1>10. PICK o : o = g \o b \o s \o z
    OBVIOUS
  <1>a. IsJoined(g, b, s, z, o)
    BY <1>6, <1>10, Joined
  <1>11. /\ Len(o) = 14 /\ o[1] = g[1] /\ o[2] = b[1]
         /\ \A k \in 1..5 : o[k + 2] = s[k]
         /\ \A k \in 1..7 : o[k + 7] = z[k]
    BY <1>a, <1>7 DEF IsJoined
  <1>12. /\ Len(o) = 14 /\ o[1] = g[1] /\ o[2] = b[1]
         /\ o[3] = s[1] /\ o[4] = s[2] /\ o[5] = s[3] /\ o[6] = s[4] /\ o[7] = s[5]
         /\ o[8] = z[1] /\ o[9] = z[2] /\ o[10] = z[3] /\ o[11] = z[4] /\ o[12] = z[5]
         /\ o[13] = z[6] /\ o[14] = z[7]
    <2>1. /\ o[1 + 2] = s[1] /\ o[2 + 2] = s[2] /\ o[3 + 2] = s[3] /\ o[4 + 2] = s[4]
          /\ o[5 + 2] = s[5] /\ o[1 + 7] = z[1] /\ o[2 + 7] = z[2] /\ o[3 + 7] = z[3]
          /\ o[4 + 7] = z[4] /\ o[5 + 7] = z[5] /\ o[6 + 7] = z[6] /\ o[7 + 7] = z[7]
      BY <1>7, <1>11
    <2> QED
      BY <1>7, <1>11, <2>1
  <1>13. Len(o) = 14 /\ RateIntervalOps(o)
    BY <1>1, <1>2, <1>8, <1>12, Zenon DEF RateIntervalOps
  <1> QED
    BY <1>1, <1>2, <1>5, <1>9, <1>10, <1>13, Zenon

\* Where a thread is in a handler of a rate
RateAt(t) ==
    LET n == Len(Ops(Call(t))) IN
    /\ At(t) \in Index /\ metrics[At(t)] \in Rates
    /\ \/ /\ Call(t).ev \in {"newFlow", "request"} /\ n = 1 /\ pc[t] = 1
          /\ Now(t) = OpOf("add", "subtotal", Scale)
       \/ /\ Call(t).ev = "timer" /\ n = 5 /\ t \in Callback
          /\ \/ pc[t] = 1 /\ Now(t) = Op("get", "subtotal")
             \/ /\ pc[t] \in {2, 3, 4} /\ pc[t] # AddAt(metrics[At(t)])
                /\ Now(t) = Op("minimize", "min") \/ Now(t) = Op("maximize", "max")
             \/ pc[t] = AddAt(metrics[At(t)]) /\ Now(t) = Op("add", "sum")
             \/ pc[t] = 5 /\ Now(t) = Zero("subtotal")
       \/ /\ Call(t).ev = "interval" /\ n = 14 /\ t \in Callback
          /\ \/ pc[t] = 1 /\ Now(t) = Op("perSecond", "sum")
             \/ pc[t] = 2 /\ Now(t) = Op("set", "avg")
             \/ pc[t] = 3 /\ Now(t) = Op("msg", "avg")
             \/ pc[t] = 4 /\ Now(t) = Op("msgTest", "min")
             \/ pc[t] = 5 /\ Now(t) = Op("msg", "min")
             \/ pc[t] = 6 /\ Now(t) = Op("msg", "max")
             \/ pc[t] = 7 /\ Now(t) = Op("send", "")
             \/ pc[t] = 8 /\ Now(t) = Zero("total")
             \/ pc[t] = 9 /\ Now(t) = Zero("subtotal")
             \/ pc[t] = 10 /\ Now(t) = Zero("sum")
             \/ pc[t] = 11 /\ Now(t) = Zero("subsum")
             \/ pc[t] = 12 /\ Now(t) = Zero("avg")
             \/ pc[t] = 13 /\ Now(t) = OpOf("set", "min", Huge)
             \/ pc[t] = 14 /\ Now(t) = Zero("max")

\* What a thread does for a rate, it does at one of these places.
LEMMA RatePlaces ==
    ASSUME BInv, NEW t \in Thread, Busy(t), At(t) \in Index, metrics[At(t)] \in Rates
    PROVE  RateAt(t)
  <1> DEFINE e == Call(t)
             o == Ops(e)
             p == pc[t]
             c == metrics[At(t)]
  <1>1. /\ GoodCall(t, e) /\ p \in 1..Len(o) /\ metrics \in Seq(Class)
        /\ Now(t) = o[p] /\ At(t) = e.metric
    BY CallFacts DEF Now, At, BInv, Types
  <1>2. c \in Class /\ At(t) # 0
    BY <1>1 DEF Index
  <1>3. /\ e.ev \in Subscribed(c) /\ (e.ev \in {"timer", "interval"} => t \in Callback)
        /\ o = Handler(c, e.ev, e.arg)
    BY <1>1, <1>2 DEF GoodCall, Ops
  <1>4. e.ev = "interval" \/ e.ev = "timer" \/ e.ev = "newFlow" \/ e.ev = "request"
    BY <1>2, <1>3, ClassEvents
  <1>5. c = "ReqRate" \/ c = "ConnRate"
    BY DEF Rates
  <1> HIDE DEF c, e, o, p
  <1>6. CASE e.ev = "newFlow" \/ e.ev = "request"
    <2>1. o = OnEvent(c, e.arg)
      BY <1>3, <1>6 DEF Handler
    <2>2. o = <<OpOf("add", "subtotal", Scale)>>
      BY <1>5, <2>1 DEF OnEvent, ConnRateOnNewFlow, ReqRateOnRequest
    <2>3. Len(o) = 1 /\ p = 1 /\ Now(t) = OpOf("add", "subtotal", Scale)
      BY <1>1, <2>2
    <2> QED
      BY <1>6, <2>3 DEF RateAt, c, e, o, p
  <1>7. CASE e.ev = "timer"
    <2>1. o = OnTimerExpired(c) /\ t \in Callback
      BY <1>3, <1>7 DEF Handler
    <2>2. CASE c = "ReqRate"
      <3>1. o = <<Op("get", "subtotal"), Op("minimize", "min"), Op("maximize", "max"),
                  Op("add", "sum"), Zero("subtotal")>>
        BY <2>1, <2>2 DEF OnTimerExpired, ReqRateOnTimer, Tps
      <3>2. Len(o) = 5 /\ AddAt(c) = 4
        BY <2>2, <3>1 DEF AddAt
      <3>3. /\ o[1] = Op("get", "subtotal") /\ o[2] = Op("minimize", "min")
            /\ o[3] = Op("maximize", "max") /\ o[4] = Op("add", "sum") /\ o[5] = Zero("subtotal")
        BY <3>1
      <3>4. p = 1 \/ p = 2 \/ p = 3 \/ p = 4 \/ p = 5
        BY <1>1, <3>2
      <3> QED
        BY <1>1, <1>7, <2>1, <3>2, <3>3, <3>4 DEF RateAt, c, e, o, p
    <2>3. CASE c = "ConnRate"
      <3>1. o = <<Op("get", "subtotal"), Op("add", "sum"), Op("minimize", "min"),
                  Op("maximize", "max"), Zero("subtotal")>>
        BY <2>1, <2>3 DEF OnTimerExpired, ConnRateOnTimer, Tps
      <3>2. Len(o) = 5 /\ AddAt(c) = 2
        BY <2>3, <3>1 DEF AddAt
      <3>3. /\ o[1] = Op("get", "subtotal") /\ o[2] = Op("add", "sum")
            /\ o[3] = Op("minimize", "min") /\ o[4] = Op("maximize", "max")
            /\ o[5] = Zero("subtotal")
        BY <3>1
      <3>4. p = 1 \/ p = 2 \/ p = 3 \/ p = 4 \/ p = 5
        BY <1>1, <3>2
      <3> QED
        BY <1>1, <1>7, <2>1, <3>2, <3>3, <3>4 DEF RateAt, c, e, o, p
    <2> QED
      BY <1>5, <2>2, <2>3
  <1>8. CASE e.ev = "interval"
    <2>1. c \in Avgs /\ c \notin Tps
      BY <1>5 DEF Avgs, Rates, Tps
    <2>2. o = AvgOnInterval[c] /\ t \in Callback
      <3>1. Handler(c, "interval", e.arg) = OnIntervalExpired(c)
        BY DEF Handler
      <3>2. OnIntervalExpired(c) = AvgOnInterval[c]
        BY <1>5 DEF OnIntervalExpired, Avgs, Rates, Hashes, Maps
      <3> QED
        BY <1>3, <1>8, <3>1, <3>2
    <2> DEFINE g == GetAvg(c)
               b == <<Op("set", "avg")>>
               s == SendMsg
               d == ResetMetric(c)
    <2>3. o = g \o b \o s \o d
      BY <2>1, <2>2 DEF AvgOnInterval
    <2>4. /\ g = <<Op("perSecond", "sum")>>
          /\ d = <<>> \o <<Zero("total"), Zero("subtotal"), Zero("sum"),
                Zero("subsum"), Zero("avg"), OpOf("set", "min", Huge), Zero("max")>>
      <3>1. g = <<Op("perSecond", "sum")>>
        BY <1>5 DEF GetAvg, Rates, Tps
      <3> QED
        BY <2>1, <3>1 DEF ResetMetric
    <2>5. Len(o) = 14 /\ RateIntervalOps(o)
      BY <2>3, <2>4, RateInterval DEF SendMsg
    <2>8. p \in 1..14
      BY <1>1, <2>5
    <2>9. \/ p = 1 \/ p = 2 \/ p = 3 \/ p = 4 \/ p = 5 \/ p = 6 \/ p = 7 \/ p = 8
          \/ p = 9 \/ p = 10 \/ p = 11 \/ p = 12 \/ p = 13 \/ p = 14
      BY <2>8
    <2>10. RateAt(t)
      BY <1>1, <1>8, <2>2, <2>5, <2>9, Zenon DEF RateAt, RateIntervalOps, c, e, o, p
    <2> QED
      BY <2>10
  <1> QED
    BY <1>4, <1>6, <1>7, <1>8

\* What a rate counts
Sum(i) == obj[i].val["sum"]
Sub(i) == obj[i].val["subtotal"]
Avg(i) == obj[i].val["avg"]
SameSums(i) == Sum(i)' = Sum(i) /\ Sub(i)' = Sub(i)
SameHist(i) == /\ hist'[i].received = hist[i].received /\ hist'[i].exposed = hist[i].exposed
               /\ hist'[i].told = hist[i].told
Exposing(i) == IF \E u \in Callback : PastRead(u, i) THEN 1 ELSE 0

\* The thread goes on to the next operation.
OnTo(t) == work'[t] = work[t] /\ pc'[t] = pc[t] + 1

\* What a thread does in a handler of a rate
RateData(t, i) ==
    /\ Call(t).ev \in {"newFlow", "request"} /\ Leaves(t)
    /\ Sum(i)' = Sum(i) /\ Sub(i)' = Sub(i) + Scale /\ Avg(i)' = Avg(i)
    /\ hist'[i].received = hist[i].received + 1 /\ hist'[i].told = hist[i].told
    /\ hist'[i].exposed = hist[i].exposed + Exposing(i)
RateTimer(t, i) ==
    /\ Call(t).ev = "timer" /\ t \in Callback /\ SameHist(i)
    /\ \/ pc[t] = 1 /\ OnTo(t) /\ SameSums(i) /\ loc'[t].reg = Got(Sub(i))
       \/ /\ pc[t] \in {2, 3, 4} /\ pc[t] # AddAt(metrics[i]) /\ OnTo(t) /\ SameSums(i)
          /\ loc'[t].reg = loc[t].reg
       \/ /\ pc[t] = AddAt(metrics[i]) /\ OnTo(t) /\ Sum(i)' = Sum(i) + loc[t].reg
          /\ Sub(i)' = Sub(i)
       \/ pc[t] = 5 /\ Leaves(t) /\ Sum(i)' = Sum(i) /\ Sub(i)' = 0
RateEnd(t, i) ==
    /\ Call(t).ev = "interval" /\ t \in Callback
    /\ \/ /\ pc[t] = 1 /\ OnTo(t) /\ SameSums(i) /\ SameHist(i)
          /\ loc'[t].reg = Sum(i) \div Interval
       \/ /\ pc[t] = 2 /\ OnTo(t) /\ SameSums(i) /\ SameHist(i) /\ Avg(i)' = loc[t].reg
       \/ /\ pc[t] = 3 /\ OnTo(t) /\ SameSums(i) /\ SameHist(i)
          /\ loc'[t].msg.avg = Avg(i)
       \/ /\ pc[t] \in {4, 5, 6} /\ work'[t] = work[t] /\ pc'[t] \in {5, 6, 7}
          /\ SameSums(i) /\ SameHist(i) /\ loc'[t].msg.avg = loc[t].msg.avg
       \/ pc[t] = 7 /\ Ends(t) /\ SameSums(i) /\ SameHist(i)
       \/ /\ pc[t] = 7 /\ OnTo(t) /\ SameSums(i)
          /\ hist'[i].received = hist[i].received /\ hist'[i].exposed = hist[i].exposed
          /\ hist'[i].told = hist[i].told + (loc[t].msg.avg * Interval) \div Scale
       \/ pc[t] = 8 /\ OnTo(t) /\ SameSums(i) /\ SameHist(i)
       \/ pc[t] = 9 /\ OnTo(t) /\ Sum(i)' = Sum(i) /\ Sub(i)' = 0 /\ SameHist(i)
       \/ pc[t] = 10 /\ OnTo(t) /\ Sum(i)' = 0 /\ Sub(i)' = Sub(i) /\ SameHist(i)
       \/ pc[t] \in {11, 12, 13} /\ OnTo(t) /\ SameSums(i) /\ SameHist(i)
       \/ pc[t] = 14 /\ Leaves(t) /\ SameSums(i) /\ SameHist(i)

\* Value::set, add, minimize and maximize
LEMMA RateModify ==
    ASSUME BInv, NEW t \in Thread, Modify(t), NEW i \in Index, i = At(t), metrics[i] \in Rates
    PROVE  LET k == Now(t).kind
               v == Now(t).var
               z == IF v = "subtotal" /\ k = "add" THEN 1 ELSE 0 IN
           /\ obj[i].val \in [ValueName -> Int]
           /\ obj'[i].val = [obj[i].val EXCEPT ![v] = Modified(k, obj[i].val[v], Arg(t))]
           /\ hist'[i].received = hist[i].received + z /\ hist'[i].told = hist[i].told
           /\ hist'[i].exposed = hist[i].exposed + (IF z = 1 THEN Exposing(i) ELSE 0)
           /\ hist[i].received \in Nat /\ hist[i].exposed \in Nat
           /\ \/ /\ pc[t] + 1 <= Len(Ops(Call(t))) /\ OnTo(t) /\ loc'[t] = loc[t]
              \/ pc[t] + 1 > Len(Ops(Call(t))) /\ Leaves(t)
  <1> DEFINE k == Now(t).kind
             v == Now(t).var
             y == \E u \in Callback : PastRead(u, i)
             a == IF metrics[i] \in Rates /\ v = "subtotal" /\ k = "add" THEN 1 ELSE 0
             b == IF metrics[i] \in Rates /\ v = "subtotal" /\ k = "add" /\ y THEN 1 ELSE 0
             d == metrics[i] \in {"ErrRate", "Rst"} /\ Disturbed(t, i)
  <1>1. /\ obj'[i].val = [obj[i].val EXCEPT ![v] = Modified(k, obj[i].val[v], Arg(t))]
    BY ModifyBasic
  <1>2. obj[i] \in MetricSet /\ hist \in [Index -> HistSet] /\ hist[i] \in HistSet
        /\ loc[t] \in Locals
    BY DEF BInv, Types
  <1>3. obj[i].val \in [ValueName -> Int]
    BY <1>2, MetricFields DEF MetricSet
  <1>4. /\ hist[i].received \in Nat /\ hist[i].exposed \in Nat
    BY <1>2 DEF HistSet
  <1>5. /\ hist' = [hist EXCEPT ![i].received = @ + a, ![i].exposed = @ + b, ![i].met = @ \/ d]
        /\ Busy(t) /\ Continue(t, loc[t])
    BY DEF Modify
  <1> HIDE DEF a, b, d
  <1>6. /\ hist'[i].received = hist[i].received + a /\ hist'[i].told = hist[i].told
        /\ hist'[i].exposed = hist[i].exposed + b
    BY <1>2, <1>5 DEF HistSet
  <1>7. /\ a = IF v = "subtotal" /\ k = "add" THEN 1 ELSE 0
        /\ b = IF a = 1 THEN Exposing(i) ELSE 0
    BY DEF a, b, Exposing
  <1>8. \/ pc[t] + 1 <= Len(Ops(Call(t))) /\ OnTo(t) /\ loc'[t] = loc[t]
        \/ pc[t] + 1 > Len(Ops(Call(t))) /\ Leaves(t)
    BY <1>2, <1>5, ContinueFacts DEF OnTo, Leaves
  <1> QED
    BY <1>1, <1>3, <1>4, <1>6, <1>7, <1>8

\* What operations are made of
LEMMA OpFields ==
    /\ \A k, v : Op(k, v).kind = k /\ Op(k, v).var = v /\ Op(k, v).arg = None
    /\ \A k, v, x : OpOf(k, v, x).kind = k /\ OpOf(k, v, x).var = v /\ OpOf(k, v, x).arg = x
    /\ \A v : Zero(v).kind = "set" /\ Zero(v).var = v /\ Zero(v).arg = 0
  BY DEF Op, OpOf, Zero

\* The operation that t is at
Does(t, k, v, x) == Now(t).kind = k /\ Now(t).var = v /\ Now(t).arg = x

\* The operations of a rate, and where they are
RateOp(t) ==
    LET n == Len(Ops(Call(t))) IN
    /\ At(t) \in Index /\ metrics[At(t)] \in Rates
    /\ \/ /\ Call(t).ev \in {"newFlow", "request"} /\ n = 1 /\ pc[t] = 1
          /\ Does(t, "add", "subtotal", Scale)
       \/ /\ Call(t).ev = "timer" /\ n = 5 /\ t \in Callback
          /\ \/ pc[t] = 1 /\ Does(t, "get", "subtotal", None)
             \/ /\ pc[t] \in {2, 3, 4} /\ pc[t] # AddAt(metrics[At(t)])
                /\ Does(t, "minimize", "min", None) \/ Does(t, "maximize", "max", None)
             \/ pc[t] = AddAt(metrics[At(t)]) /\ Does(t, "add", "sum", None)
             \/ pc[t] = 5 /\ Does(t, "set", "subtotal", 0)
       \/ /\ Call(t).ev = "interval" /\ n = 14 /\ t \in Callback
          /\ \/ pc[t] = 1 /\ Does(t, "perSecond", "sum", None)
             \/ pc[t] = 2 /\ Does(t, "set", "avg", None)
             \/ pc[t] = 3 /\ Does(t, "msg", "avg", None)
             \/ pc[t] = 4 /\ Does(t, "msgTest", "min", None)
             \/ pc[t] = 5 /\ Does(t, "msg", "min", None)
             \/ pc[t] = 6 /\ Does(t, "msg", "max", None)
             \/ pc[t] = 7 /\ Does(t, "send", "", None)
             \/ pc[t] = 8 /\ Does(t, "set", "total", 0)
             \/ pc[t] = 9 /\ Does(t, "set", "subtotal", 0)
             \/ pc[t] = 10 /\ Does(t, "set", "sum", 0)
             \/ pc[t] = 11 /\ Does(t, "set", "subsum", 0)
             \/ pc[t] = 12 /\ Does(t, "set", "avg", 0)
             \/ pc[t] = 13 /\ Does(t, "set", "min", Huge)
             \/ pc[t] = 14 /\ Does(t, "set", "max", 0)

\* ... are those of its handlers.
LEMMA RateOps ==
    ASSUME NEW t, RateAt(t)
    PROVE  RateOp(t)
  <1>0. PICK o : o = Now(t)
    OBVIOUS
  <1>1. /\ \A k, v : o = Op(k, v) => Does(t, k, v, None)
        /\ \A k, v, x : o = OpOf(k, v, x) => Does(t, k, v, x)
        /\ \A v : o = Zero(v) => Does(t, "set", v, 0)
    <2>1. \A k, v : o = Op(k, v) => Does(t, k, v, None)
      BY <1>0, OpFields DEF Does
    <2>2. \A k, v, x : o = OpOf(k, v, x) => Does(t, k, v, x)
      BY <1>0, OpFields DEF Does
    <2>3. \A v : o = Zero(v) => Does(t, "set", v, 0)
      BY <1>0, OpFields DEF Does
    <2> QED
      BY <2>1, <2>2, <2>3
  <1> QED
    BY <1>0, <1>1, Zenon DEF RateAt, RateOp

\* A handler of a rate reads a Value.
LEMMA RateRead ==
    ASSUME BInv, NEW t \in Thread, Read(t), NEW i \in Index, i = At(t), RateOp(t),
           Now(t).kind \in {"get", "perSecond", "msg", "msgTest"}
    PROVE  RateTimer(t, i) \/ RateEnd(t, i)
  <1> DEFINE n == Len(Ops(Call(t)))
             vn == Now(t).var
             v == obj[i].val[vn]
             m == loc[t].msg
  <1>1. /\ obj[i].val \in [ValueName -> Int] /\ loc[t] \in Locals /\ Busy(t) /\ pc[t] \in Nat
    <2>1. obj[i] \in MetricSet /\ loc[t] \in Locals /\ pc[t] \in Nat
      BY DEF BInv, Types
    <2> QED
      BY <2>1, MetricFields DEF MetricSet, Read
  <1>2. SameSums(i) /\ SameHist(i)
    BY DEF Read, SameSums, SameHist, Sum, Sub
  <1>3. Cur(t) = v
    BY DEF Cur
  <1>a. {"get", "perSecond", "msg", "msgTest"} \cap {"sinceMark", "num", "den", "ifZero", "ifNone"} = {}
    OBVIOUS
  <1>4. \/ Now(t).kind = "get" /\ Continue(t, Local(t, Got(v)))
        \/ Now(t).kind = "perSecond" /\ Continue(t, Local(t, v \div Interval))
        \/ Now(t).kind = "msg" /\ Continue(t, [loc[t] EXCEPT !.msg[vn] = v])
        \/ Now(t).kind = "msgTest" /\ (Advance(t, 2, loc[t]) \/ Continue(t, loc[t]))
    BY <1>3, <1>a DEF Read
  <1>5. ASSUME NEW l \in Locals, Continue(t, l), pc[t] + 1 <= n PROVE OnTo(t) /\ loc'[t] = l
    BY <1>1, <1>5, ContinueFacts DEF OnTo
  <1>6. \A x \in Int : Local(t, x) \in Locals /\ Local(t, x).reg = x
    BY <1>1 DEF Local, Locals
  <1>7. m \in MsgSet /\ loc[t] \in [reg : Int, num : Int, node : Nat, msg : MsgSet]
    BY <1>1 DEF Locals
  <1>8. ASSUME NEW a \in {"avg", "min", "max"}, NEW x \in Int
        PROVE  /\ [loc[t] EXCEPT !.msg[a] = x] \in Locals
               /\ [loc[t] EXCEPT !.msg[a] = x].msg.avg = IF a = "avg" THEN x ELSE loc[t].msg.avg
    <2>1. [m EXCEPT ![a] = x] \in MsgSet
          /\ [m EXCEPT ![a] = x].avg = IF a = "avg" THEN x ELSE m.avg
      BY <1>7 DEF MsgSet
    <2>2. [loc[t] EXCEPT !.msg[a] = x] = [loc[t] EXCEPT !.msg = [m EXCEPT ![a] = x]]
      BY <1>7
    <2>3. PICK mm \in MsgSet : mm = [m EXCEPT ![a] = x]
      BY <2>1
    <2>4. [loc[t] EXCEPT !.msg = mm] \in Locals /\ [loc[t] EXCEPT !.msg = mm].msg = mm
      BY <1>7 DEF Locals
    <2> QED
      BY <2>1, <2>2, <2>3, <2>4
  <1> HIDE DEF n, vn, v, m
  <1>9. CASE Now(t).kind = "get"
    <2>1. pc[t] = 1 /\ Call(t).ev = "timer" /\ n = 5 /\ t \in Callback
      BY <1>9 DEF RateOp, Does, n
    <2>2. Now(t).kind = "get" /\ vn = "subtotal"
      BY <1>9, <2>1 DEF RateOp, Does, vn, n
    <2>3. v \in Int /\ Got(v) \in Int /\ v = Sub(i)
      BY <1>1, <2>2 DEF v, Got, Sub, ValueName
    <2>4. Continue(t, Local(t, Got(v)))
      BY <1>4, <2>2
    <2>5. OnTo(t) /\ loc'[t].reg = Got(v)
      BY <1>5, <1>6, <2>1, <2>3, <2>4
    <2> QED
      BY <1>2, <2>1, <2>3, <2>5 DEF RateTimer
  <1>10. CASE Now(t).kind = "perSecond"
    <2>1. pc[t] = 1 /\ Call(t).ev = "interval" /\ n = 14 /\ t \in Callback
      BY <1>10 DEF RateOp, Does, n
    <2>2. Now(t).kind = "perSecond" /\ vn = "sum"
      BY <1>10, <2>1 DEF RateOp, Does, vn, n
    <2>3. v \in Int /\ v \div Interval \in Int /\ v = Sum(i)
      BY <1>1, <2>2, MetricsAssumption DEF v, Sum, ValueName
    <2>4. Continue(t, Local(t, v \div Interval))
      BY <1>4, <2>2
    <2>5. OnTo(t) /\ loc'[t].reg = v \div Interval
      BY <1>5, <1>6, <2>1, <2>3, <2>4
    <2> QED
      BY <1>2, <2>1, <2>3, <2>5 DEF RateEnd
  <1>11. CASE Now(t).kind = "msg"
    <2>1. /\ Call(t).ev = "interval" /\ n = 14 /\ t \in Callback
          /\ \/ pc[t] = 3 /\ vn = "avg"
             \/ pc[t] = 5 /\ vn = "min"
             \/ pc[t] = 6 /\ vn = "max"
      BY <1>11 DEF RateOp, Does, n, vn
    <2>2. v \in Int /\ vn \in {"avg", "min", "max"}
      BY <1>1, <2>1 DEF v, ValueName
    <2>3. Continue(t, [loc[t] EXCEPT !.msg[vn] = v])
      BY <1>4, <1>11
    <2>4. PICK l \in Locals : /\ l = [loc[t] EXCEPT !.msg[vn] = v]
                              /\ l.msg.avg = IF vn = "avg" THEN v ELSE loc[t].msg.avg
      <3>1. PICK a \in {"avg", "min", "max"}, x \in Int : a = vn /\ x = v
        BY <2>2
      <3>2. /\ [loc[t] EXCEPT !.msg[a] = x] \in Locals
            /\ [loc[t] EXCEPT !.msg[a] = x].msg.avg = IF a = "avg" THEN x ELSE loc[t].msg.avg
        BY <1>8
      <3>3. PICK l \in Locals : /\ l = [loc[t] EXCEPT !.msg[a] = x]
                                /\ l.msg.avg = IF a = "avg" THEN x ELSE loc[t].msg.avg
        BY <3>2
      <3>4. l = [loc[t] EXCEPT !.msg[vn] = v]
        BY <3>1, <3>3, Zenon
      <3> QED
        BY <3>1, <3>3, <3>4
    <2>5. OnTo(t) /\ loc'[t] = l
      BY <1>5, <2>1, <2>3, <2>4
    <2>6. vn = "avg" => v = Avg(i)
      BY DEF v, Avg
    <2> QED
      BY <1>2, <2>1, <2>4, <2>5, <2>6 DEF RateEnd, OnTo
  <1>12. CASE Now(t).kind = "msgTest"
    <2>1. Call(t).ev = "interval" /\ n = 14 /\ t \in Callback /\ pc[t] = 4
      BY <1>12 DEF RateOp, Does, n
    <2>2. Advance(t, 2, loc[t]) \/ Continue(t, loc[t])
      BY <1>4, <1>12
    <2>3. work'[t] = work[t] /\ pc'[t] \in {5, 6} /\ loc'[t] = loc[t]
      <3>1. CASE Continue(t, loc[t])
        BY <1>1, <1>5, <2>1, <3>1 DEF OnTo
      <3>2. CASE Advance(t, 2, loc[t])
        <4>1. 2 \in Nat \ {0} /\ ~(pc[t] + 2 > n) /\ pc[t] + 2 = 6
          BY <2>1
        <4> QED
          BY <1>1, <3>2, <4>1, AdvanceFacts DEF n
      <3> QED
        BY <2>2, <3>1, <3>2
    <2> QED
      BY <1>2, <2>1, <2>3 DEF RateEnd
  <1> QED
    BY <1>9, <1>10, <1>11, <1>12

\* A handler of a rate changes a Value.
LEMMA RateChange ==
    ASSUME BInv, NEW t \in Thread, Modify(t), NEW i \in Index, i = At(t), metrics[i] \in Rates,
           RateOp(t)
    PROVE  RateData(t, i) \/ RateTimer(t, i) \/ RateEnd(t, i)
  <1> DEFINE n == Len(Ops(Call(t)))
             k == Now(t).kind
             v == Now(t).var
             a == Arg(t)
             q == obj[i].val
             z == IF v = "subtotal" /\ k = "add" THEN 1 ELSE 0
  <1>1. /\ q \in [ValueName -> Int]
        /\ obj'[i].val = [q EXCEPT ![v] = Modified(k, q[v], a)]
        /\ hist'[i].received = hist[i].received + z /\ hist'[i].told = hist[i].told
        /\ hist'[i].exposed = hist[i].exposed + (IF z = 1 THEN Exposing(i) ELSE 0)
        /\ hist[i].received \in Nat /\ hist[i].exposed \in Nat
        /\ \/ pc[t] + 1 <= n /\ OnTo(t) /\ loc'[t] = loc[t]
           \/ pc[t] + 1 > n /\ Leaves(t)
    BY RateModify
  <1>2. k \in {"set", "add", "minimize", "maximize"} /\ a \in Int /\ v \in ValueName
    BY ModifyBasic DEF Modify
  <1>3. /\ Now(t).arg = None => a = loc[t].reg
        /\ Now(t).arg # None => a = Now(t).arg
    BY DEF Arg
  <1>4. None # 0 /\ None # Scale /\ None # Huge /\ Scale \in Int
    BY MetricsAssumption DEF Huge
  <1>5. {"sum", "subtotal", "avg", "min", "max", "total", "subsum"} = ValueName
    BY DEF ValueName
  <1>6. /\ Sum(i) = q["sum"] /\ Sub(i) = q["subtotal"]
        /\ Sum(i)' = obj'[i].val["sum"] /\ Sub(i)' = obj'[i].val["subtotal"]
        /\ Avg(i)' = obj'[i].val["avg"] /\ Avg(i) = q["avg"]
    BY DEF Sum, Sub, Avg
  <1>7. /\ k = "set" => Modified(k, q[v], a) = a
        /\ k = "add" => Modified(k, q[v], a) = q[v] + a
    BY DEF Modified
  <1>8. pc[t] \in Nat
    BY DEF BInv, Types
  <1>9. \A w \in ValueName : obj'[i].val[w] = IF w = v THEN Modified(k, q[v], a) ELSE q[w]
    BY <1>1
  <1> HIDE DEF n, k, v, a, q, z
  <1>10. CASE v \notin {"sum", "subtotal"}
    <2>1. SameSums(i) /\ SameHist(i)
      BY <1>1, <1>5, <1>6, <1>9, <1>10 DEF SameSums, SameHist, z
    <2>2. \/ /\ Call(t).ev = "timer" /\ n = 5 /\ t \in Callback /\ pc[t] \in {2, 3, 4}
             /\ pc[t] # AddAt(metrics[i])
          \/ /\ Call(t).ev = "interval" /\ n = 14 /\ t \in Callback
             /\ \/ pc[t] = 2 /\ v = "avg" /\ k = "set" /\ Now(t).arg = None
                \/ pc[t] \in {8, 11, 12, 13, 14}
      BY <1>2, <1>10 DEF RateOp, Does, n, k, v
    <2>3. CASE Call(t).ev = "timer"
      <3>1. OnTo(t) /\ loc'[t] = loc[t]
        BY <1>1, <2>2, <2>3
      <3> QED
        BY <2>1, <2>2, <2>3, <3>1 DEF RateTimer
    <2>4. CASE Call(t).ev = "interval" /\ pc[t] = 2
      <3>1. OnTo(t)
        BY <1>1, <2>2, <2>4
      <3>2. v = "avg" /\ k = "set" /\ a = loc[t].reg
        BY <1>3, <2>2, <2>4
      <3>3. Avg(i)' = loc[t].reg
        BY <1>5, <1>6, <1>7, <1>9, <3>2
      <3> QED
        BY <2>1, <2>2, <2>4, <3>1, <3>3 DEF RateEnd
    <2>5. CASE Call(t).ev = "interval" /\ pc[t] \in {8, 11, 12, 13, 14}
      <3>1. pc[t] = 14 \/ OnTo(t)
        BY <1>1, <2>2, <2>5
      <3>2. pc[t] = 14 => Leaves(t)
        BY <1>1, <2>2, <2>5
      <3> QED
        BY <2>1, <2>2, <2>5, <3>1, <3>2 DEF RateEnd
    <2> QED
      BY <2>2, <2>3, <2>4, <2>5
  <1>11. CASE v = "sum"
    <2>1. Sub(i)' = Sub(i) /\ SameHist(i)
      BY <1>1, <1>5, <1>6, <1>9, <1>11 DEF SameHist, z
    <2>2. \/ /\ Call(t).ev = "timer" /\ n = 5 /\ t \in Callback /\ pc[t] = AddAt(metrics[i])
             /\ k = "add" /\ Now(t).arg = None
          \/ /\ Call(t).ev = "interval" /\ n = 14 /\ t \in Callback /\ pc[t] = 10
             /\ k = "set" /\ Now(t).arg = 0
      BY <1>2, <1>11 DEF RateOp, Does, n, k, v
    <2>3. Sum(i)' = Modified(k, q[v], a)
      BY <1>5, <1>6, <1>9, <1>11
    <2>4. CASE Call(t).ev = "timer"
      <3>1. OnTo(t)
        BY <1>1, <2>2, <2>4 DEF AddAt
      <3>2. Sum(i)' = Sum(i) + loc[t].reg
        BY <1>3, <1>6, <1>7, <1>11, <2>2, <2>3, <2>4
      <3> QED
        BY <2>1, <2>2, <2>4, <3>1, <3>2 DEF RateTimer
    <2>5. CASE Call(t).ev = "interval"
      <3>1. OnTo(t)
        BY <1>1, <2>2, <2>5
      <3>2. Sum(i)' = 0
        BY <1>3, <1>4, <1>7, <2>2, <2>3, <2>5
      <3> QED
        BY <2>1, <2>2, <2>5, <3>1, <3>2 DEF RateEnd
    <2> QED
      BY <2>2, <2>4, <2>5
  <1>12. CASE v = "subtotal"
    <2>1. Sum(i)' = Sum(i) /\ Avg(i)' = Avg(i)
      BY <1>1, <1>5, <1>6, <1>9, <1>12
    <2>2. \/ /\ Call(t).ev \in {"newFlow", "request"} /\ n = 1 /\ pc[t] = 1
             /\ k = "add" /\ Now(t).arg = Scale
          \/ /\ Call(t).ev = "timer" /\ n = 5 /\ t \in Callback /\ pc[t] = 5
             /\ k = "set" /\ Now(t).arg = 0
          \/ /\ Call(t).ev = "interval" /\ n = 14 /\ t \in Callback /\ pc[t] = 9
             /\ k = "set" /\ Now(t).arg = 0
      BY <1>2, <1>12 DEF RateOp, Does, n, k, v
    <2>3. Sub(i)' = Modified(k, q[v], a)
      BY <1>5, <1>6, <1>9, <1>12
    <2>4. CASE k = "add"
      <3>1. Leaves(t)
        BY <1>1, <2>2, <2>4
      <3>2. Sub(i)' = Sub(i) + Scale
        BY <1>3, <1>4, <1>6, <1>7, <1>12, <2>2, <2>3, <2>4
      <3>3. z = 1
        BY <1>12, <2>4 DEF z
      <3> QED
        BY <1>1, <2>1, <2>2, <2>4, <3>1, <3>2, <3>3 DEF RateData
    <2>5. CASE k = "set"
      <3>1. z = 0
        BY <2>5 DEF z
      <3>2. SameHist(i)
        BY <1>1, <3>1 DEF SameHist
      <3>3. Sub(i)' = 0
        BY <1>3, <1>4, <1>7, <2>2, <2>3, <2>5
      <3>4. Call(t).ev = "timer" => Leaves(t)
        BY <1>1, <2>2
      <3>5. Call(t).ev = "interval" => OnTo(t)
        BY <1>1, <2>2
      <3> QED
        BY <2>1, <2>2, <2>5, <3>2, <3>3, <3>4, <3>5 DEF RateTimer, RateEnd
    <2> QED
      BY <2>2, <2>4, <2>5
  <1> QED
    BY <1>10, <1>11, <1>12

\* A rate sends its report.
LEMMA RateSend ==
    ASSUME BInv, NEW t \in Thread, Send(t), NEW i \in Index, i = At(t), metrics[i] \in Rates,
           RateOp(t)
    PROVE  RateEnd(t, i)
  <1> DEFINE n == Len(Ops(Call(t)))
             l == [loc[t] EXCEPT !.msg = NoLocals.msg]
  <1>1. Busy(t) /\ Now(t).kind = "send"
    BY DEF Send, Is
  <1>2. Call(t).ev = "interval" /\ n = 14 /\ t \in Callback /\ pc[t] = 7
    BY <1>1 DEF RateOp, Does
  <1>3. SameSums(i)
    BY DEF Send, SameSums, Sum, Sub
  <1>4. loc[t] \in Locals /\ hist \in [Index -> HistSet] /\ hist[i] \in HistSet
    BY DEF BInv, Types
  <1>5. l \in Locals
    BY <1>4, NoLocalsType DEF Locals
  <1> HIDE DEF n, l
  <1>6. CASE dead /\ Goto(t, <<>>, 1, NoLocals) /\ UNCHANGED hist
    <2>1. Ends(t) /\ SameHist(i)
      BY <1>6 DEF Goto, Ends, SameHist, BInv, Types
    <2> QED
      BY <1>2, <1>3, <2>1 DEF RateEnd
  <1>7. CASE /\ hist' = [hist EXCEPT
                  ![i].report = IF metrics[i] \in Avgs THEN loc[t].msg ELSE obj[i].cfl,
                  ![i].told = IF metrics[i] \in Rates
                              THEN @ + (loc[t].msg.avg * Interval) \div Scale
                              ELSE @]
             /\ Continue(t, l)
    <2>1. /\ hist'[i].received = hist[i].received /\ hist'[i].exposed = hist[i].exposed
          /\ hist'[i].told = hist[i].told + (loc[t].msg.avg * Interval) \div Scale
      BY <1>4, <1>7 DEF HistSet
    <2>2. pc[t] + 1 <= n /\ ~(pc[t] + 1 > n)
      BY <1>2
    <2>3. OnTo(t)
      BY <1>1, <1>5, <1>7, <2>2, ContinueFacts DEF OnTo, n
    <2> QED
      BY <1>2, <1>3, <2>1, <2>3 DEF RateEnd
  <1> QED
    BY <1>6, <1>7 DEF Send, l

\* Every step of a thread in a handler of a rate
LEMMA RateSteps ==
    ASSUME BInv, NEW t \in Thread, NEW i \in Index, metrics[i] \in Rates, Acts(t, i)
    PROVE  RateData(t, i) \/ RateTimer(t, i) \/ RateEnd(t, i)
  <1>1. Busy(t) /\ At(t) = i /\ Operation(t)
    BY DEF Acts
  <1>2. RateOp(t)
    BY <1>1, RatePlaces, RateOps
  <1>3. Now(t).kind \in {"set", "add", "minimize", "maximize", "get", "perSecond", "msg",
                         "msgTest", "send"}
    BY <1>2 DEF RateOp, Does
  <1>4. Modify(t) \/ Read(t) \/ Send(t)
    BY <1>1, <1>3 DEF Operation, Delta, Mark, Step, HashProcess, Branch, Total, Find, Create,
                      Count, CflUpdate, Enter, Leave, IfNoTotal, Is
  <1>5. CASE Modify(t)
    BY <1>1, <1>2, <1>5, RateChange
  <1>6. CASE Read(t)
    <2>1. Now(t).kind \in {"get", "perSecond", "msg", "msgTest"}
      BY <1>3, <1>6 DEF Read
    <2> QED
      BY <1>1, <1>2, <1>6, <2>1, RateRead
  <1>7. CASE Send(t)
    BY <1>1, <1>2, <1>7, RateSend
  <1> QED
    BY <1>4, <1>5, <1>6, <1>7

\* t has not begun to tell metric i of the second.
NotBegun(t, i) == \E k \in 1..Len(work[t]) :
    work[t][k].metric = i /\ work[t][k].ev = "timer" /\ (k = 1 => pc[t] = 1)

\* A callback that is past its read
LEMMA PastMeans ==
    ASSUME BInv, NEW u \in Callback, NEW i
    PROVE  PastRead(u, i) <=> Busy(u) /\ Call(u).ev # "process" /\ ~NotBegun(u, i)
  <1>1. u \in Thread /\ work[u] \in Seq(CallSet)
    BY DEF BInv, Types, Thread
  <1>2. DOMAIN work[u] = 1..Len(work[u])
    BY <1>1
  <1> QED
    BY <1>2 DEF PastRead, NotBegun

\* ... in a state in which it has not moved
LEMMA PastSame ==
    ASSUME NEW u \in Callback, NEW i, work'[u] = work[u], pc'[u] = pc[u]
    PROVE  PastRead(u, i)' <=> PastRead(u, i)
  BY DEF PastRead, Busy, Call

\* Only the read takes a callback past it.
LEMMA PastKeeps ==
    ASSUME BInv, BInv', AnyStep, metrics' = metrics, NEW u \in Callback, TellsOnce(u),
           NEW i \in Index, "timer" \in Subscribed(metrics[i]),
           ~PastRead(u, i), PastRead(u, i)'
    PROVE  Acts(u, i) /\ Call(u).ev = "timer" /\ pc[u] = 1
  <1>0. u \in Thread /\ "flow" \notin Callback
    BY MetricsAssumption DEF Thread
  <1>1. work'[u] # work[u] \/ pc'[u] # pc[u]
    BY PastSame
  <1>2. Busy(u)' /\ Call(u)'.ev # "process" /\ ~NotBegun(u, i)'
    <2>1. work'[u] \in Seq(CallSet)
      BY <1>0 DEF BInv, Types
    <2>2. DOMAIN work'[u] = 1..Len(work'[u])
      BY <2>1
    <2> QED
      BY <2>2 DEF PastRead, NotBegun
  <1>3. ~NoStep /\ ~FlowStart("flow") /\ ~FailStep
    BY <1>0, <1>1 DEF NoStep, FlowStart, StartStep, Others, FailStep
  <1>4. ASSUME NEW t \in Callback, TimerStart(t) PROVE FALSE
    <2>1. t = u
      BY <1>0, <1>1, <1>4 DEF TimerStart, StartStep, Others
    <2>2. PICK w : /\ Informs(t, "timer", None, w)
                   /\ work'[t] = Own("process") \o (w \o Own("branch"))
                   /\ Calls(t, w \o Own("branch"))
      BY <1>4 DEF TimerStart
    <2>3. PICK c : c = w \o Own("branch")
      OBVIOUS
    <2>4. PICK a : a = Own("process")
      OBVIOUS
    <2>5. Calls(t, a) /\ Len(a) = 1 /\ a[1].ev = "process" /\ Calls(t, c)
      BY <2>2, <2>3, <2>4, OwnCalls DEF Parts, Own
    <2>6. (a \o c)[1] = a[1] /\ Calls(t, a \o c) /\ Len(a \o c) = 1 + Len(c)
      <3>1. Calls(t, a) /\ Calls(t, c)
        BY <2>5
      <3>2. /\ Calls(t, a \o c) /\ Len(a \o c) = Len(a) + Len(c)
            /\ \A k \in 1..Len(a) : (a \o c)[k] = a[k]
        BY <3>1, CallsJoined
      <3> QED
        BY <2>5, <3>2
    <2>7. PICK z : z = a \o c
      OBVIOUS
    <2>8. z \in Seq(CallSet) /\ Len(z) >= 1 /\ z[1].ev = "process"
      <3>1. Len(c) \in Nat
        BY <2>5 DEF Calls
      <3> QED
        BY <2>5, <2>6, <2>7, <3>1 DEF Calls
    <2>9. Head(z) = z[1]
      BY <2>8
    <2>10. work'[u] = z
      BY <2>1, <2>2, <2>3, <2>4, <2>7
    <2> QED
      BY <1>2, <2>8, <2>9, <2>10 DEF Call
  <1>5. PICK t \in Thread : Operation(t) /\ ListSteps(t) /\ failed = "no"
    BY <1>3, <1>4 DEF AnyStep
  <1>6. t = u /\ Others(u) /\ ThreadStep(u) /\ Busy(u)
    <2>1. ThreadStep(t) /\ Others(t)
      BY <1>3, <1>5, StepShape
    <2>2. t = u
      BY <1>0, <1>1, <2>1 DEF Others
    <2> QED
      BY <1>5, <2>1, <2>2, OperationBusy
  <1>7. PICK k \in 1..Len(work[u]) :
            /\ work[u][k].metric = i /\ work[u][k].ev = "timer"
            /\ Call(u).ev = "process" \/ (k = 1 => pc[u] = 1)
    <2>1. CASE Call(u).ev = "process"
      BY <1>6, <2>1 DEF TellsOnce, ToTell
    <2>2. CASE Call(u).ev # "process"
      BY <1>6, <2>2, PastMeans DEF NotBegun
    <2> QED
      BY <2>1, <2>2
  <1>8. CASE k = 1
    <2>1. At(u) = i /\ Call(u).ev = "timer"
      BY <1>0, <1>6, <1>7, <1>8, CallFacts DEF At
    <2>2. pc[u] = 1
      BY <1>7, <1>8, <2>1
    <2> QED
      BY <1>3, <1>5, <1>6, <2>1, <2>2 DEF Acts
  <1>9. CASE k # 1
    <2> SUFFICES FALSE
      OBVIOUS
    <2>1. /\ Tail(work[u]) \in Seq(CallSet) /\ Len(work[u]) \in Nat
          /\ Len(Tail(work[u])) = Len(work[u]) - 1
          /\ \A j \in 1..Len(Tail(work[u])) : Tail(work[u])[j] = work[u][j + 1]
      BY <1>0, <1>6, CallFacts
    <2>2. PICK j \in 1..Len(Tail(work[u])) : j + 1 = k
      BY <1>7, <1>9, <2>1
    <2>3. Tail(work[u])[j] = work[u][k]
      BY <2>1, <2>2
    <2>4. CASE Stays(u)
      BY <1>2, <1>7, <1>9, <2>4 DEF NotBegun, Stays
    <2>5. CASE work'[u] = Tail(work[u]) /\ pc'[u] = 1
      BY <1>2, <1>7, <2>2, <2>3, <2>5 DEF NotBegun
    <2>6. CASE work'[u] = <<>>
      BY <1>2, <2>6 DEF Busy
    <2>7. CASE OwnStep(u)
      <3>1. OwnDone(u)
        BY <1>0, <1>5, <1>6, <2>7, OwnCases
      <3>2. ASSUME NEW w, Calls(u, w), work'[u] = w \o Tail(work[u]), pc'[u] = 1
            PROVE  FALSE
        <4>1. Calls(u, w) /\ Calls(u, Tail(work[u]))
          BY <1>0, <1>6, <3>2, RestCalls
        <4>2. PICK v : v = Tail(work[u])
          OBVIOUS
        <4>3. /\ Len(w \o v) = Len(w) + Len(v) /\ (w \o v)[Len(w) + j] = v[j]
              /\ Len(w) \in Nat /\ Len(v) \in Nat
          <5>1. Calls(u, w) /\ Calls(u, v)
            BY <4>1, <4>2
          <5>2. /\ Len(w \o v) = Len(w) + Len(v)
                /\ \A m \in 1..Len(v) : (w \o v)[Len(w) + m] = v[m]
            BY <5>1, CallsJoined
          <5>3. Len(w) \in Nat /\ Len(v) \in Nat
            BY <5>1 DEF Calls
          <5>4. j \in 1..Len(v)
            BY <4>2
          <5> QED
            BY <5>2, <5>3, <5>4
        <4>4. Len(w) + j \in 1..Len(w \o v)
          BY <4>2, <4>3
        <4>5. PICK m \in 1..Len(w \o v) : m = Len(w) + j
          BY <4>4
        <4>6. m \in 1..Len(work'[u]) /\ work'[u][m] = work[u][k]
          BY <2>3, <3>2, <4>2, <4>3, <4>5
        <4> QED
          BY <1>2, <1>7, <3>2, <4>6 DEF NotBegun
      <3>3. CASE Call(u).ev = "branch"
        <4>1. Call(u) = work[u][1] /\ 1 \in 1..Len(work[u])
          BY <1>0, <1>6, CallFacts
        <4>2. k < 1
          BY <1>7, <3>3, <4>1 DEF TellsOnce
        <4> QED
          BY <1>7, <4>2
      <3>4. CASE work'[u] = work[u]
        BY <1>2, <1>7, <1>9, <3>4 DEF NotBegun
      <3> QED
        BY <2>5, <3>1, <3>2, <3>3, <3>4 DEF OwnDone
    <2> QED
      BY <1>0, <1>3, <1>5, <1>6, <2>4, <2>5, <2>6, <2>7, WorkMoves DEF Leaves, Ends
  <1> QED
    BY <1>8, <1>9

\* A multiple, divided
LEMMA Multiples ==
    ASSUME NEW m \in Nat, m > 0, NEW n \in Int
    PROVE  (m * n) \div m = n
  <1>1. PICK q : q = (m * n) \div m
    OBVIOUS
  <1>2. q \in Int /\ m * n \in Int
    BY <1>1
  <1>3. m * q <= m * n /\ m * n < m * (q + 1)
    BY <1>1, <1>2
  <1>4. ASSUME q < n PROVE FALSE
    <2>1. PICK e \in Nat : n = q + 1 + e
      <3>1. n - q - 1 \in Nat /\ n = q + 1 + (n - q - 1)
        BY <1>2, <1>4
      <3> QED
        BY <3>1
    <2>2. m * n = m * (q + 1) + m * e
      BY <1>2, <2>1
    <2>3. m * e >= 0
      OBVIOUS
    <2>4. m * (q + 1) \in Int /\ m * e \in Int
      BY <1>2
    <2> QED
      BY <1>2, <1>3, <2>2, <2>3, <2>4
  <1>5. ASSUME q > n PROVE FALSE
    <2>1. PICK e \in Nat : q = n + 1 + e
      <3>1. q - n - 1 \in Nat /\ q = n + 1 + (q - n - 1)
        BY <1>2, <1>5
      <3> QED
        BY <3>1
    <2>2. m * q = m * n + m + m * e
      BY <2>1
    <2>3. m * e >= 0 /\ m * e \in Int
      OBVIOUS
    <2> QED
      BY <1>2, <1>3, <2>2, <2>3
  <1>6. q = n
    BY <1>2, <1>4, <1>5
  <1> QED
    BY <1>1, <1>6

\* A number of whole requests is divided by the seconds without a rest, and
\* the seconds give it back.
LEMMA WholeAverage ==
    ASSUME NEW a \in Nat
    PROVE  ((Scale * a) \div Interval) * Interval = Scale * a
  <1>1. Scale \in Nat /\ Interval \in Nat /\ Interval > 0 /\ Scale % Interval = 0
    BY MetricsAssumption
  <1>2. PICK m : m = Scale \div Interval
    OBVIOUS
  <1>3. m \in Int /\ Scale = Interval * m
    BY <1>1, <1>2
  <1>4. Scale * a = Interval * (m * a)
    BY <1>1, <1>3
  <1>5. (Interval * (m * a)) \div Interval = m * a
    <2>1. m * a \in Int
      BY <1>3
    <2> QED
      BY <1>1, <2>1, Multiples
  <1>6. (Scale * a) \div Interval = m * a
    BY <1>4, <1>5
  <1>7. (m * a) * Interval = Interval * (m * a)
    BY <1>1, <1>3
  <1> QED
    BY <1>4, <1>6, <1>7

\* Whole requests
LEMMA Whole ==
    ASSUME NEW a \in Nat, NEW b \in Nat
    PROVE  /\ Scale * a \in Nat /\ (Scale * a) \div Scale = a
           /\ Scale * a + Scale * b = Scale * (a + b)
           /\ Scale * a + Scale = Scale * (a + 1) /\ Scale * 0 = 0
           /\ Got(Scale * a) = Scale * a
  <1>1. Scale \in Nat /\ Scale > 0
    BY MetricsAssumption
  <1>2. Scale * a \in Nat
    BY <1>1
  <1>3. (Scale * a) \div Scale = a
    BY <1>1, Multiples
  <1>4. /\ Scale * a + Scale * b = Scale * (a + b)
        /\ Scale * a + Scale = Scale * (a + 1) /\ Scale * 0 = 0
    BY <1>1
  <1>5. Got(Scale * a) = Scale * a
    BY <1>2 DEF Got, Huge
  <1> QED
    BY <1>2, <1>3, <1>4, <1>5

\* Where a callback that is past its read of metric i is: it has the number
\* it read, has added it to sum, has told of sum, or none of these
Phase(u, i) ==
    IF Mid(u, i) /\ Call(u).ev = "timer"
    THEN IF pc[u] <= AddAt(metrics[i]) THEN "took" ELSE "added"
    ELSE IF Mid(u, i) /\ Call(u).ev = "interval" /\ pc[u] \in {8, 9, 10} THEN "told"
    ELSE "past"

\* d, the requests that are missing from the report, sum and subtotal, are
\* among the x that came too late; a in sum, b in subtotal, r in the local
Owed(p, a, b, d, x, r) ==
    CASE p = "free"  -> 0 <= d /\ d <= x
      [] p = "took"  -> \E c \in Nat : r = Scale * c /\ c <= b /\ 0 <= d /\ d + b - c <= x
      [] p = "added" -> 0 <= d + b /\ d + b <= x
      [] p = "told"  -> 0 <= d + a /\ d + a + b <= x
      [] p = "past"  -> 0 <= d /\ d + b <= x

\* The average is sum over the interval, from its computation to the report.
Averaged(u, i) ==
    Mid(u, i) /\ Call(u).ev = "interval" =>
        /\ pc[u] = 2 => loc[u].reg * Interval = Sum(i)
        /\ pc[u] = 3 => Avg(i) * Interval = Sum(i)
        /\ pc[u] \in {4, 5, 6, 7} => loc[u].msg.avg * Interval = Sum(i)

\* The account of a rate
Account(i, a, b) ==
    LET d == hist[i].received - hist[i].told - a - b
        x == hist[i].exposed IN
    /\ Sum(i) = Scale * a /\ Sub(i) = Scale * b
    /\ (\A u \in Callback : ~PastRead(u, i)) => Owed("free", a, b, d, x, 0)
    /\ \A u \in Callback : PastRead(u, i) =>
         Owed(Phase(u, i), a, b, d, x, loc[u].reg) /\ Averaged(u, i)

RateInv(i) == ~overlapped => \E a, b \in Nat : Account(i, a, b)

\* The numbers of the account
LEMMA OwedCases ==
    ASSUME NEW a \in Nat, NEW b \in Nat, NEW d \in Int, NEW x \in Nat, NEW r
    PROVE  /\ Owed("free", a, b, d, x, r) <=> 0 <= d /\ d <= x
           /\ Owed("took", a, b, d, x, r) <=>
                \E c \in Nat : r = Scale * c /\ c <= b /\ 0 <= d /\ d + b - c <= x
           /\ Owed("added", a, b, d, x, r) <=> 0 <= d + b /\ d + b <= x
           /\ Owed("told", a, b, d, x, r) <=> 0 <= d + a /\ d + a + b <= x
           /\ Owed("past", a, b, d, x, r) <=> 0 <= d /\ d + b <= x
           /\ Owed("past", a, b, d, x, r) => Owed("free", a, b, d, x, r)
  BY DEF Owed

\* A callback in the middle of the timer's handler, or at the end of an
\* interval, is past its read.
LEMMA TimerPast ==
    ASSUME BInv, NEW t \in Callback, NEW i \in Index, Busy(t), At(t) = i, TellsOnce(t),
           Call(t).ev \in {"timer", "interval"}
    PROVE  /\ pc[t] >= 2 \/ Call(t).ev = "interval" => PastRead(t, i)
           /\ Call(t).ev = "timer" /\ pc[t] = 1 => ~PastRead(t, i)
           /\ work'[t] = work[t] /\ pc'[t] >= 2 => PastRead(t, i)' /\ Mid(t, i)' /\ Call(t)' = Call(t)
  <1>1. t \in Thread
    BY DEF Thread
  <1>2. /\ Call(t) = work[t][1] /\ Len(work[t]) \in Nat /\ Len(work[t]) >= 1
        /\ pc[t] \in Nat /\ work[t] \in Seq(CallSet)
    BY <1>1, CallFacts DEF BInv, Types
  <1>3. DOMAIN work[t] = 1..Len(work[t]) /\ 1 \in 1..Len(work[t])
    BY <1>2
  <1>4. ASSUME NEW k \in 1..Len(work[t]), work[t][k].metric = i, work[t][k].ev = "timer"
        PROVE  k = 1 /\ Call(t).ev = "timer"
    BY <1>2, <1>3, <1>4 DEF TellsOnce, At
  <1>5. ASSUME pc[t] >= 2 \/ Call(t).ev = "interval" PROVE PastRead(t, i)
    BY <1>2, <1>3, <1>4, <1>5 DEF PastRead
  <1>6. Call(t).ev = "timer" /\ pc[t] = 1 => ~PastRead(t, i)
    BY <1>2, <1>3 DEF PastRead, At
  <1>7. ASSUME work'[t] = work[t], pc'[t] >= 2
        PROVE  PastRead(t, i)' /\ Mid(t, i)' /\ Call(t)' = Call(t)
    <2>1. Call(t)' = Call(t) /\ Busy(t)'
      BY <1>7 DEF Call, Busy
    <2>2. Mid(t, i)'
      BY <1>7, <2>1 DEF Mid, At
    <2>3. PastRead(t, i)'
      BY <1>3, <1>4, <1>7, <2>1 DEF PastRead
    <2> QED
      BY <2>1, <2>2, <2>3
  <1> QED
    BY <1>5, <1>6, <1>7

\* The numbers of a metric
LEMMA RateNumbers ==
    ASSUME BInv, NEW i \in Index
    PROVE  /\ hist[i].received \in Nat /\ hist[i].exposed \in Nat /\ hist[i].told \in Int
           /\ Sum(i) \in Int /\ Sub(i) \in Int
  <1>1. obj[i] \in MetricSet /\ hist[i] \in HistSet
    BY DEF BInv, Types
  <1>2. obj[i].val \in [ValueName -> Int]
    BY <1>1 DEF MetricSet
  <1>3. hist[i].received \in Nat /\ hist[i].exposed \in Nat /\ hist[i].told \in Int
    BY <1>1 DEF HistSet
  <1> QED
    BY <1>2, <1>3 DEF Sum, Sub, ValueName

\* A step that does not concern the metric
LEMMA RateAside ==
    ASSUME BInv, BInv', AnyStep, metrics' = metrics, NEW i \in Index, metrics[i] \in Rates,
           Aside(i), \A t \in Thread : ~Acts(t, i), \A t \in Callback : TellsOnce(t),
           NEW a \in Nat, NEW b \in Nat, Account(i, a, b)
    PROVE  Account(i, a, b)'
  <1> DEFINE d == hist[i].received - hist[i].told - a - b
             x == hist[i].exposed
  <1>0. "timer" \in Subscribed(metrics[i])
    BY DEF Subscribed, Rates, Avgs
  <1>1. obj'[i] = obj[i] /\ hist'[i] = hist[i]
    BY DEF Aside
  <1>2. ASSUME NEW u \in Callback
        PROVE  /\ PastRead(u, i)' => PastRead(u, i)
               /\ PastRead(u, i) /\ ~PastRead(u, i)' => ~Mid(u, i)
               /\ PastRead(u, i)' => /\ Phase(u, i)' = Phase(u, i)
                                     /\ Mid(u, i) => loc'[u] = loc[u]
                                     /\ Averaged(u, i) => Averaged(u, i)'
    <2>1. u \in Thread
      BY DEF Thread
    <2>2. /\ Mid(u, i)' <=> Mid(u, i)
          /\ Mid(u, i) => Call(u)' = Call(u) /\ pc'[u] = pc[u] /\ loc'[u] = loc[u]
          /\ Mid(u, i) => work'[u] = work[u]
      BY <2>1 DEF Aside
    <2>3. PastRead(u, i)' => PastRead(u, i)
      BY <1>0, <2>1, PastKeeps
    <2>4. Mid(u, i) => (PastRead(u, i)' <=> PastRead(u, i))
      BY <2>2, PastSame
    <2>5. Phase(u, i)' = Phase(u, i)
      BY <2>2 DEF Phase
    <2>6. Averaged(u, i) => Averaged(u, i)'
      BY <1>1, <2>2 DEF Averaged, Sum, Avg
    <2> QED
      BY <2>2, <2>3, <2>4, <2>5, <2>6
  <1>3. /\ Sum(i) = Scale * a /\ Sub(i) = Scale * b
        /\ (\A u \in Callback : ~PastRead(u, i)) => Owed("free", a, b, d, x, 0)
        /\ \A u \in Callback : PastRead(u, i) =>
             Owed(Phase(u, i), a, b, d, x, loc[u].reg) /\ Averaged(u, i)
    BY DEF Account
  <1>4. d \in Int /\ x \in Nat
    BY RateNumbers
  <1>5. Sum(i)' = Scale * a /\ Sub(i)' = Scale * b
    BY <1>1, <1>3 DEF Sum, Sub
  <1> HIDE DEF d, x
  <1>6. ASSUME \A u \in Callback : ~PastRead(u, i)' PROVE Owed("free", a, b, d, x, 0)
    <2>1. CASE \A u \in Callback : ~PastRead(u, i)
      BY <1>3, <2>1
    <2>2. ASSUME NEW u \in Callback, PastRead(u, i) PROVE Owed("free", a, b, d, x, 0)
      <3>1. Phase(u, i) = "past"
        BY <1>2, <1>6, <2>2 DEF Phase
      <3> QED
        BY <1>3, <1>4, <2>2, <3>1, OwedCases
    <2> QED
      BY <2>1, <2>2
  <1>7. ASSUME NEW u \in Callback, PastRead(u, i)'
        PROVE  Owed(Phase(u, i)', a, b, d, x, loc'[u].reg) /\ Averaged(u, i)'
    <2>1. Owed(Phase(u, i), a, b, d, x, loc[u].reg) /\ Averaged(u, i)
      BY <1>2, <1>3, <1>7
    <2>2. CASE Mid(u, i)
      BY <1>2, <1>7, <2>1, <2>2
    <2>3. CASE ~Mid(u, i)
      <3>1. Phase(u, i) = "past"
        BY <2>3 DEF Phase
      <3>2. Owed("past", a, b, d, x, loc'[u].reg)
        <4>1. Owed("past", a, b, d, x, loc[u].reg)
          BY <2>1, <3>1
        <4> QED
          BY <4>1 DEF Owed
      <3> QED
        BY <1>2, <1>7, <2>1, <3>1, <3>2
    <2> QED
      BY <2>2, <2>3
  <1>8. /\ d = hist'[i].received - hist'[i].told - a - b
        /\ x = hist'[i].exposed
    BY <1>1 DEF d, x
  <1> QED
    BY <1>5, <1>6, <1>7, <1>8 DEF Account

\* A request arrives.
LEMMA RateDataKeeps ==
    ASSUME BInv, BInv', AnyStep, metrics' = metrics, NEW i \in Index, metrics[i] \in Rates,
           NEW t \in Thread, Acts(t, i), RateData(t, i), \A u \in Callback : TellsOnce(u),
           NEW a \in Nat, NEW b \in Nat, Account(i, a, b)
    PROVE  Account(i, a, b + 1)'
  <1> DEFINE d == hist[i].received - hist[i].told - a - b
             x == hist[i].exposed
             e == Exposing(i)
  <1>0. "timer" \in Subscribed(metrics[i]) /\ Call(t).ev \notin {"timer", "interval"}
    BY DEF Subscribed, Rates, Avgs, RateData
  <1>1. /\ Sum(i) = Scale * a /\ Sub(i) = Scale * b
        /\ (\A u \in Callback : ~PastRead(u, i)) => Owed("free", a, b, d, x, 0)
        /\ \A u \in Callback : PastRead(u, i) =>
             Owed(Phase(u, i), a, b, d, x, loc[u].reg) /\ Averaged(u, i)
    BY DEF Account
  <1>2. d \in Int /\ x \in Nat /\ e \in {0, 1}
    BY RateNumbers DEF Exposing
  <1>3. Sum(i)' = Scale * a /\ Sub(i)' = Scale * (b + 1)
    BY <1>1, Whole DEF RateData
  <1>4. /\ d = hist'[i].received - hist'[i].told - a - (b + 1)
        /\ x + e = hist'[i].exposed
    BY RateNumbers DEF RateData
  <1>5. e = IF \E u \in Callback : PastRead(u, i) THEN 1 ELSE 0
    BY DEF Exposing
  <1> HIDE DEF d, x, e
  <1>6. ASSUME NEW u \in Callback, PastRead(u, i)' PROVE PastRead(u, i)
    <2>1. u # t \/ ~PastRead(u, i) => PastRead(u, i)
      <3>1. CASE u # t
        <4>1. work'[u] = work[u] /\ pc'[u] = pc[u]
          BY <3>1 DEF Acts, Others, Thread
        <4> QED
          BY <1>6, <4>1, PastSame
      <3>2. CASE u = t /\ ~PastRead(u, i)
        <4>1. Call(u).ev = "timer"
          BY <1>0, <1>6, <3>2, PastKeeps
        <4> QED
          BY <1>0, <3>2, <4>1
      <3> QED
        BY <3>1, <3>2
    <2> QED
      BY <2>1
  <1>7. ASSUME \A u \in Callback : ~PastRead(u, i)' PROVE Owed("free", a, b + 1, d, x + e, 0)
    <2>1. CASE \A u \in Callback : ~PastRead(u, i)
      BY <1>1, <1>2, <1>5, <2>1, OwedCases DEF Owed
    <2>2. ASSUME NEW u \in Callback, PastRead(u, i) PROVE Owed("free", a, b + 1, d, x + e, 0)
      <3>1. u = t
        <4>1. CASE u # t
          <5>1. work'[u] = work[u] /\ pc'[u] = pc[u]
            BY <4>1 DEF Acts, Others, Thread
          <5> QED
            BY <1>7, <2>2, <5>1, PastSame
        <4> QED
          BY <4>1
      <3>2. Phase(u, i) = "past"
        BY <1>0, <3>1 DEF Phase
      <3>3. 0 <= d /\ d + b <= x
        <4>1. Owed("past", a, b, d, x, loc[u].reg)
          BY <1>1, <2>2, <3>2
        <4> QED
          BY <1>2, <4>1, OwedCases
      <3> QED
        BY <1>2, <3>3 DEF Owed
    <2> QED
      BY <2>1, <2>2
  <1>8. ASSUME NEW u \in Callback, PastRead(u, i)'
        PROVE  Owed(Phase(u, i)', a, b + 1, d, x + e, loc'[u].reg) /\ Averaged(u, i)'
    <2>1. Owed(Phase(u, i), a, b, d, x, loc[u].reg) /\ Averaged(u, i) /\ e = 1
      BY <1>1, <1>5, <1>6, <1>8
    <2>2. CASE u # t
      <3>1. u \in Thread /\ Others(t)
        BY DEF Thread, Acts
      <3>2. /\ Mid(u, i)' <=> Mid(u, i)
            /\ Call(u)' = Call(u) /\ pc'[u] = pc[u] /\ loc'[u] = loc[u]
        BY <2>2, <3>1, MidOther
      <3>3. Phase(u, i)' = Phase(u, i)
        BY <3>2 DEF Phase
      <3>4. ASSUME Mid(u, i), Call(u).ev = "interval", pc[u] = 3
            PROVE  Averaged(u, i)'
        <4>1. Avg(i)' = Avg(i) /\ Sum(i)' = Sum(i)
          BY <1>1, <1>3 DEF RateData
        <4>2. Avg(i) * Interval = Sum(i)
          BY <2>1, <3>4 DEF Averaged
        <4>3. Avg(i)' * Interval = Sum(i)'
          BY <4>1, <4>2
        <4>4. pc'[u] = 3
          BY <3>2, <3>4
        <4> QED
          BY <4>3, <4>4 DEF Averaged
      <3>5. Averaged(u, i)'
        BY <1>1, <1>3, <2>1, <3>2, <3>4 DEF Averaged
      <3>6. Owed(Phase(u, i), a, b + 1, d, x + e, loc[u].reg)
        <4>1. Phase(u, i) \in {"took", "added", "told", "past"}
          BY DEF Phase
        <4>2. PICK p \in {"took", "added", "told", "past"} : p = Phase(u, i)
          BY <4>1
        <4>3. Owed(p, a, b, d, x, loc[u].reg)
          BY <2>1, <4>2
        <4>4. b + 1 \in Nat /\ x + e \in Nat /\ e = 1
          BY <1>2, <2>1
        <4>5. CASE p = "took"
          <5>1. PICK c \in Nat : loc[u].reg = Scale * c /\ c <= b /\ 0 <= d /\ d + b - c <= x
            BY <1>2, <4>3, <4>5, OwedCases
          <5>2. c <= b + 1 /\ d + (b + 1) - c <= x + e
            BY <1>2, <4>4, <5>1
          <5> QED
            BY <4>2, <4>5, <5>1, <5>2 DEF Owed
        <4>6. CASE p = "added"
          BY <1>2, <4>2, <4>3, <4>4, <4>6 DEF Owed
        <4>7. CASE p = "told"
          BY <1>2, <4>2, <4>3, <4>4, <4>7 DEF Owed
        <4>8. CASE p = "past"
          BY <1>2, <4>2, <4>3, <4>4, <4>8 DEF Owed
        <4> QED
          BY <4>5, <4>6, <4>7, <4>8
      <3> QED
        BY <3>2, <3>3, <3>5, <3>6
    <2>3. CASE u = t
      <3>1. Phase(u, i) = "past"
        BY <1>0, <2>3 DEF Phase
      <3>2. 0 <= d /\ d + b <= x
        BY <1>2, <2>1, <3>1, OwedCases
      <3>3. ~Mid(u, i)'
        BY <2>3 DEF Mid, RateData, Leaves
      <3>4. Phase(u, i)' = "past" /\ Averaged(u, i)'
        BY <3>3 DEF Phase, Averaged
      <3> QED
        BY <1>2, <2>1, <3>2, <3>4 DEF Owed
    <2> QED
      BY <2>2, <2>3
  <1> QED
    BY <1>3, <1>4, <1>7, <1>8 DEF Account

\* One callback at a time
LEMMA OnlyOne ==
    ASSUME Solo, ~overlapped, NEW t \in Callback, Busy(t), Others(t), NEW i
    PROVE  \A u \in Callback : u # t => ~PastRead(u, i) /\ ~PastRead(u, i)'
  <1> SUFFICES ASSUME NEW u \in Callback, u # t PROVE ~PastRead(u, i) /\ ~PastRead(u, i)'
    OBVIOUS
  <1>1. ~Busy(u)
    BY DEF Solo
  <1>2. ~Busy(u)'
    BY <1>1 DEF Busy, Others, Thread
  <1> QED
    BY <1>1, <1>2 DEF PastRead

\* The account that one callback leaves
LEMMA AccountOf ==
    ASSUME NEW t \in Callback, NEW i, \A u \in Callback : u # t => ~PastRead(u, i)',
           NEW a, NEW b, NEW d, NEW x,
           Sum(i)' = Scale * a, Sub(i)' = Scale * b,
           d = hist'[i].received - hist'[i].told - a - b, x = hist'[i].exposed,
           PastRead(t, i)' => Owed(Phase(t, i)', a, b, d, x, loc'[t].reg) /\ Averaged(t, i)',
           ~PastRead(t, i)' => Owed("free", a, b, d, x, 0)
    PROVE  Account(i, a, b)'
  BY DEF Account

\* What the account says of the callback that is at work
LEMMA AccountIs ==
    ASSUME BInv, NEW t \in Callback, NEW i \in Index, \A u \in Callback : u # t => ~PastRead(u, i),
           NEW a \in Nat, NEW b \in Nat, Account(i, a, b)
    PROVE  LET d == hist[i].received - hist[i].told - a - b
               x == hist[i].exposed IN
           /\ Sum(i) = Scale * a /\ Sub(i) = Scale * b /\ d \in Int /\ x \in Nat
           /\ PastRead(t, i) => Owed(Phase(t, i), a, b, d, x, loc[t].reg) /\ Averaged(t, i)
           /\ ~PastRead(t, i) => 0 <= d /\ d <= x
  <1> DEFINE d == hist[i].received - hist[i].told - a - b
             x == hist[i].exposed
  <1>1. d \in Int /\ x \in Nat
    BY RateNumbers
  <1>2. ~PastRead(t, i) => Owed("free", a, b, d, x, 0)
    BY DEF Account
  <1>3. /\ Sum(i) = Scale * a /\ Sub(i) = Scale * b
        /\ PastRead(t, i) => Owed(Phase(t, i), a, b, d, x, loc[t].reg) /\ Averaged(t, i)
    BY DEF Account
  <1> HIDE DEF d, x
  <1>4. ~PastRead(t, i) => 0 <= d /\ d <= x
    BY <1>1, <1>2, OwedCases
  <1> QED
    BY <1>1, <1>3, <1>4 DEF d, x

\* The second that has passed is told.
LEMMA RateTimerKeeps ==
    ASSUME BInv, BInv', metrics' = metrics, NEW i \in Index, metrics[i] \in Rates,
           NEW t \in Thread, Acts(t, i), RateTimer(t, i), TellsOnce(t), Solo, ~overlapped,
           NEW a \in Nat, NEW b \in Nat, Account(i, a, b)
    PROVE  \E a2, b2 \in Nat : Account(i, a2, b2)'
  <1>1. /\ t \in Callback /\ Call(t).ev = "timer" /\ Busy(t) /\ At(t) = i /\ Others(t)
        /\ SameHist(i)
    BY DEF RateTimer, Acts
  <1>2. \A u \in Callback : u # t => ~PastRead(u, i) /\ ~PastRead(u, i)'
    BY <1>1, OnlyOne
  <1>3. PICK d \in Int, x \in Nat :
          /\ d = hist[i].received - hist[i].told - a - b /\ x = hist[i].exposed
          /\ Sum(i) = Scale * a /\ Sub(i) = Scale * b
          /\ PastRead(t, i) => Owed(Phase(t, i), a, b, d, x, loc[t].reg) /\ Averaged(t, i)
          /\ ~PastRead(t, i) => 0 <= d /\ d <= x
    BY <1>1, <1>2, AccountIs
  <1>4. /\ hist'[i].received = hist[i].received /\ hist'[i].exposed = x
        /\ hist'[i].told = hist[i].told
    BY <1>1, <1>3 DEF SameHist
  <1>5. /\ pc[t] >= 2 => PastRead(t, i)
        /\ pc[t] = 1 => ~PastRead(t, i)
        /\ work'[t] = work[t] /\ pc'[t] >= 2 => PastRead(t, i)' /\ Mid(t, i)' /\ Call(t)' = Call(t)
    BY <1>1, TimerPast
  <1>6. pc[t] \in Nat /\ pc[t] >= 1 /\ AddAt(metrics[i]) \in {2, 4} /\ pc'[t] \in Nat
    BY DEF BInv, Types, AddAt
  <1>7. /\ pc[t] >= 2 => Phase(t, i) = IF pc[t] <= AddAt(metrics[i]) THEN "took" ELSE "added"
        /\ OnTo(t) => Phase(t, i)' = IF pc'[t] <= AddAt(metrics[i]) THEN "took" ELSE "added"
        /\ OnTo(t) => Averaged(t, i)' /\ PastRead(t, i)' /\ pc'[t] = pc[t] + 1
    <2>1. pc[t] >= 2 => Mid(t, i)
      BY <1>1 DEF Mid
    <2>2. OnTo(t) => PastRead(t, i)' /\ Mid(t, i)' /\ Call(t)' = Call(t) /\ pc'[t] = pc[t] + 1
      BY <1>5, <1>6 DEF OnTo
    <2> QED
      BY <1>1, <2>1, <2>2 DEF Phase, Averaged
  <1>8. /\ hist[i].received \in Nat /\ hist[i].told \in Int
    BY RateNumbers
  <1>9. CASE pc[t] = 1 /\ OnTo(t) /\ SameSums(i) /\ loc'[t].reg = Got(Sub(i))
    <2>1. 0 <= d /\ d <= x
      BY <1>3, <1>5, <1>9
    <2>2. loc'[t].reg = Scale * b
      BY <1>3, <1>9, Whole
    <2>3. Phase(t, i)' = "took"
      BY <1>6, <1>7, <1>9
    <2>4. d + b - b <= x /\ b <= b
      BY <2>1
    <2>5. Owed("took", a, b, d, x, loc'[t].reg)
      BY <2>1, <2>2, <2>4 DEF Owed
    <2>6. Sum(i)' = Scale * a /\ Sub(i)' = Scale * b
      BY <1>3, <1>9 DEF SameSums
    <2>7. Account(i, a, b)'
      BY <1>1, <1>2, <1>3, <1>4, <1>7, <1>9, <2>3, <2>5, <2>6, AccountOf
    <2> QED
      BY <2>7
  <1>10. CASE /\ pc[t] \in {2, 3, 4} /\ pc[t] # AddAt(metrics[i]) /\ OnTo(t) /\ SameSums(i)
              /\ loc'[t].reg = loc[t].reg
    <2>1. Phase(t, i)' = Phase(t, i)
      BY <1>6, <1>7, <1>10
    <2>2. Sum(i)' = Scale * a /\ Sub(i)' = Scale * b
      BY <1>3, <1>10 DEF SameSums
    <2>3. Owed(Phase(t, i)', a, b, d, x, loc'[t].reg)
      BY <1>3, <1>5, <1>10, <2>1
    <2>4. Account(i, a, b)'
      BY <1>1, <1>2, <1>3, <1>4, <1>7, <1>10, <2>2, <2>3, AccountOf
    <2> QED
      BY <2>4
  <1>11. CASE /\ pc[t] = AddAt(metrics[i]) /\ OnTo(t) /\ Sum(i)' = Sum(i) + loc[t].reg
              /\ Sub(i)' = Sub(i)
    <2>1. Phase(t, i) = "took" /\ Phase(t, i)' = "added" /\ PastRead(t, i)
      BY <1>5, <1>6, <1>7, <1>11
    <2>2. PICK c \in Nat : loc[t].reg = Scale * c /\ c <= b /\ 0 <= d /\ d + b - c <= x
      BY <1>3, <2>1, OwedCases
    <2>3. PICK a2 \in Nat, d2 \in Int : a2 = a + c /\ d2 = d - c
      OBVIOUS
    <2>4. Sum(i)' = Scale * a2 /\ Sub(i)' = Scale * b
      BY <1>3, <1>11, <2>2, <2>3, Whole
    <2>5. 0 <= d2 + b /\ d2 + b <= x
      BY <2>2, <2>3
    <2>6. Owed("added", a2, b, d2, x, loc'[t].reg)
      BY <2>5 DEF Owed
    <2>7. d2 = hist'[i].received - hist'[i].told - a2 - b
      BY <1>3, <1>4, <1>8, <2>3
    <2>8. Account(i, a2, b)'
      BY <1>1, <1>2, <1>4, <1>7, <1>11, <2>1, <2>4, <2>6, <2>7, AccountOf
    <2> QED
      BY <2>8
  <1>12. CASE pc[t] = 5 /\ Leaves(t) /\ Sum(i)' = Sum(i) /\ Sub(i)' = 0
    <2>1. Phase(t, i) = "added" /\ PastRead(t, i)
      BY <1>5, <1>6, <1>7, <1>12
    <2>2. 0 <= d + b /\ d + b <= x
      BY <1>3, <2>1, OwedCases
    <2>3. PICK d2 \in Int : d2 = d + b
      OBVIOUS
    <2>4. Sum(i)' = Scale * a /\ Sub(i)' = Scale * 0
      BY <1>3, <1>12, Whole
    <2>5. d2 = hist'[i].received - hist'[i].told - a - 0
      BY <1>3, <1>4, <1>8, <2>3
    <2>6. ~Mid(t, i)'
      BY <1>12 DEF Mid, Leaves
    <2>7. Phase(t, i)' = "past" /\ Averaged(t, i)'
      BY <2>6 DEF Phase, Averaged
    <2>8. Owed("past", a, 0, d2, x, loc'[t].reg) /\ Owed("free", a, 0, d2, x, 0)
      BY <2>2, <2>3 DEF Owed
    <2>9. Account(i, a, 0)'
      BY <1>1, <1>2, <1>4, <2>4, <2>5, <2>7, <2>8, AccountOf
    <2> QED
      BY <2>9
  <1> QED
    BY <1>9, <1>10, <1>11, <1>12 DEF RateTimer

\* The interval ends.
LEMMA RateEndKeeps ==
    ASSUME BInv, BInv', metrics' = metrics, NEW i \in Index, metrics[i] \in Rates,
           NEW t \in Thread, Acts(t, i), RateEnd(t, i), TellsOnce(t), Solo, ~overlapped,
           NEW a \in Nat, NEW b \in Nat, Account(i, a, b)
    PROVE  \E a2, b2 \in Nat : Account(i, a2, b2)'
  <1>1. t \in Callback /\ Call(t).ev = "interval" /\ Busy(t) /\ At(t) = i /\ Others(t)
    BY DEF RateEnd, Acts
  <1>2. \A u \in Callback : u # t => ~PastRead(u, i) /\ ~PastRead(u, i)'
    BY <1>1, OnlyOne
  <1>3. PICK d \in Int, x \in Nat :
          /\ d = hist[i].received - hist[i].told - a - b /\ x = hist[i].exposed
          /\ Sum(i) = Scale * a /\ Sub(i) = Scale * b
          /\ PastRead(t, i) => Owed(Phase(t, i), a, b, d, x, loc[t].reg) /\ Averaged(t, i)
    BY <1>1, <1>2, AccountIs
  <1>4. /\ PastRead(t, i)
        /\ work'[t] = work[t] /\ pc'[t] >= 2 => PastRead(t, i)' /\ Mid(t, i)' /\ Call(t)' = Call(t)
    BY <1>1, TimerPast
  <1>5. pc[t] \in Nat /\ pc[t] >= 1 /\ pc'[t] \in Nat
    BY DEF BInv, Types
  <1>6. hist[i].received \in Nat /\ hist[i].told \in Int
    BY RateNumbers
  <1>7. Phase(t, i) = IF pc[t] \in {8, 9, 10} THEN "told" ELSE "past"
    BY <1>1 DEF Phase, Mid
  <1>8. /\ pc[t] \in {8, 9, 10} => 0 <= d + a /\ d + a + b <= x
        /\ pc[t] \notin {8, 9, 10} => 0 <= d /\ d + b <= x
    <2>1. Owed(Phase(t, i), a, b, d, x, loc[t].reg)
      BY <1>3, <1>4
    <2>2. pc[t] \in {8, 9, 10} => Owed("told", a, b, d, x, loc[t].reg)
      BY <1>7, <2>1
    <2>3. pc[t] \notin {8, 9, 10} => Owed("past", a, b, d, x, loc[t].reg)
      BY <1>7, <2>1
    <2> QED
      BY <2>2, <2>3, OwedCases
  <1>9. /\ pc[t] = 2 => loc[t].reg * Interval = Sum(i)
        /\ pc[t] = 3 => Avg(i) * Interval = Sum(i)
        /\ pc[t] \in {4, 5, 6, 7} => loc[t].msg.avg * Interval = Sum(i)
    BY <1>1, <1>3, <1>4 DEF Averaged, Mid
  \* The numbers that the step leaves, and the average
  <1>10. ASSUME NEW a2 \in Nat, NEW b2 \in Nat, NEW d2 \in Int,
                work'[t] = work[t], pc'[t] >= 2,
                Sum(i)' = Scale * a2, Sub(i)' = Scale * b2, hist'[i].exposed = x,
                d2 = hist'[i].received - hist'[i].told - a2 - b2,
                pc'[t] \in {8, 9, 10} => 0 <= d2 + a2 /\ d2 + a2 + b2 <= x,
                pc'[t] \notin {8, 9, 10} => 0 <= d2 /\ d2 + b2 <= x,
                pc'[t] = 2 => loc'[t].reg * Interval = Sum(i)',
                pc'[t] = 3 => Avg(i)' * Interval = Sum(i)',
                pc'[t] \in {4, 5, 6, 7} => loc'[t].msg.avg * Interval = Sum(i)'
         PROVE  Account(i, a2, b2)'
    <2>1. PastRead(t, i)' /\ Mid(t, i)' /\ Call(t)' = Call(t)
      BY <1>4, <1>10
    <2>2. Phase(t, i)' = IF pc'[t] \in {8, 9, 10} THEN "told" ELSE "past"
      BY <1>1, <2>1 DEF Phase
    <2>3. Owed(Phase(t, i)', a2, b2, d2, x, loc'[t].reg)
      <3>1. PICK r : r = loc'[t].reg
        OBVIOUS
      <3>2. Owed(IF pc'[t] \in {8, 9, 10} THEN "told" ELSE "past", a2, b2, d2, x, r)
        <4>1. CASE pc'[t] \in {8, 9, 10}
          BY <1>10, <4>1 DEF Owed
        <4>2. CASE pc'[t] \notin {8, 9, 10}
          BY <1>10, <4>2 DEF Owed
        <4> QED
          BY <4>1, <4>2
      <3> QED
        BY <2>2, <3>1, <3>2
    <2>4. Averaged(t, i)'
      BY <1>10 DEF Averaged
    <2> QED
      BY <1>1, <1>2, <1>10, <2>1, <2>3, <2>4, AccountOf
  <1>11. ASSUME NEW w, work'[t] = w, pc'[t] = 1, SameSums(i), SameHist(i), pc[t] \notin {8, 9, 10}
         PROVE  Account(i, a, b)'
    <2>1. ~Mid(t, i)'
      BY <1>11 DEF Mid
    <2>2. Phase(t, i)' = "past" /\ Averaged(t, i)'
      BY <2>1 DEF Phase, Averaged
    <2>3. Owed("past", a, b, d, x, loc'[t].reg) /\ Owed("free", a, b, d, x, 0)
      BY <1>8, <1>11 DEF Owed
    <2>4. /\ Sum(i)' = Scale * a /\ Sub(i)' = Scale * b
          /\ d = hist'[i].received - hist'[i].told - a - b /\ x = hist'[i].exposed
      BY <1>3, <1>11 DEF SameSums, SameHist
    <2> QED
      BY <1>1, <1>2, <2>2, <2>3, <2>4, AccountOf
  \* A step that changes none of the numbers
  <1>12. ASSUME work'[t] = work[t], pc'[t] >= 2, SameSums(i), SameHist(i),
                pc[t] \in {8, 9, 10} <=> pc'[t] \in {8, 9, 10},
                pc'[t] = 2 => loc'[t].reg * Interval = Sum(i),
                pc'[t] = 3 => Avg(i)' * Interval = Sum(i),
                pc'[t] \in {4, 5, 6, 7} => loc'[t].msg.avg * Interval = Sum(i)
         PROVE  Account(i, a, b)'
    <2>1. /\ Sum(i)' = Scale * a /\ Sub(i)' = Scale * b /\ hist'[i].exposed = x
          /\ d = hist'[i].received - hist'[i].told - a - b /\ Sum(i)' = Sum(i)
      BY <1>3, <1>12 DEF SameSums, SameHist
    <2>2. /\ pc'[t] \in {8, 9, 10} => 0 <= d + a /\ d + a + b <= x
          /\ pc'[t] \notin {8, 9, 10} => 0 <= d /\ d + b <= x
      BY <1>8, <1>12
    <2> QED
      BY <1>10, <1>12, <2>1, <2>2
  <1>13. CASE pc[t] = 1 /\ OnTo(t) /\ SameSums(i) /\ loc'[t].reg = Sum(i) \div Interval
              /\ SameHist(i)
    <2>1. work'[t] = work[t] /\ pc'[t] = 2
      BY <1>13 DEF OnTo
    <2>2. loc'[t].reg * Interval = Sum(i)
      BY <1>3, <1>13, WholeAverage
    <2>3. Account(i, a, b)'
      BY <1>12, <1>13, <2>1, <2>2
    <2> QED
      BY <2>3
  <1>14. CASE pc[t] = 2 /\ OnTo(t) /\ SameSums(i) /\ SameHist(i) /\ Avg(i)' = loc[t].reg
    <2>1. work'[t] = work[t] /\ pc'[t] = 3
      BY <1>14 DEF OnTo
    <2>2. Account(i, a, b)'
      BY <1>9, <1>12, <1>14, <2>1
    <2> QED
      BY <2>2
  <1>15. CASE pc[t] = 3 /\ OnTo(t) /\ SameSums(i) /\ SameHist(i) /\ loc'[t].msg.avg = Avg(i)
    <2>1. work'[t] = work[t] /\ pc'[t] = 4
      BY <1>15 DEF OnTo
    <2>2. Account(i, a, b)'
      BY <1>9, <1>12, <1>15, <2>1
    <2> QED
      BY <2>2
  <1>16. CASE /\ pc[t] \in {4, 5, 6} /\ work'[t] = work[t] /\ pc'[t] \in {5, 6, 7}
              /\ SameSums(i) /\ SameHist(i) /\ loc'[t].msg.avg = loc[t].msg.avg
    <2>1. Account(i, a, b)'
      BY <1>9, <1>12, <1>16
    <2> QED
      BY <2>1
  <1>17. CASE pc[t] = 7 /\ Ends(t) /\ SameSums(i) /\ SameHist(i)
    BY <1>11, <1>17 DEF Ends
  <1>18. CASE /\ pc[t] = 7 /\ OnTo(t) /\ SameSums(i)
              /\ hist'[i].received = hist[i].received /\ hist'[i].exposed = hist[i].exposed
              /\ hist'[i].told = hist[i].told + (loc[t].msg.avg * Interval) \div Scale
    <2>1. (loc[t].msg.avg * Interval) \div Scale = a
      BY <1>3, <1>9, <1>18, Whole
    <2>2. work'[t] = work[t] /\ pc'[t] = 8
      BY <1>18 DEF OnTo
    <2>3. PICK d2 \in Int : d2 = d - a
      OBVIOUS
    <2>4. d2 = hist'[i].received - hist'[i].told - a - b
      BY <1>3, <1>6, <1>18, <2>1, <2>3
    <2>5. 0 <= d2 + a /\ d2 + a + b <= x
      BY <1>8, <1>18, <2>3
    <2>6. Sum(i)' = Scale * a /\ Sub(i)' = Scale * b /\ hist'[i].exposed = x
      BY <1>3, <1>18 DEF SameSums
    <2>7. Account(i, a, b)'
      BY <1>10, <2>2, <2>4, <2>5, <2>6
    <2> QED
      BY <2>7
  <1>19. CASE pc[t] = 8 /\ OnTo(t) /\ SameSums(i) /\ SameHist(i)
    <2>1. work'[t] = work[t] /\ pc'[t] = 9
      BY <1>19 DEF OnTo
    <2>2. Account(i, a, b)'
      BY <1>12, <1>19, <2>1
    <2> QED
      BY <2>2
  <1>20. CASE pc[t] = 9 /\ OnTo(t) /\ Sum(i)' = Sum(i) /\ Sub(i)' = 0 /\ SameHist(i)
    <2>1. work'[t] = work[t] /\ pc'[t] = 10
      BY <1>20 DEF OnTo
    <2>2. PICK d2 \in Int : d2 = d + b
      OBVIOUS
    <2>3. d2 = hist'[i].received - hist'[i].told - a - 0 /\ hist'[i].exposed = x
      BY <1>3, <1>6, <1>20, <2>2 DEF SameHist
    <2>4. 0 <= d2 + a /\ d2 + a + 0 <= x
      BY <1>8, <1>20, <2>2
    <2>5. Sum(i)' = Scale * a /\ Sub(i)' = Scale * 0
      BY <1>3, <1>20, Whole
    <2>6. Account(i, a, 0)'
      BY <1>10, <2>1, <2>3, <2>4, <2>5
    <2> QED
      BY <2>6
  <1>21. CASE pc[t] = 10 /\ OnTo(t) /\ Sum(i)' = 0 /\ Sub(i)' = Sub(i) /\ SameHist(i)
    <2>1. work'[t] = work[t] /\ pc'[t] = 11
      BY <1>21 DEF OnTo
    <2>2. PICK d2 \in Int : d2 = d + a
      OBVIOUS
    <2>3. d2 = hist'[i].received - hist'[i].told - 0 - b /\ hist'[i].exposed = x
      BY <1>3, <1>6, <1>21, <2>2 DEF SameHist
    <2>4. 0 <= d2 /\ d2 + b <= x
      BY <1>8, <1>21, <2>2
    <2>5. Sum(i)' = Scale * 0 /\ Sub(i)' = Scale * b
      BY <1>3, <1>21, Whole
    <2>6. Account(i, 0, b)'
      BY <1>10, <2>1, <2>3, <2>4, <2>5
    <2> QED
      BY <2>6
  <1>22. CASE pc[t] \in {11, 12, 13} /\ OnTo(t) /\ SameSums(i) /\ SameHist(i)
    <2>1. work'[t] = work[t] /\ pc'[t] \in {12, 13, 14}
      BY <1>22 DEF OnTo
    <2>2. Account(i, a, b)'
      BY <1>12, <1>22, <2>1
    <2> QED
      BY <2>2
  <1>23. CASE pc[t] = 14 /\ Leaves(t) /\ SameSums(i) /\ SameHist(i)
    <2>1. pc'[t] = 1 /\ \E w : work'[t] = w
      BY <1>23 DEF Leaves
    <2>2. Account(i, a, b)'
      BY <1>11, <1>23, <2>1
    <2> QED
      BY <2>2
  <1> QED
    BY <1>13, <1>14, <1>15, <1>16, <1>17, <1>18, <1>19, <1>20, <1>21, <1>22, <1>23
       DEF RateEnd

\* No step loses a request that came in time.
LEMMA RateInvNext ==
    ASSUME BInv, BInv', AnyStep, metrics' = metrics, Solo, overlapped => overlapped',
           \A u \in Callback : TellsOnce(u), NEW i \in Index, metrics[i] \in Rates, RateInv(i)
    PROVE  RateInv(i)'
  <1> SUFFICES ASSUME ~overlapped' PROVE \E a, b \in Nat : Account(i, a, b)'
    BY DEF RateInv
  <1>1. ~overlapped
    OBVIOUS
  <1>2. PICK a, b \in Nat : Account(i, a, b)
    BY <1>1 DEF RateInv
  <1>3. CASE \A t \in Thread : ~Acts(t, i)
    <2>1. Aside(i)
      BY <1>3, ListView
    <2>2. Account(i, a, b)'
      BY <1>2, <1>3, <2>1, RateAside
    <2> QED
      BY <2>2
  <1>4. ASSUME NEW t \in Thread, Acts(t, i) PROVE \E a2, b2 \in Nat : Account(i, a2, b2)'
    <2>1. RateData(t, i) \/ RateTimer(t, i) \/ RateEnd(t, i)
      BY <1>4, RateSteps
    <2>2. CASE RateData(t, i)
      <3>1. Account(i, a, b + 1)' /\ b + 1 \in Nat
        BY <1>2, <1>4, <2>2, RateDataKeeps
      <3> QED
        BY <3>1
    <2>3. CASE RateTimer(t, i)
      <3>1. TellsOnce(t)
        BY <2>3 DEF RateTimer
      <3> QED
        BY <1>1, <1>2, <1>4, <2>3, <3>1, RateTimerKeeps
    <2>4. CASE RateEnd(t, i)
      <3>1. TellsOnce(t)
        BY <2>4 DEF RateEnd
      <3> QED
        BY <1>1, <1>2, <1>4, <2>4, <3>1, RateEndKeeps
    <2> QED
      BY <2>1, <2>2, <2>3, <2>4
  <1> QED
    BY <1>3, <1>4

\* The invariant of the rates
AInv == /\ BInv /\ NodeInv /\ Solo /\ \A u \in Callback : TellsOnce(u)
        /\ \A i \in Index : metrics[i] \in Rates => RateInv(i)

\* It holds at first,
LEMMA AInvInit ==
    ASSUME Init
    PROVE  AInv
  <1>1. BInv /\ NodeInv
    BY InitBasic
  <1>2. \A u \in Callback : ~Busy(u) /\ work[u] = <<>>
    BY DEF Init, Busy, Thread
  <1>3. Solo
    BY <1>2 DEF Solo
  <1>4. \A u \in Callback : TellsOnce(u)
    <2> TAKE u \in Callback
    <2>1. work[u] = <<>> /\ Len(work[u]) = 0
      BY <1>2
    <2>2. 1..Len(work[u]) = {}
      BY <2>1
    <2> QED
      BY <1>2, <2>2 DEF TellsOnce, ProcessFirst
  <1>5. ASSUME NEW i \in Index PROVE RateInv(i)
    <2>1. \A u \in Callback : ~PastRead(u, i)
      BY <1>2 DEF PastRead
    <2>2. obj[i] = NewMetric /\ hist[i] = NewHistory
      BY DEF Init
    <2>3. Sum(i) = 0 /\ Sub(i) = 0
      BY <2>2 DEF Sum, Sub, NewMetric, ValueName
    <2>4. hist[i].received = 0 /\ hist[i].exposed = 0 /\ hist[i].told = 0
      BY <2>2 DEF NewHistory
    <2>5. Sum(i) = Scale * 0 /\ Sub(i) = Scale * 0
      BY <2>3, Whole
    <2>6. Owed("free", 0, 0, hist[i].received - hist[i].told - 0 - 0, hist[i].exposed, 0)
      BY <2>4 DEF Owed
    <2>7. Account(i, 0, 0)
      BY <2>1, <2>5, <2>6 DEF Account
    <2> QED
      BY <2>7 DEF RateInv
  <1> QED
    BY <1>1, <1>3, <1>4, <1>5 DEF AInv

\* and every step keeps it.
LEMMA AInvNext ==
    ASSUME AInv, [Next]_vars
    PROVE  AInv'
  <1>1. BInv /\ NodeInv /\ Solo /\ \A u \in Callback : TellsOnce(u)
    BY DEF AInv
  <1>2. BInv' /\ AnyStep /\ metrics' = metrics
    BY <1>1, NextCases
  <1>3. NodeInv'
    BY <1>1, <1>2, NodeInvNext
  <1>4. Solo' /\ (overlapped => overlapped')
    BY <1>1, <1>2, SoloNext
  <1>5. \A u \in Callback : TellsOnce(u)'
    BY <1>1, <1>2, TellsNext
  <1>6. ASSUME NEW i \in Index, metrics[i] \in Rates PROVE RateInv(i)'
    <2>1. RateInv(i)
      BY <1>6 DEF AInv
    <2> QED
      BY <1>1, <1>2, <1>4, <1>6, <2>1, RateInvNext
  <1>7. Index' = Index
    BY <1>2 DEF Index
  <1> QED
    BY <1>2, <1>3, <1>4, <1>5, <1>6, <1>7 DEF AInv

\* RequestsAccounted, for any number of callbacks, rates, requests and
\* seconds: as long as callbacks do not overlap, ReqRate and ConnRate lose a
\* request only if it arrives between a callback's read of subtotal and the
\* callback's end, and count none twice.
THEOREM RatesAccountForRequests == Spec => []RequestsAccounted
  <1>1. Init => AInv
    BY AInvInit
  <1>2. AInv /\ [Next]_vars => AInv'
    BY AInvNext
  <1>3. AInv => RequestsAccounted
    <2> SUFFICES ASSUME AInv, NEW i \in Index, metrics[i] \in Rates, ~overlapped, Quiet
                 PROVE  hist[i].received - hist[i].told
                          - (Sum(i) + Sub(i)) \div Scale \in 0..hist[i].exposed
      BY DEF RequestsAccounted, Sum, Sub
    <2>1. PICK a, b \in Nat : Account(i, a, b)
      BY DEF AInv, RateInv
    <2>2. \A u \in Callback : ~PastRead(u, i)
      BY DEF Quiet, PastRead
    <2>3. PICK d, x : d = hist[i].received - hist[i].told - a - b /\ x = hist[i].exposed
      OBVIOUS
    <2>4. Sum(i) = Scale * a /\ Sub(i) = Scale * b /\ Owed("free", a, b, d, x, 0)
      BY <2>1, <2>2, <2>3 DEF Account
    <2>5. hist[i].received \in Nat /\ hist[i].exposed \in Nat /\ hist[i].told \in Int
      BY RateNumbers DEF AInv
    <2>6. d \in Int /\ x \in Nat
      BY <2>3, <2>5
    <2>7. 0 <= d /\ d <= x
      BY <2>4, <2>6, OwedCases
    <2>8. (Sum(i) + Sub(i)) \div Scale = a + b
      <3>1. a + b \in Nat /\ Sum(i) + Sub(i) = Scale * (a + b)
        BY <2>4, Whole
      <3> QED
        BY <3>1, Whole
    <2> QED
      BY <2>3, <2>5, <2>6, <2>7, <2>8
  <1> QED
    BY <1>1, <1>2, <1>3, PTL DEF Spec

-----------------------------------------------------------------------------
(***************************************************************************)
(* The records of a distribution and the list that is made of them         *)
(***************************************************************************)

\* What the first n records count, together
Firsts(q, n) == [k \in 1..n |-> q[k].cnt]
Prefix(q, n) == SumOf(Firsts(q, n))

\* The sequence that is added up
LEMMA FirstsType ==
    ASSUME NEW q \in Seq(RecordSet), NEW n \in 0..Len(q)
    PROVE  /\ Firsts(q, n) \in Seq(Int) /\ Len(Firsts(q, n)) = n /\ n \in Nat
           /\ \A k \in 1..n : Firsts(q, n)[k] = q[k].cnt /\ q[k].cnt \in Int
           /\ Prefix(q, n) \in Int
  <1>1. n \in Nat /\ Len(q) \in Nat /\ \A k \in 1..n : q[k] \in RecordSet
    OBVIOUS
  <1>2. \A k \in 1..n : q[k].cnt \in Int
    BY <1>1 DEF RecordSet
  <1>3. Firsts(q, n) \in Seq(Int) /\ Len(Firsts(q, n)) = n
    BY <1>1, <1>2 DEF Firsts
  <1>4. \A k \in 1..n : Firsts(q, n)[k] = q[k].cnt
    BY DEF Firsts
  <1>5. Prefix(q, n) \in Int
    BY <1>3, SumType DEF Prefix
  <1> QED
    BY <1>1, <1>2, <1>3, <1>4, <1>5

\* One record more
LEMMA PrefixStep ==
    ASSUME NEW q \in Seq(RecordSet)
    PROVE  /\ Prefix(q, 0) = 0
           /\ \A n \in 1..Len(q) : Prefix(q, n) = Prefix(q, n - 1) + q[n].cnt
  <1>0. Len(q) \in Nat
    OBVIOUS
  <1>1. Prefix(q, 0) = 0
    <2>1. Firsts(q, 0) \in Seq(Int) /\ Len(Firsts(q, 0)) = 0
      BY <1>0, FirstsType
    <2>2. Firsts(q, 0) = <<>>
      BY <2>1
    <2> QED
      BY <2>1, <2>2, SumType DEF Prefix
  <1>2. ASSUME NEW n \in 1..Len(q) PROVE Prefix(q, n) = Prefix(q, n - 1) + q[n].cnt
    <2>1. PICK m : m = n - 1
      OBVIOUS
    <2>2. m \in 0..Len(q) /\ n \in 0..Len(q) /\ n = m + 1 /\ m \in Nat
      BY <1>0, <2>1
    <2>3. PICK f, g, c : f = Firsts(q, m) /\ g = Firsts(q, n) /\ c = q[n].cnt
      OBVIOUS
    <2>4. /\ f \in Seq(Int) /\ Len(f) = m /\ \A k \in 1..m : f[k] = q[k].cnt
          /\ g \in Seq(Int) /\ Len(g) = n /\ \A k \in 1..n : g[k] = q[k].cnt /\ q[k].cnt \in Int
      BY <2>2, <2>3, FirstsType
    <2>5. \A k \in 1..m : k \in 1..n
      BY <2>2
    <2>6. (\A k \in 1..m : g[k] = f[k]) /\ g[m + 1] = c /\ c \in Int /\ Len(g) = m + 1
      <3>1. /\ \A k \in 1..m : f[k] = q[k].cnt
            /\ \A k \in 1..n : g[k] = q[k].cnt /\ q[k].cnt \in Int
            /\ Len(g) = n
        BY <2>4
      <3>2. n \in 1..n
        BY <2>2
      <3>3. g[n] = c /\ c \in Int
        BY <2>3, <3>1, <3>2
      <3> QED
        BY <2>2, <2>5, <3>1, <3>3
    <2>7. g = Append(f, c)
      <3>1. f \in Seq(Int) /\ g \in Seq(Int) /\ Len(f) = m
        BY <2>4
      <3> QED
        BY <2>2, <2>6, <3>1
    <2>8. SumOf(Append(f, c)) = SumOf(f) + c
      BY <2>4, <2>6, SumAppend
    <2>9. SumOf(g) = SumOf(f) + c
      BY <2>7, <2>8
    <2> QED
      BY <2>1, <2>3, <2>9 DEF Prefix
  <1> QED
    BY <1>1, <1>2

\* Larger counts, and more records, have a larger sum.
LEMMA PrefixGrows ==
    ASSUME NEW q \in Seq(RecordSet), NEW p \in Seq(RecordSet),
           NEW n \in 0..Len(q), NEW m \in 0..Len(p), n <= m,
           \A k \in 1..n : 0 <= q[k].cnt /\ q[k].cnt <= p[k].cnt,
           \A k \in 1..m : 0 <= p[k].cnt
    PROVE  Prefix(q, n) <= Prefix(p, m)
  <1>1. PICK f, g : f = Firsts(q, n) /\ g = Firsts(p, m)
    OBVIOUS
  <1>2. f \in Seq(Int) /\ Len(f) = n /\ n \in Nat /\ g \in Seq(Int) /\ Len(g) = m /\ m \in Nat
    BY <1>1, FirstsType
  <1>3. /\ \A k \in 1..n : f[k] = q[k].cnt /\ q[k].cnt \in Int
        /\ \A k \in 1..m : g[k] = p[k].cnt /\ p[k].cnt \in Int
    BY <1>1, FirstsType
  <1>n. n \in Nat /\ m \in Nat
    BY <1>2
  <1>4. (\A k \in 1..n : q[k].cnt \in Nat) /\ \A k \in 1..m : p[k].cnt \in Nat
    <2>1. \A z \in Int : 0 <= z => z \in Nat
      OBVIOUS
    <2> QED
      BY <1>3, <2>1
  <1>5. f \in Seq(Nat) /\ g \in Seq(Nat)
    <2>1. f = [k \in 1..n |-> q[k].cnt] /\ g = [k \in 1..m |-> p[k].cnt]
      BY <1>1 DEF Firsts
    <2> QED
      BY <1>n, <1>4, <2>1
  <1>6. \A k \in 1..n : k \in 1..m /\ f[k] <= g[k]
    <2> TAKE k \in 1..n
    <2>1. k \in 1..m
      BY <1>n
    <2>2. f[k] = q[k].cnt /\ g[k] = p[k].cnt /\ q[k].cnt <= p[k].cnt
      BY <1>3, <2>1
    <2> QED
      BY <2>1, <2>2
  <1>7. SumOf(f) <= SumOf(g)
    <2>1. Len(f) <= Len(g) /\ \A k \in 1..Len(f) : f[k] <= g[k]
      BY <1>2, <1>3, <1>6
    <2> QED
      BY <1>5, <2>1, SumSmaller
  <1> QED
    BY <1>1, <1>7 DEF Prefix

\* A record is added, or counts one more.
OneMore(q, x, p) ==
    \/ /\ \A k \in 1..Len(q) : q[k].name # x
       /\ p = Append(q, [name |-> x, cnt |-> 1])
    \/ \E j \in 1..Len(q) : q[j].name = x /\ p = Recount(q, j, q[j].cnt + 1)

\* What that means for the records
LEMMA OneMoreFacts ==
    ASSUME NEW q \in Seq(RecordSet), NEW x \in Names, NEW p, OneMore(q, x, p)
    PROVE  /\ p \in Seq(RecordSet) /\ Len(q) <= Len(p)
           /\ \A k \in 1..Len(q) :
                /\ p[k].name = q[k].name
                /\ p[k].cnt = IF q[k].name = x /\ p[k] # q[k] THEN q[k].cnt + 1 ELSE q[k].cnt
           /\ Prefix(p, Len(p)) = Prefix(q, Len(q)) + 1
  <1>0. Len(q) \in Nat
    OBVIOUS
  <1>1. CASE p = Append(q, [name |-> x, cnt |-> 1])
    <2>1. PICK r : r = [name |-> x, cnt |-> 1]
      OBVIOUS
    <2>2. r \in RecordSet /\ r.cnt = 1
      BY <2>1 DEF RecordSet
    <2>3. p \in Seq(RecordSet) /\ Len(p) = Len(q) + 1 /\ \A k \in 1..Len(q) : p[k] = q[k]
      BY <1>1, <2>1, <2>2
    <2>4. p[Len(q) + 1] = r
      BY <1>1, <2>1, <2>2
    <2>5. PICK m : m = Len(p)
      OBVIOUS
    <2>6. m \in 1..Len(p) /\ m - 1 = Len(q) /\ Len(q) \in 0..Len(p) /\ Len(q) \in 0..Len(q)
          /\ p[m] = r
      BY <1>0, <2>3, <2>4, <2>5
    <2>7. Prefix(p, m) = Prefix(p, Len(q)) + 1
      BY <2>2, <2>3, <2>6, PrefixStep
    <2>8. Firsts(p, Len(q)) = Firsts(q, Len(q))
      BY <2>3 DEF Firsts
    <2>9. Prefix(p, m) = Prefix(q, Len(q)) + 1
      BY <2>7, <2>8 DEF Prefix
    <2>10. Len(q) <= Len(p)
      BY <1>0, <2>3
    <2> QED
      BY <2>3, <2>5, <2>9, <2>10
  <1>2. ASSUME NEW j \in 1..Len(q), q[j].name = x, p = Recount(q, j, q[j].cnt + 1)
        PROVE  /\ p \in Seq(RecordSet) /\ Len(q) <= Len(p)
               /\ \A k \in 1..Len(q) :
                    /\ p[k].name = q[k].name
                    /\ p[k].cnt = IF q[k].name = x /\ p[k] # q[k] THEN q[k].cnt + 1 ELSE q[k].cnt
               /\ Prefix(p, Len(p)) = Prefix(q, Len(q)) + 1
    <2>1. q[j] \in RecordSet
      OBVIOUS
    <2>2. q[j].cnt \in Int
      BY <2>1 DEF RecordSet
    <2>3. PICK c \in Int : c = q[j].cnt + 1
      BY <2>2
    <2>4. Recounted(q, x, j, c, p)
      BY <1>2, <2>3, CountExcept
    <2>5. /\ p \in Seq(RecordSet) /\ Len(p) = Len(q) /\ p[j].cnt = c
          /\ \A k \in 1..Len(q) : p[k].name = q[k].name /\ (k # j => p[k] = q[k])
      BY <2>4 DEF Recounted
    <2>6. PICK f, g, n : f = Firsts(q, n) /\ g = Firsts(p, n) /\ n = Len(q)
      OBVIOUS
    <2>7. n \in 0..Len(q) /\ n \in 0..Len(p)
      BY <1>0, <2>5, <2>6
    <2>8. /\ f \in Seq(Int) /\ Len(f) = n /\ \A k \in 1..n : f[k] = q[k].cnt
          /\ g \in Seq(Int) /\ Len(g) = n /\ \A k \in 1..n : g[k] = p[k].cnt
      BY <2>5, <2>6, <2>7, FirstsType
    <2>9. \A k \in 1..n : k # j => g[k] = f[k]
      BY <2>5, <2>6, <2>8
    <2>10. f[j] = q[j].cnt /\ g[j] = c
      BY <2>5, <2>6, <2>8
    <2>11. SumOf(g) = SumOf(f) + g[j] - f[j]
      <3>1. f \in Seq(Int) /\ g \in Seq(Int) /\ Len(g) = Len(f) /\ j \in 1..Len(f)
        BY <2>6, <2>8
      <3>2. \A k \in 1..Len(f) : k # j => g[k] = f[k]
        BY <2>8, <2>9
      <3> QED
        BY <3>1, <3>2, SumExcept
    <2>12. SumOf(f) \in Int
      BY <2>8, SumType
    <2>13. SumOf(g) = SumOf(f) + 1
      BY <2>2, <2>3, <2>10, <2>11, <2>12
    <2>14. Prefix(p, Len(p)) = Prefix(q, Len(q)) + 1
      BY <2>5, <2>6, <2>13 DEF Prefix
    <2>15. \A k \in 1..Len(q) :
             p[k].cnt = IF q[k].name = x /\ p[k] # q[k] THEN q[k].cnt + 1 ELSE q[k].cnt
      <3> TAKE k \in 1..Len(q)
      <3>1. CASE k = j
        <4>1. p[j] # q[j]
          BY <2>2, <2>3, <2>5
        <4> QED
          BY <1>2, <2>3, <2>5, <3>1, <4>1
      <3>2. CASE k # j
        BY <2>5, <3>2
      <3> QED
        BY <3>1, <3>2
    <2> QED
      BY <1>0, <2>5, <2>14, <2>15
  <1> QED
    BY <1>1, <1>2 DEF OneMore

\* A name has one record, which counts it.
ExactRecords(q, done) ==
    \A x \in Names :
        /\ \A j, k \in 1..Len(q) : q[j].name = x /\ q[k].name = x => j = k
        /\ (\A k \in 1..Len(q) : q[k].name # x) <=> done[x] = 0
        /\ \A k \in 1..Len(q) : q[k].name = x => q[k].cnt = done[x]

\* It still does, when one more is counted.
LEMMA ExactOneMore ==
    ASSUME NEW q \in Seq(RecordSet), NEW done \in [Names -> Nat], ExactRecords(q, done),
           NEW x \in Names, NEW p, OneMore(q, x, p)
    PROVE  ExactRecords(p, [done EXCEPT ![x] = done[x] + 1])
  <1> DEFINE d == [done EXCEPT ![x] = done[x] + 1]
  <1>0. Len(q) \in Nat /\ done[x] \in Nat /\ d[x] = done[x] + 1
        /\ \A y \in Names : y # x => d[y] = done[y]
    OBVIOUS
  <1> SUFFICES ASSUME NEW y \in Names
               PROVE  /\ \A j, k \in 1..Len(p) : p[j].name = y /\ p[k].name = y => j = k
                      /\ (\A k \in 1..Len(p) : p[k].name # y) <=> d[y] = 0
                      /\ \A k \in 1..Len(p) : p[k].name = y => p[k].cnt = d[y]
    BY DEF ExactRecords
  <1> HIDE DEF d
  <1>1. /\ \A j, k \in 1..Len(q) : q[j].name = y /\ q[k].name = y => j = k
        /\ (\A k \in 1..Len(q) : q[k].name # y) <=> done[y] = 0
        /\ \A k \in 1..Len(q) : q[k].name = y => q[k].cnt = done[y]
    BY DEF ExactRecords
  <1>2. CASE (\A k \in 1..Len(q) : q[k].name # x) /\ p = Append(q, [name |-> x, cnt |-> 1])
    <2>1. PICK r : r = [name |-> x, cnt |-> 1]
      OBVIOUS
    <2>2. r \in RecordSet /\ r.cnt = 1 /\ r.name = x
      BY <2>1 DEF RecordSet
    <2>3. Len(p) = Len(q) + 1 /\ (\A k \in 1..Len(q) : p[k] = q[k]) /\ p[Len(q) + 1] = r
      BY <1>2, <2>1, <2>2
    <2>4. \A k \in 1..Len(p) : k \in 1..Len(q) \/ k = Len(q) + 1
      BY <1>0, <2>3
    <2>5. Len(q) + 1 \in 1..Len(p) /\ \A k \in 1..Len(q) : k \in 1..Len(p)
      BY <1>0, <2>3
    <2>6. CASE y = x
      <3>1. done[x] = 0 /\ d[y] = 1
        BY <1>0, <1>1, <1>2, <2>6
      <3>2. \A k \in 1..Len(p) : p[k].name = y => k = Len(q) + 1
        BY <1>2, <2>3, <2>4, <2>6
      <3>3. p[Len(q) + 1].name = y /\ p[Len(q) + 1].cnt = 1
        BY <2>2, <2>3, <2>6
      <3> QED
        BY <2>5, <3>1, <3>2, <3>3
    <2>7. CASE y # x
      <3>1. d[y] = done[y]
        BY <1>0, <2>7
      <3>2. \A k \in 1..Len(p) : p[k].name = y => k \in 1..Len(q) /\ p[k] = q[k]
        BY <2>2, <2>3, <2>4, <2>7
      <3>3. \A k \in 1..Len(q) : q[k].name = y => k \in 1..Len(p) /\ p[k].name = y
        BY <2>3, <2>5
      <3> QED
        BY <1>1, <3>1, <3>2, <3>3, SMTT(40)
    <2> QED
      BY <2>6, <2>7
  <1>3. ASSUME NEW j \in 1..Len(q), q[j].name = x, p = Recount(q, j, q[j].cnt + 1)
        PROVE  /\ \A k, l \in 1..Len(p) : p[k].name = y /\ p[l].name = y => k = l
               /\ (\A k \in 1..Len(p) : p[k].name # y) <=> d[y] = 0
               /\ \A k \in 1..Len(p) : p[k].name = y => p[k].cnt = d[y]
    <2>1. q[j] \in RecordSet
      OBVIOUS
    <2>2. q[j].cnt \in Int
      BY <2>1 DEF RecordSet
    <2>3. PICK c \in Int : c = q[j].cnt + 1
      BY <2>2
    <2>4. Recounted(q, x, j, c, p)
      BY <1>3, <2>3, CountExcept
    <2>5. /\ Len(p) = Len(q) /\ p[j].cnt = c
          /\ \A k \in 1..Len(q) : p[k].name = q[k].name /\ (k # j => p[k] = q[k])
      BY <2>4 DEF Recounted
    <2>6. /\ \A k, l \in 1..Len(p) : p[k].name = y /\ p[l].name = y => k = l
      BY <1>1, <2>5
    <2>7. CASE y = x
      <3>1. q[j].cnt = done[x] /\ c = d[y] /\ d[y] # 0
        BY <1>0, <1>1, <1>3, <2>3, <2>7
      <3>2. \A k \in 1..Len(p) : p[k].name = y => k = j
        BY <1>1, <1>3, <2>5, <2>7
      <3>3. p[j].name = y /\ j \in 1..Len(p)
        BY <1>3, <2>5, <2>7
      <3> QED
        BY <2>5, <2>6, <3>1, <3>2, <3>3
    <2>8. CASE y # x
      <3>1. d[y] = done[y]
        BY <1>0, <2>8
      <3>2. \A k \in 1..Len(q) : q[k].name = y => p[k] = q[k]
        BY <1>3, <2>5, <2>8
      <3> QED
        BY <1>1, <2>5, <2>6, <3>1, <3>2
    <2> QED
      BY <2>7, <2>8
  <1> QED
    BY <1>2, <1>3 DEF OneMore

\* The counts that a list tells of
Cnts(r) == [k \in DOMAIN r |-> r[k][2]]

\* A list that may be sent: its names are different, and its frequencies
\* together at most 1
Sent(r) ==
    /\ \A j, k \in 1..Len(r) : j # k => r[j][1] # r[k][1]
    /\ r # <<>> => SumOf(Cnts(r)) <= r[Len(r)][3]

\* ... that is made of the first n records
Walked(r, q, n) ==
    /\ Sent(r)
    /\ \A j \in 1..Len(r) : \E m \in 1..n : q[m].name = r[j][1]
    /\ SumOf(Cnts(r)) <= Prefix(q, n)

\* The sequence that is added up
LEMMA CntsType ==
    ASSUME NEW r \in Seq(EntrySet)
    PROVE  /\ Cnts(r) \in Seq(Int) /\ Len(Cnts(r)) = Len(r) /\ SumOf(Cnts(r)) \in Int
           /\ \A k \in 1..Len(r) : Cnts(r)[k] = r[k][2] /\ r[k][2] \in Int
           /\ r = <<>> => SumOf(Cnts(r)) = 0
  <1>1. Len(r) \in Nat /\ DOMAIN r = 1..Len(r) /\ \A k \in 1..Len(r) : r[k] \in EntrySet
    OBVIOUS
  <1>2. \A k \in 1..Len(r) : r[k][2] \in Int
    BY <1>1 DEF EntrySet
  <1>3. Cnts(r) = [k \in 1..Len(r) |-> r[k][2]]
    BY <1>1 DEF Cnts
  <1>4. Cnts(r) \in Seq(Int) /\ Len(Cnts(r)) = Len(r)
    BY <1>1, <1>2, <1>3
  <1>5. \A k \in 1..Len(r) : Cnts(r)[k] = r[k][2]
    BY <1>3
  <1>6. r = <<>> => Len(Cnts(r)) = 0
    BY <1>4
  <1>7. Len(Cnts(r)) = 0 => Cnts(r) = <<>>
    BY <1>4
  <1> QED
    BY <1>2, <1>4, <1>5, <1>6, <1>7, SumType

\* One entry more
LEMMA CntsAppend ==
    ASSUME NEW r \in Seq(EntrySet), NEW e \in EntrySet
    PROVE  SumOf(Cnts(Append(r, e))) = SumOf(Cnts(r)) + e[2]
  <1>1. PICK s, f, g, c : s = Append(r, e) /\ f = Cnts(r) /\ g = Cnts(s) /\ c = e[2]
    OBVIOUS
  <1>2. s \in Seq(EntrySet) /\ Len(s) = Len(r) + 1 /\ Len(r) \in Nat
    BY <1>1
  <1>3. (\A k \in 1..Len(r) : s[k] = r[k]) /\ s[Len(r) + 1] = e
    BY <1>1
  <1>4. c \in Int
    BY <1>1 DEF EntrySet
  <1>5. f \in Seq(Int) /\ Len(f) = Len(r) /\ g \in Seq(Int) /\ Len(g) = Len(s)
    BY <1>1, <1>2, CntsType
  <1>6. /\ \A k \in 1..Len(r) : f[k] = r[k][2]
        /\ \A k \in 1..Len(s) : g[k] = s[k][2]
    BY <1>1, <1>2, CntsType
  <1>7. Len(r) + 1 \in 1..Len(s) /\ \A k \in 1..Len(r) : k \in 1..Len(s)
    BY <1>2
  <1>8. (\A k \in 1..Len(r) : g[k] = f[k]) /\ g[Len(r) + 1] = c
    BY <1>1, <1>3, <1>6, <1>7
  <1>9. g = Append(f, c)
    BY <1>2, <1>4, <1>5, <1>8
  <1>10. SumOf(Append(f, c)) = SumOf(f) + c
    BY <1>4, <1>5, SumAppend
  <1> QED
    BY <1>1, <1>9, <1>10

\* Records that a list may be made of
Sound(q, total) ==
    /\ \A j, k \in 1..Len(q) : q[j].name = q[k].name => j = k
    /\ \A k \in 1..Len(q) : 0 <= q[k].cnt
    /\ Prefix(q, Len(q)) <= total

\* The walk goes on to the next record.
LEMMA WalkStep ==
    ASSUME NEW q \in Seq(RecordSet), NEW total \in Int, Sound(q, total), NEW r \in Seq(EntrySet),
           NEW n \in 1..Len(q), Walked(r, q, n - 1)
    PROVE  Walked(CflAdd(r, q[n], total), q, n)
  <1>0. Len(q) \in Nat /\ n \in Nat /\ n - 1 \in 0..Len(q) /\ n \in 0..Len(q) /\ q[n] \in RecordSet
    OBVIOUS
  <1>1. q[n].cnt \in Int /\ q[n].name \in Names /\ 0 <= q[n].cnt
    BY <1>0 DEF RecordSet, Sound
  <1>2. PICK a, b, d, s : /\ a = Prefix(q, n - 1) /\ b = Prefix(q, n) /\ d = Prefix(q, Len(q))
                          /\ s = SumOf(Cnts(r))
    OBVIOUS
  <1>3. a \in Int /\ b = a + q[n].cnt /\ b \in Int /\ d \in Int /\ s \in Int
    <2>1. a \in Int /\ b \in Int
      BY <1>0, <1>2, FirstsType
    <2>2. b = a + q[n].cnt
      BY <1>2, PrefixStep
    <2>3. Len(q) \in 0..Len(q)
      BY <1>0
    <2>4. d \in Int
      BY <1>2, <2>3, FirstsType
    <2> QED
      BY <1>2, <2>1, <2>2, <2>4, CntsType
  <1>4. b <= d
    <2>1. \A k \in 1..n : k \in 1..Len(q)
      BY <1>0
    <2>2. /\ \A k \in 1..Len(q) : 0 <= q[k].cnt
          /\ \A k \in 1..n : 0 <= q[k].cnt /\ q[k].cnt <= q[k].cnt
      <3>1. \A k \in 1..Len(q) : q[k] \in RecordSet
        OBVIOUS
      <3>2. \A k \in 1..Len(q) : 0 <= q[k].cnt /\ q[k].cnt \in Int
        BY <3>1 DEF Sound, RecordSet
      <3> QED
        BY <2>1, <3>2
    <2>3. n \in 0..Len(q) /\ Len(q) \in 0..Len(q) /\ n <= Len(q)
      BY <1>0
    <2> QED
      BY <1>2, <2>2, <2>3, PrefixGrows
  <1>5. s <= a /\ d <= total
    BY <1>2 DEF Walked, Sound
  <1>6. \A k \in 1..(n - 1) : k \in 1..n /\ k # n
    BY <1>0
  <1>7. CASE CflAdd(r, q[n], total) = r
    <2>1. \A j \in 1..Len(r) : \E m \in 1..n : q[m].name = r[j][1]
      BY <1>6 DEF Walked
    <2>2. s <= b
      BY <1>1, <1>3, <1>5
    <2> QED
      BY <1>2, <1>7, <2>1, <2>2 DEF Walked
  <1>8. CASE CflAdd(r, q[n], total) # r
    <2>1. PICK e : e = <<q[n].name, q[n].cnt, total>>
      OBVIOUS
    <2>2. e \in EntrySet /\ e[1] = q[n].name /\ e[2] = q[n].cnt /\ e[3] = total
      BY <1>1, <2>1 DEF EntrySet
    <2>3. PICK w : w = Append(r, e)
      OBVIOUS
    <2>4. CflAdd(r, q[n], total) = w
      BY <1>8, <2>1, <2>3 DEF CflAdd
    <2>5. w \in Seq(EntrySet) /\ Len(w) = Len(r) + 1 /\ Len(r) \in Nat /\ w # <<>>
      BY <2>2, <2>3
    <2>6. (\A k \in 1..Len(r) : w[k] = r[k]) /\ w[Len(r) + 1] = e
      BY <2>2, <2>3
    <2>7. SumOf(Cnts(w)) = s + q[n].cnt
      BY <1>2, <2>2, <2>3, CntsAppend
    <2>8. SumOf(Cnts(w)) <= b
      BY <1>1, <1>3, <1>5, <2>7
    <2>9. SumOf(Cnts(w)) <= w[Len(w)][3]
      <3>1. w[Len(w)] = e
        BY <2>5, <2>6
      <3>2. SumOf(Cnts(w)) \in Int
        BY <2>5, CntsType
      <3> QED
        BY <1>3, <1>4, <1>5, <2>2, <2>8, <3>1, <3>2
    <2>10. \A k \in 1..Len(w) : k \in 1..Len(r) \/ k = Len(r) + 1
      BY <2>5
    <2>11. ASSUME NEW j \in 1..Len(r) PROVE r[j][1] # q[n].name
      <3>1. PICK m \in 1..(n - 1) : q[m].name = r[j][1]
        BY DEF Walked
      <3>2. m \in 1..Len(q) /\ m # n
        BY <1>0
      <3> QED
        BY <3>1, <3>2 DEF Sound
    <2>12. \A j, k \in 1..Len(w) : j # k => w[j][1] # w[k][1]
      <3> SUFFICES ASSUME NEW j \in 1..Len(w), NEW k \in 1..Len(w), j # k
                   PROVE  w[j][1] # w[k][1]
        OBVIOUS
      <3>1. CASE j \in 1..Len(r) /\ k \in 1..Len(r)
        BY <2>6, <3>1 DEF Walked, Sent
      <3>2. CASE j \in 1..Len(r) /\ k = Len(r) + 1
        BY <2>2, <2>6, <2>11, <3>2
      <3>3. CASE j = Len(r) + 1 /\ k \in 1..Len(r)
        BY <2>2, <2>6, <2>11, <3>3
      <3> QED
        BY <2>10, <3>1, <3>2, <3>3
    <2>13. \A j \in 1..Len(w) : \E m \in 1..n : q[m].name = w[j][1]
      <3> TAKE j \in 1..Len(w)
      <3>1. CASE j \in 1..Len(r)
        BY <1>6, <2>6, <3>1 DEF Walked
      <3>2. CASE j = Len(r) + 1
        <4>1. n \in 1..n
          BY <1>0
        <4> QED
          BY <2>2, <2>6, <3>2, <4>1
      <3> QED
        BY <2>10, <3>1, <3>2
    <2>14. Sent(w)
      BY <2>9, <2>12 DEF Sent
    <2> QED
      BY <1>2, <2>4, <2>8, <2>13, <2>14 DEF Walked
  <1> QED
    BY <1>7, <1>8

\* Nothing yet
LEMMA WalkEmpty ==
    ASSUME NEW q \in Seq(RecordSet)
    PROVE  Walked(<<>>, q, 0) /\ Sent(<<>>)
  <1>1. <<>> \in Seq(EntrySet) /\ Len(<<>>) = 0 /\ 1..0 = {}
    OBVIOUS
  <1>2. SumOf(Cnts(<<>>)) = 0
    BY <1>1, CntsType
  <1>3. Sent(<<>>)
    BY <1>1 DEF Sent
  <1> QED
    BY <1>1, <1>2, <1>3, PrefixStep DEF Walked

\* The loop over a map
LEMMA WalkAll ==
    ASSUME NEW q \in Seq(RecordSet), NEW total \in Int, Sound(q, total)
    PROVE  Sent(CflAddAll(<<>>, q, total))
  <1> DEFINE n == Len(q)
  <1>0. n \in Nat /\ <<>> \in Seq(EntrySet)
    OBVIOUS
  <1>1. PICK f : IsCfl(f, <<>>, q, total) /\ CflAddAll(<<>>, q, total) = f[n]
    BY <1>0, CflRun
  <1>2. /\ f \in [0..n -> Seq(EntrySet)] /\ f[0] = <<>>
        /\ \A k \in 1..n : f[k] = CflAdd(f[k - 1], q[k], total)
    BY <1>1 DEF IsCfl
  <1> DEFINE T == {k \in 0..n : Walked(f[k], q, k)}
  <1>3. 0 \in T
    BY <1>0, <1>2, WalkEmpty
  <1>4. ASSUME NEW k \in 1..n, k - 1 \in T PROVE k \in T
    <2>1. k \in 0..n /\ k - 1 \in 0..n
      BY <1>0
    <2>2. f[k - 1] \in Seq(EntrySet) /\ Walked(f[k - 1], q, k - 1)
      BY <1>2, <1>4, <2>1
    <2>3. Walked(CflAdd(f[k - 1], q[k], total), q, k)
      BY <2>2, WalkStep
    <2> QED
      BY <1>2, <2>1, <2>3
  <1>5. n \in T
    <2> HIDE DEF T, n
    <2> QED
      BY <1>0, <1>3, <1>4, IndexInduction
  <1> QED
    BY <1>1, <1>5 DEF Walked

\* Records that others count in meanwhile
LEMMA WalkGrows ==
    ASSUME NEW q \in Seq(RecordSet), NEW x \in Names, NEW p, OneMore(q, x, p),
           \A k \in 1..Len(q) : 0 <= q[k].cnt,
           NEW r \in Seq(EntrySet), NEW n \in 0..Len(q), Walked(r, q, n)
    PROVE  Walked(r, p, n) /\ n \in 0..Len(p)
  <1>1. /\ p \in Seq(RecordSet) /\ Len(q) <= Len(p)
        /\ \A k \in 1..Len(q) :
             /\ p[k].name = q[k].name
             /\ p[k].cnt = IF q[k].name = x /\ p[k] # q[k] THEN q[k].cnt + 1 ELSE q[k].cnt
    BY OneMoreFacts
  <1>2. Len(q) \in Nat /\ Len(p) \in Nat /\ n \in Nat
    BY <1>1
  <1>3. n \in 0..Len(p) /\ \A k \in 1..n : k \in 1..Len(q)
    BY <1>1, <1>2
  <1>4. \A k \in 1..Len(q) : q[k].cnt \in Int
    <2>1. \A k \in 1..Len(q) : q[k] \in RecordSet
      OBVIOUS
    <2> QED
      BY <2>1 DEF RecordSet
  <1>5. \A k \in 1..n : 0 <= q[k].cnt /\ q[k].cnt <= p[k].cnt /\ 0 <= p[k].cnt
    <2> TAKE k \in 1..n
    <2>1. PICK a, b : a = q[k].cnt /\ b = p[k].cnt
      OBVIOUS
    <2>2. a \in Int /\ 0 <= a /\ (b = a + 1 \/ b = a)
      BY <1>1, <1>3, <1>4, <2>1
    <2>3. a <= b /\ 0 <= b
      BY <2>2
    <2> QED
      BY <2>1, <2>2, <2>3
  <1>6. Prefix(q, n) <= Prefix(p, n)
    <2>1. n <= n
      BY <1>2
    <2> QED
      BY <1>1, <1>3, <1>5, <2>1, PrefixGrows
  <1>7. Prefix(q, n) \in Int /\ Prefix(p, n) \in Int /\ SumOf(Cnts(r)) \in Int
    BY <1>1, <1>3, FirstsType, CntsType
  <1>8. SumOf(Cnts(r)) <= Prefix(p, n)
    BY <1>6, <1>7 DEF Walked
  <1>9. \A j \in 1..Len(r) : \E m \in 1..n : p[m].name = r[j][1]
    BY <1>1, <1>3 DEF Walked
  <1> QED
    BY <1>3, <1>8, <1>9 DEF Walked

\* Counting in a map whose names have one record each
LEMMA IncrementOne ==
    ASSUME NEW q \in Seq(RecordSet), NEW x \in Names,
           \A j, k \in 1..Len(q) : q[j].name = x /\ q[k].name = x => j = k
    PROVE  OneMore(q, x, Increment(q, x))
  <1>0. DOMAIN q = 1..Len(q)
    OBVIOUS
  <1>1. CASE \A k \in 1..Len(q) : q[k].name # x
    BY <1>0, <1>1 DEF OneMore, Increment
  <1>2. ASSUME NEW j \in 1..Len(q), q[j].name = x PROVE OneMore(q, x, Increment(q, x))
    <2>1. Increment(q, x) = [k \in 1..Len(q) |-> IF q[k].name = x
                                                 THEN [q[k] EXCEPT !.cnt = q[k].cnt + 1]
                                                 ELSE q[k]]
      BY <1>0, <1>2 DEF Increment
    <2>2. \A k \in 1..Len(q) : q[k].name = x <=> k = j
      BY <1>2
    <2>3. Increment(q, x) = [k \in 1..Len(q) |-> IF k = j
                                                 THEN [q[j] EXCEPT !.cnt = q[j].cnt + 1]
                                                 ELSE q[k]]
      BY <2>1, <2>2
    <2>4. [q EXCEPT ![j] = [q[j] EXCEPT !.cnt = q[j].cnt + 1]]
            = [k \in 1..Len(q) |-> IF k = j THEN [q[j] EXCEPT !.cnt = q[j].cnt + 1] ELSE q[k]]
      <3>1. PICK e : e = [q[j] EXCEPT !.cnt = q[j].cnt + 1]
        OBVIOUS
      <3>2. [q EXCEPT ![j] = e] = [k \in 1..Len(q) |-> IF k = j THEN e ELSE q[k]]
        BY <1>0
      <3> QED
        BY <3>1, <3>2
    <2>5. Increment(q, x) = Recount(q, j, q[j].cnt + 1)
      BY <2>3, <2>4 DEF Recount
    <2> QED
      BY <1>2, <2>5 DEF OneMore
  <1> QED
    BY <1>1, <1>2

-----------------------------------------------------------------------------
(***************************************************************************)
(* Client, ReqPath, ReqMethod, ReqType, RspStatus                          *)
(***************************************************************************)

\* u counts a name in metric i, and is past the read of the total.
Adder(u, i)  == Mid(u, i) /\ Call(u).ev \in {"request", "response"}
\* u is past the first operation at the end of an interval of metric i.
Ending(u, i) == Mid(u, i) /\ Call(u).ev = "interval"

SameRecords(i) == obj'[i].nodes = obj[i].nodes /\ hist'[i].done = hist[i].done
SameTotal(i)   == obj'[i].total = obj[i].total /\ hist'[i].met = hist[i].met

\* A thread reads the total, writes it, looks for the record, and counts.
Begins(t, i) ==
    /\ pc[t] = 1 /\ OnTo(t) /\ SameRecords(i) /\ obj'[i].total = obj[i].total
    /\ loc'[t].reg = obj[i].total
    /\ hist'[i].met = (hist[i].met \/ \E u \in Thread \ {t} : Adding(u, i))
Totals(t, i) ==
    /\ pc[t] = 2 /\ (OnTo(t) \/ Leaves(t)) /\ SameRecords(i)
    /\ obj'[i].total = loc[t].reg + 1 /\ hist'[i].met = hist[i].met
Seeks(t, i) ==
    /\ pc[t] >= 3 /\ work'[t] = work[t] /\ pc'[t] >= 3 /\ SameRecords(i) /\ SameTotal(i)
    /\ metrics[i] \in Hashes =>
         /\ pc'[t] = 4 => \A k \in 1..Len(obj[i].nodes) : obj[i].nodes[k].name # Call(t).arg
         /\ pc'[t] = 6 => loc'[t].reg = obj[i].nodes[loc'[t].node].cnt
AddsOne(t, i) ==
    LET x == Call(t).arg IN
    /\ pc[t] >= 3 /\ Leaves(t) /\ SameTotal(i) /\ x \in Names
    /\ hist'[i].done = [hist[i].done EXCEPT ![x] = hist[i].done[x] + 1]
    /\ \/ /\ metrics[i] \in Hashes /\ pc[t] = 4
          /\ obj'[i].nodes = Append(obj[i].nodes, [name |-> x, cnt |-> 1])
       \/ /\ metrics[i] \in Hashes /\ pc[t] = 6 /\ First(i, x, loc[t].node)
          /\ obj'[i].nodes = Recount(obj[i].nodes, loc[t].node, loc[t].reg + 1)
       \/ metrics[i] \in Maps /\ obj'[i].nodes = Increment(obj[i].nodes, x)
AdderMove(t, i) ==
    /\ Call(t).ev \in {"request", "response"}
    /\ obj'[i].cfl = obj[i].cfl /\ hist'[i].report = hist[i].report
    /\ Begins(t, i) \/ Totals(t, i) \/ Seeks(t, i) \/ AddsOne(t, i)

\* A callback makes the list, sends it and frees it.
EndMove(t, i) ==
    /\ Call(t).ev = "interval" /\ t \in Callback /\ SameRecords(i) /\ SameTotal(i)
    /\ \/ /\ metrics[i] \in Hashes /\ pc[t] = 1 /\ OnTo(t) /\ loc'[t].node = 1
          /\ obj'[i].cfl = obj[i].cfl /\ hist'[i].report = hist[i].report
       \/ /\ metrics[i] \in Hashes /\ pc[t] = 2 /\ work'[t] = work[t] /\ pc'[t] = 2
          /\ loc[t].node \in 1..Len(obj[i].nodes) /\ loc'[t].node = loc[t].node + 1
          /\ obj'[i].cfl = CflAdd(obj[i].cfl, obj[i].nodes[loc[t].node], obj[i].total)
          /\ hist'[i].report = hist[i].report
       \/ /\ metrics[i] \in Hashes /\ pc[t] \in {2, 3} /\ OnTo(t)
          /\ obj'[i].cfl = obj[i].cfl /\ hist'[i].report = hist[i].report
       \/ /\ pc[t] = 4 /\ dead /\ dead' /\ hist'[i].report = hist[i].report
          /\ Ends(t)
       \/ /\ pc[t] = 4 /\ ~dead /\ OnTo(t) /\ hist'[i].report = obj[i].cfl
          /\ obj'[i].cfl = obj[i].cfl
       \/ /\ pc[t] = 5 /\ OnTo(t) /\ obj'[i].cfl = obj[i].cfl
          /\ hist'[i].report = hist[i].report
       \/ /\ pc[t] = 6 /\ Leaves(t) /\ obj'[i].cfl = <<>> /\ hist'[i].report = hist[i].report
       \/ /\ metrics[i] \in Maps /\ pc[t] = 1 /\ (OnTo(t) \/ Leaves(t))
          /\ obj'[i].cfl = obj[i].cfl /\ hist'[i].report = hist[i].report
       \/ /\ metrics[i] \in Maps /\ pc[t] = 2 /\ OnTo(t)
          /\ obj'[i].cfl = obj[i].cfl /\ hist'[i].report = hist[i].report
       \/ /\ metrics[i] \in Maps /\ pc[t] = 3 /\ OnTo(t)
          /\ obj'[i].cfl = CflAddAll(obj[i].cfl, obj[i].nodes, obj[i].total)
          /\ hist'[i].report = hist[i].report

\* A thread that counts makes one of these steps.
LEMMA AdderMoves ==
    ASSUME BInv, NodeInv, NEW i \in Index, metrics[i] \notin Avgs, NEW t \in Thread, Acts(t, i),
           HashAt(t) \/ MapAt(t)
    PROVE  AdderMove(t, i)
  <1>1. /\ \/ HashAt(t) /\ (TotalStep(t) \/ FindStep(t) \/ CreateStep(t) \/ CountStep(t))
           \/ MapAt(t) /\ (TotalStep(t) \/ EnterStep(t) \/ LeaveStep(t))
        /\ loc[t] \in Locals /\ obj[i].nodes \in Seq(RecordSet)
        /\ At(t) = i /\ Busy(t) /\ pc[t] \in Nat /\ pc[t] >= 1
    <2>1. ~HashEndAt(t) /\ ~MapEndAt(t)
      BY OnePlace
    <2> QED
      BY <2>1, ActCases DEF Acts, BInv, Types
  <1>2. Call(t).ev \in {"request", "response"} /\ Call(t).arg \in Names
    BY <1>1 DEF HashAt, MapAt
  <1>3. DOMAIN obj[i].nodes = 1..Len(obj[i].nodes)
    BY <1>1
  <1>4. CASE TotalStep(t)
    <2>1. TotalDone(t)
      BY <1>4 DEF TotalStep
    <2>2. CASE pc[t] = 1
      <3>1. /\ obj' = obj /\ hist'[i].done = hist[i].done /\ hist'[i].report = hist[i].report
            /\ hist'[i].met = (hist[i].met \/ \E u \in Thread \ {t} : Adding(u, i))
            /\ work'[t] = work[t] /\ pc'[t] = 2 /\ loc'[t] = Local(t, obj[i].total)
        BY <1>1, <2>1, <2>2 DEF TotalDone
      <3>2. loc'[t].reg = obj[i].total
        BY <1>1, <3>1 DEF Local, Locals
      <3>3. Begins(t, i)
        BY <2>2, <3>1, <3>2 DEF Begins, OnTo, SameRecords
      <3> QED
        BY <1>2, <3>1, <3>3 DEF AdderMove
    <2>3. CASE pc[t] = 2
      <3>1. Totals(t, i) /\ obj'[i].cfl = obj[i].cfl /\ hist'[i].report = hist[i].report
        BY <1>1, <2>1, <2>3 DEF TotalDone, Totals, SameRecords, OnTo, Leaves
      <3> QED
        BY <1>2, <3>1 DEF AdderMove
    <2> QED
      BY <2>1, <2>2, <2>3 DEF TotalDone
  <1>5. CASE HashAt(t) /\ FindStep(t)
    <2>1. FindDone(t)
      BY <1>5 DEF FindStep
    <2>2. /\ pc[t] = 3 /\ obj' = obj /\ hist' = hist /\ work'[t] = work[t]
          /\ \/ Matches(i, Call(t).arg) = {} /\ pc'[t] = 4
             \/ pc'[t] = 5
      BY <1>1, <2>1 DEF FindDone
    <2>3. pc'[t] = 4 => \A k \in 1..Len(obj[i].nodes) : obj[i].nodes[k].name # Call(t).arg
      BY <1>3, <2>2 DEF Matches
    <2>4. Seeks(t, i)
      BY <2>2, <2>3 DEF Seeks, SameRecords, SameTotal
    <2> QED
      BY <1>2, <2>2, <2>4 DEF AdderMove
  <1>6. CASE HashAt(t) /\ CreateStep(t)
    <2>1. CreateDone(t) /\ metrics[i] \in Hashes
      BY <1>1, <1>6 DEF CreateStep, HashAt
    <2>2. AddsOne(t, i) /\ obj'[i].cfl = obj[i].cfl /\ hist'[i].report = hist[i].report
      BY <1>1, <1>2, <2>1 DEF CreateDone, AddsOne, Leaves, SameTotal
    <2> QED
      BY <1>2, <2>2 DEF AdderMove
  <1>7. CASE HashAt(t) /\ CountStep(t)
    <2>1. CountDone(t) /\ metrics[i] \in Hashes
      BY <1>1, <1>7 DEF CountStep, HashAt
    <2>2. CASE pc[t] = 5
      <3>1. /\ obj' = obj /\ hist' = hist /\ work'[t] = work[t] /\ pc'[t] = 6
            /\ loc'[t] = Local(t, obj[i].nodes[loc[t].node].cnt)
        BY <1>1, <2>1, <2>2 DEF CountDone
      <3>2. loc'[t].reg = obj[i].nodes[loc'[t].node].cnt
        BY <1>1, <3>1 DEF Local, Locals
      <3>3. Seeks(t, i)
        BY <2>2, <3>1, <3>2, SMTT(30) DEF Seeks, SameRecords, SameTotal
      <3> QED
        BY <1>2, <3>1, <3>3 DEF AdderMove
    <2>3. CASE pc[t] = 6
      <3>1. First(i, Call(t).arg, loc[t].node)
        <4>1. HashReq(t)
          BY <1>1, <1>7, HashReqAt
        <4> QED
          BY <1>1, <2>3, <4>1 DEF NodeInv
      <3>2. /\ obj'[i].nodes = Recount(obj[i].nodes, loc[t].node, loc[t].reg + 1)
            /\ Leaves(t) /\ SameTotal(i)
            /\ obj'[i].cfl = obj[i].cfl /\ hist'[i].report = hist[i].report
            /\ hist'[i].done = [hist[i].done EXCEPT ![Call(t).arg] =
                                  hist[i].done[Call(t).arg] + 1]
        BY <1>1, <2>1, <2>3 DEF CountDone, Recount, Leaves, SameTotal
      <3>3. AddsOne(t, i)
        BY <1>2, <2>1, <2>3, <3>1, <3>2 DEF AddsOne
      <3> QED
        BY <1>2, <3>2, <3>3 DEF AdderMove
    <2> QED
      BY <2>1, <2>2, <2>3 DEF CountDone
  <1>8. CASE MapAt(t) /\ EnterStep(t)
    <2>1. EnterDone(t) /\ failed' = "no" /\ metrics[i] \in Maps /\ metrics[i] \in Class
      <3>1. EnterDone(t) /\ failed' = "no" /\ metrics[i] \in Maps
        BY <1>1, <1>8 DEF EnterStep, MapAt
      <3>2. metrics[i] \in Class
        BY DEF BInv, Types, Index
      <3> QED
        BY <3>1, <3>2
    <2>2. metrics[i] \notin Hashes
      BY <2>1, ClassEvents
    <2>3. ~MapEndAt(t) /\ ~HashEndAt(t)
      BY <1>8, OnePlace
    <2>4. /\ pc[t] = 3 /\ work'[t] = work[t] /\ pc'[t] = pc[t] + 1 /\ hist' = hist
          /\ obj'[i].total = obj[i].total /\ obj'[i].nodes = obj[i].nodes
          /\ obj'[i].cfl = obj[i].cfl
      BY <1>1, <2>1, <2>3 DEF EnterDone
    <2>5. Seeks(t, i)
      BY <2>2, <2>4 DEF Seeks, SameRecords, SameTotal
    <2> QED
      BY <1>2, <2>4, <2>5 DEF AdderMove
  <1>9. CASE MapAt(t) /\ LeaveStep(t)
    <2>1. LeaveDone(t) /\ metrics[i] \in Maps
      BY <1>1, <1>9 DEF LeaveStep, MapAt
    <2>2. ~MapEndAt(t) /\ ~HashEndAt(t)
      BY <1>9, OnePlace
    <2>3. AddsOne(t, i) /\ obj'[i].cfl = obj[i].cfl /\ hist'[i].report = hist[i].report
      BY <1>1, <1>2, <2>1, <2>2 DEF LeaveDone, AddsOne, Leaves, SameTotal
    <2> QED
      BY <1>2, <2>3 DEF AdderMove
  <1> QED
    BY <1>1, <1>4, <1>5, <1>6, <1>7, <1>8, <1>9

\* A report is sent, or the callback ends.
LEMMA ReportMoves ==
    ASSUME BInv, NEW i \in Index, metrics[i] \notin Avgs, NEW t \in Thread, Acts(t, i),
           ReportStep(t), Call(t).ev = "interval", t \in Callback
    PROVE  EndMove(t, i)
  <1>1. /\ Send(t) /\ pc[t] = 4 /\ obj' = obj /\ At(t) = i /\ dead' = dead /\ Busy(t)
        /\ SameLists
    BY DEF ReportStep, Acts, SameEnv, env
  <1>2. /\ hist'[i].done = hist[i].done /\ obj'[i].nodes = obj[i].nodes
        /\ obj'[i].total = obj[i].total
    BY <1>1 DEF SameLists
  <1>3. loc[t] \in Locals /\ hist \in [Index -> HistSet] /\ hist[i] \in HistSet
    BY DEF BInv, Types
  <1>4. Len(Ops(Call(t))) = 6
    BY DEF ReportStep, HashEndAt, MapEndAt
  <1>5. CASE dead /\ Goto(t, <<>>, 1, NoLocals) /\ UNCHANGED hist
    <2>1. Ends(t)
      BY <1>5 DEF Goto, Ends, BInv, Types
    <2> QED
      BY <1>1, <1>2, <1>5, <2>1 DEF EndMove, SameRecords, SameTotal
  <1>6. CASE /\ ~dead
             /\ hist' = [hist EXCEPT
                  ![i].report = IF metrics[i] \in Avgs THEN loc[t].msg ELSE obj[i].cfl,
                  ![i].told = IF metrics[i] \in Rates
                              THEN @ + (loc[t].msg.avg * Interval) \div Scale
                              ELSE @]
             /\ Continue(t, [loc[t] EXCEPT !.msg = NoLocals.msg])
    <2>1. hist'[i].report = obj[i].cfl /\ hist'[i].met = hist[i].met
      BY <1>3, <1>6 DEF HistSet
    <2>2. [loc[t] EXCEPT !.msg = NoLocals.msg] \in Locals
      BY <1>3, NoLocalsType DEF Locals
    <2>3. OnTo(t)
      <3>1. PICK l \in Locals : l = [loc[t] EXCEPT !.msg = NoLocals.msg]
        BY <2>2
      <3>2. Continue(t, l)
        BY <1>6, <3>1
      <3>3. \/ work'[t] = work[t] /\ pc'[t] = pc[t] + 1
            \/ pc[t] + 1 > Len(Ops(Call(t)))
        BY <1>1, <3>2, ContinueFacts
      <3> QED
        BY <1>1, <1>4, <3>3 DEF OnTo
    <2> QED
      BY <1>1, <1>2, <1>6, <2>1, <2>3 DEF EndMove, SameRecords, SameTotal
  <1> QED
    BY <1>1, <1>5, <1>6 DEF Send

\* A callback at the end of an interval makes one of these steps.
LEMMA EndMoves ==
    ASSUME BInv, NEW i \in Index, metrics[i] \notin Avgs, NEW t \in Thread, Acts(t, i),
           HashEndAt(t) \/ MapEndAt(t)
    PROVE  EndMove(t, i)
  <1>1. /\ \/ /\ HashEndAt(t)
              /\ CflStep(t) \/ ReportStep(t) \/ EnterStep(t) \/ LeaveStep(t)
           \/ /\ MapEndAt(t)
              /\ ReportStep(t) \/ EnterStep(t) \/ LeaveStep(t) \/ SkipStep(t)
        /\ loc[t] \in Locals /\ At(t) = i
    <2>1. ~HashAt(t) /\ ~MapAt(t)
      BY OnePlace
    <2> QED
      BY <2>1, ActCases DEF Acts
  <1>2. /\ Call(t).ev = "interval" /\ t \in Callback
        /\ HashEndAt(t) => metrics[i] \in Hashes
        /\ MapEndAt(t) => metrics[i] \in Maps
        /\ ~HashAt(t) /\ ~MapAt(t) /\ (HashEndAt(t) => ~MapEndAt(t))
    BY <1>1, OnePlace DEF HashEndAt, MapEndAt
  <1>3. CASE CflStep(t)
    <2>1. CflDone(t) /\ metrics[i] \in Hashes
      BY <1>2, <1>3 DEF CflStep
    <2>2. /\ hist' = hist /\ obj'[i].total = obj[i].total /\ obj'[i].nodes = obj[i].nodes
          /\ work'[t] = work[t]
      BY <1>1, <2>1 DEF CflDone
    <2>3. SameRecords(i) /\ SameTotal(i) /\ hist'[i].report = hist[i].report
      BY <2>2 DEF SameRecords, SameTotal
    <2>4. loc[t].node \in Nat
      BY <1>1, LocalTypes
    <2>5. /\ [loc[t] EXCEPT !.node = 1].node = 1
          /\ [loc[t] EXCEPT !.node = loc[t].node + 1].node = loc[t].node + 1
      BY <1>1 DEF Locals
    <2>6. \/ /\ pc[t] = 1 /\ pc'[t] = 2 /\ loc'[t].node = 1 /\ obj'[i].cfl = obj[i].cfl
          \/ /\ pc[t] = 2 /\ pc'[t] = 2 /\ loc'[t].node = loc[t].node + 1
             /\ loc[t].node \in 1..Len(obj[i].nodes)
             /\ obj'[i].cfl = CflAdd(obj[i].cfl, obj[i].nodes[loc[t].node], obj[i].total)
          \/ /\ pc[t] \in {2, 3} /\ pc'[t] = pc[t] + 1 /\ obj'[i].cfl = obj[i].cfl
      <3>0. PICK m : m = loc'[t]
        OBVIOUS
      <3>1. \/ /\ pc[t] = 1 /\ pc'[t] = 2 /\ m = [loc[t] EXCEPT !.node = 1]
               /\ obj'[i].cfl = obj[i].cfl
            \/ /\ pc[t] = 2 /\ pc'[t] = 2 /\ m = [loc[t] EXCEPT !.node = loc[t].node + 1]
               /\ loc[t].node \in 1..Len(obj[i].nodes)
               /\ obj'[i].cfl = CflAdd(obj[i].cfl, obj[i].nodes[loc[t].node], obj[i].total)
            \/ /\ pc[t] \in {2, 3} /\ pc'[t] = pc[t] + 1 /\ obj'[i].cfl = obj[i].cfl
        <4>1. \/ /\ pc[t] = 1 /\ pc'[t] = 2 /\ m = [loc[t] EXCEPT !.node = 1]
                 /\ obj'[i].cfl = obj[i].cfl
              \/ /\ pc[t] = 2 /\ pc'[t] = 2 /\ m = [loc[t] EXCEPT !.node = loc[t].node + 1]
                 /\ loc[t].node \in 1..Len(obj[i].nodes)
                 /\ obj'[i].cfl = CflAdd(obj[i].cfl, obj[i].nodes[loc[t].node], obj[i].total)
              \/ /\ pc[t] = 2 /\ pc'[t] = 3 /\ obj'[i].cfl = obj[i].cfl
              \/ /\ pc[t] = 3 /\ pc'[t] = 4 /\ obj'[i].cfl = obj[i].cfl
          BY <1>1, <2>1, <3>0, Zenon DEF CflDone
        <4> QED
          BY <4>1
      <3> QED
        BY <2>5, <3>0, <3>1, Zenon
    <2> QED
      BY <1>2, <2>1, <2>2, <2>3, <2>6 DEF EndMove, OnTo
  <1>4. CASE ReportStep(t)
    BY <1>2, <1>4, ReportMoves
  <1>5. CASE EnterStep(t)
    <2>1. EnterDone(t) /\ failed' = "no"
      BY <1>5 DEF EnterStep
    <2>2. /\ hist' = hist /\ work'[t] = work[t] /\ pc'[t] = pc[t] + 1
          /\ \/ MapEndAt(t) /\ pc[t] \in {2, 5}
             \/ HashEndAt(t) /\ pc[t] = 5
          /\ obj'[i].total = obj[i].total /\ obj'[i].nodes = obj[i].nodes
          /\ obj'[i].cfl = obj[i].cfl
      BY <1>1, <1>2, <2>1 DEF EnterDone
    <2>3. SameRecords(i) /\ SameTotal(i) /\ hist'[i].report = hist[i].report /\ OnTo(t)
      BY <2>2 DEF SameRecords, SameTotal, OnTo
    <2> QED
      BY <1>2, <2>2, <2>3 DEF EndMove
  <1>6. CASE LeaveStep(t)
    <2>1. LeaveDone(t)
      BY <1>6 DEF LeaveStep
    <2>2. /\ obj'[i].total = obj[i].total /\ hist' = hist /\ obj'[i].nodes = obj[i].nodes
          /\ \/ /\ MapEndAt(t) /\ pc[t] = 3
                /\ obj'[i].cfl = CflAddAll(obj[i].cfl, obj[i].nodes, obj[i].total)
                /\ work'[t] = work[t] /\ pc'[t] = 4
             \/ /\ pc[t] = 6 /\ obj'[i].cfl = <<>> /\ work'[t] = Tail(work[t]) /\ pc'[t] = 1
      BY <1>1, <1>2, <2>1 DEF LeaveDone
    <2>3. SameRecords(i) /\ SameTotal(i) /\ hist'[i].report = hist[i].report
      BY <2>2 DEF SameRecords, SameTotal
    <2> QED
      BY <1>2, <2>2, <2>3 DEF EndMove, OnTo, Leaves
  <1>7. CASE SkipStep(t)
    <2>1. /\ MapEndAt(t) /\ pc[t] = 1 /\ obj' = obj /\ hist' = hist
          /\ \/ work'[t] = work[t] /\ pc'[t] = 2
             \/ work'[t] = Tail(work[t]) /\ pc'[t] = 1
      BY <1>7 DEF SkipStep
    <2>2. SameRecords(i) /\ SameTotal(i) /\ hist'[i].report = hist[i].report
      BY <2>1 DEF SameRecords, SameTotal
    <2> QED
      BY <1>2, <2>1, <2>2 DEF EndMove, OnTo, Leaves
  <1> QED
    BY <1>1, <1>3, <1>4, <1>5, <1>6, <1>7

\* What a thread that counts a name relies on: the total that it has read, and
\* then has counted it; that there is no record of the name; the count that
\* it has read
AdderOK(u, i) ==
    LET q == obj[i].nodes IN
    /\ pc[u] = 2 => loc[u].reg = obj[i].total
    /\ pc[u] >= 3 => Prefix(q, Len(q)) + 1 <= obj[i].total
    /\ metrics[i] \in Hashes /\ pc[u] = 4 => \A k \in 1..Len(q) : q[k].name # Call(u).arg
    /\ metrics[i] \in Hashes /\ pc[u] = 6 => loc[u].reg = q[loc[u].node].cnt

\* One thread at a time counts, exactly.
Dist(i) ==
    LET q == obj[i].nodes IN
    /\ \A u, w \in Thread : Adder(u, i) /\ Adder(w, i) => u = w
    /\ ExactRecords(q, hist[i].done)
    /\ Prefix(q, Len(q)) <= obj[i].total
    /\ \A u \in Thread : Adder(u, i) => AdderOK(u, i)

\* The metric as it is before and after
LEMMA DistTypes ==
    ASSUME BInv, NEW i \in Index
    PROVE  /\ obj[i].nodes \in Seq(RecordSet) /\ obj[i].cfl \in Seq(EntrySet)
           /\ obj[i].total \in Int /\ hist[i].done \in [Names -> Nat] /\ hist[i].met \in BOOLEAN
           /\ Prefix(obj[i].nodes, Len(obj[i].nodes)) \in Int /\ Len(obj[i].nodes) \in Nat
  <1>1. obj[i] \in MetricSet /\ hist[i] \in HistSet
    BY DEF BInv, Types
  <1>2. obj[i].nodes \in Seq(RecordSet) /\ obj[i].cfl \in Seq(EntrySet) /\ obj[i].total \in Int
    BY <1>1, MetricFields
  <1>3. hist[i].done \in [Names -> Nat] /\ hist[i].met \in BOOLEAN
    BY <1>1 DEF HistSet
  <1>4. Len(obj[i].nodes) \in Nat /\ Len(obj[i].nodes) \in 0..Len(obj[i].nodes)
    BY <1>2
  <1>5. Prefix(obj[i].nodes, Len(obj[i].nodes)) \in Int
    BY <1>2, <1>4, FirstsType
  <1> QED
    BY <1>2, <1>3, <1>4, <1>5

\* Only t counts.
LEMMA DistOnly ==
    ASSUME NEW i, NEW t, \A u \in Thread : u # t => ~Adder(u, i)',
           ExactRecords(obj'[i].nodes, hist'[i].done),
           Prefix(obj'[i].nodes, Len(obj'[i].nodes)) <= obj'[i].total,
           Adder(t, i)' => AdderOK(t, i)'
    PROVE  Dist(i)'
  BY DEF Dist

\* The records stay, and nobody starts.
LEMMA DistSame ==
    ASSUME metrics' = metrics, NEW i, Dist(i), SameRecords(i), obj'[i].total = obj[i].total,
           \A u \in Thread : Adder(u, i)' => /\ Adder(u, i) /\ Call(u)' = Call(u)
                                             /\ pc'[u] = pc[u] /\ loc'[u] = loc[u]
    PROVE  Dist(i)'
  <1>1. ASSUME NEW u \in Thread, Adder(u, i)' PROVE AdderOK(u, i)'
    <2>1. AdderOK(u, i) /\ Call(u)' = Call(u) /\ pc'[u] = pc[u] /\ loc'[u] = loc[u]
      BY <1>1 DEF Dist
    <2>2. obj'[i].nodes = obj[i].nodes
      BY DEF SameRecords
    <2> QED
      BY <2>1, <2>2 DEF AdderOK
  <1>2. \A u, w \in Thread : Adder(u, i)' /\ Adder(w, i)' => u = w
    BY DEF Dist
  <1>3. /\ ExactRecords(obj'[i].nodes, hist'[i].done)
        /\ Prefix(obj'[i].nodes, Len(obj'[i].nodes)) <= obj'[i].total
    BY DEF Dist, SameRecords
  <1> QED
    BY <1>1, <1>2, <1>3 DEF Dist

\* A thread that is not at work on the metric
LEMMA AdderOther ==
    ASSUME NEW u, NEW i, Mid(u, i)' <=> Mid(u, i), Mid(u, i) => Call(u)' = Call(u)
    PROVE  (Adder(u, i)' <=> Adder(u, i)) /\ (Ending(u, i)' <=> Ending(u, i))
  BY DEF Adder, Ending

\* A name that is counted is counted once.
LEMMA AddsOneMore ==
    ASSUME BInv, NEW i \in Index, metrics[i] \notin Avgs, NEW t \in Thread, AddsOne(t, i),
           Dist(i), AdderOK(t, i)
    PROVE  OneMore(obj[i].nodes, Call(t).arg, obj'[i].nodes) /\ Call(t).arg \in Names
  <1> DEFINE q == obj[i].nodes
             x == Call(t).arg
  <1>1. q \in Seq(RecordSet)
    BY DistTypes
  <1>2. ExactRecords(q, hist[i].done) /\ x \in Names
    BY DEF Dist, AddsOne
  <1> HIDE DEF q, x
  <1>3. PICK p : p = obj'[i].nodes
    OBVIOUS
  <1>4. CASE /\ metrics[i] \in Hashes /\ pc[t] = 4
             /\ obj'[i].nodes = Append(obj[i].nodes, [name |-> x, cnt |-> 1])
    <2>1. \A k \in 1..Len(q) : q[k].name # x
      BY <1>4 DEF AdderOK, q, x
    <2>2. OneMore(q, x, p)
      BY <1>3, <1>4, <2>1 DEF OneMore, q
    <2> QED
      BY <1>2, <1>3, <2>2 DEF q, x
  <1>5. CASE /\ metrics[i] \in Hashes /\ pc[t] = 6 /\ First(i, x, loc[t].node)
             /\ obj'[i].nodes = Recount(obj[i].nodes, loc[t].node, loc[t].reg + 1)
    <2>1. loc[t].reg = q[loc[t].node].cnt
      BY <1>5 DEF AdderOK, q
    <2>2. DOMAIN q = 1..Len(q)
      BY <1>1
    <2>3. loc[t].node \in 1..Len(q) /\ q[loc[t].node].name = x
      BY <1>5, <2>2 DEF First, Matches, q
    <2>4. OneMore(q, x, p)
      BY <1>3, <1>5, <2>1, <2>3 DEF OneMore, q
    <2> QED
      BY <1>2, <1>3, <2>4 DEF q, x
  <1>6. CASE obj'[i].nodes = Increment(obj[i].nodes, x)
    <2>1. \A j, k \in 1..Len(q) : q[j].name = x /\ q[k].name = x => j = k
      BY <1>2 DEF ExactRecords
    <2>2. OneMore(q, x, Increment(q, x))
      BY <1>1, <1>2, <2>1, IncrementOne
    <2> QED
      BY <1>2, <1>6, <2>2 DEF q, x
  <1> QED
    BY <1>4, <1>5, <1>6 DEF AddsOne, x

\* A thread that counts keeps the records exact.
LEMMA DistAdder ==
    ASSUME BInv, BInv', metrics' = metrics, NEW i \in Index, metrics[i] \notin Avgs,
           NEW t \in Thread, Acts(t, i), AdderMove(t, i), Dist(i), ~hist'[i].met
    PROVE  Dist(i)' /\ ~hist[i].met
  <1> DEFINE q == obj[i].nodes
             x == Call(t).arg
             n == Prefix(q, Len(q))
  <1>1. /\ Busy(t) /\ At(t) = i /\ Others(t) /\ pc[t] \in Nat /\ pc'[t] \in Nat
        /\ Call(t).ev \in {"request", "response"} /\ Index' = Index
    BY DEF Acts, BInv, Types, AdderMove, Index
  <1>2. ~hist[i].met
    BY DEF AdderMove, Begins, Totals, Seeks, AddsOne, SameTotal
  <1>3. ASSUME NEW u \in Thread, u # t PROVE ~Adder(u, i)'
    <2>1. Adder(u, i)' <=> Adder(u, i)
      BY <1>1, <1>3, MidOther, AdderOther
    <2>2. CASE Begins(t, i)
      <3>1. ~Adding(u, i)
        BY <1>3, <2>2 DEF Begins
      <3>2. ASSUME Adder(u, i) PROVE FALSE
        <4>1. Busy(u) /\ At(u) = i /\ Call(u).ev \in {"request", "response"}
          BY <3>2 DEF Adder, Mid
        <4>2. Call(u) = work[u][1] /\ Len(work[u]) \in Nat /\ Len(work[u]) >= 1
              /\ work[u] \in Seq(CallSet)
          BY <4>1, CallFacts DEF BInv, Types
        <4>3. 1 \in DOMAIN work[u]
          BY <4>2
        <4> QED
          BY <3>1, <4>1, <4>2, <4>3 DEF Adding, At
      <3> QED
        BY <2>1, <3>2
    <2>3. CASE pc[t] >= 2
      <3>1. Adder(t, i)
        BY <1>1, <2>3 DEF Adder, Mid
      <3> QED
        BY <1>3, <2>1, <3>1 DEF Dist
    <2>4. Begins(t, i) \/ pc[t] >= 2
      BY <1>1 DEF AdderMove, Totals, Seeks, AddsOne
    <2> QED
      BY <2>2, <2>3, <2>4
  <1>4. /\ q \in Seq(RecordSet) /\ obj[i].total \in Int /\ hist[i].done \in [Names -> Nat]
        /\ n \in Int
    BY DistTypes
  <1>5. ExactRecords(q, hist[i].done) /\ n <= obj[i].total
    BY DEF Dist
  <1>6. Adder(t, i) => AdderOK(t, i)
    BY DEF Dist
  <1>7. pc[t] >= 2 => Adder(t, i)
    BY <1>1 DEF Adder, Mid
  <1>8. Leaves(t) => ~Adder(t, i)'
    BY DEF Leaves, Adder, Mid
  <1>9. work'[t] = work[t] => Call(t)' = Call(t)
    BY DEF Call
  <1>10. SameRecords(i) => obj'[i].nodes = q /\ hist'[i].done = hist[i].done
    BY DEF SameRecords
  <1> HIDE DEF q, x, n
  <1>11. CASE Begins(t, i)
    <2>1. /\ pc'[t] = 2 /\ obj'[i].total = obj[i].total /\ loc'[t].reg = obj[i].total
          /\ obj'[i].nodes = q /\ hist'[i].done = hist[i].done
      BY <1>10, <1>11 DEF Begins, OnTo
    <2>2. AdderOK(t, i)'
      BY <2>1 DEF AdderOK
    <2>3. ExactRecords(obj'[i].nodes, hist'[i].done)
      BY <1>5, <2>1
    <2>4. Prefix(obj'[i].nodes, Len(obj'[i].nodes)) <= obj'[i].total
      BY <1>5, <2>1 DEF n
    <2> QED
      BY <1>2, <1>3, <2>2, <2>3, <2>4, DistOnly
  <1>12. CASE Totals(t, i)
    <2>1. /\ pc[t] = 2 /\ (OnTo(t) \/ Leaves(t)) /\ obj'[i].total = loc[t].reg + 1
          /\ obj'[i].nodes = q /\ hist'[i].done = hist[i].done
      BY <1>10, <1>12 DEF Totals
    <2>2. loc[t].reg = obj[i].total
      BY <1>6, <1>7, <2>1 DEF AdderOK
    <2>3. n + 1 <= obj'[i].total /\ n <= obj'[i].total
      BY <1>4, <1>5, <2>1, <2>2
    <2>4. Adder(t, i)' => AdderOK(t, i)'
      <3>1. CASE Leaves(t)
        BY <1>8, <3>1
      <3>2. CASE OnTo(t)
        <4>1. pc'[t] = 3
          BY <2>1, <3>2 DEF OnTo
        <4> QED
          BY <2>1, <2>3, <4>1 DEF AdderOK, n
      <3> QED
        BY <2>1, <3>1, <3>2
    <2>5. ExactRecords(obj'[i].nodes, hist'[i].done)
      BY <1>5, <2>1
    <2>6. Prefix(obj'[i].nodes, Len(obj'[i].nodes)) <= obj'[i].total
      BY <2>1, <2>3 DEF n
    <2> QED
      BY <1>2, <1>3, <2>4, <2>5, <2>6, DistOnly
  <1>13. CASE Seeks(t, i)
    <2>1. /\ pc[t] >= 3 /\ pc'[t] >= 3 /\ obj'[i].total = obj[i].total /\ work'[t] = work[t]
          /\ obj'[i].nodes = q /\ hist'[i].done = hist[i].done
      BY <1>10, <1>13 DEF Seeks, SameTotal
    <2>2. n + 1 <= obj'[i].total
      BY <1>1, <1>6, <1>7, <2>1 DEF AdderOK, n, q
    <2>3. AdderOK(t, i)'
      <3>1. metrics[i] \in Hashes =>
              /\ pc'[t] = 4 => \A k \in 1..Len(q) : q[k].name # Call(t).arg
              /\ pc'[t] = 6 => loc'[t].reg = q[loc'[t].node].cnt
        BY <1>13 DEF Seeks, q
      <3>2. pc'[t] # 2
        BY <1>1, <2>1
      <3> QED
        BY <1>9, <2>1, <2>2, <3>1, <3>2 DEF AdderOK, n
    <2>4. ExactRecords(obj'[i].nodes, hist'[i].done)
      BY <1>5, <2>1
    <2>5. Prefix(obj'[i].nodes, Len(obj'[i].nodes)) <= obj'[i].total
      BY <1>5, <2>1 DEF n
    <2> QED
      BY <1>2, <1>3, <2>3, <2>4, <2>5, DistOnly
  <1>14. CASE AddsOne(t, i)
    <2>1. /\ pc[t] >= 3 /\ Leaves(t) /\ obj'[i].total = obj[i].total /\ x \in Names
          /\ hist'[i].done = [hist[i].done EXCEPT ![x] = hist[i].done[x] + 1]
      BY <1>14 DEF AddsOne, SameTotal, x
    <2>2. n + 1 <= obj[i].total
      BY <1>1, <1>6, <1>7, <2>1 DEF AdderOK, n, q
    <2>3. AdderOK(t, i)
      BY <1>1, <1>6, <1>7, <2>1
    <2>4. PICK p : p = obj'[i].nodes
      OBVIOUS
    <2>5. OneMore(q, x, p)
      BY <1>14, <2>3, <2>4, AddsOneMore DEF q, x
    <2>6. ExactRecords(obj'[i].nodes, hist'[i].done)
      <3>1. PICK d : d = hist[i].done
        OBVIOUS
      <3>2. ExactRecords(p, [d EXCEPT ![x] = d[x] + 1])
        BY <1>4, <1>5, <2>1, <2>5, <3>1, ExactOneMore
      <3> QED
        BY <2>1, <2>4, <3>1, <3>2
    <2>7. Prefix(p, Len(p)) = n + 1
      BY <1>4, <2>1, <2>5, OneMoreFacts DEF n
    <2>8. Prefix(obj'[i].nodes, Len(obj'[i].nodes)) <= obj'[i].total
      BY <2>1, <2>2, <2>4, <2>7
    <2> QED
      BY <1>2, <1>3, <1>8, <2>1, <2>6, <2>8, DistOnly
  <1> QED
    BY <1>11, <1>12, <1>13, <1>14 DEF AdderMove

\* A step at the end of an interval leaves the records as they are.
LEMMA DistEnd ==
    ASSUME BInv, metrics' = metrics, NEW i \in Index, NEW t \in Thread, Acts(t, i),
           EndMove(t, i), Dist(i)
    PROVE  Dist(i)'
  <1>1. ASSUME NEW u \in Thread, Adder(u, i)'
        PROVE  /\ Adder(u, i) /\ Call(u)' = Call(u)
               /\ pc'[u] = pc[u] /\ loc'[u] = loc[u]
    <2>1. CASE u # t
      BY <1>1, <2>1, MidOther, AdderOther DEF Acts
    <2>2. CASE u = t
      <3>1. work'[t] = work[t] \/ pc'[t] = 1
        BY DEF EndMove, OnTo, Leaves, Ends
      <3>2. pc'[t] # 1
        BY <1>1, <2>2 DEF Adder, Mid
      <3>3. Call(t)' = Call(t)
        BY <3>1, <3>2 DEF Call
      <3>4. Call(t).ev = "interval" /\ Call(t)'.ev \in {"request", "response"}
        BY <1>1, <2>2 DEF Adder, EndMove
      <3> QED
        BY <3>3, <3>4
    <2> QED
      BY <2>1, <2>2
  <1>2. SameRecords(i) /\ obj'[i].total = obj[i].total
    BY DEF EndMove, SameTotal
  <1> QED
    BY <1>1, <1>2, DistSame

\* Seen from a metric with a list, every step
LEMMA ListMoves ==
    ASSUME BInv, BInv', NodeInv, AnyStep, metrics' = metrics, NEW i \in Index,
           metrics[i] \notin Avgs
    PROVE  \/ Aside(i)
           \/ \E t \in Thread : Acts(t, i) /\ (AdderMove(t, i) \/ EndMove(t, i))
  <1>1. CASE Aside(i)
    BY <1>1
  <1>2. ASSUME NEW t \in Thread, Acts(t, i)
        PROVE  AdderMove(t, i) \/ EndMove(t, i)
    <2>1. HashAt(t) \/ MapAt(t) \/ HashEndAt(t) \/ MapEndAt(t)
      BY <1>2, ActCases
    <2> QED
      BY <1>2, <2>1, AdderMoves, EndMoves
  <1> QED
    BY <1>1, <1>2, ListView

\* The records stay exact until two threads count at once.
LEMMA DistNext ==
    ASSUME BInv, BInv', NodeInv, AnyStep, metrics' = metrics, NEW i \in Index,
           metrics[i] \notin Avgs, hist[i].met \/ Dist(i)
    PROVE  (hist'[i].met \/ Dist(i)') /\ (hist[i].met => hist'[i].met)
  <1>1. CASE Aside(i)
    <2>1. obj'[i] = obj[i] /\ hist'[i] = hist[i]
      BY <1>1 DEF Aside
    <2>2. SameRecords(i) /\ SameTotal(i)
      BY <2>1 DEF SameRecords, SameTotal
    <2>3. \A u \in Thread : Adder(u, i)' => /\ Adder(u, i) /\ Call(u)' = Call(u)
                                            /\ pc'[u] = pc[u] /\ loc'[u] = loc[u]
      BY <1>1 DEF Aside, Adder
    <2>4. Dist(i) => Dist(i)'
      BY <2>2, <2>3, DistSame DEF SameTotal
    <2> QED
      BY <2>1, <2>4
  <1>2. ASSUME NEW t \in Thread, Acts(t, i), EndMove(t, i)
        PROVE  (hist'[i].met \/ Dist(i)') /\ (hist[i].met => hist'[i].met)
    <2>1. hist'[i].met = hist[i].met
      BY <1>2 DEF EndMove, SameTotal
    <2> QED
      BY <1>2, <2>1, DistEnd
  <1>3. ASSUME NEW t \in Thread, Acts(t, i), AdderMove(t, i)
        PROVE  (hist'[i].met \/ Dist(i)') /\ (hist[i].met => hist'[i].met)
    <2>1. hist[i].met => hist'[i].met
      BY <1>3 DEF AdderMove, Begins, Totals, Seeks, AddsOne, SameTotal
    <2>2. CASE hist[i].met
      BY <2>1, <2>2
    <2>3. CASE Dist(i)
      BY <1>3, <2>1, <2>3, DistAdder
    <2> QED
      BY <2>2, <2>3
  <1> QED
    BY <1>1, <1>2, <1>3, ListMoves

\* The peer that has gone does not come back.
LEMMA DeadNext ==
    ASSUME [Next]_vars
    PROVE  dead => dead'
  <1>1. ASSUME NEW t \in Thread, Operation(t)
        PROVE  dead' = dead
    <2>1. CASE Modify(t)
      BY <2>1 DEF Modify, env
    <2>2. CASE Read(t)
      BY <2>2 DEF Read, env
    <2>3. CASE Delta(t) \/ Mark(t)
      BY <2>3 DEF Delta, Mark, env
    <2>4. CASE Send(t)
      BY <2>4 DEF Send, env
    <2>5. CASE Step(t) \/ HashProcess(t) \/ Branch(t)
      BY <2>5 DEF Step, HashProcess, Branch, env
    <2>6. CASE Total(t) \/ Find(t) \/ Create(t)
      BY <2>6 DEF Total, Find, Create, env
    <2>7. CASE Count(t) \/ CflUpdate(t)
      BY <2>7 DEF Count, CflUpdate, env
    <2>8. CASE Enter(t) \/ Leave(t) \/ IfNoTotal(t)
      BY <2>8 DEF Enter, Fail, Leave, IfNoTotal, env
    <2> QED
      BY <1>1, <2>1, <2>2, <2>3, <2>4, <2>5, <2>6, <2>7, <2>8 DEF Operation
  <1>2. CASE \E ev \in Told \cup {"flowUpdate"} : \E x \in Named(ev) : FlowClosed(ev, x)
    BY <1>2 DEF FlowClosed
  <1>3. CASE \E c \in Tps : FlowGrows(c)
    BY <1>3 DEF FlowGrows
  <1>4. CASE \E t \in Callback : Fire(t)
    BY <1>4 DEF Fire
  <1>5. CASE PeerGone
    BY <1>5 DEF PeerGone
  <1>6. CASE Halted \/ UNCHANGED vars
    BY <1>6 DEF Halted, vars
  <1> QED
    BY <1>1, <1>2, <1>3, <1>4, <1>5, <1>6 DEF Next

\* The list is empty unless a callback is at the end of an interval; while it
\* walks over the records, the list is made of those that it has passed.
ListOK(i) ==
    LET q == obj[i].nodes
        r == obj[i].cfl IN
    /\ (\A u \in Thread : ~Ending(u, i)) => r = <<>>
    /\ \A u \in Thread : Ending(u, i) =>
         /\ metrics[i] \in Hashes /\ pc[u] = 2 =>
              loc[u].node - 1 \in 0..Len(q) /\ Walked(r, q, loc[u].node - 1)
         /\ metrics[i] \in Hashes /\ pc[u] \in {3, 4} => Sent(r)
         /\ metrics[i] \in Maps /\ pc[u] \in {2, 3} => r = <<>>
         /\ metrics[i] \in Maps /\ pc[u] = 4 => Sent(r)

\* What was sent was fit to be sent.
ReportOK(i) ==
    hist[i].report = None \/ (hist[i].report \in Seq(EntrySet) /\ Sent(hist[i].report))

\* Only callbacks come to the end of an interval.
LEMMA EndingCallback ==
    ASSUME BInv, NEW i \in Index, metrics[i] \notin Avgs, NEW u \in Thread, Ending(u, i)
    PROVE  u \in Callback /\ Busy(u)
  <1>1. Busy(u) /\ At(u) = i /\ Call(u).ev = "interval"
    BY DEF Ending, Mid
  <1>2. metrics[i] \in Class
    BY DEF BInv, Types, Index
  <1>3. HashEndAt(u) \/ MapEndAt(u)
    BY <1>1, <1>2, PlaceOf DEF Class
  <1> QED
    BY <1>1, <1>3 DEF HashEndAt, MapEndAt

\* Exact records are fit to make a list of.
LEMMA DistSound ==
    ASSUME BInv, NEW i \in Index, Dist(i)
    PROVE  Sound(obj[i].nodes, obj[i].total)
  <1> DEFINE q == obj[i].nodes
             d == hist[i].done
  <1>1. q \in Seq(RecordSet) /\ d \in [Names -> Nat]
    BY DistTypes
  <1>2. ExactRecords(q, d) /\ Prefix(q, Len(q)) <= obj[i].total
    BY DEF Dist
  <1> HIDE DEF q, d
  <1>3. \A k \in 1..Len(q) : q[k].name \in Names
    <2>1. \A k \in 1..Len(q) : q[k] \in RecordSet
      BY <1>1
    <2> QED
      BY <2>1 DEF RecordSet
  <1>4. ASSUME NEW j \in 1..Len(q), NEW k \in 1..Len(q), q[j].name = q[k].name
        PROVE  j = k
    BY <1>2, <1>3, <1>4 DEF ExactRecords
  <1>5. ASSUME NEW k \in 1..Len(q)
        PROVE  0 <= q[k].cnt
    <2>1. q[k].cnt = d[q[k].name] /\ d[q[k].name] \in Nat
      BY <1>1, <1>2, <1>3 DEF ExactRecords
    <2> QED
      BY <2>1
  <1> QED
    BY <1>2, <1>4, <1>5 DEF Sound, q

\* Nobody at the end of an interval moves, and the records grow at most.
LEMMA ListKeeps ==
    ASSUME BInv, BInv', metrics' = metrics, NEW i \in Index, Dist(i), ListOK(i),
           obj'[i].cfl = obj[i].cfl,
           \/ obj'[i].nodes = obj[i].nodes
           \/ \E x \in Names : OneMore(obj[i].nodes, x, obj'[i].nodes),
           \A u \in Thread : /\ Ending(u, i)' <=> Ending(u, i)
                             /\ Ending(u, i) => pc'[u] = pc[u] /\ loc'[u] = loc[u]
    PROVE  ListOK(i)'
  <1> DEFINE q == obj[i].nodes
             r == obj[i].cfl
  <1>1. PICK p : p = obj'[i].nodes
    OBVIOUS
  <1>2. q \in Seq(RecordSet) /\ r \in Seq(EntrySet)
    BY DistTypes
  <1>3. \A k \in 1..Len(q) : 0 <= q[k].cnt
    BY DistSound DEF Sound
  <1>4. p = q \/ \E x \in Names : OneMore(q, x, p)
    BY <1>1
  <1>5. obj'[i].cfl = r
    OBVIOUS
  <1>6. (\A u \in Thread : ~Ending(u, i)) => r = <<>>
    BY DEF ListOK
  <1>7. ASSUME NEW u \in Thread, Ending(u, i)
        PROVE  /\ metrics[i] \in Hashes /\ pc[u] = 2 =>
                    loc[u].node - 1 \in 0..Len(q) /\ Walked(r, q, loc[u].node - 1)
               /\ metrics[i] \in Hashes /\ pc[u] \in {3, 4} => Sent(r)
               /\ metrics[i] \in Maps /\ pc[u] \in {2, 3} => r = <<>>
               /\ metrics[i] \in Maps /\ pc[u] = 4 => Sent(r)
    BY <1>7 DEF ListOK
  <1> HIDE DEF q, r
  <1>8. ASSUME NEW n \in 0..Len(q), Walked(r, q, n)
        PROVE  Walked(r, p, n) /\ n \in 0..Len(p)
    <2>1. CASE p = q
      BY <1>8, <2>1
    <2>2. ASSUME NEW x \in Names, OneMore(q, x, p)
          PROVE  Walked(r, p, n) /\ n \in 0..Len(p)
      BY <1>2, <1>3, <1>8, <2>2, WalkGrows
    <2> QED
      BY <1>4, <2>1, <2>2
  <1>9. ASSUME NEW u \in Thread, Ending(u, i)'
        PROVE  /\ metrics[i] \in Hashes /\ pc'[u] = 2 =>
                    loc'[u].node - 1 \in 0..Len(p) /\ Walked(r, p, loc'[u].node - 1)
               /\ metrics[i] \in Hashes /\ pc'[u] \in {3, 4} => Sent(r)
               /\ metrics[i] \in Maps /\ pc'[u] \in {2, 3} => r = <<>>
               /\ metrics[i] \in Maps /\ pc'[u] = 4 => Sent(r)
    <2>1. Ending(u, i) /\ pc'[u] = pc[u] /\ loc'[u] = loc[u]
      BY <1>9
    <2>2. PICK n : n = loc[u].node - 1
      OBVIOUS
    <2>3. metrics[i] \in Hashes /\ pc[u] = 2 => n \in 0..Len(p) /\ Walked(r, p, n)
      BY <1>7, <1>8, <2>1, <2>2
    <2>4. /\ metrics[i] \in Hashes /\ pc[u] \in {3, 4} => Sent(r)
          /\ metrics[i] \in Maps /\ pc[u] \in {2, 3} => r = <<>>
          /\ metrics[i] \in Maps /\ pc[u] = 4 => Sent(r)
      BY <1>7, <2>1
    <2> QED
      BY <2>1, <2>2, <2>3, <2>4
  <1>10. (\A u \in Thread : ~Ending(u, i)') => r = <<>>
    BY <1>6
  <1> QED
    BY <1>1, <1>5, <1>9, <1>10 DEF ListOK

\* What the list says of the callback that makes it
LEMMA ListIs ==
    ASSUME BInv, NEW i \in Index, metrics[i] \notin Avgs, NEW t \in Callback, Busy(t), At(t) = i,
           Call(t).ev = "interval", pc[t] \in Nat, Solo, ~overlapped, ListOK(i)
    PROVE  LET q == obj[i].nodes
               r == obj[i].cfl IN
           /\ \A u \in Thread : u # t => ~Ending(u, i)
           /\ pc[t] = 1 => r = <<>>
           /\ metrics[i] \in Hashes /\ pc[t] = 2 =>
                loc[t].node - 1 \in 0..Len(q) /\ Walked(r, q, loc[t].node - 1)
           /\ pc[t] = 4 => Sent(r)
           /\ metrics[i] \in Hashes /\ pc[t] = 3 => Sent(r)
           /\ metrics[i] \in Maps /\ pc[t] \in {2, 3} => r = <<>>
  <1>1. t \in Thread /\ (metrics[i] \in Hashes \/ metrics[i] \in Maps)
    <2>1. metrics[i] \in Class
      BY DEF BInv, Types, Index
    <2> QED
      BY <2>1 DEF Class, Thread
  <1>2. \A u \in Thread : u # t => ~Ending(u, i)
    BY EndingCallback DEF Solo
  <1>3. pc[t] >= 2 <=> Ending(t, i)
    BY DEF Ending, Mid
  <1>4. CASE pc[t] = 1
    <2>1. ~Ending(t, i)
      BY <1>3, <1>4
    <2>2. obj[i].cfl = <<>>
      BY <1>2, <2>1 DEF ListOK
    <2> QED
      BY <1>2, <1>4, <2>2
  <1>5. CASE pc[t] >= 2
    <2>1. Ending(t, i)
      BY <1>3, <1>5
    <2> QED
      BY <1>1, <1>2, <1>5, <2>1 DEF ListOK
  <1>6. CASE pc[t] = 0
    BY <1>2, <1>6
  <1> QED
    BY <1>4, <1>5, <1>6

\* A callback at the end of an interval makes a list that may be sent, and
\* sends it.
LEMMA ListEnd ==
    ASSUME BInv, BInv', metrics' = metrics, NEW i \in Index, metrics[i] \notin Avgs,
           NEW t \in Thread, Acts(t, i), EndMove(t, i), Dist(i), ~dead => ListOK(i), Solo,
           ~overlapped, ReportOK(i)
    PROVE  (~dead /\ ~dead' => ListOK(i)') /\ ReportOK(i)'
  <1> DEFINE q == obj[i].nodes
             r == obj[i].cfl
             k == loc[t].node
  <1>1. /\ Busy(t) /\ At(t) = i /\ Others(t) /\ pc[t] \in Nat /\ pc'[t] \in Nat
        /\ Call(t).ev = "interval" /\ t \in Callback
    BY DEF Acts, BInv, Types, EndMove
  <1>2. q \in Seq(RecordSet) /\ r \in Seq(EntrySet) /\ obj[i].total \in Int
    BY DistTypes
  <1>3. Sound(q, obj[i].total)
    BY DistSound
  <1>4. obj'[i].nodes = q
    BY DEF EndMove, SameRecords
  <1>5. ~dead =>
           /\ \A u \in Thread : u # t => ~Ending(u, i)
           /\ pc[t] = 1 => r = <<>>
           /\ metrics[i] \in Hashes /\ pc[t] = 2 => k - 1 \in 0..Len(q) /\ Walked(r, q, k - 1)
           /\ pc[t] = 4 => Sent(r)
           /\ metrics[i] \in Hashes /\ pc[t] = 3 => Sent(r)
           /\ metrics[i] \in Maps /\ pc[t] \in {2, 3} => r = <<>>
    BY <1>1, ListIs
  <1>6. ~(metrics[i] \in Hashes /\ metrics[i] \in Maps)
    BY DEF Hashes, Maps
  <1>7. k \in Nat
    <2>1. loc[t] \in Locals
      BY ActCases
    <2> QED
      BY <2>1 DEF Locals
  <1>8. PICK p2 : p2 = obj'[i].nodes
    OBVIOUS
  <1>9. PICK r2 : r2 = obj'[i].cfl
    OBVIOUS
  <1>10. PICK n2 : n2 = pc'[t]
    OBVIOUS
  <1>11. PICK k2 : k2 = loc'[t].node - 1
    OBVIOUS
  <1>12. work'[t] = work[t] /\ pc'[t] >= 2 => Ending(t, i)'
    BY <1>1 DEF Ending, Mid, Busy, At, Call
  <1>13. pc'[t] = 1 => ~Ending(t, i)'
    BY DEF Ending, Mid
  <1>14. OnTo(t) => work'[t] = work[t] /\ n2 = pc[t] + 1
    BY <1>10 DEF OnTo
  <1>15. Leaves(t) \/ Ends(t) => n2 = 1
    BY <1>10 DEF Leaves, Ends
  <1>16. Walked(<<>>, q, 0) /\ Sent(<<>>)
    BY <1>2, WalkEmpty
  <1>17. EndMove(t, i)
    OBVIOUS
  <1>18. \/ /\ metrics[i] \in Hashes /\ pc[t] = 1 /\ OnTo(t) /\ loc'[t].node = 1
            /\ r2 = r /\ hist'[i].report = hist[i].report
         \/ /\ metrics[i] \in Hashes /\ pc[t] = 2 /\ work'[t] = work[t] /\ n2 = 2
            /\ k \in 1..Len(q) /\ loc'[t].node = k + 1
            /\ r2 = CflAdd(r, q[k], obj[i].total)
            /\ hist'[i].report = hist[i].report
         \/ /\ metrics[i] \in Hashes /\ pc[t] \in {2, 3} /\ OnTo(t)
            /\ r2 = r /\ hist'[i].report = hist[i].report
         \/ /\ dead /\ hist'[i].report = hist[i].report
         \/ /\ pc[t] = 4 /\ ~dead /\ OnTo(t) /\ hist'[i].report = r
            /\ r2 = r
         \/ /\ pc[t] = 5 /\ OnTo(t) /\ r2 = r /\ hist'[i].report = hist[i].report
         \/ /\ pc[t] = 6 /\ Leaves(t) /\ r2 = <<>> /\ hist'[i].report = hist[i].report
         \/ /\ metrics[i] \in Maps /\ pc[t] = 1 /\ (OnTo(t) \/ Leaves(t))
            /\ r2 = r /\ hist'[i].report = hist[i].report
         \/ /\ metrics[i] \in Maps /\ pc[t] = 2 /\ OnTo(t)
            /\ r2 = r /\ hist'[i].report = hist[i].report
         \/ /\ metrics[i] \in Maps /\ pc[t] = 3 /\ OnTo(t)
            /\ r2 = CflAddAll(r, q, obj[i].total)
            /\ hist'[i].report = hist[i].report
    BY <1>9, <1>10, <1>17, Zenon DEF EndMove
  <1> HIDE DEF q, r, k
  <1>19. ReportOK(i)'
    <2>1. CASE hist'[i].report = hist[i].report
      BY <2>1 DEF ReportOK
    <2>2. CASE pc[t] = 4 /\ ~dead /\ hist'[i].report = r
      <3>1. r \in Seq(EntrySet) /\ Sent(r)
        BY <1>2, <1>5, <2>2
      <3> QED
        BY <2>2, <3>1 DEF ReportOK
    <2> QED
      BY <1>18, <2>1, <2>2
  <1>20. ASSUME ~dead, ~dead' PROVE ListOK(i)'
    <2>1. \A u \in Thread : u # t => ~Ending(u, i)'
      <3>1. ASSUME NEW u \in Thread, u # t PROVE ~Ending(u, i)'
        <4>1. Ending(u, i)' <=> Ending(u, i)
          BY <1>1, <3>1, MidOther, AdderOther
        <4> QED
          BY <1>5, <1>20, <3>1, <4>1
      <3> QED
        BY <3>1
    <2> DEFINE E == Ending(t, i)'
               Goal == /\ ~E => r2 = <<>>
                       /\ E /\ metrics[i] \in Hashes /\ n2 = 2 =>
                            k2 \in 0..Len(q) /\ Walked(r2, q, k2)
                       /\ E /\ metrics[i] \in Hashes /\ n2 \in {3, 4} => Sent(r2)
                       /\ E /\ metrics[i] \in Maps /\ n2 \in {2, 3} => r2 = <<>>
                       /\ E /\ metrics[i] \in Maps /\ n2 = 4 => Sent(r2)
    <2>2. /\ work'[t] = work[t] /\ n2 >= 2 => E
          /\ n2 = 1 => ~E
      BY <1>10, <1>12, <1>13
    <2> HIDE DEF E
    <2>3. Goal
      <3>1. CASE metrics[i] \in Hashes /\ pc[t] = 1 /\ OnTo(t) /\ loc'[t].node = 1 /\ r2 = r
        <4>1. n2 = 2 /\ E /\ r2 = <<>> /\ k2 = 0
          BY <1>5, <1>11, <1>14, <1>20, <2>2, <3>1
        <4>2. 0 \in 0..Len(q)
          BY <1>2
        <4> QED
          BY <1>6, <1>16, <3>1, <4>1, <4>2
      <3>2. CASE /\ metrics[i] \in Hashes /\ pc[t] = 2 /\ work'[t] = work[t] /\ n2 = 2
                 /\ k \in 1..Len(q) /\ loc'[t].node = k + 1
                 /\ r2 = CflAdd(r, q[k], obj[i].total)
        <4>1. E /\ k2 = k
          BY <1>7, <1>11, <2>2, <3>2
        <4>2. Walked(r, q, k - 1)
          BY <1>5, <1>20, <3>2
        <4>3. Walked(r2, q, k)
          BY <1>2, <1>3, <3>2, <4>2, WalkStep
        <4>4. k \in 0..Len(q)
          BY <1>2, <1>7, <3>2
        <4> QED
          BY <1>6, <3>2, <4>1, <4>3, <4>4
      <3>3. CASE metrics[i] \in Hashes /\ pc[t] \in {2, 3} /\ OnTo(t) /\ r2 = r
        <4>1. E /\ n2 \in {3, 4}
          BY <1>14, <2>2, <3>3
        <4>2. Sent(r)
          BY <1>5, <1>20, <3>3 DEF Walked
        <4> QED
          BY <1>6, <3>3, <4>1, <4>2
      <3>4. CASE pc[t] \in {4, 5} /\ OnTo(t)
        <4>1. E /\ n2 \in {5, 6}
          BY <1>14, <2>2, <3>4
        <4> QED
          BY <4>1
      <3>5. CASE pc[t] = 6 /\ Leaves(t) /\ r2 = <<>>
        <4>1. ~E
          BY <1>15, <2>2, <3>5
        <4> QED
          BY <3>5, <4>1
      <3>6. CASE metrics[i] \in Maps /\ pc[t] \in {1, 2} /\ (OnTo(t) \/ Leaves(t)) /\ r2 = r
        <4>1. r2 = <<>>
          BY <1>5, <1>20, <3>6
        <4> QED
          BY <1>6, <1>16, <3>6, <4>1
      <3>7. CASE metrics[i] \in Maps /\ pc[t] = 3 /\ OnTo(t) /\ r2 = CflAddAll(r, q, obj[i].total)
        <4>1. r = <<>> /\ E /\ n2 = 4
          BY <1>5, <1>14, <1>20, <2>2, <3>7
        <4>2. Sent(r2)
          BY <1>2, <1>3, <3>7, <4>1, WalkAll
        <4> QED
          BY <1>6, <3>7, <4>1, <4>2
      <3> HIDE DEF Goal
      <3> QED
        BY <1>18, <1>20, <3>1, <3>2, <3>3, <3>4, <3>5, <3>6, <3>7
    <2>4. p2 = q
      BY <1>4, <1>8
    <2>5. /\ ~Ending(t, i)' => r2 = <<>>
          /\ Ending(t, i)' /\ metrics[i] \in Hashes /\ n2 = 2 =>
               k2 \in 0..Len(p2) /\ Walked(r2, p2, k2)
          /\ Ending(t, i)' /\ metrics[i] \in Hashes /\ n2 \in {3, 4} => Sent(r2)
          /\ Ending(t, i)' /\ metrics[i] \in Maps /\ n2 \in {2, 3} => r2 = <<>>
          /\ Ending(t, i)' /\ metrics[i] \in Maps /\ n2 = 4 => Sent(r2)
      BY <2>3, <2>4 DEF E
    <2> QED
      <3>1. (\A u \in Thread : ~Ending(u, i)') => obj'[i].cfl = <<>>
        BY <1>9, <2>5
      <3>2. ASSUME NEW u \in Thread, Ending(u, i)'
            PROVE  /\ metrics'[i] \in Hashes /\ pc'[u] = 2 =>
                        /\ loc'[u].node - 1 \in 0..Len(obj'[i].nodes)
                        /\ Walked(obj'[i].cfl, obj'[i].nodes, loc'[u].node - 1)
                   /\ metrics'[i] \in Hashes /\ pc'[u] \in {3, 4} => Sent(obj'[i].cfl)
                   /\ metrics'[i] \in Maps /\ pc'[u] \in {2, 3} => obj'[i].cfl = <<>>
                   /\ metrics'[i] \in Maps /\ pc'[u] = 4 => Sent(obj'[i].cfl)
        <4>1. u = t
          BY <2>1, <3>2
        <4> QED
          BY <1>8, <1>9, <1>10, <1>11, <2>5, <3>2, <4>1
      <3> QED
        BY <3>1, <3>2 DEF ListOK
  <1> QED
    BY <1>19, <1>20

\* What holds of a metric with a list
ListInv(i) ==
    /\ hist[i].met \/ Dist(i)
    /\ hist[i].met \/ overlapped \/ dead \/ ListOK(i)
    /\ hist[i].met \/ overlapped \/ ReportOK(i)

\* Every step keeps it.
LEMMA ListInvNext ==
    ASSUME BInv, BInv', NodeInv, AnyStep, metrics' = metrics, Solo, overlapped => overlapped',
           dead => dead', NEW i \in Index, metrics[i] \notin Avgs, ListInv(i)
    PROVE  ListInv(i)'
  <1>1. (hist'[i].met \/ Dist(i)') /\ (hist[i].met => hist'[i].met)
    BY DistNext DEF ListInv
  <1>2. ASSUME ~hist'[i].met, ~overlapped'
        PROVE  (dead' \/ ListOK(i)') /\ ReportOK(i)'
    <2>1. ~hist[i].met /\ ~overlapped
      BY <1>1, <1>2
    <2>2. Dist(i) /\ (dead \/ ListOK(i)) /\ ReportOK(i)
      BY <2>1 DEF ListInv
    <2>3. CASE Aside(i)
      <3>1. obj'[i] = obj[i] /\ hist'[i] = hist[i]
        BY <2>3 DEF Aside
      <3>2. \A u \in Thread : /\ Ending(u, i)' <=> Ending(u, i)
                              /\ Ending(u, i) => pc'[u] = pc[u] /\ loc'[u] = loc[u]
        BY <2>3 DEF Aside, Ending
      <3>3. ListOK(i) => ListOK(i)'
        BY <2>2, <3>1, <3>2, ListKeeps
      <3>4. ReportOK(i)'
        BY <2>2, <3>1 DEF ReportOK
      <3> QED
        BY <2>2, <3>3, <3>4
    <2>4. ASSUME NEW t \in Thread, Acts(t, i), AdderMove(t, i)
          PROVE  (dead' \/ ListOK(i)') /\ ReportOK(i)'
      <3>1. obj'[i].cfl = obj[i].cfl /\ hist'[i].report = hist[i].report
        BY <2>4 DEF AdderMove
      <3>2. ASSUME NEW u \in Thread
            PROVE  /\ Ending(u, i)' <=> Ending(u, i)
                   /\ Ending(u, i) => pc'[u] = pc[u] /\ loc'[u] = loc[u]
        <4>1. CASE u # t
          BY <2>4, <4>1, MidOther, AdderOther DEF Acts
        <4>2. CASE u = t
          <5>1. Call(t).ev # "interval"
            BY <2>4 DEF AdderMove
          <5>2. work'[t] = work[t] \/ pc'[t] = 1
            BY <2>4 DEF AdderMove, Begins, Totals, Seeks, AddsOne, OnTo, Leaves
          <5>3. ~Ending(t, i)
            BY <5>1 DEF Ending
          <5>4. ~Ending(t, i)'
            BY <5>1, <5>2 DEF Ending, Mid, Call
          <5> QED
            BY <4>2, <5>3, <5>4
        <4> QED
          BY <4>1, <4>2
      <3>3. \/ obj'[i].nodes = obj[i].nodes
            \/ \E x \in Names : OneMore(obj[i].nodes, x, obj'[i].nodes)
        <4>1. CASE SameRecords(i)
          BY <4>1 DEF SameRecords
        <4>2. CASE AddsOne(t, i)
          <5>1. Adder(t, i)
            BY <2>4, <4>2 DEF AddsOne, AdderMove, Adder, Mid, Acts, BInv, Types
          <5>2. AdderOK(t, i)
            BY <2>2, <5>1 DEF Dist
          <5> QED
            BY <2>2, <4>2, <5>2, AddsOneMore
        <4> QED
          BY <2>4, <4>1, <4>2 DEF AdderMove, Begins, Totals, Seeks
      <3>4. ListOK(i) => ListOK(i)'
        BY <2>2, <3>1, <3>2, <3>3, ListKeeps
      <3>5. ReportOK(i)'
        BY <2>2, <3>1 DEF ReportOK
      <3> QED
        BY <2>2, <3>4, <3>5
    <2>5. ASSUME NEW t \in Thread, Acts(t, i), EndMove(t, i)
          PROVE  (dead' \/ ListOK(i)') /\ ReportOK(i)'
      BY <2>1, <2>2, <2>5, ListEnd
    <2> QED
      BY <2>3, <2>4, <2>5, ListMoves
  <1> QED
    BY <1>1, <1>2 DEF ListInv

\* The invariant of the distributions
DInv == /\ BInv /\ NodeInv /\ Solo
        /\ \A i \in Index : metrics[i] \notin Avgs => ListInv(i)

\* It holds at first,
LEMMA DInvInit ==
    ASSUME Init
    PROVE  DInv
  <1>1. BInv /\ NodeInv
    BY InitBasic
  <1>2. \A u \in Thread : ~Busy(u)
    BY DEF Init, Busy
  <1>3. Solo
    BY <1>2 DEF Solo, Thread
  <1>4. ASSUME NEW i \in Index PROVE ListInv(i)
    <2>1. obj[i] = NewMetric /\ hist[i] = NewHistory
      BY DEF Init
    <2>2. /\ obj[i].nodes = <<>> /\ obj[i].cfl = <<>> /\ obj[i].total = 0
          /\ hist[i].report = None /\ \A x \in Names : hist[i].done[x] = 0
      BY <2>1 DEF NewMetric, NewHistory, Names
    <2>3. \A u \in Thread : ~Adder(u, i) /\ ~Ending(u, i)
      BY <1>2 DEF Adder, Ending, Mid
    <2>4. Len(obj[i].nodes) = 0 /\ obj[i].nodes \in Seq(RecordSet) /\ 1..Len(obj[i].nodes) = {}
      BY <2>2
    <2>5. Prefix(obj[i].nodes, Len(obj[i].nodes)) = 0
      BY <2>4, PrefixStep
    <2>6. ExactRecords(obj[i].nodes, hist[i].done)
      BY <2>2, <2>4 DEF ExactRecords
    <2>7. Dist(i)
      BY <2>2, <2>3, <2>5, <2>6 DEF Dist
    <2>8. ListOK(i) /\ ReportOK(i)
      BY <2>2, <2>3 DEF ListOK, ReportOK
    <2> QED
      BY <2>7, <2>8 DEF ListInv
  <1> QED
    BY <1>1, <1>3, <1>4 DEF DInv

\* and every step keeps it.
LEMMA DInvNext ==
    ASSUME DInv, [Next]_vars
    PROVE  DInv'
  <1>1. BInv /\ NodeInv /\ Solo
    BY DEF DInv
  <1>2. BInv' /\ AnyStep /\ metrics' = metrics
    BY <1>1, NextCases
  <1>3. NodeInv' /\ Solo' /\ (overlapped => overlapped') /\ (dead => dead')
    BY <1>1, <1>2, NodeInvNext, SoloNext, DeadNext
  <1>4. Index' = Index
    BY <1>2 DEF Index
  <1>5. ASSUME NEW i \in Index, metrics[i] \notin Avgs PROVE ListInv(i)'
    BY <1>1, <1>2, <1>3, <1>5, ListInvNext DEF DInv
  <1> QED
    BY <1>2, <1>3, <1>4, <1>5 DEF DInv

\* The set of the records of a name
LEMMA ExactMatches ==
    ASSUME BInv, NEW i \in Index, Dist(i), NEW x \in Names
    PROVE  /\ Cardinality(Matches(i, x)) = (IF hist[i].done[x] > 0 THEN 1 ELSE 0)
           /\ \A k \in Matches(i, x) : obj[i].nodes[k].cnt = hist[i].done[x]
  <1> DEFINE q == obj[i].nodes
             n == hist[i].done[x]
             M == Matches(i, x)
  <1>1. q \in Seq(RecordSet) /\ hist[i].done \in [Names -> Nat]
    BY DistTypes
  <1>2. DOMAIN q = 1..Len(q) /\ n \in Nat
    BY <1>1
  <1>3. M = {k \in 1..Len(q) : q[k].name = x}
    BY <1>2 DEF Matches
  <1>4. /\ \A j, k \in 1..Len(q) : q[j].name = x /\ q[k].name = x => j = k
        /\ (\A k \in 1..Len(q) : q[k].name # x) <=> n = 0
        /\ \A k \in 1..Len(q) : q[k].name = x => q[k].cnt = n
    BY DEF Dist, ExactRecords
  <1> HIDE DEF q, n, M
  <1>5. \A k \in M : q[k].cnt = n
    BY <1>3, <1>4
  <1>6. CASE n = 0
    <2>1. M = {}
      BY <1>3, <1>4, <1>6
    <2>2. Cardinality(M) = 0
      BY <2>1, FS_EmptySet
    <2> QED
      BY <1>5, <1>6, <2>2 DEF q, n, M
  <1>7. CASE n > 0
    <2>1. PICK k \in 1..Len(q) : q[k].name = x
      BY <1>2, <1>4, <1>7
    <2>2. M = {k}
      BY <1>3, <1>4, <2>1
    <2>3. Cardinality(M) = 1
      BY <2>2, FS_Singleton
    <2> QED
      BY <1>5, <1>7, <2>3 DEF q, n, M
  <1> QED
    BY <1>2, <1>6, <1>7

\* DistributionExact, for any number of threads, metrics, names and requests:
\* unless two threads were in Hash::add (or in the map's counterpart) at once,
\* every name has one record with the exact count; and a list that is sent,
\* as long as callbacks do not overlap, is one of different names whose
\* frequencies are together at most 1, although the flow thread counts on
\* while the callback walks over the records.
THEOREM DistributionsAreExact == Spec => []DistributionExact
  <1>1. Init => DInv
    BY DInvInit
  <1>2. DInv /\ [Next]_vars => DInv'
    BY DInvNext
  <1>3. DInv => DistributionExact
    <2> SUFFICES ASSUME DInv, NEW i \in Index, metrics[i] \in Hashes \cup Maps, ~hist[i].met
                 PROVE  /\ \A x \in Names :
                             /\ Cardinality(Matches(i, x))
                                  = (IF hist[i].done[x] > 0 THEN 1 ELSE 0)
                             /\ \A k \in Matches(i, x) : obj[i].nodes[k].cnt = hist[i].done[x]
                        /\ LET r == IF hist[i].report = None THEN <<>> ELSE hist[i].report IN
                           ~overlapped /\ r # <<>> =>
                             /\ \A j, k \in DOMAIN r : j # k => r[j][1] # r[k][1]
                             /\ SumOf([k \in DOMAIN r |-> r[k][2]]) <= r[Len(r)][3]
      BY DEF DistributionExact, Names
    <2>1. BInv /\ metrics[i] \notin Avgs /\ ListInv(i)
      BY DEF DInv, Hashes, Maps, Avgs, Rates, Tps
    <2>2. Dist(i) /\ (overlapped \/ ReportOK(i))
      BY <2>1 DEF ListInv
    <2>3. ASSUME ~overlapped, hist[i].report # None
          PROVE  LET r == hist[i].report IN
                 r # <<>> => /\ \A j, k \in DOMAIN r : j # k => r[j][1] # r[k][1]
                             /\ SumOf([k \in DOMAIN r |-> r[k][2]]) <= r[Len(r)][3]
      <3>1. PICK r : r = hist[i].report
        OBVIOUS
      <3>2. r \in Seq(EntrySet) /\ Sent(r)
        BY <2>2, <2>3, <3>1 DEF ReportOK
      <3>3. DOMAIN r = 1..Len(r)
        BY <3>2
      <3>4. r # <<>> => /\ \A j, k \in DOMAIN r : j # k => r[j][1] # r[k][1]
                        /\ SumOf([k \in DOMAIN r |-> r[k][2]]) <= r[Len(r)][3]
        BY <3>2, <3>3 DEF Sent, Cnts
      <3> QED
        BY <3>1, <3>4
    <2>4. \A x \in Names :
            /\ Cardinality(Matches(i, x)) = (IF hist[i].done[x] > 0 THEN 1 ELSE 0)
            /\ \A k \in Matches(i, x) : obj[i].nodes[k].cnt = hist[i].done[x]
      BY <2>1, <2>2, ExactMatches
    <2>5. CASE hist[i].report = None
      BY <2>4, <2>5
    <2>6. CASE hist[i].report # None
      BY <2>3, <2>4, <2>6
    <2> QED
      BY <2>5, <2>6
  <1> QED
    BY <1>1, <1>2, <1>3, PTL DEF Spec
=============================================================================
