--------------------------- MODULE FlowChainProofs ---------------------------
(***************************************************************************)
(* The bucket list of FlowChain is right for any set of flows.             *)
(***************************************************************************)
EXTENDS FlowChain, SequenceTheorems, WellFoundedInduction, TLAPS

\* Without drops one element: how long the result is and what is in it.
LEMMA WithoutIsSeq ==
    ASSUME NEW s \in Seq(Flows), NEW i \in DOMAIN s
    PROVE  /\ Without(s, i) \in Seq(Flows)
           /\ Len(Without(s, i)) = Len(s) - 1
           /\ \A j \in 1..(Len(s) - 1) :
                Without(s, i)[j] = IF j < i THEN s[j] ELSE s[j + 1]
  <1>1. Len(s) \in Nat /\ DOMAIN s = 1..Len(s)
    OBVIOUS
  <1>2. Len(s) - 1 \in Nat
    BY <1>1
  <1>3. Without(s, i) \in [1..(Len(s) - 1) -> Flows]
    BY <1>1, <1>2 DEF Without
  <1>4. Without(s, i) \in Seq(Flows)
    BY <1>2, <1>3, IsASeq
  <1>5. Len(Without(s, i)) = Len(s) - 1
    BY <1>2, <1>3, <1>4, LenProperties
  <1> QED
    BY <1>4, <1>5 DEF Without

\* What ListIsChain needs to be inductive.
IInv == TypeOK /\ ChainIsASet /\ ListIsChain

\* The invariant holds initially.
LEMMA InitIInv == Init => IInv
  <1> SUFFICES ASSUME Init PROVE IInv
    OBVIOUS
  <1>1. chain = <<>> /\ chain \in Seq(Flows) /\ Len(chain) = 0 /\ DOMAIN chain = {}
    BY DEF Init
  <1>2. TypeOK
    BY <1>1 DEF Init, TypeOK, Pointer
  <1>3. ChainIsASet /\ ListIsChain
    BY <1>1 DEF Init, ChainIsASet, ListIsChain
  <1> QED
    BY <1>2, <1>3 DEF IInv

\* FlowHashTable::create appends to the list.
LEMMA CreateIInv == ASSUME IInv, NEW f \in Flows, Create(f) PROVE IInv'
  <1> USE ChainAssumption
  <1>0. /\ chain \in Seq(Flows) /\ chain' = Append(chain, f)
        /\ chain' \in Seq(Flows) /\ Len(chain') = Len(chain) + 1
        /\ Len(chain) \in Nat /\ DOMAIN chain = 1..Len(chain)
        /\ DOMAIN chain' = 1..(Len(chain) + 1)
        /\ chain'[Len(chain) + 1] = f
        /\ \A i \in 1..Len(chain) : chain'[i] = chain[i]
    BY AppendProperties DEF IInv, TypeOK, Create
  <1>1. \A i \in 1..Len(chain) : chain[i] \in Flows /\ chain[i] # f
    BY <1>0 DEF Create, Members
  <1>2. TypeOK'
    BY <1>0 DEF IInv, TypeOK, Create, CreateCnt, CreatePrev, Pointer
  <1>3. ChainIsASet'
    BY <1>0, <1>1 DEF IInv, ChainIsASet
  <1>4. ListIsChain'
    <2>1. CASE Len(chain) = 0
      <3>1. elm_cnt = 0
        BY <2>1 DEF IInv, ListIsChain
      <3>2. /\ first' = f /\ last' = f /\ elm_cnt' = 1
            /\ next'[f] = NULL /\ prev'[f] = NULL
        BY <3>1 DEF IInv, TypeOK, Create, CreateCnt, CreatePrev
      <3> QED
        BY <1>0, <2>1, <3>2 DEF ListIsChain
    <2>2. CASE Len(chain) > 0
      <3>1. elm_cnt = Len(chain) /\ elm_cnt # 0 /\ chain # <<>>
        BY <1>0, <2>2 DEF IInv, ListIsChain
      <3>2. /\ first' = chain[1] /\ last' = f /\ elm_cnt' = Len(chain) + 1
            /\ last = chain[Len(chain)]
        BY <3>1 DEF IInv, ListIsChain, Create, CreateCnt
      <3>3. next'[f] = NULL /\ prev'[f] = chain[Len(chain)]
        BY <3>1, <3>2 DEF IInv, TypeOK, Create, CreatePrev
      <3>4. ASSUME NEW i \in 1..Len(chain)
            PROVE  /\ next'[chain[i]] = IF i < Len(chain) THEN chain[i + 1] ELSE f
                   /\ prev'[chain[i]] = IF i > 1 THEN chain[i - 1] ELSE NULL
        <4>1. chain[i] = last <=> i = Len(chain)
          <5>1. i \in DOMAIN chain /\ Len(chain) \in DOMAIN chain
            BY <1>0, <2>2
          <5>2. chain[i] = chain[Len(chain)] => i = Len(chain)
            BY <5>1 DEF IInv, ChainIsASet
          <5> QED
            BY <3>2, <5>2
        <4>2. next'[chain[i]] = IF chain[i] = last THEN f ELSE next[chain[i]]
          BY <1>1, <3>1 DEF Create
        <4>3. prev'[chain[i]] = prev[chain[i]]
          BY <1>1 DEF IInv, TypeOK, Create, CreatePrev
        <4> QED
          BY <1>0, <4>1, <4>2, <4>3 DEF IInv, ListIsChain
      <3> QED
        BY <1>0, <2>2, <3>2, <3>3, <3>4 DEF ListIsChain
    <2> QED
      BY <1>0, <2>1, <2>2
  <1> QED
    BY <1>2, <1>3, <1>4 DEF IInv

\* FlowHashTable::remove takes one flow out of the list.
LEMMA UnlinkIInv ==
    ASSUME IInv, NEW f \in Flows, Unlink(f)
    PROVE  ChainIsASet' /\ ListIsChain'
           /\ first' \in Pointer /\ last' \in Pointer /\ elm_cnt' \in Nat
           /\ next' \in [Flows -> Pointer] /\ prev' \in [Flows -> Pointer]
           /\ chain' \in Seq(Flows)
  <1> USE ChainAssumption
  <1> DEFINE n == Len(chain)
  <1>0. /\ chain \in Seq(Flows) /\ n \in Nat /\ DOMAIN chain = 1..n
        /\ \A j \in 1..n : chain[j] \in Flows /\ chain[j] # NULL
        /\ first \in Pointer /\ last \in Pointer
        /\ next \in [Flows -> Pointer] /\ prev \in [Flows -> Pointer]
    BY DEF IInv, TypeOK
  <1>1. PICK i \in 1..n : chain[i] = f /\ chain' = Without(chain, i)
    BY <1>0 DEF Unlink
  <1>2. /\ chain' \in Seq(Flows) /\ Len(chain') = n - 1
        /\ DOMAIN chain' = 1..(n - 1)
        /\ \A j \in 1..(n - 1) : chain'[j] = IF j < i THEN chain[j] ELSE chain[j + 1]
    <2>1. i \in DOMAIN chain
      BY <1>0
    <2>2. /\ Without(chain, i) \in Seq(Flows)
          /\ Len(Without(chain, i)) = Len(chain) - 1
          /\ \A j \in 1..(Len(chain) - 1) :
               Without(chain, i)[j] = IF j < i THEN chain[j] ELSE chain[j + 1]
      BY <1>0, <2>1, WithoutIsSeq
    <2> QED
      BY <1>1, <2>2
  <1>3. \A j, k \in 1..n : chain[j] = chain[k] => j = k
    BY <1>0 DEF IInv, ChainIsASet
  <1>4. ChainIsASet'
    BY <1>0, <1>2, <1>3 DEF ChainIsASet
  <1>5. /\ elm_cnt = n /\ first = chain[1] /\ last = chain[n]
        /\ \A j \in 1..n :
             /\ next[chain[j]] = IF j < n THEN chain[j + 1] ELSE NULL
             /\ prev[chain[j]] = IF j > 1 THEN chain[j - 1] ELSE NULL
    <2>1. chain # <<>>
      BY <1>0, <1>1
    <2> QED
      BY <1>0, <2>1 DEF IInv, ListIsChain
  <1>6. elm_cnt' = n - 1 /\ elm_cnt' \in Nat
    BY <1>0, <1>1, <1>5 DEF Unlink
  <1>7. CASE n = 1
    <2>1. elm_cnt = 1 /\ f = first
      BY <1>1, <1>5, <1>7
    <2>2. /\ first' = NULL /\ last' = NULL
          /\ next' \in [Flows -> Pointer] /\ prev' \in [Flows -> Pointer]
      BY <1>0, <2>1 DEF Unlink, Pointer
    <2>3. chain' = <<>> /\ DOMAIN chain' = {}
      BY <1>2, <1>7
    <2> QED
      BY <1>2, <1>4, <1>6, <1>7, <2>2, <2>3 DEF ListIsChain, Pointer
  <1>8. CASE n > 1
    <2> HIDE DEF n
    <2>1. elm_cnt # 1
      BY <1>5, <1>8
    <2>2. /\ first' = IF prev[f] = NULL THEN next[f] ELSE first
          /\ last' = IF prev[f] # NULL /\ next[f] = NULL THEN prev[f] ELSE last
          /\ next' = [g \in Flows |-> IF g = f THEN NULL
                                      ELSE IF g = prev[f] THEN next[f] ELSE next[g]]
          /\ prev' = [g \in Flows |-> IF g = f THEN NULL
                                      ELSE IF g = next[f] THEN prev[f] ELSE prev[g]]
      BY <2>1 DEF Unlink, RemoveLast
    <2>3. /\ next[f] = IF i < n THEN chain[i + 1] ELSE NULL
          /\ prev[f] = IF i > 1 THEN chain[i - 1] ELSE NULL
      BY <1>1, <1>5
    <2>4. /\ next[f] \in Pointer /\ prev[f] \in Pointer
          /\ next' \in [Flows -> Pointer] /\ prev' \in [Flows -> Pointer]
      BY <1>0, <2>2 DEF Pointer
    <2>5. first' \in Pointer /\ last' \in Pointer
      BY <1>0, <2>2, <2>4
    <2>6. first' = chain'[1]
      <3>1. CASE i = 1
        BY <1>0, <1>2, <1>8, <2>2, <2>3, <3>1
      <3>2. CASE i > 1
        BY <1>0, <1>2, <1>5, <1>8, <2>2, <2>3, <3>2
      <3> QED
        BY <3>1, <3>2, <1>0
    <2>7. last' = chain'[n - 1]
      <3>1. CASE i = n
        BY <1>0, <1>2, <1>8, <2>2, <2>3, <3>1
      <3>2. CASE i < n
        BY <1>0, <1>2, <1>5, <1>8, <2>2, <2>3, <3>2
      <3> QED
        BY <3>1, <3>2, <1>0
    <2>8. ASSUME NEW j \in 1..n, j # i
          PROVE  /\ next'[chain[j]] = IF j + 1 = i THEN next[f] ELSE next[chain[j]]
                 /\ prev'[chain[j]] = IF j = i + 1 THEN prev[f] ELSE prev[chain[j]]
      <3>1. chain[j] \in Flows /\ chain[j] # f /\ chain[j] # NULL
        BY <1>0, <1>1, <1>3, <2>8
      <3>2. chain[j] = prev[f] <=> j + 1 = i
        BY <1>0, <1>3, <2>3, <3>1
      <3>3. chain[j] = next[f] <=> j = i + 1
        BY <1>0, <1>3, <2>3, <3>1
      <3> QED
        BY <2>2, <3>1, <3>2, <3>3
    <2>9. ASSUME NEW k \in 1..(n - 1)
          PROVE  /\ next'[chain'[k]] = IF k < n - 1 THEN chain'[k + 1] ELSE NULL
                 /\ prev'[chain'[k]] = IF k > 1 THEN chain'[k - 1] ELSE NULL
      <3>1. CASE k < i
        <4>1. k \in 1..n /\ k # i /\ chain'[k] = chain[k]
          BY <1>0, <1>2, <3>1
        <4>2. next'[chain[k]] = IF k + 1 = i THEN next[f] ELSE chain[k + 1]
          BY <1>0, <1>5, <2>8, <3>1, <4>1
        <4>3. prev'[chain[k]] = IF k > 1 THEN chain[k - 1] ELSE NULL
          BY <1>0, <1>5, <2>8, <3>1, <4>1
        <4>4. next'[chain'[k]] = IF k < n - 1 THEN chain'[k + 1] ELSE NULL
          BY <1>0, <1>2, <2>3, <3>1, <4>1, <4>2
        <4>5. prev'[chain'[k]] = IF k > 1 THEN chain'[k - 1] ELSE NULL
          BY <1>0, <1>2, <3>1, <4>1, <4>3
        <4> QED
          BY <4>4, <4>5
      <3>2. CASE k >= i
        <4>1. k + 1 \in 1..n /\ k + 1 # i /\ chain'[k] = chain[k + 1]
          BY <1>0, <1>2, <3>2
        <4>2. next'[chain[k + 1]] = IF k + 1 < n THEN chain[k + 2] ELSE NULL
          BY <1>0, <1>5, <2>8, <3>2, <4>1
        <4>3. prev'[chain[k + 1]] = IF k = i THEN prev[f] ELSE chain[k]
          BY <1>0, <1>5, <2>8, <3>2, <4>1
        <4>4. next'[chain'[k]] = IF k < n - 1 THEN chain'[k + 1] ELSE NULL
          BY <1>0, <1>2, <3>2, <4>1, <4>2
        <4>5. prev'[chain'[k]] = IF k > 1 THEN chain'[k - 1] ELSE NULL
          BY <1>0, <1>2, <2>3, <3>2, <4>1, <4>3
        <4> QED
          BY <4>4, <4>5
      <3> QED
        BY <3>1, <3>2, <1>0
    <2>10. ListIsChain'
      <3>1. chain' # <<>>
        <4>1. Len(chain') # 0
          BY <1>0, <1>2, <1>8
        <4> QED
          BY <4>1
      <3> QED
        BY <1>2, <1>6, <2>6, <2>7, <2>9, <3>1 DEF ListIsChain
    <2> QED
      BY <1>2, <1>4, <1>6, <2>4, <2>5, <2>10
  <1> QED
    BY <1>0, <1>1, <1>7, <1>8

\* Every step keeps the invariant.
LEMMA NextIInv == ASSUME IInv, [Next]_vars PROVE IInv'
  <1>1. ASSUME NEW f \in Flows, Create(f) PROVE IInv'
    BY <1>1, CreateIInv
  <1>2. ASSUME NEW f \in Flows, Remove(f) PROVE IInv'
    <2>1. Unlink(f) /\ UNCHANGED <<walk, cur, seen>>
      BY <1>2 DEF Remove
    <2> QED
      BY <2>1, UnlinkIInv DEF IInv, TypeOK
  <1>3. CASE Begin
    BY <1>3 DEF IInv, TypeOK, ChainIsASet, ListIsChain, Begin, block
  <1>4. ASSUME NEW closing \in BOOLEAN, Visit(closing) PROVE IInv'
    <2>1. cur \in Flows /\ cur' \in Pointer /\ seen' \subseteq Flows /\ walk' \in BOOLEAN
      BY <1>4 DEF IInv, TypeOK, Visit, Following, Pointer
    <2>2. CASE closing
      <3>1. Unlink(cur)
        BY <1>4, <2>2 DEF Visit
      <3> QED
        BY <2>1, <3>1, UnlinkIInv DEF IInv, TypeOK
    <2>3. CASE ~closing
      BY <1>4, <2>1, <2>3 DEF IInv, TypeOK, ChainIsASet, ListIsChain, Visit, block
    <2> QED
      BY <2>2, <2>3
  <1>5. CASE End
    BY <1>5 DEF IInv, TypeOK, ChainIsASet, ListIsChain, End, block
  <1>6. CASE UNCHANGED vars
    BY <1>6 DEF IInv, TypeOK, ChainIsASet, ListIsChain, vars, block
  <1> QED
    BY <1>1, <1>2, <1>3, <1>4, <1>5, <1>6 DEF Next

\* create, remove and the walks keep the pointers within the flows of the
\* bucket, and elm_cnt never drops below zero.
THEOREM BucketIsTyped == Spec => []TypeOK
  <1>1. IInv => TypeOK
    BY DEF IInv
  <1> QED
    BY <1>1, InitIInv, NextIInv, PTL DEF Spec

\* create and remove keep the pointers of a bucket a doubly linked list of its
\* flows, for any number of flows and any order of creations and removals.
THEOREM BucketIsAList == Spec => []ListIsChain
  <1>1. Init => IInv
    BY InitIInv
  <1>2. IInv /\ [Next]_vars => IInv'
    BY NextIInv
  <1>3. IInv => ListIsChain
    BY DEF IInv
  <1> QED
    BY <1>1, <1>2, <1>3, PTL DEF Spec

\* Where a walk is: at a flow of the list, with the flows before it and no
\* others visited, or past the last one.
WalkInv ==
    walk => \/ cur = NULL /\ \A j \in DOMAIN chain : chain[j] \in seen
            \/ \E i \in DOMAIN chain :
                 /\ cur = chain[i]
                 /\ \A j \in DOMAIN chain : chain[j] \in seen <=> j < i

\* The body of the loop moves the walk on by one flow, removed or not.
LEMMA VisitWalkInv ==
    ASSUME IInv, IInv', WalkInv, NEW closing \in BOOLEAN, Visit(closing)
    PROVE  WalkInv'
  <1> USE ChainAssumption
  <1> DEFINE n == Len(chain)
  <1>0. /\ chain \in Seq(Flows) /\ n \in Nat /\ DOMAIN chain = 1..n
        /\ \A j \in 1..n : chain[j] \in Flows
        /\ cur # NULL /\ walk
    BY DEF IInv, TypeOK, Visit
  <1>1. PICK i \in 1..n : /\ cur = chain[i]
                          /\ \A j \in 1..n : chain[j] \in seen <=> j < i
    BY <1>0 DEF WalkInv
  <1>2. \A j, k \in 1..n : chain[j] = chain[k] => j = k
    BY <1>0 DEF IInv, ChainIsASet
  <1>3. cur' = IF i < n THEN chain[i + 1] ELSE NULL
    BY <1>0, <1>1 DEF IInv, ListIsChain, Visit, Following
  <1>4. seen' = seen \cup {chain[i]}
    BY <1>1 DEF Visit
  <1>5. \A j \in 1..n : chain[j] \in seen' <=> j <= i
    BY <1>0, <1>1, <1>2, <1>4
  <1>6. CASE closing
    <2>1. PICK k \in 1..n : chain[k] = cur /\ chain' = Without(chain, k)
      BY <1>0, <1>6 DEF Visit, Unlink
    <2>2. k = i
      BY <1>1, <1>2, <2>1
    <2>3. i \in DOMAIN chain
      BY <1>0
    <2>4. /\ Len(chain') = n - 1
          /\ \A j \in 1..(n - 1) : chain'[j] = IF j < i THEN chain[j] ELSE chain[j + 1]
      BY <1>0, <2>1, <2>2, <2>3, WithoutIsSeq
    <2>5. DOMAIN chain' = 1..(n - 1)
      BY <2>4 DEF IInv, TypeOK
    <2> HIDE DEF n
    <2>6. \A j \in 1..(n - 1) : chain'[j] \in seen' <=> j < i
      <3> SUFFICES ASSUME NEW j \in 1..(n - 1) PROVE chain'[j] \in seen' <=> j < i
        OBVIOUS
      <3>1. CASE j < i
        BY <1>0, <1>5, <2>4, <3>1
      <3>2. CASE j >= i
        <4>1. j + 1 \in 1..n /\ chain'[j] = chain[j + 1]
          BY <1>0, <2>4, <3>2
        <4>2. chain[j + 1] \notin seen'
          BY <1>0, <1>5, <3>2, <4>1
        <4> QED
          BY <1>0, <3>2, <4>1, <4>2
      <3> QED
        BY <1>0, <3>1, <3>2
    <2>7. CASE i < n
      <3>1. i \in 1..(n - 1) /\ cur' = chain'[i]
        BY <1>0, <1>3, <2>4, <2>7
      <3> QED
        BY <2>5, <2>6, <3>1 DEF WalkInv
    <2>8. CASE i = n
      <3>1. cur' = NULL
        BY <1>0, <1>3, <2>8
      <3>2. \A j \in 1..(n - 1) : chain'[j] \in seen'
        BY <1>0, <2>6, <2>8
      <3> QED
        BY <2>5, <3>1, <3>2 DEF WalkInv
    <2> QED
      BY <1>0, <2>7, <2>8
  <1>7. CASE ~closing
    <2>1. chain' = chain
      BY <1>7 DEF Visit
    <2>2. CASE i < n
      <3>1. i + 1 \in 1..n /\ cur' = chain[i + 1]
        BY <1>0, <1>3, <2>2
      <3>2. \A j \in 1..n : chain[j] \in seen' <=> j < i + 1
        BY <1>0, <1>5
      <3> QED
        BY <1>0, <2>1, <3>1, <3>2 DEF WalkInv
    <2>3. CASE i = n
      <3>1. cur' = NULL /\ \A j \in 1..n : chain[j] \in seen'
        BY <1>0, <1>3, <1>5, <2>3
      <3> QED
        BY <1>0, <2>1, <3>1 DEF WalkInv
    <2> HIDE DEF n
    <2> QED
      BY <1>0, <2>2, <2>3
  <1> QED
    BY <1>6, <1>7

\* Every step keeps track of where a walk is.
LEMMA NextWalkInv == ASSUME IInv, IInv', WalkInv, [Next]_vars PROVE WalkInv'
  <1>1. ASSUME NEW f \in Flows, Create(f) \/ Remove(f) PROVE WalkInv'
    BY <1>1 DEF WalkInv, Create, Remove
  <1>2. CASE Begin
    <2>1. /\ chain \in Seq(Flows) /\ Len(chain) \in Nat
          /\ DOMAIN chain = 1..Len(chain) /\ chain' = chain
          /\ cur' = first /\ seen' = {}
      BY <1>2 DEF IInv, TypeOK, Begin
    <2>2. CASE chain = <<>>
      <3>1. cur' = NULL /\ DOMAIN chain' = {}
        BY <2>1, <2>2 DEF IInv, ListIsChain
      <3> QED
        BY <3>1 DEF WalkInv
    <2>3. CASE chain # <<>>
      <3>1. 1 \in DOMAIN chain /\ cur' = chain[1]
        BY <2>1, <2>3 DEF IInv, ListIsChain
      <3>2. \A j \in DOMAIN chain : chain[j] \in seen' <=> j < 1
        BY <2>1
      <3> QED
        BY <2>1, <3>1, <3>2 DEF WalkInv
    <2> QED
      BY <2>2, <2>3
  <1>3. ASSUME NEW closing \in BOOLEAN, Visit(closing) PROVE WalkInv'
    BY <1>3, VisitWalkInv
  <1>4. CASE End
    BY <1>4 DEF End, WalkInv
  <1>5. CASE UNCHANGED vars
    BY <1>5 DEF WalkInv, vars, block
  <1> QED
    BY <1>1, <1>2, <1>3, <1>4, <1>5 DEF Next

\* Whatever flow_scrubber removes on its way, a walk over a bucket comes to
\* every flow exactly once.
THEOREM WalksAreComplete == Spec => WalkIsComplete
  <1> DEFINE Step == /\ walk /\ walk' => cur \notin seen
                     /\ walk /\ ~walk' => Members \subseteq seen
  <1>1. Init => IInv /\ WalkInv
    BY InitIInv DEF Init, WalkInv
  <1>2. IInv /\ WalkInv /\ [Next]_vars => IInv' /\ WalkInv'
    BY NextIInv, NextWalkInv
  <1>3. ASSUME IInv, WalkInv, [Next]_vars PROVE [Step]_vars
    <2>1. ASSUME NEW f \in Flows, Create(f) \/ Remove(f) PROVE Step
      BY <2>1 DEF Create, Remove
    <2>2. CASE Begin
      BY <2>2 DEF Begin
    <2>3. ASSUME NEW closing \in BOOLEAN, Visit(closing) PROVE Step
      <3>1. walk /\ walk' = walk /\ cur # NULL
        BY <2>3 DEF Visit
      <3>2. PICK i \in DOMAIN chain : cur = chain[i] /\ (chain[i] \in seen <=> i < i)
        BY <1>3, <3>1 DEF WalkInv
      <3>3. i \in Nat
        BY <1>3, <3>2 DEF IInv, TypeOK
      <3>4. cur \notin seen
        BY <3>2, <3>3
      <3> QED
        BY <3>1, <3>4
    <2>4. CASE End
      <3>1. walk /\ cur = NULL /\ ~walk'
        BY <2>4 DEF End
      <3>2. \A i \in DOMAIN chain : chain[i] \in Flows
        BY <1>3 DEF IInv, TypeOK
      <3>3. \A j \in DOMAIN chain : chain[j] \in seen
        BY <1>3, <3>1, <3>2, ChainAssumption DEF WalkInv
      <3> QED
        BY <3>1, <3>3 DEF Members
    <2> QED
      BY <1>3, <2>1, <2>2, <2>3, <2>4 DEF Next
  <1> QED
    BY <1>1, <1>2, <1>3, PTL DEF Spec, WalkIsComplete

-----------------------------------------------------------------------------
(***************************************************************************)
(* find                                                                    *)
(***************************************************************************)

\* f is on every way along the next pointers that begins at g
Reaches(f, g) == \A S \in SUBSET Pointer :
    g \in S /\ (\A x \in S \ {NULL, f} : next[x] \in S) => f \in S

\* A function that follows the next pointers until f or NULL
Follows(at, f) == at = [g \in Pointer |-> IF g = NULL \/ g = f THEN g ELSE at[next[g]]]

\* One step along the next pointers
LEMMA ReachesNext ==
    ASSUME TypeOK, NEW f \in Flows
    PROVE  /\ Reaches(f, f) /\ ~Reaches(f, NULL)
           /\ \A g \in Flows : g # f => (Reaches(f, g) <=> Reaches(f, next[g]))
  <1> USE ChainAssumption
  <1>0. next \in [Flows -> Pointer] /\ Flows \subseteq Pointer /\ NULL \in Pointer
        /\ f # NULL /\ Pointer \ {NULL} = Flows
    BY DEF TypeOK, Pointer
  <1>1. Reaches(f, f)
    BY DEF Reaches
  <1>2. ~Reaches(f, NULL)
    <2>1. {NULL} \in SUBSET Pointer /\ f \notin {NULL} /\ {NULL} \ {NULL, f} = {}
      BY <1>0
    <2> QED
      BY <2>1 DEF Reaches
  <1>3. ASSUME NEW g \in Flows, g # f, Reaches(f, g) PROVE Reaches(f, next[g])
    <2> SUFFICES ASSUME NEW S \in SUBSET Pointer, next[g] \in S,
                        \A x \in S \ {NULL, f} : next[x] \in S
                 PROVE  f \in S
      BY DEF Reaches
    <2>1. S \cup {g} \in SUBSET Pointer
      BY <1>0
    <2>2. \A x \in (S \cup {g}) \ {NULL, f} : next[x] \in S \cup {g}
      OBVIOUS
    <2>3. f \in S \cup {g}
      BY <1>3, <2>1, <2>2 DEF Reaches
    <2> QED
      BY <1>3, <2>3
  <1>4. ASSUME NEW g \in Flows, g # f, Reaches(f, next[g]) PROVE Reaches(f, g)
    <2> SUFFICES ASSUME NEW S \in SUBSET Pointer, g \in S,
                        \A x \in S \ {NULL, f} : next[x] \in S
                 PROVE  f \in S
      BY DEF Reaches
    <2>1. next[g] \in S
      BY <1>0, <1>4
    <2> QED
      BY <1>4, <2>1 DEF Reaches
  <1> QED
    BY <1>1, <1>2, <1>3, <1>4

\* The loop of find is well defined, wherever the pointers of flows outside of
\* the bucket lead.
LEMMA FollowsExists ==
    ASSUME TypeOK, NEW f \in Flows
    PROVE  \E at : Follows(at, f)
  <1> DEFINE at == [g \in Pointer |-> IF Reaches(f, g) THEN f ELSE NULL]
  <1>1. next \in [Flows -> Pointer] /\ Pointer = Flows \cup {NULL} /\ f # NULL
    BY ChainAssumption DEF TypeOK, Pointer
  <1>2. ASSUME NEW g \in Pointer
        PROVE  at[g] = IF g = NULL \/ g = f THEN g ELSE at[next[g]]
    <2>1. CASE g = NULL \/ g = f
      BY <1>1, <2>1, ReachesNext
    <2>2. CASE g \in Flows /\ g # f
      <3>1. next[g] \in Pointer /\ (Reaches(f, g) <=> Reaches(f, next[g]))
        BY <1>1, <2>2, ReachesNext
      <3>2. g # NULL
        BY <2>2, ChainAssumption
      <3> QED
        BY <2>2, <3>1, <3>2
    <2> QED
      BY <1>1, <2>1, <2>2
  <1>3. at = [g \in Pointer |-> at[g]]
    OBVIOUS
  <1> HIDE DEF at
  <1>4. Follows(at, f)
    BY <1>2, <1>3 DEF Follows
  <1> QED
    BY <1>4

\* From the i-th flow on, the loop finds f if it is the i-th or a later one.
LEMMA FollowsChain ==
    ASSUME IInv, NEW f \in Flows, NEW at, Follows(at, f)
    PROVE  \A i \in 1..Len(chain) :
             at[chain[i]] = IF \E j \in i..Len(chain) : chain[j] = f THEN f ELSE NULL
  <1> DEFINE n == Len(chain)
             Good(i) == at[chain[i]] = IF \E j \in i..n : chain[j] = f THEN f ELSE NULL
             T == {d \in Nat : d < n /\ ~Good(n - d)}
  <1>0. /\ n \in Nat /\ DOMAIN chain = 1..n /\ \A i \in 1..n : chain[i] \in Flows
        /\ \A i \in 1..n : next[chain[i]] = IF i < n THEN chain[i + 1] ELSE NULL
        /\ Flows \subseteq Pointer /\ NULL \in Pointer /\ NULL \notin Flows
    <2>1. chain \in Seq(Flows)
      BY DEF IInv, TypeOK
    <2>2. n \in Nat /\ DOMAIN chain = 1..n /\ \A i \in 1..n : chain[i] \in Flows
      BY <2>1
    <2>3. \A i \in DOMAIN chain : next[chain[i]] = IF i < n THEN chain[i + 1] ELSE NULL
      BY DEF IInv, ListIsChain
    <2>4. Flows \subseteq Pointer /\ NULL \in Pointer /\ NULL \notin Flows
      BY ChainAssumption DEF Pointer
    <2> QED
      BY <2>2, <2>3, <2>4
  <1> HIDE DEF n
  <1>1. /\ at[NULL] = NULL
        /\ \A i \in 1..n : at[chain[i]] = IF chain[i] = f THEN f
                                          ELSE IF i < n THEN at[chain[i + 1]] ELSE NULL
    <2>1. \A g \in Pointer : at[g] = IF g = NULL \/ g = f THEN g ELSE at[next[g]]
      BY DEF Follows
    <2> QED
      BY <1>0, <2>1
  <1>2. ASSUME NEW i \in 1..n, i < n => Good(i + 1) PROVE Good(i)
    <2>1. CASE chain[i] = f
      BY <1>0, <1>1, <2>1
    <2>2. CASE chain[i] # f /\ i = n
      BY <1>0, <1>1, <2>2
    <2>3. CASE chain[i] # f /\ i < n
      <3>1. at[chain[i]] = at[chain[i + 1]]
        BY <1>1, <2>3
      <3>2. (\E j \in i..n : chain[j] = f) <=> (\E j \in (i + 1)..n : chain[j] = f)
        BY <1>0, <2>3
      <3> QED
        BY <1>2, <2>3, <3>1, <3>2
    <2> QED
      BY <1>0, <2>1, <2>2, <2>3
  <1>3. T = {}
    <2>1. SUFFICES ASSUME T # {} PROVE FALSE
      OBVIOUS
    <2>2. T \in SUBSET Nat
      OBVIOUS
    <2>3. PICK d \in T : \A k \in T : d <= k
      <3> DEFINE R == OpToRel(<, Nat)
      <3>1. IsWellFoundedOn(R, Nat)
        BY NatLessThanWellFounded
      <3> HIDE DEF R, T
      <3>2. PICK d \in T : \A k \in T : ~(<<k, d>> \in R)
        BY <2>1, <2>2, <3>1, WFMin
      <3>3. \A k \in T : ~(k < d)
        BY <2>2, <3>2 DEF R, OpToRel
      <3> QED
        BY <2>2, <3>3
    <2>4. d \in Nat /\ d < n /\ ~Good(n - d) /\ n - d \in 1..n
      BY <1>0, <2>3
    <2>5. n - d < n => Good((n - d) + 1)
      <3>1. SUFFICES ASSUME n - d < n PROVE Good((n - d) + 1)
        OBVIOUS
      <3>2. d - 1 \in Nat /\ d - 1 < n /\ n - (d - 1) = (n - d) + 1 /\ ~(d <= d - 1)
        BY <1>0, <2>4, <3>1
      <3>3. d - 1 \notin T
        BY <2>3, <3>2
      <3>4. Good(n - (d - 1))
        BY <3>2, <3>3
      <3> QED
        BY <3>2, <3>4
    <2> HIDE DEF Good
    <2> QED
      BY <1>2, <2>4, <2>5
  <1>4. ASSUME NEW i \in 1..n PROVE Good(i)
    <2>1. n - i \in Nat /\ n - i < n /\ n - (n - i) = i
      BY <1>0
    <2>2. Good(n - (n - i))
      BY <1>3, <2>1
    <2> QED
      BY <2>1, <2>2
  <1> QED
    BY <1>4 DEF n

\* find sees every flow of the bucket and no other, whatever has been created
\* and removed before.
THEOREM FindsAllFlows == Spec => []FindIsExact
  <1>1. IInv => FindIsExact
    <2> SUFFICES ASSUME IInv, NEW f \in Flows
                 PROVE  Find(f) = IF f \in Members THEN f ELSE NULL
      BY DEF FindIsExact
    <2> DEFINE at == CHOOSE h : h = [g \in Pointer |->
                                       IF g = NULL \/ g = f THEN g ELSE h[next[g]]]
    <2>1. Find(f) = IF elm_cnt > 0 THEN at[first] ELSE NULL
      BY DEF Find
    <2>2. Follows(at, f)
      BY FollowsExists DEF Follows, IInv
    <2> HIDE DEF at
    <2>3. /\ elm_cnt = Len(chain) /\ Len(chain) \in Nat /\ DOMAIN chain = 1..Len(chain)
          /\ chain # <<>> => first = chain[1]
          /\ chain = <<>> <=> Len(chain) = 0
      BY DEF IInv, TypeOK, ListIsChain
    <2>4. CASE Len(chain) = 0
      BY <2>1, <2>3, <2>4 DEF Members
    <2>5. CASE Len(chain) > 0
      <3>1. at[chain[1]] = IF \E j \in 1..Len(chain) : chain[j] = f THEN f ELSE NULL
        BY <2>2, <2>3, <2>5, FollowsChain
      <3>2. (\E j \in 1..Len(chain) : chain[j] = f) <=> f \in Members
        BY <2>3 DEF Members
      <3> QED
        BY <2>1, <2>3, <2>5, <3>1, <3>2
    <2> QED
      BY <2>3, <2>4, <2>5
  <1> QED
    BY <1>1, InitIInv, NextIInv, PTL DEF Spec
=============================================================================
