--------------------------- MODULE SeqListProofs ---------------------------
(***************************************************************************)
(* What tcp_order does with one segment, for segments with any further     *)
(* fields and sequence numbers of any width.                               *)
(***************************************************************************)
EXTENDS SeqList, FiniteSetTheorems, SequenceTheorems, WellFoundedInduction,
        TLAPS

-----------------------------------------------------------------------------
(***************************************************************************)
(* Loops as recursive functions of the position: that such a function      *)
(* exists, and induction over the positions.                               *)
(***************************************************************************)
\* A set of numbers that is not empty has a least one.
LEMMA LeastNumber ==
    ASSUME NEW T \in SUBSET Nat, T # {}
    PROVE  \E m \in T : \A k \in T : m <= k
  <1> DEFINE R == OpToRel(<, Nat)
  <1>1. IsWellFoundedOn(R, Nat)
    BY NatLessThanWellFounded
  <1> HIDE DEF R
  <1>2. PICK m \in T : \A k \in T : ~(<<k, m>> \in R)
    BY <1>1, WFMin
  <1>3. \A k \in T : ~(k < m)
    BY <1>2 DEF R, OpToRel
  <1> QED
    BY <1>3

\* What holds before the first position and is kept by each step holds at the
\* end.
LEMMA IndexInduction ==
    ASSUME NEW n \in Nat, NEW T, 0 \in T,
           \A i \in 1..n : i - 1 \in T => i \in T
    PROVE  n \in T /\ \A i \in 0..n : i \in T
  <1> DEFINE U == {i \in 0..n : i \notin T}
  <1>1. U = {}
    <2> SUFFICES ASSUME U # {} PROVE FALSE
      OBVIOUS
    <2>1. PICK m \in U : \A k \in U : m <= k
      <3>1. U \in SUBSET Nat
        OBVIOUS
      <3> QED
        BY <3>1, LeastNumber
    <2>2. m \in 1..n /\ m - 1 \in 0..n /\ ~(m <= m - 1)
      BY <2>1
    <2>3. m - 1 \in T
      BY <2>1, <2>2
    <2> QED
      BY <2>1, <2>2, <2>3
  <1> QED
    BY <1>1

\* h is what a loop with the steps g makes of b.
IsRun(h, n, A, b, g) == /\ h \in [0..n -> A] /\ h[0] = b
                        /\ \A i \in 1..n : h[i] = g[<<h[i - 1], i>>]

\* There is such an h.
LEMMA RunExists ==
    ASSUME NEW n \in Nat, NEW A, NEW b \in A, NEW g \in [A \X (1..n) -> A]
    PROVE  \E h : IsRun(h, n, A, b, g)
  <1> DEFINE Run(h, m) == IsRun(h, m, A, b, g)
             T == {m \in 0..n : \E h : Run(h, m)}
  <1>1. 0 \in T
    <2>1. Run([i \in 0..0 |-> b], 0)
      BY DEF IsRun
    <2> HIDE DEF Run
    <2> QED
      BY <2>1
  <1>2. ASSUME NEW m \in 1..n, m - 1 \in T PROVE m \in T
    <2>0. PICK h : Run(h, m - 1)
      BY <1>2
    <2>1. /\ h \in [0..(m - 1) -> A] /\ h[0] = b
          /\ \A i \in 1..(m - 1) : h[i] = g[<<h[i - 1], i>>]
      BY <2>0 DEF IsRun
    <2> DEFINE k == [i \in 0..m |-> IF i = m THEN g[<<h[m - 1], m>>] ELSE h[i]]
    <2>2. m \in Nat /\ m >= 1 /\ m <= n /\ m - 1 \in 0..(m - 1)
      OBVIOUS
    <2>3. g[<<h[m - 1], m>>] \in A
      BY <2>1, <2>2
    <2>4. k \in [0..m -> A]
      BY <2>1, <2>2, <2>3
    <2>5. k[0] = b
      BY <2>1, <2>2
    <2>6. \A i \in 1..m : k[i] = g[<<k[i - 1], i>>]
      <3> TAKE i \in 1..m
      <3>1. i - 1 \in 0..m /\ i \in 0..m /\ i - 1 # m /\ k[i - 1] = h[i - 1]
        BY <2>2
      <3>2. CASE i = m
        BY <3>1, <3>2
      <3>3. CASE i # m
        <4>1. i \in 1..(m - 1)
          BY <2>2, <3>3
        <4> QED
          BY <2>1, <3>1, <3>3, <4>1
      <3> QED
        BY <3>2, <3>3
    <2>7. Run(k, m)
      BY <2>4, <2>5, <2>6 DEF IsRun
    <2> HIDE DEF Run, k
    <2> QED
      BY <2>7
  <1>3. n \in T
    <2> HIDE DEF T
    <2> QED
      BY <1>1, <1>2, IndexInduction
  <1> QED
    BY <1>3

-----------------------------------------------------------------------------
(***************************************************************************)
(* Sequence numbers                                                        *)
(***************************************************************************)
Size == 2^WordSize

\* There are as many sequence numbers as subsets of 1..WordSize: at least one.
LEMMA SizePositive == Size \in Nat /\ Size > 0
  <1> DEFINE S == SUBSET (1..WordSize)
  <1>1. WordSize \in Nat /\ WordSize >= 1
    BY WordAssumption
  <1>2. IsFiniteSet(1..WordSize) /\ Cardinality(1..WordSize) = WordSize
    BY <1>1, FS_Interval
  <1>3. IsFiniteSet(S) /\ Cardinality(S) = Size
    BY <1>2, FS_SUBSET DEF Size
  <1>4. {} \in S
    OBVIOUS
  <1> HIDE DEF S
  <1>5. Cardinality(S) \in Nat /\ Cardinality(S) # 0
    BY <1>3, <1>4, FS_CardinalityType, FS_EmptySet
  <1> QED
    BY <1>3, <1>5

\* The words are the remainders.
LEMMA WordFacts == Word = 0..(Size - 1) /\ Word \subseteq Nat /\ 0 \in Word
  BY SizePositive DEF Word, Size

\* Division with remainder.
LEMMA Remainder ==
    ASSUME NEW M \in Nat, M > 0, NEW n \in Int
    PROVE  /\ n \div M \in Int /\ n % M \in 0..(M - 1)
           /\ n = M * (n \div M) + (n % M)
  OBVIOUS

\* Wrap gives a word, and leaves one as it is.
LEMMA WrapIsWord ==
    /\ \A n \in Int : Wrap(n) \in Word
    /\ \A n \in Word : Wrap(n) = n
  <1>1. Size \in Nat /\ Size > 0
    BY SizePositive
  <1>2. \A n : Wrap(n) = n % Size
    BY DEF Wrap, Size
  <1> HIDE DEF Size
  <1>3. \A n \in Int : n % Size \in 0..(Size - 1)
    BY <1>1
  <1>4. \A n \in 0..(Size - 1) : n % Size = n
    BY <1>1
  <1> QED
    BY <1>2, <1>3, <1>4, WordFacts

\* The number before 0 is the largest one.
LEMMA WrapBelow ==
    \A n \in Word : Wrap(n - 1) = IF n = 0 THEN Size - 1 ELSE n - 1
  <1>1. Size \in Nat /\ Size > 0 /\ Word = 0..(Size - 1)
    BY SizePositive, WordFacts
  <1>2. Wrap(-1) = (-1) % Size
    BY DEF Wrap, Size
  <1> HIDE DEF Size
  <1>3. (-1) % Size = Size - 1
    BY <1>1
  <1>4. Wrap(0 - 1) = Size - 1
    BY <1>2, <1>3
  <1>5. \A n \in Word : n # 0 => n - 1 \in Word
    BY <1>1
  <1> QED
    BY <1>4, <1>5, WrapIsWord

\* Numbers less than a full turn apart are told apart.
LEMMA WrapApart ==
    ASSUME NEW m \in Int, NEW n \in Int, m < n, n < m + Size
    PROVE  Wrap(m) # Wrap(n)
  <1> DEFINE p == m \div Size  q == n \div Size
  <1>1. Size \in Nat /\ Size > 0
    BY SizePositive
  <1>2. Wrap(m) = m % Size /\ Wrap(n) = n % Size
    BY DEF Wrap, Size
  <1> HIDE DEF Size
  <1>3. /\ p \in Int /\ q \in Int
        /\ m = Size * p + (m % Size) /\ n = Size * q + (n % Size)
        /\ m % Size \in Int /\ n % Size \in Int
    BY <1>1, Remainder
  <1> HIDE DEF p, q
  <1>4. SUFFICES ASSUME m % Size = n % Size PROVE FALSE
    BY <1>2
  <1> DEFINE d == q - p
  <1>5. d \in Int /\ n - m = Size * d
    BY <1>1, <1>3, <1>4
  <1> HIDE DEF d
  <1>6. CASE d <= 0
    <2>1. Size * d <= 0
      BY <1>1, <1>5, <1>6
    <2> QED
      BY <1>1, <1>5, <2>1
  <1>7. CASE d >= 1
    <2>1. Size * d >= Size
      BY <1>1, <1>5, <1>7
    <2> QED
      BY <1>1, <1>5, <2>1
  <1> QED
    BY <1>5, <1>6, <1>7

\* The number after the one before is the number itself.
LEMMA WrapBack == \A n \in Word : Wrap(Wrap(n - 1) + 1) = n
  <1>1. Size \in Nat /\ Size > 0 /\ Word = 0..(Size - 1)
    BY SizePositive, WordFacts
  <1>2. Wrap(Size) = Size % Size
    BY DEF Wrap, Size
  <1> HIDE DEF Size
  <1>3. Size % Size = 0
    BY <1>1
  <1>4. (Size - 1) + 1 = Size /\ \A n \in Word : (n - 1) + 1 = n
    BY <1>1
  <1> QED
    BY <1>2, <1>3, <1>4, WrapBelow, WrapIsWord

-----------------------------------------------------------------------------
(***************************************************************************)
(* The list                                                                *)
(***************************************************************************)
\* S is a set of segments: they have numbers, which may be changed.
SegmentSet(S) ==
    \A x \in S : /\ {"seq", "nxt"} \subseteq DOMAIN x
                 /\ x.seq \in Word /\ x.nxt \in Word
                 /\ \A w \in Word : /\ [x EXCEPT !.seq = w] \in S
                                    /\ [x EXCEPT !.nxt = w] \in S

\* What tcp_order relies on: last points into the list unless that is empty.
OrderIn(o, S) ==
    /\ o \in [list : Seq(S), last : Nat, num : Nat]
    /\ o.last \in 0..Len(o.list)
    /\ o.list # <<>> => o.last # 0

\* The numbers of the segments of a list.
LEMMA NumberFacts ==
    ASSUME NEW S, SegmentSet(S)
    PROVE  /\ \A x \in S : /\ x.seq \in Word /\ x.nxt \in Word
                           /\ x.seq \in Nat /\ x.nxt \in Nat
           /\ \A l \in Seq(S) : \A i \in 1..Len(l) : l[i] \in S
  <1>1. \A l \in Seq(S) : \A i \in 1..Len(l) : l[i] \in S
    OBVIOUS
  <1> QED
    BY <1>1, WordFacts DEF SegmentSet

\* m is l with e behind position p.
Inserted(m, l, p, e) ==
    /\ Len(m) = Len(l) + 1
    /\ \A i \in 1..p : m[i] = l[i]
    /\ m[p + 1] = e
    /\ \A i \in (p + 2)..(Len(l) + 1) : m[i] = l[i - 1]

\* The list after a segment e was put behind position p.
LEMMA InsertFacts ==
    ASSUME NEW S, NEW l \in Seq(S), NEW e \in S, NEW p \in 0..Len(l)
    PROVE  /\ InsertAt(l, p + 1, e) \in Seq(S)
           /\ Inserted(InsertAt(l, p + 1, e), l, p, e)
  <1> DEFINE x == SubSeq(l, 1, p)
             y == SubSeq(l, p + 1, Len(l))
  <1>1. Len(l) \in Nat /\ p \in Nat /\ p <= Len(l)
    OBVIOUS
  <1>2. x \in Seq(S) /\ Len(x) = p /\ \A i \in 1..p : x[i] = l[i]
    BY <1>1
  <1>3. /\ y \in Seq(S) /\ Len(y) = Len(l) - p
        /\ \A i \in 1..(Len(l) - p) : y[i] = l[p + i]
    BY <1>1
  <1>4. InsertAt(l, p + 1, e) = (x \o <<e>>) \o y
    <2>1. (p + 1) - 1 = p
      BY <1>1
    <2> QED
      BY <2>1, Zenon DEF InsertAt
  <1> HIDE DEF x, y
  <1> DEFINE z == x \o <<e>>
  <1>5. <<e>> \in Seq(S) /\ Len(<<e>>) = 1 /\ <<e>>[1] = e
    OBVIOUS
  <1>6. /\ z \in Seq(S) /\ Len(z) = p + 1
        /\ \A i \in 1..p : z[i] = l[i]
        /\ z[p + 1] = e
    BY <1>1, <1>2, <1>5
  <1> HIDE DEF z
  <1> DEFINE r == z \o y
  <1>7. /\ r \in Seq(S) /\ Len(r) = Len(l) + 1
        /\ \A i \in 1..(p + 1) : r[i] = z[i]
        /\ \A i \in (p + 2)..(Len(l) + 1) : r[i] = y[i - (p + 1)]
    BY <1>1, <1>3, <1>6
  <1>8. r = InsertAt(l, p + 1, e)
    BY <1>4 DEF z
  <1> HIDE DEF r
  <1>9. \A i \in (p + 2)..(Len(l) + 1) : r[i] = l[i - 1]
    <2> TAKE i \in (p + 2)..(Len(l) + 1)
    <2>1. i - (p + 1) \in 1..(Len(l) - p) /\ p + (i - (p + 1)) = i - 1
      BY <1>1
    <2> QED
      BY <1>3, <1>7, <2>1
  <1>10. /\ \A i \in 1..p : r[i] = l[i]
         /\ r[p + 1] = e
    BY <1>1, <1>6, <1>7
  <1> QED
    BY <1>7, <1>8, <1>9, <1>10 DEF Inserted

\* j is where the contiguous run that begins at i ends.
RunEnds(l, i, j) ==
    /\ j \in i..Len(l)
    /\ j = Len(l) \/ l[j].nxt # l[j + 1].seq
    /\ \A k \in i..(j - 1) : l[k].nxt = l[k + 1].seq

\* tcp_cont_seq finds the end of the run: there is one in every list.
LEMMA ContEndFacts ==
    ASSUME NEW S, NEW l \in Seq(S), NEW i \in 1..Len(l)
    PROVE  RunEnds(l, i, ContEnd(l, i))
  <1> DEFINE T == {j \in i..Len(l) : j = Len(l) \/ l[j].nxt # l[j + 1].seq}
  <1>1. Len(l) \in Nat /\ i \in Nat
    OBVIOUS
  <1>2. T \in SUBSET Nat /\ T # {}
    BY <1>1
  <1>3. PICK j \in T : \A k \in T : j <= k
    BY <1>2, LeastNumber
  <1>4. RunEnds(l, i, j)
    <2>1. j \in i..Len(l) /\ (j = Len(l) \/ l[j].nxt # l[j + 1].seq)
      BY <1>3
    <2>2. ASSUME NEW k \in i..(j - 1) PROVE l[k].nxt = l[k + 1].seq
      <3>1. k \in i..Len(l) /\ ~(j <= k) /\ k # Len(l)
        BY <1>1, <2>1, <2>2
      <3> QED
        BY <1>3, <3>1
    <2> QED
      BY <2>1, <2>2 DEF RunEnds
  <1>5. j \in i..Len(l)
    BY <1>3
  <1>6. ContEnd(l, i) = CHOOSE m \in i..Len(l) : RunEnds(l, i, m)
    BY DEF ContEnd, RunEnds
  <1> QED
    BY <1>4, <1>5, <1>6

\* Where the search of tcp_order leaves pre: at the last insertion if the
\* segment continues that, else before the first one that ends beyond its
\* beginning.
Found(o, s, pre) ==
    \/ pre = o.last /\ o.list[pre].nxt = s.seq
    \/ \E at \in DOMAIN o.list :
         /\ o.list[at].nxt > s.seq
         /\ \A j \in 1..(at - 1) : o.list[j].nxt <= s.seq
         /\ pre = IF at = 1 THEN 1 ELSE at - 1

\* tcp_order appends a segment that begins after all others end, or looks for
\* its place behind the run it has found.
LEMMA OrderCases ==
    ASSUME NEW S, SegmentSet(S), NEW o, OrderIn(o, S), NEW s \in S, o.list # <<>>
    PROVE  \/ /\ \A i \in 1..Len(o.list) : o.list[i].nxt <= s.seq
              /\ TcpOrder(o, s) = [list |-> Append(o.list, s),
                                   last |-> Len(o.list) + 1, num |-> o.num + 1]
           \/ \E pre, cp \in 1..Len(o.list) :
                /\ Found(o, s, pre) /\ RunEnds(o.list, pre, cp)
                /\ TcpOrder(o, s) = Place(o, s, pre, cp)
  <1> DEFINE l == o.list
             B == Beyond(l, s)
  <1>1. /\ l \in Seq(S) /\ Len(l) \in Nat /\ DOMAIN l = 1..Len(l)
        /\ o.last \in 1..Len(l)
    BY DEF OrderIn
  <1>2. \A i \in 1..Len(l) : l[i].nxt \in Nat
    BY <1>1, NumberFacts
  <1>3. s.seq \in Nat
    BY NumberFacts
  <1>4. ASSUME NEW pre \in 1..Len(l), Found(o, s, pre),
               TcpOrder(o, s) = Place(o, s, pre, ContEnd(l, pre))
        PROVE  \E cp \in 1..Len(l) :
                 /\ Found(o, s, pre) /\ RunEnds(l, pre, cp)
                 /\ TcpOrder(o, s) = Place(o, s, pre, cp)
    <2>1. RunEnds(l, pre, ContEnd(l, pre))
      BY <1>1, ContEndFacts
    <2>2. ContEnd(l, pre) \in 1..Len(l)
      BY <1>1, <2>1 DEF RunEnds
    <2> QED
      BY <1>4, <2>1, <2>2
  <1>5. CASE l[o.last].nxt = s.seq
    <2>1. TcpOrder(o, s) = Place(o, s, o.last, ContEnd(l, o.last))
      BY <1>5 DEF TcpOrder
    <2>2. Found(o, s, o.last)
      BY <1>5 DEF Found
    <2> QED
      BY <1>1, <1>4, <2>1, <2>2
  <1>6. CASE l[o.last].nxt # s.seq /\ B = {}
    <2>1. TcpOrder(o, s) = [list |-> Append(l, s), last |-> Len(l) + 1,
                            num |-> o.num + 1]
      BY <1>6 DEF TcpOrder
    <2>2. \A i \in 1..Len(l) : l[i].nxt <= s.seq
      BY <1>1, <1>2, <1>3, <1>6 DEF Beyond
    <2> QED
      BY <2>1, <2>2
  <1>7. CASE l[o.last].nxt # s.seq /\ B # {}
    <2> DEFINE at  == CHOOSE i \in B : \A j \in B : i <= j
               pre == IF at = 1 THEN 1 ELSE at - 1
    <2>1. TcpOrder(o, s) = Place(o, s, pre, ContEnd(l, pre))
      BY <1>7 DEF TcpOrder
    <2>2. B \subseteq 1..Len(l) /\ B \in SUBSET Nat
      BY <1>1 DEF Beyond
    <2>3. at \in B /\ \A j \in B : at <= j
      <3>1. \E i \in B : \A j \in B : i <= j
        BY <1>7, <2>2, LeastNumber
      <3> QED
        BY <3>1
    <2> HIDE DEF at
    <2>4. at \in 1..Len(l) /\ l[at].nxt > s.seq
      BY <2>2, <2>3 DEF Beyond
    <2>5. ASSUME NEW j \in 1..(at - 1) PROVE l[j].nxt <= s.seq
      <3>1. j \in 1..Len(l) /\ ~(at <= j)
        BY <1>1, <2>4
      <3>2. j \notin B
        BY <2>3, <3>1
      <3> QED
        BY <1>1, <1>2, <1>3, <3>1, <3>2 DEF Beyond
    <2>6. Found(o, s, pre)
      BY <1>1, <2>4, <2>5 DEF Found
    <2>7. pre \in 1..Len(l)
      BY <1>1, <2>4
    <2> HIDE DEF pre
    <2> QED
      BY <1>4, <2>1, <2>6, <2>7
  <1> QED
    BY <1>5, <1>6, <1>7

\* The segment begins within the run from pre to cp, as far as the numbers
\* tell.
Known(l, s, pre, cp) == l[pre].seq <= s.seq /\ s.seq <= Wrap(l[cp].nxt - 1)

\* ... and it ends there too: a retransmission
Repeated(l, s, pre, cp) ==
    Known(l, s, pre, cp) /\ Wrap(s.nxt - 1) <= Wrap(l[cp].nxt - 1)


\* What is stored of the segment
Piece(l, s, pre, cp) ==
    Truncate(IF Known(l, s, pre, cp) THEN [s EXCEPT !.seq = l[cp].nxt] ELSE s, l, cp)

\* The stored piece has the numbers that are left, and the other fields of the
\* segment.
LEMMA PieceFacts ==
    ASSUME NEW S, SegmentSet(S), NEW l \in Seq(S), NEW s \in S,
           NEW pre \in 1..Len(l), NEW cp \in 1..Len(l)
    PROVE  LET e == Piece(l, s, pre, cp) IN
           /\ e \in S
           /\ e.seq = IF Known(l, s, pre, cp) THEN l[cp].nxt ELSE s.seq
           /\ e.nxt = IF cp < Len(l) /\ s.nxt > l[cp + 1].seq
                      THEN l[cp + 1].seq ELSE s.nxt
           /\ \A f \in DOMAIN s \ {"seq", "nxt"} : e[f] = s[f]
           /\ ~Known(l, s, pre, cp) /\ cp = Len(l) => e = s
  <1> DEFINE new == IF Known(l, s, pre, cp) THEN [s EXCEPT !.seq = l[cp].nxt] ELSE s
             e   == Piece(l, s, pre, cp)
  <1>1. /\ Len(l) \in Nat /\ l[cp] \in S /\ l[cp].nxt \in Word
        /\ \A i \in 1..Len(l) : l[i].seq \in Word
    BY NumberFacts
  <1>2. /\ {"seq", "nxt"} \subseteq DOMAIN s
        /\ \A x \in S : {"seq", "nxt"} \subseteq DOMAIN x
        /\ \A x \in S : \A w \in Word : [x EXCEPT !.seq = w] \in S /\ [x EXCEPT !.nxt = w] \in S
    BY DEF SegmentSet
  <1>3. /\ new \in S /\ DOMAIN new = DOMAIN s
        /\ new.seq = IF Known(l, s, pre, cp) THEN l[cp].nxt ELSE s.seq
        /\ new.nxt = s.nxt
        /\ \A f \in DOMAIN s \ {"seq", "nxt"} : new[f] = s[f]
        /\ ~Known(l, s, pre, cp) => new = s
    BY <1>1, <1>2
  <1>4. e = IF cp < Len(l) /\ new.nxt > l[cp + 1].seq
            THEN [new EXCEPT !.nxt = l[cp + 1].seq] ELSE new
    BY DEF Piece, Truncate
  <1> HIDE DEF new, e
  <1>5. CASE cp < Len(l) /\ s.nxt > l[cp + 1].seq
    <2>1. cp + 1 \in 1..Len(l)
      BY <1>1, <1>5
    <2>2. e = [new EXCEPT !.nxt = l[cp + 1].seq]
      BY <1>3, <1>4, <1>5
    <2>3. l[cp + 1].seq \in Word /\ cp # Len(l)
      BY <1>1, <1>5, <2>1
    <2> QED
      BY <1>2, <1>3, <1>5, <2>2, <2>3 DEF e
  <1>6. CASE ~(cp < Len(l) /\ s.nxt > l[cp + 1].seq)
    BY <1>3, <1>4, <1>6 DEF e
  <1> QED
    BY <1>5, <1>6

\* Place keeps the order as it is, or inserts one segment.
LEMMA PlaceCases ==
    ASSUME NEW S, SegmentSet(S), NEW o, OrderIn(o, S), NEW s \in S,
           NEW pre \in 1..Len(o.list), NEW cp \in 1..Len(o.list)
    PROVE  /\ Piece(o.list, s, pre, cp) \in S
           /\ \/ /\ Repeated(o.list, s, pre, cp)
                 /\ Place(o, s, pre, cp) = o
              \/ /\ ~Repeated(o.list, s, pre, cp)
                 /\ Place(o, s, pre, cp).list
                      = InsertAt(o.list, cp + 1, Piece(o.list, s, pre, cp))
                 /\ OrderIn(Place(o, s, pre, cp), S)
  <1> DEFINE l   == o.list
             e   == Piece(l, s, pre, cp)
             new == IF Known(l, s, pre, cp)
                    THEN [s EXCEPT !.seq = Wrap(Wrap(l[cp].nxt - 1) + 1)] ELSE s
             r   == Place(o, s, pre, cp)
  <1>1. /\ l \in Seq(S) /\ Len(l) \in Nat /\ DOMAIN l = 1..Len(l)
        /\ o.last \in 1..Len(l) /\ o.num \in Nat
    BY DEF OrderIn
  <1>2. \A i \in 1..Len(l) : l[i] \in S /\ l[i].seq \in Word /\ l[i].nxt \in Word
    BY <1>1, NumberFacts
  <1>3. e \in S
    BY <1>1, PieceFacts
  <1>4. new = IF Known(l, s, pre, cp) THEN [s EXCEPT !.seq = l[cp].nxt] ELSE s
    BY <1>2, WrapBack
  <1>5. Truncate(new, l, cp) = e
    BY <1>4, Zenon DEF Piece
  <1>6. CASE Repeated(l, s, pre, cp)
    <2>1. r = o
      BY <1>6 DEF Place, Repeated, Known
    <2> QED
      BY <1>3, <1>6, <2>1
  <1>7. CASE ~Repeated(l, s, pre, cp)
    <2>1. \E x \in {cp + 1, o.last}, n \in {o.num + 1, o.num} :
            r = [list |-> InsertAt(l, cp + 1, Truncate(new, l, cp)),
                 last |-> x, num |-> n]
      BY <1>7, Zenon DEF Place, Repeated, Known
    <2>2. PICK x \in {cp + 1, o.last}, n \in {o.num + 1, o.num} :
            r = [list |-> InsertAt(l, cp + 1, e), last |-> x, num |-> n]
      BY <1>5, <2>1
    <2> DEFINE m == InsertAt(l, cp + 1, e)
    <2> HIDE DEF r, e
    <2>3. m \in Seq(S) /\ Len(m) = Len(l) + 1
      <3>1. cp \in 0..Len(l)
        BY <1>1
      <3> QED
        <4>1. e \in S
          BY <1>3 DEF e
        <4>2. m \in Seq(S) /\ Inserted(m, l, cp, e)
          BY <1>1, <3>1, <4>1, InsertFacts, Zenon
        <4> QED
          BY <4>2 DEF Inserted
    <2> HIDE DEF m
    <2>4. r = [list |-> m, last |-> x, num |-> n]
      BY <2>2 DEF m
    <2>5. x \in 1..Len(m) /\ n \in Nat
      BY <1>1, <2>3
    <2>6. OrderIn(r, S)
      BY <2>3, <2>4, <2>5 DEF OrderIn
    <2> QED
      BY <1>3, <1>7, <2>4, <2>6 DEF r, e, m
  <1> QED
    BY <1>6, <1>7

\* tcp_order keeps last in the list and the numbers words.
LEMMA OrderKept ==
    ASSUME NEW S, SegmentSet(S), NEW o, OrderIn(o, S), NEW s \in S
    PROVE  OrderIn(TcpOrder(o, s), S) /\ TcpOrder(o, s).list # <<>>
  <1>1. CASE o.list = <<>>
    <2>1. TcpOrder(o, s) = [list |-> <<s>>, last |-> 1, num |-> o.num + 1]
      BY <1>1 DEF TcpOrder
    <2>2. <<s>> \in Seq(S) /\ Len(<<s>>) = 1 /\ <<s>> # <<>>
      OBVIOUS
    <2> QED
      BY <2>1, <2>2 DEF OrderIn
  <1>2. CASE o.list # <<>>
    <2>1. o.list \in Seq(S) /\ Len(o.list) \in Nat /\ o.num \in Nat
      BY DEF OrderIn
    <2>2. CASE TcpOrder(o, s) = [list |-> Append(o.list, s),
                                 last |-> Len(o.list) + 1, num |-> o.num + 1]
      <3>1. /\ Append(o.list, s) \in Seq(S)
            /\ Len(Append(o.list, s)) = Len(o.list) + 1
            /\ Append(o.list, s) # <<>>
        BY <2>1
      <3> QED
        BY <2>1, <2>2, <3>1 DEF OrderIn
    <2>3. ASSUME NEW pre \in 1..Len(o.list), NEW cp \in 1..Len(o.list),
                 TcpOrder(o, s) = Place(o, s, pre, cp)
          PROVE  OrderIn(TcpOrder(o, s), S) /\ TcpOrder(o, s).list # <<>>
      <3>1. CASE Place(o, s, pre, cp) = o
        BY <1>2, <2>3, <3>1
      <3>2. CASE /\ Place(o, s, pre, cp).list
                      = InsertAt(o.list, cp + 1, Piece(o.list, s, pre, cp))
                 /\ OrderIn(Place(o, s, pre, cp), S)
        <4> DEFINE e == Piece(o.list, s, pre, cp)
        <4>1. e \in S
          BY PlaceCases
        <4>2. cp \in 0..Len(o.list)
          BY <2>1
        <4> HIDE DEF e
        <4>3. Len(InsertAt(o.list, cp + 1, e)) = Len(o.list) + 1
          <5>1. o.list \in Seq(S)
            BY <2>1
          <5>2. Inserted(InsertAt(o.list, cp + 1, e), o.list, cp, e)
            BY <4>1, <4>2, <5>1, InsertFacts, Zenon
          <5> QED
            BY <5>2 DEF Inserted
        <4> QED
          BY <2>1, <2>3, <3>2, <4>3 DEF e
      <3> QED
        BY <3>1, <3>2, PlaceCases
    <2> QED
      BY <1>2, <2>2, <2>3, OrderCases
  <1> QED
    BY <1>1, <1>2

\* s is stored at the end, as it is.
AtEnd(m, l, s) == Inserted(m, l, Len(l), s)

\* An appended segment is at the end.
LEMMA AppendFacts ==
    ASSUME NEW S, NEW l \in Seq(S), NEW s \in S
    PROVE  AtEnd(Append(l, s), l, s)
  <1>1. /\ Len(l) \in Nat /\ Len(Append(l, s)) = Len(l) + 1
        /\ \A i \in 1..Len(l) : Append(l, s)[i] = l[i]
        /\ Append(l, s)[Len(l) + 1] = s
    OBVIOUS
  <1>2. (Len(l) + 2)..(Len(l) + 1) = {}
    BY <1>1
  <1> QED
    BY <1>1, <1>2 DEF AtEnd, Inserted

\* The first segment is at the end.
LEMMA FirstAtEnd ==
    ASSUME NEW o, NEW s, o.list = <<>>
    PROVE  AtEnd(TcpOrder(o, s).list, o.list, s)
  <1>1. TcpOrder(o, s).list = <<s>>
    BY DEF TcpOrder
  <1>2. /\ Len(<<>>) = 0 /\ Len(<<s>>) = 1 /\ <<s>>[1] = s
        /\ 1..0 = {} /\ 2..1 = {}
    OBVIOUS
  <1> QED
    BY <1>1, <1>2 DEF AtEnd, Inserted

\* tcp_order stores nothing of a segment, or one piece of it with the other
\* fields of the segment.
LEMMA ListCases ==
    ASSUME NEW S, SegmentSet(S), NEW o, OrderIn(o, S), NEW s \in S
    PROVE  \/ TcpOrder(o, s).list = o.list
           \/ \E p \in 0..Len(o.list), e \in S :
                /\ Inserted(TcpOrder(o, s).list, o.list, p, e)
                /\ \A f \in DOMAIN s \ {"seq", "nxt"} : e[f] = s[f]
  <1> DEFINE l == o.list
             r == TcpOrder(o, s)
  <1>1. l \in Seq(S) /\ Len(l) \in Nat /\ Len(l) \in 0..Len(l)
    BY DEF OrderIn
  <1>2. CASE AtEnd(r.list, l, s)
    BY <1>1, <1>2 DEF AtEnd
  <1>3. ASSUME NEW pre \in 1..Len(l), NEW cp \in 1..Len(l), r = Place(o, s, pre, cp)
        PROVE  \/ r.list = l
               \/ \E p \in 0..Len(l), e \in S :
                    /\ Inserted(r.list, l, p, e)
                    /\ \A f \in DOMAIN s \ {"seq", "nxt"} : e[f] = s[f]
    <2>1. CASE r = o
      BY <2>1
    <2>2. CASE r.list = InsertAt(l, cp + 1, Piece(l, s, pre, cp))
      <3> DEFINE e == Piece(l, s, pre, cp)
      <3>1. e \in S /\ \A f \in DOMAIN s \ {"seq", "nxt"} : e[f] = s[f]
        BY <1>1, PieceFacts
      <3>2. cp \in 0..Len(l)
        BY <1>1
      <3>3. r.list = InsertAt(l, cp + 1, e)
        BY <2>2
      <3> HIDE DEF e, r
      <3>4. Inserted(r.list, l, cp, e)
        BY <1>1, <3>1, <3>2, <3>3, InsertFacts, Zenon
      <3> QED
        BY <3>1, <3>2, <3>4
    <2> QED
      BY <1>3, <2>1, <2>2, PlaceCases
  <1>4. CASE l = <<>>
    BY <1>2, <1>4, FirstAtEnd
  <1>5. CASE l # <<>>
    <2>1. CASE r = [list |-> Append(l, s), last |-> Len(l) + 1, num |-> o.num + 1]
      <3>1. r.list = Append(l, s)
        BY <2>1
      <3>2. AtEnd(r.list, l, s)
        BY <1>1, <3>1, AppendFacts
      <3> QED
        BY <1>2, <3>2
    <2> QED
      BY <1>3, <1>5, <2>1, OrderCases
  <1> QED
    BY <1>4, <1>5

\* A segment that is looked for behind the last one, and does not begin within
\* the run before, is stored at the end.
LEMMA PlacedAtEnd ==
    ASSUME NEW S, SegmentSet(S), NEW o, OrderIn(o, S), NEW s \in S,
           NEW pre \in 1..Len(o.list),
           ~Known(o.list, s, pre, Len(o.list))
    PROVE  AtEnd(Place(o, s, pre, Len(o.list)).list, o.list, s)
  <1> DEFINE l  == o.list
             cp == Len(l)
             r  == Place(o, s, pre, cp)
  <1>1. l \in Seq(S) /\ cp \in Nat /\ cp \in 1..Len(l) /\ cp \in 0..Len(l)
    BY DEF OrderIn
  <1>2. Piece(l, s, pre, cp) = s
    BY <1>1, PieceFacts
  <1>3. r.list = InsertAt(l, cp + 1, s)
    BY <1>1, <1>2, PlaceCases DEF Repeated
  <1> HIDE DEF r
  <1>4. Inserted(r.list, l, cp, s)
    BY <1>1, <1>3, InsertFacts, Zenon
  <1> QED
    BY <1>4 DEF AtEnd, r

\* The segments follow one another with growing numbers up to q.
UpTo(l, q) ==
    /\ \A i \in 1..Len(l) : l[i].seq < l[i].nxt /\ l[i].nxt <= q
    /\ \A i, j \in 1..Len(l) : i < j => l[i].nxt <= l[j].seq

\* Behind growing numbers a segment with a number that is not smaller is stored
\* at the end.
LEMMA LargerAtEnd ==
    ASSUME NEW S, SegmentSet(S), NEW o, OrderIn(o, S), NEW s \in S,
           UpTo(o.list, s.seq)
    PROVE  AtEnd(TcpOrder(o, s).list, o.list, s)
  <1> DEFINE l == o.list
             k == Len(l)
  <1>1. l \in Seq(S) /\ k \in Nat
    BY DEF OrderIn
  <1>2. /\ \A i \in 1..k : l[i].seq \in Nat /\ l[i].nxt \in Nat /\ l[i].nxt \in Word
        /\ s.seq \in Nat
    BY <1>1, NumberFacts
  <1>3. /\ \A i \in 1..k : l[i].seq < l[i].nxt /\ l[i].nxt <= s.seq
        /\ \A i, j \in 1..k : i < j => l[i].nxt <= l[j].seq
    BY DEF UpTo
  <1>4. CASE l = <<>>
    BY <1>4, FirstAtEnd
  <1>5. ASSUME NEW pre \in 1..k, NEW cp \in 1..k,
               Found(o, s, pre), RunEnds(l, pre, cp),
               TcpOrder(o, s) = Place(o, s, pre, cp)
        PROVE  AtEnd(TcpOrder(o, s).list, l, s)
    <2>1. \A at \in DOMAIN l : ~(l[at].nxt > s.seq)
      <3> TAKE at \in DOMAIN l
      <3>1. at \in 1..k
        BY <1>1
      <3>2. l[at].nxt <= s.seq /\ l[at].nxt \in Nat
        BY <1>2, <1>3, <3>1
      <3> QED
        BY <1>2, <3>2
    <2>2. l[pre].nxt = s.seq
      BY <1>5, <2>1 DEF Found
    <2>3. pre = k
      <3> SUFFICES ASSUME pre < k PROVE FALSE
        BY <1>1
      <3>1. k \in 1..k /\ pre < k
        BY <1>1
      <3>2. l[pre].nxt <= l[k].seq /\ l[k].seq < l[k].nxt /\ l[k].nxt <= s.seq
        BY <1>3, <3>1
      <3>3. l[k].seq \in Nat /\ l[k].nxt \in Nat
        BY <1>2, <3>1
      <3> QED
        BY <1>2, <2>2, <3>2, <3>3
    <2>4. cp = k
      BY <1>1, <1>5, <2>3 DEF RunEnds
    <2>5. ~Known(l, s, pre, k)
      <3>1. l[k].nxt = s.seq /\ l[k].seq < l[k].nxt /\ l[k].seq \in Nat
            /\ l[k].nxt \in Word
        BY <1>2, <1>3, <2>2, <2>3
      <3>2. s.seq # 0 /\ s.seq \in Word
        BY <1>2, <3>1
      <3>3. Wrap(l[k].nxt - 1) = s.seq - 1
        BY <3>1, <3>2, WrapBelow
      <3> QED
        BY <1>2, <3>3 DEF Known
    <2> QED
      BY <1>5, <2>4, <2>5, PlacedAtEnd
  <1>6. CASE l # <<>>
    <2>1. CASE TcpOrder(o, s) = [list |-> Append(l, s), last |-> Len(l) + 1,
                                 num |-> o.num + 1]
      <3>1. TcpOrder(o, s).list = Append(l, s)
        BY <2>1
      <3> QED
        BY <1>1, <3>1, AppendFacts
    <2> QED
      BY <1>5, <1>6, <2>1, OrderCases
  <1> QED
    BY <1>4, <1>6

\* A segment that continues a contiguous list, and does not begin like one that
\* is in it, is stored at the end, even when the numbers have wrapped around.
LEMMA NextAtEnd ==
    ASSUME NEW S, SegmentSet(S), NEW o, OrderIn(o, S), NEW s \in S,
           o.list # <<>>, Contiguous(o.list), o.list[Len(o.list)].nxt = s.seq,
           \A i \in 1..Len(o.list) : o.list[i].seq # s.seq
    PROVE  AtEnd(TcpOrder(o, s).list, o.list, s)
  <1> DEFINE l == o.list
             k == Len(l)
  <1>1. l \in Seq(S) /\ k \in Nat /\ k \in 1..k
    BY DEF OrderIn
  <1>2. /\ \A i \in 1..k : l[i].seq \in Nat
        /\ s.seq \in Nat /\ s.seq \in Word
    BY <1>1, NumberFacts
  <1>3. ASSUME NEW pre \in 1..k, NEW cp \in 1..k, RunEnds(l, pre, cp),
               TcpOrder(o, s) = Place(o, s, pre, cp)
        PROVE  AtEnd(TcpOrder(o, s).list, l, s)
    <2>1. cp = k
      BY <1>1, <1>3 DEF RunEnds, Contiguous
    <2>2. ~Known(l, s, pre, k)
      <3> SUFFICES ASSUME l[pre].seq <= s.seq, s.seq <= Wrap(s.seq - 1) PROVE FALSE
        BY DEF Known
      <3>1. s.seq = 0
        BY <1>2, WrapBelow
      <3>2. l[pre].seq \in Nat /\ l[pre].seq # s.seq
        BY <1>2
      <3> QED
        BY <3>1, <3>2
    <2> QED
      BY <1>3, <2>1, <2>2, PlacedAtEnd
  <1>4. CASE TcpOrder(o, s) = [list |-> Append(l, s), last |-> Len(l) + 1,
                               num |-> o.num + 1]
    <2>1. TcpOrder(o, s).list = Append(l, s)
      BY <1>4
    <2> QED
      BY <1>1, <2>1, AppendFacts
  <1> QED
    BY <1>3, <1>4, OrderCases
=============================================================================
