--------------------------- MODULE TcpOrderProofs ---------------------------
(***************************************************************************)
(* What tcp_order does with a stream, for every width of the sequence      *)
(* numbers, every length of the stream and every number of arrivals.       *)
(***************************************************************************)
EXTENDS TcpOrder, SeqListProofs

Seg == [seq : Word, nxt : Word]

OrderOK(o) == OrderIn(o, Seg)

\* The fields of a segment, and of the segments of a list.
LEMMA SegFacts ==
    /\ \A x \in Seg : /\ x.seq \in Word /\ x.nxt \in Word
                       /\ x.seq \in Nat /\ x.nxt \in Nat
                       /\ x = [seq |-> x.seq, nxt |-> x.nxt]
    /\ \A l \in Seq(Seg) : \A i \in 1..Len(l) : l[i] \in Seg
  <1>1. \A x \in Seg : /\ x.seq \in Word /\ x.nxt \in Word
                       /\ x = [seq |-> x.seq, nxt |-> x.nxt]
    BY DEF Seg
  <1>2. \A l \in Seq(Seg) : \A i \in 1..Len(l) : l[i] \in Seg
    OBVIOUS
  <1> QED
    BY <1>1, <1>2, WordFacts

\* SeqListProofs applies to the segments of TcpOrder.
LEMMA Segments == SegmentSet(Seg)
  BY DEF SegmentSet, Seg

\* The list after a segment was inserted.
LEMMA SegInsert ==
    ASSUME NEW l \in Seq(Seg), NEW e \in Seg, NEW p \in 0..Len(l)
    PROVE  LET r == InsertAt(l, p + 1, e) IN
           /\ r \in Seq(Seg) /\ Len(r) = Len(l) + 1
           /\ \A i \in 1..p : r[i] = l[i]
           /\ r[p + 1] = e
           /\ \A i \in (p + 2)..(Len(l) + 1) : r[i] = l[i - 1]
  <1> DEFINE r == InsertAt(l, p + 1, e)
  <1>1. r \in Seq(Seg) /\ Inserted(r, l, p, e)
    BY InsertFacts, Zenon
  <1> HIDE DEF r
  <1> QED
    BY <1>1 DEF Inserted, r

\* The numbers of a stored piece.
LEMMA SegPiece ==
    ASSUME NEW l \in Seq(Seg), NEW s \in Seg,
           NEW pre \in 1..Len(l), NEW cp \in 1..Len(l)
    PROVE  LET e == Piece(l, s, pre, cp) IN
           /\ e.seq = IF Known(l, s, pre, cp) THEN l[cp].nxt ELSE s.seq
           /\ e.nxt = IF cp < Len(l) /\ s.nxt > l[cp + 1].seq
                      THEN l[cp + 1].seq ELSE s.nxt
           /\ ~Known(l, s, pre, cp) /\ cp = Len(l) => e = s
  BY PieceFacts, Segments

-----------------------------------------------------------------------------
(***************************************************************************)
(* The arrivals.  Operators with the sequence of arrivals as a parameter   *)
(* stand for those of TcpOrder, which are about the variable.              *)
(***************************************************************************)
Span == {x \in (0..StreamLength) \X (0..StreamLength) : x[1] < x[2]}

SegOf(n, x) == [seq |-> Wrap(n + x[1]), nxt |-> Wrap(n + x[2])]

EndIn(arr, i) ==
    IF i = 1 THEN arr[1][1]
    ELSE CHOOSE e \in {arr[j][2] : j \in 1..(i - 1)} :
            \A j \in 1..(i - 1) : arr[j][2] <= e

\* e is the largest end of the arrivals before i
IsEnd(arr, i, e) ==
    /\ \E j \in 1..(i - 1) : arr[j][2] = e
    /\ \A j \in 1..(i - 1) : arr[j][2] <= e

\* Every arrival but the first has a largest end before it.
HasEnds(arr) == \A i \in 2..(Len(arr) + 1) : \E e \in Nat : IsEnd(arr, i, e)

\* The fields of a span.
LEMMA SpanFacts ==
    /\ StreamLength \in Nat /\ StreamLength < Size
    /\ \A x \in Span : /\ x[1] \in Nat /\ x[2] \in Nat /\ x[1] < x[2]
                       /\ x[2] <= StreamLength
    /\ \A arr \in Seq(Span) : \A i \in 1..Len(arr) : arr[i] \in Span
  BY StreamAssumption DEF Span, Size

\* The largest end is what the CHOOSE of EndIn chooses.
LEMMA EndIs ==
    ASSUME NEW arr \in Seq(Span), NEW i \in 2..(Len(arr) + 1), NEW e \in Nat,
           IsEnd(arr, i, e)
    PROVE  EndIn(arr, i) = e
  <1> DEFINE E == {arr[j][2] : j \in 1..(i - 1)}
             Top(x) == \A j \in 1..(i - 1) : arr[j][2] <= x
  <1>1. i \in Nat /\ i # 1
    OBVIOUS
  <1>2. EndIn(arr, i) = CHOOSE x \in E : Top(x)
    BY <1>1 DEF EndIn
  <1>3. e \in E /\ Top(e)
    BY DEF IsEnd
  <1>4. \A x \in E : Top(x) => x = e
    <2> TAKE x \in E
    <2> HAVE Top(x)
    <2>1. PICK j \in 1..(i - 1) : x = arr[j][2]
      OBVIOUS
    <2>2. j \in 1..Len(arr)
      BY <1>1
    <2>3. x \in Nat
      BY <2>1, <2>2, SpanFacts
    <2> QED
      BY <1>3, <2>1, <2>3 DEF IsEnd
  <1> HIDE DEF E, Top
  <1> QED
    BY <1>2, <1>3, <1>4

\* EndIn is the largest end.
LEMMA EndFacts ==
    ASSUME NEW arr \in Seq(Span), HasEnds(arr), NEW i \in 2..(Len(arr) + 1)
    PROVE  EndIn(arr, i) \in Nat /\ IsEnd(arr, i, EndIn(arr, i))
  <1>1. PICK e \in Nat : IsEnd(arr, i, e)
    BY DEF HasEnds
  <1>2. EndIn(arr, i) = e
    BY <1>1, EndIs
  <1> QED
    BY <1>1, <1>2

\* One more arrival leaves the ends before the others as they are.
LEMMA EndAppend ==
    ASSUME NEW arr \in Seq(Span), HasEnds(arr), NEW x \in Span, arr # <<>>
    PROVE  LET new == Append(arr, x)  n == Len(arr) IN
           /\ HasEnds(new)
           /\ \A i \in 1..(n + 1) : EndIn(new, i) = EndIn(arr, i)
           /\ EndIn(new, n + 2) = IF x[2] > EndIn(arr, n + 1) THEN x[2]
                                  ELSE EndIn(arr, n + 1)
  <1> DEFINE new == Append(arr, x)
             n   == Len(arr)
             m   == EndIn(arr, n + 1)
             top == IF x[2] > m THEN x[2] ELSE m
  <1>1. /\ n \in Nat /\ n >= 1 /\ new \in Seq(Span) /\ Len(new) = n + 1
        /\ \A i \in 1..n : new[i] = arr[i]
        /\ new[n + 1] = x
    OBVIOUS
  <1> HIDE DEF new
  <1>2. m \in Nat /\ IsEnd(arr, n + 1, m)
    BY <1>1, EndFacts
  <1> HIDE DEF n, m
  <1>3. x[2] \in Nat /\ top \in Nat
    BY <1>2, SpanFacts
  <1>4. ASSUME NEW i \in 2..(n + 1), NEW e \in Nat, IsEnd(arr, i, e)
        PROVE  IsEnd(new, i, e)
    BY <1>1, <1>4 DEF IsEnd
  <1>5. IsEnd(new, n + 2, top)
    <2>1. (n + 2) - 1 = n + 1 /\ (n + 1) - 1 = n
      BY <1>1
    <2>2. \A j \in 1..(n + 1) : new[j][2] = IF j <= n THEN arr[j][2] ELSE x[2]
      BY <1>1
    <2>3. /\ \E j \in 1..n : arr[j][2] = m
          /\ \A j \in 1..n : arr[j][2] <= m /\ arr[j][2] \in Nat
      <3>1. \A j \in 1..n : arr[j][2] \in Nat
        BY <1>1, SpanFacts DEF n
      <3> QED
        BY <1>2, <2>1, <3>1 DEF IsEnd
    <2>4. \E j \in 1..(n + 1) : new[j][2] = top
      BY <1>1, <2>2, <2>3
    <2>5. \A j \in 1..(n + 1) : new[j][2] <= top
      BY <1>1, <1>2, <1>3, <2>2, <2>3
    <2> QED
      BY <2>1, <2>4, <2>5 DEF IsEnd
  <1>6. HasEnds(new)
    <2>1. ASSUME NEW i \in 2..(n + 2) PROVE \E e \in Nat : IsEnd(new, i, e)
      <3>1. CASE i = n + 2
        BY <1>3, <1>5, <3>1
      <3>2. CASE i \in 2..(n + 1)
        BY <1>4, <3>2 DEF HasEnds, n
      <3> QED
        BY <1>1, <3>1, <3>2
    <2>2. Len(new) + 1 = n + 2
      BY <1>1
    <2> QED
      BY <2>1, <2>2 DEF HasEnds
  <1>7. ASSUME NEW i \in 1..(n + 1) PROVE EndIn(new, i) = EndIn(arr, i)
    <2>1. CASE i = 1
      BY <1>1, <2>1 DEF EndIn
    <2>2. CASE i \in 2..(n + 1)
      <3>1. EndIn(arr, i) \in Nat /\ IsEnd(arr, i, EndIn(arr, i))
        BY <2>2, EndFacts DEF n
      <3>2. IsEnd(new, i, EndIn(arr, i)) /\ i \in 2..(Len(new) + 1)
        BY <1>1, <1>4, <2>2, <3>1
      <3> QED
        BY <1>1, <3>1, <3>2, EndIs
    <2> QED
      BY <1>1, <2>1, <2>2
  <1>8. EndIn(new, n + 2) = top
    <2>1. n + 2 \in 2..(Len(new) + 1)
      BY <1>1
    <2> QED
      BY <1>1, <1>3, <1>5, <2>1, EndIs
  <1> QED
    BY <1>6, <1>7, <1>8 DEF new, n, m

\* The first arrival.
LEMMA EndFirst ==
    ASSUME NEW x \in Span
    PROVE  HasEnds(<<x>>) /\ EndIn(<<x>>, 1) = x[1] /\ EndIn(<<x>>, 2) = x[2]
  <1> DEFINE arr == <<x>>
  <1>1. arr \in Seq(Span) /\ Len(arr) = 1 /\ arr[1] = x /\ x[2] \in Nat
    BY SpanFacts
  <1> HIDE DEF arr
  <1>2. IsEnd(arr, 2, x[2])
    BY <1>1 DEF IsEnd
  <1>3. HasEnds(arr)
    BY <1>1, <1>2 DEF HasEnds
  <1>4. 2 \in 2..(Len(arr) + 1)
    BY <1>1
  <1>5. EndIn(arr, 2) = x[2]
    BY <1>1, <1>2, <1>4, EndIs
  <1>6. EndIn(arr, 1) = x[1]
    BY <1>1 DEF EndIn
  <1> QED
    BY <1>3, <1>5, <1>6 DEF arr

\* The segment of a span has words for numbers; they are the numbers
\* themselves if the stream does not wrap around.
LEMMA SegOfFacts ==
    ASSUME NEW n \in Word, NEW x \in Span
    PROVE  /\ SegOf(n, x) \in Seg
           /\ SegOf(n, x).seq = Wrap(n + x[1]) /\ SegOf(n, x).nxt = Wrap(n + x[2])
           /\ n + StreamLength < Size =>
                SegOf(n, x).seq = n + x[1] /\ SegOf(n, x).nxt = n + x[2]
  <1>1. /\ n \in Nat /\ x[1] \in Nat /\ x[2] \in Nat /\ x[1] < x[2]
        /\ x[2] <= StreamLength /\ StreamLength \in Nat
    BY SpanFacts, WordFacts
  <1>2. n + x[1] \in Int /\ n + x[2] \in Int
    BY <1>1
  <1>3. SegOf(n, x) \in Seg
    BY <1>2, WrapIsWord DEF SegOf, Seg
  <1>4. ASSUME n + StreamLength < Size
        PROVE  n + x[1] \in Word /\ n + x[2] \in Word
    <2>1. Size \in Nat /\ Word = 0..(Size - 1)
      BY SizePositive, WordFacts
    <2> HIDE DEF Size
    <2> QED
      BY <1>1, <1>4, <2>1
  <1> QED
    BY <1>3, <1>4, WrapIsWord DEF SegOf

-----------------------------------------------------------------------------
(***************************************************************************)
(* A stream in order                                                       *)
(***************************************************************************)
InOrderIn(arr) == \A i \in DOMAIN arr : arr[i][1] = EndIn(arr, i)

\* The list has the arrivals one by one, each beginning where the one before
\* ends.
AsArrived(n, l, arr) ==
    /\ Len(l) = Len(arr)
    /\ \A i \in 1..Len(arr) : l[i] = SegOf(n, arr[i])
    /\ \A i, j \in 1..Len(arr) : i < j => arr[i][2] <= arr[j][1]
    /\ \A i \in 1..(Len(arr) - 1) : arr[i][2] = arr[i + 1][1]

\* In order, the end so far is the end of the last arrival.
LEMMA EndInOrder ==
    ASSUME NEW n, NEW l, NEW arr \in Seq(Span), AsArrived(n, l, arr), arr # <<>>
    PROVE  EndIn(arr, Len(arr) + 1) = arr[Len(arr)][2]
  <1> DEFINE k == Len(arr)
  <1>1. /\ k \in Nat /\ k >= 1 /\ arr[k] \in Span
        /\ \A j \in 1..k : arr[j] \in Span
    BY SpanFacts
  <1>2. \A j \in 1..k : /\ arr[j][2] \in Nat /\ arr[j][1] \in Nat
                        /\ arr[j][1] < arr[j][2]
    BY <1>1, SpanFacts
  <1>3. \A j \in 1..k : arr[j][2] <= arr[k][2]
    <2> TAKE j \in 1..k
    <2>1. CASE j = k
      BY <1>1, <1>2, <2>1
    <2>2. CASE j < k
      BY <1>1, <1>2, <2>2 DEF AsArrived
    <2> QED
      BY <1>1, <2>1, <2>2
  <1>4. IsEnd(arr, k + 1, arr[k][2])
    <2>1. (k + 1) - 1 = k /\ k \in 1..k
      BY <1>1
    <2> QED
      BY <1>3, <2>1 DEF IsEnd
  <1>5. k + 1 \in 2..(Len(arr) + 1) /\ arr[k][2] \in Nat
    BY <1>1, <1>2
  <1> QED
    BY <1>4, <1>5, EndIs

\* The next segment in order is appended, whether or not the numbers wrap
\* around: only a segment a full turn behind would look known.
LEMMA InOrderStep ==
    ASSUME NEW n \in Word, NEW o, OrderOK(o), NEW arr \in Seq(Span), NEW x \in Span,
           arr # <<>>, AsArrived(n, o.list, arr), x[1] = EndIn(arr, Len(arr) + 1)
    PROVE  AsArrived(n, TcpOrder(o, SegOf(n, x)).list, Append(arr, x))
  <1> DEFINE l == o.list
             k == Len(arr)
             s == SegOf(n, x)
             r == TcpOrder(o, s)
             new == Append(arr, x)
  <1>1. /\ l \in Seq(Seg) /\ k \in Nat /\ k >= 1 /\ Len(l) = k
        /\ \A i \in 1..k : arr[i] \in Span /\ l[i] = SegOf(n, arr[i]) /\ l[i] \in Seg
    BY SpanFacts, SegOfFacts DEF OrderOK, OrderIn, AsArrived
  <1>2. s \in Seg /\ s.seq = Wrap(n + x[1]) /\ l # <<>>
    BY <1>1, SegOfFacts
  <1>3. x[1] = arr[k][2]
    BY EndInOrder
  <1>4. \A i \in 1..k : /\ arr[i][1] \in Nat /\ arr[i][2] \in Nat
                        /\ arr[i][1] < arr[i][2] /\ arr[i][2] <= x[1]
    <2> TAKE i \in 1..k
    <2>1. /\ arr[i][1] \in Nat /\ arr[i][2] \in Nat /\ arr[i][1] < arr[i][2]
          /\ arr[k][1] \in Nat /\ arr[k][2] \in Nat /\ arr[k][1] < arr[k][2]
      BY <1>1, SpanFacts
    <2>2. CASE i = k
      BY <1>3, <2>1, <2>2
    <2>3. CASE i < k
      <3>1. arr[i][2] <= arr[k][1]
        BY <1>1, <2>3 DEF AsArrived
      <3> QED
        BY <1>3, <2>1, <3>1
    <2> QED
      BY <1>1, <2>1, <2>2, <2>3
  <1>5. x[1] \in Nat /\ x[1] <= StreamLength /\ StreamLength < Size /\ Size \in Nat
        /\ n \in Nat /\ StreamLength \in Nat
    BY SpanFacts, SizePositive, WordFacts
  <1> HIDE DEF l, s, r, new, k
  <1>6. /\ Len(new) = k + 1 /\ new[k + 1] = x /\ \A i \in 1..k : new[i] = arr[i]
    BY DEF new, k
  <1>7. ASSUME /\ Len(r.list) = k + 1 /\ r.list[k + 1] = s
               /\ \A i \in 1..k : r.list[i] = l[i]
        PROVE  AsArrived(n, r.list, new)
    <2>1. \A i \in 1..(k + 1) : r.list[i] = SegOf(n, new[i])
      <3> TAKE i \in 1..(k + 1)
      <3>1. CASE i = k + 1
        BY <1>6, <1>7, <3>1 DEF s
      <3>2. CASE i \in 1..k
        BY <1>1, <1>6, <1>7, <3>2
      <3> QED
        BY <1>1, <3>1, <3>2
    <2>2. \A i, j \in 1..(k + 1) : i < j => new[i][2] <= new[j][1]
      <3> TAKE i, j \in 1..(k + 1)
      <3> HAVE i < j
      <3>1. i \in 1..k /\ new[i] = arr[i]
        BY <1>1, <1>6
      <3>2. CASE j = k + 1
        BY <1>4, <1>6, <3>1, <3>2
      <3>3. CASE j \in 1..k
        BY <1>1, <1>6, <3>1, <3>3 DEF AsArrived, k
      <3> QED
        BY <1>1, <3>2, <3>3
    <2>3. \A i \in 1..((k + 1) - 1) : new[i][2] = new[i + 1][1]
      <3> TAKE i \in 1..((k + 1) - 1)
      <3>1. CASE i = k
        BY <1>1, <1>3, <1>6, <3>1
      <3>2. CASE i < k
        <4>1. i \in 1..(k - 1) /\ i \in 1..k /\ i + 1 \in 1..k
          BY <1>1, <3>2
        <4>2. arr[i][2] = arr[i + 1][1]
          BY <4>1 DEF AsArrived, k
        <4> QED
          BY <1>6, <4>1, <4>2
      <3> QED
        BY <1>1, <3>1, <3>2
    <2> QED
      BY <1>1, <1>6, <1>7, <2>1, <2>2, <2>3 DEF AsArrived
  <1>8. CASE r = [list |-> Append(l, s), last |-> Len(l) + 1, num |-> o.num + 1]
    <2>1. r.list = Append(l, s)
      BY <1>8
    <2>2. Len(r.list) = k + 1 /\ r.list[k + 1] = s /\ \A i \in 1..k : r.list[i] = l[i]
      BY <1>1, <1>2, <2>1
    <2> QED
      BY <1>7, <2>2 DEF r, s, new
  <1>9. ASSUME NEW pre \in 1..Len(l), NEW cp \in 1..Len(l), RunEnds(l, pre, cp),
               r = Place(o, s, pre, cp)
        PROVE  AsArrived(n, r.list, new)
    <2>1. cp = k
      <3>1. SUFFICES ASSUME cp < k PROVE FALSE
        BY <1>1
      <3>2. cp \in 1..(k - 1) /\ cp \in 1..k /\ cp + 1 \in 1..k
        BY <1>1, <3>1
      <3>3. arr[cp][2] = arr[cp + 1][1]
        BY <3>2 DEF AsArrived, k
      <3>4. l[cp].nxt = l[cp + 1].seq
        BY <1>1, <3>2, <3>3, SegOfFacts
      <3> QED
        BY <1>1, <1>9, <3>1, <3>4 DEF RunEnds
    <2>2. l[cp].nxt = s.seq
      BY <1>1, <1>2, <1>3, <2>1, SegOfFacts
    <2>3. s.seq \in Word /\ s.seq \in Nat /\ l[pre].seq \in Nat
      BY <1>1, <1>2, SegFacts
    <2>4. ~Known(l, s, pre, cp)
      <3>1. SUFFICES ASSUME l[pre].seq <= s.seq, s.seq <= Wrap(s.seq - 1) PROVE FALSE
        BY <2>2 DEF Known
      <3>2. s.seq = 0 /\ l[pre].seq = 0
        BY <2>3, <3>1, WrapBelow
      <3>3. l[pre].seq = Wrap(n + arr[pre][1])
        BY <1>1, SegOfFacts
      <3>4. arr[pre][1] \in Nat /\ arr[pre][1] < x[1]
        BY <1>1, <1>4, <1>5
      <3>5. /\ n + arr[pre][1] \in Int /\ n + x[1] \in Int
            /\ n + arr[pre][1] < n + x[1] /\ n + x[1] < (n + arr[pre][1]) + Size
        <4> DEFINE a == arr[pre][1]
                   b == x[1]
        <4>1. a \in Nat /\ b \in Nat /\ a < b /\ b < Size
          BY <1>5, <3>4
        <4> HIDE DEF a, b
        <4>2. n + a \in Int /\ n + b \in Int /\ n + a < n + b /\ n + b < (n + a) + Size
          BY <1>5, <4>1
        <4> QED
          BY <4>2 DEF a, b
      <3>6. Wrap(n + arr[pre][1]) # Wrap(n + x[1])
        BY <3>5, WrapApart
      <3> QED
        BY <1>2, <3>2, <3>3, <3>6
    <2>5. Piece(l, s, pre, cp) = s
      <3>1. l \in Seq(Seg) /\ s \in Seg /\ cp = Len(l)
        BY <1>1, <1>2, <2>1
      <3> QED
        BY <2>4, <3>1, SegPiece
    <2>6. r.list = InsertAt(l, k + 1, s)
      BY <1>2, <1>9, <2>1, <2>4, <2>5, PlaceCases, Segments DEF Repeated, l, OrderOK
    <2>7. k \in 0..Len(l)
      BY <1>1
    <2>8. /\ Len(r.list) = k + 1 /\ r.list[k + 1] = s
          /\ \A i \in 1..k : r.list[i] = l[i]
      <3> DEFINE m == InsertAt(l, k + 1, s)
      <3>1. /\ Len(m) = Len(l) + 1 /\ m[k + 1] = s
            /\ \A i \in 1..k : m[i] = l[i]
        BY <1>1, <1>2, <2>7, SegInsert
      <3> HIDE DEF m
      <3>2. r.list = m
        BY <2>6 DEF m
      <3> QED
        BY <1>1, <3>1, <3>2
    <2> QED
      BY <1>7, <2>8
  <1>10. \/ r = [list |-> Append(l, s), last |-> Len(l) + 1, num |-> o.num + 1]
         \/ \E pre, cp \in 1..Len(l) :
               RunEnds(l, pre, cp) /\ r = Place(o, s, pre, cp)
    BY <1>2, OrderCases, Segments DEF l, r, OrderOK
  <1> QED
    BY <1>8, <1>9, <1>10 DEF r, s, new

-----------------------------------------------------------------------------
(***************************************************************************)
(* A stream without gaps                                                   *)
(***************************************************************************)

\* The segments are in order and not empty.
Ascending(l) ==
    /\ \A i \in 1..Len(l) : l[i].seq < l[i].nxt
    /\ \A i, j \in 1..Len(l) : i < j => l[i].nxt <= l[j].seq

\* The list reaches from a to e without a gap.
Covers(l, a, e) ==
    /\ Len(l) >= 1 /\ Ascending(l)
    /\ \A i \in 1..(Len(l) - 1) : l[i].nxt = l[i + 1].seq
    /\ l[1].seq = a /\ l[Len(l)].nxt = e

\* One more segment at the end of the list
LEMMA CoversMore ==
    ASSUME NEW l \in Seq(Seg), NEW m \in Seq(Seg), NEW e \in Seg, NEW a \in Nat,
           NEW b \in Nat, Covers(l, a, b), e.seq = b, b < e.nxt,
           Len(m) = Len(l) + 1, m[Len(l) + 1] = e,
           \A i \in 1..Len(l) : m[i] = l[i]
    PROVE  Covers(m, a, e.nxt)
  <1> DEFINE k == Len(l)
  <1>1. /\ k \in Nat /\ k >= 1 /\ Len(m) = k + 1 /\ m[k + 1] = e
        /\ \A i \in 1..k : m[i] = l[i] /\ l[i] \in Seg
    BY SegFacts, SMTT(30) DEF Covers
  <1>2. \A i \in 1..k : l[i].seq \in Nat /\ l[i].nxt \in Nat /\ l[i].seq < l[i].nxt
    BY <1>1, SegFacts DEF Covers, Ascending
  <1>3. /\ \A i, j \in 1..k : i < j => l[i].nxt <= l[j].seq
        /\ \A i \in 1..(k - 1) : l[i].nxt = l[i + 1].seq
        /\ l[1].seq = a /\ l[k].nxt = b
    BY DEF Covers, Ascending
  <1> HIDE DEF k
  <1>4. \A i \in 1..k : l[i].nxt <= b
    <2> TAKE i \in 1..k
    <2>1. CASE i = k
      BY <1>2, <1>3, <2>1
    <2>2. CASE i < k
      <3>1. l[i].nxt <= l[k].seq /\ l[k].seq < l[k].nxt
        BY <1>1, <1>2, <1>3, <2>2
      <3> QED
        BY <1>1, <1>2, <1>3, <3>1
    <2> QED
      BY <1>1, <2>1, <2>2
  <1>5. \A i \in 1..(k + 1) : m[i].seq < m[i].nxt
    <2> TAKE i \in 1..(k + 1)
    <2>1. CASE i = k + 1
      BY <1>1, <2>1
    <2>2. CASE i \in 1..k
      BY <1>1, <1>2, <2>2
    <2> QED
      BY <1>1, <2>1, <2>2
  <1>6. \A i, j \in 1..(k + 1) : i < j => m[i].nxt <= m[j].seq
    <2> TAKE i, j \in 1..(k + 1)
    <2> HAVE i < j
    <2>1. i \in 1..k
      BY <1>1
    <2>2. CASE j = k + 1
      BY <1>1, <1>4, <2>1, <2>2
    <2>3. CASE j \in 1..k
      BY <1>1, <1>3, <2>1, <2>3
    <2> QED
      BY <1>1, <2>2, <2>3
  <1>7. \A i \in 1..((k + 1) - 1) : m[i].nxt = m[i + 1].seq
    <2> TAKE i \in 1..((k + 1) - 1)
    <2>1. CASE i = k
      BY <1>1, <1>3, <2>1
    <2>2. CASE i < k
      <3>1. i \in 1..(k - 1) /\ i \in 1..k /\ i + 1 \in 1..k
        BY <1>1, <2>2
      <3> QED
        BY <1>1, <1>3, <3>1
    <2> QED
      BY <1>1, <2>1, <2>2
  <1>8. m[1].seq = a /\ m[k + 1].nxt = e.nxt
    BY <1>1, <1>3
  <1> QED
    BY <1>1, <1>5, <1>6, <1>7, <1>8 DEF Covers, Ascending

\* A segment that begins within what is there, or where it ends, adds what it
\* has beyond the end, and nothing if it has nothing beyond.
LEMMA TrimStep ==
    ASSUME NEW o, OrderOK(o), NEW s \in Seg, NEW a \in Nat, NEW b \in Nat,
           Covers(o.list, a, b), a <= s.seq, s.seq <= b, s.seq < s.nxt
    PROVE  Covers(TcpOrder(o, s).list, a, IF s.nxt > b THEN s.nxt ELSE b)
  <1> DEFINE l == o.list
             k == Len(l)
             r == TcpOrder(o, s)
  <1>1. /\ l \in Seq(Seg) /\ k \in Nat /\ k >= 1 /\ l # <<>> /\ b = l[k].nxt
        /\ \A i \in 1..k : l[i] \in Seg /\ l[i].seq \in Nat /\ l[i].nxt \in Nat
        /\ \A i \in 1..k : l[i].seq < l[i].nxt
        /\ \A i \in 1..(k - 1) : l[i].nxt = l[i + 1].seq
        /\ l[1].seq = a
    BY SegFacts DEF OrderOK, OrderIn, Covers, Ascending
  <1>2. s.seq \in Nat /\ s.nxt \in Nat /\ s.nxt \in Word /\ b \in Word
    BY <1>1, SegFacts
  <1> HIDE DEF l, k, r
  <1>3. ASSUME NEW m, r.list = m, NEW e \in Seg, m \in Seq(Seg), Len(m) = k + 1,
               m[k + 1] = e, \A i \in 1..k : m[i] = l[i],
               e.seq = b, e.nxt = s.nxt, b < s.nxt
        PROVE  Covers(r.list, a, IF s.nxt > b THEN s.nxt ELSE b)
    <2>1. Covers(m, a, e.nxt)
      BY <1>1, <1>3, CoversMore DEF k, l
    <2> QED
      BY <1>2, <1>3, <2>1
  <1>4. ASSUME \A i \in 1..k : l[i].nxt <= s.seq, r.list = Append(l, s)
        PROVE  Covers(r.list, a, IF s.nxt > b THEN s.nxt ELSE b)
    <2>1. s.seq = b
      BY <1>1, <1>2, <1>4
    <2>2. /\ Append(l, s) \in Seq(Seg) /\ Len(Append(l, s)) = k + 1
          /\ Append(l, s)[k + 1] = s /\ \A i \in 1..k : Append(l, s)[i] = l[i]
      BY <1>1 DEF k
    <2> QED
      BY <1>3, <1>4, <2>1, <2>2
  <1>5. ASSUME NEW pre \in 1..k, NEW cp \in 1..k, Found(o, s, pre),
               RunEnds(l, pre, cp), r = Place(o, s, pre, cp)
        PROVE  Covers(r.list, a, IF s.nxt > b THEN s.nxt ELSE b)
    <2>1. cp = k
      <3>1. SUFFICES ASSUME cp < k PROVE FALSE
        BY <1>1
      <3>2. cp \in 1..(k - 1)
        BY <1>1, <3>1
      <3> QED
        BY <1>1, <1>5, <3>1, <3>2 DEF RunEnds, k
    <2>2. l[pre].seq <= s.seq
      <3>1. CASE l[pre].nxt = s.seq
        BY <1>1, <1>2, <3>1
      <3>2. ASSUME NEW at \in DOMAIN l, \A j \in 1..(at - 1) : l[j].nxt <= s.seq,
                   pre = IF at = 1 THEN 1 ELSE at - 1
            PROVE  l[pre].seq <= s.seq
        <4>1. CASE at = 1
          BY <1>1, <3>2, <4>1
        <4>2. CASE at # 1
          <5>1. at \in 1..k
            BY <1>1 DEF k
          <5>2. l[pre].nxt <= s.seq
            BY <1>1, <3>2, <4>2, <5>1
          <5> QED
            BY <1>1, <1>2, <5>2
        <4> QED
          BY <4>1, <4>2
      <3> QED
        BY <1>5, <3>1, <3>2 DEF Found, l
    <2>3. Wrap(l[cp].nxt - 1) = b - 1 /\ Wrap(s.nxt - 1) = s.nxt - 1
      <3>1. l[cp].nxt = b /\ b # 0 /\ s.nxt # 0
        BY <1>1, <1>2, <2>1
      <3>2. Wrap(b - 1) = b - 1
        BY <1>2, <3>1, WrapBelow
      <3>3. Wrap(s.nxt - 1) = s.nxt - 1
        BY <1>2, <3>1, WrapBelow
      <3> QED
        BY <3>1, <3>2, <3>3
    <2>4. Known(l, s, pre, cp) <=> s.seq < b
      BY <1>2, <2>2, <2>3 DEF Known
    <2>5. Repeated(l, s, pre, cp) <=> s.seq < b /\ s.nxt <= b
      BY <1>2, <2>3, <2>4 DEF Repeated
    <2>6. CASE Repeated(l, s, pre, cp)
      <3>1. r = o
        BY <1>5, <2>6, PlaceCases, Segments DEF l, k, OrderOK
      <3> QED
        BY <1>2, <2>5, <2>6, <3>1
    <2>7. CASE ~Repeated(l, s, pre, cp)
      <3> DEFINE e == Piece(l, s, pre, cp)
                 m == InsertAt(l, k + 1, e)
      <3>1. e \in Seg /\ r.list = m
        BY <1>5, <2>1, <2>7, PlaceCases, Segments DEF l, k, OrderOK
      <3>2. b < s.nxt
        BY <1>2, <2>5, <2>7
      <3>3. e.seq = b /\ e.nxt = s.nxt
        <4>1. ~(cp < Len(l)) /\ l[cp].nxt = b
          BY <1>1, <2>1 DEF k
        <4> QED
          <5>1. /\ e.seq = IF Known(l, s, pre, cp) THEN l[cp].nxt ELSE s.seq
                /\ e.nxt = IF cp < Len(l) /\ s.nxt > l[cp + 1].seq
                           THEN l[cp + 1].seq ELSE s.nxt
            BY <1>1, <1>5, SegPiece DEF k
          <5> QED
            BY <1>2, <2>4, <4>1, <5>1
      <3> HIDE DEF e
      <3>4. k \in 0..Len(l)
        BY <1>1 DEF k
      <3>5. /\ m \in Seq(Seg) /\ Len(m) = k + 1 /\ m[k + 1] = e
            /\ \A i \in 1..k : m[i] = l[i]
        BY <1>1, <3>1, <3>4, SegInsert, ZenonT(30) DEF k
      <3> HIDE DEF m
      <3> QED
        BY <1>3, <3>1, <3>2, <3>3, <3>5
    <2> QED
      BY <2>6, <2>7
  <1>6. \/ (\A i \in 1..k : l[i].nxt <= s.seq) /\ r.list = Append(l, s)
        \/ \E pre, cp \in 1..k : /\ Found(o, s, pre) /\ RunEnds(l, pre, cp)
                                 /\ r = Place(o, s, pre, cp)
    BY <1>1, OrderCases, Segments DEF l, r, k, OrderOK
  <1> QED
    BY <1>4, <1>5, <1>6 DEF r

-----------------------------------------------------------------------------
(***************************************************************************)
(* A stream with gaps                                                      *)
(***************************************************************************)

\* A segment that fits between two others keeps the order.
LEMMA InsertAscending ==
    ASSUME NEW l \in Seq(Seg), NEW m, NEW e \in Seg, NEW p \in 1..Len(l),
           Ascending(l), Inserted(m, l, p, e), e.seq < e.nxt, l[p].nxt <= e.seq,
           p < Len(l) => e.nxt <= l[p + 1].seq
    PROVE  Ascending(m)
  <1> DEFINE k == Len(l)
  <1>1. /\ k \in Nat /\ Len(m) = k + 1
        /\ \A i \in 1..k : /\ l[i].seq \in Nat /\ l[i].nxt \in Nat
                           /\ l[i].seq < l[i].nxt
        /\ \A i, j \in 1..k : i < j => l[i].nxt <= l[j].seq
        /\ e.seq \in Nat /\ e.nxt \in Nat
    BY SegFacts DEF Inserted, Ascending
  <1>2. /\ \A i \in 1..p : m[i] = l[i]
        /\ m[p + 1] = e
        /\ \A i \in (p + 2)..(k + 1) : m[i] = l[i - 1]
    BY DEF Inserted
  <1>3. p \in Nat /\ p >= 1 /\ p <= k /\ (p < k => e.nxt <= l[p + 1].seq)
    OBVIOUS
  <1> HIDE DEF k
  <1>4. ASSUME NEW i \in 1..p PROVE l[i].nxt <= e.seq
    <2>1. CASE i = p
      BY <2>1
    <2>2. CASE i < p
      <3>1. l[i].nxt <= l[p].seq /\ l[p].seq < l[p].nxt
        BY <1>1, <1>3, <2>2
      <3> QED
        BY <1>1, <1>3, <3>1
    <2> QED
      BY <1>3, <2>1, <2>2
  <1>5. ASSUME NEW i \in (p + 1)..k PROVE e.nxt <= l[i].seq
    <2>1. p < k /\ p + 1 \in 1..k /\ i \in 1..k
      BY <1>1, <1>3
    <2>2. CASE i = p + 1
      BY <1>3, <2>1, <2>2
    <2>3. CASE i > p + 1
      <3>1. l[p + 1].nxt <= l[i].seq /\ l[p + 1].seq < l[p + 1].nxt
        BY <1>1, <2>1, <2>3
      <3> QED
        BY <1>1, <1>3, <2>1, <3>1, SMTT(30)
    <2> QED
      BY <1>3, <2>2, <2>3
  <1>6. \A i \in 1..(k + 1) : m[i].seq < m[i].nxt
    <2> TAKE i \in 1..(k + 1)
    <2>1. CASE i \in 1..p
      BY <1>1, <1>2, <1>3, <2>1
    <2>2. CASE i = p + 1
      BY <1>2, <2>2
    <2>3. CASE i \in (p + 2)..(k + 1)
      <3>1. i - 1 \in 1..k
        BY <1>1, <1>3, <2>3
      <3> QED
        BY <1>1, <1>2, <2>3, <3>1
    <2> QED
      BY <1>1, <1>3, <2>1, <2>2, <2>3
  <1>7. \A i, j \in 1..(k + 1) : i < j => m[i].nxt <= m[j].seq
    <2> TAKE i, j \in 1..(k + 1)
    <2> HAVE i < j
    <2>1. CASE i \in 1..p /\ j \in 1..p
      <3>1. i \in 1..k /\ j \in 1..k
        BY <1>1, <1>3, <2>1
      <3>2. l[i].nxt <= l[j].seq
        BY <1>1, <3>1
      <3> QED
        BY <1>2, <2>1, <3>2
    <2>2. CASE i \in 1..p /\ j = p + 1
      BY <1>2, <1>4, <2>2
    <2>3. CASE i \in 1..p /\ j \in (p + 2)..(k + 1)
      <3>1. i \in 1..k /\ j - 1 \in 1..k /\ i < j - 1
        BY <1>1, <1>3, <2>3
      <3> QED
        BY <1>1, <1>2, <2>3, <3>1
    <2>4. CASE i = p + 1 /\ j \in (p + 2)..(k + 1)
      <3>1. j - 1 \in (p + 1)..k
        BY <1>1, <1>3, <2>4
      <3> QED
        BY <1>2, <1>5, <2>4, <3>1
    <2>5. CASE i \in (p + 2)..(k + 1) /\ j \in (p + 2)..(k + 1)
      <3>1. i - 1 \in 1..k /\ j - 1 \in 1..k /\ i - 1 < j - 1
        BY <1>1, <1>3, <2>5
      <3> QED
        BY <1>1, <1>2, <2>5, <3>1
    <2> QED
      BY <1>1, <1>3, <2>1, <2>2, <2>3, <2>4, <2>5
  <1> QED
    BY <1>1, <1>6, <1>7 DEF Ascending

\* A segment that begins with a byte not stored, after the first one, is put
\* into its gap and ends with the gap at the latest.
LEMMA SortStep ==
    ASSUME NEW o, OrderOK(o), NEW s \in Seg, o.list # <<>>, Ascending(o.list),
           s.seq < s.nxt, o.list[1].seq <= s.seq,
           \A j \in 1..Len(o.list) : s.seq < o.list[j].seq \/ o.list[j].nxt <= s.seq
    PROVE  \E p \in 1..Len(o.list), e \in Seg :
             /\ Inserted(TcpOrder(o, s).list, o.list, p, e)
             /\ e.seq = s.seq /\ e.nxt <= s.nxt
             /\ e.seq < e.nxt
             /\ Ascending(TcpOrder(o, s).list)
  <1> DEFINE l == o.list
             k == Len(l)
             r == TcpOrder(o, s)
             Goal == \E p \in 1..k, e \in Seg :
                       /\ Inserted(r.list, l, p, e)
                       /\ e.seq = s.seq /\ e.nxt <= s.nxt
                       /\ e.seq < e.nxt
                       /\ Ascending(r.list)
  <1>1. /\ l \in Seq(Seg) /\ k \in Nat /\ k >= 1
        /\ \A i \in 1..k : l[i] \in Seg /\ l[i].seq \in Nat /\ l[i].nxt \in Nat
        /\ \A i \in 1..k : l[i].seq < l[i].nxt
        /\ \A i, j \in 1..k : i < j => l[i].nxt <= l[j].seq
        /\ \A i \in 1..k : l[i].nxt \in Word
    BY SegFacts DEF OrderOK, OrderIn, Ascending
  <1>2. s.seq \in Nat /\ s.nxt \in Nat
    BY SegFacts
  <1>3. /\ l[1].seq <= s.seq
        /\ \A j \in 1..k : s.seq < l[j].seq \/ l[j].nxt <= s.seq
    OBVIOUS
  <1> HIDE DEF l, k, r
  <1>4. ASSUME \A i \in 1..k : l[i].nxt <= s.seq, r.list = Append(l, s) PROVE Goal
    <2> DEFINE m == Append(l, s)
    <2>1. Inserted(m, l, k, s)
      BY <1>1 DEF Inserted, k
    <2>2. k \in 1..Len(l) /\ k \in 1..k /\ ~(k < Len(l)) /\ l[k].nxt <= s.seq
      BY <1>1, <1>4 DEF k
    <2> HIDE DEF m
    <2>3. Ascending(m)
      BY <1>1, <2>1, <2>2, InsertAscending DEF l
    <2>4. r.list = m
      BY <1>4 DEF m
    <2> QED
      BY <1>2, <2>1, <2>2, <2>3, <2>4
  <1>5. ASSUME NEW pre \in 1..k, NEW cp \in 1..k, Found(o, s, pre),
               RunEnds(l, pre, cp), r = Place(o, s, pre, cp)
        PROVE  Goal
    <2>1. l[pre].nxt <= s.seq /\ (pre < k => s.seq <= l[pre + 1].seq)
      <3>1. CASE pre = o.last /\ l[pre].nxt = s.seq
        <4>1. ASSUME pre < k PROVE l[pre].nxt <= l[pre + 1].seq
          <5>1. pre + 1 \in 1..k /\ pre < pre + 1
            BY <1>1, <4>1
          <5> QED
            BY <1>1, <5>1
        <4> QED
          BY <1>2, <3>1, <4>1
      <3>2. ASSUME NEW at \in DOMAIN l, l[at].nxt > s.seq,
                   \A j \in 1..(at - 1) : l[j].nxt <= s.seq,
                   pre = IF at = 1 THEN 1 ELSE at - 1
            PROVE  l[pre].nxt <= s.seq /\ (pre < k => s.seq <= l[pre + 1].seq)
        <4>1. at \in 1..k
          BY <1>1 DEF k
        <4>2. s.seq < l[at].seq
          BY <1>1, <1>2, <1>3, <3>2, <4>1
        <4>3. at # 1
          BY <1>1, <1>2, <1>3, <4>2
        <4>4. pre = at - 1 /\ pre + 1 = at /\ pre \in 1..(at - 1)
          BY <3>2, <4>1, <4>3
        <4>5. l[pre].nxt <= s.seq
          BY <3>2, <4>4
        <4> QED
          BY <1>1, <1>2, <4>1, <4>2, <4>4, <4>5
      <3> QED
        BY <1>5, <3>1, <3>2 DEF Found, l
    <2>2. pre < k => s.seq < l[pre + 1].seq
      <3>1. SUFFICES ASSUME pre < k PROVE s.seq < l[pre + 1].seq
        OBVIOUS
      <3>2. pre + 1 \in 1..k
        BY <1>1, <3>1
      <3> QED
        BY <1>1, <1>2, <1>3, <2>1, <3>1, <3>2
    <2>3. cp = pre
      <3>1. SUFFICES ASSUME pre < cp PROVE FALSE
        BY <1>1, <1>5 DEF RunEnds
      <3>2. pre \in pre..(cp - 1) /\ pre < k /\ pre + 1 \in 1..k
        BY <1>1, <3>1
      <3>3. l[pre].nxt = l[pre + 1].seq
        BY <1>5, <3>2 DEF RunEnds
      <3> QED
        BY <1>1, <1>2, <2>1, <2>2, <3>2, <3>3
    <2>4. Wrap(l[cp].nxt - 1) = l[cp].nxt - 1
      <3>1. l[cp].nxt \in Word /\ l[cp].nxt # 0
        BY <1>1
      <3> QED
        BY <3>1, WrapBelow
    <2>5. ~Known(l, s, pre, cp)
      BY <1>1, <1>2, <2>1, <2>3, <2>4 DEF Known
    <2> DEFINE e == Piece(l, s, pre, cp)
               m == InsertAt(l, cp + 1, e)
    <2>6. e \in Seg /\ r.list = m
      BY <1>5, <2>5, PlaceCases, Segments DEF l, k, Repeated, OrderOK
    <2>7. e.seq = s.seq /\ e.nxt = IF cp < k /\ s.nxt > l[cp + 1].seq
                                   THEN l[cp + 1].seq ELSE s.nxt
      BY <1>1, <2>5, SegPiece DEF k
    <2> HIDE DEF e
    <2>8. cp \in 0..Len(l) /\ cp \in 1..Len(l)
      BY <1>1 DEF k
    <2>9. Inserted(m, l, cp, e)
      BY <1>1, <2>6, <2>8, SegInsert, SMTT(30) DEF Inserted
    <2> HIDE DEF m
    <2>10. /\ e.nxt <= s.nxt /\ e.seq < e.nxt /\ l[cp].nxt <= e.seq
           /\ cp < Len(l) => e.nxt <= l[cp + 1].seq
      <3>1. CASE cp < k
        <4>1. cp + 1 \in 1..k
          BY <1>1, <3>1
        <4>2. l[cp + 1].seq \in Nat
          BY <1>1, <4>1
        <4> QED
          BY <1>2, <2>1, <2>2, <2>3, <2>7, <3>1, <4>2 DEF k
      <3>2. CASE ~(cp < k)
        BY <1>2, <2>1, <2>3, <2>7, <3>2 DEF k
      <3> QED
        BY <3>1, <3>2
    <2>11. Ascending(m)
      BY <1>1, <2>6, <2>8, <2>9, <2>10, InsertAscending DEF l
    <2> QED
      BY <2>6, <2>7, <2>9, <2>10, <2>11
  <1>6. \/ (\A i \in 1..k : l[i].nxt <= s.seq) /\ r.list = Append(l, s)
        \/ \E pre, cp \in 1..k : /\ Found(o, s, pre) /\ RunEnds(l, pre, cp)
                                 /\ r = Place(o, s, pre, cp)
    BY <1>1, OrderCases, Segments DEF l, r, k, OrderOK
  <1>7. Goal
    BY <1>4, <1>5, <1>6
  <1> QED
    BY <1>7 DEF r, l, k

-----------------------------------------------------------------------------
(***************************************************************************)
(* The invariant                                                           *)
(***************************************************************************)
NoEarlierIn(arr) == \A i \in DOMAIN arr : arr[1][1] <= arr[i][1]

NoGapIn(arr) == NoEarlierIn(arr) /\ \A i \in DOMAIN arr : arr[i][1] <= EndIn(arr, i)

FreshIn(arr) == \A i, j \in DOMAIN arr :
    i < j => arr[j][1] < arr[i][1] \/ arr[i][2] <= arr[j][1]

NoWrap(n) == n + StreamLength < Size

\* Every arrival begins a segment of the list, and every segment is the
\* beginning of an arrival.
Stored(n, l, arr) ==
    /\ \A i \in 1..Len(arr) : \E j \in 1..Len(l) : l[j].seq = n + arr[i][1]
    /\ \A j \in 1..Len(l) : \E i \in 1..Len(arr) :
         l[j].seq = n + arr[i][1] /\ l[j].nxt <= n + arr[i][2]

\* What the arrivals make of the list, if they are in order, without gaps or
\* without known bytes
OrderInv(n, o, arr) ==
    /\ InOrderIn(arr) => AsArrived(n, o.list, arr)
    /\ NoGapIn(arr) /\ NoWrap(n) =>
         Covers(o.list, n + arr[1][1], n + EndIn(arr, Len(arr) + 1))
    /\ FreshIn(arr) /\ NoEarlierIn(arr) /\ NoWrap(n) =>
         /\ Ascending(o.list) /\ Stored(n, o.list, arr)
         /\ o.list[1].seq = n + arr[1][1]

\* The first segment.
LEMMA FirstArrival ==
    ASSUME NEW n \in Word, NEW o, OrderOK(o), o.list = <<>>, NEW x \in Span
    PROVE  OrderInv(n, TcpOrder(o, SegOf(n, x)), <<x>>)
  <1> DEFINE s == SegOf(n, x)
             l == TcpOrder(o, s).list
             arr == <<x>>
  <1>1. l = <<s>>
    BY DEF TcpOrder
  <1>2. /\ Len(l) = 1 /\ l[1] = s /\ Len(arr) = 1 /\ arr[1] = x /\ DOMAIN arr = 1..1
        /\ 1..1 = {1}
    BY <1>1
  <1>3. /\ x[1] \in Nat /\ x[2] \in Nat /\ x[1] < x[2] /\ n \in Nat
        /\ EndIn(arr, 2) = x[2]
    BY SpanFacts, WordFacts, EndFirst
  <1>4. NoWrap(n) => s.seq = n + x[1] /\ s.nxt = n + x[2]
    BY SegOfFacts DEF NoWrap
  <1> HIDE DEF l, arr
  <1>5. AsArrived(n, l, arr)
    BY <1>2 DEF AsArrived
  <1> HIDE DEF s
  <1>6. NoWrap(n) => /\ Ascending(l) /\ Covers(l, n + x[1], n + x[2])
                     /\ l[1].seq = n + x[1]
    BY <1>2, <1>3, <1>4 DEF Covers, Ascending
  <1>7. NoWrap(n) => Stored(n, l, arr)
    BY <1>2, <1>3, <1>4 DEF Stored
  <1> QED
    BY <1>2, <1>3, <1>5, <1>6, <1>7 DEF OrderInv, l, arr, s

\* A later one.
LEMMA LaterArrival ==
    ASSUME NEW n \in Word, NEW o, OrderOK(o), o.list # <<>>, NEW arr \in Seq(Span),
           arr # <<>>, HasEnds(arr), OrderInv(n, o, arr), NEW x \in Span
    PROVE  OrderInv(n, TcpOrder(o, SegOf(n, x)), Append(arr, x))
  <1> DEFINE s   == SegOf(n, x)
             r   == TcpOrder(o, s)
             new == Append(arr, x)
             k   == Len(arr)
             E   == EndIn(arr, k + 1)
  <1>1. /\ k \in Nat /\ k >= 1 /\ new \in Seq(Span) /\ Len(new) = k + 1
        /\ DOMAIN new = 1..(k + 1) /\ DOMAIN arr = 1..k
        /\ \A i \in 1..k : new[i] = arr[i] /\ arr[i] \in Span
        /\ new[k + 1] = x
    BY SpanFacts
  <1>2. /\ \A i \in 1..(k + 1) : EndIn(new, i) = EndIn(arr, i)
        /\ EndIn(new, k + 2) = IF x[2] > E THEN x[2] ELSE E
        /\ E \in Nat
    BY <1>1, EndAppend, EndFacts
  <1>3. /\ \A i \in 1..k : arr[i][1] \in Nat /\ arr[i][2] \in Nat
        /\ x[1] \in Nat /\ x[2] \in Nat /\ x[1] < x[2] /\ n \in Nat
    BY <1>1, SpanFacts, WordFacts
  <1>4. s \in Seg /\ (NoWrap(n) => s.seq = n + x[1] /\ s.nxt = n + x[2])
    BY SegOfFacts DEF NoWrap
  <1> HIDE DEF s, r, new, k, E
  <1>5. ASSUME InOrderIn(new) PROVE AsArrived(n, r.list, new)
    <2>1. \A i \in 1..(k + 1) : new[i][1] = EndIn(arr, i)
      BY <1>1, <1>2, <1>5 DEF InOrderIn
    <2>2. InOrderIn(arr) /\ x[1] = EndIn(arr, k + 1)
      BY <1>1, <2>1 DEF InOrderIn
    <2>3. AsArrived(n, o.list, arr)
      BY <2>2 DEF OrderInv
    <2> QED
      BY <2>2, <2>3, InOrderStep DEF r, s, new, k
  <1>6. ASSUME NoGapIn(new), NoWrap(n)
        PROVE  Covers(r.list, n + new[1][1], n + EndIn(new, Len(new) + 1))
    <2>1. /\ \A i \in 1..(k + 1) : new[1][1] <= new[i][1]
          /\ \A i \in 1..(k + 1) : new[i][1] <= EndIn(arr, i)
      BY <1>1, <1>2, <1>6 DEF NoGapIn, NoEarlierIn
    <2>2. NoGapIn(arr) /\ arr[1][1] <= x[1] /\ x[1] <= E
      BY <1>1, <2>1 DEF NoGapIn, NoEarlierIn, E
    <2>3. Covers(o.list, n + arr[1][1], n + E)
      BY <1>6, <2>2 DEF OrderInv, E, k
    <2>4. /\ n + arr[1][1] \in Nat /\ n + E \in Nat
          /\ n + arr[1][1] <= s.seq /\ s.seq <= n + E /\ s.seq < s.nxt
      BY <1>1, <1>2, <1>3, <1>4, <1>6, <2>2, SMTT(30)
    <2>5. Covers(r.list, n + arr[1][1], IF s.nxt > n + E THEN s.nxt ELSE n + E)
      BY <1>4, <2>3, <2>4, TrimStep DEF r
    <2>6. (IF s.nxt > n + E THEN s.nxt ELSE n + E) = n + EndIn(new, k + 2)
      BY <1>2, <1>3, <1>4, <1>6
    <2>7. new[1] = arr[1] /\ Len(new) + 1 = k + 2
      BY <1>1
    <2> QED
      BY <2>5, <2>6, <2>7
  <1>7. ASSUME FreshIn(new), NoEarlierIn(new), NoWrap(n)
        PROVE  /\ Ascending(r.list) /\ Stored(n, r.list, new)
               /\ r.list[1].seq = n + new[1][1]
    <2> DEFINE l == o.list
               m == r.list
    <2>1. /\ \A i, j \in 1..k :
               i < j => arr[j][1] < arr[i][1] \/ arr[i][2] <= arr[j][1]
          /\ \A i \in 1..k : x[1] < arr[i][1] \/ arr[i][2] <= x[1]
      <3>1. \A i, j \in 1..(k + 1) :
              i < j => new[j][1] < new[i][1] \/ new[i][2] <= new[j][1]
        BY <1>1, <1>7 DEF FreshIn
      <3>2. \A i \in 1..k : i \in 1..(k + 1) /\ k + 1 \in 1..(k + 1) /\ i < k + 1
        BY <1>1
      <3> QED
        BY <1>1, <3>1, <3>2
    <2>2. /\ \A i \in 1..k : arr[1][1] <= arr[i][1]
          /\ arr[1][1] <= x[1]
      BY <1>1, <1>7 DEF NoEarlierIn
    <2>3. FreshIn(arr) /\ NoEarlierIn(arr)
      BY <1>1, <2>1, <2>2 DEF FreshIn, NoEarlierIn
    <2>4. Ascending(l) /\ Stored(n, l, arr) /\ l[1].seq = n + arr[1][1]
      BY <1>7, <2>3 DEF OrderInv
    <2>5. l \in Seq(Seg) /\ Len(l) \in Nat /\ Len(l) >= 1
      BY DEF OrderOK, OrderIn
    <2>6. \A j \in 1..Len(l) : l[j].seq \in Nat /\ l[j].nxt \in Nat
      BY <2>5, SegFacts
    <2>7. \A j \in 1..Len(l) : s.seq < l[j].seq \/ l[j].nxt <= s.seq
      <3> TAKE j \in 1..Len(l)
      <3>1. PICK i \in 1..k : l[j].seq = n + arr[i][1] /\ l[j].nxt <= n + arr[i][2]
        BY <2>4 DEF Stored, k
      <3>2. x[1] < arr[i][1] \/ arr[i][2] <= x[1]
        BY <2>1
      <3>3. arr[i][1] \in Nat /\ arr[i][2] \in Nat /\ s.seq = n + x[1]
        BY <1>3, <1>4, <1>7
      <3>4. l[j].seq \in Nat /\ l[j].nxt \in Nat
        BY <2>6
      <3>5. CASE x[1] < arr[i][1]
        BY <1>3, <3>1, <3>3, <3>5
      <3>6. CASE arr[i][2] <= x[1]
        <4>1. n + arr[i][2] <= s.seq /\ n + arr[i][2] \in Nat /\ s.seq \in Nat
          BY <1>3, <3>3, <3>6, SMTT(30)
        <4> QED
          BY <3>1, <3>4, <4>1
      <3> QED
        BY <3>2, <3>5, <3>6
    <2>8. s.seq < s.nxt /\ l[1].seq <= s.seq
      BY <1>1, <1>3, <1>4, <1>7, <2>2, <2>4
    <2>9. PICK p \in 1..Len(l), e \in Seg :
            /\ Inserted(m, l, p, e)
            /\ e.seq = s.seq /\ e.nxt <= s.nxt
            /\ e.seq < e.nxt
            /\ Ascending(m)
      BY <1>4, <2>4, <2>7, <2>8, SortStep DEF r
    <2> HIDE DEF l, m
    <2>10. /\ Len(m) = Len(l) + 1 /\ m[p + 1] = e
           /\ \A i \in 1..p : m[i] = l[i]
           /\ \A i \in (p + 2)..(Len(l) + 1) : m[i] = l[i - 1]
           /\ p \in Nat /\ p >= 1 /\ p <= Len(l)
      BY <2>5, <2>9 DEF Inserted
    <2>11. \A j \in 1..Len(l) : \E q \in 1..Len(m) : m[q] = l[j]
      <3> TAKE j \in 1..Len(l)
      <3>1. CASE j <= p
        <4>1. j \in 1..p /\ j \in 1..Len(m)
          BY <2>5, <2>10, <3>1
        <4> QED
          BY <2>10, <4>1
      <3>2. CASE j > p
        <4>1. j + 1 \in (p + 2)..(Len(l) + 1) /\ j + 1 \in 1..Len(m) /\ (j + 1) - 1 = j
          BY <2>5, <2>10, <3>2
        <4> QED
          BY <2>10, <4>1
      <3> QED
        BY <2>5, <2>10, <3>1, <3>2
    <2>12. \A q \in 1..Len(m) : m[q] = e \/ \E j \in 1..Len(l) : m[q] = l[j]
      <3> TAKE q \in 1..Len(m)
      <3>1. CASE q \in 1..p
        <4>1. q \in 1..Len(l)
          BY <2>5, <2>10, <3>1
        <4> QED
          BY <2>10, <3>1, <4>1
      <3>2. CASE q = p + 1
        BY <2>10, <3>2
      <3>3. CASE q \in (p + 2)..(Len(l) + 1)
        <4>1. q - 1 \in 1..Len(l)
          BY <2>5, <2>10, <3>3
        <4> QED
          BY <2>10, <3>3, <4>1
      <3> QED
        BY <2>5, <2>10, <3>1, <3>2, <3>3
    <2>13. \A i \in 1..(k + 1) : \E q \in 1..Len(m) : m[q].seq = n + new[i][1]
      <3> TAKE i \in 1..(k + 1)
      <3>1. CASE i = k + 1
        <4>1. p + 1 \in 1..Len(m)
          BY <2>5, <2>10
        <4>2. m[p + 1].seq = n + new[i][1]
          BY <1>1, <1>4, <1>7, <2>9, <2>10, <3>1
        <4> QED
          BY <4>1, <4>2
      <3>2. CASE i \in 1..k
        <4>1. PICK j \in 1..Len(l) : l[j].seq = n + arr[i][1]
          BY <2>4, <3>2 DEF Stored, k
        <4>2. PICK q \in 1..Len(m) : m[q] = l[j]
          BY <2>11
        <4> QED
          BY <1>1, <3>2, <4>1, <4>2
      <3> QED
        BY <1>1, <3>1, <3>2
    <2>14. \A q \in 1..Len(m) : \E i \in 1..(k + 1) :
             m[q].seq = n + new[i][1] /\ m[q].nxt <= n + new[i][2]
      <3> TAKE q \in 1..Len(m)
      <3>1. CASE m[q] = e
        <4>1. k + 1 \in 1..(k + 1)
          BY <1>1
        <4>2. m[q].seq = n + new[k + 1][1] /\ m[q].nxt <= n + new[k + 1][2]
          BY <1>1, <1>4, <1>7, <2>9, <3>1
        <4> QED
          BY <4>1, <4>2
      <3>2. ASSUME NEW j \in 1..Len(l), m[q] = l[j]
            PROVE  \E i \in 1..(k + 1) :
                     m[q].seq = n + new[i][1] /\ m[q].nxt <= n + new[i][2]
        <4>1. PICK i \in 1..k : l[j].seq = n + arr[i][1] /\ l[j].nxt <= n + arr[i][2]
          BY <2>4 DEF Stored, k
        <4>2. i \in 1..(k + 1) /\ new[i] = arr[i]
          BY <1>1
        <4> QED
          BY <3>2, <4>1, <4>2
      <3> QED
        BY <2>12, <3>1, <3>2
    <2>15. Stored(n, m, new)
      BY <1>1, <2>13, <2>14 DEF Stored
    <2>16. m[1].seq = n + new[1][1]
      BY <1>1, <2>4, <2>10
    <2> QED
      BY <2>9, <2>15, <2>16 DEF m
  <1> QED
    BY <1>5, <1>6, <1>7 DEF OrderInv, r, s, new

\* What every reachable state satisfies
OInv ==
    /\ isn \in Word /\ arrived \in Seq(Span) /\ HasEnds(arrived)
    /\ OrderOK(order)
    /\ order.list = <<>> <=> arrived = <<>>
    /\ arrived # <<>> => OrderInv(isn, order, arrived)

\* The invariant holds initially.
LEMMA InitOInv == Init => OInv
  <1> SUFFICES ASSUME Init PROVE OInv
    OBVIOUS
  <1>1. /\ order = [list |-> <<>>, last |-> 0, num |-> 0] /\ arrived = <<>>
        /\ isn \in Word
    BY StreamAssumption DEF Init, EmptyOrder
  <1>2. OrderOK(order) /\ order.list = <<>>
    BY <1>1 DEF OrderOK, OrderIn
  <1>3. arrived \in Seq(Span) /\ Len(arrived) = 0
    BY <1>1
  <1>4. HasEnds(arrived)
    BY <1>3 DEF HasEnds
  <1> QED
    BY <1>1, <1>2, <1>3, <1>4 DEF OInv

\* An arrival keeps the invariant.
LEMMA NextOInv == OInv /\ [Next]_vars => OInv'
  <1> SUFFICES ASSUME OInv, [Next]_vars PROVE OInv'
    OBVIOUS
  <1>1. CASE UNCHANGED vars
    BY <1>1 DEF vars, OInv
  <1>2. ASSUME NEW a \in 0..StreamLength, NEW b \in 0..StreamLength, Arrive(a, b)
        PROVE  OInv'
    <2> DEFINE x == <<a, b>>
    <2>1. x \in Span
      BY <1>2 DEF Arrive, Span
    <2>2. /\ isn' = isn /\ arrived' = Append(arrived, x)
          /\ order' = TcpOrder(order, SegOf(isn, x))
      BY <1>2 DEF Arrive, Segment, SegOf
    <2> HIDE DEF x
    <2>3. /\ isn \in Word /\ arrived \in Seq(Span) /\ OrderOK(order)
          /\ order.list = <<>> <=> arrived = <<>>
          /\ HasEnds(arrived)
          /\ arrived # <<>> => OrderInv(isn, order, arrived)
      BY DEF OInv
    <2>4. SegOf(isn, x) \in Seg
      BY <2>1, <2>3, SegOfFacts
    <2>5. OrderOK(order') /\ order'.list # <<>>
      BY <2>2, <2>3, <2>4, OrderKept, Segments DEF OrderOK
    <2>6. arrived' \in Seq(Span) /\ arrived' # <<>>
      BY <2>1, <2>2, <2>3
    <2>7. CASE arrived = <<>>
      <3>1. arrived' = <<x>>
        BY <2>2, <2>7
      <3>2. HasEnds(arrived')
        BY <2>1, <3>1, EndFirst
      <3>3. OrderInv(isn, order', arrived')
        BY <2>1, <2>2, <2>3, <2>7, <3>1, FirstArrival
      <3> QED
        BY <2>2, <2>3, <2>5, <2>6, <3>2, <3>3 DEF OInv
    <2>8. CASE arrived # <<>>
      <3>1. HasEnds(arrived')
        BY <2>1, <2>2, <2>3, <2>8, EndAppend
      <3>2. OrderInv(isn, order', arrived')
        BY <2>1, <2>2, <2>3, <2>8, LaterArrival
      <3> QED
        BY <2>2, <2>3, <2>5, <2>6, <3>1, <3>2 DEF OInv
    <2> QED
      BY <2>7, <2>8
  <1> QED
    BY <1>1, <1>2 DEF Next

\* The invariant holds always.
LEMMA AlwaysOInv == Spec => []OInv
  BY InitOInv, NextOInv, PTL DEF Spec

\* The operators with a parameter are those of TcpOrder.
LEMMA SameNotions ==
    /\ \A i : EndBefore(i) = EndIn(arrived, i)
    /\ InOrder <=> InOrderIn(arrived)
    /\ NoEarlier <=> NoEarlierIn(arrived)
    /\ NoGap <=> NoGapIn(arrived)
    /\ FreshStarts <=> FreshIn(arrived)
  <1>1. \A i : EndBefore(i) = EndIn(arrived, i)
    BY DEF EndBefore, EndIn
  <1>2. NoEarlier <=> NoEarlierIn(arrived)
    BY DEF NoEarlier, NoEarlierIn
  <1> QED
    BY <1>1, <1>2 DEF InOrder, InOrderIn, NoGap, NoGapIn, FreshStarts, FreshIn

\* A stream that is shorter than a turn and does not wrap around
LEMMA WrapsNot == OInv => (~Wraps <=> NoWrap(isn))
  BY SpanFacts, WordFacts, SizePositive DEF OInv, Wraps, NoWrap, Size

\* tcp_order keeps its list a list of segments with 32-bit numbers, and last
\* within it, for every sequence of segments.
THEOREM OrderIsTyped == Spec => []TypeOK
  <1>1. OInv => TypeOK
    BY DEF OInv, OrderOK, OrderIn, TypeOK, Seg
  <1> QED
    BY <1>1, AlwaysOInv, PTL

\* A stream that arrives in order is stored in order and without a gap, across
\* the wrap-around of its sequence numbers, for every width of the numbers.
THEOREM InOrderIsKept == Spec => []InOrderSurvivesWrap
  <1>1. OInv => InOrderSurvivesWrap
    <2> SUFFICES ASSUME OInv, InOrder PROVE CoversStream
      BY DEF InOrderSurvivesWrap
    <2>1. /\ isn \in Word /\ arrived \in Seq(Span) /\ OrderOK(order)
          /\ (arrived # <<>> => AsArrived(isn, order.list, arrived))
          /\ order.list = <<>> <=> arrived = <<>>
      BY SameNotions DEF OInv, OrderInv
    <2>2. CASE arrived = <<>>
      BY <2>1, <2>2 DEF CoversStream, Contiguous
    <2>3. CASE arrived # <<>>
      <3> DEFINE l == order.list
                 k == Len(arrived)
      <3>1. /\ k \in Nat /\ k >= 1 /\ Len(l) = k
            /\ \A i \in 1..k : l[i] = SegOf(isn, arrived[i]) /\ arrived[i] \in Span
            /\ \A i \in 1..(k - 1) : arrived[i][2] = arrived[i + 1][1]
        BY <2>1, <2>3, SpanFacts DEF AsArrived
      <3> HIDE DEF l, k
      <3>2. \A i \in 1..k : /\ l[i].seq = Wrap(isn + arrived[i][1])
                            /\ l[i].nxt = Wrap(isn + arrived[i][2])
        BY <2>1, <3>1, SegOfFacts
      <3>3. Contiguous(l)
        <4> SUFFICES ASSUME NEW i \in 1..(k - 1) PROVE l[i].nxt = l[i + 1].seq
          BY <3>1 DEF Contiguous
        <4>1. i \in 1..k /\ i + 1 \in 1..k
          BY <3>1
        <4> QED
          BY <3>1, <3>2, <4>1
      <3>4. EndBefore(k + 1) = arrived[k][2]
        BY <2>1, <2>3, EndInOrder, SameNotions DEF k
      <3>5. l[1].seq = Wrap(isn + arrived[1][1]) /\ l[k].nxt = Wrap(isn + arrived[k][2])
        BY <3>1, <3>2
      <3> QED
        BY <3>1, <3>3, <3>4, <3>5 DEF CoversStream, l, k
    <2> QED
      BY <2>2, <2>3
  <1> QED
    BY <1>1, AlwaysOInv, PTL

\* Retransmissions in any cut leave a stream without gaps contiguous: nothing
\* is stored twice and nothing is lost, for a stream of any length that does not
\* wrap around.
THEOREM NothingIsStoredTwice == Spec => []RetransmissionsAreTrimmed
  <1>1. OInv => RetransmissionsAreTrimmed
    <2> SUFFICES ASSUME OInv, NoGap, ~Wraps PROVE CoversStream
      BY DEF RetransmissionsAreTrimmed
    <2>1. /\ isn \in Word /\ arrived \in Seq(Span) /\ OrderOK(order)
          /\ HasEnds(arrived)
          /\ order.list = <<>> <=> arrived = <<>>
      BY DEF OInv
    <2>2. CASE arrived = <<>>
      BY <2>1, <2>2 DEF CoversStream, Contiguous
    <2>3. CASE arrived # <<>>
      <3> DEFINE l == order.list
                 e == EndIn(arrived, Len(arrived) + 1)
      <3>1. Covers(l, isn + arrived[1][1], isn + e) /\ NoWrap(isn)
        BY <2>3, SameNotions, WrapsNot DEF OInv, OrderInv
      <3>2. l \in Seq(Seg) /\ Len(l) \in Nat /\ Len(l) >= 1
        BY <2>1, <3>1 DEF OrderOK, OrderIn, Covers
      <3>3. l[1].seq \in Word /\ l[Len(l)].nxt \in Word
        BY <3>2, SegFacts
      <3>4. l[1].seq = Wrap(isn + arrived[1][1]) /\ l[Len(l)].nxt = Wrap(isn + e)
        BY <3>1, <3>3, WrapIsWord DEF Covers
      <3>5. Contiguous(l)
        BY <3>1 DEF Covers, Contiguous
      <3> QED
        BY <3>4, <3>5, SameNotions DEF CoversStream
    <2> QED
      BY <2>2, <2>3
  <1> QED
    BY <1>1, AlwaysOInv, PTL

\* Segments that are reordered come out in order, each with its first byte at its
\* place, as long as none begins with a byte that is there or before the first
\* one.
THEOREM ReorderingIsUndone == Spec => []ReorderedIsSorted
  <1>1. OInv => ReorderedIsSorted
    <2> DEFINE l == order.list
    <2> SUFFICES ASSUME OInv, FreshStarts, NoEarlier, ~Wraps
                 PROVE  /\ Sorted(l)
                        /\ \A i \in DOMAIN arrived : \E j \in DOMAIN l :
                             l[j].seq = Wrap(isn + arrived[i][1])
                        /\ \A j \in DOMAIN l : l[j].seq < l[j].nxt
      BY DEF ReorderedIsSorted
    <2>1. /\ isn \in Word /\ arrived \in Seq(Span) /\ OrderOK(order)
          /\ order.list = <<>> <=> arrived = <<>>
      BY DEF OInv
    <2>2. CASE arrived = <<>>
      BY <2>1, <2>2 DEF Sorted
    <2>3. CASE arrived # <<>>
      <3>1. Ascending(l) /\ Stored(isn, l, arrived)
        BY <2>3, SameNotions, WrapsNot DEF OInv, OrderInv
      <3>2. l \in Seq(Seg) /\ DOMAIN l = 1..Len(l) /\ DOMAIN arrived = 1..Len(arrived)
        BY <2>1 DEF OrderOK, OrderIn
      <3> HIDE DEF l
      <3>3. Sorted(l) /\ \A j \in DOMAIN l : l[j].seq < l[j].nxt
        BY <3>1, <3>2 DEF Ascending, Sorted
      <3>4. ASSUME NEW i \in DOMAIN arrived
            PROVE  \E j \in DOMAIN l : l[j].seq = Wrap(isn + arrived[i][1])
        <4>1. PICK j \in 1..Len(l) : l[j].seq = isn + arrived[i][1]
          BY <3>1, <3>2 DEF Stored
        <4>2. l[j].seq \in Word
          BY <3>2, SegFacts
        <4> QED
          BY <3>2, <4>1, <4>2, WrapIsWord
      <3> QED
        BY <3>3, <3>4
    <2> QED
      BY <2>2, <2>3
  <1> QED
    BY <1>1, AlwaysOInv, PTL
=============================================================================
