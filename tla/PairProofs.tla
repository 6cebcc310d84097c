----------------------------- MODULE PairProofs -----------------------------
(***************************************************************************)
(* What is told of the requests and responses of a flow, for any number of *)
(* requests and ticks, whatever is missed, and sequence numbers of any     *)
(* width.                                                                  *)
(***************************************************************************)
EXTENDS PairExtraction, SeqListProofs

-----------------------------------------------------------------------------
(***************************************************************************)
(* The lists of segments                                                   *)
(***************************************************************************)
Segment ==
    [seq : Word, nxt : Word, ack : Word, type : {"REQ", "RSP", "none"},
     id : Nat, fin : BOOLEAN, time : Nat, processed : BOOLEAN]

\* SeqListProofs applies to these segments.
LEMMA Segments == SegmentSet(Segment)
  BY DEF SegmentSet, Segment

\* Fields that tcp_order does not change
Kept == {"ack", "type", "id", "fin", "time", "processed"}

\* A segment has these fields.
LEMMA SegmentFields ==
    ASSUME NEW s \in Segment
    PROVE  /\ DOMAIN s \ {"seq", "nxt"} = Kept
           /\ s.seq \in Word /\ s.nxt \in Word /\ s.ack \in Word
           /\ s.type \in {"REQ", "RSP", "none"} /\ s.id \in Nat /\ s.time \in Nat
           /\ s.fin \in BOOLEAN /\ s.processed \in BOOLEAN
  BY DEF Segment, Kept

\* The same but for the numbers
Like(e, s) == /\ e.ack = s.ack /\ e.type = s.type /\ e.id = s.id /\ e.fin = s.fin
              /\ e.time = s.time /\ e.processed = s.processed

\* tcp_order stores one segment with the fields of the new one, or nothing, and
\* keeps what it relies on.
LEMMA StoredLike ==
    ASSUME NEW o, OrderIn(o, Segment), NEW s \in Segment
    PROVE  /\ OrderIn(TcpOrder(o, s), Segment)
           /\ \/ TcpOrder(o, s).list = o.list
              \/ \E p \in 0..Len(o.list), e \in Segment :
                   Inserted(TcpOrder(o, s).list, o.list, p, e) /\ Like(e, s)
  <1>1. OrderIn(TcpOrder(o, s), Segment)
    BY OrderKept, Segments
  <1>2. \/ TcpOrder(o, s).list = o.list
        \/ \E p \in 0..Len(o.list), e \in Segment :
             /\ Inserted(TcpOrder(o, s).list, o.list, p, e)
             /\ \A f \in DOMAIN s \ {"seq", "nxt"} : e[f] = s[f]
    BY ListCases, Segments
  <1>3. DOMAIN s \ {"seq", "nxt"} = Kept
    BY SegmentFields
  <1>4. ASSUME NEW e \in Segment, \A f \in Kept : e[f] = s[f] PROVE Like(e, s)
    BY <1>4 DEF Kept, Like
  <1> QED
    BY <1>1, <1>2, <1>3, <1>4

\* Where a segment of the longer list came from
Back(p, q) == IF q <= p THEN q ELSE q - 1

\* Apart from e, which is behind p, the segments of m are those of l.
Grown(m, l, p, e) ==
    /\ \A q \in 1..Len(m) : q # p + 1 => /\ Back(p, q) \in 1..Len(l)
                                         /\ m[q] = l[Back(p, q)]
    /\ \A q, r \in 1..Len(m) :
         q # p + 1 /\ r # p + 1 /\ Back(p, q) = Back(p, r) => q = r
    /\ \A j \in 1..Len(l) : \E q \in 1..Len(m) : m[q] = l[j]
    /\ p + 1 \in 1..Len(m) /\ m[p + 1] = e

\* So it is after an insertion.
LEMMA BackFacts ==
    ASSUME NEW l, NEW m, NEW e, Len(l) \in Nat, NEW p \in 0..Len(l),
           Inserted(m, l, p, e)
    PROVE  Grown(m, l, p, e)
  <1>1. /\ Len(m) = Len(l) + 1 /\ m[p + 1] = e
        /\ \A i \in 1..p : m[i] = l[i]
        /\ \A i \in (p + 2)..(Len(l) + 1) : m[i] = l[i - 1]
    BY DEF Inserted
  <1>2. ASSUME NEW q \in 1..Len(m), q # p + 1
        PROVE  Back(p, q) \in 1..Len(l) /\ m[q] = l[Back(p, q)]
    <2>1. CASE q <= p
      BY <1>1, <2>1 DEF Back
    <2>2. CASE q > p
      <3>1. q \in (p + 2)..(Len(l) + 1) /\ ~(q <= p) /\ q - 1 \in 1..Len(l)
        BY <1>1, <1>2, <2>2
      <3> QED
        BY <1>1, <3>1 DEF Back
    <2> QED
      BY <1>1, <2>1, <2>2
  <1>3. ASSUME NEW q \in 1..Len(m), NEW r \in 1..Len(m), q # p + 1, r # p + 1,
               Back(p, q) = Back(p, r)
        PROVE  q = r
    BY <1>1, <1>3 DEF Back
  <1>4. ASSUME NEW j \in 1..Len(l) PROVE \E q \in 1..Len(m) : m[q] = l[j]
    <2>1. CASE j <= p
      <3>1. j \in 1..Len(m) /\ j \in 1..p
        BY <1>1, <2>1
      <3> QED
        BY <1>1, <3>1
    <2>2. CASE j > p
      <3>1. j + 1 \in 1..Len(m) /\ j + 1 \in (p + 2)..(Len(l) + 1) /\ (j + 1) - 1 = j
        BY <1>1, <2>2
      <3>2. m[j + 1] = l[j]
        BY <1>1, <3>1
      <3> QED
        BY <3>1, <3>2
    <2> QED
      BY <2>1, <2>2
  <1>5. p + 1 \in 1..Len(m)
    BY <1>1
  <1> QED
    BY <1>1, <1>2, <1>3, <1>4, <1>5 DEF Grown

\* The list has at most one segment of each of the captured messages of the
\* type, and no others but those without a message; all are older than t.
ListOf(l, type, n, caught, t) ==
    /\ \A i \in 1..Len(l) : /\ l[i].type \in {type, "none"} /\ l[i].time < t
                            /\ l[i].type = type => /\ l[i].id \in 1..n
                                                   /\ <<type, l[i].id>> \in caught
    /\ \A i, j \in 1..Len(l) :
         l[i].type = type /\ l[j].type = type /\ l[i].id = l[j].id => i = j

\* An inserted segment keeps the list so, if it is without a message or has the
\* next one.
LEMMA ListOfInserted ==
    ASSUME NEW l \in Seq(Segment), NEW m, NEW e \in Segment, NEW p \in 0..Len(l),
           Inserted(m, l, p, e),
           NEW type \in {"REQ", "RSP"}, NEW n \in Nat, NEW k \in Nat, n <= k,
           NEW caught, NEW more, caught \subseteq more, NEW t \in Nat,
           ListOf(l, type, n, caught, t), e.time = t,
           \/ e.type = "none"
           \/ e.type = type /\ e.id = n + 1 /\ n + 1 <= k /\ <<type, n + 1>> \in more
    PROVE  ListOf(m, type, k, more, t + 1)
  <1>1. Len(l) \in Nat /\ \A i \in 1..Len(l) : l[i].time \in Nat /\ l[i].id \in Nat
    <2>1. Len(l) \in Nat /\ \A i \in 1..Len(l) : l[i] \in Segment
      OBVIOUS
    <2> QED
      BY <2>1, SegmentFields
  <1>2. /\ \A q \in 1..Len(m) : q # p + 1 => /\ Back(p, q) \in 1..Len(l)
                                             /\ m[q] = l[Back(p, q)]
        /\ \A q, r \in 1..Len(m) :
             q # p + 1 /\ r # p + 1 /\ Back(p, q) = Back(p, r) => q = r
        /\ m[p + 1] = e
    <2>1. Grown(m, l, p, e)
      BY <1>1, BackFacts, Zenon
    <2> QED
      BY <2>1 DEF Grown
  <1>3. /\ \A i \in 1..Len(l) : /\ l[i].type \in {type, "none"} /\ l[i].time < t
                                /\ l[i].type = type => /\ l[i].id \in 1..n
                                                       /\ <<type, l[i].id>> \in caught
        /\ \A i, j \in 1..Len(l) :
             l[i].type = type /\ l[j].type = type /\ l[i].id = l[j].id => i = j
    BY DEF ListOf
  <1>4. ASSUME NEW q \in 1..Len(m)
        PROVE  /\ m[q].type \in {type, "none"} /\ m[q].time < t + 1
               /\ m[q].type = type => /\ m[q].id \in 1..k
                                      /\ <<type, m[q].id>> \in more
    <2>1. CASE q = p + 1
      BY <1>2, <2>1
    <2>2. CASE q # p + 1
      <3>1. PICK i \in 1..Len(l) : m[q] = l[i]
        BY <1>2, <2>2
      <3> QED
        BY <1>1, <1>3, <3>1
    <2> QED
      BY <2>1, <2>2
  <1>5. ASSUME NEW q \in 1..Len(m), NEW r \in 1..Len(m),
               m[q].type = type, m[r].type = type, m[q].id = m[r].id
        PROVE  q = r
    <2>1. CASE q = p + 1 /\ r = p + 1
      BY <2>1
    <2>2. CASE q = p + 1 /\ r # p + 1
      <3>1. PICK i \in 1..Len(l) : m[r] = l[i]
        BY <1>2, <2>2
      <3>2. l[i].id \in 1..n /\ l[i].id = n + 1
        BY <1>2, <1>3, <1>5, <2>2, <3>1
      <3> QED
        BY <3>2
    <2>3. CASE q # p + 1 /\ r = p + 1
      <3>1. PICK i \in 1..Len(l) : m[q] = l[i]
        BY <1>2, <2>3
      <3>2. l[i].id \in 1..n /\ l[i].id = n + 1
        BY <1>2, <1>3, <1>5, <2>3, <3>1
      <3> QED
        BY <3>2
    <2>4. CASE q # p + 1 /\ r # p + 1
      BY <1>2, <1>3, <1>5, <2>4, ZenonT(30)
    <2> QED
      BY <2>1, <2>2, <2>3, <2>4
  <1> QED
    BY <1>4, <1>5 DEF ListOf

-----------------------------------------------------------------------------
(***************************************************************************)
(* The loops of extractPair                                                *)
(***************************************************************************)
Pair == [id : Request, nxt : Word, reqDone : BOOLEAN,
         rsp : Request \cup {None}, rspDone : BOOLEAN]

Event == [ev : {"REQ", "RSP"}, req : Request, rsp : Request \cup {None}]

\* The types of the variables, and what the lists hold
Typed ==
    /\ OrderIn(src, Segment) /\ OrderIn(dst, Segment)
    /\ pairs \in Seq(Pair) /\ told \in Seq(Event)
    /\ phase \in {"table", "queued", "done", "dropped"}
    /\ sent \in 0..MaxRequests /\ answered \in 0..sent
    /\ cseq \in Nat /\ cseq - sent \in Word /\ sseq \in Nat
    /\ clock \in Nat /\ pipelined \in BOOLEAN
    /\ captured \subseteq {"REQ", "RSP"} \X Request
    /\ \A k : <<"REQ", k>> \in captured => k <= sent
    /\ ListOf(src.list, "REQ", sent, captured, clock)
    /\ ListOf(dst.list, "RSP", answered, captured, clock)

\* The messages of the lists are those of the connection.
LEMMA TypedLists ==
    ASSUME Typed
    PROVE  /\ src.list \in Seq(Segment) /\ Len(src.list) \in Nat
           /\ dst.list \in Seq(Segment) /\ Len(dst.list) \in Nat
           /\ \A i \in 1..Len(src.list) : src.list[i] \in Segment
           /\ \A i \in 1..Len(dst.list) : dst.list[i] \in Segment
           /\ \A i \in 1..Len(src.list) :
                src.list[i].type = "REQ" => src.list[i].id \in Request
           /\ \A i \in 1..Len(dst.list) :
                dst.list[i].type = "RSP" => dst.list[i].id \in Request
           /\ DOMAIN src.list = 1..Len(src.list) /\ DOMAIN dst.list = 1..Len(dst.list)
  <1>1. /\ src.list \in Seq(Segment) /\ dst.list \in Seq(Segment)
        /\ sent \in 0..MaxRequests /\ answered \in 0..sent
    BY DEF Typed, OrderIn
  <1>2. 1..sent \subseteq Request /\ 1..answered \subseteq Request
    BY <1>1, PairAssumption DEF Request
  <1>3. /\ \A i \in 1..Len(src.list) :
             src.list[i].type = "REQ" => src.list[i].id \in 1..sent
        /\ \A i \in 1..Len(dst.list) :
             dst.list[i].type = "RSP" => dst.list[i].id \in 1..answered
    BY DEF Typed, ListOf
  <1> QED
    BY <1>1, <1>2, <1>3

\* What the first loop has made of the chain after n segments: a pair behind
\* the old ones for each request to parse, in the order of the segments.
RequestsUpTo(ps, n) ==
    /\ Len(ps) >= Len(pairs)
    /\ \A j \in 1..Len(pairs) : ps[j] = pairs[j]
    /\ \A j \in (Len(pairs) + 1)..Len(ps) : \E m \in Fresh(src.list, "REQ") :
         m <= n /\ ps[j] = NewPair(src.list[m])
    /\ \A i, j \in (Len(pairs) + 1)..Len(ps) : ps[i].id = ps[j].id => i = j
    /\ \A i, j \in (Len(pairs) + 1)..Len(ps) : i < j =>
         \E m, o \in Fresh(src.list, "REQ") : /\ m < o /\ ps[i] = NewPair(src.list[m])
                                              /\ ps[j] = NewPair(src.list[o])
    /\ \A m \in Fresh(src.list, "REQ") : m <= n =>
         \E j \in (Len(pairs) + 1)..Len(ps) : ps[j] = NewPair(src.list[m])

\* The segments to parse have messages of the type, each another one.
LEMMA FreshFacts ==
    ASSUME Typed
    PROVE  /\ \A m \in Fresh(src.list, "REQ") :
                /\ m \in 1..Len(src.list) /\ ~src.list[m].processed
                /\ src.list[m].type = "REQ" /\ src.list[m].id \in Request
           /\ \A m, n \in Fresh(src.list, "REQ") :
                src.list[m].id = src.list[n].id => m = n
           /\ \A m \in Fresh(dst.list, "RSP") :
                /\ m \in 1..Len(dst.list) /\ ~dst.list[m].processed
                /\ dst.list[m].type = "RSP" /\ dst.list[m].id \in Request
           /\ \A m, n \in Fresh(dst.list, "RSP") :
                dst.list[m].id = dst.list[n].id => m = n
  <1>1. /\ \A m \in Fresh(src.list, "REQ") :
             /\ m \in 1..Len(src.list) /\ ~src.list[m].processed
             /\ src.list[m].type = "REQ"
        /\ \A m \in Fresh(dst.list, "RSP") :
             /\ m \in 1..Len(dst.list) /\ ~dst.list[m].processed
             /\ dst.list[m].type = "RSP"
    BY TypedLists DEF Fresh
  <1>2. /\ \A i, j \in 1..Len(src.list) :
             src.list[i].type = "REQ" /\ src.list[j].type = "REQ"
             /\ src.list[i].id = src.list[j].id => i = j
        /\ \A i, j \in 1..Len(dst.list) :
             dst.list[i].type = "RSP" /\ dst.list[j].type = "RSP"
             /\ dst.list[i].id = dst.list[j].id => i = j
    BY DEF Typed, ListOf
  <1> QED
    BY <1>1, <1>2, TypedLists

\* A new pair is a pair.
LEMMA NewPairType ==
    ASSUME NEW s \in Segment, s.id \in Request
    PROVE  NewPair(s) \in Pair /\ NewPair(s).id = s.id
  BY SegmentFields DEF NewPair, Pair

\* One step of the first loop.
LEMMA RequestsStep ==
    ASSUME Typed, NEW ps \in Seq(Pair), NEW i \in 1..Len(src.list),
           RequestsUpTo(ps, i - 1)
    PROVE  PairRequest(ps, i) \in Seq(Pair) /\ RequestsUpTo(PairRequest(ps, i), i)
  <1> DEFINE l == src.list
             F == Fresh(l, "REQ")
             b == Len(pairs)
  <1>1. /\ Len(ps) \in Nat /\ b \in Nat /\ Len(ps) >= b /\ Len(l) \in Nat
        /\ \A j \in 1..b : ps[j] = pairs[j]
        /\ \A j \in (b + 1)..Len(ps) : \E m \in F : m <= i - 1 /\ ps[j] = NewPair(l[m])
        /\ \A k, j \in (b + 1)..Len(ps) : ps[k].id = ps[j].id => k = j
        /\ \A k, j \in (b + 1)..Len(ps) : k < j =>
             \E m, o \in F : m < o /\ ps[k] = NewPair(l[m]) /\ ps[j] = NewPair(l[o])
        /\ \A m \in F : m <= i - 1 => \E j \in (b + 1)..Len(ps) : ps[j] = NewPair(l[m])
    BY TypedLists DEF RequestsUpTo, Typed
  <1>2. /\ \A m \in F : m \in Nat /\ l[m] \in Segment /\ l[m].id \in Request
        /\ \A m, n \in F : l[m].id = l[n].id => m = n
    BY FreshFacts, TypedLists
  <1>3. CASE i \notin F
    <2>1. PairRequest(ps, i) = ps
      BY <1>3 DEF PairRequest
    <2>2. \A m \in F : m <= i => m <= i - 1
      BY <1>2, <1>3
    <2>3. \A m \in F : m <= i - 1 => m <= i
      BY <1>2
    <2> QED
      BY <1>1, <2>1, <2>2, <2>3 DEF RequestsUpTo
  <1>4. CASE i \in F
    <2> DEFINE e == NewPair(l[i])
               r == Append(ps, e)
    <2>1. PairRequest(ps, i) = r
      BY <1>4 DEF PairRequest
    <2>2. e \in Pair /\ e.id = l[i].id
      BY <1>2, <1>4, NewPairType
    <2> HIDE DEF e
    <2>3. /\ r \in Seq(Pair) /\ Len(r) = Len(ps) + 1 /\ r[Len(ps) + 1] = e
          /\ \A j \in 1..Len(ps) : r[j] = ps[j]
      BY <1>1, <2>2
    <2> HIDE DEF r
    <2>4. Len(r) >= b /\ \A j \in 1..b : r[j] = pairs[j]
      BY <1>1, <2>3
    <2>5. \A j \in (b + 1)..Len(r) : j = Len(ps) + 1 \/ (j \in (b + 1)..Len(ps) /\ r[j] = ps[j])
      BY <1>1, <2>3
    <2>6. \A j \in (b + 1)..Len(ps) : j \in (b + 1)..Len(r) /\ r[j] = ps[j]
      BY <1>1, <2>3
    <2>7. Len(ps) + 1 \in (b + 1)..Len(r) /\ i <= i
      BY <1>1, <2>3
    <2>8. ASSUME NEW j \in (b + 1)..Len(r) PROVE \E m \in F : m <= i /\ r[j] = NewPair(l[m])
      <3>1. CASE j = Len(ps) + 1
        BY <1>4, <2>3, <2>7, <3>1 DEF e
      <3>2. CASE j \in (b + 1)..Len(ps) /\ r[j] = ps[j]
        <4>1. PICK m \in F : m <= i - 1 /\ ps[j] = NewPair(l[m])
          BY <1>1, <3>2
        <4>2. m <= i
          BY <1>2, <4>1
        <4> QED
          BY <3>2, <4>1, <4>2
      <3> QED
        BY <2>5, <3>1, <3>2
    <2>9. ASSUME NEW j \in (b + 1)..Len(ps) PROVE ps[j].id # e.id
      <3>1. PICK m \in F : m <= i - 1 /\ ps[j] = NewPair(l[m])
        BY <1>1
      <3>2. ps[j].id = l[m].id
        BY <1>2, <3>1, NewPairType
      <3>3. m # i
        BY <1>2, <3>1
      <3> QED
        BY <1>2, <1>4, <2>2, <3>2, <3>3
    <2>10. \A k, j \in (b + 1)..Len(r) : r[k].id = r[j].id => k = j
      <3> TAKE k, j \in (b + 1)..Len(r)
      <3> HAVE r[k].id = r[j].id
      <3>1. CASE k \in (b + 1)..Len(ps) /\ j \in (b + 1)..Len(ps)
        BY <1>1, <2>6, <3>1
      <3>2. CASE k = Len(ps) + 1 /\ j \in (b + 1)..Len(ps)
        BY <2>3, <2>6, <2>9, <3>2
      <3>3. CASE k \in (b + 1)..Len(ps) /\ j = Len(ps) + 1
        BY <2>3, <2>6, <2>9, <3>3
      <3> QED
        BY <2>5, <3>1, <3>2, <3>3
    <2>12. \A k, j \in (b + 1)..Len(r) : k < j =>
             \E m, o \in F : m < o /\ r[k] = NewPair(l[m]) /\ r[j] = NewPair(l[o])
      <3> TAKE k, j \in (b + 1)..Len(r)
      <3> HAVE k < j
      <3>1. k \in (b + 1)..Len(ps)
        BY <1>1, <2>3
      <3>2. CASE j \in (b + 1)..Len(ps)
        BY <1>1, <2>6, <3>1, <3>2
      <3>3. CASE j = Len(ps) + 1
        <4>1. PICK m \in F : m <= i - 1 /\ ps[k] = NewPair(l[m])
          BY <1>1, <3>1
        <4>2. m < i
          BY <1>2, <4>1
        <4>3. r[k] = NewPair(l[m]) /\ r[j] = NewPair(l[i])
          BY <2>3, <2>6, <3>1, <3>3, <4>1 DEF e
        <4> QED
          BY <1>4, <4>2, <4>3
      <3> QED
        BY <2>5, <3>2, <3>3
    <2>11. ASSUME NEW m \in F, m <= i
           PROVE  \E j \in (b + 1)..Len(r) : r[j] = NewPair(l[m])
      <3>1. CASE m = i
        BY <2>3, <2>7, <3>1 DEF e
      <3>2. CASE m # i
        <4>1. m <= i - 1
          BY <1>2, <2>11, <3>2
        <4> QED
          BY <1>1, <2>6, <4>1
      <3> QED
        BY <3>1, <3>2
    <2> QED
      BY <2>1, <2>3, <2>4, <2>8, <2>10, <2>11, <2>12, SMTT(30) DEF RequestsUpTo
  <1> QED
    BY <1>3, <1>4

\* The first loop makes a pair of each request that is to be parsed.
LEMMA RequestsPaired ==
    ASSUME Typed
    PROVE  WithRequests \in Seq(Pair) /\ RequestsUpTo(WithRequests, Len(src.list))
  <1> DEFINE n == Len(src.list)
             A == Seq(Pair)
             F == CHOOSE f : f = [i \in 0..n |-> IF i = 0 THEN pairs
                                                 ELSE PairRequest(f[i - 1], i)]
             g == [x \in A \X (1..n) |-> PairRequest(x[1], x[2])]
  <1>1. n \in Nat /\ pairs \in A
    BY TypedLists DEF Typed
  <1>2. WithRequests = F[n]
    BY DEF WithRequests, Loop
  <1>3. \A ps \in A, i \in 1..n : PairRequest(ps, i) \in A
    <2> TAKE ps \in A, i \in 1..n
    <2>1. i \in Fresh(src.list, "REQ") => NewPair(src.list[i]) \in Pair
      BY FreshFacts, TypedLists, NewPairType
    <2> QED
      BY <2>1 DEF PairRequest
  <1>4. g \in [A \X (1..n) -> A]
    BY <1>3
  <1> HIDE DEF A, n
  <1> HIDE DEF g
  <1>50. PICK h : IsRun(h, n, A, pairs, g)
    BY <1>1, <1>4, RunExists, Zenon
  <1>5. /\ h \in [0..n -> A] /\ h[0] = pairs
        /\ \A i \in 1..n : h[i] = g[<<h[i - 1], i>>]
    BY <1>50 DEF IsRun
  <1>6. \A i \in 1..n : h[i] = PairRequest(h[i - 1], i)
    <2> TAKE i \in 1..n
    <2>1. i - 1 \in 0..n
      BY <1>1
    <2>2. <<h[i - 1], i>> \in A \X (1..n)
      BY <1>5, <2>1
    <2> QED
      BY <1>5, <2>2 DEF g
  <1>7. h = [i \in 0..n |-> IF i = 0 THEN pairs ELSE PairRequest(h[i - 1], i)]
    <2>1. \A i \in 0..n : h[i] = IF i = 0 THEN pairs ELSE PairRequest(h[i - 1], i)
      BY <1>1, <1>5, <1>6
    <2> QED
      BY <1>5, <2>1
  <1>8. F = [i \in 0..n |-> IF i = 0 THEN pairs ELSE PairRequest(F[i - 1], i)]
    BY <1>7
  <1> HIDE DEF F
  <1> DEFINE T == {i \in 0..n : F[i] \in A /\ RequestsUpTo(F[i], i)}
  <1>9. 0 \in T
    <2>1. 0 \in 0..n /\ F[0] = pairs
      BY <1>1, <1>8
    <2>2. (Len(pairs) + 1)..Len(pairs) = {} /\ Len(pairs) >= Len(pairs)
      BY <1>1 DEF A
    <2>3. \A m \in Fresh(src.list, "REQ") : ~(m <= 0)
      BY FreshFacts
    <2> QED
      BY <1>1, <2>1, <2>2, <2>3 DEF RequestsUpTo
  <1>10. ASSUME NEW i \in 1..n, i - 1 \in T PROVE i \in T
    <2>1. i \in 0..n /\ i # 0 /\ F[i] = PairRequest(F[i - 1], i)
      BY <1>1, <1>8
    <2>2. F[i - 1] \in A /\ RequestsUpTo(F[i - 1], i - 1)
      BY <1>10
    <2>3. PairRequest(F[i - 1], i) \in A /\ RequestsUpTo(PairRequest(F[i - 1], i), i)
      BY <2>2, RequestsStep DEF A, n
    <2> QED
      BY <2>1, <2>3
  <1>11. n \in T
    <2> HIDE DEF T
    <2> QED
      BY <1>1, <1>9, <1>10, IndexInduction
  <1> QED
    BY <1>2, <1>11 DEF A, n

\* The search for a pair stops at one that fits or whose number is larger, or
\* behind the chain.
LEMMA AdvanceFacts ==
    ASSUME NEW ps \in Seq(Pair), NEW tmp \in 1..Len(ps), NEW ack \in Word
    PROVE  LET at == Advance(ps, tmp, ack) IN
           /\ at \in tmp..(Len(ps) + 1)
           /\ at = Len(ps) + 1 \/ ps[at].nxt > ack \/ Fits(ps[at], ack)
           /\ \A k \in tmp..(at - 1) : ps[k].nxt <= ack /\ ~Fits(ps[k], ack)
  <1> DEFINE n == Len(ps)
             T == {j \in tmp..(n + 1) : j = n + 1 \/ ps[j].nxt > ack \/ Fits(ps[j], ack)}
             Stop(j) == /\ j = n + 1 \/ ps[j].nxt > ack \/ Fits(ps[j], ack)
                        /\ \A k \in tmp..(j - 1) : ps[k].nxt <= ack /\ ~Fits(ps[k], ack)
  <1>1. n \in Nat /\ tmp \in Nat /\ ack \in Nat
    BY WordFacts
  <1>2. \A k \in 1..n : ps[k].nxt \in Nat
    <2>1. \A k \in 1..n : ps[k] \in Pair
      OBVIOUS
    <2>2. \A p \in Pair : p.nxt \in Word
      BY DEF Pair
    <2> QED
      BY <2>1, <2>2, WordFacts
  <1>3. T \in SUBSET Nat /\ n + 1 \in T
    BY <1>1
  <1>4. PICK j \in T : \A k \in T : j <= k
    BY <1>3, LeastNumber
  <1>5. Stop(j)
    <2>1. ASSUME NEW k \in tmp..(j - 1) PROVE ps[k].nxt <= ack /\ ~Fits(ps[k], ack)
      <3>1. k \in tmp..(n + 1) /\ ~(j <= k) /\ k \in 1..n
        BY <1>1, <1>4
      <3>2. ~(ps[k].nxt > ack) /\ ~Fits(ps[k], ack)
        BY <1>4, <3>1
      <3> QED
        BY <1>1, <1>2, <3>1, <3>2
    <2> QED
      BY <1>4, <2>1
  <1>6. j \in tmp..(n + 1)
    BY <1>4
  <1>7. Advance(ps, tmp, ack) = CHOOSE k \in tmp..(n + 1) : Stop(k)
    BY DEF Advance
  <1> HIDE DEF Stop
  <1>8. Advance(ps, tmp, ack) \in tmp..(n + 1) /\ Stop(Advance(ps, tmp, ack))
    BY <1>5, <1>6, <1>7
  <1> QED
    BY <1>8 DEF Stop

\* p is q with the response s, which acknowledges the request of q.
Answers(p, q, s) == q.rsp = None /\ q.nxt = s.ack /\ p = [q EXCEPT !.rsp = s.id]

\* What the second loop has made of the chain base after n segments.
ResponsesUpTo(w, base, n) ==
    /\ Len(w.pairs) = Len(base)
    /\ \A m \in w.parsed : m \in Fresh(dst.list, "RSP") /\ m <= n
    /\ \A j \in 1..Len(base) : \/ w.pairs[j] = base[j]
                               \/ \E m \in w.parsed :
                                    Answers(w.pairs[j], base[j], dst.list[m])
    /\ \A i, j \in 1..Len(base) :
         w.pairs[i] # base[i] /\ w.pairs[j] # base[j]
         /\ w.pairs[i].rsp = w.pairs[j].rsp => i = j

Matching == [pairs : Seq(Pair), tmp : Nat \ {0}, parsed : SUBSET Nat]

\* One step of the second loop keeps the types.
LEMMA ResponseType ==
    ASSUME Typed, NEW w \in Matching, NEW i \in 1..Len(dst.list)
    PROVE  /\ PairResponse(w, i) \in Matching
           /\ \/ PairResponse(w, i) = w
              \/ /\ i \in Fresh(dst.list, "RSP")
                 /\ PairResponse(w, i).parsed = w.parsed \cup {i}
                 /\ \/ PairResponse(w, i).pairs = w.pairs
                    \/ \E at \in 1..Len(w.pairs) :
                         /\ Fits(w.pairs[at], dst.list[i].ack)
                         /\ PairResponse(w, i).pairs
                              = [w.pairs EXCEPT ![at].rsp = dst.list[i].id]
  <1> DEFINE s  == dst.list[i]
             at == Advance(w.pairs, w.tmp, s.ack)
             r  == PairResponse(w, i)
  <1>1. /\ w.pairs \in Seq(Pair) /\ w.tmp \in Nat \ {0} /\ w.parsed \in SUBSET Nat
        /\ Len(w.pairs) \in Nat
    BY DEF Matching
  <1>2. CASE i \notin Fresh(dst.list, "RSP") \/ w.tmp > Len(w.pairs)
    BY <1>2 DEF PairResponse
  <1>3. CASE i \in Fresh(dst.list, "RSP") /\ ~(w.tmp > Len(w.pairs))
    <2> DEFINE ps == IF at <= Len(w.pairs) /\ Fits(w.pairs[at], s.ack)
                     THEN [w.pairs EXCEPT ![at].rsp = s.id] ELSE w.pairs
    <2>1. r = [pairs |-> ps, tmp |-> at, parsed |-> w.parsed \cup {i}]
      BY <1>3 DEF PairResponse
    <2>2. s \in Segment /\ s.id \in Request /\ s.ack \in Word
      BY <1>3, TypedLists, FreshFacts, SegmentFields
    <2>3. w.tmp \in 1..Len(w.pairs)
      BY <1>1, <1>3
    <2>4. at \in w.tmp..(Len(w.pairs) + 1)
      BY <1>1, <2>2, <2>3, AdvanceFacts
    <2>5. at \in Nat \ {0}
      BY <1>1, <2>4
    <2> HIDE DEF at, s
    <2>6. CASE at <= Len(w.pairs) /\ Fits(w.pairs[at], s.ack)
      <3>1. at \in 1..Len(w.pairs)
        BY <1>1, <2>5, <2>6
      <3>2. w.pairs[at] \in Pair
        BY <1>1, <3>1
      <3>3. [w.pairs[at] EXCEPT !.rsp = s.id] \in Pair
        BY <2>2, <3>2 DEF Pair
      <3>4. ps = [w.pairs EXCEPT ![at].rsp = s.id]
        BY <2>6
      <3>5. ps = [w.pairs EXCEPT ![at] = [w.pairs[at] EXCEPT !.rsp = s.id]]
        BY <1>1, <3>1, <3>4
      <3> HIDE DEF ps
      <3>6. ps \in Seq(Pair)
        BY <1>1, <3>1, <3>3, <3>5
      <3>7. r \in Matching
        BY <1>1, <2>1, <2>5, <3>6 DEF Matching
      <3>8. r.parsed = w.parsed \cup {i} /\ r.pairs = ps
        BY <2>1
      <3> HIDE DEF r
      <3>9. \E k \in 1..Len(w.pairs) :
              /\ Fits(w.pairs[k], s.ack)
              /\ r.pairs = [w.pairs EXCEPT ![k].rsp = s.id]
        BY <2>6, <3>1, <3>4, <3>8
      <3> QED
        BY <1>3, <3>7, <3>8, <3>9 DEF s, r
    <2>7. CASE ~(at <= Len(w.pairs) /\ Fits(w.pairs[at], s.ack))
      <3>1. ps = w.pairs
        BY <2>7
      <3> HIDE DEF ps
      <3>2. r \in Matching
        BY <1>1, <2>1, <2>5, <3>1 DEF Matching
      <3> QED
        BY <1>3, <2>1, <3>1, <3>2
    <2> QED
      BY <2>6, <2>7
  <1> QED
    BY <1>2, <1>3

\* One step of the second loop.
LEMMA ResponsesStep ==
    ASSUME Typed, NEW base \in Seq(Pair), NEW w \in Matching,
           NEW i \in 1..Len(dst.list), ResponsesUpTo(w, base, i - 1)
    PROVE  ResponsesUpTo(PairResponse(w, i), base, i)
  <1> DEFINE l == dst.list
             F == Fresh(l, "RSP")
             r == PairResponse(w, i)
             n == Len(base)
  <1>1. /\ Len(w.pairs) = n /\ w.pairs \in Seq(Pair) /\ n \in Nat
        /\ \A m \in w.parsed : m \in F /\ m <= i - 1
        /\ \A j \in 1..n : \/ w.pairs[j] = base[j]
                           \/ \E m \in w.parsed : Answers(w.pairs[j], base[j], l[m])
        /\ \A k, j \in 1..n : w.pairs[k] # base[k] /\ w.pairs[j] # base[j]
                              /\ w.pairs[k].rsp = w.pairs[j].rsp => k = j
    BY DEF ResponsesUpTo, Matching
  <1>2. /\ \A m \in F : m \in Nat /\ l[m] \in Segment /\ l[m].id \in Request
        /\ \A m, k \in F : l[m].id = l[k].id => m = k
    BY FreshFacts, TypedLists
  <1>3. \A m \in w.parsed : m \in F /\ m <= i /\ m # i
    BY <1>1, <1>2
  <1>4. CASE r = w
    BY <1>1, <1>3, <1>4 DEF ResponsesUpTo
  <1>5. ASSUME i \in F, r.parsed = w.parsed \cup {i}, r.pairs = w.pairs
        PROVE  ResponsesUpTo(r, base, i)
    <2>1. \A m \in r.parsed : m \in F /\ m <= i
      BY <1>2, <1>3, <1>5
    <2>2. \A j \in 1..n : \/ r.pairs[j] = base[j]
                         \/ \E m \in r.parsed : Answers(r.pairs[j], base[j], l[m])
      BY <1>1, <1>5
    <2> QED
      BY <1>1, <1>5, <2>1, <2>2 DEF ResponsesUpTo
  <1>6. ASSUME i \in F, r.parsed = w.parsed \cup {i}, NEW at \in 1..Len(w.pairs),
               Fits(w.pairs[at], l[i].ack),
               r.pairs = [w.pairs EXCEPT ![at].rsp = l[i].id]
        PROVE  ResponsesUpTo(r, base, i)
    <2> DEFINE q == [w.pairs[at] EXCEPT !.rsp = l[i].id]
    <2>1. at \in 1..n /\ w.pairs[at] \in Pair /\ base[at] \in Pair
      BY <1>1
    <2>2. /\ Len(r.pairs) = n /\ r.pairs[at] = q
          /\ \A j \in 1..n : j # at => r.pairs[j] = w.pairs[j]
      BY <1>1, <1>6, <2>1
    <2>3. w.pairs[at].rsp = None /\ w.pairs[at].nxt = l[i].ack
      BY <1>6 DEF Fits
    <2>4. w.pairs[at] = base[at]
      <3> SUFFICES ASSUME NEW m \in w.parsed, Answers(w.pairs[at], base[at], l[m])
                   PROVE  FALSE
        BY <1>1, <2>1
      <3>1. w.pairs[at].rsp = l[m].id
        BY <2>1 DEF Answers, Pair
      <3>2. l[m].id \in Nat
        BY <1>2, <1>3 DEF Request
      <3> QED
        BY <2>3, <3>1, <3>2, PairAssumption
    <2>5. Answers(r.pairs[at], base[at], l[i]) /\ r.pairs[at].rsp = l[i].id
      BY <2>1, <2>2, <2>3, <2>4 DEF Answers, Pair
    <2> HIDE DEF q
    <2>6. \A m \in r.parsed : m \in F /\ m <= i
      BY <1>2, <1>3, <1>6
    <2>7. \A j \in 1..n : \/ r.pairs[j] = base[j]
                         \/ \E m \in r.parsed : Answers(r.pairs[j], base[j], l[m])
      <3> TAKE j \in 1..n
      <3>1. CASE j = at
        BY <1>6, <2>5, <3>1
      <3>2. CASE j # at
        BY <1>1, <1>6, <2>2, <3>2
      <3> QED
        BY <3>1, <3>2
    <2>8. ASSUME NEW j \in 1..n, j # at, r.pairs[j] # base[j]
          PROVE  r.pairs[j].rsp # l[i].id
      <3>1. r.pairs[j] = w.pairs[j]
        BY <2>2, <2>8
      <3>2. PICK m \in w.parsed : Answers(w.pairs[j], base[j], l[m])
        BY <1>1, <2>8, <3>1
      <3>3. base[j] \in Pair
        BY <1>1
      <3>4. w.pairs[j].rsp = l[m].id
        BY <3>2, <3>3 DEF Answers, Pair
      <3> QED
        BY <1>2, <1>3, <1>6, <3>1, <3>4
    <2>9. \A k, j \in 1..n : r.pairs[k] # base[k] /\ r.pairs[j] # base[j]
                            /\ r.pairs[k].rsp = r.pairs[j].rsp => k = j
      <3> TAKE k, j \in 1..n
      <3> HAVE r.pairs[k] # base[k] /\ r.pairs[j] # base[j]
               /\ r.pairs[k].rsp = r.pairs[j].rsp
      <3>1. CASE k = at /\ j = at
        BY <3>1
      <3>2. CASE k = at /\ j # at
        BY <2>5, <2>8, <3>2
      <3>3. CASE k # at /\ j = at
        BY <2>5, <2>8, <3>3
      <3>4. CASE k # at /\ j # at
        BY <1>1, <2>2, <3>4
      <3> QED
        BY <3>1, <3>2, <3>3, <3>4
    <2> QED
      BY <2>2, <2>6, <2>7, <2>9 DEF ResponsesUpTo
  <1> QED
    BY <1>4, <1>5, <1>6, ResponseType

\* The states that the second loop goes through.
ResponsesRun(h) ==
    /\ h \in [0..Len(dst.list) -> Matching]
    /\ h[0] = [pairs |-> WithRequests, tmp |-> 1, parsed |-> {}]
    /\ \A i \in 1..Len(dst.list) : h[i] = PairResponse(h[i - 1], i)
    /\ WithResponses = h[Len(dst.list)]

\* There are such states.
LEMMA ResponsesRunExists ==
    ASSUME Typed
    PROVE  \E h : ResponsesRun(h)
  <1> DEFINE n == Len(dst.list)
             A == Matching
             base == WithRequests
             b == [pairs |-> base, tmp |-> 1, parsed |-> {}]
             F == CHOOSE f : f = [i \in 0..n |-> IF i = 0 THEN b
                                                 ELSE PairResponse(f[i - 1], i)]
             g == [x \in A \X (1..n) |-> PairResponse(x[1], x[2])]
  <1>1. n \in Nat /\ base \in Seq(Pair)
    BY TypedLists, RequestsPaired
  <1>2. WithResponses = F[n]
    BY DEF WithResponses, Loop
  <1> HIDE DEF base
  <1>3. b \in A
    BY <1>1 DEF Matching
  <1>4. g \in [A \X (1..n) -> A]
    <2>1. \A w \in A, i \in 1..n : PairResponse(w, i) \in A
      BY ResponseType
    <2> QED
      BY <2>1
  <1> HIDE DEF A, n, g, b
  <1>5. PICK h : IsRun(h, n, A, b, g)
    BY <1>1, <1>3, <1>4, RunExists, Zenon
  <1>6. /\ h \in [0..n -> A] /\ h[0] = b
        /\ \A i \in 1..n : h[i] = PairResponse(h[i - 1], i)
    <2>1. /\ h \in [0..n -> A] /\ h[0] = b
          /\ \A i \in 1..n : h[i] = g[<<h[i - 1], i>>]
      BY <1>5 DEF IsRun
    <2>2. \A i \in 1..n : <<h[i - 1], i>> \in A \X (1..n)
      <3> TAKE i \in 1..n
      <3>1. i - 1 \in 0..n
        BY <1>1
      <3> QED
        BY <2>1, <3>1
    <2> QED
      BY <2>1, <2>2 DEF g
  <1>7. h = [i \in 0..n |-> IF i = 0 THEN b ELSE PairResponse(h[i - 1], i)]
    <2>1. \A i \in 0..n : h[i] = IF i = 0 THEN b ELSE PairResponse(h[i - 1], i)
      BY <1>1, <1>6
    <2> QED
      BY <1>6, <2>1
  <1>8. F = [i \in 0..n |-> IF i = 0 THEN b ELSE PairResponse(F[i - 1], i)]
    BY <1>7
  <1> HIDE DEF F
  <1>9. F \in [0..n -> A]
    <2> DEFINE T == {i \in 0..n : F[i] \in A}
    <2>1. 0 \in T
      BY <1>1, <1>3, <1>8
    <2>2. ASSUME NEW i \in 1..n, i - 1 \in T PROVE i \in T
      <3>1. i \in 0..n /\ i # 0 /\ F[i] = PairResponse(F[i - 1], i)
        BY <1>1, <1>8
      <3>2. PairResponse(F[i - 1], i) \in A
        BY <2>2, ResponseType DEF A, n
      <3> QED
        BY <3>1, <3>2
    <2>3. \A i \in 0..n : i \in T
      <3> HIDE DEF T
      <3> QED
        BY <1>1, <2>1, <2>2, IndexInduction
    <2> QED
      BY <1>8, <2>3
  <1>10. F[0] = b /\ \A i \in 1..n : F[i] = PairResponse(F[i - 1], i)
    BY <1>1, <1>8
  <1>11. ResponsesRun(F)
    BY <1>2, <1>9, <1>10 DEF ResponsesRun, A, n, b, base
  <1> QED
    BY <1>11

\* The second loop gives a response to pairs without one, each response that it
\* has parsed to at most one.
LEMMA ResponsesPaired ==
    ASSUME Typed
    PROVE  /\ WithResponses \in Matching
           /\ ResponsesUpTo(WithResponses, WithRequests, Len(dst.list))
  <1> DEFINE n == Len(dst.list)
             base == WithRequests
  <1>1. n \in Nat /\ base \in Seq(Pair)
    BY TypedLists, RequestsPaired
  <1>2. PICK h : ResponsesRun(h)
    BY ResponsesRunExists
  <1>3. /\ h \in [0..n -> Matching]
        /\ h[0] = [pairs |-> base, tmp |-> 1, parsed |-> {}]
        /\ \A i \in 1..n : h[i] = PairResponse(h[i - 1], i)
        /\ WithResponses = h[n]
    BY <1>2 DEF ResponsesRun
  <1> HIDE DEF base
  <1> DEFINE T == {i \in 0..n : ResponsesUpTo(h[i], base, i)}
  <1>4. 0 \in T
    <2>1. 0 \in 0..n /\ h[0].pairs = base /\ h[0].parsed = {}
      BY <1>1, <1>3
    <2> QED
      BY <2>1 DEF ResponsesUpTo
  <1>5. ASSUME NEW i \in 1..n, i - 1 \in T PROVE i \in T
    <2>1. i \in 0..n /\ i - 1 \in 0..n
      BY <1>1
    <2>2. h[i - 1] \in Matching /\ ResponsesUpTo(h[i - 1], base, i - 1)
      BY <1>3, <1>5, <2>1
    <2>3. ResponsesUpTo(PairResponse(h[i - 1], i), base, i)
      BY <1>1, <2>2, ResponsesStep
    <2> QED
      BY <1>3, <2>1, <2>3
  <1>6. n \in T
    <2> HIDE DEF T, n
    <2> QED
      BY <1>1, <1>4, <1>5, IndexInduction
  <1>7. n \in 0..n
    BY <1>1
  <1> QED
    BY <1>3, <1>6, <1>7 DEF base

\* The responses to parse acknowledge more and more, and the pairs of the chain
\* end with larger and larger numbers.
Growing(base) ==
    /\ \A m, n \in Fresh(dst.list, "RSP") : m < n => dst.list[m].ack < dst.list[n].ack
    /\ \A i, j \in 1..Len(base) : i < j => base[i].nxt < base[j].nxt

\* Then what tmp has passed is behind, and the responses so far are with the
\* pairs that they fit.
Placed(w, base, n) ==
    /\ \A j \in 1..Len(base) : j < w.tmp =>
         \E m \in Fresh(dst.list, "RSP") : m <= n /\ base[j].nxt <= dst.list[m].ack
    /\ \A m \in Fresh(dst.list, "RSP"), j \in 1..Len(base) :
         m <= n /\ Fits(base[j], dst.list[m].ack) => w.pairs[j].rsp = dst.list[m].id

\* One step of the second loop.
LEMMA PlacedStep ==
    ASSUME Typed, NEW base \in Seq(Pair), Growing(base), NEW w \in Matching,
           NEW i \in 1..Len(dst.list), ResponsesUpTo(w, base, i - 1),
           Placed(w, base, i - 1)
    PROVE  Placed(PairResponse(w, i), base, i)
  <1> DEFINE l  == dst.list
             F  == Fresh(l, "RSP")
             r  == PairResponse(w, i)
             n  == Len(base)
             at == Advance(w.pairs, w.tmp, l[i].ack)
  <1>1. /\ Len(w.pairs) = n /\ w.pairs \in Seq(Pair) /\ n \in Nat /\ w.tmp \in Nat \ {0}
        /\ \A m \in w.parsed : m \in F /\ m <= i - 1
        /\ \A j \in 1..n : \/ w.pairs[j] = base[j]
                           \/ \E m \in w.parsed : Answers(w.pairs[j], base[j], l[m])
    BY DEF ResponsesUpTo, Matching
  <1>2. /\ \A m \in F : m \in Nat /\ l[m].ack \in Nat /\ l[m].id # None
        /\ \A m, o \in F : m < o => l[m].ack < l[o].ack
        /\ \A j, k \in 1..n : j < k => base[j].nxt < base[k].nxt
        /\ \A j \in 1..n : base[j].nxt \in Nat
    <2>1. \A m \in F : m \in Nat /\ l[m] \in Segment /\ l[m].id \in Request
      BY FreshFacts, TypedLists
    <2>2. \A m \in F : l[m].ack \in Nat /\ l[m].id # None
      BY <2>1, SegmentFields, WordFacts, PairAssumption DEF Request
    <2>3. \A j \in 1..n : base[j] \in Pair
      OBVIOUS
    <2>4. \A j \in 1..n : base[j].nxt \in Nat
      BY <2>3, WordFacts DEF Pair
    <2> QED
      BY <2>1, <2>2, <2>4 DEF Growing
  <1>3. /\ \A j \in 1..n : j < w.tmp => \E m \in F : m <= i - 1 /\ base[j].nxt <= l[m].ack
        /\ \A m \in F, j \in 1..n :
             m <= i - 1 /\ Fits(base[j], l[m].ack) => w.pairs[j].rsp = l[m].id
    BY DEF Placed
  <1>4. \A j \in 1..n : w.pairs[j].nxt = base[j].nxt
    <2> TAKE j \in 1..n
    <2>1. base[j] \in Pair
      OBVIOUS
    <2> QED
      BY <1>1, <2>1 DEF Answers, Pair
  <1>5. \A m \in F : /\ m <= i - 1 => m <= i
                     /\ m <= i => m = i \/ m <= i - 1
    BY <1>2
  <1>6. ASSUME i \in F, NEW j \in 1..n, j < w.tmp, base[j].nxt = l[i].ack PROVE FALSE
    <2>1. PICK m \in F : m <= i - 1 /\ base[j].nxt <= l[m].ack
      BY <1>3, <1>6
    <2>2. m < i
      BY <1>2, <2>1
    <2>3. l[m].ack < l[i].ack
      BY <1>2, <1>6, <2>2
    <2>4. l[m].ack \in Nat /\ l[i].ack \in Nat /\ l[i].ack <= l[m].ack
      BY <1>2, <1>6, <2>1
    <2> HIDE DEF l
    <2> QED
      BY <2>3, <2>4
  <1> HIDE DEF F, l, n
  <1>7. CASE i \notin F
    <2>1. r = w
      BY <1>7 DEF PairResponse, F, l
    <2>2. \A m \in F : m <= i => m <= i - 1
      BY <1>5, <1>7
    <2> QED
      BY <1>3, <1>5, <2>1, <2>2 DEF Placed, F, l, n
  <1>8. CASE i \in F /\ w.tmp > Len(w.pairs)
    <2>1. r = w
      BY <1>8 DEF PairResponse, F, l
    <2>2. \A j \in 1..n : j < w.tmp
      BY <1>1, <1>8
    <2>3. ASSUME NEW m \in F, NEW j \in 1..n, m <= i, Fits(base[j], l[m].ack)
          PROVE  w.pairs[j].rsp = l[m].id
      <3>1. m # i
        BY <1>6, <1>8, <2>2, <2>3 DEF Fits
      <3> QED
        BY <1>3, <1>5, <2>3, <3>1
    <2>4. \A j \in 1..n : j < w.tmp => \E m \in F : m <= i /\ base[j].nxt <= l[m].ack
      BY <1>3, <1>5
    <2> QED
      BY <2>1, <2>3, <2>4 DEF Placed, F, l, n
  <1>9. CASE i \in F /\ ~(w.tmp > Len(w.pairs))
    <2> DEFINE ps == IF at <= Len(w.pairs) /\ Fits(w.pairs[at], l[i].ack)
                     THEN [w.pairs EXCEPT ![at].rsp = l[i].id] ELSE w.pairs
    <2>1. r = [pairs |-> ps, tmp |-> at, parsed |-> w.parsed \cup {i}]
      BY <1>9 DEF PairResponse, F, l
    <2>2. w.tmp \in 1..Len(w.pairs) /\ l[i].ack \in Word
      <3>1. l[i] \in Segment
        BY TypedLists DEF l
      <3> QED
        BY <1>1, <1>9, <3>1, SegmentFields
    <2>3. /\ at \in w.tmp..(n + 1)
          /\ at = n + 1 \/ w.pairs[at].nxt > l[i].ack \/ Fits(w.pairs[at], l[i].ack)
          /\ \A k \in w.tmp..(at - 1) : w.pairs[k].nxt <= l[i].ack /\ ~Fits(w.pairs[k], l[i].ack)
      BY <1>1, <2>2, AdvanceFacts
    <2>4. r.tmp = at /\ r.pairs = ps
      BY <2>1
    <2> HIDE DEF at, r
    <2>5. at \in Nat /\ i <= i
      BY <1>1, <2>3
    <2>6. ASSUME NEW j \in 1..n, j < at
          PROVE  \E m \in F : m <= i /\ base[j].nxt <= l[m].ack
      <3>1. CASE j < w.tmp
        BY <1>3, <1>5, <3>1
      <3>2. CASE ~(j < w.tmp)
        <4>1. j \in w.tmp..(at - 1)
          BY <1>1, <2>5, <2>6, <3>2
        <4> QED
          BY <1>4, <1>9, <2>3, <2>5, <4>1
      <3> QED
        BY <3>1, <3>2
    <2>7. \A j \in 1..n : \/ ps[j].rsp = w.pairs[j].rsp
                          \/ j = at /\ Fits(w.pairs[at], l[i].ack) /\ ps[j].rsp = l[i].id
      <3> TAKE j \in 1..n
      <3>1. CASE at <= Len(w.pairs) /\ Fits(w.pairs[at], l[i].ack)
        <4>1. ps = [w.pairs EXCEPT ![at].rsp = l[i].id] /\ w.pairs[j] \in Pair
          BY <1>1, <3>1
        <4>2. j \in DOMAIN w.pairs
          BY <1>1
        <4>3. CASE j # at
          BY <4>1, <4>2, <4>3
        <4>4. CASE j = at
          <5>1. ps[j] = [w.pairs[j] EXCEPT !.rsp = l[i].id]
            BY <4>1, <4>2, <4>4
          <5> HIDE DEF ps
          <5> QED
            BY <3>1, <4>1, <4>4, <5>1 DEF Pair
        <4> QED
          BY <4>3, <4>4
      <3>2. CASE ~(at <= Len(w.pairs) /\ Fits(w.pairs[at], l[i].ack))
        <4>1. ps = w.pairs
          BY <3>2
        <4> HIDE DEF ps
        <4> QED
          BY <4>1
      <3> QED
        BY <3>1, <3>2
    <2>8. at <= n /\ Fits(w.pairs[at], l[i].ack) => ps[at].rsp = l[i].id
      <3> SUFFICES ASSUME at <= n, Fits(w.pairs[at], l[i].ack) PROVE ps[at].rsp = l[i].id
        OBVIOUS
      <3>1. at \in 1..Len(w.pairs)
        BY <1>1, <2>3
      <3>2. ps = [w.pairs EXCEPT ![at].rsp = l[i].id] /\ w.pairs[at] \in Pair
        BY <1>1, <3>1
      <3>3. at \in DOMAIN w.pairs
        BY <1>1, <3>1
      <3> QED
        BY <3>2, <3>3 DEF Pair
    <2> HIDE DEF ps
    <2>9. ASSUME NEW m \in F, NEW j \in 1..n, m <= i, Fits(base[j], l[m].ack)
          PROVE  ps[j].rsp = l[m].id
      <3>1. base[j].rsp = None /\ base[j].nxt = l[m].ack
        BY <2>9 DEF Fits
      <3>2. CASE m <= i - 1
        <4>1. w.pairs[j].rsp = l[m].id /\ w.pairs[j].rsp # None
          BY <1>2, <1>3, <2>9, <3>2
        <4> QED
          BY <2>7, <4>1 DEF Fits
      <3>3. CASE m = i
        <4>1. ~(j < w.tmp)
          BY <1>6, <1>9, <3>1, <3>3
        <4>2. ~(j < at)
          <5> SUFFICES ASSUME j < at PROVE FALSE
            OBVIOUS
          <5>1. j \in w.tmp..(at - 1)
            BY <1>1, <2>5, <4>1
          <5>2. w.pairs[j] # base[j]
            BY <2>3, <2>9, <3>3, <5>1
          <5>3. PICK o \in w.parsed : Answers(w.pairs[j], base[j], l[o])
            BY <1>1, <5>2
          <5>4. o \in F /\ o < i /\ base[j].nxt = l[o].ack
            BY <1>1, <1>2, <5>3 DEF Answers
          <5>5. l[o].ack < l[i].ack
            BY <1>2, <1>9, <5>4
          <5> QED
            BY <1>2, <1>9, <3>1, <3>3, <5>4, <5>5
        <4>3. at <= n /\ at \in 1..n
          BY <1>1, <2>3, <2>5, <4>2
        <4>4. ~(at < j)
          <5> SUFFICES ASSUME at < j PROVE FALSE
            OBVIOUS
          <5>1. base[at].nxt < l[i].ack
            BY <1>2, <3>1, <3>3, <4>3
          <5>2. w.pairs[at].nxt >= l[i].ack
            <6>1. at # n + 1 /\ w.pairs[at].nxt \in Nat /\ l[i].ack \in Nat
              <7>1. at # n + 1
                BY <1>1, <2>5, <4>3
              <7>2. w.pairs[at].nxt \in Nat
                BY <1>2, <1>4, <4>3
              <7> QED
                BY <1>2, <1>9, <7>1, <7>2
            <6>2. w.pairs[at].nxt > l[i].ack \/ w.pairs[at].nxt = l[i].ack
              BY <2>3, <6>1 DEF Fits
            <6> QED
              BY <6>1, <6>2
          <5> QED
            BY <1>2, <1>4, <1>9, <4>3, <5>1, <5>2
        <4>5. j = at
          BY <2>5, <4>2, <4>4
        <4>6. Fits(w.pairs[at], l[i].ack)
          <5>1. w.pairs[at].nxt = l[i].ack
            BY <1>4, <3>1, <3>3, <4>3, <4>5
          <5>2. at # n + 1 /\ ~(w.pairs[at].nxt > l[i].ack)
            BY <1>1, <1>2, <1>9, <4>3, <5>1
          <5> QED
            BY <2>3, <5>2
        <4> QED
          BY <2>8, <3>3, <4>3, <4>5, <4>6
      <3> QED
        BY <1>5, <2>9, <3>2, <3>3
    <2> QED
      BY <2>4, <2>6, <2>9 DEF Placed, F, l, n, r
  <1> QED
    BY <1>7, <1>8, <1>9

\* Then no response to parse is left out that fits a pair.
LEMMA ResponsesComplete ==
    ASSUME Typed, Growing(WithRequests), NEW m \in Fresh(dst.list, "RSP"),
           NEW j \in 1..Len(WithRequests), Fits(WithRequests[j], dst.list[m].ack)
    PROVE  WithResponses.pairs[j].rsp = dst.list[m].id
  <1> DEFINE n == Len(dst.list)
             base == WithRequests
  <1>1. n \in Nat /\ base \in Seq(Pair)
    BY TypedLists, RequestsPaired
  <1>2. PICK h : ResponsesRun(h)
    BY ResponsesRunExists
  <1>3. /\ h \in [0..n -> Matching]
        /\ h[0] = [pairs |-> base, tmp |-> 1, parsed |-> {}]
        /\ \A i \in 1..n : h[i] = PairResponse(h[i - 1], i)
        /\ WithResponses = h[n]
    BY <1>2 DEF ResponsesRun
  <1> HIDE DEF base
  <1> DEFINE T == {i \in 0..n : ResponsesUpTo(h[i], base, i) /\ Placed(h[i], base, i)}
  <1>4. 0 \in T
    <2>1. 0 \in 0..n /\ h[0].pairs = base /\ h[0].parsed = {} /\ h[0].tmp = 1
      BY <1>1, <1>3
    <2>2. \A i \in 1..Len(base) : ~(i < 1)
      BY <1>1
    <2>3. \A i \in Fresh(dst.list, "RSP") : ~(i <= 0)
      BY FreshFacts
    <2> QED
      BY <2>1, <2>2, <2>3 DEF ResponsesUpTo, Placed
  <1>5. ASSUME NEW i \in 1..n, i - 1 \in T PROVE i \in T
    <2>1. i \in 0..n /\ i - 1 \in 0..n
      BY <1>1
    <2>2. /\ h[i - 1] \in Matching /\ ResponsesUpTo(h[i - 1], base, i - 1)
          /\ Placed(h[i - 1], base, i - 1)
      BY <1>3, <1>5, <2>1
    <2>3. ResponsesUpTo(PairResponse(h[i - 1], i), base, i)
      BY <1>1, <2>2, ResponsesStep
    <2>4. Placed(PairResponse(h[i - 1], i), base, i)
      BY <1>1, <2>2, PlacedStep DEF base
    <2> QED
      BY <1>3, <2>1, <2>3, <2>4
  <1>6. n \in T
    <2> HIDE DEF T, n
    <2> QED
      BY <1>1, <1>4, <1>5, IndexInduction
  <1>7. Placed(h[n], base, n) /\ m <= n
    BY <1>1, <1>6, FreshFacts
  <1> QED
    BY <1>3, <1>7 DEF Placed, base

-----------------------------------------------------------------------------
(***************************************************************************)
(* The loop of extractData                                                 *)
(***************************************************************************)
ReqTold(t, k) == \E i \in 1..Len(t) : t[i].ev = "REQ" /\ t[i].req = k
RspTold(t, k) == \E i \in 1..Len(t) : t[i].ev = "RSP" /\ t[i].rsp = k

\* No event occurs twice
Once(t) ==
    \A i, j \in 1..Len(t) :
        /\ t[i].ev = "REQ" /\ t[j].ev = "REQ" /\ t[i].req = t[j].req => i = j
        /\ t[i].ev = "RSP" /\ t[j].ev = "RSP" /\ t[i].rsp = t[j].rsp => i = j

\* A response is told after its request
After(t) ==
    \A i \in 1..Len(t) : t[i].ev = "RSP" =>
        \E j \in 1..(i - 1) : t[j].ev = "REQ" /\ t[j].req = t[i].req

\* r is t followed by e.
Follows(r, t, e) ==
    /\ r \in Seq(Event) /\ Len(r) = Len(t) + 1 /\ r[Len(t) + 1] = e
    /\ \A i \in 1..Len(t) : r[i] = t[i]

\* What follows from another event.
LEMMA OneMore ==
    ASSUME NEW t \in Seq(Event), NEW e \in Event, NEW r, Follows(r, t, e)
    PROVE  /\ \A k : ReqTold(r, k) <=> ReqTold(t, k) \/ (e.ev = "REQ" /\ e.req = k)
           /\ \A k : RspTold(r, k) <=> RspTold(t, k) \/ (e.ev = "RSP" /\ e.rsp = k)
           /\ \A i \in 1..Len(r) : i = Len(t) + 1 \/ i \in 1..Len(t)
           /\ Len(t) \in Nat /\ Len(t) + 1 \in 1..Len(r)
           /\ 1..Len(t) \subseteq 1..Len(r)
  <1>1. /\ Len(t) \in Nat /\ Len(r) = Len(t) + 1 /\ r[Len(t) + 1] = e
        /\ \A i \in 1..Len(t) : r[i] = t[i]
    BY DEF Follows
  <1>2. /\ \A i \in 1..Len(r) : i = Len(t) + 1 \/ i \in 1..Len(t)
        /\ Len(t) + 1 \in 1..Len(r) /\ 1..Len(t) \subseteq 1..Len(r)
    BY <1>1
  <1> HIDE DEF Event
  <1>3. \A k : ReqTold(r, k) <=> ReqTold(t, k) \/ (e.ev = "REQ" /\ e.req = k)
    BY <1>1, <1>2 DEF ReqTold
  <1>4. \A k : RspTold(r, k) <=> RspTold(t, k) \/ (e.ev = "RSP" /\ e.rsp = k)
    BY <1>1, <1>2 DEF RspTold
  <1> QED
    BY <1>1, <1>2, <1>3, <1>4

\* An event that was not told keeps the history right.
LEMMA HistoryKept ==
    ASSUME NEW t \in Seq(Event), NEW e \in Event, NEW r, Follows(r, t, e),
           Once(t), After(t),
           e.ev = "REQ" => ~ReqTold(t, e.req),
           e.ev = "RSP" => ~RspTold(t, e.rsp) /\ ReqTold(t, e.req)
    PROVE  Once(r) /\ After(r)
  <1> DEFINE n == Len(t)
  <1>1. /\ n \in Nat /\ Len(r) = n + 1 /\ r[n + 1] = e
        /\ \A i \in 1..n : r[i] = t[i]
        /\ \A i \in 1..Len(r) : i = n + 1 \/ i \in 1..n
    BY OneMore DEF Follows
  <1> HIDE DEF n
  <1>2. /\ e.ev = "REQ" => \A i \in 1..n : ~(t[i].ev = "REQ" /\ t[i].req = e.req)
        /\ e.ev = "RSP" => \A i \in 1..n : ~(t[i].ev = "RSP" /\ t[i].rsp = e.rsp)
        /\ e.ev = "RSP" => \E i \in 1..n : t[i].ev = "REQ" /\ t[i].req = e.req
    BY DEF ReqTold, RspTold, n
  <1>3. Once(r)
    <2> SUFFICES ASSUME NEW i \in 1..Len(r), NEW j \in 1..Len(r)
                 PROVE  /\ r[i].ev = "REQ" /\ r[j].ev = "REQ" /\ r[i].req = r[j].req => i = j
                        /\ r[i].ev = "RSP" /\ r[j].ev = "RSP" /\ r[i].rsp = r[j].rsp => i = j
      BY DEF Once
    <2>1. CASE i = n + 1 /\ j = n + 1
      BY <2>1
    <2>2. CASE i = n + 1 /\ j \in 1..n
      BY <1>1, <1>2, <2>2
    <2>3. CASE i \in 1..n /\ j = n + 1
      BY <1>1, <1>2, <2>3
    <2>4. CASE i \in 1..n /\ j \in 1..n
      BY <1>1, <2>4 DEF Once, n
    <2> QED
      BY <1>1, <2>1, <2>2, <2>3, <2>4
  <1>4. After(r)
    <2> SUFFICES ASSUME NEW i \in 1..Len(r), r[i].ev = "RSP"
                 PROVE  \E j \in 1..(i - 1) : r[j].ev = "REQ" /\ r[j].req = r[i].req
      BY DEF After
    <2>1. CASE i = n + 1
      <3>1. PICK j \in 1..n : t[j].ev = "REQ" /\ t[j].req = e.req
        BY <1>1, <1>2, <2>1
      <3>2. j \in 1..(i - 1)
        BY <1>1, <2>1
      <3> QED
        BY <1>1, <2>1, <3>1, <3>2
    <2>2. CASE i \in 1..n
      <3>1. PICK j \in 1..(i - 1) : t[j].ev = "REQ" /\ t[j].req = t[i].req
        BY <1>1, <2>2 DEF After, n
      <3>2. j \in 1..n
        BY <1>1, <2>2
      <3> QED
        BY <1>1, <2>2, <3>1, <3>2
    <2> QED
      BY <1>1, <2>1, <2>2
  <1> QED
    BY <1>3, <1>4

ReqEvent(p) == [ev |-> "REQ", req |-> p.id, rsp |-> None]
RspEvent(p) == [ev |-> "RSP", req |-> p.id, rsp |-> p.rsp]

\* The pair has a response that was not told
NewRsp(p) == p.rsp # None /\ ~p.rspDone

\* One iteration: the event of the request if it is new, then that of the
\* response.
LEMMA EventsAppended ==
    ASSUME NEW t \in Seq(Event), NEW p \in Pair
    PROVE  \E u \in Seq(Event) :
             /\ IF p.reqDone THEN u = t ELSE Follows(u, t, ReqEvent(p))
             /\ IF NewRsp(p) THEN Follows(t \o Events(p), u, RspEvent(p))
                             ELSE t \o Events(p) = u
             /\ ReqEvent(p) \in Event
             /\ NewRsp(p) => RspEvent(p) \in Event
  <1> DEFINE A == IF p.reqDone THEN <<>> ELSE <<ReqEvent(p)>>
             B == IF p.rsp = None \/ p.rspDone THEN <<>> ELSE <<RspEvent(p)>>
             u == t \o A
  <1>1. /\ p.id \in Request /\ p.rsp \in Request \cup {None}
    BY DEF Pair
  <1>2. ReqEvent(p) \in Event /\ RspEvent(p) \in Event
    BY <1>1 DEF Event, ReqEvent, RspEvent
  <1>3. A \in Seq(Event) /\ B \in Seq(Event)
    BY <1>2
  <1>4. Events(p) = A \o B
    BY DEF Events, ReqEvent, RspEvent
  <1> HIDE DEF A, B, Event
  <1>5. t \o Events(p) = u \o B
    BY <1>3, <1>4, ConcatAssociative
  <1>6. u \in Seq(Event)
    BY <1>3
  <1>7. ASSUME NEW v \in Seq(Event), NEW e \in Event PROVE Follows(v \o <<e>>, v, e)
    BY DEF Follows
  <1>8. IF p.reqDone THEN u = t ELSE Follows(u, t, ReqEvent(p))
    <2>1. CASE p.reqDone
      BY <2>1 DEF A
    <2>2. CASE ~p.reqDone
      BY <1>2, <1>7, <2>2 DEF A
    <2> QED
      BY <2>1, <2>2
  <1> HIDE DEF u
  <1>9. IF NewRsp(p) THEN Follows(u \o B, u, RspEvent(p)) ELSE u \o B = u
    <2>1. CASE NewRsp(p)
      <3>1. B = <<RspEvent(p)>>
        BY <2>1 DEF B, NewRsp
      <3> QED
        BY <1>2, <1>6, <1>7, <2>1, <3>1
    <2>2. CASE ~NewRsp(p)
      <3>1. B = <<>>
        BY <2>2 DEF B, NewRsp
      <3> QED
        BY <1>6, <2>2, <3>1
    <2> QED
      BY <2>1, <2>2
  <1> QED
    BY <1>2, <1>5, <1>6, <1>8, <1>9

\* What the loop relies on: the marks of the pairs say what was told, and no two
\* pairs have the same new request or the same new response.
Tellable(t, ps) ==
    /\ \A j \in 1..Len(ps) : ps[j].reqDone <=> ReqTold(t, ps[j].id)
    /\ \A i, j \in 1..Len(ps) :
         ~ps[i].reqDone /\ ~ps[j].reqDone /\ ps[i].id = ps[j].id => i = j
    /\ \A j \in 1..Len(ps) : NewRsp(ps[j]) => ~RspTold(t, ps[j].rsp)
    /\ \A i, j \in 1..Len(ps) :
         NewRsp(ps[i]) /\ NewRsp(ps[j]) /\ ps[i].rsp = ps[j].rsp => i = j

\* What was told after n pairs.
ToldUpTo(acc, t, ps, n) ==
    /\ Once(acc) /\ After(acc)
    /\ \A k : ReqTold(acc, k)
             <=> ReqTold(t, k) \/ \E j \in 1..n : ~ps[j].reqDone /\ ps[j].id = k
    /\ \A k : RspTold(acc, k)
             <=> RspTold(t, k) \/ \E j \in 1..n : NewRsp(ps[j]) /\ ps[j].rsp = k
    /\ \A i \in 1..Len(acc) : acc[i].ev = "RSP" =>
         \/ \E j \in 1..Len(t) : acc[i] = t[j]
         \/ \E j \in 1..n : NewRsp(ps[j]) /\ acc[i] = RspEvent(ps[j])

\* One iteration.
LEMMA TellStep ==
    ASSUME NEW t \in Seq(Event), NEW ps \in Seq(Pair), Tellable(t, ps),
           NEW acc \in Seq(Event), NEW n \in 1..Len(ps), ToldUpTo(acc, t, ps, n - 1)
    PROVE  /\ acc \o Events(ps[n]) \in Seq(Event)
           /\ ToldUpTo(acc \o Events(ps[n]), t, ps, n)
  <1> DEFINE p == ps[n]
             r == acc \o Events(p)
  <1>1. p \in Pair /\ Len(ps) \in Nat
    OBVIOUS
  <1>2. PICK u \in Seq(Event) :
          /\ IF p.reqDone THEN u = acc ELSE Follows(u, acc, ReqEvent(p))
          /\ IF NewRsp(p) THEN Follows(r, u, RspEvent(p)) ELSE r = u
          /\ ReqEvent(p) \in Event
          /\ NewRsp(p) => RspEvent(p) \in Event
    BY <1>1, EventsAppended
  <1> HIDE DEF r, Event
  <1>3. /\ ReqEvent(p).ev = "REQ" /\ ReqEvent(p).req = p.id
        /\ RspEvent(p).ev = "RSP" /\ RspEvent(p).req = p.id /\ RspEvent(p).rsp = p.rsp
    BY DEF ReqEvent, RspEvent
  <1>4. /\ \A j \in 1..Len(ps) : ps[j].reqDone <=> ReqTold(t, ps[j].id)
        /\ \A i, j \in 1..Len(ps) :
             ~ps[i].reqDone /\ ~ps[j].reqDone /\ ps[i].id = ps[j].id => i = j
        /\ \A j \in 1..Len(ps) : NewRsp(ps[j]) => ~RspTold(t, ps[j].rsp)
        /\ \A i, j \in 1..Len(ps) :
             NewRsp(ps[i]) /\ NewRsp(ps[j]) /\ ps[i].rsp = ps[j].rsp => i = j
    BY DEF Tellable
  <1>5. /\ Once(acc) /\ After(acc)
        /\ \A k : ReqTold(acc, k) <=> \/ ReqTold(t, k)
                                     \/ \E j \in 1..(n - 1) : ~ps[j].reqDone /\ ps[j].id = k
        /\ \A k : RspTold(acc, k) <=> \/ RspTold(t, k)
                                     \/ \E j \in 1..(n - 1) : NewRsp(ps[j]) /\ ps[j].rsp = k
        /\ \A i \in 1..Len(acc) : acc[i].ev = "RSP" =>
             \/ \E j \in 1..Len(t) : acc[i] = t[j]
             \/ \E j \in 1..(n - 1) : NewRsp(ps[j]) /\ acc[i] = RspEvent(ps[j])
    BY DEF ToldUpTo
  <1>6. /\ n \in 1..n /\ 1..(n - 1) \subseteq 1..n /\ n \in 1..Len(ps)
        /\ \A j \in 1..n : j = n \/ j \in 1..(n - 1)
        /\ \A j \in 1..(n - 1) : j \in 1..Len(ps) /\ j # n
    BY <1>1
  <1> HIDE DEF p
  <1>7. /\ Once(u) /\ After(u) /\ ReqTold(u, p.id)
        /\ \A k : ReqTold(u, k) <=> ReqTold(acc, k) \/ (~p.reqDone /\ p.id = k)
        /\ \A k : RspTold(u, k) <=> RspTold(acc, k)
        /\ \A i \in 1..Len(u) : u[i].ev = "RSP" => \E j \in 1..Len(acc) : u[i] = acc[j]
    <2>1. CASE p.reqDone
      <3>1. u = acc
        BY <1>2, <2>1
      <3>2. ReqTold(acc, p.id)
        BY <1>4, <1>5, <1>6, <2>1 DEF p
      <3> QED
        BY <1>5, <2>1, <3>1, <3>2
    <2>2. CASE ~p.reqDone
      <3>1. Follows(u, acc, ReqEvent(p)) /\ ReqEvent(p) \in Event
        BY <1>2, <2>2
      <3>2. ~ReqTold(acc, p.id)
        BY <1>4, <1>5, <1>6, <2>2 DEF p
      <3>3. Once(u) /\ After(u)
        BY <1>3, <1>5, <3>1, <3>2, HistoryKept
      <3>4. /\ \A k : ReqTold(u, k) <=> ReqTold(acc, k) \/ p.id = k
            /\ \A k : RspTold(u, k) <=> RspTold(acc, k)
            /\ \A i \in 1..Len(u) : i = Len(acc) + 1 \/ i \in 1..Len(acc)
        BY <1>3, <3>1, OneMore
      <3>5. \A i \in 1..Len(u) : u[i].ev = "RSP" => \E j \in 1..Len(acc) : u[i] = acc[j]
        BY <1>3, <3>1, <3>4 DEF Follows
      <3> QED
        BY <2>2, <3>3, <3>4, <3>5
    <2> QED
      BY <2>1, <2>2
  <1>8. /\ Once(r) /\ After(r) /\ r \in Seq(Event)
        /\ \A k : ReqTold(r, k) <=> ReqTold(u, k)
        /\ \A k : RspTold(r, k) <=> RspTold(u, k) \/ (NewRsp(p) /\ p.rsp = k)
        /\ \A i \in 1..Len(r) : r[i].ev = "RSP" =>
             (\E j \in 1..Len(u) : r[i] = u[j]) \/ (NewRsp(p) /\ r[i] = RspEvent(p))
    <2>1. CASE ~NewRsp(p)
      BY <1>2, <1>7, <2>1
    <2>2. CASE NewRsp(p)
      <3>1. Follows(r, u, RspEvent(p)) /\ RspEvent(p) \in Event
        BY <1>2, <2>2
      <3>2. ~RspTold(u, p.rsp)
        BY <1>4, <1>5, <1>6, <1>7, <2>2 DEF p
      <3>3. Once(r) /\ After(r)
        BY <1>3, <1>7, <3>1, <3>2, HistoryKept
      <3>4. /\ \A k : ReqTold(r, k) <=> ReqTold(u, k)
            /\ \A k : RspTold(r, k) <=> RspTold(u, k) \/ p.rsp = k
            /\ \A i \in 1..Len(r) : i = Len(u) + 1 \/ i \in 1..Len(u)
        BY <1>3, <3>1, OneMore
      <3>5. \A i \in 1..Len(r) : (\E j \in 1..Len(u) : r[i] = u[j]) \/ r[i] = RspEvent(p)
        BY <3>1, <3>4 DEF Follows
      <3>6. r \in Seq(Event)
        BY <3>1 DEF Follows
      <3> QED
        BY <2>2, <3>3, <3>4, <3>5, <3>6
    <2> QED
      BY <2>1, <2>2
  <1>9. \A k : ReqTold(r, k)
              <=> ReqTold(t, k) \/ \E j \in 1..n : ~ps[j].reqDone /\ ps[j].id = k
    BY <1>5, <1>6, <1>7, <1>8 DEF p
  <1>10. \A k : RspTold(r, k)
               <=> RspTold(t, k) \/ \E j \in 1..n : NewRsp(ps[j]) /\ ps[j].rsp = k
    BY <1>5, <1>6, <1>7, <1>8 DEF p
  <1>11. ASSUME NEW i \in 1..Len(r), r[i].ev = "RSP"
         PROVE  \/ \E j \in 1..Len(t) : r[i] = t[j]
                \/ \E j \in 1..n : NewRsp(ps[j]) /\ r[i] = RspEvent(ps[j])
    <2>1. CASE NewRsp(p) /\ r[i] = RspEvent(p)
      BY <1>6, <2>1 DEF p
    <2>2. ASSUME NEW j \in 1..Len(u), r[i] = u[j]
          PROVE  \/ \E m \in 1..Len(t) : r[i] = t[m]
                 \/ \E m \in 1..n : NewRsp(ps[m]) /\ r[i] = RspEvent(ps[m])
      <3>1. PICK m \in 1..Len(acc) : u[j] = acc[m]
        BY <1>7, <1>11, <2>2
      <3> QED
        BY <1>5, <1>6, <1>11, <2>2, <3>1
    <2> QED
      BY <1>8, <1>11, <2>1, <2>2
  <1> QED
    BY <1>8, <1>9, <1>10, <1>11 DEF ToldUpTo, r, p

TellAll(t, ps) == Loop(LAMBDA acc, i : acc \o Events(ps[i]), t, Len(ps))

\* extractData tells the new requests and responses of the chain, each once.
LEMMA AllTold ==
    ASSUME NEW t \in Seq(Event), NEW ps \in Seq(Pair), Tellable(t, ps),
           Once(t), After(t)
    PROVE  TellAll(t, ps) \in Seq(Event) /\ ToldUpTo(TellAll(t, ps), t, ps, Len(ps))
  <1> DEFINE n == Len(ps)
             A == Seq(Event)
             F == CHOOSE f : f = [i \in 0..n |-> IF i = 0 THEN t
                                                 ELSE f[i - 1] \o Events(ps[i])]
             g == [x \in A \X (1..n) |-> x[1] \o Events(ps[x[2]])]
  <1>1. n \in Nat /\ t \in A
    OBVIOUS
  <1>2. TellAll(t, ps) = F[n]
    BY DEF TellAll, Loop
  <1>3. \A acc \in A, i \in 1..n : acc \o Events(ps[i]) \in A
    <2> TAKE acc \in A, i \in 1..n
    <2>1. ps[i] \in Pair
      OBVIOUS
    <2>2. PICK u \in Seq(Event) :
            IF NewRsp(ps[i]) THEN Follows(acc \o Events(ps[i]), u, RspEvent(ps[i]))
                             ELSE acc \o Events(ps[i]) = u
      BY <2>1, EventsAppended
    <2> QED
      BY <2>2 DEF Follows
  <1>4. g \in [A \X (1..n) -> A]
    BY <1>3
  <1> HIDE DEF A, n, g
  <1>5. PICK h : IsRun(h, n, A, t, g)
    BY <1>1, <1>4, RunExists, Zenon
  <1>6. /\ h \in [0..n -> A] /\ h[0] = t
        /\ \A i \in 1..n : h[i] = h[i - 1] \o Events(ps[i])
    <2>1. /\ h \in [0..n -> A] /\ h[0] = t
          /\ \A i \in 1..n : h[i] = g[<<h[i - 1], i>>]
      BY <1>5 DEF IsRun
    <2>2. \A i \in 1..n : <<h[i - 1], i>> \in A \X (1..n)
      <3> TAKE i \in 1..n
      <3>1. i - 1 \in 0..n
        BY <1>1
      <3> QED
        BY <2>1, <3>1
    <2> QED
      BY <2>1, <2>2 DEF g
  <1>7. h = [i \in 0..n |-> IF i = 0 THEN t ELSE h[i - 1] \o Events(ps[i])]
    <2>1. \A i \in 0..n : h[i] = IF i = 0 THEN t ELSE h[i - 1] \o Events(ps[i])
      BY <1>1, <1>6, SMTT(30)
    <2> QED
      BY <1>6, <2>1
  <1>8. F = [i \in 0..n |-> IF i = 0 THEN t ELSE F[i - 1] \o Events(ps[i])]
    BY <1>7
  <1> HIDE DEF F
  <1> DEFINE T == {i \in 0..n : F[i] \in A /\ ToldUpTo(F[i], t, ps, i)}
  <1>9. 0 \in T
    <2>1. 0 \in 0..n /\ F[0] = t /\ 1..0 = {}
      BY <1>1, <1>8
    <2> QED
      BY <1>1, <2>1 DEF ToldUpTo
  <1>10. ASSUME NEW i \in 1..n, i - 1 \in T PROVE i \in T
    <2>1. i \in 0..n /\ i # 0 /\ F[i] = F[i - 1] \o Events(ps[i])
      BY <1>1, <1>8
    <2>2. F[i - 1] \in A /\ ToldUpTo(F[i - 1], t, ps, i - 1)
      BY <1>10
    <2>3. /\ F[i - 1] \o Events(ps[i]) \in A
          /\ ToldUpTo(F[i - 1] \o Events(ps[i]), t, ps, i)
      BY <2>2, TellStep DEF A, n
    <2> QED
      BY <2>1, <2>3
  <1>11. n \in T
    <2> HIDE DEF T
    <2> QED
      BY <1>1, <1>9, <1>10, IndexInduction
  <1> QED
    BY <1>2, <1>11 DEF A, n

-----------------------------------------------------------------------------
(***************************************************************************)
(* What was told and what is marked                                        *)
(***************************************************************************)
\* A segment with message k was processed
Marked(l, type, k) ==
    \E i \in 1..Len(l) : l[i].type = type /\ l[i].id = k /\ l[i].processed

Hist ==
    /\ Once(told) /\ After(told)
    /\ \A k : ReqTold(told, k) <=> Marked(src.list, "REQ", k)
    /\ \A k : RspTold(told, k) => Marked(dst.list, "RSP", k)
    /\ \A j \in 1..Len(pairs) : /\ pairs[j].reqDone /\ ReqTold(told, pairs[j].id)
                                /\ pairs[j].rspDone <=> pairs[j].rsp # None

\* The responses that extractPair marks
Parsed == IF FoundRequest THEN WithResponses.parsed ELSE {}

\* What extractPair leaves: the old pairs and one for each new request, some of
\* them with a response that was parsed.
ChainFrom(ps) ==
    /\ Len(ps) >= Len(pairs)
    /\ \A j \in 1..Len(pairs) : /\ ps[j].id = pairs[j].id /\ ps[j].nxt = pairs[j].nxt
                                /\ ps[j].reqDone
    /\ \A j \in (Len(pairs) + 1)..Len(ps) :
         /\ ~ps[j].reqDone
         /\ \E m \in Fresh(src.list, "REQ") : /\ ps[j].id = src.list[m].id
                                              /\ ps[j].nxt = src.list[m].nxt
    /\ \A m \in Fresh(src.list, "REQ") : \E j \in 1..Len(ps) :
         ~ps[j].reqDone /\ ps[j].id = src.list[m].id
    /\ \A j \in 1..Len(ps) : ps[j].rsp # None =>
         \/ j <= Len(pairs) /\ ps[j].rsp = pairs[j].rsp /\ ps[j].rspDone
         \/ /\ NewRsp(ps[j])
            /\ \E m \in Parsed : /\ ps[j].rsp = dst.list[m].id
                                 /\ ps[j].nxt = dst.list[m].ack
    /\ \A j \in 1..Len(ps) : ps[j].rspDone => ps[j].rsp # None

\* A segment that is to be parsed has a message that was not told.
LEMMA FreshUntold ==
    ASSUME Typed, Hist
    PROVE  /\ \A m \in Fresh(src.list, "REQ") : ~ReqTold(told, src.list[m].id)
           /\ \A m \in Fresh(dst.list, "RSP") : ~RspTold(told, dst.list[m].id)
  <1>1. /\ \A i, j \in 1..Len(src.list) :
             src.list[i].type = "REQ" /\ src.list[j].type = "REQ"
             /\ src.list[i].id = src.list[j].id => i = j
        /\ \A i, j \in 1..Len(dst.list) :
             dst.list[i].type = "RSP" /\ dst.list[j].type = "RSP"
             /\ dst.list[i].id = dst.list[j].id => i = j
    BY DEF Typed, ListOf
  <1>2. /\ \A k : ReqTold(told, k) => Marked(src.list, "REQ", k)
        /\ \A k : RspTold(told, k) => Marked(dst.list, "RSP", k)
    BY DEF Hist
  <1>3. ASSUME NEW m \in Fresh(src.list, "REQ") PROVE ~ReqTold(told, src.list[m].id)
    BY <1>1, <1>2, FreshFacts DEF Marked
  <1>4. ASSUME NEW m \in Fresh(dst.list, "RSP") PROVE ~RspTold(told, dst.list[m].id)
    BY <1>1, <1>2, FreshFacts DEF Marked
  <1> QED
    BY <1>3, <1>4

\* Such is the chain, and extractData can rely on it.
LEMMA ExtractedFacts ==
    ASSUME Typed, Hist
    PROVE  /\ Extracted \in Seq(Pair) /\ ChainFrom(Extracted)
           /\ Tellable(told, Extracted)
           /\ \A m \in Parsed : m \in Fresh(dst.list, "RSP")
  <1> DEFINE b == Len(pairs)
  <1>1. /\ pairs \in Seq(Pair) /\ b \in Nat
        /\ \A j \in 1..b : /\ pairs[j].reqDone /\ ReqTold(told, pairs[j].id)
                           /\ pairs[j].rspDone <=> pairs[j].rsp # None
    BY DEF Typed, Hist
  <1>2. CASE ~FoundRequest
    <2>1. Extracted = pairs /\ Parsed = {} /\ Fresh(src.list, "REQ") = {}
      BY <1>2 DEF Extracted, Parsed, FoundRequest
    <2>2. (b + 1)..b = {} /\ b >= b /\ \A j \in 1..b : j <= b
      BY <1>1
    <2>3. ChainFrom(pairs)
      BY <1>1, <2>1, <2>2 DEF ChainFrom
    <2>4. Tellable(told, pairs)
      BY <1>1 DEF Tellable, NewRsp
    <2> QED
      BY <1>1, <2>1, <2>3, <2>4
  <1>3. CASE FoundRequest
    <2> DEFINE base == WithRequests
               w    == WithResponses
               ps   == w.pairs
               n    == Len(base)
               F    == Fresh(src.list, "REQ")
               G    == Fresh(dst.list, "RSP")
    <2>1. /\ base \in Seq(Pair) /\ RequestsUpTo(base, Len(src.list))
          /\ w \in Matching /\ ResponsesUpTo(w, base, Len(dst.list))
      BY RequestsPaired, ResponsesPaired
    <2>2. Extracted = ps /\ Parsed = w.parsed
      BY <1>3 DEF Extracted, Parsed
    <2> HIDE DEF base, w
    <2>3. /\ ps \in Seq(Pair) /\ Len(ps) = n /\ n \in Nat
          /\ \A m \in w.parsed : m \in G
          /\ \A j \in 1..n : \/ ps[j] = base[j]
                             \/ \E m \in w.parsed : Answers(ps[j], base[j], dst.list[m])
          /\ \A i, j \in 1..n : ps[i] # base[i] /\ ps[j] # base[j]
                                /\ ps[i].rsp = ps[j].rsp => i = j
      BY <2>1 DEF ResponsesUpTo, Matching
    <2>4. \A m \in F : m <= Len(src.list)
      BY TypedLists, FreshFacts
    <2>5. /\ n >= b
          /\ \A j \in 1..b : base[j] = pairs[j]
          /\ \A j \in (b + 1)..n : \E m \in F : base[j] = NewPair(src.list[m])
          /\ \A i, j \in (b + 1)..n : base[i].id = base[j].id => i = j
          /\ \A m \in F : \E j \in (b + 1)..n : base[j] = NewPair(src.list[m])
      BY <2>1, <2>4 DEF RequestsUpTo
    <2>6. \A j \in 1..n : base[j] \in Pair /\ ps[j] \in Pair
      BY <2>1, <2>3
    <2>7. /\ \A j \in 1..n : j \in 1..b \/ j \in (b + 1)..n
          /\ \A j \in 1..b : j \in 1..n /\ j <= b
          /\ \A j \in (b + 1)..n : j \in 1..n
      BY <1>1, <2>3, <2>5
    <2>8. \A s : /\ NewPair(s).id = s.id /\ NewPair(s).nxt = s.nxt
                 /\ NewPair(s).reqDone = FALSE /\ NewPair(s).rsp = None
                 /\ NewPair(s).rspDone = FALSE
      BY DEF NewPair
    <2>9. /\ \A j \in 1..b : base[j].reqDone /\ (base[j].rspDone <=> base[j].rsp # None)
          /\ \A j \in (b + 1)..n : ~base[j].reqDone /\ base[j].rsp = None /\ ~base[j].rspDone
      <3>1. \A j \in 1..b : base[j].reqDone /\ (base[j].rspDone <=> base[j].rsp # None)
        BY <1>1, <2>5, Zenon
      <3>2. ASSUME NEW j \in (b + 1)..n
            PROVE  ~base[j].reqDone /\ base[j].rsp = None /\ ~base[j].rspDone
        <4>1. PICK m \in F : base[j] = NewPair(src.list[m])
          BY <2>5
        <4>2. NewPair(src.list[m]).reqDone = FALSE /\ NewPair(src.list[m]).rsp = None
              /\ NewPair(src.list[m]).rspDone = FALSE
          BY <2>8
        <4> QED
          BY <4>1, <4>2, Zenon
      <3> QED
        BY <3>1, <3>2
    <2>10. \A j \in 1..n : /\ ps[j].id = base[j].id /\ ps[j].nxt = base[j].nxt
                           /\ ps[j].reqDone = base[j].reqDone
                           /\ ps[j].rspDone = base[j].rspDone
      <3> TAKE j \in 1..n
      <3>1. CASE ps[j] = base[j]
        BY <3>1
      <3>2. ASSUME NEW m \in w.parsed, Answers(ps[j], base[j], dst.list[m])
            PROVE  /\ ps[j].id = base[j].id /\ ps[j].nxt = base[j].nxt
                   /\ ps[j].reqDone = base[j].reqDone
                   /\ ps[j].rspDone = base[j].rspDone
        <4>1. base[j] \in Pair /\ ps[j] = [base[j] EXCEPT !.rsp = dst.list[m].id]
          BY <2>6, <3>2 DEF Answers
        <4> HIDE DEF ps
        <4> QED
          BY <4>1 DEF Pair
      <3> QED
        BY <2>3, <3>1, <3>2
    <2>11. ASSUME NEW j \in 1..n, ps[j] # base[j]
           PROVE  /\ NewRsp(ps[j])
                  /\ \E m \in w.parsed : /\ ps[j].rsp = dst.list[m].id
                                         /\ ps[j].nxt = dst.list[m].ack
      <3>1. PICK m \in w.parsed : Answers(ps[j], base[j], dst.list[m])
        BY <2>3, <2>11
      <3>2. /\ base[j].rsp = None /\ base[j].nxt = dst.list[m].ack
            /\ ps[j].rsp = dst.list[m].id
        BY <2>6, <3>1 DEF Answers, Pair
      <3>3. dst.list[m].id \in Request /\ dst.list[m].id # None
        BY <2>3, FreshFacts, PairAssumption DEF Request
      <3>4. ~base[j].rspDone
        BY <2>7, <2>9, <3>2
      <3> QED
        BY <2>10, <3>2, <3>3, <3>4 DEF NewRsp
    <2>12. ASSUME NEW j \in 1..n, ps[j] = base[j]
           PROVE  /\ ~NewRsp(ps[j])
                  /\ ps[j].rsp # None => j <= b /\ ps[j].rsp = pairs[j].rsp /\ ps[j].rspDone
      BY <2>5, <2>7, <2>9, <2>12 DEF NewRsp
    <2> HIDE DEF ps, n
    <2>13. ASSUME NEW m \in F
           PROVE  \E j \in 1..n : ~ps[j].reqDone /\ ps[j].id = src.list[m].id
      <3>1. PICK j \in (b + 1)..n : base[j] = NewPair(src.list[m])
        BY <2>5
      <3>2. j \in 1..n /\ base[j].id = src.list[m].id /\ ~base[j].reqDone
        BY <2>7, <2>8, <3>1
      <3> QED
        BY <2>10, <3>2
    <2>14. ASSUME NEW j \in (b + 1)..n
           PROVE  /\ ~ps[j].reqDone
                  /\ \E m \in F : ps[j].id = src.list[m].id /\ ps[j].nxt = src.list[m].nxt
      <3>1. PICK m \in F : base[j] = NewPair(src.list[m])
        BY <2>5
      <3>2. base[j].id = src.list[m].id /\ base[j].nxt = src.list[m].nxt
        BY <2>8, <3>1
      <3> QED
        BY <2>7, <2>9, <2>10, <3>2
    <2>15. ChainFrom(ps)
      <3>1. \A j \in 1..b : /\ ps[j].id = pairs[j].id /\ ps[j].nxt = pairs[j].nxt
                            /\ ps[j].reqDone
        BY <2>5, <2>7, <2>9, <2>10
      <3>2. \A j \in 1..n : ps[j].rsp # None =>
              \/ j <= b /\ ps[j].rsp = pairs[j].rsp /\ ps[j].rspDone
              \/ /\ NewRsp(ps[j])
                 /\ \E m \in Parsed : /\ ps[j].rsp = dst.list[m].id
                                      /\ ps[j].nxt = dst.list[m].ack
        BY <2>2, <2>11, <2>12
      <3>3. ASSUME NEW j \in 1..n, ps[j].rspDone PROVE ps[j].rsp # None
        BY <2>7, <2>9, <2>10, <2>11, <3>3 DEF NewRsp
      <3> QED
        BY <2>3, <2>5, <2>13, <2>14, <3>1, <3>2, <3>3 DEF ChainFrom
    <2>16. Tellable(told, ps)
      <3>1. ASSUME NEW j \in 1..n PROVE ps[j].reqDone <=> ReqTold(told, ps[j].id)
        <4>1. CASE j \in 1..b
          BY <1>1, <2>5, <2>7, <2>9, <2>10, <4>1
        <4>2. CASE j \in (b + 1)..n
          BY <2>14, <4>2, FreshUntold
        <4> QED
          BY <2>7, <4>1, <4>2
      <3>2. ASSUME NEW i \in 1..n, NEW j \in 1..n, ~ps[i].reqDone, ~ps[j].reqDone,
                   ps[i].id = ps[j].id
            PROVE  i = j
        <4>1. i \in (b + 1)..n /\ j \in (b + 1)..n
          BY <2>7, <2>9, <2>10, <3>2
        <4> QED
          BY <2>5, <2>10, <3>2, <4>1
      <3>3. ASSUME NEW j \in 1..n, NewRsp(ps[j]) PROVE ~RspTold(told, ps[j].rsp)
        <4>1. PICK m \in w.parsed : ps[j].rsp = dst.list[m].id
          BY <2>11, <2>12, <3>3
        <4> QED
          BY <2>3, <4>1, FreshUntold
      <3>4. \A i, j \in 1..n : NewRsp(ps[i]) /\ NewRsp(ps[j])
                               /\ ps[i].rsp = ps[j].rsp => i = j
        BY <2>3, <2>12
      <3> QED
        BY <2>3, <3>1, <3>2, <3>3, <3>4 DEF Tellable
    <2> QED
      BY <2>2, <2>3, <2>15, <2>16
  <1> QED
    BY <1>2, <1>3

\* m is l with the positions in is marked.
Remarked(m, l, is) ==
    /\ Len(m) = Len(l)
    /\ \A i \in 1..Len(l) : /\ m[i].seq = l[i].seq /\ m[i].nxt = l[i].nxt
                            /\ m[i].ack = l[i].ack /\ m[i].type = l[i].type
                            /\ m[i].id = l[i].id /\ m[i].fin = l[i].fin
                            /\ m[i].time = l[i].time
                            /\ m[i].processed <=> l[i].processed \/ i \in is

\* Mark changes nothing but the marks.
LEMMA MarkFacts ==
    ASSUME NEW o, OrderIn(o, Segment), NEW is
    PROVE  OrderIn(Mark(o, is), Segment) /\ Remarked(Mark(o, is).list, o.list, is)
  <1> DEFINE l == o.list
             m == [i \in DOMAIN l |-> IF i \in is THEN [l[i] EXCEPT !.processed = TRUE]
                                      ELSE l[i]]
  <1>1. /\ o \in [list : Seq(Segment), last : Nat, num : Nat]
        /\ l \in Seq(Segment) /\ Len(l) \in Nat /\ DOMAIN l = 1..Len(l)
        /\ o.last \in 0..Len(l) /\ (l # <<>> => o.last # 0)
    BY DEF OrderIn
  <1>2. Mark(o, is) = [o EXCEPT !.list = m]
    BY <1>1 DEF Mark
  <1>3. \A i \in 1..Len(l) : l[i] \in Segment
    BY <1>1
  <1>4. \A s \in Segment : [s EXCEPT !.processed = TRUE] \in Segment
    BY DEF Segment
  <1>5. m \in [1..Len(l) -> Segment]
    BY <1>1, <1>3, <1>4
  <1>6. m \in Seq(Segment) /\ Len(m) = Len(l)
    BY <1>1, <1>5
  <1>7. Remarked(m, l, is)
    <2> SUFFICES ASSUME NEW i \in 1..Len(l)
                 PROVE  /\ m[i].seq = l[i].seq /\ m[i].nxt = l[i].nxt
                        /\ m[i].ack = l[i].ack /\ m[i].type = l[i].type
                        /\ m[i].id = l[i].id /\ m[i].fin = l[i].fin
                        /\ m[i].time = l[i].time
                        /\ m[i].processed <=> l[i].processed \/ i \in is
      BY <1>6, Zenon DEF Remarked
    <2>1. CASE i \in is
      <3>1. m[i] = [l[i] EXCEPT !.processed = TRUE]
        BY <1>1, <2>1
      <3>2. l[i] \in Segment
        BY <1>3
      <3> HIDE DEF m, l
      <3>3. m[i].processed = TRUE
        BY <3>1, <3>2 DEF Segment
      <3>4. /\ m[i].seq = l[i].seq /\ m[i].nxt = l[i].nxt
            /\ m[i].ack = l[i].ack /\ m[i].type = l[i].type
            /\ m[i].id = l[i].id /\ m[i].fin = l[i].fin
            /\ m[i].time = l[i].time
        BY <3>1, <3>2 DEF Segment
      <3> QED
        BY <2>1, <3>3, <3>4
    <2>2. CASE i \notin is
      <3>1. m[i] = l[i]
        BY <1>1, <2>2
      <3> HIDE DEF m, l
      <3> QED
        BY <2>2, <3>1
    <2> QED
      BY <2>1, <2>2
  <1> HIDE DEF m
  <1>8. Mark(o, is).list = m /\ OrderIn(Mark(o, is), Segment)
    <2>1. Len(m) = 0 => m = <<>>
      BY <1>6
    <2>2. m # <<>> => l # <<>>
      BY <1>1, <1>6
    <2> QED
      BY <1>1, <1>2, <1>6, <2>2 DEF OrderIn
  <1> QED
    BY <1>7, <1>8

\* Marks do not matter for what the list holds.
LEMMA ListOfRemarked ==
    ASSUME NEW l, NEW m, NEW is, Remarked(m, l, is),
           NEW type, NEW n, NEW caught, NEW t, ListOf(l, type, n, caught, t)
    PROVE  ListOf(m, type, n, caught, t)
  <1>1. /\ Len(m) = Len(l)
        /\ \A i \in 1..Len(l) : m[i].type = l[i].type /\ m[i].id = l[i].id
                                /\ m[i].time = l[i].time
    BY DEF Remarked
  <1>2. /\ \A i \in 1..Len(l) : /\ l[i].type \in {type, "none"} /\ l[i].time < t
                                /\ l[i].type = type => /\ l[i].id \in 1..n
                                                       /\ <<type, l[i].id>> \in caught
        /\ \A i, j \in 1..Len(l) :
             l[i].type = type /\ l[j].type = type /\ l[i].id = l[j].id => i = j
    BY DEF ListOf
  <1>3. \A i \in 1..Len(m) : /\ m[i].type \in {type, "none"} /\ m[i].time < t
                             /\ m[i].type = type => /\ m[i].id \in 1..n
                                                    /\ <<type, m[i].id>> \in caught
    BY <1>1, <1>2
  <1>4. \A i, j \in 1..Len(m) :
          m[i].type = type /\ m[j].type = type /\ m[i].id = m[j].id => i = j
    BY <1>1, <1>2
  <1> QED
    BY <1>3, <1>4 DEF ListOf

\* The messages that are marked then.
LEMMA MarkedRemarked ==
    ASSUME NEW l, NEW m, NEW is, Remarked(m, l, is), NEW type, NEW k
    PROVE  Marked(m, type, k) <=>
             \/ Marked(l, type, k)
             \/ \E i \in 1..Len(l) : i \in is /\ l[i].type = type /\ l[i].id = k
  <1>1. /\ Len(m) = Len(l)
        /\ \A i \in 1..Len(l) : /\ m[i].type = l[i].type /\ m[i].id = l[i].id
                                /\ m[i].processed <=> l[i].processed \/ i \in is
    BY DEF Remarked
  <1> QED
    BY <1>1, Zenon DEF Marked

\* extractData drops a first part of the chain, and nothing else.
LEMMA DroppedFacts ==
    ASSUME NEW ps \in Seq(Pair)
    PROVE  \E c \in 0..Len(ps) : Dropped(ps) = 1..c /\ Cardinality(Dropped(ps)) = c
  <1> DEFINE n == Len(ps)
             D == Dropped(ps)
             R == {j \in 1..n : j \notin D}
  <1>1. n \in Nat
    OBVIOUS
  <1> HIDE DEF n
  <1>2. /\ D \subseteq 1..(n - 1)
        /\ \A i, j \in 1..n : i <= j /\ j \in D => i \in D
    <2>1. D = {j \in 1..(n - 1) : \E k \in j..(n - 1) : ps[k].rspDone}
      BY DEF Dropped, n
    <2>2. ASSUME NEW i \in 1..n, NEW j \in 1..n, i <= j, j \in D PROVE i \in D
      <3>1. PICK k \in j..(n - 1) : ps[k].rspDone
        BY <2>1, <2>2
      <3>2. i \in 1..(n - 1) /\ k \in i..(n - 1)
        BY <1>1, <2>1, <2>2, <3>1
      <3> QED
        BY <2>1, <3>1, <3>2
    <2> QED
      BY <2>1, <2>2
  <1> HIDE DEF D
  <1>3. CASE n = 0
    <2>1. D = 1..0 /\ 0 \in 0..n
      BY <1>2, <1>3
    <2> QED
      BY <2>1, FS_Interval DEF n, D
  <1>4. CASE n # 0
    <2>1. R \in SUBSET Nat /\ n \in R
      BY <1>1, <1>2, <1>4
    <2>2. PICK m \in R : \A k \in R : m <= k
      BY <2>1, LeastNumber
    <2>3. m \in 1..n /\ m \notin D /\ m - 1 \in 0..n
      BY <1>1, <2>2
    <2>4. D = 1..(m - 1)
      <3>1. ASSUME NEW j \in D PROVE j \in 1..(m - 1)
        <4>1. j \in 1..n
          BY <1>1, <1>2
        <4>2. ~(m <= j)
          BY <1>2, <2>3, <4>1
        <4> QED
          BY <2>3, <4>1, <4>2
      <3>2. ASSUME NEW j \in 1..(m - 1) PROVE j \in D
        <4>1. j \in 1..n /\ ~(m <= j)
          BY <1>1, <2>3
        <4> QED
          BY <2>2, <4>1
      <3> QED
        BY <3>1, <3>2
    <2>5. Cardinality(1..(m - 1)) = m - 1
      <3>1. 1 \in Int /\ m - 1 \in Int
        BY <2>3
      <3>2. Cardinality(1..(m - 1)) = IF 1 > m - 1 THEN 0 ELSE (m - 1) - 1 + 1
        BY <3>1, FS_Interval, Zenon
      <3> QED
        BY <2>3, <3>2
    <2> QED
      BY <2>3, <2>4, <2>5 DEF n, D
  <1> QED
    BY <1>3, <1>4

\* The chain that is left.
LEMMA ChainAfter ==
    ASSUME NEW ps \in Seq(Pair),
           pairs' = SubSeq([i \in DOMAIN ps |-> Done(ps[i])],
                           Cardinality(Dropped(ps)) + 1, Len(ps))
    PROVE  /\ pairs' \in Seq(Pair)
           /\ \E c \in Nat : \A i \in 1..Len(pairs') :
                c + i \in 1..Len(ps) /\ pairs'[i] = Done(ps[c + i])
           /\ \A j \in 1..Len(ps) : j \notin Dropped(ps) =>
                \E i \in 1..Len(pairs') : pairs'[i] = Done(ps[j])
  <1> DEFINE n == Len(ps)
             d == [i \in DOMAIN ps |-> Done(ps[i])]
  <1>1. n \in Nat /\ DOMAIN ps = 1..n /\ \A i \in 1..n : ps[i] \in Pair
    OBVIOUS
  <1>2. \A p \in Pair : Done(p) \in Pair
    BY DEF Done, Pair
  <1>3. d \in [1..n -> Pair]
    BY <1>1, <1>2
  <1>4. d \in Seq(Pair) /\ Len(d) = n /\ \A i \in 1..n : d[i] = Done(ps[i])
    BY <1>1, <1>3
  <1>5. PICK c \in 0..n : Dropped(ps) = 1..c /\ Cardinality(Dropped(ps)) = c
    BY DroppedFacts
  <1> HIDE DEF d, n
  <1>6. pairs' = SubSeq(d, c + 1, n)
    BY <1>5 DEF d, n
  <1>7. /\ SubSeq(d, c + 1, n) \in Seq(Pair) /\ Len(SubSeq(d, c + 1, n)) = n - c
        /\ \A i \in 1..(n - c) : c + i \in 1..n /\ SubSeq(d, c + 1, n)[i] = d[c + i]
    BY <1>1, <1>4, <1>5
  <1>8. \A i \in 1..Len(pairs') : c + i \in 1..n /\ pairs'[i] = Done(ps[c + i])
    BY <1>4, <1>6, <1>7
  <1>9. ASSUME NEW j \in 1..n, j \notin Dropped(ps)
        PROVE  \E i \in 1..Len(pairs') : pairs'[i] = Done(ps[j])
    <2>1. j - c \in 1..(n - c) /\ c + (j - c) = j
      BY <1>1, <1>5, <1>9
    <2>2. j - c \in 1..Len(pairs') /\ pairs'[j - c] = Done(ps[j])
      BY <1>4, <1>6, <1>7, <2>1
    <2> QED
      BY <2>2
  <1>10. c \in Nat
    BY <1>1, <1>5
  <1> QED
    BY <1>6, <1>7, <1>8, <1>9, <1>10 DEF n

\* A call of extractPair and extractData: it marks what it has parsed, and the
\* history stays right.
LEMMA Extraction ==
    ASSUME Typed, Hist, ExtractPair, ExtractData(Extracted)
    PROVE  /\ OrderIn(src', Segment) /\ OrderIn(dst', Segment)
           /\ Remarked(src'.list, src.list, Fresh(src.list, "REQ"))
           /\ Remarked(dst'.list, dst.list, Parsed)
           /\ pairs' \in Seq(Pair) /\ told' \in Seq(Event)
           /\ ToldUpTo(told', told, Extracted, Len(Extracted))
           /\ \A i \in 1..Len(pairs') : \E j \in 1..Len(Extracted) :
                pairs'[i] = Done(Extracted[j])
           /\ \E c \in Nat : \A i \in 1..Len(pairs') :
                c + i \in 1..Len(Extracted) /\ pairs'[i] = Done(Extracted[c + i])
           /\ \A j \in 1..Len(Extracted) : j \notin Dropped(Extracted) =>
                \E i \in 1..Len(pairs') : pairs'[i] = Done(Extracted[j])
           /\ Hist'
  <1> DEFINE ps == Extracted
             F  == Fresh(src.list, "REQ")
  <1>1. OrderIn(src, Segment) /\ OrderIn(dst, Segment) /\ told \in Seq(Event)
    BY DEF Typed
  <1>2. /\ ps \in Seq(Pair) /\ ChainFrom(ps) /\ Tellable(told, ps)
        /\ \A m \in Parsed : m \in Fresh(dst.list, "RSP")
    BY ExtractedFacts
  <1>3. OrderIn(src', Segment) /\ Remarked(src'.list, src.list, F)
    BY <1>1, MarkFacts DEF ExtractPair
  <1>4. OrderIn(dst', Segment) /\ Remarked(dst'.list, dst.list, Parsed)
    <2>1. CASE FoundRequest
      BY <1>1, <2>1, MarkFacts DEF ExtractPair, Parsed
    <2>2. CASE ~FoundRequest
      <3>1. dst' = dst /\ Parsed = {}
        BY <2>2 DEF ExtractPair, Parsed
      <3>2. \A i \in 1..Len(dst.list) : dst.list[i].processed \in BOOLEAN
        BY TypedLists, SegmentFields
      <3> QED
        BY <1>1, <3>1, <3>2 DEF Remarked
    <2> QED
      BY <2>1, <2>2
  <1>5. told' = TellAll(told, ps)
    BY DEF ExtractData, TellAll
  <1>6. Once(told) /\ After(told)
    BY DEF Hist
  <1> HIDE DEF ps, F
  <1>7. told' \in Seq(Event) /\ ToldUpTo(told', told, ps, Len(ps))
    BY <1>1, <1>2, <1>5, <1>6, AllTold
  <1>8. /\ pairs' \in Seq(Pair)
        /\ \A i \in 1..Len(pairs') : \E j \in 1..Len(ps) : pairs'[i] = Done(ps[j])
        /\ \E c \in Nat : \A i \in 1..Len(pairs') :
             c + i \in 1..Len(ps) /\ pairs'[i] = Done(ps[c + i])
        /\ \A j \in 1..Len(ps) : j \notin Dropped(ps) =>
             \E i \in 1..Len(pairs') : pairs'[i] = Done(ps[j])
    <2>1. pairs' = SubSeq([i \in DOMAIN ps |-> Done(ps[i])],
                          Cardinality(Dropped(ps)) + 1, Len(ps))
      BY DEF ExtractData, ps
    <2>2. /\ pairs' \in Seq(Pair)
          /\ \E c \in Nat : \A i \in 1..Len(pairs') :
               c + i \in 1..Len(ps) /\ pairs'[i] = Done(ps[c + i])
          /\ \A j \in 1..Len(ps) : j \notin Dropped(ps) =>
               \E i \in 1..Len(pairs') : pairs'[i] = Done(ps[j])
      BY <1>2, <2>1, ChainAfter
    <2> QED
      BY <2>2
  <1>9. Hist'
    <2>1. Once(told') /\ After(told')
      BY <1>7 DEF ToldUpTo
    <2>2. /\ \A k : ReqTold(told', k) <=> ReqTold(told, k)
                      \/ \E j \in 1..Len(ps) : ~ps[j].reqDone /\ ps[j].id = k
          /\ \A k : RspTold(told', k) <=> RspTold(told, k)
                      \/ \E j \in 1..Len(ps) : NewRsp(ps[j]) /\ ps[j].rsp = k
      BY <1>7 DEF ToldUpTo
    <2>3. /\ \A k : ReqTold(told, k) <=> Marked(src.list, "REQ", k)
          /\ \A k : RspTold(told, k) => Marked(dst.list, "RSP", k)
      BY DEF Hist
    <2>4. /\ \A m \in F : /\ m \in 1..Len(src.list) /\ src.list[m].type = "REQ"
          /\ \A m \in Parsed : m \in 1..Len(dst.list) /\ dst.list[m].type = "RSP"
      BY <1>2, FreshFacts DEF F
    <2>5. /\ \A j \in 1..Len(ps) : ~ps[j].reqDone =>
               \E m \in F : ps[j].id = src.list[m].id
          /\ \A m \in F : \E j \in 1..Len(ps) :
               ~ps[j].reqDone /\ ps[j].id = src.list[m].id
          /\ \A j \in 1..Len(ps) : NewRsp(ps[j]) =>
               \E m \in Parsed : ps[j].rsp = dst.list[m].id
      <3>1. Len(ps) \in Nat /\ Len(pairs) \in Nat /\ Len(ps) >= Len(pairs)
        BY <1>2 DEF Typed, ChainFrom
      <3>2. \A j \in 1..Len(ps) : j \in 1..Len(pairs) \/ j \in (Len(pairs) + 1)..Len(ps)
        BY <3>1
      <3> QED
        BY <1>2, <3>2 DEF ChainFrom, NewRsp, F
    <2>6. \A k : Marked(src'.list, "REQ", k) <=>
             \/ Marked(src.list, "REQ", k)
             \/ \E i \in 1..Len(src.list) :
                  i \in F /\ src.list[i].type = "REQ" /\ src.list[i].id = k
      BY <1>3, MarkedRemarked
    <2>7. \A k : Marked(dst'.list, "RSP", k) <=>
             \/ Marked(dst.list, "RSP", k)
             \/ \E i \in 1..Len(dst.list) :
                  i \in Parsed /\ dst.list[i].type = "RSP" /\ dst.list[i].id = k
      BY <1>4, MarkedRemarked
    <2>8. ASSUME NEW k PROVE ReqTold(told', k) <=> Marked(src'.list, "REQ", k)
      <3>1. (\E j \in 1..Len(ps) : ~ps[j].reqDone /\ ps[j].id = k)
              => \E i \in 1..Len(src.list) :
                   i \in F /\ src.list[i].type = "REQ" /\ src.list[i].id = k
        <4> SUFFICES ASSUME NEW j \in 1..Len(ps), ~ps[j].reqDone, ps[j].id = k
                     PROVE  \E i \in 1..Len(src.list) :
                              i \in F /\ src.list[i].type = "REQ" /\ src.list[i].id = k
          OBVIOUS
        <4>1. PICK i \in F : ps[j].id = src.list[i].id
          BY <2>5
        <4>2. i \in 1..Len(src.list) /\ src.list[i].type = "REQ"
          BY <2>4
        <4> QED
          BY <4>1, <4>2
      <3>2. ASSUME NEW i \in 1..Len(src.list), i \in F, src.list[i].id = k
            PROVE  \E j \in 1..Len(ps) : ~ps[j].reqDone /\ ps[j].id = k
        BY <2>5, <3>2
      <3> QED
        BY <2>2, <2>3, <2>6, <3>1, <3>2, Zenon
    <2>9. \A k : RspTold(told', k) => Marked(dst'.list, "RSP", k)
      BY <2>2, <2>3, <2>4, <2>5, <2>7
    <2>10. ASSUME NEW i \in 1..Len(pairs')
           PROVE  /\ pairs'[i].reqDone /\ ReqTold(told', pairs'[i].id)
                  /\ pairs'[i].rspDone <=> pairs'[i].rsp # None
      <3>1. PICK j \in 1..Len(ps) : pairs'[i] = Done(ps[j])
        BY <1>8
      <3>2. ps[j] \in Pair
        BY <1>2
      <3>3. /\ pairs'[i].reqDone /\ pairs'[i].id = ps[j].id
            /\ pairs'[i].rsp = ps[j].rsp /\ pairs'[i].rspDone = (ps[j].rsp # None)
        BY <3>1, <3>2 DEF Done, Pair
      <3>4. ReqTold(told', ps[j].id)
        BY <1>2, <2>2, <3>2 DEF Tellable, Pair
      <3> QED
        BY <3>3, <3>4
    <2> QED
      BY <2>1, <2>8, <2>9, <2>10 DEF Hist
  <1> QED
    BY <1>3, <1>4, <1>7, <1>8, <1>9 DEF ps, F

-----------------------------------------------------------------------------
(***************************************************************************)
(* The client's segments, as long as tcp_order keeps them in order         *)
(***************************************************************************)
AllSeen == \A k \in 1..sent : <<"REQ", k>> \in captured

\* The number of the first byte
First == cseq - sent

\* While the flow is in the table, its client's segments are in the order they
\* were sent in, and there is no FIN.
Ahead ==
    phase = "table" =>
        /\ cseq < Size => UpTo(src.list, cseq)
        /\ AllSeen => /\ Len(src.list) = sent
                      /\ \A i \in 1..sent : /\ src.list[i].seq = Wrap(First + i - 1)
                                            /\ src.list[i].nxt = Wrap(First + i)
        /\ Fins(src.list) = {} /\ Fins(dst.list) = {}

\* A captured request is in the list, before the FIN when there is one, and was
\* processed when the flow is done.
Complete ==
    Ordered =>
        /\ \A k \in Request : <<"REQ", k>> \in captured =>
             \E i \in 1..Len(src.list) : src.list[i].type = "REQ" /\ src.list[i].id = k
        /\ phase = "queued" => \A i \in 1..Len(src.list) :
             src.list[i].type = "REQ" => InScope(src.list, i)
        /\ phase = "done" => \A i \in 1..Len(src.list) :
             src.list[i].type = "REQ" => src.list[i].processed

\* The numbers of a request and of its response agree.
Numbers ==
    /\ Ordered =>
         /\ \A i \in 1..Len(src.list) : src.list[i].type = "REQ" =>
              src.list[i].nxt = Wrap(First + src.list[i].id)
         /\ \A j \in 1..Len(pairs) : pairs[j].nxt = Wrap(First + pairs[j].id)
    /\ ~pipelined =>
         /\ sent <= answered + 1
         /\ \A i \in 1..Len(dst.list) : dst.list[i].type = "RSP" =>
              dst.list[i].ack = Wrap(First + dst.list[i].id)
    /\ ~pipelined /\ Ordered =>
         \A i \in 1..Len(told) : told[i].ev = "RSP" => told[i].rsp = told[i].req

\* The client sends less than a full turn of numbers.
LEMMA TypedNumbers ==
    ASSUME Typed
    PROVE  /\ sent \in Nat /\ answered \in Nat /\ answered <= sent
           /\ MaxRequests \in Nat /\ sent <= MaxRequests /\ MaxRequests < Size
           /\ Size \in Nat /\ sent < Size
           /\ cseq \in Nat /\ sseq \in Nat /\ clock \in Nat
           /\ First \in Word /\ First \in Nat /\ cseq = First + sent
  <1>1. MaxRequests \in Nat /\ MaxRequests < Size
    BY PairAssumption DEF Size
  <1>2. /\ sent \in 0..MaxRequests /\ answered \in 0..sent
        /\ cseq \in Nat /\ sseq \in Nat /\ clock \in Nat /\ First \in Word
    BY DEF Typed, First
  <1>3. First \in Nat /\ Size \in Nat
    BY <1>2, WordFacts, SizePositive
  <1>4. cseq = First + sent
    BY <1>1, <1>2 DEF First
  <1> HIDE DEF First, Size
  <1> QED
    BY <1>1, <1>2, <1>3, <1>4

\* A segment that was sent last is stored at the end.
LEMMA ClientAtEnd ==
    ASSUME Typed, Ahead, phase = "table", Ordered,
           NEW s \in Segment, s.seq = Wrap(cseq)
    PROVE  AtEnd(TcpOrder(src, s).list, src.list, s)
  <1> DEFINE l == src.list
  <1>1. /\ OrderIn(src, Segment) /\ cseq \in Nat /\ First \in Nat
        /\ sent \in Nat /\ sent < Size /\ cseq = First + sent
    BY TypedNumbers DEF Typed
  <1>2. CASE cseq < Size
    <2>1. cseq \in Word /\ s.seq = cseq
      <3>1. cseq \in 0..(Size - 1)
        BY <1>1, <1>2, SizePositive
      <3> QED
        BY <3>1, WrapIsWord, WordFacts
    <2>2. UpTo(l, s.seq)
      BY <1>2, <2>1 DEF Ahead
    <2> QED
      BY <1>1, <2>2, Segments, LargerAtEnd
  <1>3. CASE AllSeen
    <2>1. /\ Len(l) = sent
          /\ \A i \in 1..sent : /\ l[i].seq = Wrap(First + i - 1)
                                /\ l[i].nxt = Wrap(First + i)
      BY <1>3 DEF Ahead
    <2>2. CASE l = <<>>
      BY <2>2, FirstAtEnd
    <2>3. CASE l # <<>>
      <3>1. l \in Seq(Segment) /\ sent > 0
        BY <1>1, <2>1, <2>3 DEF OrderIn
      <3>2. Contiguous(l)
        <4> SUFFICES ASSUME NEW i \in 1..(Len(l) - 1) PROVE l[i].nxt = l[i + 1].seq
          BY DEF Contiguous
        <4>1. i \in 1..sent /\ i + 1 \in 1..sent /\ First + (i + 1) - 1 = First + i
          BY <1>1, <2>1
        <4> QED
          BY <2>1, <4>1
      <3>3. l[Len(l)].nxt = s.seq
        BY <1>1, <2>1, <3>1
      <3>4. ASSUME NEW i \in 1..Len(l) PROVE l[i].seq # s.seq
        <4>1. /\ First + i - 1 \in Int /\ First + i - 1 < cseq
              /\ cseq < (First + i - 1) + Size
          BY <1>1, <2>1, SizePositive
        <4>2. Wrap(First + i - 1) # Wrap(cseq)
          BY <1>1, <4>1, WrapApart
        <4> QED
          BY <2>1, <4>2
      <3> QED
        BY <1>1, <2>3, <3>2, <3>3, <3>4, Segments, NextAtEnd
    <2> QED
      BY <2>2, <2>3
  <1> QED
    BY <1>2, <1>3 DEF Ordered, AllSeen, Size

\* The segments of m are those of l and perhaps one like s.
GrownBy(m, l, s) ==
    /\ \A q \in 1..Len(m) : (\E i \in 1..Len(l) : m[q] = l[i]) \/ Like(m[q], s)
    /\ \A i \in 1..Len(l) : \E q \in 1..Len(m) : m[q] = l[i]

\* Time goes on, and more is captured.
LEMMA ListOfLater ==
    ASSUME NEW l \in Seq(Segment), NEW type, NEW n \in Nat, NEW k \in Nat, n <= k,
           NEW caught, NEW more, caught \subseteq more,
           NEW t \in Nat, NEW u \in Nat, t <= u, ListOf(l, type, n, caught, t)
    PROVE  ListOf(l, type, k, more, u)
  <1>1. /\ \A i \in 1..Len(l) : /\ l[i].type \in {type, "none"} /\ l[i].time < t
                                /\ l[i].type = type => /\ l[i].id \in 1..n
                                                       /\ <<type, l[i].id>> \in caught
        /\ \A i, j \in 1..Len(l) :
             l[i].type = type /\ l[j].type = type /\ l[i].id = l[j].id => i = j
    BY DEF ListOf
  <1>2. \A i \in 1..Len(l) : l[i].time \in Nat
    <2>1. \A i \in 1..Len(l) : l[i] \in Segment
      OBVIOUS
    <2> QED
      BY <2>1, SegmentFields
  <1>3. \A i \in 1..Len(l) : /\ l[i].type \in {type, "none"} /\ l[i].time < u
                             /\ l[i].type = type => /\ l[i].id \in 1..k
                                                    /\ <<type, l[i].id>> \in more
    BY <1>1, <1>2
  <1> QED
    BY <1>1, <1>3 DEF ListOf

\* tcp_order keeps the lists as they should be.
LEMMA Stores ==
    ASSUME NEW o, OrderIn(o, Segment), NEW s \in Segment,
           NEW type \in {"REQ", "RSP"}, NEW n \in Nat, NEW k \in Nat, n <= k,
           NEW caught, NEW more, caught \subseteq more, NEW t \in Nat,
           ListOf(o.list, type, n, caught, t), s.time = t,
           \/ s.type = "none"
           \/ s.type = type /\ s.id = n + 1 /\ n + 1 <= k /\ <<type, n + 1>> \in more
    PROVE  /\ OrderIn(TcpOrder(o, s), Segment)
           /\ ListOf(TcpOrder(o, s).list, type, k, more, t + 1)
           /\ GrownBy(TcpOrder(o, s).list, o.list, s)
  <1> DEFINE l == o.list
             m == TcpOrder(o, s).list
  <1>1. l \in Seq(Segment) /\ Len(l) \in Nat
    BY DEF OrderIn
  <1>2. /\ OrderIn(TcpOrder(o, s), Segment)
        /\ \/ m = l
           \/ \E p \in 0..Len(l), e \in Segment : Inserted(m, l, p, e) /\ Like(e, s)
    BY StoredLike
  <1> HIDE DEF m, l
  <1>3. CASE m = l
    <2>1. ListOf(m, type, k, more, t + 1)
      BY <1>1, <1>3, ListOfLater DEF l
    <2>2. GrownBy(m, l, s)
      BY <1>3 DEF GrownBy
    <2> QED
      BY <1>2, <2>1, <2>2 DEF l, m
  <1>4. ASSUME NEW p \in 0..Len(l), NEW e \in Segment, Inserted(m, l, p, e), Like(e, s)
        PROVE  ListOf(m, type, k, more, t + 1) /\ GrownBy(m, l, s)
    <2>1. Grown(m, l, p, e)
      BY <1>1, <1>4, BackFacts
    <2>2. GrownBy(m, l, s)
      BY <1>4, <2>1 DEF Grown, GrownBy
    <2>3. /\ e.time = t
          /\ \/ e.type = "none"
             \/ e.type = type /\ e.id = n + 1 /\ n + 1 <= k /\ <<type, n + 1>> \in more
      BY <1>4 DEF Like
    <2>4. ListOf(m, type, k, more, t + 1)
      BY <1>1, <1>4, <2>3, ListOfInserted DEF l
    <2> QED
      BY <2>2, <2>4
  <1> QED
    BY <1>2, <1>3, <1>4 DEF l, m

\* A new segment is not marked.
LEMMA MarkedGrown ==
    ASSUME NEW l, NEW m, NEW s, GrownBy(m, l, s), s.processed = FALSE,
           NEW type, NEW k
    PROVE  Marked(m, type, k) <=> Marked(l, type, k)
  BY DEF GrownBy, Marked, Like

\* The history stays right as long as nothing is told and marked.
LEMMA HistUntouched ==
    ASSUME Hist, told' = told, pairs' = pairs,
           \A k : Marked(src'.list, "REQ", k) <=> Marked(src.list, "REQ", k),
           \A k : Marked(dst'.list, "RSP", k) <=> Marked(dst.list, "RSP", k)
    PROVE  Hist'
  BY DEF Hist

\* The time of the FIN, if all that there are have the same.
LEMMA FirstFinFacts ==
    ASSUME NEW l, NEW t, Len(l) \in Nat, DOMAIN l = 1..Len(l),
           \A i \in 1..Len(l) : l[i].fin => l[i].time = t
    PROVE  FirstFin(l) \in {None, t}
  <1>1. CASE Fins(l) = {}
    BY <1>1 DEF FirstFin
  <1>2. CASE Fins(l) # {}
    <2>1. Fins(l) \in SUBSET Nat /\ \A i \in Fins(l) : l[i].time = t
      BY DEF Fins
    <2>2. \E i \in Fins(l) : \A j \in Fins(l) : i <= j
      BY <1>2, <2>1, LeastNumber
    <2> DEFINE f == CHOOSE i \in Fins(l) : \A j \in Fins(l) : i <= j
    <2>3. f \in Fins(l)
      BY <2>2
    <2>4. FirstFin(l) = l[f].time
      BY <1>2 DEF FirstFin
    <2> QED
      BY <2>1, <2>3, <2>4
  <1> QED
    BY <1>1, <1>2

-----------------------------------------------------------------------------
(***************************************************************************)
(* The steps                                                               *)
(***************************************************************************)
Inv == Typed /\ Hist /\ Ahead /\ Complete /\ Numbers

\* It holds at first.
LEMMA InitInv == Init => Inv
  <1> SUFFICES ASSUME Init PROVE Inv
    OBVIOUS
  <1>1. /\ src = EmptyOrder /\ dst = EmptyOrder /\ pairs = <<>> /\ phase = "table"
        /\ sent = 0 /\ answered = 0 /\ cseq \in Word /\ sseq = 0 /\ clock = 0
        /\ pipelined = FALSE /\ captured = {} /\ told = <<>>
    BY PairAssumption DEF Init
  <1>2. /\ OrderIn(EmptyOrder, Segment) /\ EmptyOrder.list = <<>>
        /\ Len(EmptyOrder.list) = 0 /\ 1..0 = {} /\ DOMAIN EmptyOrder.list = {}
    BY DEF OrderIn, EmptyOrder
  <1>3. MaxRequests \in Nat /\ 0 \in 0..MaxRequests /\ 0 \in 0..0
    BY PairAssumption
  <1>4. cseq \in Nat /\ cseq - 0 \in Word
    BY <1>1, WordFacts
  <1>5. Typed
    <2>1. \A type, n, caught, t : ListOf(EmptyOrder.list, type, n, caught, t)
      BY <1>2 DEF ListOf
    <2>2. <<>> \in Seq(Pair) /\ <<>> \in Seq(Event)
      OBVIOUS
    <2> HIDE DEF Segment, Pair, Event
    <2> QED
      BY <1>1, <1>2, <1>3, <1>4, <2>1, <2>2 DEF Typed
  <1>6. Len(pairs) = 0 /\ Len(told) = 0
    BY <1>1
  <1>7. Hist
    BY <1>1, <1>2, <1>6 DEF Hist, Once, After, ReqTold, RspTold, Marked
  <1>8. Ahead
    BY <1>1, <1>2 DEF Ahead, UpTo, Fins
  <1>9. Complete
    BY <1>1, <1>2 DEF Complete
  <1>10. Numbers
    BY <1>1, <1>2, <1>6 DEF Numbers
  <1> QED
    BY <1>5, <1>7, <1>8, <1>9, <1>10 DEF Inv

\* What a captured request changes of the client's list.
LEMMA RequestStored ==
    ASSUME Inv, phase = "table", sent < MaxRequests,
           NEW s, s = Seg(cseq, sseq, "REQ", sent + 1, FALSE)
    PROVE  /\ OrderIn(TcpOrder(src, s), Segment)
           /\ ListOf(TcpOrder(src, s).list, "REQ", sent + 1,
                     captured \cup {<<"REQ", sent + 1>>}, clock + 1)
           /\ GrownBy(TcpOrder(src, s).list, src.list, s)
           /\ Ordered => AtEnd(TcpOrder(src, s).list, src.list, s)
           /\ s.seq = Wrap(cseq) /\ s.nxt = Wrap(cseq + 1) /\ s.type = "REQ"
           /\ s.id = sent + 1 /\ s.fin = FALSE /\ s.processed = FALSE
  <1>1. Typed /\ Ahead
    BY DEF Inv
  <1>2. sent \in Nat /\ cseq \in Int /\ sseq \in Int /\ clock \in Nat /\ sent + 1 \in Nat
    BY <1>1, TypedNumbers
  <1>3. /\ s \in Segment /\ s.seq = Wrap(cseq) /\ s.nxt = Wrap(cseq + 1)
        /\ s.type = "REQ" /\ s.id = sent + 1 /\ s.fin = FALSE /\ s.time = clock
        /\ s.processed = FALSE
    <2>1. Wrap(cseq) \in Word /\ Wrap(sseq) \in Word /\ Wrap(cseq + 1) \in Word
      BY <1>2, WrapIsWord
    <2> QED
      BY <1>2, <2>1 DEF Seg, Segment
  <1>4. OrderIn(src, Segment) /\ ListOf(src.list, "REQ", sent, captured, clock)
    BY <1>1 DEF Typed
  <1> DEFINE more == captured \cup {<<"REQ", sent + 1>>}
  <1>5. /\ captured \subseteq more /\ <<"REQ", sent + 1>> \in more
        /\ sent <= sent + 1 /\ sent + 1 <= sent + 1
    BY <1>2
  <1> HIDE DEF more
  <1>6. /\ OrderIn(TcpOrder(src, s), Segment)
        /\ ListOf(TcpOrder(src, s).list, "REQ", sent + 1, more, clock + 1)
        /\ GrownBy(TcpOrder(src, s).list, src.list, s)
    BY <1>2, <1>3, <1>4, <1>5, Stores
  <1>7. Ordered => AtEnd(TcpOrder(src, s).list, src.list, s)
    BY <1>1, <1>3, ClientAtEnd
  <1> QED
    BY <1>3, <1>6, <1>7 DEF more

\* A request, captured or not.
LEMMA StepSendRequest ==
    ASSUME Inv, NEW seen \in BOOLEAN, SendRequest(seen)
    PROVE  Inv'
  <1> DEFINE l == src.list
             m == src'.list
             s == Seg(cseq, sseq, "REQ", sent + 1, FALSE)
  <1>1. Typed /\ Hist /\ Ahead /\ Complete /\ Numbers
    BY DEF Inv
  <1>2. /\ phase = "table" /\ sent < MaxRequests /\ sent' = sent + 1
        /\ cseq' = cseq + 1 /\ clock' = clock + 1
        /\ pipelined' = (pipelined \/ sent > answered)
        /\ dst' = dst /\ pairs' = pairs /\ phase' = phase /\ answered' = answered
        /\ sseq' = sseq /\ told' = told
        /\ seen => src' = TcpOrder(src, s) /\ captured' = captured \cup {<<"REQ", sent + 1>>}
        /\ ~seen => src' = src /\ captured' = captured
    BY DEF SendRequest
  <1>3. /\ sent \in Nat /\ answered \in Nat /\ answered <= sent
        /\ MaxRequests \in Nat /\ MaxRequests < Size /\ Size \in Nat
        /\ cseq \in Nat /\ sseq \in Nat /\ clock \in Nat
        /\ First \in Word /\ First \in Nat /\ cseq = First + sent
    BY <1>1, TypedNumbers
  <1>4. First' = First
    BY <1>2, <1>3 DEF First
  <1>5. /\ l \in Seq(Segment) /\ Len(l) \in Nat
        /\ \A i \in 1..Len(l) : l[i].seq \in Nat /\ l[i].nxt \in Nat
    <2>1. /\ l \in Seq(Segment) /\ Len(l) \in Nat /\ \A i \in 1..Len(l) : l[i] \in Segment
      BY <1>1, TypedLists
    <2> QED
      BY <2>1, SegmentFields, WordFacts
  <1>6. seen => /\ OrderIn(src', Segment) /\ ListOf(m, "REQ", sent', captured', clock')
                /\ GrownBy(m, l, s) /\ (Ordered => AtEnd(m, l, s))
    BY <1>2, RequestStored
  <1>7. /\ s.seq = Wrap(cseq) /\ s.nxt = Wrap(cseq + 1) /\ s.type = "REQ"
        /\ s.id = sent + 1 /\ s.fin = FALSE /\ s.processed = FALSE
    BY <1>2, RequestStored
  <1> HIDE DEF s, l, m
  <1>8. Typed'
    <2>1. OrderIn(src', Segment) /\ OrderIn(dst', Segment)
      BY <1>1, <1>2, <1>6 DEF Typed
    <2>2. ListOf(m, "REQ", sent', captured', clock')
      <3>1. CASE ~seen
        <4>1. /\ ListOf(l, "REQ", sent, captured, clock) /\ m = l /\ sent <= sent'
              /\ captured \subseteq captured' /\ clock <= clock'
              /\ sent' \in Nat /\ clock' \in Nat
          BY <1>1, <1>2, <1>3, <3>1 DEF Typed, l, m
        <4> QED
          BY <1>3, <1>5, <4>1, ListOfLater
      <3> QED
        BY <1>6, <3>1
    <2>3. ListOf(dst'.list, "RSP", answered', captured', clock')
      <3>1. /\ ListOf(dst.list, "RSP", answered, captured, clock)
            /\ dst.list \in Seq(Segment) /\ answered <= answered
            /\ captured \subseteq captured' /\ clock <= clock' /\ clock' \in Nat
        BY <1>1, <1>2, <1>3, TypedLists DEF Typed
      <3>2. ListOf(dst.list, "RSP", answered, captured', clock')
        BY <1>3, <3>1, ListOfLater
      <3> QED
        BY <1>2, <3>2
    <2>4. /\ sent' \in 0..MaxRequests /\ answered' \in 0..sent' /\ cseq' \in Nat
          /\ sseq' \in Nat /\ clock' \in Nat /\ pipelined' \in BOOLEAN
      BY <1>1, <1>2, <1>3 DEF Typed
    <2>5. cseq' - sent' \in Word
      BY <1>3, <1>4 DEF First
    <2>6. sent + 1 \in Request
      BY <1>2, <1>3 DEF Request
    <2>7. /\ captured' \subseteq {"REQ", "RSP"} \X Request
          /\ \A k : <<"REQ", k>> \in captured' => k <= sent'
      <3>1. /\ captured \subseteq {"REQ", "RSP"} \X Request
            /\ \A k : <<"REQ", k>> \in captured => k \in Request /\ k <= sent
        BY <1>1 DEF Typed
      <3>2. \A k \in Request : k \in Nat
        BY DEF Request
      <3> QED
        BY <1>2, <1>3, <2>6, <3>1, <3>2
    <2> QED
      BY <1>1, <1>2, <2>1, <2>2, <2>3, <2>4, <2>5, <2>7 DEF Typed, m
  <1>9. Hist'
    <2>1. \A k : Marked(src'.list, "REQ", k) <=> Marked(src.list, "REQ", k)
      BY <1>2, <1>6, <1>7, MarkedGrown DEF l, m
    <2> QED
      BY <1>1, <1>2, <2>1, HistUntouched
  <1>10. seen /\ Ordered => /\ Len(m) = Len(l) + 1 /\ m[Len(l) + 1] = s
                            /\ \A i \in 1..Len(l) : m[i] = l[i]
    BY <1>6 DEF AtEnd, Inserted
  <1>11. Ordered' => Ordered
    <2> SUFFICES ASSUME Ordered' PROVE Ordered
      OBVIOUS
    <2>1. CASE cseq' < 2^WordSize
      <3>1. Size = 2^WordSize
        BY DEF Size
      <3> QED
        BY <1>2, <1>3, <2>1, <3>1 DEF Ordered
    <2>2. CASE \A k \in 1..sent' : <<"REQ", k>> \in captured'
      <3>1. \A k \in 1..sent : k \in 1..sent' /\ <<"REQ", k>> # <<"REQ", sent + 1>>
        BY <1>2, <1>3
      <3> QED
        BY <1>2, <2>2, <3>1 DEF Ordered
    <2> QED
      BY <2>1, <2>2 DEF Ordered
  <1>12. Ahead'
    <2>1. ASSUME cseq' < Size PROVE UpTo(m, cseq')
      <3>1. cseq < Size /\ cseq + 1 < Size
        BY <1>2, <1>3, <2>1
      <3>2. Ordered
        BY <3>1 DEF Ordered, Size
      <3>3. /\ \A i \in 1..Len(l) : l[i].seq < l[i].nxt /\ l[i].nxt <= cseq
            /\ \A i, j \in 1..Len(l) : i < j => l[i].nxt <= l[j].seq
        BY <1>1, <1>2, <3>1 DEF Ahead, UpTo, l
      <3>4. s.seq = cseq /\ s.nxt = cseq + 1
        <4>1. cseq \in 0..(Size - 1) /\ cseq + 1 \in 0..(Size - 1)
          BY <1>3, <3>1
        <4> QED
          BY <1>7, <4>1, WordFacts, WrapIsWord
      <3>5. CASE ~seen
        <4>1. m = l
          BY <1>2, <3>5 DEF l, m
        <4>2. \A i \in 1..Len(l) : l[i].nxt <= cseq'
          BY <1>2, <1>3, <1>5, <3>3
        <4> QED
          BY <3>3, <4>1, <4>2 DEF UpTo
      <3>6. CASE seen
        <4>1. /\ Len(m) = Len(l) + 1 /\ m[Len(l) + 1] = s
              /\ \A i \in 1..Len(l) : m[i] = l[i]
          BY <1>10, <3>2, <3>6
        <4>2. \A i \in 1..Len(m) : i \in 1..Len(l) \/ i = Len(l) + 1
          BY <1>5, <4>1
        <4>3. \A i \in 1..Len(m) : m[i].seq < m[i].nxt /\ m[i].nxt <= cseq'
          BY <1>2, <1>3, <1>5, <3>3, <3>4, <4>1, <4>2
        <4>4. ASSUME NEW i \in 1..Len(m), NEW j \in 1..Len(m), i < j
              PROVE  m[i].nxt <= m[j].seq
          <5>1. i \in 1..Len(l)
            BY <1>5, <4>1, <4>4
          <5> QED
            BY <1>5, <3>3, <3>4, <4>1, <4>2, <4>4, <5>1
        <4> QED
          BY <4>3, <4>4 DEF UpTo
      <3> QED
        BY <3>5, <3>6
    <2>2. ASSUME AllSeen'
          PROVE  /\ Len(m) = sent'
                 /\ \A i \in 1..sent' : /\ m[i].seq = Wrap(First + i - 1)
                                        /\ m[i].nxt = Wrap(First + i)
      <3>1. \A k \in 1..(sent + 1) : <<"REQ", k>> \in captured'
        BY <1>2, <2>2 DEF AllSeen
      <3>2. seen
        <4> SUFFICES ASSUME ~seen PROVE FALSE
          OBVIOUS
        <4>1. sent + 1 <= sent
          <5>1. <<"REQ", sent + 1>> \in captured
            BY <1>2, <1>3, <3>1
          <5> QED
            BY <1>1, <5>1 DEF Typed
        <4> QED
          BY <1>3, <4>1
      <3>3. AllSeen
        <4>1. \A k \in 1..sent : k \in 1..(sent + 1) /\ <<"REQ", k>> # <<"REQ", sent + 1>>
          BY <1>3
        <4> QED
          BY <1>2, <3>1, <3>2, <4>1 DEF AllSeen
      <3>4. /\ Len(l) = sent
            /\ \A i \in 1..sent : /\ l[i].seq = Wrap(First + i - 1)
                                  /\ l[i].nxt = Wrap(First + i)
        BY <1>1, <1>2, <3>3 DEF Ahead, l
      <3>5. /\ Len(m) = Len(l) + 1 /\ m[Len(l) + 1] = s
            /\ \A i \in 1..Len(l) : m[i] = l[i]
        BY <1>10, <3>2, <3>3 DEF Ordered, AllSeen
      <3>6. /\ \A i \in 1..sent' : i \in 1..sent \/ i = sent + 1
            /\ First + (sent + 1) - 1 = cseq /\ First + (sent + 1) = cseq + 1
        BY <1>2, <1>3
      <3> QED
        BY <1>2, <1>7, <3>4, <3>5, <3>6
    <2>3. Fins(m) = {}
      <3>1. Fins(l) = {}
        BY <1>1, <1>2 DEF Ahead, l
      <3>2. CASE ~seen
        BY <1>2, <3>1, <3>2 DEF l, m
      <3>3. CASE seen
        <4>1. GrownBy(m, l, s)
          BY <1>6, <3>3
        <4>2. DOMAIN l = 1..Len(l) /\ DOMAIN m = 1..Len(m)
          <5>1. m \in Seq(Segment)
            BY <1>6, <3>3 DEF OrderIn, m
          <5> QED
            BY <1>5, <5>1
        <4> QED
          BY <1>7, <3>1, <4>1, <4>2 DEF Fins, GrownBy, Like
      <3> QED
        BY <3>2, <3>3
    <2>4. Fins(dst'.list) = {}
      BY <1>1, <1>2 DEF Ahead
    <2> QED
      BY <1>4, <2>1, <2>2, <2>3, <2>4 DEF Ahead, m
  <1>13. Complete'
    <2> SUFFICES ASSUME Ordered', NEW k \in Request, <<"REQ", k>> \in captured'
                 PROVE  \E i \in 1..Len(m) : m[i].type = "REQ" /\ m[i].id = k
      BY <1>2 DEF Complete, Request, m
    <2>1. CASE <<"REQ", k>> \in captured
      <3>1. \E i \in 1..Len(l) : l[i].type = "REQ" /\ l[i].id = k
        BY <1>1, <1>11, <2>1 DEF Complete, l
      <3>2. CASE ~seen
        BY <1>2, <3>1, <3>2 DEF l, m
      <3>3. CASE seen
        BY <1>6, <3>1, <3>3 DEF GrownBy
      <3> QED
        BY <3>2, <3>3
    <2>2. CASE <<"REQ", k>> \notin captured
      <3>1. seen /\ k = sent + 1
        BY <1>2, <2>2
      <3>2. Len(l) + 1 \in 1..Len(m) /\ m[Len(l) + 1] = s
        BY <1>5, <1>10, <1>11, <3>1
      <3> QED
        BY <1>7, <3>1, <3>2
    <2> QED
      BY <2>1, <2>2
  <1>14. Numbers'
    <2>1. ASSUME Ordered', NEW i \in 1..Len(m), m[i].type = "REQ"
          PROVE  m[i].nxt = Wrap(First + m[i].id)
      <3>1. \A j \in 1..Len(l) : l[j].type = "REQ" => l[j].nxt = Wrap(First + l[j].id)
        BY <1>1, <1>11, <2>1 DEF Numbers, l
      <3>2. CASE ~seen
        <4>1. m = l
          BY <1>2, <3>2 DEF l, m
        <4> QED
          BY <2>1, <3>1, <4>1
      <3>3. CASE seen
        <4>1. /\ Len(m) = Len(l) + 1 /\ m[Len(l) + 1] = s
              /\ \A j \in 1..Len(l) : m[j] = l[j]
          BY <1>10, <1>11, <2>1, <3>3
        <4>2. i \in 1..Len(l) \/ i = Len(l) + 1
          BY <1>5, <4>1
        <4>3. First + (sent + 1) = cseq + 1
          BY <1>3
        <4> QED
          BY <1>7, <2>1, <3>1, <4>1, <4>2, <4>3
      <3> QED
        BY <3>2, <3>3
    <2>2. Ordered' => \A j \in 1..Len(pairs) : pairs[j].nxt = Wrap(First + pairs[j].id)
      BY <1>1, <1>11 DEF Numbers
    <2>3. ~pipelined' => ~pipelined /\ sent' <= answered' + 1
      <3>1. ~pipelined' => ~pipelined /\ ~(sent > answered)
        BY <1>2, Zenon
      <3>2. ~(sent > answered) => sent' <= answered' + 1
        BY <1>2, <1>3
      <3> QED
        BY <3>1, <3>2
    <2>4. ~pipelined' => \A i \in 1..Len(dst.list) : dst.list[i].type = "RSP" =>
                           dst.list[i].ack = Wrap(First + dst.list[i].id)
      BY <1>1, <2>3 DEF Numbers
    <2>5. ~pipelined' /\ Ordered' =>
            \A i \in 1..Len(told) : told[i].ev = "RSP" => told[i].rsp = told[i].req
      BY <1>1, <1>11, <2>3 DEF Numbers
    <2> QED
      BY <1>2, <1>4, <2>1, <2>2, <2>3, <2>4, <2>5 DEF Numbers, m
  <1> QED
    BY <1>8, <1>9, <1>12, <1>13, <1>14 DEF Inv

\* A response, captured or not.
LEMMA StepSendResponse ==
    ASSUME Inv, NEW seen \in BOOLEAN, SendResponse(seen)
    PROVE  Inv'
  <1> DEFINE l == dst.list
             m == dst'.list
             s == Seg(sseq, cseq, "RSP", answered + 1, FALSE)
  <1>1. Typed /\ Hist /\ Ahead /\ Complete /\ Numbers
    BY DEF Inv
  <1>2. /\ phase = "table" /\ answered < sent /\ answered' = answered + 1
        /\ sseq' = sseq + 1 /\ clock' = clock + 1
        /\ src' = src /\ pairs' = pairs /\ phase' = phase /\ sent' = sent
        /\ cseq' = cseq /\ pipelined' = pipelined /\ told' = told
        /\ seen => dst' = TcpOrder(dst, s)
                   /\ captured' = captured \cup {<<"RSP", answered + 1>>}
        /\ ~seen => dst' = dst /\ captured' = captured
    BY DEF SendResponse
  <1>3. /\ sent \in Nat /\ answered \in Nat /\ MaxRequests \in Nat /\ sent <= MaxRequests
        /\ cseq \in Nat /\ sseq \in Nat /\ clock \in Nat
        /\ First \in Nat /\ cseq = First + sent
    BY <1>1, TypedNumbers
  <1>4. First' = First
    BY <1>2 DEF First
  <1>5. /\ s \in Segment /\ s.ack = Wrap(cseq) /\ s.type = "RSP" /\ s.id = answered + 1
        /\ s.fin = FALSE /\ s.time = clock /\ s.processed = FALSE
    <2>1. Wrap(cseq) \in Word /\ Wrap(sseq) \in Word /\ Wrap(sseq + 1) \in Word
      BY <1>3, WrapIsWord
    <2> QED
      BY <1>3, <2>1 DEF Seg, Segment
  <1> HIDE DEF s
  <1>6. captured \subseteq captured' /\ \A k : <<"REQ", k>> \in captured' <=> <<"REQ", k>> \in captured
    BY <1>2
  <1>7. /\ OrderIn(dst, Segment) /\ ListOf(l, "RSP", answered, captured, clock)
        /\ l \in Seq(Segment)
    BY <1>1, TypedLists DEF Typed
  <1> HIDE DEF l, m
  <1>8. /\ OrderIn(dst', Segment) /\ ListOf(m, "RSP", answered', captured', clock')
        /\ GrownBy(m, l, s)
    <2>1. answered <= answered + 1 /\ answered + 1 \in Nat /\ clock <= clock + 1
          /\ clock + 1 \in Nat /\ answered + 1 <= answered + 1
      BY <1>3
    <2>2. CASE seen
      <3>1. dst' = TcpOrder(dst, s) /\ <<"RSP", answered + 1>> \in captured'
        BY <1>2, <2>2
      <3> QED
        BY <1>2, <1>3, <1>5, <1>6, <1>7, <2>1, <3>1, Stores DEF l, m
    <2>3. CASE ~seen
      <3>1. dst' = dst /\ m = l
        BY <1>2, <2>3 DEF l, m
      <3>2. ListOf(l, "RSP", answered + 1, captured', clock + 1)
        BY <1>3, <1>6, <1>7, <2>1, ListOfLater
      <3> QED
        BY <1>2, <1>7, <3>1, <3>2 DEF GrownBy
    <2> QED
      BY <2>2, <2>3
  <1>9. Typed'
    <2>1. ListOf(src'.list, "REQ", sent', captured', clock')
      <3>1. /\ ListOf(src.list, "REQ", sent, captured, clock)
            /\ src.list \in Seq(Segment) /\ sent <= sent
            /\ clock <= clock' /\ clock' \in Nat
        BY <1>1, <1>2, <1>3, TypedLists, SMTT(30) DEF Typed
      <3>2. ListOf(src.list, "REQ", sent, captured', clock')
        BY <1>3, <1>6, <3>1, ListOfLater
      <3> QED
        BY <1>2, <3>2
    <2>2. /\ sent' \in 0..MaxRequests /\ answered' \in 0..sent' /\ sseq' \in Nat
          /\ clock' \in Nat /\ answered + 1 \in Request
      BY <1>2, <1>3 DEF Request
    <2>3. captured' \subseteq {"REQ", "RSP"} \X Request
      BY <1>1, <1>2, <2>2 DEF Typed
    <2>4. \A k : <<"REQ", k>> \in captured' => k <= sent'
      BY <1>1, <1>2, <1>6 DEF Typed
    <2> QED
      BY <1>1, <1>2, <1>8, <2>1, <2>2, <2>3, <2>4 DEF Typed, m
  <1>10. Hist'
    <2>1. \A k : Marked(dst'.list, "RSP", k) <=> Marked(dst.list, "RSP", k)
      BY <1>5, <1>8, MarkedGrown DEF l, m
    <2> QED
      BY <1>1, <1>2, <2>1, HistUntouched
  <1>11. (Ordered' <=> Ordered) /\ (AllSeen' <=> AllSeen)
    BY <1>2, <1>6 DEF Ordered, AllSeen
  <1>12. Ahead'
    <2>1. Fins(m) = {}
      <3>1. DOMAIN l = 1..Len(l) /\ DOMAIN m = 1..Len(m)
        <4>1. m \in Seq(Segment)
          BY <1>8 DEF OrderIn, m
        <4> QED
          BY <1>7, <4>1
      <3>2. Fins(l) = {}
        BY <1>1, <1>2 DEF Ahead, l
      <3> QED
        BY <1>5, <1>8, <3>1, <3>2 DEF Fins, GrownBy, Like
    <2> QED
      BY <1>1, <1>2, <1>4, <1>11, <2>1 DEF Ahead, m
  <1>13. Complete'
    BY <1>1, <1>2, <1>6, <1>11 DEF Complete
  <1>14. Numbers'
    <2>1. ASSUME ~pipelined, NEW i \in 1..Len(m), m[i].type = "RSP"
          PROVE  m[i].ack = Wrap(First + m[i].id)
      <3>1. /\ \A j \in 1..Len(l) : l[j].type = "RSP" => l[j].ack = Wrap(First + l[j].id)
            /\ sent <= answered + 1
        BY <1>1, <2>1 DEF Numbers, l
      <3>2. CASE Like(m[i], s)
        <4>1. First + (answered + 1) = cseq
          BY <1>2, <1>3, <3>1
        <4> QED
          BY <1>5, <3>2, <4>1 DEF Like
      <3> QED
        BY <1>8, <2>1, <3>1, <3>2 DEF GrownBy
    <2>2. ~pipelined => sent' <= answered' + 1
      BY <1>1, <1>2, <1>3 DEF Numbers
    <2>3. /\ Ordered =>
               /\ \A i \in 1..Len(src.list) : src.list[i].type = "REQ" =>
                    src.list[i].nxt = Wrap(First + src.list[i].id)
               /\ \A j \in 1..Len(pairs) : pairs[j].nxt = Wrap(First + pairs[j].id)
          /\ ~pipelined /\ Ordered =>
               \A i \in 1..Len(told) : told[i].ev = "RSP" => told[i].rsp = told[i].req
      BY <1>1 DEF Numbers
    <2> QED
      BY <1>2, <1>4, <1>11, <2>1, <2>2, <2>3 DEF Numbers, m
  <1> QED
    BY <1>9, <1>10, <1>12, <1>13, <1>14 DEF Inv

\* The FIN of a close is the only one, and is captured last.
LEMMA CloseTime ==
    ASSUME Inv, NEW client \in BOOLEAN, NEW fin \in BOOLEAN, Close(client, fin)
    PROVE  FinTime' \in {None, clock}
  <1> DEFINE c == Seg(cseq, sseq, "none", 0, fin)
             d == Seg(sseq, cseq, "none", 0, fin)
  <1>1. Typed /\ Ahead
    BY DEF Inv
  <1>2. /\ phase = "table"
        /\ client => src' = TcpOrder(src, c) /\ dst' = dst
        /\ ~client => dst' = TcpOrder(dst, d) /\ src' = src
    BY DEF Close, HasFlow
  <1>3. /\ sent \in Nat /\ answered \in Nat /\ cseq \in Int /\ sseq \in Int /\ clock \in Nat
        /\ sent <= sent /\ answered <= answered
    BY <1>1, TypedNumbers
  <1>4. /\ c \in Segment /\ c.type = "none" /\ c.time = clock
        /\ d \in Segment /\ d.type = "none" /\ d.time = clock
    <2>1. /\ Wrap(cseq) \in Word /\ Wrap(sseq) \in Word
          /\ Wrap(cseq + (IF fin THEN 2 ELSE 1)) \in Word
          /\ Wrap(sseq + (IF fin THEN 2 ELSE 1)) \in Word
      BY <1>3, WrapIsWord
    <2>2. c \in Segment /\ c.type = "none" /\ c.time = clock
      BY <1>3, <2>1 DEF Seg, Segment
    <2>3. d \in Segment /\ d.type = "none" /\ d.time = clock
      BY <1>3, <2>1 DEF Seg, Segment
    <2> QED
      BY <2>2, <2>3
  <1> HIDE DEF c, d
  <1>5. /\ OrderIn(src, Segment) /\ ListOf(src.list, "REQ", sent, captured, clock)
        /\ OrderIn(dst, Segment) /\ ListOf(dst.list, "RSP", answered, captured, clock)
    BY <1>1 DEF Typed
  <1>6. OrderIn(src', Segment) /\ GrownBy(src'.list, src.list, c)
    <2>1. CASE client
      BY <1>2, <1>3, <1>4, <1>5, <2>1, Stores
    <2>2. CASE ~client
      BY <1>2, <1>5, <2>2 DEF GrownBy
    <2> QED
      BY <2>1, <2>2
  <1>7. OrderIn(dst', Segment) /\ GrownBy(dst'.list, dst.list, d)
    <2>1. CASE ~client
      BY <1>2, <1>3, <1>4, <1>5, <2>1, Stores
    <2>2. CASE client
      BY <1>2, <1>5, <2>2 DEF GrownBy
    <2> QED
      BY <2>1, <2>2
  <1>8. /\ Len(src'.list) \in Nat /\ DOMAIN src'.list = 1..Len(src'.list)
        /\ Len(dst'.list) \in Nat /\ DOMAIN dst'.list = 1..Len(dst'.list)
        /\ DOMAIN src.list = 1..Len(src.list) /\ DOMAIN dst.list = 1..Len(dst.list)
    BY <1>5, <1>6, <1>7 DEF OrderIn
  <1>9. /\ \A i \in 1..Len(src.list) : ~src.list[i].fin
        /\ \A i \in 1..Len(dst.list) : ~dst.list[i].fin
    BY <1>1, <1>2, <1>8 DEF Ahead, Fins
  <1>10. \A i \in 1..Len(src'.list) : src'.list[i].fin => src'.list[i].time = clock
    BY <1>4, <1>6, <1>9 DEF GrownBy, Like
  <1>11. \A i \in 1..Len(dst'.list) : dst'.list[i].fin => dst'.list[i].time = clock
    BY <1>4, <1>7, <1>9 DEF GrownBy, Like
  <1>12. FirstFin(src'.list) \in {None, clock} /\ FirstFin(dst'.list) \in {None, clock}
    BY <1>8, <1>10, <1>11, FirstFinFacts
  <1> QED
    BY <1>12 DEF FinTime

\* The FIN or the RST of the client or of the server.
LEMMA StepClose ==
    ASSUME Inv, NEW client \in BOOLEAN, NEW fin \in BOOLEAN, Close(client, fin)
    PROVE  Inv'
  <1> DEFINE c == Seg(cseq, sseq, "none", 0, fin)
             d == Seg(sseq, cseq, "none", 0, fin)
  <1>1. Typed /\ Hist /\ Ahead /\ Complete /\ Numbers
    BY DEF Inv
  <1>2. /\ phase = "table" /\ phase' = "queued" /\ clock' = clock + 1
        /\ client => src' = TcpOrder(src, c) /\ dst' = dst
        /\ ~client => dst' = TcpOrder(dst, d) /\ src' = src
        /\ pairs' = pairs /\ sent' = sent /\ answered' = answered /\ cseq' = cseq
        /\ sseq' = sseq /\ pipelined' = pipelined /\ captured' = captured /\ told' = told
    BY DEF Close, HasFlow, connVars
  <1>3. /\ sent \in Nat /\ answered \in Nat /\ cseq \in Nat /\ sseq \in Nat /\ clock \in Nat
        /\ clock <= clock + 1 /\ clock + 1 \in Nat /\ sent <= sent /\ answered <= answered
    BY <1>1, TypedNumbers
  <1>4. /\ c \in Segment /\ c.seq = Wrap(cseq) /\ c.type = "none" /\ c.time = clock
        /\ c.processed = FALSE
        /\ d \in Segment /\ d.type = "none" /\ d.time = clock /\ d.processed = FALSE
    <2>1. cseq \in Int /\ sseq \in Int /\ clock \in Nat /\ 0 \in Nat
          /\ "none" \in {"REQ", "RSP", "none"}
      BY <1>3
    <2>2. /\ Wrap(cseq) \in Word /\ Wrap(sseq) \in Word
          /\ Wrap(cseq + (IF fin THEN 2 ELSE 1)) \in Word
          /\ Wrap(sseq + (IF fin THEN 2 ELSE 1)) \in Word
      BY <2>1, WrapIsWord
    <2>3. /\ c \in Segment /\ c.seq = Wrap(cseq) /\ c.type = "none" /\ c.time = clock
          /\ c.processed = FALSE
      BY <2>1, <2>2 DEF Seg, Segment
    <2>4. d \in Segment /\ d.type = "none" /\ d.time = clock /\ d.processed = FALSE
      BY <2>1, <2>2 DEF Seg, Segment
    <2> QED
      BY <2>3, <2>4
  <1> HIDE DEF c, d
  <1>5. /\ OrderIn(src, Segment) /\ ListOf(src.list, "REQ", sent, captured, clock)
        /\ OrderIn(dst, Segment) /\ ListOf(dst.list, "RSP", answered, captured, clock)
        /\ src.list \in Seq(Segment) /\ dst.list \in Seq(Segment)
    BY <1>1, TypedLists DEF Typed
  <1>6. /\ OrderIn(src', Segment) /\ ListOf(src'.list, "REQ", sent, captured, clock + 1)
        /\ GrownBy(src'.list, src.list, c)
    <2>1. CASE client
      BY <1>2, <1>3, <1>4, <1>5, <2>1, Stores
    <2>2. CASE ~client
      <3>1. ListOf(src.list, "REQ", sent, captured, clock + 1)
        BY <1>3, <1>5, ListOfLater
      <3> QED
        BY <1>2, <1>5, <2>2, <3>1 DEF GrownBy
    <2> QED
      BY <2>1, <2>2
  <1>7. /\ OrderIn(dst', Segment) /\ ListOf(dst'.list, "RSP", answered, captured, clock + 1)
        /\ GrownBy(dst'.list, dst.list, d)
    <2>1. CASE ~client
      BY <1>2, <1>3, <1>4, <1>5, <2>1, Stores
    <2>2. CASE client
      <3>1. ListOf(dst.list, "RSP", answered, captured, clock + 1)
        BY <1>3, <1>5, ListOfLater
      <3> QED
        BY <1>2, <1>5, <2>2, <3>1 DEF GrownBy
    <2> QED
      BY <2>1, <2>2
  <1>8. Typed'
    BY <1>1, <1>2, <1>3, <1>6, <1>7 DEF Typed
  <1>9. Hist'
    <2>1. /\ \A k : Marked(src'.list, "REQ", k) <=> Marked(src.list, "REQ", k)
          /\ \A k : Marked(dst'.list, "RSP", k) <=> Marked(dst.list, "RSP", k)
      BY <1>4, <1>6, <1>7, MarkedGrown
    <2> QED
      BY <1>1, <1>2, <2>1, HistUntouched
  <1>10. (Ordered' <=> Ordered) /\ First' = First
    BY <1>2 DEF Ordered, First
  <1>11. Ahead'
    BY <1>2 DEF Ahead
  <1>12. Complete'
    <2> SUFFICES ASSUME Ordered
                 PROVE  /\ \A k \in Request : <<"REQ", k>> \in captured =>
                             \E i \in 1..Len(src'.list) :
                               src'.list[i].type = "REQ" /\ src'.list[i].id = k
                        /\ \A i \in 1..Len(src'.list) :
                             src'.list[i].type = "REQ" => InScope(src.list, i)'
      BY <1>2, <1>10 DEF Complete, Request
    <2>1. \A k \in Request : <<"REQ", k>> \in captured =>
            \E i \in 1..Len(src'.list) : src'.list[i].type = "REQ" /\ src'.list[i].id = k
      BY <1>1, <1>6 DEF Complete, GrownBy
    <2>2. src'.list \in Seq(Segment) /\ Len(src'.list) \in Nat
      BY <1>6 DEF OrderIn
    <2>5. FinTime' \in {None, clock}
      BY CloseTime
    <2>6. ASSUME NEW i \in 1..Len(src'.list), src'.list[i].type = "REQ"
          PROVE  \A j \in 1..i : src'.list[j].time < clock
      <3>1. \A j \in 1..Len(src.list) : src.list[j].time < clock
        BY <1>5 DEF ListOf
      <3>2. CASE ~client
        <4>1. src' = src
          BY <1>2, <3>2
        <4>2. 1..i \subseteq 1..Len(src.list)
          BY <2>2, <4>1
        <4> QED
          BY <3>1, <4>1, <4>2
      <3>3. CASE client
        <4>1. AtEnd(src'.list, src.list, c)
          BY <1>1, <1>2, <1>4, <3>3, ClientAtEnd
        <4>2. /\ Len(src'.list) = Len(src.list) + 1 /\ src'.list[Len(src.list) + 1] = c
              /\ \A j \in 1..Len(src.list) : src'.list[j] = src.list[j]
          BY <4>1 DEF AtEnd, Inserted
        <4>3. i # Len(src.list) + 1
          BY <1>4, <2>6, <4>2
        <4>4. 1..i \subseteq 1..Len(src.list)
          <5>1. Len(src.list) \in Nat
            BY <1>5
          <5> QED
            BY <4>2, <4>3, <5>1
        <4> QED
          BY <3>1, <4>2, <4>4
      <3> QED
        BY <3>2, <3>3
    <2>7. ASSUME NEW i \in 1..Len(src'.list), src'.list[i].type = "REQ"
          PROVE  InScope(src.list, i)'
      BY <2>5, <2>6, <2>7 DEF InScope
    <2> QED
      BY <2>1, <2>7
  <1>13. Numbers'
    <2>1. /\ \A i \in 1..Len(src'.list) : src'.list[i].type = "REQ" =>
               \E j \in 1..Len(src.list) : src'.list[i] = src.list[j]
          /\ \A i \in 1..Len(dst'.list) : dst'.list[i].type = "RSP" =>
               \E j \in 1..Len(dst.list) : dst'.list[i] = dst.list[j]
      BY <1>4, <1>6, <1>7 DEF GrownBy, Like
    <2>2. Ordered => \A i \in 1..Len(src'.list) : src'.list[i].type = "REQ" =>
                       src'.list[i].nxt = Wrap(First + src'.list[i].id)
      BY <1>1, <2>1 DEF Numbers
    <2>3. ~pipelined => \A i \in 1..Len(dst'.list) : dst'.list[i].type = "RSP" =>
                          dst'.list[i].ack = Wrap(First + dst'.list[i].id)
      BY <1>1, <2>1 DEF Numbers
    <2>4. /\ Ordered => \A j \in 1..Len(pairs) : pairs[j].nxt = Wrap(First + pairs[j].id)
          /\ ~pipelined => sent <= answered + 1
          /\ ~pipelined /\ Ordered =>
               \A i \in 1..Len(told) : told[i].ev = "RSP" => told[i].rsp = told[i].req
      BY <1>1 DEF Numbers
    <2> QED
      BY <1>2, <1>10, <2>2, <2>3, <2>4 DEF Numbers
  <1> QED
    BY <1>8, <1>9, <1>11, <1>12, <1>13 DEF Inv

\* The flow leaves the table as it is.
LEMMA StepLeave ==
    ASSUME Inv, Drop \/ Scrub
    PROVE  Inv'
  <1>1. Typed /\ Hist /\ Ahead /\ Complete /\ Numbers
    BY DEF Inv
  <1>2. /\ phase = "table" /\ phase' \in {"dropped", "queued"}
        /\ src' = src /\ dst' = dst /\ pairs' = pairs /\ sent' = sent
        /\ answered' = answered /\ cseq' = cseq /\ sseq' = sseq /\ clock' = clock
        /\ pipelined' = pipelined /\ captured' = captured /\ told' = told
    BY DEF Drop, Scrub, HasFlow, connVars
  <1>3. Typed'
    BY <1>1, <1>2 DEF Typed
  <1>4. Hist'
    BY <1>1, <1>2, HistUntouched
  <1>5. Ahead'
    BY <1>2 DEF Ahead
  <1>6. (Ordered' <=> Ordered) /\ First' = First
    BY <1>2 DEF Ordered, First
  <1>7. Complete'
    <2>1. FinTime = None
      BY <1>1, <1>2 DEF Ahead, FinTime, FirstFin
    <2>2. \A i \in 1..Len(src.list) : InScope(src.list, i)'
      BY <1>2, <2>1 DEF InScope, FinTime
    <2> QED
      BY <1>1, <1>2, <1>6, <2>2 DEF Complete
  <1>8. Numbers'
    BY <1>1, <1>2, <1>6 DEF Numbers
  <1> QED
    BY <1>3, <1>4, <1>5, <1>7, <1>8 DEF Inv

\* Requests of less than a full turn have different numbers.
LEMMA RequestsApart ==
    ASSUME Typed, NEW a \in Request, NEW b \in Request,
           Wrap(First + a) = Wrap(First + b)
    PROVE  a = b
  <1>1. First \in Nat /\ MaxRequests \in Nat /\ MaxRequests < Size /\ Size \in Nat
    BY TypedNumbers
  <1>2. a \in 1..MaxRequests /\ b \in 1..MaxRequests
    BY DEF Request
  <1>3. /\ First + a \in Int /\ First + b \in Int
        /\ First + a < (First + b) + Size /\ First + b < (First + a) + Size
    BY <1>1, <1>2
  <1>4. CASE a < b
    <2>1. First + a < First + b
      BY <1>1, <1>2, <1>4
    <2> QED
      BY <1>3, <2>1, WrapApart
  <1>5. CASE b < a
    <2>1. First + b < First + a
      BY <1>1, <1>2, <1>5
    <2> QED
      BY <1>3, <2>1, WrapApart
  <1> QED
    BY <1>2, <1>4, <1>5

\* A call of extractPair and extractData, by the timer or when the flow is
\* closed.
LEMMA StepExtract ==
    ASSUME Inv, ExtractPair, ExtractData(Extracted),
           \/ phase = "table" /\ phase' = "table"
           \/ phase = "queued" /\ phase' = "done",
           sent' = sent, answered' = answered, cseq' = cseq, sseq' = sseq,
           clock' = clock, pipelined' = pipelined, captured' = captured
    PROVE  Inv'
  <1> DEFINE l == src.list
             m == src'.list
             F == Fresh(l, "REQ")
             ps == Extracted
  <1>1. Typed /\ Hist /\ Ahead /\ Complete /\ Numbers
    BY DEF Inv
  <1>2. /\ OrderIn(src', Segment) /\ OrderIn(dst', Segment)
        /\ Remarked(m, l, F) /\ Remarked(dst'.list, dst.list, Parsed)
        /\ pairs' \in Seq(Pair) /\ told' \in Seq(Event)
        /\ ToldUpTo(told', told, ps, Len(ps))
        /\ \A i \in 1..Len(pairs') : \E j \in 1..Len(ps) : pairs'[i] = Done(ps[j])
        /\ Hist'
    BY <1>1, Extraction
  <1>3. ps \in Seq(Pair) /\ ChainFrom(ps)
    BY <1>1, ExtractedFacts
  <1>4. (Ordered' <=> Ordered) /\ (AllSeen' <=> AllSeen) /\ First' = First
    BY DEF Ordered, AllSeen, First
  <1>5. /\ Len(m) = Len(l)
        /\ \A i \in 1..Len(l) :
             /\ m[i].seq = l[i].seq /\ m[i].nxt = l[i].nxt /\ m[i].type = l[i].type
             /\ m[i].id = l[i].id /\ m[i].fin = l[i].fin
             /\ m[i].processed <=> l[i].processed \/ i \in F
    BY <1>2 DEF Remarked
  <1>6. /\ Len(dst'.list) = Len(dst.list)
        /\ \A i \in 1..Len(dst.list) :
             /\ dst'.list[i].type = dst.list[i].type /\ dst'.list[i].id = dst.list[i].id
             /\ dst'.list[i].ack = dst.list[i].ack /\ dst'.list[i].fin = dst.list[i].fin
    BY <1>2 DEF Remarked
  <1>7. /\ DOMAIN l = 1..Len(l) /\ DOMAIN m = 1..Len(m)
        /\ DOMAIN dst.list = 1..Len(dst.list) /\ DOMAIN dst'.list = 1..Len(dst'.list)
    <2>1. m \in Seq(Segment) /\ dst'.list \in Seq(Segment)
      BY <1>2 DEF OrderIn
    <2> QED
      BY <1>1, <2>1, TypedLists
  <1>8. Typed'
    <2>1. /\ ListOf(src.list, "REQ", sent, captured, clock)
          /\ ListOf(dst.list, "RSP", answered, captured, clock)
      BY <1>1 DEF Typed
    <2>2. /\ ListOf(src'.list, "REQ", sent, captured, clock)
          /\ ListOf(dst'.list, "RSP", answered, captured, clock)
      BY <1>2, <2>1, ListOfRemarked
    <2> QED
      BY <1>1, <1>2, <2>2 DEF Typed
  <1> HIDE DEF l, m, F, ps
  <1>9. Ahead'
    <2> SUFFICES ASSUME phase' = "table"
                 PROVE  /\ cseq < Size => UpTo(m, cseq)
                        /\ AllSeen => /\ Len(m) = sent
                                      /\ \A i \in 1..sent : /\ m[i].seq = Wrap(First + i - 1)
                                                            /\ m[i].nxt = Wrap(First + i)
                        /\ Fins(m) = {} /\ Fins(dst'.list) = {}
      BY <1>4 DEF Ahead, m
    <2>1. /\ cseq < Size => UpTo(l, cseq)
          /\ AllSeen => /\ Len(l) = sent
                        /\ \A i \in 1..sent : /\ l[i].seq = Wrap(First + i - 1)
                                              /\ l[i].nxt = Wrap(First + i)
          /\ Fins(l) = {} /\ Fins(dst.list) = {}
      BY <1>1 DEF Ahead, l
    <2>2. cseq < Size => UpTo(m, cseq)
      BY <1>5, <2>1 DEF UpTo
    <2>3. Fins(m) = {} /\ Fins(dst'.list) = {}
      BY <1>5, <1>6, <1>7, <2>1 DEF Fins
    <2> QED
      BY <1>5, <2>1, <2>2, <2>3
  <1>10. Complete'
    <2> SUFFICES ASSUME Ordered
                 PROVE  /\ \A k \in Request : <<"REQ", k>> \in captured =>
                             \E i \in 1..Len(m) : m[i].type = "REQ" /\ m[i].id = k
                        /\ phase' = "done" => \A i \in 1..Len(m) :
                             m[i].type = "REQ" => m[i].processed
      BY <1>4 DEF Complete, Request, m
    <2>1. \A k \in Request : <<"REQ", k>> \in captured =>
            \E i \in 1..Len(m) : m[i].type = "REQ" /\ m[i].id = k
      BY <1>1, <1>5 DEF Complete, l
    <2>2. ASSUME phase' = "done", NEW i \in 1..Len(m), m[i].type = "REQ"
          PROVE  m[i].processed
      <3>1. i \in DOMAIN l /\ l[i].type = "REQ"
        BY <1>5, <1>7, <2>2
      <3>2. InScope(l, i)
        BY <1>1, <1>5, <2>2, <3>1 DEF Complete, l
      <3>3. l[i].processed \/ i \in F
        BY <3>1, <3>2 DEF F, Fresh
      <3> QED
        BY <1>5, <2>2, <3>3
    <2> QED
      BY <2>1, <2>2
  <1>11. Numbers'
    <2>1. ASSUME Ordered, NEW j \in 1..Len(ps)
          PROVE  ps[j].nxt = Wrap(First + ps[j].id)
      <3>1. /\ \A i \in 1..Len(l) : l[i].type = "REQ" => l[i].nxt = Wrap(First + l[i].id)
            /\ \A i \in 1..Len(pairs) : pairs[i].nxt = Wrap(First + pairs[i].id)
        BY <1>1, <2>1 DEF Numbers, l
      <3>2. Len(ps) \in Nat /\ Len(pairs) \in Nat
        BY <1>1, <1>3 DEF Typed
      <3>3. CASE j \in 1..Len(pairs)
        BY <1>3, <3>1, <3>3 DEF ChainFrom
      <3>4. CASE j \in (Len(pairs) + 1)..Len(ps)
        <4>1. PICK i \in F : ps[j].id = l[i].id /\ ps[j].nxt = l[i].nxt
          BY <1>3, <3>4 DEF ChainFrom, F, l
        <4>2. i \in 1..Len(l) /\ l[i].type = "REQ"
          BY <1>1, FreshFacts DEF F, l
        <4> QED
          BY <3>1, <4>1, <4>2
      <3> QED
        BY <3>2, <3>3, <3>4
    <2>2. ASSUME Ordered, NEW i \in 1..Len(pairs')
          PROVE  pairs'[i].nxt = Wrap(First + pairs'[i].id)
      <3>1. PICK j \in 1..Len(ps) : pairs'[i] = Done(ps[j])
        BY <1>2 DEF ps
      <3>2. ps[j] \in Pair
        BY <1>3
      <3>3. pairs'[i].nxt = ps[j].nxt /\ pairs'[i].id = ps[j].id
        BY <3>1, <3>2 DEF Done, Pair
      <3> QED
        BY <2>1, <2>2, <3>3
    <2>3. ASSUME Ordered, NEW i \in 1..Len(m), m[i].type = "REQ"
          PROVE  m[i].nxt = Wrap(First + m[i].id)
      BY <1>1, <1>5, <2>3 DEF Numbers, l
    <2>4. ASSUME ~pipelined
          PROVE  /\ sent <= answered + 1
                 /\ \A i \in 1..Len(dst.list) : dst.list[i].type = "RSP" =>
                      dst.list[i].ack = Wrap(First + dst.list[i].id)
      BY <1>1, <2>4 DEF Numbers
    <2>5. ASSUME ~pipelined, NEW i \in 1..Len(dst'.list), dst'.list[i].type = "RSP"
          PROVE  dst'.list[i].ack = Wrap(First + dst'.list[i].id)
      BY <1>6, <2>4, <2>5
    <2>6. ASSUME ~pipelined, Ordered, NEW i \in 1..Len(told'), told'[i].ev = "RSP"
          PROVE  told'[i].rsp = told'[i].req
      <3>1. \/ \E j \in 1..Len(told) : told'[i] = told[j]
            \/ \E j \in 1..Len(ps) : NewRsp(ps[j]) /\ told'[i] = RspEvent(ps[j])
        BY <1>2, <2>6 DEF ToldUpTo, ps
      <3>2. CASE \E j \in 1..Len(told) : told'[i] = told[j]
        BY <1>1, <2>6, <3>2 DEF Numbers
      <3>3. ASSUME NEW j \in 1..Len(ps), NewRsp(ps[j]), told'[i] = RspEvent(ps[j])
            PROVE  told'[i].rsp = told'[i].req
        <4>1. ps[j].rsp # None /\ ~ps[j].rspDone
          BY <3>3 DEF NewRsp
        <4>2. PICK n \in Parsed : ps[j].rsp = dst.list[n].id /\ ps[j].nxt = dst.list[n].ack
          BY <1>3, <4>1 DEF ChainFrom
        <4>3. /\ n \in 1..Len(dst.list) /\ dst.list[n].type = "RSP"
              /\ dst.list[n].id \in Request
          BY <1>1, ExtractedFacts, FreshFacts
        <4>4. ps[j].id \in Request
          <5>1. ps[j] \in Pair
            BY <1>3
          <5> QED
            BY <5>1 DEF Pair
        <4>5. Wrap(First + ps[j].id) = Wrap(First + dst.list[n].id)
          BY <2>1, <2>4, <2>6, <4>2, <4>3
        <4>6. ps[j].id = dst.list[n].id
          BY <1>1, <4>3, <4>4, <4>5, RequestsApart
        <4>7. told'[i].rsp = ps[j].rsp /\ told'[i].req = ps[j].id
          BY <3>3 DEF RspEvent
        <4> QED
          BY <4>2, <4>6, <4>7
      <3> QED
        BY <3>1, <3>2, <3>3
    <2> QED
      BY <1>4, <2>2, <2>3, <2>4, <2>5, <2>6 DEF Numbers, m
  <1> QED
    BY <1>2, <1>8, <1>9, <1>10, <1>11 DEF Inv

\* Every step keeps the invariant.
LEMMA NextInv == Inv /\ [Next]_vars => Inv'
  <1> SUFFICES ASSUME Inv, [Next]_vars PROVE Inv'
    OBVIOUS
  <1>1. ASSUME NEW seen \in BOOLEAN, SendRequest(seen) PROVE Inv'
    BY <1>1, StepSendRequest
  <1>2. ASSUME NEW seen \in BOOLEAN, SendResponse(seen) PROVE Inv'
    BY <1>2, StepSendResponse
  <1>3. ASSUME NEW client \in BOOLEAN, NEW fin \in BOOLEAN, Close(client, fin) PROVE Inv'
    BY <1>3, StepClose
  <1>4. CASE Drop \/ Scrub
    BY <1>4, StepLeave
  <1>5. CASE Tick \/ Finish
    <2>1. /\ ExtractPair /\ ExtractData(Extracted)
          /\ sent' = sent /\ answered' = answered /\ cseq' = cseq /\ sseq' = sseq
          /\ clock' = clock /\ pipelined' = pipelined /\ captured' = captured
      BY <1>5 DEF Tick, Finish, connVars
    <2>2. \/ phase = "table" /\ phase' = "table"
          \/ phase = "queued" /\ phase' = "done"
      BY <1>5 DEF Tick, Finish, HasFlow
    <2> QED
      BY <2>1, <2>2, StepExtract
  <1>6. CASE UNCHANGED vars
    <2>1. /\ src' = src /\ dst' = dst /\ pairs' = pairs /\ phase' = phase
          /\ sent' = sent /\ answered' = answered /\ cseq' = cseq /\ sseq' = sseq
          /\ clock' = clock /\ pipelined' = pipelined /\ captured' = captured
          /\ told' = told
      BY <1>6 DEF vars, flowVars, connVars
    <2>2. Typed'
      BY <2>1 DEF Inv, Typed
    <2>3. Hist'
      BY <2>1, HistUntouched DEF Inv
    <2>4. (Ordered' <=> Ordered) /\ (AllSeen' <=> AllSeen) /\ First' = First
      BY <2>1 DEF Ordered, AllSeen, First
    <2>5. Ahead'
      BY <2>1, <2>4 DEF Inv, Ahead
    <2>6. Complete'
      BY <2>1, <2>4 DEF Inv, Complete, InScope, FinTime
    <2>7. Numbers'
      BY <2>1, <2>4 DEF Inv, Numbers
    <2> QED
      BY <2>2, <2>3, <2>5, <2>6, <2>7 DEF Inv
  <1> QED
    BY <1>1, <1>2, <1>3, <1>4, <1>5, <1>6 DEF Next, Rest

-----------------------------------------------------------------------------
(***************************************************************************)
(* No response is left out                                                 *)
(***************************************************************************)
\* The messages of the type lie in the order they were sent in
Rising(l, type) ==
    \A i, j \in 1..Len(l) :
        i < j /\ l[i].type = type /\ l[j].type = type => l[i].id < l[j].id

\* The server's numbers never wrap around: its responses are stored one behind
\* the other, and none is behind a FIN.
Server ==
    /\ sseq = answered
    /\ phase = "table" => UpTo(dst.list, sseq)
    /\ \A k \in Request : <<"RSP", k>> \in captured =>
         \E i \in 1..Len(dst.list) : dst.list[i].type = "RSP" /\ dst.list[i].id = k
    /\ phase = "queued" => \A i \in 1..Len(dst.list) :
         dst.list[i].type = "RSP" => InScope(dst.list, i)
    /\ Rising(dst.list, "RSP")

\* The requests and their pairs are in order, the new ones behind the old ones.
Client ==
    Ordered =>
        /\ Rising(src.list, "REQ")
        /\ \A i \in 1..Len(src.list) :
             src.list[i].type = "REQ" /\ ~src.list[i].processed =>
               \A k \in Request : ReqTold(told, k) => k < src.list[i].id
        /\ \A i, j \in 1..Len(pairs) : i < j => pairs[i].id < pairs[j].id

\* AnsweredBeforeNext is claimed here
Simple == ~pipelined /\ cseq < Size

\* A captured response of a captured request was told if it was parsed, or if a
\* later request was told; a request that was told waits in the chain as long as
\* its response was neither told nor missed.
Waiting ==
    Simple =>
        /\ \A j \in 1..Len(pairs) : pairs[j].rsp # None =>
             pairs[j].rsp = pairs[j].id /\ RspTold(told, pairs[j].id)
        /\ \A k \in Request : <<"REQ", k>> \in captured /\ Marked(dst.list, "RSP", k)
             => RspTold(told, k)
        /\ \A k, n \in Request :
             /\ k < n /\ <<"REQ", k>> \in captured /\ <<"RSP", k>> \in captured
             /\ ReqTold(told, n)
             => RspTold(told, k)
        /\ \A k \in Request : ReqTold(told, k) =>
             \/ RspTold(told, k)
             \/ k <= answered /\ <<"RSP", k>> \notin captured
             \/ \E j \in 1..Len(pairs) : pairs[j].id = k /\ pairs[j].rsp = None

NoneLeftOut == Server /\ Client /\ Waiting

\* The numbers of a simple connection are in order.
LEMMA SimpleOrdered == Simple => Ordered
  BY DEF Simple, Ordered, Size

\* A message that is larger keeps the order at the end of the list.
LEMMA RisingAtEnd ==
    ASSUME NEW l, NEW m, NEW s, NEW type, Len(l) \in Nat, AtEnd(m, l, s),
           Rising(l, type),
           s.type = type => \A i \in 1..Len(l) : l[i].type = type => l[i].id < s.id
    PROVE  Rising(m, type)
  <1>1. /\ Len(m) = Len(l) + 1 /\ m[Len(l) + 1] = s
        /\ \A i \in 1..Len(l) : m[i] = l[i]
    BY DEF AtEnd, Inserted
  <1> SUFFICES ASSUME NEW i \in 1..Len(m), NEW j \in 1..Len(m), i < j,
                      m[i].type = type, m[j].type = type
               PROVE  m[i].id < m[j].id
    BY DEF Rising
  <1>2. i \in 1..Len(l) /\ m[i] = l[i]
    BY <1>1
  <1>3. CASE j \in 1..Len(l)
    BY <1>1, <1>2, <1>3 DEF Rising
  <1>4. CASE j = Len(l) + 1
    BY <1>1, <1>2, <1>4
  <1> QED
    BY <1>1, <1>3, <1>4

\* Marks do not matter for the order.
LEMMA RisingRemarked ==
    ASSUME NEW l, NEW m, NEW is, NEW type, Remarked(m, l, is), Rising(l, type)
    PROVE  Rising(m, type)
  BY DEF Remarked, Rising

\* What was told was captured.
LEMMA ToldCaptured ==
    ASSUME Inv
    PROVE  /\ \A k : ReqTold(told, k) => /\ <<"REQ", k>> \in captured
                                         /\ k \in Request /\ k <= sent
           /\ \A k : RspTold(told, k) => /\ <<"RSP", k>> \in captured
                                         /\ k \in Request /\ k <= answered
  <1>1. /\ \A k : ReqTold(told, k) => Marked(src.list, "REQ", k)
        /\ \A k : RspTold(told, k) => Marked(dst.list, "RSP", k)
    BY DEF Inv, Hist
  <1>2. /\ \A i \in 1..Len(src.list) : src.list[i].type = "REQ" =>
             /\ src.list[i].id \in Request /\ src.list[i].id \in 1..sent
             /\ <<"REQ", src.list[i].id>> \in captured
        /\ \A i \in 1..Len(dst.list) : dst.list[i].type = "RSP" =>
             /\ dst.list[i].id \in Request /\ dst.list[i].id \in 1..answered
             /\ <<"RSP", dst.list[i].id>> \in captured
    BY TypedLists DEF Inv, Typed, ListOf
  <1>3. \A k : k \in 1..sent => k <= sent
    BY TypedNumbers DEF Inv
  <1>4. \A k : k \in 1..answered => k <= answered
    BY TypedNumbers DEF Inv
  <1> QED
    BY <1>1, <1>2, <1>3, <1>4 DEF Marked

\* Numbers that do not wrap around grow with the messages.
LEMMA SimpleNumber ==
    ASSUME Inv, cseq < Size, NEW k \in 1..sent
    PROVE  Wrap(First + k) = First + k /\ First \in Nat
  <1>1. First \in Nat /\ sent \in Nat /\ cseq = First + sent /\ Size \in Nat
    BY TypedNumbers DEF Inv
  <1>2. First + k \in 0..(Size - 1)
    BY <1>1
  <1> QED
    BY <1>1, <1>2, WordFacts, WrapIsWord

\* The pairs of the chain and the new ones are in the order of their requests.
LEMMA BaseSorted ==
    ASSUME Inv, Client, Ordered
    PROVE  /\ \A i, j \in 1..Len(WithRequests) :
                i < j => WithRequests[i].id < WithRequests[j].id
           /\ \A j \in 1..Len(WithRequests) :
                /\ WithRequests[j].id \in 1..sent
                /\ WithRequests[j].nxt = Wrap(First + WithRequests[j].id)
  <1> DEFINE base == WithRequests
             l == src.list
             F == Fresh(l, "REQ")
             b == Len(pairs)
             n == Len(base)
  <1>1. Typed /\ Hist /\ Numbers
    BY DEF Inv
  <1>2. base \in Seq(Pair) /\ RequestsUpTo(base, Len(l)) /\ n \in Nat /\ b \in Nat
    BY <1>1, RequestsPaired DEF Typed
  <1> HIDE DEF base
  <1>3. /\ n >= b /\ \A j \in 1..b : base[j] = pairs[j]
        /\ \A j \in (b + 1)..n : \E m \in F : base[j] = NewPair(l[m])
        /\ \A i, j \in (b + 1)..n : i < j =>
             \E m, o \in F : m < o /\ base[i] = NewPair(l[m]) /\ base[j] = NewPair(l[o])
    BY <1>2 DEF RequestsUpTo
  <1>4. \A m \in F : /\ m \in 1..Len(l) /\ l[m].type = "REQ" /\ ~l[m].processed
                     /\ NewPair(l[m]).id = l[m].id /\ NewPair(l[m]).nxt = l[m].nxt
                     /\ l[m].id \in 1..sent /\ l[m].nxt = Wrap(First + l[m].id)
    <2>1. \A m \in F : m \in 1..Len(l) /\ l[m].type = "REQ" /\ ~l[m].processed
      BY <1>1, FreshFacts
    <2>2. \A m \in F : NewPair(l[m]).id = l[m].id /\ NewPair(l[m]).nxt = l[m].nxt
      BY DEF NewPair
    <2>3. \A m \in 1..Len(l) : l[m].type = "REQ" =>
            l[m].id \in 1..sent /\ l[m].nxt = Wrap(First + l[m].id)
      BY <1>1 DEF Typed, ListOf, Numbers
    <2> QED
      BY <2>1, <2>2, <2>3
  <1>5. \A j \in 1..b : /\ ReqTold(told, pairs[j].id) /\ pairs[j].id \in Request
                        /\ pairs[j].id \in 1..sent
                        /\ pairs[j].nxt = Wrap(First + pairs[j].id)
    <2>1. \A j \in 1..b : /\ ReqTold(told, pairs[j].id)
                          /\ pairs[j].nxt = Wrap(First + pairs[j].id)
      BY <1>1 DEF Hist, Numbers
    <2>2. \A k \in Request : k <= sent => k \in 1..sent
      BY <1>1, TypedNumbers DEF Request
    <2> QED
      BY <2>1, <2>2, ToldCaptured
  <1>6. /\ Rising(l, "REQ")
        /\ \A i \in 1..Len(l) : l[i].type = "REQ" /\ ~l[i].processed =>
             \A k \in Request : ReqTold(told, k) => k < l[i].id
        /\ \A i, j \in 1..b : i < j => pairs[i].id < pairs[j].id
    BY DEF Client
  <1> HIDE DEF l, F, b, n
  <1>7. \A j \in 1..n : j \in 1..b \/ j \in (b + 1)..n
    BY <1>2, <1>3
  <1>8. ASSUME NEW i \in 1..n, NEW j \in 1..n, i < j PROVE base[i].id < base[j].id
    <2>1. CASE i \in 1..b /\ j \in 1..b
      BY <1>3, <1>6, <1>8, <2>1
    <2>2. CASE i \in 1..b /\ j \in (b + 1)..n
      <3>1. PICK m \in F : base[j] = NewPair(l[m])
        BY <1>3, <2>2
      <3>2. /\ m \in 1..Len(l) /\ l[m].type = "REQ" /\ ~l[m].processed
            /\ base[j].id = l[m].id
        BY <1>4, <3>1
      <3> QED
        BY <1>3, <1>5, <1>6, <2>2, <3>2
    <2>3. CASE i \in (b + 1)..n /\ j \in (b + 1)..n
      <3>1. PICK m \in F, o \in F :
              m < o /\ base[i] = NewPair(l[m]) /\ base[j] = NewPair(l[o])
        BY <1>3, <1>8, <2>3
      <3>2. /\ m \in 1..Len(l) /\ l[m].type = "REQ" /\ base[i].id = l[m].id
            /\ o \in 1..Len(l) /\ l[o].type = "REQ" /\ base[j].id = l[o].id
        BY <1>4, <3>1
      <3> QED
        BY <1>6, <3>1, <3>2 DEF Rising
    <2>4. ~(i \in (b + 1)..n /\ j \in 1..b)
      BY <1>2, <1>8
    <2> QED
      BY <1>7, <2>1, <2>2, <2>3, <2>4
  <1>9. ASSUME NEW j \in 1..n
        PROVE  base[j].id \in 1..sent /\ base[j].nxt = Wrap(First + base[j].id)
    <2>1. CASE j \in 1..b
      BY <1>3, <1>5, <2>1
    <2>2. CASE j \in (b + 1)..n
      <3>1. PICK m \in F : base[j] = NewPair(l[m])
        BY <1>3, <2>2
      <3> QED
        BY <1>4, <3>1
    <2> QED
      BY <1>7, <2>1, <2>2
  <1> QED
    BY <1>8, <1>9 DEF base, n

\* extractPair leaves them in that order.
LEMMA ChainSorted ==
    ASSUME Inv, Client, Ordered
    PROVE  \A i, j \in 1..Len(Extracted) : i < j => Extracted[i].id < Extracted[j].id
  <1>1. CASE ~FoundRequest
    BY <1>1 DEF Extracted, Client
  <1>2. CASE FoundRequest
    <2> DEFINE base == WithRequests
               ps == WithResponses.pairs
    <2>1. /\ base \in Seq(Pair) /\ Len(ps) = Len(base)
          /\ \A j \in 1..Len(base) : \/ ps[j] = base[j]
                                     \/ \E m \in WithResponses.parsed :
                                          Answers(ps[j], base[j], dst.list[m])
      BY RequestsPaired, ResponsesPaired DEF Inv, ResponsesUpTo
    <2>2. Extracted = ps
      BY <1>2 DEF Extracted
    <2>3. \A i, j \in 1..Len(base) : i < j => base[i].id < base[j].id
      BY BaseSorted
    <2> HIDE DEF base, ps
    <2>4. \A j \in 1..Len(base) : ps[j].id = base[j].id
      <3> TAKE j \in 1..Len(base)
      <3>1. base[j] \in Pair
        BY <2>1
      <3> QED
        BY <2>1, <3>1 DEF Answers, Pair
    <2> QED
      BY <2>1, <2>2, <2>3, <2>4
  <1> QED
    BY <1>1, <1>2

\* So the search for the pairs of the responses never goes too far.
LEMMA BaseGrowing ==
    ASSUME Inv, NoneLeftOut, Simple
    PROVE  Growing(WithRequests)
  <1> DEFINE base == WithRequests
             l == dst.list
             G == Fresh(l, "RSP")
  <1>1. Inv /\ Typed /\ Numbers /\ ~pipelined /\ cseq < Size /\ Ordered
    BY SimpleOrdered DEF Inv, Simple
  <1>2. sent \in Nat /\ answered \in Nat /\ answered <= sent /\ First \in Nat
    BY <1>1, TypedNumbers
  <1>3. /\ \A i, j \in 1..Len(base) : i < j => base[i].id < base[j].id
        /\ \A j \in 1..Len(base) : /\ base[j].id \in 1..sent
                                   /\ base[j].nxt = Wrap(First + base[j].id)
    BY <1>1, BaseSorted DEF NoneLeftOut
  <1> HIDE DEF base, l, G
  <1>4. \A j \in 1..Len(base) : base[j].nxt = First + base[j].id /\ base[j].id \in Nat
    <2> TAKE j \in 1..Len(base)
    <2>1. base[j].id \in 1..sent
      BY <1>3
    <2>2. Wrap(First + base[j].id) = First + base[j].id
      BY <1>1, <2>1, SimpleNumber
    <2>3. base[j].id \in Nat
      BY <2>1
    <2> QED
      BY <1>3, <2>2, <2>3
  <1>5. \A m \in G : /\ m \in 1..Len(l) /\ l[m].type = "RSP" /\ l[m].id \in Nat
                     /\ l[m].ack = First + l[m].id
    <2>1. \A m \in G : m \in 1..Len(l) /\ l[m].type = "RSP"
      BY <1>1, FreshFacts DEF G, l
    <2>2. \A m \in 1..Len(l) : l[m].type = "RSP" =>
            l[m].id \in 1..answered /\ l[m].ack = Wrap(First + l[m].id)
      BY <1>1 DEF Typed, ListOf, Numbers, l
    <2>3. \A k \in 1..answered : k \in 1..sent /\ k \in Nat
      BY <1>2
    <2> QED
      BY <1>1, <2>1, <2>2, <2>3, SimpleNumber
  <1>6. \A m, n \in G : m < n => l[m].id < l[n].id
    BY <1>5 DEF NoneLeftOut, Server, Rising, l
  <1>7. \A m, n \in G : m < n => l[m].ack < l[n].ack
    BY <1>2, <1>5, <1>6
  <1>8. \A i, j \in 1..Len(base) : i < j => base[i].nxt < base[j].nxt
    BY <1>2, <1>3, <1>4
  <1> QED
    BY <1>7, <1>8 DEF Growing, base, l, G

\* A call of extractPair sees all the messages that were captured.
LEMMA AllInScope ==
    ASSUME Inv, NoneLeftOut, phase \in {"table", "queued"}
    PROVE  /\ Ordered => \A i \in 1..Len(src.list) :
                src.list[i].type = "REQ" => InScope(src.list, i)
           /\ \A i \in 1..Len(dst.list) :
                dst.list[i].type = "RSP" => InScope(dst.list, i)
  <1>1. CASE phase = "table"
    <2>1. FinTime = None
      BY <1>1 DEF Inv, Ahead, FinTime, FirstFin
    <2> QED
      BY <2>1 DEF InScope
  <1>2. CASE phase = "queued"
    BY <1>2 DEF Inv, Complete, NoneLeftOut, Server
  <1> QED
    BY <1>1, <1>2

\* A call of extractPair that finds a request also finds the captured response
\* of every captured request, unless it was told before.
LEMMA ResponsesFound ==
    ASSUME Inv, NoneLeftOut, Simple, phase \in {"table", "queued"}, FoundRequest,
           NEW k \in Request, <<"REQ", k>> \in captured, <<"RSP", k>> \in captured,
           ~RspTold(told, k)
    PROVE  \E j \in 1..Len(Extracted) : NewRsp(Extracted[j]) /\ Extracted[j].rsp = k
  <1> DEFINE base == WithRequests
             w    == WithResponses
             ps   == Extracted
             b    == Len(pairs)
             F    == Fresh(src.list, "REQ")
             G    == Fresh(dst.list, "RSP")
  <1>1. Typed /\ Hist /\ Complete /\ Numbers /\ Ordered /\ Server /\ Waiting
    BY SimpleOrdered DEF Inv, NoneLeftOut
  <1>2. ~pipelined
    BY DEF Simple
  <1>3. /\ base \in Seq(Pair) /\ RequestsUpTo(base, Len(src.list))
        /\ Len(w.pairs) = Len(base) /\ ps = w.pairs
        /\ ps \in Seq(Pair) /\ ChainFrom(ps) /\ b \in Nat /\ Len(base) \in Nat
    <2>1. base \in Seq(Pair) /\ RequestsUpTo(base, Len(src.list))
      BY <1>1, RequestsPaired
    <2>2. Len(w.pairs) = Len(base)
      BY <1>1, ResponsesPaired DEF ResponsesUpTo
    <2>3. ps \in Seq(Pair) /\ ChainFrom(ps)
      BY <1>1, ExtractedFacts
    <2>4. ps = w.pairs
      BY DEF Extracted
    <2> QED
      BY <1>1, <2>1, <2>2, <2>3, <2>4 DEF Typed
  <1>4. PICK i \in 1..Len(dst.list) : dst.list[i].type = "RSP" /\ dst.list[i].id = k
    BY <1>1 DEF Server
  <1>5. dst.list[i].ack = Wrap(First + k)
    BY <1>1, <1>2, <1>4 DEF Numbers
  <1>6. i \in G
    <2>1. ~Marked(dst.list, "RSP", k)
      BY <1>1 DEF Waiting
    <2>2. ~dst.list[i].processed
      BY <1>4, <2>1 DEF Marked
    <2>3. InScope(dst.list, i) /\ i \in DOMAIN dst.list
      BY <1>1, <1>4, AllInScope, TypedLists
    <2> QED
      BY <1>4, <2>2, <2>3 DEF Fresh
  <1> HIDE DEF base, w, ps, F, G
  <1>7. \E j \in 1..Len(base) : /\ base[j].rsp = None /\ base[j].nxt = Wrap(First + k)
                                /\ j <= b => pairs[j].rsp = None
    <2>1. PICK m \in 1..Len(src.list) : src.list[m].type = "REQ" /\ src.list[m].id = k
      BY <1>1 DEF Complete
    <2>2. src.list[m].nxt = Wrap(First + k)
      BY <1>1, <2>1 DEF Numbers
    <2>3. CASE src.list[m].processed
      <3>1. ReqTold(told, k)
        BY <1>1, <2>1, <2>3 DEF Hist, Marked
      <3>2. PICK j \in 1..b : pairs[j].id = k /\ pairs[j].rsp = None
        BY <1>1, <3>1 DEF Waiting
      <3>3. j \in 1..Len(base) /\ base[j] = pairs[j]
        BY <1>3, <3>2 DEF RequestsUpTo
      <3>4. pairs[j].nxt = Wrap(First + k)
        BY <1>1, <3>2 DEF Numbers
      <3> QED
        BY <3>2, <3>3, <3>4
    <2>4. CASE ~src.list[m].processed
      <3>1. m \in F
        <4>1. InScope(src.list, m) /\ m \in DOMAIN src.list
          BY <1>1, <2>1, AllInScope, TypedLists
        <4> QED
          BY <2>1, <2>4, <4>1 DEF Fresh, F
      <3>2. m <= Len(src.list)
        BY <1>1, TypedLists
      <3>3. PICK j \in (b + 1)..Len(base) : base[j] = NewPair(src.list[m])
        BY <1>3, <3>1, <3>2 DEF RequestsUpTo, F
      <3>4. base[j].rsp = None /\ base[j].nxt = src.list[m].nxt
        BY <3>3 DEF NewPair
      <3>5. j \in 1..Len(base) /\ ~(j <= b)
        BY <1>3, <3>3
      <3> QED
        BY <2>2, <3>4, <3>5
    <2> QED
      BY <2>3, <2>4
  <1>8. PICK j \in 1..Len(base) : /\ base[j].rsp = None /\ base[j].nxt = Wrap(First + k)
                                  /\ j <= b => pairs[j].rsp = None
    BY <1>7
  <1>9. Growing(base) /\ Fits(base[j], dst.list[i].ack)
    BY <1>5, <1>8, BaseGrowing DEF Fits, base
  <1>10. w.pairs[j].rsp = dst.list[i].id
    BY <1>1, <1>6, <1>9, ResponsesComplete DEF base, w, G
  <1>11. j \in 1..Len(ps) /\ ps[j].rsp = k /\ ps[j].rsp # None
    BY <1>3, <1>4, <1>10, PairAssumption DEF Request
  <1>12. NewRsp(ps[j])
    BY <1>3, <1>8, <1>11 DEF ChainFrom
  <1> QED
    BY <1>11, <1>12 DEF ps

\* Such a call leaves none out.
LEMMA ExtractWaits ==
    ASSUME Inv, NoneLeftOut, ExtractPair, ExtractData(Extracted),
           phase \in {"table", "queued"},
           sent' = sent, answered' = answered, cseq' = cseq,
           pipelined' = pipelined, captured' = captured
    PROVE  Waiting'
  <1> DEFINE ps == Extracted
             b  == Len(pairs)
  <1>1. Typed /\ Hist /\ Numbers /\ Client /\ Waiting
    BY DEF Inv, NoneLeftOut
  <1>2. /\ Remarked(src'.list, src.list, Fresh(src.list, "REQ"))
        /\ Remarked(dst'.list, dst.list, Parsed)
        /\ ToldUpTo(told', told, ps, Len(ps))
        /\ \A i \in 1..Len(pairs') : \E j \in 1..Len(ps) : pairs'[i] = Done(ps[j])
        /\ \A j \in 1..Len(ps) : j \notin Dropped(ps) =>
             \E i \in 1..Len(pairs') : pairs'[i] = Done(ps[j])
    BY <1>1, Extraction
  <1>3. /\ ps \in Seq(Pair) /\ ChainFrom(ps) /\ Len(ps) \in Nat /\ b \in Nat
        /\ \A m \in Parsed : m \in Fresh(dst.list, "RSP")
    BY <1>1, ExtractedFacts DEF Typed
  <1> SUFFICES ASSUME Simple PROVE Waiting'
    BY DEF Waiting, Simple
  <1>4. Ordered /\ ~pipelined
    BY SimpleOrdered DEF Simple
  <1>5. /\ \A j \in 1..b : pairs[j].rsp # None =>
             pairs[j].rsp = pairs[j].id /\ RspTold(told, pairs[j].id)
        /\ \A k \in Request : <<"REQ", k>> \in captured /\ Marked(dst.list, "RSP", k)
             => RspTold(told, k)
        /\ \A k, n \in Request :
             /\ k < n /\ <<"REQ", k>> \in captured /\ <<"RSP", k>> \in captured
             /\ ReqTold(told, n)
             => RspTold(told, k)
        /\ \A k \in Request : ReqTold(told, k) =>
             \/ RspTold(told, k)
             \/ k <= answered /\ <<"RSP", k>> \notin captured
             \/ \E j \in 1..b : pairs[j].id = k /\ pairs[j].rsp = None
    BY <1>1 DEF Waiting
  <1>6. /\ \A k : ReqTold(told', k) <=> ReqTold(told, k)
                    \/ \E j \in 1..Len(ps) : ~ps[j].reqDone /\ ps[j].id = k
        /\ \A k : RspTold(told', k) <=> RspTold(told, k)
                    \/ \E j \in 1..Len(ps) : NewRsp(ps[j]) /\ ps[j].rsp = k
    BY <1>2 DEF ToldUpTo
  <1>7. ASSUME FoundRequest, NEW k \in Request, <<"REQ", k>> \in captured,
               <<"RSP", k>> \in captured
        PROVE  RspTold(told', k)
    BY <1>6, <1>7, ResponsesFound
  <1> HIDE DEF ps, b
  <1>8. ASSUME NEW j \in 1..Len(ps), ps[j].rsp # None
        PROVE  ps[j].rsp = ps[j].id /\ RspTold(told', ps[j].id)
    <2>1. CASE j <= b /\ ps[j].rsp = pairs[j].rsp /\ ps[j].rspDone
      <3>1. j \in 1..b /\ ps[j].id = pairs[j].id
        BY <1>3, <2>1 DEF ChainFrom, b
      <3> QED
        BY <1>5, <1>6, <1>8, <2>1, <3>1
    <2>2. ASSUME NewRsp(ps[j]), NEW m \in Parsed, ps[j].rsp = dst.list[m].id,
                 ps[j].nxt = dst.list[m].ack
          PROVE  ps[j].rsp = ps[j].id /\ RspTold(told', ps[j].id)
      <3>1. /\ m \in 1..Len(dst.list) /\ dst.list[m].type = "RSP"
            /\ dst.list[m].id \in Request
        BY <1>1, <1>3, FreshFacts
      <3>2. dst.list[m].ack = Wrap(First + dst.list[m].id)
        BY <1>1, <1>4, <3>1 DEF Numbers
      <3>3. ps[j].id \in Request
        <4>1. ps[j] \in Pair
          BY <1>3
        <4> QED
          BY <4>1 DEF Pair
      <3>4. ps[j].nxt = Wrap(First + ps[j].id)
        <4>1. CASE j \in 1..b
          BY <1>1, <1>3, <1>4, <4>1 DEF ChainFrom, Numbers, b
        <4>2. CASE j \in (b + 1)..Len(ps)
          <5>1. PICK i \in Fresh(src.list, "REQ") :
                  ps[j].id = src.list[i].id /\ ps[j].nxt = src.list[i].nxt
            BY <1>3, <4>2 DEF ChainFrom, b
          <5>2. i \in 1..Len(src.list) /\ src.list[i].type = "REQ"
            BY <1>1, FreshFacts
          <5> QED
            BY <1>1, <1>4, <5>1, <5>2 DEF Numbers
        <4> QED
          BY <1>3, <4>1, <4>2
      <3>5. ps[j].id = dst.list[m].id
        BY <1>1, <2>2, <3>1, <3>2, <3>3, <3>4, RequestsApart
      <3> QED
        BY <1>6, <2>2, <3>5
    <2> QED
      BY <1>3, <1>8, <2>1, <2>2 DEF ChainFrom, b
  <1>9. ASSUME NEW i \in 1..Len(pairs'), pairs'[i].rsp # None
        PROVE  pairs'[i].rsp = pairs'[i].id /\ RspTold(told', pairs'[i].id)
    <2>1. PICK j \in 1..Len(ps) : pairs'[i] = Done(ps[j])
      BY <1>2
    <2>2. ps[j] \in Pair
      BY <1>3
    <2>3. pairs'[i].rsp = ps[j].rsp /\ pairs'[i].id = ps[j].id
      BY <2>1, <2>2 DEF Done, Pair
    <2> QED
      BY <1>8, <1>9, <2>3
  <1>10. ASSUME NEW k \in Request, <<"REQ", k>> \in captured, Marked(dst'.list, "RSP", k)
         PROVE  RspTold(told', k)
    <2>1. \/ Marked(dst.list, "RSP", k)
          \/ \E i \in 1..Len(dst.list) :
               i \in Parsed /\ dst.list[i].type = "RSP" /\ dst.list[i].id = k
      BY <1>2, <1>10, MarkedRemarked
    <2>2. CASE Marked(dst.list, "RSP", k)
      BY <1>5, <1>6, <1>10, <2>2
    <2>3. ASSUME NEW i \in 1..Len(dst.list), i \in Parsed, dst.list[i].type = "RSP",
                 dst.list[i].id = k
          PROVE  RspTold(told', k)
      <3>1. FoundRequest
        BY <2>3 DEF Parsed
      <3>2. <<"RSP", k>> \in captured
        BY <1>1, <2>3 DEF Typed, ListOf
      <3> QED
        BY <1>7, <1>10, <3>1, <3>2
    <2> QED
      BY <2>1, <2>2, <2>3
  <1>11. ASSUME NEW k, ~ReqTold(told, k), ReqTold(told', k)
         PROVE  FoundRequest /\ \E j \in 1..Len(ps) : ps[j].id = k /\ ~ps[j].reqDone
    <2>1. PICK j \in 1..Len(ps) : ~ps[j].reqDone /\ ps[j].id = k
      BY <1>6, <1>11
    <2>2. j \in (b + 1)..Len(ps)
      BY <1>3, <2>1 DEF ChainFrom, b
    <2>3. Fresh(src.list, "REQ") # {}
      BY <1>3, <2>2 DEF ChainFrom, b
    <2> QED
      BY <2>1, <2>3 DEF FoundRequest
  <1>12. ASSUME NEW k \in Request, NEW n \in Request, k < n, <<"REQ", k>> \in captured,
                <<"RSP", k>> \in captured, ReqTold(told', n)
         PROVE  RspTold(told', k)
    <2>1. CASE ReqTold(told, n)
      BY <1>5, <1>6, <1>12, <2>1
    <2>2. CASE ~ReqTold(told, n)
      BY <1>7, <1>11, <1>12, <2>2
    <2> QED
      BY <2>1, <2>2
  <1>13. ASSUME NEW k \in Request, ReqTold(told', k), ~RspTold(told', k),
                ~(k <= answered /\ <<"RSP", k>> \notin captured)
         PROVE  \E i \in 1..Len(pairs') : pairs'[i].id = k /\ pairs'[i].rsp = None
    <2>1. PICK j \in 1..Len(ps) : ps[j].id = k /\ (j <= b => ReqTold(told, k))
      <3>1. CASE ReqTold(told, k)
        <4>1. PICK j \in 1..b : pairs[j].id = k
          BY <1>5, <1>6, <1>13, <3>1
        <4>2. j \in 1..Len(ps) /\ ps[j].id = k
          BY <1>3, <4>1 DEF ChainFrom, b
        <4> QED
          BY <3>1, <4>2
      <3>2. CASE ~ReqTold(told, k)
        <4>1. PICK j \in 1..Len(ps) : ps[j].id = k /\ ~ps[j].reqDone
          BY <1>11, <1>13, <3>2
        <4>2. ~(j <= b)
          BY <1>3, <4>1 DEF ChainFrom, b
        <4> QED
          BY <4>1, <4>2
      <3> QED
        BY <3>1, <3>2
    <2>2. ps[j].rsp = None
      BY <1>8, <1>13, <2>1
    <2>3. j \notin Dropped(ps)
      <3> SUFFICES ASSUME j \in Dropped(ps) PROVE FALSE
        OBVIOUS
      <3>1. PICK q \in j..(Len(ps) - 1) : ps[q].rspDone
        BY DEF Dropped
      <3>2. q \in 1..Len(ps) /\ q # j /\ j < q
        <4>1. q \in 1..Len(ps)
          BY <1>3, <3>1
        <4>2. q # j
          BY <1>3, <2>2, <3>1, <4>1 DEF ChainFrom
        <4> QED
          BY <3>1, <4>1, <4>2
      <3>3. ps[q].rsp # None /\ ~NewRsp(ps[q])
        BY <1>3, <3>1, <3>2 DEF ChainFrom, NewRsp
      <3>4. q <= b /\ ps[q].rsp = pairs[q].rsp
        BY <1>3, <3>2, <3>3 DEF ChainFrom, b
      <3>5. /\ j \in 1..b /\ q \in 1..b /\ pairs[q].rsp # None
            /\ ps[j].id = pairs[j].id /\ ps[q].id = pairs[q].id
        <4>1. j \in 1..b /\ q \in 1..b
          BY <1>3, <3>2, <3>4
        <4> QED
          BY <1>3, <3>3, <3>4, <4>1 DEF ChainFrom, b
      <3>6. k < pairs[q].id
        BY <1>1, <1>4, <2>1, <3>2, <3>5 DEF Client, b
      <3>7. /\ pairs[q].id \in Request /\ pairs[q].id <= answered
            /\ ReqTold(told, pairs[q].id)
        BY <1>1, <1>5, <3>5, ToldCaptured DEF Hist, b
      <3>8. k <= answered
        BY <1>1, <3>6, <3>7, TypedNumbers DEF Request
      <3>9. <<"RSP", k>> \in captured /\ <<"REQ", k>> \in captured
        <4>1. j <= b
          BY <3>5
        <4> QED
          BY <1>13, <2>1, <3>8, <4>1, ToldCaptured
      <3> QED
        BY <1>5, <1>6, <1>13, <3>6, <3>7, <3>9
    <2>4. PICK i \in 1..Len(pairs') : pairs'[i] = Done(ps[j])
      BY <1>2, <2>3
    <2>5. ps[j] \in Pair
      BY <1>3
    <2>6. pairs'[i].id = k /\ pairs'[i].rsp = None
      BY <2>1, <2>2, <2>4, <2>5 DEF Done, Pair
    <2> QED
      BY <2>6
  <1>14. \A k \in Request : ReqTold(told', k) =>
           \/ RspTold(told', k)
           \/ k <= answered /\ <<"RSP", k>> \notin captured
           \/ \E j \in 1..Len(pairs') : pairs'[j].id = k /\ pairs'[j].rsp = None
    BY <1>13
  <1> QED
    BY <1>9, <1>10, <1>12, <1>14 DEF Waiting, Request

\* A segment of the server's that was sent last is stored at the end.
LEMMA ServerAtEnd ==
    ASSUME Inv, Server, phase = "table", NEW s \in Segment, s.seq = Wrap(sseq)
    PROVE  /\ AtEnd(TcpOrder(dst, s).list, dst.list, s)
           /\ s.seq = sseq /\ sseq \in Nat
  <1>1. /\ sseq = answered /\ UpTo(dst.list, sseq)
    BY DEF Server
  <1>2. /\ OrderIn(dst, Segment) /\ answered \in Nat /\ answered <= sent
        /\ sent \in Nat /\ sent < Size /\ Size \in Nat
    BY TypedNumbers DEF Inv, Typed
  <1>3. sseq \in 0..(Size - 1)
    BY <1>1, <1>2
  <1>4. s.seq = sseq
    BY <1>3, WordFacts, WrapIsWord
  <1> QED
    BY <1>1, <1>2, <1>4, Segments, LargerAtEnd

\* None is left out at first.
LEMMA InitNone == Init => NoneLeftOut
  <1> SUFFICES ASSUME Init PROVE NoneLeftOut
    OBVIOUS
  <1>1. /\ src.list = <<>> /\ dst.list = <<>> /\ pairs = <<>> /\ phase = "table"
        /\ answered = 0 /\ sseq = 0 /\ captured = {} /\ told = <<>>
    BY DEF Init, EmptyOrder
  <1>2. /\ Len(src.list) = 0 /\ Len(dst.list) = 0 /\ Len(pairs) = 0 /\ Len(told) = 0
        /\ 1..0 = {}
    BY <1>1
  <1>3. Server
    BY <1>1, <1>2 DEF Server, UpTo, Rising
  <1>4. Client
    BY <1>2 DEF Client, Rising
  <1>5. Waiting
    BY <1>1, <1>2 DEF Waiting, ReqTold, RspTold
  <1> QED
    BY <1>3, <1>4, <1>5 DEF NoneLeftOut

\* Another request.
LEMMA NoneSendRequest ==
    ASSUME Inv, NoneLeftOut, NEW seen \in BOOLEAN, SendRequest(seen)
    PROVE  NoneLeftOut'
  <1> DEFINE s == Seg(cseq, sseq, "REQ", sent + 1, FALSE)
             l == src.list
             m == src'.list
  <1>1. Typed /\ Server /\ Client /\ Waiting
    BY DEF Inv, NoneLeftOut
  <1>2. /\ phase = "table" /\ sent < MaxRequests /\ sent' = sent + 1
        /\ cseq' = cseq + 1 /\ pipelined' = (pipelined \/ sent > answered)
        /\ dst' = dst /\ pairs' = pairs /\ phase' = phase /\ answered' = answered
        /\ sseq' = sseq /\ told' = told
        /\ seen => src' = TcpOrder(src, s) /\ captured' = captured \cup {<<"REQ", sent + 1>>}
        /\ ~seen => src' = src /\ captured' = captured
    BY DEF SendRequest
  <1>3. /\ sent \in Nat /\ answered \in Nat /\ answered <= sent /\ cseq \in Nat
        /\ Size \in Nat /\ Size = 2^WordSize
    BY <1>1, TypedNumbers DEF Size
  <1>4. /\ seen /\ Ordered => AtEnd(m, l, s)
        /\ s.type = "REQ" /\ s.id = sent + 1 /\ s.processed = FALSE
    BY <1>2, RequestStored
  <1> HIDE DEF s, l, m
  <1>5. /\ \A k : <<"RSP", k>> \in captured' <=> <<"RSP", k>> \in captured
        /\ \A k : <<"REQ", k>> \in captured' => <<"REQ", k>> \in captured \/ k = sent + 1
    BY <1>2
  <1>6. Server'
    BY <1>1, <1>2, <1>5 DEF Server, Request
  <1>7. Ordered' => Ordered
    <2> SUFFICES ASSUME Ordered' PROVE Ordered
      OBVIOUS
    <2>1. CASE cseq' < 2^WordSize
      BY <1>2, <1>3, <2>1 DEF Ordered
    <2>2. CASE \A k \in 1..sent' : <<"REQ", k>> \in captured'
      <3>1. \A k \in 1..sent : k \in 1..sent' /\ k # sent + 1
        BY <1>2, <1>3
      <3> QED
        BY <1>5, <2>2, <3>1 DEF Ordered
    <2> QED
      BY <2>1, <2>2 DEF Ordered
  <1>8. Client'
    <2> SUFFICES ASSUME Ordered
                 PROVE  /\ Rising(m, "REQ")
                        /\ \A i \in 1..Len(m) : m[i].type = "REQ" /\ ~m[i].processed =>
                             \A k \in Request : ReqTold(told, k) => k < m[i].id
                        /\ \A i, j \in 1..Len(pairs) : i < j => pairs[i].id < pairs[j].id
      BY <1>2, <1>7 DEF Client, Request, m
    <2>1. /\ Rising(l, "REQ")
          /\ \A i \in 1..Len(l) : l[i].type = "REQ" /\ ~l[i].processed =>
               \A k \in Request : ReqTold(told, k) => k < l[i].id
          /\ \A i, j \in 1..Len(pairs) : i < j => pairs[i].id < pairs[j].id
      BY <1>1 DEF Client, l
    <2>2. CASE ~seen
      <3>1. m = l
        BY <1>2, <2>2 DEF l, m
      <3> QED
        BY <2>1, <3>1
    <2>3. CASE seen
      <3>1. AtEnd(m, l, s)
        BY <1>4, <2>3
      <3>2. Len(l) \in Nat /\ \A i \in 1..Len(l) : l[i].type = "REQ" => l[i].id < s.id
        <4>1. Len(l) \in Nat /\ \A i \in 1..Len(l) : l[i].type = "REQ" => l[i].id \in 1..sent
          BY <1>1, TypedLists DEF Typed, ListOf, l
        <4> QED
          BY <1>3, <1>4, <4>1
      <3>3. Rising(m, "REQ")
        BY <2>1, <3>1, <3>2, RisingAtEnd
      <3>4. /\ Len(m) = Len(l) + 1 /\ m[Len(l) + 1] = s
            /\ \A i \in 1..Len(l) : m[i] = l[i]
        BY <3>1 DEF AtEnd, Inserted
      <3>5. ASSUME NEW i \in 1..Len(m), m[i].type = "REQ", ~m[i].processed,
                   NEW k \in Request, ReqTold(told, k)
            PROVE  k < m[i].id
        <4>1. CASE i \in 1..Len(l)
          BY <2>1, <3>4, <3>5, <4>1
        <4>2. CASE i = Len(l) + 1
          <5>1. k <= sent /\ k \in Nat
            <6>1. k <= sent
              BY <3>5, ToldCaptured
            <6> QED
              BY <6>1 DEF Request
          <5> QED
            BY <1>3, <1>4, <3>4, <4>2, <5>1
        <4> QED
          BY <3>2, <3>4, <4>1, <4>2
      <3> QED
        BY <2>1, <3>3, <3>5
    <2> QED
      BY <2>2, <2>3
  <1>9. Waiting'
    <2> SUFFICES ASSUME Simple' PROVE Waiting'
      BY DEF Waiting
    <2>1. Simple /\ sent <= answered
      <3>1. ~pipelined /\ ~(sent > answered) /\ cseq' < Size
        BY <1>2, Zenon DEF Simple, Size
      <3> QED
        BY <1>2, <1>3, <3>1 DEF Simple
    <2>2. /\ \A j \in 1..Len(pairs) : pairs[j].rsp # None =>
               pairs[j].rsp = pairs[j].id /\ RspTold(told, pairs[j].id)
          /\ \A k \in Request : <<"REQ", k>> \in captured /\ Marked(dst.list, "RSP", k)
               => RspTold(told, k)
          /\ \A k, n \in Request :
               /\ k < n /\ <<"REQ", k>> \in captured /\ <<"RSP", k>> \in captured
               /\ ReqTold(told, n)
               => RspTold(told, k)
          /\ \A k \in Request : ReqTold(told, k) =>
               \/ RspTold(told, k)
               \/ k <= answered /\ <<"RSP", k>> \notin captured
               \/ \E j \in 1..Len(pairs) : pairs[j].id = k /\ pairs[j].rsp = None
      BY <1>1, <2>1 DEF Waiting
    <2>3. ASSUME NEW k \in Request, <<"REQ", k>> \in captured', Marked(dst.list, "RSP", k)
          PROVE  RspTold(told, k)
      <3>1. k \in 1..answered
        BY <1>1, <2>3 DEF Marked, Typed, ListOf
      <3>2. k # sent + 1
        BY <1>3, <3>1
      <3> QED
        BY <1>5, <2>2, <2>3, <3>2
    <2>4. ASSUME NEW k \in Request, NEW n \in Request, k < n, <<"REQ", k>> \in captured',
                 <<"RSP", k>> \in captured', ReqTold(told, n)
          PROVE  RspTold(told, k)
      <3>1. n <= sent /\ n \in Nat /\ k \in Nat
        <4>1. n <= sent
          BY <2>4, ToldCaptured
        <4> QED
          BY <4>1 DEF Request
      <3>2. k # sent + 1
        BY <1>3, <2>4, <3>1
      <3> QED
        BY <1>5, <2>2, <2>4, <3>2
    <2> QED
      BY <1>2, <1>5, <2>2, <2>3, <2>4 DEF Waiting, Request
  <1> QED
    BY <1>6, <1>8, <1>9 DEF NoneLeftOut

\* Another response.
LEMMA NoneSendResponse ==
    ASSUME Inv, NoneLeftOut, NEW seen \in BOOLEAN, SendResponse(seen)
    PROVE  NoneLeftOut'
  <1> DEFINE s == Seg(sseq, cseq, "RSP", answered + 1, FALSE)
             l == dst.list
             m == dst'.list
  <1>1. Typed /\ Numbers /\ Server /\ Client /\ Waiting
    BY DEF Inv, NoneLeftOut
  <1>2. /\ phase = "table" /\ answered < sent /\ answered' = answered + 1
        /\ sseq' = sseq + 1
        /\ src' = src /\ pairs' = pairs /\ phase' = phase /\ sent' = sent
        /\ cseq' = cseq /\ pipelined' = pipelined /\ told' = told
        /\ seen => dst' = TcpOrder(dst, s)
                   /\ captured' = captured \cup {<<"RSP", answered + 1>>}
        /\ ~seen => dst' = dst /\ captured' = captured
    BY DEF SendResponse
  <1>3. /\ sent \in Nat /\ answered \in Nat /\ sent < Size /\ Size \in Nat
        /\ cseq \in Nat /\ clock \in Nat /\ sseq = answered
    BY <1>1, TypedNumbers DEF Server
  <1>4. /\ s \in Segment /\ s.seq = Wrap(sseq) /\ s.nxt = Wrap(sseq + 1)
        /\ s.type = "RSP" /\ s.id = answered + 1 /\ s.processed = FALSE
    <2>1. Wrap(cseq) \in Word /\ Wrap(sseq) \in Word /\ Wrap(sseq + 1) \in Word
      BY <1>3, WrapIsWord
    <2> QED
      BY <1>3, <2>1 DEF Seg, Segment
  <1> HIDE DEF s
  <1>5. s.seq = sseq /\ s.nxt = sseq + 1
    <2>1. sseq \in 0..(Size - 1) /\ sseq + 1 \in 0..(Size - 1)
      BY <1>2, <1>3
    <2> QED
      BY <1>4, <2>1, WordFacts, WrapIsWord
  <1>6. /\ \A k : <<"REQ", k>> \in captured' <=> <<"REQ", k>> \in captured
        /\ \A k : <<"RSP", k>> \in captured => <<"RSP", k>> \in captured'
        /\ \A k : <<"RSP", k>> \in captured' =>
             <<"RSP", k>> \in captured \/ (seen /\ k = answered + 1)
    BY <1>2
  <1>7. /\ Len(l) \in Nat /\ UpTo(l, sseq) /\ Rising(l, "RSP")
        /\ \A i \in 1..Len(l) : /\ l[i].seq \in Nat /\ l[i].nxt \in Nat
                                /\ l[i].type = "RSP" => l[i].id \in 1..answered
    <2>1. Len(l) \in Nat /\ \A i \in 1..Len(l) : l[i] \in Segment
      BY <1>1, TypedLists
    <2>2. \A i \in 1..Len(l) : l[i].seq \in Nat /\ l[i].nxt \in Nat
      BY <2>1, SegmentFields, WordFacts
    <2> QED
      BY <1>1, <1>2, <2>1, <2>2 DEF Server, Typed, ListOf
  <1>8. seen => AtEnd(m, l, s)
    BY <1>1, <1>2, <1>4, ServerAtEnd
  <1> HIDE DEF l, m
  <1>9. seen => /\ Len(m) = Len(l) + 1 /\ m[Len(l) + 1] = s
                /\ \A i \in 1..Len(l) : m[i] = l[i]
    BY <1>8 DEF AtEnd, Inserted
  <1>10. ~seen => m = l
    BY <1>2 DEF l, m
  <1>11. UpTo(m, sseq')
    <2>1. /\ \A i \in 1..Len(l) : l[i].seq < l[i].nxt /\ l[i].nxt <= sseq
          /\ \A i, j \in 1..Len(l) : i < j => l[i].nxt <= l[j].seq
      BY <1>7 DEF UpTo
    <2>2. CASE ~seen
      <3>1. \A i \in 1..Len(l) : l[i].nxt <= sseq'
        BY <1>2, <1>3, <1>7, <2>1
      <3> QED
        BY <1>10, <2>1, <2>2, <3>1 DEF UpTo
    <2>3. CASE seen
      <3>1. \A i \in 1..Len(m) : i \in 1..Len(l) \/ i = Len(l) + 1
        BY <1>7, <1>9, <2>3
      <3>2. \A i \in 1..Len(m) : m[i].seq < m[i].nxt /\ m[i].nxt <= sseq'
        BY <1>2, <1>3, <1>5, <1>7, <1>9, <2>1, <2>3, <3>1
      <3>3. ASSUME NEW i \in 1..Len(m), NEW j \in 1..Len(m), i < j
            PROVE  m[i].nxt <= m[j].seq
        <4>1. i \in 1..Len(l) /\ m[i] = l[i]
          BY <1>7, <1>9, <2>3, <3>3
        <4>2. CASE j \in 1..Len(l)
          BY <1>9, <2>1, <2>3, <3>3, <4>1, <4>2
        <4>3. CASE j = Len(l) + 1
          BY <1>5, <1>9, <2>1, <2>3, <4>1, <4>3
        <4> QED
          BY <3>1, <4>2, <4>3
      <3> QED
        BY <3>2, <3>3 DEF UpTo
    <2> QED
      BY <2>2, <2>3
  <1>12. Rising(m, "RSP")
    <2>1. CASE seen
      <3>1. \A i \in 1..Len(l) : l[i].type = "RSP" => l[i].id < s.id
        BY <1>3, <1>4, <1>7
      <3> QED
        BY <1>7, <1>8, <2>1, <3>1, RisingAtEnd
    <2> QED
      BY <1>7, <1>10, <2>1
  <1>13. ASSUME NEW k \in Request, <<"RSP", k>> \in captured'
         PROVE  \E i \in 1..Len(m) : m[i].type = "RSP" /\ m[i].id = k
    <2>1. CASE <<"RSP", k>> \in captured
      <3>1. PICK i \in 1..Len(l) : l[i].type = "RSP" /\ l[i].id = k
        BY <1>1, <2>1 DEF Server, l
      <3>2. i \in 1..Len(m) /\ m[i] = l[i]
        BY <1>7, <1>9, <1>10
      <3> QED
        BY <3>1, <3>2
    <2>2. CASE seen /\ k = answered + 1
      <3>1. Len(l) + 1 \in 1..Len(m) /\ m[Len(l) + 1] = s
        BY <1>7, <1>9, <2>2
      <3> QED
        BY <1>4, <2>2, <3>1
    <2> QED
      BY <1>6, <1>13, <2>1, <2>2
  <1>14. Server'
    BY <1>2, <1>3, <1>11, <1>12, <1>13 DEF Server, Request, m
  <1>15. Ordered' <=> Ordered
    BY <1>2, <1>6 DEF Ordered
  <1>16. Client'
    BY <1>1, <1>2, <1>15 DEF Client
  <1>17. Waiting'
    <2> SUFFICES ASSUME Simple PROVE Waiting'
      BY <1>2 DEF Waiting, Simple
    <2>1. /\ \A j \in 1..Len(pairs) : pairs[j].rsp # None =>
               pairs[j].rsp = pairs[j].id /\ RspTold(told, pairs[j].id)
          /\ \A k \in Request : <<"REQ", k>> \in captured /\ Marked(dst.list, "RSP", k)
               => RspTold(told, k)
          /\ \A k, n \in Request :
               /\ k < n /\ <<"REQ", k>> \in captured /\ <<"RSP", k>> \in captured
               /\ ReqTold(told, n)
               => RspTold(told, k)
          /\ \A k \in Request : ReqTold(told, k) =>
               \/ RspTold(told, k)
               \/ k <= answered /\ <<"RSP", k>> \notin captured
               \/ \E j \in 1..Len(pairs) : pairs[j].id = k /\ pairs[j].rsp = None
      BY <1>1 DEF Waiting
    <2>2. \A k : Marked(dst'.list, "RSP", k) => Marked(dst.list, "RSP", k)
      <3>1. \A i \in 1..Len(m) : m[i].processed => i \in 1..Len(l) /\ m[i] = l[i]
        BY <1>4, <1>7, <1>9, <1>10
      <3> QED
        BY <3>1 DEF Marked, l, m
    <2>3. ASSUME NEW k \in Request, NEW n \in Request, k < n, <<"REQ", k>> \in captured',
                 <<"RSP", k>> \in captured', ReqTold(told, n)
          PROVE  RspTold(told, k)
      <3>1. n <= sent /\ n \in Nat /\ k \in Nat
        <4>1. n <= sent
          BY <2>3, ToldCaptured
        <4> QED
          BY <4>1 DEF Request
      <3>2. sent <= answered + 1
        BY <1>1 DEF Numbers, Simple
      <3>3. k # answered + 1
        BY <1>3, <2>3, <3>1, <3>2
      <3> QED
        BY <1>6, <2>1, <2>3, <3>3
    <2>4. ASSUME NEW k \in Request, k <= answered, <<"RSP", k>> \notin captured
          PROVE  k <= answered' /\ <<"RSP", k>> \notin captured'
      <3>1. k # answered + 1 /\ k <= answered'
        BY <1>2, <1>3, <2>4 DEF Request
      <3> QED
        BY <1>6, <2>4, <3>1
    <2> QED
      BY <1>2, <1>6, <2>1, <2>2, <2>3, <2>4 DEF Waiting, Request
  <1> QED
    BY <1>14, <1>16, <1>17 DEF NoneLeftOut

\* The FIN or the RST of the client or of the server.
LEMMA NoneClose ==
    ASSUME Inv, NoneLeftOut, NEW client \in BOOLEAN, NEW fin \in BOOLEAN,
           Close(client, fin)
    PROVE  NoneLeftOut'
  <1> DEFINE c == Seg(cseq, sseq, "none", 0, fin)
             d == Seg(sseq, cseq, "none", 0, fin)
  <1>1. Typed /\ Ahead /\ Server /\ Client /\ Waiting
    BY DEF Inv, NoneLeftOut
  <1>2. /\ phase = "table" /\ phase' = "queued"
        /\ client => src' = TcpOrder(src, c) /\ dst' = dst
        /\ ~client => dst' = TcpOrder(dst, d) /\ src' = src
        /\ pairs' = pairs /\ sent' = sent /\ answered' = answered /\ cseq' = cseq
        /\ sseq' = sseq /\ pipelined' = pipelined /\ captured' = captured /\ told' = told
    BY DEF Close, HasFlow, connVars
  <1>3. cseq \in Int /\ sseq \in Int /\ clock \in Nat
    BY <1>1, TypedNumbers
  <1>4. /\ c \in Segment /\ c.seq = Wrap(cseq) /\ c.type = "none"
        /\ d \in Segment /\ d.seq = Wrap(sseq) /\ d.type = "none"
    <2>1. /\ Wrap(cseq) \in Word /\ Wrap(sseq) \in Word
          /\ Wrap(cseq + (IF fin THEN 2 ELSE 1)) \in Word
          /\ Wrap(sseq + (IF fin THEN 2 ELSE 1)) \in Word
      BY <1>3, WrapIsWord
    <2>2. c \in Segment /\ c.seq = Wrap(cseq) /\ c.type = "none"
      BY <1>3, <2>1 DEF Seg, Segment
    <2>3. d \in Segment /\ d.seq = Wrap(sseq) /\ d.type = "none"
      BY <1>3, <2>1 DEF Seg, Segment
    <2> QED
      BY <2>2, <2>3
  <1> HIDE DEF c, d
  <1>5. Len(src.list) \in Nat /\ Len(dst.list) \in Nat
    BY <1>1, TypedLists
  <1>6. (Ordered' <=> Ordered) /\ (Simple' <=> Simple)
    BY <1>2 DEF Ordered, Simple
  <1>7. /\ ~client => AtEnd(dst'.list, dst.list, d)
        /\ client /\ Ordered => AtEnd(src'.list, src.list, c)
    BY <1>1, <1>2, <1>4, ServerAtEnd, ClientAtEnd
  <1>8. /\ Len(dst'.list) \in Nat
        /\ \A i \in 1..Len(dst.list) : i \in 1..Len(dst'.list) /\ dst'.list[i] = dst.list[i]
        /\ \A i \in 1..Len(dst'.list) : \/ i \in 1..Len(dst.list) /\ dst'.list[i] = dst.list[i]
                                        \/ dst'.list[i].type = "none" /\ i = Len(dst.list) + 1
    <2>1. CASE client
      BY <1>2, <1>5, <2>1
    <2>2. CASE ~client
      <3>1. /\ Len(dst'.list) = Len(dst.list) + 1 /\ dst'.list[Len(dst.list) + 1] = d
            /\ \A i \in 1..Len(dst.list) : dst'.list[i] = dst.list[i]
        BY <1>7, <2>2 DEF AtEnd, Inserted
      <3>2. \A i \in 1..Len(dst'.list) : i \in 1..Len(dst.list) \/ i = Len(dst.list) + 1
        BY <1>5, <3>1
      <3>3. \A i \in 1..Len(dst.list) : i \in 1..Len(dst'.list)
        BY <1>5, <3>1
      <3>4. Len(dst'.list) \in Nat
        BY <1>5, <3>1
      <3> QED
        BY <1>4, <3>1, <3>2, <3>3, <3>4
    <2> QED
      BY <2>1, <2>2
  <1>9. Server'
    <2>1. Rising(dst'.list, "RSP")
      <3>1. CASE client
        BY <1>1, <1>2, <3>1 DEF Server
      <3>2. CASE ~client
        BY <1>1, <1>4, <1>5, <1>7, <3>2, RisingAtEnd DEF Server
      <3> QED
        BY <3>1, <3>2
    <2>2. \A k \in Request : <<"RSP", k>> \in captured =>
            \E i \in 1..Len(dst'.list) : dst'.list[i].type = "RSP" /\ dst'.list[i].id = k
      BY <1>1, <1>8 DEF Server
    <2>3. ASSUME NEW i \in 1..Len(dst'.list), dst'.list[i].type = "RSP"
          PROVE  InScope(dst.list, i)'
      <3>1. i \in 1..Len(dst.list)
        BY <1>8, <2>3
      <3>2. \A j \in 1..Len(dst.list) : dst.list[j].time < clock
        BY <1>1 DEF Typed, ListOf
      <3>3. 1..i \subseteq 1..Len(dst.list)
        BY <1>5, <3>1
      <3>4. \A j \in 1..i : dst'.list[j].time < clock
        BY <1>8, <3>2, <3>3
      <3>5. FinTime' \in {None, clock}
        BY CloseTime
      <3> QED
        BY <3>4, <3>5 DEF InScope
    <2> QED
      BY <1>1, <1>2, <2>1, <2>2, <2>3 DEF Server, Request
  <1>10. Client'
    <2> SUFFICES ASSUME Ordered
                 PROVE  /\ Rising(src'.list, "REQ")
                        /\ \A i \in 1..Len(src'.list) :
                             src'.list[i].type = "REQ" /\ ~src'.list[i].processed =>
                               \A k \in Request : ReqTold(told, k) => k < src'.list[i].id
                        /\ \A i, j \in 1..Len(pairs) : i < j => pairs[i].id < pairs[j].id
      BY <1>2, <1>6 DEF Client, Request
    <2>1. /\ Rising(src.list, "REQ")
          /\ \A i \in 1..Len(src.list) :
               src.list[i].type = "REQ" /\ ~src.list[i].processed =>
                 \A k \in Request : ReqTold(told, k) => k < src.list[i].id
          /\ \A i, j \in 1..Len(pairs) : i < j => pairs[i].id < pairs[j].id
      BY <1>1 DEF Client
    <2>2. CASE ~client
      BY <1>2, <2>1, <2>2
    <2>3. CASE client
      <3>1. /\ AtEnd(src'.list, src.list, c)
            /\ Len(src'.list) = Len(src.list) + 1 /\ src'.list[Len(src.list) + 1] = c
            /\ \A i \in 1..Len(src.list) : src'.list[i] = src.list[i]
        BY <1>7, <2>3 DEF AtEnd, Inserted
      <3>2. Rising(src'.list, "REQ")
        BY <1>4, <1>5, <2>1, <3>1, RisingAtEnd
      <3>3. \A i \in 1..Len(src'.list) : i \in 1..Len(src.list) \/ i = Len(src.list) + 1
        BY <1>5, <3>1
      <3> QED
        BY <1>4, <2>1, <3>1, <3>2, <3>3
    <2> QED
      BY <2>2, <2>3
  <1>11. Waiting'
    <2>1. \A k : Marked(dst'.list, "RSP", k) => Marked(dst.list, "RSP", k)
      BY <1>8 DEF Marked
    <2> QED
      BY <1>1, <1>2, <1>6, <2>1 DEF Waiting, Request
  <1> QED
    BY <1>9, <1>10, <1>11 DEF NoneLeftOut

\* The flow leaves the table as it is.
LEMMA NoneLeave ==
    ASSUME Inv, NoneLeftOut, Drop \/ Scrub
    PROVE  NoneLeftOut'
  <1>1. Ahead /\ Server /\ Client /\ Waiting
    BY DEF Inv, NoneLeftOut
  <1>2. /\ phase = "table" /\ phase' \in {"dropped", "queued"}
        /\ src' = src /\ dst' = dst /\ pairs' = pairs /\ sent' = sent
        /\ answered' = answered /\ cseq' = cseq /\ sseq' = sseq
        /\ pipelined' = pipelined /\ captured' = captured /\ told' = told
    BY DEF Drop, Scrub, HasFlow, connVars
  <1>3. (Ordered' <=> Ordered) /\ (Simple' <=> Simple)
    BY <1>2 DEF Ordered, Simple
  <1>4. \A i \in 1..Len(dst.list) : InScope(dst.list, i)'
    <2>1. FinTime = None
      BY <1>1, <1>2 DEF Ahead, FinTime, FirstFin
    <2> QED
      BY <1>2, <2>1 DEF InScope, FinTime
  <1>5. Server'
    BY <1>1, <1>2, <1>4 DEF Server
  <1>6. Client'
    BY <1>1, <1>2, <1>3 DEF Client
  <1>7. Waiting'
    BY <1>1, <1>2, <1>3 DEF Waiting
  <1> QED
    BY <1>5, <1>6, <1>7 DEF NoneLeftOut

\* A call of extractPair and extractData.
LEMMA NoneExtract ==
    ASSUME Inv, NoneLeftOut, ExtractPair, ExtractData(Extracted),
           \/ phase = "table" /\ phase' = "table"
           \/ phase = "queued" /\ phase' = "done",
           sent' = sent, answered' = answered, cseq' = cseq, sseq' = sseq,
           clock' = clock, pipelined' = pipelined, captured' = captured
    PROVE  NoneLeftOut'
  <1> DEFINE l == src.list
             m == src'.list
             F == Fresh(l, "REQ")
             ps == Extracted
  <1>1. Typed /\ Hist /\ Server /\ Client /\ Waiting
    BY DEF Inv, NoneLeftOut
  <1>2. /\ Remarked(m, l, F) /\ Remarked(dst'.list, dst.list, Parsed)
        /\ \E c \in Nat : \A i \in 1..Len(pairs') :
             c + i \in 1..Len(ps) /\ pairs'[i] = Done(ps[c + i])
        /\ pairs' \in Seq(Pair) /\ ps \in Seq(Pair)
    BY <1>1, Extraction, ExtractedFacts
  <1>3. (Ordered' <=> Ordered) /\ phase \in {"table", "queued"}
    BY DEF Ordered
  <1>4. Server'
    <2>1. /\ Len(dst'.list) = Len(dst.list)
          /\ \A i \in 1..Len(dst.list) :
               /\ dst'.list[i].type = dst.list[i].type /\ dst'.list[i].id = dst.list[i].id
               /\ dst'.list[i].seq = dst.list[i].seq /\ dst'.list[i].nxt = dst.list[i].nxt
      BY <1>2 DEF Remarked
    <2>2. phase' = "table" => UpTo(dst'.list, sseq)
      BY <1>1, <2>1 DEF Server, UpTo
    <2>3. \A k \in Request : <<"RSP", k>> \in captured =>
            \E i \in 1..Len(dst'.list) : dst'.list[i].type = "RSP" /\ dst'.list[i].id = k
      BY <1>1, <2>1 DEF Server
    <2>4. Rising(dst'.list, "RSP")
      BY <1>1, <1>2, RisingRemarked DEF Server
    <2> QED
      BY <1>1, <2>2, <2>3, <2>4 DEF Server, Request
  <1>5. Client'
    <2> SUFFICES ASSUME Ordered
                 PROVE  /\ Rising(m, "REQ")
                        /\ \A i \in 1..Len(m) : ~(m[i].type = "REQ" /\ ~m[i].processed)
                        /\ \A i, j \in 1..Len(pairs') : i < j => pairs'[i].id < pairs'[j].id
      BY <1>3 DEF Client, m
    <2>1. Rising(m, "REQ")
      BY <1>1, <1>2, RisingRemarked DEF Client
    <2>2. ASSUME NEW i \in 1..Len(m), m[i].type = "REQ" PROVE m[i].processed
      <3>1. i \in 1..Len(l) /\ l[i].type = "REQ" /\ (m[i].processed <=> l[i].processed \/ i \in F)
        BY <1>2, <2>2 DEF Remarked
      <3>2. InScope(l, i) /\ i \in DOMAIN l
        BY <1>1, <1>3, <3>1, AllInScope, TypedLists
      <3> QED
        BY <3>1, <3>2 DEF Fresh
    <2>3. ASSUME NEW i \in 1..Len(pairs'), NEW j \in 1..Len(pairs'), i < j
          PROVE  pairs'[i].id < pairs'[j].id
      <3>1. PICK c \in Nat : \A q \in 1..Len(pairs') :
              c + q \in 1..Len(ps) /\ pairs'[q] = Done(ps[c + q])
        BY <1>2
      <3>2. c + i < c + j
        BY <1>2, <2>3, <3>1
      <3>3. ps[c + i].id < ps[c + j].id
        BY <3>1, <3>2, ChainSorted DEF NoneLeftOut
      <3>4. ps[c + i] \in Pair /\ ps[c + j] \in Pair
        BY <1>2, <3>1
      <3>5. \A p \in Pair : Done(p).id = p.id
        BY DEF Done, Pair
      <3> QED
        BY <3>1, <3>3, <3>4, <3>5
    <2> QED
      BY <2>1, <2>2, <2>3
  <1>6. Waiting'
    BY <1>3, ExtractWaits
  <1> QED
    BY <1>4, <1>5, <1>6 DEF NoneLeftOut

\* Every step keeps it.
LEMMA NextNone == Inv /\ NoneLeftOut /\ [Next]_vars => NoneLeftOut'
  <1> SUFFICES ASSUME Inv, NoneLeftOut, [Next]_vars PROVE NoneLeftOut'
    OBVIOUS
  <1>1. ASSUME NEW seen \in BOOLEAN, SendRequest(seen) PROVE NoneLeftOut'
    BY <1>1, NoneSendRequest
  <1>2. ASSUME NEW seen \in BOOLEAN, SendResponse(seen) PROVE NoneLeftOut'
    BY <1>2, NoneSendResponse
  <1>3. ASSUME NEW client \in BOOLEAN, NEW fin \in BOOLEAN, Close(client, fin)
        PROVE  NoneLeftOut'
    BY <1>3, NoneClose
  <1>4. CASE Drop \/ Scrub
    BY <1>4, NoneLeave
  <1>5. CASE Tick \/ Finish
    <2>1. /\ ExtractPair /\ ExtractData(Extracted)
          /\ sent' = sent /\ answered' = answered /\ cseq' = cseq /\ sseq' = sseq
          /\ clock' = clock /\ pipelined' = pipelined /\ captured' = captured
      BY <1>5 DEF Tick, Finish, connVars
    <2>2. \/ phase = "table" /\ phase' = "table"
          \/ phase = "queued" /\ phase' = "done"
      BY <1>5 DEF Tick, Finish, HasFlow
    <2> QED
      BY <2>1, <2>2, NoneExtract
  <1>6. CASE UNCHANGED vars
    <2>1. /\ src' = src /\ dst' = dst /\ pairs' = pairs /\ phase' = phase
          /\ sent' = sent /\ answered' = answered /\ cseq' = cseq /\ sseq' = sseq
          /\ pipelined' = pipelined /\ captured' = captured /\ told' = told
      BY <1>6 DEF vars, flowVars, connVars
    <2>2. (Ordered' <=> Ordered) /\ (Simple' <=> Simple)
      BY <2>1 DEF Ordered, Simple
    <2>3. Server'
      BY <2>1 DEF NoneLeftOut, Server, InScope, FinTime
    <2>4. Client'
      BY <2>1, <2>2 DEF NoneLeftOut, Client
    <2>5. Waiting'
      BY <2>1, <2>2 DEF NoneLeftOut, Waiting
    <2> QED
      BY <2>3, <2>4, <2>5 DEF NoneLeftOut
  <1> QED
    BY <1>1, <1>2, <1>3, <1>4, <1>5, <1>6 DEF Next, Rest

-----------------------------------------------------------------------------
(***************************************************************************)
(* The theorems                                                            *)
(***************************************************************************)
\* All of it holds in every state.
LEMMA AlwaysInv == Spec => []Inv
  BY InitInv, NextInv, PTL DEF Spec

\* The pair chain of a flow is made of the requests and responses of its
\* connection, however the calls of extractPair and extractData are spread over
\* its life: TypeOK, for any number of requests and any width of the numbers.
THEOREM PairsAreTyped == Spec => []TypeOK
  <1>1. Inv => TypeOK
    <2> SUFFICES ASSUME Inv PROVE TypeOK
      OBVIOUS
    <2>1. /\ pairs \in Seq(Pair) /\ phase \in {"table", "queued", "done", "dropped"}
          /\ captured \subseteq {"REQ", "RSP"} \X Request
      BY DEF Inv, Typed
    <2>2. \A i \in DOMAIN pairs : pairs[i] \in Pair
      BY <2>1
    <2> QED
      BY <2>1, <2>2 DEF TypeOK, Pair
  <1> QED
    BY <1>1, AlwaysInv, PTL

\* Told has at most one element when no event occurs twice.
LEMMA ToldFacts ==
    ASSUME Inv, NEW k
    PROVE  /\ Cardinality(Told("REQ", k)) <= 1 /\ Cardinality(Told("RSP", k)) <= 1
           /\ Told("REQ", k) # {} <=> ReqTold(told, k)
           /\ Told("RSP", k) # {} <=> RspTold(told, k)
           /\ \A i \in Told("RSP", k) : i \in 1..Len(told) /\ told[i].ev = "RSP"
           /\ \A i \in 1..Len(told) :
                told[i].ev = "REQ" => i \in Told("REQ", told[i].req)
  <1>1. DOMAIN told = 1..Len(told) /\ Once(told)
    <2>1. told \in Seq(Event) /\ Once(told)
      BY DEF Inv, Typed, Hist
    <2> QED
      BY <2>1
  <1>2. /\ \A i \in Told("REQ", k) : i \in 1..Len(told) /\ told[i].ev = "REQ" /\ told[i].req = k
        /\ \A i \in Told("RSP", k) : i \in 1..Len(told) /\ told[i].ev = "RSP" /\ told[i].rsp = k
    BY <1>1 DEF Told
  <1>3. \A i \in 1..Len(told) : told[i].ev = "REQ" => i \in Told("REQ", told[i].req)
    BY <1>1 DEF Told
  <1>4. ASSUME NEW T, \A i, j \in T : i = j PROVE Cardinality(T) <= 1
    <2>1. CASE T = {}
      BY <2>1, FS_EmptySet
    <2>2. CASE T # {}
      <3>1. PICK x : T = {x}
        BY <1>4, <2>2
      <3> QED
        BY <3>1, FS_Singleton
    <2> QED
      BY <2>1, <2>2
  <1>5. /\ \A i, j \in Told("REQ", k) : i = j
        /\ \A i, j \in Told("RSP", k) : i = j
    BY <1>1, <1>2 DEF Once
  <1>6. Told("REQ", k) # {} <=> ReqTold(told, k)
    BY <1>2, <1>3 DEF ReqTold
  <1>7. Told("RSP", k) # {} <=> RspTold(told, k)
    <2>1. \A i \in 1..Len(told) :
            told[i].ev = "RSP" /\ told[i].rsp = k => i \in Told("RSP", k)
      BY <1>1 DEF Told
    <2> QED
      BY <1>2, <2>1 DEF RspTold
  <1> QED
    BY <1>2, <1>3, <1>4, <1>5, <1>6, <1>7

\* extractPair and extractData notify requestReceived at most once for a request
\* of a flow, only if it was captured, and for every captured one when the flow
\* is done, provided that tcp_order could keep the segments in order: for any
\* number of requests and ticks.
THEOREM RequestsAreToldOnce == Spec => []RequestsToldOnce
  <1>1. Inv => RequestsToldOnce
    <2> SUFFICES ASSUME Inv, NEW k \in Request
                 PROVE  /\ Cardinality(Told("REQ", k)) <= 1
                        /\ Told("REQ", k) # {} => <<"REQ", k>> \in captured
                        /\ phase = "done" /\ Ordered /\ <<"REQ", k>> \in captured
                             => Told("REQ", k) # {}
      BY DEF RequestsToldOnce
    <2>1. /\ Cardinality(Told("REQ", k)) <= 1
          /\ Told("REQ", k) # {} <=> ReqTold(told, k)
      BY ToldFacts
    <2>2. ReqTold(told, k) <=> Marked(src.list, "REQ", k)
      BY DEF Inv, Hist
    <2>3. Marked(src.list, "REQ", k) => <<"REQ", k>> \in captured
      BY DEF Inv, Typed, ListOf, Marked
    <2>4. phase = "done" /\ Ordered /\ <<"REQ", k>> \in captured
            => Marked(src.list, "REQ", k)
      BY DEF Inv, Complete, Marked
    <2> QED
      BY <2>1, <2>2, <2>3, <2>4
  <1> QED
    BY <1>1, AlwaysInv, PTL

\* extractData notifies responseReceived at most once for a response of a flow,
\* and after the request of its pair.
THEOREM ResponsesAreToldOnce == Spec => []ResponsesToldOnce
  <1>1. Inv => ResponsesToldOnce
    <2> SUFFICES ASSUME Inv, NEW k \in Request
                 PROVE  /\ Cardinality(Told("RSP", k)) <= 1
                        /\ \A i \in Told("RSP", k) :
                             \E j \in Told("REQ", told[i].req) : j < i
      BY DEF ResponsesToldOnce
    <2>1. ASSUME NEW i \in Told("RSP", k)
          PROVE  \E j \in Told("REQ", told[i].req) : j < i
      <3>1. i \in 1..Len(told) /\ told[i].ev = "RSP"
        BY ToldFacts
      <3>2. PICK j \in 1..(i - 1) : told[j].ev = "REQ" /\ told[j].req = told[i].req
        BY <3>1 DEF Inv, Hist, After
      <3>3. Len(told) \in Nat
        BY DEF Inv, Typed
      <3>4. j \in 1..Len(told) /\ j < i
        BY <3>1, <3>3
      <3> QED
        BY <3>2, <3>4, ToldFacts
    <2> QED
      BY <2>1, ToldFacts
  <1> QED
    BY <1>1, AlwaysInv, PTL

\* Without pipelining, and as long as tcp_order could keep the segments in
\* order, extractPair never gives a request another response than its own, also
\* across a wrap-around of the sequence numbers.
THEOREM ResponsesAreMatched == Spec => []ResponsesMatch
  <1>1. Inv => ResponsesMatch
    <2> SUFFICES ASSUME Inv PROVE ResponsesMatch
      OBVIOUS
    <2>1. told \in Seq(Event) /\ Numbers
      BY DEF Inv, Typed
    <2>2. DOMAIN told = 1..Len(told)
      BY <2>1
    <2> QED
      BY <2>1, <2>2 DEF ResponsesMatch, Numbers
  <1> QED
    BY <1>1, AlwaysInv, PTL

\* Without pipelining and wrap-around, extractPair and extractData have told a
\* captured response of a captured request as soon as a later request is told,
\* whatever was missed in between: for any number of requests and ticks, and
\* whenever the flow is closed.
THEOREM AnswersComeFirst == Spec => []AnsweredBeforeNext
  <1>1. Inv /\ NoneLeftOut => AnsweredBeforeNext
    <2> SUFFICES ASSUME Inv, NoneLeftOut, ~pipelined, cseq < 2^WordSize,
                        NEW k \in Request, NEW n \in (k + 1)..MaxRequests,
                        {<<"REQ", k>>, <<"RSP", k>>} \subseteq captured,
                        Told("REQ", n) # {}
                 PROVE  Told("RSP", k) # {}
      BY DEF AnsweredBeforeNext
    <2>1. Simple
      BY DEF Simple, Size
    <2>2. n \in Request /\ k < n
      BY PairAssumption DEF Request
    <2>3. ReqTold(told, n)
      BY ToldFacts
    <2>4. RspTold(told, k)
      BY <2>1, <2>2, <2>3 DEF NoneLeftOut, Waiting
    <2> QED
      BY <2>4, ToldFacts
  <1>2. Spec => []NoneLeftOut
    BY AlwaysInv, InitNone, NextNone, PTL DEF Spec
  <1> QED
    BY <1>1, <1>2, AlwaysInv, PTL
=============================================================================
