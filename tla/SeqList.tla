------------------------------- MODULE SeqList -------------------------------
(***************************************************************************)
(* The ordered segment list of one direction of a flow (order.c, tcp.c).   *)
(*                                                                         *)
(* A segment has the sequence number of its first byte, seq, and the one   *)
(* after its last byte, nxt; both are WordSize-bit unsigned numbers and    *)
(* are compared as plain numbers, as in the code.  The packet's tcp_dl is  *)
(* adjusted so that it stays nxt - seq, and has no field of its own; other *)
(* fields of a segment are carried along.  An order is the list, the index *)
(* of the segment that last_src (last_dst) points to, and num.             *)
(***************************************************************************)
EXTENDS Integers, Sequences, SequencesExt

CONSTANT WordSize           \* bits of a sequence number (32)

ASSUME WordAssumption == WordSize \in Nat \ {0}

Word == 0..(2^WordSize - 1)

\* Mutant: arithmetic without overflow
Wrap_Never(n) == n

\* u_int32_t arithmetic
Wrap(n) == n % 2^WordSize

EmptyOrder == [list |-> <<>>, last |-> 0, num |-> 0]

\* Mutant: the contiguous run ends where it begins
ContEnd_Stops(l, i) == i

\* tcp_cont_seq: the end of the contiguous run that begins at i
ContEnd(l, i) ==
    CHOOSE j \in i..Len(l) :
        /\ j = Len(l) \/ l[j].nxt # l[j + 1].seq
        /\ \A k \in i..(j - 1) : l[k].nxt = l[k + 1].seq

\* The segments that end after s begins; the search stops at the first
Beyond(l, s) == {i \in DOMAIN l : l[i].nxt > s.seq}

\* Mutant: what overlaps with the follower is not cut off
Truncate_Skipped(s, l, cp) == s

\* "partially overlapped": cut what the follower has already
Truncate(s, l, cp) ==
    IF cp < Len(l) /\ s.nxt > l[cp + 1].seq
    THEN [s EXCEPT !.nxt = l[cp + 1].seq] ELSE s

\* The rest of tcp_order, for the contiguous run that begins at pre and ends
\* at cp: a retransmission, a segment to trim, or one to insert
Place(o, s, pre, cp) ==
    LET l       == o.list
        bk      == Wrap(l[cp].nxt - 1)
        overlap == l[pre].seq <= s.seq /\ s.seq <= bk
        aft     == cp < Len(l)
        new     == IF overlap THEN [s EXCEPT !.seq = Wrap(bk + 1)] ELSE s
    IN  IF overlap /\ Wrap(s.nxt - 1) <= bk THEN o
        ELSE [list |-> InsertAt(l, cp + 1, Truncate(new, l, cp)),
              last |-> IF overlap \/ aft THEN cp + 1 ELSE o.last,
              num  |-> IF aft THEN o.num + 1 ELSE o.num]

\* tcp_order
TcpOrder(o, s) ==
    LET l == o.list IN
    IF l = <<>> THEN [list |-> <<s>>, last |-> 1, num |-> o.num + 1]
    ELSE IF l[o.last].nxt = s.seq THEN Place(o, s, o.last, ContEnd(l, o.last))
    ELSE IF Beyond(l, s) = {}
    THEN [list |-> Append(l, s), last |-> Len(l) + 1, num |-> o.num + 1]
    ELSE LET at  == CHOOSE i \in Beyond(l, s) : \A j \in Beyond(l, s) : i <= j
             pre == IF at = 1 THEN 1 ELSE at - 1
         IN  Place(o, s, pre, ContEnd(l, pre))

Contiguous(l) == \A i \in 1..(Len(l) - 1) : l[i].nxt = l[i + 1].seq
Sorted(l)     == \A i, j \in DOMAIN l : i < j => l[i].nxt <= l[j].seq
=============================================================================
