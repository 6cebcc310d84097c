------------------------------ MODULE TcpOrder ------------------------------
(***************************************************************************)
(* The segments of one direction of a connection, as they are captured,    *)
(* arrive at tcp_order: in order or not, with retransmissions that may be  *)
(* cut differently, and, since a sniffer misses packets, with gaps.        *)
(***************************************************************************)
EXTENDS SeqList, FiniteSets

CONSTANTS
    InitialSeqs,    \* sequence numbers of the first byte of the stream
    StreamLength,   \* bound: bytes of the stream
    MaxArrivals     \* bound: segments that arrive

ASSUME StreamAssumption ==
    /\ InitialSeqs \subseteq Word
    /\ StreamLength \in Nat
    /\ StreamLength < 2^WordSize
    /\ MaxArrivals \in Nat

VARIABLES
    isn,        \* the sequence number of the first byte
    order,      \* what tcp_order keeps
    arrived     \* history: the arrivals, as intervals of stream positions

vars == <<isn, order, arrived>>

\* seq_pkt, for a packet that carries the bytes from position a up to b
Segment(a, b) == [seq |-> Wrap(isn + a), nxt |-> Wrap(isn + b)]

Init ==
    /\ isn \in InitialSeqs
    /\ order = EmptyOrder
    /\ arrived = <<>>

\* Flow::cal_packet passes a segment on to tcp_order
Arrive(a, b) ==
    /\ a < b
    /\ Len(arrived) < MaxArrivals
    /\ order' = TcpOrder(order, Segment(a, b))
    /\ arrived' = Append(arrived, <<a, b>>)
    /\ UNCHANGED isn

Next == \E a, b \in 0..StreamLength : Arrive(a, b)

Spec == Init /\ [][Next]_vars

-----------------------------------------------------------------------------
\* The sequence numbers of the list are u_int32_t, and last is in the list.
TypeOK ==
    /\ order.list \in Seq([seq : Word, nxt : Word])
    /\ order.last \in 0..Len(order.list)
    /\ order.num \in Nat

Wraps == isn + StreamLength >= 2^WordSize

\* The end of the captured data before arrival i
EndBefore(i) ==
    IF i = 1 THEN arrived[1][1]
    ELSE CHOOSE e \in {arrived[j][2] : j \in 1..(i - 1)} :
            \A j \in 1..(i - 1) : arrived[j][2] <= e

InOrder == \A i \in DOMAIN arrived : arrived[i][1] = EndBefore(i)

NoEarlier == \A i \in DOMAIN arrived : arrived[1][1] <= arrived[i][1]

NoGap == NoEarlier /\ \A i \in DOMAIN arrived : arrived[i][1] <= EndBefore(i)

\* No segment begins with a byte that was captured before
FreshStarts == \A i, j \in DOMAIN arrived :
    i < j => arrived[j][1] < arrived[i][1] \/ arrived[i][2] <= arrived[j][1]

\* The list is what was captured, each byte once, from the first byte on
CoversStream ==
    /\ Contiguous(order.list)
    /\ arrived # <<>> =>
         /\ order.list[1].seq = Wrap(isn + arrived[1][1])
         /\ order.list[Len(order.list)].nxt
              = Wrap(isn + EndBefore(Len(arrived) + 1))

\* Retransmissions, whole, partial or extending what is there, leave a stream
\* without gaps contiguous: what the list has is neither stored twice nor lost.
RetransmissionsAreTrimmed == NoGap /\ ~Wraps => CoversStream

\* A stream that arrives in order is contiguous across the wrap-around of its
\* sequence numbers too.
InOrderSurvivesWrap == InOrder => CoversStream

\* Reordered segments come out in order, none of them lost, as long as none
\* begins with a byte that is there already and none is from before the first
\* one captured.  One that runs into its follower ends where that begins.
ReorderedIsSorted ==
    FreshStarts /\ NoEarlier /\ ~Wraps =>
        /\ Sorted(order.list)
        /\ \A i \in DOMAIN arrived : \E j \in DOMAIN order.list :
             order.list[j].seq = Wrap(isn + arrived[i][1])
        /\ \A j \in DOMAIN order.list : order.list[j].seq < order.list[j].nxt

\* "source packet list ordered": the list is in the order of sequence numbers.
ListIsOrdered == ~Wraps => Sorted(order.list)
=============================================================================
