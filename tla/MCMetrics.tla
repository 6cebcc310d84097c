----------------------------- MODULE MCMetrics -----------------------------
(***************************************************************************)
(* Metrics for TLC.  A setup picks a protocol and the metrics of it that   *)
(* are active, by their position in the protocol's list.                   *)
(***************************************************************************)
EXTENDS Metrics, TLC

Alone(p, active, n, s) == [protocol |-> p, active |-> active, overlap |-> FALSE,
                           events |-> n, ticks |-> s]
Overlapping(p, active) == [protocol |-> p, active |-> active, overlap |-> TRUE,
                           events |-> 2, ticks |-> 2]

MCSetups ==
    {Alone("HTTP", {1}, 3, 4),        \* ReqRate
     Alone("HTTP", {1, 5}, 2, 4),     \* ReqRate and ConnRate
     Alone("HTTP", {2}, 2, 4),        \* ErrRate
     Alone("HTTP", {8}, 2, 4),        \* ReqMethod
     Alone("MEMCACHED", {5}, 2, 4),   \* RspStatus
     Alone("MYSQL", {0}, 2, 3),       \* Rst
     Alone("MYSQL", {2}, 3, 4),       \* Tp
     Overlapping("HTTP", {6}),        \* Client
     Overlapping("MYSQL", {4})}       \* ReqType

Symmetry == Permutations(Callback)
=============================================================================
