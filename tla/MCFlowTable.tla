---------------------------- MODULE MCFlowTable ----------------------------
(***************************************************************************)
(* Small instances of FlowTable for TLC.                                   *)
(***************************************************************************)
EXTENDS FlowTable, TLC

CONSTANTS client, server    \* endpoints

Conn == <<client, server>>
Back == <<server, client>>

\* HASH_FLOW is not symmetric: the two directions of a connection are in
\* different buckets
MCHash == [s \in Socket |-> IF s = Conn THEN 1 ELSE NBuckets]
MCSelected == {Conn}

P(s, fl, ty) == [socket |-> s, flags |-> fl, type |-> ty]

\* A request and a response, a continuation, and each way to close
MCPackets ==
    {P(Conn, "DATA", "REQ"), P(Back, "DATA", "RSP"), P(Conn, "DATA", "none"),
     P(Conn, "SYN", "none"), P(Back, "FIN", "none"), P(Conn, "RST", "none")}

\* A connection that opens and closes, for the liveness properties
FewPackets == {P(Conn, "DATA", "REQ"), P(Back, "FIN", "none")}

Symmetry == Permutations(Flows)
=============================================================================
