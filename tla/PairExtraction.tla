--------------------------- MODULE PairExtraction ---------------------------
(***************************************************************************)
(* How the requests and responses of one flow become events: the packet    *)
(* thread adds captured packets to the flow's order lists, the timer       *)
(* callback runs extractPair(flow, false) and extractData(flow) once a     *)
(* second while the flow is in the table, and the flow thread runs them a  *)
(* last time after the flow was closed.  The bucket's mutex, and then the  *)
(* queue, keep these apart (FlowTable.tla).                                *)
(*                                                                         *)
(* The connection is part of the model: a client that may pipeline its     *)
(* requests, a server that answers them in turn and acknowledges what it   *)
(* has received, a capture that may miss packets.  Packets carry one byte. *)
(* Byte times and lengths of a pair are left out.  A header in a packet    *)
(* with FIN or RST is not looked at (type = 0), so none is sent in one.    *)
(***************************************************************************)
EXTENDS SeqList, FiniteSets

CONSTANTS InitialSeqs,  \* sequence numbers of the client's first byte
          MinSrcPkts,   \* a flow reset with fewer client packets is dropped
          MaxRequests,  \* bound: requests the client sends
          MaxTicks,     \* bound: timer callbacks
          None

ASSUME PairAssumption ==
    /\ InitialSeqs \subseteq Word
    /\ MinSrcPkts \in Nat /\ MaxRequests \in Nat /\ MaxTicks \in Nat
    /\ MaxRequests < 2^WordSize     \* no full turn of the sequence numbers
    /\ None \notin Nat

VARIABLES
    src, dst,       \* flow->order: the client's and the server's segments
    pairs,          \* the chain pair_f .. pair_e
    phase,          \* the flow is in the "table", "queued", "done" or "dropped"
    \* the connection
    sent, answered, \* requests sent, and answered
    cseq, sseq,     \* next sequence number of the client and of the server
    clock,          \* capture time: packets captured so far
    ticks,          \* timer callbacks so far
    \* history
    pipelined,      \* a request was sent before the last one was answered
    captured,       \* <<"REQ", k>> and <<"RSP", k>> that were captured
    told            \* the events notified so far, in order

flowVars == <<src, dst, pairs, phase>>
connVars == <<sent, answered, cseq, sseq>>
vars == <<flowVars, connVars, clock, ticks, pipelined, captured, told>>

Request == 1..MaxRequests

Init ==
    /\ src = EmptyOrder /\ dst = EmptyOrder
    /\ pairs = <<>> /\ phase = "table"
    /\ sent = 0 /\ answered = 0 /\ cseq \in InitialSeqs /\ sseq = 0
    /\ clock = 0 /\ ticks = 0
    /\ pipelined = FALSE /\ captured = {} /\ told = <<>>

\* seq_pkt, for a packet of one byte; a FIN takes a sequence number too
Seg(seq, ack, type, id, fin) ==
    [seq |-> Wrap(seq), nxt |-> Wrap(seq + (IF fin THEN 2 ELSE 1)),
     ack |-> Wrap(ack), type |-> type, id |-> id, fin |-> fin, time |-> clock,
     processed |-> FALSE]

-----------------------------------------------------------------------------
(***************************************************************************)
(* The connection and its capture.  seen = FALSE: the packet is missed.    *)
(***************************************************************************)
SendRequest(seen) ==
    /\ phase = "table"
    /\ sent < MaxRequests
    /\ sent' = sent + 1
    /\ cseq' = cseq + 1
    /\ pipelined' = (pipelined \/ sent > answered)
    /\ clock' = clock + 1
    /\ IF seen
       THEN /\ src' = TcpOrder(src, Seg(cseq, sseq, "REQ", sent + 1, FALSE))
            /\ captured' = captured \cup {<<"REQ", sent + 1>>}
       ELSE UNCHANGED <<src, captured>>
    /\ UNCHANGED <<dst, pairs, phase, answered, sseq, ticks, told>>

SendResponse(seen) ==
    /\ phase = "table"
    /\ answered < sent
    /\ answered' = answered + 1
    /\ sseq' = sseq + 1
    /\ clock' = clock + 1
    /\ IF seen
       THEN /\ dst' = TcpOrder(dst, Seg(sseq, cseq, "RSP", answered + 1, FALSE))
            /\ captured' = captured \cup {<<"RSP", answered + 1>>}
       ELSE UNCHANGED <<dst, captured>>
    /\ UNCHANGED <<src, pairs, phase, sent, cseq, ticks, pipelined, told>>

HasFlow == phase = "table" /\ captured # {}

\* Flow::add_packet, for a FIN or for a RST of a flow with enough packets: its
\* segment is ordered without the packet, and the flow goes to the queue
Close(client, fin) ==
    /\ HasFlow
    /\ fin \/ Cardinality({k \in Request : <<"REQ", k>> \in captured}) >= MinSrcPkts
    /\ IF client
       THEN src' = TcpOrder(src, Seg(cseq, sseq, "none", 0, fin)) /\ UNCHANGED dst
       ELSE dst' = TcpOrder(dst, Seg(sseq, cseq, "none", 0, fin)) /\ UNCHANGED src
    /\ phase' = "queued"
    /\ clock' = clock + 1
    /\ UNCHANGED <<pairs, connVars, ticks, pipelined, captured, told>>

\* "Flow with uncomplete information. Drop it."
Drop ==
    /\ HasFlow
    /\ Cardinality({k \in Request : <<"REQ", k>> \in captured}) < MinSrcPkts
    /\ phase' = "dropped"
    /\ UNCHANGED <<src, dst, pairs, connVars, clock, ticks, pipelined,
                   captured, told>>

\* The scrubber closes the flow
Scrub ==
    /\ HasFlow
    /\ phase' = "queued"
    /\ UNCHANGED <<src, dst, pairs, connVars, clock, ticks, pipelined,
                   captured, told>>

-----------------------------------------------------------------------------
(***************************************************************************)
(* extractPair                                                             *)
(***************************************************************************)
\* A loop over the positions 1 to n: Step is given what the steps before it
\* have made of base
Loop(Step(_, _), base, n) ==
    LET after[i \in 0..n] == IF i = 0 THEN base ELSE Step(after[i - 1], i)
    IN  after[n]

Fins(l) == {i \in DOMAIN l : l[i].fin}

\* The time of the first FIN of a list
FirstFin(l) ==
    IF Fins(l) = {} THEN None
    ELSE l[CHOOSE i \in Fins(l) : \A j \in Fins(l) : i <= j].time

\* "Find the actual FIN sequences": the time of the first FIN of the client,
\* or of the server's if that was captured earlier
FinTime ==
    LET c == FirstFin(src.list)
        s == FirstFin(dst.list)
    IN  IF c = None \/ (s # None /\ s < c) THEN s ELSE c

\* The loops end at the first segment that is not older than the FIN
InScope(l, i) ==
    FinTime = None \/ \A j \in 1..i : l[j].time < FinTime

\* Mutant: the processed mark of a segment is not looked at
Fresh_Always(l, type) == {i \in DOMAIN l : l[i].type = type /\ InScope(l, i)}

\* Segments to parse: of the type, not processed, before the FIN
Fresh(l, type) ==
    {i \in DOMAIN l : l[i].type = type /\ ~l[i].processed /\ InScope(l, i)}

NewPair(s) == [id |-> s.id, nxt |-> s.nxt, reqDone |-> FALSE,
               rsp |-> None, rspDone |-> FALSE]

PairRequest(acc, i) ==
    IF i \in Fresh(src.list, "REQ") THEN Append(acc, NewPair(src.list[i])) ELSE acc

\* "First step: find requests", each one a new pair at the end of the chain
WithRequests == Loop(PairRequest, pairs, Len(src.list))

\* Mutant: any pair without a response will do
Fits_Any(p, ack) == p.rsp = None

\* tmp->response_header == NULL && tmp->request_header->nxt_seq == ack
Fits(p, ack) == p.rsp = None /\ p.nxt = ack

\* "Try to find the first pair without response": where tmp stops
Advance(ps, tmp, ack) ==
    CHOOSE j \in tmp..(Len(ps) + 1) :
        /\ j = Len(ps) + 1 \/ ps[j].nxt > ack \/ Fits(ps[j], ack)
        /\ \A k \in tmp..(j - 1) : ps[k].nxt <= ack /\ ~Fits(ps[k], ack)

\* One response.  tmp never goes back, and when it has run off the chain the
\* function returns: the rest of the responses is left for another call
PairResponse(acc, i) ==
    LET s  == dst.list[i]
        at == Advance(acc.pairs, acc.tmp, s.ack)
    IN  IF i \notin Fresh(dst.list, "RSP") \/ acc.tmp > Len(acc.pairs) THEN acc
        ELSE [pairs |-> IF at <= Len(acc.pairs) /\ Fits(acc.pairs[at], s.ack)
                        THEN [acc.pairs EXCEPT ![at].rsp = s.id] ELSE acc.pairs,
              tmp |-> at,
              parsed |-> acc.parsed \cup {i}]

\* Mutant: the search begins at the first new pair
WithResponses_New ==
    Loop(PairResponse,
         [pairs |-> WithRequests, tmp |-> Len(pairs) + 1, parsed |-> {}],
         Len(dst.list))

\* "Second step: find responses"
WithResponses ==
    Loop(PairResponse, [pairs |-> WithRequests, tmp |-> 1, parsed |-> {}],
         Len(dst.list))

Mark(o, is) ==
    [o EXCEPT !.list = [i \in DOMAIN @ |->
        IF i \in is THEN [@[i] EXCEPT !.processed = TRUE] ELSE @[i]]]

\* "If no request found, we treat the flow as invalid and stop parsing"
FoundRequest == Fresh(src.list, "REQ") # {}

\* The pair chain that extractPair leaves
Extracted == IF FoundRequest THEN WithResponses.pairs ELSE pairs

ExtractPair ==
    /\ src' = Mark(src, Fresh(src.list, "REQ"))
    /\ dst' = IF FoundRequest THEN Mark(dst, WithResponses.parsed) ELSE dst

-----------------------------------------------------------------------------
(***************************************************************************)
(* extractData                                                             *)
(***************************************************************************)

\* Mutant: an answered pair is not marked
Done_Forgets(p) == [p EXCEPT !.reqDone = TRUE]

\* The events of a pair are notified once
Done(p) == [p EXCEPT !.reqDone = TRUE, !.rspDone = p.rsp # None]

\* A pair whose response was processed in an earlier call is deleted if there
\* is a next one, which becomes the first of the chain: what is before goes
Dropped(ps) == {j \in 1..(Len(ps) - 1) : \E k \in j..(Len(ps) - 1) : ps[k].rspDone}

Events(p) ==
    (IF p.reqDone THEN <<>> ELSE <<[ev |-> "REQ", req |-> p.id, rsp |-> None]>>)
    \o (IF p.rsp = None \/ p.rspDone THEN <<>>
        ELSE <<[ev |-> "RSP", req |-> p.id, rsp |-> p.rsp]>>)

ExtractData(ps) ==
    /\ told' = Loop(LAMBDA acc, i : acc \o Events(ps[i]), told, Len(ps))
    /\ pairs' = SubSeq([i \in DOMAIN ps |-> Done(ps[i])],
                       Cardinality(Dropped(ps)) + 1, Len(ps))

\* processData -> flowHashProcess
Tick ==
    /\ HasFlow
    /\ ticks < MaxTicks
    /\ ticks' = ticks + 1
    /\ ExtractPair
    /\ ExtractData(Extracted)
    /\ UNCHANGED <<phase, connVars, clock, pipelined, captured>>

\* process_flow_queue
Finish ==
    /\ phase = "queued"
    /\ phase' = "done"
    /\ ExtractPair
    /\ ExtractData(Extracted)
    /\ UNCHANGED <<connVars, clock, ticks, pipelined, captured>>

\* There is nothing to do, or no flow yet
Rest == (phase \in {"done", "dropped"} \/ captured = {}) /\ UNCHANGED vars

Next ==
    \/ \E seen \in BOOLEAN : SendRequest(seen) \/ SendResponse(seen)
    \/ \E client, fin \in BOOLEAN : Close(client, fin)
    \/ Drop \/ Scrub \/ Tick \/ Finish \/ Rest

Spec == Init /\ [][Next]_vars

-----------------------------------------------------------------------------
\* The pairs are made of requests and responses of the connection, and their
\* sequence numbers are u_int32_t.
TypeOK ==
    /\ \A i \in DOMAIN pairs : /\ pairs[i].id \in Request
                               /\ pairs[i].nxt \in Word
                               /\ pairs[i].rsp \in Request \cup {None}
    /\ phase \in {"table", "queued", "done", "dropped"}
    /\ captured \subseteq {"REQ", "RSP"} \X Request

Told(ev, k) == {i \in DOMAIN told :
    told[i].ev = ev /\ k = IF ev = "REQ" THEN told[i].req ELSE told[i].rsp}

\* tcp_order keeps the client's segments in order: the sequence numbers did
\* not wrap around, or no request was missed
Ordered == cseq < 2^WordSize \/ \A k \in 1..sent : <<"REQ", k>> \in captured

\* Whatever the order of captures, ticks and the close: requestReceived is
\* notified at most once for a request, never for one that was not captured,
\* and exactly once for every captured one when the flow is done, provided
\* that tcp_order could keep the segments in order.
RequestsToldOnce ==
    \A k \in Request :
        /\ Cardinality(Told("REQ", k)) <= 1
        /\ Told("REQ", k) # {} => <<"REQ", k>> \in captured
        /\ phase = "done" /\ Ordered /\ <<"REQ", k>> \in captured
             => Told("REQ", k) # {}

\* responseReceived is notified at most once for a response, and after the
\* request of its pair.
ResponsesToldOnce ==
    \A k \in Request :
        /\ Cardinality(Told("RSP", k)) <= 1
        /\ \A i \in Told("RSP", k) :
             \E j \in Told("REQ", told[i].req) : j < i

\* Without pipelining a response is never paired with another request than
\* its own, even if packets were missed, as long as tcp_order could keep the
\* segments in order.  (If it could not, a request that is trimmed to end where
\* an earlier one begins takes the response of the one before that.)
ResponsesMatch ==
    ~pipelined /\ Ordered =>
        \A i \in DOMAIN told : told[i].ev = "RSP" => told[i].rsp = told[i].req

\* Without pipelining and wrap-around, a captured request with its captured
\* response has been told as a pair as soon as a later request is told: the
\* call of extractPair that finds the later request finds the response too,
\* past pairs whose response was missed.
AnsweredBeforeNext ==
    ~pipelined /\ cseq < 2^WordSize =>
        \A k \in Request : \A n \in (k + 1)..MaxRequests :
            {<<"REQ", k>>, <<"RSP", k>>} \subseteq captured /\ Told("REQ", n) # {}
                => Told("RSP", k) # {}

\* "Export HTTP request/response pairs if they are present in the TCP flow":
\* when the flow is done, a captured request and its captured response have
\* been exported as a pair.
CapturedPairsAreExported ==
    phase = "done" /\ ~pipelined =>
        \A k \in Request : {<<"REQ", k>>, <<"RSP", k>>} \subseteq captured
            => Told("RSP", k) # {}
=============================================================================
