------------------------------ MODULE Lifecycle ------------------------------
(***************************************************************************)
(* The life of an analysis: the connection handler of server.c (or main,   *)
(* when the program is started for an interface or a trace file) starts    *)
(* its threads, the timers and the capture, packets travel from pcap       *)
(* through the queues rpq and pq to the flow tables, the analysis stops    *)
(* and the threads are joined.  The network interfaces of a request are    *)
(* analysed one after the other.                                           *)
(*                                                                         *)
(* What happens inside a flow table is FlowTable's matter: a table is the  *)
(* set of the packets its flows hold.  What a callback does is Metrics'.   *)
(***************************************************************************)
EXTENDS Integers, Sequences, FiniteSets, SequencesExt

CONSTANTS
    Requests,      \* what the handler may be asked for: see Request
    Classes,       \* kinds of packets: see Class
    MaxCallbacks,  \* bound: callbacks of one analysis at work at once
    MaxNetInts, MaxProtocols,  \* bounds: interfaces, protocols of each
    None

\* mode: "server", or "live" and "trace" for the application without server;
\* netints: for each interface the number of its protocols, 0 for an unknown
\* one; duration: whether the analysis has one; packets: a bound, the packets
\* of each analysis
Request(r) == /\ r.mode \in {"server", "live", "trace"}
              /\ r.netints \in Seq(0..MaxProtocols)
              /\ Len(r.netints) \in 1..MaxNetInts
              /\ r.mode # "server" => Len(r.netints) = 1 /\ r.netints[1] = 1
              /\ r.duration \in BOOLEAN /\ r.packets \in Nat

\* tcp: it is a TCP packet over IP; ports: the protocols that monitor one of
\* its ports; data: it has a payload
Class(c) == /\ c.tcp \in BOOLEAN /\ c.data \in BOOLEAN
            /\ c.ports \subseteq 1..MaxProtocols

\* id: the interface it was captured on, and its number there
Packet == [id : Nat \X Nat, class : Classes]

ASSUME LifecycleAssumption ==
    /\ \A r \in Requests : Request(r)
    /\ \A c \in Classes : Class(c)
    /\ {MaxCallbacks, MaxNetInts, MaxProtocols} \subseteq Nat
    /\ None \notin Packet

VARIABLES
    req,        \* the request
    hpc,        \* where the connection handler, or main, is
    netint,     \* the interface whose analysis runs
    joined,     \* how many of its threads have been joined
    stopped,    \* per interface, status = -1
    pc,         \* where the threads of the analysis are
    duration,   \* per interface, where the detached duration thread is
    it,         \* the protocol a loop over the protocols is at
    held,       \* the packet a thread works on
    timers,     \* the timers that are armed: <<kind, interface>>
    callbacks,  \* per interface, callbacks at work
    rpq, pq, table, fq,     \* the queues, and the flows of each protocol
    heap,       \* raw_pkt and packet_t objects that have not been freed
    seen,       \* history: packets put into rpq, in order
    handed      \* history: packets given to each flow table, in order

vars == <<req, hpc, netint, joined, stopped, pc, duration, it, held, timers,
          callbacks, rpq, pq, table, fq, heap, seen, handed>>

queues  == <<rpq, pq, table, fq>>
records == <<heap, seen, handed>>
handler == <<req, hpc, netint, joined>>

\* start_analysis waits for its threads in this order
JoinOrder == <<"timer", "capture", "pktq", "flowq", "scrub", "pkt">>
Thread    == ToSet(JoinOrder)
NetInt    == 1..MaxNetInts

NumProtocols == req.netints[netint]
Protocols    == 1..NumProtocols

Init ==
    /\ req \in Requests
    /\ hpc = IF req.mode = "server" THEN "receive" ELSE "configure"
    /\ netint = 1 /\ joined = 0
    /\ stopped = [n \in NetInt |-> FALSE]
    /\ duration = [n \in NetInt |-> "none"]
    /\ pc = [t \in Thread |-> "none"]
    /\ it = [t \in Thread |-> 1]
    /\ held = [t \in Thread |-> None]
    /\ timers = {}
    /\ callbacks = [n \in NetInt |-> 0]
    /\ rpq = <<>>
    /\ pq = [p \in 1..MaxProtocols |-> <<>>]
    /\ table = [p \in 1..MaxProtocols |-> {}]
    /\ fq = [p \in 1..MaxProtocols |-> <<>>]
    /\ heap = {} /\ seen = <<>>
    /\ handed = [p \in 1..MaxProtocols |-> <<>>]

\* Queue::enq and Queue::deq, each under the queue's mutex; deq of an empty
\* queue gives NULL
Enq(q, x) == Append(q, x)

\* Mutant: deq takes the element that came last
Deq_Newest(q) == IF q = <<>> THEN [elem |-> None, rest |-> q]
                 ELSE [elem |-> Last(q), rest |-> Front(q)]

Deq(q) == IF q = <<>> THEN [elem |-> None, rest |-> q]
          ELSE [elem |-> Head(q), rest |-> Tail(q)]

-----------------------------------------------------------------------------
(***************************************************************************)
(* The connection handler, and start_analysis                              *)
(***************************************************************************)

\* decode_varint, recv and unpack: the client is gone, error() ends the
\* thread (and leaves the socket open), or the request is understood
Receive ==
    /\ hpc = "receive"
    /\ hpc' \in {"close", "failed", "configure"}
    /\ UNCHANGED <<req, netint, joined, stopped, pc, duration, it, held,
                   timers, callbacks, queues, records>>

\* Make the protocols of an interface: error() if one has an unknown name.
\* Then start the threads.
StartAnalysis ==
    /\ hpc = "configure"
    /\ \/ /\ NumProtocols = 0
          /\ hpc' = "failed"
          /\ UNCHANGED pc
       \/ /\ NumProtocols > 0
          /\ hpc' = "join"
          /\ pc' = [t \in Thread |->
               CASE t = "timer" -> "create" [] t = "capture" -> "open"
                 [] t = "pkt" -> "deq" [] t = "scrub" -> "sleep"
                 [] OTHER -> "loop"]
    /\ UNCHANGED <<req, netint, joined, stopped, duration, it, held, timers,
                   callbacks, queues, records>>

\* Mutant: the thread is not waited for
Join_NoWait ==
    /\ hpc = "join" /\ joined < Len(JoinOrder)
    /\ joined' = joined + 1
    /\ UNCHANGED <<req, hpc, netint, stopped, pc, duration, it, held,
                   timers, callbacks, queues, records>>

Join ==
    /\ hpc = "join" /\ joined < Len(JoinOrder)
    /\ pc[JoinOrder[joined + 1]] = "exited"
    /\ joined' = joined + 1
    /\ UNCHANGED <<req, hpc, netint, stopped, pc, duration, it, held,
                   timers, callbacks, queues, records>>

InTable(p) == table[p] \cup UNION ToSet(fq[p])

\* start_analysis has returned: on to the next interface, or free the request
\* and close the socket.  The next analysis has new queues and tables; the old
\* ones are never deleted, and the model forgets them.
AnalysisDone ==
    /\ hpc = "join" /\ joined = Len(JoinOrder)
    /\ IF req.mode # "server" THEN hpc' = "done" /\ UNCHANGED netint
       ELSE IF netint < Len(req.netints)
            THEN hpc' = "configure" /\ netint' = netint + 1
            ELSE hpc' = "free" /\ UNCHANGED netint
    /\ joined' = 0
    /\ pc' = [t \in Thread |-> "none"]
    /\ it' = [t \in Thread |-> 1]
    /\ held' = [t \in Thread |-> None]
    /\ rpq' = <<>>
    /\ pq' = [p \in 1..MaxProtocols |-> <<>>]
    /\ table' = [p \in 1..MaxProtocols |-> {}]
    /\ fq' = [p \in 1..MaxProtocols |-> <<>>]
    /\ heap' = {} /\ seen' = <<>>
    /\ handed' = [p \in 1..MaxProtocols |-> <<>>]
    /\ UNCHANGED <<req, stopped, duration, timers, callbacks>>

Finish ==
    /\ \/ hpc = "free" /\ hpc' = "close"
       \/ hpc = "close" /\ hpc' = "done"
    /\ UNCHANGED <<req, netint, joined, stopped, pc, duration, it, held,
                   timers, callbacks, queues, records>>

-----------------------------------------------------------------------------
(***************************************************************************)
(* The threads.  The process lives until main returns.  (An interrupt ends *)
(* it at once: a behaviour that is cut short.)                             *)
(***************************************************************************)
Alive == ~(hpc = "done" /\ req.mode # "server")
IsStopped == stopped[netint]
GoesOn(t, s) == pc' = [pc EXCEPT ![t] = s]

\* Mutant: the timer is not deleted
TimerDelete_Forgotten(kind, n) == timers

TimerDelete(kind, n) == timers \ {<<kind, n>>}

\* start_timer starts the duration thread, which is detached, and the timer
\* that fires every second, and waits for the stop
TimerThread ==
    /\ \/ /\ pc["timer"] = "create"
          /\ duration' = [duration EXCEPT ![netint] =
                            IF req.duration THEN "create" ELSE @]
          /\ timers' = timers \cup {<<"second", netint>>}
          /\ GoesOn("timer", "wait")
       \/ /\ pc["timer"] = "wait" /\ IsStopped
          /\ timers' = TimerDelete("second", netint)
          /\ GoesOn("timer", "exited")
          /\ UNCHANGED duration
    /\ UNCHANGED <<handler, stopped, it, held, callbacks, queues, records>>

DurationThread(n) ==
    /\ \/ /\ duration[n] = "create"
          /\ timers' = timers \cup {<<"duration", n>>}
          /\ duration' = [duration EXCEPT ![n] = "wait"]
       \/ /\ duration[n] = "wait" /\ stopped[n]
          /\ timers' = TimerDelete("duration", n)
          /\ duration' = [duration EXCEPT ![n] = "exited"]
    /\ UNCHANGED <<handler, stopped, pc, it, held, callbacks, queues, records>>

\* Mutant: the timer fires and the analysis is not stopped
DurationFires_NoStop(n) ==
    /\ <<"duration", n>> \in timers
    /\ timers' = timers \ {<<"duration", n>>}
    /\ UNCHANGED <<handler, stopped, pc, duration, it, held, callbacks, queues,
                   records>>

\* The duration timer fires once: stop_analysis
DurationFires(n) ==
    /\ <<"duration", n>> \in timers
    /\ timers' = timers \ {<<"duration", n>>}
    /\ stopped' = [stopped EXCEPT ![n] = TRUE]
    /\ UNCHANGED <<handler, pc, duration, it, held, callbacks, queues, records>>

\* processData starts in a thread of its own, and ends
CallbackStarts(n) ==
    /\ <<"second", n>> \in timers /\ callbacks[n] < MaxCallbacks
    /\ callbacks' = [callbacks EXCEPT ![n] = @ + 1]
    /\ UNCHANGED <<handler, stopped, pc, duration, it, held, timers, queues,
                   records>>

CallbackEnds(n) ==
    /\ callbacks[n] > 0
    /\ callbacks' = [callbacks EXCEPT ![n] = @ - 1]
    /\ UNCHANGED <<handler, stopped, pc, duration, it, held, timers, queues,
                   records>>

threadOnly == <<handler, duration, timers, callbacks>>

\* pcap_open_live or pcap_open_offline
CaptureOpen ==
    /\ pc["capture"] = "open"
    /\ \/ GoesOn("capture", "next") /\ UNCHANGED stopped
       \/ /\ stopped' = [stopped EXCEPT ![netint] = TRUE]
          /\ GoesOn("capture", "exited")
    /\ UNCHANGED <<threadOnly, it, held, queues, records>>

\* pcap_next gives a packet of at least 54 bytes; the loop goes on after NULL
\* or a shorter one.  Once the analysis has stopped packets keep coming, but
\* from a trace file.
CaptureNext ==
    /\ pc["capture"] = "next"
    /\ Len(seen) < req.packets \/ (IsStopped /\ req.mode # "trace")
    /\ GoesOn("capture", "test")
    /\ UNCHANGED <<threadOnly, stopped, it, held, queues, records>>

\* pcap_next gives NULL for ever at the end of a trace file
EndOfTrace ==
    /\ pc["capture"] = "next"
    /\ Len(seen) = req.packets /\ req.mode = "trace"
    /\ UNCHANGED vars

CaptureTest ==
    /\ pc["capture"] = "test"
    /\ GoesOn("capture", IF IsStopped THEN "exited" ELSE "enq")
    /\ UNCHANGED <<threadOnly, stopped, it, held, queues, records>>

NewPacket(c) == [id |-> <<netint, Len(seen) + 1>>, class |-> c]

CaptureEnq(c) ==
    LET pkt == NewPacket(c) IN
    /\ pc["capture"] = "enq"
    /\ rpq' = Enq(rpq, pkt)
    /\ seen' = Append(seen, pkt)
    /\ GoesOn("capture", "next")
    /\ heap' = heap \cup {<<"raw", pkt>>}
    /\ UNCHANGED <<threadOnly, stopped, it, held, pq, table, fq, handed>>

\* process_packet takes a packet, and only then looks at isStopped
PacketThread ==
    LET d == Deq(rpq) IN
    /\ \/ /\ pc["pkt"] = "deq"
          /\ rpq' = d.rest
          /\ held' = [held EXCEPT !["pkt"] = d.elem]
          /\ GoesOn("pkt", IF d.elem = None THEN "test" ELSE "preprocess")
       \/ /\ pc["pkt"] = "test"
          /\ GoesOn("pkt", IF IsStopped THEN "exited" ELSE "deq")
          /\ UNCHANGED <<rpq, held>>
    /\ UNCHANGED <<threadOnly, stopped, it, pq, table, fq, records>>

\* isPacketOf: the protocols that want the packet; the first one gets it
Wanting(c) == IF c.tcp THEN c.ports \cap Protocols ELSE {}

\* Mutant: a packet of no protocol is not freed
Freed_NotTcp(c) == ~c.tcp

Freed(c) == Wanting(c) = {}

\* packet_preprocess, and raw_packet_free: a packet with data goes to the
\* queue of its protocol, one of no protocol is freed
Preprocess ==
    LET pkt == held["pkt"]
        c   == pkt.class
        p   == CHOOSE q \in Wanting(c) : \A r \in Wanting(c) : q <= r
    IN
    /\ pc["pkt"] = "preprocess"
    /\ pq' = IF Wanting(c) # {} /\ c.data
             THEN [pq EXCEPT ![p] = Enq(@, pkt)] ELSE pq
    /\ heap' = (heap \ {<<"raw", pkt>>}) \cup
               (IF Freed(c) THEN {} ELSE {<<"pkt", pkt>>})
    /\ held' = [held EXCEPT !["pkt"] = None]
    /\ GoesOn("pkt", "deq")
    /\ UNCHANGED <<threadOnly, stopped, it, rpq, table, fq, seen, handed>>

\* The loop over the protocols: isStopped is looked at before the first one,
\* in one step with the deq that follows
LoopEnds(t) ==
    /\ t \in {"pktq", "flowq"} /\ pc[t] = "loop"
    /\ it[t] = 1 /\ IsStopped
    /\ GoesOn(t, "exited")
    /\ UNCHANGED <<threadOnly, stopped, it, held, queues, records>>

LoopGoesOn(t) ==
    /\ pc[t] = "loop"
    /\ it[t] = 1 => ~IsStopped
    /\ it' = [it EXCEPT ![t] = IF @ < NumProtocols THEN @ + 1 ELSE 1]
    /\ UNCHANGED pc

\* The flows of the table that are closed, if any, go to fq
FlowsClose(p, flows) ==
    \/ table' = [table EXCEPT ![p] = flows] /\ UNCHANGED fq
    \/ /\ flows # {}
       /\ table' = [table EXCEPT ![p] = {}]
       /\ fq' = [fq EXCEPT ![p] = Enq(@, flows)]

\* process_packet_queue: add_packet, which may close the packet's flow
PacketQueueThread ==
    LET p == it["pktq"]  d == Deq(pq[p]) IN
    /\ LoopGoesOn("pktq")
    /\ pq' = [pq EXCEPT ![p] = d.rest]
    /\ \/ d.elem = None /\ UNCHANGED <<table, fq, handed>>
       \/ /\ d.elem # None
          /\ handed' = [handed EXCEPT ![p] = Append(@, d.elem)]
          /\ FlowsClose(p, table[p] \cup {d.elem})
    /\ UNCHANGED <<threadOnly, stopped, held, rpq, heap, seen>>

\* process_flow_queue: extract the flow's data and delete it
FlowQueueThread ==
    LET p == it["flowq"]  d == Deq(fq[p]) IN
    /\ LoopGoesOn("flowq")
    /\ fq' = [fq EXCEPT ![p] = d.rest]
    /\ heap' = IF fq[p] = <<>> THEN heap
               ELSE heap \ {<<"pkt", x>> : x \in d.elem}
    /\ UNCHANGED <<threadOnly, stopped, held, rpq, pq, table, seen, handed>>

\* scrubbing_flow_htbl: dead flows go to fq; after the stop the thread ends
\* with the first protocol, where flow_scrubber(-1) takes no flow
ScrubThread ==
    LET p == it["scrub"] IN
    /\ \/ pc["scrub"] = "sleep" /\ GoesOn("scrub", "test")
          /\ UNCHANGED <<it, table, fq>>
       \/ /\ pc["scrub"] = "test" /\ IsStopped
          /\ GoesOn("scrub", "exited")
          /\ UNCHANGED <<it, table, fq>>
       \/ /\ pc["scrub"] = "test" /\ ~IsStopped
          /\ FlowsClose(p, table[p])
          /\ it' = [it EXCEPT !["scrub"] = IF p < NumProtocols THEN p + 1 ELSE 1]
          /\ GoesOn("scrub", IF p < NumProtocols THEN "test" ELSE "sleep")
    /\ UNCHANGED <<threadOnly, stopped, held, rpq, pq, records>>

-----------------------------------------------------------------------------
Handler == Receive \/ StartAnalysis \/ Join \/ AnalysisDone \/ Finish

Capture == CaptureOpen \/ CaptureTest \/ \E c \in Classes : CaptureEnq(c)

Next ==
    \/ /\ Alive
       /\ \/ Handler
          \/ Capture \/ CaptureNext \/ EndOfTrace
          \/ TimerThread
          \/ \E n \in NetInt : \/ DurationThread(n) \/ DurationFires(n)
                               \/ CallbackStarts(n) \/ CallbackEnds(n)
          \/ PacketThread \/ Preprocess
          \/ \E t \in Thread : LoopEnds(t)
          \/ PacketQueueThread \/ FlowQueueThread \/ ScrubThread
    \/ hpc \in {"done", "failed"} /\ UNCHANGED vars

\* Threads run, an armed timer fires, and on a live interface packets keep
\* coming.
Fairness ==
    /\ WF_vars(Alive /\ Handler)
    /\ WF_vars(Alive /\ Capture)
    /\ WF_vars(Alive /\ CaptureNext)
    /\ WF_vars(Alive /\ TimerThread)
    /\ \A n \in NetInt : WF_vars(Alive /\ (DurationThread(n) \/ DurationFires(n)))
    /\ WF_vars(Alive /\ (PacketThread \/ Preprocess))
    /\ WF_vars(Alive /\ (LoopEnds("pktq") \/ PacketQueueThread))
    /\ WF_vars(Alive /\ (LoopEnds("flowq") \/ FlowQueueThread))
    /\ WF_vars(Alive /\ ScrubThread)

Spec == Init /\ [][Next]_vars /\ Fairness

-----------------------------------------------------------------------------
\* The variables have their types; joined threads have exited, and threads
\* run in a started analysis only.
TypeOK ==
    /\ hpc \in {"receive", "configure", "join", "free", "close", "done",
                "failed"}
    /\ netint \in 1..Len(req.netints) /\ joined \in 0..Len(JoinOrder)
    /\ \A k \in 1..joined : pc[JoinOrder[k]] = "exited"
    /\ \A t \in Thread : hpc \in {"configure", "free", "close"} => pc[t] = "none"
    /\ timers \subseteq {"second", "duration"} \X NetInt
    /\ \A n \in NetInt : callbacks[n] \in 0..MaxCallbacks

Reachable == ToSet(rpq) \cup {held["pkt"]} \cup
             UNION {ToSet(pq[p]) \cup InTable(p) : p \in 1..MaxProtocols}

\* Packet memory: what is queued or in a table has not been freed, and what
\* can no longer be reached has, but for the packets of monitored ports that
\* carry no data, which packet_preprocess forgets.
OnlyEmptyPacketsLeak ==
    /\ \A x \in ToSet(rpq) : <<"raw", x>> \in heap
    /\ \A p \in 1..MaxProtocols : \A x \in ToSet(pq[p]) \cup InTable(p) :
         <<"pkt", x>> \in heap
    /\ \A o \in heap :
         o[2] \in Reachable \/ (o[1] = "pkt" /\ ~o[2].class.data
                                          /\ o[2].class.ports # {})

\* The captured packets that protocol p is to get: those with data of its
\* ports, unless a protocol before it has the port too
Due(p) == {k \in DOMAIN seen : LET c == seen[k].class IN
              /\ c.tcp /\ c.data /\ p \in c.ports
              /\ \A q \in c.ports : p <= q}

\* The flow table of a protocol is given the packets that are due to it, each
\* once and in the order of capture: at any time, all of them up to some
\* captured packet, and none after it.
PipelineInOrder ==
    hpc = "join" =>
        \A p \in Protocols :
            /\ \E n \in 0..Len(seen) :
                 ToSet(handed[p]) = {seen[k] : k \in Due(p) \cap 1..n}
            /\ \A i, j \in DOMAIN handed[p] :
                 i < j => handed[p][i].id[2] < handed[p][j].id[2]

\* No callback starts for an analysis that start_analysis has returned from:
\* not while the next one runs, nor when the request, whose strings callbacks
\* use, has been freed and the socket closed.  (One may still be at work.)
NoCallbackAfterReturn ==
    [][\A n \in NetInt :
         n < netint \/ hpc \in {"free", "close", "done"}
           => callbacks'[n] <= callbacks[n]]_vars

\* On live interfaces, an analysis that has a duration ends: the handler joins
\* every thread, for each interface, and closes the socket.
AnalysisEnds ==
    hpc = "join" /\ req.mode # "trace" /\ req.duration
        ~> hpc \in {"done", "failed"}
=============================================================================
