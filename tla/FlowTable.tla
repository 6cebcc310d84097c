------------------------------ MODULE FlowTable ------------------------------
(***************************************************************************)
(* The flow hash table of one monitored protocol (flowHashTable.cpp) and   *)
(* the four kinds of threads that share it:                                *)
(*                                                                         *)
(*   packet   process_packet_queue: takes a packet off pq and runs         *)
(*            FlowHashTable::add_packet, then Flow::add_packet             *)
(*   flow     process_flow_queue: takes a closed flow off fq, extracts its *)
(*            data and deletes it                                          *)
(*   scrub    scrubbing_flow_htbl: closes the flows that have been idle    *)
(*            for longer than the timeout                                  *)
(*   Ticker   the timer callbacks (processData -> flowHashProcess), which  *)
(*            extract the data of the flows that are still open            *)
(*                                                                         *)
(* A step is what a thread does without another thread being able to tell  *)
(* that it is not atomic.  Bucket mutexes are explicit: find() locks and   *)
(* unlocks a bucket, and Flow::add_packet locks it AGAIN, so other threads *)
(* run in between.  flow_cnt is shared by all buckets and is updated under *)
(* a bucket's mutex only, so its increments are a read and a write.        *)
(*                                                                         *)
(* The chain of a bucket is a set here: which flows it holds is what the   *)
(* threads can tell, and FlowChain.tla models its pointers.  The mutex of  *)
(* fq is not visible either: enq and deq are one step each.                *)
(***************************************************************************)
EXTENDS Integers, Sequences, FiniteSets, FiniteSetsExt

CONSTANTS
    Flows,          \* the Flow objects that the allocator can hand out
    Endpoint,       \* (address, port) pairs
    NBuckets,       \* HASH_SIZE
    Hash,           \* HASH_FLOW, the bucket of a socket
    Ticker,         \* timer callbacks that can be running at the same time
    Packets,        \* the packets that can come off pq
    Selected,       \* sockets that pass the client and server filters
    MinSrcPkts,     \* a flow reset with fewer client packets is dropped (4)
    FlowTimeout,    \* seconds of inactivity the scrubber tolerates (600)
    ULongMax,       \* the largest unsigned long
    MaxAge,         \* bound: longest inactivity told apart
    MaxPackets,     \* bound: packets taken off pq
    None            \* no thread, no flow

Socket == Endpoint \X Endpoint
Bucket == 1..NBuckets
Packet == [socket : Socket, flags : {"RST", "FIN", "SYN", "DATA"},
           type : {"none", "REQ", "RSP"}]

ASSUME TableAssumption ==
    /\ Endpoint # {}
    /\ NBuckets \in Nat \ {0}
    /\ Hash \in [Socket -> Bucket]
    /\ Packets \subseteq Packet
    /\ Selected \subseteq Socket
    /\ MinSrcPkts \in Nat
    /\ FlowTimeout \in Nat
    /\ MaxAge \in Nat
    /\ MaxPackets \in Nat
    /\ ULongMax \in Nat
    /\ MaxAge <= ULongMax
    /\ FlowTimeout <= ULongMax
    /\ None \notin Flows
    /\ None \notin Ticker \cup {"packet", "scrub"}
    /\ Ticker \cap {"packet", "scrub"} = {}
    /\ "packet" # "scrub"

VARIABLES
    \* the table, its queue and the heap
    alloc,          \* Flow objects that are allocated
    flow,           \* the members of each Flow object
    chain,          \* per bucket, the flows linked into it
    lock,           \* per bucket, the thread that holds hm->mutex, or None
    flow_cnt,       \* the number of flows in the table, as the code counts
    fq,             \* closed flows, for the flow thread
    stopped,        \* analysis->isStopped()
    armed,          \* the timer of create_timer has not been deleted yet
    failed,         \* how the program came to an undefined step, or "no"
    \* the packet thread
    ppc, pkt, pflow, psrc, pcnt,
    \* the flow thread
    fpc, fflow,
    \* the scrubber
    spc, stimeout, sbucket, stodo, sflow, scnt,
    \* the timer callbacks
    tpc, tbucket, ttodo,
    \* history: packets taken off pq, and packets freed
    taken, freed

table   == <<alloc, flow, chain, lock, flow_cnt, fq>>
packetT == <<ppc, pkt, pflow, psrc, pcnt>>
flowT   == <<fpc, fflow>>
scrubT  == <<spc, stimeout, sbucket, stodo, sflow, scnt>>
timerT  == <<tpc, tbucket, ttodo>>
history == <<taken, freed>>
vars    == <<table, stopped, armed, failed, packetT, flowT, scrubT, timerT,
             history>>

Thread == {"packet", "scrub"} \cup Ticker   \* the threads that lock buckets

(***************************************************************************)
(* The members of a Flow that steps depend on.  pkts_src is only ever      *)
(* compared with MinSrcPkts and stops counting there.  age is the time     *)
(* since last_action_sec.  hooked counts the packets on the two packet     *)
(* chains; wild holds the directions whose front pointer was never set.    *)
(* fins holds the directions from which order has a FIN.  announced is a   *)
(* history of the newFlowReceived notifications.                           *)
(***************************************************************************)
FlowRecord == [socket : Socket, pkts_src : 0..MinSrcPkts, age : 0..MaxAge,
               hooked : Nat, wild : SUBSET BOOLEAN,
               fins : SUBSET BOOLEAN, processed : BOOLEAN, announced : Nat]

Reverse(s) == <<s[2], s[1]>>
Hmb(f)     == Hash[flow[f].socket]
Linked     == UNION {chain[b] : b \in Bucket}
Minimum(m, n) == IF m <= n THEN m ELSE n

\* Flow::Flow.  The constructor leaves the packet chain pointers and
\* last_action_sec as the allocator returns them: a fresh chunk reads as
\* NULL pointers, a recycled one as wild ones, and any age is possible.
NewFlow(s, w, a) ==
    [socket |-> s, pkts_src |-> 0, age |-> a, hooked |-> 0, wild |-> w,
     fins |-> {}, processed |-> FALSE, announced |-> 0]

\* Flow::hook_packet
HookPacket(r, src) == [r EXCEPT !.hooked = @ + 1, !.wild = @ \ {src}]

\* Flow::cal_packet
CalPacket(r, p, src) ==
    [r EXCEPT !.pkts_src = IF src THEN Minimum(@ + 1, MinSrcPkts) ELSE @,
              !.age = 0,
              !.fins = IF p.flags = "FIN" THEN @ \cup {src} ELSE @]

\* Flow::reset
ResetFlow(r) ==
    [r EXCEPT !.hooked = 0, !.wild = {}, !.pkts_src = 0, !.fins = {}]

\* Mutant: flow->processed is not set
Extract_Forgets(r) ==
    IF r.socket \in Selected /\ ~r.processed
    THEN [r EXCEPT !.announced = @ + 1]
    ELSE r

\* Mutant: extractData returns before the announcement
Extract_Never(r) == r

\* extractPair and extractData, as far as the flow's first announcement goes
Extract(r) ==
    IF r.socket \in Selected /\ ~r.processed
    THEN [r EXCEPT !.processed = TRUE, !.announced = @ + 1]
    ELSE r

\* Mutant: the scrubber closes the flows that are NOT idle
Expired_Inverted(f, timeout) == flow[f].age < timeout % (ULongMax + 1)

\* flow_scrubber compares an unsigned long with an int: the int is converted
Expired(f, timeout) == flow[f].age > timeout % (ULongMax + 1)

\* Mutant: the bucket keeps the flow that is handed on
Unlink_Keeps(b, f) == chain

\* FlowHashTable::remove
Unlink(b, f) == [chain EXCEPT ![b] = @ \ {f}]

\* Mutant: a thread goes on without the mutex
IsFree_Ignored(b) == TRUE

\* pthread_mutex_lock succeeds
IsFree(b) == lock[b] = None

\* pthread_mutex_unlock
Unlock(b) == [lock EXCEPT ![b] = None]

\* Mutant: the scan of the buckets runs past the end of the table
MoreBuckets_PastEnd(b) == b <= NBuckets

\* i<HASH_SIZE, after bucket b
MoreBuckets(b) == b < NBuckets

Init ==
    /\ alloc = {}
    /\ flow = [f \in Flows |-> NewFlow(CHOOSE s \in Socket : TRUE, {}, 0)]
    /\ chain = [b \in Bucket |-> {}]
    /\ lock = [b \in Bucket |-> None]
    /\ flow_cnt = 0
    /\ fq = <<>>
    /\ stopped = FALSE
    /\ armed = TRUE
    /\ failed = "no"
    /\ ppc = "loop" /\ pkt = None
    /\ pflow = None /\ psrc = FALSE /\ pcnt = 0
    /\ fpc = "loop" /\ fflow = None
    /\ spc = "sleep" /\ stimeout = FlowTimeout /\ sbucket = 1 /\ stodo = {}
    /\ sflow = None /\ scnt = 0
    /\ tpc = [t \in Ticker |-> "idle"]
    /\ tbucket = [t \in Ticker |-> 1]
    /\ ttodo = [t \in Ticker |-> {}]
    /\ taken = 0 /\ freed = 0

(***************************************************************************)
(* The program ran into undefined behaviour.  Nothing it does afterwards   *)
(* is modelled, so a failed state has no successor but itself.             *)
(***************************************************************************)
Fail(why) ==
    /\ failed' = why
    /\ UNCHANGED <<table, stopped, armed, packetT, flowT, scrubT, timerT,
                   history>>

-----------------------------------------------------------------------------
(***************************************************************************)
(* The packet thread                                                       *)
(***************************************************************************)

\* FlowHashTable::add_packet returns; its locals are gone
PReturn ==
    ppc' = "loop" /\ pkt' = None /\ pflow' = None /\ psrc' = FALSE /\ pcnt' = 0

PLoop ==
    /\ ppc = "loop"
    /\ ppc' = IF stopped THEN "exited" ELSE "deq"
    /\ UNCHANGED <<table, stopped, armed, failed, pkt, pflow, psrc, pcnt,
                   flowT, scrubT, timerT, history>>

\* pq->deq() returns NULL: sleep, and try again
PIdle ==
    /\ ppc = "deq"
    /\ ppc' = "loop"
    /\ UNCHANGED <<table, stopped, armed, failed, pkt, pflow, psrc, pcnt,
                   flowT, scrubT, timerT, history>>

PDeq(p) ==
    /\ ppc = "deq"
    /\ taken < MaxPackets
    /\ pkt' = p
    /\ taken' = taken + 1
    /\ ppc' = "findRev"
    /\ UNCHANGED <<table, stopped, armed, failed, pflow, psrc, pcnt, flowT,
                   scrubT, timerT, freed>>

\* Mutant: the bucket is the one of the reverse socket
Find_WrongBucket(s) == {f \in chain[Hash[Reverse(s)]] : flow[f].socket = s}

\* FlowHashTable::find: the flows of the socket's bucket that have the socket
Find(s) == {f \in chain[Hash[s]] : flow[f].socket = s}

\* The packet may come from the server of a flow: look its reverse up first
PFindRev ==
    LET s == Reverse(pkt.socket) IN
    /\ ppc = "findRev"
    /\ IsFree(Hash[s])
    /\ \/ \E f \in Find(s) : pflow' = f /\ psrc' = FALSE /\ ppc' = "add"
       \/ Find(s) = {} /\ ppc' = "findFwd" /\ UNCHANGED <<pflow, psrc>>
    /\ UNCHANGED <<table, stopped, armed, failed, pkt, pcnt, flowT, scrubT,
                   timerT, history>>

\* ... then the client of one; only the first packet of a request or of a
\* response makes a new flow
PFindFwd ==
    LET s == pkt.socket IN
    /\ ppc = "findFwd"
    /\ IsFree(Hash[s])
    /\ \/ /\ \E f \in Find(s) : pflow' = f /\ psrc' = TRUE /\ ppc' = "add"
          /\ UNCHANGED <<pkt, pcnt, freed>>
       \/ /\ Find(s) = {} /\ pkt.type # "none"
          /\ psrc' = (pkt.type = "REQ") /\ ppc' = "create"
          /\ UNCHANGED <<pkt, pflow, pcnt, freed>>
       \/ /\ Find(s) = {} /\ pkt.type = "none"
          /\ freed' = freed + 1 /\ PReturn
    /\ UNCHANGED <<table, stopped, armed, failed, flowT, scrubT, timerT,
                   taken>>

\* FlowHashTable::create, up to the read of flow_cnt
PCreate ==
    LET s == IF psrc THEN pkt.socket ELSE Reverse(pkt.socket) IN
    /\ ppc = "create"
    /\ IsFree(Hash[s])
    /\ \E f \in Flows \ alloc, w \in {{}, BOOLEAN}, a \in {0, MaxAge} :
         /\ alloc' = alloc \cup {f}
         /\ flow' = [flow EXCEPT ![f] = NewFlow(s, w, a)]
         /\ chain' = [chain EXCEPT ![Hash[s]] = @ \cup {f}]
         /\ pflow' = f
    /\ lock' = [lock EXCEPT ![Hash[s]] = "packet"]
    /\ pcnt' = flow_cnt
    /\ ppc' = "createCnt"
    /\ UNCHANGED <<flow_cnt, fq, stopped, armed, failed, pkt, psrc, flowT,
                   scrubT, timerT, history>>

PCreateCnt ==
    /\ ppc = "createCnt"
    /\ flow_cnt' = pcnt + 1
    /\ lock' = Unlock(Hmb(pflow))
    /\ pcnt' = 0
    /\ ppc' = "add"
    /\ UNCHANGED <<alloc, flow, chain, fq, stopped, armed, failed, pkt, pflow,
                   psrc, flowT, scrubT, timerT, history>>

(***************************************************************************)
(* Flow::add_packet.  pflow was found, or created, before the bucket was   *)
(* unlocked; now its hmb is read to lock it again.                         *)
(***************************************************************************)
\* The flow has been deleted in the meantime: hmb is read from freed memory
PAddStale ==
    /\ ppc = "add"
    /\ pflow \notin alloc
    /\ Fail("useAfterFree")

\* The other cases of add_packet begin like this
EnterAdd ==
    /\ ppc = "add"
    /\ pflow \in alloc
    /\ IsFree(Hmb(pflow))

IsDrop  == pkt.flags = "RST" /\ flow[pflow].pkts_src < MinSrcPkts

\* Mutant: a FIN only closes the flow if the other side's FIN was there
IsClose_BothFins == \/ pkt.flags = "FIN" /\ (~psrc) \in flow[pflow].fins
                    \/ pkt.flags = "RST" /\ ~IsDrop

\* The first FIN closes the flow: CLIENT_CLOSE || SERVER_CLOSE
IsClose == pkt.flags = "FIN" \/ (pkt.flags = "RST" /\ ~IsDrop)

\* FlowHashTable::remove, for a flow that is not linked any more: its prev and
\* next are NULL, so remove takes it for the first one and writes through
\* hm->first = f->next, a NULL pointer
PRemoveAgain ==
    /\ EnterAdd
    /\ IsDrop \/ IsClose
    /\ pflow \notin chain[Hmb(pflow)]
    /\ Fail("nullDeref")

\* TH_RST with little information, or a close by RST or FIN: remove the flow
\* up to the read of flow_cnt.  A close accounts for the packet first.
PRemove ==
    /\ EnterAdd
    /\ IsDrop \/ IsClose
    /\ pflow \in chain[Hmb(pflow)]
    /\ freed' = freed + 1
    /\ flow' = IF IsDrop THEN flow
               ELSE [flow EXCEPT ![pflow] = CalPacket(@, pkt, psrc)]
    /\ lock' = [lock EXCEPT ![Hmb(pflow)] = "packet"]
    /\ chain' = Unlink(Hmb(pflow), pflow)
    /\ pcnt' = flow_cnt
    /\ ppc' = IF IsDrop THEN "dropCnt" ELSE "closeCnt"
    /\ UNCHANGED <<alloc, flow_cnt, fq, stopped, armed, failed, pkt, pflow,
                   psrc, flowT, scrubT, timerT, taken>>

\* Mutant: the destructor leaves the packet chains alone
DeleteFlow_LeaksPackets(f) ==
    /\ flow[f].wild = {}
    /\ alloc' = alloc \ {f}
    /\ freed' = freed

\* Mutant: the flow is not deleted
DeleteFlow_Forgets(f) == UNCHANGED <<alloc, freed>>

\* Flow::~Flow frees what the packet chains hold; a wild front pointer is
\* followed
DeleteFlow(f) ==
    /\ flow[f].wild = {}
    /\ alloc' = alloc \ {f}
    /\ freed' = freed + flow[f].hooked

\* delete fht->remove(this); hmb is then read from the deleted object, which
\* finds the old value or fails
PDrop ==
    /\ ppc = "dropCnt"
    /\ DeleteFlow(pflow)
    /\ flow_cnt' = pcnt - 1
    /\ lock' = Unlock(Hmb(pflow))
    /\ PReturn
    /\ UNCHANGED <<flow, chain, fq, stopped, armed, failed, flowT, scrubT,
                   timerT, taken>>

PDropFails ==
    /\ ppc = "dropCnt"
    /\ \/ flow[pflow].wild # {} /\ Fail("wildPointer")
       \/ flow[pflow].wild = {} /\ Fail("useAfterFree")

\* fq->enq(fht->remove(this))
PClose ==
    /\ ppc = "closeCnt"
    /\ flow_cnt' = pcnt - 1
    /\ fq' = Append(fq, pflow)
    /\ ppc' = "unlock"
    /\ UNCHANGED <<alloc, flow, chain, lock, stopped, armed, failed, pkt,
                   pflow, psrc, pcnt, flowT, scrubT, timerT, history>>

\* pthread_mutex_unlock(&(hmb->mutex)) of a flow that the flow thread may
\* have deleted by now
PUnlock ==
    /\ ppc = "unlock"
    /\ lock' = Unlock(Hmb(pflow))
    /\ PReturn
    /\ UNCHANGED <<alloc, flow, chain, flow_cnt, fq, stopped, armed, failed,
                   flowT, scrubT, timerT, history>>

PUnlockFails ==
    /\ ppc = "unlock"
    /\ pflow \notin alloc
    /\ Fail("useAfterFree")

IsReset == psrc /\ pkt.flags = "SYN" /\ flow[pflow].pkts_src # 0

\* The repeated SYN of a client frees the packet chains, the wild ones too
PResetFails ==
    /\ EnterAdd
    /\ IsReset
    /\ flow[pflow].wild # {}
    /\ Fail("wildPointer")

\* A SYN of the client, the first one or a repeated one
PSyn ==
    /\ EnterAdd
    /\ psrc /\ pkt.flags = "SYN"
    /\ IsReset => flow[pflow].wild = {}
    /\ flow' = [flow EXCEPT ![pflow] =
                  CalPacket(IF IsReset THEN ResetFlow(@) ELSE @, pkt, psrc)]
    /\ freed' = freed + 1 + (IF IsReset THEN flow[pflow].hooked ELSE 0)
    /\ PReturn
    /\ UNCHANGED <<alloc, chain, lock, flow_cnt, fq, stopped, armed, failed,
                   flowT, scrubT, timerT, taken>>

\* Any other packet: hooked if it carries a header, freed otherwise.  (A FIN
\* that did not close the flow would be freed here.)
POther ==
    /\ EnterAdd
    /\ ~IsDrop /\ ~IsClose /\ ~(psrc /\ pkt.flags = "SYN")
    /\ \/ /\ pkt.type # "none" /\ pkt.flags # "FIN"
          /\ flow' = [flow EXCEPT ![pflow] =
                        CalPacket(HookPacket(@, psrc), pkt, psrc)]
          /\ UNCHANGED freed
       \/ /\ pkt.type = "none" \/ pkt.flags = "FIN"
          /\ flow' = [flow EXCEPT ![pflow] = CalPacket(@, pkt, psrc)]
          /\ freed' = freed + 1
    /\ PReturn
    /\ UNCHANGED <<alloc, chain, lock, flow_cnt, fq, stopped, armed, failed,
                   flowT, scrubT, timerT, taken>>

PacketThread ==
    \/ PLoop \/ PIdle \/ (\E p \in Packets : PDeq(p))
    \/ PFindRev \/ PFindFwd \/ PCreate \/ PCreateCnt
    \/ PAddStale \/ PRemoveAgain \/ PRemove \/ PDrop \/ PDropFails
    \/ PClose \/ PUnlock \/ PUnlockFails
    \/ PResetFails \/ PSyn \/ POther

-----------------------------------------------------------------------------
(***************************************************************************)
(* The flow thread                                                         *)
(***************************************************************************)

FLoop ==
    /\ fpc = "loop"
    /\ fpc' = IF stopped THEN "exited" ELSE "deq"
    /\ UNCHANGED <<table, stopped, armed, failed, packetT, fflow, scrubT,
                   timerT, history>>

FDeq ==
    /\ fpc = "deq"
    /\ IF fq = <<>>
       THEN fpc' = "loop" /\ UNCHANGED <<fq, fflow>>
       ELSE fpc' = "extract" /\ fflow' = Head(fq) /\ fq' = Tail(fq)
    /\ UNCHANGED <<alloc, flow, chain, lock, flow_cnt, stopped, armed, failed,
                   packetT, scrubT, timerT, history>>

\* extractPair(flow, true); extractData(flow), without a lock
FExtract ==
    /\ fpc = "extract"
    /\ flow' = [flow EXCEPT ![fflow] = Extract(@)]
    /\ fpc' = "delete"
    /\ UNCHANGED <<alloc, chain, lock, flow_cnt, fq, stopped, armed, failed,
                   packetT, fflow, scrubT, timerT, history>>

FDelete ==
    /\ fpc = "delete"
    /\ DeleteFlow(fflow)
    /\ fflow' = None
    /\ fpc' = "loop"
    /\ UNCHANGED <<flow, chain, lock, flow_cnt, fq, stopped, armed, failed,
                   packetT, scrubT, timerT, taken>>

FDeleteFails ==
    /\ fpc = "delete"
    /\ flow[fflow].wild # {}
    /\ Fail("wildPointer")

FlowThread == FLoop \/ FDeq \/ FExtract \/ FDelete \/ FDeleteFails

-----------------------------------------------------------------------------
(***************************************************************************)
(* The scrubber.  It sleeps, then calls flow_scrubber with the timeout, or *)
(* a last time with -1 once the analysis has stopped.                      *)
(***************************************************************************)

SWake ==
    /\ spc = "sleep"
    /\ stimeout' = IF stopped THEN -1 ELSE FlowTimeout
    /\ sbucket' = 1
    /\ spc' = "lock"
    /\ UNCHANGED <<table, stopped, armed, failed, packetT, flowT, stodo,
                   sflow, scnt, timerT, history>>

SLock ==
    /\ spc = "lock"
    /\ IsFree(sbucket)
    /\ lock' = [lock EXCEPT ![sbucket] = "scrub"]
    /\ stodo' = chain[sbucket]
    /\ spc' = "scan"
    /\ UNCHANGED <<alloc, flow, chain, flow_cnt, fq, stopped, armed, failed,
                   packetT, flowT, stimeout, sbucket, sflow, scnt, timerT,
                   history>>

\* flow->close = FORCED_CLOSE; remove(flow) up to the read of flow_cnt
SVisit(f) ==
    /\ spc = "scan"
    /\ f \in stodo
    /\ stodo' = stodo \ {f}
    /\ IF Expired(f, stimeout)
       THEN /\ chain' = Unlink(sbucket, f)
            /\ sflow' = f /\ scnt' = flow_cnt /\ spc' = "cnt"
       ELSE UNCHANGED <<chain, sflow, scnt, spc>>
    /\ UNCHANGED <<alloc, flow, lock, flow_cnt, fq, stopped, armed, failed,
                   packetT, flowT, stimeout, sbucket, timerT, history>>

\* ... and its write, then fq->enq
SClose ==
    /\ spc = "cnt"
    /\ flow_cnt' = scnt - 1
    /\ fq' = Append(fq, sflow)
    /\ sflow' = None /\ scnt' = 0
    /\ spc' = "scan"
    /\ UNCHANGED <<alloc, flow, chain, lock, stopped, armed, failed, packetT,
                   flowT, stimeout, sbucket, stodo, timerT, history>>

\* Mutant: the last scan goes back to sleep too
AfterScan_Sleeps == "sleep"

\* pthread_exit after flow_scrubber(-1)
AfterScan == IF stimeout = -1 THEN "exited" ELSE "sleep"

SUnlock ==
    /\ spc = "scan"
    /\ stodo = {}
    /\ lock' = Unlock(sbucket)
    /\ IF MoreBuckets(sbucket)
       THEN sbucket' = sbucket + 1 /\ spc' = "lock"
       ELSE sbucket' = 1 /\ spc' = AfterScan
    /\ UNCHANGED <<alloc, flow, chain, flow_cnt, fq, stopped, armed, failed,
                   packetT, flowT, stimeout, stodo, sflow, scnt, timerT,
                   history>>

Scrubber ==
    SWake \/ SLock \/ (\E f \in Flows : SVisit(f)) \/ SClose \/ SUnlock

-----------------------------------------------------------------------------
(***************************************************************************)
(* A timer callback: flowHashProcess visits every bucket under its mutex.  *)
(* A callback that takes longer than a second overlaps with the next one.  *)
(***************************************************************************)

TFire(t) ==
    /\ tpc[t] = "idle"
    /\ armed
    /\ tpc' = [tpc EXCEPT ![t] = "lock"]
    /\ tbucket' = [tbucket EXCEPT ![t] = 1]
    /\ UNCHANGED <<table, stopped, armed, failed, packetT, flowT, scrubT,
                   ttodo, history>>

TLock(t) ==
    /\ tpc[t] = "lock"
    /\ IsFree(tbucket[t])
    /\ lock' = [lock EXCEPT ![tbucket[t]] = t]
    /\ ttodo' = [ttodo EXCEPT ![t] = chain[tbucket[t]]]
    /\ tpc' = [tpc EXCEPT ![t] = "scan"]
    /\ UNCHANGED <<alloc, flow, chain, flow_cnt, fq, stopped, armed, failed,
                   packetT, flowT, scrubT, tbucket, history>>

\* extractPair(flow, false); extractData(flow)
TVisit(t, f) ==
    /\ tpc[t] = "scan"
    /\ f \in ttodo[t]
    /\ flow' = [flow EXCEPT ![f] = Extract(@)]
    /\ ttodo' = [ttodo EXCEPT ![t] = @ \ {f}]
    /\ UNCHANGED <<alloc, chain, lock, flow_cnt, fq, stopped, armed, failed,
                   packetT, flowT, scrubT, tpc, tbucket, history>>

TUnlock(t) ==
    /\ tpc[t] = "scan"
    /\ ttodo[t] = {}
    /\ lock' = Unlock(tbucket[t])
    /\ IF MoreBuckets(tbucket[t])
       THEN /\ tbucket' = [tbucket EXCEPT ![t] = @ + 1]
            /\ tpc' = [tpc EXCEPT ![t] = "lock"]
       ELSE /\ tbucket' = [tbucket EXCEPT ![t] = 1]
            /\ tpc' = [tpc EXCEPT ![t] = "idle"]
    /\ UNCHANGED <<alloc, flow, chain, flow_cnt, fq, stopped, armed, failed,
                   packetT, flowT, scrubT, ttodo, history>>

Timer(t) ==
    TFire(t) \/ TLock(t) \/ (\E f \in Flows : TVisit(t, f)) \/ TUnlock(t)

-----------------------------------------------------------------------------
\* analysis->stop(), called by the duration timer
Stop ==
    /\ ~stopped
    /\ stopped' = TRUE
    /\ UNCHANGED <<table, armed, failed, packetT, flowT, scrubT, timerT,
                   history>>

\* The timer thread notices, and deletes the timer; until then it may fire
TimerDelete ==
    /\ stopped /\ armed
    /\ armed' = FALSE
    /\ UNCHANGED <<table, stopped, failed, packetT, flowT, scrubT, timerT,
                   history>>

\* Time passes
Tick ==
    /\ \E f \in alloc : flow[f].age < MaxAge
    /\ flow' = [f \in Flows |->
                  IF f \in alloc
                  THEN [flow[f] EXCEPT !.age = Minimum(@ + 1, MaxAge)]
                  ELSE flow[f]]
    /\ UNCHANGED <<alloc, chain, lock, flow_cnt, fq, stopped, armed, failed,
                   packetT, flowT, scrubT, timerT, history>>

\* All threads have exited, or the program has failed
Halted ==
    /\ \/ failed # "no"
       \/ /\ ppc = "exited" /\ fpc = "exited" /\ spc = "exited"
          /\ \A t \in Ticker : tpc[t] = "idle"
    /\ UNCHANGED vars

Step ==
    \/ PacketThread \/ FlowThread \/ Scrubber
    \/ \E t \in Ticker : Timer(t)
    \/ Stop \/ TimerDelete \/ Tick

Next == (failed = "no" /\ Step) \/ Halted

Spec == Init /\ [][Next]_vars

(***************************************************************************)
(* Scheduling.  Every thread that can go on does so eventually; the timer  *)
(* goes on firing until it is deleted.  A thread that waits for a bucket   *)
(* mutex which is free again and again gets it (strong fairness): the      *)
(* other users sleep between two scans, one second or ten.                 *)
(***************************************************************************)
PLock == \/ PFindRev \/ PFindFwd \/ PCreate \/ PRemove \/ PRemoveAgain
         \/ PSyn \/ PResetFails \/ POther

Fairness ==
    /\ WF_vars(failed = "no" /\ PacketThread)
    /\ SF_vars(failed = "no" /\ PLock)
    /\ WF_vars(failed = "no" /\ FlowThread)
    /\ WF_vars(failed = "no" /\ Scrubber)
    /\ SF_vars(failed = "no" /\ SLock)
    /\ \A t \in Ticker : /\ WF_vars(failed = "no" /\ Timer(t))
                         /\ SF_vars(failed = "no" /\ TLock(t))
    /\ WF_vars(failed = "no" /\ TimerDelete)

FairSpec == Spec /\ Fairness

-----------------------------------------------------------------------------
(***************************************************************************)
(* Invariants                                                              *)
(***************************************************************************)

TableTypes ==
    /\ alloc \subseteq Flows
    /\ flow \in [Flows -> FlowRecord]
    /\ chain \in [Bucket -> SUBSET Flows]
    /\ lock \in [Bucket -> Thread \cup {None}]
    /\ flow_cnt \in Int
    /\ fq \in Seq(Flows)

PacketTypes ==
    /\ ppc \in {"loop", "deq", "findRev", "findFwd", "create", "createCnt",
                "add", "dropCnt", "closeCnt", "unlock", "exited"}
    /\ pkt \in Packets \cup {None}
    /\ pflow \in Flows \cup {None}
    /\ psrc \in BOOLEAN
    /\ pcnt \in Int

FlowTypes ==
    /\ fpc \in {"loop", "deq", "extract", "delete", "exited"}
    /\ fflow \in Flows \cup {None}

ScrubTypes ==
    /\ spc \in {"sleep", "lock", "scan", "cnt", "exited"}
    /\ stimeout \in {FlowTimeout, -1}
    /\ sbucket \in Bucket
    /\ stodo \in SUBSET Flows
    /\ sflow \in Flows \cup {None}
    /\ scnt \in Int

TimerTypes ==
    /\ tpc \in [Ticker -> {"idle", "lock", "scan"}]
    /\ tbucket \in [Ticker -> Bucket]
    /\ ttodo \in [Ticker -> SUBSET Flows]

OtherTypes ==
    /\ stopped \in BOOLEAN /\ armed \in BOOLEAN
    /\ failed \in {"no", "useAfterFree", "nullDeref", "wildPointer"}
    /\ taken \in 0..MaxPackets
    /\ freed \in Nat

\* Every variable has its type: sbucket and tbucket stay within the table.
TypeOK == /\ TableTypes /\ PacketTypes /\ FlowTypes
          /\ ScrubTypes /\ TimerTypes /\ OtherTypes

InQueue == {fq[i] : i \in DOMAIN fq}

\* The flow that a thread has taken out of the table, or off the queue, and
\* has not handed on yet
PHolds == IF ppc \in {"dropCnt", "closeCnt"} THEN {pflow} ELSE {}
SHolds == IF spc = "cnt" THEN {sflow} ELSE {}
FHolds == IF fpc \in {"extract", "delete"} THEN {fflow} ELSE {}

\* A Flow object is always in exactly one place: linked into the bucket of its
\* socket (create, remove), in fq once (enq, deq), or in the hands of the one
\* thread that will pass it on or delete it.  None is lost and none is deleted
\* while another thread can still come across it in the table or the queue.
OneOwner ==
    /\ alloc = Linked \cup InQueue \cup PHolds \cup SHolds \cup FHolds
    /\ \A b \in Bucket : \A f \in chain[b] : Hmb(f) = b
    /\ \A i, j \in DOMAIN fq : fq[i] = fq[j] => i = j
    /\ Linked \cap (InQueue \cup PHolds \cup SHolds \cup FHolds) = {}
    /\ InQueue \cap (PHolds \cup SHolds \cup FHolds) = {}
    /\ PHolds \cap (SHolds \cup FHolds) = {}
    /\ SHolds \cap FHolds = {}

\* While flow_scrubber or flowHashProcess walks a bucket, every flow it has
\* still to visit is linked into that bucket and allocated: no other thread
\* removes or deletes a flow under a walker's feet.
WalkersSeeLiveFlows ==
    /\ spc \in {"scan", "cnt"} => /\ lock[sbucket] = "scrub"
                                  /\ stodo \subseteq chain[sbucket] \cap alloc
    /\ \A t \in Ticker : tpc[t] = "scan" =>
         /\ lock[tbucket[t]] = t
         /\ ttodo[t] \subseteq chain[tbucket[t]] \cap alloc

\* A TCP connection has one flow in the table, whichever side's packet made
\* it: add_packet looks for both directions before it creates.
OneFlowPerConnection ==
    \A f, g \in Linked :
        f # g => flow[f].socket \notin {flow[g].socket, Reverse(flow[g].socket)}

\* A flow in the table has no FIN in its order lists.  extractPair(flow, false)
\* needs this: with a FIN, and a request in the last segment, it compares the
\* time of seq_next, a NULL pointer.
NoFinInTable == \A f \in Linked : flow[f].fins = {}

\* The flow thread deletes a flow only after newFlowReceived was notified for
\* it exactly once, by itself or by a timer callback before, if the flow
\* passes the filters; a flow that does not pass them is never announced.
AnnouncedOnce ==
    /\ \A f \in alloc : flow[f].announced <= IF flow[f].socket \in Selected
                                             THEN 1 ELSE 0
    /\ fpc = "delete" => flow[fflow].announced =
                           IF flow[fflow].socket \in Selected THEN 1 ELSE 0

\* The packets on the chains of the flows of S, with the members r
Hooked(r, S) == MapThenSumSet(LAMBDA f : r[f].hooked, S)

\* The packet thread holds a packet that it has neither hooked nor freed
InHand == IF ppc \in {"findRev", "findFwd", "create", "createCnt", "add"}
          THEN 1 ELSE 0

\* Every packet taken off pq is freed once, or is hooked on a flow that is
\* still allocated, or is in the hands of the packet thread: add_packet, reset
\* and the destructor neither leak a packet nor free one twice.
PacketsAccounted == taken = freed + Hooked(flow, alloc) + InHand

-----------------------------------------------------------------------------
(***************************************************************************)
(* What the table implements, and what happens eventually                  *)
(***************************************************************************)

\* The table, its queue and its threads give a connection the life that
\* FlowLife promises; a flow counts as closed from its removal on.
Life == INSTANCE FlowLife WITH
    life <- [f \in Flows |->
               IF f \notin alloc THEN "free"
               ELSE IF f \in Linked \/ (ppc = "dropCnt" /\ f = pflow)
               THEN "open" ELSE "closed"],
    watched   <- {f \in alloc : flow[f].socket \in Selected},
    announced <- {f \in alloc : flow[f].announced > 0}

ImplementsFlowLife == Life!Spec

Failed == failed # "no"

\* A flow in fq is processed and deleted, unless the analysis stops first:
\* process_flow_queue leaves its loop without emptying the queue.
QueuedFlowsFinish ==
    \A f \in Flows : f \in InQueue ~> f \notin alloc \/ stopped \/ Failed

\* A flow that has been idle for too long leaves the table, unless a packet
\* revives it: flow_scrubber comes by again and again.
DeadFlowsAreScrubbed ==
    \A f \in Flows :
        f \in Linked /\ flow[f].age > FlowTimeout ~>
            f \notin Linked \/ flow[f].age <= FlowTimeout \/ stopped \/ Failed

\* Once the analysis has stopped, the packet, flow, scrubber and timer threads
\* exit, so that start_analysis can join them.
ThreadsExit ==
    stopped ~> \/ ppc = "exited" /\ fpc = "exited" /\ spc = "exited" /\ ~armed
               \/ Failed

-----------------------------------------------------------------------------
(***************************************************************************)
(* What the comments of the code say, and the code does not do             *)
(***************************************************************************)

\* "Link the packet to flow's packet list if the flow has already existed":
\* the flow that Flow::add_packet works on is in the table.
AddsToLinkedFlow == ppc = "add" => pflow \in Linked

\* "cleanse all flows": flow_scrubber(-1) leaves an empty bucket behind.
LastScrubCleansesAll ==
    spc = "scan" /\ stimeout = -1 /\ stodo = {} => chain[sbucket] = {}
=============================================================================
