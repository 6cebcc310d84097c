--------------------------- MODULE FlowTableProofs ---------------------------
(***************************************************************************)
(* The ownership of Flow objects, for any number of flows, buckets, timer  *)
(* callbacks and packets.                                                  *)
(***************************************************************************)
EXTENDS FlowTable, FiniteSetTheorems, WellFoundedInduction, TLAPS

PWorks == {"findRev", "findFwd", "create", "createCnt", "add", "dropCnt",
           "closeCnt", "unlock"}
PHasFlow == {"createCnt", "add", "dropCnt", "closeCnt", "unlock"}
PLocked == {"createCnt", "dropCnt", "closeCnt", "unlock"}

\* What a thread's locals hold, by the place in its code
Locals ==
    /\ ppc \in PWorks => pkt \in Packets
    /\ ppc \in PHasFlow => pflow \in Flows
    /\ fpc \in {"extract", "delete"} => fflow \in Flows
    /\ spc = "cnt" => sflow \in Flows

\* A packet of pq has a bucket for its socket and one for the reverse socket.
LEMMA PacketFacts ==
    ASSUME NEW p \in Packets
    PROVE  /\ p.socket \in Socket /\ Reverse(p.socket) \in Socket
           /\ Hash[p.socket] \in Bucket /\ Hash[Reverse(p.socket)] \in Bucket
  <1>1. p.socket \in Socket
    BY TableAssumption DEF Packet
  <1>2. Reverse(p.socket) \in Socket
    BY <1>1 DEF Reverse, Socket
  <1> QED
    BY <1>1, <1>2, TableAssumption

\* The operations on the members of a flow keep their types and the socket.
LEMMA HookPacketFacts ==
    ASSUME NEW r \in FlowRecord, NEW s \in BOOLEAN
    PROVE  HookPacket(r, s) \in FlowRecord /\ HookPacket(r, s).socket = r.socket
  <1>1. r.hooked + 1 \in Nat /\ r.wild \in SUBSET BOOLEAN
    BY DEF FlowRecord
  <1> DEFINE h == r.hooked + 1
             w == r.wild \ {s}
  <1>2. h \in Nat /\ w \in SUBSET BOOLEAN
    BY <1>1
  <1>3. HookPacket(r, s) = [r EXCEPT !.hooked = h, !.wild = w]
    BY Zenon DEF HookPacket
  <1> HIDE DEF h, w
  <1>4. /\ [r EXCEPT !.hooked = h, !.wild = w] \in FlowRecord
        /\ [r EXCEPT !.hooked = h, !.wild = w].socket = r.socket
    BY <1>2 DEF FlowRecord
  <1> QED
    BY <1>3, <1>4, Zenon

\* cal_packet keeps the types of the members and the socket.
LEMMA CalPacketFacts ==
    ASSUME NEW r \in FlowRecord, NEW p, NEW s \in BOOLEAN
    PROVE  CalPacket(r, p, s) \in FlowRecord /\ CalPacket(r, p, s).socket = r.socket
  <1>1. r.pkts_src \in 0..MinSrcPkts /\ r.fins \in SUBSET BOOLEAN
    BY DEF FlowRecord
  <1> DEFINE v == IF s THEN Minimum(r.pkts_src + 1, MinSrcPkts) ELSE r.pkts_src
             w == IF p.flags = "FIN" THEN r.fins \cup {s} ELSE r.fins
  <1>2. v \in 0..MinSrcPkts /\ 0 \in 0..MaxAge
    BY <1>1, TableAssumption DEF Minimum
  <1>3. w \in SUBSET BOOLEAN
    BY <1>1
  <1>4. CalPacket(r, p, s) = [r EXCEPT !.pkts_src = v, !.age = 0, !.fins = w]
    BY Zenon DEF CalPacket
  <1> HIDE DEF v, w
  <1>5. /\ [r EXCEPT !.pkts_src = v, !.age = 0, !.fins = w] \in FlowRecord
        /\ [r EXCEPT !.pkts_src = v, !.age = 0, !.fins = w].socket = r.socket
    BY <1>2, <1>3 DEF FlowRecord
  <1> QED
    BY <1>4, <1>5, Zenon

\* reset keeps the types of the members, and the socket (its comment says so).
LEMMA ResetFlowFacts ==
    ASSUME NEW r \in FlowRecord
    PROVE  ResetFlow(r) \in FlowRecord /\ ResetFlow(r).socket = r.socket
  <1>1. {} \in SUBSET BOOLEAN /\ 0 \in Nat /\ 0 \in 0..MinSrcPkts
    BY TableAssumption
  <1> QED
    BY <1>1 DEF ResetFlow, FlowRecord

\* extractData keeps the types of the members and the socket.
LEMMA ExtractFacts ==
    ASSUME NEW r \in FlowRecord
    PROVE  Extract(r) \in FlowRecord /\ Extract(r).socket = r.socket
  <1>1. r.announced + 1 \in Nat
    BY DEF FlowRecord
  <1>2. ASSUME NEW n \in Nat, NEW b \in BOOLEAN
        PROVE  /\ [r EXCEPT !.processed = b, !.announced = n] \in FlowRecord
               /\ [r EXCEPT !.processed = b, !.announced = n].socket = r.socket
    BY DEF FlowRecord
  <1> QED
    BY <1>1, <1>2, Zenon DEF Extract

\* The constructor gives every member its type.
LEMMA NewFlowFacts ==
    ASSUME NEW s \in Socket, NEW w \in SUBSET BOOLEAN, NEW a \in 0..MaxAge
    PROVE  NewFlow(s, w, a) \in FlowRecord /\ NewFlow(s, w, a).socket = s
  BY TableAssumption DEF NewFlow, FlowRecord

\* The initial state has the types.
LEMMA InitTypes == Init => TypeOK /\ Locals
  <1> SUFFICES ASSUME Init PROVE TypeOK /\ Locals
    OBVIOUS
  <1>1. flow \in [Flows -> FlowRecord]
    <2>1. (CHOOSE s \in Socket : TRUE) \in Socket
      <3>1. PICK e \in Endpoint : TRUE
        BY TableAssumption
      <3>2. <<e, e>> \in Socket
        BY DEF Socket
      <3> QED
        BY <3>2, Zenon
    <2> QED
      BY <2>1, NewFlowFacts, TableAssumption DEF Init
  <1>2. 1 \in Bucket
    BY TableAssumption DEF Bucket
  <1>3. TableTypes
    <2>1. lock \in [Bucket -> Thread \cup {None}] /\ chain \in [Bucket -> SUBSET Flows]
      BY DEF Init
    <2> QED
      BY <1>1, <2>1 DEF Init, TableTypes
  <1>4. PacketTypes /\ FlowTypes
    <2>1. psrc \in BOOLEAN
      BY Zenon DEF Init
    <2> QED
      BY <2>1 DEF Init, PacketTypes, FlowTypes
  <1>5. ScrubTypes
    BY <1>2 DEF Init, ScrubTypes
  <1>6. TimerTypes
    BY <1>2 DEF Init, TimerTypes
  <1>7. OtherTypes
    <2>1. stopped \in BOOLEAN /\ armed \in BOOLEAN
      BY Zenon DEF Init
    <2> QED
      BY <2>1, TableAssumption DEF Init, OtherTypes
  <1>8. Locals
    BY DEF Init, Locals, PWorks, PHasFlow
  <1> QED
    BY <1>3, <1>4, <1>5, <1>6, <1>7, <1>8 DEF TypeOK

-----------------------------------------------------------------------------
(***************************************************************************)
(* Every step keeps the types                                              *)
(***************************************************************************)

\* The socket, and so the bucket, of a flow does not change
SameSockets == \A f \in Flows : flow'[f].socket = flow[f].socket

\* A group of variables that does not change keeps its types.
LEMMA KeepTypes ==
    /\ TableTypes /\ UNCHANGED table => TableTypes'
    /\ PacketTypes /\ UNCHANGED packetT => PacketTypes'
    /\ FlowTypes /\ UNCHANGED flowT => FlowTypes'
    /\ ScrubTypes /\ UNCHANGED scrubT => ScrubTypes'
    /\ TimerTypes /\ UNCHANGED timerT => TimerTypes'
  <1>1. TableTypes /\ UNCHANGED table => TableTypes'
    BY DEF TableTypes, table
  <1>2. PacketTypes /\ UNCHANGED packetT => PacketTypes'
    BY DEF PacketTypes, packetT
  <1>3. FlowTypes /\ UNCHANGED flowT => FlowTypes'
    BY DEF FlowTypes, flowT
  <1>4. ScrubTypes /\ UNCHANGED scrubT => ScrubTypes'
    BY DEF ScrubTypes, scrubT
  <1>5. TimerTypes /\ UNCHANGED timerT => TimerTypes'
    BY DEF TimerTypes, timerT
  <1> QED
    BY <1>1, <1>2, <1>3, <1>4, <1>5

\* An update of one flow by an operation that keeps its socket
LEMMA UpdateFlow ==
    ASSUME flow \in [Flows -> FlowRecord], NEW f \in Flows, NEW r \in FlowRecord,
           r.socket = flow[f].socket, flow' = [flow EXCEPT ![f] = r]
    PROVE  flow' \in [Flows -> FlowRecord] /\ SameSockets
  BY DEF SameSockets

\* The bucket of a flow
LEMMA HmbFacts ==
    ASSUME flow \in [Flows -> FlowRecord], NEW f \in Flows
    PROVE  Hmb(f) \in Bucket
  <1>1. flow[f].socket \in Socket
    BY DEF FlowRecord
  <1> QED
    BY <1>1, TableAssumption DEF Hmb

\* A failure changes nothing but failed
LEMMA FailTypes ==
    ASSUME TypeOK, Locals, NEW why \in {"useAfterFree", "nullDeref", "wildPointer"},
           Fail(why)
    PROVE  TypeOK' /\ Locals' /\ SameSockets
  <1>1. OtherTypes'
    BY DEF TypeOK, OtherTypes, Fail, history
  <1>2. Locals' /\ SameSockets
    BY DEF Locals, Fail, packetT, flowT, scrubT, table, SameSockets
  <1> QED
    BY <1>1, <1>2, KeepTypes DEF TypeOK, Fail

\* The destructor
LEMMA DeleteTypes ==
    ASSUME TableTypes, freed \in Nat, NEW f \in Flows, DeleteFlow(f)
    PROVE  alloc' \subseteq Flows /\ freed' \in Nat
  <1>1. flow[f].hooked \in Nat
    BY DEF TableTypes, FlowRecord
  <1> QED
    BY <1>1 DEF TableTypes, DeleteFlow

\* The steps of process_flow_queue keep the types.
LEMMA FlowThreadTypes ==
    ASSUME TypeOK, Locals, FlowThread
    PROVE  TypeOK' /\ Locals' /\ SameSockets
  <1>1. CASE FLoop
    <2>1. FlowTypes'
      BY <1>1 DEF TypeOK, FlowTypes, FLoop
    <2>2. OtherTypes' /\ Locals' /\ SameSockets
      BY <1>1 DEF TypeOK, OtherTypes, Locals, FLoop, packetT, scrubT, table,
                  history, SameSockets
    <2> QED
      BY <1>1, <2>1, <2>2, KeepTypes DEF TypeOK, FLoop
  <1>2. CASE FDeq
    <2>1. fq \in Seq(Flows) /\ (fq # <<>> => Head(fq) \in Flows /\ Tail(fq) \in Seq(Flows))
      BY DEF TypeOK, TableTypes
    <2>2. TableTypes' /\ SameSockets
      BY <1>2, <2>1 DEF TypeOK, TableTypes, FDeq, SameSockets
    <2>3. FlowTypes'
      BY <1>2, <2>1 DEF TypeOK, FlowTypes, FDeq
    <2>4. OtherTypes'
      BY <1>2 DEF TypeOK, OtherTypes, FDeq, history
    <2>5. Locals'
      BY <1>2, <2>1 DEF Locals, FDeq, packetT, scrubT
    <2> QED
      BY <1>2, <2>2, <2>3, <2>4, <2>5, KeepTypes DEF TypeOK, FDeq
  <1>3. CASE FExtract
    <2>1. fflow \in Flows /\ flow \in [Flows -> FlowRecord]
      BY <1>3 DEF Locals, FExtract, TypeOK, TableTypes
    <2>2. flow' \in [Flows -> FlowRecord] /\ SameSockets
      <3>1. flow' = [flow EXCEPT ![fflow] = Extract(flow[fflow])]
        BY <1>3 DEF FExtract
      <3>2. flow[fflow] \in FlowRecord
        BY <2>1
      <3> QED
        BY <2>1, <3>1, <3>2, ExtractFacts, UpdateFlow
    <2>3. TableTypes'
      BY <1>3, <2>2 DEF TypeOK, TableTypes, FExtract
    <2>4. FlowTypes'
      BY <1>3 DEF TypeOK, FlowTypes, FExtract
    <2>5. OtherTypes' /\ Locals'
      BY <1>3, <2>1 DEF TypeOK, OtherTypes, Locals, FExtract, packetT, scrubT, history
    <2> QED
      BY <1>3, <2>2, <2>3, <2>4, <2>5, KeepTypes DEF TypeOK, FExtract
  <1>4. CASE FDelete
    <2>1. fflow \in Flows
      BY <1>4 DEF Locals, FDelete
    <2>2. alloc' \subseteq Flows /\ freed' \in Nat
      BY <1>4, <2>1, DeleteTypes DEF TypeOK, OtherTypes, FDelete
    <2>3. TableTypes' /\ SameSockets
      BY <1>4, <2>2 DEF TypeOK, TableTypes, FDelete, SameSockets
    <2>4. FlowTypes'
      BY <1>4 DEF TypeOK, FlowTypes, FDelete
    <2>5. OtherTypes' /\ Locals'
      BY <1>4, <2>2 DEF TypeOK, OtherTypes, Locals, FDelete, packetT, scrubT
    <2> QED
      BY <1>4, <2>3, <2>4, <2>5, KeepTypes DEF TypeOK, FDelete
  <1>5. CASE FDeleteFails
    BY <1>5, FailTypes DEF FDeleteFails
  <1> QED
    BY <1>1, <1>2, <1>3, <1>4, <1>5 DEF FlowThread

\* The scan of the buckets stays within the table.
LEMMA NextBucket ==
    ASSUME NEW b \in Bucket, MoreBuckets(b)
    PROVE  b + 1 \in Bucket
  BY TableAssumption DEF Bucket, MoreBuckets

\* The table has a first bucket.
LEMMA FirstBucket == 1 \in Bucket
  BY TableAssumption DEF Bucket

\* Locking and unlocking a bucket keep the type of lock.
LEMMA LockTypes ==
    ASSUME TableTypes, NEW b \in Bucket, NEW t \in Thread
    PROVE  /\ [lock EXCEPT ![b] = t] \in [Bucket -> Thread \cup {None}]
           /\ Unlock(b) \in [Bucket -> Thread \cup {None}]
  BY DEF TableTypes, Unlock

\* remove keeps the type of the buckets.
LEMMA UnlinkTypes ==
    ASSUME TableTypes, NEW b \in Bucket, NEW f
    PROVE  Unlink(b, f) \in [Bucket -> SUBSET Flows]
  <1>1. chain[b] \ {f} \in SUBSET Flows
    BY DEF TableTypes
  <1> QED
    BY <1>1 DEF TableTypes, Unlink

\* The steps of scrubbing_flow_htbl keep the types.
LEMMA ScrubberTypes ==
    ASSUME TypeOK, Locals, Scrubber
    PROVE  TypeOK' /\ Locals' /\ SameSockets
  <1>0. "scrub" \in Thread /\ sbucket \in Bucket
    BY DEF Thread, TypeOK, ScrubTypes
  <1>1. CASE SWake
    <2>1. ScrubTypes'
      BY <1>1, FirstBucket DEF TypeOK, ScrubTypes, SWake
    <2>2. OtherTypes' /\ Locals' /\ SameSockets
      BY <1>1 DEF TypeOK, OtherTypes, Locals, SWake, packetT, flowT, table,
                  history, SameSockets
    <2> QED
      BY <1>1, <2>1, <2>2, KeepTypes DEF TypeOK, SWake
  <1>2. CASE SLock
    <2>1. TableTypes' /\ SameSockets
      BY <1>0, <1>2, LockTypes DEF TypeOK, TableTypes, SLock, SameSockets
    <2>2. ScrubTypes'
      BY <1>0, <1>2 DEF TypeOK, TableTypes, ScrubTypes, SLock
    <2>3. OtherTypes' /\ Locals'
      BY <1>2 DEF TypeOK, OtherTypes, Locals, SLock, packetT, flowT, history
    <2> QED
      BY <1>2, <2>1, <2>2, <2>3, KeepTypes DEF TypeOK, SLock
  <1>3. ASSUME NEW f \in Flows, SVisit(f)
        PROVE  TypeOK' /\ Locals' /\ SameSockets
    <2>1. TableTypes' /\ SameSockets
      BY <1>0, <1>3, UnlinkTypes DEF TypeOK, TableTypes, SVisit, SameSockets
    <2>2. ScrubTypes'
      BY <1>3 DEF TypeOK, TableTypes, ScrubTypes, SVisit
    <2>3. OtherTypes' /\ Locals'
      BY <1>3 DEF TypeOK, OtherTypes, Locals, SVisit, packetT, flowT, history
    <2> QED
      BY <1>3, <2>1, <2>2, <2>3, KeepTypes DEF TypeOK, SVisit
  <1>4. CASE SClose
    <2>1. sflow \in Flows
      BY <1>4 DEF Locals, SClose
    <2>2. TableTypes' /\ SameSockets
      BY <1>4, <2>1 DEF TypeOK, TableTypes, ScrubTypes, SClose, SameSockets
    <2>3. ScrubTypes'
      BY <1>4 DEF TypeOK, ScrubTypes, SClose
    <2>4. OtherTypes' /\ Locals'
      BY <1>4 DEF TypeOK, OtherTypes, Locals, SClose, packetT, flowT, history
    <2> QED
      BY <1>4, <2>2, <2>3, <2>4, KeepTypes DEF TypeOK, SClose
  <1>5. CASE SUnlock
    <2>1. TableTypes' /\ SameSockets
      BY <1>0, <1>5, LockTypes DEF TypeOK, TableTypes, SUnlock, SameSockets
    <2>2. ScrubTypes'
      BY <1>0, <1>5, NextBucket, FirstBucket DEF TypeOK, ScrubTypes, SUnlock, AfterScan
    <2>3. OtherTypes' /\ Locals'
      BY <1>5 DEF TypeOK, OtherTypes, Locals, SUnlock, AfterScan, packetT, flowT, history
    <2> QED
      BY <1>5, <2>1, <2>2, <2>3, KeepTypes DEF TypeOK, SUnlock
  <1> QED
    BY <1>1, <1>2, <1>3, <1>4, <1>5 DEF Scrubber

\* The steps of a timer callback keep the types.
LEMMA TimerStepTypes ==
    ASSUME TypeOK, Locals, NEW t \in Ticker, Timer(t)
    PROVE  TypeOK' /\ Locals' /\ SameSockets
  <1>0. t \in Thread /\ tbucket[t] \in Bucket
    BY DEF Thread, TypeOK, TimerTypes
  <1>1. CASE TFire(t)
    <2>1. TimerTypes'
      BY <1>1, FirstBucket DEF TypeOK, TimerTypes, TFire
    <2>2. OtherTypes' /\ Locals' /\ SameSockets
      BY <1>1 DEF TypeOK, OtherTypes, Locals, TFire, packetT, flowT, scrubT,
                  table, history, SameSockets
    <2> QED
      BY <1>1, <2>1, <2>2, KeepTypes DEF TypeOK, TFire
  <1>2. CASE TLock(t)
    <2>1. TableTypes' /\ SameSockets
      BY <1>0, <1>2, LockTypes DEF TypeOK, TableTypes, TLock, SameSockets
    <2>2. TimerTypes'
      BY <1>0, <1>2 DEF TypeOK, TableTypes, TimerTypes, TLock
    <2>3. OtherTypes' /\ Locals'
      BY <1>2 DEF TypeOK, OtherTypes, Locals, TLock, packetT, flowT, scrubT, history
    <2> QED
      BY <1>2, <2>1, <2>2, <2>3, KeepTypes DEF TypeOK, TLock
  <1>3. ASSUME NEW f \in Flows, TVisit(t, f)
        PROVE  TypeOK' /\ Locals' /\ SameSockets
    <2>1. flow' \in [Flows -> FlowRecord] /\ SameSockets
      <3>1. flow \in [Flows -> FlowRecord] /\ flow[f] \in FlowRecord
        BY DEF TypeOK, TableTypes
      <3>2. flow' = [flow EXCEPT ![f] = Extract(flow[f])]
        BY <1>3 DEF TVisit
      <3> QED
        BY <3>1, <3>2, ExtractFacts, UpdateFlow
    <2>2. TableTypes'
      BY <1>3, <2>1 DEF TypeOK, TableTypes, TVisit
    <2>3. TimerTypes'
      <3>1. ttodo[t] \ {f} \in SUBSET Flows
        BY DEF TypeOK, TimerTypes
      <3> QED
        BY <1>3, <3>1 DEF TypeOK, TimerTypes, TVisit
    <2>4. OtherTypes' /\ Locals'
      BY <1>3 DEF TypeOK, OtherTypes, Locals, TVisit, packetT, flowT, scrubT, history
    <2> QED
      BY <1>3, <2>1, <2>2, <2>3, <2>4, KeepTypes DEF TypeOK, TVisit
  <1>4. CASE TUnlock(t)
    <2>1. TableTypes' /\ SameSockets
      BY <1>0, <1>4, LockTypes DEF TypeOK, TableTypes, TUnlock, SameSockets
    <2>2. TimerTypes'
      BY <1>0, <1>4, NextBucket, FirstBucket DEF TypeOK, TimerTypes, TUnlock
    <2>3. OtherTypes' /\ Locals'
      BY <1>4 DEF TypeOK, OtherTypes, Locals, TUnlock, packetT, flowT, scrubT, history
    <2> QED
      BY <1>4, <2>1, <2>2, <2>3, KeepTypes DEF TypeOK, TUnlock
  <1> QED
    BY <1>1, <1>2, <1>3, <1>4 DEF Timer

\* The end of the analysis, and time, keep the types.
LEMMA EnvironmentTypes ==
    ASSUME TypeOK, Locals, Stop \/ TimerDelete \/ Tick
    PROVE  TypeOK' /\ Locals' /\ SameSockets
  <1>1. CASE Stop
    <2>1. stopped' \in BOOLEAN
      BY <1>1, Zenon DEF Stop
    <2>2. OtherTypes' /\ Locals' /\ SameSockets
      BY <1>1, <2>1 DEF TypeOK, OtherTypes, Locals, Stop, packetT, flowT, scrubT,
                        table, history, SameSockets
    <2> QED
      BY <1>1, <2>2, KeepTypes DEF TypeOK, Stop
  <1>2. CASE TimerDelete
    <2>1. armed' \in BOOLEAN
      BY <1>2, Zenon DEF TimerDelete
    <2>2. OtherTypes' /\ Locals' /\ SameSockets
      BY <1>2, <2>1 DEF TypeOK, OtherTypes, Locals, TimerDelete, packetT, flowT,
                        scrubT, table, history, SameSockets
    <2> QED
      BY <1>2, <2>2, KeepTypes DEF TypeOK, TimerDelete
  <1>3. CASE Tick
    <2>1. \A f \in Flows : flow[f] \in FlowRecord /\ flow[f].age \in 0..MaxAge
      BY DEF TypeOK, TableTypes, FlowRecord
    <2>2. ASSUME NEW r \in FlowRecord, NEW a \in 0..MaxAge
          PROVE  /\ [r EXCEPT !.age = a] \in FlowRecord
                 /\ [r EXCEPT !.age = a].socket = r.socket
      BY DEF FlowRecord
    <2>3. ASSUME NEW a \in 0..MaxAge PROVE Minimum(a + 1, MaxAge) \in 0..MaxAge
      BY TableAssumption DEF Minimum
    <2>4. flow' \in [Flows -> FlowRecord] /\ SameSockets
      <3>1. flow' = [f \in Flows |->
                       IF f \in alloc
                       THEN [flow[f] EXCEPT !.age = Minimum(flow[f].age + 1, MaxAge)]
                       ELSE flow[f]]
        BY <1>3 DEF Tick
      <3>2. ASSUME NEW f \in Flows
            PROVE  flow'[f] \in FlowRecord /\ flow'[f].socket = flow[f].socket
        BY <2>1, <2>2, <2>3, <3>1
      <3> QED
        BY <3>1, <3>2 DEF SameSockets
    <2>5. TableTypes'
      BY <1>3, <2>4 DEF TypeOK, TableTypes, Tick
    <2>6. OtherTypes' /\ Locals'
      BY <1>3 DEF TypeOK, OtherTypes, Locals, Tick, packetT, flowT, scrubT, history
    <2> QED
      BY <1>3, <2>4, <2>5, <2>6, KeepTypes DEF TypeOK, Tick
  <1> QED
    BY <1>1, <1>2, <1>3

\* FlowHashTable::add_packet leaves no flow and no packet behind in its locals.
LEMMA ReturnTypes ==
    ASSUME PReturn PROVE PacketTypes' /\ ppc' = "loop"
  <1>1. psrc' \in BOOLEAN
    BY Zenon DEF PReturn
  <1> QED
    BY <1>1 DEF PReturn, PacketTypes

\* FlowHashTable::create: the new flow, and where it is
LEMMA CreateTypes ==
    ASSUME TypeOK, Locals, PCreate
    PROVE  TypeOK' /\ Locals' /\ \A f \in alloc : flow'[f].socket = flow[f].socket
  <1> DEFINE s == IF psrc THEN pkt.socket ELSE Reverse(pkt.socket)
  <1>1. s \in Socket /\ Hash[s] \in Bucket
    BY PacketFacts DEF Locals, PCreate, PWorks
  <1> HIDE DEF s
  <1>2. PICK f \in Flows \ alloc, w \in {{}, BOOLEAN}, a \in {0, MaxAge} :
          /\ alloc' = alloc \cup {f}
          /\ flow' = [flow EXCEPT ![f] = NewFlow(s, w, a)]
          /\ chain' = [chain EXCEPT ![Hash[s]] = @ \cup {f}]
          /\ pflow' = f
    BY DEF PCreate, s
  <1>3. NewFlow(s, w, a) \in FlowRecord
    <2>1. w \in SUBSET BOOLEAN /\ a \in 0..MaxAge
      BY TableAssumption
    <2> QED
      BY <1>1, <2>1, NewFlowFacts
  <1>4. chain' \in [Bucket -> SUBSET Flows]
    <2>1. chain[Hash[s]] \cup {f} \in SUBSET Flows
      BY <1>1 DEF TypeOK, TableTypes
    <2> QED
      BY <1>1, <1>2, <2>1 DEF TypeOK, TableTypes
  <1>5. lock' \in [Bucket -> Thread \cup {None}]
    <2>1. lock' = [lock EXCEPT ![Hash[s]] = "packet"] /\ "packet" \in Thread
      BY DEF PCreate, s, Thread
    <2> QED
      BY <1>1, <2>1, LockTypes DEF TypeOK
  <1>6. TableTypes'
    BY <1>2, <1>3, <1>4, <1>5 DEF TypeOK, TableTypes, PCreate
  <1>7. PacketTypes'
    BY <1>2 DEF TypeOK, TableTypes, PacketTypes, PCreate
  <1>8. OtherTypes'
    BY DEF TypeOK, OtherTypes, PCreate, history
  <1>9. Locals'
    BY <1>2 DEF Locals, PCreate, PWorks, PHasFlow, flowT, scrubT
  <1>10. \A g \in alloc : flow'[g].socket = flow[g].socket
    BY <1>2 DEF TypeOK, TableTypes
  <1> QED
    BY <1>6, <1>7, <1>8, <1>9, <1>10, KeepTypes DEF TypeOK, PCreate

\* Flow::add_packet, for a packet that the flow keeps or frees
LEMMA AddTypes ==
    ASSUME TypeOK, Locals, PSyn \/ POther
    PROVE  TypeOK' /\ Locals' /\ SameSockets
  <1>1. /\ pflow \in Flows /\ flow \in [Flows -> FlowRecord]
        /\ flow[pflow] \in FlowRecord /\ psrc \in BOOLEAN
        /\ flow[pflow].hooked \in Nat
    BY DEF TypeOK, TableTypes, PacketTypes, Locals, PSyn, POther, EnterAdd,
           PHasFlow, FlowRecord
  <1>2. flow' \in [Flows -> FlowRecord] /\ SameSockets
    <2> DEFINE Good(r) == r \in FlowRecord /\ r.socket = flow[pflow].socket
    <2>1. /\ Good(CalPacket(ResetFlow(flow[pflow]), pkt, psrc))
          /\ Good(CalPacket(flow[pflow], pkt, psrc))
          /\ Good(CalPacket(HookPacket(flow[pflow], psrc), pkt, psrc))
      BY <1>1, ResetFlowFacts, HookPacketFacts, CalPacketFacts
    <2>2. PICK r : Good(r) /\ flow' = [flow EXCEPT ![pflow] = r]
      <3>1. CASE PSyn
        BY <2>1, <3>1 DEF PSyn
      <3>2. CASE POther
        BY <2>1, <3>2 DEF POther
      <3> QED
        BY <3>1, <3>2
    <2> QED
      BY <1>1, <2>2, UpdateFlow
  <1>3. freed' \in Nat
    BY <1>1 DEF TypeOK, OtherTypes, PSyn, POther
  <1>4. TableTypes'
    BY <1>2 DEF TypeOK, TableTypes, PSyn, POther
  <1>5. OtherTypes'
    BY <1>3 DEF TypeOK, OtherTypes, PSyn, POther
  <1>6. PReturn /\ UNCHANGED <<flowT, scrubT, timerT>>
    BY DEF PSyn, POther
  <1>7. Locals'
    BY <1>6 DEF Locals, PReturn, PWorks, PHasFlow, flowT, scrubT
  <1> QED
    BY <1>2, <1>4, <1>5, <1>6, <1>7, ReturnTypes, KeepTypes DEF TypeOK

\* The steps of process_packet_queue, except for create, keep the types.
LEMMA PacketThreadTypes ==
    ASSUME TypeOK, Locals, PacketThread, ~PCreate
    PROVE  TypeOK' /\ Locals' /\ SameSockets
  <1>0. "packet" \in Thread /\ flow \in [Flows -> FlowRecord]
    BY DEF Thread, TypeOK, TableTypes
  <1>1. CASE PLoop \/ PIdle
    <2>1. PacketTypes'
      BY <1>1 DEF TypeOK, PacketTypes, PLoop, PIdle
    <2>2. OtherTypes' /\ SameSockets
      BY <1>1 DEF TypeOK, OtherTypes, PLoop, PIdle, table, history, SameSockets
    <2>3. Locals'
      BY <1>1 DEF Locals, PLoop, PIdle, PWorks, PHasFlow, flowT, scrubT
    <2> QED
      BY <1>1, <2>1, <2>2, <2>3, KeepTypes DEF TypeOK, PLoop, PIdle
  <1>2. ASSUME NEW p \in Packets, PDeq(p)
        PROVE  TypeOK' /\ Locals' /\ SameSockets
    <2>1. PacketTypes'
      BY <1>2 DEF TypeOK, PacketTypes, PDeq
    <2>2. OtherTypes' /\ SameSockets
      BY <1>2, TableAssumption DEF TypeOK, OtherTypes, PDeq, table, SameSockets
    <2>3. Locals'
      BY <1>2 DEF Locals, PDeq, PWorks, PHasFlow, flowT, scrubT
    <2> QED
      BY <1>2, <2>1, <2>2, <2>3, KeepTypes DEF TypeOK, PDeq
  <1>3. CASE PFindRev
    <2>1. \A f \in Find(Reverse(pkt.socket)) : f \in Flows
      BY <1>3, PacketFacts DEF Find, TypeOK, TableTypes, Locals, PWorks, PFindRev
    <2>2. PacketTypes'
      <3>1. psrc' \in BOOLEAN
        BY <1>3, Zenon DEF TypeOK, PacketTypes, PFindRev
      <3> QED
        BY <1>3, <2>1, <3>1 DEF TypeOK, PacketTypes, PFindRev
    <2>3. OtherTypes' /\ SameSockets
      BY <1>3 DEF TypeOK, OtherTypes, PFindRev, table, history, SameSockets
    <2>4. Locals'
      BY <1>3, <2>1 DEF Locals, PFindRev, PWorks, PHasFlow, flowT, scrubT
    <2> QED
      BY <1>3, <2>2, <2>3, <2>4, KeepTypes DEF TypeOK, PFindRev
  <1>4. CASE PFindFwd
    <2>1. \A f \in Find(pkt.socket) : f \in Flows
      BY <1>4, PacketFacts DEF Find, TypeOK, TableTypes, Locals, PWorks, PFindFwd
    <2>2. PacketTypes'
      <3>1. psrc' \in BOOLEAN
        BY <1>4, Zenon DEF TypeOK, PacketTypes, PFindFwd, PReturn
      <3> QED
        BY <1>4, <2>1, <3>1 DEF TypeOK, PacketTypes, PFindFwd, PReturn
    <2>3. OtherTypes' /\ SameSockets
      BY <1>4 DEF TypeOK, OtherTypes, PFindFwd, table, SameSockets
    <2>4. Locals'
      BY <1>4, <2>1 DEF Locals, PFindFwd, PReturn, PWorks, PHasFlow, flowT, scrubT
    <2> QED
      BY <1>4, <2>2, <2>3, <2>4, KeepTypes DEF TypeOK, PFindFwd
  <1>5. CASE PCreateCnt
    <2>1. pflow \in Flows /\ Hmb(pflow) \in Bucket
      BY <1>0, <1>5, HmbFacts DEF Locals, PHasFlow, PCreateCnt
    <2>2. TableTypes' /\ SameSockets
      BY <1>0, <1>5, <2>1, LockTypes
         DEF TypeOK, TableTypes, PacketTypes, PCreateCnt, SameSockets
    <2>3. PacketTypes' /\ OtherTypes'
      BY <1>5 DEF TypeOK, PacketTypes, OtherTypes, PCreateCnt, history
    <2>4. Locals'
      BY <1>5 DEF Locals, PCreateCnt, PWorks, PHasFlow, flowT, scrubT
    <2> QED
      BY <1>5, <2>2, <2>3, <2>4, KeepTypes DEF TypeOK, PCreateCnt
  <1>6. CASE PAddStale \/ PRemoveAgain \/ PDropFails \/ PUnlockFails \/ PResetFails
    BY <1>6, FailTypes DEF PAddStale, PRemoveAgain, PDropFails, PUnlockFails, PResetFails
  <1>7. CASE PRemove
    <2>1. pflow \in Flows /\ Hmb(pflow) \in Bucket /\ psrc \in BOOLEAN
      BY <1>0, <1>7, HmbFacts DEF Locals, PHasFlow, PRemove, EnterAdd, TypeOK, PacketTypes
    <2>2. flow' \in [Flows -> FlowRecord] /\ SameSockets
      <3>1. CASE flow' = flow
        BY <1>0, <3>1 DEF SameSockets
      <3>2. CASE flow' = [flow EXCEPT ![pflow] = CalPacket(flow[pflow], pkt, psrc)]
        BY <1>0, <2>1, <3>2, CalPacketFacts, UpdateFlow
      <3> QED
        BY <1>7, <3>1, <3>2 DEF PRemove
    <2>3. TableTypes'
      BY <1>0, <1>7, <2>1, <2>2, LockTypes, UnlinkTypes DEF TypeOK, TableTypes, PRemove
    <2>4. PacketTypes' /\ OtherTypes'
      BY <1>7 DEF TypeOK, TableTypes, PacketTypes, OtherTypes, PRemove
    <2>5. Locals'
      BY <1>7, <2>1 DEF Locals, PRemove, EnterAdd, PWorks, PHasFlow, flowT, scrubT
    <2> QED
      BY <1>7, <2>2, <2>3, <2>4, <2>5, KeepTypes DEF TypeOK, PRemove
  <1>8. CASE PDrop
    <2>1. pflow \in Flows /\ Hmb(pflow) \in Bucket
      BY <1>0, <1>8, HmbFacts DEF Locals, PHasFlow, PDrop
    <2>2. alloc' \subseteq Flows /\ freed' \in Nat
      BY <1>8, <2>1, DeleteTypes DEF TypeOK, OtherTypes, PDrop
    <2>3. TableTypes' /\ SameSockets
      BY <1>0, <1>8, <2>1, <2>2, LockTypes
         DEF TypeOK, TableTypes, PacketTypes, PDrop, SameSockets
    <2>4. OtherTypes'
      BY <1>8, <2>2 DEF TypeOK, OtherTypes, PDrop
    <2>5. Locals'
      BY <1>8 DEF Locals, PDrop, PReturn, PWorks, PHasFlow, flowT, scrubT
    <2> QED
      BY <1>8, <2>3, <2>4, <2>5, ReturnTypes, KeepTypes DEF TypeOK, PDrop
  <1>9. CASE PClose
    <2>1. pflow \in Flows
      BY <1>9 DEF Locals, PHasFlow, PClose
    <2>2. TableTypes' /\ SameSockets
      BY <1>9, <2>1 DEF TypeOK, TableTypes, PacketTypes, PClose, SameSockets
    <2>3. PacketTypes' /\ OtherTypes'
      BY <1>9 DEF TypeOK, PacketTypes, OtherTypes, PClose, history
    <2>4. Locals'
      BY <1>9 DEF Locals, PClose, PWorks, PHasFlow, flowT, scrubT
    <2> QED
      BY <1>9, <2>2, <2>3, <2>4, KeepTypes DEF TypeOK, PClose
  <1>10. CASE PUnlock
    <2>1. pflow \in Flows /\ Hmb(pflow) \in Bucket
      BY <1>0, <1>10, HmbFacts DEF Locals, PHasFlow, PUnlock
    <2>2. TableTypes' /\ SameSockets
      BY <1>0, <1>10, <2>1, LockTypes DEF TypeOK, TableTypes, PUnlock, SameSockets
    <2>3. OtherTypes'
      BY <1>10 DEF TypeOK, OtherTypes, PUnlock, history
    <2>4. Locals'
      BY <1>10 DEF Locals, PUnlock, PReturn, PWorks, PHasFlow, flowT, scrubT
    <2> QED
      BY <1>10, <2>2, <2>3, <2>4, ReturnTypes, KeepTypes DEF TypeOK, PUnlock
  <1>11. CASE PSyn \/ POther
    BY <1>11, AddTypes
  <1> QED
    BY <1>1, <1>2, <1>3, <1>4, <1>5, <1>6, <1>7, <1>8, <1>9, <1>10, <1>11
       DEF PacketThread

\* Every step keeps the types.
LEMMA NextTypes == ASSUME TypeOK, Locals, [Next]_vars PROVE TypeOK' /\ Locals'
  <1>1. CASE PacketThread
    BY <1>1, PacketThreadTypes, CreateTypes
  <1>2. CASE FlowThread \/ Scrubber
    BY <1>2, FlowThreadTypes, ScrubberTypes
  <1>3. ASSUME NEW t \in Ticker, Timer(t) PROVE TypeOK' /\ Locals'
    BY <1>3, TimerStepTypes
  <1>4. CASE Stop \/ TimerDelete \/ Tick
    BY <1>4, EnvironmentTypes
  <1>5. CASE UNCHANGED vars
    BY <1>5 DEF vars, TypeOK, TableTypes, PacketTypes, FlowTypes, ScrubTypes,
                TimerTypes, OtherTypes, Locals, table, packetT, flowT, scrubT,
                timerT, history
  <1> QED
    BY <1>1, <1>2, <1>3, <1>4, <1>5 DEF Next, Step, Halted

\* Every variable keeps its type; the scrubber and the timer callbacks never
\* index the table outside of its buckets.
THEOREM TypeCorrect == Spec => []TypeOK
  <1>1. Init => TypeOK /\ Locals
    BY InitTypes
  <1>2. TypeOK /\ Locals /\ [Next]_vars => TypeOK' /\ Locals'
    BY NextTypes
  <1> QED
    BY <1>1, <1>2, PTL DEF Spec

-----------------------------------------------------------------------------
(***************************************************************************)
(* Ownership                                                               *)
(***************************************************************************)

\* a is the disjoint union of the other five
Parts(a, l, q, p, s, f) ==
    /\ a = l \cup q \cup p \cup s \cup f
    /\ l \cap (q \cup p \cup s \cup f) = {}
    /\ q \cap (p \cup s \cup f) = {}
    /\ p \cap (s \cup f) = {}
    /\ s \cap f = {}

Places     == Parts(alloc, Linked, InQueue, PHolds, SHolds, FHolds)
InBucket   == \A b \in Bucket : \A f \in chain[b] : Hmb(f) = b
QueuedOnce == \A i, j \in DOMAIN fq : fq[i] = fq[j] => i = j

\* OneOwner, part by part.
LEMMA OneOwnerParts == OneOwner <=> Places /\ InBucket /\ QueuedOnce
  BY DEF OneOwner, Places, Parts, InBucket, QueuedOnce

\* The packet thread holds the mutex of its flow's bucket
PacketLock == ppc \in PLocked => lock[Hmb(pflow)] = "packet"

\* A walker holds the mutex of its bucket, and what it has still to visit is
\* linked there
Walkers ==
    /\ spc \in {"scan", "cnt"} => lock[sbucket] = "scrub" /\ stodo \subseteq chain[sbucket]
    /\ \A t \in Ticker : tpc[t] = "scan" =>
         lock[tbucket[t]] = t /\ ttodo[t] \subseteq chain[tbucket[t]]

Owned == Places /\ InBucket /\ QueuedOnce /\ PacketLock /\ Walkers

\* The inductive invariant
IInv == TypeOK /\ Locals /\ Owned

\* The owners of a mutex can be told apart.
LEMMA Threads == /\ \A t \in Ticker : t # "packet" /\ t # "scrub" /\ t # None
                 /\ "packet" # None /\ "scrub" # None /\ "packet" # "scrub"
  BY TableAssumption

\* What one change of the table does to the places of flows
LEMMA UnlinkPlaces ==
    ASSUME TableTypes, InBucket, NEW b \in Bucket, NEW f \in chain[b],
           chain' = Unlink(b, f)
    PROVE  /\ f \in Linked /\ Linked' = Linked \ {f}
           /\ \A c \in Bucket : chain'[c] = IF c = b THEN chain[b] \ {f} ELSE chain[c]
  <1>1. \A c \in Bucket : chain'[c] = IF c = b THEN chain[b] \ {f} ELSE chain[c]
    BY DEF TableTypes, Unlink
  <1>2. \A c \in Bucket : f \in chain[c] => c = b
    BY DEF InBucket
  <1> QED
    BY <1>1, <1>2 DEF Linked

\* fq->enq of a flow that is not in fq: it is in it once afterwards.
LEMMA EnqPlaces ==
    ASSUME fq \in Seq(Flows), QueuedOnce, NEW f \in Flows, f \notin InQueue,
           fq' = Append(fq, f)
    PROVE  InQueue' = InQueue \cup {f} /\ QueuedOnce'
  <1>1. /\ Len(fq) \in Nat /\ DOMAIN fq = 1..Len(fq)
        /\ DOMAIN fq' = 1..(Len(fq) + 1)
        /\ fq'[Len(fq) + 1] = f
        /\ \A i \in 1..Len(fq) : fq'[i] = fq[i]
    OBVIOUS
  <1>2. \A i \in 1..Len(fq) : fq[i] # f
    BY <1>1 DEF InQueue
  <1>3. QueuedOnce'
    BY <1>1, <1>2 DEF QueuedOnce
  <1>4. InQueue' = InQueue \cup {f}
    <2>1. ASSUME NEW g \in InQueue' PROVE g \in InQueue \cup {f}
      BY <1>1 DEF InQueue
    <2>2. ASSUME NEW g \in InQueue \cup {f} PROVE g \in InQueue'
      BY <1>1 DEF InQueue
    <2> QED
      BY <2>1, <2>2
  <1> QED
    BY <1>3, <1>4

\* fq->deq takes the first flow out of fq.
LEMMA DeqPlaces ==
    ASSUME fq \in Seq(Flows), QueuedOnce, fq # <<>>, fq' = Tail(fq)
    PROVE  /\ Head(fq) \in InQueue /\ InQueue' = InQueue \ {Head(fq)}
           /\ QueuedOnce'
  <1>1. /\ Len(fq) \in Nat /\ Len(fq) > 0 /\ DOMAIN fq = 1..Len(fq)
        /\ DOMAIN fq' = 1..(Len(fq) - 1)
        /\ Head(fq) = fq[1]
        /\ \A i \in 1..(Len(fq) - 1) : fq'[i] = fq[i + 1]
    OBVIOUS
  <1>2. QueuedOnce'
    BY <1>1 DEF QueuedOnce
  <1>3. Head(fq) \in InQueue
    BY <1>1 DEF InQueue
  <1>4. InQueue' = InQueue \ {Head(fq)}
    <2>1. ASSUME NEW g \in InQueue' PROVE g \in InQueue /\ g # Head(fq)
      <3>1. PICK i \in 1..(Len(fq) - 1) : g = fq'[i]
        BY <1>1 DEF InQueue
      <3>2. g = fq[i + 1] /\ i + 1 \in 1..Len(fq) /\ i + 1 # 1 /\ 1 \in 1..Len(fq)
        BY <1>1, <3>1
      <3> QED
        BY <1>1, <3>2 DEF InQueue, QueuedOnce
    <2>2. ASSUME NEW g \in InQueue, g # Head(fq) PROVE g \in InQueue'
      <3>1. PICK i \in 1..Len(fq) : g = fq[i]
        BY <1>1 DEF InQueue
      <3>2. i # 1
        BY <1>1, <2>2, <3>1
      <3>3. i - 1 \in 1..(Len(fq) - 1) /\ fq'[i - 1] = g
        BY <1>1, <3>1, <3>2
      <3> QED
        BY <1>1, <3>3 DEF InQueue
    <2> QED
      BY <2>1, <2>2
  <1> QED
    BY <1>2, <1>3, <1>4

\* Flows stay in the bucket of their socket when none is added.
LEMMA KeepBucket ==
    ASSUME InBucket, SameSockets, TableTypes,
           \A b \in Bucket : chain'[b] \subseteq chain[b]
    PROVE  InBucket'
  BY DEF InBucket, SameSockets, TableTypes, Hmb

\* What does not change keeps the flows where they are.
LEMMA KeepPlaces ==
    /\ UNCHANGED chain => Linked' = Linked
    /\ UNCHANGED fq => InQueue' = InQueue /\ QueuedOnce' = QueuedOnce
    /\ UNCHANGED <<ppc, pflow>> => PHolds' = PHolds
    /\ UNCHANGED <<spc, sflow>> => SHolds' = SHolds
    /\ UNCHANGED <<fpc, fflow>> => FHolds' = FHolds
  BY DEF Linked, InQueue, QueuedOnce, PHolds, SHolds, FHolds

\* A step of a thread other than the packet thread leaves its mutex alone
LEMMA KeepPacketLock ==
    ASSUME TypeOK, Locals, PacketLock, SameSockets, UNCHANGED packetT,
           \A b \in Bucket : lock[b] = "packet" => lock'[b] = "packet"
    PROVE  PacketLock'
  <1>1. CASE ppc \in PLocked
    <2>1. pflow \in Flows /\ Hmb(pflow) \in Bucket
      BY <1>1, HmbFacts DEF TypeOK, TableTypes, Locals, PLocked, PHasFlow
    <2>2. Hmb(pflow)' = Hmb(pflow)
      BY <2>1 DEF SameSockets, Hmb, packetT
    <2> QED
      BY <1>1, <2>1, <2>2 DEF PacketLock, packetT
  <1>2. CASE ppc \notin PLocked
    BY <1>2 DEF PacketLock, packetT
  <1> QED
    BY <1>1, <1>2

\* Walkers are not disturbed by a step that changes only buckets which no
\* walker has locked
LEMMA KeepWalkers ==
    ASSUME TypeOK, Walkers, UNCHANGED <<spc, sbucket, stodo, timerT>>,
           \A b \in Bucket :
               \/ lock[b] \in {None, "packet"}
               \/ lock'[b] = lock[b] /\ chain[b] \subseteq chain'[b]
    PROVE  Walkers'
  <1>1. spc \in {"scan", "cnt"} =>
          lock'[sbucket] = "scrub" /\ stodo \subseteq chain'[sbucket]
    BY Threads DEF Walkers, TypeOK, ScrubTypes
  <1>2. \A t \in Ticker : tpc[t] = "scan" =>
          lock'[tbucket[t]] = t /\ ttodo[t] \subseteq chain'[tbucket[t]]
    BY Threads DEF Walkers, TypeOK, TimerTypes
  <1> QED
    BY <1>1, <1>2 DEF Walkers, timerT

\* process_flow_queue takes flows over from fq and deletes its own only.
LEMMA FlowThreadOwned ==
    ASSUME IInv, FlowThread
    PROVE  Owned'
  <1>0. TypeOK /\ Locals /\ SameSockets /\ TableTypes
    BY FlowThreadTypes DEF IInv, TypeOK
  <1>1. UNCHANGED <<chain, lock, packetT, scrubT, timerT>>
    BY DEF FlowThread, FLoop, FDeq, FExtract, FDelete, FDeleteFails, Fail, table
  <1>2. InBucket' /\ PacketLock' /\ Walkers'
    <2>1. InBucket'
      BY <1>0, <1>1, KeepBucket DEF IInv, Owned
    <2>2. PacketLock'
      BY <1>0, <1>1, KeepPacketLock DEF IInv, Owned
    <2>3. Walkers'
      BY <1>0, <1>1, KeepWalkers DEF IInv, Owned, scrubT
    <2> QED
      BY <2>1, <2>2, <2>3
  <1>3. Linked' = Linked /\ PHolds' = PHolds /\ SHolds' = SHolds
    BY <1>1, KeepPlaces DEF packetT, scrubT
  <1>4. Places /\ QueuedOnce /\ fq \in Seq(Flows)
    BY <1>0 DEF IInv, Owned, TableTypes
  <1>5. Places' /\ QueuedOnce'
    <2>1. CASE FLoop \/ (FDeq /\ fq = <<>>) \/ FExtract \/ FDeleteFails
      <3>1. UNCHANGED <<alloc, fq>> /\ FHolds' = FHolds
        BY <2>1 DEF FLoop, FDeq, FExtract, FDeleteFails, Fail, table, FHolds, flowT
      <3> QED
        BY <1>3, <1>4, <3>1, KeepPlaces DEF Places
    <2>2. CASE FDeq /\ fq # <<>>
      <3>1. alloc' = alloc /\ fq' = Tail(fq) /\ FHolds = {} /\ FHolds' = {Head(fq)}
        BY <2>2 DEF FDeq, FHolds
      <3>2. /\ Head(fq) \in InQueue /\ InQueue' = InQueue \ {Head(fq)}
            /\ QueuedOnce'
        BY <1>4, <2>2, <3>1, DeqPlaces
      <3> QED
        BY <1>3, <1>4, <3>1, <3>2 DEF Places, Parts
    <2>3. CASE FDelete
      <3>1. alloc' = alloc \ {fflow} /\ fq' = fq /\ FHolds = {fflow} /\ FHolds' = {}
        BY <2>3 DEF FDelete, DeleteFlow, FHolds
      <3> QED
        BY <1>3, <1>4, <3>1, KeepPlaces DEF Places, Parts
    <2> QED
      BY <2>1, <2>2, <2>3 DEF FlowThread
  <1> QED
    BY <1>2, <1>5 DEF Owned

\* flow_scrubber takes flows from its locked bucket to fq.
LEMMA ScrubberOwned ==
    ASSUME IInv, Scrubber
    PROVE  Owned'
  <1>0. TypeOK /\ Locals /\ SameSockets /\ TableTypes /\ sbucket \in Bucket
    BY ScrubberTypes DEF IInv, TypeOK, ScrubTypes
  <1>1. /\ Places /\ InBucket /\ QueuedOnce /\ PacketLock /\ Walkers
        /\ fq \in Seq(Flows) /\ lock \in [Bucket -> Thread \cup {None}]
    BY <1>0 DEF IInv, Owned, TableTypes
  <1>2. UNCHANGED <<alloc, flow, packetT, flowT, timerT>>
    BY DEF Scrubber, SWake, SLock, SVisit, SClose, SUnlock, table
  <1>3. PHolds' = PHolds /\ FHolds' = FHolds
    BY <1>2, KeepPlaces DEF packetT, flowT
  <1>4. CASE SWake
    <2>1. UNCHANGED <<chain, lock, fq>> /\ SHolds' = SHolds
      BY <1>4 DEF SWake, table, SHolds
    <2>2. Walkers'
      BY <1>1, <1>2, <1>4, <2>1 DEF SWake, Walkers, timerT
    <2>3. InBucket' /\ PacketLock'
      BY <1>0, <1>1, <1>2, <2>1, KeepBucket, KeepPacketLock
    <2> QED
      BY <1>1, <1>2, <1>3, <2>1, <2>2, <2>3, KeepPlaces DEF Owned, Places
  <1>5. CASE SLock
    <2>1. UNCHANGED <<chain, fq>> /\ SHolds' = SHolds
      BY <1>5 DEF SLock, SHolds
    <2>2. /\ lock[sbucket] = None /\ lock'[sbucket] = "scrub"
          /\ \A b \in Bucket : b # sbucket => lock'[b] = lock[b]
      BY <1>0, <1>1, <1>5 DEF SLock, IsFree
    <2>3. Walkers'
      <3>1. spc' = "scan" /\ sbucket' = sbucket /\ stodo' = chain[sbucket]
        BY <1>5 DEF SLock
      <3>2. \A t \in Ticker : tpc[t] = "scan" => tbucket[t] \in Bucket /\ tbucket[t] # sbucket
        BY <1>0, <1>1, <2>2, Threads DEF Walkers, TypeOK, TimerTypes
      <3> QED
        BY <1>1, <1>2, <2>1, <2>2, <3>1, <3>2 DEF Walkers, timerT
    <2>4. InBucket'
      BY <1>0, <1>1, <2>1, KeepBucket
    <2>5. PacketLock'
      BY <1>0, <1>1, <1>2, <2>2, Threads, KeepPacketLock
    <2> QED
      BY <1>1, <1>2, <1>3, <2>1, <2>3, <2>4, <2>5, KeepPlaces DEF Owned, Places
  <1>6. ASSUME NEW f \in Flows, SVisit(f), ~Expired(f, stimeout) PROVE Owned'
    <2>1. UNCHANGED <<chain, lock, fq, spc, sflow, sbucket>> /\ stodo' \subseteq stodo
      BY <1>6 DEF SVisit
    <2>2. Walkers'
      BY <1>1, <1>2, <2>1 DEF Walkers, timerT
    <2>3. InBucket' /\ PacketLock'
      BY <1>0, <1>1, <1>2, <2>1, KeepBucket, KeepPacketLock
    <2> QED
      BY <1>1, <1>2, <1>3, <2>1, <2>2, <2>3, KeepPlaces DEF Owned, Places
  <1>7. ASSUME NEW f \in Flows, SVisit(f), Expired(f, stimeout) PROVE Owned'
    <2>1. /\ chain' = Unlink(sbucket, f) /\ UNCHANGED <<lock, fq, sbucket>>
          /\ spc = "scan" /\ spc' = "cnt" /\ sflow' = f
          /\ f \in stodo /\ stodo' = stodo \ {f}
      BY <1>7 DEF SVisit
    <2>2. f \in chain[sbucket] /\ lock[sbucket] = "scrub"
      BY <1>1, <2>1 DEF Walkers
    <2>3. /\ f \in Linked /\ Linked' = Linked \ {f}
          /\ \A c \in Bucket : chain'[c] = IF c = sbucket THEN chain[sbucket] \ {f}
                                         ELSE chain[c]
      BY <1>0, <1>1, <2>1, <2>2, UnlinkPlaces
    <2>4. SHolds = {} /\ SHolds' = {f}
      BY <2>1 DEF SHolds
    <2>5. Walkers'
      <3>1. stodo' \subseteq chain'[sbucket]
        BY <1>0, <1>1, <2>1, <2>3 DEF Walkers
      <3>2. \A t \in Ticker : tpc[t] = "scan" => tbucket[t] \in Bucket /\ tbucket[t] # sbucket
        BY <1>0, <1>1, <2>2, Threads DEF Walkers, TypeOK, TimerTypes
      <3> QED
        BY <1>1, <1>2, <2>1, <2>2, <2>3, <3>1, <3>2 DEF Walkers, timerT
    <2>6. InBucket' /\ PacketLock'
      BY <1>0, <1>1, <1>2, <2>1, <2>3, KeepBucket, KeepPacketLock
    <2>7. Places'
      BY <1>1, <1>2, <1>3, <2>1, <2>3, <2>4, KeepPlaces DEF Places, Parts
    <2> QED
      BY <1>1, <2>1, <2>5, <2>6, <2>7, KeepPlaces DEF Owned
  <1>8. CASE SClose
    <2>1. /\ UNCHANGED <<chain, lock, sbucket, stodo>> /\ fq' = Append(fq, sflow)
          /\ spc = "cnt" /\ spc' = "scan"
          /\ SHolds = {sflow} /\ SHolds' = {} /\ sflow \in Flows
      BY <1>0, <1>8 DEF SClose, SHolds, Locals
    <2>2. sflow \notin InQueue
      BY <1>1, <2>1 DEF Places, Parts
    <2>3. InQueue' = InQueue \cup {sflow} /\ QueuedOnce'
      BY <1>1, <2>1, <2>2, EnqPlaces
    <2>4. Walkers'
      BY <1>1, <1>2, <2>1 DEF Walkers, timerT
    <2>5. InBucket' /\ PacketLock'
      BY <1>0, <1>1, <1>2, <2>1, KeepBucket, KeepPacketLock
    <2>6. Places'
      BY <1>1, <1>2, <1>3, <2>1, <2>3, KeepPlaces DEF Places, Parts
    <2> QED
      BY <2>3, <2>4, <2>5, <2>6 DEF Owned
  <1>9. CASE SUnlock
    <2>1. UNCHANGED <<chain, fq>> /\ SHolds' = SHolds
      BY <1>9 DEF SUnlock, SHolds, AfterScan
    <2>2. /\ lock[sbucket] = "scrub"
          /\ \A b \in Bucket : b # sbucket => lock'[b] = lock[b]
      BY <1>0, <1>1, <1>9 DEF SUnlock, Unlock, Walkers
    <2>3. Walkers'
      <3>1. spc' \notin {"scan", "cnt"}
        BY <1>9 DEF SUnlock, AfterScan
      <3>2. \A t \in Ticker : tpc[t] = "scan" => tbucket[t] \in Bucket /\ tbucket[t] # sbucket
        BY <1>0, <1>1, <2>2, Threads DEF Walkers, TypeOK, TimerTypes
      <3> QED
        BY <1>1, <1>2, <2>1, <2>2, <3>1, <3>2 DEF Walkers, timerT
    <2>4. InBucket'
      BY <1>0, <1>1, <2>1, KeepBucket
    <2>5. PacketLock'
      BY <1>0, <1>1, <1>2, <2>2, Threads, KeepPacketLock
    <2> QED
      BY <1>1, <1>2, <1>3, <2>1, <2>3, <2>4, <2>5, KeepPlaces DEF Owned, Places
  <1> QED
    BY <1>4, <1>5, <1>6, <1>7, <1>8, <1>9 DEF Scrubber

\* A timer callback moves no flow, and locks free buckets only.
LEMMA TimerOwned ==
    ASSUME IInv, NEW t \in Ticker, Timer(t)
    PROVE  Owned'
  <1>0. TypeOK /\ Locals /\ SameSockets /\ TableTypes /\ TimerTypes /\ tbucket[t] \in Bucket
    BY TimerStepTypes DEF IInv, TypeOK, TimerTypes
  <1>1. /\ Places /\ InBucket /\ QueuedOnce /\ PacketLock /\ Walkers
        /\ lock \in [Bucket -> Thread \cup {None}]
    BY <1>0 DEF IInv, Owned, TableTypes
  <1>2. UNCHANGED <<alloc, chain, fq, packetT, flowT, scrubT>>
    BY DEF Timer, TFire, TLock, TVisit, TUnlock, table
  <1>3. Places' /\ QueuedOnce' /\ InBucket'
    <2>1. Places' /\ QueuedOnce'
      BY <1>1, <1>2, KeepPlaces DEF Places, packetT, flowT, scrubT
    <2> QED
      BY <1>0, <1>1, <1>2, <2>1, KeepBucket
  <1>4. sbucket \in Bucket /\ \A u \in Ticker : tbucket[u] \in Bucket
    BY <1>0 DEF TypeOK, ScrubTypes, TimerTypes
  <1>5. CASE TFire(t) \/ \E f \in Flows : TVisit(t, f)
    <2>1. lock' = lock
      BY <1>5 DEF TFire, TVisit, table
    <2>2. Walkers'
      <3>1. \A u \in Ticker : tpc'[u] = "scan" =>
              tpc[u] = "scan" /\ tbucket'[u] = tbucket[u] /\ ttodo'[u] \subseteq ttodo[u]
        BY <1>0, <1>5 DEF TFire, TVisit, TimerTypes
      <3> QED
        BY <1>1, <1>2, <2>1, <3>1 DEF Walkers, scrubT
    <2> QED
      BY <1>0, <1>1, <1>2, <1>3, <2>1, <2>2, KeepPacketLock DEF Owned
  <1>6. CASE TLock(t)
    <2>1. /\ lock[tbucket[t]] = None /\ lock'[tbucket[t]] = t
          /\ \A b \in Bucket : b # tbucket[t] => lock'[b] = lock[b]
      BY <1>0, <1>1, <1>6 DEF TLock, IsFree
    <2>2. /\ tpc'[t] = "scan" /\ tbucket' = tbucket /\ ttodo'[t] = chain[tbucket[t]]
          /\ \A u \in Ticker : u # t => tpc'[u] = tpc[u] /\ ttodo'[u] = ttodo[u]
      BY <1>0, <1>6 DEF TLock, TimerTypes
    <2>3. Walkers'
      <3>1. spc \in {"scan", "cnt"} => sbucket # tbucket[t]
        BY <1>1, <2>1, Threads DEF Walkers
      <3>2. \A u \in Ticker : u # t /\ tpc[u] = "scan" => tbucket[u] # tbucket[t]
        BY <1>1, <2>1, Threads DEF Walkers
      <3>3. spc \in {"scan", "cnt"} =>
              lock'[sbucket] = "scrub" /\ stodo \subseteq chain[sbucket]
        BY <1>1, <1>4, <2>1, <3>1 DEF Walkers
      <3>4. \A u \in Ticker : tpc'[u] = "scan" =>
              lock'[tbucket[u]] = u /\ ttodo'[u] \subseteq chain[tbucket[u]]
        BY <1>1, <1>4, <2>1, <2>2, <3>2 DEF Walkers
      <3> QED
        BY <1>2, <2>2, <3>3, <3>4 DEF Walkers, scrubT
    <2>4. PacketLock'
      BY <1>0, <1>1, <1>2, <2>1, Threads, KeepPacketLock
    <2> QED
      BY <1>3, <2>3, <2>4 DEF Owned
  <1>7. CASE TUnlock(t)
    <2>1. /\ lock[tbucket[t]] = t
          /\ \A b \in Bucket : b # tbucket[t] => lock'[b] = lock[b]
      BY <1>0, <1>1, <1>7 DEF TUnlock, Unlock, Walkers
    <2>2. /\ tpc'[t] # "scan" /\ ttodo' = ttodo
          /\ \A u \in Ticker : u # t => tpc'[u] = tpc[u] /\ tbucket'[u] = tbucket[u]
      BY <1>0, <1>7 DEF TUnlock, TimerTypes
    <2>3. Walkers'
      <3>1. spc \in {"scan", "cnt"} => sbucket # tbucket[t]
        BY <1>1, <2>1, Threads DEF Walkers
      <3>2. \A u \in Ticker : u # t /\ tpc[u] = "scan" => tbucket[u] # tbucket[t]
        BY <1>1, <2>1, Threads DEF Walkers
      <3>3. spc \in {"scan", "cnt"} =>
              lock'[sbucket] = "scrub" /\ stodo \subseteq chain[sbucket]
        BY <1>1, <1>4, <2>1, <3>1 DEF Walkers
      <3>4. \A u \in Ticker : tpc'[u] = "scan" =>
              lock'[tbucket'[u]] = u /\ ttodo'[u] \subseteq chain[tbucket'[u]]
        BY <1>1, <1>4, <2>1, <2>2, <3>2 DEF Walkers
      <3> QED
        BY <1>2, <3>3, <3>4 DEF Walkers, scrubT
    <2>4. PacketLock'
      BY <1>0, <1>1, <1>2, <2>1, Threads, KeepPacketLock
    <2> QED
      BY <1>3, <2>3, <2>4 DEF Owned
  <1> QED
    BY <1>5, <1>6, <1>7 DEF Timer

\* The end of the analysis, and time, move no flow.
LEMMA EnvironmentOwned ==
    ASSUME IInv, Stop \/ TimerDelete \/ Tick
    PROVE  Owned'
  <1>0. TypeOK /\ Locals /\ SameSockets /\ TableTypes
    BY EnvironmentTypes DEF IInv, TypeOK
  <1>1. UNCHANGED <<alloc, chain, lock, fq, packetT, flowT, scrubT, timerT>>
    BY DEF Stop, TimerDelete, Tick, table
  <1>2. Places' /\ QueuedOnce'
    BY <1>1, KeepPlaces DEF IInv, Owned, Places, packetT, flowT, scrubT
  <1>3. InBucket' /\ PacketLock'
    BY <1>0, <1>1, KeepBucket, KeepPacketLock DEF IInv, Owned
  <1>4. Walkers'
    BY <1>0, <1>1, KeepWalkers DEF IInv, Owned, scrubT
  <1> QED
    BY <1>2, <1>3, <1>4 DEF Owned

\* create links a new flow into the bucket of its socket.
LEMMA CreateOwned ==
    ASSUME IInv, PCreate
    PROVE  Owned'
  <1> DEFINE s == IF psrc THEN pkt.socket ELSE Reverse(pkt.socket)
  <1>0. /\ TypeOK /\ Locals /\ TableTypes /\ \A g \in alloc : flow'[g].socket = flow[g].socket
        /\ Places /\ InBucket /\ QueuedOnce /\ PacketLock /\ Walkers
    BY CreateTypes DEF IInv, Owned, TypeOK
  <1>1. s \in Socket /\ Hash[s] \in Bucket
    BY <1>0, PacketFacts DEF Locals, PCreate, PWorks
  <1> HIDE DEF s
  <1>2. PICK f \in Flows \ alloc, w \in {{}, BOOLEAN}, a \in {0, MaxAge} :
          /\ alloc' = alloc \cup {f}
          /\ flow' = [flow EXCEPT ![f] = NewFlow(s, w, a)]
          /\ chain' = [chain EXCEPT ![Hash[s]] = @ \cup {f}]
          /\ pflow' = f
    BY DEF PCreate, s
  <1>3. /\ lock[Hash[s]] = None /\ lock' = [lock EXCEPT ![Hash[s]] = "packet"]
        /\ ppc = "create" /\ ppc' = "createCnt"
        /\ UNCHANGED <<fq, flowT, scrubT, timerT>>
    BY DEF PCreate, s, IsFree
  <1>4. flow'[f].socket = s
    BY <1>0, <1>2 DEF TableTypes, NewFlow
  <1>5. \A b \in Bucket : chain'[b] = IF b = Hash[s] THEN chain[b] \cup {f} ELSE chain[b]
    BY <1>0, <1>1, <1>2 DEF TableTypes
  <1>6. Linked' = Linked \cup {f}
    <2>1. ASSUME NEW g \in Linked' PROVE g \in Linked \cup {f}
      <3>1. PICK b \in Bucket : g \in chain'[b]
        BY DEF Linked
      <3>2. g \in chain[b] \cup {f}
        BY <1>5, <3>1
      <3> QED
        BY <3>2 DEF Linked
    <2>2. ASSUME NEW g \in Linked PROVE g \in Linked'
      <3>1. PICK b \in Bucket : g \in chain[b]
        BY DEF Linked
      <3>2. g \in chain'[b]
        BY <1>5, <3>1
      <3> QED
        BY <3>2 DEF Linked
    <2>3. f \in Linked'
      BY <1>1, <1>5 DEF Linked
    <2> QED
      BY <2>1, <2>2, <2>3
  <1>7. PHolds = {} /\ PHolds' = {}
    BY <1>3 DEF PHolds
  <1>8. Places' /\ QueuedOnce'
    <2>1. InQueue' = InQueue /\ SHolds' = SHolds /\ FHolds' = FHolds /\ QueuedOnce'
      BY <1>0, <1>3, KeepPlaces DEF flowT, scrubT
    <2> QED
      BY <1>0, <1>2, <1>6, <1>7, <2>1 DEF Places, Parts
  <1>9. InBucket'
    <2>1. \A b \in Bucket : \A g \in chain[b] : g \in alloc
      BY <1>0 DEF Places, Parts, Linked
    <2>2. ASSUME NEW b \in Bucket, NEW g \in chain'[b] PROVE Hash[flow'[g].socket] = b
      <3>1. CASE g \in chain[b]
        BY <1>0, <2>1, <3>1 DEF InBucket, Hmb
      <3>2. CASE g = f /\ b = Hash[s]
        BY <1>4, <3>2
      <3> QED
        BY <1>5, <2>2, <3>1, <3>2
    <2> QED
      BY <2>2 DEF InBucket, Hmb
  <1>10. PacketLock'
    BY <1>0, <1>1, <1>2, <1>3, <1>4 DEF PacketLock, Hmb, TableTypes
  <1>11. Walkers'
    <2>1. \A b \in Bucket : \/ lock[b] \in {None, "packet"}
                            \/ lock'[b] = lock[b] /\ chain[b] \subseteq chain'[b]
      BY <1>0, <1>3, <1>5 DEF TableTypes
    <2> QED
      BY <1>0, <1>3, <2>1, KeepWalkers DEF scrubT
  <1> QED
    BY <1>8, <1>9, <1>10, <1>11 DEF Owned

\* The packet thread, except for create
LEMMA PacketThreadOwned ==
    ASSUME IInv, PacketThread, ~PCreate
    PROVE  Owned'
  <1>0. /\ TypeOK /\ Locals /\ SameSockets /\ TableTypes
        /\ Places /\ InBucket /\ QueuedOnce /\ PacketLock /\ Walkers
        /\ flow \in [Flows -> FlowRecord] /\ fq \in Seq(Flows)
        /\ lock \in [Bucket -> Thread \cup {None}]
    BY PacketThreadTypes DEF IInv, Owned, TypeOK, TableTypes
  <1>1. UNCHANGED <<flowT, scrubT, timerT>>
    BY DEF PacketThread, PLoop, PIdle, PDeq, PFindRev, PFindFwd, PCreateCnt, PAddStale,
           PRemoveAgain, PRemove, PDrop, PDropFails, PClose, PUnlock,
           PUnlockFails, PResetFails, PSyn, POther, Fail
  <1>2. SHolds' = SHolds /\ FHolds' = FHolds
    BY <1>1, KeepPlaces DEF flowT, scrubT
  \* Steps that neither lock or unlock a bucket nor move a flow
  <1>3. ASSUME UNCHANGED <<alloc, chain, lock, fq>>,
               PHolds' = PHolds,
               ppc' \in PLocked => ppc' = ppc /\ pflow' = pflow
        PROVE  Owned'
    <2>1. Places' /\ QueuedOnce'
      BY <1>0, <1>2, <1>3, KeepPlaces DEF Places
    <2>2. InBucket'
      BY <1>0, <1>3, KeepBucket
    <2>3. Walkers'
      BY <1>0, <1>1, <1>3, KeepWalkers DEF scrubT
    <2>4. PacketLock'
      <3>1. ASSUME ppc' \in PLocked PROVE lock'[Hash[flow'[pflow'].socket]] = "packet"
        <4>1. ppc \in PLocked /\ pflow' = pflow /\ pflow \in Flows
          BY <1>0, <1>3, <3>1 DEF Locals, PLocked, PHasFlow
        <4> QED
          BY <1>0, <1>3, <4>1 DEF PacketLock, Hmb, SameSockets
      <3> QED
        BY <3>1 DEF PacketLock, Hmb
    <2> QED
      BY <2>1, <2>2, <2>3, <2>4 DEF Owned
  <1>4. CASE PLoop \/ PIdle \/ (\E p \in Packets : PDeq(p)) \/ PFindRev \/ PFindFwd
    BY <1>3, <1>4 DEF PLoop, PIdle, PDeq, PFindRev, PFindFwd, PReturn, table, PHolds, PLocked
  <1>5. CASE PAddStale \/ PRemoveAgain \/ PDropFails \/ PUnlockFails \/ PResetFails
    BY <1>3, <1>5 DEF PAddStale, PRemoveAgain, PDropFails, PUnlockFails,
                      PResetFails, Fail, table, packetT, PHolds
  <1>6. CASE PSyn \/ POther
    BY <1>3, <1>6 DEF PSyn, POther, EnterAdd, PReturn, PHolds, PLocked
  \* Steps that unlock the bucket of pflow
  <1>7. ASSUME ppc \in PLocked, ppc' \notin PLocked, UNCHANGED chain,
               lock' = Unlock(Hmb(pflow))
        PROVE  InBucket' /\ PacketLock' /\ Walkers'
    <2>1. pflow \in Flows /\ Hmb(pflow) \in Bucket /\ lock[Hmb(pflow)] = "packet"
      BY <1>0, <1>7, HmbFacts DEF Locals, PLocked, PHasFlow, PacketLock
    <2>2. \A b \in Bucket : lock[b] \in {None, "packet"} \/ lock'[b] = lock[b]
      BY <1>0, <1>7, <2>1 DEF Unlock
    <2>3. Walkers'
      BY <1>0, <1>1, <1>7, <2>2, KeepWalkers DEF scrubT
    <2> QED
      BY <1>0, <1>7, <2>3, KeepBucket DEF PacketLock
  <1>8. CASE PCreateCnt
    <2>1. UNCHANGED <<alloc, chain, fq>> /\ PHolds' = PHolds
      BY <1>8 DEF PCreateCnt, PHolds
    <2>2. InBucket' /\ PacketLock' /\ Walkers'
      BY <1>7, <1>8 DEF PCreateCnt, PLocked
    <2> QED
      BY <1>0, <1>2, <2>1, <2>2, KeepPlaces DEF Owned, Places
  <1>9. CASE PRemove
    <2>1. /\ chain' = Unlink(Hmb(pflow), pflow) /\ pflow \in chain[Hmb(pflow)]
          /\ lock[Hmb(pflow)] = None /\ lock' = [lock EXCEPT ![Hmb(pflow)] = "packet"]
          /\ ppc = "add" /\ ppc' \in {"dropCnt", "closeCnt"} /\ pflow' = pflow
          /\ UNCHANGED <<alloc, fq>>
      BY <1>9 DEF PRemove, EnterAdd, IsFree
    <2>2. pflow \in Flows /\ Hmb(pflow) \in Bucket
      BY <1>0, <2>1, HmbFacts DEF Locals, PHasFlow
    <2>3. /\ pflow \in Linked /\ Linked' = Linked \ {pflow}
          /\ \A c \in Bucket : chain'[c] = IF c = Hmb(pflow) THEN chain[Hmb(pflow)] \ {pflow}
                                         ELSE chain[c]
      BY <1>0, <2>1, <2>2, UnlinkPlaces
    <2>4. PHolds = {} /\ PHolds' = {pflow}
      BY <2>1 DEF PHolds
    <2>5. Places' /\ QueuedOnce'
      <3>1. InQueue' = InQueue /\ QueuedOnce'
        BY <1>0, <2>1, KeepPlaces
      <3> QED
        BY <1>0, <1>2, <2>1, <2>3, <2>4, <3>1 DEF Places, Parts
    <2>6. InBucket'
      BY <1>0, <2>3, KeepBucket
    <2>7. PacketLock'
      <3>1. Hash[flow'[pflow'].socket] = Hmb(pflow)
        BY <1>0, <2>1, <2>2 DEF Hmb, SameSockets
      <3> QED
        BY <1>0, <2>1, <2>2, <3>1 DEF PacketLock, Hmb
    <2>8. Walkers'
      <3>1. \A b \in Bucket : \/ lock[b] \in {None, "packet"}
                              \/ lock'[b] = lock[b] /\ chain[b] \subseteq chain'[b]
        BY <1>0, <2>1, <2>2, <2>3
      <3> QED
        BY <1>0, <1>1, <3>1, KeepWalkers DEF scrubT
    <2> QED
      BY <2>5, <2>6, <2>7, <2>8 DEF Owned
  <1>10. CASE PDrop
    <2>1. /\ alloc' = alloc \ {pflow} /\ PHolds = {pflow} /\ PHolds' = {}
          /\ UNCHANGED <<chain, fq>>
      BY <1>10 DEF PDrop, DeleteFlow, PReturn, PHolds
    <2>2. InBucket' /\ PacketLock' /\ Walkers'
      BY <1>7, <1>10 DEF PDrop, PReturn, PLocked
    <2>3. Places' /\ QueuedOnce'
      <3>1. InQueue' = InQueue /\ QueuedOnce' /\ Linked' = Linked
        BY <1>0, <2>1, KeepPlaces
      <3> QED
        BY <1>0, <1>2, <2>1, <3>1 DEF Places, Parts
    <2> QED
      BY <2>2, <2>3 DEF Owned
  <1>11. CASE PClose
    <2>1. /\ UNCHANGED <<alloc, chain, lock, pflow>> /\ fq' = Append(fq, pflow)
          /\ ppc = "closeCnt" /\ ppc' = "unlock"
          /\ PHolds = {pflow} /\ PHolds' = {} /\ pflow \in Flows
      BY <1>0, <1>11 DEF PClose, PHolds, Locals, PHasFlow
    <2>2. pflow \notin InQueue
      BY <1>0, <2>1 DEF Places, Parts
    <2>3. InQueue' = InQueue \cup {pflow} /\ QueuedOnce'
      BY <1>0, <2>1, <2>2, EnqPlaces
    <2>4. Places'
      BY <1>0, <1>2, <2>1, <2>3, KeepPlaces DEF Places, Parts
    <2>5. InBucket' /\ Walkers'
      BY <1>0, <1>1, <2>1, KeepBucket, KeepWalkers DEF scrubT
    <2>6. PacketLock'
      BY <1>0, <2>1 DEF PacketLock, PLocked, Hmb, SameSockets
    <2> QED
      BY <2>3, <2>4, <2>5, <2>6 DEF Owned
  <1>12. CASE PUnlock
    <2>1. UNCHANGED <<alloc, chain, fq>> /\ PHolds' = PHolds
      BY <1>12 DEF PUnlock, PReturn, PHolds
    <2>2. InBucket' /\ PacketLock' /\ Walkers'
      BY <1>7, <1>12 DEF PUnlock, PReturn, PLocked
    <2> QED
      BY <1>0, <1>2, <2>1, <2>2, KeepPlaces DEF Owned, Places
  <1> QED
    BY <1>4, <1>5, <1>6, <1>8, <1>9, <1>10, <1>11, <1>12 DEF PacketThread

\* The invariant holds initially.
LEMMA InitIInv == Init => IInv
  <1> SUFFICES ASSUME Init PROVE IInv
    OBVIOUS
  <1>1. TypeOK /\ Locals
    BY InitTypes
  <1>2. Linked = {} /\ InQueue = {} /\ PHolds = {} /\ SHolds = {} /\ FHolds = {}
    BY DEF Init, Linked, InQueue, PHolds, SHolds, FHolds
  <1>3. Places /\ QueuedOnce /\ InBucket
    BY <1>2 DEF Init, Places, Parts, QueuedOnce, InBucket
  <1>4. PacketLock /\ Walkers
    BY DEF Init, PacketLock, PLocked, Walkers
  <1> QED
    BY <1>1, <1>3, <1>4 DEF IInv, Owned

\* Every step keeps the invariant.
LEMMA NextIInv == ASSUME IInv, [Next]_vars PROVE IInv'
  <1>1. TypeOK' /\ Locals'
    BY NextTypes DEF IInv
  <1>2. CASE PacketThread
    BY <1>1, <1>2, CreateOwned, PacketThreadOwned DEF IInv
  <1>3. CASE FlowThread \/ Scrubber
    BY <1>1, <1>3, FlowThreadOwned, ScrubberOwned DEF IInv
  <1>4. ASSUME NEW t \in Ticker, Timer(t) PROVE IInv'
    BY <1>1, <1>4, TimerOwned DEF IInv
  <1>5. CASE Stop \/ TimerDelete \/ Tick
    BY <1>1, <1>5, EnvironmentOwned DEF IInv
  <1>6. CASE UNCHANGED vars
    <2>1. /\ TypeOK /\ Locals /\ SameSockets /\ TableTypes
          /\ UNCHANGED <<alloc, chain, lock, fq, packetT, flowT, scrubT, timerT>>
      BY <1>6 DEF IInv, TypeOK, vars, table, SameSockets
    <2>2. Places' /\ QueuedOnce'
      BY <2>1, KeepPlaces DEF IInv, Owned, Places, packetT, flowT, scrubT
    <2>3. InBucket' /\ PacketLock'
      BY <2>1, KeepBucket, KeepPacketLock DEF IInv, Owned
    <2>4. Walkers'
      BY <2>1, KeepWalkers DEF IInv, Owned, scrubT
    <2> QED
      BY <1>1, <2>2, <2>3, <2>4 DEF IInv, Owned
  <1> QED
    BY <1>2, <1>3, <1>4, <1>5, <1>6 DEF Next, Step, Halted

\* A Flow object has one owner at any time, whatever the threads do: it is in
\* the bucket of its socket, once in fq, or in the hands of the thread that
\* removed it.  No flow is lost, queued twice or deleted while it is linked.
THEOREM FlowsHaveOneOwner == Spec => []OneOwner
  <1>1. IInv => OneOwner
    BY OneOwnerParts DEF IInv, Owned
  <1> QED
    BY <1>1, InitIInv, NextIInv, PTL DEF Spec

\* flow_scrubber and flowHashProcess walk over live, linked flows only.
THEOREM WalkersAreSafe == Spec => []WalkersSeeLiveFlows
  <1>1. IInv => WalkersSeeLiveFlows
    <2> SUFFICES ASSUME IInv PROVE WalkersSeeLiveFlows
      OBVIOUS
    <2>1. \A b \in Bucket : chain[b] \subseteq alloc
      BY DEF IInv, Owned, Places, Parts, Linked
    <2> QED
      BY <2>1 DEF IInv, Owned, TypeOK, ScrubTypes, TimerTypes, Walkers,
                  WalkersSeeLiveFlows
  <1> QED
    BY <1>1, InitIInv, NextIInv, PTL DEF Spec

-----------------------------------------------------------------------------
(***************************************************************************)
(* What the ownership of flows is good for, for any number of flows,       *)
(* buckets, timer callbacks and packets: a connection has one flow in the  *)
(* table, a flow in the table has no FIN, a flow is announced once, and    *)
(* the table with its threads implements FlowLife.                         *)
(***************************************************************************)
\* processed remembers that newFlowReceived has been notified, which happens
\* for flows that pass the filters
Accounted(r) == /\ r.announced = IF r.processed THEN 1 ELSE 0
                /\ r.processed => r.socket \in Selected

FlowsAccounted == \A f \in Flows : Accounted(flow[f])

\* The flow thread has extracted the data of the flow that it deletes
ExtractedFirst ==
    fpc = "delete" /\ flow[fflow].socket \in Selected => flow[fflow].processed

\* The table has no flow for the socket
Unknown(s) == \A f \in Linked : flow[f].socket # s

\* What the packet thread has looked up stays true until it creates: no other
\* thread links a flow
LookedUp ==
    /\ ppc \in {"findFwd", "create"} => Unknown(Reverse(pkt.socket))
    /\ ppc = "create" => Unknown(pkt.socket)

\* The inductive invariant, together with that of the ownership
FInv == /\ IInv /\ FlowsAccounted /\ ExtractedFirst
        /\ NoFinInTable /\ LookedUp /\ OneFlowPerConnection

\* What the metrics are told of a flow depends on these members only
Calm(r, q) == /\ q.socket = r.socket /\ q.processed = r.processed
              /\ q.announced = r.announced

-----------------------------------------------------------------------------
(***************************************************************************)
(* What a step does to the flows                                           *)
(***************************************************************************)

\* hook_packet leaves the account of a flow and its FINs alone.
LEMMA HookCalm ==
    ASSUME NEW r \in FlowRecord, NEW s \in BOOLEAN
    PROVE  Calm(r, HookPacket(r, s)) /\ HookPacket(r, s).fins = r.fins
  <1> DEFINE h == r.hooked + 1
             w == r.wild \ {s}
  <1>1. HookPacket(r, s) = [r EXCEPT !.hooked = h, !.wild = w]
    BY Zenon DEF HookPacket
  <1> HIDE DEF h, w
  <1>2. /\ Calm(r, [r EXCEPT !.hooked = h, !.wild = w])
        /\ [r EXCEPT !.hooked = h, !.wild = w].fins = r.fins
    BY DEF FlowRecord, Calm
  <1> QED
    BY <1>1, <1>2, Zenon

\* cal_packet does too, except that a FIN is added to fins.
LEMMA CalCalm ==
    ASSUME NEW r \in FlowRecord, NEW p, NEW s \in BOOLEAN
    PROVE  /\ Calm(r, CalPacket(r, p, s))
           /\ p.flags # "FIN" => CalPacket(r, p, s).fins = r.fins
  <1> DEFINE v == IF s THEN Minimum(r.pkts_src + 1, MinSrcPkts) ELSE r.pkts_src
             w == IF p.flags = "FIN" THEN r.fins \cup {s} ELSE r.fins
  <1>1. CalPacket(r, p, s) = [r EXCEPT !.pkts_src = v, !.age = 0, !.fins = w]
    BY Zenon DEF CalPacket
  <1>2. p.flags # "FIN" => w = r.fins
    OBVIOUS
  <1> HIDE DEF v, w
  <1>3. /\ Calm(r, [r EXCEPT !.pkts_src = v, !.age = 0, !.fins = w])
        /\ [r EXCEPT !.pkts_src = v, !.age = 0, !.fins = w].fins = w
    BY DEF FlowRecord, Calm
  <1> QED
    BY <1>1, <1>2, <1>3, Zenon

\* reset forgets the FINs and nothing else of the account.
LEMMA ResetCalm ==
    ASSUME NEW r \in FlowRecord
    PROVE  Calm(r, ResetFlow(r)) /\ ResetFlow(r).fins = {}
  BY DEF FlowRecord, Calm, ResetFlow

\* The filters' verdict and the account after extractData.
LEMMA ExtractAccount ==
    ASSUME NEW r \in FlowRecord, Accounted(r)
    PROVE  /\ Accounted(Extract(r)) /\ Extract(r).fins = r.fins
           /\ Extract(r).socket = r.socket
           /\ r.socket \in Selected => Extract(r).processed
           /\ r.announced > 0 => Extract(r) = r
           /\ r.announced = 0 /\ r.socket \notin Selected => Extract(r) = r
           /\ r.announced = 0 /\ r.socket \in Selected => Extract(r).announced = 1
  <1>1. CASE r.socket \in Selected /\ ~r.processed
    <2>1. Extract(r) = [r EXCEPT !.processed = TRUE, !.announced = r.announced + 1]
      BY <1>1, Zenon DEF Extract
    <2>2. r.announced = 0
      BY <1>1 DEF Accounted
    <2> DEFINE q == [r EXCEPT !.processed = TRUE, !.announced = r.announced + 1]
    <2>3. /\ q.processed = TRUE /\ q.announced = 1 /\ q.fins = r.fins
          /\ q.socket = r.socket
      BY <2>2 DEF FlowRecord
    <2> QED
      BY <1>1, <2>1, <2>2, <2>3 DEF Accounted
  <1>2. CASE ~(r.socket \in Selected /\ ~r.processed)
    <2>1. Extract(r) = r
      BY <1>2, Zenon DEF Extract
    <2> QED
      BY <1>2, <2>1 DEF Accounted
  <1> QED
    BY <1>1, <1>2

\* create links one new flow, and neither of the two sockets of its
\* connection is changed.
LEMMA CreateEffect ==
    ASSUME IInv, PCreate
    PROVE  \E f \in Flows \ alloc :
             /\ alloc' = alloc \cup {f} /\ Linked' = Linked \cup {f}
             /\ flow'[f].socket \in {pkt.socket, Reverse(pkt.socket)}
             /\ flow'[f].fins = {} /\ flow'[f].processed = FALSE
             /\ flow'[f].announced = 0
             /\ \A g \in Flows : g # f => flow'[g] = flow[g]
             /\ pflow' = f
  <1> DEFINE s == IF psrc THEN pkt.socket ELSE Reverse(pkt.socket)
  <1>1. /\ TableTypes /\ s \in Socket /\ Hash[s] \in Bucket
        /\ s \in {pkt.socket, Reverse(pkt.socket)}
    BY PacketFacts DEF IInv, TypeOK, Locals, PCreate, PWorks
  <1> HIDE DEF s
  <1>2. PICK f \in Flows \ alloc, w \in {{}, BOOLEAN}, a \in {0, MaxAge} :
          /\ alloc' = alloc \cup {f}
          /\ flow' = [flow EXCEPT ![f] = NewFlow(s, w, a)]
          /\ chain' = [chain EXCEPT ![Hash[s]] = @ \cup {f}]
          /\ pflow' = f
    BY DEF PCreate, s
  <1>3. /\ flow'[f] = NewFlow(s, w, a)
        /\ \A g \in Flows : g # f => flow'[g] = flow[g]
    BY <1>1, <1>2 DEF TableTypes
  <1>4. \A b \in Bucket : chain'[b] = IF b = Hash[s] THEN chain[b] \cup {f} ELSE chain[b]
    BY <1>1, <1>2 DEF TableTypes
  <1>5. Linked' = Linked \cup {f}
    <2>1. ASSUME NEW g \in Linked' PROVE g \in Linked \cup {f}
      <3>1. PICK b \in Bucket : g \in chain'[b]
        BY DEF Linked
      <3>2. g \in chain[b] \cup {f}
        BY <1>4, <3>1
      <3> QED
        BY <3>2 DEF Linked
    <2>2. ASSUME NEW g \in Linked PROVE g \in Linked'
      <3>1. PICK b \in Bucket : g \in chain[b]
        BY DEF Linked
      <3>2. g \in chain'[b]
        BY <1>4, <3>1
      <3> QED
        BY <3>2 DEF Linked
    <2>3. f \in Linked'
      BY <1>1, <1>4 DEF Linked
    <2> QED
      BY <2>1, <2>2, <2>3
  <1>6. /\ flow'[f].socket = s /\ flow'[f].fins = {}
        /\ flow'[f].processed = FALSE /\ flow'[f].announced = 0
    BY <1>3 DEF NewFlow
  <1> QED
    BY <1>1, <1>2, <1>3, <1>5, <1>6

\* remove takes flows out of the table only.
LEMMA LinkedShrinks ==
    ASSUME \A b \in Bucket : chain'[b] \subseteq chain[b]
    PROVE  Linked' \subseteq Linked
  BY DEF Linked

\* What changes one flow
LEMMA OneFlow ==
    ASSUME flow \in [Flows -> FlowRecord], NEW f \in Flows, NEW r,
           flow' = [flow EXCEPT ![f] = r]
    PROVE  flow'[f] = r /\ \A g \in Flows : g # f => flow'[g] = flow[g]
  OBVIOUS

\* The other steps of the packet thread leave the accounts of the flows alone
\* and link none; a FIN is entered for a flow that leaves the table.
LEMMA PacketEffect ==
    ASSUME IInv, PacketThread, ~PCreate
    PROVE  /\ Linked' \subseteq Linked
           /\ \A f \in Flows : Calm(flow[f], flow'[f])
           /\ \A f \in Linked' : flow'[f].fins \subseteq flow[f].fins
           /\ UNCHANGED flowT
  <1>0. /\ TableTypes /\ Locals /\ InBucket /\ flow \in [Flows -> FlowRecord]
        /\ \A f \in Linked : f \in Flows
    BY DEF IInv, TypeOK, TableTypes, Owned, Linked
  <1>1. UNCHANGED flowT
    BY DEF PacketThread, PLoop, PIdle, PDeq, PFindRev, PFindFwd, PCreateCnt, PAddStale,
           PRemoveAgain, PRemove, PDrop, PDropFails, PClose, PUnlock,
           PUnlockFails, PResetFails, PSyn, POther, Fail
  <1>2. ASSUME UNCHANGED <<chain, flow>>
        PROVE  /\ Linked' \subseteq Linked
               /\ \A f \in Flows : Calm(flow[f], flow'[f])
               /\ \A f \in Linked' : flow'[f].fins \subseteq flow[f].fins
    BY <1>2 DEF Linked, Calm
  <1>3. CASE PLoop \/ PIdle \/ (\E p \in Packets : PDeq(p)) \/ PFindRev \/ PFindFwd
               \/ PCreateCnt \/ PDrop \/ PClose \/ PUnlock
    BY <1>1, <1>2, <1>3 DEF PLoop, PIdle, PDeq, PFindRev, PFindFwd, PCreateCnt,
                            PDrop, PClose, PUnlock, table
  <1>4. CASE PAddStale \/ PRemoveAgain \/ PDropFails \/ PUnlockFails \/ PResetFails
    BY <1>1, <1>2, <1>4 DEF PAddStale, PRemoveAgain, PDropFails, PUnlockFails,
                            PResetFails, Fail, table
  <1>5. ASSUME NEW r \in FlowRecord, pflow \in Flows, Calm(flow[pflow], r),
               flow' = [flow EXCEPT ![pflow] = r]
        PROVE  \A f \in Flows : Calm(flow[f], flow'[f])
    BY <1>0, <1>5, OneFlow DEF Calm
  <1>6. CASE PRemove
    <2>1. /\ pflow \in Flows /\ psrc \in BOOLEAN /\ flow[pflow] \in FlowRecord
          /\ Hmb(pflow) \in Bucket /\ pflow \in chain[Hmb(pflow)]
          /\ chain' = Unlink(Hmb(pflow), pflow)
      BY <1>0, <1>6, HmbFacts DEF IInv, TypeOK, PacketTypes, Locals, PRemove,
                                  EnterAdd, PHasFlow
    <2>2. \A f \in Flows : Calm(flow[f], flow'[f])
      <3>1. CASE flow' = flow
        BY <3>1 DEF Calm
      <3>2. CASE flow' = [flow EXCEPT ![pflow] = CalPacket(flow[pflow], pkt, psrc)]
        BY <1>5, <2>1, <3>2, CalPacketFacts, CalCalm
      <3> QED
        BY <1>6, <3>1, <3>2 DEF PRemove
    <2>3. Linked' = Linked \ {pflow}
      BY <1>0, <2>1, UnlinkPlaces
    <2>4. \A f \in Flows : f # pflow => flow'[f] = flow[f]
      BY <1>0, <1>6, <2>1, OneFlow DEF PRemove
    <2>5. \A f \in Linked' : flow'[f].fins = flow[f].fins
      BY <1>0, <2>3, <2>4
    <2> QED
      BY <1>1, <2>2, <2>3, <2>5
  <1>7. CASE PSyn \/ POther
    <2>1. /\ pflow \in Flows /\ psrc \in BOOLEAN /\ flow[pflow] \in FlowRecord
          /\ UNCHANGED chain /\ pkt.flags # "FIN"
      BY <1>0, <1>7 DEF IInv, TypeOK, PacketTypes, Locals, PSyn, POther, IsClose,
                        EnterAdd, PHasFlow
    <2> DEFINE Good(r) == /\ r \in FlowRecord /\ Calm(flow[pflow], r)
                          /\ r.fins \subseteq flow[pflow].fins
               c1 == CalPacket(ResetFlow(flow[pflow]), pkt, psrc)
               c2 == CalPacket(flow[pflow], pkt, psrc)
               c3 == CalPacket(HookPacket(flow[pflow], psrc), pkt, psrc)
    <2>2. Good(c1)
      <3>1. /\ ResetFlow(flow[pflow]) \in FlowRecord
            /\ Calm(flow[pflow], ResetFlow(flow[pflow]))
            /\ ResetFlow(flow[pflow]).fins = {}
        BY <2>1, ResetFlowFacts, ResetCalm
      <3>2. /\ c1 \in FlowRecord /\ Calm(ResetFlow(flow[pflow]), c1)
            /\ c1.fins = ResetFlow(flow[pflow]).fins
        BY <2>1, <3>1, CalPacketFacts, CalCalm
      <3> HIDE DEF c1
      <3> QED
        BY <3>1, <3>2 DEF Calm
    <2>3. Good(c2)
      <3>1. c2 \in FlowRecord /\ Calm(flow[pflow], c2) /\ c2.fins = flow[pflow].fins
        BY <2>1, CalPacketFacts, CalCalm
      <3> HIDE DEF c2
      <3> QED
        BY <3>1
    <2>4. Good(c3)
      <3>1. /\ HookPacket(flow[pflow], psrc) \in FlowRecord
            /\ Calm(flow[pflow], HookPacket(flow[pflow], psrc))
            /\ HookPacket(flow[pflow], psrc).fins = flow[pflow].fins
        BY <2>1, HookPacketFacts, HookCalm
      <3>2. /\ c3 \in FlowRecord /\ Calm(HookPacket(flow[pflow], psrc), c3)
            /\ c3.fins = HookPacket(flow[pflow], psrc).fins
        BY <2>1, <3>1, CalPacketFacts, CalCalm
      <3> HIDE DEF c3
      <3> QED
        BY <3>1, <3>2 DEF Calm
    <2>5. PICK r : Good(r) /\ flow' = [flow EXCEPT ![pflow] = r]
      <3>1. CASE PSyn
        BY <2>2, <2>3, <3>1 DEF PSyn
      <3>2. CASE POther
        BY <2>3, <2>4, <3>2 DEF POther
      <3> QED
        BY <1>7, <3>1, <3>2
    <2>6. \A f \in Flows : flow'[f].fins \subseteq flow[f].fins
      BY <1>0, <2>1, <2>5, OneFlow
    <2>7. Linked' = Linked
      BY <2>1 DEF Linked
    <2> QED
      BY <1>0, <1>1, <1>5, <2>1, <2>5, <2>6, <2>7
  <1> QED
    BY <1>1, <1>3, <1>4, <1>6, <1>7 DEF PacketThread

\* A flow is as it was, as far as its account goes, or its data was extracted
Touched(r, q) == (Calm(r, q) /\ q.fins = r.fins) \/ q = Extract(r)

\* Scrubber, timer callbacks, stop and time: they extract, and link no flow.
LEMMA OthersEffect ==
    ASSUME IInv, Scrubber \/ (\E t \in Ticker : Timer(t)) \/ Stop \/ TimerDelete \/ Tick
    PROVE  /\ Linked' \subseteq Linked
           /\ \A f \in Flows : Touched(flow[f], flow'[f])
           /\ UNCHANGED <<alloc, packetT, flowT>>
  <1>0. TableTypes /\ InBucket /\ flow \in [Flows -> FlowRecord]
    BY DEF IInv, TypeOK, TableTypes, Owned
  <1>1. UNCHANGED <<alloc, packetT, flowT>>
    BY DEF Scrubber, SWake, SLock, SVisit, SClose, SUnlock, Timer, TFire, TLock,
           TVisit, TUnlock, Stop, TimerDelete, Tick, table
  <1>2. CASE Scrubber
    <2>1. UNCHANGED flow
      BY <1>2 DEF Scrubber, SWake, SLock, SVisit, SClose, SUnlock, table
    <2>2. \A b \in Bucket : chain'[b] \subseteq chain[b]
      BY <1>0, <1>2 DEF Scrubber, SWake, SLock, SVisit, SClose, SUnlock, table,
                        TableTypes, Unlink, IInv, TypeOK, ScrubTypes
    <2> QED
      BY <1>1, <2>1, <2>2, LinkedShrinks DEF Touched, Calm
  <1>3. ASSUME NEW t \in Ticker, Timer(t)
        PROVE  Linked' \subseteq Linked /\ \A f \in Flows : Touched(flow[f], flow'[f])
    <2>1. UNCHANGED chain
      BY <1>3 DEF Timer, TFire, TLock, TVisit, TUnlock, table
    <2>2. \A f \in Flows : Touched(flow[f], flow'[f])
      <3>1. CASE UNCHANGED flow
        BY <3>1 DEF Touched, Calm
      <3>2. ASSUME NEW f \in Flows, TVisit(t, f)
            PROVE  \A g \in Flows : Touched(flow[g], flow'[g])
        <4>1. flow' = [flow EXCEPT ![f] = Extract(flow[f])]
          BY <3>2 DEF TVisit
        <4> QED
          BY <1>0, <4>1, OneFlow DEF Touched, Calm
      <3> QED
        BY <1>3, <3>1, <3>2 DEF Timer, TFire, TLock, TUnlock, table
    <2> QED
      BY <2>1, <2>2 DEF Linked
  <1>4. CASE Stop \/ TimerDelete
    BY <1>1, <1>4 DEF Stop, TimerDelete, table, Linked, Touched, Calm
  <1>5. CASE Tick
    <2>1. ASSUME NEW f \in Flows PROVE Touched(flow[f], flow'[f])
      <3>1. flow[f] \in FlowRecord
        BY <1>0
      <3>2. flow'[f] = flow[f]
            \/ flow'[f] = [flow[f] EXCEPT !.age = Minimum(flow[f].age + 1, MaxAge)]
        BY <1>5, Zenon DEF Tick
      <3>3. ASSUME NEW a PROVE /\ Calm(flow[f], [flow[f] EXCEPT !.age = a])
                               /\ [flow[f] EXCEPT !.age = a].fins = flow[f].fins
        BY <3>1 DEF Calm, FlowRecord
      <3> QED
        BY <3>2, <3>3, Zenon DEF Touched, Calm
    <2>2. Linked' = Linked
      BY <1>5 DEF Tick, Linked
    <2> QED
      BY <1>1, <2>1, <2>2
  <1> QED
    BY <1>1, <1>2, <1>3, <1>4, <1>5

\* process_flow_queue extracts the data of its flow before it deletes it.
LEMMA FlowThreadEffect ==
    ASSUME IInv, FlowThread
    PROVE  /\ Linked' = Linked
           /\ \A f \in Flows : Touched(flow[f], flow'[f])
           /\ UNCHANGED packetT
           /\ fpc' = "delete" => /\ fflow \in Flows /\ fflow' = fflow
                                 /\ \/ fpc = "delete" /\ UNCHANGED flow
                                    \/ flow'[fflow] = Extract(flow[fflow])
  <1>0. Locals /\ flow \in [Flows -> FlowRecord]
    BY DEF IInv, TypeOK, TableTypes
  <1>1. UNCHANGED <<chain, packetT>>
    BY DEF FlowThread, FLoop, FDeq, FExtract, FDelete, FDeleteFails, Fail, table
  <1>2. CASE FLoop \/ FDeq \/ FDelete \/ FDeleteFails
    <2>1. UNCHANGED flow
      BY <1>2 DEF FLoop, FDeq, FDelete, FDeleteFails, Fail, table
    <2>2. fpc' = "delete" => fpc = "delete" /\ fflow' = fflow /\ fflow \in Flows
      BY <1>0, <1>2 DEF FLoop, FDeq, FDelete, FDeleteFails, Fail, flowT, Locals
    <2> QED
      BY <1>1, <2>1, <2>2 DEF Linked, Touched, Calm
  <1>3. CASE FExtract
    <2>1. /\ flow' = [flow EXCEPT ![fflow] = Extract(flow[fflow])]
          /\ fflow' = fflow /\ fflow \in Flows
      BY <1>0, <1>3 DEF FExtract, Locals
    <2>2. /\ flow'[fflow] = Extract(flow[fflow])
          /\ \A g \in Flows : g # fflow => flow'[g] = flow[g]
      BY <1>0, <2>1, OneFlow
    <2> QED
      BY <1>1, <2>1, <2>2 DEF Linked, Touched, Calm
  <1> QED
    BY <1>2, <1>3 DEF FlowThread

-----------------------------------------------------------------------------
(***************************************************************************)
(* Every step keeps the invariant                                          *)
(***************************************************************************)

\* A flow that is only touched stays accounted for and keeps its socket.
LEMMA TouchedAccount ==
    ASSUME NEW r \in FlowRecord, Accounted(r), NEW q, Touched(r, q)
    PROVE  /\ Accounted(q) /\ q.socket = r.socket /\ q.fins = r.fins
           /\ r.processed => q.processed
  <1>1. CASE Calm(r, q) /\ q.fins = r.fins
    BY <1>1 DEF Calm, Accounted
  <1>2. CASE q = Extract(r)
    <2>1. Accounted(Extract(r)) /\ Extract(r).socket = r.socket /\ Extract(r).fins = r.fins
      BY ExtractAccount
    <2>2. r.processed => Extract(r).processed
      BY ExtractAccount DEF Accounted
    <2> QED
      BY <1>2, <2>1, <2>2
  <1> QED
    BY <1>1, <1>2 DEF Touched

\* A connection keeps its one flow while no flow is linked.
LEMMA KeepOneFlow ==
    ASSUME OneFlowPerConnection, Linked' \subseteq Linked, Linked \subseteq Flows, SameSockets
    PROVE  OneFlowPerConnection' /\ \A s : Unknown(s) => Unknown(s)'
  BY DEF OneFlowPerConnection, SameSockets, Unknown

\* The table's flows are flows.
LEMMA LinkedAreFlows == ASSUME IInv PROVE Linked \subseteq Flows /\ Linked \subseteq alloc
  BY DEF IInv, TypeOK, TableTypes, Linked, Owned, Places, Parts

\* What the scrubber, the timer callbacks and the flow thread do keeps the
\* invariant.
LEMMA TouchedKeeps ==
    ASSUME FInv, IInv', Linked' \subseteq Linked,
           \A f \in Flows : Touched(flow[f], flow'[f]), UNCHANGED packetT
    PROVE  FlowsAccounted' /\ NoFinInTable' /\ LookedUp' /\ OneFlowPerConnection'
  <1>0. Linked \subseteq Flows /\ \A f \in Flows : flow[f] \in FlowRecord
    BY LinkedAreFlows DEF FInv, IInv, TypeOK, TableTypes
  <1>1. \A f \in Flows : /\ Accounted(flow'[f]) /\ flow'[f].socket = flow[f].socket
                         /\ flow'[f].fins = flow[f].fins
    BY <1>0, TouchedAccount DEF FInv, FlowsAccounted
  <1>2. FlowsAccounted'
    BY <1>1 DEF FlowsAccounted, Accounted
  <1>3. NoFinInTable'
    BY <1>0, <1>1 DEF FInv, NoFinInTable
  <1>4. OneFlowPerConnection' /\ \A s : Unknown(s) => Unknown(s)'
    BY <1>0, <1>1, KeepOneFlow DEF FInv, SameSockets
  <1>5. LookedUp'
    BY <1>4 DEF FInv, LookedUp, packetT, Unknown
  <1> QED
    BY <1>2, <1>3, <1>4, <1>5

\* find looks at all flows of the socket: they are in one bucket.
LEMMA FindNone ==
    ASSUME IInv, NEW s \in Socket, Find(s) = {}
    PROVE  Unknown(s)
  <1>1. SUFFICES ASSUME NEW f \in Linked, flow[f].socket = s PROVE FALSE
    BY DEF Unknown
  <1>2. PICK b \in Bucket : f \in chain[b]
    BY DEF Linked
  <1>3. b = Hash[s]
    BY <1>1, <1>2 DEF IInv, Owned, InBucket, Hmb
  <1> QED
    BY <1>1, <1>2, <1>3 DEF Find

\* The steps of the packet thread that create no flow
LEMMA PacketThreadKeeps ==
    ASSUME FInv, IInv', PacketThread, ~PCreate
    PROVE  FInv'
  <1>0. /\ IInv /\ Locals /\ Linked \subseteq Flows
        /\ Linked' \subseteq Linked /\ UNCHANGED flowT
        /\ \A f \in Flows : Calm(flow[f], flow'[f])
        /\ \A f \in Linked' : flow'[f].fins \subseteq flow[f].fins
    BY LinkedAreFlows, PacketEffect DEF FInv, IInv
  <1>1. FlowsAccounted' /\ NoFinInTable'
    BY <1>0 DEF FInv, FlowsAccounted, NoFinInTable, Calm, Accounted
  <1>2. ExtractedFirst'
    BY <1>0 DEF FInv, ExtractedFirst, Calm, flowT, Locals
  <1>3. OneFlowPerConnection' /\ \A s : Unknown(s) => Unknown(s)'
    BY <1>0, KeepOneFlow DEF FInv, SameSockets, Calm
  <1>4. LookedUp'
    <2>1. CASE ppc' \notin {"findFwd", "create"}
      BY <2>1 DEF LookedUp
    <2>2. CASE ppc' = ppc /\ pkt' = pkt
      BY <1>3, <2>2 DEF FInv, LookedUp, Unknown
    <2>3. CASE PFindRev
      <3>1. pkt' = pkt /\ Reverse(pkt.socket) \in Socket
        BY <1>0, <2>3, PacketFacts DEF PFindRev, Locals, PWorks
      <3>2. ppc' \in {"findFwd", "create"} => ppc' = "findFwd" /\ Find(Reverse(pkt.socket)) = {}
        BY <2>3 DEF PFindRev
      <3>3. ppc' \in {"findFwd", "create"} => Unknown(Reverse(pkt.socket))
        BY <1>0, <3>1, <3>2, FindNone
      <3> QED
        BY <1>3, <3>1, <3>2, <3>3 DEF LookedUp, Unknown
    <2>4. CASE PFindFwd /\ ppc' = "create"
      <3>1. /\ pkt' = pkt /\ pkt.socket \in Socket /\ ppc = "findFwd"
            /\ Find(pkt.socket) = {}
        BY <1>0, <2>4, PacketFacts DEF PFindFwd, Locals, PWorks, PReturn
      <3>2. Unknown(Reverse(pkt.socket)) /\ Unknown(pkt.socket)
        BY <1>0, <3>1, FindNone DEF FInv, LookedUp
      <3> QED
        BY <1>3, <3>1, <3>2 DEF LookedUp, Unknown
    <2> QED
      BY <2>1, <2>2, <2>3, <2>4
         DEF PacketThread, PLoop, PIdle, PDeq, PFindFwd, PCreateCnt, PAddStale,
             PRemoveAgain, PRemove, PDrop, PDropFails, PClose, PUnlock,
             PUnlockFails, PResetFails, PSyn, POther, Fail, PReturn, packetT
  <1> QED
    BY <1>1, <1>2, <1>3, <1>4 DEF FInv

\* create: neither direction of the connection had a flow.
LEMMA CreateKeeps ==
    ASSUME FInv, IInv', PCreate
    PROVE  FInv'
  <1>0. /\ IInv /\ Locals /\ Linked \subseteq Flows /\ Linked \subseteq alloc
        /\ ppc = "create" /\ ppc' = "createCnt" /\ UNCHANGED flowT
    BY LinkedAreFlows DEF FInv, IInv, PCreate
  <1>1. PICK f \in Flows \ alloc :
             /\ alloc' = alloc \cup {f} /\ Linked' = Linked \cup {f}
             /\ flow'[f].socket \in {pkt.socket, Reverse(pkt.socket)}
             /\ flow'[f].fins = {} /\ flow'[f].processed = FALSE
             /\ flow'[f].announced = 0
             /\ \A g \in Flows : g # f => flow'[g] = flow[g]
             /\ pflow' = f
    BY <1>0, CreateEffect
  <1>2. FlowsAccounted'
    <2>1. ASSUME NEW g \in Flows PROVE Accounted(flow'[g])
      <3>1. CASE g = f
        BY <1>1, <3>1 DEF Accounted
      <3>2. CASE g # f
        BY <1>1, <3>2 DEF FInv, FlowsAccounted
      <3> QED
        BY <3>1, <3>2
    <2> QED
      BY <2>1 DEF FlowsAccounted, Accounted
  <1>3. NoFinInTable'
    BY <1>0, <1>1 DEF FInv, NoFinInTable
  <1>4. ExtractedFirst'
    <2>1. fpc = "delete" => fflow \in alloc /\ fflow \in Flows
      BY <1>0 DEF IInv, Owned, Places, Parts, FHolds, Locals
    <2> QED
      BY <1>0, <1>1, <2>1 DEF FInv, ExtractedFirst, flowT
  <1>5. LookedUp'
    BY <1>0 DEF LookedUp
  <1>6. OneFlowPerConnection'
    <2>1. /\ pkt.socket \in Socket /\ Reverse(pkt.socket) \in Socket
          /\ Unknown(pkt.socket) /\ Unknown(Reverse(pkt.socket))
      BY <1>0, PacketFacts DEF FInv, LookedUp, Locals, PWorks
    <2>2. \A s \in Socket : Reverse(Reverse(s)) = s
      BY DEF Socket, Reverse
    <2>3. ASSUME NEW g \in Linked
          PROVE  /\ flow'[g] = flow[g] /\ flow[g].socket \in Socket
                 /\ flow[g].socket \notin {flow'[f].socket, Reverse(flow'[f].socket)}
                 /\ flow'[f].socket \notin {flow[g].socket, Reverse(flow[g].socket)}
      <3>1. g \in Flows /\ g # f
        BY <1>0, <1>1
      <3>2. flow[g].socket \in Socket
        BY <1>0, <3>1 DEF IInv, TypeOK, TableTypes, FlowRecord
      <3>3. flow[g].socket # pkt.socket /\ flow[g].socket # Reverse(pkt.socket)
        BY <2>1 DEF Unknown
      <3> QED
        BY <1>1, <2>1, <2>2, <3>1, <3>2, <3>3
    <2> QED
      BY <1>1, <2>3 DEF FInv, OneFlowPerConnection
  <1> QED
    BY <1>2, <1>3, <1>4, <1>5, <1>6 DEF FInv

\* The initial state has no flows.
LEMMA InitFInv == Init => FInv
  <1> SUFFICES ASSUME Init PROVE FInv
    OBVIOUS
  <1>1. Linked = {}
    BY DEF Init, Linked
  <1>2. FlowsAccounted
    BY DEF Init, FlowsAccounted, Accounted, NewFlow
  <1> QED
    BY <1>1, <1>2, InitIInv DEF FInv, ExtractedFirst, NoFinInTable, LookedUp,
                                OneFlowPerConnection, Init

\* Every step keeps the invariant.
LEMMA NextFInv == ASSUME FInv, [Next]_vars PROVE FInv'
  <1>0. /\ IInv /\ IInv' /\ \A f \in Flows : flow[f] \in FlowRecord /\ Accounted(flow[f])
    BY NextIInv DEF FInv, IInv, TypeOK, TableTypes, FlowsAccounted
  <1>1. CASE PacketThread
    BY <1>0, <1>1, PacketThreadKeeps, CreateKeeps
  <1>2. CASE FlowThread
    <2>1. /\ Linked' = Linked
          /\ \A f \in Flows : Touched(flow[f], flow'[f])
          /\ UNCHANGED packetT
          /\ fpc' = "delete" => /\ fflow \in Flows /\ fflow' = fflow
                                /\ \/ fpc = "delete" /\ UNCHANGED flow
                                   \/ flow'[fflow] = Extract(flow[fflow])
      BY <1>0, <1>2, FlowThreadEffect
    <2>2. FlowsAccounted' /\ NoFinInTable' /\ LookedUp' /\ OneFlowPerConnection'
      BY <1>0, <2>1, TouchedKeeps
    <2>3. ExtractedFirst'
      <3>1. CASE fpc' = "delete" /\ fpc = "delete" /\ UNCHANGED flow
        BY <2>1, <3>1 DEF FInv, ExtractedFirst
      <3>2. CASE fpc' = "delete" /\ flow'[fflow] = Extract(flow[fflow])
        BY <1>0, <2>1, <3>2, ExtractAccount DEF ExtractedFirst
      <3> QED
        BY <2>1, <3>1, <3>2 DEF ExtractedFirst
    <2> QED
      BY <1>0, <2>2, <2>3 DEF FInv
  <1>3. CASE Scrubber \/ (\E t \in Ticker : Timer(t)) \/ Stop \/ TimerDelete \/ Tick
    <2>1. /\ Linked' \subseteq Linked
          /\ \A f \in Flows : Touched(flow[f], flow'[f])
          /\ UNCHANGED <<packetT, flowT>>
      BY <1>0, <1>3, OthersEffect
    <2>2. FlowsAccounted' /\ NoFinInTable' /\ LookedUp' /\ OneFlowPerConnection'
      BY <1>0, <2>1, TouchedKeeps
    <2>3. ExtractedFirst'
      <3>1. \A f \in Flows : /\ flow'[f].socket = flow[f].socket
                             /\ flow[f].processed => flow'[f].processed
        BY <1>0, <2>1, TouchedAccount
      <3> QED
        BY <1>0, <2>1, <3>1 DEF FInv, IInv, Locals, ExtractedFirst, flowT
    <2> QED
      BY <1>0, <2>2, <2>3 DEF FInv
  <1>4. CASE UNCHANGED vars
    <2>1. UNCHANGED <<flow, chain, packetT, flowT>>
      BY <1>4 DEF vars, table
    <2>2. Linked' = Linked
      BY <2>1 DEF Linked
    <2>3. \A f \in Flows : Touched(flow[f], flow'[f])
      BY <2>1 DEF Touched, Calm
    <2> QED
      BY <1>0, <2>1, <2>2, <2>3, TouchedKeeps DEF FInv, ExtractedFirst, flowT
  <1> QED
    BY <1>1, <1>2, <1>3, <1>4 DEF Next, Step, Halted

\* The invariant holds throughout.
LEMMA FlowInvariant == Spec => []FInv
  BY InitFInv, NextFInv, PTL DEF Spec

-----------------------------------------------------------------------------
\* add_packet never makes a second flow for a connection, whichever side's
\* packet comes first and whatever the other threads remove meanwhile.
THEOREM ConnectionsHaveOneFlow == Spec => []OneFlowPerConnection
  <1>1. FInv => OneFlowPerConnection
    BY DEF FInv
  <1> QED
    BY <1>1, FlowInvariant, PTL

\* extractPair(flow, false) of a timer callback never meets a FIN, behind which
\* it would follow a NULL pointer: the first FIN takes a flow out of the table.
THEOREM OpenFlowsHaveNoFin == Spec => []NoFinInTable
  <1>1. FInv => NoFinInTable
    BY DEF FInv
  <1> QED
    BY <1>1, FlowInvariant, PTL

\* Timer callbacks and the flow thread notify newFlowReceived once between
\* them, for exactly the flows that pass the filters, before the flow is gone.
THEOREM FlowsAreAnnouncedOnce == Spec => []AnnouncedOnce
  <1>1. FInv => AnnouncedOnce
    <2> SUFFICES ASSUME FInv PROVE AnnouncedOnce
      OBVIOUS
    <2>1. \A f \in Flows : Accounted(flow[f])
      BY DEF FInv, FlowsAccounted
    <2>2. alloc \subseteq Flows /\ (fpc = "delete" => fflow \in Flows)
      BY DEF FInv, IInv, TypeOK, TableTypes, Locals
    <2>3. \A f \in alloc : flow[f].announced <= IF flow[f].socket \in Selected
                                                THEN 1 ELSE 0
      BY <2>1, <2>2 DEF Accounted
    <2>4. fpc = "delete" => flow[fflow].announced =
                              IF flow[fflow].socket \in Selected THEN 1 ELSE 0
      BY <2>1, <2>2 DEF Accounted, FInv, ExtractedFirst
    <2> QED
      BY <2>3, <2>4 DEF AnnouncedOnce
  <1> QED
    BY <1>1, FlowInvariant, PTL

-----------------------------------------------------------------------------
(***************************************************************************)
(* The refinement of FlowLife                                              *)
(***************************************************************************)
\* The state of FlowLife that a state of the table stands for: the
\* substitution of Life
LifeOf == [f \in Flows |->
             IF f \notin alloc THEN "free"
             ELSE IF f \in Linked \/ (ppc = "dropCnt" /\ f = pflow)
             THEN "open" ELSE "closed"]
Watched == {f \in alloc : flow[f].socket \in Selected}
Told    == {f \in alloc : flow[f].announced > 0}

\* Flows that are linked, or dropped and not deleted yet
Open == Linked \cup (IF ppc = "dropCnt" THEN {pflow} ELSE {})

\* LifeOf flow by flow
LEMMA LifeFacts ==
    \A f \in Flows : LifeOf[f] = IF f \notin alloc THEN "free"
                                 ELSE IF f \in Open THEN "open" ELSE "closed"
  BY DEF LifeOf, Open

\* The same of the next state.
LEMMA LifeFactsNext ==
    \A f \in Flows : LifeOf'[f] = IF f \notin alloc' THEN "free"
                                  ELSE IF f \in Open' THEN "open" ELSE "closed"
  BY DEF LifeOf, Open

\* Two states in which the flows are in the same places have the same life.
LEMMA SameLife ==
    ASSUME alloc' = alloc, Open' = Open
    PROVE  LifeOf' = LifeOf
  BY LifeFacts, LifeFactsNext DEF LifeOf

\* The steps of FlowLife, in terms of the table: nothing happens to a flow.
LEMMA StutterStep ==
    ASSUME LifeOf' = LifeOf, Watched' = Watched, Told' = Told
    PROVE  UNCHANGED Life!vars
  BY DEF Life!vars, LifeOf, Watched, Told

\* FlowLife's Open: create links a new flow.
LEMMA OpenStep ==
    ASSUME NEW f \in Flows, LifeOf[f] = "free",
           LifeOf' = [LifeOf EXCEPT ![f] = "open"],
           Watched' \in {Watched, Watched \cup {f}}, Told' = Told
    PROVE  Life!Next
  BY DEF Life!Next, Life!Open, LifeOf, Watched, Told

\* FlowLife's Announce: extractData notifies newFlowReceived.
LEMMA AnnounceStep ==
    ASSUME NEW f \in Flows, LifeOf[f] # "free", f \in Watched \ Told,
           Told' = Told \cup {f}, LifeOf' = LifeOf, Watched' = Watched
    PROVE  Life!Next
  BY DEF Life!Next, Life!Announce, LifeOf, Watched, Told

\* FlowLife's Close: a flow is unlinked and goes to the queue.
LEMMA CloseStep ==
    ASSUME NEW f \in Flows, LifeOf[f] = "open",
           LifeOf' = [LifeOf EXCEPT ![f] = "closed"],
           Watched' = Watched, Told' = Told
    PROVE  Life!Next
  BY DEF Life!Next, Life!Close, LifeOf, Watched, Told

\* FlowLife's End: a flow is deleted.
LEMMA EndStep ==
    ASSUME NEW f \in Flows, LifeOf[f] # "free",
           LifeOf[f] = "closed" /\ f \in Watched => f \in Told,
           LifeOf' = [LifeOf EXCEPT ![f] = "free"],
           Watched' = Watched \ {f}, Told' = Told \ {f}
    PROVE  Life!Next
  BY DEF Life!Next, Life!End, LifeOf, Watched, Told

-----------------------------------------------------------------------------
\* Steps that leave flows allocated and their accounts alone do not change
\* what is watched and told.
LEMMA CalmSets ==
    ASSUME alloc \subseteq Flows, alloc' = alloc,
           \A f \in Flows : Calm(flow[f], flow'[f])
    PROVE  Watched' = Watched /\ Told' = Told
  BY DEF Watched, Told, Calm

\* delete: the flow is not watched and not told of any more.
LEMMA DeleteSets ==
    ASSUME NEW f \in alloc, alloc' = alloc \ {f}, UNCHANGED flow
    PROVE  Watched' = Watched \ {f} /\ Told' = Told \ {f}
  BY DEF Watched, Told

\* extractData of one flow announces it or changes nothing that counts.
LEMMA ExtractLife ==
    ASSUME FInv, NEW f \in alloc, flow' = [flow EXCEPT ![f] = Extract(flow[f])],
           alloc' = alloc, Open' = Open
    PROVE  Life!Next \/ UNCHANGED Life!vars
  <1>0. /\ f \in Flows /\ alloc \subseteq Flows /\ flow \in [Flows -> FlowRecord]
        /\ flow[f] \in FlowRecord /\ Accounted(flow[f])
    BY DEF FInv, IInv, TypeOK, TableTypes, FlowsAccounted
  <1>1. /\ flow'[f] = Extract(flow[f])
        /\ \A g \in Flows : g # f => flow'[g] = flow[g]
    BY <1>0, OneFlow
  <1>2. LifeOf' = LifeOf /\ LifeOf[f] # "free"
    BY <1>0, SameLife, LifeFacts
  <1>3. flow'[f].socket = flow[f].socket
    BY <1>0, <1>1, ExtractAccount
  <1>4. Watched' = Watched
    BY <1>0, <1>1, <1>3 DEF Watched
  <1>5. CASE f \in Watched \ Told
    <2>1. flow[f].announced = 0 /\ flow[f].socket \in Selected
      BY <1>0, <1>5 DEF Watched, Told, Accounted
    <2>2. flow'[f].announced = 1
      BY <1>0, <1>1, <2>1, ExtractAccount
    <2>3. Told' = Told \cup {f}
      BY <1>0, <1>1, <2>2 DEF Told
    <2> QED
      BY <1>0, <1>2, <1>4, <1>5, <2>3, AnnounceStep
  <1>6. CASE f \notin Watched \ Told
    <2>1. flow[f].announced > 0 \/ (flow[f].announced = 0 /\ flow[f].socket \notin Selected)
      BY <1>0, <1>6 DEF Watched, Told, Accounted
    <2>2. flow'[f] = flow[f]
      BY <1>0, <1>1, <2>1, ExtractAccount
    <2>3. Told' = Told
      BY <1>0, <1>1, <2>2 DEF Told
    <2> QED
      BY <1>2, <1>4, <2>3, StutterStep
  <1> QED
    BY <1>5, <1>6

\* remove, by the scrubber or by a close: the flow is closed.
LEMMA RemoveLife ==
    ASSUME FInv, NEW f \in Linked, alloc' = alloc,
           \A g \in Flows : Calm(flow[g], flow'[g]),
           f \in Open, Open' = Open \ {f}
    PROVE  Life!Next
  <1>0. /\ f \in Flows /\ f \in alloc /\ alloc \subseteq Flows
    BY LinkedAreFlows DEF FInv, IInv, TypeOK, TableTypes
  <1>1. Watched' = Watched /\ Told' = Told
    BY <1>0, CalmSets
  <1>2. LifeOf[f] = "open"
    BY <1>0, LifeFacts
  <1>3. LifeOf' = [LifeOf EXCEPT ![f] = "closed"]
    <2>1. /\ LifeOf = [g \in Flows |-> LifeOf[g]]
          /\ LifeOf' = [g \in Flows |-> LifeOf'[g]]
      BY DEF LifeOf
    <2>2. \A g \in Flows : LifeOf'[g] = IF g = f THEN "closed" ELSE LifeOf[g]
      BY <1>0, LifeFacts, LifeFactsNext
    <2> HIDE DEF LifeOf
    <2> QED
      BY <2>1, <2>2
  <1> QED
    BY <1>0, <1>1, <1>2, <1>3, CloseStep

\* delete of a flow that no place holds afterwards: the connection ends.
LEMMA DeleteLife ==
    ASSUME FInv, NEW f \in alloc, alloc' = alloc \ {f}, UNCHANGED flow,
           f \in Open \/ (f \in Watched => f \in Told), Open' = Open \ {f}
    PROVE  Life!Next
  <1>0. f \in Flows
    BY DEF FInv, IInv, TypeOK, TableTypes
  <1>1. Watched' = Watched \ {f} /\ Told' = Told \ {f}
    BY DeleteSets
  <1>2. LifeOf[f] # "free" /\ (LifeOf[f] = "closed" /\ f \in Watched => f \in Told)
    BY <1>0, LifeFacts
  <1>3. LifeOf' = [LifeOf EXCEPT ![f] = "free"]
    <2>1. /\ LifeOf = [g \in Flows |-> LifeOf[g]]
          /\ LifeOf' = [g \in Flows |-> LifeOf'[g]]
      BY DEF LifeOf
    <2>2. \A g \in Flows : LifeOf'[g] = IF g = f THEN "free" ELSE LifeOf[g]
      BY <1>0, LifeFacts, LifeFactsNext
    <2> HIDE DEF LifeOf
    <2> QED
      BY <2>1, <2>2
  <1> QED
    BY <1>0, <1>1, <1>2, <1>3, EndStep

\* create: the connection opens.
LEMMA CreateLife ==
    ASSUME FInv, PCreate
    PROVE  Life!Next
  <1>0. /\ IInv /\ alloc \subseteq Flows /\ ppc = "create" /\ ppc' = "createCnt"
    BY DEF FInv, IInv, TypeOK, TableTypes, PCreate
  <1>1. PICK f \in Flows \ alloc :
             /\ alloc' = alloc \cup {f} /\ Linked' = Linked \cup {f}
             /\ flow'[f].socket \in {pkt.socket, Reverse(pkt.socket)}
             /\ flow'[f].fins = {} /\ flow'[f].processed = FALSE
             /\ flow'[f].announced = 0
             /\ \A g \in Flows : g # f => flow'[g] = flow[g]
             /\ pflow' = f
    BY <1>0, CreateEffect
  <1>2. Open' = Open \cup {f}
    BY <1>0, <1>1 DEF Open
  <1>3. Watched' \in {Watched, Watched \cup {f}}
    <2>1. CASE flow'[f].socket \in Selected
      BY <1>0, <1>1, <2>1 DEF Watched
    <2>2. CASE flow'[f].socket \notin Selected
      BY <1>0, <1>1, <2>2 DEF Watched
    <2> QED
      BY <2>1, <2>2
  <1>4. Told' = Told
    BY <1>0, <1>1 DEF Told
  <1>5. LifeOf[f] = "free"
    BY <1>1, LifeFacts
  <1>6. LifeOf' = [LifeOf EXCEPT ![f] = "open"]
    <2>1. /\ LifeOf = [g \in Flows |-> LifeOf[g]]
          /\ LifeOf' = [g \in Flows |-> LifeOf'[g]]
      BY DEF LifeOf
    <2>2. \A g \in Flows : LifeOf'[g] = IF g = f THEN "open" ELSE LifeOf[g]
      BY <1>1, <1>2, LifeFacts, LifeFactsNext
    <2> HIDE DEF LifeOf
    <2> QED
      BY <2>1, <2>2
  <1> QED
    BY <1>1, <1>3, <1>4, <1>5, <1>6, OpenStep

-----------------------------------------------------------------------------
(***************************************************************************)
(* Every step of the table is a step of FlowLife, or none                  *)
(***************************************************************************)

\* A step that moves no flow and touches no account is none of FlowLife.
LEMMA CalmStep ==
    ASSUME FInv, alloc' = alloc, Open' = Open,
           \A f \in Flows : Calm(flow[f], flow'[f])
    PROVE  UNCHANGED Life!vars
  <1>1. alloc \subseteq Flows
    BY DEF FInv, IInv, TypeOK, TableTypes
  <1> QED
    BY <1>1, SameLife, CalmSets, StutterStep

\* remove takes the flow of the packet out of the table: a close, or the first
\* half of a drop, in which the flow stays open.
LEMMA PacketRemoveLife ==
    ASSUME FInv, PRemove
    PROVE  Life!Next \/ UNCHANGED Life!vars
  <1>0. IInv /\ TableTypes /\ InBucket /\ Locals
    BY DEF FInv, IInv, TypeOK, Owned
  <1>1. /\ pflow \in Flows /\ Hmb(pflow) \in Bucket /\ pflow \in chain[Hmb(pflow)]
        /\ chain' = Unlink(Hmb(pflow), pflow) /\ alloc' = alloc /\ pflow' = pflow
        /\ ppc = "add" /\ ppc' \in {"dropCnt", "closeCnt"}
    BY <1>0, HmbFacts DEF Locals, PHasFlow, TableTypes, PRemove, EnterAdd
  <1>2. pflow \in Linked /\ Linked' = Linked \ {pflow}
    BY <1>0, <1>1, UnlinkPlaces
  <1>3. \A f \in Flows : Calm(flow[f], flow'[f])
    BY <1>0, <1>1, PacketEffect DEF PacketThread, PRemove, PCreate
  <1>4. CASE ppc' = "dropCnt"
    BY <1>1, <1>2, <1>3, <1>4, CalmStep DEF Open
  <1>5. CASE ppc' = "closeCnt"
    <2>1. pflow \in Open /\ Open' = Open \ {pflow}
      BY <1>1, <1>2, <1>5 DEF Open
    <2> QED
      BY <1>1, <1>2, <1>3, <2>1, RemoveLife
  <1> QED
    BY <1>1, <1>4, <1>5

\* delete of a dropped flow
LEMMA PacketDropLife ==
    ASSUME FInv, PDrop
    PROVE  Life!Next
  <1>1. /\ ppc = "dropCnt" /\ ppc' = "loop" /\ alloc' = alloc \ {pflow}
        /\ UNCHANGED <<flow, chain>>
    BY DEF PDrop, DeleteFlow, PReturn
  <1>2. pflow \in alloc /\ pflow \notin Linked
    BY <1>1 DEF FInv, IInv, Owned, Places, Parts, PHolds
  <1>3. Linked' = Linked
    BY <1>1, KeepPlaces
  <1>4. pflow \in Open /\ Open' = Open \ {pflow}
    BY <1>1, <1>2, <1>3 DEF Open
  <1> QED
    BY <1>1, <1>2, <1>4, DeleteLife

\* The steps of the packet thread
LEMMA PacketLife ==
    ASSUME FInv, PacketThread
    PROVE  Life!Next \/ UNCHANGED Life!vars
  <1>1. CASE PCreate
    BY <1>1, CreateLife
  <1>2. CASE PRemove
    BY <1>2, PacketRemoveLife
  <1>3. CASE PDrop
    BY <1>3, PacketDropLife
  <1>4. CASE ~PCreate /\ ~PRemove /\ ~PDrop
    <2>1. \A f \in Flows : Calm(flow[f], flow'[f])
      BY <1>4, PacketEffect DEF FInv
    <2>2. UNCHANGED <<alloc, chain>>
      BY <1>4 DEF PacketThread, PLoop, PIdle, PDeq, PFindRev, PFindFwd, PCreateCnt,
                  PAddStale, PRemoveAgain, PDropFails, PClose, PUnlock,
                  PUnlockFails, PResetFails, PSyn, POther, Fail, table
    <2>3. (ppc = "dropCnt") = (ppc' = "dropCnt") /\ (ppc = "dropCnt" => pflow' = pflow)
      BY <1>4 DEF PacketThread, PLoop, PIdle, PDeq, PFindRev, PFindFwd, PCreateCnt,
                  PAddStale, PRemoveAgain, PDropFails, PClose, PUnlock,
                  PUnlockFails, PResetFails, PSyn, POther, EnterAdd, PReturn,
                  Fail, packetT
    <2>4. Open' = Open
      BY <2>2, <2>3, KeepPlaces DEF Open
    <2> QED
      BY <2>1, <2>2, <2>4, CalmStep
  <1> QED
    BY <1>1, <1>2, <1>3, <1>4

\* The steps of the flow thread
LEMMA FlowThreadLife ==
    ASSUME FInv, FlowThread
    PROVE  Life!Next \/ UNCHANGED Life!vars
  <1>1. UNCHANGED <<chain, packetT>>
    BY DEF FlowThread, FLoop, FDeq, FExtract, FDelete, FDeleteFails, Fail, table
  <1>2. Open' = Open
    BY <1>1, KeepPlaces DEF Open, packetT
  <1>3. CASE FLoop \/ FDeq \/ FDeleteFails
    <2>1. UNCHANGED <<alloc, flow>>
      BY <1>3 DEF FLoop, FDeq, FDeleteFails, Fail, table
    <2> QED
      BY <1>2, <2>1, CalmStep DEF Calm
  <1>4. CASE FExtract
    <2>1. fflow \in alloc
      BY <1>4 DEF FExtract, FInv, IInv, Owned, Places, Parts, FHolds
    <2> QED
      BY <1>2, <1>4, <2>1, ExtractLife DEF FExtract
  <1>5. CASE FDelete
    <2>1. /\ fpc = "delete" /\ alloc' = alloc \ {fflow} /\ UNCHANGED flow
      BY <1>5 DEF FDelete, DeleteFlow
    <2>2. /\ fflow \in alloc /\ fflow \in Flows /\ fflow \notin Linked
          /\ fflow \notin PHolds
      BY <2>1 DEF FInv, IInv, TypeOK, TableTypes, Owned, Places, Parts, FHolds
    <2>3. fflow \notin Open
      BY <2>2 DEF Open, PHolds
    <2>4. fflow \in Watched => fflow \in Told
      BY <2>1, <2>2 DEF FInv, ExtractedFirst, FlowsAccounted, Accounted, Watched, Told
    <2> QED
      BY <1>2, <2>1, <2>2, <2>3, <2>4, DeleteLife
  <1> QED
    BY <1>3, <1>4, <1>5 DEF FlowThread

\* The steps of the scrubber
LEMMA ScrubberLife ==
    ASSUME FInv, Scrubber
    PROVE  Life!Next \/ UNCHANGED Life!vars
  <1>0. UNCHANGED <<alloc, flow, packetT>>
    BY DEF Scrubber, SWake, SLock, SVisit, SClose, SUnlock, table
  <1>1. \A f \in Flows : Calm(flow[f], flow'[f])
    BY <1>0 DEF Calm
  <1>2. CASE UNCHANGED chain
    <2>1. Open' = Open
      BY <1>0, <1>2, KeepPlaces DEF Open, packetT
    <2> QED
      BY <1>0, <1>1, <2>1, CalmStep
  <1>3. ASSUME NEW f \in Flows, SVisit(f), ~UNCHANGED chain
        PROVE  Life!Next
    <2>1. f \in stodo /\ chain' = Unlink(sbucket, f) /\ spc = "scan"
      BY <1>3 DEF SVisit
    <2>2. /\ sbucket \in Bucket /\ f \in chain[sbucket] /\ TableTypes /\ InBucket
      BY <2>1 DEF FInv, IInv, TypeOK, ScrubTypes, Owned, Walkers
    <2>3. f \in Linked /\ Linked' = Linked \ {f}
      BY <2>1, <2>2, UnlinkPlaces
    <2>4. f \notin PHolds
      BY <2>3 DEF FInv, IInv, Owned, Places, Parts
    <2>5. f \in Open /\ Open' = Open \ {f}
      BY <1>0, <2>3, <2>4 DEF Open, PHolds, packetT
    <2> QED
      BY <1>0, <1>1, <2>3, <2>5, RemoveLife
  <1> QED
    BY <1>2, <1>3 DEF Scrubber, SWake, SLock, SClose, SUnlock, table

\* The steps of the timer callbacks, and of the environment
LEMMA OthersLife ==
    ASSUME FInv, (\E t \in Ticker : Timer(t)) \/ Stop \/ TimerDelete \/ Tick
    PROVE  Life!Next \/ UNCHANGED Life!vars
  <1>0. UNCHANGED <<alloc, chain, packetT>>
    BY DEF Timer, TFire, TLock, TVisit, TUnlock, Stop, TimerDelete, Tick, table
  <1>1. Open' = Open
    BY <1>0, KeepPlaces DEF Open, packetT
  <1>2. CASE UNCHANGED flow
    BY <1>0, <1>1, <1>2, CalmStep DEF Calm
  <1>3. ASSUME NEW t \in Ticker, NEW f \in Flows, TVisit(t, f)
        PROVE  Life!Next \/ UNCHANGED Life!vars
    <2>1. f \in chain[tbucket[t]] /\ tbucket[t] \in Bucket
      BY <1>3 DEF TVisit, FInv, IInv, TypeOK, TimerTypes, Owned, Walkers
    <2>2. f \in alloc
      BY <2>1, LinkedAreFlows DEF FInv, Linked
    <2> QED
      BY <1>0, <1>1, <1>3, <2>2, ExtractLife DEF TVisit
  <1>4. CASE Tick
    <2>1. ASSUME NEW f \in Flows PROVE Calm(flow[f], flow'[f])
      <3>1. flow[f] \in FlowRecord
        BY DEF FInv, IInv, TypeOK, TableTypes
      <3>2. flow'[f] = flow[f]
            \/ flow'[f] = [flow[f] EXCEPT !.age = Minimum(flow[f].age + 1, MaxAge)]
        BY <1>4, Zenon DEF Tick
      <3>3. ASSUME NEW a PROVE Calm(flow[f], [flow[f] EXCEPT !.age = a])
        BY <3>1 DEF Calm, FlowRecord
      <3> QED
        BY <3>2, <3>3, Zenon DEF Calm
    <2> QED
      BY <1>0, <1>1, <2>1, CalmStep
  <1> QED
    BY <1>2, <1>3, <1>4 DEF Timer, TFire, TLock, TUnlock, Stop, TimerDelete, table

\* A step of the program is a step of FlowLife, or changes nothing of it.
LEMMA StepLife == ASSUME FInv, [Next]_vars PROVE [Life!Next]_(Life!vars)
  <1>1. CASE UNCHANGED vars
    <2>1. UNCHANGED <<alloc, flow, chain, packetT>>
      BY <1>1 DEF vars, table
    <2>2. Open' = Open
      BY <2>1, KeepPlaces DEF Open, packetT
    <2> QED
      BY <2>1, <2>2, CalmStep DEF Calm
  <1> QED
    BY <1>1, PacketLife, FlowThreadLife, ScrubberLife, OthersLife DEF Next, Step, Halted

-----------------------------------------------------------------------------
\* The hash table, fq and the threads give every connection the life of
\* FlowLife: a flow that add_packet opened is closed by FIN, RST or the
\* scrubber, announced at most once, and deleted after that unless it was
\* dropped; no interleaving of the threads skips or repeats a stage.
THEOREM TableImplementsFlowLife == Spec => ImplementsFlowLife
  <1>1. Init => Life!Init
    BY DEF Init, Life!Init
  <1>2. FInv /\ [Next]_vars => [Life!Next]_(Life!vars)
    BY StepLife
  <1> QED
    BY <1>1, <1>2, FlowInvariant, PTL DEF Spec, ImplementsFlowLife, Life!Spec

-----------------------------------------------------------------------------
(***************************************************************************)
(* PacketsAccounted.  The sum over the flows that are allocated is the     *)
(* number of pairs of a flow and a place on its packet chains.             *)
(***************************************************************************)

\* The packets on the chains of the flows of s, one pair for each
Chained(r, s) == UNION {{f} \X (1..r[f].hooked) : f \in s}

\* There are finitely many, and one flow adds its own.
LEMMA ChainedCount ==
    ASSUME NEW r, NEW s, IsFiniteSet(s), \A f \in s : r[f].hooked \in Nat
    PROVE  /\ IsFiniteSet(Chained(r, s))
           /\ Cardinality(Chained(r, s)) \in Nat
           /\ s = {} => Cardinality(Chained(r, s)) = 0
           /\ \A f \in s : Cardinality(Chained(r, s))
                           = r[f].hooked + Cardinality(Chained(r, s \ {f}))
  <1> DEFINE Own(f) == {f} \X (1..r[f].hooked)
  <1>1. \A f \in s : IsFiniteSet(Own(f)) /\ Cardinality(Own(f)) = r[f].hooked
    <2> TAKE f \in s
    <2>1. r[f].hooked \in Nat
      OBVIOUS
    <2>2. IsFiniteSet(1..r[f].hooked) /\ Cardinality(1..r[f].hooked) = r[f].hooked
      <3> DEFINE h == r[f].hooked
      <3>1. h \in Int /\ 1 \in Int /\ (1 > h => h = 0) /\ (h - 1) + 1 = h
        BY <2>1
      <3> HIDE DEF h
      <3>2. /\ IsFiniteSet(1..h)
            /\ Cardinality(1..h) = IF 1 > h THEN 0 ELSE (h - 1) + 1
        BY <3>1, FS_Interval
      <3>3. IsFiniteSet(1..h) /\ Cardinality(1..h) = h
        BY <3>1, <3>2
      <3> QED
        BY <3>3 DEF h
    <2>3. IsFiniteSet({f}) /\ Cardinality({f}) = 1
      BY FS_Singleton
    <2>4. /\ IsFiniteSet(Own(f))
          /\ Cardinality(Own(f)) = Cardinality({f}) * Cardinality(1..r[f].hooked)
      BY <2>2, <2>3, FS_Product
    <2> QED
      BY <2>1, <2>2, <2>3, <2>4
  <1>2. ASSUME NEW t \in SUBSET s PROVE IsFiniteSet(Chained(r, t))
    <2>1. IsFiniteSet(t)
      BY FS_Subset
    <2>2. IsFiniteSet({Own(f) : f \in t})
      <3> DEFINE g == [f \in t |-> Own(f)]
      <3>1. g \in Surjection(t, {Own(f) : f \in t})
        BY DEF Surjection
      <3> HIDE DEF g, Own
      <3> QED
        BY <2>1, <3>1, FS_Surjection
    <2>3. \A o \in {Own(f) : f \in t} : IsFiniteSet(o)
      BY <1>1
    <2>4. IsFiniteSet(UNION {Own(f) : f \in t})
      BY <2>2, <2>3, FS_UNION
    <2> QED
      BY <2>4 DEF Chained
  <1>3. ASSUME NEW f \in s
        PROVE  Cardinality(Chained(r, s)) = r[f].hooked + Cardinality(Chained(r, s \ {f}))
    <2>1. Chained(r, s) = Own(f) \cup Chained(r, s \ {f})
      BY DEF Chained
    <2>2. Own(f) \cap Chained(r, s \ {f}) = {}
      BY DEF Chained
    <2>3. IsFiniteSet(Chained(r, s \ {f})) /\ IsFiniteSet(Own(f))
      BY <1>1, <1>2
    <2>4. Cardinality(Chained(r, s)) = Cardinality(Own(f)) + Cardinality(Chained(r, s \ {f}))
                                       - Cardinality(Own(f) \cap Chained(r, s \ {f}))
      BY <2>1, <2>3, FS_Union
    <2>5. Cardinality(Chained(r, s \ {f})) \in Nat
      BY <2>3, FS_CardinalityType
    <2>6. Cardinality({}) = 0
      BY FS_EmptySet
    <2>7. Cardinality(Own(f)) = r[f].hooked /\ r[f].hooked \in Nat
      BY <1>1
    <2> DEFINE A == Cardinality(Chained(r, s))
               B == Cardinality(Chained(r, s \ {f}))
               C == Cardinality(Own(f) \cap Chained(r, s \ {f}))
               D == Cardinality(Own(f))
               h == r[f].hooked
    <2>8. C = 0
      BY <2>2, <2>6, Zenon
    <2>9. A = D + B - C /\ B \in Nat /\ D = h /\ h \in Nat
      BY <2>4, <2>5, <2>7, Zenon
    <2>10. A = h + B
      <3> HIDE DEF A, B, C, D, h
      <3> QED
        BY <2>8, <2>9
    <2> QED
      BY <2>10, Zenon
  <1>4. s = {} => Cardinality(Chained(r, s)) = 0
    <2>1. s = {} => Chained(r, s) = {}
      BY DEF Chained
    <2> QED
      BY <2>1, FS_EmptySet
  <1>5. IsFiniteSet(Chained(r, s)) /\ Cardinality(Chained(r, s)) \in Nat
    BY <1>2, FS_CardinalityType
  <1> QED
    BY <1>3, <1>4, <1>5

\* Hooked is their number.
LEMMA HookedCount ==
    ASSUME NEW r, NEW S, IsFiniteSet(S), \A f \in S : r[f].hooked \in Nat
    PROVE  Hooked(r, S) = Cardinality(Chained(r, S))
  <1> DEFINE c(s) == CHOOSE f \in s : TRUE
             Eq(h) == h = [s \in SUBSET S |->
                             IF s = {} THEN 0 ELSE r[c(s)].hooked + h[s \ {c(s)}]]
             F == CHOOSE h : Eq(h)
             N(s) == Cardinality(Chained(r, s))
             H == [s \in SUBSET S |-> N(s)]
  <1>1. Hooked(r, S) = F[S]
    BY DEF Hooked, MapThenSumSet, MapThenFoldSet
  <1>2. \A s \in SUBSET S : s # {} => c(s) \in s
    OBVIOUS
  <1>3. \A s \in SUBSET S : /\ IsFiniteSet(s) /\ N(s) \in Nat
                            /\ s = {} => N(s) = 0
                            /\ \A f \in s : N(s) = r[f].hooked + N(s \ {f})
    <2> TAKE s \in SUBSET S
    <2>1. IsFiniteSet(s) /\ \A f \in s : r[f].hooked \in Nat
      BY FS_Subset
    <2> QED
      BY <2>1, ChainedCount
  <1> HIDE DEF c, N
  <1>4. \A s \in SUBSET S : H[s] = IF s = {} THEN 0 ELSE r[c(s)].hooked + H[s \ {c(s)}]
    <2> TAKE s \in SUBSET S
    <2>1. CASE s = {}
      BY <1>3, <2>1
    <2>2. CASE s # {}
      <3>1. c(s) \in s /\ s \ {c(s)} \in SUBSET S
        BY <1>2, <2>2
      <3>2. N(s) = r[c(s)].hooked + N(s \ {c(s)})
        BY <1>3, <3>1
      <3> QED
        BY <2>2, <3>1, <3>2
    <2> QED
      BY <2>1, <2>2
  <1>5. Eq(H)
    BY <1>4
  <1>6. Eq(F)
    <2> HIDE DEF Eq, H
    <2> QED
      BY <1>5
  <1>7. \A s \in SUBSET S : F[s] = IF s = {} THEN 0 ELSE r[c(s)].hooked + F[s \ {c(s)}]
    <2> HIDE DEF F
    <2> QED
      BY <1>6
  <1> HIDE DEF F
  <1> DEFINE Bad == {s \in SUBSET S : F[s] # N(s)}
             T == {Cardinality(s) : s \in Bad}
  <1>8. ASSUME Bad # {} PROVE FALSE
    <2> DEFINE R == OpToRel(<, Nat)
    <2>1. T # {} /\ T \in SUBSET Nat
      BY <1>3, <1>8, FS_CardinalityType
    <2>2. IsWellFoundedOn(R, Nat)
      BY NatLessThanWellFounded
    <2>3. PICK m \in T : \A k \in T : ~(<<k, m>> \in R)
      <3> HIDE DEF T, R
      <3> QED
        BY <2>1, <2>2, WFMin
    <2>4. PICK s \in Bad : m = Cardinality(s)
      BY <2>3
    <2>5. s # {}
      BY <1>3, <1>7, <2>4
    <2>6. c(s) \in s /\ s \ {c(s)} \in SUBSET S
      BY <1>2, <2>4, <2>5
    <2>7. /\ Cardinality(s \ {c(s)}) = Cardinality(s) - 1
          /\ Cardinality(s) \in Nat /\ Cardinality(s \ {c(s)}) \in Nat
      BY <1>3, <2>4, <2>6, FS_RemoveElement, FS_CardinalityType
    <2>8. s \ {c(s)} \notin Bad
      <3>1. SUFFICES ASSUME s \ {c(s)} \in Bad PROVE FALSE
        OBVIOUS
      <3>2. Cardinality(s \ {c(s)}) \in T
        BY <3>1
      <3>3. <<Cardinality(s \ {c(s)}), m>> \in R
        BY <2>4, <2>7 DEF OpToRel
      <3> QED
        BY <2>3, <3>2, <3>3
    <2>9. F[s \ {c(s)}] = N(s \ {c(s)})
      BY <2>6, <2>8
    <2>10. F[s] = r[c(s)].hooked + N(s \ {c(s)})
      BY <1>7, <2>4, <2>5, <2>9
    <2> QED
      BY <1>3, <2>4, <2>6, <2>10
  <1> QED
    BY <1>1, <1>8 DEF N

\* A flow more or less
LEMMA HookedOne ==
    ASSUME NEW r, NEW S, IsFiniteSet(S), \A f \in S : r[f].hooked \in Nat
    PROVE  /\ Hooked(r, S) \in Nat
           /\ S = {} => Hooked(r, S) = 0
           /\ \A f \in S : Hooked(r, S) = r[f].hooked + Hooked(r, S \ {f})
  <1>1. Hooked(r, S) = Cardinality(Chained(r, S))
    BY HookedCount
  <1>2. \A f \in S : Hooked(r, S \ {f}) = Cardinality(Chained(r, S \ {f}))
    <2> TAKE f \in S
    <2>1. IsFiniteSet(S \ {f}) /\ \A g \in S \ {f} : r[g].hooked \in Nat
      BY FS_RemoveElement
    <2> QED
      BY <2>1, HookedCount
  <1> QED
    BY <1>1, <1>2, ChainedCount

\* Flows with the same numbers of packets
LEMMA HookedSame ==
    ASSUME NEW r, NEW S, IsFiniteSet(S), \A f \in S : r[f].hooked \in Nat,
           NEW q, \A f \in S : q[f].hooked = r[f].hooked
    PROVE  Hooked(q, S) = Hooked(r, S)
  <1>1. \A f \in S : q[f].hooked \in Nat
    OBVIOUS
  <1>2. Hooked(q, S) = Cardinality(Chained(q, S)) /\ Hooked(r, S) = Cardinality(Chained(r, S))
    BY <1>1, HookedCount
  <1>3. Chained(q, S) = Chained(r, S)
    BY DEF Chained
  <1> QED
    BY <1>2, <1>3

\* One flow with another number of packets
LEMMA HookedExcept ==
    ASSUME NEW r, NEW S, IsFiniteSet(S), \A f \in S : r[f].hooked \in Nat,
           NEW q, NEW x \in S, q[x].hooked \in Nat,
           \A f \in S \ {x} : q[f].hooked = r[f].hooked
    PROVE  Hooked(q, S) = (Hooked(r, S) - r[x].hooked) + q[x].hooked
  <1>1. IsFiniteSet(S \ {x}) /\ \A g \in S \ {x} : r[g].hooked \in Nat
    BY FS_RemoveElement
  <1>2. Hooked(q, S \ {x}) = Hooked(r, S \ {x})
    BY <1>1, HookedSame
  <1>3. Hooked(r, S \ {x}) \in Nat
    BY <1>1, HookedOne
  <1>4. Hooked(r, S) = r[x].hooked + Hooked(r, S \ {x})
    BY HookedOne
  <1>5. \A f \in S : q[f].hooked \in Nat
    OBVIOUS
  <1>6. Hooked(q, S) = q[x].hooked + Hooked(q, S \ {x})
    BY <1>5, HookedOne
  <1>7. r[x].hooked \in Nat
    OBVIOUS
  <1> QED
    BY <1>2, <1>3, <1>4, <1>6, <1>7

\* There are finitely many flows, as each was created by a step.
PInv == IsFiniteSet(alloc) /\ PacketsAccounted

\* The numbers that PacketsAccounted is about
LEMMA AccountTypes ==
    ASSUME IInv
    PROVE  /\ taken \in Nat /\ freed \in Nat /\ InHand \in {0, 1}
           /\ alloc \subseteq Flows /\ \A f \in alloc : flow[f].hooked \in Nat
  <1>1. /\ taken \in 0..MaxPackets /\ MaxPackets \in Nat /\ freed \in Nat
        /\ alloc \subseteq Flows /\ flow \in [Flows -> FlowRecord]
    BY TableAssumption DEF IInv, TypeOK, OtherTypes, TableTypes
  <1>2. \A f \in alloc : flow[f].hooked \in Nat
    BY <1>1 DEF FlowRecord
  <1>3. InHand \in {0, 1}
    BY DEF InHand
  <1> QED
    BY <1>1, <1>2, <1>3

\* The same after a step
LEMMA AccountTypesNext ==
    ASSUME IInv'
    PROVE  /\ taken' \in Nat /\ freed' \in Nat /\ InHand' \in {0, 1}
           /\ alloc' \subseteq Flows /\ \A f \in alloc' : flow'[f].hooked \in Nat
  <1>1. /\ taken' \in 0..MaxPackets /\ MaxPackets \in Nat /\ freed' \in Nat
        /\ alloc' \subseteq Flows /\ flow' \in [Flows -> FlowRecord]
    BY TableAssumption DEF IInv, TypeOK, OtherTypes, TableTypes
  <1>2. \A f \in alloc' : flow'[f].hooked \in Nat
    BY <1>1 DEF FlowRecord
  <1>3. InHand' \in {0, 1}
    BY DEF InHand
  <1> QED
    BY <1>1, <1>2, <1>3

\* What a step may do to the account of one flow: as many packets as leave
\* the hands of the packet thread, and are not freed, are hooked.
LEMMA AccountOne ==
    ASSUME IInv, PInv, IInv', UNCHANGED alloc, NEW x \in alloc,
           \A f \in alloc \ {x} : flow'[f].hooked = flow[f].hooked,
           (taken' - freed') - InHand'
             = (((taken - freed) - InHand) - flow[x].hooked) + flow'[x].hooked
    PROVE  PInv'
  <1>1. /\ taken \in Nat /\ freed \in Nat /\ InHand \in {0, 1}
        /\ \A f \in alloc : flow[f].hooked \in Nat
    BY AccountTypes
  <1>2. /\ taken' \in Nat /\ freed' \in Nat /\ InHand' \in {0, 1}
        /\ \A f \in alloc : flow'[f].hooked \in Nat
    BY AccountTypesNext
  <1>3. Hooked(flow', alloc) = (Hooked(flow, alloc) - flow[x].hooked) + flow'[x].hooked
    BY <1>1, <1>2, HookedExcept DEF PInv
  <1>4. Hooked(flow, alloc) \in Nat
    BY <1>1, HookedOne DEF PInv
  <1>5. taken = freed + Hooked(flow, alloc) + InHand
    BY DEF PInv, PacketsAccounted
  <1>6. flow[x].hooked \in Nat /\ flow'[x].hooked \in Nat
    BY <1>1, <1>2
  <1>7. taken' = freed' + Hooked(flow', alloc) + InHand'
    <2> DEFINE A == Hooked(flow, alloc)
               B == Hooked(flow', alloc)
               a == flow[x].hooked
               b == flow'[x].hooked
               h == InHand
               k == InHand'
    <2>1. /\ A \in Nat /\ a \in Nat /\ b \in Nat /\ h \in Int /\ k \in Int
          /\ B = (A - a) + b /\ taken = freed + A + h
          /\ (taken' - freed') - k = (((taken - freed) - h) - a) + b
      BY <1>1, <1>2, <1>3, <1>4, <1>5, <1>6
    <2> HIDE DEF A, B, a, b, h, k
    <2>2. taken' = freed' + B + k
      BY <1>1, <1>2, <2>1
    <2> QED
      BY <2>2 DEF B, k
  <1>8. IsFiniteSet(alloc') /\ Hooked(flow', alloc') = Hooked(flow', alloc)
    BY DEF PInv
  <1> QED
    BY <1>7, <1>8 DEF PInv, PacketsAccounted

\* No flow has more or fewer packets
SameHooks == \A f \in alloc : flow'[f].hooked = flow[f].hooked

\* ... or to none.
LEMMA AccountSame ==
    ASSUME IInv, PInv, IInv', UNCHANGED alloc, SameHooks,
           taken' + freed + InHand = taken + freed' + InHand'
    PROVE  PInv'
  <1>1. /\ taken \in Nat /\ freed \in Nat /\ InHand \in {0, 1}
        /\ \A f \in alloc : flow[f].hooked \in Nat
    BY AccountTypes
  <1>2. taken' \in Nat /\ freed' \in Nat /\ InHand' \in {0, 1}
    BY AccountTypesNext
  <1>3. Hooked(flow', alloc) = Hooked(flow, alloc)
    BY <1>1, HookedSame DEF PInv, SameHooks
  <1>4. Hooked(flow, alloc) \in Nat
    BY <1>1, HookedOne DEF PInv
  <1>5. taken = freed + Hooked(flow, alloc) + InHand
    BY DEF PInv, PacketsAccounted
  <1>6. taken' = freed' + Hooked(flow, alloc) + InHand'
    <2>1. PICK t, g, a, h, u, v, k \in Int :
            /\ t = taken /\ g = freed /\ a = Hooked(flow, alloc) /\ h = InHand
            /\ u = taken' /\ v = freed' /\ k = InHand'
      BY <1>1, <1>2, <1>4
    <2>2. t = g + a + h /\ u + g + h = t + v + k
      BY <1>5, <2>1, Zenon
    <2>3. u = v + a + k
      BY <2>2
    <2> QED
      BY <2>1, <2>3, Zenon
  <1> QED
    BY <1>3, <1>6 DEF PInv, PacketsAccounted

\* Flow::~Flow
LEMMA AccountDelete ==
    ASSUME IInv, PInv, NEW x \in alloc, DeleteFlow(x), UNCHANGED <<flow, taken>>,
           InHand' = InHand
    PROVE  PInv'
  <1>1. /\ taken \in Nat /\ freed \in Nat /\ InHand \in {0, 1}
        /\ \A f \in alloc : flow[f].hooked \in Nat
    BY AccountTypes
  <1>2. alloc' = alloc \ {x} /\ freed' = freed + flow[x].hooked
    BY DEF DeleteFlow
  <1>3. IsFiniteSet(alloc \ {x})
    BY FS_RemoveElement DEF PInv
  <1>4. /\ Hooked(flow, alloc) = flow[x].hooked + Hooked(flow, alloc \ {x})
        /\ flow[x].hooked \in Nat
    BY <1>1, HookedOne DEF PInv
  <1>5. Hooked(flow, alloc \ {x}) \in Nat
    <2>1. \A f \in alloc \ {x} : flow[f].hooked \in Nat
      BY <1>1
    <2> QED
      BY <1>3, <2>1, HookedOne
  <1>6. taken = freed + Hooked(flow, alloc) + InHand
    BY DEF PInv, PacketsAccounted
  <1>7. taken = (freed + flow[x].hooked) + Hooked(flow, alloc \ {x}) + InHand
    <2> DEFINE A == Hooked(flow, alloc)
               B == Hooked(flow, alloc \ {x})
               a == flow[x].hooked
               h == InHand
    <2>1. B \in Nat /\ a \in Nat /\ h \in Int /\ taken = freed + A + h /\ A = a + B
      BY <1>1, <1>4, <1>5, <1>6
    <2> HIDE DEF A, B, a, h
    <2>2. taken = (freed + a) + B + h
      BY <1>1, <2>1
    <2> QED
      BY <2>2 DEF B, a, h
  <1> QED
    BY <1>2, <1>3, <1>7 DEF PInv, PacketsAccounted

\* create: the new flow has no packets.
LEMMA AccountCreate ==
    ASSUME IInv, PInv, IInv', PCreate
    PROVE  PInv'
  <1>0. flow \in [Flows -> FlowRecord] /\ alloc \subseteq Flows
    BY DEF IInv, TypeOK, TableTypes
  <1> DEFINE s == IF psrc THEN pkt.socket ELSE Reverse(pkt.socket)
  <1>1. PICK f \in Flows \ alloc, w \in {{}, BOOLEAN}, a \in {0, MaxAge} :
          alloc' = alloc \cup {f} /\ flow' = [flow EXCEPT ![f] = NewFlow(s, w, a)]
    BY DEF PCreate
  <1>2. flow'[f].hooked = 0 /\ \A g \in alloc : flow'[g] = flow[g]
    <2>1. NewFlow(s, w, a).hooked = 0
      BY DEF NewFlow
    <2>2. flow'[f] = NewFlow(s, w, a) /\ \A g \in alloc : flow'[g] = flow[g]
      BY <1>0, <1>1
    <2> QED
      BY <2>1, <2>2
  <1>3. UNCHANGED <<taken, freed>> /\ InHand' = InHand
    BY DEF PCreate, history, InHand
  <1>4. \A g \in alloc : flow[g].hooked \in Nat
    BY AccountTypes
  <1>5. \A g \in alloc' : flow'[g].hooked \in Nat
    BY AccountTypesNext
  <1>6. IsFiniteSet(alloc') /\ alloc' \ {f} = alloc /\ f \in alloc'
    <2>1. IsFiniteSet(alloc \cup {f})
      BY FS_AddElement DEF PInv
    <2> QED
      BY <1>1, <2>1
  <1>7. Hooked(flow', alloc') = flow'[f].hooked + Hooked(flow', alloc' \ {f})
    BY <1>5, <1>6, HookedOne
  <1>8. Hooked(flow', alloc) = Hooked(flow, alloc)
    BY <1>2, <1>4, HookedSame DEF PInv
  <1>9. Hooked(flow, alloc) \in Nat
    BY <1>4, HookedOne DEF PInv
  <1>10. Hooked(flow', alloc') = Hooked(flow, alloc)
    <2>1. Hooked(flow', alloc') = 0 + Hooked(flow, alloc)
      BY <1>2, <1>6, <1>7, <1>8, Zenon
    <2>2. 0 + Hooked(flow, alloc) = Hooked(flow, alloc)
      BY <1>9
    <2> QED
      BY <2>1, <2>2, Zenon
  <1> QED
    BY <1>3, <1>6, <1>10 DEF PInv, PacketsAccounted

\* The packets of a flow after each operation on its members
LEMMA HookedAfter ==
    ASSUME NEW r \in FlowRecord, NEW p, NEW s \in BOOLEAN
    PROVE  /\ CalPacket(r, p, s).hooked = r.hooked
           /\ HookPacket(r, s).hooked = r.hooked + 1
           /\ ResetFlow(r).hooked = 0
           /\ Extract(r).hooked = r.hooked
  <1>1. CalPacket(r, p, s).hooked = r.hooked
    <2> DEFINE v == IF s THEN Minimum(r.pkts_src + 1, MinSrcPkts) ELSE r.pkts_src
               w == IF p.flags = "FIN" THEN r.fins \cup {s} ELSE r.fins
    <2>1. CalPacket(r, p, s) = [r EXCEPT !.pkts_src = v, !.age = 0, !.fins = w]
      BY Zenon DEF CalPacket
    <2> HIDE DEF v, w
    <2>2. [r EXCEPT !.pkts_src = v, !.age = 0, !.fins = w].hooked = r.hooked
      BY DEF FlowRecord
    <2> QED
      BY <2>1, <2>2, Zenon
  <1>2. HookPacket(r, s).hooked = r.hooked + 1
    <2> DEFINE h == r.hooked + 1
               w == r.wild \ {s}
    <2>1. HookPacket(r, s) = [r EXCEPT !.hooked = h, !.wild = w]
      BY Zenon DEF HookPacket
    <2> HIDE DEF h, w
    <2>2. [r EXCEPT !.hooked = h, !.wild = w].hooked = h
      BY DEF FlowRecord
    <2> QED
      BY <2>1, <2>2, Zenon DEF h
  <1>3. ResetFlow(r).hooked = 0
    BY DEF ResetFlow, FlowRecord
  <1>4. Extract(r).hooked = r.hooked
    <2>1. ASSUME NEW n, NEW b
          PROVE  [r EXCEPT !.processed = b, !.announced = n].hooked = r.hooked
      BY DEF FlowRecord
    <2> QED
      BY <2>1, Zenon DEF Extract
  <1> QED
    BY <1>1, <1>2, <1>3, <1>4

\* The steps of the packet thread before it has a flow, and after it is done
\* with one
LEMMA AccountAside ==
    ASSUME IInv, PInv, IInv',
           \/ PLoop \/ PIdle \/ (\E p \in Packets : PDeq(p)) \/ PFindRev \/ PFindFwd
           \/ PCreateCnt \/ PClose \/ PUnlock \/ (\E why : Fail(why))
    PROVE  PInv'
  <1>0. taken \in Nat /\ freed \in Nat
    BY AccountTypes
  <1>1. UNCHANGED <<alloc, flow>>
    BY DEF PLoop, PIdle, PDeq, PFindRev, PFindFwd, PCreateCnt, PClose, PUnlock, Fail, table
  <1>2. taken' + freed + InHand = taken + freed' + InHand'
    <2>1. CASE PLoop \/ PIdle
      BY <1>0, <2>1 DEF PLoop, PIdle, InHand, history
    <2>2. CASE \E p \in Packets : PDeq(p)
      BY <1>0, <2>2 DEF PDeq, InHand
    <2>3. CASE PFindRev
      BY <1>0, <2>3 DEF PFindRev, InHand, history
    <2>4. CASE PFindFwd
      BY <1>0, <2>4 DEF PFindFwd, InHand, PReturn
    <2>5. CASE PCreateCnt \/ PClose \/ PUnlock
      BY <1>0, <2>5 DEF PCreateCnt, PClose, PUnlock, PReturn, InHand, history
    <2>6. CASE \E why : Fail(why)
      BY <1>0, <2>6 DEF Fail, InHand, history, packetT
    <2> QED
      BY <2>1, <2>2, <2>3, <2>4, <2>5, <2>6
  <1> QED
    BY <1>1, <1>2, AccountSame DEF SameHooks

\* Flow::add_packet
LEMMA AccountAdd ==
    ASSUME IInv, PInv, IInv', PRemove \/ PSyn \/ POther
    PROVE  PInv'
  <1>0. /\ taken \in Nat /\ freed \in Nat /\ \A f \in alloc : flow[f].hooked \in Nat
        /\ alloc \subseteq Flows /\ flow \in [Flows -> FlowRecord] /\ psrc \in BOOLEAN
    BY AccountTypes DEF IInv, TypeOK, TableTypes, PacketTypes
  <1>1. pflow \in alloc /\ InHand = 1 /\ InHand' = 0 /\ UNCHANGED <<alloc, taken>>
    BY DEF PRemove, PSyn, POther, EnterAdd, PReturn, InHand
  <1>2. pflow \in Flows /\ flow[pflow] \in FlowRecord /\ flow[pflow].hooked \in Nat
    BY <1>0, <1>1
  <1> DEFINE r == flow[pflow]
  <1>3. ASSUME NEW q, q.hooked \in Nat, flow' = [flow EXCEPT ![pflow] = q],
               freed' = (freed + 1 + r.hooked) - q.hooked
        PROVE  PInv'
    <2>1. flow'[pflow] = q /\ \A f \in alloc \ {pflow} : flow'[f].hooked = flow[f].hooked
      BY <1>0, <1>2, <1>3
    <2>2. (taken' - freed') - InHand'
            = (((taken - freed) - InHand) - flow[pflow].hooked) + flow'[pflow].hooked
      <3>1. PICK t, g, a, b \in Int : /\ t = taken /\ g = freed /\ a = r.hooked
                                      /\ b = q.hooked
        BY <1>0, <1>2, <1>3
      <3>2. (t - ((g + 1 + a) - b)) - 0 = (((t - g) - 1) - a) + b
        OBVIOUS
      <3>3. /\ taken' = t /\ freed' = (g + 1 + a) - b /\ InHand' = 0 /\ InHand = 1
            /\ flow[pflow].hooked = a /\ flow'[pflow].hooked = b
        BY <1>1, <1>3, <2>1, <3>1, Zenon
      <3> QED
        BY <3>1, <3>2, <3>3, Zenon
    <2> QED
      BY <1>1, <2>1, <2>2, AccountOne
  <1>4. CASE PRemove
    <2>1. freed' = freed + 1 /\ UNCHANGED <<alloc, taken>>
      BY <1>4 DEF PRemove
    <2>2. SameHooks
      <3>1. CASE UNCHANGED flow
        BY <3>1 DEF SameHooks
      <3>2. CASE flow' = [flow EXCEPT ![pflow] = CalPacket(r, pkt, psrc)]
        BY <1>0, <1>2, <3>2, HookedAfter DEF SameHooks
      <3> QED
        BY <1>4, <3>1, <3>2 DEF PRemove
    <2> QED
      BY <1>0, <1>1, <2>1, <2>2, AccountSame
  <1>5. CASE PSyn
    <2>1. CASE IsReset
      <3> DEFINE q == CalPacket(ResetFlow(r), pkt, psrc)
      <3>1. flow' = [flow EXCEPT ![pflow] = q] /\ freed' = freed + 1 + r.hooked
        BY <1>5, <2>1 DEF PSyn
      <3>2. q.hooked = 0
        <4>1. ResetFlow(r) \in FlowRecord /\ ResetFlow(r).hooked = 0
          BY <1>0, <1>2, ResetFlowFacts, HookedAfter
        <4> QED
          BY <1>0, <4>1, HookedAfter
      <3> HIDE DEF q
      <3>3. freed' = (freed + 1 + r.hooked) - q.hooked
        BY <1>0, <1>2, <3>1, <3>2
      <3>4. q.hooked \in Nat
        BY <3>2
      <3> QED
        BY <1>3, <3>1, <3>3, <3>4
    <2>2. CASE ~IsReset
      <3> DEFINE q == CalPacket(r, pkt, psrc)
      <3>1. flow' = [flow EXCEPT ![pflow] = q] /\ freed' = freed + 1 + 0
        BY <1>5, <2>2 DEF PSyn
      <3>2. q.hooked = r.hooked
        BY <1>0, <1>2, HookedAfter
      <3> HIDE DEF q
      <3>3. freed' = (freed + 1 + r.hooked) - q.hooked
        BY <1>0, <1>2, <3>1, <3>2
      <3> QED
        BY <1>2, <1>3, <3>1, <3>2, <3>3
    <2> QED
      BY <2>1, <2>2
  <1>6. CASE POther
    <2>1. CASE /\ flow' = [flow EXCEPT ![pflow] = CalPacket(HookPacket(r, psrc), pkt, psrc)]
               /\ UNCHANGED freed
      <3> DEFINE q == CalPacket(HookPacket(r, psrc), pkt, psrc)
      <3>1. q.hooked = r.hooked + 1
        <4>1. HookPacket(r, psrc) \in FlowRecord /\ HookPacket(r, psrc).hooked = r.hooked + 1
          BY <1>0, <1>2, HookPacketFacts, HookedAfter
        <4> QED
          BY <1>0, <4>1, HookedAfter
      <3>2. flow' = [flow EXCEPT ![pflow] = q]
        BY <2>1
      <3> HIDE DEF q
      <3>3. freed' = (freed + 1 + r.hooked) - q.hooked
        BY <1>0, <1>2, <2>1, <3>1
      <3>4. q.hooked \in Nat
        BY <1>2, <3>1
      <3> QED
        BY <1>3, <3>2, <3>3, <3>4
    <2>2. CASE /\ flow' = [flow EXCEPT ![pflow] = CalPacket(r, pkt, psrc)]
               /\ freed' = freed + 1
      <3> DEFINE q == CalPacket(r, pkt, psrc)
      <3>1. q.hooked = r.hooked
        BY <1>0, <1>2, HookedAfter
      <3>2. flow' = [flow EXCEPT ![pflow] = q]
        BY <2>2
      <3> HIDE DEF q
      <3>3. freed' = (freed + 1 + r.hooked) - q.hooked
        BY <1>0, <1>2, <2>2, <3>1
      <3> QED
        BY <1>2, <1>3, <3>1, <3>2, <3>3
    <2> QED
      BY <1>6, <2>1, <2>2 DEF POther
  <1> QED
    BY <1>4, <1>5, <1>6

\* The owner of a flow deletes it: it is allocated.
LEMMA AccountOwner ==
    ASSUME IInv, PInv, PDrop \/ FDelete
    PROVE  PInv'
  <1>1. PHolds \subseteq alloc /\ FHolds \subseteq alloc
    BY OneOwnerParts DEF IInv, Owned, OneOwner
  <1>2. CASE PDrop
    <2>1. pflow \in alloc
      BY <1>1, <1>2 DEF PDrop, PHolds
    <2>2. DeleteFlow(pflow) /\ UNCHANGED <<flow, taken>> /\ InHand' = InHand
      BY <1>2 DEF PDrop, PReturn, InHand
    <2> QED
      BY <2>1, <2>2, AccountDelete
  <1>3. CASE FDelete
    <2>1. fflow \in alloc
      BY <1>1, <1>3 DEF FDelete, FHolds
    <2>2. DeleteFlow(fflow) /\ UNCHANGED <<flow, taken>> /\ InHand' = InHand
      BY <1>3 DEF FDelete, packetT, InHand
    <2> QED
      BY <2>1, <2>2, AccountDelete
  <1> QED
    BY <1>2, <1>3

\* The other threads neither take nor free a packet.
LEMMA AccountOthers ==
    ASSUME IInv, PInv, IInv',
           \/ FLoop \/ FDeq \/ FExtract \/ Scrubber \/ (\E t \in Ticker : Timer(t))
           \/ Stop \/ TimerDelete \/ Tick \/ UNCHANGED vars
    PROVE  PInv'
  <1>0. /\ taken \in Nat /\ freed \in Nat /\ alloc \subseteq Flows
        /\ flow \in [Flows -> FlowRecord] /\ InHand \in {0, 1} /\ Locals
    BY AccountTypes DEF IInv, TypeOK, TableTypes
  <1>1. UNCHANGED <<alloc, packetT, history>>
    BY DEF FLoop, FDeq, FExtract, Scrubber, SWake, SLock, SVisit, SClose, SUnlock,
           Timer, TFire, TLock, TVisit, TUnlock, Stop, TimerDelete, Tick, table, vars
  <1>2. taken' + freed + InHand = taken + freed' + InHand'
    <2>1. UNCHANGED <<taken, freed>> /\ InHand' = InHand
      BY <1>1 DEF packetT, history, InHand
    <2> QED
      BY <1>0, <2>1
  <1>3. SameHooks
    <2>1. CASE UNCHANGED flow
      BY <2>1 DEF SameHooks
    <2>2. ASSUME NEW f \in Flows, flow' = [flow EXCEPT ![f] = Extract(flow[f])]
          PROVE  SameHooks
      <3>1. Extract(flow[f]).hooked = flow[f].hooked
        <4>1. TRUE \in BOOLEAN /\ flow[f] \in FlowRecord
          BY <1>0
        <4> QED
          BY <4>1, HookedAfter
      <3> QED
        BY <1>0, <2>2, <3>1 DEF SameHooks
    <2>3. CASE Tick
      <3>1. ASSUME NEW f \in alloc PROVE flow'[f].hooked = flow[f].hooked
        <4>1. flow[f] \in FlowRecord /\ f \in Flows
          BY <1>0
        <4>2. flow'[f] = [flow[f] EXCEPT !.age = Minimum(flow[f].age + 1, MaxAge)]
          BY <2>3, <4>1, Zenon DEF Tick
        <4>3. ASSUME NEW a PROVE [flow[f] EXCEPT !.age = a].hooked = flow[f].hooked
          BY <4>1 DEF FlowRecord
        <4> QED
          BY <4>2, <4>3, Zenon
      <3> QED
        BY <3>1 DEF SameHooks
    <2>4. CASE FExtract
      BY <1>0, <2>2, <2>4 DEF FExtract, Locals
    <2>5. ASSUME NEW t \in Ticker, NEW f \in Flows, TVisit(t, f) PROVE SameHooks
      BY <2>2, <2>5 DEF TVisit
    <2>6. \/ UNCHANGED flow \/ Tick \/ FExtract
          \/ \E t \in Ticker : \E f \in Flows : TVisit(t, f)
      BY DEF FLoop, FDeq, Scrubber, SWake, SLock, SVisit, SClose, SUnlock,
             Timer, TFire, TLock, TUnlock, Stop, TimerDelete, table, vars
    <2> QED
      BY <2>1, <2>3, <2>4, <2>5, <2>6
  <1> QED
    BY <1>1, <1>2, <1>3, AccountSame

\* At first no packet was taken.
LEMMA InitPInv == Init => PInv
  <1> SUFFICES ASSUME Init PROVE PInv
    OBVIOUS
  <1>1. alloc = {} /\ taken = 0 /\ freed = 0 /\ InHand = 0
    BY DEF Init, InHand
  <1>2. IsFiniteSet({})
    BY FS_EmptySet
  <1>3. Hooked(flow, {}) = 0
    <2>1. \A f \in {} : flow[f].hooked \in Nat
      OBVIOUS
    <2> QED
      BY <1>2, <2>1, HookedOne
  <1> QED
    BY <1>1, <1>2, <1>3 DEF PInv, PacketsAccounted

\* Every step keeps the account.
LEMMA NextPInv == ASSUME IInv, PInv, [Next]_vars PROVE PInv'
  <1>0. IInv'
    BY NextIInv
  <1>1. CASE PacketThread
    <2>1. CASE PCreate
      BY <1>0, <2>1, AccountCreate
    <2>2. CASE PRemove \/ PSyn \/ POther
      BY <1>0, <2>2, AccountAdd
    <2>3. CASE PDrop
      BY <2>3, AccountOwner
    <2>4. CASE \/ PLoop \/ PIdle \/ (\E p \in Packets : PDeq(p)) \/ PFindRev \/ PFindFwd
               \/ PCreateCnt \/ PClose \/ PUnlock
      BY <1>0, <2>4, AccountAside
    <2>5. CASE PAddStale \/ PRemoveAgain \/ PDropFails \/ PUnlockFails \/ PResetFails
      <3>1. \E why : Fail(why)
        BY <2>5 DEF PAddStale, PRemoveAgain, PDropFails, PUnlockFails, PResetFails
      <3> QED
        BY <1>0, <3>1, AccountAside
    <2> QED
      BY <1>1, <2>1, <2>2, <2>3, <2>4, <2>5 DEF PacketThread
  <1>2. CASE FlowThread
    <2>1. CASE FDelete
      BY <2>1, AccountOwner
    <2>2. CASE FDeleteFails
      <3>1. \E why : Fail(why)
        BY <2>2 DEF FDeleteFails
      <3> QED
        BY <1>0, <3>1, AccountAside
    <2>3. CASE FLoop \/ FDeq \/ FExtract
      BY <1>0, <2>3, AccountOthers
    <2> QED
      BY <1>2, <2>1, <2>2, <2>3 DEF FlowThread
  <1>3. CASE \/ Scrubber \/ (\E t \in Ticker : Timer(t)) \/ Stop \/ TimerDelete \/ Tick
             \/ UNCHANGED vars
    BY <1>0, <1>3, AccountOthers
  <1> QED
    BY <1>1, <1>2, <1>3 DEF Next, Step, Halted

\* However many packets and flows there are and whichever thread deletes a
\* flow, the packets that add_packet has taken are freed once, hooked on an
\* allocated flow, or in the hands of the packet thread.
THEOREM PacketsAreAccounted == Spec => []PacketsAccounted
  <1>1. Init => IInv /\ PInv
    BY InitIInv, InitPInv
  <1>2. IInv /\ PInv /\ [Next]_vars => (IInv /\ PInv)'
    BY NextIInv, NextPInv
  <1>3. PInv => PacketsAccounted
    BY DEF PInv
  <1> QED
    BY <1>1, <1>2, <1>3, PTL DEF Spec
==============================================================================
