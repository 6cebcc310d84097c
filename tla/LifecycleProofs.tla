--------------------------- MODULE LifecycleProofs ---------------------------
(***************************************************************************)
(* The life of an analysis, for any set of requests and of packets, any    *)
(* number of interfaces, protocols and callbacks: the threads that are     *)
(* joined have exited, no callback starts after start_analysis has         *)
(* returned, packets reach the flow tables in the order of capture, and    *)
(* only packets without data leak.                                         *)
(***************************************************************************)
EXTENDS Lifecycle, WellFoundedInduction, TLAPS

-----------------------------------------------------------------------------
(***************************************************************************)
(* The threads and the timers                                              *)
(***************************************************************************)

\* Where a thread can be
Place == {"none", "create", "wait", "open", "next", "test", "enq", "deq",
          "preprocess", "loop", "sleep", "exited"}

Types ==
    /\ req \in Requests
    /\ hpc \in {"receive", "configure", "join", "free", "close", "done",
                "failed"}
    /\ netint \in 1..Len(req.netints) /\ joined \in 0..Len(JoinOrder)
    /\ pc \in [Thread -> Place]
    /\ it \in [Thread -> Nat]
    /\ timers \subseteq {"second", "duration"} \X NetInt
    /\ callbacks \in [NetInt -> 0..MaxCallbacks]

\* Threads run between the start of an analysis and the last join
Running == \A t \in Thread : hpc = "join" <=> pc[t] # "none"

Joined == /\ hpc # "join" => joined = 0
          /\ \A k \in 1..joined : pc[JoinOrder[k]] = "exited"

\* A loop over the protocols of an analysis is at one of them
Loops == \A t \in Thread : IF hpc = "join" THEN it[t] \in Protocols ELSE it[t] = 1

\* The timer of an analysis is armed while its timer thread waits
SecondTimer ==
    \A n \in NetInt : <<"second", n>> \in timers => n = netint /\ pc["timer"] = "wait"

CInv == Types /\ Running /\ Joined /\ Loops /\ SecondTimer

\* The threads of an analysis
LEMMA Threads ==
    /\ Thread = {"timer", "capture", "pktq", "flowq", "scrub", "pkt"}
    /\ Len(JoinOrder) = 6 /\ JoinOrder[1] = "timer"
    /\ \A k \in 1..6 : JoinOrder[k] \in Thread
  BY DEF Thread, JoinOrder, ToSet

\* What the handler was asked for
LEMMA RequestFacts ==
    ASSUME Types
    PROVE  /\ Len(req.netints) \in 1..MaxNetInts /\ MaxNetInts \in Nat
           /\ netint \in NetInt /\ netint \in Nat
           /\ NumProtocols \in 0..MaxProtocols /\ MaxProtocols \in Nat
           /\ MaxCallbacks \in Nat
  <1>1. Request(req)
    BY LifecycleAssumption DEF Types
  <1>2. /\ req.netints \in Seq(0..MaxProtocols) /\ Len(req.netints) \in 1..MaxNetInts
        /\ MaxNetInts \in Nat /\ MaxProtocols \in Nat /\ MaxCallbacks \in Nat
    BY <1>1, LifecycleAssumption DEF Request
  <1>3. netint \in 1..Len(req.netints)
    BY DEF Types
  <1>4. req.netints[netint] \in 0..MaxProtocols
    BY <1>2, <1>3
  <1> QED
    BY <1>2, <1>3, <1>4 DEF NetInt, NumProtocols

\* A thread that has neither ended nor been joined goes on.
LEMMA ThreadGoesOn ==
    ASSUME CInv, NEW t \in Thread, pc[t] \notin {"none", "exited"},
           NEW s \in Place \ {"none"}, GoesOn(t, s), UNCHANGED handler
    PROVE  /\ pc' \in [Thread -> Place] /\ Running' /\ Joined'
           /\ t # "timer" => pc'["timer"] = pc["timer"]
           /\ hpc = "join"
  <1>1. /\ pc' \in [Thread -> Place] /\ pc'[t] = s
        /\ \A u \in Thread : u # t => pc'[u] = pc[u]
    BY DEF GoesOn, CInv, Types
  <1>2. hpc = "join" /\ hpc' = hpc /\ joined' = joined
    BY DEF CInv, Running, handler
  <1>3. Running'
    BY <1>1, <1>2 DEF CInv, Running
  <1>4. Joined'
    BY <1>1, <1>2, Threads DEF CInv, Types, Joined
  <1> QED
    BY <1>1, <1>2, <1>3, <1>4, Threads

\* A step that leaves the threads and the handler where they are
LEMMA NoThreadMoves ==
    ASSUME CInv, UNCHANGED <<handler, pc>>
    PROVE  Running' /\ Joined' /\ pc' \in [Thread -> Place]
  BY DEF CInv, Types, Running, Joined, handler

\* A loop over the protocols stays within them.
LEMMA LoopFacts ==
    ASSUME CInv, NEW t \in Thread, hpc = "join", UNCHANGED handler,
           it' = [it EXCEPT ![t] = IF it[t] < NumProtocols THEN it[t] + 1 ELSE 1]
    PROVE  Loops' /\ it' \in [Thread -> Nat] /\ it[t] \in Protocols
  <1>1. /\ NumProtocols \in Nat /\ it \in [Thread -> Nat] /\ UNCHANGED NumProtocols
        /\ \A u \in Thread : it[u] \in 1..NumProtocols
    BY RequestFacts DEF CInv, Types, Loops, Protocols, handler, NumProtocols
  <1> HIDE DEF NumProtocols
  <1>2. it'[t] \in 1..NumProtocols /\ \A u \in Thread : u # t => it'[u] = it[u]
    BY <1>1
  <1> QED
    BY <1>1, <1>2 DEF Loops, Protocols, handler

\* A step of a thread other than the timer thread
LEMMA WorkerKeeps ==
    ASSUME CInv, UNCHANGED threadOnly, Running', Joined',
           pc' \in [Thread -> Place], pc'["timer"] = pc["timer"],
           Loops', it' \in [Thread -> Nat]
    PROVE  CInv'
  <1>1. Types'
    BY DEF CInv, Types, threadOnly, handler
  <1>2. SecondTimer'
    BY DEF CInv, SecondTimer, threadOnly, handler
  <1> QED
    BY <1>1, <1>2 DEF CInv

\* A step of a thread that is not in a loop over the protocols
LEMMA ThreadKeeps ==
    ASSUME CInv, UNCHANGED <<threadOnly, it>>, NEW t \in Thread \ {"timer"},
           pc[t] \notin {"none", "exited"}, NEW s \in Place \ {"none"}, GoesOn(t, s)
    PROVE  CInv'
  <1>1. UNCHANGED handler
    BY DEF threadOnly
  <1>2. /\ pc' \in [Thread -> Place] /\ Running' /\ Joined' /\ hpc = "join"
        /\ pc'["timer"] = pc["timer"]
    BY <1>1, ThreadGoesOn
  <1>3. Loops' /\ it' \in [Thread -> Nat]
    BY <1>1 DEF CInv, Types, Loops, handler, Protocols, NumProtocols
  <1> QED
    BY <1>2, <1>3, WorkerKeeps

\* A step of a thread that goes on with the next protocol
LEMMA LoopKeeps ==
    ASSUME CInv, UNCHANGED threadOnly, NEW t \in Thread, LoopGoesOn(t)
    PROVE  CInv' /\ hpc = "join" /\ it[t] \in Protocols
  <1>1. UNCHANGED <<handler, pc>> /\ pc[t] = "loop"
    BY DEF threadOnly, LoopGoesOn
  <1>2. hpc = "join"
    BY <1>1 DEF CInv, Running
  <1>3. Loops' /\ it' \in [Thread -> Nat] /\ it[t] \in Protocols
    BY <1>1, <1>2, LoopFacts DEF LoopGoesOn
  <1> QED
    BY <1>1, <1>2, <1>3, NoThreadMoves, WorkerKeeps

\* The capture and the packet thread
LEMMA PacketControl ==
    ASSUME CInv, Capture \/ CaptureNext \/ PacketThread \/ Preprocess
    PROVE  CInv'
  <1>1. CASE Capture \/ CaptureNext
    <2>1. UNCHANGED <<threadOnly, it>>
      BY <1>1 DEF Capture, CaptureOpen, CaptureTest, CaptureEnq, CaptureNext
    <2>2. PICK s \in Place \ {"none"} :
               GoesOn("capture", s) /\ pc["capture"] \in Place \ {"none", "exited"}
      BY <1>1 DEF Capture, CaptureOpen, CaptureTest, CaptureEnq, CaptureNext, Place
    <2> QED
      BY <2>1, <2>2, ThreadKeeps, Threads
  <1>2. CASE PacketThread \/ Preprocess
    <2>1. UNCHANGED <<threadOnly, it>>
      BY <1>2 DEF PacketThread, Preprocess
    <2>2. PICK s \in Place \ {"none"} :
               GoesOn("pkt", s) /\ pc["pkt"] \in Place \ {"none", "exited"}
      BY <1>2 DEF PacketThread, Preprocess, Place
    <2> QED
      BY <2>1, <2>2, ThreadKeeps, Threads
  <1> QED
    BY <1>1, <1>2

\* The threads with a loop over the protocols
LEMMA QueueControl ==
    ASSUME CInv,
           \/ PacketQueueThread \/ FlowQueueThread \/ ScrubThread
           \/ \E t \in Thread : LoopEnds(t)
    PROVE  CInv'
  <1>1. CASE PacketQueueThread \/ FlowQueueThread
    BY <1>1, LoopKeeps, Threads DEF PacketQueueThread, FlowQueueThread
  <1>2. ASSUME NEW t \in Thread, LoopEnds(t) PROVE CInv'
    <2>1. /\ UNCHANGED <<threadOnly, it>> /\ t # "timer" /\ pc[t] = "loop"
          /\ GoesOn(t, "exited") /\ "exited" \in Place \ {"none"}
      BY <1>2 DEF LoopEnds, Place
    <2> QED
      BY <2>1, ThreadKeeps
  <1>3. CASE ScrubThread
    <2>1. UNCHANGED threadOnly /\ UNCHANGED handler /\ "scrub" \in Thread
      BY <1>3, Threads DEF ScrubThread, threadOnly
    <2>2. PICK s \in Place \ {"none"} :
               GoesOn("scrub", s) /\ pc["scrub"] \notin {"none", "exited"}
      BY <1>3 DEF ScrubThread, Place
    <2>3. /\ pc' \in [Thread -> Place] /\ Running' /\ Joined' /\ hpc = "join"
          /\ pc'["timer"] = pc["timer"]
      BY <2>1, <2>2, ThreadGoesOn
    <2>4. Loops' /\ it' \in [Thread -> Nat]
      <3>1. CASE UNCHANGED it
        BY <2>1, <3>1 DEF CInv, Types, Loops, handler, Protocols, NumProtocols
      <3>2. CASE it' = [it EXCEPT !["scrub"] = IF it["scrub"] < NumProtocols
                                               THEN it["scrub"] + 1 ELSE 1]
        BY <2>1, <2>3, <3>2, LoopFacts
      <3> QED
        BY <1>3, <3>1, <3>2 DEF ScrubThread
    <2> QED
      BY <2>1, <2>3, <2>4, WorkerKeeps
  <1> QED
    BY <1>1, <1>2, <1>3

\* The timer thread arms the timer of its analysis, and deletes it before it
\* exits.
LEMMA TimerControl == ASSUME CInv, TimerThread PROVE CInv'
  <1>0. UNCHANGED <<handler, it, callbacks>> /\ "timer" \in Thread
    BY Threads DEF TimerThread
  <1>1. PICK s \in {"wait", "exited"} :
             /\ GoesOn("timer", s) /\ pc["timer"] \in {"create", "wait"}
             /\ timers' = IF s = "wait" THEN timers \cup {<<"second", netint>>}
                          ELSE timers \ {<<"second", netint>>}
    BY DEF TimerThread, TimerDelete
  <1>2. /\ pc' \in [Thread -> Place] /\ Running' /\ Joined'
    BY <1>0, <1>1, ThreadGoesOn DEF Place
  <1>3. pc'["timer"] = s
    BY <1>0, <1>1 DEF GoesOn, CInv, Types
  <1>4. timers' \subseteq {"second", "duration"} \X NetInt
    BY <1>1, RequestFacts DEF CInv, Types
  <1>5. Types'
    BY <1>0, <1>2, <1>4 DEF CInv, Types, handler
  <1>6. Loops'
    BY <1>0 DEF CInv, Loops, handler, Protocols, NumProtocols
  <1>7. SecondTimer'
    <2>1. ASSUME NEW n \in NetInt, <<"second", n>> \in timers'
          PROVE  n = netint /\ s = "wait"
      <3>1. CASE s = "wait"
        BY <1>1, <2>1, <3>1 DEF CInv, SecondTimer
      <3>2. CASE s = "exited"
        BY <1>1, <2>1, <3>2 DEF CInv, SecondTimer
      <3> QED
        BY <3>1, <3>2
    <2> QED
      BY <1>0, <1>3, <2>1 DEF SecondTimer, handler
  <1> QED
    BY <1>2, <1>5, <1>6, <1>7 DEF CInv

\* The duration thread, the duration timer and the callbacks
LEMMA TimersControl ==
    ASSUME CInv, NEW n \in NetInt,
           \/ DurationThread(n) \/ DurationFires(n)
           \/ CallbackStarts(n) \/ CallbackEnds(n)
    PROVE  CInv'
  <1>0. UNCHANGED <<handler, pc, it>>
    BY DEF DurationThread, DurationFires, CallbackStarts, CallbackEnds
  <1>1. Running' /\ Joined' /\ pc' \in [Thread -> Place]
    BY <1>0, NoThreadMoves
  <1>2. timers' \subseteq {"second", "duration"} \X NetInt
    BY DEF CInv, Types, DurationThread, DurationFires, CallbackStarts, CallbackEnds,
           TimerDelete
  <1>3. callbacks' \in [NetInt -> 0..MaxCallbacks]
    <2>1. MaxCallbacks \in Nat /\ callbacks \in [NetInt -> 0..MaxCallbacks]
      BY RequestFacts DEF CInv, Types
    <2>2. CASE UNCHANGED callbacks
      BY <2>1, <2>2
    <2>3. CASE callbacks[n] < MaxCallbacks
               /\ callbacks' = [callbacks EXCEPT ![n] = callbacks[n] + 1]
      BY <2>1, <2>3
    <2>4. CASE callbacks[n] > 0 /\ callbacks' = [callbacks EXCEPT ![n] = callbacks[n] - 1]
      BY <2>1, <2>4
    <2> QED
      BY <2>2, <2>3, <2>4 DEF DurationThread, DurationFires, CallbackStarts, CallbackEnds
  <1>4. Types'
    BY <1>0, <1>1, <1>2, <1>3 DEF CInv, Types, handler
  <1>5. Loops'
    BY <1>0 DEF CInv, Loops, handler, Protocols, NumProtocols
  <1>6. SecondTimer'
    <2>1. \A m \in NetInt : <<"second", m>> \in timers' => <<"second", m>> \in timers
      BY DEF DurationThread, DurationFires, CallbackStarts, CallbackEnds, TimerDelete
    <2> QED
      BY <1>0, <2>1 DEF CInv, SecondTimer, handler
  <1> QED
    BY <1>1, <1>4, <1>5, <1>6 DEF CInv

\* Receive and Finish move the handler only, while no thread runs.
LEMMA HandlerMoves ==
    ASSUME CInv, hpc # "join",
           hpc' \in {"receive", "configure", "free", "close", "done", "failed"},
           UNCHANGED <<req, netint, joined, pc, it, timers, callbacks>>
    PROVE  CInv'
  <1>1. Types'
    BY DEF CInv, Types
  <1>2. Running' /\ Joined' /\ Loops' /\ SecondTimer'
    BY DEF CInv, Running, Joined, Loops, SecondTimer
  <1> QED
    BY <1>1, <1>2 DEF CInv

\* start_analysis starts all threads.
LEMMA StartControl == ASSUME CInv, StartAnalysis PROVE CInv'
  <1>1. /\ hpc = "configure" /\ hpc' \in {"failed", "join"} /\ NumProtocols \in Nat
        /\ UNCHANGED <<req, netint, joined, it, timers, callbacks>>
    BY RequestFacts DEF CInv, StartAnalysis
  <1>2. CASE hpc' = "failed"
    BY <1>1, <1>2, HandlerMoves DEF StartAnalysis
  <1>3. CASE hpc' = "join"
    <2>1. pc' = [t \in Thread |->
               CASE t = "timer" -> "create" [] t = "capture" -> "open"
                 [] t = "pkt" -> "deq" [] t = "scrub" -> "sleep"
                 [] OTHER -> "loop"]
          /\ NumProtocols > 0
      BY <1>3 DEF StartAnalysis
    <2>2. \A t \in Thread : pc'[t] \in Place \ {"none"}
      BY <2>1, Threads DEF Place
    <2>3. pc' \in [Thread -> Place]
      BY <2>1, <2>2
    <2>4. Types'
      BY <1>1, <1>3, <2>3 DEF CInv, Types
    <2>5. Running' /\ Joined'
      BY <1>1, <1>3, <2>2 DEF CInv, Types, Running, Joined
    <2>6. Loops'
      BY <1>1, <1>3, <2>1 DEF CInv, Loops, Protocols, NumProtocols
    <2>7. SecondTimer'
      <3>1. \A n \in NetInt : <<"second", n>> \notin timers
        BY <1>1, Threads DEF CInv, SecondTimer, Running
      <3> QED
        BY <1>1, <3>1 DEF SecondTimer
    <2> QED
      BY <2>4, <2>5, <2>6, <2>7 DEF CInv
  <1> QED
    BY <1>1, <1>2, <1>3

\* start_analysis waits for one more thread.
LEMMA JoinControl == ASSUME CInv, Join PROVE CInv'
  <1>1. /\ hpc = "join" /\ joined \in 0..6 /\ joined < 6 /\ joined' = joined + 1
        /\ pc[JoinOrder[joined + 1]] = "exited"
        /\ UNCHANGED <<req, hpc, netint, pc, it, timers, callbacks>>
    BY Threads DEF CInv, Types, Join
  <1>2. Types'
    BY <1>1, Threads DEF CInv, Types
  <1>3. Joined'
    BY <1>1 DEF CInv, Joined
  <1>4. Running' /\ SecondTimer'
    BY <1>1 DEF CInv, Running, SecondTimer
  <1>5. Loops'
    BY <1>1 DEF CInv, Loops, Protocols, NumProtocols
  <1> QED
    BY <1>2, <1>3, <1>4, <1>5 DEF CInv

\* The timer thread has been joined when start_analysis returns: its timer is
\* deleted.
LEMMA AllJoined ==
    ASSUME CInv, joined = Len(JoinOrder)
    PROVE  \A n \in NetInt : <<"second", n>> \notin timers
  <1>1. joined = 6 /\ 1 \in 1..6 /\ JoinOrder[1] = "timer"
    BY Threads
  <1>2. pc["timer"] = "exited"
    BY <1>1 DEF CInv, Joined
  <1> QED
    BY <1>2 DEF CInv, SecondTimer

\* On to the next interface
LEMMA DoneControl == ASSUME CInv, AnalysisDone PROVE CInv'
  <1>1. /\ \A n \in NetInt : <<"second", n>> \notin timers
        /\ hpc' \in {"done", "configure", "free"} /\ joined' = 0
        /\ pc' = [t \in Thread |-> "none"] /\ it' = [t \in Thread |-> 1]
        /\ UNCHANGED <<req, timers, callbacks>>
    BY AllJoined DEF AnalysisDone
  <1>2. netint' \in 1..Len(req.netints)
    BY RequestFacts DEF CInv, Types, AnalysisDone
  <1>3. Types'
    BY <1>1, <1>2, Threads DEF CInv, Types, Place
  <1>4. Running' /\ Joined' /\ Loops'
    BY <1>1, Threads DEF Running, Joined, Loops
  <1>5. SecondTimer'
    BY <1>1 DEF SecondTimer
  <1> QED
    BY <1>3, <1>4, <1>5 DEF CInv

\* The initial state
LEMMA InitControl == Init => CInv
  <1> SUFFICES ASSUME Init PROVE CInv
    OBVIOUS
  <1>1. /\ Len(req.netints) \in 1..MaxNetInts /\ MaxCallbacks \in Nat /\ MaxNetInts \in Nat
    BY LifecycleAssumption DEF Init, Request
  <1>2. Types
    BY <1>1, Threads DEF Init, Types, Place
  <1>3. Running /\ Joined /\ Loops /\ SecondTimer
    BY DEF Init, Running, Joined, Loops, SecondTimer
  <1> QED
    BY <1>2, <1>3 DEF CInv

\* Every step keeps the invariant of the threads and the timers.
LEMMA NextControl == ASSUME CInv, [Next]_vars PROVE CInv'
  <1>1. CASE Handler
    <2>1. CASE Receive \/ Finish
      BY <2>1, HandlerMoves DEF Receive, Finish
    <2> QED
      BY <1>1, <2>1, StartControl, JoinControl, DoneControl DEF Handler
  <1>2. CASE UNCHANGED vars
    <2>1. UNCHANGED <<threadOnly, pc, it>> /\ UNCHANGED handler
      BY <1>2 DEF vars, threadOnly, handler
    <2>2. Loops' /\ it' \in [Thread -> Nat]
      BY <2>1 DEF CInv, Types, Loops, handler, Protocols, NumProtocols
    <2> QED
      BY <2>1, <2>2, NoThreadMoves, WorkerKeeps
  <1> QED
    BY <1>1, <1>2, PacketControl, QueueControl, TimerControl, TimersControl
       DEF Next, EndOfTrace

\* The invariant of the threads and the timers holds throughout.
LEMMA ControlInvariant == Spec => []CInv
  BY InitControl, NextControl, PTL DEF Spec

-----------------------------------------------------------------------------
\* start_analysis joins every thread after it has exited, no thread runs
\* outside of an analysis, and the interfaces, timers and callbacks stay within
\* their bounds.
THEOREM AnalysisIsTyped == Spec => []TypeOK
  <1>1. CInv => TypeOK
    BY DEF CInv, Types, Running, Joined, TypeOK
  <1> QED
    BY <1>1, ControlInvariant, PTL

\* No timer callback starts for an analysis once start_analysis has returned
\* from it, however late the timer thread notices the stop: it deletes the timer
\* before it can be joined.
THEOREM CallbacksStopInTime == Spec => NoCallbackAfterReturn
  <1> DEFINE Quiet == \A n \in NetInt :
                        n < netint \/ hpc \in {"free", "close", "done"}
                          => callbacks'[n] <= callbacks[n]
  <1>1. CInv /\ [Next]_vars => [Quiet]_vars
    <2> SUFFICES ASSUME CInv, Next, NEW n \in NetInt,
                        n < netint \/ hpc \in {"free", "close", "done"}
                 PROVE  callbacks'[n] <= callbacks[n]
      OBVIOUS
    <2>1. /\ callbacks \in [NetInt -> 0..MaxCallbacks] /\ MaxCallbacks \in Nat
          /\ callbacks[n] \in Nat /\ netint \in Nat /\ NetInt \subseteq Nat
      BY RequestFacts, SMTT(30) DEF CInv, Types, NetInt
    <2>2. ASSUME NEW m \in NetInt, CallbackStarts(m) PROVE callbacks'[n] <= callbacks[n]
      <3>1. m = netint /\ hpc = "join"
        BY <2>2, Threads DEF CallbackStarts, CInv, SecondTimer, Running
      <3>2. n # m
        BY <2>1, <3>1
      <3> QED
        BY <2>1, <2>2, <3>2 DEF CallbackStarts
    <2>3. ASSUME NEW m \in NetInt, CallbackEnds(m) PROVE callbacks'[n] <= callbacks[n]
      BY <2>1, <2>3 DEF CallbackEnds
    <2>4. CASE UNCHANGED callbacks
      BY <2>1, <2>4
    <2> QED
      BY <2>2, <2>3, <2>4
         DEF Next, Handler, Receive, StartAnalysis, Join, AnalysisDone, Finish,
             Capture, CaptureOpen, CaptureTest, CaptureEnq, CaptureNext, EndOfTrace,
             TimerThread, DurationThread, DurationFires, PacketThread, Preprocess,
             LoopEnds, PacketQueueThread, FlowQueueThread, ScrubThread,
             threadOnly, vars
  <1> HIDE DEF Quiet
  <1>2. Spec => [][Quiet]_vars
    BY <1>1, ControlInvariant, PTL DEF Spec
  <1> QED
    BY <1>2 DEF NoCallbackAfterReturn, Quiet

-----------------------------------------------------------------------------
(***************************************************************************)
(* The way of the packets from the capture to the flow tables, for any     *)
(* number of packets and protocols: every protocol is given its packets    *)
(* once and in order, and only packets without data leak.                  *)
(***************************************************************************)
\* Packets are in the order of capture
Increasing(s) == \A i, j \in DOMAIN s : i < j => s[i].id[2] < s[j].id[2]

\* h was given to a flow table and q waits in pq: together the packets D
Stream(h, q, D) ==
    /\ Increasing(h) /\ Increasing(q)
    /\ \A x \in ToSet(h), y \in ToSet(q) : x.id[2] < y.id[2]
    /\ ToSet(h) \cup ToSet(q) = D

\* The open flows T of a table and the closed ones F in fq share no packet
Apart(h, T, F) ==
    /\ T \subseteq ToSet(h)
    /\ \A i \in DOMAIN F : F[i] \subseteq ToSet(h) /\ F[i] \cap T = {}
    /\ \A i, j \in DOMAIN F : i # j => F[i] \cap F[j] = {}

PacketTypes ==
    /\ seen \in Seq(Packet) /\ rpq \in Seq(Packet)
    /\ held \in [Thread -> Packet \cup {None}]
    /\ pq \in [1..MaxProtocols -> Seq(Packet)]
    /\ handed \in [1..MaxProtocols -> Seq(Packet)]
    /\ table \in [1..MaxProtocols -> SUBSET Packet]
    /\ fq \in [1..MaxProtocols -> Seq(SUBSET Packet)]

Busy    == pc["pkt"] = "preprocess"
Taken   == Len(seen) - Len(rpq)                 \* packets that left rpq
Through == IF Busy THEN Taken - 1 ELSE Taken    \* and packet_preprocess

\* rpq, and the packet at work before it, are the end of what was captured
Arrivals ==
    /\ \A k \in DOMAIN seen : seen[k].id = <<netint, k>>
    /\ Through >= 0
    /\ \A i \in DOMAIN rpq : rpq[i] = seen[Taken + i]
    /\ Busy => held["pkt"] = seen[Taken]

\* What packet_preprocess has passed on to protocol p
Passed(p) == IF p \in Protocols THEN {seen[k] : k \in Due(p) \cap 1..Through} ELSE {}

Streams == \A p \in 1..MaxProtocols : Stream(handed[p], pq[p], Passed(p))
Tables  == \A p \in 1..MaxProtocols : Apart(handed[p], table[p], fq[p])

\* The packets of a protocol
Owns(p) == ToSet(pq[p]) \cup InTable(p)

Memory ==
    /\ heap \subseteq {"raw", "pkt"} \X Packet
    /\ \A x \in Packet :
         <<"raw", x>> \in heap <=> \E k \in (Through + 1)..Len(seen) : x = seen[k]
    /\ \A p \in 1..MaxProtocols : \A x \in Owns(p) : <<"pkt", x>> \in heap
    /\ \A x \in Packet : <<"pkt", x>> \in heap =>
         \/ \E p \in 1..MaxProtocols : x \in Owns(p)
         \/ ~x.class.data /\ x.class.ports # {}

\* The inductive invariant, together with that of the threads
PInv == PacketTypes /\ Arrivals /\ Streams /\ Tables /\ Memory

-----------------------------------------------------------------------------
(***************************************************************************)
(* Queues, streams and tables as values                                    *)
(***************************************************************************)

\* Queue::enq adds an element at the end.
LEMMA EnqFacts ==
    ASSUME NEW S, NEW s \in Seq(S), NEW x \in S
    PROVE  /\ Append(s, x) \in Seq(S) /\ Len(s) \in Nat
           /\ Len(Append(s, x)) = Len(s) + 1
           /\ DOMAIN s = 1..Len(s) /\ DOMAIN Append(s, x) = 1..(Len(s) + 1)
           /\ \A i \in 1..Len(s) : Append(s, x)[i] = s[i]
           /\ Append(s, x)[Len(s) + 1] = x
           /\ ToSet(Append(s, x)) = ToSet(s) \cup {x}
  <1>1. /\ Append(s, x) \in Seq(S) /\ Len(s) \in Nat
        /\ Len(Append(s, x)) = Len(s) + 1
        /\ DOMAIN s = 1..Len(s) /\ DOMAIN Append(s, x) = 1..(Len(s) + 1)
        /\ \A i \in 1..Len(s) : Append(s, x)[i] = s[i]
        /\ Append(s, x)[Len(s) + 1] = x
    OBVIOUS
  <1>2. ToSet(Append(s, x)) = ToSet(s) \cup {x}
    <2>1. ASSUME NEW y \in ToSet(Append(s, x)) PROVE y \in ToSet(s) \cup {x}
      <3>1. PICK i \in 1..(Len(s) + 1) : y = Append(s, x)[i]
        BY <1>1 DEF ToSet
      <3> QED
        BY <1>1, <3>1 DEF ToSet
    <2>2. ASSUME NEW y \in ToSet(s) \cup {x} PROVE y \in ToSet(Append(s, x))
      <3>1. CASE y = x
        BY <1>1, <3>1 DEF ToSet
      <3>2. CASE y \in ToSet(s)
        <4>1. PICK i \in 1..Len(s) : y = s[i]
          BY <1>1, <3>2 DEF ToSet
        <4> QED
          BY <1>1, <4>1 DEF ToSet
      <3> QED
        BY <3>1, <3>2
    <2> QED
      BY <2>1, <2>2
  <1> QED
    BY <1>1, <1>2

\* Queue::deq of a queue that is not empty takes its first element.
LEMMA DeqFacts ==
    ASSUME NEW S, NEW s \in Seq(S), s # <<>>
    PROVE  /\ Deq(s).elem = Head(s) /\ Deq(s).rest = Tail(s)
           /\ Head(s) \in S /\ Tail(s) \in Seq(S) /\ Head(s) = s[1]
           /\ Len(s) \in Nat /\ Len(s) > 0 /\ Len(Tail(s)) = Len(s) - 1
           /\ DOMAIN s = 1..Len(s) /\ DOMAIN Tail(s) = 1..(Len(s) - 1)
           /\ \A i \in 1..(Len(s) - 1) : Tail(s)[i] = s[i + 1]
           /\ ToSet(s) = ToSet(Tail(s)) \cup {Head(s)}
  <1>1. /\ Head(s) \in S /\ Tail(s) \in Seq(S) /\ Head(s) = s[1]
        /\ Len(s) \in Nat /\ Len(s) > 0 /\ Len(Tail(s)) = Len(s) - 1
        /\ DOMAIN s = 1..Len(s) /\ DOMAIN Tail(s) = 1..(Len(s) - 1)
        /\ \A i \in 1..(Len(s) - 1) : Tail(s)[i] = s[i + 1]
    OBVIOUS
  <1>2. ToSet(s) = ToSet(Tail(s)) \cup {Head(s)}
    <2>1. ASSUME NEW y \in ToSet(s) PROVE y \in ToSet(Tail(s)) \cup {Head(s)}
      <3>1. PICK i \in 1..Len(s) : y = s[i]
        BY <1>1 DEF ToSet
      <3>2. CASE i = 1
        BY <1>1, <3>1, <3>2
      <3>3. CASE i # 1
        <4>1. i - 1 \in 1..(Len(s) - 1) /\ Tail(s)[i - 1] = y
          BY <1>1, <3>1, <3>3
        <4> QED
          BY <1>1, <4>1 DEF ToSet
      <3> QED
        BY <3>2, <3>3
    <2>2. ASSUME NEW y \in ToSet(Tail(s)) \cup {Head(s)} PROVE y \in ToSet(s)
      <3>1. CASE y = Head(s)
        BY <1>1, <3>1 DEF ToSet
      <3>2. CASE y \in ToSet(Tail(s))
        <4>1. PICK i \in 1..(Len(s) - 1) : y = Tail(s)[i]
          BY <1>1, <3>2 DEF ToSet
        <4>2. i + 1 \in 1..Len(s) /\ s[i + 1] = y
          BY <1>1, <4>1
        <4> QED
          BY <1>1, <4>2 DEF ToSet
      <3> QED
        BY <3>1, <3>2
    <2> QED
      BY <2>1, <2>2
  <1> QED
    BY <1>1, <1>2 DEF Deq

\* Packets have numbers.
LEMMA PacketNumber == \A x \in Packet : x.id[2] \in Nat /\ x.class \in Classes
  BY DEF Packet

\* The elements of a sequence of packets are packets.
LEMMA ToSetType == \A S : \A s \in Seq(S) : ToSet(s) \subseteq S
  BY DEF ToSet

\* packet_preprocess enqueues a packet that came after all others.
LEMMA StreamEnq ==
    ASSUME NEW h \in Seq(Packet), NEW q \in Seq(Packet), NEW D, Stream(h, q, D),
           NEW x \in Packet, \A y \in D : y.id[2] < x.id[2]
    PROVE  Stream(h, Append(q, x), D \cup {x})
  <1>1. ToSet(h) \subseteq D /\ ToSet(q) \subseteq D
    BY DEF Stream
  <1>2. /\ ToSet(Append(q, x)) = ToSet(q) \cup {x}
        /\ Len(q) \in Nat /\ DOMAIN q = 1..Len(q)
        /\ DOMAIN Append(q, x) = 1..(Len(q) + 1)
        /\ \A i \in 1..Len(q) : Append(q, x)[i] = q[i]
        /\ Append(q, x)[Len(q) + 1] = x
    BY EnqFacts
  <1>3. Increasing(Append(q, x))
    <2>1. \A i \in 1..Len(q) : q[i] \in ToSet(q)
      BY <1>2 DEF ToSet
    <2> QED
      BY <1>1, <1>2, <2>1 DEF Increasing, Stream
  <1> QED
    BY <1>1, <1>2, <1>3 DEF Stream

\* process_packet_queue gives the first packet of pq to the flow table.
LEMMA StreamDeq ==
    ASSUME NEW h \in Seq(Packet), NEW q \in Seq(Packet), NEW D, Stream(h, q, D),
           q # <<>>
    PROVE  /\ Stream(Append(h, Head(q)), Tail(q), D)
           /\ Head(q) \notin ToSet(h)
  <1>1. /\ Head(q) \in Packet /\ Tail(q) \in Seq(Packet) /\ Head(q) = q[1]
        /\ Len(q) \in Nat /\ Len(q) > 0
        /\ DOMAIN q = 1..Len(q) /\ DOMAIN Tail(q) = 1..(Len(q) - 1)
        /\ \A i \in 1..(Len(q) - 1) : Tail(q)[i] = q[i + 1]
        /\ ToSet(q) = ToSet(Tail(q)) \cup {Head(q)}
    BY DeqFacts
  <1> DEFINE x == Head(q)
             g == Append(h, x)
  <1>2. /\ Len(h) \in Nat /\ DOMAIN h = 1..Len(h)
        /\ DOMAIN g = 1..(Len(h) + 1) /\ ToSet(g) = ToSet(h) \cup {x}
        /\ \A i \in 1..Len(h) : g[i] = h[i]
        /\ g[Len(h) + 1] = x
    BY <1>1, EnqFacts
  <1>3. \A y \in ToSet(h) : y.id[2] < x.id[2]
    BY <1>1 DEF Stream
  <1>4. x \notin ToSet(h)
    BY <1>1, <1>3, PacketNumber
  <1>5. \A y \in ToSet(Tail(q)) : x.id[2] < y.id[2]
    <2>1. SUFFICES ASSUME NEW i \in 1..(Len(q) - 1) PROVE x.id[2] < Tail(q)[i].id[2]
      BY <1>1 DEF ToSet
    <2> QED
      BY <1>1 DEF Stream, Increasing
  <1>6. Increasing(Tail(q))
    BY <1>1 DEF Stream, Increasing
  <1>7. Increasing(g)
    <2>1. \A i \in 1..Len(h) : h[i] \in ToSet(h)
      BY <1>2 DEF ToSet
    <2> HIDE DEF g
    <2> QED
      BY <1>2, <1>3, <2>1 DEF Increasing, Stream
  <1>8. ToSet(g) \cup ToSet(Tail(q)) = D
    BY <1>1, <1>2 DEF Stream
  <1>9. \A y \in ToSet(g), z \in ToSet(Tail(q)) : y.id[2] < z.id[2]
    BY <1>1, <1>2, <1>5 DEF Stream
  <1> QED
    BY <1>4, <1>6, <1>7, <1>8, <1>9 DEF Stream

\* A packet of the table comes from the stream, and enters one flow only.
LEMMA ApartAdd ==
    ASSUME NEW h \in Seq(Packet), NEW T, NEW F, Apart(h, T, F),
           NEW x \in Packet, x \notin ToSet(h)
    PROVE  Apart(Append(h, x), T \cup {x}, F)
  BY EnqFacts DEF Apart

\* A table whose flows are all closed
LEMMA ApartClose ==
    ASSUME NEW h, NEW T \in SUBSET Packet, NEW F \in Seq(SUBSET Packet), Apart(h, T, F)
    PROVE  Apart(h, {}, Append(F, T))
  <1>1. /\ Len(F) \in Nat /\ DOMAIN F = 1..Len(F)
        /\ DOMAIN Append(F, T) = 1..(Len(F) + 1)
        /\ \A i \in 1..Len(F) : Append(F, T)[i] = F[i]
        /\ Append(F, T)[Len(F) + 1] = T
    BY EnqFacts
  <1>2. \A i \in 1..(Len(F) + 1) : i = Len(F) + 1 \/ i \in 1..Len(F)
    BY <1>1
  <1> QED
    BY <1>1, <1>2 DEF Apart

\* process_flow_queue takes the first closed flow, which shares no packet with
\* the others.
LEMMA ApartDeq ==
    ASSUME NEW h, NEW T, NEW F \in Seq(SUBSET Packet), Apart(h, T, F), F # <<>>
    PROVE  /\ Apart(h, T, Tail(F)) /\ Head(F) \subseteq ToSet(h)
           /\ Head(F) \cap (T \cup UNION ToSet(Tail(F))) = {}
  <1>1. /\ Head(F) = F[1] /\ Len(F) \in Nat /\ Len(F) > 0
        /\ DOMAIN F = 1..Len(F) /\ DOMAIN Tail(F) = 1..(Len(F) - 1)
        /\ \A i \in 1..(Len(F) - 1) : Tail(F)[i] = F[i + 1]
    BY DeqFacts
  <1>2. Apart(h, T, Tail(F))
    BY <1>1 DEF Apart
  <1>3. Head(F) \cap T = {} /\ Head(F) \subseteq ToSet(h)
    BY <1>1 DEF Apart
  <1>4. ASSUME NEW i \in 1..(Len(F) - 1) PROVE Head(F) \cap Tail(F)[i] = {}
    BY <1>1 DEF Apart
  <1> QED
    BY <1>1, <1>2, <1>3, <1>4 DEF ToSet

-----------------------------------------------------------------------------
(***************************************************************************)
(* Every step keeps the invariant                                          *)
(***************************************************************************)

\* Sizes: what has been captured, has left rpq, and has been preprocessed.
LEMMA Sizes ==
    ASSUME PacketTypes, Arrivals
    PROVE  /\ Len(seen) \in Nat /\ Len(rpq) \in Nat /\ Taken \in Nat /\ Through \in Nat
           /\ Through <= Taken /\ Taken <= Len(seen)
           /\ Taken + Len(rpq) = Len(seen)
           /\ Busy => Taken > 0 /\ Through = Taken - 1
           /\ ~Busy => Through = Taken
           /\ DOMAIN seen = 1..Len(seen) /\ DOMAIN rpq = 1..Len(rpq)
           /\ \A k \in 1..Len(seen) : seen[k] \in Packet
  BY DEF PacketTypes, Arrivals, Through, Taken

\* A captured packet is known by its number.
LEMMA SeenOnce ==
    ASSUME PacketTypes, Arrivals
    PROVE  /\ \A k \in 1..Len(seen) : seen[k].id[2] = k
           /\ \A k, l \in 1..Len(seen) : seen[k] = seen[l] => k = l
  BY DEF PacketTypes, Arrivals

\* What has been passed on depends on the first packets only.
LEMMA SamePassed ==
    ASSUME PacketTypes, Arrivals, UNCHANGED <<req, netint>>, Through' = Through,
           1..Through \subseteq DOMAIN seen', \A k \in 1..Through : seen'[k] = seen[k]
    PROVE  \A p : Passed(p)' = Passed(p)
  <1>1. SUFFICES ASSUME NEW p PROVE Passed(p)' = Passed(p)
    OBVIOUS
  <1>2. 1..Through \subseteq DOMAIN seen
    BY Sizes
  <1>3. (Due(p) \cap 1..Through)' = Due(p) \cap 1..Through
    BY <1>2 DEF Due
  <1>4. {seen[k] : k \in Due(p) \cap 1..Through}' = {seen[k] : k \in Due(p) \cap 1..Through}
    BY <1>3
  <1> QED
    BY <1>4 DEF Passed, Protocols, NumProtocols

\* Steps that have nothing to do with packets
LEMMA PacketsStay ==
    ASSUME PInv, UNCHANGED <<req, netint, queues, records>>, Busy' <=> Busy,
           held' \in [Thread -> Packet \cup {None}], Busy => UNCHANGED held
    PROVE  PInv'
  <1>1. /\ Taken' = Taken /\ Through' = Through
        /\ UNCHANGED <<req, netint, rpq, pq, table, fq, heap, seen, handed>>
    BY DEF Taken, Through, queues, records
  <1>2. PacketTypes' /\ Arrivals'
    BY <1>1 DEF PInv, PacketTypes, Arrivals
  <1>3. \A p : Passed(p)' = Passed(p)
    BY <1>1, SamePassed, Sizes DEF PInv
  <1>4. \A p : Owns(p)' = Owns(p)
    BY <1>1 DEF Owns, InTable
  <1>5. Streams' /\ Tables'
    BY <1>1, <1>3 DEF PInv, Streams, Tables
  <1>6. Memory'
    BY <1>1, <1>4 DEF PInv, Memory
  <1> QED
    BY <1>2, <1>5, <1>6 DEF PInv

\* pcap_next's packet goes to rpq.
LEMMA CaptureKeeps ==
    ASSUME CInv, PInv, NEW c \in Classes, CaptureEnq(c)
    PROVE  PInv'
  <1> USE DEF Busy
  <1> DEFINE x == NewPacket(c)
             n == Len(seen)
  <1>0. PacketTypes /\ Arrivals
    BY DEF PInv
  <1>1. /\ seen' = Append(seen, x) /\ rpq' = Append(rpq, x)
        /\ heap' = heap \cup {<<"raw", x>>} /\ (Busy' <=> Busy)
        /\ UNCHANGED <<req, netint, held, pq, table, fq, handed>>
    BY Threads DEF CaptureEnq, Enq, Busy, GoesOn, CInv, Types, threadOnly, handler
  <1>2. x \in Packet /\ x.id = <<netint, n + 1>>
    BY <1>0, Sizes, RequestFacts, SMTT(30) DEF NewPacket, Packet, CInv
  <1> HIDE DEF x
  <1>3. /\ n \in Nat /\ seen' \in Seq(Packet) /\ Len(seen') = n + 1
        /\ DOMAIN seen = 1..n /\ DOMAIN seen' = 1..(n + 1)
        /\ \A k \in 1..n : seen'[k] = seen[k]
        /\ seen'[n + 1] = x
    BY <1>0, <1>1, <1>2, EnqFacts DEF PacketTypes
  <1>4. /\ Len(rpq) \in Nat /\ rpq' \in Seq(Packet) /\ Len(rpq') = Len(rpq) + 1
        /\ DOMAIN rpq = 1..Len(rpq) /\ DOMAIN rpq' = 1..(Len(rpq) + 1)
        /\ \A k \in 1..Len(rpq) : rpq'[k] = rpq[k]
        /\ rpq'[Len(rpq) + 1] = x
    BY <1>0, <1>1, <1>2, EnqFacts DEF PacketTypes
  <1>5. /\ Taken' = Taken /\ Through' = Through
        /\ Taken \in Nat /\ Through \in Nat /\ Through <= Taken /\ Taken <= n
        /\ Taken + Len(rpq) = n /\ (Busy => Taken \in 1..n)
    <2>1. Taken' = Taken
      BY <1>3, <1>4 DEF Taken
    <2>2. Through' = Through
      BY <1>1, <2>1 DEF Through
    <2>3. Busy => Taken \in 1..n
      BY <1>0, Sizes
    <2> QED
      BY <1>0, <2>1, <2>2, <2>3, Sizes
  <1>6. PacketTypes'
    BY <1>0, <1>1, <1>3, <1>4 DEF PacketTypes
  <1>7. Arrivals'
    <2>1. \A k \in DOMAIN seen' : seen'[k].id = <<netint, k>>
      BY <1>0, <1>2, <1>3 DEF Arrivals
    <2>2. \A i \in DOMAIN rpq' : rpq'[i] = seen'[Taken + i]
      <3>1. ASSUME NEW i \in 1..Len(rpq) PROVE rpq'[i] = seen'[Taken + i]
        <4>1. Taken + i \in 1..n
          BY <1>3, <1>4, <1>5
        <4> QED
          BY <1>0, <1>3, <1>4, <4>1 DEF Arrivals
      <3>2. rpq'[Len(rpq) + 1] = seen'[Taken + (Len(rpq) + 1)]
        BY <1>3, <1>4, <1>5
      <3> QED
        BY <1>4, <3>1, <3>2
    <2>3. Busy => held["pkt"] = seen'[Taken]
      BY <1>0, <1>3, <1>5 DEF Arrivals
    <2>4. Through' >= 0
      BY <1>5
    <2> QED
      BY <1>1, <1>5, <2>1, <2>2, <2>3, <2>4 DEF Arrivals
  <1>8. \A p : Passed(p)' = Passed(p)
    BY <1>0, <1>1, <1>3, <1>5, SamePassed
  <1>9. Streams' /\ Tables'
    BY <1>1, <1>8 DEF PInv, Streams, Tables
  <1>10. Memory'
    <2>1. \A p : Owns(p)' = Owns(p)
      BY <1>1 DEF Owns, InTable
    <2>2. \A y \in Packet : <<"pkt", y>> \in heap' <=> <<"pkt", y>> \in heap
      BY <1>1
    <2>3. ASSUME NEW y \in Packet
          PROVE  <<"raw", y>> \in heap' <=>
                   \E k \in (Through + 1)..(n + 1) : y = seen'[k]
      <3>1. <<"raw", y>> \in heap' <=> <<"raw", y>> \in heap \/ y = x
        BY <1>1
      <3>2. <<"raw", y>> \in heap <=> \E k \in (Through + 1)..n : y = seen[k]
        BY DEF PInv, Memory
      <3>3. (\E k \in (Through + 1)..(n + 1) : y = seen'[k]) <=>
              (\E k \in (Through + 1)..n : y = seen[k]) \/ y = x
        BY <1>3, <1>5
      <3> QED
        BY <3>1, <3>2, <3>3
    <2>4. heap' \subseteq {"raw", "pkt"} \X Packet
      BY <1>1, <1>2 DEF PInv, Memory
    <2> QED
      BY <1>3, <1>5, <2>1, <2>2, <2>3, <2>4 DEF PInv, Memory
  <1> QED
    BY <1>6, <1>7, <1>9, <1>10 DEF PInv

\* process_packet takes the first packet of rpq, if there is one.
LEMMA PacketThreadKeeps ==
    ASSUME CInv, PInv, PacketThread
    PROVE  PInv'
  <1>0. /\ PacketTypes /\ Arrivals /\ "pkt" \in Thread /\ pc["pkt"] \in {"deq", "test"}
        /\ UNCHANGED <<req, netint, pq, table, fq, heap, seen, handed>>
        /\ pc \in [Thread -> Place]
    BY Threads DEF PInv, PacketThread, threadOnly, handler, records, CInv, Types
  <1>1. ~Busy
    BY <1>0 DEF Busy
  <1>2. CASE pc["pkt"] = "test"
    <2>1. UNCHANGED <<rpq, held>> /\ ~Busy'
      BY <1>0, <1>2 DEF PacketThread, GoesOn, Busy
    <2> QED
      BY <1>0, <1>1, <2>1, PacketsStay DEF PacketTypes, queues, records
  <1>3. CASE pc["pkt"] = "deq" /\ rpq = <<>>
    <2>1. Deq(rpq).elem = None /\ Deq(rpq).rest = rpq
      BY <1>3 DEF Deq
    <2>2. /\ UNCHANGED rpq /\ ~Busy' /\ held' = [held EXCEPT !["pkt"] = None]
      BY <1>0, <1>3, <2>1 DEF PacketThread, GoesOn, Busy
    <2>3. held' \in [Thread -> Packet \cup {None}]
      BY <1>0, <2>2 DEF PacketTypes
    <2> QED
      BY <1>0, <1>1, <2>2, <2>3, PacketsStay DEF queues, records
  <1>4. CASE pc["pkt"] = "deq" /\ rpq # <<>>
    <2> DEFINE x == Head(rpq)
    <2>1. /\ Deq(rpq).elem = x /\ Deq(rpq).rest = Tail(rpq)
          /\ x \in Packet /\ Tail(rpq) \in Seq(Packet) /\ x = rpq[1]
          /\ Len(rpq) \in Nat /\ Len(rpq) > 0 /\ Len(Tail(rpq)) = Len(rpq) - 1
          /\ DOMAIN rpq = 1..Len(rpq) /\ DOMAIN Tail(rpq) = 1..(Len(rpq) - 1)
          /\ \A i \in 1..(Len(rpq) - 1) : Tail(rpq)[i] = rpq[i + 1]
      BY <1>0, <1>4, DeqFacts DEF PacketTypes
    <2>2. x # None
      BY <2>1, LifecycleAssumption
    <2> HIDE DEF x
    <2>3. /\ rpq' = Tail(rpq) /\ held' = [held EXCEPT !["pkt"] = x] /\ Busy'
      BY <1>0, <1>4, <2>1, <2>2 DEF PacketThread, GoesOn, Busy
    <2>4. held' \in [Thread -> Packet \cup {None}] /\ held'["pkt"] = x
      BY <1>0, <2>1, <2>3 DEF PacketTypes
    <2>5. /\ Taken \in Nat /\ Through = Taken /\ Taken + Len(rpq) = Len(seen)
          /\ Taken <= Len(seen) /\ Len(seen) \in Nat /\ DOMAIN seen = 1..Len(seen)
      BY <1>0, <1>1, Sizes
    <2>6. Taken' = Taken + 1
      BY <1>0, <2>1, <2>3 DEF Taken
    <2>7. Through' = Through
      BY <2>3, <2>5, <2>6 DEF Through
    <2>8. PacketTypes'
      BY <1>0, <2>1, <2>3, <2>4 DEF PacketTypes
    <2>9. Arrivals'
      <3>1. \A i \in DOMAIN rpq : rpq[i] = seen[Taken + i]
        BY <1>0 DEF Arrivals
      <3>2. ASSUME NEW i \in DOMAIN rpq' PROVE rpq'[i] = seen'[Taken' + i]
        <4>1. i \in 1..(Len(rpq) - 1) /\ i + 1 \in DOMAIN rpq /\ rpq'[i] = rpq[i + 1]
          BY <2>1, <2>3
        <4>2. Taken + (i + 1) = Taken' + i
          BY <2>5, <2>6, <4>1
        <4> QED
          BY <1>0, <3>1, <4>1, <4>2
      <3>3. held'["pkt"] = seen'[Taken']
        BY <1>0, <2>1, <2>4, <2>6, <3>1
      <3>4. \A k \in DOMAIN seen' : seen'[k].id = <<netint', k>>
        BY <1>0 DEF Arrivals
      <3>5. Through' >= 0
        BY <2>5, <2>7
      <3> QED
        BY <3>2, <3>3, <3>4, <3>5 DEF Arrivals
    <2>10. \A p : Passed(p)' = Passed(p)
      BY <1>0, <2>5, <2>7, SamePassed
    <2>11. Streams' /\ Tables'
      BY <1>0, <2>10 DEF PInv, Streams, Tables
    <2>12. Memory'
      <3>1. \A p : Owns(p)' = Owns(p)
        BY <1>0 DEF Owns, InTable
      <3> QED
        BY <1>0, <2>7, <3>1 DEF PInv, Memory
    <2> QED
      BY <2>8, <2>9, <2>11, <2>12 DEF PInv
  <1> QED
    BY <1>0, <1>2, <1>3, <1>4

\* The queue that packet_preprocess chooses: the first protocol, of those that
\* want the packet.
LEMMA FirstWanting ==
    ASSUME CInv, NEW c \in Classes, Wanting(c) # {},
           NEW p, p = CHOOSE q \in Wanting(c) : \A r \in Wanting(c) : q <= r
    PROVE  p \in Wanting(c) /\ \A r \in Wanting(c) : p <= r
  <1> DEFINE W == Wanting(c)
             R == OpToRel(<, Nat)
  <1>1. W \subseteq Nat
    BY RequestFacts DEF Wanting, Protocols, CInv
  <1>2. IsWellFoundedOn(R, Nat)
    BY NatLessThanWellFounded
  <1> HIDE DEF R, W
  <1>3. PICK q \in W : \A r \in W : ~(<<r, q>> \in R)
    BY <1>1, <1>2, WFMin DEF W
  <1>4. \A r \in W : ~(r < q)
    BY <1>1, <1>3 DEF R, OpToRel
  <1>5. \A r \in W : q <= r
    BY <1>1, <1>4
  <1>6. \E q1 \in W : \A r \in W : q1 <= r
    BY <1>5
  <1> QED
    BY <1>6 DEF W

\* The packets that are due to a protocol are those that packet_preprocess
\* gives to it.
LEMMA DueToFirst ==
    ASSUME CInv, PacketTypes, NEW k \in DOMAIN seen, NEW p \in Protocols
    PROVE  k \in Due(p) <=> LET c == seen[k].class IN
             c.data /\ p \in Wanting(c) /\ \A r \in Wanting(c) : p <= r
  <1> DEFINE c == seen[k].class
  <1>1. seen[k] \in Packet
    BY DEF PacketTypes
  <1>2. Class(c)
    BY <1>1, LifecycleAssumption, PacketNumber
  <1>3. NumProtocols \in Nat /\ MaxProtocols \in Nat /\ p \in 1..NumProtocols
    BY RequestFacts DEF CInv, Protocols
  <1> HIDE DEF c
  <1>4. \A r \in c.ports : r \in Nat /\ (r \in Protocols \/ p <= r)
    BY <1>2, <1>3 DEF Class, Protocols
  <1>5. k \in Due(p) <=> c.tcp /\ c.data /\ p \in c.ports /\ \A q \in c.ports : p <= q
    BY DEF Due, c
  <1>6. k \in Due(p) <=> c.data /\ p \in Wanting(c) /\ \A r \in Wanting(c) : p <= r
    BY <1>4, <1>5 DEF Wanting
  <1> QED
    BY <1>6 DEF c

\* packet_preprocess passes a packet with data on to one protocol.
LEMMA PreprocessPasses ==
    ASSUME CInv, PInv, Preprocess
    PROVE  LET x == held["pkt"]
               c == x.class
               p == CHOOSE q \in Wanting(c) : \A r \in Wanting(c) : q <= r
           IN /\ x = seen[Taken] /\ Taken \in 1..Len(seen) /\ x \in Packet
              /\ c \in Classes
              /\ Wanting(c) # {} => p \in Protocols /\ p \in 1..MaxProtocols
              /\ \A r : Passed(r)' = IF Wanting(c) # {} /\ c.data /\ r = p
                                     THEN Passed(r) \cup {x} ELSE Passed(r)
              /\ Taken' = Taken /\ Through = Taken - 1 /\ Through' = Taken
              /\ ~Busy' /\ UNCHANGED <<req, netint, rpq, table, fq, seen, handed>>
  <1> DEFINE x == held["pkt"]
             c == x.class
             p == CHOOSE q \in Wanting(c) : \A r \in Wanting(c) : q <= r
  <1>0. PacketTypes /\ Arrivals /\ "pkt" \in Thread /\ pc \in [Thread -> Place]
    BY Threads DEF PInv, CInv, Types
  <1>1. Busy /\ ~Busy' /\ UNCHANGED <<req, netint, rpq, table, fq, seen, handed>>
    BY <1>0 DEF Preprocess, Busy, GoesOn, threadOnly, handler
  <1>2. /\ Taken \in 1..Len(seen) /\ Through = Taken - 1 /\ x = seen[Taken]
        /\ DOMAIN seen = 1..Len(seen) /\ Len(seen) \in Nat
        /\ \A k \in 1..Len(seen) : seen[k] \in Packet
    BY <1>0, <1>1, Sizes DEF Arrivals
  <1>3. Taken' = Taken
    BY <1>1 DEF Taken
  <1>4. Through' = Taken
    BY <1>1, <1>3 DEF Through
  <1>5. x \in Packet /\ c \in Classes
    BY <1>2, PacketNumber
  <1>6. Wanting(c) # {} => p \in Wanting(c) /\ \A r \in Wanting(c) : p <= r
    BY <1>5, FirstWanting
  <1>7. Wanting(c) \subseteq Protocols /\ Protocols \subseteq 1..MaxProtocols
        /\ Protocols \subseteq Nat
    BY RequestFacts DEF CInv, Wanting, Protocols
  <1>8. \A r \in Protocols : Taken \in Due(r) <=>
           c.data /\ r \in Wanting(c) /\ \A q \in Wanting(c) : r <= q
    BY <1>0, <1>2, DueToFirst
  <1> HIDE DEF p, c, x
  <1>9. \A r \in Protocols : Taken \in Due(r) <=> c.data /\ Wanting(c) # {} /\ r = p
    <2>1. ASSUME NEW r \in Protocols, c.data, r \in Wanting(c), \A q \in Wanting(c) : r <= q
          PROVE  r = p
      <3>1. p \in Wanting(c) /\ p <= r /\ r <= p
        BY <1>6, <2>1
      <3>2. p \in Nat /\ r \in Nat
        BY <1>7, <3>1
      <3> QED
        BY <3>1, <3>2
    <2> QED
      BY <1>6, <1>8, <2>1
  <1>10. \A r : /\ Due(r)' = Due(r) /\ Due(r) \subseteq 1..Len(seen)
                /\ (r \in Protocols)' <=> r \in Protocols
    BY <1>1, <1>2 DEF Due, Protocols, NumProtocols
  <1>11. \A r \in Protocols :
            Passed(r)' = IF Taken \in Due(r) THEN Passed(r) \cup {x} ELSE Passed(r)
    <2> SUFFICES ASSUME NEW r \in Protocols
                 PROVE  Passed(r)' = IF Taken \in Due(r) THEN Passed(r) \cup {x} ELSE Passed(r)
      OBVIOUS
    <2>1. /\ Passed(r) = {seen[k] : k \in Due(r) \cap 1..(Taken - 1)}
          /\ Passed(r)' = {seen[k] : k \in Due(r) \cap 1..Taken}
      BY <1>1, <1>2, <1>4, <1>10 DEF Passed
    <2>2. Due(r) \cap 1..Taken = IF Taken \in Due(r) THEN (Due(r) \cap 1..(Taken - 1)) \cup {Taken}
                                 ELSE Due(r) \cap 1..(Taken - 1)
      BY <1>2, <1>10
    <2> QED
      BY <1>2, <2>1, <2>2
  <1>12. \A r : r \notin Protocols => Passed(r)' = Passed(r)
    BY <1>10 DEF Passed
  <1>13. \A r : Passed(r)' = IF Wanting(c) # {} /\ c.data /\ r = p
                             THEN Passed(r) \cup {x} ELSE Passed(r)
    BY <1>6, <1>7, <1>9, <1>11, <1>12
  <1>14. Wanting(c) # {} => p \in Protocols /\ p \in 1..MaxProtocols
    BY <1>6, <1>7
  <1> QED
    BY <1>1, <1>2, <1>3, <1>4, <1>5, <1>13, <1>14 DEF p, c, x

\* packet_preprocess keeps the streams of the protocols and frees what it does
\* not pass on, but for packets without data.
LEMMA PreprocessKeeps == ASSUME CInv, PInv, Preprocess PROVE PInv'
  <1>0. PacketTypes /\ Arrivals /\ "pkt" \in Thread
    BY Threads DEF PInv
  <1>1. PICK x, c, p :
          /\ x = held["pkt"] /\ c = x.class
          /\ p = CHOOSE q \in Wanting(c) : \A r \in Wanting(c) : q <= r
    OBVIOUS
  <1>2. /\ x = seen[Taken] /\ Taken \in 1..Len(seen) /\ x \in Packet /\ c \in Classes
        /\ Wanting(c) # {} => p \in Protocols /\ p \in 1..MaxProtocols
        /\ \A r : Passed(r)' = IF Wanting(c) # {} /\ c.data /\ r = p
                               THEN Passed(r) \cup {x} ELSE Passed(r)
        /\ Taken' = Taken /\ Through = Taken - 1 /\ Through' = Taken
        /\ ~Busy' /\ UNCHANGED <<req, netint, rpq, table, fq, seen, handed>>
    BY <1>1, PreprocessPasses
  <1>3. /\ pq' = IF Wanting(c) # {} /\ c.data
                 THEN [pq EXCEPT ![p] = Append(pq[p], x)] ELSE pq
        /\ heap' = (heap \ {<<"raw", x>>}) \cup
                   (IF Wanting(c) = {} THEN {} ELSE {<<"pkt", x>>})
        /\ held' = [held EXCEPT !["pkt"] = None]
    BY <1>1 DEF Preprocess, Enq, Freed
  <1>4. /\ pq \in [1..MaxProtocols -> Seq(Packet)]
        /\ handed \in [1..MaxProtocols -> Seq(Packet)]
        /\ Len(seen) \in Nat /\ DOMAIN seen = 1..Len(seen)
    BY <1>0, Sizes DEF PacketTypes
  <1>5. \A r \in 1..MaxProtocols :
           pq'[r] = IF Wanting(c) # {} /\ c.data /\ r = p THEN Append(pq[r], x) ELSE pq[r]
    BY <1>2, <1>3, <1>4
  <1>6. PacketTypes'
    <2>1. \A r \in 1..MaxProtocols : Append(pq[r], x) \in Seq(Packet)
      BY <1>2, <1>4, EnqFacts
    <2>2. pq' \in [1..MaxProtocols -> Seq(Packet)]
      BY <1>2, <1>3, <1>4, <2>1
    <2>3. held' \in [Thread -> Packet \cup {None}]
      BY <1>0, <1>3 DEF PacketTypes
    <2> QED
      BY <1>0, <1>2, <2>2, <2>3 DEF PacketTypes
  <1>7. Arrivals'
    <2>1. Through' >= 0
      BY <1>2, <1>4
    <2> QED
      BY <1>0, <1>2, <2>1 DEF Arrivals
  <1>8. Streams'
    <2>1. ASSUME NEW r \in 1..MaxProtocols PROVE Stream(handed[r], pq'[r], Passed(r)')
      <3>0. Stream(handed[r], pq[r], Passed(r)) /\ pq[r] \in Seq(Packet) /\ handed[r] \in Seq(Packet)
        BY <1>4 DEF PInv, Streams
      <3>1. CASE Wanting(c) # {} /\ c.data /\ r = p
        <4>1. ASSUME NEW y \in Passed(r) PROVE y.id[2] < x.id[2]
          <5>1. PICK k \in Due(r) \cap 1..Through : y = seen[k]
            BY DEF Passed
          <5>2. k \in 1..Len(seen) /\ k < Taken
            BY <1>2, <1>4
          <5>3. seen[k].id[2] = k /\ seen[Taken].id[2] = Taken
            BY <1>0, <1>2, <5>2, SeenOnce
          <5> QED
            BY <1>2, <5>1, <5>2, <5>3
        <4>2. Stream(handed[r], Append(pq[r], x), Passed(r) \cup {x})
          BY <1>2, <3>0, <4>1, StreamEnq
        <4>3. pq'[r] = Append(pq[r], x) /\ Passed(r)' = Passed(r) \cup {x}
          BY <1>2, <1>5, <3>1
        <4> QED
          BY <4>2, <4>3
      <3>2. CASE ~(Wanting(c) # {} /\ c.data /\ r = p)
        <4>1. pq'[r] = pq[r] /\ Passed(r)' = Passed(r)
          BY <1>2, <1>5, <3>2
        <4> QED
          BY <3>0, <4>1
      <3> QED
        BY <3>1, <3>2
    <2> QED
      BY <1>2, <2>1 DEF Streams
  <1>9. Tables'
    BY <1>2 DEF PInv, Tables
  <1>10. Memory'
    <2>0. \A r \in 1..MaxProtocols :
             Owns(r)' = IF Wanting(c) # {} /\ c.data /\ r = p THEN Owns(r) \cup {x} ELSE Owns(r)
      <3>1. \A r \in 1..MaxProtocols : ToSet(Append(pq[r], x)) = ToSet(pq[r]) \cup {x}
        BY <1>2, <1>4, EnqFacts
      <3>2. \A r : InTable(r)' = InTable(r)
        BY <1>2 DEF InTable
      <3> QED
        BY <1>5, <3>1, <3>2 DEF Owns
    <2>1. heap' \subseteq {"raw", "pkt"} \X Packet
      BY <1>2, <1>3 DEF PInv, Memory
    <2>2. ASSUME NEW y \in Packet
          PROVE  <<"raw", y>> \in heap' <=> \E k \in (Taken + 1)..Len(seen) : y = seen[k]
      <3>1. <<"raw", y>> \in heap' <=> <<"raw", y>> \in heap /\ y # x
        BY <1>3
      <3>2. <<"raw", y>> \in heap <=> \E k \in Taken..Len(seen) : y = seen[k]
        BY <1>2, <1>4 DEF PInv, Memory
      <3>3. \A k \in Taken..Len(seen) : k \in 1..Len(seen) /\ (seen[k] = x <=> k = Taken)
        BY <1>0, <1>2, <1>4, SeenOnce
      <3> QED
        BY <1>2, <1>4, <3>1, <3>2, <3>3
    <2>3. \A y \in Packet :
             <<"pkt", y>> \in heap' <=> <<"pkt", y>> \in heap \/ (Wanting(c) # {} /\ y = x)
      BY <1>3
    <2>4. \A r \in 1..MaxProtocols : Owns(r) \subseteq Packet
      BY <1>0, ToSetType DEF Owns, InTable, PacketTypes, ToSet
    <2>5. ASSUME NEW r \in 1..MaxProtocols, NEW y \in Owns(r)' PROVE <<"pkt", y>> \in heap'
      <3>1. CASE y \in Owns(r)
        BY <2>3, <2>4, <3>1 DEF PInv, Memory
      <3>2. CASE y \notin Owns(r)
        BY <1>2, <2>0, <2>3, <2>5, <3>2
      <3> QED
        BY <3>1, <3>2
    <2>6. ASSUME NEW y \in Packet, <<"pkt", y>> \in heap'
          PROVE  \/ \E r \in 1..MaxProtocols : y \in Owns(r)'
                 \/ ~y.class.data /\ y.class.ports # {}
      <3>1. CASE <<"pkt", y>> \in heap
        BY <2>0, <3>1 DEF PInv, Memory
      <3>2. CASE Wanting(c) # {} /\ y = x /\ c.data
        BY <1>2, <2>0, <3>2
      <3>3. CASE Wanting(c) # {} /\ y = x /\ ~c.data
        BY <1>1, <3>3 DEF Wanting
      <3> QED
        BY <2>3, <2>6, <3>1, <3>2, <3>3
    <2> QED
      BY <1>2, <2>1, <2>2, <2>5, <2>6 DEF Memory
  <1> QED
    BY <1>6, <1>7, <1>8, <1>9, <1>10 DEF PInv

\* Flows of a table stay open, or are closed and go to fq: no packet is lost
\* or shared on the way.
LEMMA CloseFacts ==
    ASSUME NEW p \in 1..MaxProtocols, NEW h, NEW flows \in SUBSET Packet,
           table \in [1..MaxProtocols -> SUBSET Packet],
           fq \in [1..MaxProtocols -> Seq(SUBSET Packet)],
           Apart(h, flows, fq[p]), FlowsClose(p, flows)
    PROVE  /\ table' \in [1..MaxProtocols -> SUBSET Packet]
           /\ fq' \in [1..MaxProtocols -> Seq(SUBSET Packet)]
           /\ Apart(h, table'[p], fq'[p])
           /\ InTable(p)' = flows \cup UNION ToSet(fq[p])
           /\ \A r \in 1..MaxProtocols : r # p =>
                /\ table'[r] = table[r] /\ fq'[r] = fq[r] /\ InTable(r)' = InTable(r)
  <1>1. CASE table' = [table EXCEPT ![p] = flows] /\ UNCHANGED fq
    <2>1. /\ table'[p] = flows /\ fq'[p] = fq[p]
          /\ \A r \in 1..MaxProtocols : r # p => table'[r] = table[r] /\ fq'[r] = fq[r]
      BY <1>1
    <2>2. InTable(p)' = flows \cup UNION ToSet(fq[p])
      BY <2>1 DEF InTable
    <2>3. \A r \in 1..MaxProtocols : r # p => InTable(r)' = InTable(r)
      BY <2>1 DEF InTable
    <2> QED
      BY <1>1, <2>1, <2>2, <2>3
  <1>2. CASE /\ table' = [table EXCEPT ![p] = {}]
             /\ fq' = [fq EXCEPT ![p] = Append(fq[p], flows)]
    <2>1. /\ Append(fq[p], flows) \in Seq(SUBSET Packet)
          /\ ToSet(Append(fq[p], flows)) = ToSet(fq[p]) \cup {flows}
      BY EnqFacts
    <2>2. Apart(h, {}, Append(fq[p], flows))
      BY ApartClose
    <2>3. /\ table'[p] = {} /\ fq'[p] = Append(fq[p], flows)
          /\ \A r \in 1..MaxProtocols : r # p => table'[r] = table[r] /\ fq'[r] = fq[r]
      BY <1>2
    <2>4. /\ table' \in [1..MaxProtocols -> SUBSET Packet]
          /\ fq' \in [1..MaxProtocols -> Seq(SUBSET Packet)]
      BY <1>2, <2>1
    <2>5. InTable(p)' = flows \cup UNION ToSet(fq[p])
      BY <2>1, <2>3 DEF InTable
    <2>6. \A r \in 1..MaxProtocols : r # p => InTable(r)' = InTable(r)
      BY <2>3 DEF InTable
    <2> QED
      BY <2>2, <2>3, <2>4, <2>5, <2>6
  <1> QED
    BY <1>1, <1>2 DEF FlowsClose, Enq

\* A step after which the protocols own the same packets keeps the memory.
LEMMA SameMemory ==
    ASSUME Memory, UNCHANGED <<heap, seen>>, Through' = Through,
           \A r \in 1..MaxProtocols : Owns(r)' = Owns(r)
    PROVE  Memory'
  BY DEF Memory

\* A step that leaves the capture and the packet thread alone
LEMMA SameArrivals ==
    ASSUME PInv, UNCHANGED <<req, netint, rpq, seen, held>>, Busy' <=> Busy
    PROVE  /\ Taken' = Taken /\ Through' = Through /\ Arrivals'
           /\ \A p : Passed(p)' = Passed(p)
  <1>1. Taken' = Taken
    BY DEF Taken
  <1>2. Through' = Through
    BY <1>1 DEF Through
  <1>3. Arrivals'
    BY <1>1, <1>2 DEF PInv, Arrivals
  <1>4. \A p : Passed(p)' = Passed(p)
    BY <1>2, SamePassed, Sizes DEF PInv
  <1> QED
    BY <1>1, <1>2, <1>3, <1>4

\* process_packet_queue gives a packet to its flow table.
LEMMA PacketQueueKeeps == ASSUME CInv, PInv, PacketQueueThread PROVE PInv'
  <1>0. /\ PacketTypes /\ Streams /\ Tables /\ Memory /\ "pktq" \in Thread
        /\ UNCHANGED <<req, netint, held, rpq, heap, seen, pc>>
    BY Threads DEF PInv, PacketQueueThread, LoopGoesOn, threadOnly, handler
  <1>1. PICK p : p = it["pktq"]
    OBVIOUS
  <1>2. p \in 1..MaxProtocols
    <2>1. p \in Protocols
      BY <1>0, <1>1, LoopKeeps DEF PacketQueueThread
    <2> QED
      BY <2>1, RequestFacts DEF Protocols, CInv
  <1>3. /\ pq[p] \in Seq(Packet) /\ handed[p] \in Seq(Packet)
        /\ table[p] \in SUBSET Packet /\ fq[p] \in Seq(SUBSET Packet)
        /\ Stream(handed[p], pq[p], Passed(p)) /\ Apart(handed[p], table[p], fq[p])
    BY <1>0, <1>2 DEF PacketTypes, Streams, Tables
  <1>4. /\ Through' = Through /\ Arrivals' /\ \A r : Passed(r)' = Passed(r)
    BY <1>0, SameArrivals DEF Busy
  <1>5. CASE pq[p] = <<>>
    <2>1. Deq(pq[p]).elem = None /\ Deq(pq[p]).rest = pq[p]
      BY <1>5 DEF Deq
    <2>2. pq' = [pq EXCEPT ![p] = pq[p]] /\ UNCHANGED <<table, fq, handed>>
      BY <1>1, <2>1 DEF PacketQueueThread
    <2>3. UNCHANGED pq
      BY <1>0, <1>2, <2>2 DEF PacketTypes
    <2>4. held' \in [Thread -> Packet \cup {None}]
      BY <1>0 DEF PacketTypes
    <2> QED
      BY <1>0, <2>2, <2>3, <2>4, PacketsStay DEF Busy, queues, records
  <1>6. CASE pq[p] # <<>>
    <2>1. PICK x : x = Head(pq[p])
      OBVIOUS
    <2>2. /\ Deq(pq[p]).elem = x /\ Deq(pq[p]).rest = Tail(pq[p]) /\ x \in Packet
          /\ Tail(pq[p]) \in Seq(Packet) /\ ToSet(pq[p]) = ToSet(Tail(pq[p])) \cup {x}
      BY <1>3, <1>6, <2>1, DeqFacts
    <2>3. x # None
      BY <2>2, LifecycleAssumption
    <2>4. /\ pq' = [pq EXCEPT ![p] = Tail(pq[p])]
          /\ handed' = [handed EXCEPT ![p] = Append(handed[p], x)]
          /\ FlowsClose(p, table[p] \cup {x})
      BY <1>1, <2>2, <2>3 DEF PacketQueueThread
    <2>5. /\ Stream(Append(handed[p], x), Tail(pq[p]), Passed(p)) /\ x \notin ToSet(handed[p])
      BY <1>3, <1>6, <2>1, StreamDeq
    <2>6. Apart(Append(handed[p], x), table[p] \cup {x}, fq[p])
      BY <1>3, <2>2, <2>5, ApartAdd
    <2>7. /\ table' \in [1..MaxProtocols -> SUBSET Packet]
          /\ fq' \in [1..MaxProtocols -> Seq(SUBSET Packet)]
          /\ Apart(Append(handed[p], x), table'[p], fq'[p])
          /\ InTable(p)' = (table[p] \cup {x}) \cup UNION ToSet(fq[p])
          /\ \A r \in 1..MaxProtocols : r # p =>
               table'[r] = table[r] /\ fq'[r] = fq[r] /\ InTable(r)' = InTable(r)
      <3>1. table[p] \cup {x} \in SUBSET Packet
        BY <1>3, <2>2
      <3> QED
        BY <1>0, <1>2, <2>4, <2>6, <3>1, CloseFacts DEF PacketTypes
    <2>8. /\ pq'[p] = Tail(pq[p]) /\ handed'[p] = Append(handed[p], x)
          /\ \A r \in 1..MaxProtocols : r # p => pq'[r] = pq[r] /\ handed'[r] = handed[r]
      BY <1>0, <1>2, <2>4 DEF PacketTypes
    <2>9. PacketTypes'
      <3>1. Append(handed[p], x) \in Seq(Packet)
        BY <1>3, <2>2, EnqFacts
      <3>2. /\ pq' \in [1..MaxProtocols -> Seq(Packet)]
            /\ handed' \in [1..MaxProtocols -> Seq(Packet)]
        BY <1>0, <2>2, <2>4, <3>1 DEF PacketTypes
      <3> QED
        BY <1>0, <2>7, <3>2 DEF PacketTypes
    <2>10. Streams'
      <3>1. ASSUME NEW r \in 1..MaxProtocols PROVE Stream(handed'[r], pq'[r], Passed(r)')
        <4>1. CASE r = p
          BY <1>4, <2>5, <2>8, <4>1
        <4>2. CASE r # p
          BY <1>0, <1>4, <2>8, <4>2 DEF Streams
        <4> QED
          BY <4>1, <4>2
      <3> QED
        BY <3>1 DEF Streams
    <2>11. Tables'
      <3>1. ASSUME NEW r \in 1..MaxProtocols PROVE Apart(handed'[r], table'[r], fq'[r])
        <4>1. CASE r = p
          BY <2>7, <2>8, <4>1
        <4>2. CASE r # p
          BY <1>0, <2>7, <2>8, <4>2 DEF Tables
        <4> QED
          BY <4>1, <4>2
      <3> QED
        BY <3>1 DEF Tables
    <2>12. ASSUME NEW r \in 1..MaxProtocols PROVE Owns(r)' = Owns(r)
      <3>1. CASE r = p
        <4>1. Owns(r)' = ToSet(pq'[r]) \cup InTable(r)'
          BY DEF Owns
        <4>2. Owns(r) = ToSet(pq[r]) \cup (table[r] \cup UNION ToSet(fq[r]))
          BY DEF Owns, InTable
        <4> QED
          BY <2>2, <2>7, <2>8, <3>1, <4>1, <4>2
      <3>2. CASE r # p
        BY <2>7, <2>8, <3>2 DEF Owns
      <3> QED
        BY <3>1, <3>2
    <2>13. Memory'
      BY <1>0, <1>4, <2>12, SameMemory
    <2> QED
      BY <1>4, <2>9, <2>10, <2>11, <2>13 DEF PInv
  <1> QED
    BY <1>5, <1>6

\* A packet is passed on to one protocol only.
LEMMA PassedApart ==
    ASSUME CInv, PInv, NEW p \in 1..MaxProtocols, NEW r \in 1..MaxProtocols, p # r
    PROVE  Owns(p) \subseteq Passed(p) /\ Passed(p) \cap Passed(r) = {}
  <1>0. PacketTypes /\ Arrivals /\ MaxProtocols \in Nat
    BY RequestFacts DEF PInv, CInv
  <1>1. Owns(p) \subseteq Passed(p)
    <2>1. Stream(handed[p], pq[p], Passed(p)) /\ Apart(handed[p], table[p], fq[p])
      BY DEF PInv, Streams, Tables
    <2>2. UNION ToSet(fq[p]) \subseteq ToSet(handed[p])
      BY <2>1 DEF Apart, ToSet
    <2> QED
      BY <2>1, <2>2 DEF Owns, InTable, Stream, Apart
  <1>2. ASSUME NEW x \in Passed(p), x \in Passed(r) PROVE FALSE
    <2>1. PICK k \in Due(p) : x = seen[k]
      BY DEF Passed
    <2>2. PICK l \in Due(r) : x = seen[l]
      BY <1>2 DEF Passed
    <2>3. k \in 1..Len(seen) /\ l \in 1..Len(seen)
      BY <1>0, Sizes DEF Due
    <2>4. k = l
      BY <1>0, <2>1, <2>2, <2>3, SeenOnce
    <2>5. p <= r /\ r <= p
      BY <2>4 DEF Due
    <2> QED
      BY <1>0, <2>5
  <1> QED
    BY <1>1, <1>2

\* process_flow_queue frees the packets of a closed flow, which nothing else
\* holds.
LEMMA FlowQueueKeeps == ASSUME CInv, PInv, FlowQueueThread PROVE PInv'
  <1>0. /\ PacketTypes /\ Streams /\ Tables /\ Memory /\ "flowq" \in Thread
        /\ UNCHANGED <<req, netint, held, rpq, pq, table, seen, handed, pc>>
    BY Threads DEF PInv, FlowQueueThread, LoopGoesOn, threadOnly, handler
  <1>1. PICK p : p = it["flowq"]
    OBVIOUS
  <1>2. p \in 1..MaxProtocols
    <2>1. p \in Protocols
      BY <1>0, <1>1, LoopKeeps DEF FlowQueueThread
    <2> QED
      BY <2>1, RequestFacts DEF Protocols, CInv
  <1>3. /\ fq \in [1..MaxProtocols -> Seq(SUBSET Packet)] /\ fq[p] \in Seq(SUBSET Packet)
        /\ Stream(handed[p], pq[p], Passed(p)) /\ Apart(handed[p], table[p], fq[p])
        /\ pq[p] \in Seq(Packet) /\ handed[p] \in Seq(Packet)
    BY <1>0, <1>2 DEF PacketTypes, Streams, Tables
  <1>4. /\ Through' = Through /\ Arrivals' /\ \A r : Passed(r)' = Passed(r)
    BY <1>0, SameArrivals DEF Busy
  <1>5. CASE fq[p] = <<>>
    <2>1. Deq(fq[p]).rest = fq[p]
      BY <1>5 DEF Deq
    <2>2. fq' = [fq EXCEPT ![p] = fq[p]] /\ UNCHANGED heap
      BY <1>1, <1>5, <2>1 DEF FlowQueueThread
    <2>3. UNCHANGED fq
      BY <1>2, <1>3, <2>2
    <2>4. held' \in [Thread -> Packet \cup {None}]
      BY <1>0 DEF PacketTypes
    <2> QED
      BY <1>0, <2>2, <2>3, <2>4, PacketsStay DEF Busy, queues, records
  <1>6. CASE fq[p] # <<>>
    <2>1. PICK f : f = Head(fq[p])
      OBVIOUS
    <2>2. /\ Deq(fq[p]).elem = f /\ Deq(fq[p]).rest = Tail(fq[p]) /\ f \in SUBSET Packet
          /\ Tail(fq[p]) \in Seq(SUBSET Packet)
          /\ ToSet(fq[p]) = ToSet(Tail(fq[p])) \cup {f}
      BY <1>3, <1>6, <2>1, DeqFacts
    <2>3. /\ fq' = [fq EXCEPT ![p] = Tail(fq[p])]
          /\ heap' = heap \ {<<"pkt", x>> : x \in f}
      BY <1>1, <1>6, <2>2 DEF FlowQueueThread
    <2>4. /\ Apart(handed[p], table[p], Tail(fq[p])) /\ f \subseteq ToSet(handed[p])
          /\ f \cap (table[p] \cup UNION ToSet(Tail(fq[p]))) = {}
      BY <1>3, <1>6, <2>1, ApartDeq
    <2>5. /\ fq'[p] = Tail(fq[p]) /\ fq' \in [1..MaxProtocols -> Seq(SUBSET Packet)]
          /\ \A r \in 1..MaxProtocols : r # p => fq'[r] = fq[r]
      BY <1>2, <1>3, <2>2, <2>3
    <2>6. PacketTypes'
      BY <1>0, <2>5 DEF PacketTypes
    <2>7. Streams'
      BY <1>0, <1>4 DEF Streams
    <2>8. Tables'
      <3>1. ASSUME NEW r \in 1..MaxProtocols PROVE Apart(handed[r], table[r], fq'[r])
        <4>1. CASE r = p
          BY <2>4, <2>5, <4>1
        <4>2. CASE r # p
          BY <1>0, <2>5, <4>2 DEF Tables
        <4> QED
          BY <4>1, <4>2
      <3> QED
        BY <1>0, <3>1 DEF Tables
    <2>9. /\ f \cap ToSet(pq[p]) = {} /\ f \subseteq Passed(p)
      <3>1. \A x \in ToSet(pq[p]) : x \in Packet
        BY <1>3, ToSetType
      <3>2. \A x \in f, y \in ToSet(pq[p]) : x.id[2] < y.id[2]
        BY <1>3, <2>4 DEF Stream
      <3>3. \A x \in f : x \notin ToSet(pq[p])
        BY <3>1, <3>2, PacketNumber
      <3> QED
        BY <1>3, <2>4, <3>3 DEF Stream
    <2>10. ASSUME NEW r \in 1..MaxProtocols
           PROVE  Owns(r)' \subseteq Owns(r) \ f /\ Owns(r) \subseteq Owns(r)' \cup f
      <3>1. CASE r = p
        <4>1. Owns(r)' = ToSet(pq[p]) \cup (table[p] \cup UNION ToSet(Tail(fq[p])))
          BY <1>0, <2>5, <3>1 DEF Owns, InTable
        <4>2. Owns(r) = ToSet(pq[p]) \cup (table[p] \cup UNION ToSet(fq[p]))
          BY <3>1 DEF Owns, InTable
        <4>3. UNION ToSet(fq[p]) = f \cup UNION ToSet(Tail(fq[p]))
          BY <2>2
        <4> QED
          BY <2>4, <2>9, <4>1, <4>2, <4>3
      <3>2. CASE r # p
        <4>1. Owns(r)' = Owns(r)
          BY <1>0, <2>5, <3>2 DEF Owns, InTable
        <4>2. Owns(r) \subseteq Passed(r) /\ Passed(r) \cap Passed(p) = {}
          BY <1>2, <3>2, PassedApart
        <4> QED
          BY <2>9, <4>1, <4>2
      <3> QED
        BY <3>1, <3>2
    <2>11. Memory'
      <3>1. heap' \subseteq heap
        BY <2>3
      <3>2. \A x : <<"raw", x>> \in heap' <=> <<"raw", x>> \in heap
        BY <2>3
      <3>3. \A x : <<"pkt", x>> \in heap' <=> <<"pkt", x>> \in heap /\ x \notin f
        BY <2>3
      <3>4. heap' \subseteq {"raw", "pkt"} \X Packet
        BY <1>0, <3>1 DEF Memory
      <3>5. \A x \in Packet : <<"raw", x>> \in heap' <=>
               \E k \in (Through + 1)..Len(seen) : x = seen[k]
        BY <1>0, <3>2 DEF Memory
      <3>6. \A r \in 1..MaxProtocols : \A x \in Owns(r)' : <<"pkt", x>> \in heap'
        BY <1>0, <2>10, <3>3 DEF Memory
      <3>7. ASSUME NEW x \in Packet, <<"pkt", x>> \in heap'
            PROVE  \/ \E r \in 1..MaxProtocols : x \in Owns(r)'
                   \/ ~x.class.data /\ x.class.ports # {}
        <4>1. <<"pkt", x>> \in heap /\ x \notin f
          BY <3>3, <3>7
        <4> QED
          BY <1>0, <2>10, <4>1 DEF Memory
      <3> QED
        BY <1>0, <1>4, <3>4, <3>5, <3>6, <3>7 DEF Memory
    <2> QED
      BY <1>4, <2>6, <2>7, <2>8, <2>11 DEF PInv
  <1> QED
    BY <1>5, <1>6

\* The scrubber closes the flows of a table.
LEMMA ScrubKeeps == ASSUME CInv, PInv, ScrubThread PROVE PInv'
  <1>0. /\ PacketTypes /\ Streams /\ Tables /\ Memory /\ "scrub" \in Thread
        /\ UNCHANGED <<req, netint, held, rpq, pq, heap, seen, handed>>
        /\ (Busy' <=> Busy) /\ pc["scrub"] \in {"sleep", "test"}
    BY Threads DEF PInv, ScrubThread, GoesOn, Busy, CInv, Types, threadOnly, handler, records
  <1>1. PICK p : p = it["scrub"]
    OBVIOUS
  <1>2. p \in 1..MaxProtocols
    <2>1. p \in Protocols
      BY <1>0, <1>1 DEF CInv, Running, Loops
    <2> QED
      BY <2>1, RequestFacts DEF Protocols, CInv
  <1>3. CASE UNCHANGED <<table, fq>>
    <2>1. held' \in [Thread -> Packet \cup {None}]
      BY <1>0 DEF PacketTypes
    <2> QED
      BY <1>0, <1>3, <2>1, PacketsStay DEF queues, records
  <1>4. CASE FlowsClose(p, table[p])
    <2>1. /\ table \in [1..MaxProtocols -> SUBSET Packet] /\ table[p] \in SUBSET Packet
          /\ fq \in [1..MaxProtocols -> Seq(SUBSET Packet)]
          /\ Apart(handed[p], table[p], fq[p])
      BY <1>0, <1>2 DEF PacketTypes, Tables
    <2>2. /\ table' \in [1..MaxProtocols -> SUBSET Packet]
          /\ fq' \in [1..MaxProtocols -> Seq(SUBSET Packet)]
          /\ Apart(handed[p], table'[p], fq'[p])
          /\ InTable(p)' = table[p] \cup UNION ToSet(fq[p])
          /\ \A r \in 1..MaxProtocols : r # p =>
               table'[r] = table[r] /\ fq'[r] = fq[r] /\ InTable(r)' = InTable(r)
      BY <1>2, <1>4, <2>1, CloseFacts
    <2>3. PacketTypes'
      BY <1>0, <2>2 DEF PacketTypes
    <2>4. /\ Through' = Through /\ Arrivals' /\ \A r : Passed(r)' = Passed(r)
      BY <1>0, SameArrivals
    <2>5. Streams'
      BY <1>0, <2>4 DEF Streams
    <2>6. Tables'
      BY <1>0, <2>2 DEF Tables
    <2>7. ASSUME NEW r \in 1..MaxProtocols PROVE Owns(r)' = Owns(r)
      <3>1. InTable(r)' = InTable(r)
        BY <2>2 DEF InTable
      <3> QED
        BY <1>0, <3>1 DEF Owns
    <2>8. Memory'
      BY <1>0, <2>4, <2>7, SameMemory
    <2> QED
      BY <2>3, <2>4, <2>5, <2>6, <2>8 DEF PInv
  <1> QED
    BY <1>1, <1>3, <1>4 DEF ScrubThread

\* An analysis begins without packets.
LEMMA NoPackets ==
    ASSUME seen = <<>>, rpq = <<>>, ~Busy, heap = {}, held = [t \in Thread |-> None],
           pq = [p \in 1..MaxProtocols |-> <<>>], fq = [p \in 1..MaxProtocols |-> <<>>],
           handed = [p \in 1..MaxProtocols |-> <<>>],
           table = [p \in 1..MaxProtocols |-> {}]
    PROVE  PInv
  <1>1. /\ Len(seen) = 0 /\ Len(rpq) = 0 /\ DOMAIN seen = {} /\ DOMAIN rpq = {}
        /\ ToSet(<<>>) = {} /\ \A S : <<>> \in Seq(S)
    BY DEF ToSet
  <1>2. Taken = 0 /\ Through = 0
    BY <1>1 DEF Taken, Through
  <1>3. PacketTypes
    BY <1>1 DEF PacketTypes
  <1>4. Arrivals
    BY <1>1, <1>2 DEF Arrivals
  <1>5. \A p : Passed(p) = {}
    BY <1>2 DEF Passed
  <1>6. Streams
    BY <1>1, <1>5 DEF Streams, Stream, Increasing
  <1>7. Tables
    BY <1>1 DEF Tables, Apart
  <1>8. Memory
    <2>1. \A p \in 1..MaxProtocols : Owns(p) = {}
      BY <1>1 DEF Owns, InTable
    <2> QED
      BY <1>1, <1>2, <2>1 DEF Memory
  <1> QED
    BY <1>3, <1>4, <1>6, <1>7, <1>8 DEF PInv

\* The next analysis has new queues and tables.
LEMMA DoneKeeps == ASSUME AnalysisDone PROVE PInv'
  <1>1. /\ seen' = <<>> /\ rpq' = <<>> /\ heap' = {} /\ held' = [t \in Thread |-> None]
        /\ pq' = [p \in 1..MaxProtocols |-> <<>>] /\ fq' = [p \in 1..MaxProtocols |-> <<>>]
        /\ handed' = [p \in 1..MaxProtocols |-> <<>>]
        /\ table' = [p \in 1..MaxProtocols |-> {}]
    BY DEF AnalysisDone
  <1>2. ~Busy'
    BY Threads DEF AnalysisDone, Busy
  <1>3. (/\ seen = <<>> /\ rpq = <<>> /\ ~Busy /\ heap = {}
         /\ held = [t \in Thread |-> None]
         /\ pq = [p \in 1..MaxProtocols |-> <<>>]
         /\ fq = [p \in 1..MaxProtocols |-> <<>>]
         /\ handed = [p \in 1..MaxProtocols |-> <<>>]
         /\ table = [p \in 1..MaxProtocols |-> {}])' => PInv'
    BY NoPackets, PTL
  <1> QED
    BY <1>1, <1>2, <1>3

\* The initial state has no packets.
LEMMA InitPInv == Init => PInv
  <1> SUFFICES ASSUME Init PROVE PInv
    OBVIOUS
  <1>1. ~Busy
    BY Threads DEF Init, Busy
  <1> QED
    BY <1>1, NoPackets DEF Init

\* The steps of the other threads, and of the handler within an analysis
LEMMA OthersKeep ==
    ASSUME CInv, PInv, UNCHANGED <<req, netint, held, queues, records>>,
           \/ UNCHANGED pc
           \/ \E t \in Thread \ {"pkt"}, s \in Place : GoesOn(t, s)
           \/ StartAnalysis
    PROVE  PInv'
  <1>1. pc \in [Thread -> Place] /\ "pkt" \in Thread
    BY Threads DEF CInv, Types
  <1>2. held' \in [Thread -> Packet \cup {None}]
    BY DEF PInv, PacketTypes
  <1>3. Busy' <=> Busy
    <2>1. CASE UNCHANGED pc
      BY <2>1 DEF Busy
    <2>2. ASSUME NEW t \in Thread \ {"pkt"}, NEW s \in Place, GoesOn(t, s)
          PROVE  Busy' <=> Busy
      BY <1>1, <2>2 DEF GoesOn, Busy
    <2>3. CASE StartAnalysis
      <3>1. ~Busy
        BY <1>1, <2>3 DEF StartAnalysis, Busy, CInv, Running
      <3>2. pc' = pc \/ pc'["pkt"] = "deq"
        BY <1>1, <2>3 DEF StartAnalysis
      <3> QED
        BY <3>1, <3>2 DEF Busy
    <2> QED
      BY <2>1, <2>2, <2>3
  <1> QED
    BY <1>2, <1>3, PacketsStay

\* Every step keeps the invariant of the packets.
LEMMA NextPInv == ASSUME CInv, PInv, [Next]_vars PROVE PInv'
  <1>1. CASE Handler
    <2>1. CASE Receive \/ Join \/ Finish
      <3>1. UNCHANGED <<req, netint, held, queues, records>> /\ UNCHANGED pc
        BY <2>1 DEF Receive, Join, Finish
      <3> QED
        BY <3>1, OthersKeep
    <2>2. CASE StartAnalysis
      <3>1. UNCHANGED <<req, netint, held, queues, records>>
        BY <2>2 DEF StartAnalysis
      <3> QED
        BY <2>2, <3>1, OthersKeep
    <2> QED
      BY <1>1, <2>1, <2>2, DoneKeeps DEF Handler
  <1>2. CASE CaptureOpen \/ CaptureTest \/ CaptureNext
    <2>1. UNCHANGED <<req, netint, held, queues, records>>
      BY <1>2 DEF CaptureOpen, CaptureTest, CaptureNext, threadOnly, handler
    <2>2. \E s \in Place : GoesOn("capture", s)
      BY <1>2 DEF CaptureOpen, CaptureTest, CaptureNext, Place
    <2> QED
      BY <2>1, <2>2, OthersKeep, Threads
  <1>3. CASE TimerThread
    <2>1. UNCHANGED <<req, netint, held, queues, records>>
      BY <1>3 DEF TimerThread, handler
    <2>2. \E s \in Place : GoesOn("timer", s)
      BY <1>3 DEF TimerThread, Place
    <2> QED
      BY <2>1, <2>2, OthersKeep, Threads
  <1>4. ASSUME NEW n \in NetInt,
               \/ DurationThread(n) \/ DurationFires(n)
               \/ CallbackStarts(n) \/ CallbackEnds(n)
        PROVE  PInv'
    <2>1. UNCHANGED <<req, netint, held, queues, records>> /\ UNCHANGED pc
      BY <1>4 DEF DurationThread, DurationFires, CallbackStarts, CallbackEnds, handler
    <2> QED
      BY <2>1, OthersKeep
  <1>5. ASSUME NEW t \in Thread, LoopEnds(t) PROVE PInv'
    <2>1. UNCHANGED <<req, netint, held, queues, records>>
      BY <1>5 DEF LoopEnds, threadOnly, handler
    <2>2. t # "pkt" /\ \E s \in Place : GoesOn(t, s)
      BY <1>5 DEF LoopEnds, Place
    <2> QED
      BY <2>1, <2>2, OthersKeep
  <1>6. CASE UNCHANGED vars
    <2>1. UNCHANGED <<req, netint, held, queues, records>> /\ UNCHANGED pc
      BY <1>6 DEF vars, queues, records
    <2> QED
      BY <2>1, OthersKeep
  <1> QED
    BY <1>1, <1>2, <1>3, <1>4, <1>5, <1>6, CaptureKeeps, PacketThreadKeeps,
       PreprocessKeeps, PacketQueueKeeps, FlowQueueKeeps, ScrubKeeps
       DEF Next, Capture, EndOfTrace

\* The invariant of the packets holds throughout.
LEMMA PacketInvariant == Spec => [](CInv /\ PInv)
  <1>1. Init => CInv /\ PInv
    BY InitControl, InitPInv
  <1>2. CInv /\ PInv /\ [Next]_vars => CInv' /\ PInv'
    BY NextControl, NextPInv
  <1> QED
    BY <1>1, <1>2, PTL DEF Spec

-----------------------------------------------------------------------------
\* The packets of a connection reach its flow table in the order of capture,
\* none twice and none left out, whatever the interleaving of the capture, the
\* packet thread and the queue thread, and however many packets there are.
THEOREM PacketsStayInOrder == Spec => []PipelineInOrder
  <1>1. CInv /\ PInv => PipelineInOrder
    <2> SUFFICES ASSUME CInv, PInv, NEW p \in Protocols
                 PROVE  /\ \E n \in 0..Len(seen) :
                             ToSet(handed[p]) = {seen[k] : k \in Due(p) \cap 1..n}
                        /\ \A i, j \in DOMAIN handed[p] :
                             i < j => handed[p][i].id[2] < handed[p][j].id[2]
      BY DEF PipelineInOrder
    <2>0. PacketTypes /\ Arrivals /\ p \in 1..MaxProtocols
      BY RequestFacts DEF PInv, CInv, Protocols
    <2>1. /\ Stream(handed[p], pq[p], Passed(p)) /\ pq[p] \in Seq(Packet)
          /\ Passed(p) = {seen[k] : k \in Due(p) \cap 1..Through}
      BY <2>0 DEF PInv, Streams, Passed, PacketTypes
    <2>2. /\ Len(seen) \in Nat /\ Through \in 0..Len(seen) /\ DOMAIN seen = 1..Len(seen)
      BY <2>0, Sizes
    <2>3. Increasing(handed[p])
      BY <2>1 DEF Stream
    <2>4. CASE pq[p] = <<>>
      <3>1. ToSet(pq[p]) = {}
        BY <2>4 DEF ToSet
      <3>2. ToSet(handed[p]) = {seen[k] : k \in Due(p) \cap 1..Through}
        BY <2>1, <3>1 DEF Stream
      <3> QED
        BY <2>2, <2>3, <3>2 DEF Increasing
    <2>5. CASE pq[p] # <<>>
      <3>1. PICK x : x = Head(pq[p])
        OBVIOUS
      <3>2. /\ x \in ToSet(pq[p]) /\ ToSet(pq[p]) = ToSet(Tail(pq[p])) \cup {x}
            /\ \A y \in ToSet(pq[p]) : y = x \/ x.id[2] < y.id[2]
        <4>1. /\ x = pq[p][1] /\ DOMAIN pq[p] = 1..Len(pq[p]) /\ Len(pq[p]) \in Nat
              /\ ToSet(pq[p]) = ToSet(Tail(pq[p])) \cup {x}
          BY <2>1, <2>5, <3>1, DeqFacts
        <4>2. ASSUME NEW y \in ToSet(pq[p]) PROVE y = x \/ x.id[2] < y.id[2]
          <5>1. PICK i \in 1..Len(pq[p]) : y = pq[p][i]
            BY <4>1 DEF ToSet
          <5> QED
            BY <2>1, <4>1, <5>1 DEF Stream, Increasing
        <4> QED
          BY <4>1, <4>2
      <3>3. PICK m \in Due(p) \cap 1..Through : x = seen[m]
        BY <2>1, <3>2 DEF Stream
      <3>4. m \in 1..Len(seen) /\ m - 1 \in 0..Len(seen) /\ x.id[2] = m /\ m <= Through
        BY <2>0, <2>2, <3>3, SeenOnce
      <3>5. ASSUME NEW y \in ToSet(handed[p])
            PROVE  y \in {seen[k] : k \in Due(p) \cap 1..(m - 1)}
        <4>1. PICK k \in Due(p) \cap 1..Through : y = seen[k]
          BY <2>1 DEF Stream
        <4>2. y.id[2] = k /\ k \in 1..Len(seen)
          BY <2>0, <2>2, <4>1, SeenOnce
        <4>3. k < m
          BY <2>1, <3>2, <3>4, <4>2 DEF Stream
        <4> QED
          BY <2>2, <3>4, <4>1, <4>2, <4>3
      <3>6. ASSUME NEW k \in Due(p) \cap 1..(m - 1) PROVE seen[k] \in ToSet(handed[p])
        <4>1. k \in 1..Through /\ k \in 1..Len(seen) /\ k < m
          BY <2>2, <3>4
        <4>2. seen[k].id[2] = k
          BY <2>0, <4>1, SeenOnce
        <4>3. seen[k] \in ToSet(handed[p]) \cup ToSet(pq[p])
          BY <2>1, <4>1 DEF Stream
        <4>4. seen[k] \notin ToSet(pq[p])
          <5>1. SUFFICES ASSUME seen[k] \in ToSet(pq[p]) PROVE FALSE
            OBVIOUS
          <5>2. seen[k] = x \/ x.id[2] < seen[k].id[2]
            BY <3>2, <5>1
          <5>3. k = m \/ m < k
            BY <3>4, <4>2, <5>2
          <5> QED
            BY <3>4, <4>1, <5>3
        <4> QED
          BY <4>3, <4>4
      <3>7. ToSet(handed[p]) = {seen[k] : k \in Due(p) \cap 1..(m - 1)}
        BY <3>5, <3>6
      <3> QED
        BY <2>3, <3>4, <3>7 DEF Increasing
    <2> QED
      BY <2>4, <2>5
  <1> QED
    BY <1>1, PacketInvariant, PTL

\* No packet that a queue or a flow table holds has been freed, none is freed
\* twice or lost on its way through the threads, except for the packets without
\* data that packet_preprocess forgets.
THEOREM OthersAreFreed == Spec => []OnlyEmptyPacketsLeak
  <1>1. CInv /\ PInv => OnlyEmptyPacketsLeak
    <2> SUFFICES ASSUME CInv, PInv PROVE OnlyEmptyPacketsLeak
      OBVIOUS
    <2>0. PacketTypes /\ Arrivals /\ Memory
      BY DEF PInv
    <2>1. /\ Len(seen) \in Nat /\ Len(rpq) \in Nat /\ Taken + Len(rpq) = Len(seen)
          /\ DOMAIN rpq = 1..Len(rpq) /\ Taken \in Nat /\ Through \in Nat
          /\ Through = Taken \/ (Busy /\ Through = Taken - 1)
          /\ Through <= Taken
          /\ \A k \in 1..Len(seen) : seen[k] \in Packet
      BY <2>0, Sizes
    <2>2. \A i \in DOMAIN rpq : rpq[i] = seen[Taken + i]
      BY <2>0 DEF Arrivals
    <2>3. ASSUME NEW x \in ToSet(rpq) PROVE <<"raw", x>> \in heap
      <3>1. PICK i \in 1..Len(rpq) : x = seen[Taken + i]
        BY <2>1, <2>2 DEF ToSet
      <3>2. Taken + i \in (Through + 1)..Len(seen) /\ Taken + i \in 1..Len(seen)
        BY <2>1
      <3> QED
        BY <2>0, <2>1, <3>1, <3>2 DEF Memory
    <2>4. \A p \in 1..MaxProtocols : \A x \in ToSet(pq[p]) \cup InTable(p) :
            <<"pkt", x>> \in heap
      BY <2>0 DEF Memory, Owns
    <2>5. ASSUME NEW o \in heap
          PROVE  o[2] \in Reachable \/ (o[1] = "pkt" /\ ~o[2].class.data
                                                 /\ o[2].class.ports # {})
      <3>1. PICK s \in {"raw", "pkt"}, x \in Packet : o = <<s, x>>
        BY <2>0 DEF Memory
      <3>2. CASE s = "raw"
        <4>1. PICK k \in (Through + 1)..Len(seen) : x = seen[k]
          BY <2>0, <3>1, <3>2 DEF Memory
        <4>2. CASE k > Taken
          <5>1. k - Taken \in 1..Len(rpq) /\ rpq[k - Taken] = x
            BY <2>1, <2>2, <4>1, <4>2
          <5>2. x \in ToSet(rpq)
            BY <2>1, <5>1 DEF ToSet
          <5> QED
            BY <3>1, <5>2 DEF Reachable
        <4>3. CASE k <= Taken
          <5>1. Busy /\ k = Taken
            BY <2>1, <4>1, <4>3
          <5>2. held["pkt"] = x
            BY <2>0, <4>1, <5>1 DEF Arrivals
          <5> QED
            BY <3>1, <5>2 DEF Reachable
        <4> QED
          BY <2>1, <4>1, <4>2, <4>3
      <3>3. CASE s = "pkt"
        <4>1. \/ \E p \in 1..MaxProtocols : x \in Owns(p)
              \/ ~x.class.data /\ x.class.ports # {}
          BY <2>0, <3>1, <3>3 DEF Memory
        <4>2. (\E p \in 1..MaxProtocols : x \in Owns(p)) => x \in Reachable
          BY DEF Owns, Reachable
        <4> QED
          BY <3>1, <3>3, <4>1, <4>2
      <3> QED
        BY <3>1, <3>2, <3>3
    <2> QED
      BY <2>3, <2>4, <2>5 DEF OnlyEmptyPacketsLeak
  <1> QED
    BY <1>1, PacketInvariant, PTL
==============================================================================
