------------------------------- MODULE Metrics -------------------------------
(***************************************************************************)
(* The metrics of one protocol (metrics/), the events that feed them       *)
(* (events/) and the timer callback that reports them (processData in      *)
(* timer.c).                                                               *)
(*                                                                         *)
(*   flow       the flow thread: extractData of a closed flow notifies     *)
(*              the metrics that have subscribed                           *)
(*   Callback   a timer callback: it notifies the metrics about the flows  *)
(*              that are still open (flowHashProcess), then of the second  *)
(*              that has passed and, every Interval seconds, of the end of *)
(*              the interval, upon which each metric sends its report      *)
(*                                                                         *)
(* A handler is a sequence of operations, each of them what other threads  *)
(* see as one step: one critical section of a Value, one access to a       *)
(* member that no mutex protects, one walk over a bucket.  A thread has a  *)
(* sequence of handlers to run and its position in the first of them, so   *)
(* that handlers of several threads interleave.                            *)
(*                                                                         *)
(* A double is an integer number of 1/Scale.                               *)
(***************************************************************************)
EXTENDS Integers, Sequences, FiniteSets

CONSTANTS
    Setups,      \* what is analysed, and its bounds: see Setup
    Callback,    \* timer callbacks
    Interval,    \* analysis->interval
    Name,        \* clients, paths, methods, statuses
    Bad,         \* the one name that is an error status
    CflSize,     \* CFL_SIZE
    UIntMod,     \* 2^32
    Scale,       \* fractions of a double told apart
    None

\* Doubles that no count, and no quotient of counts, is equal to: NaN, the
\* largest finite one (std::numeric_limits<double>::max()) and infinity
NaN  == -1
Huge == -2
Inf  == -3

\* x < y
Less(x, y) == /\ NaN \notin {x, y} /\ x # Inf
              /\ \/ y = Inf
                 \/ y = Huge /\ x # Huge
                 \/ Huge \notin {x, y} /\ x < y

\* protocol, active: the protocol and the activeMetrics of the request;
\* overlap: a callback may take longer than a second; events, ticks: bounds,
\* the events and the times the timer fires
Setup(s) == /\ s.protocol \in {"HTTP", "MEMCACHED", "MYSQL"}
            /\ s.active \subseteq Nat /\ s.overlap \in BOOLEAN
            /\ s.ticks \in Nat /\ s.events \in Nat

ASSUME MetricsAssumption ==
    /\ Interval \in Nat \ {0} /\ CflSize \in Nat \ {0}
    /\ UIntMod \in Nat \ {0} /\ Scale \in Nat \ {0}
    /\ Scale % Interval = 0 /\ \A s \in Setups : Setup(s)
    /\ Bad \in Name /\ None \notin Name \cup Callback \cup {"flow"} \cup Int
    /\ "flow" \notin Callback /\ IsFiniteSet(Callback)

VARIABLES
    setup,
    metrics,     \* the classes of the protocol's metrics, after activeMetrics
    obj,         \* the members of each metric
    int_step,    \* analysis->int_step
    payload,     \* payload_src and payload_dst of the flow in the table
    dead,        \* the peer of analysis->socket has gone
    failed,      \* how the program came to an undefined step, or "no"
    work, pc,    \* per thread, the handlers to run, its position in the first
    loc,         \* ... and its locals
    ticks, events,
    overlapped, steady, hist    \* history

vars == <<setup, metrics, obj, int_step, payload, dead, failed, work, pc,
          loc, ticks, events, overlapped, steady, hist>>

Thread == Callback \cup {"flow"}
Index  == 1..Len(metrics)

Rates  == {"ReqRate", "ConnRate"}
Tps    == {"Tp", "TpRev"}
Avgs   == Rates \cup Tps \cup {"ErrRate", "Rst"}
Hashes == {"Client", "ReqPath", "ReqMethod"}
Maps   == {"ReqType", "RspStatus"}

\* The metrics that a protocol's constructor makes
ProtocolMetrics == [
    HTTP      |-> <<"Rst", "ReqRate", "ErrRate", "Tp", "TpRev", "ConnRate",
                    "Client", "ReqPath", "ReqMethod", "ReqType", "RspStatus">>,
    MEMCACHED |-> <<"Rst", "ErrRate", "Tp", "TpRev", "ReqType", "RspStatus">>,
    MYSQL     |-> <<"Rst", "ReqRate", "Tp", "TpRev", "ReqType">>]

\* Protocol::activeMetrics erases the metrics whose bit is not set
ActiveMetrics(all, mask) ==
    LET kept[n \in 0..Len(all)] ==
          IF n = 0 THEN <<>>
          ELSE IF n - 1 \in mask THEN Append(kept[n - 1], all[n])
          ELSE kept[n - 1]
    IN  kept[Len(all)]

\* subscribe: the events a metric asks for
Subscribed(c) ==
    {"interval"} \cup (IF c \in Avgs \ {"Rst"} THEN {"timer"} ELSE {}) \cup
    CASE c = "ConnRate"                                    -> {"newFlow"}
      [] c \in {"ReqRate", "ReqType"} \cup Hashes          -> {"request"}
      [] c \in {"Rst", "ErrRate", "RspStatus"}             -> {"response"}
      [] c \in Tps                                         -> {"flowUpdate"}

\* ... from the last metric to the first: the order in which they are told
Observers(ev) ==
    LET upTo[n \in 0..Len(metrics)] ==
          IF n = 0 THEN <<>>
          ELSE IF ev \in Subscribed(metrics[n]) THEN <<n>> \o upTo[n - 1]
          ELSE upTo[n - 1]
    IN  upTo[Len(metrics)]

-----------------------------------------------------------------------------
(***************************************************************************)
(* Handlers                                                                *)
(***************************************************************************)
Op(k, v)     == [kind |-> k, var |-> v, arg |-> None]   \* uses the local
OpOf(k, v, x) == [kind |-> k, var |-> v, arg |-> x]
Zero(v)      == OpOf("set", v, 0)

\* getRate and getAvg: num->get() / den->get(), or 0 when den is 0
Ratio(num, den) == <<Op("ifZero", den), Op("num", num), Op("den", den)>>

ResponseTime(x) == Scale * (IF x = Bad THEN 2 ELSE 1)

\* reqTotal++, and Hash::add: it creates a record, or finds one and counts in it
AddTotal   == <<Op("totRead", ""), Op("totWrite", "")>>
HashAdd(x) == <<Op("totRead", ""), Op("totWrite", ""), OpOf("find", "", x),
                OpOf("create", "", x), OpOf("cntRead", "", x),
                OpOf("cntWrite", "", x)>>

\* The handlers of newFlow, flowUpdate, request and response: x is the name,
\* or the number of bytes, that the event is about
ConnRateOnNewFlow == <<OpOf("add", "subtotal", Scale)>>

ReqRateOnRequest == <<OpOf("add", "subtotal", Scale)>>

ErrRateOnResponse(x) ==
    IF x # Bad
    THEN <<OpOf("add", "subtotal", Scale), OpOf("add", "total", Scale)>>
    ELSE <<OpOf("add", "subtotal", Scale), OpOf("add", "total", Scale),
           OpOf("add", "subsum", Scale), OpOf("add", "sum", Scale)>>

RstOnResponse(x) ==
    <<OpOf("add", "total", Scale), OpOf("add", "sum", ResponseTime(x)),
      OpOf("minimize", "min", ResponseTime(x)),
      OpOf("maximize", "max", ResponseTime(x))>>

TpOnFlowUpdate(x)    == <<OpOf("set", "total", Scale * x)>>
TpRevOnFlowUpdate(x) == <<OpOf("set", "total", Scale * x)>>

ClientOnRequest(x) == HashAdd(x)

\* A request without a method has no URI, though it has a client
ReqPathOnRequest(x)   == IF x = None THEN AddTotal ELSE HashAdd(x)
ReqMethodOnRequest(x) == IF x = None THEN AddTotal ELSE HashAdd(x)

ReqTypeOnRequest(x) ==
    <<Op("totRead", ""), Op("totWrite", ""), Op("mapEnter", ""),
      OpOf("mapLeave", "", x)>>
RspStatusOnResponse(x) ==
    <<Op("totRead", ""), Op("totWrite", ""), Op("mapEnter", ""),
      OpOf("mapLeave", "", x)>>

OnEvent(c, x) ==
    CASE c = "ConnRate"  -> ConnRateOnNewFlow
      [] c = "ReqRate"   -> ReqRateOnRequest
      [] c = "ErrRate"   -> ErrRateOnResponse(x)
      [] c = "Rst"       -> RstOnResponse(x)
      [] c = "Tp"        -> TpOnFlowUpdate(x)
      [] c = "TpRev"     -> TpRevOnFlowUpdate(x)
      [] c = "Client"    -> ClientOnRequest(x)
      [] c = "ReqPath"   -> ReqPathOnRequest(x)
      [] c = "ReqMethod" -> ReqMethodOnRequest(x)
      [] c = "ReqType"   -> ReqTypeOnRequest(x)
      [] c = "RspStatus" -> RspStatusOnResponse(x)

\* The handlers of timerExpired, every second
ReqRateOnTimer ==
    <<Op("get", "subtotal"), Op("minimize", "min"), Op("maximize", "max"),
      Op("add", "sum"), Zero("subtotal")>>

ConnRateOnTimer ==
    <<Op("get", "subtotal"), Op("add", "sum"), Op("minimize", "min"),
      Op("maximize", "max"), Zero("subtotal")>>

ErrRateOnTimer ==
    Ratio("subsum", "subtotal") \o
    <<Op("minimize", "min"), Op("maximize", "max"), Zero("subsum"),
      Zero("subtotal")>>

TpOnTimer == <<Op("ifNone", "total"), Op("delta", "total"),
               Op("minimize", "min"), Op("maximize", "max")>>

\* Mutant: the subtotal is set to 0 before it is read
OnTimerExpired_ZeroFirst(c) ==
    IF c = "ReqRate"
    THEN <<Zero("subtotal"), Op("get", "subtotal"), Op("minimize", "min"),
           Op("maximize", "max"), Op("add", "sum")>>
    ELSE ConnRateOnTimer

OnTimerExpired(c) == CASE c = "ReqRate"  -> ReqRateOnTimer
                       [] c = "ConnRate" -> ConnRateOnTimer
                       [] c = "ErrRate"  -> ErrRateOnTimer
                       [] c \in Tps      -> TpOnTimer

GetAvg(c) == CASE c \in Rates -> <<Op("perSecond", "sum")>>
               [] c \in Tps   -> <<Op("sinceMark", "total")>>
               [] OTHER       -> Ratio("sum", "total")

ResetMetric(c) ==
    (IF c \in Tps THEN <<Op("mark", "total")>> ELSE <<>>) \o
    <<Zero("total"), Zero("subtotal"), Zero("sum"), Zero("subsum"),
      Zero("avg"), OpOf("set", "min", Huge), Zero("max")>>

\* sendMsg reads the members of the report, packs them and sends them
SendMsg == <<Op("msg", "avg"), Op("msgTest", "min"), Op("msg", "min"),
             Op("msg", "max"), Op("send", "")>>

AvgOnInterval ==
    [c \in Avgs |-> GetAvg(c) \o <<Op("set", "avg")>> \o SendMsg \o ResetMetric(c)]

\* Hash metrics collect the names under the mutexes, map metrics without one
HashOnInterval ==
    <<Op("lockAll", ""), Op("walk", ""), Op("unlockAll", ""),
      Op("send", ""), Op("freeEnter", ""), Op("freeLeave", "")>>
MapOnInterval ==
    <<Op("ifNoTotal", ""), Op("iterEnter", ""), Op("iterLeave", ""),
      Op("send", ""), Op("freeEnter", ""), Op("freeLeave", "")>>

OnIntervalExpired(c) ==
    CASE c \in Avgs   -> AvgOnInterval[c]
      [] c \in Hashes -> HashOnInterval
      [] c \in Maps   -> MapOnInterval

\* What a metric does upon an event
Handler(c, ev, x) == CASE ev = "timer"    -> OnTimerExpired(c)
                       [] ev = "interval" -> OnIntervalExpired(c)
                       [] OTHER           -> OnEvent(c, x)

\* The parts of processData before, between and after its two loops
ProcessData(part) ==
    CASE part = "process" -> <<Op("stepRead", ""), Op("stepWrite", ""),
                               Op("hashProcess", "")>>
      [] part = "branch"  -> <<Op("branch", "")>>
      [] part = "reset"   -> <<Op("stepReset", "")>>

\* A call to run: the handler of a metric, or a part of processData, which
\* has the number 0
Ops(task) == IF task.metric = 0
             THEN ProcessData(task.ev)
             ELSE Handler(metrics[task.metric], task.ev, task.arg)
Own(part) == <<[metric |-> 0, ev |-> part, arg |-> None]>>

\* Event::notify: run the handler of every observer
Notify(ev, x) ==
    LET obs == Observers(ev)
    IN  [k \in 1..Len(obs) |->
           [metric |-> obs[k], ev |-> ev,
            arg |-> IF ev = "flowUpdate" THEN payload[metrics[obs[k]]] ELSE x]]

-----------------------------------------------------------------------------
(***************************************************************************)
(* State                                                                   *)
(***************************************************************************)
ValueName == {"subtotal", "total", "subsum", "sum", "avg", "min", "max"}

\* val: the Values of a MetricAvg, and timerRef and intervalRef.  total,
\* nodes, holder, cfl: reqTotal or rspTotal, the records of the hash table (or
\* map), the thread that holds all its bucket mutexes, and the list that is
\* sent.  users: threads within code that must not run twice at once.
NewMetric ==
    [val |-> [v \in ValueName |-> IF v = "min" THEN Huge ELSE 0],
     timerRef |-> 0, intervalRef |-> 0, total |-> 0, nodes |-> <<>>,
     holder |-> None, cfl |-> <<>>, users |-> {}]

NewHistory ==
    [received |-> 0,    \* requests or connections added to subtotal
     exposed |-> 0,     \* ... while a callback was past its read of subtotal
     told |-> 0,        \* ... that reports told of
     report |-> None,   \* the last report that was sent
     done |-> [n \in Name \cup {None} |-> 0],   \* names counted
     met |-> FALSE]     \* two threads were in its handlers at once

NoLocals == [reg |-> 0, num |-> 0, node |-> 0,
             msg |-> [avg |-> 0, min |-> 0, max |-> 0]]

Init ==
    /\ setup \in Setups
    /\ metrics = ActiveMetrics(ProtocolMetrics[setup.protocol], setup.active)
    /\ obj = [i \in Index |-> NewMetric]
    /\ int_step = 0
    /\ payload = [c \in Tps |-> 0]
    /\ dead = FALSE
    /\ failed = "no"
    /\ work = [t \in Thread |-> <<>>]
    /\ pc = [t \in Thread |-> 1]
    /\ loc = [t \in Thread |-> NoLocals]
    /\ ticks = 0 /\ events = 0
    /\ overlapped = FALSE /\ steady = TRUE
    /\ hist = [i \in Index |-> NewHistory]

env  == <<setup, metrics, ticks, events, payload, dead, overlapped,
          steady>>
Busy(t) == work[t] # <<>>

-----------------------------------------------------------------------------
(***************************************************************************)
(* What makes threads run handlers                                         *)
(***************************************************************************)
Kinds == UNION {Subscribed(metrics[i]) : i \in Index}
Told  == Kinds \cap {"newFlow", "request", "response"}

\* What extractData tells of one flow: flowUpdate always, a new flow before
\* it, a request or a response after it
ExtractData(ev, x) ==
    (IF ev = "newFlow" THEN Notify(ev, x) ELSE <<>>) \o
    Notify("flowUpdate", x) \o
    (IF ev \in {"request", "response"} THEN Notify(ev, x) ELSE <<>>)

Named(ev) == CASE ev = "request"  -> Name \cup {None}
               [] ev = "response" -> Name
               [] OTHER           -> {Bad}

\* The flow thread extracts the data of the flow, which has been closed; the
\* next one starts at 0 bytes
FlowClosed(ev, x) ==
    /\ ~Busy("flow") /\ events < setup.events
    /\ work' = [work EXCEPT !["flow"] = ExtractData(ev, x)]
    /\ UNCHANGED <<pc, loc>>
    /\ events' = events + 1
    /\ payload' = [c \in Tps |-> 0]
    /\ steady' = FALSE
    /\ UNCHANGED <<setup, metrics, ticks, dead, overlapped, obj, int_step,
                   failed, hist>>

\* Data arrives on the flow in the table
FlowGrows(c) ==
    /\ events < setup.events
    /\ c \in {metrics[i] : i \in Index}
    /\ payload' = [payload EXCEPT ![c] = (@ + 1) % UIntMod]
    /\ events' = events + 1
    /\ UNCHANGED <<setup, metrics, ticks, dead, overlapped, steady, obj,
                   int_step, failed, work, pc, loc, hist>>

\* The timer starts processData in a thread of its own
Fire(t) ==
    /\ ~Busy(t) /\ ticks < setup.ticks
    /\ \A u \in Callback : Busy(u) => setup.overlap
    /\ work' = [work EXCEPT ![t] =
                  Own("process") \o Notify("timer", None) \o Own("branch")]
    /\ UNCHANGED <<pc, loc>>
    /\ ticks' = ticks + 1
    /\ overlapped' = (overlapped \/ \E u \in Callback : Busy(u))
    /\ UNCHANGED <<setup, metrics, events, payload, dead, steady, obj,
                   int_step, failed, hist>>

PeerGone ==
    /\ ~dead
    /\ dead' = TRUE
    /\ UNCHANGED <<setup, metrics, ticks, events, payload, overlapped,
                   steady, obj, int_step, failed, work, pc, loc, hist>>

-----------------------------------------------------------------------------
(***************************************************************************)
(* The operations.  Each moves the thread on, by n when it skips some.     *)
(***************************************************************************)
Call(t)  == Head(work[t])
Now(t)   == Ops(Call(t))[pc[t]]
At(t)    == Call(t).metric
Is(t, k) == Busy(t) /\ Now(t).kind = k
Cur(t)   == obj[At(t)].val[Now(t).var]       \* the Value it is about
Arg(t)   == IF Now(t).arg = None THEN loc[t].reg ELSE Now(t).arg

\* Locals are gone at the end of a handler
Goto(t, calls, n, l) ==
    /\ work' = [work EXCEPT ![t] = calls]
    /\ pc'   = [pc EXCEPT ![t] = n]
    /\ loc'  = [loc EXCEPT ![t] = l]
Advance(t, n, l) ==
    IF pc[t] + n <= Len(Ops(Call(t)))
    THEN Goto(t, work[t], pc[t] + n, l)
    ELSE Goto(t, Tail(work[t]), 1, NoLocals)
Continue(t, l) == Advance(t, 1, l)
Local(t, r)  == [loc[t] EXCEPT !.reg = r]

Fail(t, why) ==
    /\ failed' = why
    /\ UNCHANGED <<env, obj, int_step, work, pc, loc, hist>>

\* Value::set, add, minimize, maximize: one critical section each
Modified(k, v, x) ==
    CASE k = "set"      -> x
      [] k = "add"      -> v + x
      [] k = "minimize" -> IF Less(x, v) THEN x ELSE v
      [] k = "maximize" -> IF Less(v, x) THEN x ELSE v

\* A callback is past flowHashProcess and its read of the subtotal of metric
\* i, the first thing that the handler does, and has not ended
PastRead(u, i) ==
    /\ Busy(u) /\ u \in Callback
    /\ Call(u).ev # "process"
    /\ \A k \in DOMAIN work[u] :
         ~(work[u][k].metric = i /\ work[u][k].ev = "timer" /\ (k = 1 => pc[u] = 1))

\* Another thread is between two steps that metric i relies on
Disturbed(t, i) == \E u \in Thread \ {t} :
    PastRead(u, i) \/ \E k \in DOMAIN work[u] : work[u][k].metric = i

Modify(t) ==
    LET k == Now(t).kind  v == Now(t).var  i == At(t) IN
    /\ Busy(t) /\ k \in {"set", "add", "minimize", "maximize"}
    /\ obj' = [obj EXCEPT ![i].val[v] = Modified(k, @, Arg(t))]
    /\ hist' = [hist EXCEPT
         ![i].received = @ + (IF metrics[i] \in Rates /\ v = "subtotal"
                                 /\ k = "add" THEN 1 ELSE 0),
         ![i].exposed = @ + (IF metrics[i] \in Rates /\ v = "subtotal"
                                /\ k = "add" /\ \E u \in Callback : PastRead(u, i)
                             THEN 1 ELSE 0),
         ![i].met = @ \/ (metrics[i] \in {"ErrRate", "Rst"} /\ Disturbed(t, i))]
    /\ Continue(t, loc[t])
    /\ UNCHANGED <<env, int_step, failed>>

\* Value::get gives 0 for the largest double
Got(v) == IF v = Huge THEN 0 ELSE v

\* Operations that read one Value into the thread's locals
Read(t) ==
    LET o == obj[At(t)]  k == Now(t).kind  v == Cur(t) IN
    /\ Busy(t)
    /\ \/ k = "get" /\ Continue(t, Local(t, Got(v)))
       \/ k = "perSecond" /\ Continue(t, Local(t, v \div Interval))
       \/ k = "sinceMark"
          /\ Continue(t, Local(t, (v - o.intervalRef) \div Interval))
       \/ k = "num" /\ Continue(t, [loc[t] EXCEPT !.num = v])
       \/ k = "den" /\ Continue(t, Local(t,
             IF v > 0 THEN (loc[t].num * Scale) \div v
             ELSE IF loc[t].num = 0 THEN NaN ELSE Inf))
       \/ k = "ifZero" /\ v <= 0 /\ Advance(t, 3, Local(t, 0))
       \/ k = "ifZero" /\ v > 0 /\ Continue(t, loc[t])
       \/ k = "ifNone" /\ v <= 0 /\ Advance(t, 4, loc[t])
       \/ k = "ifNone" /\ v > 0 /\ Continue(t, loc[t])
       \/ k = "msg" /\ Continue(t, [loc[t] EXCEPT !.msg[Now(t).var] = v])
       \* the test of get and the read it returns are not one step
       \/ k = "msgTest" /\ v = Huge /\ Advance(t, 2, loc[t])
       \/ k = "msgTest" /\ v # Huge /\ Continue(t, loc[t])
    /\ UNCHANGED <<env, obj, int_step, failed, hist>>

\* Tp::onTimerExpired: the bytes since the last second, in 32 bits
Delta(t) ==
    /\ Is(t, "delta")
    /\ obj' = [obj EXCEPT ![At(t)].timerRef = Cur(t)]
    /\ Continue(t, Local(t, (Cur(t) - obj[At(t)].timerRef) % (Scale * UIntMod)))
    /\ UNCHANGED <<env, int_step, failed, hist>>

\* Tp::reset
Mark(t) ==
    /\ Is(t, "mark")
    /\ obj' = [obj EXCEPT ![At(t)].intervalRef = Cur(t)]
    /\ Continue(t, loc[t])
    /\ UNCHANGED <<env, int_step, failed, hist>>

\* send: when it fails, error() ends the thread of the callback
Send(t) ==
    LET i == At(t)  c == metrics[i] IN
    /\ Is(t, "send")
    /\ \/ /\ dead
          /\ Goto(t, <<>>, 1, NoLocals)
          /\ UNCHANGED hist
       \/ /\ ~dead
          /\ hist' = [hist EXCEPT
               ![i].report = IF c \in Avgs THEN loc[t].msg ELSE obj[i].cfl,
               ![i].told = IF c \in Rates
                           THEN @ + (loc[t].msg.avg * Interval) \div Scale
                           ELSE @]
          /\ Continue(t, [loc[t] EXCEPT !.msg = NoLocals.msg])
    /\ UNCHANGED <<env, obj, int_step, failed>>

-----------------------------------------------------------------------------
(***************************************************************************)
(* processData                                                             *)
(***************************************************************************)

\* analysis->int_step++ is a read and a write
Step(t) ==
    /\ \/ Is(t, "stepRead") /\ Continue(t, Local(t, int_step))
          /\ UNCHANGED int_step
       \/ Is(t, "stepWrite") /\ int_step' = loc[t].reg + 1
          /\ Continue(t, NoLocals)
       \/ Is(t, "stepReset") /\ int_step' = 0 /\ Continue(t, NoLocals)
    /\ UNCHANGED <<env, obj, failed, hist>>

\* flowHashProcess: the flow in the table has sent nothing new, or something
HashProcess(t) ==
    /\ Is(t, "hashProcess")
    /\ \/ /\ Goto(t, Notify("flowUpdate", None) \o Tail(work[t]), 1, NoLocals)
          /\ UNCHANGED events
       \/ /\ events < setup.events
          /\ events' = events + 1
          /\ \E ev \in Told : \E x \in Named(ev) :
               Goto(t, ExtractData(ev, x) \o Tail(work[t]), 1, NoLocals)
    /\ UNCHANGED <<setup, metrics, ticks, payload, dead, overlapped,
                   steady, obj, int_step, failed, hist>>

\* Mutant: the interval ends a second early
IntervalOver_Early == int_step >= Interval - 1

IntervalOver == int_step >= Interval

Branch(t) ==
    /\ Is(t, "branch")
    /\ Goto(t, IF IntervalOver
               THEN Notify("interval", None) \o Own("reset")
               ELSE <<>>, 1, NoLocals)
    /\ UNCHANGED <<env, obj, int_step, failed, hist>>

-----------------------------------------------------------------------------
(***************************************************************************)
(* MetricCumDistr: the hash table, or the map, and the list to send        *)
(***************************************************************************)

\* t is in, or is going to run, a handler of metric i that counts a name
Adding(t, i) == \E k \in DOMAIN work[t] :
    work[t][k].metric = i /\ work[t][k].ev \in {"request", "response"}

\* reqTotal++, or rspTotal++: no mutex
Total(t) ==
    LET i == At(t) IN
    /\ \/ /\ Is(t, "totRead")
          /\ Continue(t, Local(t, obj[i].total))
          /\ hist' = [hist EXCEPT ![i].met =
                        @ \/ \E u \in Thread \ {t} : Adding(u, i)]
          /\ UNCHANGED obj
       \/ /\ Is(t, "totWrite")
          /\ obj' = [obj EXCEPT ![i].total = loc[t].reg + 1]
          /\ Continue(t, loc[t])
          /\ UNCHANGED hist
    /\ UNCHANGED <<env, int_step, failed>>

Matches(i, x) == {k \in DOMAIN obj[i].nodes : obj[i].nodes[k].name = x}
Smallest(S)   == CHOOSE k \in S : \A j \in S : k <= j
Unheld(t, i)  == obj[i].holder \in {None, t}

\* Mutant: the new name is not compared with the ones there are
Lookup_None(i, x) == {}

\* Hash::find, under the bucket's mutex: the first record with the name
Lookup(i, x) == IF Matches(i, x) = {} THEN {} ELSE {Smallest(Matches(i, x))}

Find(t) ==
    LET i == At(t)  x == Now(t).arg IN
    /\ Is(t, "find")
    /\ Unheld(t, i)
    /\ \/ Lookup(i, x) = {} /\ Continue(t, loc[t])
       \/ \E k \in Lookup(i, x) : Advance(t, 2, [loc[t] EXCEPT !.node = k])
    /\ UNCHANGED <<env, obj, int_step, failed, hist>>

\* Mutant: Hash::add goes on to e->cnt++ with the new record
Create_CountsTwice(t) ==
    LET i == At(t)  x == Now(t).arg IN
    /\ Is(t, "create")
    /\ Unheld(t, i)
    /\ obj' = [obj EXCEPT ![i].nodes = Append(@, [name |-> x, cnt |-> 2])]
    /\ hist' = [hist EXCEPT ![i].done[x] = @ + 1]
    /\ Advance(t, 3, loc[t])
    /\ UNCHANGED <<env, int_step, failed>>

\* Hash::create appends a record with count 1, under the mutex again
Create(t) ==
    LET i == At(t)  x == Now(t).arg IN
    /\ Is(t, "create")
    /\ Unheld(t, i)
    /\ obj' = [obj EXCEPT ![i].nodes = Append(@, [name |-> x, cnt |-> 1])]
    /\ hist' = [hist EXCEPT ![i].done[x] = @ + 1]
    /\ Advance(t, 3, loc[t])
    /\ UNCHANGED <<env, int_step, failed>>

\* e->cnt++ is a read and a write, without a mutex
Count(t) ==
    LET i == At(t)  x == Now(t).arg IN
    /\ \/ /\ Is(t, "cntRead")
          /\ Continue(t, Local(t, obj[i].nodes[loc[t].node].cnt))
          /\ UNCHANGED <<obj, hist>>
       \/ /\ Is(t, "cntWrite")
          /\ obj' = [obj EXCEPT ![i].nodes[loc[t].node].cnt = loc[t].reg + 1]
          /\ hist' = [hist EXCEPT ![i].done[x] = @ + 1]
          /\ Continue(t, [loc[t] EXCEPT !.node = 0])
    /\ UNCHANGED <<env, int_step, failed>>

\* Mutant: neither the frequency nor the room in the list is looked at
CflAdd_NoLimit(list, node, total) ==
    IF total > 0 THEN Append(list, <<node.name, node.cnt, total>>) ELSE list

\* cflAdd and cfl_add, for record k: a name with a frequency above MIN_FREQ,
\* which is 1/CFL_SIZE, as long as there is room
CflAdd(list, node, total) ==
    IF total > 0 /\ node.cnt * CflSize > total /\ Len(list) < CflSize
    THEN Append(list, <<node.name, node.cnt, total>>)
    ELSE list

CflAddAll(list, nodes, total) ==
    LET upTo[k \in 0..Len(nodes)] ==
          IF k = 0 THEN list ELSE CflAdd(upTo[k - 1], nodes[k], total)
    IN  upTo[Len(nodes)]

\* cflUpdate: lock every bucket, add every record, unlock every bucket
CflUpdate(t) ==
    LET i == At(t)  k == loc[t].node IN
    /\ \/ /\ Is(t, "lockAll") /\ obj[i].holder = None
          /\ obj' = [obj EXCEPT ![i].holder = t]
          /\ Continue(t, [loc[t] EXCEPT !.node = 1])
       \/ /\ Is(t, "walk") /\ k \in DOMAIN obj[i].nodes
          /\ obj' = [obj EXCEPT ![i].cfl =
                       CflAdd(@, obj[i].nodes[k], obj[i].total)]
          /\ Goto(t, work[t], pc[t], [loc[t] EXCEPT !.node = k + 1])
       \/ /\ Is(t, "walk") /\ k \notin DOMAIN obj[i].nodes
          /\ Continue(t, [loc[t] EXCEPT !.node = 0])
          /\ UNCHANGED obj
       \/ /\ Is(t, "unlockAll")
          /\ obj' = [obj EXCEPT ![i].holder = None]
          /\ Continue(t, loc[t])
    /\ UNCHANGED <<env, int_step, failed, hist>>

\* A std::map that is changed while another thread is in it, and cfl_delete
\* in two threads at once (free of the same names), are undefined
Enter(t) ==
    LET i == At(t) IN
    /\ Busy(t) /\ Now(t).kind \in {"mapEnter", "iterEnter", "freeEnter"}
    /\ \/ /\ obj[i].users # {}
          /\ Fail(t, "race")
       \/ /\ obj[i].users = {}
          /\ obj' = [obj EXCEPT ![i].users = {t}]
          /\ Continue(t, loc[t])
          /\ UNCHANGED <<env, int_step, failed, hist>>

\* The records of a map, in the order of its keys, are the nodes
Increment(nodes, x) ==
    IF \E k \in DOMAIN nodes : nodes[k].name = x
    THEN [k \in DOMAIN nodes |-> IF nodes[k].name = x
                                 THEN [nodes[k] EXCEPT !.cnt = @ + 1]
                                 ELSE nodes[k]]
    ELSE Append(nodes, [name |-> x, cnt |-> 1])

Leave(t) ==
    LET i == At(t)  x == Now(t).arg  o == obj[i] IN
    /\ \/ /\ Is(t, "mapLeave")
          /\ obj' = [obj EXCEPT ![i].users = {}, ![i].nodes = Increment(@, x)]
          /\ hist' = [hist EXCEPT ![i].done[x] = @ + 1]
       \/ /\ Is(t, "iterLeave")
          /\ obj' = [obj EXCEPT ![i].users = {},
                       ![i].cfl = CflAddAll(@, o.nodes, o.total)]
          /\ UNCHANGED hist
       \/ /\ Is(t, "freeLeave")
          /\ obj' = [obj EXCEPT ![i].users = {}, ![i].cfl = <<>>]
          /\ UNCHANGED hist
    /\ Continue(t, loc[t])
    /\ UNCHANGED <<env, int_step, failed>>

\* ReqType::onIntervalExpired returns when there was no request at all
IfNoTotal(t) ==
    /\ Is(t, "ifNoTotal")
    /\ IF obj[At(t)].total <= 0 THEN Advance(t, 6, loc[t]) ELSE Continue(t, loc[t])
    /\ UNCHANGED <<env, obj, int_step, failed, hist>>

-----------------------------------------------------------------------------
Operation(t) ==
    \/ Modify(t) \/ Read(t) \/ Delta(t) \/ Mark(t) \/ Send(t) \/ Step(t)
    \/ HashProcess(t) \/ Branch(t) \/ Total(t) \/ Find(t) \/ Create(t)
    \/ Count(t) \/ CflUpdate(t) \/ Enter(t) \/ Leave(t) \/ IfNoTotal(t)

Idle == \A t \in Thread : ~Busy(t)

\* The program has crashed, or the bounds are reached
Halted ==
    /\ failed # "no" \/ (Idle /\ ticks = setup.ticks)
    /\ UNCHANGED vars

Next ==
    \/ /\ failed = "no"
       /\ \/ \E ev \in Told \cup {"flowUpdate"} : \E x \in Named(ev) :
               FlowClosed(ev, x)
          \/ \E c \in Tps : FlowGrows(c)
          \/ \E t \in Callback : Fire(t)
          \/ PeerGone
          \/ \E t \in Thread : Operation(t)
    \/ Halted

Spec == Init /\ [][Next]_vars

-----------------------------------------------------------------------------
Quiet == \A t \in Callback : ~Busy(t)

SumOf(s) == LET upTo[k \in 0..Len(s)] == IF k = 0 THEN 0 ELSE upTo[k - 1] + s[k]
            IN  upTo[Len(s)]

\* What the records of name x count
CountOf(nodes, x) == SumOf([k \in DOMAIN nodes |->
                              IF nodes[k].name = x THEN nodes[k].cnt ELSE 0])

\* The members have their types; a thread that holds the buckets of a metric
\* is walking over them, and the users of a map are in it.
TypeOK ==
    /\ int_step \in 0..setup.ticks
    /\ failed \in {"no", "race"}
    /\ \A i \in Index :
         /\ \A v \in ValueName : obj[i].val[v] \in Int
         /\ Len(obj[i].cfl) <= CflSize
         /\ obj[i].holder # None =>
              /\ Busy(obj[i].holder) /\ At(obj[i].holder) = i
              /\ Now(obj[i].holder).kind \in {"walk", "unlockAll"}
         /\ \A t \in obj[i].users :
              /\ Busy(t) /\ At(t) = i
              /\ Now(t).kind \in {"mapLeave", "iterLeave", "freeLeave"}

\* ReqRate and ConnRate: every request is in a report, in sum or in subtotal
\* once, whatever happens to the peer; the only ones lost are those that
\* arrive while a callback is between its read of subtotal and its end.
RequestsAccounted ==
    \A i \in Index :
        metrics[i] \in Rates /\ ~overlapped /\ Quiet =>
            hist[i].received - hist[i].told
              - (obj[i].val["sum"] + obj[i].val["subtotal"]) \div Scale
              \in 0..hist[i].exposed

\* The average that is sent lies between the smallest and the largest value
\* of a second: for a rate always, for the error rate and the response time
\* unless a response came while a callback was at work.  A throughput, as
\* long as there is one flow of less than 2^32 bytes, is not negative and at
\* most the largest.
AvgWithinExtremes ==
    \A i \in Index :
        LET r == hist[i].report  c == metrics[i] IN
        c \in Avgs /\ r # None /\ ~overlapped =>
            IF c \in Tps
            THEN steady /\ setup.events < UIntMod => 0 <= r.avg /\ r.avg <= r.max
            ELSE c \in Rates \/ ~hist[i].met => r.min <= r.avg /\ r.avg <= r.max

\* Client, ReqPath, ReqMethod, ReqType, RspStatus: unless two threads were in
\* Hash::add at once, a name has one record, which counts it exactly, and the
\* frequencies that are sent are of different names and together at most 1.
DistributionExact ==
    \A i \in Index :
        metrics[i] \in Hashes \cup Maps /\ ~hist[i].met =>
            /\ \A x \in Name \cup {None} :
                 /\ Cardinality(Matches(i, x)) = (IF hist[i].done[x] > 0 THEN 1 ELSE 0)
                 /\ \A k \in Matches(i, x) : obj[i].nodes[k].cnt = hist[i].done[x]
            /\ LET r == IF hist[i].report = None THEN <<>> ELSE hist[i].report IN
               ~overlapped /\ r # <<>> =>
                 /\ \A j, k \in DOMAIN r : j # k => r[j][1] # r[k][1]
                 /\ SumOf([k \in DOMAIN r |-> r[k][2]]) <= r[Len(r)][3]

\* Even when threads race in Hash::add, a name has at most one record per
\* thread, and no request is counted twice.
FewDuplicates ==
    \A i \in Index :
        metrics[i] \in Hashes =>
            \A x \in Name \cup {None} :
                /\ Cardinality(Matches(i, x)) <= Cardinality(Thread)
                /\ CountOf(obj[i].nodes, x) <= hist[i].done[x]
=============================================================================
