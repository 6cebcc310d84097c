------------------------------ MODULE FlowLife ------------------------------
(***************************************************************************)
(* What the rest of the sniffer may rely on about a connection: it is      *)
(* opened, it is announced to the metrics at most once, and it ends either *)
(* dropped by a reset or closed and then, if it is watched, announced.     *)
(***************************************************************************)
CONSTANT Flows
VARIABLES life, watched, announced

vars == <<life, watched, announced>>

Init ==
    /\ life = [f \in Flows |-> "free"]
    /\ watched = {}
    /\ announced = {}

\* A connection is seen for the first time; the filters watch it or not
Open(f) ==
    /\ life[f] = "free"
    /\ life' = [life EXCEPT ![f] = "open"]
    /\ watched' \in {watched, watched \cup {f}}
    /\ UNCHANGED announced

\* newFlowReceived is notified
Announce(f) ==
    /\ life[f] # "free"
    /\ f \in watched \ announced
    /\ announced' = announced \cup {f}
    /\ UNCHANGED <<life, watched>>

\* FIN, RST or inactivity
Close(f) ==
    /\ life[f] = "open"
    /\ life' = [life EXCEPT ![f] = "closed"]
    /\ UNCHANGED <<watched, announced>>

\* The end of a connection.  Only one that was reset early, and so is still
\* open, may end without having been announced.
End(f) ==
    /\ life[f] # "free"
    /\ life[f] = "closed" /\ f \in watched => f \in announced
    /\ life' = [life EXCEPT ![f] = "free"]
    /\ watched' = watched \ {f}
    /\ announced' = announced \ {f}

Next == \E f \in Flows : Open(f) \/ Announce(f) \/ Close(f) \/ End(f)

Spec == Init /\ [][Next]_vars
=============================================================================
