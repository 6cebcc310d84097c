---------------------------- MODULE MCLifecycle ----------------------------
(***************************************************************************)
(* Lifecycle for TLC.                                                      *)
(***************************************************************************)
EXTENDS Lifecycle

Ask(mode, netints, limited, packets) ==
    [mode |-> mode, netints |-> netints, duration |-> limited,
     packets |-> packets]

MCRequests == {Ask("server", <<2>>, TRUE, 1),       \* two protocols
               Ask("server", <<2>>, FALSE, 2),      \* no duration
               Ask("server", <<1, 1>>, TRUE, 0),    \* two analyses in a row
               Ask("server", <<1, 0>>, TRUE, 0),    \* the second is refused
               Ask("trace", <<1>>, TRUE, 2),
               Ask("live", <<1>>, TRUE, 1)}

MCClasses == {[tcp |-> FALSE, ports |-> {}, data |-> TRUE],
              [tcp |-> TRUE, ports |-> {}, data |-> TRUE],
              [tcp |-> TRUE, ports |-> {1}, data |-> FALSE],
              [tcp |-> TRUE, ports |-> {1, 2}, data |-> TRUE],
              [tcp |-> TRUE, ports |-> {2}, data |-> TRUE]}
=============================================================================
