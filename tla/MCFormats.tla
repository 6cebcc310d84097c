------------------------------ MODULE MCFormats ------------------------------
(***************************************************************************)
(* Messages with values at the borders of the varint sizes, a report that  *)
(* needs a prefix of two bytes, and payloads that start like a request, a  *)
(* response, or neither.                                                   *)
(***************************************************************************)
EXTENDS Formats

Protocol(id, mask, ip, ports) ==
    [Empty(ProtocolDesc(FALSE)) EXCEPT
        !.val = <<<<id>>, <<mask>>, ip, ports, <<>>, ports>>]
NetInt(id, protocols) ==
    [Empty(NetIntDesc(FALSE)) EXCEPT !.val = <<<<id>>, protocols>>]
InitMsg(netInts, interval, duration) ==
    [Empty(InitDesc(FALSE)) EXCEPT
        !.val = <<netInts, <<interval>>, <<duration>>>>]

LongName == [i \in 1..130 |-> 97]     \* lengths of two bytes

MCRequests ==
    {[packed |-> FALSE, msg |-> InitMsg(<<>>, 0, d)] : d \in {0, 127, 128, 300, 2^21}}
    \cup {[packed |-> b, msg |-> InitMsg(
              <<NetInt(<<101, 48>>, <<Protocol(<<72>>, 6, <<2^28>>, <<80, 8080>>)>>)>>,
              1, 16384)] : b \in BOOLEAN}
    \cup {[packed |-> TRUE, msg |-> InitMsg(
              <<NetInt(<<>>, <<>>),
                NetInt(LongName, <<Protocol(<<77>>, 0, <<>>, <<65535, 1, 128>>)>>)>>,
              127, 300)]}

Ids == <<<<101>>, 0, <<72>>, 1, 2^28>>
MCReports == {
    MetricAvgMsg(<<82>>, Ids, 5, 0, 255),
    MetricCumDistrMsg(<<67>>, Ids, <<[name |-> <<47>>, c_freq |-> 9],
                                     [name |-> <<>>, c_freq |-> 10]>>),
    MetricCumDistrMsg(<<67>>, Ids, [i \in 1..8 |-> [name |-> <<47, i>>,
                                                    c_freq |-> i]])}

MCStarts == [
    HTTP |-> {<<"GET", SP, "/", SP, "HTTP/1.1", CR, LF, "Host:">>,
              <<"GET", SP, "/", SP, "HTTP/1.1", CR, LF, CR, LF>>,
              <<"P", SP, SP, "/", SP>>,
              <<"POST", SP, "/", LF>>,
              <<CR, LF, "GET", SP, "/", SP, CR, LF>>,
              <<"M-", "GET", SP, "/">>,
              <<"HTTP/1.1", SP, "404">>,
              <<>>},
    MEMCACHED |-> {<<"get">>, <<"quit">>, <<"VALUE">>, <<"END">>, <<"E">>, <<>>},
    MYSQL |-> {<<>>, <<"length">>, <<"length", "0">>, <<"length", "1">>}]

MCAlphabet == [HTTP |-> {CR, LF, SP, "Host:", "x"},
               MEMCACHED |-> {CR, LF, SP, "k"},
               MYSQL |-> {"k", "SELECT"}]
MCMaxGrowth == [HTTP |-> 5, MEMCACHED |-> 3, MYSQL |-> 2]
MCMemory == {<<LF>>, <<SP, LF>>, <<CR, LF>>, <<"0", LF>>}
==============================================================================
