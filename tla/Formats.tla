------------------------------- MODULE Formats -------------------------------
(***************************************************************************)
(* The bytes the sniffer exchanges and reads, one conversation at a time:  *)
(*   "request"  the backend sends an Init message and connection_handler   *)
(*              of server.c reads it from the socket;                      *)
(*   "report"   the metrics send MetricMsg messages and the decoder of     *)
(*              codec.rs takes them out of its receive buffer;             *)
(*   a protocol the payload of a captured packet of that protocol is       *)
(*              recognised and its header read (preprocess of main.c).     *)
(* A socket is a stream: what one side writes at once arrives in pieces of *)
(* any size, and the client may go away between two of them.               *)
(***************************************************************************)
EXTENDS Wire, Headers

CONSTANTS
    Requests,       \* Init messages, with the descriptor of the writer
    Reports,        \* MetricMsg messages
    MaxReports,     \* how many of them are sent
    Starts,         \* for each protocol the ways its payloads start
    Alphabet,       \* for each protocol the symbols that follow
    MaxGrowth,      \* for each protocol the number of those symbols
    Memory          \* what may follow a payload in memory, up to an LF

Protocols == {"HTTP", "MEMCACHED", "MYSQL"}

ASSUME FormatsAssumption ==
    /\ MaxReports \in Nat
    /\ \A p \in Protocols : MaxGrowth[p] \in Nat
    /\ \A m \in Memory : \E i \in DOMAIN m : m[i] = LF

VARIABLES
    scene,          \* the conversation
    sent,           \* the messages written so far
    wire,           \* bytes written that have not arrived
    inbox,          \* bytes that have arrived and were not read
    whole,          \* what was written arrived at once so far
    hung,           \* the client has gone away
    reader,         \* the reading side: where it is, and the prefix so far
    result,         \* the messages it got
    start, payload, \* the payload of the packet and how it started
    parsed          \* what the sniffer made of it, once it did

socket  == <<sent, wire, inbox, whole, hung, reader, result>>
capture == <<start, payload, parsed>>
vars    == <<scene, socket, capture>>

AtPrefix == [pc |-> "prefix", value |-> 0, bytes |-> 0]

\* The backend's write_length_delimited_to writes a request in one go.
Init ==
    /\ inbox = <<>> /\ whole = TRUE /\ hung = FALSE
    /\ reader = AtPrefix /\ result = <<>> /\ parsed = <<>>
    /\ \/ \E r \in Requests : /\ scene = "request" /\ sent = <<r.msg>>
                              /\ wire = Frame(InitDesc(r.packed), r.msg)
                              /\ start = <<>> /\ payload = <<>>
       \/ /\ scene = "report" /\ sent = <<>> /\ wire = <<>>
          /\ start = <<>> /\ payload = <<>>
       \/ \E p \in Protocols : \E s \in Starts[p] :
             /\ scene = p /\ start = s /\ payload = s
             /\ sent = <<>> /\ wire = <<>>

------------------------------------------------------------------------------
(* The socket.                                                             *)

\* The next n bytes arrive.
Arrive(n) ==
    /\ n <= Len(wire)
    /\ inbox' = inbox \o Take(wire, n)
    /\ wire'  = Drop(wire, n)
    /\ whole' = (whole /\ n = Len(wire))
    /\ UNCHANGED <<scene, sent, hung, reader, result, capture>>

\* The client goes away, and what it had not sent yet is never sent.
HangUp ==
    /\ scene = "request" /\ ~hung
    /\ hung'  = TRUE
    /\ wire'  = <<>>
    /\ whole' = (whole /\ wire = <<>>)
    /\ UNCHANGED <<scene, sent, inbox, reader, result, capture>>

------------------------------------------------------------------------------
(* connection_handler of server.c                                          *)

\* What follows the prefix: nothing is read when it is 0.
PrefixRead(value) == [reader EXCEPT !.value = value,
                                    !.pc = IF value = 0 THEN "closed" ELSE "body"]

\* decode_varint receives one byte; when there is none to come it returns
\* what it has so far.
decode_varint ==
    /\ scene = "request" /\ reader.pc = "prefix"
    /\ \/ /\ inbox # <<>>
          /\ LET b     == inbox[1]
                 value == reader.value + Low7(b) * 2^(7 * reader.bytes)
             IN  reader' = IF IsLast(b) THEN PrefixRead(value)
                           ELSE [reader EXCEPT !.value = value, !.bytes = @ + 1]
          /\ inbox' = Drop(inbox, 1)
       \/ /\ inbox = <<>> /\ hung
          /\ reader' = PrefixRead(reader.value)
          /\ UNCHANGED inbox
    /\ UNCHANGED <<scene, sent, wire, whole, hung, result, capture>>

\* Mutant: the number of bytes received is not compared.
Received_Any(n, len) == TRUE

\* recv returned as many bytes as the prefix announced.
Received(n, len) == n = len

\* One recv takes what has arrived, the buffer it fills is zeroed.
ReadRequest ==
    /\ scene = "request" /\ reader.pc = "body"
    /\ inbox # <<>> \/ hung
    /\ LET len  == reader.value
           n    == IF Len(inbox) < len THEN Len(inbox) ELSE len
           msg  == [i \in 1..len |-> IF i <= n THEN inbox[i] ELSE 0]
           init == IF Received(n, len) THEN message_unpack(InitDesc(FALSE), msg)
                                       ELSE <<>>
       IN  /\ inbox'  = Drop(inbox, n)
           /\ result' = init
           /\ reader' = [reader EXCEPT !.pc = IF init = <<>> THEN "refused"
                                              ELSE "accepted"]
    /\ UNCHANGED <<scene, sent, wire, whole, hung, capture>>

------------------------------------------------------------------------------
(* Reports.                                                                *)

\* What sendMsg of metricAvg.cpp and of metricCumDistr.cpp fills in; clientId
\* keeps its initial 0.  ids are the interface's name and number, the
\* protocol's name and number, and the time.
MetricMsg(name, ids, case, values) ==
    [Empty(MetricMsgDesc) EXCEPT
        !.case = case,
        !.val = <<<<name>>, <<ids[1]>>, <<ids[2]>>, <<ids[3]>>, <<ids[4]>>,
                  <<ids[5]>>, <<0>>, IF case = 8 THEN <<values>> ELSE <<>>,
                  IF case = 9 THEN <<values>> ELSE <<>>>>]

MetricAvgMsg(name, ids, avg, min, max) ==
    MetricMsg(name, ids, 8, [Empty(MetricAvgMsgDesc) EXCEPT
                               !.val = <<<<avg>>, <<min>>, <<max>>>>])

MetricCumDistrMsg(name, ids, freqs) ==
    MetricMsg(name, ids, 9, [Empty(MetricCumDistrMsgDesc) EXCEPT
        !.val = <<[i \in DOMAIN freqs |->
                     [Empty(FreqDesc) EXCEPT !.val = <<<<freqs[i].name>>,
                                                       <<freqs[i].c_freq>>>>]]>>])

sendMsg(msg) ==
    /\ scene = "report" /\ Len(sent) < MaxReports
    /\ sent' = Append(sent, msg)
    /\ wire' = wire \o Frame(MetricMsgDesc, msg)
    /\ UNCHANGED <<scene, inbox, whole, hung, reader, result, capture>>

\* Mutant: the byte of the prefix is taken for one of the message's.
Enough_Early(src, len) == Len(src) >= len

\* The message that the first byte announces is in the buffer.
Enough(src, len) == Len(src) >= len + 1

\* SnifferCodec's decode; a message that cannot be parsed ends the stream.
\* The parser of the protobuf crate is taken to accept what message_unpack does.
decode ==
    /\ scene = "report" /\ reader.pc = "prefix"
    /\ inbox # <<>> /\ Enough(inbox, inbox[1])
    /\ LET str == SubSeq(inbox, 2, IF inbox[1] + 1 > Len(inbox) THEN Len(inbox)
                                   ELSE inbox[1] + 1)
           metric == message_unpack(MetricMsgDesc, str)
       IN  /\ inbox'  = Drop(inbox, Len(str) + 1)
           /\ result' = result \o metric
           /\ reader' = [reader EXCEPT !.pc = IF metric = <<>> THEN "refused" ELSE @]
    /\ UNCHANGED <<scene, sent, wire, whole, hung, capture>>

------------------------------------------------------------------------------
(* A captured payload.                                                     *)

\* The packet ends one symbol later than the one before.
Grow(s) ==
    /\ scene \in Protocols /\ parsed = <<>>
    /\ Len(payload) < Len(start) + MaxGrowth[scene]
    /\ payload' = Append(payload, s)
    /\ UNCHANGED <<scene, socket, start, parsed>>

isRequest(memory) == CASE scene = "HTTP"      -> HttpIsRequest(payload)
                       [] scene = "MEMCACHED" -> CacheIsRequest(memory)
                       [] scene = "MYSQL"     -> SqlIsRequest(memory)

isResponse(memory) == CASE scene = "HTTP"      -> HttpIsResponse(payload)
                        [] scene = "MEMCACHED" -> CacheIsResponse(memory)
                        [] scene = "MYSQL"     -> SqlIsResponse(memory)

getRequest == CASE scene = "HTTP"      -> HttpRequest(payload)
                [] scene = "MEMCACHED" -> CacheRequest(payload)
                [] scene = "MYSQL"     -> SqlRequest(payload)

getResponse == CASE scene = "HTTP"      -> HttpResponse(payload)
                 [] scene = "MEMCACHED" -> CacheResponse(payload)
                 [] scene = "MYSQL"     -> SqlResponse(payload)

\* isHeaderPacket decides whether the payload is kept, and isRequest, asked
\* first, what the packet is; its header is read when the pair is extracted.
Parse(junk) ==
    /\ scene \in Protocols /\ parsed = <<>>
    /\ LET memory == payload \o junk
           req    == isRequest(memory)
           rsp    == isResponse(memory)
           type   == CASE req -> "REQ" [] ~req /\ rsp -> "RSP" [] OTHER -> "none"
       IN  parsed' = <<[req |-> req, rsp |-> rsp, type |-> type,
                        head |-> CASE type = "REQ"  -> getRequest
                                   [] type = "RSP"  -> getResponse
                                   [] type = "none" -> <<>>]>>
    /\ UNCHANGED <<scene, socket, start, payload>>

------------------------------------------------------------------------------
Next ==
    \/ \E n \in 1..Len(wire) : Arrive(n)
    \/ HangUp
    \/ decode_varint
    \/ ReadRequest
    \/ \E m \in Reports : sendMsg(m)
    \/ decode
    \/ scene \in Protocols /\ \E s \in Alphabet[scene] : Grow(s)
    \/ \E junk \in Memory : Parse(junk)

Spec == Init /\ [][Next]_vars

------------------------------------------------------------------------------
(* Properties.                                                             *)

\* Every message written fits the buffer that was allocated for it, to the
\* byte, and unpacking gives it back: no value is lost at the borders of the
\* varint sizes, in repeated fields, packed or not, or in the oneof
\* (protobuf_c_message_get_packed_size, _pack and _unpack agree).  It is
\* looked at before the bytes arrive.
MessagesSurvive ==
    inbox = <<>> => \A i \in DOMAIN sent :
        LET survives(written, read) ==
                LET out == message_pack(written, sent[i])
                IN  /\ Len(out) = packed_size(written, sent[i])
                    /\ message_unpack(read, out) = <<sent[i]>>
        IN  IF scene = "report" THEN survives(MetricMsgDesc, MetricMsgDesc)
            ELSE \A packed \in BOOLEAN :
                    survives(InitDesc(packed), InitDesc(FALSE))

\* connection_handler starts an analysis only from the request as it was
\* written, wherever the stream was cut and whenever the client left, and
\* turns down no request that arrived in one piece (server.c, decode_varint
\* and the single recv of the body).
RequestReadWhole ==
    scene = "request" =>
        /\ result # <<>> => result = sent
        /\ reader.pc \in {"refused", "closed"} => ~whole

\* The reports that fit a prefix of one byte.
Short(m) == packed_size(MetricMsgDesc, m) < 128

\* Whatever pieces the stream arrives in, the backend gets the reports in the
\* order they were sent, each once and unchanged, up to the first one of 128
\* bytes or more: the sniffer writes a varint, codec.rs reads one byte.
FramesAreReadBack ==
    LET long == {i \in DOMAIN sent : ~Short(sent[i])}
        upto == IF long = {} THEN Len(sent)
                ELSE (CHOOSE i \in long : \A j \in long : i <= j) - 1
    IN  scene = "report" =>
          /\ \A i \in 1..upto : i <= Len(result) => result[i] = sent[i]
          /\ long = {} => Len(result) <= Len(sent) /\ reader.pc # "refused"
          /\ (long = {} /\ wire = <<>> /\ inbox = <<>>) => result = sent

BlankLineAt(i) == /\ At(payload, i) = LF
                  /\ \/ At(payload, i + 1) = LF
                     \/ At(payload, i + 1) = CR /\ At(payload, i + 2) = LF
HasBlankLine == \E i \in DOMAIN payload : BlankLineAt(i)

\* A payload is never taken for a request and a response at once, and a whole
\* HTTP header is recognised as what it is: preprocess asks isRequest first,
\* and the pairing of requests with responses relies on the answer.
HeadersAreOneKind ==
    parsed # <<>> =>
        LET p == parsed[1]
            command == SkipPrefix(payload)
        IN  /\ ~(p.req /\ p.rsp)
            /\ scene = "HTTP" /\ HasBlankLine =>
                 /\ At(command, 1) \in {"GET", "POST"} /\ At(command, 2) = SP
                      => p.type = "REQ"
                 /\ At(payload, 1) = "HTTP/1.1" => p.type = "RSP"

\* The text of the line that starts at i, without the blanks before it and the
\* CRs after it.
LineText(i) ==
    LET lf   == FirstLF(payload, i, Len(payload))
        text == {k \in i..(lf - 1) : payload[k] \notin {SP, CR}}
        From == CHOOSE k \in text : \A j \in text : k <= j
        last == {k \in i..(lf - 1) : payload[k] # CR}
        To   == CHOOSE k \in last : \A j \in last : k >= j
    IN  IF text = {} THEN <<>> ELSE SubSeq(payload, From, To)

\* header_param never returns text from beyond the header or from two lines,
\* and for a header whose lines all end in CR LF it returns the text of the
\* first line that names the parameter, unless that is empty; the URI is the
\* second word of the request line (protocol.cpp and http.cpp).
HeaderFieldsAreExact ==
    (scene = "HTTP" /\ parsed # <<>> /\ parsed[1].type = "REQ") =>
        LET head == parsed[1].head
            end  == find_header_end(payload)
            named == {i \in 1..end : payload[i] = "Host:"
                                     /\ (i = 1 \/ payload[i - 1] = LF)}
            first == CHOOSE i \in named : \A j \in named : i <= j
            proper == \A i \in 1..end :
                         payload[i] = LF => i > 1 /\ payload[i - 1] = CR
        IN  /\ head.host # None =>
                 \E i, a, b \in 1..end :
                    /\ payload[i] = "Host:" /\ i < a /\ a <= b
                    /\ head.host = SubSeq(payload, a, b)
                    /\ \A k \in (i + 1)..(b - 1) : payload[k] # LF
            /\ proper /\ head.method # "NONE" =>
                 /\ named = {} => head.host = None
                 /\ named # {} /\ LineText(first + 1) # <<>> =>
                      head.host = LineText(first + 1)
            /\ head.uri # None =>
                 \E a, b \in 2..end :
                    /\ a <= b /\ head.uri = SubSeq(payload, a, b)
                    /\ payload[a - 1] = SP /\ payload[b + 1] = SP
                    /\ \A k \in a..b : payload[k] \notin {SP, CR, LF}
                    /\ \A k \in 1..(a - 1) : payload[k] \notin {CR, LF}
==============================================================================
