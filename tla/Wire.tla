-------------------------------- MODULE Wire --------------------------------
(***************************************************************************)
(* The encoding of what travels between the backend and the sniffer: the   *)
(* messages of analysis.proto, written and read by the protobuf runtime    *)
(* (src/c-http-sniffer/src/protobuf-c.c), and the length prefix that       *)
(* server.c and codec.rs put in front of them.                             *)
(*                                                                         *)
(* A byte is a number in 0..255 and a buffer a sequence of bytes.  Numbers *)
(* stay below 2^31, so the branch of uint64_pack for larger ones is left   *)
(* out; a double is one of 256 values, written as 8 equal bytes; a string  *)
(* is the sequence of its bytes.  Of the runtime's types the five that     *)
(* analysis.proto uses are here.  A message is                             *)
(*   [val |-> for each field of its descriptor the sequence of its values, *)
(*    case |-> the tag of the oneof's member that is set, or 0,            *)
(*    unknown |-> the fields the descriptor does not know],                *)
(* so a required field has one value, an optional one none or one.  A      *)
(* result that C returns as a pointer is a sequence, empty for NULL.       *)
(***************************************************************************)
EXTENDS Naturals, Sequences, SequencesExt

Drop(s, n) == SubSeq(s, n + 1, Len(s))
Take(s, n) == SubSeq(s, 1, n)
Total(s)   == FoldLeft(LAMBDA a, b : a + b, 0, s)

------------------------------------------------------------------------------
(* Descriptors (analysis.pb-c.c).  oneof and packed are the field's flags. *)

Field(id, label, type) == [id |-> id, label |-> label, type |-> type,
                           oneof |-> FALSE, packed |-> FALSE, sub |-> <<>>]
MessageField(id, label, sub) ==
    [Field(id, label, "message") EXCEPT !.sub = sub]

ProtocolDesc(packed) ==
    <<Field(1, "required", "string"), Field(2, "required", "uint32"),
      Field(3, "optional", "uint32"),
      [Field(4, "repeated", "uint32") EXCEPT !.packed = packed],
      Field(5, "optional", "uint32"),
      [Field(6, "repeated", "uint32") EXCEPT !.packed = packed]>>

NetIntDesc(packed) == <<Field(1, "required", "string"),
                        MessageField(2, "repeated", ProtocolDesc(packed))>>

InitDesc(packed) == <<MessageField(1, "repeated", NetIntDesc(packed)),
                      Field(2, "required", "uint32"),
                      Field(3, "required", "uint32")>>

MetricAvgMsgDesc == <<Field(5, "required", "double"),
                      Field(6, "required", "double"),
                      Field(7, "required", "double")>>

FreqDesc == <<Field(1, "required", "string"), Field(2, "required", "double")>>

MetricCumDistrMsgDesc == <<MessageField(1, "repeated", FreqDesc)>>

MetricMsgDesc ==
    <<Field(1, "required", "string"), Field(2, "required", "string"),
      Field(3, "required", "uint32"), Field(4, "required", "string"),
      Field(5, "required", "uint32"), Field(6, "required", "int64"),
      Field(7, "required", "int64"),
      [MessageField(8, "optional", MetricAvgMsgDesc) EXCEPT !.oneof = TRUE],
      [MessageField(9, "optional", MetricCumDistrMsgDesc)
          EXCEPT !.oneof = TRUE]>>

Empty(desc) == [val |-> [k \in 1..Len(desc) |-> <<>>],
                case |-> 0, unknown |-> <<>>]

------------------------------------------------------------------------------
(* The size of a message before it is packed.                              *)

get_tag_size(number) == CASE number < 2^4  -> 1
                          [] number < 2^11 -> 2
                          [] number < 2^18 -> 3
                          [] number < 2^25 -> 4
                          [] OTHER         -> 5

\* Mutant: a size that needs two bytes is counted as one.
uint32_size_Short(v) == IF v < 2^14 THEN 1 ELSE 2

uint32_size(v) == CASE v < 2^7  -> 1
                    [] v < 2^14 -> 2
                    [] v < 2^21 -> 3
                    [] v < 2^28 -> 4
                    [] OTHER    -> 5

RECURSIVE packed_size(_, _)

Prefixed(n) == uint32_size(n) + n

required_field_size(f, v) ==
    get_tag_size(f.id) + (CASE f.type \in {"uint32", "int64"} -> uint32_size(v)
                            [] f.type = "double"  -> 8
                            [] f.type = "string"  -> Prefixed(Len(v))
                            [] f.type = "message" -> Prefixed(packed_size(f.sub, v)))

oneof_field_size(f, case, vs) ==
    IF case # f.id \/ vs = <<>> THEN 0 ELSE required_field_size(f, vs[1])

optional_field_size(f, vs) ==
    IF vs = <<>> THEN 0 ELSE required_field_size(f, vs[1])

repeated_field_size(f, vs) ==
    LET tag  == get_tag_size(f.id)
        size == Total([i \in DOMAIN vs |-> required_field_size(f, vs[i]) - tag])
    IN  CASE vs = <<>> -> 0
          [] vs # <<>> /\ f.packed  -> tag + Prefixed(size)
          [] vs # <<>> /\ ~f.packed -> tag * Len(vs) + size

packed_size(desc, msg) ==
    Total([k \in 1..Len(desc) |->
             LET f == desc[k]  vs == msg.val[k]
             IN  CASE f.label = "required" -> required_field_size(f, vs[1])
                   [] f.label = "optional" /\ f.oneof ->
                        oneof_field_size(f, msg.case, vs)
                   [] f.label = "optional" /\ ~f.oneof ->
                        optional_field_size(f, vs)
                   [] f.label = "repeated" -> repeated_field_size(f, vs)])
    + Total([k \in 1..Len(msg.unknown) |->
               get_tag_size(msg.unknown[k].tag) + Len(msg.unknown[k].data)])

------------------------------------------------------------------------------
(* Packing.                                                                *)

RECURSIVE uint32_pack(_)
uint32_pack(value) ==
    IF value >= 128 THEN <<128 + (value % 128)>> \o uint32_pack(value \div 128)
                    ELSE <<value>>

uint64_pack(value) == uint32_pack(value)       \* its high 32 bits are 0

fixed64_pack(value) == [i \in 1..8 |-> value]

string_pack(str) == uint32_pack(Len(str)) \o str

tag_pack(id) == uint32_pack(id * 8)

\* The wire type is put into the low bits of the first byte of the tag.
Tagged(id, wire) == [tag_pack(id) EXCEPT ![1] = @ + wire]

VARINT == 0
BITS64 == 1
PREFIXED == 2
BITS32 == 5

RECURSIVE message_pack(_, _)

prefixed_message_pack(desc, msg) ==
    LET out == message_pack(desc, msg) IN uint32_pack(Len(out)) \o out

required_field_pack(f, v) ==
    CASE f.type = "uint32"  -> Tagged(f.id, VARINT) \o uint32_pack(v)
      [] f.type = "int64"   -> Tagged(f.id, VARINT) \o uint64_pack(v)
      [] f.type = "double"  -> Tagged(f.id, BITS64) \o fixed64_pack(v)
      [] f.type = "string"  -> Tagged(f.id, PREFIXED) \o string_pack(v)
      [] f.type = "message" ->
           Tagged(f.id, PREFIXED) \o prefixed_message_pack(f.sub, v)

oneof_field_pack(f, case, vs) ==
    IF case # f.id \/ vs = <<>> THEN <<>> ELSE required_field_pack(f, vs[1])

optional_field_pack(f, vs) ==
    IF vs = <<>> THEN <<>> ELSE required_field_pack(f, vs[1])

\* Packed numbers share one tag and one length; the length is written last,
\* once the payload is known to be longer than the least it could be.
repeated_field_pack(f, vs) ==
    LET payload == FlattenSeq([i \in DOMAIN vs |-> uint32_pack(vs[i])])
    IN  CASE ~f.packed -> FlattenSeq([i \in DOMAIN vs |->
                                        required_field_pack(f, vs[i])])
          [] f.packed /\ vs = <<>> -> <<>>
          [] f.packed /\ vs # <<>> -> Tagged(f.id, PREFIXED)
                                      \o uint32_pack(Len(payload)) \o payload

unknown_field_pack(u) == Tagged(u.tag, u.wire) \o u.data

message_pack(desc, msg) ==
    FlattenSeq([k \in 1..Len(desc) |->
        LET f == desc[k]  vs == msg.val[k]
        IN  CASE f.label = "required" -> required_field_pack(f, vs[1])
              [] f.label = "optional" /\ f.oneof ->
                   oneof_field_pack(f, msg.case, vs)
              [] f.label = "optional" /\ ~f.oneof -> optional_field_pack(f, vs)
              [] f.label = "repeated" -> repeated_field_pack(f, vs)])
    \o FlattenSeq([k \in 1..Len(msg.unknown) |->
                     unknown_field_pack(msg.unknown[k])])

------------------------------------------------------------------------------
(* Unpacking: one pass finds the members, a second one parses them.        *)

Low7(b)   == b % 128
IsLast(b) == b < 128

\* The bytes of the varint that data starts with, 0 if it does not end.
scan_varint(data) ==
    LET max  == IF Len(data) > 10 THEN 10 ELSE Len(data)
        ends == {i \in 1..max : IsLast(data[i])}
    IN  IF ends = {} THEN 0 ELSE CHOOSE i \in ends : \A j \in ends : i <= j

\* Bits above the first 32 are read into a byte that overflows; none of the
\* numbers here has them.
parse_uint32(len, data) ==
    Total([i \in 1..(IF len > 5 THEN 5 ELSE len) |->
             Low7(data[i]) * 2^(7 * (i - 1))])

parse_uint64(len, data) == parse_uint32(len, data)

parse_tag_and_wiretype(data) ==
    LET n == scan_varint(Take(data, IF Len(data) > 5 THEN 5 ELSE Len(data)))
    IN  [used |-> n, wire |-> data[1] % 8,
         tag  |-> Low7(data[1]) \div 8
                  + Total([i \in 1..(IF n > 1 THEN n - 1 ELSE 0) |->
                             Low7(data[i + 1]) * 2^(4 + 7 * (i - 1))])]

\* The bytes of a length and of what follows it, 0 if either is cut short.
scan_length_prefixed_data(data) ==
    LET hdr == scan_varint(Take(data, IF Len(data) > 5 THEN 5 ELSE Len(data)))
        all == hdr + parse_uint32(hdr, data)
    IN  [pref |-> hdr, len |-> IF hdr = 0 \/ all > Len(data) THEN 0 ELSE all]

\* The index of the field with this tag, 0 if the message has none.  The
\* fields of every message of analysis.proto form one range of tags.
int_range_lookup(desc, tag) ==
    IF tag >= desc[1].id /\ tag < desc[1].id + Len(desc)
    THEN tag - desc[1].id + 1 ELSE 0

\* How long the member is whose tag was just read, 0 if the data is too short
\* or the wire type is none.
MemberExtent(wire, data) ==
    CASE wire = VARINT   -> [pref |-> 0, len |-> scan_varint(data)]
      [] wire = BITS64   -> [pref |-> 0, len |-> IF Len(data) < 8 THEN 0 ELSE 8]
      [] wire = PREFIXED -> scan_length_prefixed_data(data)
      [] wire = BITS32   -> [pref |-> 0, len |-> IF Len(data) < 4 THEN 0 ELSE 4]
      [] OTHER           -> [pref |-> 0, len |-> 0]

\* The members of data in order, none of them for NULL: a member that cannot
\* be delimited fails the whole message.
RECURSIVE ScanMembers(_, _)
ScanMembers(data, found) ==
    IF data = <<>> THEN <<found>>
    ELSE LET t    == parse_tag_and_wiretype(data)
             rest == Drop(data, t.used)
             e    == MemberExtent(t.wire, rest)
         IN  IF t.used = 0 \/ e.len = 0 THEN <<>>
             ELSE ScanMembers(Drop(rest, e.len),
                     Append(found, [tag |-> t.tag, wire |-> t.wire,
                                    pref |-> e.pref,
                                    data |-> Take(rest, e.len)]))

RECURSIVE message_unpack(_, _)

\* The value of one member, none if its wire type is wrong for its field.
parse_required_member(f, sm) ==
    LET body == Drop(sm.data, sm.pref)
        Only(wire, v) == IF sm.wire = wire THEN <<v>> ELSE <<>>
    IN  CASE f.type = "uint32" -> Only(VARINT, parse_uint32(Len(sm.data), sm.data))
          [] f.type = "int64"  -> Only(VARINT, parse_uint64(Len(sm.data), sm.data))
          [] f.type = "double" -> Only(BITS64, sm.data[1])
          [] f.type = "string" -> Only(PREFIXED, body)
          [] f.type = "message" ->
               IF sm.wire = PREFIXED THEN message_unpack(f.sub, body) ELSE <<>>

\* The numbers of a packed member; the flag tells whether all were readable.
RECURSIVE parse_packed_repeated_member(_, _)
parse_packed_repeated_member(at, out) ==
    LET s == scan_varint(at)
    IN  CASE at = <<>> -> [ok |-> TRUE, vals |-> out]
          [] at # <<>> /\ s = 0 -> [ok |-> FALSE, vals |-> out]
          [] at # <<>> /\ s > 0 -> parse_packed_repeated_member(
                                     Drop(at, s), Append(out, parse_uint32(s, at)))

is_packable_type(type) == type \notin {"string", "bytes", "message"}

\* A member of a oneof replaces the one that was set before.
parse_oneof_member(desc, msg, k, v) ==
    [msg EXCEPT !.val = [j \in DOMAIN @ |-> CASE j = k -> <<v>>
                                              [] j # k /\ desc[j].oneof -> <<>>
                                              [] OTHER -> @[j]],
                !.case = desc[k].id]

parse_optional_member(msg, k, v) == [msg EXCEPT !.val[k] = <<v>>]
parse_repeated_member(msg, k, vs) == [msg EXCEPT !.val[k] = @ \o vs]

\* msg with one more member, none if the member cannot be parsed.
parse_member(desc, msg, sm) ==
    LET k == int_range_lookup(desc, sm.tag)
        f == desc[k]
        v == parse_required_member(f, sm)
        packed == parse_packed_repeated_member(Drop(sm.data, sm.pref), <<>>)
    IN  CASE k = 0 -> <<[msg EXCEPT !.unknown = Append(@,
                            [tag |-> sm.tag, wire |-> sm.wire, data |-> sm.data])]>>
          [] k > 0 /\ f.label = "repeated" /\ sm.wire = PREFIXED
                   /\ (f.packed \/ is_packable_type(f.type)) ->
               IF packed.ok THEN <<parse_repeated_member(msg, k, packed.vals)>>
                            ELSE <<>>
          [] OTHER ->
               IF v = <<>> THEN <<>>
               ELSE CASE f.oneof -> <<parse_oneof_member(desc, msg, k, v[1])>>
                      [] f.label = "repeated" ->
                           <<parse_repeated_member(msg, k, v)>>
                      [] OTHER -> <<parse_optional_member(msg, k, v[1])>>

\* Every required field is among the members, whatever they hold.
RequiredPresent(desc, members) ==
    \A k \in 1..Len(desc) : desc[k].label = "required" =>
        \E j \in DOMAIN members : members[j].tag = desc[k].id

message_unpack(desc, data) ==
    LET scan == ScanMembers(data, <<>>)
    IN  IF scan = <<>> THEN <<>>
        ELSE IF ~RequiredPresent(desc, scan[1]) THEN <<>>
        ELSE FoldLeft(LAMBDA m, sm : IF m = <<>> THEN <<>>
                                     ELSE parse_member(desc, m[1], sm),
                      <<Empty(desc)>>, scan[1])

------------------------------------------------------------------------------
(* The length prefix.                                                      *)

\* Mutant: the continuation bit of the first byte is missing.
encode_varint_NoMore(value) == <<value % 128>>

RECURSIVE encode_varint(_)
encode_varint(value) ==
    IF value \div 128 = 0 THEN <<value % 128>>
    ELSE <<128 + (value % 128)>> \o encode_varint(value \div 128)

Frame(desc, msg) == encode_varint(packed_size(desc, msg))
                    \o message_pack(desc, msg)
==============================================================================
