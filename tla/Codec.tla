------------------------------- MODULE Codec -------------------------------
(***************************************************************************)
(* The binary codec of core/encoding.go, byte for byte.                    *)
(*                                                                         *)
(* A message is a record with the Go struct's field names.  A string or    *)
(* []byte is a sequence of bytes, an int64 a natural number (timestamps    *)
(* and TTLs; uint64(v) of a negative one is beyond TLC's integers), a      *)
(* float32 the 4 little-endian bytes of math.Float32bits, a []float32 a    *)
(* sequence of those, a map[string]string a function.  Every Encode walks  *)
(* its fields in order with the enc helpers; every Decode runs the same    *)
(* loop: ConsumeTag, then the case of the field number, or                 *)
(* ConsumeFieldValue for a number it does not know.  A Go map is encoded   *)
(* in iteration order, so Encode has a set of outcomes.                    *)
(***************************************************************************)
EXTENDS Integers, Sequences
LOCAL INSTANCE SequencesExt

(***************************************************************************)
(* protowire (google.golang.org/protobuf/encoding/protowire), the library  *)
(* the codec is written with.  A Consume returns [v, n]; n < 0 is an error.*)
(***************************************************************************)
VarintType == 0
Fixed32Type == 5
Fixed64Type == 1
BytesType == 2
StartGroupType == 3
EndGroupType == 4

Fail == [n |-> -1]

RECURSIVE AppendVarint(_)
AppendVarint(x) ==
    IF x < 128 THEN <<x>> ELSE <<(x % 128) + 128>> \o AppendVarint(x \div 128)

AppendTag(num, typ) == AppendVarint(num * 8 + typ)
AppendBytes(b) == AppendVarint(Len(b)) \o b

Drop(b, k) == SubSeq(b, k + 1, Len(b))

RECURSIVE ConsumeVarint(_)
ConsumeVarint(b) ==
    IF b = <<>> THEN Fail
    ELSE IF b[1] < 128 THEN [v |-> b[1], n |-> 1]
    ELSE LET r == ConsumeVarint(Tail(b)) IN
         IF r.n < 0 THEN Fail ELSE [v |-> b[1] - 128 + 128 * r.v, n |-> r.n + 1]

\* Field number below 1 is an error.
ConsumeTag(b) ==
    LET r == ConsumeVarint(b) IN
    IF r.n < 0 \/ r.v \div 8 < 1 THEN Fail
    ELSE [num |-> r.v \div 8, typ |-> r.v % 8, n |-> r.n]

ConsumeBytes(b) ==
    LET r == ConsumeVarint(b) IN
    IF r.n < 0 \/ r.v > Len(b) - r.n THEN Fail
    ELSE [v |-> SubSeq(b, r.n + 1, r.n + r.v), n |-> r.n + r.v]

ConsumeFixed(b, k) == IF Len(b) < k THEN Fail ELSE [v |-> SubSeq(b, 1, k), n |-> k]

\* The length of the value of a field of wire type typ; a group runs to the
\* end-group tag of the same number.
RECURSIVE ConsumeFieldValue(_, _, _), ConsumeGroup(_, _, _)
ConsumeFieldValue(num, typ, b) ==
    CASE typ = VarintType     -> ConsumeVarint(b).n
      [] typ = Fixed32Type    -> ConsumeFixed(b, 4).n
      [] typ = Fixed64Type    -> ConsumeFixed(b, 8).n
      [] typ = BytesType      -> ConsumeBytes(b).n
      [] typ = StartGroupType -> ConsumeGroup(num, b, 0)
      [] OTHER                -> -1

ConsumeGroup(num, b, k) ==
    LET t == ConsumeTag(Drop(b, k)) IN
    IF t.n < 0 THEN -1
    ELSE IF t.typ = EndGroupType THEN (IF t.num = num THEN k + t.n ELSE -1)
    ELSE LET m == ConsumeFieldValue(t.num, t.typ, Drop(b, k + t.n)) IN
         IF m < 0 THEN -1 ELSE ConsumeGroup(num, b, k + t.n + m)

(***************************************************************************)
(* The enc helpers: the bytes each appends to e.buf.                       *)
(***************************************************************************)
ZeroF32 == <<0, 0, 0, 0>>

\* v == 0 for a float32: +0.0 or -0.0.
IsZeroF32(v) == v[1] = 0 /\ v[2] = 0 /\ v[3] = 0 /\ v[4] \in {0, 128}

str(f, s) == IF s = <<>> THEN <<>> ELSE AppendTag(f, BytesType) \o AppendBytes(s)
bytes(f, b) == IF b = <<>> THEN <<>> ELSE AppendTag(f, BytesType) \o AppendBytes(b)
i64(f, v) == IF v = 0 THEN <<>> ELSE AppendTag(f, VarintType) \o AppendVarint(v)
f32(f, v) == IF IsZeroF32(v) THEN <<>> ELSE AppendTag(f, Fixed32Type) \o v
boolean(f, v) == IF ~v THEN <<>> ELSE AppendTag(f, VarintType) \o <<1>>
strs(f, ss) == FlattenSeq([k \in DOMAIN ss |-> AppendTag(f, BytesType) \o AppendBytes(ss[k])])
packedF32(f, fs) ==
    IF fs = <<>> THEN <<>> ELSE AppendTag(f, BytesType) \o AppendBytes(FlattenSeq(fs))

\* strMap: one nested entry per key, in any iteration order.
strMap(f, m) ==
    LET entry(k) == AppendTag(1, BytesType) \o AppendBytes(k)
                    \o AppendTag(2, BytesType) \o AppendBytes(m[k])
    IN { FlattenSeq([i \in DOMAIN ks |-> AppendTag(f, BytesType) \o AppendBytes(entry(ks[i]))])
         : ks \in SetToSeqs(DOMAIN m) }

\* One field of an Encode: the set of byte strings it may append.
EncField(e, m) ==
    CASE e.kind = "str"       -> {str(e.num, m[e.name])}
      [] e.kind = "bytes"     -> {bytes(e.num, m[e.name])}
      [] e.kind = "i64"       -> {i64(e.num, m[e.name])}
      [] e.kind = "f32"       -> {f32(e.num, m[e.name])}
      [] e.kind = "boolean"   -> {boolean(e.num, m[e.name])}
      [] e.kind = "strs"      -> {strs(e.num, m[e.name])}
      [] e.kind = "packedF32" -> {packedF32(e.num, m[e.name])}
      [] e.kind = "strMap"    -> strMap(e.num, m[e.name])

RECURSIVE EncFields(_, _)
EncFields(es, m) ==
    IF es = <<>> THEN {<<>>}
    ELSE {x \o y : x \in EncField(Head(es), m), y \in EncFields(Tail(es), m)}

F(num, name, kind) == [num |-> num, name |-> name, kind |-> kind]

\* Each Encode: its enc calls in order.
IntentFields ==
    << F(1, "ID", "str"), F(2, "IntentVector", "packedF32"), F(3, "Capabilities", "strs"),
       F(4, "DID", "str"), F(5, "Payload", "str"), F(6, "Timestamp", "i64"),
       F(7, "TrustScore", "f32"), F(8, "Metadata", "strMap") >>
HandshakeFields ==
    << F(1, "AgentID", "str"), F(2, "DID", "str"), F(3, "Capabilities", "strs"),
       F(4, "Version", "str"), F(5, "Timestamp", "i64"), F(6, "PublicKey", "bytes"),
       F(7, "Challenge", "bytes"), F(8, "ChallengeResponse", "bytes") >>
NegotiationFields ==
    << F(1, "RequestID", "str"), F(2, "AgentID", "str"), F(3, "Accepted", "boolean"),
       F(4, "WorkflowSteps", "strs"), F(5, "DID", "str"), F(6, "ResponseVector", "packedF32"),
       F(7, "Timestamp", "i64"), F(8, "Reason", "str"), F(9, "TrustDelta", "f32") >>
WorkflowFields ==
    << F(1, "WorkflowID", "str"), F(2, "StepID", "str"), F(3, "NextStepID", "str"),
       F(4, "AgentID", "str"), F(5, "DID", "str"), F(6, "Action", "str"),
       F(7, "Params", "strMap"), F(8, "ResultChan", "str"), F(9, "Timestamp", "i64") >>
CapabilityFields ==
    << F(1, "AgentID", "str"), F(2, "DID", "str"), F(3, "Capabilities", "strs"),
       F(4, "Timestamp", "i64"), F(5, "TTL", "i64") >>

\* MessageType byte -> the fields its Encode writes.
MsgFields ==
    (1 :> HandshakeFields) @@ (2 :> IntentFields) @@ (3 :> NegotiationFields)
    @@ (4 :> WorkflowFields) @@ (5 :> CapabilityFields)

\* writeMsg's msg.Encode(): every payload it may produce for message m of type t.
Encode(t, m) == EncFields(MsgFields[t], m)

\* m as a decoder sees it again: a float32 field equal to zero is +0.0.
Normalize(t, m) ==
    [f \in DOMAIN m |->
        IF \E i \in DOMAIN MsgFields[t] : MsgFields[t][i].name = f /\ MsgFields[t][i].kind = "f32"
                                         /\ IsZeroF32(m[f])
        THEN ZeroF32 ELSE m[f]]

(***************************************************************************)
(* Decoding.                                                               *)
(***************************************************************************)
DecodeErr == [ok |-> FALSE]

\* Whole 4-byte words only; trailing bytes are dropped without an error.
RECURSIVE decodePackedF32Strict(_)
decodePackedF32Strict(p) ==
    IF Len(p) > 4 THEN <<SubSeq(p, 1, 4)>> \o decodePackedF32Strict(Drop(p, 4)) ELSE <<>>

RECURSIVE decodePackedF32(_)
decodePackedF32(p) ==
    IF Len(p) >= 4 THEN <<SubSeq(p, 1, 4)>> \o decodePackedF32(Drop(p, 4)) ELSE <<>>

\* decodeStrMapEntry: fields 1 and 2 are strings, any other field is
\* skipped as if its wire type were BytesType, whatever its tag says.
RECURSIVE decodeStrMapEntry(_, _, _)
decodeStrMapEntry(b, key, val) ==
    IF b = <<>> THEN [ok |-> TRUE, key |-> key, val |-> val]
    ELSE LET t == ConsumeTag(b)
             rest == Drop(b, t.n)
             s == ConsumeBytes(rest)
             k == IF t.num \in {1, 2} THEN s.n ELSE ConsumeFieldValue(t.num, BytesType, rest)
         IN IF t.n < 0 \/ k < 0 THEN DecodeErr
            ELSE decodeStrMapEntry(Drop(rest, k), IF t.num = 1 THEN s.v ELSE key,
                                                  IF t.num = 2 THEN s.v ELSE val)

C(name, kind) == [name |-> name, kind |-> kind]

\* The cases of each Decode's switch, indexed by field number.
IntentCases ==
    << C("ID", "string"), C("IntentVector", "packed"), C("Capabilities", "strings"),
       C("DID", "string"), C("Payload", "string"), C("Timestamp", "varint"),
       C("TrustScore", "fixed32"), C("Metadata", "map") >>
HandshakeCases ==
    << C("AgentID", "string"), C("DID", "string"), C("Capabilities", "strings"),
       C("Version", "string"), C("Timestamp", "varint"), C("PublicKey", "bytes"),
       C("Challenge", "bytes"), C("ChallengeResponse", "bytes") >>
NegotiationCases ==
    << C("RequestID", "string"), C("AgentID", "string"), C("Accepted", "bool"),
       C("WorkflowSteps", "strings"), C("DID", "string"), C("ResponseVector", "packed"),
       C("Timestamp", "varint"), C("Reason", "string"), C("TrustDelta", "fixed32") >>
CapabilityCases ==
    << C("AgentID", "string"), C("DID", "string"), C("Capabilities", "strings"),
       C("Timestamp", "varint"), C("TTL", "varint") >>

\* One case: consume by the case's own kind (the tag's wire type is not
\* looked at), then assign, append, or insert into the map.
DecodeField(c, m, b) ==
    LET r == CASE c.kind \in {"varint", "bool"} -> ConsumeVarint(b)
               [] c.kind = "fixed32"            -> ConsumeFixed(b, 4)
               [] OTHER                         -> ConsumeBytes(b)
        e == decodeStrMapEntry(r.v, <<>>, <<>>)
        v == CASE c.kind = "bool"    -> r.v # 0
               [] c.kind = "strings" -> Append(m[c.name], r.v)
               [] c.kind = "packed"  -> decodePackedF32(r.v)
               [] c.kind = "map"     -> (e.key :> e.val) @@ m[c.name]
               [] OTHER              -> r.v
    IN IF r.n < 0 \/ (c.kind = "map" /\ ~e.ok) THEN Fail
       ELSE [n |-> r.n, m |-> [m EXCEPT ![c.name] = v]]

\* for len(data) > 0 { ConsumeTag; switch num { cases; default: ConsumeFieldValue } }
RECURSIVE DecodeLoop(_, _, _)
DecodeLoop(cases, m, data) ==
    IF data = <<>> THEN [ok |-> TRUE, msg |-> m]
    ELSE LET t == ConsumeTag(data)
             rest == Drop(data, t.n)
             d == IF t.num \in DOMAIN cases THEN DecodeField(cases[t.num], m, rest)
                  ELSE [n |-> ConsumeFieldValue(t.num, t.typ, rest), m |-> m]
         IN IF t.n < 0 \/ d.n < 0 THEN DecodeErr ELSE DecodeLoop(cases, d.m, Drop(rest, d.n))

NoMap == [k \in {} |-> <<>>]

\* The zero value each Decode starts from (Intent with an empty Metadata map).
IntentZero ==
    [ID |-> <<>>, IntentVector |-> <<>>, Capabilities |-> <<>>, DID |-> <<>>, Payload |-> <<>>,
     Timestamp |-> 0, TrustScore |-> ZeroF32, Metadata |-> NoMap]
HandshakeZero ==
    [AgentID |-> <<>>, DID |-> <<>>, Capabilities |-> <<>>, Version |-> <<>>, Timestamp |-> 0,
     PublicKey |-> <<>>, Challenge |-> <<>>, ChallengeResponse |-> <<>>]
NegotiationZero ==
    [RequestID |-> <<>>, AgentID |-> <<>>, Accepted |-> FALSE, WorkflowSteps |-> <<>>,
     DID |-> <<>>, ResponseVector |-> <<>>, Timestamp |-> 0, Reason |-> <<>>,
     TrustDelta |-> ZeroF32]
CapabilityZero ==
    [AgentID |-> <<>>, DID |-> <<>>, Capabilities |-> <<>>, Timestamp |-> 0, TTL |-> 0]

DecodeIntentMessage(data) == DecodeLoop(IntentCases, IntentZero, data)
DecodeHandshakeMessage(data) == DecodeLoop(HandshakeCases, HandshakeZero, data)
DecodeNegotiationResponse(data) == DecodeLoop(NegotiationCases, NegotiationZero, data)
DecodeCapabilityAnnouncement(data) == DecodeLoop(CapabilityCases, CapabilityZero, data)

\* Decode(msgType, data): Handshake, Intent and Negotiation only.
Decode(t, data) ==
    CASE t = 1 -> DecodeHandshakeMessage(data)
      [] t = 2 -> DecodeIntentMessage(data)
      [] t = 3 -> DecodeNegotiationResponse(data)
      [] OTHER -> DecodeErr
=============================================================================
