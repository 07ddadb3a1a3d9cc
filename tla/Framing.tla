------------------------------ MODULE Framing ------------------------------
(***************************************************************************)
(* Message framing: Frame and Unframe of core/encoding.go, and writeMsg /  *)
(* readMsg of p2p/host.go (src/unnamed/part_007) on one stream.            *)
(*                                                                         *)
(* A frame is [uint32 big-endian length][type byte][payload].  The writer  *)
(* is writeMsg (one Write of Frame(type, payload)) or a peer that writes   *)
(* arbitrary bytes; either may close the stream.  The reader is readMsg:   *)
(* io.ReadFull of the 4-byte header, the length check, io.ReadFull of the  *)
(* body.  Each ReadFull blocks until its bytes are there or the stream is  *)
(* closed.  readMsg's 4 MiB bound is the constant MaxFrame.  The payload   *)
(* is a message's Encode (module Codec); a writer that follows spec 4.3    *)
(* also sends field 10, the signature, on Intent and NegotiationResponse.  *)
(***************************************************************************)
EXTENDS Integers, Sequences, Codec

CONSTANTS
    Msgs,       \* messages writeMsg sends: [type |-> MessageType, msg |-> record]
    Sigs,       \* signatures a spec 4.3 writer puts in field 10
    ByteVals,   \* bytes an arbitrary writer sends
    MaxWire,    \* bound on the bytes an arbitrary writer sends
    MaxFrame    \* readMsg's bound on the length field

VARIABLES
    writer,     \* "honest" (writeMsg), "spec" (writeMsg plus field 10), "raw" (any bytes)
    wire,       \* the bytes written to the stream so far
    eof,        \* the writer has closed the stream
    sent,       \* ghost: the [type, payload, msg] writeMsg framed, or NoMsg
    rpc,        \* readMsg: "hdr", "body", "done", "failed"
    n,          \* readMsg's length field
    out         \* what readMsg returned: [type, payload]

vars == <<writer, wire, eof, sent, rpc, n, out>>

NoMsg == [type |-> -1, payload |-> <<>>, msg |-> NoMap]
NoOut == [type |-> -1, payload |-> <<>>]

\* Field 10 on the messages spec 4.3 calls signable.
Signable == {2, 3}

\* binary.BigEndian.PutUint32 and Uint32.
PutUint32(x) == << (x \div 2^24) % 256, (x \div 2^16) % 256, (x \div 2^8) % 256, x % 256 >>
Uint32(b) == ((b[1] * 256 + b[2]) * 256 + b[3]) * 256 + b[4]

\* Mutant: the length field counts the payload only, not the type byte.
FrameNoTypeByte(t, payload) ==
    PutUint32(Len(payload)) \o <<t>> \o payload

\* Frame(msgType, payload): total = 1 + len(payload), written as uint32.
\* uint32(total) wraps only for payloads of 4 GiB, beyond readMsg's bound
\* and TLC's integers; it is not modelled.
Frame(t, payload) ==
    PutUint32(1 + Len(payload)) \o <<t>> \o payload

\* Unframe(frame): too short, incomplete, or type and frame[5 : 4+total].
\* With total = 0 the slice bounds are inverted and Go panics.
Unframe(f) ==
    IF Len(f) < 5 THEN [res |-> "short"]
    ELSE LET total == Uint32(SubSeq(f, 1, 4)) IN
         IF Len(f) < 4 + total THEN [res |-> "incomplete"]
         ELSE IF total = 0 THEN [res |-> "panic"]
         ELSE [res |-> "ok", type |-> f[5], payload |-> SubSeq(f, 6, 4 + total)]

Init ==
    /\ writer \in {"honest", "spec", "raw"}
    /\ wire = <<>>
    /\ eof = FALSE
    /\ sent = NoMsg
    /\ rpc = "hdr"
    /\ n = 0
    /\ out = NoOut

(***************************************************************************)
(* The writer.                                                             *)
(***************************************************************************)

\* writeMsg: msg.Encode(), Frame, one w.Write of the whole frame.
WriteMsg(m) ==
    /\ writer = "honest" /\ sent = NoMsg /\ ~eof
    /\ \E payload \in Encode(m.type, m.msg) :
          /\ wire' = Frame(m.type, payload)
          /\ sent' = [type |-> m.type, payload |-> payload, msg |-> m.msg]
    /\ UNCHANGED <<writer, eof, rpc, n, out>>

\* A writer that follows spec 4.3: the same fields, then field 10.
WriteSignedMsg(m, sig) ==
    /\ writer = "spec" /\ sent = NoMsg /\ ~eof /\ m.type \in Signable
    /\ \E payload \in Encode(m.type, m.msg) :
          /\ wire' = Frame(m.type, payload \o bytes(10, sig))
          /\ sent' = [type |-> m.type, payload |-> payload \o bytes(10, sig), msg |-> m.msg]
    /\ UNCHANGED <<writer, eof, rpc, n, out>>

\* A peer that does not run writeMsg writes any byte.
WriteByte(b) ==
    /\ writer = "raw" /\ ~eof /\ Len(wire) < MaxWire
    /\ wire' = Append(wire, b)
    /\ UNCHANGED <<writer, eof, sent, rpc, n, out>>

\* The stream is closed by the writer (s.Close, a reset, or the peer gone).
CloseStream ==
    /\ ~eof
    /\ eof' = TRUE
    /\ UNCHANGED <<writer, wire, sent, rpc, n, out>>

(***************************************************************************)
(* The reader: readMsg.                                                    *)
(***************************************************************************)

\* Mutant: the bound check written as n >= MaxFrame.
ReadHeaderOffByOne ==
    /\ rpc = "hdr" /\ Len(wire) >= 4
    /\ n' = Uint32(SubSeq(wire, 1, 4))
    /\ rpc' = IF n' < 1 \/ n' >= MaxFrame THEN "failed" ELSE "body"
    /\ UNCHANGED <<writer, wire, eof, sent, out>>

\* Mutant: the upper bound check left out.
ReadHeaderNoBound ==
    /\ rpc = "hdr" /\ Len(wire) >= 4
    /\ n' = Uint32(SubSeq(wire, 1, 4))
    /\ rpc' = IF n' < 1 THEN "failed" ELSE "body"
    /\ UNCHANGED <<writer, wire, eof, sent, out>>

\* io.ReadFull(r, hdr[:]) succeeds; then n < 1 || n > 4 MiB is an error.
ReadHeader ==
    /\ rpc = "hdr" /\ Len(wire) >= 4
    /\ n' = Uint32(SubSeq(wire, 1, 4))
    /\ rpc' = IF n' < 1 \/ n' > MaxFrame THEN "failed" ELSE "body"
    /\ UNCHANGED <<writer, wire, eof, sent, out>>

\* io.ReadFull(r, body) succeeds: body[0] is the type, body[1:] the payload.
ReadBody ==
    /\ rpc = "body" /\ Len(wire) >= 4 + n
    /\ out' = [type |-> wire[5], payload |-> SubSeq(wire, 6, 4 + n)]
    /\ rpc' = "done"
    /\ UNCHANGED <<writer, wire, eof, sent, n>>

\* Either io.ReadFull meets the end of the stream first: an error.
ReadEOF ==
    /\ eof
    /\ \/ rpc = "hdr" /\ Len(wire) < 4
       \/ rpc = "body" /\ Len(wire) < 4 + n
    /\ rpc' = "failed"
    /\ UNCHANGED <<writer, wire, eof, sent, n, out>>

Next ==
    \/ \E m \in Msgs : WriteMsg(m)
    \/ \E m \in Msgs, sig \in Sigs : WriteSignedMsg(m, sig)
    \/ \E b \in ByteVals : WriteByte(b)
    \/ CloseStream
    \/ ReadHeader \/ ReadBody \/ ReadEOF
    \/ rpc \in {"done", "failed"} /\ eof /\ UNCHANGED vars

\* readMsg runs in its own goroutine and blocks only on the stream.
Spec == Init /\ [][Next]_vars /\ WF_vars(ReadHeader \/ ReadBody \/ ReadEOF)

(***************************************************************************)
(* Properties.                                                             *)
(***************************************************************************)

\* readMsg only goes on to read a body whose length passed its check.
TypeOK ==
    /\ writer \in {"honest", "spec", "raw"}
    /\ wire \in Seq(0..255) /\ eof \in BOOLEAN
    /\ rpc \in {"hdr", "body", "done", "failed"}
    /\ rpc \in {"body", "done"} => n \in 1..MaxFrame

\* What readMsg returns is what Unframe makes of the same bytes, whatever
\* the writer sent, and is exactly the type and payload writeMsg framed when
\* the writer is writeMsg: the two decoders of the codec agree, and
\* readMsg reads back Frame's layout.
ReadMsgDecodes ==
    rpc = "done" =>
        /\ Unframe(SubSeq(wire, 1, 4 + n)) = [res |-> "ok", type |-> out.type,
                                              payload |-> out.payload]
        /\ writer # "raw" => out = [type |-> sent.type, payload |-> sent.payload]

\* The decoder for a payload of type t: Decode for the three types it knows
\* (the ones the hosts decode), DecodeCapabilityAnnouncement for a
\* capability, which no receiver calls yet (handleIncomingCapability is a
\* TODO).
Receive(t, p) == IF t = 5 THEN DecodeCapabilityAnnouncement(p) ELSE Decode(t, p)

\* Round trip through the whole pipe: the message readMsg hands to the
\* receiver decodes to the record the writer encoded, up to a float32 -0.0
\* that enc.f32 drops as zero, whatever order Go walked the map in and with
\* a spec 4.3 writer's field 10 skipped.  WorkflowMessage has no decoder.
CodecRoundTrip ==
    (rpc = "done" /\ writer # "raw" /\ sent.type # 4) =>
        Receive(out.type, out.payload) = [ok |-> TRUE, msg |-> Normalize(sent.type, sent.msg)]

\* A frame written by writeMsg within readMsg's bound is read.
HonestFrameRead == (writer # "raw" /\ sent # NoMsg) ~> rpc = "done"
=============================================================================
