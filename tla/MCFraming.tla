----------------------------- MODULE MCFraming -----------------------------
(***************************************************************************)
(* Framing and the codec on one stream.  writeMsg sends one message of     *)
(* each kind, chosen so that every enc helper writes something: an empty   *)
(* string inside a repeated field, a 2-byte varint, a -0.0 float32 (which  *)
(* enc.f32 drops) and a -0.0 word in a packed vector, a packed vector of   *)
(* one and of two words, and maps of one and two keys (two iteration       *)
(* orders).  A spec 4.3 writer adds a one-byte signature in field 10.      *)
(* readMsg's 4 MiB bound is scaled to the largest frame these produce, so  *)
(* the longest honest frame sits exactly at the bound.  An arbitrary       *)
(* writer sends up to 7 bytes from {0, 2, 4}: length fields of 0, 2, 4     *)
(* and far above the bound, short headers and short bodies.                *)
(***************************************************************************)
EXTENDS Framing, TLC

NegZero == <<0, 0, 0, 128>>
One == <<0, 0, 128, 63>>
MinusHalf == <<0, 0, 0, 191>>

MCHandshake ==
    [AgentID |-> <<65>>, DID |-> <<>>, Capabilities |-> << <<>>, <<99>> >>,
     Version |-> <<49>>, Timestamp |-> 300, PublicKey |-> <<>>, Challenge |-> <<9>>,
     ChallengeResponse |-> <<>>]
MCIntent ==
    [ID |-> <<1>>, IntentVector |-> <<NegZero, One>>, Capabilities |-> <<>>, DID |-> <<>>,
     Payload |-> <<>>, Timestamp |-> 0, TrustScore |-> NegZero,
     Metadata |-> (<<1>> :> <<2>>) @@ (<<>> :> <<3>>)]
MCNegotiation ==
    [RequestID |-> <<1>>, AgentID |-> <<>>, Accepted |-> TRUE, WorkflowSteps |-> << <<5>> >>,
     DID |-> <<>>, ResponseVector |-> <<One>>, Timestamp |-> 0, Reason |-> <<>>,
     TrustDelta |-> MinusHalf]
MCWorkflow ==
    [WorkflowID |-> <<>>, StepID |-> <<2>>, NextStepID |-> <<>>, AgentID |-> <<>>, DID |-> <<>>,
     Action |-> <<>>, Params |-> (<<4>> :> <<>>), ResultChan |-> <<>>, Timestamp |-> 0]
MCCapability ==
    [AgentID |-> <<65>>, DID |-> <<>>, Capabilities |-> << <<99>> >>, Timestamp |-> 0, TTL |-> 300]

MCMsgs ==
    { [type |-> 1, msg |-> MCHandshake], [type |-> 2, msg |-> MCIntent],
      [type |-> 3, msg |-> MCNegotiation], [type |-> 4, msg |-> MCWorkflow],
      [type |-> 5, msg |-> MCCapability] }
MCSigs == { <<7>> }
MCByteVals == {0, 2, 4}

\* The length field of every frame the two writers may send; the largest is
\* the bound.
FrameLengths ==
    { 1 + Len(p) : p \in UNION { Encode(m.type, m.msg) : m \in MCMsgs } }
    \cup { 1 + Len(p) + 3 : p \in UNION { Encode(m.type, m.msg) : m \in {x \in MCMsgs : x.type \in Signable} } }
MCMaxFrame == CHOOSE x \in FrameLengths : \A y \in FrameLengths : y <= x
=============================================================================
