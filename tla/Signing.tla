------------------------------ MODULE Signing ------------------------------
(***************************************************************************)
(* Per-message signing of core/negotiation.go on the identity of           *)
(* core/did.go and the agents of core/types.go.                            *)
(*                                                                         *)
(* A DID is a value with optional key slots (did.go DID): a DID made by    *)
(* NewDID holds both halves of its key pair, one made by DIDFromPublicKey  *)
(* only the public half.  Strings are sequences of characters: an intent   *)
(* ID is a randomID of IDLen hex characters, and the bytes signed are the  *)
(* Go concatenations intent.ID + intent.Payload and resp.RequestID +       *)
(* resp.Reason.  Honest agents sign in CreateIntent, in the default        *)
(* negotiation handler and, when SignsChallenges, in RespondHandshake over *)
(* any challenge a peer sends.  The network is the attacker's: it sends    *)
(* honest agents any intent and builds any message from the fields and the *)
(* signatures it has seen.                                                 *)
(***************************************************************************)
EXTENDS Integers, Sequences, FiniteSets

CONSTANTS
    Agents,          \* honest agents, each named by its Ed25519 key pair
    Attacker,        \* a peer with a key pair of its own
    Hex,             \* the characters hex.EncodeToString writes
    IDLen,           \* characters of a randomID (32 in the code)
    Payloads,        \* payload strings callers pass to CreateIntent
    Caps,            \* capability tags
    AgentCaps,       \* AgentCaps[a]: the Capabilities a was created with
    ReasonAll,       \* "all capabilities available"
    ReasonMissing,   \* "missing capabilities: [...]"
    MaxLen,          \* the longest ID or challenge the attacker sends
    MaxSigned,       \* bound on the signatures honest agents make
    SignsChallenges  \* RespondHandshake signs the peer's challenge bytes

VARIABLES
    intents,     \* the intents honest agents made with CreateIntent
    responses,   \* the responses the default handlers of honest agents made
    challenges   \* the signatures RespondHandshake made over challenges

vars == <<intents, responses, challenges>>

I == INSTANCE Identity

Keys == Agents \cup {Attacker}

\* Strings of at most n characters of Hex.
Strings(n) == UNION {[1..k -> Hex] : k \in 0..n}

\* A nil key slot, a public key of the wrong size, and the errors.
None == "none"
ErrKeySize == [err |-> "did: expected 32-byte public key"]
ErrNoPrivateKey == [err |-> "did: private key not available"]
ErrSign == [err |-> "CreateIntent: sign"]

\* didFromKey: ID is hex(sha256(pub)), injective, so named by the key.
didFromKey(pub, priv) ==
    [Method |-> "symplex", ID |-> pub, pubKey |-> pub, privKey |-> priv]

\* NewDID: ed25519.GenerateKey; key pair k has both halves.
NewDID(k) == didFromKey(k, k)

\* DIDFromPublicKey: the public half only; a key of the wrong size fails.
DIDFromPublicKey(pk) == IF pk \in Keys THEN didFromKey(pk, None) ELSE ErrKeySize

\* String: "did:symplex:" + ID, injective as the method is fixed.
String(d) == d.ID

\* (*DID).Sign: ErrNoPrivateKey without the private half.
DIDSign(d, data) ==
    IF d.privKey = None THEN ErrNoPrivateKey ELSE I!Sign(d.privKey, data)

\* (*DID).Verify: false without the public half, else ed25519.Verify.
DIDVerify(d, data, sig) == d.pubKey # None /\ I!Verify(d.pubKey, data, sig)

\* NewAgent(id, caps): a fresh DID; Agent.Sign is DID.Sign.
NewAgent(id, caps, k) == [ID |-> id, DID |-> NewDID(k), Capabilities |-> caps]
Agent(a) == NewAgent(a, AgentCaps[a], a)

\* randomID: 16 random bytes, hex encoded.
RandomIDs == [1..IDLen -> Hex]

\* CreateIntent: sign ID + Payload; a signing error is returned.
CreateIntent(sender, caps, payload, id) ==
    LET intent == [ID |-> id, Capabilities |-> caps, DID |-> String(sender.DID),
                   Payload |-> payload, Signature |-> I!NoSig]
        sig == DIDSign(sender.DID, id \o payload)
    IN  IF sig = ErrNoPrivateKey THEN ErrSign ELSE [intent EXCEPT !.Signature = sig]

\* Mutant: reason starts empty, set only on reject.
DefaultNegotiationHandlerNoReason(agent, intent) ==
    LET accepted == intent.Capabilities \subseteq agent.Capabilities
        resp == [RequestID |-> intent.ID, Accepted |-> accepted,
                 DID |-> String(agent.DID), Signature |-> I!NoSig,
                 Reason |-> IF accepted THEN <<>> ELSE ReasonMissing]
        sig == DIDSign(agent.DID, resp.RequestID \o resp.Reason)
    IN  IF sig = ErrNoPrivateKey THEN resp ELSE [resp EXCEPT !.Signature = sig]

\* DefaultNegotiationHandler: accept iff no capability is missing; sign
\* RequestID + Reason, leaving the signature empty if signing fails.
DefaultNegotiationHandler(agent, intent) ==
    LET accepted == intent.Capabilities \subseteq agent.Capabilities
        resp == [RequestID |-> intent.ID, Accepted |-> accepted,
                 DID |-> String(agent.DID), Signature |-> I!NoSig,
                 Reason |-> IF accepted THEN ReasonAll ELSE ReasonMissing]
        sig == DIDSign(agent.DID, resp.RequestID \o resp.Reason)
    IN  IF sig = ErrNoPrivateKey THEN resp ELSE [resp EXCEPT !.Signature = sig]

\* RespondHandshake: responder.Sign(incoming.Challenge), whatever its length.
SignChallenge(agent, chal) == DIDSign(agent.DID, chal)

\* Mutant: ID alone is verified, as if Payload were not signed.
VerifyIntentSignatureIDOnly(intent, pubKey) ==
    \/ I!Unsigned(intent.Signature)
    \/ LET d == DIDFromPublicKey(pubKey)
       IN  d # ErrKeySize /\ DIDVerify(d, intent.ID, intent.Signature)

\* VerifyIntentSignature: an empty signature passes; else a key of the
\* wrong size fails and ID + Payload is verified.
VerifyIntentSignature(intent, pubKey) ==
    \/ I!Unsigned(intent.Signature)
    \/ LET d == DIDFromPublicKey(pubKey)
       IN  d # ErrKeySize /\ DIDVerify(d, intent.ID \o intent.Payload, intent.Signature)

\* VerifyResponseSignature: the same over RequestID + Reason.
VerifyResponseSignature(resp, pubKey) ==
    \/ I!Unsigned(resp.Signature)
    \/ LET d == DIDFromPublicKey(pubKey)
       IN  d # ErrKeySize /\ DIDVerify(d, resp.RequestID \o resp.Reason, resp.Signature)

-----------------------------------------------------------------------------

Signed == {m.Signature : m \in intents \cup responses} \cup challenges

\* A new signature is within the bound; signing the same bytes again
\* gives the same Ed25519 signature and changes nothing.
CanSign(sig) == sig \in Signed \/ Cardinality(Signed) < MaxSigned

UsedIDs == {m.ID : m \in intents}

Init ==
    /\ intents = {}
    /\ responses = {}
    /\ challenges = {}

\* An honest agent a calls CreateIntent; randomID never repeats.
SendIntent(a) ==
    \E caps \in SUBSET Caps, payload \in Payloads, id \in RandomIDs \ UsedIDs :
        LET m == CreateIntent(Agent(a), caps, payload, id)
        IN  /\ m # ErrSign
            /\ CanSign(m.Signature)
            /\ intents' = intents \cup {m}
            /\ UNCHANGED <<responses, challenges>>

\* The handler of agent b answers an intent the network delivers: one an
\* honest agent made, or any the attacker writes.
HandleIntent(b) ==
    \E id \in Strings(MaxLen) \cup UsedIDs, caps \in SUBSET Caps :
        LET r == DefaultNegotiationHandler(Agent(b),
                   [ID |-> id, Capabilities |-> caps, DID |-> String(NewDID(Attacker)),
                    Payload |-> <<>>, Signature |-> I!NoSig])
        IN  /\ CanSign(r.Signature)
            /\ responses' = responses \cup {r}
            /\ UNCHANGED <<intents, challenges>>

\* Agent b answers a handshake whose challenge the attacker chose.
RespondHandshake(b) ==
    \E chal \in Strings(MaxLen) :
        LET sig == SignChallenge(Agent(b), chal)
        IN  /\ SignsChallenges
            /\ CanSign(sig)
            /\ challenges' = challenges \cup {sig}
            /\ UNCHANGED <<intents, responses>>

Next ==
    \E a \in Agents : SendIntent(a) \/ HandleIntent(a) \/ RespondHandshake(a)

Spec == Init /\ [][Next]_vars

-----------------------------------------------------------------------------
(* What the attacker can present to a receiver that holds honest agent a's *)
(* key: every split of bytes an honest agent signed into the two fields,   *)
(* the messages honest agents made with one field rewritten, and messages  *)
(* it signs itself while naming a's DID.                                   *)

Split(s, k) == <<SubSeq(s.on, 1, k), SubSeq(s.on, k + 1, Len(s.on))>>

ForgedIntents(a) ==
    LET Msg(id, p, sig) == [ID |-> id, Capabilities |-> {}, DID |-> a,
                            Payload |-> p, Signature |-> sig]
    IN  UNION {{Msg(Split(s, k)[1], Split(s, k)[2], s) : k \in 0..Len(s.on)} : s \in Signed}
        \cup {Msg(m.ID, p, m.Signature) : m \in intents, p \in Payloads \cup {ReasonAll}}
        \cup {Msg(id, p, I!Sign(Attacker, id \o p)) : id \in RandomIDs, p \in Payloads}

ForgedResponses(a) ==
    LET Msg(id, why, sig) == [RequestID |-> id, Accepted |-> TRUE, DID |-> a,
                              Reason |-> why, Signature |-> sig]
    IN  UNION {{Msg(Split(s, k)[1], Split(s, k)[2], s) : k \in 0..Len(s.on)} : s \in Signed}
        \cup {Msg(r.RequestID, why, r.Signature) : r \in responses,
                                                   why \in {ReasonAll, ReasonMissing}}
        \cup {Msg(id, why, I!Sign(Attacker, id \o why)) :
                 id \in RandomIDs, why \in {ReasonAll, ReasonMissing}}

\* The bytes honest agent a signed.
SignedBy(a) ==
    {m.ID \o m.Payload : m \in {x \in intents : x.DID = a}}
    \cup {r.RequestID \o r.Reason : r \in {x \in responses : x.DID = a}}
    \cup {c.on : c \in {x \in challenges : x.by = a}}

TypeOK ==
    /\ intents \subseteq [ID : RandomIDs, Capabilities : SUBSET Caps, DID : Agents,
                          Payload : Payloads, Signature : [by : Agents, on : Seq(Hex)]]
    /\ \A r \in responses : r.DID \in Agents /\ r.Reason \in {ReasonAll, ReasonMissing}
    /\ \A c \in challenges : c.by \in Agents
    /\ Cardinality(Signed) <= MaxSigned

\* Signing is sound and complete (spec 6, 8): every intent CreateIntent made
\* and every response a default handler made verifies under its signer's
\* key and under no other key nor a malformed one, and whatever the network
\* forges, a signed intent or response that verifies under an honest
\* agent's key carries bytes that agent signed in CreateIntent, in its
\* handler or in RespondHandshake.
SignaturesSound ==
    /\ \A m \in intents, k \in Keys \cup {None} :
          VerifyIntentSignature(m, k) <=> k = m.DID
    /\ \A r \in responses, k \in Keys \cup {None} :
          VerifyResponseSignature(r, k) <=> k = r.DID
    /\ \A a \in Agents :
          /\ \A m \in ForgedIntents(a) :
                ~I!Unsigned(m.Signature) /\ VerifyIntentSignature(m, a)
                    => m.ID \o m.Payload \in SignedBy(a)
          /\ \A r \in ForgedResponses(a) :
                ~I!Unsigned(r.Signature) /\ VerifyResponseSignature(r, a)
                    => r.RequestID \o r.Reason \in SignedBy(a)

\* The fields, not only their concatenation, are authentic (spec 9: an
\* intent and a negotiation response are signed messages): a signed intent
\* with a randomID-length ID that verifies under honest agent a's key is an
\* intent a made with that ID and payload, and a signed response with such
\* a request id that verifies under a's key is one a's handler gave with
\* that reason.
SignedFieldsAuthentic ==
    \A a \in Agents :
       /\ \A m \in ForgedIntents(a) :
             ~I!Unsigned(m.Signature) /\ Len(m.ID) = IDLen /\ VerifyIntentSignature(m, a)
                 => \E x \in intents : x.DID = a /\ x.ID = m.ID /\ x.Payload = m.Payload
       /\ \A r \in ForgedResponses(a) :
             ~I!Unsigned(r.Signature) /\ Len(r.RequestID) = IDLen
             /\ VerifyResponseSignature(r, a)
                 => \E x \in responses : x.DID = a /\ x.RequestID = r.RequestID
                                                /\ x.Reason = r.Reason
=============================================================================
