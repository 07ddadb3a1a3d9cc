----------------------------- MODULE AgentHost -----------------------------
(***************************************************************************)
(* The libp2p host of p2p/host.go (src/unnamed/part_007): hosts that open  *)
(* one stream per exchange (Handshake, SendIntent, AnnounceCapabilities)   *)
(* and a stream handler that reads one framed message and dispatches it.  *)
(*                                                                         *)
(* Every agent is named by one model value that is at once its peer id,    *)
(* its agent id, its public key and (see Identity) its DID.  Hosts run     *)
(* this code; Byz peers run anything: they know every public key and       *)
(* every message on their own streams, and can sign only with their own    *)
(* key.  A stream is a record in the sequence streams; its opener's        *)
(* goroutine is at opc and its handler's goroutine at hpc.                 *)
(*                                                                         *)
(* TrustGraph has no lock, so each Apply is a read step and a write step   *)
(* (otmp, htmp hold the score read).  The intent's signature is not        *)
(* modelled: IntentMessage.Encode never writes it and no handler reads     *)
(* it; the ghost field origin records which peer built the intent.         *)
(***************************************************************************)
EXTENDS Integers, Sequences, SequencesExt, FiniteSets,
        Identity, Negotiation, TrustGraph

CONSTANTS
    Hosts,          \* peers running AgentHost
    Byz,            \* peers running other code
    AgentCaps,      \* [Hosts \cup Byz -> SUBSET Caps]: each agent's capabilities
    ReqSeqs,        \* required-capability lists an intent may carry
    ByzDeltas,      \* trust deltas a Byz responder may put on the wire
    ByzMaySkipSig,  \* whether a Byz responder may omit the challenge response
    MaxStreams      \* bound on the streams opened in a behaviour

Peers == Hosts \cup Byz

VARIABLES
    conn,       \* conn[p]: peers p has a libp2p connection to (Network().Peers())
    streams,    \* the streams opened so far, in order
    known,      \* known[h][p]: ah.known, the profile cached for peer p
    disc,       \* disc[h][a]: ah.discovery entries, keyed by agent id (TTL 0)
    trust       \* trust[h][d]: ah.trust, h's score for DID d

vars == <<conn, streams, known, disc, trust>>

(***************************************************************************)
(* Messages.  A profile is AgentProfile without embedding or key.          *)
(***************************************************************************)
NoMsg == [type |-> "none"]
NoProfile == [agent |-> "none", did |-> "none", caps |-> {}]
ProfileOf(m) == [agent |-> m.agent, did |-> m.did, caps |-> m.caps]

\* HandshakeMessage; the responder's own challenge is never answered by
\* anyone, so it is not modelled.
HsMsg(agent, did, caps, pk, chal, sig) ==
    [type |-> "hs", agent |-> agent, did |-> did, caps |-> caps,
     pk |-> pk, chal |-> chal, sig |-> sig]

IntentMsg(id, req, did, origin) ==
    [type |-> "intent", id |-> id, req |-> req, did |-> did, origin |-> origin]

\* BuildAnnouncement(agent, 300).
AnnMsg(h) ==
    [type |-> "cap", agent |-> h, did |-> h, caps |-> AgentCaps[h], ttl |-> 300]

NewStream(from, to, msg, opc) ==
    [from |-> from, to |-> to, req |-> msg, resp |-> NoMsg,
     opc |-> opc, hpc |-> "new", otmp |-> 0, htmp |-> 0]

\* ah.h.NewStream + writeMsg: the request is on the stream once opened.
Open(from, to, msg, opc) ==
    /\ Len(streams) < MaxStreams
    /\ streams' = Append(streams, NewStream(from, to, msg, opc))

\* The next stream's index; it also serves as the fresh 32-byte challenge
\* and the fresh 128-bit intent id.
Fresh == Len(streams) + 1

SetStream(i, s) == streams' = [streams EXCEPT ![i] = s]

\* DiscoveryRegistry.Announce(profile, 0): keyed by the claimed agent id,
\* replacing any entry; TTL 0 sets no expiry.
Announce(h, prof) == disc' = [disc EXCEPT ![h][prof.agent] = prof]

\* ah.known[p] = profile, under ah.mu.
Cache(h, p, prof) == known' = [known EXCEPT ![h][p] = prof]

\* Mutant: the cached profile is never announced to discovery.
AnnounceKnownSkip(h, p) == UNCHANGED disc

\* After ah.mu.Unlock(): Announce(ah.known[p], 0).  The map is read again
\* without the lock, so this is whatever profile is cached for p now,
\* which another goroutine may have replaced since this one cached its own.
AnnounceKnown(h, p) == Announce(h, known[h][p])

\* StartHandshake(agent): the initiator's message with challenge chal.
StartHandshake(h, chal) == HsMsg(h, h, AgentCaps[h], h, chal, NoSig)

\* RespondHandshake(responder, incoming) once the binding is valid: the
\* responder's message signing the initiator's challenge.
RespondHandshake(h, incoming) ==
    HsMsg(h, h, AgentCaps[h], h, 0, Sign(h, incoming.chal))

\* FinishHandshake(chal, response) = nil: the binding holds and the
\* response signs chal with the embedded key.
FinishHandshake(chal, r) ==
    ValidateBinding(r.did, r.pk) /\ Verify(r.pk, chal, r.sig)

Init ==
    /\ conn = [p \in Peers |-> {}]
    /\ streams = <<>>
    /\ known = [h \in Hosts |-> [p \in Peers |-> NoProfile]]
    /\ disc = [h \in Hosts |-> [a \in Peers |-> NoProfile]]
    /\ trust = [h \in Hosts |-> [d \in Peers |-> 0]]

(***************************************************************************)
(* Operations of an honest host h.                                         *)
(***************************************************************************)

\* Connect: a libp2p connection is seen by both ends.
Connect(h, p) ==
    /\ p \notin conn[h]
    /\ conn' = [conn EXCEPT ![h] = @ \cup {p}, ![p] = @ \cup {h}]
    /\ UNCHANGED <<streams, known, disc, trust>>

\* Handshake: open a stream, write StartHandshake's message.
Handshake(h, p) ==
    /\ p \in conn[h]
    /\ Open(h, p, StartHandshake(h, Fresh), "await")
    /\ UNCHANGED <<conn, known, disc, trust>>

\* Handshake, after readMsg: a handshake reply whose challenge response is
\* empty skips FinishHandshake; otherwise FinishHandshake must pass.  The
\* peer's profile is cached under ah.mu.
HandshakeFinished(i) ==
    LET s == streams[i]  r == s.resp IN
    /\ s.from \in Hosts /\ s.req.type = "hs" /\ s.opc = "await"
    /\ r.type = "hs"
    /\ r.sig # NoSig => FinishHandshake(s.req.chal, r)
    /\ SetStream(i, [s EXCEPT !.opc = "announce"])
    /\ Cache(s.from, s.to, ProfileOf(r))
    /\ UNCHANGED <<conn, disc, trust>>

\* Handshake, after ah.mu.Unlock(): the announcement with TTL 0; Handshake
\* then returns the peer's message.
HandshakeAnnounced(i) ==
    LET s == streams[i] IN
    /\ s.opc = "announce"
    /\ SetStream(i, [s EXCEPT !.opc = "done"])
    /\ AnnounceKnown(s.from, s.to)
    /\ UNCHANGED <<conn, known, trust>>

\* Handshake returns an error: a reply of another type, or a challenge
\* response FinishHandshake rejects.
HandshakeFailed(i) ==
    LET s == streams[i]  r == s.resp IN
    /\ s.from \in Hosts /\ s.req.type = "hs" /\ s.opc = "await"
    /\ r # NoMsg
    /\ \/ r.type # "hs"
       \/ /\ r.type = "hs"
          /\ r.sig # NoSig
          /\ ~FinishHandshake(s.req.chal, r)
    /\ SetStream(i, [s EXCEPT !.opc = "failed"])
    /\ UNCHANGED <<conn, known, disc, trust>>

\* SendIntent with CreateIntent(h, _, req, _).
SendIntent(h, p, req) ==
    /\ p \in conn[h]
    /\ Open(h, p, IntentMsg(Fresh, req, h, h), "await")
    /\ UNCHANGED <<conn, known, disc, trust>>

\* SendIntent, after readMsg and decode: read the score to update.
NegotiationReceived(i) ==
    LET s == streams[i] IN
    /\ s.from \in Hosts /\ s.req.type = "intent" /\ s.opc = "await"
    /\ s.resp.type = "neg"
    /\ SetStream(i, [s EXCEPT !.opc = "apply", !.otmp = trust[s.from][s.resp.did]])
    /\ UNCHANGED <<conn, known, disc, trust>>

\* SendIntent: a reply that is not a negotiation response is an error.
NegotiationWrongType(i) ==
    LET s == streams[i] IN
    /\ s.from \in Hosts /\ s.req.type = "intent" /\ s.opc = "await"
    /\ s.resp # NoMsg /\ s.resp.type # "neg"
    /\ SetStream(i, [s EXCEPT !.opc = "failed"])
    /\ UNCHANGED <<conn, known, disc, trust>>

\* SendIntent: ah.trust.Apply(local DID, resp.DID, resp.TrustDelta), write.
RequesterApplyTrust(i) ==
    LET s == streams[i] IN
    /\ s.opc = "apply"
    /\ trust' = [trust EXCEPT ![s.from][s.resp.did] =
                                  clamp(AddScore(s.otmp, s.resp.delta))]
    /\ SetStream(i, [s EXCEPT !.opc = "done"])
    /\ UNCHANGED <<conn, known, disc>>

\* readMsg fails: the handler closed the stream without writing.
StreamClosed(i) ==
    LET s == streams[i] IN
    /\ s.from \in Hosts /\ s.opc = "await"
    /\ s.hpc = "closed" /\ s.resp = NoMsg
    /\ SetStream(i, [s EXCEPT !.opc = "failed"])
    /\ UNCHANGED <<conn, known, disc, trust>>

\* AnnounceCapabilities: one goroutine per connected peer; those in ok
\* open their stream and write the announcement, the others fail NewStream.
AnnounceCapabilities(h, ok) ==
    /\ ok # {} /\ ok \subseteq conn[h]
    /\ Len(streams) + Cardinality(ok) <= MaxStreams
    /\ LET order == SetToSeq(ok) IN
       streams' = streams \o [k \in 1..Len(order) |->
                                 NewStream(h, order[k], AnnMsg(h), "done")]
    /\ UNCHANGED <<conn, known, disc, trust>>

(***************************************************************************)
(* handleStream of an honest host: one message, dispatched on its type.    *)
(***************************************************************************)

\* handleIncomingHandshake, RespondHandshake rejects the DID/key binding:
\* nothing is written and the stream is closed.
HandshakeBindingRejected(i) ==
    LET s == streams[i] IN
    /\ s.to \in Hosts /\ s.hpc = "new" /\ s.req.type = "hs"
    /\ ~ValidateBinding(s.req.did, s.req.pk)
    /\ SetStream(i, [s EXCEPT !.hpc = "closed"])
    /\ UNCHANGED <<conn, known, disc, trust>>

\* handleIncomingHandshake: RespondHandshake signs the peer's challenge
\* and the reply is written; the initiator can read it from here on.
HandshakeResponded(i) ==
    LET s == streams[i]  h == s.to IN
    /\ h \in Hosts /\ s.hpc = "new" /\ s.req.type = "hs"
    /\ ValidateBinding(s.req.did, s.req.pk)
    /\ SetStream(i, [s EXCEPT !.hpc = "cache",
                              !.resp = RespondHandshake(h, s.req)])
    /\ UNCHANGED <<conn, known, disc, trust>>

\* handleIncomingHandshake, after writeMsg: the initiator's profile is
\* cached under ah.mu.
HandshakeCached(i) ==
    LET s == streams[i] IN
    /\ s.hpc = "cache"
    /\ SetStream(i, [s EXCEPT !.hpc = "announce"])
    /\ Cache(s.to, s.from, ProfileOf(s.req))
    /\ UNCHANGED <<conn, disc, trust>>

\* handleIncomingHandshake, after ah.mu.Unlock(): the announcement with
\* TTL 0; the handler returns and the stream is closed.
HandshakeCacheAnnounced(i) ==
    LET s == streams[i] IN
    /\ s.hpc = "announce"
    /\ SetStream(i, [s EXCEPT !.hpc = "done"])
    /\ AnnounceKnown(s.to, s.from)
    /\ UNCHANGED <<conn, known, trust>>

\* Mutant: intents are dispatched only from peers already handshaken with;
\* others are left unread on an open stream.
IntentHandledKnownOnly(i) ==
    LET s == streams[i]  h == s.to IN
    /\ h \in Hosts /\ s.hpc = "new" /\ s.req.type = "intent"
    /\ \E p \in Peers : known[h][p].did = s.req.did
    /\ SetStream(i, [s EXCEPT !.hpc = "apply",
                              !.resp = DefaultNegotiationHandler(h, AgentCaps[h], s.req),
                              !.htmp = trust[h][s.req.did]])
    /\ UNCHANGED <<conn, known, disc, trust>>

\* handleIncomingIntent: the default handler's response is written, then
\* the score of local -> intent.DID is read for Apply.
IntentHandled(i) ==
    LET s == streams[i]  h == s.to IN
    /\ h \in Hosts /\ s.hpc = "new" /\ s.req.type = "intent"
    /\ SetStream(i, [s EXCEPT !.hpc = "apply",
                              !.resp = DefaultNegotiationHandler(h, AgentCaps[h], s.req),
                              !.htmp = trust[h][s.req.did]])
    /\ UNCHANGED <<conn, known, disc, trust>>

\* handleIncomingIntent: ah.trust.Apply(local DID, intent.DID, resp delta).
HandlerApplyTrust(i) ==
    LET s == streams[i] IN
    /\ s.hpc = "apply"
    /\ trust' = [trust EXCEPT ![s.to][s.req.did] =
                                  clamp(AddScore(s.htmp, s.resp.delta))]
    /\ SetStream(i, [s EXCEPT !.hpc = "done"])
    /\ UNCHANGED <<conn, known, disc>>

\* handleIncomingCapability: the announcement is not decoded (a TODO).
CapabilityHandled(i) ==
    LET s == streams[i] IN
    /\ s.to \in Hosts /\ s.hpc = "new" /\ s.req.type = "cap"
    /\ SetStream(i, [s EXCEPT !.hpc = "done"])
    /\ UNCHANGED <<conn, known, disc, trust>>

(***************************************************************************)
(* Byz peers.                                                              *)
(***************************************************************************)

\* Challenges a Byz peer has seen on streams opened to it.
SeenChallenges(b) ==
    {streams[i].req.chal : i \in {j \in DOMAIN streams :
        streams[j].to = b /\ streams[j].req.type = "hs"}}

\* Challenge responses a Byz peer has received on its own streams.
SeenSigs(b) ==
    {streams[i].resp.sig : i \in {j \in DOMAIN streams :
        streams[j].from = b /\ streams[j].resp.type = "hs"}}

\* A handshake claiming to be agent c, with c's public key or b's own.
ByzHandshake(b, h, c, pk, chal) ==
    /\ h \in conn[b]
    /\ Open(b, h, HsMsg(c, c, AgentCaps[c], pk, chal, NoSig), "byz")
    /\ UNCHANGED <<conn, known, disc, trust>>

ByzIntent(b, h, c, req) ==
    /\ h \in conn[b]
    /\ Open(b, h, IntentMsg(Fresh, req, c, b), "byz")
    /\ UNCHANGED <<conn, known, disc, trust>>

\* Replies a Byz peer can write on stream s opened to b.
ByzReplies(b, s) ==
    LET sigs == (IF ByzMaySkipSig THEN {NoSig} ELSE {})
                \cup SeenSigs(b)
                \cup (IF s.req.type = "hs" THEN {Sign(b, s.req.chal)} ELSE {})
        reqId == IF s.req.type = "intent" THEN s.req.id ELSE 0
    IN  {HsMsg(c, c, AgentCaps[c], c, 0, sig) : c \in Peers, sig \in sigs}
        \cup
        {[type |-> "neg", reqId |-> reqId, agent |-> c, accepted |-> acc,
          steps |-> <<>>, did |-> c, reason |-> <<>>, delta |-> d] :
            c \in Peers, acc \in BOOLEAN, d \in ByzDeltas}

ByzRespond(i, m) ==
    /\ streams[i].to \in Byz /\ streams[i].hpc = "new" /\ streams[i].opc = "await"
    /\ SetStream(i, [streams[i] EXCEPT !.hpc = "done", !.resp = m])
    /\ UNCHANGED <<conn, known, disc, trust>>

ByzClose(i) ==
    /\ streams[i].to \in Byz /\ streams[i].hpc = "new" /\ streams[i].opc = "await"
    /\ SetStream(i, [streams[i] EXCEPT !.hpc = "closed"])
    /\ UNCHANGED <<conn, known, disc, trust>>

(***************************************************************************)
(* The specification.                                                      *)
(***************************************************************************)

\* The steps an honest goroutine takes on stream i.
HonestStep(i) ==
    \/ HandshakeFinished(i) \/ HandshakeAnnounced(i) \/ HandshakeFailed(i)
    \/ NegotiationReceived(i) \/ NegotiationWrongType(i)
    \/ RequesterApplyTrust(i) \/ StreamClosed(i)
    \/ HandshakeBindingRejected(i) \/ HandshakeResponded(i)
    \/ HandshakeCached(i) \/ HandshakeCacheAnnounced(i)
    \/ IntentHandled(i) \/ HandlerApplyTrust(i) \/ CapabilityHandled(i)

ByzStep ==
    \E b \in Byz :
        \/ \E h \in Hosts, c \in Peers, chal \in {Fresh} \cup SeenChallenges(b) :
              \E pk \in {c, b} : ByzHandshake(b, h, c, pk, chal)
        \/ \E h \in Hosts, c \in Peers, req \in ReqSeqs : ByzIntent(b, h, c, req)
        \/ \E i \in DOMAIN streams :
              /\ streams[i].to = b
              /\ \/ \E m \in ByzReplies(b, streams[i]) : ByzRespond(i, m)
                 \/ ByzClose(i)

\* The stream bound is reached: no new exchange is opened.  Goroutines still
\* running finish under Fairness; one that never can is a liveness
\* violation, not a deadlock.
Idle ==
    /\ Len(streams) = MaxStreams
    /\ UNCHANGED vars

Next ==
    \/ \E h \in Hosts :
          \/ \E p \in Peers \ {h} : Connect(h, p) \/ Handshake(h, p)
          \/ \E p \in Peers \ {h}, req \in ReqSeqs : SendIntent(h, p, req)
          \/ \E ok \in SUBSET conn[h] : AnnounceCapabilities(h, ok)
    \/ \E b \in Byz, h \in Hosts : Connect(b, h)
    \/ \E i \in DOMAIN streams : HonestStep(i)
    \/ ByzStep
    \/ Idle

\* Every goroutine of an honest host that can take a step eventually does:
\* none blocks on anything but its stream.  Byz peers get no fairness.
Fairness == \A i \in 1..MaxStreams : WF_vars(i \in DOMAIN streams /\ HonestStep(i))

Spec == Init /\ [][Next]_vars /\ Fairness


(***************************************************************************)
(* Properties.                                                             *)
(***************************************************************************)

Caps == UNION {AgentCaps[p] : p \in Peers}
Phases == {"await", "announce", "apply", "done", "failed", "byz"}

TypeOK ==
    /\ conn \in [Peers -> SUBSET Peers]
    /\ Len(streams) <= MaxStreams
    /\ \A i \in DOMAIN streams :
          /\ streams[i].from \in Peers /\ streams[i].to \in Peers
          /\ streams[i].req.type \in {"hs", "intent", "cap"}
          /\ streams[i].opc \in Phases
          /\ streams[i].hpc \in {"new", "cache", "announce", "apply", "done", "closed"}
    /\ known \in [Hosts -> [Peers -> {NoProfile} \cup
                    [agent : Peers, did : Peers, caps : SUBSET Caps]]]
    /\ disc \in [Hosts -> [Peers -> {NoProfile} \cup
                    [agent : Peers, did : Peers, caps : SUBSET Caps]]]
    /\ trust \in [Hosts -> [Peers -> (0..MaxTrust) \cup {NaN}]]

\* The streams opened by one host to another host.
HostToHost(i) ==
    i \in DOMAIN streams /\ streams[i].from \in Hosts /\ streams[i].to \in Hosts

\* The default negotiation policy, as the requester sees it (spec.md 4.5,
\* scenarios 2 and 3): every response from a host that an honest
\* SendIntent acts on answers this intent, accepts exactly when every
\* required tag is among the responder's capabilities, then lists
\* parse_intent, one execute per required tag in order, and return_result,
\* and carries +0.05 on accept and -0.02 on reject.
NegotiationSound ==
    \A i \in DOMAIN streams :
        LET s == streams[i]  r == s.resp  n == Len(s.req.req) IN
        (HostToHost(i) /\ s.req.type = "intent" /\ s.opc \in {"apply", "done"})
        => /\ r.reqId = s.req.id
           /\ r.accepted = (ToSet(s.req.req) \subseteq AgentCaps[s.to])
           /\ r.accepted =>
                 /\ Len(r.steps) = n + 2
                 /\ r.steps[1] = [op |-> "parse_intent", arg |-> s.req.id]
                 /\ r.steps[n + 2] = [op |-> "return_result", arg |-> s.req.id]
                 /\ \A k \in 1..n : r.steps[k + 1] = [op |-> "execute", arg |-> s.req.req[k]]
           /\ ~r.accepted => r.steps = <<>>
           /\ r.delta = IF r.accepted THEN 5 ELSE -2

\* Every score in every host's ledger stays in [0, 1], whatever deltas the
\* responders put on the wire (spec.md 8: "Trust scores are always in
\* [0,1] after any sequence of Apply calls").
TrustInRange ==
    \A h \in Hosts, d \in Peers : trust[h][d] \in 0..MaxTrust

\* The ledger's updates are those of the serialised ledger of spec.md 5:
\* every write of TrustGraph.Apply, by a handler or by SendIntent, is one
\* atomic Apply of a delta on the wire.
Ledger == INSTANCE TrustLedger WITH
              Owners <- Hosts, Subjects <- Peers,
              Deltas <- {AcceptDelta, RejectDelta} \cup ByzDeltas
TrustSerialised == Ledger!Spec

\* Handshake completion makes both sides list each other (spec.md 4.4):
\* once a host's Handshake to another host returns, the responder
\* eventually has the initiator in its discovery registry.
HandshakeMutualDiscovery ==
    \A i \in 1..MaxStreams :
        (HostToHost(i) /\ streams[i].req.type = "hs" /\ streams[i].opc = "done")
        ~> (HostToHost(i) /\ disc[streams[i].to][streams[i].from] # NoProfile)

\* Every exchange between two hosts ends: the opener's call returns and the
\* handler's goroutine exits.
HostExchangesEnd ==
    \A i \in 1..MaxStreams :
        (HostToHost(i) /\ streams[i].opc = "await")
        ~> (/\ i \in DOMAIN streams
            /\ streams[i].opc \in {"done", "failed"}
            /\ streams[i].hpc \in {"done", "closed"})

\* A completed Handshake authenticates the responder (spec.md 4.4, and the
\* "DID spoofing" row of the design record): the DID a host caches for the
\* peer it handshook with is the DID whose key that peer holds.
InitiatorAuthenticates ==
    \A i \in DOMAIN streams :
        LET s == streams[i] IN
        (s.from \in Hosts /\ s.req.type = "hs" /\ s.opc = "done")
        => s.resp.did = s.to

\* A handled handshake authenticates the initiator: the DID a host caches
\* for a peer that handshook with it is the DID whose key that peer holds.
ResponderAuthenticates ==
    \A i \in DOMAIN streams :
        LET s == streams[i] IN
        (s.to \in Hosts /\ s.req.type = "hs" /\ s.hpc = "done")
        => s.req.did = s.from

\* A host never handles an intent that claims the DID of an agent it has
\* handshaken with unless that agent built it (TestSendIntentTampered-
\* SignatureRejected; spec.md 8, scenario 4).
IntentAuthenticated ==
    \A i \in DOMAIN streams :
        LET s == streams[i]  h == s.to IN
        (/\ h \in Hosts /\ s.req.type = "intent" /\ s.hpc # "new"
         /\ \E p \in Peers : known[h][p].did = s.req.did)
        => s.req.origin = s.req.did

\* A handshake announces to discovery the profile it cached itself: the
\* initiator the responder's message, the responder the initiator's
\* (AgentHost.Handshake and handleIncomingHandshake: "Cache the peer's
\* profile", then Announce(ah.known[peer], 0)).
AnnouncesCachedProfile ==
    [][\A i \in DOMAIN streams :
          LET s == streams[i]  AnnouncedBy(h, prof) ==
                  disc'[h] = [disc[h] EXCEPT ![prof.agent] = prof]
          IN  /\ (s.opc = "announce" /\ streams'[i].opc = "done")
                    => AnnouncedBy(s.from, ProfileOf(s.resp))
              /\ (s.hpc = "announce" /\ streams'[i].hpc = "done")
                    => AnnouncedBy(s.to, ProfileOf(s.req))]_vars
=============================================================================
