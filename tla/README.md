# TLA+ models of the Agent Semantic Protocol (Symplex)

These modules model the Go implementation under `src/`: the identity and
trust primitives of `core/did.go`, the handshake and discovery registry of
`core/handshake.go`, the negotiation policy and in-process bus of
`core/negotiation.go`, the wire codec of `core/encoding.go`, the Picoclaw
bridge of `picoclaw/client.go`, and the libp2p host of `p2p/host.go`
(`src/unnamed/part_007`) that ties them together. They are checked with
TLC.

## The system

### Parts and how they interact

| Part | Source | State | Operations |
|---|---|---|---|
| Identity | `core/did.go` | a DID `did:symplex:hex(sha256(pk))` and an Ed25519 key pair | NewDID, ParseDID, Sign, Verify, ValidateBinding |
| Trust graph | `core/did.go` | `scores[from->to]` as float32, with **no lock** | Set, Get, Apply (read, add, clamp, write) |
| Handshake | `core/handshake.go` | none | StartHandshake, RespondHandshake, FinishHandshake |
| Discovery registry | `core/handshake.go` | `entries[agentID] = (profile, expiresAt)` under an RWMutex | Announce, Remove, Find*, All, Evict, eviction loop |
| Negotiation | `core/negotiation.go` | none (the bus has a handler map) | DefaultNegotiationHandler, CreateIntent, RankCandidates, NegotiationBus |
| Codec and framing | `core/encoding.go` | none | Encode/Decode of each message, Frame/Unframe |
| Picoclaw bridge | `picoclaw/client.go` | an `http.Client` with a Timeout, an agent id | NewClient and options, SendIntent, FetchCapabilities, AsNegotiationHandler |
| P2P host | `src/unnamed/part_007` | libp2p host, `known[peer]` under `mu`, one registry, one trust graph | see below |
| Orchestrator | `src/unnamed/part_008` | none | RunWorkflow, executeStep, resolvePeerID |

The host's operations:

- `Connect`.
- `Handshake`: open a stream, write StartHandshake, read the reply, run FinishHandshake only if the reply carries a challenge response, then cache the peer in `known` and announce it with TTL 0.
- `SendIntent`: open a stream, write the intent, read the reply, then `trust.Apply(self, resp.DID, resp.TrustDelta)`.
- `AnnounceCapabilities`: one goroutine per connected peer, each writing a CapabilityAnnouncement.
- `handleStream`: runs for each incoming stream. It reads one frame and dispatches on its type:
  - handshake: RespondHandshake, write, then cache and announce;
  - intent: DefaultNegotiationHandler, write, then `trust.Apply(self, intent.DID, delta)`;
  - capability: a TODO that does nothing.

Every outbound call and every handler runs in its own goroutine. The
trust graph is shared by the requester's `SendIntent` and every intent
handler, and it has no lock.

### Hard behaviours

- Interleaving of many streams between the same hosts, both directions at once.
- Unlocked Apply on the shared trust graph.
- Peers that do not run this code. A Byz peer can:
  - send any DID and key;
  - relay challenges and signed replies between hosts;
  - leave out the challenge response;
  - answer with any trust_delta, NaN included;
  - never answer.
- Outbound reads with no deadline.
- The order of write and cache in the handshake handler.

`PROJECT.json` lists every hazard at its source line, with the properties
that cover it.

## Modules

| Module | Models | Contents |
|---|---|---|
| `Identity` | `core/did.go` DID | Symbolic crypto: a peer's DID, public key, peer id and agent id are one model value. `Sign(owner, data)` is the record `[by, on]`, so only the owner can make it and anyone can copy it. `ValidateBinding(did, pk)` is `pk = did` (sha256 is injective). `Unsigned(sig)` is `len(sig) == 0`. |
| `Signing` | `core/did.go` DID values; `NewAgent`, `Agent.Sign` of `core/types.go`; `CreateIntent`, the handler's signing, `randomID`, `VerifyIntentSignature`, `VerifyResponseSignature` of `core/negotiation.go`; the challenge signature of `RespondHandshake` | A DID is a record with optional key slots (spec 9): `NewDID` fills both, `DIDFromPublicKey` only the public one, and `Sign` fails with `ErrNoPrivateKey` without the private one. Signed data are character strings, so `ID + Payload` is a real concatenation. See below. |
| `MCSigning` | — | Two agents, one-character randomIDs over {0, 1}, attacker strings of up to two characters. |
| `Logger` | `Logger` of `core/logging.go` | `NewLogger`, `LogMessage` in two steps (stamp, then `WriteString`) and `Close`. A line is `[ts, id, whole]`; the message id stands for the formatted fields, and `whole` is false for a line a failed write cut short. No property. |
| `MCComponents` | — | The registry, the orchestrator, framing, signing, the bus, ranking, the logger and DID syntax in one run. Ranking and DID syntax are pure: their inputs are chosen in the initial state of their own mode. The mode, chosen in the initial state, picks which part moves; each keeps its own fairness. Ranking is a mode apart from the bus, because its 864 inputs would multiply the bus's states. |
| `TrustGraph` | `clamp`, the float32 sum of `Apply` | Scores in hundredths (`MaxTrust` = 1.0). The model value `NaN` stands for float32 NaN: a sum with NaN is NaN and `clamp` returns it unchanged, because both Go comparisons are false. |
| `TrustLedger` | the ledger spec.md 4.2/5 promises | Abstract spec. `Apply` is one atomic read-add-clamp-write; a `trust` function per owner and subject. |
| `Negotiation` | `DefaultNegotiationHandler`, `missingCapabilities`, `buildWorkflow`, `trustDelta` | Pure operators. The reason string becomes the list of missing tags. A step `"op:arg"` becomes `[op, arg]`. |
| `DIDSyntax` | `ParseDID`, `DID.String` of `core/did.go` | A string is a sequence of characters. `SscanfOK` is the `Sscanf("did:%s")` prefix check; `SplitAtColon` is the loop that splits at the first colon. `DIDsOf` is the reference: the DIDs whose string form is `s`. |
| `AgentHost` | `p2p/host.go`, with the handshake and discovery calls it makes | The system model. See below. |
| `MCAgentHost` | — | Model values and constants for TLC. |
| `Discovery` | `DiscoveryRegistry` of `core/handshake.go` | The registry with a clock `now`, entries with an absolute expiry, and the eviction goroutine. `time.Duration` is a signed `DurationBits`-bit integer, so `ttl * time.Second` wraps as the Go product does. A ghost `deadline` keeps the expiry the TTL asks for. |
| `MCDiscovery` | — | Two agents, two capability tags, and a profile that claims another agent's DID. |
| `Ranking` | `CosineSimilarity`, `RankCandidates` of `core/negotiation.go` | Pure operators. Vectors have integer components. A score is the pair `[dot, nn]` standing for `dot / sqrt(nn)`, compared exactly. `RankOutcomes` is every order sorted by score that `sort.Slice` may return. |
| `MCRanking` | — | One initial state per input: an intent vector and three candidates. Instanced by `MCNegotiation`. |
| `Bus` | `NegotiationBus` of `core/negotiation.go`; the Picoclaw bridge of `picoclaw/client.go` | A registrar and callers. `Negotiate` is the lookup under RLock, then the handler call after RUnlock. The bridge's HTTP call ends in a transport error, the client Timeout, a non-2xx status, an undecodable body or a 2xx body, or never. |
| `MCNegotiation` | — | `Bus` with agent `a1` on the default handler and `a2` on the bridge, one caller, composed with `MCRanking`'s inputs. The default handler's response is signed by its agent; the bridge's is not. |
| `Orchestrator` | `WorkflowOrchestrator` of `src/unnamed/part_008` | RunWorkflow on one host, composed with `Discovery` (as the host's registry, clock at 0), `Negotiation` and `TrustGraph`. |
| `MCOrchestrator` | — | Peers `p1` (offering `c1`) and `p2` (offering `c1`, `c2`), and steps needing `c1` and `c2`. |
| `Codec` | the enc helpers, every `Encode`, every `Decode*`, `decodePackedF32`, `decodeStrMapEntry` and `Decode` of `core/encoding.go` | Pure operators over byte sequences. protowire's Append/Consume functions, which the codec calls, are written from their behaviour (varints, tags, lengths, groups) and are not mapped. |
| `Framing` | `Frame`, `Unframe` of `core/encoding.go`; `writeMsg`, `readMsg` of `p2p/host.go` | One stream, as a sequence of bytes. The writer is `writeMsg` of an encoded message, a writer that follows spec 4.3 and adds field 10, or a peer writing arbitrary bytes. The reader is `readMsg`, whose `io.ReadFull` calls block until the bytes arrive or the stream closes. |
| `MCFraming` | — | One message of each kind, chosen so that every enc helper writes something. readMsg's 4 MiB bound scaled to the largest frame they make. |

### AgentHost: state and actions

Its variables:

- `conn[p]`: the peers `Network().Peers()` lists for p.
- `known[h][p]`: `ah.known`.
- `disc[h][agent]`: the host's `DiscoveryRegistry`. Every entry the host makes has TTL 0, so expiry does not arise.
- `trust[h][d]`: `ah.trust`.
- `streams`: every stream opened so far, in order. Each stream records:
  - `from` and `to`;
  - the request written by the opener and the response written by the handler;
  - the opener's goroutine position `opc` and the handler's `hpc`;
  - the scores `otmp` and `htmp` read by the unlocked `Apply`, which is split into a read step and a write step.

Actions of an honest host:

- **Opener side:**
  - `Connect`.
  - `Handshake`: NewStream plus writeMsg.
  - `HandshakeFinished` or `HandshakeFailed`: the reply is read, with the `len(ChallengeResponse) > 0` branch; on success the profile is cached under `ah.mu`.
  - `HandshakeAnnounced`: the Announce after the unlock, which rereads `ah.known[p]`.
  - `SendIntent`.
  - `NegotiationReceived` (read of the score) or `NegotiationWrongType`.
  - `RequesterApplyTrust` (write).
  - `StreamClosed`: readMsg fails.
  - `AnnounceCapabilities(h, ok)`: the connected peers whose NewStream succeeds.
- **Handler side** (`handleStream`):
  - `HandshakeBindingRejected`.
  - `HandshakeResponded`: the write.
  - `HandshakeCached`: the cache under `ah.mu`, after the write.
  - `HandshakeCacheAnnounced`: the Announce after `ah.mu.Unlock()`, which reads `ah.known[p]` again.
  - `IntentHandled`: the write, then the read of the score.
  - `HandlerApplyTrust`: the score write.
  - `CapabilityHandled`.

Byz peers open handshakes and intents and answer or close streams opened
to them, with any message they can build. They can forge nothing
(`ByzHandshake`, `ByzIntent`, `ByzRespond`, `ByzClose`).

`Idle` is the only step left once `MaxStreams` streams exist. Goroutines
still running must finish under fairness, so a stuck goroutine shows up as
a liveness violation.

Two signatures are left out of the model, because `Encode` never writes
them:

- the intent's signature;
- the negotiation response's signature.

The ghost field `origin` records who built each intent.

### Logger, Discovery, Orchestrator, Framing and Signing: state and actions

**`Logger`** has the variables `logFile` (`"nil"` before `NewLogger`, `"open"`, `"closed"`, `"failed"`), `lines` (the file), `clock`, and per goroutine `lpc`, `lstamp` and `lret`. `LogMessageStamp` is `time.Now().Format` and the `Sprintf`; `LogMessageWrite` is the `WriteString`, which `os.File` serialises against other writes. It appends the whole line, or fails on a full disk having written nothing or part of the line (`whole` false), or fails on a closed file. `Close` may be called again. `Tick` advances the clock to `MaxClock`. No property is checked: nothing in `src` calls the Logger, and neither the spec nor the code promises an order or completeness of lines. The rest of `logging.go` (lines 37 on) is the package's tests.

**`Discovery`** has the variables `entries[agent]`, `now`, `loop` and the
ghost `deadline`. Each registry method holds `r.mu` for its whole body, so
each is one atomic action:

- `Announce(p, ttl)`, `AnnounceFromMessage(msg)`, `Remove(a)`, `Evict`;
- the eviction goroutine: `StartEvictionLoop`, `LoopTick` (a ticker fire
  runs `Evict`), `CloseDone`, `LoopReturn`;
- `Tick`: time passes, up to `MaxTime`.

The reads `FindByCapability`, `FindByDIDChoices` and `AllLive` are
operators. `FindByDID` returns the first match in map order, so the model
keeps every match it may return.

**`Orchestrator`** has the variables of one host (`known`, the registry
`disc`/`ddl`, `trust`) and of one RunWorkflow call:

- `wf`: idle, running (in `wg.Wait`) or returned;
- per step `i`: the goroutine's position `pc[i]`, the ranked best candidate
  `best[i]`, the resolved peer `target[i]`, the reply `resp[i]`, the score
  `otmp[i]` read by the unlocked `Apply`, and `results[i]`;
- `firstErr`.

Its actions are the following:

- `PeerCached(p)`: a handshake (in either direction) stores `known[p]`,
  then announces `p` with TTL 0.
- `RunWorkflow`: one goroutine per step.
- `FindCandidates(i)` and `ResolvePeer(i)`. Each either moves on or ends
  the step with `StepFailed`, which records the error under `mu`.
- `TargetReplies(i)`: the peer's default handler answers. A `Silent` peer
  never does.
- `ReplyReceived(i)` and `StepSucceeded(i)`: the read and the write of the
  trust update, then the step's result.
- `WorkflowReturned`: once every goroutine is done.

**`Framing`** has the variables `wire` (the bytes written), `eof`, the
ghost `sent` (type, payload and the message record), and readMsg's `rpc`,
`n` and `out`. Its actions are `WriteMsg` (one of the payloads `Encode`
may produce), `WriteSignedMsg`, `WriteByte`, `CloseStream`, `ReadHeader`,
`ReadBody` and `ReadEOF`.

**`Codec`** has no state. A message is a record with the Go field names.
Strings and byte slices are byte sequences, a float32 is its 4
little-endian bytes, and a map is a function. Each `Encode` is the list of
its enc calls (`IntentFields`, ...). `EncFields` returns a set, because
`strMap` follows Go's map order. Each `Decode*` is its switch as a table
of cases (`IntentCases`, ...) run by one loop, `DecodeLoop`. That loop is
ConsumeTag, then the case for the field number (`DecodeField`, which
consumes by the case's kind and ignores the tag's wire type), or
`ConsumeFieldValue` for a number the decoder does not know.

**`Signing`** has the variables `intents` (what honest agents made with
`CreateIntent`), `responses` (what their default handlers made) and
`challenges` (the signatures `RespondHandshake` made). Its actions are
`SendIntent(a)`, with a fresh randomID, `HandleIntent(b)`, on an intent the
network delivers (an honest one, or any ID the attacker writes), and
`RespondHandshake(b)` on a challenge the attacker chooses. The attacker
is not a state machine. What it can show a receiver that holds agent `a`'s
key is a set, computed from the signatures seen: every split of signed
bytes into the two fields, an honest message with one field rewritten, and
messages it signs itself while naming `a`'s DID (`ForgedIntents`,
`ForgedResponses`).

**`Bus`** has the variables `handlers` (the bus's map), and per caller
`pc`, `call` (the operation, the target, the intent and the handler the
lookup found) and `result`. Its actions are:

- `Register`;
- `Negotiate` (lookup, or UnknownPeer);
- `InvokeDefault`;
- `InvokePicoclaw` (SendIntent's post is in flight, or `json.Marshal` failed: an intent whose vector holds a NaN or an infinity, `vec = "nan"` in `Intents`, never reaches the service);
- `FetchCapabilities`;
- the HTTP outcomes `HttpError`, `HttpTimeout`, `HttpStatus`, `HttpBadBody` and `HttpOK`.

## Runs

In the host runs there are two hosts `a` and `b`, and a Byz peer `m`:

- `a` offers capability `c1`.
- `b` offers `c1` and `c2`.
- An intent requires either `<<c1>>` or `<<c2, c1>>`. So both accept and reject happen, and so does a two-step workflow.

| Run | Module | Expect | Checks | What it shows |
|---|---|---|---|---|
| `host_byz` | `MCAgentHost` | pass | `TypeOK`, `NegotiationSound`, `TrustInRange`, `HandshakeMutualDiscovery`, `HostExchangesEnd` | A Byz peer answers with trust_delta ±1.0, under every interleaving of two streams. The checks hold: every response a host acts on answers its own intent with the default policy; scores stay in [0, 1]; under fairness every host-to-host exchange ends; after a handshake the responder lists the initiator. |
| `announce_stale` | `MCAgentHost` | violation | `AnnouncesCachedProfile` (action property) | a runs two handshakes with m, and m answers them with different profiles. Both goroutines cache, then unlock, then announce `ah.known[p]` (host.go:156). The first announces the second's profile, not the one it verified. |
| `response_splice` | `MCSigning` | violation | `SignedFieldsAuthentic` | a1 makes an intent with ID "1" and an empty payload. Its signature, over "1", verifies as a NegotiationResponse from a1 with request id "1" and an empty reason, which a1 never gave. The signature covers `ID + Payload` and `RequestID + Reason` with no type tag or length, so it authenticates bytes and not fields. |
| `ranking_unembedded` | `MCRanking` | violation | `UnembeddedRankLast` | RankCandidates' doc comment (negotiation.go:108-110) and ADR 0001 say an agent without an embedding is ranked last. The code scores it 0 (negotiation.go:117), so it ranks above a candidate whose cosine is negative, and among ties at 0 it keeps its input position. spec.md 4.5 says such an agent "ranks as 0", as the code does; the comment is what disagrees. |
| `relay_reply` | `MCAgentHost` | violation | `InitiatorAuthenticates` | m forwards a's challenge to b in its own handshake and relays b's signed reply, and a caches m as b. The same property also covers a reply with no challenge response, which is cached as any DID (host.go:142). |
| `responder_spoof` | `MCAgentHost` | violation | `ResponderAuthenticates` | m handshakes with b claiming a's DID and key; b caches m as a. |
| `tampered_intent` | `MCAgentHost` | violation | `IntentAuthenticated` | After a has handshaken with b, m sends b an intent claiming a's DID, and b handles it. TestSendIntentTamperedSignatureRejected expects a drop. |
| `trust_lost_update` | `MCAgentHost` | violation | `TrustSerialised` (refinement) | A requester and a handler Apply to the same edge concurrently, and one update is lost. The host's `trust` is not a behaviour of `TrustLedger`. |
| `trust_nan` | `MCAgentHost` | violation | `TrustInRange` | A NaN trust_delta makes the score NaN. |
| `ttl_overflow` | `MCDiscovery` | violation | `TTLHonoured` | `time.Duration(ttl) * time.Second` overflows for a large TTL, and the entry is already expired when announced (handshake.go:161). |
| `workflow_hangs` | `MCOrchestrator` | violation | `WorkflowReturns` | p2 accepts the intent stream and never replies. The per-step `context.WithTimeout` reaches only `NewStream`, never `readMsg`, so `wg.Wait` never returns. spec.md 4.8 calls for a per-step deadline. |
| `components` | `MCComponents` | pass | `RegistryTypeOK`, `ResultsComplete`, `WorkflowReturns`, `TypeOK`, `ReadMsgDecodes`, `CodecRoundTrip`, `HonestFrameRead`, `SigningTypeOK`, `SignaturesSound`, `CosineSpec`, `CallsReturn`, `ParseDIDMatchesGrammar` | **Registry:** entries stay keyed by AgentID under announces, removals and eviction. **Orchestrator:** handshakes race the steps; `results` and the returned error agree; RunWorkflow returns. **Framing:** readMsg reads a body only after the length check passes. What it returns is what `Unframe` makes of the same bytes, and exactly what `Frame` wrote. Every encoding of each message, in any map order, and with a spec 4.3 writer's field 10, decodes back to the message. The one exception is a float32 -0.0, which `enc.f32` drops and which decodes as +0.0. A frame within the bound is always read. **Signing:** every intent and response an honest agent makes verifies under its key, and under no other key or a malformed one. Whatever the network forges, a signed message that verifies under an honest key carries bytes that agent signed, challenges included. **Ranking:** cosine is 0 on degenerate inputs, symmetric, 1 on itself, and within [-1, 1]. **Bus:** every call returns, though the Picoclaw service may never answer, even when a `Register` replaces the handler between the lookup and the call. **Logger:** its actions run (two goroutines, Close, failed and short writes); no property. **DID syntax:** over every string of up to seven characters from d, i, `:` and x, ParseDID accepts exactly `did:<method>:<id>` with a non-empty method ending at the first colon and a non-empty id, and `String` of what it returns is the string it read. |

`PROJECT.json` has a finding for each violation, and a mutant for each
property of a passing run. A mutant is a plausible bug in the code that
the property catches:

- clamp without its floor, or without its ceiling;
- buildWorkflow one step short;
- the cached profile never announced after the unlock;
- the handler's reason left empty on accept;
- VerifyIntentSignature checking the ID alone;
- an intent handler that waits for a known sender;
- Announce keyed by DID;
- a failed step that skips `wg.Done`, or skips its result;
- cosine without normalisation;
- Frame's length without the type byte;
- readMsg without its upper bound, or with `>=` for `>`;
- decodePackedF32 looping while `> 4`;
- the bridge's `http.Client` without a Timeout;
- ParseDID's loop without its `break`, splitting at the last colon.

### Bounds

- **Hosts** (`MaxStreams`). `host_byz` uses 2 streams, enough for two exchanges racing on one trust edge, or a handshake and an intent. With 3 streams TLC no longer finishes in minutes. The attack runs use 3 streams where an attack needs them: a relay needs one stream from the victim and one to the third host, and a tampered intent needs a handshake first. `MaxTrust = 100`, so 0.05 and -0.02 are exact.
- **Discovery.**
  - `Second = 2` clock units, so the strict `After` at the instant of expiry is a reachable state distinct from the next tick.
  - TTLs of 0, 1 and 2 s, and a clock up to 3 s, so entries expire while others are fresh.
  - 8-bit Durations hold every product in `components`. `ttl_overflow` narrows them to 4 bits, so that a TTL of 5 s wraps, as a TTL above about 9.2e9 s does at 64 bits.
- **Orchestrator.**
  - Two steps: one with two candidates, one with one.
  - Handshakes may come at any point, so a step can find no candidate.
- **Logger.** Two goroutines and a clock of three seconds (`MaxClock` = 2): each goroutine stamps and writes once, and `NewLogger` and `Close` can come before, between or after every step of either.
- **DID syntax.** Seven characters hold `did:x:x` and `did:x::`, an id with a colon; four letters are enough, since ParseDID looks only at the prefix and at colons.
- **Ranking.** Vectors of 3 components from {-1, 0, 1, 9}, an empty embedding, a zero vector and a vector of the wrong length: every branch of CosineSimilarity, ties, and negative scores.
- **Bus.**
  - One caller and the registrar. Callers share only the handler table, so a second caller adds states and no new interaction.
  - Two agents, one per handler kind.
  - Two intents: one the default handler accepts, one it rejects.
  - A service reply whose request_id differs from the intent's.
- **Framing.**
  - One message of each of the five kinds. Together they have:
    - an empty string in a repeated field;
    - a 2-byte varint;
    - a -0.0 float32, and a -0.0 word in a packed vector;
    - packed vectors of one and two words;
    - maps of one and two keys (two orders);
    - a one-byte signature in field 10.
  - `MaxFrame` is the largest frame these make, so the longest is exactly at the bound.
  - An arbitrary writer sends up to 7 bytes from {0, 2, 4}. That gives length fields of 0, 2, 4 and over a million, short headers and short bodies.

- **Signing.**
  - Two honest agents: `a1` holds `c1` and `a2` holds nothing, so a handler gives both reasons.
  - A randomID is one hex character, and the attacker writes IDs and challenges of up to two. That is one more than a randomID, enough to move a character across the boundary between the two signed fields.
  - Payloads "" and "1"; the reasons "a" and "m".
  - At most 3 signatures: enough for an intent, a response and a challenge.

Symmetry is not used, because the capability assignments tell the peers
apart.

### Fairness

- **Host.** `Fairness` is weak fairness on each stream's honest steps. Every honest goroutine blocks only on its own stream, with no lock held across a read, so once a step is enabled it stays enabled until taken. Byz peers get no fairness.
- **Discovery.** Weak fairness on the loop's tick and on its return. The ticker keeps firing, and `select` chooses at random among ready cases.
- **Orchestrator.** Weak fairness on each step goroutine, on each answering peer's handler, and on `wg.Wait`'s return. The caller need not start a workflow, and peers need not handshake.
- **Framing.** Weak fairness on readMsg's goroutine. The writer may stop at any point.
- **Signing** and **Logger.** None: only safety is checked.
- **Bus.** Weak fairness on the caller's goroutine and on the `http.Client` timer, which fires once the Timeout has passed. The Picoclaw service and the network get no fairness: they may answer, fail or stay silent.

## Not modelled, and the plan

Done in this project:

- `Identity`, `TrustGraph`/`TrustLedger`, `Negotiation`, `AgentHost`;
- `Discovery`;
- `Ranking`;
- `Orchestrator`;
- `Framing` and `Codec`;
- `Signing`;
- `Bus` and the Picoclaw bridge;
- `Logger`;
- `DIDSyntax` (ParseDID).

Next, in order:

1. **Orchestrator with Byz peers.** A peer may claim another's AgentID, so that `resolvePeerID` (part_008:132) resolves in map order to either peer. This is a composition with `AgentHost`'s Byz actions. With honest peers a property about it holds by the model's shape, so it needs a violation run, and all twelve run slots are in use.
2. **Signing across the wire.** `Signing` checks the signatures on records. The round trip through `Codec` is not composed with it: spec.md 8 asks that a signature still verify after encode and decode, but `Encode` never writes field 10, and `IntentMessage` and `NegotiationResponse` in types.go declare no `Signature` field, although negotiation.go assigns one.
3. **A stability check of `RankCandidates`.** spec.md 4.5 asks for a stable sort, and `sort.Slice` is not stable. But Go sorts fewer than 13 elements by insertion sort, which keeps ties in order, so the instability needs more candidates than TLC can permute. The hazard is listed without a property.
4. **`Unframe` with a zero length** (encoding.go:546), which panics. Only tests call it.

The following parts are left out on purpose:

- The codec in `AgentHost`: there messages are records, and what `Encode` drops is modelled by leaving it out. The codec itself is checked in `components`.
- The custom `OnHandshake`/`OnIntent` callbacks. The default path is modelled.
- The bridge's `WithAPIKey`, headers and JSON, which change no outcome. `NewRequestWithContext` fails only on a malformed base URL, which is fixed when the client is built, so every call of such a client fails the same way.
- `CapabilitySetDiff` of `core/handshake.go`: nothing in `src` calls it, and it is the same filter as `missingCapabilities`.
- `NewHandshakeResult`, `DID.PublicKey` and `Agent.PublicKey`, which only copy fields; `SummariseRegistry`, which only formats a count; `reflectVector`, whose result no property reads.
- The demo `main`s.
