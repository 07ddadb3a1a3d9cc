-------------------------------- MODULE Bus --------------------------------
(***************************************************************************)
(* The in-process NegotiationBus of core/negotiation.go with the handlers  *)
(* the repository registers on it: DefaultNegotiationHandler(agent) and    *)
(* the Picoclaw bridge of picoclaw/client.go (AsNegotiationHandler).       *)
(*                                                                         *)
(* Register and the lookup of Negotiate each run under the bus's RWMutex,  *)
(* so each is one step; the handler is called after RUnlock, so a          *)
(* Register can come between the lookup and the call.  Every caller is a   *)
(* goroutine making one call: Negotiate, or the bridge's                   *)
(* FetchCapabilities.  The Picoclaw service answers an HTTP request with a *)
(* 2xx and a JSON body, another status, a body that is not JSON, or never; *)
(* the transport can fail at any time, and http.Client's Timeout (15 s in  *)
(* NewClient, any value through WithTimeout, 0 meaning none) ends the      *)
(* wait.  AsNegotiationHandler calls SendIntent with context.Background(), *)
(* so nothing else does.  Strings are model values; JSON, headers and the  *)
(* API key are left out.                                                   *)
(***************************************************************************)
EXTENDS Integers, Sequences, Negotiation

CONSTANTS
    AgentIDs,   \* ids handlers are registered under
    AgentCaps,  \* AgentCaps[a]: the capabilities of agent a
    Handlers,   \* the handlers that may be registered
    Callers,    \* goroutines calling the bus or the bridge
    Intents,    \* intents a caller sends: [id, req, vec], vec "finite" or "nan"
    Replies,    \* IntentResponse bodies the service may send
    Caps        \* CapabilitiesResponse bodies the service may send

VARIABLES
    handlers,   \* b.handlers: AgentIDs -> handler, or NoHandler
    pc,         \* pc[c]: "idle", "call" (handler chosen), "http", "done"
    call,       \* call[c]: [op, target, intent, h], h the looked-up handler
    result      \* result[c]: a response record, or [err |-> kind]

vars == <<handlers, pc, call, result>>

NoHandler == [kind |-> "none"]
NoCall == [op |-> "none", target |-> "none", intent |-> "none", h |-> NoHandler]
NoResult == [err |-> "none"]
\* An empty Signature.
NoSignature == "none"

(***************************************************************************)
(* The Picoclaw client and its options.                                    *)
(***************************************************************************)
DefaultTimeout == 15

\* Mutant: the http.Client built without a Timeout.
NewClientNoTimeout == [agent |-> "picoclaw-bridge", timeout |-> 0]

\* NewClient(baseURL): agentID "picoclaw-bridge", Timeout 15 s.
NewClient == [agent |-> "picoclaw-bridge", timeout |-> DefaultTimeout]

\* The Option closures.
WithTimeout(c, d) == [c EXCEPT !.timeout = d]
WithAgentID(c, id) == [c EXCEPT !.agent = id]

\* AsNegotiationHandler: a NegotiationHandler calling c.SendIntent.
AsNegotiationHandler(c) == [kind |-> "picoclaw", client |-> c]

\* DefaultNegotiationHandler(agent) as a handler value.
DefaultHandler(a) == [kind |-> "default", agent |-> a]

\* SendIntent's NegotiationResponse: the intent's ID, the client's agentID,
\* an empty DID, and the service's accepted, steps, reason and trust_delta;
\* no Signature is set.
PicoclawResponse(c, intent, r) ==
    [type |-> "neg", reqId |-> intent.id, agent |-> c.agent, accepted |-> r.accepted,
     steps |-> r.steps, did |-> "", reason |-> r.reason, delta |-> r.delta,
     sig |-> NoSignature]

\* resp.Signature = agent.DID.Sign(RequestID + Reason): the signer is named
\* by its DID (the bytes signed are Signing's concern).
SignedBy(resp, did) ==
    [f \in DOMAIN resp \cup {"sig"} |-> IF f = "sig" THEN did ELSE resp[f]]

(***************************************************************************)
(* Actions.                                                                *)
(***************************************************************************)
Init ==
    /\ handlers = [a \in AgentIDs |-> NoHandler]
    /\ pc = [c \in Callers |-> "idle"]
    /\ call = [c \in Callers |-> NoCall]
    /\ result = [c \in Callers |-> NoResult]

\* Register: b.handlers[agentID] = h under Lock.
Register(a, h) ==
    /\ handlers' = [handlers EXCEPT ![a] = h]
    /\ UNCHANGED <<pc, call, result>>

\* Negotiate: under RLock, h, ok := b.handlers[target]; after RUnlock an
\* unknown target is an error, else the handler is called.
Negotiate(c, a, intent) ==
    /\ pc[c] = "idle"
    /\ call' = [call EXCEPT ![c] = [op |-> "negotiate", target |-> a, intent |-> intent,
                                     h |-> handlers[a]]]
    /\ IF handlers[a] = NoHandler
       THEN /\ pc' = [pc EXCEPT ![c] = "done"]
            /\ result' = [result EXCEPT ![c] = [err |-> "UnknownPeer"]]
       ELSE /\ pc' = [pc EXCEPT ![c] = "call"]
            /\ UNCHANGED result
    /\ UNCHANGED handlers

\* The default handler runs to completion in the caller's goroutine.
InvokeDefault(c) ==
    /\ pc[c] = "call" /\ call[c].h.kind = "default"
    /\ LET a == call[c].h.agent IN
       result' = [result EXCEPT ![c] =
                    SignedBy(DefaultNegotiationHandler(a, AgentCaps[a], call[c].intent), a)]
    /\ pc' = [pc EXCEPT ![c] = "done"]
    /\ UNCHANGED <<handlers, call>>

\* post's json.Marshal(body) fails: JSON has no NaN or infinite number, and
\* the IntentRequest carries the intent vector.
MarshalFails(intent) == intent.vec = "nan"

Fail(c, kind) ==
    /\ pc' = [pc EXCEPT ![c] = "done"]
    /\ result' = [result EXCEPT ![c] = [err |-> kind]]
    /\ UNCHANGED <<handlers, call>>

\* The bridge: SendIntent builds the IntentRequest and post marshals it;
\* a marshal error returns before any request is sent.
InvokePicoclaw(c) ==
    /\ pc[c] = "call" /\ call[c].h.kind = "picoclaw"
    /\ IF MarshalFails(call[c].intent)
       THEN Fail(c, "marshal")
       ELSE /\ pc' = [pc EXCEPT ![c] = "http"]
            /\ UNCHANGED <<handlers, call, result>>

\* c.FetchCapabilities(ctx): get of /v1/capabilities.
FetchCapabilities(c, h) ==
    /\ pc[c] = "idle"
    /\ pc' = [pc EXCEPT ![c] = "http"]
    /\ call' = [call EXCEPT ![c] = [op |-> "fetch", target |-> "none",
                                     intent |-> "none", h |-> h]]
    /\ UNCHANGED <<handlers, result>>

\* httpClient.Do fails: the connection is refused or reset.
HttpError(c) == pc[c] = "http" /\ Fail(c, "http do")

\* Timeout > 0 and the service has not answered in time.
HttpTimeout(c) == pc[c] = "http" /\ call[c].h.client.timeout > 0 /\ Fail(c, "http do")

\* A status outside 2xx, or a body json.Decoder cannot decode.
HttpStatus(c) == pc[c] = "http" /\ Fail(c, "http status")
HttpBadBody(c) == pc[c] = "http" /\ Fail(c, "decode")

\* A 2xx with a decodable body: post/get return nil and SendIntent maps
\* the IntentResponse; FetchCapabilities returns the body.
HttpOK(c) ==
    /\ pc[c] = "http"
    /\ \/ /\ call[c].op = "negotiate"
          /\ \E r \in Replies :
                result' = [result EXCEPT ![c] =
                             PicoclawResponse(call[c].h.client, call[c].intent, r)]
       \/ /\ call[c].op = "fetch"
          /\ \E r \in Caps : result' = [result EXCEPT ![c] = r]
    /\ pc' = [pc EXCEPT ![c] = "done"]
    /\ UNCHANGED <<handlers, call>>

Next ==
    \/ \E a \in AgentIDs, h \in Handlers : Register(a, h)
    \/ \E c \in Callers :
          \/ \E a \in AgentIDs, i \in Intents : Negotiate(c, a, i)
          \/ \E h \in Handlers : h.kind = "picoclaw" /\ FetchCapabilities(c, h)
          \/ InvokeDefault(c) \/ InvokePicoclaw(c)
          \/ HttpError(c) \/ HttpTimeout(c) \/ HttpStatus(c) \/ HttpBadBody(c) \/ HttpOK(c)

\* The callers' goroutines run; the client's timer fires.  The service and
\* the network owe nothing: they may answer, fail, or stay silent.
Spec ==
    /\ Init /\ [][Next]_vars
    /\ \A c \in Callers : WF_vars(InvokeDefault(c) \/ InvokePicoclaw(c))
                          /\ WF_vars(HttpTimeout(c))

(***************************************************************************)
(* Properties.                                                             *)
(***************************************************************************)
TypeOK ==
    /\ handlers \in [AgentIDs -> Handlers \cup {NoHandler}]
    /\ pc \in [Callers -> {"idle", "call", "http", "done"}]

\* Every Negotiate and FetchCapabilities call returns, though the service
\* may never answer: http.Client's Timeout bounds the wait, since the
\* context AsNegotiationHandler passes never expires.
CallsReturn == \A c \in Callers : pc[c] \in {"call", "http"} ~> pc[c] = "done"

=============================================================================
