--------------------------- MODULE MCNegotiation ---------------------------
(***************************************************************************)
(* The in-process side of core/negotiation.go in one run: RankCandidates   *)
(* and CosineSimilarity over every input of MCRanking, and the             *)
(* NegotiationBus with a registrar and one caller.  Agent a1 is registered *)
(* with DefaultNegotiationHandler (capability k1), agent a2 with the       *)
(* Picoclaw bridge built by NewClient and WithAgentID; either may be       *)
(* registered, replaced or re-registered at any time.  The caller          *)
(* negotiates an intent needing k1 or k2 with either agent, or calls the   *)
(* bridge's FetchCapabilities.  The service's reply carries a request_id   *)
(* of its own (r9).  One caller is enough: callers share nothing but the   *)
(* handler table, which only the registrar writes.                         *)
(***************************************************************************)
EXTENDS Bus, TLC

CONSTANTS a1, a2, c1, k1, k2, i1, r9, s1

VARIABLES rvec, rcands

R == INSTANCE MCRanking WITH vec <- rvec, cands <- rcands

MCAgentCaps == (a1 :> {k1}) @@ (a2 :> {})
MCHandlers == {DefaultHandler(a1), AsNegotiationHandler(WithAgentID(NewClient, a2))}
MCIntents == {[id |-> i1, req |-> <<k1>>, vec |-> "finite"],
              [id |-> i1, req |-> <<k2>>, vec |-> "finite"],
              [id |-> i1, req |-> <<k1>>, vec |-> "nan"]}
MCReplies ==
    {[requestId |-> r9, accepted |-> TRUE, reason |-> <<>>, steps |-> <<s1>>, delta |-> 5]}
MCCaps == {[agent_id |-> a2, capabilities |-> {k1}]}

allVars == <<handlers, pc, call, result, rvec, rcands>>

MCInit == Init /\ R!Init
MCNext == Next /\ UNCHANGED <<rvec, rcands>>
\* Bus's fairness, on steps that leave MCRanking's inputs alone.
MCSpec ==
    /\ MCInit /\ [][MCNext]_allVars
    /\ \A c \in Callers :
          /\ WF_allVars((InvokeDefault(c) \/ InvokePicoclaw(c)) /\ UNCHANGED <<rvec, rcands>>)
          /\ WF_allVars(HttpTimeout(c) /\ UNCHANGED <<rvec, rcands>>)

\* The properties of MCRanking on its inputs (see there).
CosineSpec == R!CosineSpec
=============================================================================
