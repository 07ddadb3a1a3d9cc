---------------------------- MODULE Orchestrator ----------------------------
(***************************************************************************)
(* WorkflowOrchestrator of p2p/protocol.go (src/unnamed/part_008) on one   *)
(* host: RunWorkflow fans out one goroutine per step; each runs            *)
(* executeStep (FindByCapability on the host's registry, RankCandidates,   *)
(* resolvePeerID on the host's known map, CreateIntent, SendIntent) and    *)
(* records its result under mu.  Meanwhile peers handshake with the host,  *)
(* which caches them in known and in the registry with TTL 0.              *)
(*                                                                         *)
(* The registry is the Discovery module with its clock at 0: every entry   *)
(* the host makes has TTL 0.  Profiles cached from handshakes carry no     *)
(* embedding vector, as AgentHost.Handshake builds them.                   *)
(***************************************************************************)
EXTENDS Integers, Sequences, FiniteSets, Negotiation, TrustGraph, Ranking

CONSTANTS
    Peers,      \* remote peers
    Silent,     \* peers that accept a stream and never write a reply
    AgentCaps,  \* [Peers -> SUBSET Caps]
    Steps,      \* the WorkflowSteps: a sequence of [id, cap, vec]
    Never       \* the zero time.Time

VARIABLES
    known,      \* ah.known: [Peers -> profile or NoProfile]
    disc,       \* the registry's entries
    ddl,        \* the registry's ghost deadlines
    trust,      \* ah.trust for the local DID: [Peers -> score]
    wf,         \* RunWorkflow: "idle", "running" (in wg.Wait), "returned"
    pc,         \* pc[i]: step i's goroutine
    best,       \* best[i]: ranked[0]
    target,     \* target[i]: the peer.ID resolvePeerID returned
    resp,       \* resp[i]: the reply on step i's stream, or NoResp
    otmp,       \* otmp[i]: the score SendIntent read for Apply
    results,    \* results[i]: StepResult
    firstErr    \* the index of the step whose error RunWorkflow returns, or 0

vars == <<known, disc, ddl, trust, wf, pc, best, target, resp, otmp, results, firstErr>>

N == Len(Steps)
Idx == 1..N

NoProfile == [agent |-> "none", did |-> "none", caps |-> {}, emb |-> <<>>]
NoResp == [type |-> "none"]
NoResult == [step |-> "none"]

\* The profile a handshake with p caches.
ProfileOf(p) == [agent |-> p, did |-> p, caps |-> AgentCaps[p], emb |-> <<>>]

Reg == INSTANCE Discovery WITH
           entries <- disc, deadline <- ddl, now <- 0, loop <- "off",
           Agents <- Peers, Profiles <- {ProfileOf(p) : p \in Peers},
           TTLs <- {0}, Second <- 1, DurationBits <- 8, MaxTime <- 0

Init ==
    /\ known = [p \in Peers |-> NoProfile]
    /\ disc = [p \in Peers |-> Reg!None]
    /\ ddl = [p \in Peers |-> Never]
    /\ trust = [p \in Peers |-> 0]
    /\ wf = "idle"
    /\ pc = [i \in Idx |-> "idle"]
    /\ best = [i \in Idx |-> NoProfile]
    /\ target = [i \in Idx |-> "none"]
    /\ resp = [i \in Idx |-> NoResp]
    /\ otmp = [i \in Idx |-> 0]
    /\ results = [i \in Idx |-> NoResult]
    /\ firstErr = 0

StepVars == <<pc, best, target, resp, otmp, results, firstErr>>

\* Handshake (either direction) with p: known[p], then Announce with TTL 0.
PeerCached(p) ==
    /\ known' = [known EXCEPT ![p] = ProfileOf(p)]
    /\ Reg!Announce(ProfileOf(p), 0)
    /\ UNCHANGED <<trust, wf>> /\ UNCHANGED StepVars

\* RunWorkflow: wg.Add and one goroutine per step.
RunWorkflow ==
    /\ wf = "idle"
    /\ wf' = "running"
    /\ pc' = [i \in Idx |-> "find"]
    /\ UNCHANGED <<known, disc, ddl, trust, best, target, resp, otmp, results, firstErr>>

\* Mutants of the error path: wg.Done reached only on success, and the
\* failed step's StepResult not recorded.
StepFailedNoDone(i, reason) ==
    /\ pc' = [pc EXCEPT ![i] = "failed"]
    /\ results' = [results EXCEPT ![i] =
                     [step |-> Steps[i].id, agent |-> "none", accepted |-> FALSE,
                      err |-> TRUE, reason |-> reason]]
    /\ firstErr' = IF firstErr = 0 THEN i ELSE firstErr

StepFailedNoRecord(i, reason) ==
    /\ pc' = [pc EXCEPT ![i] = "done"]
    /\ UNCHANGED results
    /\ firstErr' = IF firstErr = 0 THEN i ELSE firstErr

\* executeStep returns an error: under mu, firstErr if still nil, and a
\* rejected StepResult carrying the reason.
StepFailed(i, reason) ==
    /\ pc' = [pc EXCEPT ![i] = "done"]
    /\ results' = [results EXCEPT ![i] =
                     [step |-> Steps[i].id, agent |-> "none", accepted |-> FALSE,
                      err |-> TRUE, reason |-> reason]]
    /\ firstErr' = IF firstErr = 0 THEN i ELSE firstErr

\* executeStep: FindByCapability(step.Capability), then ranked[0].
FindCandidates(i) ==
    LET cands == Reg!FindByCapability(<<Steps[i].cap>>) IN
    /\ pc[i] = "find"
    /\ \/ /\ cands = {}
          /\ StepFailed(i, "no peer with capability")
          /\ UNCHANGED <<best, target, resp, otmp>>
       \/ /\ cands # {}
          /\ \E b \in RankTop(Steps[i].vec, cands) :
                /\ best' = [best EXCEPT ![i] = b]
                /\ pc' = [pc EXCEPT ![i] = "resolve"]
          /\ UNCHANGED <<target, resp, otmp, results, firstErr>>
    /\ UNCHANGED <<known, disc, ddl, trust, wf>>

\* resolvePeerID(best.AgentID): a peer whose cached profile has that agent
\* id, the first in map order; none is an error.
ResolvePeer(i) ==
    LET ps == {p \in Peers : known[p] # NoProfile /\ known[p].agent = best[i].agent} IN
    /\ pc[i] = "resolve"
    /\ \/ /\ ps = {}
          /\ StepFailed(i, "peerID not found")
          /\ UNCHANGED <<best, target, resp, otmp>>
       \/ /\ \E p \in ps : target' = [target EXCEPT ![i] = p]
          /\ pc' = [pc EXCEPT ![i] = "await"]
          /\ UNCHANGED <<best, resp, otmp, results, firstErr>>
    /\ UNCHANGED <<known, disc, ddl, trust, wf>>

\* The target's handleIncomingIntent answers CreateIntent(self, vec, <<cap>>)
\* with the default handler's response.  A Silent peer never does.
TargetReplies(i) ==
    LET p == target[i] IN
    /\ pc[i] = "await" /\ resp[i] = NoResp /\ p \notin Silent
    /\ resp' = [resp EXCEPT ![i] =
                  DefaultNegotiationHandler(p, AgentCaps[p], [id |-> i, req |-> <<Steps[i].cap>>])]
    /\ UNCHANGED <<known, disc, ddl, trust, wf, pc, best, target, otmp, results, firstErr>>

\* SendIntent, after readMsg: read the score Apply will update.  Nothing
\* bounds this wait: stepCtx reaches NewStream only, not readMsg.
ReplyReceived(i) ==
    /\ pc[i] = "await" /\ resp[i] # NoResp
    /\ otmp' = [otmp EXCEPT ![i] = trust[resp[i].did]]
    /\ pc' = [pc EXCEPT ![i] = "apply"]
    /\ UNCHANGED <<known, disc, ddl, trust, wf, best, target, resp, results, firstErr>>

\* SendIntent's ah.trust.Apply write; executeStep returns its StepResult,
\* recorded under mu.
StepSucceeded(i) ==
    /\ pc[i] = "apply"
    /\ trust' = [trust EXCEPT ![resp[i].did] = clamp(AddScore(otmp[i], resp[i].delta))]
    /\ pc' = [pc EXCEPT ![i] = "done"]
    /\ results' = [results EXCEPT ![i] =
                     [step |-> Steps[i].id, agent |-> resp[i].agent,
                      accepted |-> resp[i].accepted, err |-> FALSE, reason |-> resp[i].reason]]
    /\ UNCHANGED <<known, disc, ddl, wf, best, target, resp, otmp, firstErr>>

\* wg.Wait returns once every goroutine has called wg.Done.
WorkflowReturned ==
    /\ wf = "running"
    /\ \A i \in Idx : pc[i] = "done"
    /\ wf' = "returned"
    /\ UNCHANGED <<known, disc, ddl, trust, pc, best, target, resp, otmp, results, firstErr>>

\* One step of step i's goroutine.
StepAction(i) ==
    FindCandidates(i) \/ ResolvePeer(i) \/ ReplyReceived(i) \/ StepSucceeded(i)

Next ==
    \/ \E p \in Peers : PeerCached(p)
    \/ RunWorkflow
    \/ \E i \in Idx : StepAction(i) \/ TargetReplies(i)
    \/ WorkflowReturned
    \/ wf = "returned" /\ UNCHANGED vars

\* Every step goroutine, every handler of a peer that answers, and wg.Wait
\* progress when they can: each blocks only on its own stream.  The caller
\* need not start the workflow, and peers need not handshake.
Fairness ==
    /\ \A i \in Idx : WF_vars(StepAction(i)) /\ WF_vars(TargetReplies(i))
    /\ WF_vars(WorkflowReturned)

Spec == Init /\ [][Next]_vars /\ Fairness

(***************************************************************************)
(* Properties.                                                             *)
(***************************************************************************)

TypeOK ==
    /\ known \in [Peers -> {NoProfile} \cup {ProfileOf(p) : p \in Peers}]
    /\ wf \in {"idle", "running", "returned"}
    /\ pc \in [Idx -> {"idle", "find", "resolve", "await", "apply", "done", "failed"}]
    /\ target \in [Idx -> Peers \cup {"none"}]
    /\ trust \in [Peers -> 0..MaxTrust]
    /\ firstErr \in 0..N

\* When RunWorkflow returns, results is aligned with steps, every failed
\* step is recorded as not accepted, and the error returned is nil exactly
\* when no step failed, and is otherwise one of a failed step.
ResultsComplete ==
    wf = "returned" =>
        /\ \A i \in Idx : results[i] # NoResult /\ results[i].step = Steps[i].id
        /\ \A i \in Idx : results[i].err => ~results[i].accepted
        /\ (firstErr = 0) <=> (\A i \in Idx : ~results[i].err)
        /\ firstErr # 0 => results[firstErr].err

\* RunWorkflow returns (spec.md 4.8: each step is sent under a per-step
\* deadline).
WorkflowReturns == wf = "running" ~> wf = "returned"
=============================================================================
