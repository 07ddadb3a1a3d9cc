---------------------------- MODULE MCComponents ----------------------------
(***************************************************************************)
(* Parts of the system that share no state, checked in one run: the       *)
(* discovery registry under its clock and eviction loop (MCDiscovery), the *)
(* workflow orchestrator on a host (MCOrchestrator), framing with the      *)
(* codec on one stream (MCFraming), per-message signing against a network  *)
(* attacker (MCSigning), the negotiation bus with the Picoclaw bridge, and *)
(* ranking over each input (the two halves of MCNegotiation), and the     *)
(* audit Logger with two goroutines, and ParseDID over every short        *)
(* string.  A behaviour is one of the eight, chosen by mode in the initial *)
(* state; the others stay                                                  *)
(* at their initial states.  Each keeps its own fairness, asserted only in *)
(* its own mode.                                                           *)
(***************************************************************************)
EXTENDS MCFraming

CONSTANTS Agents, Profiles, TTLs, Second, DurationBits, MaxTime, Never,
          a1, a2, c1, c2,
          Peers, Silent, AgentCaps, Steps, NaN, MaxTrust, p1, p2, s1, s2,
          Attacker, k1, k2, i1, r9

VARIABLES entries, now, loop, deadline,
          known, disc, ddl, trust, wf, pc, best, target, resp, otmp, results, firstErr,
          intents, responses, challenges,
          handlers, bpc, bcall, bresult, rvec, rcands,
          logFile, lines, clock, lpc, lstamp, lret,
          dstr,
          mode

D == INSTANCE MCDiscovery
O == INSTANCE MCOrchestrator
\* Two goroutines logging through one Logger over three seconds.
L == INSTANCE Logger WITH LogCallers <- {c1, c2}, MaxClock <- 2
DS == INSTANCE DIDSyntax

\* Every string of up to seven characters over d, i, a colon and x: every
\* branch of ParseDID, ids holding a colon, and an empty method or id.
SeqsUpTo(S, len) == UNION {[1..m -> S] : m \in 0..len}
DIDChars == {"d", "i", ":", "x"}
DIDStrings == SeqsUpTo(DIDChars, 7)
\* The bounds of MCSigning, RespondHandshake signing any challenge.
S == INSTANCE Signing WITH
        Agents <- {a1, a2}, Hex <- {"0", "1"}, IDLen <- 1,
        Payloads <- {<<>>, <<"1">>}, Caps <- {c1},
        AgentCaps <- (a1 :> {c1}) @@ (a2 :> {}),
        ReasonAll <- <<"a">>, ReasonMissing <- <<"m">>,
        MaxLen <- 2, MaxSigned <- 3, SignsChallenges <- TRUE
\* The bus's operators, for building its handlers below.
BO == INSTANCE Bus WITH
        pc <- bpc, call <- bcall, result <- bresult,
        AgentIDs <- {a1, a2}, Callers <- {c1}, AgentCaps <- (a1 :> {k1}) @@ (a2 :> {}),
        Handlers <- {}, Intents <- {}, Replies <- {}, Caps <- {}
\* The bus of MCNegotiation: a1 on DefaultHandler(a1) and a2 on
\* AsNegotiationHandler(WithAgentID(NewClient, a2)), with caller c1.
B == INSTANCE MCNegotiation WITH
        pc <- bpc, call <- bcall, result <- bresult,
        AgentIDs <- {a1, a2}, Callers <- {c1},
        AgentCaps <- (a1 :> {k1}) @@ (a2 :> {}),
        Handlers <- {BO!DefaultHandler(a1),
                     BO!AsNegotiationHandler(BO!WithAgentID(BO!NewClient, a2))},
        Intents <- {[id |-> i1, req |-> <<k1>>, vec |-> "finite"],
                    [id |-> i1, req |-> <<k2>>, vec |-> "finite"],
                    [id |-> i1, req |-> <<k1>>, vec |-> "nan"]},
        Replies <- {[requestId |-> r9, accepted |-> TRUE, reason |-> <<>>,
                     steps |-> <<s1>>, delta |-> 5]},
        Caps <- {[agent_id |-> a2, capabilities |-> {k1}]}

\* The registry's and the orchestrator's constants, as in MCDiscovery and
\* MCOrchestrator (written out: TLC's coverage pass overflows its stack on a
\* constant bound to a definition reached through an instance).
MCAgents == {a1, a2}
MCProfiles ==
    { [agent |-> a1, did |-> a1, caps |-> {c1}],
      [agent |-> a2, did |-> a2, caps |-> {c1, c2}],
      [agent |-> a2, did |-> a1, caps |-> {c2}] }
MCTTLs == {0, 1, 2}

MCPeers == {p1, p2}
MCNoSilent == {}
MCAgentCaps == (p1 :> {c1}) @@ (p2 :> {c1, c2})
MCSteps == << [id |-> s1, cap |-> c1, vec |-> <<1, 0>>],
              [id |-> s2, cap |-> c2, vec |-> <<0, 1>>] >>

dvars == <<entries, now, loop, deadline>>
ovars == <<known, disc, ddl, trust, wf, pc, best, target, resp, otmp, results, firstErr>>
svars == <<intents, responses, challenges>>
bvars == <<handlers, bpc, bcall, bresult, rvec, rcands>>
lvars == <<logFile, lines, clock, lpc, lstamp, lret>>
pvars == <<dstr>>
allVars == <<vars, dvars, ovars, svars, bvars, lvars, pvars, mode>>

\* Framing's writer and the ranking's inputs are chosen in the initial
\* state; in the other modes they are fixed.
CInit ==
    /\ mode \in {"registry", "workflow", "framing", "signing", "bus", "ranking", "logger",
                  "didsyntax"}
    /\ Init /\ D!Init /\ O!Init /\ S!Init /\ B!MCInit /\ L!LInit
    /\ mode # "framing" => writer = "honest"
    /\ dstr \in IF mode = "didsyntax" THEN DIDStrings ELSE {<<>>}
    /\ mode # "ranking" => /\ rvec = <<1, 0, 0>>
                           /\ rcands = [k \in 1..3 |-> B!R!Cand(k, <<1, 0, 0>>)]

CNext ==
    \/ mode = "registry" /\ D!Next /\ UNCHANGED <<vars, ovars, svars, bvars, lvars, pvars, mode>>
    \/ mode = "workflow" /\ O!Next /\ UNCHANGED <<vars, dvars, svars, bvars, lvars, pvars, mode>>
    \/ mode = "framing" /\ Next /\ UNCHANGED <<dvars, ovars, svars, bvars, lvars, pvars, mode>>
    \/ mode = "signing" /\ S!Next /\ UNCHANGED <<vars, dvars, ovars, bvars, lvars, pvars, mode>>
    \/ mode = "bus" /\ B!MCNext /\ UNCHANGED <<vars, dvars, ovars, svars, lvars, pvars, mode>>
    \/ mode \in {"ranking", "didsyntax"} /\ UNCHANGED allVars
    \/ mode = "logger" /\ L!LNext /\ UNCHANGED <<vars, dvars, ovars, svars, bvars, pvars, mode>>

CFairness ==
    /\ WF_dvars(mode = "registry" /\ D!LoopTick)
    /\ WF_dvars(mode = "registry" /\ D!LoopReturn)
    /\ \A i \in O!Idx : /\ WF_ovars(mode = "workflow" /\ O!StepAction(i))
                        /\ WF_ovars(mode = "workflow" /\ O!TargetReplies(i))
    /\ WF_ovars(mode = "workflow" /\ O!WorkflowReturned)
    /\ WF_vars(mode = "framing" /\ (ReadHeader \/ ReadBody \/ ReadEOF))
    /\ WF_bvars(mode = "bus" /\ (B!InvokeDefault(c1) \/ B!InvokePicoclaw(c1))
                /\ UNCHANGED <<rvec, rcands>>)
    /\ WF_bvars(mode = "bus" /\ B!HttpTimeout(c1) /\ UNCHANGED <<rvec, rcands>>)

CSpec == CInit /\ [][CNext]_allVars /\ CFairness

RegistryTypeOK == D!TypeOK
ResultsComplete == O!ResultsComplete
WorkflowReturns == O!WorkflowReturns
SigningTypeOK == S!TypeOK
SignaturesSound == S!SignaturesSound
\* The ranking's inputs vary only in its own mode.
CosineSpec == mode = "ranking" => B!CosineSpec
CallsReturn == B!CallsReturn
\* ParseDID, on the inputs of its own mode.
ParseDIDMatchesGrammar == mode = "didsyntax" => DS!ParseDIDMatchesGrammar(dstr)
=============================================================================
