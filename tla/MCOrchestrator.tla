--------------------------- MODULE MCOrchestrator ---------------------------
(***************************************************************************)
(* Model-checking instances of Orchestrator: peers p1 offering c1 and p2   *)
(* offering c1 and c2, a workflow of two steps needing c1 and c2, so the   *)
(* c1 step has two candidates to choose between and the c2 step one.       *)
(* Handshakes may come before, during or after the workflow, so a step can *)
(* find no candidate, or find one and race the cache of its peer.          *)
(***************************************************************************)
EXTENDS Orchestrator, TLC

CONSTANTS p1, p2, c1, c2, s1, s2

MCPeers == {p1, p2}
MCNoSilent == {}
MCSilentP2 == {p2}
MCAgentCaps == (p1 :> {c1}) @@ (p2 :> {c1, c2})
MCSteps == << [id |-> s1, cap |-> c1, vec |-> <<1, 0>>],
              [id |-> s2, cap |-> c2, vec |-> <<0, 1>>] >>

=============================================================================
