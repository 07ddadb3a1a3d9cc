---------------------------- MODULE MCAgentHost ----------------------------
(***************************************************************************)
(* Model-checking instances of AgentHost: two hosts a and b, optionally    *)
(* one Byz peer m, two capability tags.  a offers c1 and b offers c1 and   *)
(* c2, so an intent for <<c2, c1>> is accepted by b (a two-step workflow)  *)
(* and rejected by a, and <<c1>> is accepted by both.                      *)
(***************************************************************************)
EXTENDS AgentHost, TLC

CONSTANTS a, b, m, c1, c2

MCHosts == {a, b}
MCNoByz == {}
MCOneByz == {m}
MCAgentCaps == (a :> {c1}) @@ (b :> {c1, c2}) @@ (m :> {c2})
MCReqSeqs == {<<c1>>, <<c2, c1>>}

\* A Byz responder's trust_delta: none (no Byz peer), -1.0 and +1.0, or
\* those and NaN.
MCNoDeltas == {}
MCFiniteDeltas == {-100, 100}
MCNaNDeltas == {-100, 100, NaN}

\* Hosts and capability tags are interchangeable only in some runs; no
\* symmetry is used because the capability assignment tells them apart.
=============================================================================
