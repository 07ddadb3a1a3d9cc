---------------------------- MODULE MCDiscovery ----------------------------
(***************************************************************************)
(* Model-checking instances of Discovery: two agent ids, a1 offering c1    *)
(* and a2 offering c1 and c2, and a second profile for a2 that claims a1's *)
(* DID (a peer may announce any DID).  Two clock units make a second, so   *)
(* reads happen both strictly inside a second and at the instant of        *)
(* expiry.                                                                 *)
(***************************************************************************)
EXTENDS Discovery, TLC

CONSTANTS a1, a2, c1, c2

MCAgents == {a1, a2}
MCProfiles ==
    { [agent |-> a1, did |-> a1, caps |-> {c1}],
      [agent |-> a2, did |-> a2, caps |-> {c1, c2}],
      [agent |-> a2, did |-> a1, caps |-> {c2}] }

\* Wire TTLs: 0 (never expire), one and two seconds.
MCTTLs == {0, 1, 2}

\* A TTL whose product with time.Second does not fit in time.Duration.
MCHugeTTLs == {1, 5}
=============================================================================
