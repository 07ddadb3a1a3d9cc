----------------------------- MODULE MCSigning -----------------------------
(***************************************************************************)
(* Signing with two honest agents, a1 holding capability c1 and a2 none,   *)
(* so a handler gives both reasons.  A randomID is one hex character from  *)
(* {0, 1} and the attacker writes IDs and challenges of up to two: one     *)
(* character longer than a randomID, enough to move a character across the *)
(* boundary of the signed concatenation.  Payloads are "" and "1"; the two *)
(* reasons are the one-character strings "a" and "m".                      *)
(***************************************************************************)
EXTENDS Signing, TLC

CONSTANTS a1, a2, c1

MCAgents == {a1, a2}
MCHex == {"0", "1"}
MCPayloads == {<<>>, <<"1">>}
MCCaps == {c1}
MCReasonAll == <<"a">>
MCReasonMissing == <<"m">>
MCAgentCaps == (a1 :> {c1}) @@ (a2 :> {})
=============================================================================
