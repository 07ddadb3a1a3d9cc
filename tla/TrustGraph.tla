----------------------------- MODULE TrustGraph -----------------------------
(***************************************************************************)
(* The score arithmetic of TrustGraph in core/did.go.  Scores and deltas   *)
(* are float32; they are modelled in hundredths (MaxTrust is 1.0), with    *)
(* NaN kept because a trust_delta decoded from fixed32 wire bits may be    *)
(* NaN.  Rounding of float32 sums of 0.05 and 0.02 is not modelled.        *)
(***************************************************************************)
EXTENDS Integers

CONSTANTS
    MaxTrust,   \* the score 1.0
    NaN         \* the float32 NaN

\* tg.scores[k] + delta in float32: NaN in, NaN out.
AddScore(v, d) == IF v = NaN \/ d = NaN THEN NaN ELSE v + d

\* Mutants: clamp without its lower or its upper bound.
clampNoFloor(v) ==
    CASE v = NaN      -> NaN
      [] v > MaxTrust -> MaxTrust
      [] OTHER        -> v

clampNoCeiling(v) ==
    CASE v = NaN      -> NaN
      [] v < 0        -> 0
      [] OTHER        -> v

\* clamp: both comparisons with NaN are false, so NaN is returned as is.
clamp(v) ==
    CASE v = NaN      -> NaN
      [] v < 0        -> 0
      [] v > MaxTrust -> MaxTrust
      [] OTHER        -> v
=============================================================================
