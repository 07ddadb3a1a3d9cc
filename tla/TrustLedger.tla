---------------------------- MODULE TrustLedger ----------------------------
(***************************************************************************)
(* The trust ledger as spec.md 4.2 and 5 describe it: a map from a         *)
(* directed pair of DIDs to a score clamped to [0, 1], whose updates on    *)
(* one edge are serialised: every Apply is one atomic                      *)
(* read-add-clamp-write.  This is the abstract specification the host's    *)
(* ledger updates are checked against.                                     *)
(***************************************************************************)
EXTENDS Integers, TrustGraph

CONSTANTS
    Owners,     \* DIDs whose ledger is modelled (the local agents)
    Subjects,   \* DIDs a score may be kept about
    Deltas      \* deltas an Apply may add

VARIABLE trust

\* Get of an absent entry reads 0.
Init == trust = [o \in Owners |-> [d \in Subjects |-> 0]]

Apply(from, to, delta) ==
    trust' = [trust EXCEPT ![from][to] = clamp(AddScore(@, delta))]

Next == \E from \in Owners, to \in Subjects, delta \in Deltas :
            Apply(from, to, delta)

Spec == Init /\ [][Next]_trust
=============================================================================
