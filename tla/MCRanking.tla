----------------------------- MODULE MCRanking -----------------------------
(***************************************************************************)
(* CosineSimilarity and RankCandidates over every input of a small domain: *)
(* an intent vector and three candidates, each with an embedding of three  *)
(* integer components or none.  Each initial state is one input; the       *)
(* properties are checked on each.  The domain holds spec.md 8 scenario 6  *)
(* ([1,0,0], [0,1,0], [0.9,0.1,0] against [1,0,0], scaled to integers),    *)
(* ties, negative scores, zero vectors and missing embeddings.             *)
(***************************************************************************)
EXTENDS Integers, Sequences, Ranking

VARIABLES vec, cands

vars == <<vec, cands>>

Emb == {<<1, 0, 0>>, <<0, 1, 0>>, <<9, 1, 0>>, <<-1, 0, 0>>, <<0, 0, 0>>, <<>>}
Vec == {<<1, 0, 0>>, <<1, 1, 0>>, <<0, 0, 0>>, <<1, 0>>}

\* An AgentProfile as RankCandidates sees it: its embedding, and a name so
\* that equal embeddings are distinct candidates.
Cand(k, e) == [agent |-> k, emb |-> e]

Init ==
    /\ vec \in Vec
    /\ cands \in { <<Cand(1, x), Cand(2, y), Cand(3, z)>> : x, y, z \in Emb }

Next == UNCHANGED vars

Spec == Init /\ [][Next]_vars

SameScore(s, t) == ~ScoreGreater(s, t) /\ ~ScoreGreater(t, s)
OneScore == [dot |-> 1, nn |-> 1]

\* CosineSimilarity (spec.md 4.5): 0 when the lengths differ, either is
\* empty or either norm is 0; otherwise symmetric, 1 for a vector against
\* itself, and within [-1, 1].
CosineSpec ==
    \A k \in 1..3 :
        LET e == cands[k].emb  s == CosineSimilarity(vec, e) IN
        /\ (Len(e) # Len(vec) \/ Len(e) = 0 \/ Dot(e, e) = 0 \/ Dot(vec, vec) = 0)
              => SameScore(s, ZeroScore)
        /\ SameScore(s, CosineSimilarity(e, vec))
        /\ Dot(e, e) # 0 => SameScore(CosineSimilarity(e, e), OneScore)
        /\ s.dot * s.dot <= s.nn

\* RankCandidates' doc comment (negotiation.go:108-110) and ADR 0001: an
\* agent without a registered embedding is ranked last, after every agent
\* that has one, in every order the sort may return.
UnembeddedRankLast ==
    \A out \in RankOutcomes(vec, cands) :
        \A i, j \in 1..Len(out) :
            (i < j /\ out[j].emb # <<>>) => out[i].emb # <<>>
=============================================================================
