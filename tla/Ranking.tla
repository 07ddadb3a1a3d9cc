------------------------------ MODULE Ranking ------------------------------
(***************************************************************************)
(* CosineSimilarity and RankCandidates of core/negotiation.go.             *)
(*                                                                         *)
(* Vectors have integer components; cosine is scale-invariant, so the      *)
(* spec's [0.9, 0.1, 0] is [9, 1, 0].  A score dot / sqrt(nn) is kept as   *)
(* the pair [dot, nn] and compared exactly; float64 rounding is not        *)
(* modelled.  sort.Slice is not stable: RankOutcomes is every order it     *)
(* may return, i.e. every permutation sorted by its less function.         *)
(***************************************************************************)
EXTENDS Integers, Sequences, SequencesExt

\* The score 0.
ZeroScore == [dot |-> 0, nn |-> 1]

Dot(a, b) == SumFunction([k \in DOMAIN a |-> a[k] * b[k]])

\* Mutant: the dot product not divided by the norms.
CosineSimilarityNoNorm(a, b) ==
    IF Len(a) # Len(b) \/ Len(a) = 0 THEN ZeroScore
    ELSE LET nA == Dot(a, a)  nB == Dot(b, b) IN
         IF nA = 0 \/ nB = 0 THEN ZeroScore
         ELSE [dot |-> Dot(a, b), nn |-> 1]

\* CosineSimilarity(a, b): 0 for unequal or zero lengths and zero norms.
CosineSimilarity(a, b) ==
    IF Len(a) # Len(b) \/ Len(a) = 0 THEN ZeroScore
    ELSE LET nA == Dot(a, a)  nB == Dot(b, b) IN
         IF nA = 0 \/ nB = 0 THEN ZeroScore
         ELSE [dot |-> Dot(a, b), nn |-> nA * nB]

Sgn(x) == IF x > 0 THEN 1 ELSE IF x < 0 THEN -1 ELSE 0

\* s > t for s = s.dot / sqrt(s.nn): compare the signed squares.
ScoreGreater(s, t) ==
    Sgn(s.dot) * s.dot * s.dot * t.nn > Sgn(t.dot) * t.dot * t.dot * s.nn

\* A candidate's score against the intent vector.
ScoreOf(vec, p) == CosineSimilarity(vec, p.emb)

\* RankCandidates(vec, cands): the orders sort.Slice with less(i, j) =
\* score_i > score_j may produce.
RankOutcomes(vec, cands) ==
    LET n == Len(cands)
        Less(p, q) == ScoreGreater(ScoreOf(vec, p), ScoreOf(vec, q))
    IN  { out \in { [k \in 1..n |-> cands[f[k]]] : f \in Bijection(1..n, 1..n) } :
              IsSorted(out, LAMBDA p, q : ~Less(q, p)) }

\* The candidates RankCandidates may put first: executeStep's ranked[0].
RankTop(vec, cands) ==
    { c \in cands : \A d \in cands : ~ScoreGreater(ScoreOf(vec, d), ScoreOf(vec, c)) }

=============================================================================
