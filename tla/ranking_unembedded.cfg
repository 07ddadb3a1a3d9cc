\* Every intent vector and three candidates drawn from embeddings with
\* positive, zero and negative cosine, a zero vector and none: an agent with
\* no embedding scores 0 and is ranked above one with a negative cosine,
\* though RankCandidates' comment says it is ranked last.
SPECIFICATION Spec
INVARIANT UnembeddedRankLast
