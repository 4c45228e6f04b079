------------------------------ MODULE MCJobSystem ------------------------------
EXTENDS JobInvariants, TLC

CONSTANTS a1, a2, a3, s1, s2, s3, r1, r2, r3

OneAnalysis == {a1}
TwoAnalyses == {a1, a2}
ThreeAnalyses == {a1, a2, a3}
OneSong == {s1}
TwoSongs == {s1, s2}
ThreeSongs == {s1, s2, s3}
OneRequest == {r1}
TwoRequests == {r1, r2}
ThreeRequests == {r1, r2, r3}

\* Every analysis is of the first song; or each has its own.
SameSong == [a \in Analyses |-> s1]
OwnSong == [a \in Analyses |-> IF a = a1 THEN s1 ELSE s2]

RequestSymmetry == Permutations(Requests)
=============================================================================
