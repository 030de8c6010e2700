---------------------------- MODULE MCSearchRound ----------------------------
\* SearchRound with values for its constants.
EXTENDS SearchRound, TLC

CONSTANTS c1, c2, c3, r1, r2, j1

\* Candidates and reservations are only compared with each other.
Symmetry == Permutations({c1, c2, c3}) \cup Permutations({r1, r2})
=============================================================================
