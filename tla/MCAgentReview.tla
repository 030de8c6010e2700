--------------------------- MODULE MCAgentReview ---------------------------
(* Two proposals and four reviews of them that share three keys.           *)
EXTENDS AgentReview

CONSTANTS q1, q2, i1, i2, i3

Gives(q, d, k) == [proposal |-> q, decision |-> d, key |-> k]

\* The run may be closed while its first proposal is being promoted, as one
\* candidate or another, and one key is claimed by reviews of both proposals.
MCReview == {Gives(q1, "approved", i1), Gives(q1, "rejected", i2),
             Gives(q2, "rejected", i1), Gives(q2, "rejected", i3)}
=============================================================================
