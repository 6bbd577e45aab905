--------------------------- MODULE MCPredictServer ---------------------------
\* An instance of PredictServer for TLC: two requests for the same alias.
EXTENDS PredictServer

CONSTANTS r1, r2, a

MCRequests == {r1, r2}
MCAliases == {a}
MCAliasOf == [r \in MCRequests |-> a]
=============================================================================
