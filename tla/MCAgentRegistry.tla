--------------------------- MODULE MCAgentRegistry ---------------------------
\* An instance of AgentRegistry for TLC: three calls for one alias, two for another.
EXTENDS AgentRegistry

CONSTANTS c1, c2, c3, c4, c5, a, b

MCCalls == {c1, c2, c3, c4, c5}
MCAliases == {a, b}
MCAliasOf == [c \in MCCalls |-> IF c \in {c4, c5} THEN b ELSE a]
=============================================================================
