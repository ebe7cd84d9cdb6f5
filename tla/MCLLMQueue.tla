------------------------------ MODULE MCLLMQueue ------------------------------
EXTENDS LLMQueue

CONSTANTS r1, r2, r3

\* An urgent request and two of equal priority.
MCPriority == [r \in Request |-> IF r = r1 THEN 2 ELSE 4]
===============================================================================
