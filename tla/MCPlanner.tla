------------------------------- MODULE MCPlanner -------------------------------
EXTENDS Planner, TLC

Symmetric == Permutations(Task) \cup Permutations(Trip)

\* No step reads or writes both a task and a trip: the two are explored one at a time.
Apart == (\E r \in Trip : trips[r] # "none") => \A t \in Task : ~Exists(t)
===============================================================================
