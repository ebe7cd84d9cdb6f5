---------------------------- MODULE MCReminders ----------------------------
EXTENDS Reminders, TLC
Symmetric == Permutations(Row) \cup Permutations(Worker) \cup Permutations(Task)
=============================================================================
