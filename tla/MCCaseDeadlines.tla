---------------------------- MODULE MCCaseDeadlines ----------------------------
(* CaseDeadlines for TLC: requests, deadlines and versions are alike.        *)
EXTENDS CaseDeadlines, TLC

Symmetry == Permutations(Handler) \cup Permutations(Deadline) \cup Permutations(Version)

=============================================================================
