--------------------------- MODULE MCCaseLifecycle ---------------------------
(***************************************************************************)
(* Symmetry of the concurrent instance: its handlers and its cases are     *)
(* interchangeable.  Its decisions are not, since one of them exempts its  *)
(* case.  Sound for the invariants it checks.                              *)
(***************************************************************************)
EXTENDS CaseLifecycle, TLC

Interchangeable ==
  Permutations(Worker) \cup Permutations(Case)

=============================================================================
