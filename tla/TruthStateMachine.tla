-------------------------- MODULE TruthStateMachine --------------------------
(***************************************************************************)
(* The closed table T1-T21 over the eleven truth states and the functions  *)
(* that consult it.  Facts are names of observations; a guard is a set of  *)
(* alternatives, each a set of facts that together satisfy it.             *)
(***************************************************************************)
EXTENDS Naturals

TruthStates ==
  {"DISCOVERED_CANDIDATE", "MATCH_CONFIRMED", "REQUEST_READY",
   "REQUEST_SUBMITTED", "ACKNOWLEDGED", "VERIFIED_REMOVED",
   "VERIFIED_NOT_PRESENT", "SEARCH_DELISTED", "REAPPEARED",
   "HUMAN_REQUIRED", "NOT_REMOVABLE"}

\* The `from' of T1 and T2, and the state of a row that does not exist.
Absent == "NONE"

TransitionIds ==
  {"T1", "T2", "T3", "T4", "T5", "T6", "T7", "T8", "T9", "T10", "T11", "T12",
   "T13", "T14", "T15", "T16", "T17", "T18", "T19", "T20", "T21"}

Transition(id, from, to, guard) ==
  [id |-> id, from |-> from, to |-> to, guard |-> guard]

LegalTransitions == {
  Transition("T1", Absent, "DISCOVERED_CANDIDATE", {{"sourceRecordObserved"}}),
  Transition("T2", Absent, "VERIFIED_NOT_PRESENT", {{"scanCoverageSufficient"}}),
  Transition("T3", "DISCOVERED_CANDIDATE", "MATCH_CONFIRMED",
             {{"confidenceBasisRecorded", "confidenceAtThreshold"},
              {"confidenceBasisRecorded", "humanApprovedMatch"}}),
  Transition("T4", "DISCOVERED_CANDIDATE", "VERIFIED_NOT_PRESENT",
             {{"subjectMatchDisproved"}}),
  Transition("T5", "MATCH_CONFIRMED", "REQUEST_READY",
             {{"authorityValid", "policyDecisionComplete",
               "recipeSignedAndFresh", "channelPermitted"}}),
  Transition("T6", "MATCH_CONFIRMED", "NOT_REMOVABLE", {{"exemptionRecorded"}}),
  Transition("T7", "MATCH_CONFIRMED", "HUMAN_REQUIRED", {{"humanGateDetected"}}),
  Transition("T8", "REQUEST_READY", "REQUEST_SUBMITTED",
             {{"authorityValid", "idempotencyKeyAssigned", "budgetAvailable",
               "recipeSignedAndFresh", "channelPermitted"}}),
  Transition("T9", "REQUEST_READY", "HUMAN_REQUIRED", {{"humanGateDetected"}}),
  Transition("T10", "REQUEST_READY", "NOT_REMOVABLE", {{"exemptionRecorded"}}),
  Transition("T11", "REQUEST_SUBMITTED", "ACKNOWLEDGED", {{"controllerResponded"}}),
  Transition("T12", "REQUEST_SUBMITTED", "HUMAN_REQUIRED", {{"humanGateDetected"}}),
  Transition("T13", "REQUEST_SUBMITTED", "NOT_REMOVABLE", {{"exemptionRecorded"}}),
  Transition("T14", "ACKNOWLEDGED", "VERIFIED_REMOVED",
             {{"independentObservation", "observationWindowMet",
               "verificationMethodMatches", "recordAbsent"}}),
  Transition("T15", "ACKNOWLEDGED", "NOT_REMOVABLE", {{"lawfulRefusalFinal"}}),
  Transition("T16", "ACKNOWLEDGED", "HUMAN_REQUIRED", {{"humanGateDetected"}}),
  Transition("T17", "VERIFIED_REMOVED", "REAPPEARED", {{"recordPresentAgain"}}),
  Transition("T18", "REAPPEARED", "REQUEST_READY",
             {{"freshAuthorityPolicyRecipe", "authorityValid",
               "policyDecisionComplete", "recipeSignedAndFresh"}}),
  Transition("T19", "REAPPEARED", "NOT_REMOVABLE", {{"exemptionRecorded"}}),
  Transition("T20", "SEARCH_DELISTED", "REAPPEARED", {{"recordPresentAgain"}}),
  Transition("T21", "MATCH_CONFIRMED", "SEARCH_DELISTED",
             {{"searchEngineSource", "delistingObserved"}}) }

ForbiddenTransitions == {
  <<"REQUEST_SUBMITTED", "VERIFIED_REMOVED">>,
  <<"REQUEST_READY", "VERIFIED_REMOVED">>,
  <<"MATCH_CONFIRMED", "REQUEST_SUBMITTED">>,
  <<"DISCOVERED_CANDIDATE", "REQUEST_READY">>,
  <<"SEARCH_DELISTED", "VERIFIED_REMOVED">>,
  <<"VERIFIED_NOT_PRESENT", "VERIFIED_REMOVED">> }

\* The rows of the table for a pair: at most one.
FindTransition(from, to) ==
  {t \in LegalTransitions : t.from = from /\ t.to = to}

IsLegal(from, to) == FindTransition(from, to) # {}

\* The label the audit row of a legal pair carries.
TransitionId(from, to) == (CHOOSE t \in FindTransition(from, to) : TRUE).id

GuardSatisfied(t, facts) == \E need \in t.guard : need \subseteq facts

\* applyTransition returns for this pair and these facts, and does not throw.
ApplyTransition(from, to, facts) ==
  /\ <<from, to>> \notin ForbiddenTransitions
  /\ \E t \in FindTransition(from, to) : GuardSatisfied(t, facts)

=============================================================================
