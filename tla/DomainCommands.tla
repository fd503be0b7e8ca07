---------------------------- MODULE DomainCommands ----------------------------
(***************************************************************************)
(* The domain commands that move a truth state: the state each one aims at *)
(* and the facts it hands to the table.  A command throws, and its caller's *)
(* transaction is rolled back, when ApplyTransition does not hold.          *)
(***************************************************************************)
EXTENDS TruthStateMachine

\* What a case's paperwork needs: an unrevoked, unexpired grant, the policy
\* version in force, a recipe that is enabled, fresh and verifiably signed, and a
\* source that permits writes.
Paperwork == {"grant", "policy", "recipe", "freshness", "signature", "permission"}

(* AssessMatch *)

AssessMatchFacts == {"confidenceAtThreshold", "confidenceBasisRecorded",
                     "humanApprovedMatch"}

(* PrepareRequest *)

\* assertAuthorityUsableAt, assertPolicyInForce and assertRecipeUsableAt.
PaperworkUsable(lost) == lost \cap {"grant", "policy", "recipe", "freshness"} = {}

\* What the guards justify, whatever the caller asked for.
PrepareRequestTarget(gate, channelPermitted) ==
  IF gate THEN "HUMAN_REQUIRED"
  ELSE IF channelPermitted THEN "REQUEST_READY"
  ELSE "NOT_REMOVABLE"

PrepareRequestFacts(from, gate, channelPermitted) ==
  {"authorityValid", "policyDecisionComplete", "recipeSignedAndFresh"}
    \cup (IF channelPermitted THEN {"channelPermitted"} ELSE {})
    \cup (IF from = "REAPPEARED" THEN {"freshAuthorityPolicyRecipe"} ELSE {})
    \cup (IF gate THEN {"humanGateDetected"} ELSE {})
    \cup (IF ~gate /\ ~channelPermitted THEN {"exemptionRecorded"} ELSE {})

(* ExecuteAction, outcome ACCEPTED *)

ExecuteActionFacts == {"authorityValid", "idempotencyKeyAssigned",
                       "budgetAvailable", "recipeSignedAndFresh",
                       "channelPermitted"}

(* RecordControllerResponse *)

ResponseOutcomes == {"ACKNOWLEDGED", "HUMAN_GATE", "REFUSED"}

ResponseTarget ==
  [ACKNOWLEDGED |-> "ACKNOWLEDGED", HUMAN_GATE |-> "HUMAN_REQUIRED",
   REFUSED |-> "NOT_REMOVABLE"]

\* A REFUSED outcome always has a recorded basis: the caller's, or the timeout.
ResponseFacts ==
  [ACKNOWLEDGED |-> {"controllerResponded"}, HUMAN_GATE |-> {"humanGateDetected"},
   REFUSED |-> {"exemptionRecorded", "lawfulRefusalFinal"}]

(* RecordVerification *)

Findings == {"PRESENT", "ABSENT", "INCONCLUSIVE"}

\* Independence and method have been checked by the caller.
VerificationFacts(finding, windowMet) ==
  {"independentObservation", "verificationMethodMatches"}
    \cup (IF windowMet THEN {"observationWindowMet"} ELSE {})
    \cup (IF finding = "ABSENT" THEN {"recordAbsent"} ELSE {})

(* DetectReappearance *)

ReappearanceFacts == {"recordPresentAgain"}

=============================================================================
