---------------------------- MODULE CaseLifecycle ----------------------------
(***************************************************************************)
(* The durable life of an exposure and of the cases opened for it, as the  *)
(* persistence adapters drive it.  Every handler is one READ COMMITTED     *)
(* transaction that reads rows with plain SELECTs, lets a domain command   *)
(* decide, and then updates by primary key; two requests on one row overlap *)
(* freely, so a transaction here is two steps:                              *)
(*                                                                         *)
(*   Begin..   the SELECT of the row, and the early returns it decides;    *)
(*   Commit..  the command on what was read, the writes and the COMMIT.    *)
(*                                                                         *)
(* What a handler reads about a case's paperwork it reads in statements of *)
(* their own, at any moment between the two.  A handler that refuses       *)
(* throws inside its transaction and leaves nothing (RollBack); only the    *)
(* webhook's refused response is committed all the same.                    *)
(*                                                                         *)
(* One tenant, one subject, one source, one grant and one recipe.  The     *)
(* If-Match of a request is the version of the row as Begin reads it: with *)
(* any other the handler refuses before it looks further.                  *)
(***************************************************************************)
EXTENDS DomainCommands

CONSTANTS
  Worker,       \* request handlers that may run at one time
  Exposure,     \* exposure rows
  Case,         \* request_case rows that may come to exist
  Decision,     \* policy decisions resolved before their case
  Action,       \* external_action rows that may come to exist
  Unremovable,  \* the decisions whose channel is NOT_REMOVABLE_OUTCOME
  Losable,      \* the paperwork that may lapse
  None          \* no row

ASSUME RowsAssumption ==
  /\ None \notin Case \cup Exposure \cup Action \cup Decision
  /\ Case \cap Exposure = {}
  /\ Decision \cap Action = {}
  /\ Unremovable \subseteq Decision
  /\ Losable \subseteq Paperwork

VARIABLES
  state,        \* truth_state of every exposure and case
  exposureOf,   \* request_case.exposure_id
  decisionOf,   \* request_case.policy_decision_id
  boundTo,      \* policy_decision.case_id
  action,       \* external_action: its case and status
  trail,        \* the milestones among a row's audited transitions
  newest,       \* the code of the audit row committed last
  observed,     \* the windows of a case's observations of absence
  responded,    \* cases with a controller_response row
  lost,         \* paperwork that has lapsed
  work          \* the transaction each worker has open

vars == <<state, exposureOf, decisionOf, boundTo, action, trail, newest,
          observed, responded, lost, work>>

rows == <<state, exposureOf, decisionOf, boundTo, action, trail, newest,
          observed, responded, lost>>

-----------------------------------------------------------------------------

Row == Exposure \cup Case

\* VERIFIED_REMOVED, VERIFIED_NOT_PRESENT and NOT_REMOVABLE are left out of the
\* index request_case_live_uniq.
Settled == {"VERIFIED_REMOVED", "VERIFIED_NOT_PRESENT", "NOT_REMOVABLE"}

Live(c) == state[c] \notin Settled \cup {Absent}

\* The partial unique index: what it lets a case of exposure e be set to.
IndexAdmits(c, e, to) ==
  to \in Settled \/ \A d \in Case \ {c} : exposureOf[d] = e => ~Live(d)

Operations == {"assess", "disprove", "create", "prepare", "reconcile",
               "respond", "verify", "reappear"}

\* `seen' and `lost' are what the transaction read when it began; `other' is
\* the decision a create names or the action a reconciliation is about.
Jobs == [op: Operations \cup {"idle"}, on: Row \cup {None},
         seen: TruthStates \cup {Absent}, lost: SUBSET Paperwork,
         other: Decision \cup Action \cup {None}]
Idle == [op |-> "idle", on |-> None, seen |-> Absent, lost |-> {},
         other |-> None]

Actions == [case: Case \cup {None},
            status: {"NONE", "AMBIGUOUS", "SUBMITTED", "FAILED"}]
NoAction == [case |-> None, status |-> "NONE"]

\* The audit rows something later looks for, and the answer they stand for.
Milestones == {"T8", "T11", "T14"}

TypeOK ==
  /\ state \in [Row -> TruthStates \cup {Absent}]
  /\ exposureOf \in [Case -> Exposure \cup {None}]
  /\ decisionOf \in [Case -> Decision \cup {None}]
  /\ boundTo \in [Decision -> Case \cup {None}]
  /\ action \in [Action -> Actions]
  /\ trail \in [Row -> SUBSET Milestones]
  /\ newest \in [Row -> TransitionIds \cup {Absent}]
  /\ observed \in [Case -> SUBSET BOOLEAN]
  /\ responded \subseteq Case
  /\ lost \subseteq Paperwork
  /\ work \in [Worker -> Jobs]

\* Exposures are inserted by discovery as candidates (T1); nothing else exists.
Init ==
  /\ state = [r \in Row |->
                IF r \in Exposure THEN "DISCOVERED_CANDIDATE" ELSE Absent]
  /\ exposureOf = [c \in Case |-> None]
  /\ decisionOf = [c \in Case |-> None]
  /\ boundTo = [d \in Decision |-> None]
  /\ action = [x \in Action |-> NoAction]
  /\ trail = [r \in Row |-> {}]
  /\ newest = [r \in Row |-> IF r \in Exposure THEN "T1" ELSE Absent]
  /\ observed = [c \in Case |-> {}]
  /\ responded = {}
  /\ lost = {}
  /\ work = [w \in Worker |-> Idle]

-----------------------------------------------------------------------------
(* Parts every handler has                                                 *)

Begin(w, op, r, other) ==
  /\ work[w].op = "idle"
  /\ work' = [work EXCEPT ![w] = [op |-> op, on |-> r, seen |-> state[r],
                                  lost |-> lost, other |-> other]]
  /\ UNCHANGED rows

Running(w, op) == work[w].op = op

Done(w) == work' = [work EXCEPT ![w] = Idle]

\* The state is set by primary key, and one audit row names the transition
\* from the state that was read.
Move(r, from, to) ==
  /\ state' = [state EXCEPT ![r] = to]
  /\ trail' = [trail EXCEPT ![r] = @ \cup ({TransitionId(from, to)} \cap Milestones)]
  /\ newest' = [newest EXCEPT ![r] = TransitionId(from, to)]

\* Defect: the audit row is appended by a later transaction.
MoveCaseUnaudited(c, from, to) ==
  /\ IndexAdmits(c, exposureOf[c], to)
  /\ state' = [state EXCEPT ![c] = to]
  /\ UNCHANGED <<trail, newest>>

\* A case also answers to the index.
MoveCase(c, from, to) ==
  /\ IndexAdmits(c, exposureOf[c], to)
  /\ Move(c, from, to)

Stay == UNCHANGED <<state, trail, newest>>

-----------------------------------------------------------------------------
(* Exposures: recordMatchAssessment and recordDisproof                     *)

BeginAssess(w, e) ==
  /\ state[e] = "DISCOVERED_CANDIDATE"
  /\ Begin(w, "assess", e, None)

\* Below the threshold and unreviewed: the score is stored, and the state that
\* was read is written back with it, with no transition in the audit row.
CommitBelowThreshold(w) ==
  /\ Running(w, "assess")
  /\ state' = [state EXCEPT ![work[w].on] = work[w].seen]
  /\ Done(w)
  /\ UNCHANGED <<exposureOf, decisionOf, boundTo, action, trail, newest,
                 observed, responded, lost>>

CommitAssess(w) ==
  /\ Running(w, "assess")
  /\ \E facts \in SUBSET AssessMatchFacts :
       ApplyTransition(work[w].seen, "MATCH_CONFIRMED", facts)
  /\ Move(work[w].on, work[w].seen, "MATCH_CONFIRMED")
  /\ Done(w)
  /\ UNCHANGED <<exposureOf, decisionOf, boundTo, action, observed, responded,
                 lost>>

BeginDisprove(w, e) ==
  /\ state[e] = "DISCOVERED_CANDIDATE"
  /\ Begin(w, "disprove", e, None)

CommitDisprove(w) ==
  /\ Running(w, "disprove")
  /\ ApplyTransition(work[w].seen, "VERIFIED_NOT_PRESENT",
                     {"subjectMatchDisproved"})
  /\ Move(work[w].on, work[w].seen, "VERIFIED_NOT_PRESENT")
  /\ Done(w)
  /\ UNCHANGED <<exposureOf, decisionOf, boundTo, action, observed, responded,
                 lost>>

-----------------------------------------------------------------------------
(* Cases: createCase                                                       *)

\* Defect: nobody looks whether the decision is bound already.
BeginCreateBound(w, e, d) ==
  /\ state[e] # "DISCOVERED_CANDIDATE"
  /\ ~\E c \in Case : exposureOf[c] = e /\ Live(c)
  /\ lost \cap {"grant", "recipe"} = {}
  /\ Begin(w, "create", e, d)

BeginCreate(w, e, d) ==
  /\ state[e] # "DISCOVERED_CANDIDATE"
  /\ ~\E c \in Case : exposureOf[c] = e /\ Live(c)
  /\ boundTo[d] = None
  /\ lost \cap {"grant", "recipe"} = {}
  /\ Begin(w, "create", e, d)

\* Defect: the rule "one live case" is left to the handler's own SELECT.
CommitCreateUnindexed(w) ==
  /\ Running(w, "create")
  /\ \E c \in Case :
       /\ state[c] = Absent
       /\ state' = [state EXCEPT ![c] = work[w].seen]
       /\ exposureOf' = [exposureOf EXCEPT ![c] = work[w].on]
       /\ decisionOf' = [decisionOf EXCEPT ![c] = work[w].other]
       /\ boundTo' = [boundTo EXCEPT ![work[w].other] = c]
  /\ Done(w)
  /\ UNCHANGED <<action, trail, newest, observed, responded, lost>>

\* The case starts at the exposure's state as it was read, the decision becomes
\* the case's, and the audit row names no transition.
CommitCreate(w) ==
  /\ Running(w, "create")
  /\ \E c \in Case :
       /\ state[c] = Absent
       /\ IndexAdmits(c, work[w].on, work[w].seen)
       /\ state' = [state EXCEPT ![c] = work[w].seen]
       /\ exposureOf' = [exposureOf EXCEPT ![c] = work[w].on]
       /\ decisionOf' = [decisionOf EXCEPT ![c] = work[w].other]
       /\ boundTo' = [boundTo EXCEPT ![work[w].other] = c]
  /\ Done(w)
  /\ UNCHANGED <<action, trail, newest, observed, responded, lost>>

-----------------------------------------------------------------------------
(* Cases: guardedUpdate and recordHumanGate                                *)

BeginPrepare(w, c) ==
  /\ state[c] # Absent
  /\ Begin(w, "prepare", c, None)

\* `found' is the paperwork the handler found lapsed.
ReadsPaperwork(w, found) == work[w].lost \subseteq found /\ found \subseteq lost

ChannelPermitted(c, found) ==
  "permission" \notin found /\ decisionOf[c] \notin Unremovable

\* Defect: what the caller asks for is what the case becomes.
CommitPrepareAsAsked(w, requested, signed) ==
  LET c == work[w].on
  IN  /\ Running(w, "prepare")
      /\ \E found \in SUBSET lost :
           /\ ReadsPaperwork(w, found)
           /\ PaperworkUsable(found)
           /\ signed => "signature" \notin found
      /\ IsLegal(work[w].seen, requested)
      /\ MoveCase(c, work[w].seen, requested)
      /\ Done(w)
      /\ UNCHANGED <<exposureOf, decisionOf, boundTo, action, observed,
                     responded, lost>>

\* The command decides what the paperwork justifies; a caller that asked for
\* anything else is refused.  `signed': the recipe's signature is verified too.
CommitPrepare(w, requested, signed) ==
  LET c == work[w].on
      gate == requested = "HUMAN_REQUIRED"
  IN  /\ Running(w, "prepare")
      /\ \E found \in SUBSET lost :
           LET permitted == ChannelPermitted(c, found)
           IN  /\ ReadsPaperwork(w, found)
               /\ PaperworkUsable(found)
               /\ signed => "signature" \notin found
               /\ requested = PrepareRequestTarget(gate, permitted)
               /\ ApplyTransition(work[w].seen, requested,
                    PrepareRequestFacts(work[w].seen, gate, permitted))
      /\ MoveCase(c, work[w].seen, requested)
      /\ Done(w)
      /\ UNCHANGED <<exposureOf, decisionOf, boundTo, action, observed,
                     responded, lost>>

GuardedUpdate(w) ==
  \E requested \in {"REQUEST_READY", "NOT_REMOVABLE", "HUMAN_REQUIRED"} :
    CommitPrepare(w, requested, TRUE)

\* recordHumanGate: the gate's row and the transition commit together; the
\* recipe's signature is not verified on this path.
RecordHumanGate(w) == CommitPrepare(w, "HUMAN_REQUIRED", FALSE)

-----------------------------------------------------------------------------
(* External actions: recordReconciliation                                  *)

\* External: whatever executes actions leaves an ambiguous row for a case that
\* is ready.  executeAction in src/ has no transport and always refuses.
ActionAttempted(x, c) ==
  /\ action[x].status = "NONE"
  /\ state[c] = "REQUEST_READY"
  /\ action' = [action EXCEPT ![x] = [case |-> c, status |-> "AMBIGUOUS"]]
  /\ UNCHANGED <<state, exposureOf, decisionOf, boundTo, trail, newest,
                 observed, responded, lost, work>>

\* Defect: an action whose effect is known is reconciled again.
BeginReconcileSettled(w, x) ==
  /\ action[x].status # "NONE"
  /\ Begin(w, "reconcile", action[x].case, x)

BeginReconcile(w, x) ==
  /\ action[x].status = "AMBIGUOUS"
  /\ Begin(w, "reconcile", action[x].case, x)

Resolve(x, status) == action' = [action EXCEPT ![x].status = status]

\* Defect: a confirmed effect submits the case from whatever state it is in.
EffectConfirmedAnywhere(w) ==
  /\ Running(w, "reconcile")
  /\ Resolve(work[w].other, "SUBMITTED")
  /\ state' = [state EXCEPT ![work[w].on] = "REQUEST_SUBMITTED"]
  /\ IndexAdmits(work[w].on, exposureOf[work[w].on], "REQUEST_SUBMITTED")
  /\ UNCHANGED <<trail, newest>>
  /\ Done(w)
  /\ UNCHANGED <<exposureOf, decisionOf, boundTo, observed, responded, lost>>

\* T8 is applied only to a case read as ready, with facts the code asserts and
\* does not read again.
EffectConfirmed(w) ==
  /\ Running(w, "reconcile")
  /\ Resolve(work[w].other, "SUBMITTED")
  /\ IF /\ work[w].seen = "REQUEST_READY"
        /\ ApplyTransition(work[w].seen, "REQUEST_SUBMITTED", ExecuteActionFacts)
     THEN MoveCase(work[w].on, work[w].seen, "REQUEST_SUBMITTED")
     ELSE Stay
  /\ Done(w)
  /\ UNCHANGED <<exposureOf, decisionOf, boundTo, observed, responded, lost>>

EffectAbsent(w) ==
  /\ Running(w, "reconcile")
  /\ Resolve(work[w].other, "FAILED")
  /\ Stay
  /\ Done(w)
  /\ UNCHANGED <<exposureOf, decisionOf, boundTo, observed, responded, lost>>

\* INDETERMINATE: the response reports an escalation to HUMAN_REQUIRED; the
\* action stays ambiguous and the case where it is.
EffectIndeterminate(w) ==
  /\ Running(w, "reconcile")
  /\ Done(w)
  /\ UNCHANGED rows

-----------------------------------------------------------------------------
(* Controller responses: recordControllerResponse                          *)

BeginRespond(w, c) ==
  /\ state[c] # Absent
  /\ Begin(w, "respond", c, None)

\* The table alone decides from which states a response is accepted.
CommitRespond(w) ==
  /\ Running(w, "respond")
  /\ \E outcome \in ResponseOutcomes :
       /\ ApplyTransition(work[w].seen, ResponseTarget[outcome],
                          ResponseFacts[outcome])
       /\ MoveCase(work[w].on, work[w].seen, ResponseTarget[outcome])
  /\ responded' = responded \cup {work[w].on}
  /\ Done(w)
  /\ UNCHANGED <<exposureOf, decisionOf, boundTo, action, observed, lost>>

\* The webhook's call returns the refusal instead of throwing it, so the row
\* that was inserted before the table was asked is committed: no move, no audit
\* row.  A refusal that must name its basis is turned away before the insert.
CommitResponseRefused(w) ==
  /\ Running(w, "respond")
  /\ \E outcome \in ResponseOutcomes \ {"REFUSED"} :
       ~ApplyTransition(work[w].seen, ResponseTarget[outcome],
                        ResponseFacts[outcome])
  /\ responded' = responded \cup {work[w].on}
  /\ Stay
  /\ Done(w)
  /\ UNCHANGED <<exposureOf, decisionOf, boundTo, action, observed, lost>>

-----------------------------------------------------------------------------
(* Verification: recordVerificationObservation                             *)

\* The T8 row gives the acting identity and the instant the window starts.
BeginVerify(w, c) ==
  /\ state[c] = "ACKNOWLEDGED"
  /\ "T8" \in trail[c]
  /\ Begin(w, "verify", c, None)

\* A verification_observation row; of one that found the record still there, or
\* could not tell, nothing later depends.
Observe(c, finding, windowMet) ==
  observed' = IF finding = "ABSENT"
              THEN [observed EXCEPT ![c] = @ \cup {windowMet}]
              ELSE observed

\* Defect: the finding is recorded and the case is moved whatever it is.
CommitVerifyAnyFinding(w, finding, windowMet) ==
  LET c == work[w].on
  IN  /\ Running(w, "verify")
      /\ Observe(c, finding, windowMet)
      /\ MoveCase(c, work[w].seen, "VERIFIED_REMOVED")
      /\ Done(w)
      /\ UNCHANGED <<exposureOf, decisionOf, boundTo, action, responded, lost>>

\* Absence is refused before its window has elapsed; any other observation is
\* recorded, and only one that satisfies T14 moves the case.
CommitVerify(w, finding, windowMet) ==
  LET c == work[w].on
      facts == VerificationFacts(finding, windowMet)
  IN  /\ Running(w, "verify")
      /\ finding = "ABSENT" => windowMet
      /\ Observe(c, finding, windowMet)
      /\ IF ApplyTransition(work[w].seen, "VERIFIED_REMOVED", facts)
         THEN MoveCase(c, work[w].seen, "VERIFIED_REMOVED")
         ELSE Stay
      /\ Done(w)
      /\ UNCHANGED <<exposureOf, decisionOf, boundTo, action, responded, lost>>

-----------------------------------------------------------------------------
(* Reappearance: recordReappearance                                        *)

\* External: nothing under src/ moves an exposure to VERIFIED_REMOVED when its
\* case gets there; whatever loads such rows does.
ExposureSettled(e) ==
  /\ state[e] = "MATCH_CONFIRMED"
  /\ \E c \in Case : exposureOf[c] = e /\ state[c] = "VERIFIED_REMOVED"
  /\ state' = [state EXCEPT ![e] = "VERIFIED_REMOVED"]
  /\ UNCHANGED <<exposureOf, decisionOf, boundTo, action, trail, newest,
                 observed, responded, lost, work>>

\* The prior event named in the request is a T14 row of a case of the exposure.
BeginReappear(w, e) ==
  /\ state[e] = "VERIFIED_REMOVED"
  /\ \E c \in Case : exposureOf[c] = e /\ "T14" \in trail[c]
  /\ Begin(w, "reappear", e, None)

CommitReappear(w) ==
  /\ Running(w, "reappear")
  /\ ApplyTransition(work[w].seen, "REAPPEARED", ReappearanceFacts)
  /\ Move(work[w].on, work[w].seen, "REAPPEARED")
  /\ Done(w)
  /\ UNCHANGED <<exposureOf, decisionOf, boundTo, action, observed, responded,
                 lost>>

-----------------------------------------------------------------------------

\* A refusal, an error, a crash: the transaction leaves nothing behind.
RollBack(w) ==
  /\ work[w].op # "idle"
  /\ Done(w)
  /\ UNCHANGED rows

\* A grant is revoked or expires, a policy version is superseded, a recipe goes
\* stale or is disabled, a source stops permitting writes.
Lapse(item) ==
  /\ item \in Losable \ lost
  /\ lost' = lost \cup {item}
  /\ UNCHANGED <<state, exposureOf, decisionOf, boundTo, action, trail, newest,
                 observed, responded, work>>

Handle(w) ==
  \/ \E e \in Exposure :
       \/ BeginAssess(w, e)
       \/ BeginDisprove(w, e)
       \/ BeginReappear(w, e)
       \/ \E d \in Decision : BeginCreate(w, e, d)
  \/ \E c \in Case :
       \/ BeginPrepare(w, c)
       \/ BeginRespond(w, c)
       \/ BeginVerify(w, c)
  \/ \E x \in Action : BeginReconcile(w, x)
  \/ CommitBelowThreshold(w)
  \/ CommitAssess(w)
  \/ CommitDisprove(w)
  \/ CommitCreate(w)
  \/ GuardedUpdate(w)
  \/ RecordHumanGate(w)
  \/ EffectConfirmed(w)
  \/ EffectAbsent(w)
  \/ EffectIndeterminate(w)
  \/ CommitRespond(w)
  \/ CommitResponseRefused(w)
  \/ \E finding \in Findings, windowMet \in BOOLEAN :
       CommitVerify(w, finding, windowMet)
  \/ CommitReappear(w)
  \/ RollBack(w)

Next ==
  \/ \E w \in Worker : Handle(w)
  \/ \E x \in Action, c \in Case : ActionAttempted(x, c)
  \/ \E e \in Exposure : ExposureSettled(e)
  \/ \E item \in Paperwork : Lapse(item)

Spec == Init /\ [][Next]_vars

-----------------------------------------------------------------------------
(* Properties *)

\* request_case_live_uniq and createCase: one subject, source and exposure never
\* has two live cases, whatever creates overlap and whatever settled case a late
\* writer brings back to life.
AtMostOneLiveCase ==
  \A c, d \in Case :
    Live(c) /\ Live(d) /\ exposureOf[c] = exposureOf[d] => c = d

\* An exposure's removal was earned: one of its cases went through a submitted
\* action, a controller's answer and an observation of absence after the window.
Earned(e) ==
  \E c \in Case :
    /\ exposureOf[c] = e
    /\ {"T8", "T11", "T14"} \subseteq trail[c]
    /\ TRUE \in observed[c]

\* VG-VERIFY-004: VERIFIED_REMOVED is never shown for a case or an exposure whose
\* removal was not earned, however stale the reads that led there.
RemovalIsEarned ==
  /\ \A c \in Case : state[c] = "VERIFIED_REMOVED" => Earned(exposureOf[c])
  /\ \A e \in Exposure : state[e] = "VERIFIED_REMOVED" => Earned(e)

\* The state in which the table leaves its rows of this code.
TargetOf(id) == (CHOOSE t \in LegalTransitions : t.id = id).to
SourceOf(id) == (CHOOSE t \in LegalTransitions : t.id = id).from

\* SM-2: the state a case is in is where the audit row that was committed last
\* leaves it, even when two transactions overwrote each other.
CaseStateIsAudited ==
  \A c \in Case : newest[c] # Absent => state[c] = TargetOf(newest[c])

\* The port of the audit sink: "a committed state change cannot lack" its audit row.
\* The state an exposure is in is where its last transition left it, although an
\* assessment writes back the state it read and records no transition.  Not kept:
\* README, section 7.
ExposureStateIsAudited == \A e \in Exposure : state[e] = TargetOf(newest[e])

\* T6, T10, T13, T15, T19: a case ends NOT_REMOVABLE only because its source may
\* no longer be written to, its decision says so, or its controller answered.
NotRemovableIsJustified ==
  \A c \in Case :
    state[c] = "NOT_REMOVABLE" =>
      \/ "permission" \in lost
      \/ decisionOf[c] \in Unremovable
      \/ c \in responded

\* truth-state.ts: "Any pair not present here is illegal".  A case that moves
\* moves along the table.
CasesFollowTable ==
  [][\A c \in Case :
       state[c] # Absent /\ state'[c] # state[c] => IsLegal(state[c], state'[c])]_vars

\* The audit row of a move names the state the case really left.
AuditNamesStateLeft ==
  [][\A c \in Case :
       state[c] # Absent /\ state'[c] # state[c] =>
         /\ newest'[c] # Absent
         /\ SourceOf(newest'[c]) = state[c]]_vars

\* createCase: "a decision already bound to another case cannot authorise a
\* second one".
DecisionAuthorisesOneCase ==
  \A c, d \in Case :
    decisionOf[c] = decisionOf[d] /\ decisionOf[c] # None => c = d

\* recordReconciliation: once an action's effect has been established it is not
\* established differently.
EffectSettledOnce ==
  [][\A x \in Action :
       action[x].status \in {"SUBMITTED", "FAILED"} => action'[x] = action[x]]_vars

-----------------------------------------------------------------------------
(* The inductive invariant behind the safety properties                    *)

\* A case has an exposure exactly when it exists, and a row never goes away.
ExistenceInv ==
  /\ \A e \in Exposure : state[e] \in {"DISCOVERED_CANDIDATE", "MATCH_CONFIRMED",
       "VERIFIED_NOT_PRESENT", "VERIFIED_REMOVED", "REAPPEARED"}
  /\ \A c \in Case : state[c] = Absent <=> exposureOf[c] = None
  /\ \A c \in Case : state[c] = Absent => newest[c] = Absent
  /\ \A x \in Action : action[x].status # "NONE" =>
       action[x].case \in Case /\ state[action[x].case] # Absent

\* What must have happened to row r before it can be, or be read, in state s.
Reached(r, s) ==
  /\ r \in Case /\ s \in {"REQUEST_SUBMITTED", "ACKNOWLEDGED"} => "T8" \in trail[r]
  /\ r \in Case /\ s = "ACKNOWLEDGED" => "T11" \in trail[r]
  /\ r \in Case /\ s = "VERIFIED_REMOVED" => Earned(exposureOf[r])
  /\ r \in Exposure /\ s = "VERIFIED_REMOVED" => Earned(r)

\* The rows a transaction names exist and what it read of them was once so.
JobOK(job) ==
  /\ job.op = "idle" => job = Idle
  /\ job.op # "idle" => Reached(job.on, job.seen) /\ job.lost \subseteq lost
  /\ job.op \in {"assess", "disprove", "create", "reappear"} => job.on \in Exposure
  /\ job.op \in {"assess", "disprove"} => job.seen = "DISCOVERED_CANDIDATE"
  /\ job.op = "create" =>
       /\ job.other \in Decision
       /\ job.seen \in {"MATCH_CONFIRMED", "VERIFIED_NOT_PRESENT",
                         "VERIFIED_REMOVED", "REAPPEARED"}
  /\ job.op = "reappear" => job.seen = "VERIFIED_REMOVED"
  /\ job.op \in {"prepare", "reconcile", "respond", "verify"} =>
       job.on \in Case /\ job.seen # Absent /\ state[job.on] # Absent
  /\ job.op = "reconcile" =>
       job.other \in Action /\ action[job.other].status # "NONE"
  /\ job.op = "verify" => job.seen = "ACKNOWLEDGED"

JobInv == \A w \in Worker : JobOK(work[w])

ReachedInv == \A r \in Row : Reached(r, state[r])

IInv ==
  /\ TypeOK
  /\ ExistenceInv
  /\ JobInv
  /\ ReachedInv
  /\ AtMostOneLiveCase
  /\ CaseStateIsAudited
  /\ NotRemovableIsJustified

=============================================================================
