------------------------------ MODULE CaseProofs ------------------------------
(***************************************************************************)
(* Proofs about cases: how they move (CaseLifecycle), and the deadlines and *)
(* appeals of one (CaseDeadlines).                                          *)
(*                                                                         *)
(* IInv is an inductive invariant of CaseLifecycle for any number of       *)
(* concurrent handlers, exposures, cases, decisions and actions; and with  *)
(* one handler at a time every move of a case follows the table.  The table *)
(* is consulted through a few lemmas.  Rows only ever gain history (Grows), *)
(* so what a transaction read of them stays justified; an action then is a  *)
(* write of one exposure, of one case, or of none.                          *)
(*                                                                         *)
(* DueInv is an inductive invariant of CaseDeadlines.  It is a condition     *)
(* on each request (DueFits), which its own steps establish and the writes   *)
(* of the others leave true, and one on the row locks they share.           *)
(***************************************************************************)
EXTENDS CaseLifecycle, CaseDeadlines, TLAPS

-----------------------------------------------------------------------------
(* The table *)

\* What the table says of a row's identifier.
RowFacts(t) ==
  /\ t.id \in TransitionIds
  /\ t.to \in TruthStates
  /\ t.from = CASE t.id \in {"T1", "T2"} -> Absent
                [] t.id \in {"T3", "T4"} -> "DISCOVERED_CANDIDATE"
                [] t.id \in {"T8", "T9", "T10"} -> "REQUEST_READY"
                [] t.id \in {"T11", "T12", "T13"} -> "REQUEST_SUBMITTED"
                [] t.id \in {"T14", "T15", "T16"} -> "ACKNOWLEDGED"
                [] t.id = "T17" -> "VERIFIED_REMOVED"
                [] t.id \in {"T18", "T19"} -> "REAPPEARED"
                [] t.id = "T20" -> "SEARCH_DELISTED"
                [] OTHER -> "MATCH_CONFIRMED"
  /\ t.to = CASE t.id = "T1" -> "DISCOVERED_CANDIDATE"
              [] t.id \in {"T2", "T4"} -> "VERIFIED_NOT_PRESENT"
              [] t.id = "T3" -> "MATCH_CONFIRMED"
              [] t.id \in {"T5", "T18"} -> "REQUEST_READY"
              [] t.id \in {"T7", "T9", "T12", "T16"} -> "HUMAN_REQUIRED"
              [] t.id = "T8" -> "REQUEST_SUBMITTED"
              [] t.id = "T11" -> "ACKNOWLEDGED"
              [] t.id = "T14" -> "VERIFIED_REMOVED"
              [] t.id \in {"T17", "T20"} -> "REAPPEARED"
              [] t.id = "T21" -> "SEARCH_DELISTED"
              [] OTHER -> "NOT_REMOVABLE"
  /\ t.to = "ACKNOWLEDGED" => t.id = "T11" /\ t.from = "REQUEST_SUBMITTED"
  /\ t.to = "REQUEST_SUBMITTED" => t.id = "T8"
  /\ t.to = "VERIFIED_REMOVED" =>
       /\ t.id = "T14"
       /\ t.guard = {{"independentObservation", "observationWindowMet",
                      "verificationMethodMatches", "recordAbsent"}}

LEMMA TableRows == \A t \in LegalTransitions : RowFacts(t)
BY DEF LegalTransitions, Transition, RowFacts, TransitionIds, TruthStates, Absent

\* A legal pair has a label, and the label names the state moved to.
LEMMA LabelOfPair ==
  ASSUME NEW from, NEW to, IsLegal(from, to)
  PROVE  /\ TransitionId(from, to) \in TransitionIds
         /\ to \in TruthStates
         /\ TargetOf(TransitionId(from, to)) = to
         /\ SourceOf(TransitionId(from, to)) = from
         /\ to = "ACKNOWLEDGED" =>
              TransitionId(from, to) = "T11" /\ from = "REQUEST_SUBMITTED"
         /\ to = "REQUEST_SUBMITTED" => TransitionId(from, to) = "T8"
         /\ to = "VERIFIED_REMOVED" => TransitionId(from, to) = "T14"
<1> DEFINE t == CHOOSE t \in FindTransition(from, to) : TRUE
<1>1. t \in LegalTransitions /\ t.from = from /\ t.to = to
  BY DEF IsLegal, FindTransition
<1>2. RowFacts(t)
  BY <1>1, TableRows
<1> DEFINE u == CHOOSE u \in LegalTransitions : u.id = t.id
<1>3. u \in LegalTransitions /\ u.id = t.id
  BY <1>1
<1>4. RowFacts(u)
  BY <1>3, TableRows
<1>5. u.to = t.to /\ u.from = t.from
  BY <1>2, <1>3, <1>4, ZenonT(60) DEF RowFacts
<1>6. TransitionId(from, to) = t.id /\ TargetOf(t.id) = u.to /\ SourceOf(t.id) = u.from
  BY DEF TransitionId, TargetOf, SourceOf
<1>7. QED
  BY <1>1, <1>2, <1>5, <1>6 DEF RowFacts

LEMMA AppliedIsLegal ==
  ASSUME NEW from, NEW to, NEW facts, ApplyTransition(from, to, facts)
  PROVE  IsLegal(from, to)
BY DEF ApplyTransition, IsLegal

\* T14 needs an observation of absence and its window.
LEMMA RemovalNeedsAbsence ==
  ASSUME NEW from, NEW finding, NEW windowMet \in BOOLEAN,
         ApplyTransition(from, "VERIFIED_REMOVED",
                         VerificationFacts(finding, windowMet))
  PROVE  finding = "ABSENT" /\ windowMet
<1>1. PICK t \in LegalTransitions :
        /\ t.to = "VERIFIED_REMOVED"
        /\ GuardSatisfied(t, VerificationFacts(finding, windowMet))
  BY DEF ApplyTransition, FindTransition
<1>2. {"independentObservation", "observationWindowMet",
       "verificationMethodMatches", "recordAbsent"}
         \subseteq VerificationFacts(finding, windowMet)
  BY <1>1, TableRows DEF RowFacts, GuardSatisfied
<1>3. QED
  BY <1>2 DEF VerificationFacts

-----------------------------------------------------------------------------
(* History only grows *)

Grows ==
  /\ \A r \in Row : trail[r] \subseteq trail'[r]
  /\ \A c \in Case : observed[c] \subseteq observed'[c]
  /\ \A c \in Case : state[c] # Absent =>
       exposureOf'[c] = exposureOf[c] /\ state'[c] # Absent
  /\ \A x \in Action : action[x].status # "NONE" => action'[x].status # "NONE"
  /\ lost \subseteq lost'

LEMMA EarnedPersists ==
  ASSUME TypeOK, ExistenceInv, Grows, NEW e \in Exposure, Earned(e)
  PROVE  Earned(e)'
<1>1. PICK c \in Case : /\ exposureOf[c] = e
                        /\ {"T8", "T11", "T14"} \subseteq trail[c]
                        /\ TRUE \in observed[c]
  BY DEF Earned
<1>2. exposureOf[c] # None
  BY <1>1, RowsAssumption
<1>3. exposureOf'[c] = e
  BY <1>1, <1>2 DEF ExistenceInv, Grows
<1>4. {"T8", "T11", "T14"} \subseteq trail'[c] /\ TRUE \in observed'[c]
  BY <1>1 DEF Grows, Row
<1>5. QED
  BY <1>3, <1>4 DEF Earned

LEMMA ReachedPersists ==
  ASSUME TypeOK, ExistenceInv, Grows, NEW r \in Row, NEW s, Reached(r, s),
         r \in Case => state[r] # Absent
  PROVE  Reached(r, s)'
<1>1. /\ r \in Case /\ s \in {"REQUEST_SUBMITTED", "ACKNOWLEDGED"} =>
           "T8" \in trail'[r]
      /\ r \in Case /\ s = "ACKNOWLEDGED" => "T11" \in trail'[r]
  BY DEF Reached, Grows
<1>2. ASSUME r \in Exposure, s = "VERIFIED_REMOVED"
      PROVE  Earned(r)'
  BY <1>2, EarnedPersists DEF Reached
<1>3. ASSUME r \in Case, s = "VERIFIED_REMOVED"
      PROVE  (Earned(exposureOf[r]))'
  <2>1. exposureOf[r] \in Exposure /\ exposureOf'[r] = exposureOf[r]
    BY <1>3 DEF TypeOK, ExistenceInv, Grows
  <2>2. PICK e \in Exposure : e = exposureOf[r]
    BY <2>1
  <2>3. Earned(e)
    BY <1>3, <2>2 DEF Reached
  <2>4. Earned(e)'
    BY <2>3, EarnedPersists
  <2>5. QED
    BY <2>1, <2>2, <2>4
<1>4. QED
  BY <1>1, <1>2, <1>3 DEF Reached

-----------------------------------------------------------------------------
(* Kinds of step *)

\* No transaction goes on to anything new: some may end.
Ends ==
  /\ work' \in [Worker -> Jobs]
  /\ \A w \in Worker : work'[w] = work[w] \/ work'[w] = Idle

LEMMA DoneEnds ==
  ASSUME TypeOK, NEW w \in Worker, Done(w)
  PROVE  Ends
BY DEF TypeOK, Done, Ends, Jobs, Idle

\* What is OK of a transaction stays OK.
LEMMA JobPersists ==
  ASSUME TypeOK, ExistenceInv, Grows, NEW job \in Jobs, JobOK(job)
  PROVE  JobOK(job)'
<1>1. CASE job.op = "idle"
  BY <1>1 DEF JobOK
<1>2. CASE job.op # "idle"
  <2>1. job.on \in Row /\ (job.on \in Case => state[job.on] # Absent)
    BY <1>2, RowsAssumption DEF JobOK, Jobs, Operations, Row
  <2>2. Reached(job.on, job.seen)'
    BY <1>2, <2>1, ReachedPersists DEF JobOK
  <2>3. job.lost \subseteq lost'
    BY <1>2 DEF JobOK, Grows
  <2>4. job.on \in Case => state'[job.on] # Absent
    BY <2>1 DEF Grows
  <2>5. job.op = "reconcile" => action'[job.other].status # "NONE"
    BY DEF JobOK, Grows
  <2>6. QED
    BY <1>2, <2>2, <2>3, <2>4, <2>5 DEF JobOK
<1>3. QED
  BY <1>1, <1>2

LEMMA JobsEnd ==
  ASSUME TypeOK, ExistenceInv, JobInv, Grows, Ends
  PROVE  JobInv'
<1>1. ASSUME NEW w \in Worker
      PROVE  JobOK(work[w])'
  <2>1. CASE work'[w] = Idle
    BY <2>1 DEF JobOK, Idle
  <2>2. CASE work'[w] = work[w]
    <3>1. PICK job \in Jobs : job = work[w]
      BY DEF TypeOK
    <3>2. JobOK(job)
      BY <3>1 DEF JobInv, JobOK
    <3>3. JobOK(job)'
      BY <3>2, JobPersists
    <3>4. work'[w] = job
      BY <2>2, <3>1
    <3>5. QED
      BY <3>3, <3>4 DEF JobOK
  <2>3. QED
    BY <2>1, <2>2 DEF Ends
<1>2. QED
  BY <1>1 DEF JobInv

\* A transaction begins, or ends, and no row changes.
LEMMA WorkInv ==
  ASSUME IInv, NEW w \in Worker, NEW job \in Jobs, JobOK(job),
         work' = [work EXCEPT ![w] = job], UNCHANGED rows
  PROVE  IInv'
<1>1. /\ TypeOK /\ ExistenceInv /\ JobInv /\ ReachedInv /\ AtMostOneLiveCase
      /\ CaseStateIsAudited /\ NotRemovableIsJustified
  BY DEF IInv
<1>2. TypeOK' /\ ExistenceInv'
  BY <1>1 DEF TypeOK, ExistenceInv, rows
<1>3. JobInv'
  BY <1>1, ZenonT(60) DEF JobInv, JobOK, Reached, Earned, TypeOK, rows
<1>4. ReachedInv' /\ AtMostOneLiveCase'
  BY <1>1 DEF ReachedInv, Reached, Earned, AtMostOneLiveCase, Live, rows
<1>5. CaseStateIsAudited' /\ NotRemovableIsJustified'
  BY <1>1 DEF CaseStateIsAudited, NotRemovableIsJustified, rows
<1>6. QED
  BY <1>2, <1>3, <1>4, <1>5 DEF IInv

\* An exposure's state is written.
LEMMA ExposureWriteInv ==
  ASSUME IInv, Ends, NEW e \in Exposure,
         NEW s \in {"DISCOVERED_CANDIDATE", "MATCH_CONFIRMED",
                    "VERIFIED_NOT_PRESENT", "VERIFIED_REMOVED", "REAPPEARED"},
         s = "VERIFIED_REMOVED" => Earned(e),
         state' = [state EXCEPT ![e] = s],
         trail' \in [Row -> SUBSET Milestones],
         \A r \in Row : trail[r] \subseteq trail'[r],
         newest' \in [Row -> TransitionIds \cup {Absent}],
         \A c \in Case : newest'[c] = newest[c],
         UNCHANGED <<exposureOf, decisionOf, boundTo, action, observed,
                     responded, lost>>
  PROVE  IInv'
<1> USE RowsAssumption
<1>1. /\ TypeOK /\ ExistenceInv /\ JobInv /\ ReachedInv /\ AtMostOneLiveCase
      /\ CaseStateIsAudited /\ NotRemovableIsJustified
  BY DEF IInv
<1>2. state'[e] = s /\ \A r \in Row \ {e} : state'[r] = state[r]
  BY <1>1 DEF TypeOK, Row
<1>3. \A c \in Case : c \in Row /\ state'[c] = state[c]
  BY <1>2 DEF Row
<1>4. TypeOK'
  BY <1>1 DEF TypeOK, Ends, TruthStates
<1>5. ExistenceInv'
  BY <1>1, <1>2, <1>3 DEF ExistenceInv, Row
<1>6. Grows
  BY <1>3 DEF Grows
<1>7. JobInv'
  BY <1>1, <1>6, JobsEnd
<1>8. ReachedInv'
  <2> SUFFICES ASSUME NEW r \in Row PROVE Reached(r, state[r])'
    BY DEF ReachedInv
  <2>1. PICK t : t = state'[r]
    OBVIOUS
  <2>2. CASE r \in Case /\ state[r] = Absent
    BY <2>2, <1>3 DEF Reached, Absent, Row
  <2>3. CASE r \in Case => state[r] # Absent
    <3>1. Reached(r, t)
      <4>1. CASE r = e
        BY <4>1, <2>1, <1>2 DEF Reached
      <4>2. CASE r # e
        BY <4>2, <2>1, <1>1, <1>2 DEF ReachedInv, Reached
      <4>3. QED
        BY <4>1, <4>2
    <3>2. Reached(r, t)'
      BY <3>1, <2>3, <1>1, <1>6, ReachedPersists
    <3>3. QED
      BY <3>2, <2>1 DEF Reached
  <2>4. QED
    BY <2>2, <2>3
<1>9. AtMostOneLiveCase'
  BY <1>1, <1>3 DEF AtMostOneLiveCase, Live
<1>10. CaseStateIsAudited' /\ NotRemovableIsJustified'
  BY <1>1, <1>3 DEF CaseStateIsAudited, NotRemovableIsJustified
<1>11. QED
  BY <1>4, <1>5, <1>7, <1>8, <1>9, <1>10 DEF IInv

\* A case that exists is written, with the rows that go with it.  The new state
\* is the audited one, is admitted by the index and is justified by history.
LEMMA CaseWriteInv ==
  ASSUME IInv, Ends, NEW c \in Case, state[c] # Absent, NEW s \in TruthStates,
         s = state[c] \/ IndexAdmits(c, exposureOf[c], s),
         state' = [state EXCEPT ![c] = s],
         trail' \in [Row -> SUBSET Milestones],
         \A r \in Row : trail[r] \subseteq trail'[r],
         newest' \in [Row -> TransitionIds \cup {Absent}],
         \A d \in Case \ {c} : newest'[d] = newest[d],
         newest'[c] # Absent => s = TargetOf(newest'[c]),
         s = "NOT_REMOVABLE" => \/ "permission" \in lost
                                \/ decisionOf[c] \in Unremovable
                                \/ c \in responded',
         Reached(c, s)',
         observed' \in [Case -> SUBSET BOOLEAN],
         \A d \in Case : observed[d] \subseteq observed'[d],
         responded \subseteq responded', responded' \subseteq Case,
         action' \in [Action -> Actions],
         \A x \in Action : /\ action'[x].case = action[x].case
                           /\ action'[x].status = "NONE" <=> action[x].status = "NONE",
         UNCHANGED <<exposureOf, decisionOf, boundTo, lost>>
  PROVE  IInv'
<1> USE RowsAssumption
<1>1. /\ TypeOK /\ ExistenceInv /\ JobInv /\ ReachedInv /\ AtMostOneLiveCase
      /\ CaseStateIsAudited /\ NotRemovableIsJustified
  BY DEF IInv
<1>2. /\ state'[c] = s /\ s # Absent
      /\ \A r \in Row \ {c} : state'[r] = state[r]
  BY <1>1 DEF TypeOK, Row, TruthStates, Absent
<1>3. /\ \A e \in Exposure : e \in Row /\ state'[e] = state[e]
      /\ \A d \in Case \ {c} : state'[d] = state[d]
  BY <1>2 DEF Row
<1>4. TypeOK'
  BY <1>1 DEF TypeOK, Ends
<1>5. ExistenceInv'
  <2>1. \A x \in Action : action'[x].status # "NONE" =>
          action'[x].case \in Case /\ state'[action'[x].case] # Absent
    BY <1>1, <1>2, <1>3 DEF ExistenceInv
  <2>2. QED
    BY <2>1, <1>1, <1>2, <1>3 DEF ExistenceInv
<1>6. Grows
  BY <1>2, <1>3 DEF Grows
<1>7. JobInv'
  BY <1>1, <1>6, JobsEnd
<1>8. ReachedInv'
  <2> SUFFICES ASSUME NEW r \in Row PROVE Reached(r, state[r])'
    BY DEF ReachedInv
  <2>1. PICK t : t = state[r]
    OBVIOUS
  <2>2. CASE r = c
    BY <2>2, <1>2 DEF Reached
  <2>3. CASE r # c /\ r \in Case /\ state[r] = Absent
    BY <2>3, <1>2 DEF Reached, Absent, Row
  <2>4. CASE r # c /\ (r \in Case => state[r] # Absent)
    <3>1. Reached(r, t)
      BY <2>1, <1>1 DEF ReachedInv, Reached
    <3>2. Reached(r, t)'
      BY <3>1, <2>4, <1>1, <1>6, ReachedPersists
    <3>3. QED
      BY <3>2, <2>1, <2>4, <1>2 DEF Reached
  <2>5. QED
    BY <2>2, <2>3, <2>4
<1>9. AtMostOneLiveCase'
  <2>1. ASSUME NEW d \in Case, d # c, Live(c)', Live(d)',
               exposureOf[d] = exposureOf[c]
        PROVE  FALSE
    <3>1. Live(d)
      BY <2>1, <1>3 DEF Live
    <3>2. s \notin Settled
      BY <2>1, <1>2 DEF Live
    <3>3. ~IndexAdmits(c, exposureOf[c], s)
      BY <2>1, <3>1, <3>2 DEF IndexAdmits
    <3>4. Live(c)
      BY <3>2, <3>3, <1>2 DEF Live
    <3>5. QED
      BY <2>1, <3>1, <3>4, <1>1 DEF AtMostOneLiveCase
  <2>2. ASSUME NEW d1 \in Case, NEW d2 \in Case, d1 # c, d2 # c,
               Live(d1)', Live(d2)', exposureOf[d1] = exposureOf[d2]
        PROVE  d1 = d2
    BY <2>2, <1>1, <1>3 DEF AtMostOneLiveCase, Live
  <2>3. QED
    BY <2>1, <2>2 DEF AtMostOneLiveCase
<1>10. CaseStateIsAudited'
  BY <1>1, <1>2, <1>3 DEF CaseStateIsAudited
<1>11. NotRemovableIsJustified'
  BY <1>1, <1>2, <1>3 DEF NotRemovableIsJustified
<1>12. QED
  BY <1>4, <1>5, <1>7, <1>8, <1>9, <1>10, <1>11 DEF IInv

\* A row of an exposure or of a case that is moved keeps its history.
LEMMA MoveGrows ==
  ASSUME TypeOK, NEW r \in Row, NEW from, NEW to, IsLegal(from, to),
         Move(r, from, to)
  PROVE  /\ state' = [state EXCEPT ![r] = to]
         /\ trail' \in [Row -> SUBSET Milestones]
         /\ \A q \in Row : trail[q] \subseteq trail'[q]
         /\ TransitionId(from, to) \in Milestones => TransitionId(from, to) \in trail'[r]
         /\ newest' \in [Row -> TransitionIds \cup {Absent}]
         /\ newest'[r] = TransitionId(from, to)
         /\ \A q \in Row \ {r} : newest'[q] = newest[q]
<1>1. TransitionId(from, to) \in TransitionIds
  BY LabelOfPair
<1> DEFINE id == TransitionId(from, to)
<1>2. id \in TransitionIds
  BY <1>1
<1>3. /\ state' = [state EXCEPT ![r] = to]
      /\ trail' = [trail EXCEPT ![r] = @ \cup ({id} \cap Milestones)]
      /\ newest' = [newest EXCEPT ![r] = id]
  BY DEF Move
<1> HIDE DEF id
<1>4. /\ trail' \in [Row -> SUBSET Milestones]
      /\ \A q \in Row : trail[q] \subseteq trail'[q]
      /\ id \in Milestones => id \in trail'[r]
  BY <1>3 DEF TypeOK
<1>5. /\ newest' \in [Row -> TransitionIds \cup {Absent}]
      /\ newest'[r] = id
      /\ \A q \in Row \ {r} : newest'[q] = newest[q]
  BY <1>2, <1>3 DEF TypeOK
<1>6. QED
  BY <1>3, <1>4, <1>5 DEF id

-----------------------------------------------------------------------------
(* The actions *)

LEMMA InitInv == Init => IInv
<1> SUFFICES ASSUME Init PROVE IInv
  OBVIOUS
<1> USE RowsAssumption DEF Init
<1>1. TypeOK
  BY DEF TypeOK, Row, TruthStates, TransitionIds, Absent, Actions, NoAction,
         Jobs, Idle
<1>2. \A c \in Case : state[c] = Absent /\ newest[c] = Absent
  BY DEF Row
<1>3. \A e \in Exposure : state[e] = "DISCOVERED_CANDIDATE"
  BY DEF Row
<1>4. ExistenceInv
  BY <1>2, <1>3 DEF ExistenceInv, NoAction
<1>5. JobInv
  BY DEF JobInv, JobOK, Idle
<1>6. ReachedInv
  BY <1>2, <1>3 DEF ReachedInv, Reached, Row, Absent
<1>7. AtMostOneLiveCase /\ CaseStateIsAudited /\ NotRemovableIsJustified
  BY <1>2 DEF AtMostOneLiveCase, Live, CaseStateIsAudited,
              NotRemovableIsJustified, Absent
<1>8. QED
  BY <1>1, <1>4, <1>5, <1>6, <1>7 DEF IInv

LEMMA BeginsInv ==
  ASSUME IInv, NEW w \in Worker,
         \/ \E e \in Exposure : \/ BeginAssess(w, e)
                                \/ BeginDisprove(w, e)
                                \/ BeginReappear(w, e)
                                \/ \E d \in Decision : BeginCreate(w, e, d)
         \/ \E c \in Case : \/ BeginPrepare(w, c)
                            \/ BeginRespond(w, c)
                            \/ BeginVerify(w, c)
         \/ \E x \in Action : BeginReconcile(w, x)
  PROVE  IInv'
<1> USE RowsAssumption
<1>1. TypeOK /\ ExistenceInv /\ ReachedInv
  BY DEF IInv
<1>2. PICK op \in Operations, r \in Row, other \in Decision \cup Action \cup {None} :
        /\ Begin(w, op, r, other)
        /\ op \in {"assess", "disprove", "create", "reappear"} => r \in Exposure
        /\ op \in {"assess", "disprove"} => state[r] = "DISCOVERED_CANDIDATE"
        /\ op = "create" => other \in Decision /\ state[r] # "DISCOVERED_CANDIDATE"
        /\ op = "reappear" => state[r] = "VERIFIED_REMOVED"
        /\ op \in {"prepare", "reconcile", "respond", "verify"} =>
             r \in Case /\ state[r] # Absent
        /\ op = "reconcile" => other \in Action /\ action[other].status # "NONE"
        /\ op = "verify" => state[r] = "ACKNOWLEDGED"
  <2>1. ASSUME NEW e \in Exposure, BeginAssess(w, e)
        PROVE  Begin(w, "assess", e, None) /\ state[e] = "DISCOVERED_CANDIDATE"
    BY <2>1 DEF BeginAssess
  <2>2. ASSUME NEW e \in Exposure, BeginDisprove(w, e)
        PROVE  Begin(w, "disprove", e, None) /\ state[e] = "DISCOVERED_CANDIDATE"
    BY <2>2 DEF BeginDisprove
  <2>3. ASSUME NEW e \in Exposure, BeginReappear(w, e)
        PROVE  Begin(w, "reappear", e, None) /\ state[e] = "VERIFIED_REMOVED"
    BY <2>3 DEF BeginReappear
  <2>4. ASSUME NEW e \in Exposure, NEW d \in Decision, BeginCreate(w, e, d)
        PROVE  Begin(w, "create", e, d) /\ state[e] # "DISCOVERED_CANDIDATE"
    BY <2>4 DEF BeginCreate
  <2>5. ASSUME NEW c \in Case, BeginPrepare(w, c)
        PROVE  Begin(w, "prepare", c, None) /\ state[c] # Absent
    BY <2>5 DEF BeginPrepare
  <2>6. ASSUME NEW c \in Case, BeginRespond(w, c)
        PROVE  Begin(w, "respond", c, None) /\ state[c] # Absent
    BY <2>6 DEF BeginRespond
  <2>7. ASSUME NEW c \in Case, BeginVerify(w, c)
        PROVE  Begin(w, "verify", c, None) /\ state[c] = "ACKNOWLEDGED"
    BY <2>7 DEF BeginVerify
  <2>8. ASSUME NEW x \in Action, BeginReconcile(w, x)
        PROVE  /\ Begin(w, "reconcile", action[x].case, x)
               /\ action[x].case \in Case /\ state[action[x].case] # Absent
               /\ action[x].status # "NONE"
    BY <2>8, <1>1 DEF BeginReconcile, ExistenceInv
  <2>9. Exposure \subseteq Row /\ Case \subseteq Row /\ "ACKNOWLEDGED" # Absent
    BY DEF Row, Absent
  <2> USE DEF Operations
  <2>10. CASE \E e \in Exposure : \/ BeginAssess(w, e)
                                  \/ BeginDisprove(w, e)
                                  \/ BeginReappear(w, e)
    BY <2>10, <2>1, <2>2, <2>3, <2>9
  <2>11. CASE \E e \in Exposure : \E d \in Decision : BeginCreate(w, e, d)
    BY <2>11, <2>4, <2>9
  <2>12. CASE \E c \in Case : \/ BeginPrepare(w, c)
                              \/ BeginRespond(w, c)
                              \/ BeginVerify(w, c)
    BY <2>12, <2>5, <2>6, <2>7, <2>9
  <2>13. CASE \E x \in Action : BeginReconcile(w, x)
    BY <2>13, <2>8, <2>9
  <2>14. QED
    BY <2>10, <2>11, <2>12, <2>13
<1>3. PICK job : job = [op |-> op, on |-> r, seen |-> state[r], lost |-> lost,
                        other |-> other]
  OBVIOUS
<1>4. work' = [work EXCEPT ![w] = job] /\ UNCHANGED rows
  BY <1>2, <1>3 DEF Begin
<1>5. job \in Jobs
  BY <1>1, <1>3 DEF Jobs, TypeOK
<1>6. Reached(r, state[r])
  BY <1>1 DEF ReachedInv
<1>7. Reached(job.on, job.seen)
  BY <1>3, <1>6
<1>8. op = "create" => state[r] \in {"MATCH_CONFIRMED", "VERIFIED_NOT_PRESENT",
                                     "VERIFIED_REMOVED", "REAPPEARED"}
  BY <1>1, <1>2 DEF ExistenceInv
<1>9. op # "idle"
  BY DEF Operations
<1>10. JobOK(job)
  BY <1>2, <1>3, <1>7, <1>8, <1>9 DEF JobOK
<1>11. QED
  BY <1>4, <1>5, <1>10, WorkInv

\* Ending a transaction that wrote nothing.
LEMMA IdlesInv ==
  ASSUME IInv, NEW w \in Worker, Done(w), UNCHANGED rows
  PROVE  IInv'
<1>1. Idle \in Jobs /\ JobOK(Idle)
  BY DEF Idle, Jobs, JobOK
<1>2. QED
  BY <1>1, WorkInv DEF Done

LEMMA ExposureActionsInv ==
  ASSUME IInv, NEW w \in Worker,
         CommitBelowThreshold(w) \/ CommitAssess(w) \/ CommitDisprove(w)
           \/ CommitReappear(w)
  PROVE  IInv'
<1> USE RowsAssumption
<1> DEFINE e == work[w].on
<1>1. TypeOK /\ ExistenceInv /\ JobOK(work[w])
  BY DEF IInv, JobInv
<1>2. Done(w) /\ UNCHANGED <<exposureOf, decisionOf, boundTo, action, observed,
                             responded, lost>>
  BY DEF CommitBelowThreshold, CommitAssess, CommitDisprove, CommitReappear
<1>3. Ends
  BY <1>1, <1>2, DoneEnds
<1>4. e \in Exposure
  BY <1>1 DEF JobOK, Running, CommitBelowThreshold, CommitAssess,
              CommitDisprove, CommitReappear
<1>5. CASE CommitBelowThreshold(w)
  <2>1. state' = [state EXCEPT ![e] = "DISCOVERED_CANDIDATE"]
    BY <1>1, <1>5 DEF CommitBelowThreshold, Running, JobOK
  <2>2. UNCHANGED <<trail, newest>>
    BY <1>5 DEF CommitBelowThreshold
  <2>3. /\ trail' \in [Row -> SUBSET Milestones]
        /\ newest' \in [Row -> TransitionIds \cup {Absent}]
    BY <2>2, <1>1 DEF TypeOK
  <2> HIDE DEF e
  <2>4. QED
    BY <1>2, <1>3, <1>4, <2>1, <2>2, <2>3, ExposureWriteInv
<1>6. ASSUME NEW from, NEW to \in {"MATCH_CONFIRMED", "VERIFIED_NOT_PRESENT",
                                   "REAPPEARED"},
             IsLegal(from, to), Move(e, from, to)
      PROVE  IInv'
  <2>1. PICK x \in Exposure : x = e
    BY <1>4
  <2>2. x \in Row /\ \A c \in Case : c \in Row \ {x}
    BY DEF Row
  <2>3. Move(x, from, to)
    BY <1>6, <2>1
  <2>4. /\ state' = [state EXCEPT ![x] = to]
        /\ trail' \in [Row -> SUBSET Milestones]
        /\ \A q \in Row : trail[q] \subseteq trail'[q]
        /\ newest' \in [Row -> TransitionIds \cup {Absent}]
        /\ \A q \in Row \ {x} : newest'[q] = newest[q]
    BY <1>1, <1>6, <2>2, <2>3, MoveGrows
  <2>5. QED
    BY <1>2, <1>3, <2>2, <2>4, ExposureWriteInv
<1>7. CASE CommitAssess(w)
  BY <1>6, <1>7, AppliedIsLegal DEF CommitAssess
<1>8. CASE CommitDisprove(w)
  BY <1>6, <1>8, AppliedIsLegal DEF CommitDisprove
<1>9. CASE CommitReappear(w)
  BY <1>6, <1>9, AppliedIsLegal DEF CommitReappear
<1>10. QED
  BY <1>5, <1>7, <1>8, <1>9

LEMMA ExposureSettledInv ==
  ASSUME IInv, NEW e \in Exposure, ExposureSettled(e)
  PROVE  IInv'
<1>1. TypeOK /\ ReachedInv
  BY DEF IInv
<1>2. Earned(e)
  BY <1>1 DEF ExposureSettled, ReachedInv, Reached, Row
<1>3. /\ Ends
      /\ trail' \in [Row -> SUBSET Milestones]
      /\ newest' \in [Row -> TransitionIds \cup {Absent}]
  BY <1>1 DEF ExposureSettled, TypeOK, Ends
<1>4. QED
  BY <1>2, <1>3, ExposureWriteInv DEF ExposureSettled

\* A case comes to exist: what its exposure was read in is what it starts in.
LEMMA CommitCreateInv ==
  ASSUME IInv, NEW w \in Worker, CommitCreate(w)
  PROVE  IInv'
<1> USE RowsAssumption
<1>1. /\ TypeOK /\ ExistenceInv /\ JobInv /\ ReachedInv /\ AtMostOneLiveCase
      /\ CaseStateIsAudited /\ NotRemovableIsJustified
  BY DEF IInv
<1>2. PICK e, s, d : e = work[w].on /\ s = work[w].seen /\ d = work[w].other
  OBVIOUS
<1>3. /\ e \in Exposure /\ d \in Decision /\ Reached(e, s)
      /\ s \in {"MATCH_CONFIRMED", "VERIFIED_NOT_PRESENT", "VERIFIED_REMOVED",
                "REAPPEARED"}
  <2>1. JobOK(work[w]) /\ work[w].op = "create"
    BY <1>1 DEF JobInv, CommitCreate, Running
  <2>2. QED
    BY <2>1, <1>2 DEF JobOK
<1>4. PICK c \in Case :
        /\ state[c] = Absent
        /\ IndexAdmits(c, e, s)
        /\ state' = [state EXCEPT ![c] = s]
        /\ exposureOf' = [exposureOf EXCEPT ![c] = e]
        /\ decisionOf' = [decisionOf EXCEPT ![c] = d]
        /\ boundTo' = [boundTo EXCEPT ![d] = c]
  BY <1>2 DEF CommitCreate
<1>5. /\ Done(w)
      /\ UNCHANGED <<action, trail, newest, observed, responded, lost>>
  BY DEF CommitCreate
<1>6. Ends
  BY <1>1, <1>5, DoneEnds
<1>7. s \in TruthStates /\ s # Absent /\ s # "NOT_REMOVABLE"
      /\ s \notin {"REQUEST_SUBMITTED", "ACKNOWLEDGED"}
  BY <1>3 DEF TruthStates, Absent
<1>8. /\ state'[c] = s /\ exposureOf'[c] = e /\ e # None
      /\ \A r \in Row \ {c} : state'[r] = state[r]
      /\ \A x \in Case \ {c} : /\ state'[x] = state[x]
                               /\ exposureOf'[x] = exposureOf[x]
                               /\ decisionOf'[x] = decisionOf[x]
  BY <1>1, <1>3, <1>4 DEF TypeOK, Row
<1>9. TypeOK'
  BY <1>1, <1>3, <1>4, <1>5, <1>6, <1>7 DEF TypeOK, Ends
<1>10. newest[c] = Absent
  BY <1>1, <1>4 DEF ExistenceInv
<1>11. ExistenceInv'
  <2>1. \A x \in Exposure : state'[x] = state[x]
    BY <1>8 DEF Row
  <2>2. \A x \in Action : action[x].status # "NONE" =>
          action[x].case \in Case /\ state'[action[x].case] # Absent
    BY <1>1, <1>7, <1>8 DEF ExistenceInv
  <2>3. QED
    BY <2>1, <2>2, <1>1, <1>5, <1>7, <1>8 DEF ExistenceInv
<1>12. Grows
  BY <1>4, <1>5, <1>7, <1>8 DEF Grows
<1>13. JobInv'
  BY <1>1, <1>6, <1>12, JobsEnd
<1>14. ReachedInv'
  <2> SUFFICES ASSUME NEW r \in Row PROVE Reached(r, state[r])'
    BY DEF ReachedInv
  <2>1. CASE r = c
    <3>1. s = "VERIFIED_REMOVED" => Earned(e)
      BY <1>3 DEF Reached
    <3>2. s = "VERIFIED_REMOVED" => Earned(e)'
      BY <3>1, <1>1, <1>3, <1>12, EarnedPersists
    <3>3. s = "VERIFIED_REMOVED" => Earned(exposureOf[c])'
      BY <3>2, <1>8 DEF Earned
    <3>4. QED
      BY <2>1, <3>3, <1>3, <1>7, <1>8 DEF Reached
  <2>2. CASE r # c /\ r \in Case /\ state[r] = Absent
    BY <2>2, <1>8 DEF Reached, Absent, Row
  <2>3. CASE r # c /\ (r \in Case => state[r] # Absent)
    <3>1. PICK t : t = state[r]
      OBVIOUS
    <3>2. Reached(r, t)
      BY <3>1, <1>1 DEF ReachedInv, Reached
    <3>3. Reached(r, t)'
      BY <3>2, <2>3, <1>1, <1>12, ReachedPersists
    <3>4. QED
      BY <3>1, <3>3, <2>3, <1>8 DEF Reached
  <2>4. QED
    BY <2>1, <2>2, <2>3
<1>15. AtMostOneLiveCase'
  <2>1. ASSUME NEW x \in Case, x # c, Live(c)', Live(x)', exposureOf[x] = e
        PROVE  FALSE
    BY <2>1, <1>4, <1>8 DEF Live, IndexAdmits
  <2>2. ASSUME NEW x \in Case, NEW y \in Case, x # c, y # c,
               Live(x)', Live(y)', exposureOf[x] = exposureOf[y]
        PROVE  x = y
    BY <2>2, <1>1, <1>8 DEF AtMostOneLiveCase, Live
  <2>3. QED
    BY <2>1, <2>2, <1>8 DEF AtMostOneLiveCase
<1>16. CaseStateIsAudited' /\ NotRemovableIsJustified'
  BY <1>1, <1>5, <1>7, <1>8, <1>10 DEF CaseStateIsAudited, NotRemovableIsJustified
<1>17. QED
  BY <1>9, <1>11, <1>13, <1>14, <1>15, <1>16 DEF IInv

\* A transaction about a case ends, and its case moves along a row of the table
\* or stays; the action it settles keeps its case.
LEMMA CaseStepInv ==
  ASSUME IInv, NEW w \in Worker, Done(w), NEW c \in Case, state[c] # Absent,
         NEW from, NEW to,
         \/ IsLegal(from, to) /\ MoveCase(c, from, to)
         \/ Stay /\ to = state[c],
         to = "NOT_REMOVABLE" /\ ~Stay => \/ "permission" \in lost
                                          \/ decisionOf[c] \in Unremovable
                                          \/ c \in responded',
         ~Stay => /\ to = "ACKNOWLEDGED" => "T8" \in trail[c]
                  /\ to = "VERIFIED_REMOVED" =>
                       {"T8", "T11"} \subseteq trail[c] /\ TRUE \in observed'[c],
         observed' \in [Case -> SUBSET BOOLEAN],
         \A d \in Case : observed[d] \subseteq observed'[d],
         responded \subseteq responded', responded' \subseteq Case,
         action' \in [Action -> Actions],
         \A x \in Action : /\ action'[x].case = action[x].case
                           /\ action'[x].status = "NONE" <=> action[x].status = "NONE",
         UNCHANGED <<exposureOf, decisionOf, boundTo, lost>>
  PROVE  IInv'
<1> USE RowsAssumption
<1>1. /\ TypeOK /\ ExistenceInv /\ ReachedInv /\ CaseStateIsAudited
      /\ NotRemovableIsJustified
  BY DEF IInv
<1>2. Ends
  BY <1>1, DoneEnds
<1>3. c \in Row /\ \A d \in Case \ {c} : d \in Row \ {c}
  BY DEF Row
<1>4. CASE Stay
  <2>1. PICK s \in TruthStates : s = state[c]
    BY <1>1, <1>3 DEF TypeOK, Absent
  <2>2. state' = [state EXCEPT ![c] = s] /\ UNCHANGED <<trail, newest>>
    BY <1>4, <2>1, <1>1 DEF Stay, TypeOK
  <2>3. Grows
    BY <2>2, <1>4 DEF Grows, Stay
  <2>4. Reached(c, s)
    BY <2>1, <1>1, <1>3 DEF ReachedInv
  <2>5. Reached(c, s)'
    BY <2>3, <2>4, <1>1, <1>3, ReachedPersists
  <2>6. newest'[c] # Absent => s = TargetOf(newest'[c])
    BY <2>1, <2>2, <1>1 DEF CaseStateIsAudited
  <2>7. s = "NOT_REMOVABLE" => \/ "permission" \in lost
                               \/ decisionOf[c] \in Unremovable
                               \/ c \in responded'
    BY <2>1, <1>1 DEF NotRemovableIsJustified
  <2>8. /\ trail' \in [Row -> SUBSET Milestones]
        /\ newest' \in [Row -> TransitionIds \cup {Absent}]
        /\ \A r \in Row : trail[r] \subseteq trail'[r]
        /\ \A d \in Case \ {c} : newest'[d] = newest[d]
    BY <2>2, <1>1 DEF TypeOK
  <2>9. QED
    BY <1>2, <2>1, <2>2, <2>5, <2>6, <2>7, <2>8, CaseWriteInv
<1>5. CASE ~Stay
  <2>1. IsLegal(from, to) /\ Move(c, from, to) /\ IndexAdmits(c, exposureOf[c], to)
    BY <1>5 DEF MoveCase
  <2>2. /\ to \in TruthStates
        /\ TargetOf(TransitionId(from, to)) = to
        /\ to = "ACKNOWLEDGED" => TransitionId(from, to) = "T11"
        /\ to = "REQUEST_SUBMITTED" => TransitionId(from, to) = "T8"
        /\ to = "VERIFIED_REMOVED" => TransitionId(from, to) = "T14"
    BY <2>1, LabelOfPair
  <2>3. /\ state' = [state EXCEPT ![c] = to]
        /\ trail' \in [Row -> SUBSET Milestones]
        /\ \A q \in Row : trail[q] \subseteq trail'[q]
        /\ TransitionId(from, to) \in Milestones => TransitionId(from, to) \in trail'[c]
        /\ newest' \in [Row -> TransitionIds \cup {Absent}]
        /\ newest'[c] = TransitionId(from, to)
        /\ \A q \in Row \ {c} : newest'[q] = newest[q]
    BY <2>1, <1>1, <1>3, MoveGrows
  <2>4. /\ to \in {"REQUEST_SUBMITTED", "ACKNOWLEDGED"} => "T8" \in trail'[c]
        /\ to = "ACKNOWLEDGED" => "T11" \in trail'[c]
    BY <1>3, <1>5, <2>2, <2>3 DEF Milestones
  <2>5. ASSUME to = "VERIFIED_REMOVED"
        PROVE  Earned(exposureOf[c])'
    <3>1. {"T8", "T11", "T14"} \subseteq trail'[c] /\ TRUE \in observed'[c]
      BY <1>3, <1>5, <2>2, <2>3, <2>5, ZenonT(60) DEF Milestones
    <3>2. QED
      BY <3>1 DEF Earned
  <2>6. Reached(c, to)'
    BY <2>4, <2>5 DEF Reached
  <2>7. \A d \in Case \ {c} : newest'[d] = newest[d]
    BY <1>3, <2>3
  <2>8. QED
    BY <1>2, <1>5, <2>1, <2>2, <2>3, <2>6, <2>7, CaseWriteInv
<1>6. QED
  BY <1>4, <1>5

\* The case a transaction is about exists.
LEMMA CaseOfJob ==
  ASSUME IInv, NEW w \in Worker,
         work[w].op \in {"prepare", "reconcile", "respond", "verify"}
  PROVE  /\ work[w].on \in Case /\ state[work[w].on] # Absent
         /\ Reached(work[w].on, work[w].seen)
         /\ work[w].lost \subseteq lost
         /\ work[w].op = "reconcile" =>
              work[w].other \in Action /\ action[work[w].other].status # "NONE"
         /\ work[w].op = "verify" => work[w].seen = "ACKNOWLEDGED"
BY DEF IInv, JobInv, JobOK

\* What a step that leaves them alone says of a row's companions.
LEMMA CompanionsTyped ==
  ASSUME TypeOK
  PROVE  /\ observed \in [Case -> SUBSET BOOLEAN]
         /\ responded \subseteq Case
         /\ action \in [Action -> Actions]
BY DEF TypeOK

LEMMA CommitPrepareInv ==
  ASSUME IInv, NEW w \in Worker, NEW signed \in BOOLEAN,
         NEW requested \in {"REQUEST_READY", "NOT_REMOVABLE", "HUMAN_REQUIRED"},
         CommitPrepare(w, requested, signed)
  PROVE  IInv'
<1>1. TypeOK
  BY DEF IInv
<1>2. PICK c, from : c = work[w].on /\ from = work[w].seen
  OBVIOUS
<1>3. c \in Case /\ state[c] # Absent
  BY <1>2, CaseOfJob DEF CommitPrepare, Running
<1>4. PICK found \in SUBSET lost :
        LET permitted == ChannelPermitted(c, found)
            gate == requested = "HUMAN_REQUIRED"
        IN  /\ requested = PrepareRequestTarget(gate, permitted)
            /\ ApplyTransition(from, requested,
                               PrepareRequestFacts(from, gate, permitted))
  BY <1>2 DEF CommitPrepare
<1>5. /\ Done(w) /\ MoveCase(c, from, requested)
      /\ UNCHANGED <<exposureOf, decisionOf, boundTo, action, observed,
                     responded, lost>>
  BY <1>2 DEF CommitPrepare
<1>6. requested = "NOT_REMOVABLE" =>
        "permission" \in lost \/ decisionOf[c] \in Unremovable
  BY <1>4 DEF PrepareRequestTarget, ChannelPermitted
<1>7. IsLegal(from, requested)
  BY <1>4, AppliedIsLegal
<1>8. QED
  BY <1>1, <1>3, <1>5, <1>6, <1>7, CaseStepInv, CompanionsTyped

\* Settling an action keeps its case.
LEMMA ResolveKeepsCase ==
  ASSUME TypeOK, NEW x \in Action, action[x].status # "NONE",
         NEW status \in {"SUBMITTED", "FAILED"}, Resolve(x, status)
  PROVE  /\ action' \in [Action -> Actions]
         /\ \A y \in Action : /\ action'[y].case = action[y].case
                              /\ action'[y].status = "NONE" <=> action[y].status = "NONE"
BY DEF TypeOK, Resolve, Actions

LEMMA ReconcileInv ==
  ASSUME IInv, NEW w \in Worker,
         EffectConfirmed(w) \/ EffectAbsent(w) \/ EffectIndeterminate(w)
  PROVE  IInv'
<1>1. TypeOK
  BY DEF IInv
<1>2. PICK c, from, x : c = work[w].on /\ from = work[w].seen /\ x = work[w].other
  OBVIOUS
<1>3. /\ c \in Case /\ state[c] # Absent
      /\ x \in Action /\ action[x].status # "NONE"
  BY <1>2, CaseOfJob DEF EffectConfirmed, EffectAbsent, EffectIndeterminate, Running
<1>4. CASE EffectIndeterminate(w)
  BY <1>4, IdlesInv DEF EffectIndeterminate
<1>5. CASE EffectConfirmed(w) \/ EffectAbsent(w)
  <2>1. \E status \in {"SUBMITTED", "FAILED"} : Resolve(x, status)
    BY <1>2, <1>5 DEF EffectConfirmed, EffectAbsent
  <2>2. /\ action' \in [Action -> Actions]
        /\ \A y \in Action : /\ action'[y].case = action[y].case
                             /\ action'[y].status = "NONE" <=> action[y].status = "NONE"
    BY <1>1, <1>3, <2>1, ResolveKeepsCase
  <2>3. \/ /\ ApplyTransition(from, "REQUEST_SUBMITTED", ExecuteActionFacts)
           /\ MoveCase(c, from, "REQUEST_SUBMITTED")
        \/ Stay
    BY <1>2, <1>5 DEF EffectConfirmed, EffectAbsent
  <2>4. /\ Done(w)
        /\ UNCHANGED <<exposureOf, decisionOf, boundTo, observed, responded, lost>>
    BY <1>5 DEF EffectConfirmed, EffectAbsent
  <2>5. CASE Stay
    <3>1. PICK s : s = state[c]
      OBVIOUS
    <3>2. QED
      BY <1>1, <1>3, <2>2, <2>4, <2>5, <3>1, CaseStepInv, CompanionsTyped
  <2>6. CASE ~Stay
    <3>1. IsLegal(from, "REQUEST_SUBMITTED") /\ MoveCase(c, from, "REQUEST_SUBMITTED")
      BY <2>3, <2>6, AppliedIsLegal
    <3>2. QED
      BY <1>1, <1>3, <2>2, <2>4, <3>1, CaseStepInv, CompanionsTyped
  <2>7. QED
    BY <2>5, <2>6
<1>6. QED
  BY <1>4, <1>5

LEMMA CommitRespondInv ==
  ASSUME IInv, NEW w \in Worker, CommitRespond(w)
  PROVE  IInv'
<1>1. TypeOK
  BY DEF IInv
<1>2. PICK c, from : c = work[w].on /\ from = work[w].seen
  OBVIOUS
<1>3. c \in Case /\ state[c] # Absent /\ Reached(c, from)
  BY <1>2, CaseOfJob DEF CommitRespond, Running
<1>4. PICK outcome \in ResponseOutcomes :
        /\ ApplyTransition(from, ResponseTarget[outcome], ResponseFacts[outcome])
        /\ MoveCase(c, from, ResponseTarget[outcome])
  BY <1>2 DEF CommitRespond
<1>5. PICK to \in {"ACKNOWLEDGED", "HUMAN_REQUIRED", "NOT_REMOVABLE"} :
        to = ResponseTarget[outcome]
  BY DEF ResponseTarget, ResponseOutcomes
<1>6. IsLegal(from, to) /\ MoveCase(c, from, to)
  BY <1>4, <1>5, AppliedIsLegal
<1>7. to = "ACKNOWLEDGED" => "T8" \in trail[c]
  BY <1>3, <1>6, LabelOfPair DEF Reached
<1>8. /\ responded' = responded \cup {c} /\ Done(w)
      /\ UNCHANGED <<exposureOf, decisionOf, boundTo, action, observed, lost>>
  BY <1>2 DEF CommitRespond
<1>9. /\ c \in responded' /\ responded \subseteq responded' /\ responded' \subseteq Case
  BY <1>1, <1>3, <1>8 DEF TypeOK
<1>10. QED
  BY <1>1, <1>3, <1>6, <1>7, <1>8, <1>9, CaseStepInv, CompanionsTyped

LEMMA CommitVerifyInv ==
  ASSUME IInv, NEW w \in Worker, NEW finding \in Findings, NEW windowMet \in BOOLEAN,
         CommitVerify(w, finding, windowMet)
  PROVE  IInv'
<1>1. TypeOK
  BY DEF IInv
<1>2. PICK c, from : c = work[w].on /\ from = work[w].seen
  OBVIOUS
<1>3. c \in Case /\ state[c] # Absent /\ Reached(c, from) /\ from = "ACKNOWLEDGED"
  BY <1>2, CaseOfJob DEF CommitVerify, Running
<1>4. /\ Done(w) /\ Observe(c, finding, windowMet)
      /\ UNCHANGED <<exposureOf, decisionOf, boundTo, action, responded, lost>>
  BY <1>2 DEF CommitVerify
<1>5. /\ observed' \in [Case -> SUBSET BOOLEAN]
      /\ \A d \in Case : observed[d] \subseteq observed'[d]
      /\ finding = "ABSENT" => windowMet \in observed'[c]
  BY <1>1, <1>3, <1>4 DEF TypeOK, Observe
<1>6. CASE Stay
  <2>1. PICK s : s = state[c]
    OBVIOUS
  <2>2. QED
    BY <1>1, <1>3, <1>4, <1>5, <1>6, <2>1, CaseStepInv, CompanionsTyped
<1>7. CASE ~Stay
  <2>1. /\ ApplyTransition(from, "VERIFIED_REMOVED",
                           VerificationFacts(finding, windowMet))
        /\ MoveCase(c, from, "VERIFIED_REMOVED")
    BY <1>2, <1>7 DEF CommitVerify
  <2>2. finding = "ABSENT" /\ windowMet
    BY <2>1, RemovalNeedsAbsence
  <2>3. {"T8", "T11"} \subseteq trail[c] /\ TRUE \in observed'[c]
    BY <1>3, <1>5, <2>2 DEF Reached
  <2>4. IsLegal(from, "VERIFIED_REMOVED")
    BY <2>1, AppliedIsLegal
  <2>5. QED
    BY <1>1, <1>3, <1>4, <1>5, <2>1, <2>3, <2>4, CaseStepInv, CompanionsTyped
<1>8. QED
  BY <1>6, <1>7

LEMMA CommitResponseRefusedInv ==
  ASSUME IInv, NEW w \in Worker, CommitResponseRefused(w)
  PROVE  IInv'
<1>1. TypeOK
  BY DEF IInv
<1>2. PICK c, s : c = work[w].on /\ s = state[c]
  OBVIOUS
<1>3. c \in Case /\ state[c] # Absent
  BY <1>2, CaseOfJob DEF CommitResponseRefused, Running
<1>4. /\ responded' = responded \cup {c} /\ Stay /\ Done(w)
      /\ UNCHANGED <<exposureOf, decisionOf, boundTo, action, observed, lost>>
  BY <1>2 DEF CommitResponseRefused
<1>5. responded \subseteq responded' /\ responded' \subseteq Case
  BY <1>1, <1>3, <1>4 DEF TypeOK
<1>6. QED
  BY <1>1, <1>2, <1>3, <1>4, <1>5, CaseStepInv, CompanionsTyped

LEMMA ActionAttemptedInv ==
  ASSUME IInv, NEW x \in Action, NEW c \in Case, ActionAttempted(x, c)
  PROVE  IInv'
<1>1. /\ TypeOK /\ ExistenceInv /\ JobInv /\ ReachedInv /\ AtMostOneLiveCase
      /\ CaseStateIsAudited /\ NotRemovableIsJustified
  BY DEF IInv
<1>2. /\ action[x].status = "NONE" /\ state[c] = "REQUEST_READY"
      /\ action' = [action EXCEPT ![x] = [case |-> c, status |-> "AMBIGUOUS"]]
      /\ UNCHANGED <<state, exposureOf, decisionOf, boundTo, trail, newest,
                     observed, responded, lost, work>>
  BY DEF ActionAttempted
<1>3. TypeOK'
  BY <1>1, <1>2 DEF TypeOK, Actions
<1>4. ExistenceInv'
  BY <1>1, <1>2 DEF ExistenceInv, TypeOK, Absent
<1>5. Grows /\ Ends
  BY <1>1, <1>2 DEF Grows, Ends, TypeOK
<1>6. JobInv'
  BY <1>1, <1>5, JobsEnd
<1>7. ReachedInv' /\ AtMostOneLiveCase'
  BY <1>1, <1>2 DEF ReachedInv, Reached, Earned, AtMostOneLiveCase, Live
<1>8. CaseStateIsAudited' /\ NotRemovableIsJustified'
  BY <1>1, <1>2 DEF CaseStateIsAudited, NotRemovableIsJustified
<1>9. QED
  BY <1>3, <1>4, <1>6, <1>7, <1>8 DEF IInv

LEMMA LapseInv ==
  ASSUME IInv, NEW item \in Paperwork, Lapse(item)
  PROVE  IInv'
<1>1. /\ TypeOK /\ ExistenceInv /\ JobInv /\ ReachedInv /\ AtMostOneLiveCase
      /\ CaseStateIsAudited /\ NotRemovableIsJustified
  BY DEF IInv
<1>2. /\ lost' = lost \cup {item}
      /\ UNCHANGED <<state, exposureOf, decisionOf, boundTo, action, trail,
                     newest, observed, responded, work>>
  BY DEF Lapse
<1>3. TypeOK' /\ ExistenceInv'
  BY <1>1, <1>2 DEF TypeOK, ExistenceInv
<1>4. Grows /\ Ends
  BY <1>1, <1>2 DEF Grows, Ends, TypeOK
<1>5. JobInv'
  BY <1>1, <1>4, JobsEnd
<1>6. ReachedInv' /\ AtMostOneLiveCase'
  BY <1>1, <1>2 DEF ReachedInv, Reached, Earned, AtMostOneLiveCase, Live
<1>7. CaseStateIsAudited' /\ NotRemovableIsJustified'
  BY <1>1, <1>2 DEF CaseStateIsAudited, NotRemovableIsJustified
<1>8. QED
  BY <1>3, <1>5, <1>6, <1>7 DEF IInv

LEMMA StutterInv ==
  ASSUME IInv, UNCHANGED vars
  PROVE  IInv'
<1>1. TypeOK' /\ ExistenceInv'
  BY DEF IInv, TypeOK, ExistenceInv, vars
<1>2. JobInv'
  BY ZenonT(60) DEF IInv, JobInv, JobOK, Reached, Earned, vars
<1>3. ReachedInv'
  BY DEF IInv, ReachedInv, Reached, Earned, vars
<1>4. AtMostOneLiveCase'
  BY DEF IInv, AtMostOneLiveCase, Live, vars
<1>5. CaseStateIsAudited' /\ NotRemovableIsJustified'
  BY DEF IInv, CaseStateIsAudited, NotRemovableIsJustified, vars
<1>6. QED
  BY <1>1, <1>2, <1>3, <1>4, <1>5 DEF IInv

LEMMA NextInv == IInv /\ [Next]_vars => IInv'
<1> SUFFICES ASSUME IInv, [Next]_vars PROVE IInv'
  OBVIOUS
<1>1. ASSUME NEW w \in Worker, Handle(w)
      PROVE  IInv'
  <2>1. CASE CommitBelowThreshold(w) \/ CommitAssess(w) \/ CommitDisprove(w)
               \/ CommitReappear(w)
    BY <2>1, ExposureActionsInv
  <2>2. CASE CommitCreate(w)
    BY <2>2, CommitCreateInv
  <2>3. CASE GuardedUpdate(w) \/ RecordHumanGate(w)
    BY <2>3, CommitPrepareInv DEF GuardedUpdate, RecordHumanGate
  <2>4. CASE EffectConfirmed(w) \/ EffectAbsent(w) \/ EffectIndeterminate(w)
    BY <2>4, ReconcileInv
  <2>5. CASE CommitRespond(w) \/ CommitResponseRefused(w)
    BY <2>5, CommitRespondInv, CommitResponseRefusedInv
  <2>6. CASE \E finding \in Findings, windowMet \in BOOLEAN :
               CommitVerify(w, finding, windowMet)
    BY <2>6, CommitVerifyInv
  <2>7. CASE RollBack(w)
    BY <2>7, IdlesInv DEF RollBack
  <2>8. QED
    BY <1>1, <2>1, <2>2, <2>3, <2>4, <2>5, <2>6, <2>7, BeginsInv DEF Handle
<1>2. CASE \E x \in Action, c \in Case : ActionAttempted(x, c)
  BY <1>2, ActionAttemptedInv
<1>3. CASE \E e \in Exposure : ExposureSettled(e)
  BY <1>3, ExposureSettledInv
<1>4. CASE \E item \in Paperwork : Lapse(item)
  BY <1>4, LapseInv
<1>5. CASE UNCHANGED vars
  BY <1>5, StutterInv
<1>6. QED
  BY <1>1, <1>2, <1>3, <1>4, <1>5 DEF Next

-----------------------------------------------------------------------------
(* What holds however handlers overlap *)

\* The inductive invariant holds in every reachable state, for any number of
\* overlapping handlers and of rows.
THEOREM InvariantHolds == Spec => []IInv
BY InitInv, NextInv, PTL DEF Spec

\* createCase and request_case_live_uniq never let two cases of one exposure be
\* live together.
THEOREM AtMostOneLiveCaseHolds == Spec => []AtMostOneLiveCase
<1>1. IInv => AtMostOneLiveCase
  BY DEF IInv
<1>2. QED
  BY <1>1, InvariantHolds, PTL

\* A removal shown for a case or an exposure went through a submitted action, a
\* controller's answer and an observation of absence after its window.
THEOREM RemovalIsEarnedHolds == Spec => []RemovalIsEarned
<1>1. IInv => RemovalIsEarned
  BY DEF IInv, ReachedInv, Reached, RemovalIsEarned, Row
<1>2. QED
  BY <1>1, InvariantHolds, PTL

\* The state of a case is the one its last audit row leaves it in.
THEOREM CaseStateIsAuditedHolds == Spec => []CaseStateIsAudited
<1>1. IInv => CaseStateIsAudited
  BY DEF IInv
<1>2. QED
  BY <1>1, InvariantHolds, PTL

\* A case ends NOT_REMOVABLE only for a reason on record.
THEOREM NotRemovableIsJustifiedHolds == Spec => []NotRemovableIsJustified
<1>1. IInv => NotRemovableIsJustified
  BY DEF IInv
<1>2. QED
  BY <1>1, InvariantHolds, PTL

-----------------------------------------------------------------------------
(* What holds when one handler runs at a time                              *)

\* What a transaction read of its case is what the case is.
ReadIsFresh ==
  \A w \in Worker :
    work[w].op \in {"prepare", "reconcile", "respond", "verify"} =>
      work[w].seen = state[work[w].on]

\* A case that existed and changed its state was moved along a row of the table
\* from the state it was in, and its audit row says so.
MovesOnTable ==
  \A c \in Case :
    state[c] # Absent /\ state'[c] # state[c] =>
      /\ IsLegal(state[c], state'[c])
      /\ newest'[c] = TransitionId(state[c], state'[c])

LEMMA MoveOnTable ==
  ASSUME IInv, ReadIsFresh, NEW w \in Worker, NEW to,
         work[w].op \in {"prepare", "reconcile", "respond", "verify"},
         \/ Stay
         \/ /\ IsLegal(work[w].seen, to)
            /\ MoveCase(work[w].on, work[w].seen, to)
  PROVE  MovesOnTable
<1>1. TypeOK
  BY DEF IInv
<1>2. PICK c, from : c = work[w].on /\ from = work[w].seen
  OBVIOUS
<1>3. c \in Case /\ from = state[c]
  BY <1>2, CaseOfJob DEF ReadIsFresh
<1>4. CASE Stay
  BY <1>4 DEF Stay, MovesOnTable
<1>5. CASE ~Stay
  <2>1. IsLegal(from, to) /\ Move(c, from, to)
    BY <1>2, <1>5 DEF MoveCase
  <2>2. /\ state'[c] = to /\ newest'[c] = TransitionId(from, to)
        /\ \A d \in Case \ {c} : state'[d] = state[d]
    BY <1>1, <1>3, <2>1 DEF Move, TypeOK, Row
  <2>3. QED
    BY <1>3, <2>1, <2>2 DEF MovesOnTable
<1>6. QED
  BY <1>4, <1>5

\* A handler's step moves cases along the table when what it read is fresh.
LEMMA HandleOnTable ==
  ASSUME IInv, ReadIsFresh, NEW w \in Worker, Handle(w)
  PROVE  MovesOnTable
<1> USE RowsAssumption
<1>1. TypeOK /\ JobOK(work[w])
  BY DEF IInv, JobInv
<1>2. ASSUME UNCHANGED rows
      PROVE  MovesOnTable
  BY <1>2 DEF MovesOnTable, rows
<1>3. CASE \/ \E e \in Exposure : \/ BeginAssess(w, e)
                                  \/ BeginDisprove(w, e)
                                  \/ BeginReappear(w, e)
                                  \/ \E d \in Decision : BeginCreate(w, e, d)
           \/ \E c \in Case : \/ BeginPrepare(w, c)
                              \/ BeginRespond(w, c)
                              \/ BeginVerify(w, c)
           \/ \E x \in Action : BeginReconcile(w, x)
           \/ EffectIndeterminate(w)
           \/ RollBack(w)
  <2>1. UNCHANGED rows
    BY <1>3 DEF BeginAssess, BeginDisprove, BeginReappear, BeginCreate,
                BeginPrepare, BeginRespond, BeginVerify, BeginReconcile, Begin,
                EffectIndeterminate, RollBack
  <2>2. QED
    BY <2>1, <1>2
<1>4. CASE CommitBelowThreshold(w) \/ CommitAssess(w) \/ CommitDisprove(w)
             \/ CommitReappear(w)
  <2>1. work[w].on \in Exposure
    BY <1>1, <1>4 DEF JobOK, Running, CommitBelowThreshold, CommitAssess,
                      CommitDisprove, CommitReappear
  <2>2. \E s : state' = [state EXCEPT ![work[w].on] = s]
    BY <1>4 DEF CommitBelowThreshold, CommitAssess, CommitDisprove,
                CommitReappear, Move
  <2>3. \A c \in Case : state'[c] = state[c]
    BY <2>1, <2>2, <1>1 DEF TypeOK, Row
  <2>4. QED
    BY <2>3 DEF MovesOnTable
<1>5. CASE CommitCreate(w)
  <2>1. PICK c \in Case : state[c] = Absent /\ state' = [state EXCEPT ![c] = work[w].seen]
    BY <1>5 DEF CommitCreate
  <2>2. \A d \in Case \ {c} : state'[d] = state[d]
    BY <2>1, <1>1 DEF TypeOK, Row
  <2>3. QED
    BY <2>1, <2>2 DEF MovesOnTable
<1>6. CASE GuardedUpdate(w) \/ RecordHumanGate(w)
  <2>1. PICK requested \in {"REQUEST_READY", "NOT_REMOVABLE", "HUMAN_REQUIRED"},
             signed \in BOOLEAN : CommitPrepare(w, requested, signed)
    BY <1>6 DEF GuardedUpdate, RecordHumanGate
  <2>2. /\ work[w].op = "prepare"
        /\ IsLegal(work[w].seen, requested)
        /\ MoveCase(work[w].on, work[w].seen, requested)
    BY <2>1, AppliedIsLegal DEF CommitPrepare, Running
  <2>3. QED
    BY <2>2, MoveOnTable
<1>7. CASE EffectConfirmed(w) \/ EffectAbsent(w) \/ CommitResponseRefused(w)
  <2>1. /\ work[w].op \in {"reconcile", "respond"}
        /\ \/ Stay
           \/ /\ IsLegal(work[w].seen, "REQUEST_SUBMITTED")
              /\ MoveCase(work[w].on, work[w].seen, "REQUEST_SUBMITTED")
    BY <1>7, AppliedIsLegal DEF EffectConfirmed, EffectAbsent,
                                CommitResponseRefused, Running
  <2>2. QED
    BY <2>1, MoveOnTable
<1>8. CASE CommitRespond(w)
  <2>1. PICK outcome \in ResponseOutcomes :
          /\ work[w].op = "respond"
          /\ IsLegal(work[w].seen, ResponseTarget[outcome])
          /\ MoveCase(work[w].on, work[w].seen, ResponseTarget[outcome])
    BY <1>8, AppliedIsLegal DEF CommitRespond, Running
  <2>2. QED
    BY <2>1, MoveOnTable
<1>9. CASE \E finding \in Findings, windowMet \in BOOLEAN :
             CommitVerify(w, finding, windowMet)
  <2>1. /\ work[w].op = "verify"
        /\ \/ Stay
           \/ /\ IsLegal(work[w].seen, "VERIFIED_REMOVED")
              /\ MoveCase(work[w].on, work[w].seen, "VERIFIED_REMOVED")
    BY <1>9, AppliedIsLegal DEF CommitVerify, Running
  <2>2. QED
    BY <2>1, MoveOnTable
<1>10. QED
  BY <1>3, <1>4, <1>5, <1>6, <1>7, <1>8, <1>9 DEF Handle

LEMMA NextOnTable ==
  ASSUME IInv, ReadIsFresh, [Next]_vars
  PROVE  MovesOnTable
<1> USE RowsAssumption
<1>1. CASE \E w \in Worker : Handle(w)
  BY <1>1, HandleOnTable
<1>2. CASE \E e \in Exposure : ExposureSettled(e)
  <2>1. \A c \in Case : state'[c] = state[c]
    BY <1>2 DEF ExposureSettled, IInv, TypeOK, Row
  <2>2. QED
    BY <2>1 DEF MovesOnTable
<1>3. CASE \/ \E x \in Action, c \in Case : ActionAttempted(x, c)
           \/ \E item \in Paperwork : Lapse(item)
           \/ UNCHANGED vars
  <2>1. UNCHANGED state
    BY <1>3 DEF ActionAttempted, Lapse, vars
  <2>2. QED
    BY <2>1 DEF MovesOnTable
<1>4. QED
  BY <1>1, <1>2, <1>3 DEF Next

\* A handler's step begins a transaction, which reads its row, or ends one.
LEMMA HandleBeginsOrEnds ==
  ASSUME NEW w \in Worker, Handle(w)
  PROVE  Done(w) \/ \E op, r, other : Begin(w, op, r, other)
<1>1. CASE \E e \in Exposure : \/ BeginAssess(w, e)
                               \/ BeginDisprove(w, e)
                               \/ BeginReappear(w, e)
                               \/ \E d \in Decision : BeginCreate(w, e, d)
  BY <1>1 DEF BeginAssess, BeginDisprove, BeginReappear, BeginCreate
<1>2. CASE \E c \in Case : \/ BeginPrepare(w, c)
                           \/ BeginRespond(w, c)
                           \/ BeginVerify(w, c)
  BY <1>2 DEF BeginPrepare, BeginRespond, BeginVerify
<1>3. CASE \E x \in Action : BeginReconcile(w, x)
  BY <1>3 DEF BeginReconcile
<1>4. CASE CommitBelowThreshold(w) \/ CommitAssess(w) \/ CommitDisprove(w)
             \/ CommitReappear(w) \/ CommitCreate(w) \/ RollBack(w)
  BY <1>4 DEF CommitBelowThreshold, CommitAssess, CommitDisprove,
              CommitReappear, CommitCreate, RollBack
<1>5. CASE GuardedUpdate(w) \/ RecordHumanGate(w)
  BY <1>5 DEF GuardedUpdate, RecordHumanGate, CommitPrepare
<1>6. CASE EffectConfirmed(w) \/ EffectAbsent(w) \/ EffectIndeterminate(w)
  BY <1>6 DEF EffectConfirmed, EffectAbsent, EffectIndeterminate
<1>7. CASE \/ CommitRespond(w)
           \/ CommitResponseRefused(w)
           \/ \E finding \in Findings, windowMet \in BOOLEAN :
                CommitVerify(w, finding, windowMet)
  BY <1>7 DEF CommitRespond, CommitResponseRefused, CommitVerify
<1>8. QED
  BY <1>1, <1>2, <1>3, <1>4, <1>5, <1>6, <1>7 DEF Handle

LEMMA FreshNext ==
  ASSUME NEW only, Worker = {only}, IInv, ReadIsFresh, [Next]_vars
  PROVE  ReadIsFresh'
<1> USE RowsAssumption
<1>1. TypeOK
  BY DEF IInv
<1>2. CASE Handle(only)
  <2>1. CASE Done(only)
    BY <2>1, <1>1 DEF Done, ReadIsFresh, Idle, TypeOK
  <2>2. CASE \E op, r, other : Begin(only, op, r, other)
    <3>1. PICK op, r, other : Begin(only, op, r, other)
      BY <2>2
    <3>2. work'[only].on = r /\ work'[only].seen = state[r] /\ state' = state
      BY <3>1, <1>1 DEF Begin, rows, TypeOK
    <3>3. QED
      BY <3>2 DEF ReadIsFresh
  <2>3. QED
    BY <1>2, <2>1, <2>2, HandleBeginsOrEnds
<1>3. CASE \E e \in Exposure : ExposureSettled(e)
  <2>1. UNCHANGED work /\ \A c \in Case : state'[c] = state[c]
    BY <1>1, <1>3 DEF ExposureSettled, TypeOK, Row
  <2>2. QED
    BY <2>1, CaseOfJob DEF ReadIsFresh
<1>4. CASE \/ \E x \in Action, c \in Case : ActionAttempted(x, c)
           \/ \E item \in Paperwork : Lapse(item)
           \/ UNCHANGED vars
  <2>1. UNCHANGED <<state, work>>
    BY <1>4 DEF ActionAttempted, Lapse, vars
  <2>2. QED
    BY <2>1 DEF ReadIsFresh
<1>5. QED
  BY <1>2, <1>3, <1>4 DEF Next

LEMMA SerialInvariant ==
  ASSUME NEW only, Worker = {only}
  PROVE  Spec => [](IInv /\ ReadIsFresh)
<1>1. Init => IInv /\ ReadIsFresh
  BY InitInv DEF Init, ReadIsFresh, Idle
<1>2. IInv /\ ReadIsFresh /\ [Next]_vars => (IInv /\ ReadIsFresh)'
  BY NextInv, FreshNext
<1>3. QED
  BY <1>1, <1>2, PTL DEF Spec

\* With one handler at a time no case ever moves to a state the table does not
\* let it reach: overlapping handlers are all that breaks CasesFollowTable.
THEOREM SerialCasesFollowTable ==
  ASSUME NEW only, Worker = {only}
  PROVE  Spec => CasesFollowTable
<1>1. IInv /\ ReadIsFresh /\ [Next]_vars =>
        [\A c \in Case :
           state[c] # Absent /\ state'[c] # state[c] => IsLegal(state[c], state'[c])]_vars
  BY NextOnTable DEF MovesOnTable
<1>2. QED
  BY <1>1, SerialInvariant, PTL DEF Spec, CasesFollowTable

\* With one handler at a time the audit row of every move names the state the
\* case was really in.
THEOREM SerialAuditNamesStateLeft ==
  ASSUME NEW only, Worker = {only}
  PROVE  Spec => AuditNamesStateLeft
<1>1. ASSUME MovesOnTable
      PROVE  \A c \in Case :
               state[c] # Absent /\ state'[c] # state[c] =>
                 newest'[c] # Absent /\ SourceOf(newest'[c]) = state[c]
  <2>1. \A id \in TransitionIds : id # Absent
    BY DEF TransitionIds, Absent
  <2>2. QED
    BY <1>1, <2>1, LabelOfPair DEF MovesOnTable
<1>2. IInv /\ ReadIsFresh /\ [Next]_vars =>
        [\A c \in Case :
           state[c] # Absent /\ state'[c] # state[c] =>
             /\ newest'[c] # Absent
             /\ SourceOf(newest'[c]) = state[c]]_vars
  BY <1>1, NextOnTable
<1>3. QED
  BY <1>2, SerialInvariant, PTL DEF Spec, AuditNamesStateLeft

-----------------------------------------------------------------------------
(* Decisions and effects, when one handler runs at a time                  *)

\* The decision a create names is still nobody's, and the action a reconciliation
\* is about is still ambiguous.
OtherIsFresh ==
  \A w \in Worker :
    /\ work[w].op = "create" => boundTo[work[w].other] = None
    /\ work[w].op = "reconcile" => action[work[w].other].status = "AMBIGUOUS"

\* A decision names the case that names it.
BoundInv ==
  \A c \in Case : decisionOf[c] # None => boundTo[decisionOf[c]] = c

SettledStay ==
  \A x \in Action :
    action[x].status \in {"SUBMITTED", "FAILED"} => action'[x] = action[x]

PaperInv == OtherIsFresh /\ BoundInv

\* Steps that touch neither decisions nor actions.
KeepsPapers == UNCHANGED <<decisionOf, boundTo, action>>

LEMMA BeginKeepsPapers ==
  ASSUME NEW only, Worker = {only}, TypeOK, PaperInv,
         NEW op, NEW r, NEW other, Begin(only, op, r, other),
         op = "create" => boundTo[other] = None,
         op = "reconcile" => action[other].status = "AMBIGUOUS"
  PROVE  PaperInv' /\ SettledStay
<1>1. work'[only].op = op /\ work'[only].other = other /\ KeepsPapers
  BY DEF Begin, TypeOK, rows, KeepsPapers
<1>2. OtherIsFresh'
  BY <1>1 DEF OtherIsFresh, KeepsPapers
<1>3. BoundInv' /\ SettledStay
  BY <1>1 DEF BoundInv, SettledStay, KeepsPapers, PaperInv
<1>4. QED
  BY <1>2, <1>3 DEF PaperInv

LEMMA DoneFreshens ==
  ASSUME NEW only, Worker = {only}, TypeOK, Done(only)
  PROVE  OtherIsFresh'
BY DEF OtherIsFresh, Done, TypeOK, Idle

LEMMA CreateKeepsPapers ==
  ASSUME NEW only, Worker = {only}, IInv, PaperInv, CommitCreate(only)
  PROVE  PaperInv' /\ SettledStay
<1> USE RowsAssumption
<1>1. TypeOK /\ JobOK(work[only])
  BY DEF IInv, JobInv
<1>2. PICK d : d = work[only].other
  OBVIOUS
<1>3. d \in Decision /\ boundTo[d] = None
  BY <1>1, <1>2 DEF JobOK, CommitCreate, Running, PaperInv, OtherIsFresh
<1>4. PICK c \in Case : /\ decisionOf' = [decisionOf EXCEPT ![c] = d]
                        /\ boundTo' = [boundTo EXCEPT ![d] = c]
  BY <1>2 DEF CommitCreate
<1>5. ASSUME NEW b \in Case, decisionOf'[b] # None
      PROVE  boundTo'[decisionOf'[b]] = b
  <2>1. CASE b = c
    BY <2>1, <1>1, <1>3, <1>4 DEF TypeOK
  <2>2. CASE b # c
    <3>1. decisionOf'[b] = decisionOf[b] /\ decisionOf[b] \in Decision
      BY <2>2, <1>1, <1>4, <1>5 DEF TypeOK
    <3>2. boundTo[decisionOf[b]] = b
      BY <3>1, <1>5 DEF PaperInv, BoundInv
    <3>3. decisionOf[b] # d
      BY <3>2, <1>3
    <3>4. QED
      BY <3>1, <3>2, <3>3, <1>1, <1>4 DEF TypeOK
  <2>3. QED
    BY <2>1, <2>2
<1>6. OtherIsFresh'
  BY <1>1, DoneFreshens DEF CommitCreate
<1>7. SettledStay
  BY DEF CommitCreate, SettledStay
<1>8. QED
  BY <1>5, <1>6, <1>7 DEF PaperInv, BoundInv

LEMMA ResolveKeepsPapers ==
  ASSUME NEW only, Worker = {only}, IInv, PaperInv,
         EffectConfirmed(only) \/ EffectAbsent(only)
  PROVE  PaperInv' /\ SettledStay
<1>1. TypeOK
  BY DEF IInv
<1>2. /\ action[work[only].other].status = "AMBIGUOUS"
      /\ Done(only) /\ UNCHANGED <<decisionOf, boundTo>>
  BY DEF EffectConfirmed, EffectAbsent, Running, PaperInv, OtherIsFresh
<1>3. PICK x, s : x = work[only].other /\ action' = [action EXCEPT ![x].status = s]
  BY DEF EffectConfirmed, EffectAbsent, Resolve
<1>4. SettledStay
  BY <1>1, <1>2, <1>3 DEF SettledStay, TypeOK
<1>5. BoundInv' /\ OtherIsFresh'
  BY <1>1, <1>2, DoneFreshens DEF BoundInv, PaperInv
<1>6. QED
  BY <1>4, <1>5 DEF PaperInv

LEMMA HandleKeepsPapers ==
  ASSUME NEW only, Worker = {only}, IInv, PaperInv, Handle(only)
  PROVE  PaperInv' /\ SettledStay
<1>1. TypeOK
  BY DEF IInv
<1>2. CASE \E e \in Exposure : \/ BeginAssess(only, e)
                               \/ BeginDisprove(only, e)
                               \/ BeginReappear(only, e)
  BY <1>1, <1>2, BeginKeepsPapers DEF BeginAssess, BeginDisprove, BeginReappear
<1>3. CASE \E c \in Case : \/ BeginPrepare(only, c)
                           \/ BeginRespond(only, c)
                           \/ BeginVerify(only, c)
  BY <1>1, <1>3, BeginKeepsPapers DEF BeginPrepare, BeginRespond, BeginVerify
<1>4. CASE \E e \in Exposure, d \in Decision : BeginCreate(only, e, d)
  BY <1>1, <1>4, BeginKeepsPapers DEF BeginCreate
<1>5. CASE \E x \in Action : BeginReconcile(only, x)
  BY <1>1, <1>5, BeginKeepsPapers DEF BeginReconcile
<1>6. CASE CommitCreate(only)
  BY <1>6, CreateKeepsPapers
<1>7. CASE EffectConfirmed(only) \/ EffectAbsent(only)
  BY <1>7, ResolveKeepsPapers
<1>8. ASSUME Done(only), KeepsPapers
      PROVE  PaperInv' /\ SettledStay
  BY <1>1, <1>8, DoneFreshens DEF KeepsPapers, PaperInv, BoundInv, SettledStay
<1>9. CASE \/ CommitBelowThreshold(only)
           \/ CommitAssess(only)
           \/ CommitDisprove(only)
           \/ CommitReappear(only)
  BY <1>8, <1>9 DEF KeepsPapers, CommitBelowThreshold, CommitAssess, CommitDisprove,
                    CommitReappear
<1>10. CASE GuardedUpdate(only) \/ RecordHumanGate(only)
  BY <1>8, <1>10 DEF KeepsPapers, GuardedUpdate, RecordHumanGate, CommitPrepare
<1>11. CASE EffectIndeterminate(only) \/ RollBack(only)
  BY <1>8, <1>11 DEF KeepsPapers, EffectIndeterminate, RollBack, rows
<1>12. CASE \/ CommitRespond(only)
            \/ CommitResponseRefused(only)
            \/ \E finding \in Findings, windowMet \in BOOLEAN :
                 CommitVerify(only, finding, windowMet)
  BY <1>8, <1>12 DEF KeepsPapers, CommitRespond, CommitResponseRefused, CommitVerify
<1>13. QED
  BY <1>2, <1>3, <1>4, <1>5, <1>6, <1>7, <1>9, <1>10, <1>11, <1>12 DEF Handle

LEMMA NextKeepsPapers ==
  ASSUME NEW only, Worker = {only}, IInv, PaperInv, [Next]_vars
  PROVE  PaperInv' /\ SettledStay
<1>1. CASE Handle(only)
  BY <1>1, HandleKeepsPapers
<1>2. CASE \E x \in Action, c \in Case : ActionAttempted(x, c)
  <2>1. PICK x \in Action, c \in Case : ActionAttempted(x, c)
    BY <1>2
  <2>2. /\ action[x].status = "NONE"
        /\ \A y \in Action \ {x} : action'[y] = action[y]
        /\ action'[x].status = "AMBIGUOUS"
        /\ UNCHANGED <<decisionOf, boundTo, work>>
    BY <2>1 DEF ActionAttempted, IInv, TypeOK
  <2>3. \A w \in Worker : work[w].op = "reconcile" => work[w].other \in Action
    BY DEF IInv, JobInv, JobOK
  <2>4. QED
    BY <2>2, <2>3 DEF PaperInv, OtherIsFresh, BoundInv, SettledStay
<1>3. CASE \/ \E e \in Exposure : ExposureSettled(e)
           \/ \E item \in Paperwork : Lapse(item)
           \/ UNCHANGED vars
  <2>1. UNCHANGED work /\ KeepsPapers
    BY <1>3 DEF ExposureSettled, Lapse, vars, KeepsPapers
  <2>2. QED
    BY <2>1 DEF KeepsPapers, PaperInv, OtherIsFresh, BoundInv, SettledStay
<1>4. QED
  BY <1>1, <1>2, <1>3 DEF Next

LEMMA SerialPapers ==
  ASSUME NEW only, Worker = {only}
  PROVE  Spec => [](IInv /\ PaperInv)
<1>1. Init => IInv /\ PaperInv
  BY InitInv DEF Init, PaperInv, OtherIsFresh, BoundInv, Idle
<1>2. IInv /\ PaperInv /\ [Next]_vars => (IInv /\ PaperInv)'
  BY NextInv, NextKeepsPapers
<1>3. QED
  BY <1>1, <1>2, PTL DEF Spec

\* With one handler at a time a decision authorises one case: what createCase reads
\* of it is still so when the case is inserted.
THEOREM SerialDecisionAuthorisesOneCase ==
  ASSUME NEW only, Worker = {only}
  PROVE  Spec => []DecisionAuthorisesOneCase
<1>1. PaperInv => DecisionAuthorisesOneCase
  BY DEF PaperInv, BoundInv, DecisionAuthorisesOneCase
<1>2. QED
  BY <1>1, SerialPapers, PTL

\* With one handler at a time recordReconciliation establishes an effect once.
THEOREM SerialEffectSettledOnce ==
  ASSUME NEW only, Worker = {only}
  PROVE  Spec => EffectSettledOnce
<1>1. IInv /\ PaperInv /\ [Next]_vars =>
        [\A x \in Action :
           action[x].status \in {"SUBMITTED", "FAILED"} => action'[x] = action[x]]_vars
  BY NextKeepsPapers DEF SettledStay
<1>2. QED
  BY <1>1, SerialPapers, PTL DEF Spec, EffectSettledOnce

-----------------------------------------------------------------------------
(* The deadlines and appeals of a case                                     *)

\* Where a request is says what it carries.
LEMMA DueRequestKinds ==
  ASSUME NEW job \in Requests
  PROVE  /\ job.at = "dating" =>
              job \in [at: {"dating"}, window: BOOLEAN, due: Instant]
         /\ job.at = "deriving" =>
              job \in [at: {"deriving"}, window: BOOLEAN, due: Instant, ref: Version]
         /\ job.at = "told" =>
              job \in [at: {"told"}, deadline: Deadline, version: Version]
         /\ job.at \in {"locked", "satisfied"} =>
              job \in [at: {"locked", "satisfied"}, deadline: Deadline]
         /\ job.at \in {"appealing", "admitted"} =>
              job \in [at: {"appealing", "admitted"}, since: Instant,
                       standing: SUBSET Instant]
BY DEF Requests

LEMMA DueInitInv ==
  ASSUME DueInit
  PROVE  DueInv
<1>1. DueTypeOK
  BY DueAssumption DEF DueInit, DueTypeOK, Instant, NoRequest, Requests
<1>2. \A w \in Handler : req[w].at = "idle"
  BY DEF DueInit, NoRequest
<1>3. OnFile = {}
  BY DEF DueInit, OnFile
<1> QED
  BY <1>1, <1>2, <1>3 DEF DueInit, DueInv, LocksInv, SatisfactionStands,
    AppealsInv, EscalationsInTime, Is

-----------------------------------------------------------------------------
(* Steps that write no row                                                 *)

\* What the invariant asks of one request, but for the lock it may share.
DueFits(w, job) ==
  /\ job.at \in {"locked", "satisfied"} => job.deadline \in OnFile
  /\ job.at = "locked" => deadlines[job.deadline].by = Nothing
  /\ job.at = "satisfied" => deadlines[job.deadline].by = w
  /\ job.at \in {"appealing", "admitted"} =>
       job.since <= clock /\ job.standing \subseteq WindowEnds
  /\ job.at = "admitted" => \A due \in job.standing : job.since <= due

LEMMA DueByRequest ==
  DueInv <=>
    /\ DueTypeOK
    /\ \A w \in Handler : DueFits(w, req[w])
    /\ \A v, w \in Handler :
         req[v].at = "locked" /\ req[w].at = "locked" /\ req[v].deadline = req[w].deadline
           => v = w
    /\ EscalationsInTime
BY DEF DueInv, LocksInv, SatisfactionStands, AppealsInv, Is, DueFits

LEMMA DueByRequestAfter ==
  ASSUME DueTypeOK', \A w \in Handler : DueFits(w, req[w])',
         \A v, w \in Handler :
           req'[v].at = "locked" /\ req'[w].at = "locked" /\ req'[v].deadline = req'[w].deadline
             => v = w,
         EscalationsInTime'
  PROVE  DueInv'
BY DEF DueInv, LocksInv, SatisfactionStands, AppealsInv, Is, DueFits

\* A request may go on as any that fits, when it does not come to a lock.
LEMMA DueGoesKeeps ==
  ASSUME DueInv, NEW w \in Handler, NEW job \in Requests, Goes(w, job), Keeps,
         DueFits(w, job),
         job.at = "locked" =>
           \A v \in Handler \ {w} : req[v].at = "locked" => req[v].deadline # job.deadline
  PROVE  DueInv'
<1>1. /\ clock' = clock /\ decisions' = decisions
      /\ deadlines' = deadlines /\ escalations' = escalations
      /\ req \in [Handler -> Requests] /\ req' = [req EXCEPT ![w] = job]
  BY DEF Keeps, Goes, DueInv, DueTypeOK
<1>2. DueTypeOK'
  BY <1>1 DEF DueInv, DueTypeOK
<1>3. OnFile' = OnFile /\ WindowEnds' = WindowEnds
  BY <1>1 DEF OnFile, WindowEnds, Windows
<1>4. ASSUME NEW v \in Handler
      PROVE  DueFits(v, req[v])'
  <2>1. DueFits(v, req'[v])
    BY <1>1, DueByRequest
  <2> QED
    BY <1>1, <1>3, <2>1 DEF DueFits
<1>5. \A u, v \in Handler :
        req'[u].at = "locked" /\ req'[v].at = "locked" /\ req'[u].deadline = req'[v].deadline
          => u = v
  BY <1>1, DueByRequest
<1>6. EscalationsInTime'
  BY <1>1, <1>3, DueByRequest DEF EscalationsInTime
<1> QED
  BY <1>2, <1>4, <1>5, <1>6, DueByRequestAfter

LEMMA DueIdleFits ==
  ASSUME NEW w \in Handler
  PROVE  NoRequest \in Requests /\ DueFits(w, NoRequest) /\ NoRequest.at = "idle"
BY DEF NoRequest, Requests, DueFits

LEMMA DueLeaves ==
  ASSUME DueInv, NEW w \in Handler, GivesUp(w) \/ Leave(w)
  PROVE  DueInv'
BY DueIdleFits, DueGoesKeeps DEF GivesUp, Leave

LEMMA ListedAreVersions ==
  ASSUME DueInv
  PROVE  ListedVersions \subseteq Version
BY DEF DueInv, DueTypeOK, ListedVersions

LEMMA DueBegins ==
  ASSUME DueInv, NEW w \in Handler,
         BeginDate(w) \/ ReadProvenance(w) \/ ListDeadlines(w)
  PROVE  DueInv'
<1>1. CASE BeginDate(w)
  <2>1. PICK window \in BOOLEAN, due \in Instant :
          Goes(w, [at |-> "dating", window |-> window, due |-> due])
    BY <1>1 DEF BeginDate
  <2> DEFINE job == [at |-> "dating", window |-> window, due |-> due]
  <2>2. job \in Requests
    BY DEF Requests
  <2>3. DueFits(w, job)
    BY DEF DueFits
  <2> QED
    BY <1>1, <2>1, <2>2, <2>3, DueGoesKeeps DEF BeginDate
<1>2. CASE ReadProvenance(w)
  <2> DEFINE job == [at |-> "deriving", window |-> req[w].window, due |-> req[w].due,
                     ref |-> decisions[Own]]
  <2>1. req[w] \in [at: {"dating"}, window: BOOLEAN, due: Instant]
    BY <1>2, DueRequestKinds DEF ReadProvenance, Is, DueInv, DueTypeOK
  <2>2. job \in Requests
    BY <2>1 DEF Requests, DueInv, DueTypeOK
  <2>3. DueFits(w, job)
    BY DEF DueFits
  <2> QED
    BY <1>2, <2>2, <2>3, DueGoesKeeps DEF ReadProvenance
<1>3. CASE ListDeadlines(w)
  <2>1. PICK d \in OnFile, v \in ListedVersions :
          Goes(w, [at |-> "told", deadline |-> d, version |-> v])
    BY <1>3 DEF ListDeadlines
  <2> DEFINE job == [at |-> "told", deadline |-> d, version |-> v]
  <2>2. job \in Requests
    BY ListedAreVersions DEF Requests, OnFile
  <2>3. DueFits(w, job)
    BY DEF DueFits
  <2> QED
    BY <1>3, <2>1, <2>2, <2>3, DueGoesKeeps DEF ListDeadlines
<1> QED
  BY <1>1, <1>2, <1>3

\* The row lock: whoever takes it finds nobody holding it, and no name in the row.
LEMMA DueLocks ==
  ASSUME DueInv, NEW w \in Handler, LockDeadline(w)
  PROVE  DueInv'
<1>1. PICK d \in OnFile :
        /\ ~Locked(d) /\ deadlines[d].by = Nothing
        /\ Goes(w, [at |-> "locked", deadline |-> d])
  BY DEF LockDeadline
<1> DEFINE job == [at |-> "locked", deadline |-> d]
<1>2. job \in Requests
  BY <1>1 DEF OnFile, Requests
<1>3. DueFits(w, job)
  BY <1>1 DEF DueFits
<1>4. \A v \in Handler \ {w} : req[v].at = "locked" => req[v].deadline # job.deadline
  BY <1>1 DEF Locked, Is
<1> QED
  BY <1>1, <1>2, <1>3, <1>4, DueGoesKeeps DEF LockDeadline

\* An appeal begins at the instant it will say it was made, and goes on when no
\* window that is on file, so none that was, is over.
LEMMA DueAppeals ==
  ASSUME DueInv, NEW w \in Handler, BeginAppeal(w) \/ WindowOpen(w)
  PROVE  DueInv'
<1>1. /\ clock \in Int /\ WindowEnds \subseteq Instant /\ Instant \subseteq Int
      /\ clock \in Instant
  BY DueAssumption DEF DueInv, DueTypeOK, WindowEnds, Windows, OnFile, Rows, Instant
<1>2. CASE BeginAppeal(w)
  <2> DEFINE job == [at |-> "appealing", since |-> clock, standing |-> WindowEnds]
  <2>1. job \in Requests
    BY <1>1 DEF Requests
  <2>2. DueFits(w, job)
    BY <1>1 DEF DueFits
  <2> QED
    BY <1>2, <2>1, <2>2, DueGoesKeeps DEF BeginAppeal
<1>3. CASE WindowOpen(w)
  <2> DEFINE job == [req[w] EXCEPT !.at = "admitted"]
  <2>1. req[w] \in [at: {"appealing", "admitted"}, since: Instant,
                    standing: SUBSET Instant]
    BY <1>3, DueRequestKinds DEF WindowOpen, Is, DueInv, DueTypeOK
  <2>2. job \in Requests
    BY <2>1 DEF Requests
  <2>3. req[w].since <= clock /\ req[w].standing \subseteq WindowEnds
    BY <1>3, DueByRequest DEF DueFits, WindowOpen, Is
  <2>4. \A due \in req[w].standing : req[w].since <= due
    <3>1. \A due \in WindowEnds : due >= clock
      BY <1>3 DEF WindowOpen
    <3>2. req[w].since \in Int /\ req[w].since <= clock
      BY <1>1, <2>1, <2>3
    <3>3. ASSUME NEW due \in req[w].standing
          PROVE  due \in Int /\ due >= clock
      BY <1>1, <2>3, <3>1
    <3> QED
      BY <1>1, <3>2, <3>3
  <2>5. job.at = "admitted" /\ job.since = req[w].since /\ job.standing = req[w].standing
    BY <2>1
  <2>6. DueFits(w, job)
    BY <2>3, <2>4, <2>5 DEF DueFits
  <2> QED
    BY <1>3, <2>2, <2>5, <2>6, DueGoesKeeps DEF WindowOpen
<1> QED
  BY <1>2, <1>3

-----------------------------------------------------------------------------
(* Steps that write a row                                                  *)

\* Whatever is written, the others fit while their deadlines stay as they are, and no
\* window is taken away.
LEMMA DueOthersFit ==
  ASSUME DueInv, NEW v \in Handler, req'[v] = req[v], clock' = clock,
         \A d \in OnFile : d \in OnFile' /\ deadlines'[d].window = deadlines[d].window
                                 /\ deadlines'[d].due = deadlines[d].due,
         req[v].at \in {"locked", "satisfied"} =>
           deadlines'[req[v].deadline] = deadlines[req[v].deadline]
  PROVE  DueFits(v, req[v])'
<1>1. DueFits(v, req[v])
  BY DueByRequest
<1>2. WindowEnds \subseteq WindowEnds'
  BY DEF WindowEnds, Windows
<1> QED
  BY <1>1, <1>2 DEF DueFits

LEMMA DueCommitsDate ==
  ASSUME DueInv, NEW w \in Handler, CommitDate(w)
  PROVE  DueInv'
<1> DEFINE row == [window |-> req[w].window, due |-> req[w].due, ref |-> req[w].ref, by |-> Nothing]
<1>1. PICK d \in Deadline \ OnFile :
        /\ deadlines' = [deadlines EXCEPT ![d] = row]
        /\ \/ \E v \in ListedVersions :
                Goes(w, [at |-> "told", deadline |-> d, version |-> v])
           \/ Goes(w, NoRequest)
  BY DEF CommitDate
<1>2. /\ clock' = clock /\ decisions' = decisions
      /\ escalations' = escalations
      /\ req \in [Handler -> Requests]
      /\ deadlines \in [Deadline -> Rows \cup {Nothing}]
  BY DEF CommitDate, DueInv, DueTypeOK
<1>3. req[w] \in [at: {"deriving"}, window: BOOLEAN, due: Instant, ref: Version]
  BY <1>2, DueRequestKinds DEF CommitDate, Is
<1>4. row \in Rows /\ row # Nothing
  BY <1>3, DueAssumption DEF Rows
<1>5. PICK job \in Requests :
         req' = [req EXCEPT ![w] = job] /\ job.at \in {"told", "idle"}
  <2>1. CASE Goes(w, NoRequest)
    BY <2>1, DueIdleFits DEF Goes
  <2>2. ASSUME NEW v \in ListedVersions,
               Goes(w, [at |-> "told", deadline |-> d, version |-> v])
        PROVE  \E job \in Requests :
                 req' = [req EXCEPT ![w] = job] /\ job.at \in {"told", "idle"}
    <3>1. [at |-> "told", deadline |-> d, version |-> v] \in Requests
      BY ListedAreVersions DEF Requests
    <3> QED
      BY <2>2, <3>1 DEF Goes
  <2> QED
    BY <1>1, <2>1, <2>2
<1> HIDE DEF row
<1>6. DueTypeOK'
  BY <1>1, <1>2, <1>4, <1>5 DEF DueInv, DueTypeOK
<1>7. /\ OnFile' = OnFile \cup {d}
      /\ \A x \in OnFile : deadlines'[x] = deadlines[x]
      /\ deadlines'[d] = row
  BY <1>1, <1>2, <1>4 DEF OnFile
<1>8. ASSUME NEW v \in Handler
      PROVE  DueFits(v, req[v])'
  <2>1. CASE v = w
    BY <1>2, <1>5, <2>1 DEF DueFits
  <2>2. CASE v # w
    <3>1. req'[v] = req[v]
      BY <1>2, <1>5, <2>2
    <3>2. req[v].at \in {"locked", "satisfied"} => req[v].deadline \in OnFile
      BY DueByRequest DEF DueFits
    <3> QED
      BY <1>2, <1>7, <3>1, <3>2, DueOthersFit
  <2> QED
    BY <2>1, <2>2
<1>9. \A u, v \in Handler :
        req'[u].at = "locked" /\ req'[v].at = "locked" /\ req'[u].deadline = req'[v].deadline
          => u = v
  BY <1>2, <1>5, DueByRequest
<1>10. EscalationsInTime'
  BY <1>2, <1>4, <1>7, DueByRequest DEF EscalationsInTime
<1> QED
  BY <1>6, <1>8, <1>9, <1>10, DueByRequestAfter

LEMMA DueCommitsSatisfy ==
  ASSUME DueInv, NEW w \in Handler, CommitSatisfy(w)
  PROVE  DueInv'
<1> DEFINE d == req[w].deadline
           row == [deadlines[d] EXCEPT !.by = w]
<1>1. /\ clock' = clock /\ decisions' = decisions
      /\ escalations' = escalations
      /\ req \in [Handler -> Requests] /\ deadlines \in [Deadline -> Rows \cup {Nothing}]
      /\ deadlines' = [deadlines EXCEPT ![d] = row]
  BY DEF CommitSatisfy, DueInv, DueTypeOK
<1>2. /\ req[w] \in [at: {"locked", "satisfied"}, deadline: Deadline]
      /\ req[w].at = "locked"
  BY <1>1, DueRequestKinds DEF CommitSatisfy, Is
<1>3. PICK job : /\ req' = [req EXCEPT ![w] = job]
                 /\ job = [req[w] EXCEPT !.at = "satisfied"] \/ job = NoRequest
  BY DEF CommitSatisfy, Goes
<1>4. /\ job \in Requests /\ job.at \in {"satisfied", "idle"}
      /\ job.at = "satisfied" => job.deadline = d
  <2>1. [req[w] EXCEPT !.at = "satisfied"] = [at |-> "satisfied", deadline |-> d]
    BY <1>2
  <2>2. d \in Deadline
    BY <1>2
  <2>3. CASE job = [at |-> "satisfied", deadline |-> d]
    BY <2>2, <2>3 DEF Requests
  <2>4. CASE job = NoRequest
    BY <2>4 DEF Requests, NoRequest
  <2> QED
    BY <1>3, <2>1, <2>3, <2>4
<1>5. d \in OnFile /\ deadlines[d].by = Nothing /\ deadlines[d] \in Rows
  BY <1>1, <1>2, DueByRequest DEF DueFits, OnFile
<1>6. /\ row \in Rows /\ row # Nothing /\ row.by = w
      /\ row.window = deadlines[d].window /\ row.due = deadlines[d].due
      /\ row.ref = deadlines[d].ref
  BY <1>5, DueAssumption DEF Rows
<1> HIDE DEF row
<1>7. DueTypeOK'
  BY <1>1, <1>2, <1>3, <1>4, <1>6 DEF DueInv, DueTypeOK
<1>8. /\ OnFile' = OnFile /\ deadlines'[d] = row
      /\ \A x \in Deadline : x # d => deadlines'[x] = deadlines[x]
  BY <1>1, <1>5, <1>6 DEF OnFile
<1>9. \A x \in OnFile : x \in OnFile' /\ deadlines'[x].window = deadlines[x].window
                              /\ deadlines'[x].due = deadlines[x].due
                              /\ deadlines'[x].ref = deadlines[x].ref
  BY <1>6, <1>8 DEF OnFile
<1>10. ASSUME NEW v \in Handler
       PROVE  DueFits(v, req[v])'
  <2>1. CASE v = w
    <3>1. req'[v] = job
      BY <1>1, <1>3, <2>1
    <3> QED
      BY <1>4, <1>5, <1>6, <1>8, <2>1, <3>1 DEF DueFits
  <2>2. CASE v # w
    <3>1. req'[v] = req[v]
      BY <1>1, <1>3, <2>2
    <3>2. req[v].at \in {"locked", "satisfied"} =>
            req[v].deadline \in Deadline /\ req[v].deadline # d
      BY <1>2, <1>5, <2>2, DueByRequest, DueAssumption DEF DueFits, OnFile
    <3> QED
      BY <1>1, <1>8, <1>9, <3>1, <3>2, DueOthersFit
  <2> QED
    BY <2>1, <2>2
<1>11. \A u, v \in Handler :
         req'[u].at = "locked" /\ req'[v].at = "locked" /\ req'[u].deadline = req'[v].deadline
           => u = v
  BY <1>1, <1>3, <1>4, DueByRequest
<1>12. EscalationsInTime'
  BY <1>1, <1>8, <1>9, DueByRequest DEF EscalationsInTime
<1> QED
  BY <1>7, <1>10, <1>11, <1>12, DueByRequestAfter

LEMMA DueCommitsAppeal ==
  ASSUME DueInv, NEW w \in Handler, CommitAppeal(w)
  PROVE  DueInv'
<1> DEFINE row == [since |-> req[w].since, standing |-> req[w].standing]
<1>1. PICK a \in Appeal : escalations' = [escalations EXCEPT ![a] = row]
  BY DEF CommitAppeal
<1>2. /\ clock' = clock /\ decisions' = decisions
      /\ deadlines' = deadlines
      /\ req \in [Handler -> Requests] /\ req' = [req EXCEPT ![w] = NoRequest]
      /\ escalations \in [Appeal -> Escalations \cup {Nothing}]
  BY DEF CommitAppeal, Goes, DueInv, DueTypeOK
<1>3. req[w] \in [at: {"appealing", "admitted"}, since: Instant,
                  standing: SUBSET Instant]
  BY <1>2, DueRequestKinds DEF CommitAppeal, Is
<1>4. row \in Escalations
  BY <1>3 DEF Escalations
<1>5. \A due \in row.standing : row.since <= due
  BY DueByRequest DEF DueFits, CommitAppeal, Is
<1> HIDE DEF row
<1>6. DueTypeOK'
  BY <1>1, <1>2, <1>4, DueIdleFits DEF DueInv, DueTypeOK
<1>7. EscalationsInTime'
  BY <1>1, <1>2, <1>5, DueByRequest DEF EscalationsInTime
<1>8. OnFile' = OnFile
  BY <1>2 DEF OnFile
<1>9. ASSUME NEW v \in Handler
      PROVE  DueFits(v, req[v])'
  <2>1. CASE v = w
    BY <1>2, <2>1 DEF DueFits, NoRequest
  <2>2. CASE v # w
    <3>1. req'[v] = req[v]
      BY <1>2, <2>2
    <3> QED
      BY <1>2, <1>8, <3>1, DueOthersFit
  <2> QED
    BY <2>1, <2>2
<1>10. \A u, v \in Handler :
         req'[u].at = "locked" /\ req'[v].at = "locked" /\ req'[u].deadline = req'[v].deadline
           => u = v
  BY <1>2, DueByRequest DEF NoRequest
<1> QED
  BY <1>6, <1>7, <1>9, <1>10, DueByRequestAfter

\* The case's own decision is on file from the start, so no other takes its place.
LEMMA DueCommitsResolve ==
  ASSUME DueInv, NEW w \in Handler, CommitResolve(w)
  PROVE  DueInv'
<1>1. PICK p \in Resolution, v \in Version :
        decisions[p] = Nothing /\ decisions' = [decisions EXCEPT ![p] = v]
  BY DEF CommitResolve
<1>2. /\ clock' = clock /\ deadlines' = deadlines /\ escalations' = escalations
      /\ req' = req /\ decisions \in [Resolution -> Version \cup {Nothing}]
      /\ decisions[Own] \in Version
  BY DEF CommitResolve, DueInv, DueTypeOK
<1>3. decisions'[Own] = decisions[Own]
  BY <1>1, <1>2, DueAssumption
<1>4. DueTypeOK'
  BY <1>1, <1>2, <1>3 DEF DueInv, DueTypeOK
<1>5. OnFile' = OnFile /\ WindowEnds' = WindowEnds
  BY <1>2 DEF OnFile, WindowEnds, Windows
<1>6. \A u \in Handler : DueFits(u, req[u])'
  BY <1>2, <1>5, DueByRequest DEF DueFits
<1>7. EscalationsInTime'
  BY <1>2, DueByRequest DEF EscalationsInTime
<1> QED
  BY <1>2, <1>4, <1>6, <1>7, DueByRequest, DueByRequestAfter

LEMMA DueNextInv ==
  ASSUME DueInv, [DueNext]_dueVars
  PROVE  DueInv'
<1>1. CASE Tick
  <2>1. clock' = clock + 1 /\ clock' \in Instant
    BY <1>1, DueAssumption DEF Tick, DueInv, DueTypeOK, Instant
  <2>2. /\ decisions' = decisions /\ deadlines' = deadlines
        /\ escalations' = escalations /\ req' = req
    BY <1>1 DEF Tick
  <2>3. ASSUME NEW w \in Handler, req[w].at \in {"appealing", "admitted"}
        PROVE  req[w].since \in Int
    <3>1. req[w] \in Requests
      BY DEF DueInv, DueTypeOK
    <3>2. req[w].since \in Instant
      BY <2>3, <3>1, DueRequestKinds
    <3> QED
      BY <3>2 DEF Instant
  <2>4. OnFile' = OnFile /\ WindowEnds' = WindowEnds
    BY <2>2 DEF OnFile, WindowEnds, Windows
  <2>5. ASSUME NEW w \in Handler
        PROVE  DueFits(w, req[w])'
    <3>1. clock \in Int /\ DueFits(w, req[w])
      BY DueByRequest DEF DueTypeOK, Instant
    <3>2. ASSUME req[w].at \in {"appealing", "admitted"}
          PROVE  req[w].since <= clock'
      <4>1. req[w].since <= clock /\ req[w].since \in Int
        BY <2>3, <3>1, <3>2 DEF DueFits
      <4> QED
        BY <2>1, <3>1, <4>1
    <3>3. req'[w] = req[w] /\ deadlines' = deadlines /\ decisions' = decisions
      BY <2>2
    <3> QED
      BY <2>4, <3>1, <3>2, <3>3 DEF DueFits
  <2>6. DueTypeOK'
    BY <2>1, <2>2 DEF DueInv, DueTypeOK
  <2>7. EscalationsInTime'
    BY <2>2, <2>4, DueByRequest DEF EscalationsInTime
  <2> QED
    BY <2>2, <2>5, <2>6, <2>7, DueByRequest, DueByRequestAfter
<1>2. CASE UNCHANGED dueVars
  <2>1. /\ clock' = clock /\ decisions' = decisions
        /\ deadlines' = deadlines /\ escalations' = escalations /\ req' = req
    BY <1>2 DEF dueVars
  <2>2. OnFile' = OnFile /\ WindowEnds' = WindowEnds
    BY <2>1 DEF OnFile, WindowEnds, Windows
  <2>3. \A w \in Handler : DueFits(w, req[w])'
    BY <2>1, <2>2, DueByRequest DEF DueFits
  <2>4. DueTypeOK'
    BY <2>1 DEF DueInv, DueTypeOK
  <2>5. EscalationsInTime'
    BY <2>1, <2>2, DueByRequest DEF EscalationsInTime
  <2> QED
    BY <2>1, <2>3, <2>4, <2>5, DueByRequest, DueByRequestAfter
<1> QED
  BY <1>1, <1>2, DueBegins, DueCommitsDate, DueLocks, DueCommitsSatisfy, DueAppeals,
     DueCommitsAppeal, DueCommitsResolve, DueLeaves
    DEF DueNext, Dates, Satisfies, Appeals

\* For any number of requests, deadlines, decisions, versions and instants.
THEOREM DueInvariantHolds == DueSpec => []DueInv
<1> QED
  BY DueInitInv, DueNextInv, PTL DEF DueSpec

\* POST /v1/deadlines/{deadlineId}/satisfaction: whoever is told that it satisfied a
\* deadline is the one on file, and stays it.
THEOREM SatisfactionStandsHolds == DueSpec => []SatisfactionStands
<1>1. DueInv => SatisfactionStands
  BY DEF DueInv
<1> QED
  BY <1>1, DueInvariantHolds, PTL

\* POST /v1/cases/{caseId}/appeal-escalations: none was made after a window had passed
\* that was on file when it was made.
THEOREM EscalationsInTimeHolds == DueSpec => []EscalationsInTime
<1>1. DueInv => EscalationsInTime
  BY DEF DueInv
<1> QED
  BY <1>1, DueInvariantHolds, PTL

=============================================================================
