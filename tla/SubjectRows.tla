------------------------------ MODULE SubjectRows ------------------------------
(***************************************************************************)
(* The rows of protected_subject, which requests create and patch, and the  *)
(* cases in flight that decide whether a subject may enter the strict lane. *)
(*                                                                         *)
(* A patch names the version its caller read (If-Match: updated_at in whole *)
(* milliseconds).  Its transaction locks the row with SELECT .. FOR UPDATE, *)
(* compares the versions, counts the subject's cases in flight without      *)
(* locking them, and writes the row with the instant at which the           *)
(* transaction began.  A tick of the clock is one millisecond.              *)
(***************************************************************************)
EXTENDS Integers

CONSTANTS
  Worker,     \* request handlers that may run at one time
  Subject,    \* protected_subject rows that may come to exist
  Label,      \* what a patch may write: display reference and contact preference
  Case,       \* names for the cases of one subject
  MaxTime,    \* bound: the last millisecond
  None        \* no label, no row

ASSUME TimeIsPositive == MaxTime \in Nat \ {0}

VARIABLES
  clock,      \* the current millisecond
  subject,    \* protected_subject: what a patch may write, is_minor, updated_at
  again,      \* history: the milliseconds in which a subject was written twice
  inFlight,   \* each subject's cases at REQUEST_SUBMITTED or ACKNOWLEDGED
  work        \* the request each worker is at

vars == <<clock, subject, again, inFlight, work>>

-----------------------------------------------------------------------------
(* Rows and requests                                                       *)

Instant == 1..MaxTime
Never == 0

Subjects == [label: Label, minor: BOOLEAN, at: Instant]
NoSubject == [label |-> None, minor |-> FALSE, at |-> Never]

\* seen is the subject as the caller of a patch read it; minor what the patch is
\* about to write.  idle is history: since the request began there was a moment
\* at which no case of the subject was in flight.
Patches == [stage: {"sent", "begun", "held", "checked"}, on: Subject, seen: Subjects,
            now: Instant \cup {Never}, minor: BOOLEAN, idle: BOOLEAN]
Creates == [stage: {"creating"}, on: {None}, seen: {NoSubject},
            now: Instant, minor: BOOLEAN, idle: {FALSE}]
Idle == [stage |-> "none", on |-> None, seen |-> NoSubject,
         now |-> Never, minor |-> FALSE, idle |-> FALSE]

TypeOK ==
  /\ clock \in Instant
  /\ subject \in [Subject -> Subjects \cup {NoSubject}]
  /\ again \in [Subject -> SUBSET Instant]
  /\ inFlight \in [Subject -> SUBSET Case]
  /\ work \in [Worker -> Patches \cup Creates \cup {Idle}]

Init ==
  /\ clock = 1
  /\ subject = [s \in Subject |-> NoSubject]
  /\ again = [s \in Subject |-> {}]
  /\ inFlight = [s \in Subject |-> {}]
  /\ work = [w \in Worker |-> Idle]

Exists(s) == subject[s] # NoSubject

Is(w, stage) == work[w].stage = stage

\* Its transaction is running; it has locked its row.
AtWork(job) == job.stage \in {"begun", "held", "checked"}
Holds(job) == job.stage \in {"held", "checked"}

\* A row that was locked stays locked to the end of its transaction.
Held(s) == \E w \in Worker : work[w].on = s /\ Holds(work[w])

\* The request goes on, or ends; no row is written.
Goes(w, job) ==
  /\ work' = [work EXCEPT ![w] = job]
  /\ UNCHANGED <<clock, subject, again, inFlight>>

Writes(w, s, row) ==
  /\ subject' = [subject EXCEPT ![s] = row]
  /\ work' = [work EXCEPT ![w] = Idle]
  /\ UNCHANGED <<clock, inFlight>>

-----------------------------------------------------------------------------
(* POST /v1/subjects                                                       *)

BeginCreate(w, minor) ==
  /\ work[w] = Idle
  /\ Goes(w, [Idle EXCEPT !.stage = "creating", !.now = clock, !.minor = minor])

\* The subject is inserted with its first grant, which the deferred trigger asks
\* for at COMMIT; what becomes of the grant is in AuthorityGrants.
CommitCreate(w, s, label) ==
  /\ Is(w, "creating")
  /\ ~Exists(s)
  /\ Writes(w, s, [label |-> label, minor |-> work[w].minor, at |-> work[w].now])
  /\ UNCHANGED again

-----------------------------------------------------------------------------
(* PATCH /v1/subjects/{subjectId}                                          *)

\* The caller reads the subject and keeps its ETag.
ReadForPatch(w, s) ==
  /\ work[w] = Idle
  /\ Exists(s)
  /\ Goes(w, [Idle EXCEPT !.stage = "sent", !.on = s, !.seen = subject[s]])

BeginPatch(w) ==
  /\ Is(w, "sent")
  /\ Goes(w, [work[w] EXCEPT !.stage = "begun", !.now = clock,
                             !.idle = (inFlight[work[w].on] = {})])

\* Defect: the row is read without FOR UPDATE.
LockSubjectNot(w) ==
  /\ Is(w, "begun")
  /\ subject[work[w].on].at = work[w].seen.at
  /\ Goes(w, [work[w] EXCEPT !.stage = "held"])

\* SELECT .. FOR UPDATE, which waits for the row, and the comparison with If-Match.
LockSubject(w) ==
  /\ Is(w, "begun")
  /\ ~Held(work[w].on)
  /\ subject[work[w].on].at = work[w].seen.at
  /\ Goes(w, [work[w] EXCEPT !.stage = "held"])

\* Defect: the lane is entered whatever is in flight.
CheckLaneUncounted(w, minor) ==
  /\ Is(w, "held")
  /\ Goes(w, [work[w] EXCEPT !.stage = "checked", !.minor = minor])

\* The strict lane is not entered while a case is in flight, by a count that
\* locks no case.
CheckLane(w, minor) ==
  /\ Is(w, "held")
  /\ minor /\ ~subject[work[w].on].minor => inFlight[work[w].on] = {}
  /\ Goes(w, [work[w] EXCEPT !.stage = "checked", !.minor = minor])

CommitPatch(w, label) ==
  LET s == work[w].on
      twice == work[w].now = subject[s].at
  IN  /\ Is(w, "checked")
      /\ Writes(w, s, [label |-> label, minor |-> work[w].minor, at |-> work[w].now])
      /\ again' = [again EXCEPT ![s] = @ \cup {t \in {work[w].now} : twice}]

\* A refusal, an error, a timeout or a crash: the transaction leaves nothing.
RollBack(w) ==
  /\ work[w] # Idle
  /\ Goes(w, Idle)

-----------------------------------------------------------------------------
(* What goes on meanwhile                                                  *)

Tick ==
  /\ clock < MaxTime
  /\ clock' = clock + 1
  /\ UNCHANGED <<subject, again, inFlight, work>>

\* The case lifecycle submits a case, which takes no lock that a patch waits for,
CaseSubmitted(s, c) ==
  /\ Exists(s)
  /\ inFlight' = [inFlight EXCEPT ![s] = @ \cup {c}]
  /\ UNCHANGED <<clock, subject, again, work>>

\* A patch at work on a subject has, with this case, none in flight.
LastOf(w, s, c) == AtWork(work[w]) /\ work[w].on = s /\ inFlight[s] \subseteq {c}

\* and sees it settled.
CaseSettled(s, c) ==
  /\ inFlight' = [inFlight EXCEPT ![s] = @ \ {c}]
  /\ work' = [w \in Worker |->
                IF LastOf(w, s, c) THEN [work[w] EXCEPT !.idle = TRUE] ELSE work[w]]
  /\ UNCHANGED <<clock, subject, again>>

-----------------------------------------------------------------------------
Create(w) ==
  \/ \E minor \in BOOLEAN : BeginCreate(w, minor)
  \/ \E s \in Subject, label \in Label : CommitCreate(w, s, label)

Patch(w) ==
  \/ \E s \in Subject : ReadForPatch(w, s)
  \/ BeginPatch(w)
  \/ LockSubject(w)
  \/ \E minor \in BOOLEAN : CheckLane(w, minor)
  \/ \E label \in Label : CommitPatch(w, label)

Lifecycle == \E s \in Subject, c \in Case : CaseSubmitted(s, c) \/ CaseSettled(s, c)

Next ==
  \/ \E w \in Worker : Create(w) \/ Patch(w) \/ RollBack(w)
  \/ Lifecycle
  \/ Tick

Spec == Init /\ [][Next]_vars

-----------------------------------------------------------------------------
(* Properties                                                              *)

\* The worker that writes a subject in this step.
Patching(w, s) == Is(w, "checked") /\ work[w].on = s /\ work'[w] = Idle

\* A patch overwrites the row its caller saw and no other, save where the row was
\* written twice in the millisecond the caller saw, which If-Match cannot tell
\* apart; and the version of a subject never goes back, so that an ETag that has
\* become outdated stays outdated.
NoLostPatch ==
  [][\A s \in Subject : Exists(s) /\ subject'[s] # subject[s] =>
       /\ subject'[s].at >= subject[s].at
       /\ \E w \in Worker :
            /\ Patching(w, s)
            /\ work[w].seen = subject[s] \/ subject[s].at \in again[s]]_vars

\* A subject enters the strict lane only by a request during which there was a
\* moment without a case of it in flight: the count that refuses the move may be
\* outdated at the COMMIT, but it was true.
LaneEnteredIdle ==
  [][\A s \in Subject : Exists(s) /\ ~subject[s].minor /\ subject'[s].minor =>
       \E w \in Worker : Patching(w, s) /\ work[w].idle]_vars

-----------------------------------------------------------------------------
(* The invariant of the proofs                                             *)

\* What a caller saw was the row, or one that was written over in a later
\* millisecond or twice in this one.
SeenFits(job) ==
  job.stage = "sent" \/ AtWork(job) =>
    /\ Exists(job.on)
    /\ job.seen.at <= subject[job.on].at
    /\ job.seen.at = subject[job.on].at =>
         job.seen = subject[job.on] \/ subject[job.on].at \in again[job.on]

\* A transaction begins after what its caller saw was written, and holds the row
\* only while the row is of the version it compared.
VersionFits(job) ==
  /\ AtWork(job) => job.seen.at <= job.now
  /\ Holds(job) => subject[job.on].at = job.seen.at

\* The lane is entered after an idle moment.
LaneFits(job) ==
  /\ AtWork(job) /\ inFlight[job.on] = {} => job.idle
  /\ job.stage = "checked" /\ job.minor /\ ~subject[job.on].minor => job.idle

\* No row and no request is of the future.
NothingAhead ==
  /\ \A s \in Subject : subject[s].at <= clock
  /\ \A w \in Worker : work[w].now <= clock

JobsFit ==
  \A w \in Worker : SeenFits(work[w]) /\ VersionFits(work[w]) /\ LaneFits(work[w])

\* A row has one holder.
OneHolder ==
  \A v, w \in Worker : Holds(work[v]) /\ Holds(work[w]) /\ work[v].on = work[w].on => v = w

IInv == TypeOK /\ NothingAhead /\ JobsFit /\ OneHolder

=============================================================================
