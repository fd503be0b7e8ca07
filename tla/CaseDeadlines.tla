----------------------------- MODULE CaseDeadlines -----------------------------
(***************************************************************************)
(* The deadlines of one case, the decisions they derive from and the appeals *)
(* they end.  A deadline is recorded under the policy version of the         *)
(* decision the case was created with, although the case may be given more   *)
(* decisions later, and is listed under the version of each; it is satisfied *)
(* once, under its row lock; and an appeal is escalated only while no window  *)
(* has passed.                                                               *)
(*                                                                           *)
(* A request is one READ COMMITTED transaction: each statement is a step and  *)
(* sees what is committed by then, and what the transaction writes is seen   *)
(* when it commits, which is a step with its last write.  A caller may send    *)
(* the case's ETag or another; with another its request is refused and leaves *)
(* nothing, so the ETag is not part of the model.                            *)
(***************************************************************************)
EXTENDS Integers

CONSTANTS
  Handler,    \* requests that may be at work at one time
  Deadline,   \* ids for deadlines
  Appeal,     \* ids for escalations
  Resolution, \* ids for decisions
  Own,        \* the decision the case was created with
  Version,    \* policy versions
  MaxTime,    \* bound: the last instant
  Nothing     \* no row, no value

VARIABLES
  clock,        \* the current instant
  decisions,    \* policy_decision: the version of each decision of the case
  deadlines,    \* deadline
  escalations,  \* appeal_escalation
  req           \* the request each worker is

dueVars == <<clock, decisions, deadlines, escalations, req>>

-----------------------------------------------------------------------------
(* Rows and requests                                                       *)

Instant == 1..MaxTime

\* A deadline names the version it derives from, and who satisfied it.
Rows == [window: BOOLEAN, due: Instant, ref: Version, by: Handler \cup {Nothing}]

\* since is created_at, the instant its transaction began.  standing is history: the
\* ends of the windows that were on file then.
Escalations == [since: Instant, standing: SUBSET Instant]

ASSUME DueAssumption ==
  /\ Own \in Resolution
  /\ MaxTime \in Nat \ {0}
  /\ Nothing \notin Handler \cup Version \cup Rows \cup Escalations

\* A request that was answered is forgotten, unless it satisfied a deadline or was
\* told the version one derives from.
Requests ==
  [at: {"idle"}]
    \cup [at: {"dating"}, window: BOOLEAN, due: Instant]
    \cup [at: {"deriving"}, window: BOOLEAN, due: Instant, ref: Version]
    \cup [at: {"told"}, deadline: Deadline, version: Version]
    \cup [at: {"locked", "satisfied"}, deadline: Deadline]
    \cup [at: {"appealing", "admitted"}, since: Instant, standing: SUBSET Instant]

DueTypeOK ==
  /\ clock \in Instant
  /\ decisions \in [Resolution -> Version \cup {Nothing}]
  /\ decisions[Own] \in Version
  /\ deadlines \in [Deadline -> Rows \cup {Nothing}]
  /\ escalations \in [Appeal -> Escalations \cup {Nothing}]
  /\ req \in [Handler -> Requests]

NoRequest == [at |-> "idle"]

DueInit ==
  /\ clock = 1
  /\ \E v \in Version : decisions = [d \in Resolution |-> IF d = Own THEN v ELSE Nothing]
  /\ deadlines = [d \in Deadline |-> Nothing]
  /\ escalations = [a \in Appeal |-> Nothing]
  /\ req = [w \in Handler |-> NoRequest]

OnFile == {d \in Deadline : deadlines[d] # Nothing}
Windows == {d \in OnFile : deadlines[d].window}
WindowEnds == {deadlines[d].due : d \in Windows}

\* listDeadlines joins a deadline with every decision of its case, not with the one
\* it derives from: it is listed once for each, under that one's version.
ListedVersions == {decisions[d] : d \in Resolution} \ {Nothing}

Is(w, at) == req[w].at = at
Goes(w, request) == req' = [req EXCEPT ![w] = request]
Keeps == UNCHANGED <<clock, decisions, deadlines, escalations>>

-----------------------------------------------------------------------------
(* POST /v1/cases/{caseId}/deadlines                                       *)

\* A date that has passed is refused before the transaction begins.
BeginDate(w) ==
  /\ Is(w, "idle")
  /\ \E window \in BOOLEAN, due \in {t \in Instant : t > clock} :
       Goes(w, [at |-> "dating", window |-> window, due |-> due])
  /\ Keeps

\* The version is that of the decision the case itself names.
ReadProvenance(w) ==
  /\ Is(w, "dating")
  /\ Goes(w, [at |-> "deriving", window |-> req[w].window, due |-> req[w].due,
              ref |-> decisions[Own]])
  /\ Keeps

\* The row is read back through the list, whose order among the decisions is any;
\* the answer may be lost.
CommitDate(w) ==
  /\ Is(w, "deriving")
  /\ \E d \in Deadline \ OnFile :
       /\ deadlines' = [deadlines EXCEPT ![d] =
            [window |-> req[w].window, due |-> req[w].due, ref |-> req[w].ref, by |-> Nothing]]
       /\ \/ \E v \in ListedVersions :
               Goes(w, [at |-> "told", deadline |-> d, version |-> v])
          \/ Goes(w, NoRequest)
  /\ UNCHANGED <<clock, decisions, escalations>>

(* GET /v1/cases/{caseId}/deadlines                                        *)

ListDeadlines(w) ==
  /\ Is(w, "idle")
  /\ \E d \in OnFile, v \in ListedVersions :
       Goes(w, [at |-> "told", deadline |-> d, version |-> v])
  /\ Keeps

-----------------------------------------------------------------------------
(* POST /v1/deadlines/{deadlineId}/satisfaction                            *)

Locked(d) == \E w \in Handler : Is(w, "locked") /\ req[w].deadline = d

\* Defect: the row is read without FOR UPDATE.
LockDeadlineNot(w) ==
  /\ Is(w, "idle")
  /\ \E d \in OnFile :
       /\ deadlines[d].by = Nothing
       /\ Goes(w, [at |-> "locked", deadline |-> d])
  /\ Keeps

\* SELECT FOR UPDATE waits for the row, and reads what was committed meanwhile: a
\* request that waits is one that has not come yet.
LockDeadline(w) ==
  /\ Is(w, "idle")
  /\ \E d \in OnFile :
       /\ ~Locked(d)
       /\ deadlines[d].by = Nothing
       /\ Goes(w, [at |-> "locked", deadline |-> d])
  /\ Keeps

\* COMMIT may take effect and its acknowledgement be lost.
CommitSatisfy(w) ==
  /\ Is(w, "locked")
  /\ deadlines' = [deadlines EXCEPT ![req[w].deadline].by = w]
  /\ Goes(w, [req[w] EXCEPT !.at = "satisfied"]) \/ Goes(w, NoRequest)
  /\ UNCHANGED <<clock, decisions, escalations>>

-----------------------------------------------------------------------------
(* POST /v1/cases/{caseId}/appeal-escalations                              *)

BeginAppeal(w) ==
  /\ Is(w, "idle")
  /\ Goes(w, [at |-> "appealing", since |-> clock, standing |-> WindowEnds])
  /\ Keeps

\* Defect: the appeal is in time as long as one window is open.
WindowOpenSomewhere(w) ==
  /\ Is(w, "appealing")
  /\ WindowEnds = {} \/ \E due \in WindowEnds : due >= clock
  /\ Goes(w, [req[w] EXCEPT !.at = "admitted"])
  /\ Keeps

\* One window that has passed is enough to refuse.
WindowOpen(w) ==
  /\ Is(w, "appealing")
  /\ \A due \in WindowEnds : due >= clock
  /\ Goes(w, [req[w] EXCEPT !.at = "admitted"])
  /\ Keeps

CommitAppeal(w) ==
  /\ Is(w, "admitted")
  /\ \E a \in {a \in Appeal : escalations[a] = Nothing} :
       escalations' = [escalations EXCEPT ![a] =
         [since |-> req[w].since, standing |-> req[w].standing]]
  /\ Goes(w, NoRequest)
  /\ UNCHANGED <<clock, decisions, deadlines>>

-----------------------------------------------------------------------------
(* POST /v1/cases/{caseId}/policy-decisions                                *)

\* Which version is in force, and the channel, is data, and whether the grant stands
\* is AuthorityGrants' matter.
CommitResolve(w) ==
  /\ Is(w, "idle")
  /\ \E d \in {d \in Resolution : decisions[d] = Nothing}, v \in Version :
       decisions' = [decisions EXCEPT ![d] = v]
  /\ UNCHANGED <<clock, deadlines, escalations, req>>

-----------------------------------------------------------------------------
(* What else happens                                                       *)

\* A request is refused by what it reads or by its evidence, or a statement of it
\* fails: its transaction is rolled back.
GivesUp(w) ==
  /\ req[w].at \notin {"idle", "told", "satisfied"}
  /\ Goes(w, NoRequest)
  /\ Keeps

Leave(w) ==
  /\ req[w].at \in {"told", "satisfied"}
  /\ Goes(w, NoRequest)
  /\ Keeps

Tick ==
  /\ clock < MaxTime
  /\ clock' = clock + 1
  /\ UNCHANGED <<decisions, deadlines, escalations, req>>

-----------------------------------------------------------------------------
Dates(w) == BeginDate(w) \/ ReadProvenance(w) \/ CommitDate(w) \/ ListDeadlines(w)
Satisfies(w) == LockDeadline(w) \/ CommitSatisfy(w)
Appeals(w) == BeginAppeal(w) \/ WindowOpen(w) \/ CommitAppeal(w)

DueNext ==
  \/ \E w \in Handler : Dates(w) \/ Satisfies(w) \/ Appeals(w) \/ CommitResolve(w)
                         \/ GivesUp(w) \/ Leave(w)
  \/ Tick

DueSpec == DueInit /\ [][DueNext]_dueVars

-----------------------------------------------------------------------------
(* Properties                                                              *)

\* Who met a deadline is never rewritten: a request that is told it satisfied a
\* deadline is the one on file, however many tried at the same time.
SatisfactionStands ==
  \A w \in Handler : Is(w, "satisfied") => deadlines[req[w].deadline].by = w

\* No escalation came too late: when it says it was made, no window was over that
\* had been on file then, although windows are recorded and the clock moves while it
\* is checked and written.
EscalationsInTime ==
  \A a \in Appeal : escalations[a] # Nothing =>
    \A due \in escalations[a].standing : escalations[a].since <= due

\* The port says derivedFrom is read from the case's own decision, the version in
\* force when the case was decided: what a caller is told of a deadline, by its
\* creation or by the list, is the version it was recorded under.  Not kept: README,
\* section 7.
ToldItsVersion ==
  \A w \in Handler : Is(w, "told") => req[w].version = deadlines[req[w].deadline].ref

-----------------------------------------------------------------------------
(* The invariant of the proofs                                             *)

\* A row that is locked has nobody's name yet, and one holder.
LocksInv ==
  /\ \A w \in Handler : Is(w, "locked") \/ Is(w, "satisfied") => req[w].deadline \in OnFile
  /\ \A w \in Handler : Is(w, "locked") => deadlines[req[w].deadline].by = Nothing
  /\ \A v, w \in Handler :
       Is(v, "locked") /\ Is(w, "locked") /\ req[v].deadline = req[w].deadline => v = w

\* The windows a request found on file are there still, so that none was over when
\* it began if none is when it looks.
AppealsInv ==
  \A w \in Handler :
    /\ Is(w, "appealing") \/ Is(w, "admitted") =>
         req[w].since <= clock /\ req[w].standing \subseteq WindowEnds
    /\ Is(w, "admitted") => \A due \in req[w].standing : req[w].since <= due

DueInv ==
  /\ DueTypeOK
  /\ LocksInv /\ SatisfactionStands
  /\ AppealsInv /\ EscalationsInTime

=============================================================================
