--------------------------- MODULE SubjectRowsProofs ---------------------------
(***************************************************************************)
(* Proofs about SubjectRows: the inductive invariant, that no patch is lost, *)
(* and that the strict lane is entered after an idle moment only.           *)
(***************************************************************************)
EXTENDS SubjectRows, TLAPS

Jobs == Patches \cup Creates \cup {Idle}

-----------------------------------------------------------------------------
(* Facts about rows and requests                                           *)

\* A row exists just if it is a row of the table.
LEMMA ExistingRow ==
  ASSUME TypeOK, NEW s \in Subject
  PROVE  /\ Exists(s) => subject[s] \in Subjects
         /\ subject[s].at \in Int
BY TimeIsPositive DEF TypeOK, Exists, Subjects, NoSubject, Instant, Never

\* The stage of a request says what kind it is.
LEMMA JobKinds ==
  ASSUME NEW job \in Jobs
  PROVE  /\ job.stage = "sent" \/ AtWork(job) => job \in Patches
         /\ job.stage = "creating" => job \in Creates
         /\ job.now \in Int
<1>1. CASE job \in Patches
  <2>1. job.stage \in {"sent", "begun", "held", "checked"} /\ job.now \in Instant \cup {Never}
    BY <1>1 DEF Patches
  <2> QED
    BY <1>1, <2>1, TimeIsPositive DEF Instant, Never
<1>2. CASE job \in Creates
  <2>1. job.stage = "creating" /\ job.now \in Instant
    BY <1>2 DEF Creates
  <2> QED
    BY <1>2, <2>1, TimeIsPositive DEF Instant, AtWork
<1>3. CASE job = Idle
  BY <1>3 DEF Idle, AtWork, Never
<1> QED
  BY <1>1, <1>2, <1>3 DEF Jobs

LEMMA InitInv == Init => IInv
<1> SUFFICES ASSUME Init PROVE IInv
  OBVIOUS
<1>1. TypeOK
  BY TimeIsPositive DEF Init, TypeOK, Instant
<1>2. NothingAhead
  BY DEF Init, NothingAhead, NoSubject, Idle, Never
<1>3. JobsFit /\ OneHolder
  BY DEF Init, JobsFit, OneHolder, SeenFits, VersionFits, LaneFits, AtWork, Holds, Idle
<1> QED
  BY <1>1, <1>2, <1>3 DEF IInv

\* A request may go on as any job that fits and holds no row another holds.
LEMMA GoesKeeps ==
  ASSUME IInv, NEW w \in Worker, NEW job \in Jobs, Goes(w, job),
         job.now <= clock,
         SeenFits(job), VersionFits(job), LaneFits(job),
         Holds(job) => \/ ~Held(job.on)
                       \/ Holds(work[w]) /\ work[w].on = job.on
  PROVE  IInv'
<1>1. /\ work' = [work EXCEPT ![w] = job]
      /\ clock' = clock /\ subject' = subject /\ again' = again /\ inFlight' = inFlight
  BY DEF Goes
<1>2. \A v \in Worker : work'[v] = IF v = w THEN job ELSE work[v]
  BY <1>1 DEF IInv, TypeOK
<1>3. TypeOK'
  BY <1>1 DEF IInv, TypeOK, Jobs
<1>4. NothingAhead'
  BY <1>1, <1>2 DEF IInv, NothingAhead
<1>5. JobsFit'
  <2> SUFFICES ASSUME NEW v \in Worker
               PROVE  SeenFits(work[v])' /\ VersionFits(work[v])' /\ LaneFits(work[v])'
    BY DEF JobsFit
  <2>1. SeenFits(work'[v]) /\ VersionFits(work'[v]) /\ LaneFits(work'[v])
    BY <1>2 DEF IInv, JobsFit
  <2> QED
    BY <1>1, <2>1 DEF SeenFits, VersionFits, LaneFits, Exists, AtWork, Holds
<1>6. OneHolder'
  <2> SUFFICES ASSUME NEW u \in Worker, NEW v \in Worker,
                      Holds(work'[u]), Holds(work'[v]), work'[u].on = work'[v].on
               PROVE  u = v
    BY DEF OneHolder, Holds
  <2> QED
    BY <1>2 DEF IInv, OneHolder, Held
<1> QED
  BY <1>3, <1>4, <1>5, <1>6 DEF IInv

\* A subject's row is written by the end of a request, at no earlier version, by
\* one that holds it or before it exists; a second write in a millisecond is kept.
LEMMA WritesKeeps ==
  ASSUME IInv, NEW w \in Worker, NEW s \in Subject, NEW row \in Subjects, Writes(w, s, row),
         row.at <= clock,
         again' \in [Subject -> SUBSET Instant],
         \A r \in Subject : again[r] \subseteq again'[r],
         \/ ~Exists(s)
         \/ /\ Holds(work[w]) /\ work[w].on = s /\ subject[s].at <= row.at
            /\ subject[s].at = row.at => row.at \in again'[s]
  PROVE  IInv'
<1>1. /\ subject' = [subject EXCEPT ![s] = row] /\ work' = [work EXCEPT ![w] = Idle]
      /\ clock' = clock /\ inFlight' = inFlight
  BY DEF Writes
<1>2. \A v \in Worker : work'[v] = IF v = w THEN Idle ELSE work[v]
  BY <1>1 DEF IInv, TypeOK
<1>3. \A r \in Subject : subject'[r] = IF r = s THEN row ELSE subject[r]
  BY <1>1 DEF IInv, TypeOK
<1>4. TypeOK'
  BY <1>1 DEF IInv, TypeOK
<1>5. NothingAhead'
  <2>1. Idle.now <= clock
    BY TimeIsPositive DEF Idle, Never, IInv, TypeOK, Instant
  <2> QED
    BY <1>1, <1>2, <1>3, <2>1 DEF IInv, NothingAhead
<1>6. OneHolder'
  BY <1>2 DEF IInv, OneHolder, Holds, Idle
<1>7. JobsFit'
  <2> SUFFICES ASSUME NEW v \in Worker
               PROVE  SeenFits(work[v])' /\ VersionFits(work[v])' /\ LaneFits(work[v])'
    BY DEF JobsFit
  <2>1. CASE v = w
    BY <1>2, <2>1 DEF SeenFits, VersionFits, LaneFits, AtWork, Holds, Idle
  <2>2. CASE v # w
    <3>1. work'[v] = work[v] /\ work[v] \in Jobs
      BY <1>2, <2>2 DEF IInv, TypeOK, Jobs
    <3>2. SeenFits(work[v]) /\ VersionFits(work[v]) /\ LaneFits(work[v])
      BY DEF IInv, JobsFit
    <3>3. CASE ~(work[v].stage = "sent" \/ AtWork(work[v]))
      BY <3>1, <3>3 DEF SeenFits, VersionFits, LaneFits, AtWork, Holds
    <3>4. CASE (work[v].stage = "sent" \/ AtWork(work[v])) /\ work[v].on # s
      <4>1. work[v].on \in Subject
        BY <3>1, <3>4, JobKinds DEF Patches
      <4>2. subject'[work[v].on] = subject[work[v].on]
        BY <1>3, <3>4, <4>1
      <4> QED
        BY <1>1, <3>1, <3>2, <4>1, <4>2 DEF SeenFits, VersionFits, LaneFits, Exists, AtWork, Holds
    <3>5. CASE (work[v].stage = "sent" \/ AtWork(work[v])) /\ work[v].on = s
      <4>1. Exists(s)
        BY <3>2, <3>5 DEF SeenFits
      <4>2. Holds(work[w]) /\ work[w].on = s /\ subject[s].at <= row.at
            /\ (subject[s].at = row.at => row.at \in again'[s])
        BY <4>1
      <4>3. ~Holds(work[v])
        BY <2>2, <3>5, <4>2 DEF IInv, OneHolder
      <4>4. subject'[s] = row /\ row # NoSubject
        BY <1>3, TimeIsPositive DEF Subjects, NoSubject, Instant, Never
      <4>5. work[v].seen.at \in Int /\ subject[s].at \in Int /\ row.at \in Int
        BY <3>1, <3>5, JobKinds, ExistingRow DEF IInv, Patches, Subjects, Instant
      <4>6. work[v].seen.at <= subject[s].at
        BY <3>2, <3>5 DEF SeenFits
      <4>7. work[v].seen.at = row.at => row.at \in again'[s]
        BY <4>2, <4>5, <4>6
      <4>8. SeenFits(work[v])'
        BY <3>1, <3>5, <4>2, <4>4, <4>5, <4>6, <4>7 DEF SeenFits, Exists, AtWork
      <4>9. VersionFits(work[v])'
        BY <3>1, <3>2, <4>3 DEF VersionFits, AtWork, Holds
      <4>10. LaneFits(work[v])'
        BY <1>1, <3>1, <3>2, <4>3 DEF LaneFits, AtWork, Holds
      <4> QED
        BY <4>8, <4>9, <4>10
    <3> QED
      BY <3>3, <3>4, <3>5
  <2> QED
    BY <2>1, <2>2
<1> QED
  BY <1>4, <1>5, <1>6, <1>7 DEF IInv

-----------------------------------------------------------------------------
(* Steps of the system                                                     *)

\* A job that is not yet at work on a row is subject to little.
LEMMA RollBackKeeps ==
  ASSUME IInv, NEW w \in Worker, RollBack(w)
  PROVE  IInv'
<1>1. Idle.now <= clock
  BY TimeIsPositive DEF Idle, Never, IInv, TypeOK, Instant
<1>2. SeenFits(Idle) /\ VersionFits(Idle) /\ LaneFits(Idle) /\ ~Holds(Idle)
  BY DEF SeenFits, VersionFits, LaneFits, AtWork, Holds, Idle
<1> QED
  BY <1>1, <1>2, GoesKeeps DEF RollBack, Jobs

LEMMA BeginCreateKeeps ==
  ASSUME IInv, NEW w \in Worker, NEW minor \in BOOLEAN, BeginCreate(w, minor)
  PROVE  IInv'
<1> DEFINE job == [Idle EXCEPT !.stage = "creating", !.now = clock, !.minor = minor]
<1>1. Goes(w, job)
  BY DEF BeginCreate
<1>2. job \in Creates
  BY DEF Creates, Idle, IInv, TypeOK
<1>3. job.stage = "creating" /\ job.now = clock
  BY DEF Idle
<1> HIDE DEF job
<1>4. SeenFits(job) /\ VersionFits(job) /\ LaneFits(job) /\ ~Holds(job)
  BY <1>3 DEF SeenFits, VersionFits, LaneFits, AtWork, Holds
<1>5. job.now <= clock
  BY <1>3 DEF IInv, TypeOK, Instant
<1> QED
  BY <1>1, <1>2, <1>4, <1>5, GoesKeeps DEF Jobs

LEMMA CommitCreateKeeps ==
  ASSUME IInv, NEW w \in Worker, NEW s \in Subject, NEW label \in Label, CommitCreate(w, s, label)
  PROVE  IInv'
<1> DEFINE row == [label |-> label, minor |-> work[w].minor, at |-> work[w].now]
<1>1. work[w].stage = "creating" /\ ~Exists(s) /\ Writes(w, s, row) /\ again' = again
  BY DEF CommitCreate, Is
<1>2. work[w] \in Creates
  BY <1>1, JobKinds DEF IInv, TypeOK, Jobs
<1>3. row \in Subjects /\ row.at = work[w].now
  BY <1>2 DEF Creates, Subjects
<1>4. row.at <= clock
  BY <1>3 DEF IInv, NothingAhead
<1>5. again' \in [Subject -> SUBSET Instant] /\ \A r \in Subject : again[r] \subseteq again'[r]
  BY <1>1 DEF IInv, TypeOK
<1> HIDE DEF row
<1> QED
  BY <1>1, <1>3, <1>4, <1>5, WritesKeeps

LEMMA ReadForPatchKeeps ==
  ASSUME IInv, NEW w \in Worker, NEW s \in Subject, ReadForPatch(w, s)
  PROVE  IInv'
<1> DEFINE job == [Idle EXCEPT !.stage = "sent", !.on = s, !.seen = subject[s]]
<1>1. Goes(w, job) /\ Exists(s)
  BY DEF ReadForPatch
<1>2. subject[s] \in Subjects
  BY <1>1, ExistingRow DEF IInv
<1>3. job \in Patches
  BY <1>2 DEF Patches, Idle
<1>4. job.stage = "sent" /\ job.now = Never /\ job.on = s /\ job.seen = subject[s]
  BY DEF Idle
<1> HIDE DEF job
<1>5. job.now <= clock
  BY <1>4, TimeIsPositive DEF Never, IInv, TypeOK, Instant
<1>6. subject[s].at \in Int
  BY ExistingRow DEF IInv
<1>7. SeenFits(job)
  BY <1>1, <1>4, <1>6 DEF SeenFits
<1>8. VersionFits(job) /\ LaneFits(job) /\ ~Holds(job)
  BY <1>4 DEF VersionFits, LaneFits, AtWork, Holds
<1> QED
  BY <1>1, <1>3, <1>5, <1>7, <1>8, GoesKeeps DEF Jobs

LEMMA BeginPatchKeeps ==
  ASSUME IInv, NEW w \in Worker, BeginPatch(w)
  PROVE  IInv'
<1> DEFINE job == [work[w] EXCEPT !.stage = "begun", !.now = clock,
                                  !.idle = (inFlight[work[w].on] = {})]
<1>1. Goes(w, job) /\ work[w].stage = "sent"
  BY DEF BeginPatch, Is
<1>2. work[w] \in Patches
  BY <1>1, JobKinds DEF IInv, TypeOK, Jobs
<1>3. job \in Patches
  BY <1>2 DEF Patches, IInv, TypeOK
<1>4. /\ job.stage = "begun" /\ job.now = clock /\ job.on = work[w].on /\ job.seen = work[w].seen
      /\ job.idle = (inFlight[work[w].on] = {})
  BY <1>2 DEF Patches
<1> HIDE DEF job
<1>5. SeenFits(work[w])
  BY DEF IInv, JobsFit
<1>6. SeenFits(job)
  BY <1>1, <1>4, <1>5 DEF SeenFits
<1>7. work[w].seen.at \in Int /\ subject[work[w].on].at \in Int /\ clock \in Int
  BY <1>2, ExistingRow DEF IInv, TypeOK, Patches, Subjects, Instant
<1>8. work[w].seen.at <= subject[work[w].on].at /\ subject[work[w].on].at <= clock
  BY <1>1, <1>2, <1>5 DEF SeenFits, IInv, NothingAhead, Patches
<1>9. VersionFits(job) /\ ~Holds(job)
  BY <1>4, <1>7, <1>8 DEF VersionFits, Holds
<1>10. LaneFits(job)
  BY <1>4 DEF LaneFits
<1>11. job.now <= clock
  BY <1>4, <1>7
<1> QED
  BY <1>1, <1>3, <1>6, <1>9, <1>10, <1>11, GoesKeeps DEF Jobs

LEMMA LockSubjectKeeps ==
  ASSUME IInv, NEW w \in Worker, LockSubject(w)
  PROVE  IInv'
<1> DEFINE job == [work[w] EXCEPT !.stage = "held"]
<1>1. /\ Goes(w, job) /\ work[w].stage = "begun" /\ ~Held(work[w].on)
      /\ subject[work[w].on].at = work[w].seen.at
  BY DEF LockSubject, Is
<1>2. work[w] \in Patches
  BY <1>1, JobKinds DEF IInv, TypeOK, Jobs, AtWork
<1>3. job \in Patches
  BY <1>2 DEF Patches
<1>4. /\ job.stage = "held" /\ job.now = work[w].now /\ job.on = work[w].on
      /\ job.seen = work[w].seen /\ job.idle = work[w].idle
  BY <1>2 DEF Patches
<1> HIDE DEF job
<1>5. SeenFits(work[w]) /\ VersionFits(work[w]) /\ LaneFits(work[w])
  BY DEF IInv, JobsFit
<1>6. SeenFits(job) /\ VersionFits(job) /\ LaneFits(job)
  BY <1>1, <1>4, <1>5 DEF SeenFits, VersionFits, LaneFits, AtWork, Holds
<1>7. job.now <= clock
  BY <1>4 DEF IInv, NothingAhead
<1> QED
  BY <1>1, <1>3, <1>4, <1>6, <1>7, GoesKeeps DEF Jobs

LEMMA CheckLaneKeeps ==
  ASSUME IInv, NEW w \in Worker, NEW minor \in BOOLEAN, CheckLane(w, minor)
  PROVE  IInv'
<1> DEFINE job == [work[w] EXCEPT !.stage = "checked", !.minor = minor]
<1>1. /\ Goes(w, job) /\ work[w].stage = "held"
      /\ minor /\ ~subject[work[w].on].minor => inFlight[work[w].on] = {}
  BY DEF CheckLane, Is
<1>2. work[w] \in Patches
  BY <1>1, JobKinds DEF IInv, TypeOK, Jobs, AtWork
<1>3. job \in Patches
  BY <1>2 DEF Patches
<1>4. /\ job.stage = "checked" /\ job.now = work[w].now /\ job.on = work[w].on
      /\ job.seen = work[w].seen /\ job.idle = work[w].idle /\ job.minor = minor
  BY <1>2 DEF Patches
<1> HIDE DEF job
<1>5. SeenFits(work[w]) /\ VersionFits(work[w]) /\ LaneFits(work[w])
  BY DEF IInv, JobsFit
<1>6. SeenFits(job) /\ VersionFits(job)
  BY <1>1, <1>4, <1>5 DEF SeenFits, VersionFits, AtWork, Holds
<1>7. LaneFits(job)
  BY <1>1, <1>4, <1>5 DEF LaneFits, AtWork
<1>8. job.now <= clock
  BY <1>4 DEF IInv, NothingAhead
<1>9. Holds(work[w]) /\ work[w].on = job.on
  BY <1>1, <1>4 DEF Holds
<1> QED
  BY <1>1, <1>3, <1>6, <1>7, <1>8, <1>9, GoesKeeps DEF Jobs

\* What the commit of a patch finds and writes.
LEMMA CommitPatchWrites ==
  ASSUME IInv, NEW w \in Worker, NEW label \in Label, CommitPatch(w, label)
  PROVE  \E s \in Subject, row \in Subjects :
           /\ work[w].stage = "checked" /\ work[w].on = s
           /\ row.minor = work[w].minor /\ row.at = work[w].now
           /\ subject[s].at = work[w].seen.at /\ work[w].seen.at <= work[w].now
           /\ Exists(s)
           /\ work[w].seen = subject[s] \/ subject[s].at \in again[s]
           /\ Writes(w, s, row)
           /\ again' \in [Subject -> SUBSET Instant]
           /\ \A r \in Subject : again[r] \subseteq again'[r]
           /\ subject[s].at = row.at => row.at \in again'[s]
<1> DEFINE s == work[w].on
           row == [label |-> label, minor |-> work[w].minor, at |-> work[w].now]
           more == {t \in {work[w].now} : work[w].now = subject[s].at}
<1>1. work[w].stage = "checked" /\ Writes(w, s, row) /\ again' = [again EXCEPT ![s] = @ \cup more]
  BY DEF CommitPatch, Is
<1>2. work[w] \in Patches
  BY <1>1, JobKinds DEF IInv, TypeOK, Jobs, AtWork
<1>3. SeenFits(work[w]) /\ VersionFits(work[w])
  BY DEF IInv, JobsFit
<1>4. /\ Exists(s) /\ subject[s].at = work[w].seen.at /\ work[w].seen.at <= work[w].now
      /\ work[w].seen = subject[s] \/ subject[s].at \in again[s]
  BY <1>1, <1>3 DEF SeenFits, VersionFits, AtWork, Holds
<1>5. s \in Subject
  BY <1>2 DEF Patches
<1>6. work[w].now \in Instant
  <2>1. work[w].seen.at \in Instant /\ work[w].now \in Instant \cup {Never}
    BY <1>2 DEF Patches, Subjects
  <2> QED
    BY <1>4, <2>1, TimeIsPositive DEF Instant, Never
<1>7. row \in Subjects
  BY <1>2, <1>6 DEF Patches, Subjects
<1>8. again' \in [Subject -> SUBSET Instant]
  BY <1>1, <1>6 DEF IInv, TypeOK
<1>9. \A r \in Subject : again[r] \subseteq again'[r]
  BY <1>1 DEF IInv, TypeOK
<1>10. subject[s].at = row.at => row.at \in again'[s]
  BY <1>1, <1>5 DEF IInv, TypeOK
<1> QED
  BY <1>1, <1>4, <1>5, <1>7, <1>8, <1>9, <1>10

LEMMA CommitPatchKeeps ==
  ASSUME IInv, NEW w \in Worker, NEW label \in Label, CommitPatch(w, label)
  PROVE  IInv'
<1>1. PICK s \in Subject, row \in Subjects :
        /\ work[w].stage = "checked" /\ work[w].on = s
        /\ row.minor = work[w].minor /\ row.at = work[w].now
        /\ subject[s].at = work[w].seen.at /\ work[w].seen.at <= work[w].now
        /\ Writes(w, s, row)
        /\ again' \in [Subject -> SUBSET Instant]
        /\ \A r \in Subject : again[r] \subseteq again'[r]
        /\ subject[s].at = row.at => row.at \in again'[s]
  BY CommitPatchWrites
<1>2. row.at <= clock
  BY <1>1 DEF IInv, NothingAhead
<1>3. Holds(work[w]) /\ subject[s].at <= row.at
  BY <1>1 DEF Holds
<1> QED
  BY <1>1, <1>2, <1>3, WritesKeeps

LEMMA CaseSubmittedKeeps ==
  ASSUME IInv, NEW s \in Subject, NEW c \in Case, CaseSubmitted(s, c)
  PROVE  IInv'
<1>1. /\ inFlight' = [inFlight EXCEPT ![s] = @ \cup {c}]
      /\ clock' = clock /\ subject' = subject /\ again' = again /\ work' = work
  BY DEF CaseSubmitted
<1>2. \A r : inFlight'[r] = {} => inFlight[r] = {}
  BY <1>1 DEF IInv, TypeOK
<1>3. TypeOK' /\ NothingAhead' /\ OneHolder'
  BY <1>1 DEF IInv, TypeOK, NothingAhead, OneHolder, Holds
<1>4. JobsFit'
  BY <1>1, <1>2 DEF IInv, JobsFit, SeenFits, VersionFits, LaneFits, Exists, AtWork, Holds
<1> QED
  BY <1>3, <1>4 DEF IInv

LEMMA CaseSettledKeeps ==
  ASSUME IInv, NEW s \in Subject, NEW c \in Case, CaseSettled(s, c)
  PROVE  IInv'
<1>1. /\ inFlight' = [inFlight EXCEPT ![s] = @ \ {c}]
      /\ \A w \in Worker : work'[w] = IF LastOf(w, s, c) THEN [work[w] EXCEPT !.idle = TRUE]
                                                         ELSE work[w]
      /\ work' = [w \in Worker |-> work'[w]]
      /\ clock' = clock /\ subject' = subject /\ again' = again
  BY DEF CaseSettled
<1>2. \A w \in Worker : work[w] \in Jobs
  BY DEF IInv, TypeOK, Jobs
<1>3. \A w \in Worker : LastOf(w, s, c) =>
        /\ work[w] \in Patches /\ work'[w] \in Patches
        /\ work'[w].stage = work[w].stage /\ work'[w].on = work[w].on
        /\ work'[w].seen = work[w].seen /\ work'[w].now = work[w].now
        /\ work'[w].minor = work[w].minor /\ work'[w].idle = TRUE
  <2> SUFFICES ASSUME NEW w \in Worker, LastOf(w, s, c)
               PROVE  /\ work[w] \in Patches /\ work'[w] \in Patches
                      /\ work'[w].stage = work[w].stage /\ work'[w].on = work[w].on
                      /\ work'[w].seen = work[w].seen /\ work'[w].now = work[w].now
                      /\ work'[w].minor = work[w].minor /\ work'[w].idle = TRUE
    OBVIOUS
  <2>1. work[w] \in Patches
    BY <1>2, JobKinds DEF LastOf
  <2>2. work'[w] = [work[w] EXCEPT !.idle = TRUE]
    BY <1>1
  <2> QED
    BY <2>1, <2>2 DEF Patches
<1>4. \A w \in Worker : work'[w] \in Jobs
  BY <1>1, <1>2, <1>3 DEF Jobs
<1>5. TypeOK'
  BY <1>1, <1>4 DEF IInv, TypeOK, Jobs
<1>6. NothingAhead' /\ OneHolder'
  BY <1>1, <1>3 DEF IInv, NothingAhead, OneHolder, Holds
<1>7. JobsFit'
  <2> SUFFICES ASSUME NEW w \in Worker
               PROVE  SeenFits(work[w])' /\ VersionFits(work[w])' /\ LaneFits(work[w])'
    BY DEF JobsFit
  <2>1. SeenFits(work[w]) /\ VersionFits(work[w]) /\ LaneFits(work[w])
    BY DEF IInv, JobsFit
  <2>2. SeenFits(work[w])' /\ VersionFits(work[w])'
    BY <1>1, <1>3, <2>1 DEF SeenFits, VersionFits, Exists, AtWork, Holds
  <2>3. CASE LastOf(w, s, c)
    BY <1>3, <2>2, <2>3 DEF LaneFits
  <2>4. CASE ~LastOf(w, s, c)
    <3>1. work'[w] = work[w]
      BY <1>1, <2>4
    <3>2. AtWork(work[w]) /\ inFlight'[work[w].on] = {} => inFlight[work[w].on] = {}
      <4> SUFFICES ASSUME AtWork(work[w]), inFlight'[work[w].on] = {}
                   PROVE  inFlight[work[w].on] = {}
        OBVIOUS
      <4>1. work[w].on \in Subject
        BY <1>2, JobKinds DEF Patches
      <4>2. work[w].on # s
        BY <1>1, <2>4 DEF LastOf, IInv, TypeOK
      <4> QED
        BY <1>1, <4>1, <4>2 DEF IInv, TypeOK
    <3>3. LaneFits(work[w])'
      BY <1>1, <2>1, <3>1, <3>2 DEF LaneFits, AtWork
    <3> QED
      BY <2>2, <3>3
  <2> QED
    BY <2>3, <2>4
<1> QED
  BY <1>5, <1>6, <1>7 DEF IInv

LEMMA TickKeeps ==
  ASSUME IInv, Tick
  PROVE  IInv'
<1>1. /\ clock' = clock + 1 /\ clock < MaxTime
      /\ subject' = subject /\ again' = again /\ inFlight' = inFlight /\ work' = work
  BY DEF Tick
<1>2. clock \in Int /\ clock' \in Instant
  BY <1>1, TimeIsPositive DEF IInv, TypeOK, Instant
<1>3. TypeOK'
  BY <1>1, <1>2 DEF IInv, TypeOK
<1>4. NothingAhead'
  <2>1. \A s \in Subject : subject'[s].at <= clock'
    BY <1>1, <1>2, ExistingRow DEF IInv, NothingAhead
  <2>2. \A w \in Worker : work'[w].now <= clock'
    <3>1. \A w \in Worker : work[w].now \in Int
      BY JobKinds DEF IInv, TypeOK, Jobs
    <3> QED
      BY <1>1, <1>2, <3>1 DEF IInv, NothingAhead
  <2> QED
    BY <2>1, <2>2 DEF NothingAhead
<1>5. JobsFit' /\ OneHolder'
  BY <1>1 DEF IInv, JobsFit, OneHolder, SeenFits, VersionFits, LaneFits, Exists, AtWork, Holds
<1> QED
  BY <1>3, <1>4, <1>5 DEF IInv

LEMMA NextInv == IInv /\ [Next]_vars => IInv'
<1> SUFFICES ASSUME IInv, [Next]_vars PROVE IInv'
  OBVIOUS
<1>1. ASSUME NEW w \in Worker, Create(w) PROVE IInv'
  BY <1>1, BeginCreateKeeps, CommitCreateKeeps DEF Create
<1>2. ASSUME NEW w \in Worker, Patch(w) PROVE IInv'
  BY <1>2, ReadForPatchKeeps, BeginPatchKeeps, LockSubjectKeeps, CheckLaneKeeps,
     CommitPatchKeeps DEF Patch
<1>3. CASE Lifecycle
  BY <1>3, CaseSubmittedKeeps, CaseSettledKeeps DEF Lifecycle
<1>4. CASE UNCHANGED vars
  BY <1>4 DEF vars, IInv, TypeOK, NothingAhead, JobsFit, OneHolder, SeenFits, VersionFits,
              LaneFits, Exists, AtWork, Holds
<1> QED
  BY <1>1, <1>2, <1>3, <1>4, RollBackKeeps, TickKeeps DEF Next

-----------------------------------------------------------------------------
(* Theorems                                                                *)

\* What a request saw, compared and counted is as the invariant says it is.
THEOREM InvariantHolds == Spec => []IInv
<1>1. Init => IInv
  BY InitInv
<1>2. IInv /\ [Next]_vars => IInv'
  BY NextInv
<1> QED
  BY <1>1, <1>2, PTL DEF Spec

\* What a step does to a subject that exists.
PatchSeen ==
  \A s \in Subject : Exists(s) /\ subject'[s] # subject[s] =>
    /\ subject'[s].at >= subject[s].at
    /\ \E w \in Worker :
         /\ Patching(w, s)
         /\ work[w].seen = subject[s] \/ subject[s].at \in again[s]

LaneIdle ==
  \A s \in Subject : Exists(s) /\ ~subject[s].minor /\ subject'[s].minor =>
    \E w \in Worker : Patching(w, s) /\ work[w].idle

LEMMA NextPatches == IInv /\ [Next]_vars => PatchSeen /\ LaneIdle
<1> SUFFICES ASSUME IInv, [Next]_vars PROVE PatchSeen /\ LaneIdle
  OBVIOUS
<1>1. CASE subject' = subject
  BY <1>1 DEF PatchSeen, LaneIdle
<1>2. ASSUME NEW w \in Worker, NEW s \in Subject, NEW label \in Label, CommitCreate(w, s, label)
      PROVE  PatchSeen /\ LaneIdle
  <2>1. ~Exists(s) /\ \A r \in Subject : r # s => subject'[r] = subject[r]
    BY <1>2 DEF CommitCreate, Writes, IInv, TypeOK
  <2> QED
    BY <2>1 DEF PatchSeen, LaneIdle
<1>3. ASSUME NEW w \in Worker, NEW label \in Label, CommitPatch(w, label)
      PROVE  PatchSeen /\ LaneIdle
  <2>1. PICK s \in Subject, row \in Subjects :
          /\ work[w].stage = "checked" /\ work[w].on = s
          /\ row.minor = work[w].minor /\ row.at = work[w].now
          /\ subject[s].at = work[w].seen.at /\ work[w].seen.at <= work[w].now
          /\ Exists(s)
          /\ work[w].seen = subject[s] \/ subject[s].at \in again[s]
          /\ Writes(w, s, row)
    BY <1>3, CommitPatchWrites
  <2>2. /\ subject'[s] = row /\ \A r \in Subject : r # s => subject'[r] = subject[r]
        /\ work'[w] = Idle
    BY <2>1 DEF Writes, IInv, TypeOK
  <2>3. Patching(w, s)
    BY <2>1, <2>2 DEF Patching, Is
  <2>4. subject'[s].at >= subject[s].at
    BY <2>1, <2>2, ExistingRow, JobKinds DEF IInv, TypeOK, Jobs
  <2>5. ~subject[s].minor /\ work[w].minor => work[w].idle
    BY <2>1 DEF IInv, JobsFit, LaneFits
  <2>6. PatchSeen
    BY <2>1, <2>2, <2>3, <2>4 DEF PatchSeen
  <2>7. LaneIdle
    BY <2>1, <2>2, <2>3, <2>5 DEF LaneIdle
  <2> QED
    BY <2>6, <2>7
<1> QED
  BY <1>1, <1>2, <1>3
  DEF Next, vars, Create, Patch, Lifecycle, BeginCreate, ReadForPatch, BeginPatch, LockSubject,
      CheckLane, RollBack, Goes, Tick, CaseSubmitted, CaseSettled

\* No patch overwrites what its caller has not seen, as far as milliseconds tell.
THEOREM NoLostPatchHolds == Spec => NoLostPatch
<1>1. IInv /\ [Next]_vars => [PatchSeen]_vars
  BY NextPatches
<1> QED
  BY <1>1, InvariantHolds, PTL DEF Spec, NoLostPatch, PatchSeen

\* The strict lane is entered by a request that had an idle moment.
THEOREM LaneEnteredIdleHolds == Spec => LaneEnteredIdle
<1>1. IInv /\ [Next]_vars => [LaneIdle]_vars
  BY NextPatches
<1> QED
  BY <1>1, InvariantHolds, PTL DEF Spec, LaneEnteredIdle, LaneIdle

=============================================================================
