---------------------------- MODULE MigrationRunner ----------------------------
(***************************************************************************)
(* The forward-only migration runner.  An `up' takes the files of its       *)
(* directory in order of their number, reads schema_migration once, and     *)
(* then, file by file, passes over what is recorded with the checksum of    *)
(* the file, stops at what is recorded with another, and applies and        *)
(* records the rest.  Each file is applied by a psql of its own, in one      *)
(* transaction unless the file asks for none; the record is an INSERT by    *)
(* the next psql.  No lock keeps two runners apart: deployments start their  *)
(* own, each from its own directory.                                        *)
(***************************************************************************)
EXTENDS Integers

CONSTANTS
  Runner,      \* migrate processes that may run at one time
  Last,        \* the highest version number
  Content,     \* what a file of a version may contain; its checksum tells which
  Repeatable,  \* versions whose files may be applied again without an error
  Piecemeal,   \* contents that begin with `-- vg:no-transaction'
  Half,        \* a part of a piecemeal file was applied, and nothing else
  None         \* no file, no row, not applied

ASSUME LastIsNat == Last \in Nat
ASSUME MarksAreNoContent == None \notin Content /\ Half \notin Content \cup {None}
ASSUME PiecemealIsContent == Piecemeal \subseteq Content

VARIABLES
  effect,      \* the content of each version the database objects are made by
  recorded,    \* schema_migration: the checksum of each version
  work         \* where each runner is

vars == <<effect, recorded, work>>

-----------------------------------------------------------------------------
(* Files, rows and runners                                                 *)

Version == 1..Last

\* A directory of migrations, a reading of schema_migration, and what files have made.
Directory == [Version -> Content \cup {None}]
Table == [Version -> Content \cup {None}]
Effects == [Version -> Content \cup {Half, None}]

Stages == {"reading", "walking", "applied", "ok"}

\* seen is the table as the runner read it, with what it has recorded since; at is
\* the version it is at.
Ups == [op: {"up"}, stage: Stages, files: Directory, upTo: Version, seen: Table, at: 1..Last + 1]
Verifies == [op: {"verify"}, stage: {"reading", "ok"}, files: Directory, seen: Table]
Idle == [op |-> "none", stage |-> "none"]

TypeOK ==
  /\ effect \in Effects
  /\ recorded \in Table
  /\ work \in [Runner -> Ups \cup Verifies \cup {Idle}]

Init ==
  /\ effect = [v \in Version |-> None]
  /\ recorded = [v \in Version |-> None]
  /\ work = [r \in Runner |-> Idle]

Is(r, op, stage) == work[r].op = op /\ work[r].stage = stage

Goes(r, job) ==
  /\ work' = [work EXCEPT ![r] = job]
  /\ UNCHANGED <<effect, recorded>>

-----------------------------------------------------------------------------
(* migrate up                                                              *)

\* ensureBookkeeping, and migrationFiles, which reads each file and its checksum.
StartUp(r, files, upTo) ==
  /\ work[r] = Idle
  /\ \E v \in Version : files[v] # None
  /\ Goes(r, [op |-> "up", stage |-> "reading", files |-> files, upTo |-> upTo,
              seen |-> [v \in Version |-> None], at |-> 1])

\* appliedVersions.
ReadTable(r) ==
  /\ Is(r, "up", "reading")
  /\ Goes(r, [work[r] EXCEPT !.stage = "walking", !.seen = recorded])

\* The file the runner is at, if its loop has not come to the end or to --up-to.
InReach(job) == job.at \in Version /\ job.at <= job.upTo

\* Defect: what is recorded is passed over whatever its checksum.
PassOverDrifted(r) ==
  LET v == work[r].at
  IN  /\ Is(r, "up", "walking") /\ InReach(work[r])
      /\ work[r].files[v] = None \/ work[r].seen[v] # None
      /\ Goes(r, [work[r] EXCEPT !.at = v + 1])

\* There is no file of the number, or it is recorded as it is.  One recorded with
\* another checksum ends the runner: Stop.
PassOver(r) ==
  LET v == work[r].at
  IN  /\ Is(r, "up", "walking") /\ InReach(work[r])
      /\ work[r].files[v] = None \/ work[r].seen[v] = work[r].files[v]
      /\ Goes(r, [work[r] EXCEPT !.at = v + 1])

\* Defect: the exit code of psql is not looked at.
ApplyAnyhow(r) ==
  LET v == work[r].at
  IN  /\ Is(r, "up", "walking") /\ InReach(work[r])
      /\ work[r].files[v] # None /\ work[r].seen[v] = None
      /\ effect' = [effect EXCEPT ![v] = IF @ = None \/ v \in Repeatable
                                         THEN work[r].files[v] ELSE @]
      /\ work' = [work EXCEPT ![r].stage = "applied"]
      /\ UNCHANGED recorded

\* psql commits the file, whole or statement by statement.  Its objects must not exist
\* already, from a part of a file either, unless it may be applied again.
Apply(r) ==
  LET v == work[r].at
  IN  /\ Is(r, "up", "walking") /\ InReach(work[r])
      /\ work[r].files[v] # None /\ work[r].seen[v] = None
      /\ effect[v] = None \/ v \in Repeatable
      /\ effect' = [effect EXCEPT ![v] = work[r].files[v]]
      /\ work' = [work EXCEPT ![r].stage = "applied"]
      /\ UNCHANGED recorded

\* psql without -1 stops at a statement that fails, or is killed: the statements before
\* it stay, and the runner is gone.  Such a part on top of what a file has made adds
\* nothing that counts, and is a Stop.
ApplyPart(r) ==
  LET v == work[r].at
  IN  /\ Is(r, "up", "walking") /\ InReach(work[r])
      /\ work[r].files[v] \in Piecemeal /\ work[r].seen[v] = None
      /\ effect[v] = None
      /\ effect' = [effect EXCEPT ![v] = Half]
      /\ work' = [work EXCEPT ![r] = Idle]
      /\ UNCHANGED recorded

\* Defect: a record that was refused is taken for one that was made.
RecordAnyhow(r) ==
  LET v == work[r].at
  IN  /\ Is(r, "up", "applied")
      /\ recorded' = [recorded EXCEPT ![v] = IF @ = None THEN work[r].files[v] ELSE @]
      /\ work' = [work EXCEPT ![r].stage = "walking", ![r].at = v + 1,
                              ![r].seen[v] = work[r].files[v]]
      /\ UNCHANGED effect

\* INSERT INTO schema_migration, which the primary key admits once.
Record(r) ==
  LET v == work[r].at
  IN  /\ Is(r, "up", "applied")
      /\ recorded[v] = None
      /\ recorded' = [recorded EXCEPT ![v] = work[r].files[v]]
      /\ work' = [work EXCEPT ![r].stage = "walking", ![r].at = v + 1,
                              ![r].seen[v] = work[r].files[v]]
      /\ UNCHANGED effect

\* The loop is over; the privileges are applied, whose failure nobody looks at.
Succeed(r) ==
  /\ Is(r, "up", "walking") /\ ~InReach(work[r])
  /\ Goes(r, [work[r] EXCEPT !.stage = "ok"])

-----------------------------------------------------------------------------
(* migrate verify                                                          *)

StartVerify(r, files) ==
  /\ work[r] = Idle
  /\ Goes(r, [op |-> "verify", stage |-> "reading", files |-> files,
              seen |-> [v \in Version |-> None]])

\* Every record has its file, of its checksum.
Undrifted(files, table) == \A v \in Version : table[v] # None => files[v] = table[v]

Verify(r) ==
  /\ Is(r, "verify", "reading")
  /\ Undrifted(work[r].files, recorded)
  /\ Goes(r, [work[r] EXCEPT !.stage = "ok", !.seen = recorded])

-----------------------------------------------------------------------------
\* A runner is gone: it has answered, or it fails or is killed wherever it is.  A
\* psql that outlives its runner's timeout and commits is an Apply and a Stop.
Stop(r) ==
  /\ work[r] # Idle
  /\ Goes(r, Idle)

Next ==
  \E r \in Runner :
    \/ \E files \in Directory, upTo \in Version : StartUp(r, files, upTo)
    \/ ReadTable(r) \/ PassOver(r) \/ Apply(r) \/ ApplyPart(r) \/ Record(r)
    \/ Succeed(r)
    \/ \E files \in Directory : StartVerify(r, files)
    \/ Verify(r)
    \/ Stop(r)

Spec == Init /\ [][Next]_vars

-----------------------------------------------------------------------------
(* Properties                                                              *)

\* What a version has made of the database is what a file with its checksum makes:
\* exactly, or, where the file may be applied again and again, some such file, but
\* never a part of one.
Made(v, content) == effect[v] = content \/ (v \in Repeatable /\ effect[v] \in Content)

\* A version is recorded only when its file was applied, and with the checksum of
\* the file that was, whole: two runners never record what the other did not apply.
RecordedIsApplied == \A v \in Version : recorded[v] # None => Made(v, recorded[v])

\* A file is applied only on top of all the lower files of its own directory: a
\* runner never goes past a file that failed, drifted or was not recorded,
\* although what it knows of the others' work is as old as its one reading.
AppliedInOrder ==
  [][\A v \in Version : effect'[v] # effect[v] =>
       \E r \in Runner :
         /\ Is(r, "up", "walking") /\ work[r].at = v
         /\ \A u \in 1..(v - 1) :
              work[r].files[u] # None => /\ Made(u, work[r].files[u])
                                         /\ recorded[u] = work[r].files[u]]_vars

\* An `up' that answers ok leaves every file it was asked for applied and recorded,
\* whatever other runners were doing meanwhile.  A `verify' that answers ok says less:
\* every version it found recorded has a file in its directory, and was applied from
\* one of that checksum.  Files that are not recorded, applied or not, pass it.
OkIsTrue ==
  \A r \in Runner :
    /\ Is(r, "up", "ok") => \A v \in 1..work[r].upTo :
         work[r].files[v] # None => /\ recorded[v] = work[r].files[v]
                                    /\ Made(v, work[r].files[v])
    /\ Is(r, "verify", "ok") => \A v \in Version :
         work[r].seen[v] # None => /\ work[r].files[v] # None
                                   /\ Made(v, work[r].files[v])

\* The runner's header says the bookkeeping row is written in the transaction of the
\* file, so that a failed migration leaves a known state: when no runner is at work,
\* what has been applied is recorded.  Not kept: README, section 7.
AppliedIsRecorded ==
  (\A r \in Runner : work[r] = Idle) =>
    \A v \in Version : effect[v] # None => recorded[v] # None

-----------------------------------------------------------------------------
(* The invariant of the proofs                                             *)

\* What a runner knows of the table is true, and all there is below where it is;
\* a file it has just applied has had its effect.
JobInv ==
  \A r \in Runner : work[r].op = "up" =>
    /\ \A v \in Version : work[r].seen[v] # None => recorded[v] = work[r].seen[v]
    /\ \A v \in 1..(work[r].at - 1) : work[r].files[v] # None => recorded[v] = work[r].files[v]
    /\ work[r].stage = "applied" => /\ InReach(work[r]) /\ work[r].files[work[r].at] # None
                                    /\ Made(work[r].at, work[r].files[work[r].at])
    /\ work[r].stage = "ok" => ~InReach(work[r])

IInv == TypeOK /\ RecordedIsApplied /\ JobInv /\ OkIsTrue

=============================================================================
