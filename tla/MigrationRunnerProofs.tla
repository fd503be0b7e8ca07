------------------------- MODULE MigrationRunnerProofs -------------------------
(***************************************************************************)
(* Proofs about MigrationRunner: what is recorded was applied, an ok is     *)
(* true, and files are applied in order, for any number of runners,         *)
(* versions, contents and directories.                                     *)
(***************************************************************************)
EXTENDS MigrationRunner, TLAPS

Jobs == Ups \cup Verifies \cup {Idle}

-----------------------------------------------------------------------------
(* Facts about runners                                                     *)

\* The operation of a job says what kind it is.
LEMMA JobKinds ==
  ASSUME NEW job \in Jobs
  PROVE  /\ job.op = "up" => job \in Ups
         /\ job.op = "verify" => job \in Verifies
<1>1. CASE job \in Ups
  BY <1>1 DEF Ups
<1>2. CASE job \in Verifies
  BY <1>2 DEF Verifies
<1>3. CASE job = Idle
  BY <1>3 DEF Idle
<1> QED
  BY <1>1, <1>2, <1>3 DEF Jobs

\* What the invariant says of one runner.
UpFits(job) ==
  job.op = "up" =>
    /\ \A v \in Version : job.seen[v] # None => recorded[v] = job.seen[v]
    /\ \A v \in 1..(job.at - 1) : job.files[v] # None => recorded[v] = job.files[v]
    /\ job.stage = "applied" => /\ InReach(job) /\ job.files[job.at] # None
                                /\ Made(job.at, job.files[job.at])
    /\ job.stage = "ok" => ~InReach(job)

OkFits(job) ==
  /\ job.op = "up" /\ job.stage = "ok" => \A v \in 1..job.upTo :
       job.files[v] # None => /\ recorded[v] = job.files[v]
                              /\ Made(v, job.files[v])
  /\ job.op = "verify" /\ job.stage = "ok" => \A v \in Version :
       job.seen[v] # None => /\ job.files[v] # None
                             /\ Made(v, job.files[v])

LEMMA InvariantByRunner ==
  IInv <=> /\ effect \in Effects /\ recorded \in Table /\ work \in [Runner -> Jobs]
           /\ RecordedIsApplied
           /\ \A r \in Runner : UpFits(work[r]) /\ OkFits(work[r])
BY DEF IInv, TypeOK, JobInv, OkIsTrue, UpFits, OkFits, Is, Jobs

LEMMA InitInv == Init => IInv
<1> SUFFICES ASSUME Init PROVE IInv
  OBVIOUS
<1>1. TypeOK
  BY DEF Init, TypeOK, Table, Effects
<1>2. RecordedIsApplied /\ JobInv /\ OkIsTrue
  BY DEF Init, RecordedIsApplied, JobInv, OkIsTrue, Is, Idle
<1> QED
  BY <1>1, <1>2 DEF IInv

\* A runner may go on as any job that fits.
LEMMA GoesKeeps ==
  ASSUME IInv, NEW r \in Runner, NEW job \in Jobs, Goes(r, job), UpFits(job), OkFits(job)
  PROVE  IInv'
<1>1. effect' = effect /\ recorded' = recorded
  BY DEF Goes
<1>2. work' \in [Runner -> Jobs]
  BY InvariantByRunner DEF Goes
<1>3. \A q \in Runner : UpFits(work'[q]) /\ OkFits(work'[q])
  BY InvariantByRunner DEF Goes
<1>4. TypeOK'
  BY <1>1, <1>2 DEF IInv, TypeOK, Jobs
<1>5. RecordedIsApplied'
  BY <1>1 DEF IInv, RecordedIsApplied, Made
<1>6. JobInv' /\ OkIsTrue'
  BY <1>1, <1>3 DEF JobInv, OkIsTrue, UpFits, OkFits, Is, Made, InReach
<1> QED
  BY <1>4, <1>5, <1>6 DEF IInv

\* Versions that a runner has passed are below the one it is at.
LEMMA PassedAreVersions ==
  ASSUME NEW job \in Ups
  PROVE  /\ job.at \in Nat /\ 1..(job.at - 1) \subseteq Version
         /\ \A v \in 1..job.at : v \in 1..(job.at - 1) \/ v = job.at
BY LastIsNat DEF Ups, Version

-----------------------------------------------------------------------------
(* Steps of a runner                                                       *)

LEMMA StopKeeps ==
  ASSUME IInv, NEW r \in Runner, Stop(r)
  PROVE  IInv'
<1>1. UpFits(Idle) /\ OkFits(Idle)
  BY DEF UpFits, OkFits, Idle
<1> QED
  BY <1>1, GoesKeeps DEF Stop, Jobs

LEMMA StartUpKeeps ==
  ASSUME IInv, NEW r \in Runner, NEW files \in Directory, NEW upTo \in Version,
         StartUp(r, files, upTo)
  PROVE  IInv'
<1> DEFINE job == [op |-> "up", stage |-> "reading", files |-> files, upTo |-> upTo,
                   seen |-> [v \in Version |-> None], at |-> 1]
<1>1. job \in Ups
  BY LastIsNat DEF Ups, Stages, Table
<1>2. UpFits(job) /\ OkFits(job)
  BY DEF UpFits, OkFits
<1> QED
  BY <1>1, <1>2, GoesKeeps DEF StartUp, Jobs

LEMMA StartVerifyKeeps ==
  ASSUME IInv, NEW r \in Runner, NEW files \in Directory, StartVerify(r, files)
  PROVE  IInv'
<1> DEFINE job == [op |-> "verify", stage |-> "reading", files |-> files,
                   seen |-> [v \in Version |-> None]]
<1>1. job \in Verifies
  BY DEF Verifies, Table
<1>2. UpFits(job) /\ OkFits(job)
  BY DEF UpFits, OkFits
<1> QED
  BY <1>1, <1>2, GoesKeeps DEF StartVerify, Jobs

LEMMA VerifyKeeps ==
  ASSUME IInv, NEW r \in Runner, Verify(r)
  PROVE  IInv'
<1> DEFINE job == [work[r] EXCEPT !.stage = "ok", !.seen = recorded]
<1>1. work[r] \in Verifies /\ Goes(r, job) /\ Undrifted(work[r].files, recorded)
  BY JobKinds, InvariantByRunner DEF Verify, Is
<1>2. job \in Verifies
  BY <1>1 DEF Verifies, IInv, TypeOK
<1>3. job.op = "verify" /\ job.files = work[r].files /\ job.seen = recorded
  BY <1>1 DEF Verifies
<1> HIDE DEF job
<1>4. UpFits(job)
  BY <1>3 DEF UpFits
<1>5. OkFits(job)
  BY <1>1, <1>3 DEF OkFits, Undrifted, IInv, RecordedIsApplied
<1> QED
  BY <1>1, <1>2, <1>4, <1>5, GoesKeeps DEF Jobs

LEMMA ReadTableKeeps ==
  ASSUME IInv, NEW r \in Runner, ReadTable(r)
  PROVE  IInv'
<1> DEFINE job == [work[r] EXCEPT !.stage = "walking", !.seen = recorded]
<1>1. work[r] \in Ups /\ Goes(r, job)
  BY JobKinds, InvariantByRunner DEF ReadTable, Is
<1>2. job \in Ups
  BY <1>1 DEF Ups, Stages, IInv, TypeOK
<1>3. /\ job.op = "up" /\ job.stage = "walking" /\ job.files = work[r].files
      /\ job.at = work[r].at /\ job.seen = recorded /\ work[r].op = "up"
  BY <1>1 DEF Ups
<1> HIDE DEF job
<1>4. UpFits(job) /\ OkFits(job)
  BY <1>3, InvariantByRunner DEF UpFits, OkFits
<1> QED
  BY <1>1, <1>2, <1>4, GoesKeeps DEF Jobs

LEMMA PassOverKeeps ==
  ASSUME IInv, NEW r \in Runner, PassOver(r)
  PROVE  IInv'
<1> DEFINE v == work[r].at
           job == [work[r] EXCEPT !.at = v + 1]
<1>1. /\ work[r] \in Ups /\ Goes(r, job) /\ work[r].stage = "walking" /\ InReach(work[r])
      /\ work[r].files[v] = None \/ work[r].seen[v] = work[r].files[v]
  BY JobKinds, InvariantByRunner DEF PassOver, Is
<1>2. v \in Version
  BY <1>1 DEF InReach
<1>3. job \in Ups
  BY <1>1, <1>2, LastIsNat DEF Ups, Version
<1>4. /\ job.op = "up" /\ job.stage = "walking" /\ job.files = work[r].files
      /\ job.at = v + 1 /\ job.seen = work[r].seen /\ work[r].op = "up"
  BY <1>1 DEF Ups
<1> HIDE DEF job
<1>5. UpFits(work[r])
  BY InvariantByRunner
<1>6. work[r].files[v] # None => recorded[v] = work[r].files[v]
  BY <1>1, <1>2, <1>4, <1>5 DEF UpFits
<1>7. \A u \in 1..(job.at - 1) : job.files[u] # None => recorded[u] = job.files[u]
  BY <1>1, <1>4, <1>5, <1>6, PassedAreVersions DEF UpFits
<1>8. UpFits(job) /\ OkFits(job)
  BY <1>4, <1>5, <1>7 DEF UpFits, OkFits
<1> QED
  BY <1>1, <1>3, <1>8, GoesKeeps DEF Jobs

LEMMA SucceedKeeps ==
  ASSUME IInv, NEW r \in Runner, Succeed(r)
  PROVE  IInv'
<1> DEFINE job == [work[r] EXCEPT !.stage = "ok"]
<1>1. work[r] \in Ups /\ Goes(r, job) /\ ~InReach(work[r])
  BY JobKinds, InvariantByRunner DEF Succeed, Is
<1>2. job \in Ups
  BY <1>1 DEF Ups, Stages
<1>3. /\ job.op = "up" /\ job.stage = "ok" /\ job.files = work[r].files /\ job.upTo = work[r].upTo
      /\ job.at = work[r].at /\ job.seen = work[r].seen /\ work[r].op = "up"
  BY <1>1 DEF Ups
<1> HIDE DEF job
<1>4. UpFits(work[r])
  BY InvariantByRunner
<1>5. UpFits(job)
  BY <1>1, <1>3, <1>4 DEF UpFits, InReach
<1>6. \A v \in 1..job.upTo : v \in 1..(work[r].at - 1) /\ v \in Version
  BY <1>1, <1>3, LastIsNat DEF InReach, Ups, Version
<1>7. \A v \in 1..job.upTo : job.files[v] # None => recorded[v] = job.files[v]
  BY <1>3, <1>4, <1>6 DEF UpFits
<1>8. OkFits(job)
  BY <1>3, <1>6, <1>7 DEF OkFits, IInv, RecordedIsApplied
<1> QED
  BY <1>1, <1>2, <1>5, <1>8, GoesKeeps DEF Jobs

\* A step of a runner on the database: what was made stays made.
LEMMA EffectGrows ==
  ASSUME IInv, NEW r \in Runner, NEW job \in Jobs,
         effect' \in Effects, recorded' = recorded, work' = [work EXCEPT ![r] = job],
         \A u \in Version, content \in Content : Made(u, content) => Made(u, content)',
         UpFits(job)', OkFits(job)'
  PROVE  IInv'
<1>1. work' \in [Runner -> Jobs] /\ TypeOK'
  BY InvariantByRunner DEF IInv, TypeOK, Jobs
<1>2. RecordedIsApplied'
  BY DEF IInv, TypeOK, Table, RecordedIsApplied
<1>3. \A q \in Runner : work'[q] = IF q = r THEN job ELSE work[q]
  BY InvariantByRunner
<1>4. ASSUME NEW q \in Runner PROVE UpFits(work[q])' /\ OkFits(work[q])'
  <2>1. CASE q = r
    BY <1>3, <2>1
  <2>2. CASE q # r
    <3>1. work'[q] = work[q] /\ work[q] \in Jobs
      BY <1>3, <2>2, InvariantByRunner
    <3>2. UpFits(work[q]) /\ OkFits(work[q])
      BY InvariantByRunner
    <3>3. UpFits(work[q])'
      <4>1. CASE work[q].op # "up"
        BY <3>1, <4>1 DEF UpFits
      <4>2. CASE work[q].op = "up"
        <5>1. work[q] \in Ups
          BY <3>1, <4>2, JobKinds
        <5>2. work[q].stage = "applied" =>
                /\ work[q].at \in Version /\ work[q].files[work[q].at] \in Content
                /\ Made(work[q].at, work[q].files[work[q].at])
          BY <3>2, <4>2, <5>1 DEF UpFits, InReach, Ups, Directory
        <5>3. work[q].stage = "applied" => Made(work[q].at, work[q].files[work[q].at])'
          BY <3>1, <5>2 DEF Made
        <5> QED
          BY <3>1, <3>2, <5>3 DEF UpFits, InReach
      <4> QED
        BY <4>1, <4>2
    <3>4. OkFits(work[q])'
      <4>1. CASE work[q].op = "up" /\ work[q].stage = "ok"
        <5>1. work[q] \in Ups
          BY <3>1, <4>1, JobKinds
        <5>2. \A u \in 1..work[q].upTo : u \in Version
          BY <5>1, LastIsNat DEF Ups, Version
        <5>3. \A u \in 1..work[q].upTo : work[q].files[u] # None =>
                /\ work[q].files[u] \in Content /\ recorded[u] = work[q].files[u]
                /\ Made(u, work[q].files[u])
          BY <3>2, <4>1, <5>1, <5>2 DEF OkFits, Ups, Directory
        <5>4. \A u \in 1..work[q].upTo : work[q].files[u] # None => Made(u, work[q].files[u])'
          BY <3>1, <5>2, <5>3 DEF Made
        <5> QED
          BY <3>1, <4>1, <5>3, <5>4 DEF OkFits
      <4>2. CASE work[q].op = "verify" /\ work[q].stage = "ok"
        <5>1. work[q] \in Verifies
          BY <3>1, <4>2, JobKinds
        <5>2. \A u \in Version : work[q].seen[u] # None =>
                /\ work[q].files[u] # None /\ work[q].files[u] \in Content
                /\ Made(u, work[q].files[u])
          BY <3>2, <4>2, <5>1 DEF OkFits, Verifies, Directory
        <5>3. \A u \in Version : work[q].seen[u] # None => Made(u, work[q].files[u])'
          BY <3>1, <5>2 DEF Made
        <5> QED
          BY <3>1, <4>2, <5>2, <5>3 DEF OkFits
      <4> QED
        BY <3>1, <4>1, <4>2 DEF OkFits
    <3> QED
      BY <3>3, <3>4
  <2> QED
    BY <2>1, <2>2
<1>5. JobInv' /\ OkIsTrue'
  BY <1>4 DEF JobInv, OkIsTrue, UpFits, OkFits, Is
<1> QED
  BY <1>1, <1>2, <1>5 DEF IInv

\* A file applied where nothing was, or where it may be applied again, leaves made
\* what was made.
LEMMA ApplyKeeps ==
  ASSUME IInv, NEW r \in Runner, Apply(r)
  PROVE  IInv'
<1> DEFINE v == work[r].at
           file == work[r].files[v]
<1>1. /\ work[r] \in Ups /\ InReach(work[r]) /\ file # None
      /\ effect[v] = None \/ v \in Repeatable
      /\ effect' = [effect EXCEPT ![v] = file]
      /\ work' = [work EXCEPT ![r] = [work[r] EXCEPT !.stage = "applied"]]
      /\ recorded' = recorded
  BY JobKinds, InvariantByRunner DEF Apply, Is
<1>2. v \in Version /\ file \in Content
  BY <1>1 DEF InReach, Ups, Directory
<1>3. [work[r] EXCEPT !.stage = "applied"] \in Ups
  BY <1>1 DEF Ups, Stages
<1>4. PICK job \in Jobs : job = [work[r] EXCEPT !.stage = "applied"]
  BY <1>3 DEF Jobs
<1>5. /\ job.op = "up" /\ job.stage = "applied" /\ job.files = work[r].files /\ job.at = v
      /\ job.upTo = work[r].upTo /\ job.seen = work[r].seen /\ work[r].op = "up"
  BY <1>1, <1>4 DEF Ups
<1>6. \A u \in Version : effect'[u] = IF u = v THEN file ELSE effect[u]
  BY <1>1 DEF IInv, TypeOK, Effects
<1>7. effect' \in Effects
  BY <1>1, <1>2 DEF IInv, TypeOK, Effects
<1>8. \A u \in Version, content \in Content : Made(u, content) => Made(u, content)'
  BY <1>1, <1>2, <1>6, MarksAreNoContent DEF Made
<1>9. UpFits(work[r]) /\ effect'[v] = file
  BY <1>2, <1>6, InvariantByRunner
<1>10. UpFits(job)' /\ OkFits(job)'
  <2>1. InReach(job) /\ job.files[job.at] # None /\ Made(job.at, job.files[job.at])'
    BY <1>1, <1>5, <1>9 DEF InReach, Made
  <2>2. /\ \A u \in Version : job.seen[u] # None => recorded'[u] = job.seen[u]
        /\ \A u \in 1..(job.at - 1) : job.files[u] # None => recorded'[u] = job.files[u]
    BY <1>1, <1>5, <1>9 DEF UpFits
  <2> QED
    BY <1>5, <2>1, <2>2 DEF UpFits, OkFits, InReach
<1> HIDE DEF file
<1> QED
  BY <1>1, <1>4, <1>7, <1>8, <1>10, EffectGrows

\* Where a part is applied, nothing was made.
LEMMA ApplyPartKeeps ==
  ASSUME IInv, NEW r \in Runner, ApplyPart(r)
  PROVE  IInv'
<1> DEFINE v == work[r].at
<1>1. /\ v \in Version /\ effect[v] = None
      /\ effect' = [effect EXCEPT ![v] = Half]
      /\ work' = [work EXCEPT ![r] = Idle] /\ recorded' = recorded
  BY DEF ApplyPart, InReach
<1>2. \A u \in Version : effect'[u] = IF u = v THEN Half ELSE effect[u]
  BY <1>1 DEF IInv, TypeOK, Effects
<1>3. effect' \in Effects
  BY <1>1 DEF IInv, TypeOK, Effects
<1>4. \A u \in Version, content \in Content : Made(u, content) => Made(u, content)'
  BY <1>1, <1>2, MarksAreNoContent DEF Made
<1>5. Idle \in Jobs /\ UpFits(Idle)' /\ OkFits(Idle)'
  BY DEF Jobs, Idle, UpFits, OkFits
<1> QED
  BY <1>1, <1>3, <1>4, <1>5, EffectGrows

\* A record is made where none was, of a file that has had its effect.
LEMMA RecordKeeps ==
  ASSUME IInv, NEW r \in Runner, Record(r)
  PROVE  IInv'
<1> DEFINE v == work[r].at
           job == [work[r] EXCEPT !.stage = "walking", !.at = v + 1,
                                  !.seen[v] = work[r].files[v]]
<1>1. /\ work[r] \in Ups /\ work[r].stage = "applied" /\ recorded[v] = None
      /\ recorded' = [recorded EXCEPT ![v] = work[r].files[v]]
      /\ work' = [work EXCEPT ![r] = job] /\ effect' = effect
  BY JobKinds, InvariantByRunner DEF Record, Is
<1>2. UpFits(work[r])
  BY InvariantByRunner
<1>3. v \in Version /\ work[r].files[v] # None /\ Made(v, work[r].files[v])
  BY <1>1, <1>2 DEF UpFits, InReach, Ups
<1>4. work[r].files[v] \in Content
  BY <1>1, <1>3 DEF Ups, Directory
<1>5. job \in Ups
  <2>1. [work[r].seen EXCEPT ![v] = work[r].files[v]] \in Table
    BY <1>1, <1>3, <1>4 DEF Ups, Table
  <2>2. v + 1 \in 1..Last + 1
    BY <1>3, LastIsNat DEF Version
  <2> QED
    BY <1>1, <2>1, <2>2 DEF Ups, Stages
<1>6. /\ job.op = "up" /\ job.stage = "walking" /\ job.files = work[r].files
      /\ job.at = v + 1 /\ work[r].op = "up"
      /\ \A u \in Version : job.seen[u] = IF u = v THEN work[r].files[v] ELSE work[r].seen[u]
  BY <1>1, <1>3 DEF Ups, Table
<1> HIDE DEF job
<1>7. \A u \in Version : recorded'[u] = IF u = v THEN work[r].files[v] ELSE recorded[u]
  BY <1>1 DEF IInv, TypeOK, Table
<1>8. recorded' \in Table /\ work' \in [Runner -> Jobs]
  BY <1>1, <1>3, <1>4, <1>5, InvariantByRunner DEF Table, Jobs
<1>9. TypeOK'
  BY <1>1, <1>8 DEF IInv, TypeOK, Jobs
<1>10. RecordedIsApplied'
  BY <1>1, <1>3, <1>7 DEF IInv, RecordedIsApplied, Made
<1>11. \A q \in Runner : work'[q] = IF q = r THEN job ELSE work[q]
  BY <1>1, InvariantByRunner
<1>12. \A u \in Version : recorded[u] # None => recorded'[u] = recorded[u]
  BY <1>1, <1>7
<1>13. ASSUME NEW q \in Runner PROVE UpFits(work[q])' /\ OkFits(work[q])'
  <2>1. CASE q = r
    <3>1. work'[q] = job
      BY <1>11, <2>1
    <3>2. \A u \in Version : job.seen[u] # None => recorded'[u] = job.seen[u]
      BY <1>2, <1>6, <1>7 DEF UpFits
    <3>3. \A u \in 1..(job.at - 1) : job.files[u] # None => recorded'[u] = job.files[u]
      <4>1. \A u \in 1..(job.at - 1) : u \in Version /\ (u \in 1..(v - 1) \/ u = v)
        BY <1>1, <1>3, <1>6, PassedAreVersions
      <4>2. \A u \in 1..(v - 1) : work[r].files[u] # None => recorded[u] = work[r].files[u]
        BY <1>2, <1>6 DEF UpFits
      <4> QED
        BY <1>6, <1>7, <4>1, <4>2
    <3>4. UpFits(work[q])'
      BY <1>6, <3>1, <3>2, <3>3 DEF UpFits
    <3> QED
      BY <1>6, <3>1, <3>4 DEF OkFits
  <2>2. CASE q # r
    <3>1. work'[q] = work[q] /\ work[q] \in Jobs
      BY <1>11, <2>2, InvariantByRunner
    <3>2. UpFits(work[q]) /\ OkFits(work[q])
      BY InvariantByRunner
    <3>3. UpFits(work[q])'
      <4>1. CASE work[q].op # "up"
        BY <3>1, <4>1 DEF UpFits
      <4>2. CASE work[q].op = "up"
        <5>1. work[q] \in Ups
          BY <3>1, <4>2, JobKinds
        <5>2. \A u \in Version : work[q].seen[u] # None => recorded'[u] = work[q].seen[u]
          BY <1>12, <3>2, <4>2 DEF UpFits
        <5>3. \A u \in 1..(work[q].at - 1) : /\ u \in Version
                                             /\ work[q].files[u] # None => recorded[u] = work[q].files[u]
          BY <3>2, <4>2, <5>1, PassedAreVersions DEF UpFits
        <5>4. \A u \in 1..(work[q].at - 1) :
                work[q].files[u] # None => recorded'[u] = work[q].files[u]
          BY <1>12, <5>3
        <5> QED
          BY <1>1, <3>1, <3>2, <4>2, <5>2, <5>4 DEF UpFits, InReach, Made
      <4> QED
        BY <4>1, <4>2
    <3>4. OkFits(work[q])'
      <4>1. CASE work[q].op = "up" /\ work[q].stage = "ok"
        <5>1. work[q] \in Ups
          BY <3>1, <4>1, JobKinds
        <5>2. \A u \in 1..work[q].upTo : u \in Version
          BY <5>1, LastIsNat DEF Ups, Version
        <5>3. \A u \in 1..work[q].upTo : work[q].files[u] # None =>
                /\ recorded'[u] = work[q].files[u]
                /\ Made(u, work[q].files[u])
          BY <1>12, <3>2, <4>1, <5>2 DEF OkFits
        <5> QED
          BY <1>1, <3>1, <4>1, <5>3 DEF OkFits, Made
      <4>2. CASE work[q].op = "verify" /\ work[q].stage = "ok"
        BY <1>1, <3>1, <3>2, <4>2 DEF OkFits, Made
      <4> QED
        BY <3>1, <4>1, <4>2 DEF OkFits
    <3> QED
      BY <3>3, <3>4
  <2> QED
    BY <2>1, <2>2
<1>14. JobInv' /\ OkIsTrue'
  BY <1>13 DEF JobInv, OkIsTrue, UpFits, OkFits, Is
<1> QED
  BY <1>9, <1>10, <1>14 DEF IInv

-----------------------------------------------------------------------------
(* The theorems                                                            *)

LEMMA NextInv ==
  ASSUME IInv, [Next]_vars
  PROVE  IInv'
<1>1. CASE UNCHANGED vars
  <2>1. effect' = effect /\ recorded' = recorded /\ work' = work
    BY <1>1 DEF vars
  <2>2. TypeOK' /\ RecordedIsApplied'
    BY <2>1 DEF IInv, TypeOK, RecordedIsApplied, Made
  <2>3. JobInv' /\ OkIsTrue'
    BY <2>1 DEF IInv, JobInv, OkIsTrue, Is, InReach, Made
  <2> QED
    BY <2>2, <2>3 DEF IInv
<1>2. CASE Next
  BY <1>2, StartUpKeeps, ReadTableKeeps, PassOverKeeps, ApplyKeeps, ApplyPartKeeps,
     RecordKeeps, SucceedKeeps, StartVerifyKeeps, VerifyKeeps, StopKeeps DEF Next
<1> QED
  BY <1>1, <1>2

\* The invariant holds in every reachable state.
THEOREM InvariantHolds == Spec => []IInv
<1> QED
  BY InitInv, NextInv, PTL DEF Spec

\* What schema_migration records has been applied, from the file it names.
THEOREM RecordedIsAppliedHolds == Spec => []RecordedIsApplied
<1>1. IInv => RecordedIsApplied
  BY DEF IInv
<1> QED
  BY <1>1, InvariantHolds, PTL

\* An `up' that has answered ok has applied and recorded what it was asked for; a
\* `verify' that has answered ok found every recorded version applied from the file its
\* directory has.  Both stay true while the runner is there.
THEOREM OkIsTrueHolds == Spec => []OkIsTrue
<1>1. IInv => OkIsTrue
  BY DEF IInv
<1> QED
  BY <1>1, InvariantHolds, PTL

\* A step that changes what a version has made is its runner's, which has applied
\* and recorded all that is below.
LEMMA StepInOrder ==
  ASSUME IInv, [Next]_vars, NEW v \in Version, effect'[v] # effect[v]
  PROVE  \E r \in Runner :
           /\ Is(r, "up", "walking") /\ work[r].at = v
           /\ \A u \in 1..(v - 1) :
                work[r].files[u] # None => /\ Made(u, work[r].files[u])
                                           /\ recorded[u] = work[r].files[u]
<1>1. PICK r \in Runner : Apply(r) \/ ApplyPart(r)
  BY DEF Next, vars, StartUp, ReadTable, PassOver, Record, Succeed, StartVerify, Verify, Stop, Goes
<1>2. Is(r, "up", "walking") /\ work[r].at = v /\ work[r] \in Ups
  BY <1>1, JobKinds, InvariantByRunner
    DEF Apply, ApplyPart, Is, IInv, TypeOK, Effects
<1>3. UpFits(work[r])
  BY InvariantByRunner
<1>4. \A u \in 1..(v - 1) : /\ u \in Version
                            /\ work[r].files[u] # None => recorded[u] = work[r].files[u]
  BY <1>2, <1>3, PassedAreVersions DEF UpFits, Is
<1>5. \A u \in 1..(v - 1) : work[r].files[u] # None => Made(u, work[r].files[u])
  BY <1>4 DEF IInv, RecordedIsApplied
<1> QED
  BY <1>2, <1>4, <1>5

\* Files are applied in the order of their numbers, each on top of all lower ones.
THEOREM AppliedInOrderHolds == Spec => AppliedInOrder
<1>1. IInv /\ [Next]_vars =>
        [\A v \in Version : effect'[v] # effect[v] =>
          \E r \in Runner :
            /\ Is(r, "up", "walking") /\ work[r].at = v
            /\ \A u \in 1..(v - 1) :
                 work[r].files[u] # None => /\ Made(u, work[r].files[u])
                                            /\ recorded[u] = work[r].files[u]]_vars
  BY StepInOrder
<1> QED
  BY <1>1, InvariantHolds, PTL DEF Spec, AppliedInOrder

=============================================================================
