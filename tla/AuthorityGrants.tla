---------------------------- MODULE AuthorityGrants ----------------------------
(***************************************************************************)
(* The grants under which somebody acts for a subject: the rows of         *)
(* authority_grant, which requests mint, revoke, contest and act under.    *)
(*                                                                         *)
(* Every request is one READ COMMITTED transaction.  A revocation, a       *)
(* contest and an act lock their grant, with SELECT .. FOR UPDATE or with   *)
(* an UPDATE on condition that nobody has been there before, and hold it   *)
(* to the COMMIT; a mint locks nothing.  The instant a transaction judges  *)
(* by, and writes, is the one at which it began.                           *)
(***************************************************************************)
EXTENDS Integers

CONSTANTS
  Worker,     \* request handlers that may run at one time
  Grant,      \* authority_grant rows that may come to exist
  Expiry,     \* instants at which a grant may expire or have cooled off
  MaxTime,    \* bound: the last instant
  None        \* no row

ASSUME InstantsAreTimes ==
  /\ MaxTime \in Nat \ {0}
  /\ Expiry \subseteq Nat \ {0}

ASSUME NoneIsNoGrant == None \notin Grant

VARIABLES
  clock,      \* the current instant
  grant,      \* authority_grant
  work        \* the request each worker is at

vars == <<clock, grant, work>>

-----------------------------------------------------------------------------
(* Rows and requests                                                       *)

Instant == 1..MaxTime
Never == 0              \* NULL, of a timestamp that has not been set

Grants == [expires: Expiry, coolingOff: Expiry \cup {Never},
           revoked: Instant \cup {Never}, contested: Instant \cup {Never}]
NoGrant == [expires |-> Never, coolingOff |-> Never, revoked |-> Never, contested |-> Never]

Operations == {"mint", "revoke", "contest", "act"}

Jobs == [op: Operations, stage: {"begun", "held"}, on: Grant \cup {None}, now: Instant]
Idle == [op |-> "none", stage |-> "none", on |-> None, now |-> Never]

TypeOK ==
  /\ clock \in Instant
  /\ grant \in [Grant -> Grants \cup {NoGrant}]
  /\ work \in [Worker -> Jobs \cup {Idle}]

Init ==
  /\ clock = 1
  /\ grant = [g \in Grant |-> NoGrant]
  /\ work = [w \in Worker |-> Idle]

Issued(g) == grant[g] # NoGrant

Is(w, op, stage) == work[w].op = op /\ work[w].stage = stage

\* A row that was locked stays locked to the end of its transaction.
Held(g) == \E w \in Worker : work[w].on = g /\ work[w].stage = "held"

Begin(w, op, on) ==
  /\ work[w] = Idle
  /\ work' = [work EXCEPT ![w] = [op |-> op, stage |-> "begun", on |-> on, now |-> clock]]
  /\ UNCHANGED <<clock, grant>>

\* The request goes on with the row it has found fit, and holds it.
Holds(w) ==
  /\ work' = [work EXCEPT ![w].stage = "held"]
  /\ UNCHANGED <<clock, grant>>

Ends(w) == work' = [work EXCEPT ![w] = Idle] /\ UNCHANGED clock

-----------------------------------------------------------------------------
(* A grant comes to be                                                     *)

BeginMint(w) == Begin(w, "mint", None)

\* The inserts of POST /v1/subjects, of POST .. /authority-grants and of the store
\* of AuthorityService, which alone sets a cooling-off period.
CommitMint(w, g, expires, coolingOff) ==
  /\ Is(w, "mint", "begun")
  /\ ~Issued(g)
  /\ expires > work[w].now
  /\ coolingOff = Never \/ coolingOff > work[w].now
  /\ grant' = [grant EXCEPT ![g] = [expires |-> expires, coolingOff |-> coolingOff,
                                    revoked |-> Never, contested |-> Never]]
  /\ Ends(w)

-----------------------------------------------------------------------------
(* A grant is ended or suspended                                           *)

BeginRevoke(w, g) == Issued(g) /\ Begin(w, "revoke", g)

\* Defect: a revocation reads the grant without FOR UPDATE.
LockToRevokeNot(w) ==
  /\ Is(w, "revoke", "begun")
  /\ grant[work[w].on].revoked = Never
  /\ Holds(w)

\* The row locked and found unrevoked: SELECT .. FOR UPDATE and the test of the
\* route, UPDATE .. WHERE revoked_at IS NULL of the store.
LockToRevoke(w) ==
  /\ Is(w, "revoke", "begun")
  /\ ~Held(work[w].on)
  /\ grant[work[w].on].revoked = Never
  /\ Holds(w)

CommitRevoke(w) ==
  /\ Is(w, "revoke", "held")
  /\ grant' = [grant EXCEPT ![work[w].on].revoked = work[w].now]
  /\ Ends(w)

BeginContest(w, g) == Issued(g) /\ Begin(w, "contest", g)

\* UPDATE .. WHERE contested_at IS NULL.
LockToContest(w) ==
  /\ Is(w, "contest", "begun")
  /\ ~Held(work[w].on)
  /\ grant[work[w].on].contested = Never
  /\ Holds(w)

CommitContest(w) ==
  /\ Is(w, "contest", "held")
  /\ grant' = [grant EXCEPT ![work[w].on].contested = work[w].now]
  /\ Ends(w)

-----------------------------------------------------------------------------
(* Something is done under a grant                                         *)

\* verifyAtExecutionTime: what of a grant allows a write at an instant.
UsableAt(row, now) ==
  /\ row.revoked = Never
  /\ row.expires > now
  /\ row.contested = Never
  /\ row.coolingOff <= now

BeginAct(w, g) == Issued(g) /\ Begin(w, "act", g)

\* Defect: the grant is read without FOR UPDATE.
LockToActNot(w) ==
  /\ Is(w, "act", "begun")
  /\ UsableAt(grant[work[w].on], work[w].now)
  /\ Holds(w)

\* The grant is read, with readForUpdate, inside the transaction that will write.
LockToAct(w) ==
  /\ Is(w, "act", "begun")
  /\ ~Held(work[w].on)
  /\ UsableAt(grant[work[w].on], work[w].now)
  /\ Holds(w)

\* What is done is the caller's, and commits with the lock.
CommitAct(w) ==
  /\ Is(w, "act", "held")
  /\ Ends(w)
  /\ UNCHANGED grant

\* A refusal, an error, a timeout or a crash: the transaction leaves nothing.
RollBack(w) ==
  /\ work[w] # Idle
  /\ Ends(w)
  /\ UNCHANGED grant

Tick ==
  /\ clock < MaxTime
  /\ clock' = clock + 1
  /\ UNCHANGED <<grant, work>>

-----------------------------------------------------------------------------
Mint(w) ==
  \/ BeginMint(w)
  \/ \E g \in Grant, expires \in Expiry, coolingOff \in Expiry \cup {Never} :
       CommitMint(w, g, expires, coolingOff)

Revoke(w) == (\E g \in Grant : BeginRevoke(w, g)) \/ LockToRevoke(w) \/ CommitRevoke(w)

Contest(w) == (\E g \in Grant : BeginContest(w, g)) \/ LockToContest(w) \/ CommitContest(w)

Act(w) == (\E g \in Grant : BeginAct(w, g)) \/ LockToAct(w) \/ CommitAct(w)

Next ==
  \/ \E w \in Worker : Mint(w) \/ Revoke(w) \/ Contest(w) \/ Act(w) \/ RollBack(w)
  \/ Tick

Spec == Init /\ [][Next]_vars

-----------------------------------------------------------------------------
(* Properties                                                              *)

\* The instant of a revocation or a contest is never moved, although the route
\* and the store, which know nothing of each other, may revoke one grant at one
\* time.
FirstInstantStands ==
  [][\A g \in Grant :
       /\ grant[g].revoked # Never => grant'[g].revoked = grant[g].revoked
       /\ grant[g].contested # Never => grant'[g].contested = grant[g].contested]_vars

\* With the standing of a grant read off its row, and whoever holds a grant to
\* act under it as acting, the transactions keep AuthorityPromise: no act is
\* overtaken by a revocation or a contest, and none begins after one.
Standing(row) ==
  IF row = NoGrant THEN "unissued"
  ELSE IF row.revoked # Never THEN "revoked"
  ELSE IF row.contested # Never THEN "suspended" ELSE "usable"

ActingUnder(job) == IF job.op = "act" /\ job.stage = "held" THEN job.on ELSE None

Promise == INSTANCE AuthorityPromise WITH
  standing <- [g \in Grant |-> Standing(grant[g])],
  acting <- [w \in Worker |-> ActingUnder(work[w])]

ImplementsPromise == Promise!Spec

-----------------------------------------------------------------------------
(* The invariant of the proofs                                             *)

\* A grant has one holder, a holder's grant exists and is still as it was found.
HolderInv ==
  /\ \A w \in Worker : work[w].op \in {"revoke", "contest", "act"} =>
       work[w].on \in Grant /\ Issued(work[w].on)
  /\ \A v, w \in Worker :
       work[v].stage = "held" /\ work[w].stage = "held" /\ work[v].on = work[w].on => v = w
  /\ \A w \in Worker : work[w].stage = "held" =>
       /\ work[w].op # "mint"
       /\ work[w].op = "revoke" => grant[work[w].on].revoked = Never
       /\ work[w].op = "contest" => grant[work[w].on].contested = Never
       /\ work[w].op = "act" => Standing(grant[work[w].on]) = "usable"

IInv == TypeOK /\ HolderInv

=============================================================================
