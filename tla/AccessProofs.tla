------------------------------ MODULE AccessProofs ------------------------------
(***************************************************************************)
(* Proofs about what lets a request act: the grant it acts under            *)
(* (AuthorityGrants) and the token it comes with (TokenGate).               *)
(*                                                                         *)
(* Of AuthorityGrants: its inductive invariant, that the first revocation   *)
(* and the first contest stand, and that it implements AuthorityPromise.    *)
(* Of TokenGate: its inductive invariant, that a withdrawn key dies, and     *)
(* that no request is refused its key without a cause.                      *)
(***************************************************************************)
EXTENDS AuthorityGrants, TokenGate, TLAPS

-----------------------------------------------------------------------------
(* Steps of one worker                                                     *)

\* The rows that exist are rows of the table.
LEMMA IssuedRow ==
  ASSUME TypeOK, NEW g \in Grant, Issued(g)
  PROVE  grant[g] \in Grants
BY DEF TypeOK, Issued

LEMMA InitInv == Init => IInv
BY InstantsAreTimes DEF Init, IInv, TypeOK, HolderInv, Instant, Idle

\* A worker that goes back to idle disturbs nobody.
LEMMA EndsKeeps ==
  ASSUME IInv, NEW w \in Worker, Ends(w), UNCHANGED grant
  PROVE  IInv'
<1>1. work' = [work EXCEPT ![w] = Idle] /\ clock' = clock /\ grant' = grant
  BY DEF Ends
<1>2. \A v \in Worker : work'[v] = IF v = w THEN Idle ELSE work[v]
  BY <1>1 DEF IInv, TypeOK
<1>3. TypeOK'
  BY <1>1 DEF IInv, TypeOK
<1>4. HolderInv'
  BY <1>1, <1>2 DEF IInv, HolderInv, Idle, Issued
<1> QED
  BY <1>3, <1>4 DEF IInv

\* A request begins on a grant that exists, or, a mint, on none.
LEMMA BeginKeeps ==
  ASSUME IInv, NEW w \in Worker, NEW op \in Operations, NEW on \in Grant \cup {None},
         op # "mint" => on \in Grant /\ Issued(on),
         Begin(w, op, on)
  PROVE  IInv'
<1> DEFINE job == [op |-> op, stage |-> "begun", on |-> on, now |-> clock]
<1>1. work' = [work EXCEPT ![w] = job] /\ clock' = clock /\ grant' = grant
  BY DEF Begin
<1>2. \A v \in Worker : work'[v] = IF v = w THEN job ELSE work[v]
  BY <1>1 DEF IInv, TypeOK
<1>3. job \in Jobs
  BY DEF Jobs, IInv, TypeOK
<1>4. TypeOK'
  BY <1>1, <1>3 DEF IInv, TypeOK
<1>5. job.op = op /\ job.stage = "begun" /\ job.on = on
  OBVIOUS
<1> HIDE DEF job
<1>6. HolderInv'
  BY <1>1, <1>2, <1>5 DEF IInv, HolderInv, Issued, Operations
<1> QED
  BY <1>4, <1>6 DEF IInv

\* A request that finds its grant free and fit holds it.
LEMMA HoldsKeeps ==
  ASSUME IInv, NEW w \in Worker,
         work[w].stage = "begun", work[w].op # "mint",
         ~Held(work[w].on),
         work[w].op = "revoke" => grant[work[w].on].revoked = Never,
         work[w].op = "contest" => grant[work[w].on].contested = Never,
         work[w].op = "act" => Standing(grant[work[w].on]) = "usable",
         Holds(w)
  PROVE  IInv'
<1> DEFINE job == [work[w] EXCEPT !.stage = "held"]
<1>1. work' = [work EXCEPT ![w] = job] /\ clock' = clock /\ grant' = grant
  BY DEF Holds
<1>2. \A v \in Worker : work'[v] = IF v = w THEN job ELSE work[v]
  BY <1>1 DEF IInv, TypeOK
<1>3. work[w] \in Jobs
  BY DEF IInv, TypeOK, Idle
<1>4. job \in Jobs
  BY <1>3 DEF Jobs
<1>5. job.op = work[w].op /\ job.stage = "held" /\ job.on = work[w].on
  BY <1>3 DEF Jobs
<1>6. TypeOK'
  BY <1>1, <1>4 DEF IInv, TypeOK
<1>7. \A v \in Worker : v # w /\ work[v].stage = "held" => work[v].on # work[w].on
  BY DEF Held
<1> HIDE DEF job
<1>8. HolderInv'
  <2>1. \A v \in Worker : work'[v].op \in {"revoke", "contest", "act"} =>
          work'[v].on \in Grant /\ grant'[work'[v].on] # NoGrant
    BY <1>1, <1>2, <1>5 DEF IInv, HolderInv, Issued
  <2>2. \A u, v \in Worker :
          work'[u].stage = "held" /\ work'[v].stage = "held" /\ work'[u].on = work'[v].on => u = v
    BY <1>2, <1>5, <1>7 DEF IInv, HolderInv
  <2>3. \A v \in Worker : work'[v].stage = "held" =>
          /\ work'[v].op # "mint"
          /\ work'[v].op = "revoke" => grant'[work'[v].on].revoked = Never
          /\ work'[v].op = "contest" => grant'[work'[v].on].contested = Never
          /\ work'[v].op = "act" => Standing(grant'[work'[v].on]) = "usable"
    BY <1>1, <1>2, <1>5 DEF IInv, HolderInv
  <2> QED
    BY <2>1, <2>2, <2>3 DEF HolderInv, Issued
<1> QED
  BY <1>6, <1>8 DEF IInv

\* A request writes a row that it alone holds, or that did not exist, and ends.
LEMMA WriteKeeps ==
  ASSUME IInv, NEW w \in Worker, NEW g \in Grant, NEW row \in Grants,
         ~Issued(g) \/ (work[w].on = g /\ work[w].stage = "held"),
         grant' = [grant EXCEPT ![g] = row],
         Ends(w)
  PROVE  IInv'
<1>1. work' = [work EXCEPT ![w] = Idle] /\ clock' = clock
  BY DEF Ends
<1>2. \A v \in Worker : work'[v] = IF v = w THEN Idle ELSE work[v]
  BY <1>1 DEF IInv, TypeOK
<1>3. \A h \in Grant : grant'[h] = IF h = g THEN row ELSE grant[h]
  BY DEF IInv, TypeOK
<1>4. row # NoGrant
  BY InstantsAreTimes DEF Grants, NoGrant, Never
<1>5. TypeOK'
  BY <1>1 DEF IInv, TypeOK
<1>6. \A v \in Worker : v # w /\ work[v].stage = "held" => work[v].on \in Grant /\ work[v].on # g
  <2> SUFFICES ASSUME NEW v \in Worker, v # w, work[v].stage = "held"
               PROVE  work[v].on \in Grant /\ work[v].on # g
    OBVIOUS
  <2>1. work[v] \in Jobs
    BY DEF IInv, TypeOK, Idle
  <2>2. work[v].op \in {"revoke", "contest", "act"}
    BY <2>1 DEF IInv, HolderInv, Jobs, Operations
  <2>3. work[v].on \in Grant /\ Issued(work[v].on)
    BY <2>2 DEF IInv, HolderInv
  <2> QED
    BY <2>3 DEF IInv, HolderInv
<1>7. HolderInv'
  <2>1. \A v \in Worker : work'[v].op \in {"revoke", "contest", "act"} =>
          work'[v].on \in Grant /\ grant'[work'[v].on] # NoGrant
    BY <1>2, <1>3, <1>4 DEF IInv, HolderInv, Issued, Idle
  <2>2. \A u, v \in Worker :
          work'[u].stage = "held" /\ work'[v].stage = "held" /\ work'[u].on = work'[v].on => u = v
    BY <1>2 DEF IInv, HolderInv, Idle
  <2>3. \A v \in Worker : work'[v].stage = "held" =>
          /\ work'[v].op # "mint"
          /\ work'[v].op = "revoke" => grant'[work'[v].on].revoked = Never
          /\ work'[v].op = "contest" => grant'[work'[v].on].contested = Never
          /\ work'[v].op = "act" => Standing(grant'[work'[v].on]) = "usable"
    BY <1>2, <1>3, <1>6 DEF IInv, HolderInv, Idle
  <2> QED
    BY <2>1, <2>2, <2>3 DEF HolderInv, Issued
<1> QED
  BY <1>5, <1>7 DEF IInv

-----------------------------------------------------------------------------
(* Steps of the system                                                     *)

LEMMA MintKeeps ==
  ASSUME IInv, NEW w \in Worker, Mint(w)
  PROVE  IInv'
<1>1. CASE BeginMint(w)
  BY <1>1, BeginKeeps DEF BeginMint, Operations
<1>2. ASSUME NEW g \in Grant, NEW expires \in Expiry, NEW coolingOff \in Expiry \cup {Never},
             CommitMint(w, g, expires, coolingOff)
      PROVE  IInv'
  <2> DEFINE row == [expires |-> expires, coolingOff |-> coolingOff,
                     revoked |-> Never, contested |-> Never]
  <2>1. row \in Grants
    BY DEF Grants
  <2>2. ~Issued(g) /\ grant' = [grant EXCEPT ![g] = row] /\ Ends(w)
    BY <1>2 DEF CommitMint
  <2> HIDE DEF row
  <2> QED
    BY <2>1, <2>2, WriteKeeps
<1> QED
  BY <1>1, <1>2 DEF Mint

\* What a revocation and a contest write.
LEMMA CommitRevokeWrites ==
  ASSUME IInv, NEW w \in Worker, CommitRevoke(w)
  PROVE  \E g \in Grant, row \in Grants :
           /\ work[w].on = g /\ work[w].stage = "held" /\ Ends(w)
           /\ grant[g].revoked = Never /\ row = [grant[g] EXCEPT !.revoked = work[w].now]
           /\ grant' = [grant EXCEPT ![g] = row]
<1> DEFINE g == work[w].on
           row == [grant[g] EXCEPT !.revoked = work[w].now]
<1>1. work[w].op = "revoke" /\ work[w].stage = "held" /\ Ends(w)
  BY DEF CommitRevoke, Is
<1>2. g \in Grant /\ Issued(g) /\ grant[g].revoked = Never
  BY <1>1 DEF IInv, HolderInv
<1>3. work[w] \in Jobs
  BY <1>1 DEF IInv, TypeOK, Idle
<1>4. row \in Grants
  BY <1>2, <1>3, IssuedRow DEF IInv, Grants, Jobs
<1>5. grant' = [grant EXCEPT ![g] = row]
  BY DEF CommitRevoke
<1> QED
  BY <1>1, <1>2, <1>4, <1>5

LEMMA CommitContestWrites ==
  ASSUME IInv, NEW w \in Worker, CommitContest(w)
  PROVE  \E g \in Grant, row \in Grants :
           /\ work[w].on = g /\ work[w].stage = "held" /\ Ends(w)
           /\ grant[g].contested = Never /\ row = [grant[g] EXCEPT !.contested = work[w].now]
           /\ grant' = [grant EXCEPT ![g] = row]
<1> DEFINE g == work[w].on
           row == [grant[g] EXCEPT !.contested = work[w].now]
<1>1. work[w].op = "contest" /\ work[w].stage = "held" /\ Ends(w)
  BY DEF CommitContest, Is
<1>2. g \in Grant /\ Issued(g) /\ grant[g].contested = Never
  BY <1>1 DEF IInv, HolderInv
<1>3. work[w] \in Jobs
  BY <1>1 DEF IInv, TypeOK, Idle
<1>4. row \in Grants
  BY <1>2, <1>3, IssuedRow DEF IInv, Grants, Jobs
<1>5. grant' = [grant EXCEPT ![g] = row]
  BY DEF CommitContest
<1> QED
  BY <1>1, <1>2, <1>4, <1>5

LEMMA RevokeKeeps ==
  ASSUME IInv, NEW w \in Worker, Revoke(w)
  PROVE  IInv'
<1>1. ASSUME NEW g \in Grant, BeginRevoke(w, g) PROVE IInv'
  BY <1>1, BeginKeeps DEF BeginRevoke, Operations
<1>2. CASE LockToRevoke(w)
  BY <1>2, HoldsKeeps DEF LockToRevoke, Is
<1>3. CASE CommitRevoke(w)
  BY <1>3, CommitRevokeWrites, WriteKeeps
<1> QED
  BY <1>1, <1>2, <1>3 DEF Revoke

LEMMA ContestKeeps ==
  ASSUME IInv, NEW w \in Worker, Contest(w)
  PROVE  IInv'
<1>1. ASSUME NEW g \in Grant, BeginContest(w, g) PROVE IInv'
  BY <1>1, BeginKeeps DEF BeginContest, Operations
<1>2. CASE LockToContest(w)
  BY <1>2, HoldsKeeps DEF LockToContest, Is
<1>3. CASE CommitContest(w)
  BY <1>3, CommitContestWrites, WriteKeeps
<1> QED
  BY <1>1, <1>2, <1>3 DEF Contest

\* A grant that verifyAtExecutionTime accepts is usable.
LEMMA AcceptedIsUsable ==
  ASSUME IInv, NEW w \in Worker, LockToAct(w)
  PROVE  /\ work[w].op = "act" /\ work[w].stage = "begun" /\ work[w].on \in Grant
         /\ Standing(grant[work[w].on]) = "usable"
<1>1. work[w].op = "act" /\ work[w].stage = "begun"
  BY DEF LockToAct, Is
<1>2. work[w].on \in Grant /\ Issued(work[w].on)
  BY <1>1 DEF IInv, HolderInv
<1>3. grant[work[w].on].revoked = Never /\ grant[work[w].on].contested = Never
  BY DEF LockToAct, UsableAt
<1> QED
  BY <1>1, <1>2, <1>3 DEF Standing, Issued

LEMMA ActKeeps ==
  ASSUME IInv, NEW w \in Worker, Act(w)
  PROVE  IInv'
<1>1. ASSUME NEW g \in Grant, BeginAct(w, g) PROVE IInv'
  BY <1>1, BeginKeeps DEF BeginAct, Operations
<1>2. CASE LockToAct(w)
  <2>1. ~Held(work[w].on) /\ Holds(w)
    BY <1>2 DEF LockToAct
  <2> QED
    BY <1>2, <2>1, AcceptedIsUsable, HoldsKeeps
<1>3. CASE CommitAct(w)
  BY <1>3, EndsKeeps DEF CommitAct
<1> QED
  BY <1>1, <1>2, <1>3 DEF Act

LEMMA NextInv == IInv /\ [Next]_vars => IInv'
<1> SUFFICES ASSUME IInv, [Next]_vars PROVE IInv'
  OBVIOUS
<1>1. ASSUME NEW w \in Worker, RollBack(w) PROVE IInv'
  BY <1>1, EndsKeeps DEF RollBack
<1>2. CASE Tick
  <2>1. clock' \in Instant /\ grant' = grant /\ work' = work
    BY <1>2, InstantsAreTimes DEF Tick, Instant, IInv, TypeOK
  <2> QED
    BY <2>1 DEF IInv, TypeOK, HolderInv, Issued
<1>3. CASE UNCHANGED vars
  BY <1>3 DEF vars, IInv, TypeOK, HolderInv, Issued
<1> QED
  BY <1>1, <1>2, <1>3, MintKeeps, RevokeKeeps, ContestKeeps, ActKeeps DEF Next

-----------------------------------------------------------------------------
(* Theorems                                                                *)

\* A grant has one holder at most, and is as its holder found it.
THEOREM InvariantHolds == Spec => []IInv
<1>1. Init => IInv
  BY InitInv
<1>2. IInv /\ [Next]_vars => IInv'
  BY NextInv
<1> QED
  BY <1>1, <1>2, PTL DEF Spec

\* What a step does to a grant that has been revoked or contested.
FirstStands ==
  \A g \in Grant :
    /\ grant[g].revoked # Never => grant'[g].revoked = grant[g].revoked
    /\ grant[g].contested # Never => grant'[g].contested = grant[g].contested

LEMMA NextFirstStands == IInv /\ [Next]_vars => FirstStands
<1> SUFFICES ASSUME IInv, [Next]_vars PROVE FirstStands
  OBVIOUS
<1>1. CASE grant' = grant
  BY <1>1 DEF FirstStands
<1>2. ASSUME NEW w \in Worker, NEW g \in Grant, NEW expires \in Expiry,
             NEW coolingOff \in Expiry \cup {Never}, CommitMint(w, g, expires, coolingOff)
      PROVE  FirstStands
  BY <1>2 DEF CommitMint, Issued, NoGrant, FirstStands, IInv, TypeOK
<1>3. ASSUME NEW w \in Worker, CommitRevoke(w) PROVE FirstStands
  <2>1. PICK g \in Grant, row \in Grants :
          /\ grant[g].revoked = Never /\ row = [grant[g] EXCEPT !.revoked = work[w].now]
          /\ grant' = [grant EXCEPT ![g] = row]
    BY <1>3, CommitRevokeWrites
  <2>2. row.contested = grant[g].contested
    BY <2>1 DEF Grants
  <2> QED
    BY <2>1, <2>2 DEF FirstStands, IInv, TypeOK
<1>4. ASSUME NEW w \in Worker, CommitContest(w) PROVE FirstStands
  <2>1. PICK g \in Grant, row \in Grants :
          /\ grant[g].contested = Never /\ row = [grant[g] EXCEPT !.contested = work[w].now]
          /\ grant' = [grant EXCEPT ![g] = row]
    BY <1>4, CommitContestWrites
  <2>2. row.revoked = grant[g].revoked
    BY <2>1 DEF Grants
  <2> QED
    BY <2>1, <2>2 DEF FirstStands, IInv, TypeOK
<1> QED
  BY <1>1, <1>2, <1>3, <1>4
  DEF Next, vars, Mint, Revoke, Contest, Act, RollBack, Tick, BeginMint, BeginRevoke,
      BeginContest, BeginAct, Begin, LockToRevoke, LockToContest, LockToAct, Holds, CommitAct

\* The first revocation and the first contest of a grant stand for good.
THEOREM FirstInstantStandsHolds == Spec => FirstInstantStands
<1>1. IInv /\ [Next]_vars => [FirstStands]_vars
  BY NextFirstStands
<1> QED
  BY <1>1, InvariantHolds, PTL DEF Spec, FirstInstantStands, FirstStands

-----------------------------------------------------------------------------
(* The refinement                                                          *)

standingOf == [g \in Grant |-> Standing(grant[g])]
actingOf == [w \in Worker |-> ActingUnder(work[w])]

LEMMA InitPromise == Init => Promise!Init
<1> SUFFICES ASSUME Init PROVE Promise!Init
  OBVIOUS
<1>1. \A g \in Grant : Standing(grant[g]) = "unissued"
  BY DEF Init, Standing
<1>2. \A w \in Worker : ActingUnder(work[w]) = None
  BY DEF Init, ActingUnder, Idle
<1> QED
  BY <1>1, <1>2 DEF Promise!Init

\* The end of a request that writes nothing is the end of its act, if it was one.
LEMMA EndsLeaves ==
  ASSUME IInv, NEW w \in Worker, Ends(w), UNCHANGED grant
  PROVE  Promise!Leave(w)
<1>1. \A v \in Worker : work'[v] = IF v = w THEN Idle ELSE work[v]
  BY DEF Ends, IInv, TypeOK
<1>2. ActingUnder(Idle) = None
  BY DEF ActingUnder, Idle
<1>3. actingOf' = [actingOf EXCEPT ![w] = None]
  BY <1>1, <1>2 DEF actingOf
<1>4. standingOf' = standingOf
  BY DEF standingOf
<1> QED
  BY <1>3, <1>4 DEF Promise!Leave, standingOf, actingOf

\* A request that begins, or locks its grant for anything but an act, is unseen.
LEMMA BeginUnseen ==
  ASSUME IInv, NEW w \in Worker, NEW op \in Operations, NEW on \in Grant \cup {None},
         Begin(w, op, on)
  PROVE  UNCHANGED Promise!vars
<1>1. work' = [work EXCEPT ![w] = [op |-> op, stage |-> "begun", on |-> on, now |-> clock]]
  BY DEF Begin
<1>2. work[w] = Idle /\ grant' = grant
  BY DEF Begin
<1>3. \A v \in Worker : ActingUnder(work'[v]) = ActingUnder(work[v])
  BY <1>1, <1>2 DEF IInv, TypeOK, ActingUnder, Idle
<1>4. actingOf' = actingOf /\ standingOf' = standingOf
  BY <1>2, <1>3 DEF actingOf, standingOf
<1> QED
  BY <1>4 DEF Promise!vars, standingOf, actingOf

LEMMA HoldsUnseen ==
  ASSUME IInv, NEW w \in Worker, Holds(w), work[w].op \in {"revoke", "contest"}
  PROVE  UNCHANGED Promise!vars
<1>1. work' = [work EXCEPT ![w] = [work[w] EXCEPT !.stage = "held"]] /\ grant' = grant
  BY DEF Holds
<1>2. work[w] \in Jobs
  BY DEF IInv, TypeOK, Idle
<1>3. work'[w].op = work[w].op
  BY <1>1, <1>2 DEF IInv, TypeOK, Jobs
<1>4. \A v \in Worker : ActingUnder(work'[v]) = ActingUnder(work[v])
  BY <1>1, <1>3 DEF IInv, TypeOK, ActingUnder
<1>5. actingOf' = actingOf /\ standingOf' = standingOf
  BY <1>1, <1>4 DEF actingOf, standingOf
<1> QED
  BY <1>5 DEF Promise!vars, standingOf, actingOf

LEMMA LockToActEnters ==
  ASSUME IInv, NEW w \in Worker, LockToAct(w)
  PROVE  Promise!Enter(w, work[w].on)
<1> DEFINE g == work[w].on
<1>1. work' = [work EXCEPT ![w] = [work[w] EXCEPT !.stage = "held"]] /\ grant' = grant
  BY DEF LockToAct, Holds
<1>2. work[w].op = "act" /\ work[w].stage = "begun" /\ g \in Grant
      /\ Standing(grant[g]) = "usable"
  BY AcceptedIsUsable
<1>3. work[w] \in Jobs
  BY <1>2 DEF IInv, TypeOK, Idle
<1>4. work'[w].op = "act" /\ work'[w].stage = "held" /\ work'[w].on = g
  BY <1>1, <1>2, <1>3 DEF IInv, TypeOK, Jobs
<1>5. ActingUnder(work[w]) = None /\ ActingUnder(work'[w]) = g
  BY <1>2, <1>4 DEF ActingUnder
<1>6. \A v \in Worker : v # w => work'[v] = work[v]
  BY <1>1 DEF IInv, TypeOK
<1>7. actingOf' = [actingOf EXCEPT ![w] = g]
  BY <1>5, <1>6 DEF actingOf
<1>8. standingOf' = standingOf
  BY <1>1 DEF standingOf
<1> QED
  BY <1>2, <1>5, <1>7, <1>8 DEF Promise!Enter, standingOf, actingOf

\* A row written at the end of a request that was not an act: only the standing
\* of its grant is seen to change.
LEMMA WriteSeen ==
  ASSUME IInv, NEW w \in Worker, NEW g \in Grant, NEW row \in Grants,
         grant' = [grant EXCEPT ![g] = row],
         Ends(w), work[w].op # "act"
  PROVE  /\ actingOf' = actingOf
         /\ standingOf' = [standingOf EXCEPT ![g] = Standing(row)]
<1>1. \A v \in Worker : work'[v] = IF v = w THEN Idle ELSE work[v]
  BY DEF Ends, IInv, TypeOK
<1>2. \A v \in Worker : ActingUnder(work'[v]) = ActingUnder(work[v])
  BY <1>1 DEF ActingUnder, Idle
<1>3. actingOf' = actingOf
  BY <1>2 DEF actingOf
<1>4. standingOf' = [standingOf EXCEPT ![g] = Standing(row)]
  BY DEF standingOf, IInv, TypeOK
<1> QED
  BY <1>3, <1>4

\* Whoever holds a grant for anything but an act holds it alone.
LEMMA HeldIsUnused ==
  ASSUME IInv, NEW w \in Worker, work[w].stage = "held", work[w].op # "act"
  PROVE  ~Promise!InUse(work[w].on)
<1>1. SUFFICES ASSUME NEW v \in Worker, ActingUnder(work[v]) = work[w].on PROVE FALSE
  BY DEF Promise!InUse
<1>2. work[w] \in Jobs
  BY DEF IInv, TypeOK, Idle
<1>3. work[w].op \in {"revoke", "contest", "act"}
  BY <1>2 DEF IInv, HolderInv, Jobs, Operations
<1>4. work[w].on \in Grant
  BY <1>3 DEF IInv, HolderInv
<1>5. work[v].op = "act" /\ work[v].stage = "held" /\ work[v].on = work[w].on
  BY <1>1, <1>4, NoneIsNoGrant DEF ActingUnder
<1> QED
  BY <1>5 DEF IInv, HolderInv

LEMMA CommitMintIssues ==
  ASSUME IInv, NEW w \in Worker, NEW g \in Grant, NEW expires \in Expiry,
         NEW coolingOff \in Expiry \cup {Never}, CommitMint(w, g, expires, coolingOff)
  PROVE  Promise!Issue(g)
<1> DEFINE row == [expires |-> expires, coolingOff |-> coolingOff,
                   revoked |-> Never, contested |-> Never]
<1>1. row \in Grants
  BY DEF Grants
<1>2. ~Issued(g) /\ grant' = [grant EXCEPT ![g] = row] /\ Ends(w) /\ work[w].op # "act"
  BY DEF CommitMint, Is
<1>3. Standing(row) = "usable"
  BY InstantsAreTimes DEF Standing, NoGrant, Never
<1>4. Standing(grant[g]) = "unissued"
  BY <1>2 DEF Standing, Issued
<1> HIDE DEF row
<1>5. actingOf' = actingOf /\ standingOf' = [standingOf EXCEPT ![g] = "usable"]
  BY <1>1, <1>2, <1>3, WriteSeen
<1> QED
  BY <1>4, <1>5 DEF Promise!Issue, standingOf, actingOf

LEMMA CommitRevokeRevokes ==
  ASSUME IInv, NEW w \in Worker, CommitRevoke(w)
  PROVE  \E g \in Grant : Promise!Revoke(g)
<1>1. PICK g \in Grant, row \in Grants :
        /\ work[w].on = g /\ work[w].stage = "held" /\ Ends(w)
        /\ grant[g].revoked = Never /\ row = [grant[g] EXCEPT !.revoked = work[w].now]
        /\ grant' = [grant EXCEPT ![g] = row]
  BY CommitRevokeWrites
<1>2. work[w].op = "revoke"
  BY DEF CommitRevoke, Is
<1>3. Issued(g)
  BY <1>1, <1>2 DEF IInv, HolderInv
<1>4. work[w] \in Jobs
  BY <1>2 DEF IInv, TypeOK, Idle
<1>5. grant[g] \in Grants
  BY <1>3, IssuedRow DEF IInv
<1>6. work[w].now \in Instant
  BY <1>4 DEF Jobs
<1>7. row.revoked = work[w].now
  BY <1>1, <1>5 DEF Grants
<1>8. row.revoked # Never
  BY <1>6, <1>7, InstantsAreTimes DEF Instant, Never
<1>9. Standing(row) = "revoked"
  BY <1>8 DEF Standing, NoGrant
<1>10. Standing(grant[g]) \in {"usable", "suspended"}
  BY <1>1, <1>3 DEF Standing, Issued
<1>11. actingOf' = actingOf /\ standingOf' = [standingOf EXCEPT ![g] = "revoked"]
  <2>1. grant' = [grant EXCEPT ![g] = row] /\ Ends(w) /\ work[w].op # "act"
    BY <1>1, <1>2
  <2>2. actingOf' = actingOf /\ standingOf' = [standingOf EXCEPT ![g] = Standing(row)]
    BY <2>1, WriteSeen
  <2> QED
    BY <2>2, <1>9
<1>12. ~Promise!InUse(g)
  BY <1>1, <1>2, HeldIsUnused
<1>13. Promise!Revoke(g)
  BY <1>10, <1>11, <1>12 DEF Promise!Revoke, standingOf, actingOf
<1> QED
  BY <1>13

\* A contest suspends a usable grant; of a revoked one it changes nothing.
LEMMA CommitContestSuspends ==
  ASSUME IInv, NEW w \in Worker, CommitContest(w)
  PROVE  (\E g \in Grant : Promise!Suspend(g)) \/ UNCHANGED Promise!vars
<1>1. PICK g \in Grant, row \in Grants :
        /\ work[w].on = g /\ work[w].stage = "held" /\ Ends(w)
        /\ grant[g].contested = Never /\ row = [grant[g] EXCEPT !.contested = work[w].now]
        /\ grant' = [grant EXCEPT ![g] = row]
  BY CommitContestWrites
<1>2. work[w].op = "contest"
  BY DEF CommitContest, Is
<1>3. Issued(g)
  BY <1>1, <1>2 DEF IInv, HolderInv
<1>4. work[w] \in Jobs
  BY <1>2 DEF IInv, TypeOK, Idle
<1>5. grant[g] \in Grants
  BY <1>3, IssuedRow DEF IInv
<1>6. work[w].now \in Instant
  BY <1>4 DEF Jobs
<1>7. row.contested = work[w].now /\ row.revoked = grant[g].revoked
  BY <1>1, <1>5 DEF Grants
<1>8. row.contested # Never
  BY <1>6, <1>7, InstantsAreTimes DEF Instant, Never
<1>9. row # NoGrant
  BY <1>8 DEF NoGrant
<1>10. actingOf' = actingOf /\ standingOf' = [standingOf EXCEPT ![g] = Standing(row)]
  <2>1. grant' = [grant EXCEPT ![g] = row] /\ Ends(w) /\ work[w].op # "act"
    BY <1>1, <1>2
  <2> QED
    BY <2>1, WriteSeen
<1>11. CASE grant[g].revoked = Never
  <2>1. Standing(row) = "suspended" /\ Standing(grant[g]) = "usable"
    BY <1>1, <1>3, <1>7, <1>8, <1>9, <1>11 DEF Standing, Issued
  <2>2. ~Promise!InUse(g)
    BY <1>1, <1>2, HeldIsUnused
  <2>3. Promise!Suspend(g)
    BY <1>10, <2>1, <2>2 DEF Promise!Suspend, standingOf, actingOf
  <2> QED
    BY <2>3
<1>12. CASE grant[g].revoked # Never
  <2>1. Standing(row) = Standing(grant[g])
    BY <1>3, <1>7, <1>9, <1>12 DEF Standing, Issued
  <2>2. standingOf' = standingOf
    BY <1>10, <2>1 DEF standingOf
  <2> QED
    BY <1>10, <2>2 DEF Promise!vars, standingOf, actingOf
<1> QED
  BY <1>11, <1>12

\* Every step of the transactions is a step of the promise, or unseen.
LEMMA NextPromise == IInv /\ [Next]_vars => [Promise!Next]_(Promise!vars)
<1> SUFFICES ASSUME IInv, [Next]_vars PROVE Promise!Next \/ UNCHANGED Promise!vars
  OBVIOUS
<1>1. ASSUME NEW w \in Worker, Mint(w) PROVE Promise!Next \/ UNCHANGED Promise!vars
  BY <1>1, BeginUnseen, CommitMintIssues DEF Mint, BeginMint, Operations, Promise!Next
<1>2. ASSUME NEW w \in Worker, Revoke(w) PROVE Promise!Next \/ UNCHANGED Promise!vars
  <2>1. ASSUME NEW g \in Grant, BeginRevoke(w, g) PROVE UNCHANGED Promise!vars
    BY <2>1, BeginUnseen DEF BeginRevoke, Operations
  <2>2. CASE LockToRevoke(w)
    BY <2>2, HoldsUnseen DEF LockToRevoke, Is
  <2>3. CASE CommitRevoke(w)
    BY <2>3, CommitRevokeRevokes DEF Promise!Next
  <2> QED
    BY <1>2, <2>1, <2>2, <2>3 DEF Revoke
<1>3. ASSUME NEW w \in Worker, Contest(w) PROVE Promise!Next \/ UNCHANGED Promise!vars
  <2>1. ASSUME NEW g \in Grant, BeginContest(w, g) PROVE UNCHANGED Promise!vars
    BY <2>1, BeginUnseen DEF BeginContest, Operations
  <2>2. CASE LockToContest(w)
    BY <2>2, HoldsUnseen DEF LockToContest, Is
  <2>3. CASE CommitContest(w)
    BY <2>3, CommitContestSuspends DEF Promise!Next
  <2> QED
    BY <1>3, <2>1, <2>2, <2>3 DEF Contest
<1>4. ASSUME NEW w \in Worker, Act(w) PROVE Promise!Next \/ UNCHANGED Promise!vars
  <2>1. ASSUME NEW g \in Grant, BeginAct(w, g) PROVE UNCHANGED Promise!vars
    BY <2>1, BeginUnseen DEF BeginAct, Operations
  <2>2. CASE LockToAct(w)
    BY <2>2, LockToActEnters, AcceptedIsUsable DEF Promise!Next
  <2>3. CASE CommitAct(w)
    BY <2>3, EndsLeaves DEF CommitAct, Promise!Next
  <2> QED
    BY <1>4, <2>1, <2>2, <2>3 DEF Act
<1>5. ASSUME NEW w \in Worker, RollBack(w) PROVE Promise!Next
  BY <1>5, EndsLeaves DEF RollBack, Promise!Next
<1>6. CASE Tick \/ UNCHANGED vars
  <2>1. grant' = grant /\ work' = work
    BY <1>6 DEF Tick, vars
  <2>2. standingOf' = standingOf /\ actingOf' = actingOf
    BY <2>1 DEF standingOf, actingOf
  <2> QED
    BY <2>2 DEF Promise!vars, standingOf, actingOf
<1> QED
  BY <1>1, <1>2, <1>3, <1>4, <1>5, <1>6 DEF Next

\* The transactions on grants keep what AuthorityPromise says.
THEOREM Implementation == Spec => ImplementsPromise
<1>1. Init => Promise!Init
  BY InitPromise
<1>2. IInv /\ [Next]_vars => [Promise!Next]_(Promise!vars)
  BY NextPromise
<1> QED
  BY <1>1, <1>2, InvariantHolds, PTL DEF Spec, ImplementsPromise, Promise!Spec

-----------------------------------------------------------------------------
(* The token gate                                                          *)

GateJobs == Lookups \cup Verdicts \cup {NoRequest}

-----------------------------------------------------------------------------
(* Facts about times and jobs                                              *)

LEMMA TimesAreIntegers ==
  ASSUME GateTypeOK
  PROVE  /\ now \in Int /\ now >= 1
         /\ Ttl \in Int /\ MaxFetch \in Int /\ Ttl > 0 /\ MaxFetch > 0
         /\ \A k \in Key : lastSeen[k] \in Int
         /\ cache # NoDocument => cache.fetchedAt \in Int /\ cache.keys \in SUBSET Key
BY TimesAreNat DEF GateTypeOK, Moment, NoMoment, Documents

\* The stage of a request says what kind it is.
LEMMA JobKinds ==
  ASSUME NEW job \in GateJobs
  PROVE  /\ Fetching(job) \/ job.stage = "found" => job \in Lookups
         /\ job.stage = "answered" => job \in Verdicts
<1>1. CASE job \in Lookups
  BY <1>1 DEF Lookups
<1>2. CASE job \in Verdicts
  BY <1>2 DEF Verdicts, Fetching
<1>3. CASE job = NoRequest
  BY <1>3 DEF NoRequest, Fetching
<1> QED
  BY <1>1, <1>2, <1>3 DEF GateJobs

\* What of a job is a time or a set of keys.
LEMMA JobParts ==
  ASSUME NEW job \in Lookups
  PROVE  /\ job.came \in Int /\ job.asked \in Int
         /\ job.document \in SUBSET Key /\ job.kid \in Kids /\ job.key \in Kids
         /\ job.steady \in BOOLEAN
BY TimesAreNat DEF Lookups, Moment, NoMoment, Kids

LEMMA GateInitInv == GateInit => GateInv
<1> SUFFICES ASSUME GateInit PROVE GateInv
  OBVIOUS
<1>1. GateTypeOK
  BY TimesAreNat DEF GateInit, GateTypeOK, Moment, NoMoment
<1>2. IssuerInv /\ CacheInv
  BY DEF GateInit, IssuerInv, CacheInv, NoMoment
<1>3. ASSUME NEW r \in Request PROVE JobFits(req[r])
  BY DEF GateInit, JobFits, FetchFits, SteadyFits, VerdictFits, Fetching, Answered, NoRequest
<1> QED
  BY <1>1, <1>2, <1>3 DEF GateInv

\* A request may go on as any job that fits, whatever copy is kept, if it is of its time.
LEMMA GoesKeeps ==
  ASSUME GateInv, NEW r \in Request, NEW job \in GateJobs, Goes(r, job), JobFits(job),
         cache' \in Documents \cup {NoDocument}, CacheInv'
  PROVE  GateInv'
<1>1. GateTypeOK'
  BY DEF GateInv, GateTypeOK, Goes, GateJobs
<1>2. IssuerInv'
  BY DEF GateInv, IssuerInv, Goes
<1>3. ASSUME NEW p \in Request PROVE JobFits(req[p])'
  <2>1. req'[p] = req[p] \/ req'[p] = job
    BY DEF Goes, GateInv, GateTypeOK
  <2>2. JobFits(req'[p])
    BY <2>1 DEF GateInv
  <2> QED
    BY <2>2 DEF Goes, JobFits, FetchFits, SteadyFits, VerdictFits, Fetching, Answered, Matching
<1> QED
  BY <1>1, <1>2, <1>3 DEF GateInv

\* The same, when the copy stays as it is.
LEMMA GoesKeepsCopy ==
  ASSUME GateInv, NEW r \in Request, NEW job \in GateJobs, Goes(r, job), JobFits(job),
         UNCHANGED cache
  PROVE  GateInv'
<1>1. cache' \in Documents \cup {NoDocument}
  BY DEF GateInv, GateTypeOK
<1>2. CacheInv'
  BY DEF GateInv, CacheInv, Goes, NoDocument
<1> QED
  BY <1>1, <1>2, GoesKeeps

\* The same, when the copy is what the request was served.
LEMMA KeepsKeeps ==
  ASSUME GateInv, NEW r \in Request, NEW job \in GateJobs, Goes(r, job), JobFits(job), Keeps(r)
  PROVE  GateInv'
<1>1. req[r] \in Lookups /\ FetchFits(req[r]) /\ Fetching(req[r])
  BY JobKinds DEF Keeps, At, Fetching, GateInv, GateTypeOK, GateJobs, JobFits
<1>2. cache' \in Documents
  BY <1>1, JobParts DEF Keeps, Documents, GateInv, GateTypeOK
<1>3. CacheInv'
  <2> USE TimesAreIntegers
  <2>1. \A k \in req[r].document : lastSeen[k] >= now - MaxFetch
    BY <1>1, JobParts DEF FetchFits, GateInv
  <2>2. cache'.keys = req[r].document /\ cache'.fetchedAt = now
    BY DEF Keeps
  <2> QED
    BY <2>1, <2>2 DEF CacheInv, Goes, GateInv
<1> QED
  BY <1>2, <1>3, GoesKeeps

\* What a job becomes is a job.
LEMMA JobsBecome ==
  ASSUME GateTypeOK, NEW job \in Lookups
  PROVE  /\ \A last \in BOOLEAN : Asks(job, last) \in Lookups
         /\ \A k \in Key : Finds(job, k) \in Lookups
         /\ Accepted(job) \in Verdicts
         /\ \A failed \in BOOLEAN : Unavailable(job, failed) \in Verdicts
         /\ Verdict("REFUSED") \in Verdicts /\ Verdict("INTERNAL_ERROR") \in Verdicts
         /\ \A kid \in Kids : Arriving(kid) \in Lookups
<1>1. \A last \in BOOLEAN : Asks(job, last) \in Lookups
  BY DEF GateTypeOK, Asks, Lookups
<1>2. \A k \in Key : Finds(job, k) \in Lookups
  BY DEF Finds, Lookups, Kids
<1>3. Accepted(job) \in Verdicts
  BY DEF Accepted, Verdict, Lookups, Verdicts
<1>4. \A failed \in BOOLEAN : Unavailable(job, failed) \in Verdicts
  <2> TAKE failed \in BOOLEAN
  <2>1. (failed \/ ~job.steady) \in BOOLEAN
    OBVIOUS
  <2> QED
    BY <2>1 DEF Unavailable, Verdict, Verdicts
<1>5. Verdict("REFUSED") \in Verdicts /\ Verdict("INTERNAL_ERROR") \in Verdicts
  BY DEF Verdict, Verdicts
<1>6. \A kid \in Kids : Arriving(kid) \in Lookups
  <2> TAKE kid \in Kids
  <2>1. (Matching(published, kid) # {}) \in BOOLEAN
    OBVIOUS
  <2> QED
    BY <2>1 DEF Arriving, Lookups, GateTypeOK
<1> QED
  BY <1>1, <1>2, <1>3, <1>4, <1>5, <1>6

-----------------------------------------------------------------------------
(* Every step keeps the invariant                                          *)

\* A key looked up in a copy that is still trusted, or just fetched, is recent.
LEMMA CopyIsRecent ==
  ASSUME GateInv, Fresh, NEW k \in cache.keys
  PROVE  k \in Key /\ lastSeen[k] > now - Ttl - MaxFetch
<1>1. cache # NoDocument /\ now - cache.fetchedAt < Ttl
  BY DEF Fresh
<1>2. lastSeen[k] >= cache.fetchedAt - MaxFetch
  BY <1>1 DEF GateInv, CacheInv
<1>3. k \in Key
  BY <1>1, TimesAreIntegers DEF GateInv
<1> QED
  BY <1>1, <1>2, <1>3, TimesAreIntegers DEF GateInv

LEMMA ComesKeeps ==
  ASSUME GateInv, NEW r \in Request, Comes(r)
  PROVE  GateInv'
<1>1. PICK kid \in Kids :
        FindInCache(r, kid) \/ MissInCache(r, kid) \/ NoneInCache(r, kid)
  BY DEF Comes
<1> DEFINE job == Arriving(kid)
<1>2. job \in Lookups
  <2>1. (Matching(published, kid) # {}) \in BOOLEAN
    OBVIOUS
  <2> QED
    BY <2>1 DEF Arriving, Lookups, GateInv, GateTypeOK
<1>3. CASE FindInCache(r, kid)
  <2>1. PICK k \in Matching(cache.keys, kid) : Goes(r, Finds(job, k))
    BY <1>3 DEF FindInCache
  <2>2. k \in Key /\ lastSeen[k] > now - Ttl - MaxFetch
    BY <1>3, CopyIsRecent DEF FindInCache, Matching
  <2>3. Finds(job, k) \in GateJobs
    BY <1>2, <2>2, JobsBecome DEF GateJobs, GateInv
  <2>4. JobFits(Finds(job, k))
    BY <2>2 DEF JobFits, FetchFits, SteadyFits, VerdictFits, Fetching, Answered, Finds, Arriving
  <2> QED
    BY <1>3, <2>1, <2>3, <2>4, GoesKeepsCopy DEF FindInCache
<1>4. ASSUME NEW last \in BOOLEAN, Goes(r, Asks(job, last)), UNCHANGED cache PROVE GateInv'
  <2>1. Asks(job, last) \in GateJobs
    BY <1>2, JobsBecome DEF GateJobs, GateInv
  <2> DEFINE asking == Asks(job, last)
  <2>2. /\ asking.stage = "loading" /\ asking.kid = kid /\ asking.document = {}
        /\ asking.came = now /\ asking.asked = now
        /\ asking.steady = (Matching(published, kid) # {})
    BY DEF Asks, Arriving
  <2>3. now <= now /\ now <= now + MaxFetch
    BY TimesAreIntegers, TimesAreNat DEF GateInv, GateTypeOK, Moment
  <2> HIDE DEF asking
  <2>4. FetchFits(asking)
    BY <2>2, <2>3 DEF FetchFits
  <2>5. JobFits(asking)
    BY <2>2, <2>4 DEF JobFits, SteadyFits, VerdictFits, Answered
  <2> QED
    BY <1>4, <2>1, <2>5, GoesKeepsCopy DEF asking
<1>5. CASE MissInCache(r, kid)
  <2>1. Goes(r, Asks(job, TRUE)) /\ UNCHANGED cache
    BY <1>5 DEF MissInCache
  <2> QED
    BY <2>1, <1>4
<1>6. CASE NoneInCache(r, kid)
  <2>1. Goes(r, Asks(job, FALSE)) /\ UNCHANGED cache
    BY <1>6 DEF NoneInCache
  <2> QED
    BY <2>1, <1>4
<1> QED
  BY <1>1, <1>3, <1>5, <1>6

LEMMA ProceedsKeeps ==
  ASSUME GateInv, NEW r \in Request, Proceeds(r)
  PROVE  GateInv'
<1> DEFINE job == req[r]
<1>1. job \in Lookups
  BY JobKinds
  DEF Proceeds, Serve, FetchFails, Arrive, ArriveEmpty, ArriveWith, ArriveWithout,
      ArriveUnknown, Keeps, Accept, Refuse, KeyUnreadable, At, Fetching, GateInv, GateTypeOK,
      GateJobs
<1>2. JobFits(job)
  BY DEF GateInv
<1>3. CASE Serve(r)
  <2> DEFINE served == [job EXCEPT !.stage = "served", !.document = published]
  <2>1. served \in GateJobs
    BY <1>1 DEF Lookups, GateJobs, GateInv, GateTypeOK
  <2>2. \A k \in published : lastSeen[k] >= job.asked
    BY <1>1, <1>2, <1>3, JobParts, TimesAreIntegers
    DEF Serve, At, JobFits, FetchFits, Fetching, GateInv, GateTypeOK, IssuerInv
  <2>3. JobFits(served)
    BY <1>1, <1>2, <1>3, <2>2
    DEF Serve, At, Lookups, JobFits, FetchFits, SteadyFits, VerdictFits, Fetching, Answered
  <2> QED
    BY <1>3, <2>1, <2>3, GoesKeepsCopy DEF Serve
<1>4. ASSUME NEW failed \in BOOLEAN, failed \/ ~job.steady
      PROVE  Unavailable(job, failed) \in GateJobs /\ JobFits(Unavailable(job, failed))
  <2>1. Unavailable(job, failed).excused
    BY <1>4 DEF Unavailable, Verdict
  <2>2. JobFits(Unavailable(job, failed))
    BY <2>1 DEF JobFits, FetchFits, SteadyFits, VerdictFits, Fetching, Answered, Unavailable, Verdict
  <2> QED
    BY <1>1, <2>2, JobsBecome DEF GateJobs, GateInv
<1>5. CASE FetchFails(r) \/ ArriveEmpty(r)
  BY <1>4, <1>5, GoesKeepsCopy DEF FetchFails, ArriveEmpty
<1>6. CASE ArriveWith(r)
  <2>1. PICK k \in Matching(job.document, job.kid) : Goes(r, Finds(job, k))
    BY <1>6 DEF ArriveWith
  <2>2. k \in Key /\ lastSeen[k] >= job.asked /\ job.came <= job.asked
    BY <1>1, <1>2, <1>6, JobParts
    DEF ArriveWith, Keeps, At, Matching, JobFits, FetchFits, Fetching
  <2>3. lastSeen[k] > job.came - Ttl - MaxFetch
    BY <1>1, <2>2, JobParts, TimesAreIntegers DEF GateInv
  <2>4. Finds(job, k) \in GateJobs
    BY <1>1, <2>2, JobsBecome DEF GateJobs, GateInv
  <2>5. JobFits(Finds(job, k))
    BY <1>1, <2>2, <2>3
    DEF Lookups, JobFits, FetchFits, SteadyFits, VerdictFits, Fetching, Answered, Finds
  <2> QED
    BY <1>6, <2>1, <2>4, <2>5, KeepsKeeps DEF ArriveWith
<1>7. ASSUME At(r, "served"), Matching(job.document, job.kid) = {}
      PROVE  ~job.steady
  BY <1>2, <1>7 DEF At, JobFits, SteadyFits
<1>8. CASE ArriveWithout(r)
  <2>1. ~job.steady
    BY <1>7, <1>8 DEF ArriveWithout, Keeps
  <2>2. job.came <= now
    BY <1>1, <1>2, <1>8, JobParts, TimesAreIntegers
    DEF ArriveWithout, Keeps, At, JobFits, FetchFits, Fetching, GateInv
  <2>3. JobFits(Asks(job, TRUE))
    BY <1>1, <2>1, <2>2, TimesAreIntegers
    DEF Lookups, JobFits, FetchFits, SteadyFits, VerdictFits, Fetching, Answered, Asks, GateInv
  <2>4. Asks(job, TRUE) \in GateJobs
    BY <1>1, JobsBecome DEF GateJobs, GateInv
  <2> QED
    BY <1>8, <2>3, <2>4, KeepsKeeps DEF ArriveWithout
<1>9. CASE ArriveUnknown(r)
  <2>1. ~job.steady
    BY <1>7, <1>9 DEF ArriveUnknown, Keeps
  <2> QED
    BY <1>4, <1>9, <2>1, KeepsKeeps DEF ArriveUnknown
<1>10. CASE Accept(r)
  <2>1. JobFits(Accepted(job))
    BY <1>2, <1>10
    DEF Accept, At, JobFits, FetchFits, SteadyFits, VerdictFits, Fetching, Answered, Accepted, Verdict
  <2> QED
    BY <1>1, <1>10, <2>1, JobsBecome, GoesKeepsCopy DEF Accept, GateJobs, GateInv
<1>11. CASE Refuse(r)
  <2>1. JobFits(Verdict("REFUSED"))
    BY DEF JobFits, FetchFits, SteadyFits, VerdictFits, Fetching, Answered, Verdict
  <2> QED
    BY <1>1, <1>11, <2>1, JobsBecome, GoesKeepsCopy DEF Refuse, GateJobs, GateInv
<1>12. CASE KeyUnreadable(r)
  <2>1. JobFits(Verdict("INTERNAL_ERROR"))
    BY DEF JobFits, FetchFits, SteadyFits, VerdictFits, Fetching, Answered, Verdict
  <2> QED
    BY <1>1, <1>12, <2>1, JobsBecome, GoesKeepsCopy DEF KeyUnreadable, GateJobs, GateInv
<1> QED
  BY <1>3, <1>5, <1>6, <1>8, <1>9, <1>10, <1>11, <1>12 DEF Proceeds, Arrive

LEMMA LeaveKeeps ==
  ASSUME GateInv, NEW r \in Request, Leave(r)
  PROVE  GateInv'
<1>1. JobFits(NoRequest)
  BY DEF JobFits, FetchFits, SteadyFits, VerdictFits, Fetching, Answered, NoRequest
<1> QED
  BY <1>1, GoesKeepsCopy DEF Leave, GateJobs

LEMMA RotateKeeps ==
  ASSUME GateInv, NEW keys \in SUBSET Key, Rotate(keys)
  PROVE  GateInv'
<1> USE TimesAreIntegers DEF GateInv
<1>1. IssuerInv'
  BY DEF GateTypeOK, IssuerInv, Rotate
<1>2. \A k \in Key : lastSeen'[k] >= lastSeen[k]
  BY DEF GateTypeOK, IssuerInv, Rotate
<1>3. \A k \in Key : lastSeen'[k] \in Int
  BY DEF GateTypeOK, Rotate
<1>4. CacheInv'
  BY <1>2, <1>3 DEF GateTypeOK, CacheInv, Rotate
<1>5. ASSUME NEW r \in Request PROVE req'[r] \in GateJobs /\ JobFits(req[r])'
  <2>1. CASE ~Fetching(req[r])
    <3>1. req'[r] = req[r] /\ req[r] \in GateJobs /\ JobFits(req[r])
      BY <2>1 DEF Rotate, GateTypeOK, GateJobs
    <3>2. req[r].stage = "found" \/ Answered(req[r], "ACCEPTED") => req[r].came \in Int
      BY <3>1, JobKinds, TimesAreNat DEF Lookups, Verdicts, Answered, Moment, NoMoment
    <3> QED
      BY <2>1, <3>1, <3>2, <1>2, <1>3
      DEF JobFits, FetchFits, SteadyFits, VerdictFits, Fetching, Answered
  <2>2. CASE Fetching(req[r])
    <3>1. req[r] \in Lookups /\ JobFits(req[r])
      BY <2>2, JobKinds DEF GateTypeOK, GateJobs
    <3> DEFINE still == req[r].steady /\ Matching(keys, req[r].kid) # {}
    <3>2. req'[r] = [req[r] EXCEPT !.steady = still]
      BY <2>2 DEF Rotate
    <3>3. still \in BOOLEAN
      OBVIOUS
    <3>4. req'[r] \in Lookups
      BY <3>1, <3>2, <3>3 DEF Lookups
    <3>5. FetchFits(req[r])'
      BY <1>2, <1>3, <2>2, <3>1, <3>2, JobParts DEF Lookups, JobFits, FetchFits, Fetching, Rotate
    <3>6. SteadyFits(req[r])'
      BY <2>2, <3>1, <3>2 DEF Lookups, JobFits, SteadyFits, Fetching, Rotate, Matching
    <3>7. VerdictFits(req[r])'
      BY <2>2, <3>1, <3>2 DEF Lookups, VerdictFits, Fetching, Answered
    <3> QED
      BY <3>4, <3>5, <3>6, <3>7 DEF JobFits, GateJobs
  <2> QED
    BY <2>1, <2>2
<1>6. GateTypeOK'
  <2>1. req' \in [Request -> GateJobs]
    BY <1>5 DEF Rotate
  <2> QED
    BY <2>1 DEF GateTypeOK, Rotate, GateJobs
<1> QED
  BY <1>1, <1>4, <1>5, <1>6

LEMMA TickKeeps ==
  ASSUME GateInv, TimePasses
  PROVE  GateInv'
<1> USE TimesAreIntegers DEF GateInv
<1>1. \A k \in Key : lastSeen'[k] >= lastSeen[k] /\ lastSeen'[k] \in Int
  BY DEF GateTypeOK, IssuerInv, TimePasses
<1>2. GateTypeOK'
  BY TimesAreNat DEF GateTypeOK, TimePasses, Moment, NoMoment
<1>3. IssuerInv'
  BY DEF GateTypeOK, IssuerInv, TimePasses
<1>4. CacheInv'
  BY <1>1 DEF GateTypeOK, CacheInv, TimePasses
<1>5. ASSUME NEW r \in Request PROVE JobFits(req[r])'
  <2>1. req'[r] = req[r] /\ req[r] \in GateJobs /\ JobFits(req[r])
    BY DEF TimePasses, GateTypeOK, GateJobs
  <2>2. FetchFits(req[r])'
    BY <1>1, <2>1, JobKinds, JobParts DEF JobFits, FetchFits, Fetching, TimePasses
  <2>3. SteadyFits(req[r])'
    BY <2>1 DEF JobFits, SteadyFits, TimePasses, Matching
  <2>4. req[r].stage = "found" \/ Answered(req[r], "ACCEPTED") => req[r].came \in Int
    BY <2>1, JobKinds, TimesAreNat DEF Lookups, Verdicts, Answered, Moment, NoMoment
  <2>5. VerdictFits(req[r])'
    BY <1>1, <2>1, <2>4 DEF JobFits, VerdictFits, Answered
  <2> QED
    BY <2>2, <2>3, <2>5 DEF JobFits
<1> QED
  BY <1>2, <1>3, <1>4, <1>5

LEMMA GateNextInv == GateInv /\ [GateNext]_gateVars => GateInv'
<1> SUFFICES ASSUME GateInv, [GateNext]_gateVars PROVE GateInv'
  OBVIOUS
<1>1. CASE UNCHANGED gateVars
  BY <1>1
  DEF gateVars, GateInv, GateTypeOK, IssuerInv, CacheInv, JobFits, FetchFits, SteadyFits, VerdictFits,
      Fetching, Answered, Matching
<1>2. CASE GateNext
  BY <1>2, ComesKeeps, ProceedsKeeps, LeaveKeeps, RotateKeeps, TickKeeps DEF GateNext
<1> QED
  BY <1>1, <1>2

-----------------------------------------------------------------------------
(* Theorems                                                                *)

\* The inductive invariant holds, for any number of requests and keys and any
\* lifetime of a copy and length of a fetch; with it, the types.
THEOREM GateInvariantHolds == GateSpec => []GateInv
BY GateInitInv, GateNextInv, PTL DEF GateSpec

\* A request is accepted only under a key the issuer published less than Ttl and
\* one fetch before it came.
THEOREM WithdrawnKeyDiesHolds == GateSpec => []WithdrawnKeyDies
<1>1. GateInv => WithdrawnKeyDies
  BY DEF GateInv, JobFits, VerdictFits, WithdrawnKeyDies
<1> QED
  BY <1>1, GateInvariantHolds, PTL

\* No request is told that the key set is unavailable without a cause.
THEOREM UnavailableForCauseHolds == GateSpec => []UnavailableForCause
<1>1. GateInv => UnavailableForCause
  BY DEF GateInv, JobFits, VerdictFits, UnavailableForCause
<1> QED
  BY <1>1, GateInvariantHolds, PTL

=============================================================================
