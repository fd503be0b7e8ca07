# A formal model of VanishGraph

VanishGraph (`src/vanishgraph`) is a multi-tenant service that asks data sources to remove records about a person
and says, with evidence, whether they did. It is a TypeScript server (Fastify, PostgreSQL with row-level security,
Valkey) whose rule is that a *truth state* is never shown before it is earned. This directory holds TLA+ modules
that model its core, the TLC configurations that check them and the proofs that TLAPS checks.

1. [The system](#1-the-system) - 2. [Modules and the code](#2-modules-and-the-code) - 3. [Runs](#3-runs) -
4. [Bounds, symmetry, deadlock](#4-bounds-symmetry-deadlock) - 5. [Fairness](#5-fairness) -
6. [Proofs](#6-proofs) - 7. [Disagreements](#7-disagreements-between-code-and-text) -
8. [What is left out](#8-what-is-left-out) - 9. [Plan](#9-plan)

How to run: `tlc -config CaseLifecycle.cfg MCCaseLifecycle.tla` (the module of each configuration is in section 3),
`tlapm CaseProofs.tla`.

## 1. The system

A write comes in as an HTTP request. Plugins establish identity, tenancy, scope, step-up and rate limits; the
idempotency plugin claims the request's `Idempotency-Key`; the route handler opens one tenant transaction (READ
COMMITTED, `SET LOCAL app.tenant_id`, row-level security); a persistence adapter reads rows, builds a domain command,
lets it decide against the closed transition table, writes the row and one audit row, and commits. A refusal throws
inside the transaction, so it leaves nothing. Providers answer through webhooks, which pass a replay store instead of
the idempotency plugin and run the same adapters, and on which a refusal is *returned*, so that what was written
before it is committed.

Several server processes may serve one database, one Valkey and one replay log; nothing in the code elects a leader.

| Component | State it keeps | Operations | What must be true of it | Where it is hard |
| --- | --- | --- | --- | --- |
| Idempotency protocol (`http/plugins/idempotency.ts`, `adapters/idempotency`) | row of `http_idempotency` per tenant, method, template, key | begin, complete, abandon; hooks and `withIdempotency` | one holder of a key; one effect per key; honest replay and conflict; a refused request can be retried | two statements per `begin`, retries, crash between claim and completion, lost COMMIT acknowledgement |
| Truth-state machine (`domain/truth-state.ts`, `state-machine.ts`) | constant table T1-T21 | find, guard, apply | closed; forbidden pairs absent | - |
| Domain commands (`domain/commands.ts`) | none | one per operation | decide from facts, never from the caller's wish | facts read in other statements |
| Case and exposure lifecycle (`adapters/persistence/cases.ts`, `exposures.ts`, `actions.ts`, `observations.ts`, `controller-responses.ts`) | `exposure`, `request_case`, `policy_decision.case_id`, `external_action`, observations, responses | assess, disprove, create, update, gate, reconcile, respond, verify, reappear | one live case per exposure; removal earned; moves on the table; decision used once | plain SELECT then UPDATE by key in transactions that overlap |
| Audit spine (`audit-sink.ts`, `audit-queries.ts`) | append-only audit rows | append, read | names the transition that took place | written with the state, by another statement |
| Tenant transactions (`postgres-runner.ts`) | connection | BEGIN, COMMIT, ROLLBACK | all or nothing | COMMIT acknowledged or not |
| Webhook ingress (`http/routes/webhook-ingress.ts`, `http/webhooks`) | - | verify, claim, dispatch, record | one effect per delivery; an honest answer to a redelivery | claim before work, several transactions |
| Replay store (`adapters/coordination/replay-store.ts`) | log and lock file, or Valkey keys | begin, complete | claim is one step; survives crashes | two processes, torn lines, stale locks, expiry |
| Rate limits and effect budget | in-process buckets; counts of actions | take, count | limit per tenant | replicas, count before act |
| Sources and recipes (`adapters/persistence/sources.ts`, `http/routes/sources.ts`) | `source`, `removal_recipe` | declare, set permission, create, enable | a recipe is on only where writes are permitted; versions without gap; no lost update | two rows locked one after the other, in both orders |
| Authority grants (`authority-repository.ts`, `http/routes/subjects.ts`) | `authority_grant` | mint, revoke, contest, act under | nobody acts under a grant that was revoked or contested; the first instant stands | two paths to one row that do not know each other; the instant is that of the transaction's begin |
| Subjects (`subject-commands.ts`) | `protected_subject` | create, patch, enter the strict lane | no lost patch; the lane is entered by a subject without a case in flight | If-Match in whole milliseconds; the count of cases takes no lock |
| Policies (`policies.ts`), coverage, discovery | `policy_decision`, reports | resolve | a decision names the version it was taken under | a case gets more decisions than it was created with |
| Deadlines and appeals (`deadlines.ts`, `appeals.ts`) | `deadline`, `appeal_escalation` | record, satisfy, escalate | who met a deadline stands; no escalation after a window closed | clock against request; statements that see different moments |
| Evidence and keys | encrypted artifacts, data keys | read, shred | unreadable after shredding | retention against use |
| Job queue | `job` rows | enqueue, cancel | with the caller's transaction | no worker exists yet |
| Identity (`adapters/oidc`), step-up | copy of the issuer's key set | look up, fetch, verify | a withdrawn key dies; a good token is not turned away | fetches that overlap and arrive out of order |
| Support access | session values | enter, exit | expires, exits | old values can be presented |
| Authorisation tables, egress gate, SSRF guard, agent tools | constants | lookups, filters | deny by default | data, not state |
| Telemetry and probes | counters, cached probes | observe | never change a result | caching of a failure |
| Cursor pagination and filters (`http/pagination`, `http/query`) | signed cursor, held by the client | page | every row once; the cursor continues its own query | rows and clock move between pages; microseconds in the table, milliseconds in the cursor |
| Migration (`infrastructure/database/migrate.ts`), provisioning | `schema_migration` | up, verify | recorded is applied, in order | two runners with different directories; apply and record are two processes |
| Web console (`ui/`) | page state | API client | - | - |

Every component has an entry in `PROJECT.json`; the hazards there are at the lines where they bite, with the property
that would catch each, or the part of the plan it waits for.

How the modelled ones interact: a route's handler runs *inside* the idempotency protocol (`WorkCommits`, `WorkThrows`
of `HttpIdempotency` stand for any handler of `CaseLifecycle`), a controller webhook runs `recordControllerResponse`
(`CommitRespond`, `CommitResponseRefused`) as the dispatch of `WebhookIngress`, and all of them use the tenant
transaction. `AuthorityGrants` and `SourceRecipes` own the rows whose lapse `CaseLifecycle` takes as the environment's
`Lapse`. The compositions are kept apart because each protocol needs only "the work commits, or not" of what it
wraps.

## 2. Modules and the code

```
TruthStateMachine   domain/truth-state.ts, domain/state-machine.ts        pure operators
  DomainCommands    domain/commands.ts                                   pure operators
    CaseLifecycle   the five adapters over exposures and cases           state machine
      MCCaseLifecycle        symmetry sets for TLC
      CaseProofs             theorems, those of CaseDeadlines too
HttpIdempotency     plugin, store, runner                                state machine
  OncePerKey        what a client is promised                            abstract specification
  HttpIdempotencyProofs      theorems, refinement included
WebhookIngress      the pipeline around a replay store                   actions
  FileReplayStore   log and lock file                                    actions
  ValkeyReplayStore coordination store                                   actions
    WebhookReplay   the ingress with one of the two bindings             state machine
      ClaimPerKey            one key claimed in one step              abstract specification
      WebhookReplayProofs    theorems, refinement included
SourceRecipes       sources and recipes under row locks                  state machine
  SourceRecipesProofs        theorems
CollectionWalk      a client pages through a list that changes           state machine
  CollectionWalkProofs       theorems
AuthorityGrants     grants minted, revoked, contested, acted under       state machine
  AuthorityPromise  what a subject is promised                           abstract specification
  AccessProofs      theorems, refinement included, those of TokenGate too
SubjectRows         subjects created and patched, the strict lane        state machine
  SubjectRowsProofs          theorems
MigrationRunner     processes that go up and verify                      state machine
  MigrationRunnerProofs      theorems
TokenGate           the key of a bearer token, and the copy of the keys  state machine
CaseDeadlines       deadlines, escalations and decisions of a case       state machine
  MCCaseDeadlines            symmetry sets for TLC
```

**HttpIdempotency.** `row` is the table, one row per key of one scope (tenant, method, template). `pc` is where a
request attempt is: `begin` and `read` are the two transactions of `store.begin` in `preValidation`; `handler` is
everything that may refuse before `withIdempotency`; `replayBegin`, `replayRead` the second `begin` that
`withIdempotency` makes when it was not the claimer; `work` the tenant transaction; `abandon`, `complete` the last
statement. `executed` and `unacked` are the truth about transactions, which no variable of the server holds. The `|`
that `read` joins and splits columns with is modelled by what it does (`FingerprintRead`), not as the identity.
Faults are a crash anywhere, a statement that fails with or without effect, and a COMMIT that took effect unacknowledged.

**CaseLifecycle.** Every handler is `Begin..` (the SELECT of its row and the early returns it decides) and `Commit..`
(command, writes, audit row, COMMIT). READ COMMITTED without row locks lets anything happen between, and the UPDATE
by primary key waits for no one who has committed. Paperwork (grant, policy version, recipe, freshness, signature,
source permission) is read in statements of its own: `found` is any set between what had lapsed at `Begin` and at
`Commit`. `trail` keeps the audited transitions that something later looks for, or that a property is about; `newest`
the code of the last one. `boundTo` is `policy_decision.case_id`; `decisionOf` the other side. The partial unique
index `request_case_live_uniq` is `IndexAdmits`. `RollBack` is a refusal, an error or a crash. `ActionAttempted` and
`ExposureSettled` are external: no code in this tree inserts `external_action` rows or moves an exposure to
VERIFIED_REMOVED, yet handlers read both.

**WebhookReplay.** `FileReplayStore` takes every file-system call as a step: `open` with `wx`, `stat`, `unlink`, the
read of the log, each of two appended lines, the release. A crash leaves the lock file and possibly a torn line, which
takes the next line with it. `raced` is a history variable: a process about to unlink a stale lock unlinked another's
new one. `ValkeyReplayStore` takes every command as a step. `HourPasses` expires all records at once while no delivery
is at work: a delivery takes seconds, a record lives an hour, so a record that expires under a delivery at work is
left out. `main.ts` wires the file binding, whose secret resolver always refuses in this tree; the model is of the
store for any resolver. `ClaimPerKey` is what either binding keeps of its port, which is less than the port says: *one* key is
claimed in one step and by one delivery, who has a claim acts once, what is kept and told is of one who acted. `PerKey` maps
the ingress to it: the key is the event id with the log and the nonce with the coordination store, a claim is made when its
line or its command takes effect and held until the dispatch is over, and `raced` ends the promise. The port's own sentence,
nonce and event id together, is `ClaimedTogether`, which the coordination store does not keep (section 7).

**SourceRecipes.** `source` and `recipe` are the two tables, `lock` says which transaction holds a row, `work` where a
request is. A request starts from a row its caller has read (`seen`, whose version is the If-Match), and from then on
every statement that takes a lock is a step: `LockForPermission`, one `LockRecipeToDisable` per recipe that the
auto-disable writes, `DrawVersion`, `LockRecipe` and `LockItsSource` (the two halves of `FOR UPDATE OF r, s`). What a
transaction writes becomes visible in its `Commit..` or `InsertRecipe`, after which it holds nothing. Plain reads are
judged at the step that has the lock, because PostgreSQL reads a row again after it waited for it. Time has no clock:
`WindowCloses` and `BecomesUnfit` may come between any two steps. `GiveUp` is a wait that the deadlock detector or
the `statement_timeout` ends; `Fails` is the roll-back for any other error, at any step.

**CollectionWalk.** `route` is the list of a behaviour, `row` its committed rows with the instants they are sorted and
filtered by, `walk` the client: its query, the window of its first page, the cursor it was given and how often it has
`seen` each row. A page is one statement. What decides is kept: which column a list is ordered by, which value the
keyset predicate compares, which is put into the cursor, and whether each is truncated to milliseconds (`Micros`
instants make one). A cursor is the payload that the server signed and checks (`Payload`, `Accepted`), not its bytes. A
row becomes visible up to `Lag` after the instant it carries, as one does whose transaction runs a while.

**AuthorityGrants.** `grant` is the table; `work` where each transaction is: `begun`, or `held` once it has the row by
`SELECT .. FOR UPDATE` or by an UPDATE on condition. A transaction judges expiry by, and writes, the instant at which
it began (`now`), which may be long past when it gets the lock. The route's revocation and the store's are one action:
both lock the row, find it unrevoked, write. `AuthorityPromise` has one variable per grant, its standing, and one per
worker, what it acts under; the instants are gone.

**SubjectRows.** `subject` is what a patch may write and `updated_at` in milliseconds; `work` follows a patch from the
read its caller made (`sent`) through its transaction: `begun`, `held` with the lock and the versions compared,
`checked` when the cases in flight have been counted. Cases are submitted and settled by the environment, which does not
care for the lock. `again` (the milliseconds in which a row was written twice) and `idle` (no case was in flight at some
moment of this request) are history variables, which say what the code cannot know.

**MigrationRunner.** A runner has a directory of its own, reads `schema_migration` once, and goes file by file: `PassOver`
what is recorded with its checksum, `Apply` by one psql, `Record` by the next. `Stop` is its end at a drifted checksum, at
a psql that fails, or by a kill between any two steps. `effect` is what the database objects of a version were made by: a file that creates what
exists fails, unless its version is `Repeatable`. A file whose content is in `Piecemeal` begins with `-- vg:no-transaction` and
is not run by `psql -1`: `ApplyPart` is its psql failing or dying on the way, which leaves `Half` of it.

**TokenGate.** `cache` is the copy of the key set and the instant it arrived; `req` a request from its look into the copy
through up to two fetches (the issuer serves at one moment, the answer arrives at another) to its verdict. `published` is
the issuer's document, which `Rotate` changes at will. `lastSeen`, `steady` and `excused` are history: when a key was last
published, and whether a request that was told "unavailable" had a reason to be. Whether the signature and the claims
hold is data: `Accept` or `Refuse`. A key that cannot be read throws out of the verification and is a 500 (`KeyUnreadable`).

**CaseDeadlines.** One case. `decisions` maps the decisions of the case to policy versions; `Own` is the one it was created
with, and `CommitResolve` adds others. A deadline is recorded in two statements (the version is read, the row is
written), satisfied in two (the lock, the update), an escalation made in two (the windows are looked at, the row is
written) and judged by the instant its transaction began. That an acknowledgement of COMMIT may be lost is modelled where
it matters, at the satisfaction. A caller learns the version of a deadline from the list (`ListDeadlines`), through which a
creation reads its own row back too (`CommitDate`); the list takes the decisions of the case (`ListedVersions`), in any order.
The server and the database are taken to have one clock.

Operators whose comment starts with `Defect:` are not part of any specification. Each is a plausible mistake in the
operator it sits above; replacing that operator by it must make the property named in `PROJECT.json` fail.

## 3. Runs

| Run | Module, configuration | Distinct states | Shows |
| --- | --- | --- | --- |
| `http_idempotency` | `HttpIdempotency`, `HttpIdempotency.cfg` | 51,120 | Under crashes, failing statements and lost acknowledgements: one holder (`SoleHolder`), a second effect only after a lost acknowledgement (`AtMostOneAcknowledgedEffect`), replays and conflicts are honest (`ReplayIsOriginal`, `ReuseIsConflict`), every attempt is answered (`EveryAttemptEnds`), and all of it implements `OncePerKey` (`ImplementsOncePerKey`) |
| `case_lifecycle` | `MCCaseLifecycle`, `CaseLifecycle.cfg` | 1,004,382 | What survives overlap, and a permission withdrawn between a handler's reads and its COMMIT: `AtMostOneLiveCase` (the index, even when a late writer reopens a settled case), `RemovalIsEarned`, `CaseStateIsAudited`, `NotRemovableIsJustified` |
| `case_lifecycle_serial` | `CaseLifecycle`, `CaseLifecycleSerial.cfg` | 427,092 | What holds one handler at a time: `CasesFollowTable`, `AuditNamesStateLeft`, `DecisionAuthorisesOneCase`, `EffectSettledOnce` |
| `webhook_replay` | `WebhookReplay`, `WebhookReplay.cfg` | 341,170 | One process is in the log's critical section until a new lock is broken (`LockIsExclusive`); `AtMostOneEffect`, `ReplayIsOriginal`, `ResponseStands`, `EveryDeliveryEnds`, for both bindings; and the one key each binding guards is claimed in one step (`ImplementsClaimPerKey`) |
| `source_recipes` | `SourceRecipes`, `SourceRecipes.cfg` | 289,043 | Lock by lock: `EnabledIsPermitted`, `CreatesSerialise`, `NoLostUpdate`, `OperatorReasonStands`, and an answer for every request although two may deadlock (`EveryRequestEnds`) |
| `collection_walk` | `CollectionWalk`, `CollectionWalk.cfg` | 321,265 | A walk returns every row it began with once unless it was changed on the way (`WalkIsComplete`), is never refused its next page (`ContinuationIsAccepted`), and a cursor continues only its own query (`CursorIsBound`) |
| `authority_grants` | `AuthorityGrants`, `AuthorityGrants.cfg` | 317,727 | The first revocation and the first contest stand (`FirstInstantStands`), and the transactions implement `AuthorityPromise`: no act begins after a revocation or a contest or is overtaken by one (`ImplementsPromise`) |
| `subject_rows` | `SubjectRows`, `SubjectRows.cfg` | 1,169,678 | A patch overwrites only what its caller saw, or a row written twice in that millisecond (`NoLostPatch`); the strict lane is entered only by a request that saw an idle moment (`LaneEnteredIdle`) |
| `migration_runner` | `MigrationRunner`, `MigrationRunner.cfg` | 377,512 | `RecordedIsApplied`, `AppliedInOrder`, and what an answer of ok means (`OkIsTrue`): after `up`, every file asked for is applied and recorded; after `verify`, every version found recorded has its file and was applied from it. Two runners of different directories that stop anywhere, also within a file |
| `token_gate` | `TokenGate`, `TokenGate.cfg` | 445,799 | How long a withdrawn key is still taken: the copy's age and one fetch (`WithdrawnKeyDies`); a token of a key the issuer had all the time is not turned away while documents can be had (`UnavailableForCause`); every request is answered (`EveryRequestIsAnswered`) |
| `case_deadlines` | `MCCaseDeadlines`, `CaseDeadlines.cfg` | 553,368 | Who met a deadline stands (`SatisfactionStands`); no escalation says it was made after a window that was on file had closed (`EscalationsInTime`) |
| `lost_update` | `CaseLifecycle`, `CaseLifecycleLostUpdate.cfg` | violation | `CasesFollowTable` with two handlers |

`case_lifecycle`, `case_lifecycle_serial` and `lost_update` belong together: the four properties of the serial run hold
only without overlap, and the third run shows what overlap does to the first of them; section 7 says how to see what it does to
the others.

## 4. Bounds, symmetry, deadlock

- `HttpIdempotency`: three attempts (a first, its retry, and one that meets what both left) on one key, two bodies so
  that reuse differs from a retry, `MaxFaults = 2` so that a fault may hit the recovery from a fault. Keys do not
  interact, so one is enough; the theorems are for any number. One target, since the target enters no decision.
- `CaseLifecycle`, concurrent: two handlers, one exposure, two cases (one settled and one live, or two that race), two
  decisions of which one exempts its case, and one action. Of the paperwork only the source's permission lapses here, the one
  that turns a request into NOT_REMOVABLE; the other kinds only refuse, and are in the serial run and the theorems. Both handlers may run any sequence of
  operations; the state graph is finite and explored in full, so long histories are covered.
- `CaseLifecycle`, serial: one handler, two exposures, a decision that exempts its case, and three kinds of paperwork
  of different effect (grant: refused; signature: refused only where verified; permission: another target).
- `WebhookReplay`: three deliveries (the original, a copy or redelivery, and one that breaks or meets a lock), two
  nonces, one event, one fault. Event ids do not interact but through the lock, which the deliveries of one exercise.
- `SourceRecipes`: two handlers (a deadlock and every race of these requests take two), one source, two recipes so that
  versions have an order and a downgrade takes two locks, of which one recipe ages (`Ageing`; the other would only
  double the states). No request starts on a source beyond version `SourceMax = 2` or a recipe beyond
  `RecipeMax = 3`: enough for an enablement, a disable and an auto-disable of one row. `Class` holds the class that
  permits and one that does not; the others differ in the reason they leave.
- `CollectionWalk`: the list of cases, of subjects and the audit stream stand for their kinds (truncated order and
  comparison with a window; truncated without one; stored values with a window that must be named). Three rows, so that
  two share a millisecond and a third lies on the other side of a page; pages of one and of two rows; two instants in a
  millisecond; two scopes for a cursor that is presented elsewhere. `MaxClock = 4` gives three milliseconds, past the
  default window (`Span = 1`); `MaxWrites = 4` allows three rows and a change.
- `AuthorityGrants`: three requests (an act, and the two that would overtake it, or two of a kind and an act), one grant
  since grants do not meet, three instants: one before, at and after an expiry.
- `SubjectRows`: three requests (two patches of one version, and one that makes it again in the same millisecond), one
  subject, one case in flight or none, two milliseconds, since two writes either share one or do not.
- `MigrationRunner`: two runners and two versions, of which one is repeatable, and two contents, of which one is piecemeal, so
  that directories differ, drift and have gaps in every way.
- `TokenGate`: two requests whose fetches cross, two keys that are rotated into each other, `Ttl = MaxFetch = 1` and
  three instants: a copy expires, and a document served before a rotation arrives after it and outlives it.
- `CaseDeadlines`: two requests, two deadlines (windows or not), one escalation, the case's decision and another, two
  versions, three instants: before, at and after a window's end.

`MaxFaults`, `MaxTime`, `LastMoment`, `MaxClock`, `MaxWrites`, `SourceMax` and `RecipeMax` cap what exists only in the models or would
grow without end; the theorems hold for any value of them. Symmetry is used in `MCCaseLifecycle` and
`MCCaseDeadlines`: the things permuted are interchangeable there because no definition or value singles one out
(decisions are not: one is in `Unremovable`, one is `Own`), and these runs check invariants only. Deadlock is checked
where the system always has a next step (`case_lifecycle`: a handler can always begin and roll back) and not where a
finite set of attempts, deliveries, rows or instants comes to its end. In `case_lifecycle_serial` the check is off because
a tenant whose rows are all settled may have nothing left to ask.

## 5. Fairness

`EveryAttemptEnds` and `EveryDeliveryEnds` assume weak fairness of what the server does for each attempt
(`WF_vars(Step(a))`) and of nothing in the environment. The code justifies it: Node's event loop serves every
continuation; every await of these paths is bounded (pool, connection and `statement_timeout` of `postgres-runner.ts`,
the spawn timeout of the psql client); the file store's calls are synchronous. What the properties say beyond that is
that no path waits for *another* attempt: a key in flight is answered 409 and a held lock 503 rather than waited for,
so the death of a holder blocks nobody. Arrivals, faults and the passing of time get no fairness.

`EveryRequestEnds` assumes weak fairness of each handler's progress (`WF_vars(Progress(w))`), which has `GiveUp` among
its steps: a wait for a lock is one statement, and every transaction sets `statement_timeout`. The property then says
that no sequence of refusals, waits and roll-backs keeps a request at work: a handler gives up at most once. `Fails` is no part of the fairness.

`EveryRequestIsAnswered` assumes weak fairness of each request's progress at the gate (`WF_vars(Proceeds(r))`): the network
answers or fails in the end (the fetch runs under the runtime's own limits, which `MaxFetch` names, and an aborted fetch
is `FetchFails`), and the process runs what has come. The issuer may rotate for ever. The property says that no sequence of
rotations, of other requests' documents and of misses sends a request to fetch again and again.

## 6. Proofs

All theorems hold for every value of the constants that satisfies the modules' named assumptions: `None` (`NoKey`, `Nothing`) is no
attempt, key, body, target, row, decision, grant or content, and a half-applied file (`Half`) is no content; cases and exposures are different things, as are decisions and
actions; bounds and instants are natural numbers.

*HttpIdempotencyProofs.* `IInv` strengthens the properties by three facts: what an attempt's place says of its own
request (`PlacesInv`), that a holder owns an in-flight row and that an attempt sent to replay finds a completed one
(`HolderInv`), and that a row is its owner's and every acknowledged effect still has its row (`RowInv`). The last one
is the heart: a second effect needs a free key, a key is freed only by an attempt that is not known to have committed.
The initial states satisfy it, each of the shared statements (`Insert`, `Delete`, `Update`, the commit) has a lemma, and
`NextInv` goes through the actions. `ReplayIsOriginal` and `ReuseIsConflict` are conjuncts of `IInv`.
`CompletedIsFinal`, that a completed row is never released or reassigned, is proved from it too.
`Implementation` maps each step to a step or stutter of `OncePerKey`: commits to `Perform`, answers to `Report` or
`Refuse`.

*CaseProofs*, of CaseLifecycle. An invariant about stale reads cannot say that what a handler read is still so. It says
instead what must once have happened before a row could be read in that state (`Reached`): history only grows
(`Grows`), so a stale read stays justified. Every action is then a write of one exposure, of one case or of none, each
with its lemma. From `IInv` follow `AtMostOneLiveCase`, `RemovalIsEarned`, `CaseStateIsAudited` and
`NotRemovableIsJustified` with any number of handlers. `SerialCasesFollowTable` and `SerialAuditNamesStateLeft` assume
one worker: then what a handler read is fresh (`ReadIsFresh`), so its move is one of the table. With the
violation of `lost_update` this says that overlap is the whole cause. `SerialDecisionAuthorisesOneCase` and
`SerialEffectSettledOnce` assume one worker too, and need that the decision a create names is still nobody's and the action
of a reconciliation still ambiguous (`OtherIsFresh`), and that a decision names the case that names it (`BoundInv`).

*SourceRecipesProofs.* `IInv` says of each job what the locks it holds guarantee (`PermissionInv`, `CreateInv`,
`EnablementInv`), and of what its caller read that it is not ahead of the row and equals it while the version does
(`SeenInv`): that is what makes If-Match sound, and it needs every write to raise the version. Steps that write no
row share one lemma (`KeepsRows`); for the four that do, each other worker either does not hold the row or the row is
not the one written. The next version is computed from the number of recipes, because `VersionsAreConsecutive` is part
of the invariant, so no fact about maxima of arbitrary sets is needed. `Recipe` is assumed finite; `Worker` and
`Source` are arbitrary. From `IInv` follow the three state properties, `NoLostUpdate` and `OperatorReasonStands`.

*CollectionWalkProofs.* Where a list's order, comparison and cursor go by one value of a row, the cursor cuts the rows the
walk began with: those before it were returned once, those after it not at all, and a page moves the cut by the rows it
returns. The invariant says this of every row that nothing touched, and that the window of the continuation is that of
the first page (`Fits`), wherever the clock has gone. `WalkCompletes` assumes that the lists considered are `Sound`: it
leaves out the two lists under a case and the cases by creation, whose cursor names another value than their order;
`ContinuationAccepted` and `CursorBound` hold for all. Rows, page sizes, windows and the resolution of the clock are
arbitrary.

*AccessProofs*, of AuthorityGrants. `HolderInv`: a grant has one holder, and a holder's grant is still as it was found. That is all the
row lock gives, and what the refinement needs: when a revocation commits, no act can be under the grant, and when an act
has its row, the grant is usable and stays so. `Implementation` maps the step that gets the lock to `Enter`, the end of the
transaction to `Leave`, the commits to `Issue`, `Suspend` and `Revoke`, and the rest to stutters.

*SubjectRowsProofs.* A patch is sound because its transaction began after what its caller saw was written (`VersionFits`), so
the instant it writes is not before the row's; because a row that no longer is what a caller saw has a later version or was
written twice in one millisecond (`SeenFits`); and because a held row has one holder. `LaneFits` carries the idle moment
from the count to the commit, which no lock does.

*MigrationRunnerProofs.* `JobInv` says of a runner's one reading that it is never wrong, only old: rows of `schema_migration`
are never changed, so what it saw recorded still is, and every file below where it stands is recorded with its checksum.
A part of a piecemeal file lands only where nothing was, and is nothing that a file of the version makes, so it is never
taken for one.

*AccessProofs*, of TokenGate. The copy was served no longer than one fetch before it arrived (`CacheInv`), which bounds a withdrawn key's
life by `Ttl + MaxFetch` in whatever order documents arrive; and what a request was served was published while it fetched
(`FetchFits`, `SteadyFits`), so a second miss means that the issuer had not the key all the time.

*WebhookReplayProofs.* `PlaceInv` says what a delivery's place says of its phase, of the request it carries and of the
binding it runs on. For the log, `LockInv` says that whoever is in the critical section owns the lock file and is alone,
unless a new lock was broken (`raced`). That makes reading the log and appending to it one step, and `LogInv` says what the
step gives: whoever is past its claim has left a record of its event, nobody else of that event is, and whoever is claiming
still finds none. A torn line is why the event's line needs a log in order: the nonce's line, written first, takes the tear. The
coordination store has no lock, and `KeysInv` says the same of nonces, since SET NX is one command. `RecordsInv` says of each
record of the log what it stands for, which is what a replay may reproduce. From `IInv` follow the state properties
and `ResponseStands`. Expiry drops all records at once and
needs that nobody is at work (`HourPasses`).
`Implementation` maps each step to a step or stutter of `ClaimPerKey`: the event's line and SET NX to `Claim`, or to
`ClaimUnheard` when their answer is lost; the dispatch to `Act` or `Lose`; the line and the SET of the response to `Keep`; the
lookups that find a record to `Tell`; expiry to `Forget`; and a broken new lock to `Break`, after which nothing is promised. That
a claim finds its key free is `LogInv` and `KeysInv`; that a kept response takes no key is that its event's claim is still there.

*CaseProofs*, of CaseDeadlines. A row that is locked has nobody's name yet and one holder (`LocksInv`); the windows a request
found on file are on file still, so an escalation that looked in time was in time (`AppealsInv`).

`CaseProofs` and `AccessProofs` extend two models each, which share no state; those of the second carry names of their own
(`DueSpec`, `GateSpec`), and no theorem of one model uses the other.

Only model-checked: the liveness properties `EveryAttemptEnds`, `EveryDeliveryEnds`, `EveryRequestEnds` and
`EveryRequestIsAnswered`, because the prover does not do fairness; and, since they hold of no more than one handler at a time,
nothing of `CasesFollowTable`, `AuditNamesStateLeft`, `DecisionAuthorisesOneCase` and `EffectSettledOnce` beyond one worker.

## 7. Disagreements between code and text

`lost_update` is a run, quoted in `PROJECT.json`: two handlers that overlap move a case along a pair that is not in the table,
which the table's comment rules out (`truth-state.ts:250-251`).

Six more sentences of the code are stated as properties and are not kept. They belong to no run that passes; with the change
named here TLC finds the counterexample at once.

| Property | Where the code says it | Where it does not hold | To see it |
| --- | --- | --- | --- |
| `DecisionAuthorisesOneCase` | a bound decision "cannot authorise a second one" (`cases.ts:714`) | two creates that overlap find one decision unbound (`cases.ts:708`), and the UPDATE that binds it names no state | `CaseLifecycleSerial.cfg` with `Worker = {w1, w2}` |
| `EffectSettledOnce` | a settled action has "nothing to reconcile" (`actions.ts:631`) | two reconciliations overlap (`actions.ts:633`): an effect that was confirmed is marked FAILED and answered as open for a new attempt | `CaseLifecycleLostUpdate.cfg` with this property |
| `ExposureStateIsAudited` | a committed state change "cannot lack" its audit row (`ports/audit-sink.ts:39-40`) | an assessment below the threshold writes back the state it read (`exposures.ts:528`) and takes back a disproof that committed meanwhile | `CaseLifecycle.cfg` with this invariant |
| `ClaimedTogether` | nonce and event id "are claimed TOGETHER" (`contracts/replay-store.ts:37-38`) | the coordination-store binding claims the nonce, and the event id after the dispatch (`replay-store.ts:231`); the log does claim both in one critical section, but may lose the nonce's line to a fault while the event's stands | `WebhookReplay.cfg` with this invariant; for the log alone it holds with `MaxFaults = 0` |
| `AppliedIsRecorded` | the row is "written in the same transaction" (`migrate.ts:10-12`) | the record is the INSERT of another psql (`migrate.ts:119`); a `verify` does not see what is missing, since it looks at recorded versions only | `MigrationRunner.cfg` with this invariant |
| `ToldItsVersion` | the version is that of "the case's own `PolicyDecision`" (`deadline-queries.ts:11-14`) | the list joins a deadline with every decision of its case (`deadlines.ts:123`): after a second resolution it is listed once for each, and a creation may be answered another version than it recorded | `CaseDeadlines.cfg` with this invariant |

The following were met while modelling and have no property of their own. The models contain the behaviour; the properties above
are stated so that they hold of it.

*Idempotency.* A request refused in its handler before `withIdempotency` keeps its key in flight (`idempotency.ts:350`), which the
port says must be released (`idempotency-store.ts:28`). A body with a `|` in it is stored, read back cut, and an honest retry
told that its key was used for another request (`postgres-store.ts:128`); `ReuseIsConflict` excuses it. A key reused with an equal body on another case is replayed from
the first.

*Cases.* A controller's refusal or demand moves a case for which nothing was submitted, because the
table has T9 and T10 (and T6, T7, T19) from those states.

*Webhooks.* A delivery refused after its claim makes the provider's redelivery a 200, though nothing was processed
(`replay-store.ts:85-87`).

*Lists.* `sort=createdAt` on cases orders by one column and puts another into the cursor (`routes/cases.ts:85-89`): with
`Routes = {"casesByCreation"}` the run fails `WalkIsComplete`. The lists of actions and mail pieces order by the stored
instant and compare it truncated (`actions.ts:197`, `:218`), and their positions bind the case alone. Subjects by
`displayRef` go through `date_trunc` on a text.

*Deadlines.* An escalation may
commit after its window closed, since its instant is that of the transaction's begin; and one window that passed closes the
case's escalations for ever.

*Keys.* An unknown `kid` is fetched for again although the document has just come (`jwks.ts:131-133`), is answered 503 where
the comment says 401 (`jwks.ts:113-115`), and an older document may replace a newer one. A key that cannot be read is to be a refusal by the
comment of `jwkToKey` (`verify.ts:101-103`), but is read outside the `try` (`verify.ts:112`) and ends in a 500.

*Migrations.* A file may ask to be run without a transaction (`migrate.ts:46`), against the head of the file (`:10`); when it fails
half applied the runner still says that it was rolled back (`migrate.ts:113`).

*Other.* The alias
check and its insert are one READ COMMITTED transaction without a lock, so two attaches that overlap can both observe one
match, which the comment rules out (`persistence/subjects.ts:375-377`). In the local key
provider a rotation after the active version was shredded counts from one again (`local-key-provider.ts:213-224`), and the
key of `hmac` follows the active version, so digests made before a rotation no longer match (`:247-258`). The pool of the idempotency store is not closed at shutdown (`main.ts`).

Hazards that the list in `PROJECT.json` does not hold, because nothing modelled meets them: overlapping requests each find
room in the effect budget (`actions.ts:524`); rate-limit buckets are per process (`rate-limit.ts:22`); an exited
support session is a value that can be presented again (`support-access-service.ts:107`); a human gate's row is lost with the
transition that is refused (`cases.ts:945`); a case's version is in whole milliseconds (`cases.ts:785`), as a subject's,
where it is modelled; the `catch` of `policies.ts:264` cannot be reached.

## 8. What is left out

- Data: names, payloads, wording, masking, hashes and signatures. A fingerprint is the body itself; a signature is in
  order or not.
- One tenant, one subject, one source: rows of different tenants do not meet (row-level security is not modelled), and
  cases of different exposures meet only through decisions.
- `executeAction`: its transport is absent in this tree, so it always refuses after its checks and writes no action.
- Catalogue entries of a source: one INSERT that nothing in the model reads. A recipe's budget and window enter its
  signature only; a source's controller is a reference.
- Human-gate rows, readbacks, mail pieces and e-mail threads of a case: they move no state.
- An update that the database serialises (two UPDATEs of one row at once): the second waits and then overwrites, which
  is what the two commits in that order do.
- `CollectionWalk`: the bytes of a cursor and its signature; filters besides the scope and the window; sorts by content hash,
  truth state and confidence; the lists of sources (by name, or by a freshness a caller gave) and of coverage and candidate
  records, whose rows nothing in this tree writes.
- `AuthorityGrants`, `SubjectRows`: aliases (a check and an insert, see section 7), locations, identifiers (their route always refuses), the
  subject's history, who may act.
- `MigrationRunner`: a directory that changes while a runner works; two files of one number; the assertions of migration
  0007, which may be repeated and make nothing; `status` and `verify-rls`, which change nothing.
- `TokenGate`: the age of the copy as telemetry; what verification looks at in a token; a restart, which is an empty copy.
- `CaseDeadlines`: which version is in force and which channel it allows; the case's ETag (a caller may send any, and with
  another than the current one is refused); the grant a resolution looks at; the list of appeals.
- Code without a caller in this tree: `verifyAtExecutionTime` and the store's `contest` and `revoke` (the latter two are
  modelled, since the port offers them), the installation of rate limits, support access, the authorisation-code
  exchange, the local file key provider, the job queue.
- Components that `PROJECT.json` marks `not_modelled`, with the reason; most are in the plan.

## 9. Plan

What is not yet here, in the order of importance.

1. `Readiness`: probes of the dependencies under their deadlines, the states a probe's answer is held in, and the verdict of
   the health routes: not ready while a required dependency is down, and ready again.
2. `TransportFacts`: provider and mail webhooks that arrive out of order and overwrite a status.
3. `CaseLifecycle` extended: human gates and their answer rows, e-mail threads (two statements that overlap), readbacks; and
   composed with `AuthorityGrants` and `SourceRecipes`, whose rows would replace `Lapse`.
4. `RateLimit` and the effect budget: buckets per process against the policy's limit; a count before an act.
5. `SupportAccess`, `JobQueue`, keys and retention: once something in this tree calls them.

An abstract specification worth stating besides `OncePerKey`, `AuthorityPromise` and `ClaimPerKey`: a limiter that counts.
