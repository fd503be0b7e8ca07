--------------------------- MODULE HttpIdempotency ---------------------------
(***************************************************************************)
(* The Idempotency-Key protocol of a route whose requirement is `required' *)
(* or `required-if-effect'.  A request attempt passes four places that     *)
(* share one row of http_idempotency per (tenant, method, route template,  *)
(* key):                                                                   *)
(*                                                                         *)
(*   onRequest        the header is checked, no row is touched;            *)
(*   preValidation    store.begin: INSERT .. ON CONFLICT DO NOTHING in one *)
(*                    transaction, then a read in a second one;            *)
(*   the handler      scope, step-up, If-Match and schema checks, any of   *)
(*                    which throws before withIdempotency is entered;      *)
(*   withIdempotency  replays, or runs the work in a tenant transaction    *)
(*                    and then completes or abandons the row.              *)
(*                                                                         *)
(* One scope (tenant, method, template) is modelled; Key ranges over the   *)
(* keys used in it and Target over the values of the path parameters, which*)
(* the scope leaves out.  Attempts run in any number of server processes:  *)
(* every statement on the shared table is a step of its own.               *)
(***************************************************************************)
EXTENDS Naturals

CONSTANTS
  Attempt,     \* request attempts, retries included
  Key,         \* well-formed Idempotency-Key values
  Body,        \* request bodies up to canonicalisation, so also fingerprints
  Target,      \* resolved path parameters
  None,        \* an absent key, owner or fingerprint
  MaxFaults    \* bound on crashes, store failures and lost acknowledgements

ASSUME NoneAssumption == None \notin Attempt \cup Key \cup Body \cup Target
ASSUME MaxFaultsAssumption == MaxFaults \in Nat

VARIABLES
  pc,          \* where each attempt is
  req,         \* what each attempt asked for
  claimed,     \* request.vgIdempotency.claimed, or RETURNING gave a row
  row,         \* the http_idempotency row of each key
  separator,   \* the attempt's response body contains the '|' of read()
  answer,      \* what each attempt was answered
  executed,    \* attempts whose tenant transaction committed
  unacked,     \* those whose COMMIT was not acknowledged to the server
  faults       \* faults so far

vars == <<pc, req, claimed, row, separator, answer, executed, unacked, faults>>

-----------------------------------------------------------------------------

Working == {"begin", "read", "handler", "replayBegin", "replayRead", "work",
            "abandon", "complete"}
Places == Working \cup {"new", "done"}

Requests == [key: Key \cup {None}, body: Body \cup {None},
             target: Target \cup {None}]
NoRequest == [key |-> None, body |-> None, target |-> None]

\* `owner' is the attempt whose INSERT made the row: not a column, but the
\* attempt whose response `complete' stores in it.
Rows == [state: {"ABSENT", "IN_FLIGHT", "COMPLETED"},
         owner: Attempt \cup {None}, fingerprint: Body \cup {None}]
NoRow == [state |-> "ABSENT", owner |-> None, fingerprint |-> None]

Answers == [kind: {"NONE", "KEY_REQUIRED", "IN_FLIGHT", "KEY_REUSE", "REPLAYED",
                   "EXECUTED", "REFUSED", "UNAVAILABLE", "DROPPED"},
            of: Attempt \cup {None}]
Reply(kind) == [kind |-> kind, of |-> None]

TypeOK ==
  /\ pc \in [Attempt -> Places]
  /\ req \in [Attempt -> Requests]
  /\ claimed \in [Attempt -> BOOLEAN]
  /\ row \in [Key -> Rows]
  /\ separator \in [Attempt -> BOOLEAN]
  /\ answer \in [Attempt -> Answers]
  /\ executed \subseteq Attempt
  /\ unacked \subseteq executed
  /\ faults \in 0 .. MaxFaults

Init ==
  /\ pc = [a \in Attempt |-> "new"]
  /\ req = [a \in Attempt |-> NoRequest]
  /\ claimed = [a \in Attempt |-> FALSE]
  /\ row = [k \in Key |-> NoRow]
  /\ separator = [a \in Attempt |-> FALSE]
  /\ answer = [a \in Attempt |-> Reply("NONE")]
  /\ executed = {}
  /\ unacked = {}
  /\ faults = 0

-----------------------------------------------------------------------------
(* Steps shared by several places.                                         *)

RowOf(a) == row[req[a].key]

Finish(a, reply) ==
  /\ pc' = [pc EXCEPT ![a] = "done"]
  /\ answer' = [answer EXCEPT ![a] = reply]

GoTo(a, place) ==
  /\ pc' = [pc EXCEPT ![a] = place]
  /\ UNCHANGED answer

Fault ==
  /\ faults < MaxFaults
  /\ faults' = faults + 1

\* Defect: ON CONFLICT DO UPDATE, so that every caller gets a row back.
InsertUnguarded(a) ==
  /\ claimed' = [claimed EXCEPT ![a] = TRUE]
  /\ row' = [row EXCEPT ![req[a].key] =
               [state |-> "IN_FLIGHT", owner |-> a, fingerprint |-> req[a].body]]

\* The INSERT of store.begin: RETURNING gives a row only when the key was free.
Insert(a) ==
  LET free == RowOf(a).state = "ABSENT"
  IN  /\ claimed' = [claimed EXCEPT ![a] = free]
      /\ row' = IF free
                THEN [row EXCEPT ![req[a].key] =
                        [state |-> "IN_FLIGHT", owner |-> a,
                         fingerprint |-> req[a].body]]
                ELSE row

\* store.abandon: a COMPLETED row survives.
Delete(a) ==
  row' = IF RowOf(a).state = "IN_FLIGHT"
         THEN [row EXCEPT ![req[a].key] = NoRow]
         ELSE row

\* store.complete: the UPDATE names the scope and no state.
Update(a) ==
  row' = IF RowOf(a).state = "ABSENT"
         THEN row
         ELSE [row EXCEPT ![req[a].key].state = "COMPLETED"]

\* Defect: the columns are read in another order than they are written.
FingerprintShifted(r) == IF r.state = "COMPLETED" THEN None ELSE r.fingerprint

\* The fingerprint that read() returns: the columns are joined with '|' and
\* split again, so a '|' in the stored body shifts it.
FingerprintRead(r) == IF separator[r.owner] THEN None ELSE r.fingerprint

-----------------------------------------------------------------------------
(* onRequest *)

\* A well-formed key: the scope is recorded and the claim is left to later.
Arrive(a) ==
  /\ pc[a] = "new"
  /\ \E k \in Key, b \in Body, t \in Target :
       req' = [req EXCEPT ![a] = [key |-> k, body |-> b, target |-> t]]
  /\ GoTo(a, "begin")
  /\ UNCHANGED <<claimed, row, separator, executed, unacked, faults>>

\* A missing or malformed key is refused before any work.
ArriveWithoutKey(a) ==
  /\ pc[a] = "new"
  /\ Finish(a, Reply("KEY_REQUIRED"))
  /\ UNCHANGED <<req, claimed, row, separator, executed, unacked, faults>>

(* preValidation: store.begin *)

BeginInsert(a) ==
  /\ pc[a] = "begin"
  /\ Insert(a)
  /\ GoTo(a, "read")
  /\ UNCHANGED <<req, separator, executed, unacked, faults>>

\* Defect: a key in flight is waited for instead of refused.
BeginReadWaits(a) ==
  /\ pc[a] = "read"
  /\ claimed[a] \/ RowOf(a).state = "COMPLETED"
  /\ GoTo(a, "handler")
  /\ UNCHANGED <<req, claimed, row, separator, executed, unacked, faults>>

\* COMPLETED leaves the replay to withIdempotency; otherwise only the attempt
\* whose INSERT took effect goes on.
BeginRead(a) ==
  /\ pc[a] = "read"
  /\ IF RowOf(a).state = "COMPLETED"
     THEN /\ claimed' = [claimed EXCEPT ![a] = FALSE]
          /\ GoTo(a, "handler")
     ELSE /\ UNCHANGED claimed
          /\ IF claimed[a] THEN GoTo(a, "handler")
             ELSE Finish(a, Reply("IN_FLIGHT"))
  /\ UNCHANGED <<req, row, separator, executed, unacked, faults>>

(* the handler, up to its call of withIdempotency *)

\* beginHandler, uuidParam, ifMatchHeader or a body check throws.  Nothing
\* between the claim and withIdempotency releases the row.
HandlerRefuses(a) ==
  /\ pc[a] = "handler"
  /\ Finish(a, Reply("REFUSED"))
  /\ UNCHANGED <<req, claimed, row, separator, executed, unacked, faults>>

\* Defect: a route that runs its work without looking at the claim.
EnterUnchecked(a) ==
  /\ pc[a] = "handler"
  /\ GoTo(a, "work")
  /\ UNCHANGED <<req, claimed, row, separator, executed, unacked, faults>>

EnterWithIdempotency(a) ==
  /\ pc[a] = "handler"
  /\ GoTo(a, IF claimed[a] THEN "work" ELSE "replayBegin")
  /\ UNCHANGED <<req, claimed, row, separator, executed, unacked, faults>>

(* withIdempotency, not claimed: store.begin once more *)

ReplayInsert(a) ==
  /\ pc[a] = "replayBegin"
  /\ Insert(a)
  /\ GoTo(a, "replayRead")
  /\ UNCHANGED <<req, separator, executed, unacked, faults>>

\* Defect: the stored fingerprint is not compared.
ReplayUncompared(a) ==
  /\ pc[a] = "replayRead"
  /\ Finish(a, IF RowOf(a).state = "COMPLETED"
               THEN [kind |-> "REPLAYED", of |-> RowOf(a).owner]
               ELSE Reply("IN_FLIGHT"))
  /\ UNCHANGED <<req, claimed, row, separator, executed, unacked, faults>>

ReplayRead(a) ==
  /\ pc[a] = "replayRead"
  /\ Finish(a,
       IF RowOf(a).state # "COMPLETED" THEN Reply("IN_FLIGHT")
       ELSE IF FingerprintRead(RowOf(a)) # req[a].body THEN Reply("KEY_REUSE")
       ELSE [kind |-> "REPLAYED", of |-> RowOf(a).owner])
  /\ UNCHANGED <<req, claimed, row, separator, executed, unacked, faults>>

(* withIdempotency, claimed: the work in a tenant transaction *)

\* Defect: the handler throws after its transaction has committed.
WorkCommitsThenThrows(a) ==
  /\ pc[a] = "work"
  /\ executed' = executed \cup {a}
  /\ GoTo(a, "abandon")
  /\ UNCHANGED <<req, claimed, row, separator, unacked, faults>>

WorkCommits(a) ==
  /\ pc[a] = "work"
  /\ executed' = executed \cup {a}
  /\ \E s \in BOOLEAN : separator' = [separator EXCEPT ![a] = s]
  /\ GoTo(a, "complete")
  /\ UNCHANGED <<req, claimed, row, unacked, faults>>

\* A refusal or an error inside the transaction: it is rolled back.
WorkThrows(a) ==
  /\ pc[a] = "work"
  /\ GoTo(a, "abandon")
  /\ UNCHANGED <<req, claimed, row, separator, executed, unacked, faults>>

\* COMMIT took effect and its acknowledgement was lost: the runner throws.
CommitUnacknowledged(a) ==
  /\ pc[a] = "work"
  /\ Fault
  /\ executed' = executed \cup {a}
  /\ unacked' = unacked \cup {a}
  /\ GoTo(a, "abandon")
  /\ UNCHANGED <<req, claimed, row, separator>>

Abandon(a) ==
  /\ pc[a] = "abandon"
  /\ Delete(a)
  /\ Finish(a, Reply("REFUSED"))
  /\ UNCHANGED <<req, claimed, separator, executed, unacked, faults>>

Complete(a) ==
  /\ pc[a] = "complete"
  /\ Update(a)
  /\ Finish(a, [kind |-> "EXECUTED", of |-> a])
  /\ UNCHANGED <<req, claimed, separator, executed, unacked, faults>>

-----------------------------------------------------------------------------
(* Faults *)

\* A statement of the store fails with or without having taken effect, and the
\* attempt is answered DEPENDENCY_UNAVAILABLE.
StoreFails(a) ==
  /\ Fault
  /\ \/ /\ pc[a] \in {"begin", "replayBegin"}
        /\ Insert(a) \/ UNCHANGED <<claimed, row>>
     \/ /\ pc[a] \in {"read", "replayRead"}
        /\ UNCHANGED <<claimed, row>>
     \/ /\ pc[a] = "abandon"
        /\ Delete(a) \/ UNCHANGED row
        /\ UNCHANGED claimed
     \/ /\ pc[a] = "complete"
        /\ Update(a) \/ UNCHANGED row
        /\ UNCHANGED claimed
  /\ Finish(a, Reply("UNAVAILABLE"))
  /\ UNCHANGED <<req, separator, executed, unacked>>

\* The server process dies.  A transaction it had open is rolled back, unless
\* its COMMIT was already on its way.  No row is reclaimed afterwards.
Crash(a) ==
  /\ Fault
  /\ pc[a] \in Working
  /\ \/ UNCHANGED executed
     \/ pc[a] = "work" /\ executed' = executed \cup {a}
  /\ Finish(a, Reply("DROPPED"))
  /\ UNCHANGED <<req, claimed, row, separator, unacked>>

-----------------------------------------------------------------------------

\* What the server does for an attempt by itself.
Step(a) ==
  \/ BeginInsert(a)
  \/ BeginRead(a)
  \/ HandlerRefuses(a)
  \/ EnterWithIdempotency(a)
  \/ ReplayInsert(a)
  \/ ReplayRead(a)
  \/ WorkCommits(a)
  \/ WorkThrows(a)
  \/ Abandon(a)
  \/ Complete(a)

Next ==
  \E a \in Attempt :
    \/ Arrive(a)
    \/ ArriveWithoutKey(a)
    \/ Step(a)
    \/ CommitUnacknowledged(a)
    \/ StoreFails(a)
    \/ Crash(a)

Spec == Init /\ [][Next]_vars

\* An attempt that has reached the server is worked on: every await in the
\* path is bounded (connection and statement timeouts, psql's own timeout).
FairSpec == Spec /\ \A a \in Attempt : WF_vars(Step(a))

-----------------------------------------------------------------------------
(* Properties *)

\* An attempt between its claim and its release.
Holds(a) ==
  /\ claimed[a]
  /\ pc[a] \in {"read", "handler", "work", "abandon", "complete"}

\* Two attempts with one key are never both between claim and release: what
\* `begin' must guarantee by its single INSERT, whatever crashes in between.
SoleHolder ==
  \A a, b \in Attempt :
    Holds(a) /\ Holds(b) /\ req[a].key = req[b].key => a = b

\* Of two attempts with one key whose transactions both committed, at least one
\* had its COMMIT acknowledgement lost.  Crashes, store failures and retries in
\* any order cannot produce a second effect in another way.
AtMostOneAcknowledgedEffect ==
  \A a, b \in executed :
    req[a].key = req[b].key /\ a # b => a \in unacked \/ b \in unacked

\* A replayed answer is that of an attempt with the same key and the same body,
\* whose transaction committed, and whose body read() returns unharmed.
ReplayIsOriginal ==
  \A a \in Attempt :
    answer[a].kind = "REPLAYED" =>
      LET o == answer[a].of
      IN  /\ o \in executed \ unacked
          /\ req[o].key = req[a].key
          /\ req[o].body = req[a].body
          /\ ~separator[o]

\* KEY_REUSE is answered only to an attempt that repeats the key of a completed
\* one with another body, or when the stored body held a '|'.
ReuseIsConflict ==
  \A a \in Attempt :
    answer[a].kind = "KEY_REUSE" =>
      \E o \in executed :
        /\ o # a
        /\ req[o].key = req[a].key
        /\ req[o].body # req[a].body \/ separator[o]

\* A completed row is never released, reopened or given another owner.
CompletedIsFinal ==
  [][\A k \in Key : row[k].state = "COMPLETED" => row'[k] = row[k]]_vars

\* Every attempt that reached the server is answered or lost with it.
EveryAttemptEnds ==
  \A a \in Attempt : pc[a] \in Working ~> pc[a] = "done"

-----------------------------------------------------------------------------
(* The inductive invariant behind the safety properties                    *)

\* What an attempt's place says about its own request and transaction.
PlacesInv ==
  \A a \in Attempt :
    /\ pc[a] \in Working => req[a].key \in Key /\ req[a].body \in Body
    /\ pc[a] = "new" => req[a] = NoRequest
    /\ a \in executed => pc[a] \in {"complete", "abandon", "done"} /\ req[a].key \in Key
    /\ pc[a] = "complete" => a \in executed \ unacked
    /\ pc[a] = "abandon" => a \notin executed \ unacked
    /\ pc[a] \in {"work", "abandon", "complete"} => claimed[a]
    /\ pc[a] \in {"replayBegin", "replayRead"} => ~claimed[a]
    /\ pc[a] # "done" => answer[a].kind = "NONE"

\* A holder owns an in-flight row; an attempt sent to the replay path finds a
\* completed one.
HolderInv ==
  \A a \in Attempt :
    /\ Holds(a) => RowOf(a).state = "IN_FLIGHT" /\ RowOf(a).owner = a
    /\ pc[a] \in {"handler", "replayBegin", "replayRead"} /\ ~claimed[a]
         => RowOf(a).state = "COMPLETED"

\* A row is its owner's; a completed one reports its owner's committed
\* transaction, and no acknowledged effect is ever without its row.
RowInv ==
  /\ \A k \in Key :
       /\ row[k].state # "ABSENT" =>
            /\ row[k].owner \in Attempt
            /\ pc[row[k].owner] # "new"
            /\ req[row[k].owner].key = k
            /\ row[k].fingerprint = req[row[k].owner].body
            /\ row[k].fingerprint \in Body
       /\ row[k].state = "COMPLETED" =>
            /\ row[k].owner \in executed \ unacked
            /\ pc[row[k].owner] = "done"
  /\ \A a \in executed \ unacked : RowOf(a).state # "ABSENT" /\ RowOf(a).owner = a

\* A reported outcome is that of an acknowledged effect for the same key.
AnswerInv ==
  \A a \in Attempt :
    answer[a].kind \in {"REPLAYED", "EXECUTED"} =>
      /\ answer[a].of \in executed \ unacked
      /\ req[answer[a].of].key = req[a].key

IInv ==
  /\ TypeOK
  /\ PlacesInv
  /\ HolderInv
  /\ RowInv
  /\ AnswerInv
  /\ ReplayIsOriginal
  /\ ReuseIsConflict

-----------------------------------------------------------------------------
(* What the protocol implements                                            *)

\* The attempt whose outcome an answer reports, or that it reports none.
ReplyGiven(a) ==
  IF answer[a].kind = "NONE" THEN None
  ELSE IF answer[a].kind \in {"REPLAYED", "EXECUTED"} THEN answer[a].of
  ELSE "refused"

Once == INSTANCE OncePerKey WITH
  submitted <- [a \in Attempt |-> req[a].key],
  performed <- executed,
  unsure <- unacked,
  reply <- [a \in Attempt |-> ReplyGiven(a)]

\* The routes, the plugin, the runner and the store together keep the promise of
\* OncePerKey: one effect per key up to a lost acknowledgement, and every
\* reported outcome is a real one.
ImplementsOncePerKey == Once!Spec

=============================================================================
