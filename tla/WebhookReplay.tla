---------------------------- MODULE WebhookReplay ----------------------------
(***************************************************************************)
(* The webhook ingress with either binding of its replay store.            *)
(***************************************************************************)
EXTENDS FileReplayStore, ValkeyReplayStore

CONSTANT Bindings    \* the bindings considered, of "file" and "valkey"

ASSUME BindingsAssumption == Bindings \subseteq {"file", "valkey"}

VARIABLE binding     \* the one this deployment is composed with

vars == <<ingress, answer, records, faults, file, binding>>

TypeOK ==
  /\ IngressTypeOK
  /\ FileTypeOK
  /\ binding \in Bindings

Init ==
  /\ IngressInit
  /\ FileInit
  /\ binding \in Bindings

\* REPLAY_TTL_SECONDS go by, far longer than any delivery is worked on: every
\* record has expired and a lock that is still there is stale.
HourPasses ==
  /\ \A d \in Delivery : pc[d] \in {"new", "done"}
  /\ \E d \in Delivery : pc[d] = "done" /\ d \notin past
  /\ past' = {d \in Delivery : pc[d] = "done"}
  /\ nonces' = {}
  /\ events' = [e \in Event |-> NoRecord]
  /\ lock' = IF lock = "free" THEN "free" ELSE "stale"
  /\ UNCHANGED <<pc, phase, sent, answer, effect, faults, retried, torn, raced,
                 binding>>

\* What the server does for a delivery by itself.
Step(d) ==
  /\ \/ (DispatchCommits(d) \/ DispatchRefused(d)) /\ UNCHANGED file
     \/ binding = "file" /\ FileStep(d)
     \/ binding = "valkey" /\ ValkeyStep(d) /\ UNCHANGED file
  /\ UNCHANGED binding

Environment(d) ==
  /\ \/ (Arrive(d) \/ ArriveUnverified(d) \/ DispatchFails(d)) /\ UNCHANGED file
     \/ binding = "file" /\ (AppendFails(d) \/ FileCrash(d))
     \/ binding = "valkey" /\ (CommandFails(d) \/ ValkeyCrash(d)) /\ UNCHANGED file
  /\ UNCHANGED binding

Next ==
  \/ \E d \in Delivery : Step(d) \/ Environment(d)
  \/ HourPasses

Spec == Init /\ [][Next]_vars

\* Nothing in the pipeline waits for another delivery, and every await in it is
\* bounded.
FairSpec == Spec /\ \A d \in Delivery : WF_vars(Step(d))

-----------------------------------------------------------------------------
(* Properties *)

Critical(d) == pc[d] \in {"locked", "nonce", "event", "respond", "release"}

\* FileReplayStore: two processes are never both between taking the lock and
\* giving it back, unless a process, about to break a stale lock, broke another's
\* new one instead.
LockIsExclusive ==
  \A a, b \in Delivery : Critical(a) /\ Critical(b) => a = b \/ raced

\* Section 6.2: a replay is refused before any state change.  While a record
\* lives, copies of one delivery take effect at most once with either binding;
\* the log does as much for an event id and the coordination store for a nonce,
\* through crashes, torn lines and failed calls, short of a broken new lock.
AtMostOneEffect ==
  ~raced =>
    \A a, b \in effect \ past :
      a # b =>
        /\ sent[a] # sent[b]
        /\ binding = "file" => sent[a].event # sent[b].event
        /\ binding = "valkey" => sent[a].nonce # sent[b].nonce

\* A stored response that is reproduced is that of a delivery of the same event
\* whose command committed.
ReplayIsOriginal ==
  \A a \in Delivery :
    answer[a].kind = "REPLAYED" /\ answer[a].of # None =>
      /\ answer[a].of \in effect
      /\ answer[a].of # a
      /\ sent[answer[a].of].event = sent[a].event

\* A response in the log stands until it expires: no later delivery of the event,
\* claim or response, gets in front of it.
ResponseStands ==
  [][binding = "file" /\ ~raced' =>
       \A e \in Event :
         events[e].state = "ANSWERED" => events'[e] = events[e] \/ past' # past]_vars

\* Every delivery that reached the server is answered or lost with it, however
\* long a dead process's lock remains.
EveryDeliveryEnds ==
  \A d \in Delivery : pc[d] \in Working ~> pc[d] = "done"

\* What a delivery claims: its event id in the log, its nonce in the coordination
\* store, which writes event ids only with a response.
KeyOf(d) == IF binding = "file" THEN sent[d].event ELSE sent[d].nonce

HasClaim(d) == pc[d] = "dispatch" \/ (pc[d] = "release" /\ answer[d].kind = "NONE")

IsTold(d) == pc[d] \in {"release", "done"} /\ answer[d].kind = "REPLAYED"

PerKey == INSTANCE ClaimPerKey WITH
  Key <- Nonce \cup Event,
  broken <- raced,
  taken <- IF binding = "file" THEN {e \in Event : events[e] # NoRecord} ELSE nonces,
  claim <- [d \in Delivery |-> IF HasClaim(d) THEN KeyOf(d) ELSE None],
  acted <- effect,
  response <- [e \in Event |-> events[e].of],
  told <- [d \in Delivery |-> IF IsTold(d) THEN answer[d].of ELSE None]

\* Of one key of a delivery, each binding makes a claim in one step, although it takes
\* many, with crashes, torn lines and failed calls between them, until a new lock is
\* broken.  The key is the event id for the log and the nonce for the coordination
\* store: neither is shown to claim both.
ImplementsClaimPerKey == PerKey!Spec

\* The port says the nonce and the event id are claimed together: of two deliveries
\* that are told they are new, or have acted, neither has the nonce of the other, nor
\* its event id.  Not kept: README, section 7.
ClaimedTogether ==
  ~raced =>
    \A a, b \in {d \in Delivery \ past : HasClaim(d) \/ d \in effect} :
      a # b => sent[a].nonce # sent[b].nonce /\ sent[a].event # sent[b].event

-----------------------------------------------------------------------------
(* The invariant of the proofs                                             *)

\* Past the claim of its nonce, of its event or of both.
Claimed(d) ==
  \/ pc[d] = "dispatch"
  \/ pc[d] = "release" /\ answer[d].kind = "NONE"
  \/ phase[d] = "complete"
  \/ d \in effect

\* What a delivery's place says of it.
PlaceInv(d) ==
  /\ pc[d] = "new" => phase[d] = "begin" /\ d \notin effect
  /\ pc[d] \notin {"release", "done"} => answer[d].kind = "NONE"
  /\ d \in past => pc[d] = "done"
  /\ pc[d] \in Working \/ d \in effect => sent[d] \in [nonce: Nonce, event: Event]
  /\ phase[d] = "complete" => d \in effect
  /\ pc[d] = "respond" => phase[d] = "complete"
  /\ pc[d] \in {"stat", "break", "locked", "nonce", "event", "respond", "release"} =>
       binding = "file"
  /\ pc[d] = "setnx" => binding = "valkey"

\* Whoever is critical owns the lock file, and is alone.
LockInv ==
  ~raced =>
    /\ \A d \in Delivery : Critical(d) => lock = "held"
    /\ LockIsExclusive

\* A record of the log is what it stands for: a claim has no response, a response
\* is of a delivery of the event that is not past.
RecordsInv ==
  \A e \in Event :
    LET o == events[e].of
    IN  /\ events[e].state # "ANSWERED" => o = None
        /\ events[e].state = "ANSWERED" =>
             o \in Delivery \ past /\ phase[o] = "complete" /\ sent[o].event = e

\* In the log, whoever is past its claim has left a record of its event, and nobody
\* else of the event is; whoever is claiming still finds none, and the log in order
\* when it comes to the event.
LogInv ==
  binding = "file" /\ ~raced =>
    /\ \A d \in Delivery \ past : Claimed(d) => RecordOf(d) # NoRecord
    /\ \A a, b \in Delivery \ past :
         Claimed(a) /\ Claimed(b) /\ sent[a].event = sent[b].event => a = b
    /\ \A d \in Delivery : pc[d] \in {"nonce", "event"} => RecordOf(d) = NoRecord
    /\ \A d \in Delivery : pc[d] = "event" => ~torn

\* In the coordination store, the same of nonces.
KeysInv ==
  binding = "valkey" =>
    /\ \A d \in Delivery \ past : Claimed(d) => sent[d].nonce \in nonces
    /\ \A a, b \in Delivery \ past :
         Claimed(a) /\ Claimed(b) /\ sent[a].nonce = sent[b].nonce => a = b

IInv ==
  /\ TypeOK
  /\ \A d \in Delivery : PlaceInv(d)
  /\ LockInv
  /\ RecordsInv
  /\ LogInv
  /\ KeysInv
  /\ ReplayIsOriginal

=============================================================================
