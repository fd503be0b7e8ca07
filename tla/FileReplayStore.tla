--------------------------- MODULE FileReplayStore ---------------------------
(***************************************************************************)
(* The replay store that main.ts wires: an append-only log shared by the   *)
(* server processes, and a lock file held for one begin or one complete.   *)
(* Each call to the file system is a step.  `nonces' and `events' are what *)
(* #read makes of the log, newest record first: a nonce has a record or    *)
(* not, an event id a claim or a response.                                 *)
(***************************************************************************)
EXTENDS WebhookIngress

VARIABLES
  lock,        \* the lock file: absent, held, or older than the TTL
  retried,     \* deliveries in the second round of #acquire
  torn,        \* the log ends in an unfinished line
  raced        \* a process unlinked a lock that was not stale

file == <<lock, retried, torn, raced>>

FileTypeOK ==
  /\ lock \in {"free", "held", "stale"}
  /\ retried \subseteq Delivery
  /\ torn \in BOOLEAN
  /\ raced \in BOOLEAN

FileInit ==
  /\ lock = "free"
  /\ retried = {}
  /\ torn = FALSE
  /\ raced = FALSE

\* A call that cannot answer throws, and the route answers 503.
Unavailable(d) == Ends(d, Reply("UNAVAILABLE"))

\* The next round of #acquire, if there is one.
Again(d) ==
  IF d \in retried
  THEN Unavailable(d) /\ retried' = retried \ {d}
  ELSE Goes(d, "store") /\ retried' = retried \cup {d} /\ UNCHANGED answer

-----------------------------------------------------------------------------
(* #acquire *)

\* Defect: openSync without `wx', which takes a held lock too.
OpenLockShared(d) ==
  /\ pc[d] = "store"
  /\ lock' = "held"
  /\ Goes(d, "locked")
  /\ retried' = retried \ {d}
  /\ UNCHANGED <<phase, sent, answer, effect, past, records, faults, torn, raced>>

\* openSync with `wx'.
OpenLock(d) ==
  /\ pc[d] = "store"
  /\ IF lock = "free"
     THEN /\ lock' = "held"
          /\ Goes(d, "locked")
          /\ retried' = retried \ {d}
     ELSE /\ Goes(d, "stat")
          /\ UNCHANGED <<lock, retried>>
  /\ UNCHANGED <<phase, sent, answer, effect, past, records, faults, torn, raced>>

\* Defect: a held lock is waited for.
StatLockWaits(d) ==
  /\ pc[d] = "stat"
  /\ lock = "free" \/ lock = "stale"
  /\ IF lock = "free"
     THEN Again(d)
     ELSE Goes(d, "break") /\ UNCHANGED <<answer, retried>>
  /\ UNCHANGED <<phase, sent, effect, past, records, faults, lock, torn, raced>>

\* statSync: gone, older than the TTL, or another delivery's.
StatLock(d) ==
  /\ pc[d] = "stat"
  /\ IF lock = "free" THEN Again(d)
     ELSE IF lock = "stale" THEN Goes(d, "break") /\ UNCHANGED <<answer, retried>>
     ELSE Unavailable(d) /\ retried' = retried \ {d}
  /\ UNCHANGED <<phase, sent, effect, past, records, faults, lock, torn, raced>>

\* unlinkSync of whatever lock is there by now.
BreakLock(d) ==
  /\ pc[d] = "break"
  /\ raced' = (raced \/ lock = "held")
  /\ lock' = "free"
  /\ Again(d)
  /\ UNCHANGED <<phase, sent, effect, past, records, faults, torn>>

-----------------------------------------------------------------------------
(* under the lock *)

\* Defect: the event id is not looked up.
DecideByNonce(d) ==
  /\ pc[d] = "locked"
  /\ IF phase[d] = "complete" THEN Goes(d, "respond") /\ UNCHANGED answer
     ELSE IF sent[d].nonce \in nonces
     THEN Goes(d, "release") /\ answer' = [answer EXCEPT ![d] = Reply("NONCE_REPLAY")]
     ELSE Goes(d, "nonce") /\ UNCHANGED answer
  /\ UNCHANGED <<phase, sent, effect, past, records, faults, file>>

\* The log is read: the nonce decides before the event id.
Decide(d) ==
  /\ pc[d] = "locked"
  /\ IF phase[d] = "complete" THEN Goes(d, "respond") /\ UNCHANGED answer
     ELSE IF sent[d].nonce \in nonces
     THEN Goes(d, "release") /\ answer' = [answer EXCEPT ![d] = Reply("NONCE_REPLAY")]
     ELSE IF RecordOf(d) # NoRecord
     THEN Goes(d, "release") /\ answer' = [answer EXCEPT ![d] = Replayed(d)]
     ELSE Goes(d, "nonce") /\ UNCHANGED answer
  /\ UNCHANGED <<phase, sent, effect, past, records, faults, file>>

\* What a line adds to the log.
NonceLine(d) ==
  nonces' = nonces \cup {sent[d].nonce} /\ UNCHANGED events

EventLine(d) ==
  events' = [events EXCEPT ![sent[d].event] = [state |-> "CLAIMED", of |-> None]]
    /\ UNCHANGED nonces

ResponseLine(d) ==
  events' = [events EXCEPT ![sent[d].event] = [state |-> "ANSWERED", of |-> d]]
    /\ UNCHANGED nonces

Line(d) ==
  CASE pc[d] = "nonce" -> NonceLine(d)
    [] pc[d] = "event" -> EventLine(d)
    [] pc[d] = "respond" -> ResponseLine(d)

\* A line that follows an unfinished one is unreadable with it.
Append(d) ==
  /\ pc[d] \in {"nonce", "event", "respond"}
  /\ IF torn THEN UNCHANGED records ELSE Line(d)
  /\ torn' = FALSE
  /\ Goes(d, IF pc[d] = "nonce" THEN "event" ELSE "release")
  /\ answer' = IF pc[d] = "respond"
               THEN [answer EXCEPT ![d] = [kind |-> "ACCEPTED", of |-> d]]
               ELSE answer
  /\ UNCHANGED <<phase, sent, effect, past, faults, lock, retried, raced>>

\* The write fails with nothing, a part or all of the line in the log.
AppendFails(d) ==
  /\ pc[d] \in {"nonce", "event", "respond"}
  /\ Fault
  /\ \/ UNCHANGED <<records, torn>>
     \/ UNCHANGED records /\ torn' = TRUE
     \/ ~torn /\ Line(d) /\ UNCHANGED torn
  /\ Goes(d, "release")
  /\ answer' = [answer EXCEPT ![d] = Reply("UNAVAILABLE")]
  /\ UNCHANGED <<phase, sent, effect, past, lock, retried, raced>>

\* unlinkSync of the lock file, whose failure is ignored.
Release(d) ==
  /\ pc[d] = "release"
  /\ \/ lock' = "free" /\ UNCHANGED faults
     \/ Fault /\ UNCHANGED lock
  /\ Goes(d, IF answer[d].kind = "NONE" THEN "dispatch" ELSE "done")
  /\ UNCHANGED <<phase, sent, answer, effect, past, records, retried, torn, raced>>

\* The process dies: the lock file stays, a line may be left unfinished.
FileCrash(d) ==
  /\ Fault
  /\ pc[d] \in Working
  /\ Ends(d, Reply("DROPPED"))
  /\ \/ UNCHANGED <<effect, torn>>
     \/ pc[d] = "dispatch" /\ effect' = effect \cup {d} /\ UNCHANGED torn
     \/ pc[d] \in {"nonce", "event", "respond"} /\ torn' = TRUE /\ UNCHANGED effect
  /\ UNCHANGED <<phase, sent, past, records, lock, retried, raced>>

FileStep(d) ==
  OpenLock(d) \/ StatLock(d) \/ BreakLock(d) \/ Decide(d) \/ Append(d) \/ Release(d)

=============================================================================
