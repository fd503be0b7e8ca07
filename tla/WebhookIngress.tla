---------------------------- MODULE WebhookIngress ----------------------------
(***************************************************************************)
(* The pipeline of the three webhook routes around a replay store:         *)
(*                                                                         *)
(*   resolve and verify   refused before the store is touched;             *)
(*   replay.begin         the nonce and the event id are claimed;          *)
(*   dispatch             taint audit and one command, each in a tenant    *)
(*                        transaction of its own;                          *)
(*   replay.complete      the response is recorded against the event id.   *)
(*                                                                         *)
(* One provider key is modelled: a store's records are kept per key.  Each *)
(* delivery is in a server process of its own, so that what two processes  *)
(* do to the store may interleave.  A record lives for REPLAY_TTL_SECONDS; *)
(* HourPasses in WebhookReplay expires all that there are.                  *)
(***************************************************************************)
EXTENDS Naturals

CONSTANTS
  Delivery,    \* transmissions, copies and redeliveries included
  Nonce,
  Event,
  None,
  MaxFaults    \* bound on crashes, failed calls and lost acknowledgements

ASSUME DeliveryAssumption == None \notin Delivery \cup Nonce \cup Event
ASSUME FaultsAssumption == MaxFaults \in Nat

VARIABLES
  pc,          \* where each delivery is
  phase,       \* which call of the store it makes
  sent,        \* the nonce and the event id in its headers
  answer,      \* what it is, or when its lock is released will be, answered
  effect,      \* deliveries whose command committed
  past,        \* deliveries more than a record's lifetime ago
  nonces,      \* nonces with a live record
  events,      \* the newest live record of each event id
  faults

ingress == <<pc, phase, sent, effect, past>>
records == <<nonces, events>>

Working == {"store", "stat", "break", "locked", "nonce", "event", "respond",
            "release", "setnx", "dispatch"}

\* A claim has no response; the response recorded later names its delivery.
Records == [state: {"ABSENT", "CLAIMED", "ANSWERED"}, of: Delivery \cup {None}]
NoRecord == [state |-> "ABSENT", of |-> None]

Answers == [kind: {"NONE", "REFUSED", "NONCE_REPLAY", "REPLAYED", "ACCEPTED",
                   "UNAVAILABLE", "FAILED", "DROPPED"},
            of: Delivery \cup {None}]
Reply(kind) == [kind |-> kind, of |-> None]

IngressTypeOK ==
  /\ pc \in [Delivery -> Working \cup {"new", "done"}]
  /\ phase \in [Delivery -> {"begin", "complete"}]
  /\ sent \in [Delivery -> [nonce: Nonce \cup {None}, event: Event \cup {None}]]
  /\ answer \in [Delivery -> Answers]
  /\ effect \subseteq Delivery
  /\ past \subseteq Delivery
  /\ nonces \subseteq Nonce
  /\ events \in [Event -> Records]
  /\ faults \in 0 .. MaxFaults

IngressInit ==
  /\ pc = [d \in Delivery |-> "new"]
  /\ phase = [d \in Delivery |-> "begin"]
  /\ sent = [d \in Delivery |-> [nonce |-> None, event |-> None]]
  /\ answer = [d \in Delivery |-> Reply("NONE")]
  /\ effect = {}
  /\ past = {}
  /\ nonces = {}
  /\ events = [e \in Event |-> NoRecord]
  /\ faults = 0

-----------------------------------------------------------------------------

Goes(d, place) == pc' = [pc EXCEPT ![d] = place]

Fault ==
  /\ faults < MaxFaults
  /\ faults' = faults + 1

Ends(d, reply) ==
  /\ Goes(d, "done")
  /\ answer' = [answer EXCEPT ![d] = reply]

RecordOf(d) == events[sent[d].event]

\* The stored response is reproduced, or a default 200 when there is none.
Replayed(d) == [kind |-> "REPLAYED", of |-> RecordOf(d).of]

-----------------------------------------------------------------------------
(* pipeline, up to the claim *)

\* Capability, secret, signature, timestamp, nonce and event id are in order.
Arrive(d) ==
  /\ pc[d] = "new"
  /\ \E n \in Nonce, e \in Event :
       sent' = [sent EXCEPT ![d] = [nonce |-> n, event |-> e]]
  /\ Goes(d, "store")
  /\ UNCHANGED <<phase, answer, effect, past, records, faults>>

ArriveUnverified(d) ==
  /\ pc[d] = "new"
  /\ Ends(d, Reply("REFUSED"))
  /\ UNCHANGED <<phase, sent, effect, past, records, faults>>

(* the route, after the claim *)

DispatchCommits(d) ==
  /\ pc[d] = "dispatch"
  /\ effect' = effect \cup {d}
  /\ phase' = [phase EXCEPT ![d] = "complete"]
  /\ Goes(d, "store")
  /\ UNCHANGED <<sent, answer, past, records, faults>>

\* Defect: a refusal is recorded as the response of the event.
DispatchRefusedRecorded(d) ==
  /\ pc[d] = "dispatch"
  /\ phase' = [phase EXCEPT ![d] = "complete"]
  /\ Goes(d, "store")
  /\ UNCHANGED <<sent, answer, effect, past, records, faults>>

\* A field is malformed, the row the body names is not found, or the case's state
\* does not accept a response.  The claim stands.
DispatchRefused(d) ==
  /\ pc[d] = "dispatch"
  /\ Ends(d, Reply("REFUSED"))
  /\ UNCHANGED <<phase, sent, effect, past, records, faults>>

\* The database fails, before the command's COMMIT took effect or after.
DispatchFails(d) ==
  /\ pc[d] = "dispatch"
  /\ Fault
  /\ effect' = effect \/ effect' = effect \cup {d}
  /\ Ends(d, Reply("FAILED"))
  /\ UNCHANGED <<phase, sent, past, records>>

=============================================================================
