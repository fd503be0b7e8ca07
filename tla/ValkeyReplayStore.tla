-------------------------- MODULE ValkeyReplayStore --------------------------
(***************************************************************************)
(* The coordination-store binding of the replay store: one command is one  *)
(* step, nothing is held between two, and the event id is written only     *)
(* once there is a response to it.                                         *)
(***************************************************************************)
EXTENDS WebhookIngress

\* GET of the event id, before the nonce is looked at.
GetEvent(d) ==
  /\ pc[d] = "store"
  /\ phase[d] = "begin"
  /\ IF RecordOf(d) # NoRecord
     THEN Ends(d, Replayed(d))
     ELSE Goes(d, "setnx") /\ UNCHANGED answer
  /\ UNCHANGED <<phase, sent, effect, past, records, faults>>

\* SET NX of the nonce: the claim is the SET.
SetNonce(d) ==
  /\ pc[d] = "setnx"
  /\ nonces' = nonces \cup {sent[d].nonce}
  /\ IF sent[d].nonce \in nonces
     THEN Ends(d, Reply("NONCE_REPLAY"))
     ELSE Goes(d, "dispatch") /\ UNCHANGED answer
  /\ UNCHANGED <<phase, sent, effect, past, events, faults>>

\* SET of the event id, with the response.
SetEvent(d) ==
  /\ pc[d] = "store"
  /\ phase[d] = "complete"
  /\ events' = [events EXCEPT ![sent[d].event] = [state |-> "ANSWERED", of |-> d]]
  /\ Ends(d, [kind |-> "ACCEPTED", of |-> d])
  /\ UNCHANGED <<phase, sent, effect, past, nonces, faults>>

\* A command fails, with or without having taken effect.
CommandFails(d) ==
  /\ pc[d] \in {"store", "setnx"}
  /\ Fault
  /\ \/ UNCHANGED records
     \/ /\ pc[d] = "setnx"
        /\ nonces' = nonces \cup {sent[d].nonce}
        /\ UNCHANGED events
     \/ /\ pc[d] = "store"
        /\ phase[d] = "complete"
        /\ events' = [events EXCEPT ![sent[d].event] =
                        [state |-> "ANSWERED", of |-> d]]
        /\ UNCHANGED nonces
  /\ Ends(d, Reply("UNAVAILABLE"))
  /\ UNCHANGED <<phase, sent, effect, past>>

\* The process dies; the store is elsewhere.
ValkeyCrash(d) ==
  /\ Fault
  /\ pc[d] \in {"store", "setnx", "dispatch"}
  /\ effect' = effect \/ (pc[d] = "dispatch" /\ effect' = effect \cup {d})
  /\ Ends(d, Reply("DROPPED"))
  /\ UNCHANGED <<phase, sent, past, records>>

ValkeyStep(d) == GetEvent(d) \/ SetNonce(d) \/ SetEvent(d)

=============================================================================
