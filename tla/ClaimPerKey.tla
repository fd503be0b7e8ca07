----------------------------- MODULE ClaimPerKey -----------------------------
(***************************************************************************)
(* What a replay store promises for one key of a delivery.  A delivery is   *)
(* claimed in one step, under a key that nobody has claimed; who has        *)
(* claimed one may act, once, and nobody else may; the response kept for an *)
(* event is that of one who acted; and a redelivery is told what is kept.   *)
(* Claims and responses are forgotten only while nobody has a claim to act  *)
(* on.  The port promises more, that the nonce and the event id are claimed *)
(* together: WebhookReplay's ClaimedTogether.                               *)
(*                                                                         *)
(* A claim may be lost, before it reaches its delivery or after; none is   *)
(* ever given back.  A store that is broken promises nothing any more.     *)
(***************************************************************************)
CONSTANTS Delivery, Key, Event, None

VARIABLES
  broken,
  taken,      \* the keys that are claimed
  claim,      \* the key each delivery may act under, or None
  acted,      \* deliveries that have acted
  response,   \* whose response is kept for each event, or None
  told        \* whose response each delivery was told, or None

vars == <<broken, taken, claim, acted, response, told>>

Init ==
  /\ broken = FALSE
  /\ taken = {}
  /\ claim = [d \in Delivery |-> None]
  /\ acted = {}
  /\ response = [e \in Event |-> None]
  /\ told = [d \in Delivery |-> None]

Claim(d, k) ==
  /\ k \notin taken
  /\ claim[d] = None
  /\ taken' = taken \cup {k}
  /\ claim' = [claim EXCEPT ![d] = k]
  /\ UNCHANGED <<broken, acted, response, told>>

ClaimUnheard(k) ==
  /\ k \notin taken
  /\ taken' = taken \cup {k}
  /\ UNCHANGED <<broken, claim, acted, response, told>>

Act(d) ==
  /\ claim[d] # None
  /\ claim' = [claim EXCEPT ![d] = None]
  /\ acted' = acted \cup {d}
  /\ UNCHANGED <<broken, taken, response, told>>

\* A delivery is refused after its claim, or lost with it or with its answer.
Lose(d) ==
  /\ claim' = [claim EXCEPT ![d] = None]
  /\ told' = [told EXCEPT ![d] = None]
  /\ UNCHANGED <<broken, taken, acted, response>>

Keep(d, e) ==
  /\ d \in acted
  /\ response' = [response EXCEPT ![e] = d]
  /\ UNCHANGED <<broken, taken, claim, acted, told>>

Tell(d, e) ==
  /\ told' = [told EXCEPT ![d] = response[e]]
  /\ UNCHANGED <<broken, taken, claim, acted, response>>

Forget ==
  /\ \A d \in Delivery : claim[d] = None
  /\ taken' = {}
  /\ response' = [e \in Event |-> None]
  /\ UNCHANGED <<broken, claim, acted, told>>

Break == broken' = TRUE

Next ==
  \/ \E d \in Delivery :
       \/ Act(d) \/ Lose(d)
       \/ \E k \in Key : Claim(d, k)
       \/ \E e \in Event : Keep(d, e) \/ Tell(d, e)
  \/ \E k \in Key : ClaimUnheard(k)
  \/ Forget
  \/ Break

Spec == Init /\ [][Next]_vars

=============================================================================
