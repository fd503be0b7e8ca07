--------------------------- MODULE AuthorityPromise ---------------------------
(***************************************************************************)
(* What a subject is promised about the authority it gave: who acts under  *)
(* a grant does so while the grant is usable, and it stays usable until    *)
(* the act is over.  A contest suspends it, a revocation ends it, neither  *)
(* is ever undone, and both wait for an act in progress rather than pull   *)
(* the grant from under it.                                                *)
(***************************************************************************)
CONSTANTS Worker, Grant, None

VARIABLES
  standing,   \* "unissued", "usable", "suspended" or "revoked"
  acting      \* the grant each worker acts under, or None

vars == <<standing, acting>>

Init ==
  /\ standing = [g \in Grant |-> "unissued"]
  /\ acting = [w \in Worker |-> None]

InUse(g) == \E w \in Worker : acting[w] = g

Issue(g) ==
  /\ standing[g] = "unissued"
  /\ standing' = [standing EXCEPT ![g] = "usable"]
  /\ UNCHANGED acting

Suspend(g) ==
  /\ standing[g] = "usable"
  /\ ~InUse(g)
  /\ standing' = [standing EXCEPT ![g] = "suspended"]
  /\ UNCHANGED acting

Revoke(g) ==
  /\ standing[g] \in {"usable", "suspended"}
  /\ ~InUse(g)
  /\ standing' = [standing EXCEPT ![g] = "revoked"]
  /\ UNCHANGED acting

Enter(w, g) ==
  /\ acting[w] = None
  /\ standing[g] = "usable"
  /\ acting' = [acting EXCEPT ![w] = g]
  /\ UNCHANGED standing

Leave(w) ==
  /\ acting' = [acting EXCEPT ![w] = None]
  /\ UNCHANGED standing

Next ==
  \/ \E g \in Grant : Issue(g) \/ Suspend(g) \/ Revoke(g)
  \/ \E w \in Worker : Leave(w) \/ \E g \in Grant : Enter(w, g)

Spec == Init /\ [][Next]_vars

=============================================================================
