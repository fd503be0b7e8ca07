------------------------------ MODULE OncePerKey ------------------------------
(***************************************************************************)
(* What a client of an idempotent write is promised.  A submitted request  *)
(* is performed at most once per key, save when the service itself cannot  *)
(* know whether it was performed; its reply, once given, stands; and a     *)
(* reply that names an outcome names one that was reached, for that key,   *)
(* beyond doubt.                                                           *)
(***************************************************************************)
CONSTANTS Attempt, Key, None

VARIABLES
  submitted,   \* the key each attempt was submitted with
  performed,   \* attempts whose effect took place
  unsure,      \* those of which the service does not know that it did
  reply        \* None, "refused", or the attempt whose outcome is reported

vars == <<submitted, performed, unsure, reply>>

Init ==
  /\ submitted = [a \in Attempt |-> None]
  /\ performed = {}
  /\ unsure = {}
  /\ reply = [a \in Attempt |-> None]

Submit(a) ==
  /\ submitted[a] = None
  /\ reply[a] = None
  /\ \E k \in Key : submitted' = [submitted EXCEPT ![a] = k]
  /\ UNCHANGED <<performed, unsure, reply>>

\* A second effect for a key needs a doubt about every earlier one.
MayPerform(a) ==
  \A o \in performed : submitted[o] = submitted[a] => o \in unsure

Perform(a) ==
  /\ submitted[a] # None
  /\ reply[a] = None
  /\ MayPerform(a)
  /\ performed' = performed \cup {a}
  /\ unsure' = unsure \/ unsure' = unsure \cup {a}
  /\ reply' = reply \/ reply' = [reply EXCEPT ![a] = "refused"]
  /\ UNCHANGED submitted

Report(a) ==
  /\ reply[a] = None
  /\ \E o \in performed \ unsure :
       /\ submitted[o] = submitted[a]
       /\ reply' = [reply EXCEPT ![a] = o]
  /\ UNCHANGED <<submitted, performed, unsure>>

Refuse(a) ==
  /\ reply[a] = None
  /\ reply' = [reply EXCEPT ![a] = "refused"]
  /\ UNCHANGED <<submitted, performed, unsure>>

Next ==
  \E a \in Attempt : Submit(a) \/ Perform(a) \/ Report(a) \/ Refuse(a)

Spec == Init /\ [][Next]_vars

=============================================================================
