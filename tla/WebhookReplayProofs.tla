-------------------------- MODULE WebhookReplayProofs --------------------------
(***************************************************************************)
(* IInv is an inductive invariant of WebhookReplay, for any number of      *)
(* deliveries, nonces, events and faults and with either binding: the lock *)
(* excludes, a delivery past its claim has left its record, and nobody     *)
(* else of its event, or of its nonce, gets past.                          *)
(*                                                                         *)
(* A step of a delivery touches that delivery and the store alone (StepOf). *)
(* Each part of IInv has a lemma that says what such a step must do to keep *)
(* it; the actions are then gone through once for each part they can        *)
(* disturb.  Under IInv each step is also one of ClaimPerKey, or none that *)
(* it sees.                                                                *)
(***************************************************************************)
EXTENDS WebhookReplay, TLAPS

-----------------------------------------------------------------------------
(* Steps of one delivery                                                   *)

\* The other deliveries stay what they are; this one is not over, keeps its phase
\* but when its command commits, and its headers once they have come.
StepOf(d) ==
  /\ past' = past /\ binding' = binding
  /\ \A x \in Delivery \ {d} :
       /\ pc'[x] = pc[x] /\ phase'[x] = phase[x]
       /\ sent'[x] = sent[x] /\ answer'[x] = answer[x]
       /\ x \in effect' <=> x \in effect
  /\ pc[d] # "done"
  /\ d \in effect => d \in effect'
  /\ d \in effect' => d \in effect \/ pc[d] = "dispatch"
  /\ phase'[d] = phase[d] \/ (pc[d] = "dispatch" /\ phase'[d] = "complete")
  /\ sent'[d] = sent[d] \/ pc[d] = "new"

LEMMA RecordTypes ==
  /\ \A d \in Delivery : [kind |-> "ACCEPTED", of |-> d] \in Answers
  /\ \A k \in {"NONE", "REFUSED", "NONCE_REPLAY", "UNAVAILABLE", "FAILED", "DROPPED"} :
       Reply(k) \in Answers /\ Reply(k).kind = k /\ Reply(k).of = None
  /\ \A d \in Delivery : [state |-> "ANSWERED", of |-> d] \in Records
  /\ [state |-> "CLAIMED", of |-> None] \in Records
  /\ NoRecord \in Records
  /\ \A d \in Delivery : [state |-> "ANSWERED", of |-> d] # NoRecord
  /\ [state |-> "CLAIMED", of |-> None] # NoRecord
BY DEF Answers, Reply, Records, NoRecord

\* What is kept of a delivery's record, and reproduced of it, is of its type.
LEMMA ReplayedType ==
  ASSUME TypeOK, NEW d \in Delivery, sent[d].event \in Event
  PROVE  /\ RecordOf(d) \in Records
         /\ Replayed(d) \in Answers
         /\ Replayed(d).kind = "REPLAYED"
         /\ Replayed(d).of = events[sent[d].event].of
BY DEF TypeOK, IngressTypeOK, RecordOf, Replayed, Records, Answers

\* Whoever is at work has headers in order.
LEMMA SentTypes ==
  ASSUME NEW d \in Delivery, PlaceInv(d), pc[d] \in Working \/ d \in effect
  PROVE  /\ sent[d] \in [nonce: Nonce, event: Event]
         /\ sent[d].nonce \in Nonce /\ sent[d].event \in Event
BY DEF PlaceInv

-----------------------------------------------------------------------------
(* Types and places                                                        *)

\* A step with nothing but places, answers and faults to it.
LEMMA IngressPlaces ==
  ASSUME TypeOK, NEW d \in Delivery, PlaceInv(d), binding' = binding, UNCHANGED file,
         Arrive(d) \/ ArriveUnverified(d) \/ DispatchCommits(d) \/ DispatchRefused(d)
           \/ DispatchFails(d)
  PROVE  TypeOK' /\ StepOf(d) /\ PlaceInv(d)'
<1> USE DEF TypeOK, IngressTypeOK, FileTypeOK, StepOf, PlaceInv, Goes, Ends, Fault, file,
            records, Working
<1>1. CASE Arrive(d)
  BY <1>1 DEF Arrive
<1>2. CASE ArriveUnverified(d)
  BY <1>2, RecordTypes DEF ArriveUnverified
<1>3. CASE DispatchCommits(d)
  BY <1>3 DEF DispatchCommits
<1>4. CASE DispatchRefused(d)
  BY <1>4, RecordTypes DEF DispatchRefused
<1>5. CASE DispatchFails(d)
  BY <1>5, RecordTypes, FaultsAssumption DEF DispatchFails
<1>6. QED
  BY <1>1, <1>2, <1>3, <1>4, <1>5

LEMMA LockPlaces ==
  ASSUME TypeOK, NEW d \in Delivery, PlaceInv(d), binding = "file", binding' = binding,
         OpenLock(d) \/ StatLock(d) \/ BreakLock(d) \/ Release(d)
  PROVE  TypeOK' /\ StepOf(d) /\ PlaceInv(d)'
<1> USE DEF TypeOK, IngressTypeOK, FileTypeOK, StepOf, PlaceInv, Goes, Ends, Fault, file,
            records, Working
<1>1. CASE OpenLock(d)
  BY <1>1 DEF OpenLock
<1>2. CASE StatLock(d)
  <2>1. TypeOK'
    BY <1>2, RecordTypes DEF StatLock, Again, Unavailable
  <2>2. StepOf(d)
    BY <1>2, RecordTypes DEF StatLock, Again, Unavailable
  <2>3. PlaceInv(d)'
    BY <1>2, RecordTypes DEF StatLock, Again, Unavailable
  <2>4. QED
    BY <2>1, <2>2, <2>3
<1>3. CASE BreakLock(d)
  <2>1. TypeOK'
    BY <1>3, RecordTypes DEF BreakLock, Again, Unavailable
  <2>2. StepOf(d)
    BY <1>3, RecordTypes DEF BreakLock, Again, Unavailable
  <2>3. PlaceInv(d)'
    BY <1>3, RecordTypes DEF BreakLock, Again, Unavailable
  <2>4. QED
    BY <2>1, <2>2, <2>3
<1>4. CASE Release(d)
  BY <1>4, FaultsAssumption DEF Release
<1>5. QED
  BY <1>1, <1>2, <1>3, <1>4

\* What a line does to the records.
LEMMA LineFacts ==
  ASSUME TypeOK, NEW d \in Delivery, PlaceInv(d), pc[d] \in {"nonce", "event", "respond"},
         Line(d) \/ UNCHANGED records
  PROVE  /\ nonces' \subseteq Nonce /\ events' \in [Event -> Records]
         /\ nonces \subseteq nonces'
         /\ \/ events' = events
            \/ /\ pc[d] = "event"
               /\ events' = [events EXCEPT ![sent[d].event] = [state |-> "CLAIMED", of |-> None]]
            \/ /\ pc[d] = "respond"
               /\ events' = [events EXCEPT ![sent[d].event] = [state |-> "ANSWERED", of |-> d]]
<1>1. sent[d].nonce \in Nonce /\ sent[d].event \in Event
  BY SentTypes DEF Working
<1>2. CASE UNCHANGED records
  BY <1>2 DEF records, TypeOK, IngressTypeOK
<1>3. CASE Line(d)
  BY <1>1, <1>3, RecordTypes DEF Line, NonceLine, EventLine, ResponseLine, TypeOK, IngressTypeOK
<1>4. QED
  BY <1>2, <1>3

LEMMA LogPlaces ==
  ASSUME TypeOK, NEW d \in Delivery, PlaceInv(d), binding = "file", binding' = binding,
         Decide(d) \/ Append(d) \/ AppendFails(d) \/ FileCrash(d)
  PROVE  TypeOK' /\ StepOf(d) /\ PlaceInv(d)'
<1> USE DEF TypeOK, IngressTypeOK, FileTypeOK, StepOf, PlaceInv, Goes, Ends, Fault, file, Working
<1>1. CASE Decide(d)
  <2>1. sent[d].event \in Event
    BY <1>1, SentTypes DEF Decide
  <2>2. Replayed(d) \in Answers
    BY <2>1, ReplayedType
  <2>3. TypeOK'
    BY <1>1, <2>2, RecordTypes DEF Decide, records
  <2>4. StepOf(d)
    BY <1>1, <2>2, RecordTypes DEF Decide, records
  <2>5. PlaceInv(d)'
    BY <1>1, <2>2, RecordTypes DEF Decide, records
  <2>6. QED
    BY <2>3, <2>4, <2>5
<1>2. CASE Append(d)
  <2>1. nonces' \subseteq Nonce /\ events' \in [Event -> Records]
    BY <1>2, LineFacts DEF Append
  <2>2. QED
    BY <1>2, <2>1, RecordTypes DEF Append
<1>3. CASE AppendFails(d)
  <2>1. nonces' \subseteq Nonce /\ events' \in [Event -> Records]
    BY <1>3, LineFacts DEF AppendFails
  <2>2. torn' \in BOOLEAN
    BY <1>3 DEF AppendFails
  <2>3. faults' \in 0 .. MaxFaults
    BY <1>3, FaultsAssumption DEF AppendFails
  <2>4. QED
    BY <1>3, <2>1, <2>2, <2>3, RecordTypes DEF AppendFails
<1>4. CASE FileCrash(d)
  <2>1. torn' \in BOOLEAN
    BY <1>4 DEF FileCrash
  <2>2. faults' \in 0 .. MaxFaults
    BY <1>4, FaultsAssumption DEF FileCrash
  <2>3. QED
    BY <1>4, <2>1, <2>2, RecordTypes DEF FileCrash, records
<1>5. QED
  BY <1>1, <1>2, <1>3, <1>4

LEMMA ValkeyPlaces ==
  ASSUME TypeOK, NEW d \in Delivery, PlaceInv(d), binding = "valkey", binding' = binding,
         UNCHANGED file,
         ValkeyStep(d) \/ CommandFails(d) \/ ValkeyCrash(d)
  PROVE  TypeOK' /\ StepOf(d) /\ PlaceInv(d)'
<1> USE DEF TypeOK, IngressTypeOK, FileTypeOK, StepOf, PlaceInv, Goes, Ends, Fault, file,
            records, Working
<1>1. CASE GetEvent(d)
  <2>1. sent[d].event \in Event
    BY <1>1, SentTypes DEF GetEvent
  <2>2. Replayed(d) \in Answers
    BY <2>1, ReplayedType
  <2>3. TypeOK'
    <3>1. answer' \in [Delivery -> Answers]
      BY <1>1, <2>2 DEF GetEvent
    <3>2. pc' \in [Delivery -> Working \cup {"new", "done"}]
      BY <1>1 DEF GetEvent
    <3>3. QED
      BY <1>1, <3>1, <3>2 DEF GetEvent
  <2>4. StepOf(d)
    BY <1>1 DEF GetEvent
  <2>5. PlaceInv(d)'
    BY <1>1 DEF GetEvent
  <2>6. QED
    BY <2>3, <2>4, <2>5
<1>2. CASE SetNonce(d)
  <2>1. nonces' \subseteq Nonce
    BY <1>2, SentTypes DEF SetNonce
  <2>2. answer' \in [Delivery -> Answers]
    BY <1>2, RecordTypes DEF SetNonce
  <2>3. pc' \in [Delivery -> Working \cup {"new", "done"}]
    BY <1>2 DEF SetNonce
  <2>4. TypeOK'
    BY <1>2, <2>1, <2>2, <2>3 DEF SetNonce
  <2>5. StepOf(d)
    BY <1>2, RecordTypes DEF SetNonce
  <2>6. PlaceInv(d)'
    BY <1>2, RecordTypes DEF SetNonce
  <2>7. QED
    BY <2>4, <2>5, <2>6
<1>3. CASE SetEvent(d)
  BY <1>3, RecordTypes DEF SetEvent
<1>4. CASE CommandFails(d)
  BY <1>4, RecordTypes, FaultsAssumption DEF CommandFails
<1>5. CASE ValkeyCrash(d)
  BY <1>5, RecordTypes, FaultsAssumption DEF ValkeyCrash
<1>6. QED
  BY <1>1, <1>2, <1>3, <1>4, <1>5 DEF ValkeyStep

LEMMA StepPlaces ==
  ASSUME IInv, NEW d \in Delivery, Step(d) \/ Environment(d)
  PROVE  TypeOK' /\ StepOf(d) /\ \A x \in Delivery : PlaceInv(x)'
<1>1. TypeOK /\ \A x \in Delivery : PlaceInv(x)
  BY DEF IInv
<1>2. TypeOK' /\ StepOf(d) /\ PlaceInv(d)'
  BY <1>1, IngressPlaces, LockPlaces, LogPlaces, ValkeyPlaces DEF Step, Environment, FileStep
<1>3. ASSUME NEW x \in Delivery \ {d}
      PROVE  PlaceInv(x)'
  BY <1>1, <1>2, <1>3 DEF StepOf, PlaceInv
<1>4. QED
  BY <1>2, <1>3

\* The steps of a delivery, by what they may disturb.
LEMMA StepKinds ==
  ASSUME NEW d \in Delivery, Step(d) \/ Environment(d)
  PROVE  \/ /\ Arrive(d) \/ ArriveUnverified(d) \/ DispatchCommits(d) \/ DispatchRefused(d)
               \/ DispatchFails(d)
            /\ UNCHANGED file
         \/ /\ binding = "file"
            /\ \/ OpenLock(d) \/ StatLock(d) \/ BreakLock(d) \/ Release(d)
               \/ Decide(d) \/ Append(d) \/ AppendFails(d) \/ FileCrash(d)
         \/ /\ binding = "valkey"
            /\ GetEvent(d) \/ SetNonce(d) \/ SetEvent(d) \/ CommandFails(d) \/ ValkeyCrash(d)
            /\ UNCHANGED file
BY DEF Step, Environment, FileStep, ValkeyStep

-----------------------------------------------------------------------------
(* The lock                                                                *)

LEMMA LockStays ==
  ASSUME LockInv, NEW d \in Delivery, StepOf(d), lock' = lock, raced' = raced,
         Critical(d)' => Critical(d)
  PROVE  LockInv'
<1>1. \A x \in Delivery : Critical(x)' => Critical(x)
  BY DEF StepOf, Critical
<1>2. QED
  BY <1>1 DEF LockInv, LockIsExclusive

LEMMA LockKept ==
  ASSUME IInv, NEW d \in Delivery, Step(d) \/ Environment(d)
  PROVE  LockInv'
<1>1. TypeOK /\ LockInv /\ StepOf(d)
  BY StepPlaces DEF IInv
<1>2. pc'[d] \in Working \cup {"new", "done"} /\ pc \in [Delivery -> Working \cup {"new", "done"}]
  BY StepPlaces, <1>1 DEF TypeOK, IngressTypeOK
<1> USE DEF TypeOK, IngressTypeOK, FileTypeOK, Goes, Ends, file, Critical
<1>3. CASE OpenLock(d)
  <2>1. CASE lock = "free"
    <3>1. ~raced' => \A x \in Delivery : ~Critical(x)
      BY <1>1, <1>3, <2>1 DEF OpenLock, LockInv
    <3>2. ~raced' => lock' = "held" /\ \A x \in Delivery : Critical(x)' => x = d
      BY <1>1, <1>3, <2>1, <3>1 DEF OpenLock, StepOf
    <3>3. QED
      BY <3>2 DEF LockInv, LockIsExclusive
  <2>2. CASE lock # "free"
    BY <1>1, <1>3, <2>2, LockStays DEF OpenLock
  <2>3. QED
    BY <2>1, <2>2
<1>4. CASE StatLock(d)
  BY <1>1, <1>4, LockStays DEF StatLock, Again, Unavailable
<1>5. CASE BreakLock(d)
  <2>1. ~raced' => \A x \in Delivery : ~Critical(x)
    BY <1>1, <1>5 DEF BreakLock, LockInv
  <2>2. pc'[d] \in {"store", "done"}
    BY <1>1, <1>5 DEF BreakLock, Again, Unavailable
  <2>3. ~raced' => \A x \in Delivery : ~Critical(x)'
    BY <1>1, <2>1, <2>2 DEF StepOf
  <2>4. QED
    BY <2>3 DEF LockInv, LockIsExclusive
<1>6. CASE Release(d)
  <2>1. ~raced' => \A x \in Delivery : Critical(x) => x = d
    BY <1>1, <1>6 DEF Release, LockInv, LockIsExclusive
  <2>2. pc'[d] \in {"dispatch", "done"}
    BY <1>1, <1>6 DEF Release
  <2>3. ~raced' => \A x \in Delivery : ~Critical(x)'
    BY <1>1, <2>1, <2>2 DEF StepOf
  <2>4. QED
    BY <2>3 DEF LockInv, LockIsExclusive
<1>7. CASE Decide(d) \/ Append(d) \/ AppendFails(d) \/ FileCrash(d)
  <2>1. lock' = lock /\ raced' = raced
    BY <1>7 DEF Decide, Append, AppendFails, FileCrash
  <2>2. Critical(d) \/ pc'[d] = "done"
    BY <1>1, <1>7 DEF Decide, Append, AppendFails, FileCrash
  <2>3. QED
    BY <1>1, <2>1, <2>2, LockStays
<1>8. CASE /\ \/ Arrive(d) \/ ArriveUnverified(d) \/ DispatchCommits(d)
              \/ DispatchRefused(d) \/ DispatchFails(d)
              \/ GetEvent(d) \/ SetNonce(d) \/ SetEvent(d) \/ CommandFails(d) \/ ValkeyCrash(d)
           /\ UNCHANGED file
  <2>1. pc'[d] \in {"store", "setnx", "dispatch", "done"}
    BY <1>1, <1>8
      DEF Arrive, ArriveUnverified, DispatchCommits, DispatchRefused, DispatchFails,
          GetEvent, SetNonce, SetEvent, CommandFails, ValkeyCrash
  <2>2. QED
    BY <1>1, <1>8, <2>1, LockStays
<1>9. QED
  BY <1>3, <1>4, <1>5, <1>6, <1>7, <1>8, StepKinds

-----------------------------------------------------------------------------
(* The records                                                             *)

LEMMA RecordsStay ==
  ASSUME IInv, NEW d \in Delivery, StepOf(d), sent[d].event \in Event \/ events' = events,
         \/ events' = events
         \/ events' = [events EXCEPT ![sent[d].event] = [state |-> "CLAIMED", of |-> None]]
         \/ /\ phase[d] = "complete"
            /\ events' = [events EXCEPT ![sent[d].event] = [state |-> "ANSWERED", of |-> d]]
  PROVE  RecordsInv'
<1>1. TypeOK /\ RecordsInv /\ \A x \in Delivery : PlaceInv(x)
  BY DEF IInv
<1>2. ASSUME NEW o \in Delivery \ past, phase[o] = "complete"
      PROVE  o \notin past' /\ phase'[o] = "complete" /\ sent'[o] = sent[o]
  BY <1>1, <1>2 DEF StepOf, PlaceInv
<1>3. d \notin past
  BY <1>1 DEF StepOf, PlaceInv
<1>4. SUFFICES ASSUME NEW e \in Event
      PROVE  /\ events'[e].state # "ANSWERED" => events'[e].of = None
             /\ events'[e].state = "ANSWERED" =>
                  /\ events'[e].of \in Delivery \ past
                  /\ phase[events'[e].of] = "complete"
                  /\ sent[events'[e].of].event = e
  BY <1>2 DEF RecordsInv
<1>5. \/ events'[e] = events[e]
      \/ events'[e] = [state |-> "CLAIMED", of |-> None]
      \/ /\ phase[d] = "complete" /\ sent[d].event = e
         /\ events'[e] = [state |-> "ANSWERED", of |-> d]
  BY <1>1 DEF TypeOK, IngressTypeOK
<1>6. QED
  BY <1>1, <1>3, <1>5 DEF RecordsInv

LEMMA RecordsKept ==
  ASSUME IInv, NEW d \in Delivery, Step(d) \/ Environment(d)
  PROVE  RecordsInv'
<1>1. TypeOK /\ PlaceInv(d) /\ StepOf(d)
  BY StepPlaces DEF IInv
<1>2. CASE events' = events
  BY <1>1, <1>2, RecordsStay
<1>3. CASE Append(d) \/ AppendFails(d)
  <2>1. pc[d] \in {"nonce", "event", "respond"} /\ (Line(d) \/ UNCHANGED records)
    BY <1>3 DEF Append, AppendFails
  <2>2. sent[d].event \in Event /\ (pc[d] = "respond" => phase[d] = "complete")
    BY <1>1, <2>1, SentTypes DEF Working, PlaceInv
  <2>3. QED
    BY <1>1, <2>1, <2>2, LineFacts, RecordsStay
<1>4. CASE SetEvent(d) \/ CommandFails(d)
  <2>1. sent[d].event \in Event
    BY <1>1, <1>4, SentTypes DEF Working, SetEvent, CommandFails
  <2>2. QED
    BY <1>1, <1>4, <2>1, RecordsStay DEF SetEvent, CommandFails, records
<1>5. QED
  BY <1>2, <1>3, <1>4, StepKinds
    DEF Arrive, ArriveUnverified, DispatchCommits, DispatchRefused, DispatchFails,
        OpenLock, StatLock, BreakLock, Release, Decide, FileCrash,
        GetEvent, SetNonce, ValkeyCrash, records

-----------------------------------------------------------------------------
(* The log                                                                 *)

\* What a step of d does to the claims of the log: records come and do not go, d is
\* past its claim with a line of its own alone, and comes to one with nothing of its
\* event, nor an unfinished line, before it.
LogStep(d) ==
  /\ raced => raced'
  /\ (events' = events /\ torn' = torn) \/ Critical(d)
  /\ \A e \in Event : events[e] # NoRecord => events'[e] # NoRecord
  /\ Claimed(d)' => Claimed(d) \/ (pc[d] = "event" /\ RecordOf(d)' # NoRecord)
  /\ pc'[d] \in {"nonce", "event"} => RecordOf(d)' = NoRecord
  /\ pc'[d] = "event" => ~torn'

LEMMA LogStays ==
  ASSUME IInv, NEW d \in Delivery, StepOf(d),
         binding = "file" /\ ~raced' => LogStep(d)
  PROVE  LogInv'
<1>1. SUFFICES ASSUME binding = "file", ~raced'
      PROVE  /\ \A x \in Delivery \ past : Claimed(x)' => RecordOf(x)' # NoRecord
             /\ \A a, b \in Delivery \ past :
                  Claimed(a)' /\ Claimed(b)' /\ sent'[a].event = sent'[b].event => a = b
             /\ \A x \in Delivery : pc'[x] \in {"nonce", "event"} => RecordOf(x)' = NoRecord
             /\ \A x \in Delivery : pc'[x] = "event" => ~torn'
  BY DEF LogInv, StepOf
<1>2. /\ TypeOK /\ \A x \in Delivery : PlaceInv(x)
      /\ LogStep(d) /\ ~raced
      /\ \A a, b \in Delivery : Critical(a) /\ Critical(b) => a = b
  BY <1>1 DEF IInv, LogStep, LockInv, LockIsExclusive
<1>3. /\ \A x \in Delivery \ past : Claimed(x) => RecordOf(x) # NoRecord
      /\ \A a, b \in Delivery \ past :
           Claimed(a) /\ Claimed(b) /\ sent[a].event = sent[b].event => a = b
      /\ \A x \in Delivery : pc[x] \in {"nonce", "event"} => RecordOf(x) = NoRecord
      /\ \A x \in Delivery : pc[x] = "event" => ~torn
  BY <1>1, <1>2 DEF IInv, LogInv
<1>4. ASSUME NEW x \in Delivery \ {d}
      PROVE  /\ Claimed(x)' <=> Claimed(x)
             /\ sent'[x] = sent[x] /\ pc'[x] = pc[x]
  BY <1>4 DEF StepOf, Claimed
<1>5. Claimed(d)' =>
        /\ sent'[d] = sent[d] /\ d \notin past
        /\ RecordOf(d)' # NoRecord
        /\ Claimed(d) \/ RecordOf(d) = NoRecord
  <2>1. ASSUME Claimed(d)'
        PROVE  sent'[d] = sent[d] /\ d \notin past
    BY <1>2, <2>1 DEF StepOf, LogStep, PlaceInv, Claimed
  <2>2. ASSUME Claimed(d)
        PROVE  sent[d].event \in Event
    BY <1>2, <2>2, SentTypes DEF PlaceInv, Claimed, Working
  <2>3. QED
    BY <1>2, <1>3, <2>1, <2>2 DEF LogStep, RecordOf
<1>6. \A x \in Delivery : Claimed(x) => sent[x].event \in Event
  BY <1>2, SentTypes DEF PlaceInv, Claimed, Working
<1>7. \A x \in Delivery \ past : Claimed(x)' => RecordOf(x)' # NoRecord
  BY <1>2, <1>3, <1>4, <1>5, <1>6 DEF LogStep, RecordOf
<1>8. ASSUME NEW a \in Delivery \ past, NEW b \in Delivery \ past,
             Claimed(a)', Claimed(b)', sent'[a].event = sent'[b].event
      PROVE  a = b
  <2>1. CASE a # d /\ b # d
    BY <1>3, <1>4, <1>8, <2>1
  <2>2. ASSUME NEW x \in Delivery \ past, x # d, Claimed(x)', Claimed(d)',
               sent'[x].event = sent'[d].event
        PROVE  FALSE
    <3>1. Claimed(x) /\ sent[x].event = sent[d].event /\ d \notin past
      BY <1>4, <1>5, <2>2
    <3>2. RecordOf(d) # NoRecord
      BY <1>3, <3>1, <2>2 DEF RecordOf
    <3>3. QED
      BY <1>3, <1>5, <2>2, <3>1, <3>2
  <2>3. QED
    BY <1>8, <2>1, <2>2
<1>9. ASSUME NEW x \in Delivery, pc'[x] \in {"nonce", "event"}
      PROVE  /\ RecordOf(x)' = NoRecord
             /\ pc'[x] = "event" => ~torn'
  <2>1. CASE x = d
    BY <1>2, <1>9, <2>1 DEF LogStep
  <2>2. CASE x # d
    <3>1. Critical(x) /\ ~Critical(d) /\ sent'[x] = sent[x]
      BY <1>2, <1>4, <1>9, <2>2 DEF Critical
    <3>2. QED
      BY <1>2, <1>3, <1>4, <1>9, <2>2, <3>1 DEF LogStep, RecordOf
  <2>3. QED
    BY <2>1, <2>2
<1>10. QED
  BY <1>7, <1>8, <1>9

LEMMA LogKept ==
  ASSUME IInv, NEW d \in Delivery, Step(d) \/ Environment(d)
  PROVE  LogInv'
<1>1. TypeOK /\ PlaceInv(d) /\ StepOf(d) /\ PlaceInv(d)'
  BY StepPlaces DEF IInv
<1>2. SUFFICES ASSUME binding = "file", ~raced'
      PROVE  LogStep(d)
  BY <1>1, LogStays
<1>3. pc[d] \in {"nonce", "event"} /\ ~raced =>
        /\ RecordOf(d) = NoRecord
        /\ pc[d] = "event" => ~torn
  BY <1>2 DEF IInv, LogInv
<1> USE DEF TypeOK, IngressTypeOK, LogStep, Goes, Ends, Claimed, Critical
<1>4. CASE /\ \/ Arrive(d) \/ ArriveUnverified(d) \/ DispatchCommits(d)
              \/ DispatchRefused(d) \/ DispatchFails(d)
           /\ UNCHANGED file
  BY <1>1, <1>4 DEF Arrive, ArriveUnverified, DispatchCommits, DispatchRefused, DispatchFails,
    file, records
<1>5. CASE OpenLock(d) \/ StatLock(d) \/ BreakLock(d) \/ Release(d)
  <2>1. /\ events' = events /\ torn' = torn
        /\ phase' = phase /\ effect' = effect
    BY <1>5 DEF OpenLock, StatLock, BreakLock, Release, records
  <2>2. raced => raced'
    BY <1>5 DEF OpenLock, StatLock, BreakLock, Release
  <2>3. pc'[d] \in {"locked", "stat", "store", "break", "done", "dispatch"}
    BY <1>1, <1>5 DEF OpenLock, StatLock, BreakLock, Release, Again, Unavailable
  <2>4. pc'[d] = "dispatch" => Claimed(d)
    BY <1>1, <1>5 DEF OpenLock, StatLock, BreakLock, Release, Again, Unavailable
  <2>5. QED
    BY <2>1, <2>2, <2>3, <2>4
<1>6. CASE Decide(d)
  BY <1>1, <1>6 DEF Decide, Reply, Replayed, RecordOf, file, records
<1>7. CASE FileCrash(d)
  BY <1>1, <1>7 DEF FileCrash, records
<1>8. CASE Append(d) \/ AppendFails(d)
  <2>1. /\ pc[d] \in {"nonce", "event", "respond"}
        /\ raced' = raced
        /\ Line(d) \/ UNCHANGED records
        /\ sent' = sent /\ phase' = phase /\ effect' = effect
    BY <1>8 DEF Append, AppendFails
  <2>2. sent[d].event \in Event
    BY <1>1, <2>1, SentTypes DEF Working
  <2>3. \A e \in Event : events[e] # NoRecord => events'[e] # NoRecord
    BY <1>1, <2>1, LineFacts, RecordTypes
  <2>4. CASE Append(d) /\ pc[d] = "nonce"
    <3>1. events' = events
      BY <1>1, <2>1, <2>4, LineFacts
    <3>2. QED
      BY <1>1, <1>2, <1>3, <2>1, <2>2, <2>3, <2>4, <3>1 DEF Append, RecordOf
  <2>5. CASE Append(d) /\ pc[d] = "event"
    <3>1. ~torn /\ Line(d)
      BY <1>2, <1>3, <2>1, <2>5 DEF Append
    <3>2. events' = [events EXCEPT ![sent[d].event] = [state |-> "CLAIMED", of |-> None]]
      BY <2>5, <3>1 DEF Line, EventLine
    <3>3. RecordOf(d)' # NoRecord
      BY <1>1, <2>1, <2>2, <3>2, RecordTypes DEF RecordOf
    <3>4. QED
      BY <1>1, <2>1, <2>3, <2>5, <3>3 DEF Append
  <2>6. CASE Append(d) /\ pc[d] = "respond"
    BY <1>1, <2>1, <2>3, <2>6 DEF Append, PlaceInv
  <2>7. CASE AppendFails(d)
    BY <1>1, <2>1, <2>3, <2>7 DEF AppendFails, Reply
  <2>8. QED
    BY <1>8, <2>1, <2>4, <2>5, <2>6, <2>7
<1>9. QED
  BY <1>2, <1>4, <1>5, <1>6, <1>7, <1>8, StepKinds

-----------------------------------------------------------------------------
(* The keys of the coordination store                                      *)

\* A nonce once set stays, and d is past its claim if it is the one that set it.
KeyStep(d) ==
  /\ nonces \subseteq nonces'
  /\ Claimed(d)' =>
       \/ Claimed(d)
       \/ pc[d] = "setnx" /\ sent[d].nonce \in nonces' \ nonces

LEMMA KeysStay ==
  ASSUME IInv, NEW d \in Delivery, StepOf(d), binding = "valkey" => KeyStep(d)
  PROVE  KeysInv'
<1>1. SUFFICES ASSUME binding = "valkey"
      PROVE  /\ \A x \in Delivery \ past : Claimed(x)' => sent'[x].nonce \in nonces'
             /\ \A a, b \in Delivery \ past :
                  Claimed(a)' /\ Claimed(b)' /\ sent'[a].nonce = sent'[b].nonce => a = b
  BY DEF KeysInv, StepOf
<1>2. KeyStep(d) /\ PlaceInv(d)
  BY <1>1 DEF IInv
<1>3. /\ \A x \in Delivery \ past : Claimed(x) => sent[x].nonce \in nonces
      /\ \A a, b \in Delivery \ past :
           Claimed(a) /\ Claimed(b) /\ sent[a].nonce = sent[b].nonce => a = b
  BY <1>1 DEF IInv, KeysInv
<1>4. ASSUME NEW x \in Delivery \ {d}
      PROVE  (Claimed(x)' <=> Claimed(x)) /\ sent'[x] = sent[x]
  BY <1>4 DEF StepOf, Claimed
<1>5. Claimed(d)' =>
        /\ sent'[d] = sent[d] /\ d \notin past
        /\ sent[d].nonce \in nonces'
        /\ Claimed(d) \/ sent[d].nonce \notin nonces
  <2>1. ASSUME Claimed(d)'
        PROVE  sent'[d] = sent[d] /\ d \notin past
    BY <1>2, <2>1 DEF StepOf, KeyStep, PlaceInv, Claimed
  <2>2. QED
    BY <1>2, <1>3, <2>1 DEF KeyStep
<1>6. \A x \in Delivery \ past : Claimed(x)' => sent'[x].nonce \in nonces'
  BY <1>2, <1>3, <1>4, <1>5 DEF KeyStep
<1>7. ASSUME NEW a \in Delivery \ past, NEW b \in Delivery \ past,
             Claimed(a)', Claimed(b)', sent'[a].nonce = sent'[b].nonce
      PROVE  a = b
  <2>1. CASE a # d /\ b # d
    BY <1>3, <1>4, <1>7, <2>1
  <2>2. ASSUME NEW x \in Delivery \ past, x # d, Claimed(x)', Claimed(d)',
               sent'[x].nonce = sent'[d].nonce
        PROVE  FALSE
    <3>1. Claimed(x) /\ sent[x].nonce = sent[d].nonce /\ d \notin past
      BY <1>4, <1>5, <2>2
    <3>2. QED
      BY <1>3, <1>5, <2>2, <3>1
  <2>3. QED
    BY <1>7, <2>1, <2>2
<1>8. QED
  BY <1>6, <1>7

LEMMA KeysKept ==
  ASSUME IInv, NEW d \in Delivery, Step(d) \/ Environment(d)
  PROVE  KeysInv'
<1>1. TypeOK /\ PlaceInv(d) /\ StepOf(d)
  BY StepPlaces DEF IInv
<1>2. SUFFICES ASSUME binding = "valkey"
      PROVE  KeyStep(d)
  BY <1>1, KeysStay
<1> USE DEF TypeOK, IngressTypeOK, KeyStep, Goes, Ends, Claimed
<1>3. CASE Arrive(d) \/ ArriveUnverified(d) \/ DispatchCommits(d) \/ DispatchRefused(d)
             \/ DispatchFails(d)
  BY <1>1, <1>3 DEF Arrive, ArriveUnverified, DispatchCommits, DispatchRefused, DispatchFails,
    records
<1>4. CASE GetEvent(d) \/ SetEvent(d) \/ ValkeyCrash(d)
  BY <1>1, <1>4 DEF GetEvent, SetEvent, ValkeyCrash, records
<1>5. CASE SetNonce(d)
  BY <1>1, <1>5 DEF SetNonce
<1>6. CASE CommandFails(d)
  BY <1>1, <1>6 DEF CommandFails, records
<1>7. QED
  BY <1>2, <1>3, <1>4, <1>5, <1>6, StepKinds

-----------------------------------------------------------------------------
(* What is reproduced                                                      *)

LEMMA ReplayStays ==
  ASSUME IInv, NEW d \in Delivery, StepOf(d),
         \/ answer'[d] = answer[d]
         \/ answer'[d].kind # "REPLAYED"
         \/ answer'[d] = Replayed(d) /\ phase[d] = "begin" /\ pc[d] # "new"
  PROVE  ReplayIsOriginal'
<1>1. SUFFICES ASSUME NEW a \in Delivery, answer'[a].kind = "REPLAYED", answer'[a].of # None
      PROVE  /\ answer'[a].of \in effect'
             /\ answer'[a].of # a
             /\ sent'[answer'[a].of].event = sent'[a].event
  BY DEF ReplayIsOriginal
<1>2. TypeOK /\ RecordsInv /\ ReplayIsOriginal /\ \A x \in Delivery : PlaceInv(x)
  BY DEF IInv
<1>3. \A o \in effect : o \in Delivery /\ o \in effect' /\ sent'[o] = sent[o]
  BY <1>2 DEF StepOf, PlaceInv, TypeOK, IngressTypeOK
<1>4. CASE answer'[a] = answer[a]
  <2>1. pc[a] # "new"
    BY <1>1, <1>2, <1>4 DEF PlaceInv
  <2>2. sent'[a] = sent[a]
    BY <2>1 DEF StepOf
  <2>3. QED
    BY <1>1, <1>2, <1>3, <1>4, <2>2 DEF ReplayIsOriginal
<1>5. CASE a = d /\ answer'[d] = Replayed(d) /\ phase[d] = "begin" /\ pc[d] # "new"
  <2>1. sent'[d] = sent[d] /\ sent[d].event \in Event
    BY <1>2, <1>5, SentTypes DEF StepOf, TypeOK, IngressTypeOK, Working
  <2>2. answer'[d].of = RecordOf(d).of
    BY <1>5 DEF Replayed
  <2>3. /\ RecordOf(d).of \in Delivery
        /\ phase[RecordOf(d).of] = "complete"
        /\ sent[RecordOf(d).of].event = sent[d].event
    BY <1>1, <1>2, <1>5, <2>1, <2>2 DEF RecordsInv, RecordOf
  <2>4. RecordOf(d).of \in effect /\ RecordOf(d).of # d
    BY <1>2, <1>5, <2>3 DEF PlaceInv
  <2>5. QED
    BY <1>3, <1>5, <2>1, <2>2, <2>3, <2>4
<1>6. QED
  BY <1>1, <1>4, <1>5 DEF StepOf

LEMMA ReplayKept ==
  ASSUME IInv, NEW d \in Delivery, Step(d) \/ Environment(d)
  PROVE  ReplayIsOriginal'
<1>1. TypeOK /\ StepOf(d)
  BY StepPlaces DEF IInv
<1> USE DEF TypeOK, IngressTypeOK, Goes, Ends, Reply
<1>2. CASE Arrive(d) \/ ArriveUnverified(d) \/ DispatchCommits(d) \/ DispatchRefused(d)
             \/ DispatchFails(d)
  BY <1>1, <1>2, ReplayStays
    DEF Arrive, ArriveUnverified, DispatchCommits, DispatchRefused, DispatchFails
<1>3. CASE OpenLock(d) \/ StatLock(d) \/ BreakLock(d) \/ Release(d)
  BY <1>1, <1>3, ReplayStays DEF OpenLock, StatLock, BreakLock, Release, Again, Unavailable
<1>4. CASE Decide(d)
  BY <1>1, <1>4, ReplayStays DEF Decide
<1>5. CASE Append(d) \/ AppendFails(d) \/ FileCrash(d)
  BY <1>1, <1>5, ReplayStays DEF Append, AppendFails, FileCrash
<1>6. CASE GetEvent(d)
  BY <1>1, <1>6, ReplayStays DEF GetEvent
<1>7. CASE SetNonce(d) \/ SetEvent(d) \/ CommandFails(d) \/ ValkeyCrash(d)
  BY <1>1, <1>7, ReplayStays DEF SetNonce, SetEvent, CommandFails, ValkeyCrash
<1>8. QED
  BY <1>2, <1>3, <1>4, <1>5, <1>6, <1>7, StepKinds

-----------------------------------------------------------------------------
(* The invariant                                                           *)

LEMMA InitInv == Init => IInv
<1> SUFFICES ASSUME Init
    PROVE  IInv
  OBVIOUS
<1> USE DEF Init, IngressInit, FileInit
<1>1. TypeOK
  <2>1. /\ pc \in [Delivery -> Working \cup {"new", "done"}]
        /\ phase \in [Delivery -> {"begin", "complete"}]
        /\ sent \in [Delivery -> [nonce: Nonce \cup {None}, event: Event \cup {None}]]
    OBVIOUS
  <2>2. answer \in [Delivery -> Answers] /\ events \in [Event -> Records]
    BY RecordTypes
  <2>3. faults \in 0 .. MaxFaults
    BY FaultsAssumption
  <2>4. QED
    BY <2>1, <2>2, <2>3 DEF TypeOK, IngressTypeOK, FileTypeOK
<1>2. \A d \in Delivery : PlaceInv(d)
  BY DEF PlaceInv, Reply, Working
<1>3. LockInv /\ RecordsInv
  BY DEF LockInv, LockIsExclusive, Critical, RecordsInv, NoRecord
<1>4. LogInv /\ KeysInv /\ ReplayIsOriginal
  BY DEF LogInv, KeysInv, Claimed, ReplayIsOriginal, Reply
<1>5. QED
  BY <1>1, <1>2, <1>3, <1>4 DEF IInv

\* When every record goes, whoever is over is past, and nobody else has begun.
LEMMA HourInv ==
  ASSUME IInv, HourPasses
  PROVE  IInv'
<1>1. TypeOK /\ ReplayIsOriginal /\ \A d \in Delivery : PlaceInv(d)
  BY DEF IInv
<1>2. TypeOK'
  BY <1>1, RecordTypes DEF HourPasses, TypeOK, IngressTypeOK, FileTypeOK
<1>3. \A d \in Delivery : PlaceInv(d)'
  BY <1>1 DEF HourPasses, PlaceInv
<1>4. \A d \in Delivery : ~Critical(d)'
  BY DEF HourPasses, Critical
<1>5. \A d \in Delivery \ past' : pc'[d] = "new" /\ ~Claimed(d)'
  BY <1>1 DEF HourPasses, PlaceInv, Claimed
<1>6. LockInv'
  BY <1>4 DEF LockInv, LockIsExclusive
<1>7. RecordsInv'
  BY DEF HourPasses, RecordsInv, NoRecord
<1>8. LogInv' /\ KeysInv'
  BY <1>4, <1>5 DEF LogInv, KeysInv, Critical
<1>9. ReplayIsOriginal'
  BY <1>1 DEF HourPasses, ReplayIsOriginal
<1>10. QED
  BY <1>2, <1>3, <1>6, <1>7, <1>8, <1>9 DEF IInv

LEMMA NextInv == IInv /\ [Next]_vars => IInv'
<1> SUFFICES ASSUME IInv, [Next]_vars
    PROVE  IInv'
  OBVIOUS
<1>1. ASSUME NEW d \in Delivery, Step(d) \/ Environment(d)
      PROVE  IInv'
  BY <1>1, StepPlaces, LockKept, RecordsKept, LogKept, KeysKept, ReplayKept DEF IInv
<1>2. CASE HourPasses
  BY <1>2, HourInv
<1>3. CASE UNCHANGED vars
  BY <1>3 DEF vars, ingress, records, file, IInv, TypeOK, IngressTypeOK, FileTypeOK, PlaceInv,
    LockInv, LockIsExclusive, Critical, RecordsInv, LogInv, KeysInv, Claimed, RecordOf,
    ReplayIsOriginal
<1>4. QED
  BY <1>1, <1>2, <1>3 DEF Next

\* For any number of deliveries, nonces, events and faults and either binding, IInv
\* holds throughout: it is what the four results below follow from.
THEOREM InvariantHolds == Spec => []IInv
<1>1. Init => IInv
  BY InitInv
<1>2. IInv /\ [Next]_vars => IInv'
  BY NextInv
<1>3. QED
  BY <1>1, <1>2, PTL DEF Spec

-----------------------------------------------------------------------------
(* The results                                                             *)

\* FileReplayStore: #acquire lets one process in at a time, until one breaks a lock
\* that is no longer the stale one it looked at.
THEOREM LockIsExclusiveHolds == Spec => []LockIsExclusive
<1>1. IInv => LockIsExclusive
  BY DEF IInv, LockInv, LockIsExclusive
<1>2. QED
  BY <1>1, InvariantHolds, PTL

\* Section 6.2: while a record lives, copies of a delivery take effect at most once,
\* for an event id with the log and for a nonce with the coordination store.
THEOREM AtMostOneEffectHolds == Spec => []AtMostOneEffect
<1>1. IInv => AtMostOneEffect
  <2> SUFFICES ASSUME IInv, ~raced, NEW a \in effect \ past, NEW b \in effect \ past, a # b
      PROVE  /\ sent[a] # sent[b]
             /\ binding = "file" => sent[a].event # sent[b].event
             /\ binding = "valkey" => sent[a].nonce # sent[b].nonce
    BY DEF AtMostOneEffect
  <2>1. a \in Delivery \ past /\ b \in Delivery \ past /\ Claimed(a) /\ Claimed(b)
    BY DEF IInv, TypeOK, IngressTypeOK, Claimed
  <2>2. binding \in {"file", "valkey"}
    BY BindingsAssumption DEF IInv, TypeOK
  <2>3. binding = "file" => sent[a].event # sent[b].event
    BY <2>1 DEF IInv, LogInv
  <2>4. binding = "valkey" => sent[a].nonce # sent[b].nonce
    BY <2>1 DEF IInv, KeysInv
  <2>5. QED
    BY <2>2, <2>3, <2>4
<1>2. QED
  BY <1>1, InvariantHolds, PTL

\* A stored response is reproduced to a delivery of the event it answered, and
\* another's command committed to earn it.
THEOREM ReplayIsOriginalHolds == Spec => []ReplayIsOriginal
<1>1. IInv => ReplayIsOriginal
  BY DEF IInv
<1>2. QED
  BY <1>1, InvariantHolds, PTL

\* FileReplayStore: no later line of the log gets in front of a response.
THEOREM ResponseStandsHolds == Spec => ResponseStands
<1>1. ASSUME IInv, IInv', [Next]_vars, binding = "file", ~raced', NEW e \in Event,
             events[e].state = "ANSWERED", past' = past
      PROVE  events'[e] = events[e]
  <2>1. CASE UNCHANGED vars
    BY <2>1 DEF vars, records
  <2>2. ASSUME HourPasses
        PROVE  FALSE
    BY <1>1, <2>2 DEF HourPasses, IInv, PlaceInv
  <2>3. ASSUME NEW d \in Delivery, Step(d) \/ Environment(d), events' # events
        PROVE  events'[e] = events[e]
    <3>1. Append(d) \/ AppendFails(d)
      BY <1>1, <2>3, StepKinds
        DEF Arrive, ArriveUnverified, DispatchCommits, DispatchRefused, DispatchFails,
            OpenLock, StatLock, BreakLock, Release, Decide, FileCrash, records
    <3>2. /\ pc[d] \in {"nonce", "event", "respond"}
          /\ Line(d) \/ UNCHANGED records
          /\ ~raced
      BY <1>1, <3>1 DEF Append, AppendFails
    <3>3. TypeOK /\ PlaceInv(d) /\ sent[d].event \in Event
      BY <1>1, <3>2, SentTypes DEF IInv, Working
    <3>4. pc[d] = "event" => events[sent[d].event].state # "ANSWERED"
      BY <1>1, <3>2 DEF IInv, LogInv, RecordOf, NoRecord
    <3>5. ASSUME pc[d] = "respond", sent[d].event = e
          PROVE  events[e] = [state |-> "ANSWERED", of |-> d]
      <4>1. /\ events[e].of \in Delivery \ past
            /\ phase[events[e].of] = "complete"
            /\ sent[events[e].of].event = e
        BY <1>1 DEF IInv, RecordsInv
      <4>2. d \in Delivery \ past /\ Claimed(d) /\ Claimed(events[e].of)
        BY <3>3, <3>5, <4>1 DEF PlaceInv, Claimed
      <4>3. events[e].of = d
        BY <1>1, <3>2, <3>5, <4>1, <4>2 DEF IInv, LogInv
      <4>4. QED
        BY <1>1, <3>3, <4>3 DEF TypeOK, IngressTypeOK, Records
    <3>6. QED
      BY <1>1, <3>2, <3>3, <3>4, <3>5, LineFacts DEF TypeOK, IngressTypeOK
  <2>4. QED
    BY <1>1, <2>1, <2>2, <2>3 DEF Next
<1>2. IInv /\ IInv' /\ [Next]_vars =>
        [binding = "file" /\ ~raced' =>
           \A e \in Event :
             events[e].state = "ANSWERED" => events'[e] = events[e] \/ past' # past]_vars
  BY <1>1
<1>3. QED
  BY <1>2, InvariantHolds, PTL DEF Spec, ResponseStands

-----------------------------------------------------------------------------
(* The contract of the port                                                *)

\* What the contract sees of a state.
takenOf == IF binding = "file" THEN {e \in Event : events[e] # NoRecord} ELSE nonces
claimOf == [d \in Delivery |-> IF HasClaim(d) THEN KeyOf(d) ELSE None]
responseOf == [e \in Event |-> events[e].of]
toldOf == [d \in Delivery |-> IF IsTold(d) THEN answer[d].of ELSE None]

\* It sees of a step of d what becomes of d and of the store.
LEMMA SeenOfStep ==
  ASSUME NEW d \in Delivery, StepOf(d)
  PROVE  /\ claimOf' = [claimOf EXCEPT ![d] = IF HasClaim(d)' THEN KeyOf(d)' ELSE None]
         /\ toldOf' = [toldOf EXCEPT ![d] = IF IsTold(d)' THEN answer'[d].of ELSE None]
<1>1. \A x \in Delivery \ {d} :
        /\ HasClaim(x)' = HasClaim(x) /\ KeyOf(x)' = KeyOf(x)
        /\ IsTold(x)' = IsTold(x) /\ answer'[x].of = answer[x].of
  BY DEF StepOf, HasClaim, KeyOf, IsTold
<1>2. QED
  BY <1>1 DEF claimOf, toldOf

\* It sees nothing of a step that keeps records, effect, claim and answer.
LEMMA Unseen ==
  ASSUME NEW d \in Delivery, StepOf(d), raced' = raced, effect' = effect,
         takenOf' = takenOf, responseOf' = responseOf,
         HasClaim(d)' <=> HasClaim(d), HasClaim(d) => sent'[d] = sent[d],
         IsTold(d)' <=> IsTold(d), IsTold(d) => answer'[d] = answer[d]
  PROVE  UNCHANGED PerKey!vars
<1>1. claimOf' = claimOf
  <2>1. claimOf' = [claimOf EXCEPT ![d] = IF HasClaim(d) THEN KeyOf(d) ELSE None]
    BY SeenOfStep DEF KeyOf, StepOf
  <2>2. QED
    BY <2>1 DEF claimOf
<1>2. toldOf' = toldOf
  <2>1. toldOf' = [toldOf EXCEPT ![d] = IF IsTold(d) THEN answer[d].of ELSE None]
    BY SeenOfStep
  <2>2. QED
    BY <2>1 DEF toldOf
<1>3. QED
  BY <1>1, <1>2 DEF PerKey!vars, claimOf, toldOf, takenOf, responseOf

\* A delivery that has no claim, nor was told anything, as it was before.
LEMMA UnseenWithout ==
  ASSUME NEW d \in Delivery, StepOf(d), raced' = raced, effect' = effect,
         takenOf' = takenOf, responseOf' = responseOf,
         ~HasClaim(d), ~HasClaim(d)', ~IsTold(d), ~IsTold(d)'
  PROVE  UNCHANGED PerKey!vars
<1>1. claimOf' = claimOf /\ toldOf' = toldOf
  BY SeenOfStep DEF claimOf, toldOf
<1>2. QED
  BY <1>1 DEF PerKey!vars, claimOf, toldOf, takenOf, responseOf

LEMMA Loses ==
  ASSUME NEW d \in Delivery, StepOf(d), raced' = raced, effect' = effect,
         takenOf' = takenOf, responseOf' = responseOf, ~HasClaim(d)', ~IsTold(d)'
  PROVE  PerKey!Lose(d)
<1>1. claimOf' = [claimOf EXCEPT ![d] = None] /\ toldOf' = [toldOf EXCEPT ![d] = None]
  BY SeenOfStep
<1>2. QED
  BY <1>1 DEF PerKey!Lose, claimOf, toldOf, takenOf, responseOf

LEMMA Acts ==
  ASSUME IInv, NEW d \in Delivery, StepOf(d), raced' = raced, effect' = effect \cup {d},
         takenOf' = takenOf, responseOf' = responseOf,
         HasClaim(d), pc[d] = "dispatch", ~HasClaim(d)', ~IsTold(d)'
  PROVE  PerKey!Act(d)
<1>1. KeyOf(d) # None
  BY SentTypes, DeliveryAssumption DEF IInv, KeyOf, Working
<1>2. claimOf[d] # None
  BY <1>1 DEF claimOf
<1>3. claimOf' = [claimOf EXCEPT ![d] = None] /\ toldOf' = [toldOf EXCEPT ![d] = None]
  BY SeenOfStep
<1>4. toldOf' = toldOf
  BY <1>3 DEF toldOf, IsTold
<1>5. QED
  BY <1>2, <1>3, <1>4 DEF PerKey!Act, claimOf, toldOf, takenOf, responseOf

LEMMA Keeps ==
  ASSUME NEW d \in Delivery, NEW e \in Event, StepOf(d), raced' = raced, effect' = effect,
         d \in effect, takenOf' = takenOf, responseOf' = [responseOf EXCEPT ![e] = d],
         ~HasClaim(d), ~HasClaim(d)', ~IsTold(d), ~IsTold(d)'
  PROVE  PerKey!Keep(d, e)
<1>1. claimOf' = claimOf /\ toldOf' = toldOf
  BY SeenOfStep DEF claimOf, toldOf
<1>2. QED
  BY <1>1 DEF PerKey!Keep, claimOf, toldOf, takenOf, responseOf

LEMMA Tells ==
  ASSUME NEW d \in Delivery, NEW e \in Event, StepOf(d), raced' = raced, effect' = effect,
         takenOf' = takenOf, responseOf' = responseOf,
         ~HasClaim(d), ~HasClaim(d)', IsTold(d)', answer'[d].of = events[e].of
  PROVE  PerKey!Tell(d, e)
<1>1. claimOf' = claimOf
  BY SeenOfStep DEF claimOf
<1>2. toldOf' = [toldOf EXCEPT ![d] = responseOf[e]]
  BY SeenOfStep DEF responseOf
<1>3. QED
  BY <1>1, <1>2 DEF PerKey!Tell, claimOf, toldOf, takenOf, responseOf

\* A key is claimed, for a delivery that hears of it or does not.
LEMMA Claims ==
  ASSUME NEW d \in Delivery, NEW k \in Nonce \cup Event, StepOf(d), raced' = raced,
         effect' = effect, k \notin takenOf, takenOf' = takenOf \cup {k},
         responseOf' = responseOf, ~HasClaim(d), ~IsTold(d), ~IsTold(d)',
         HasClaim(d)' => KeyOf(d)' = k
  PROVE  PerKey!Claim(d, k) \/ PerKey!ClaimUnheard(k)
<1>1. toldOf' = toldOf /\ claimOf[d] = None
  BY SeenOfStep DEF toldOf, claimOf
<1>2. CASE HasClaim(d)'
  <2>1. claimOf' = [claimOf EXCEPT ![d] = k]
    BY <1>2, SeenOfStep
  <2>2. QED
    BY <1>1, <2>1 DEF PerKey!Claim, claimOf, toldOf, takenOf, responseOf
<1>3. CASE ~HasClaim(d)'
  <2>1. claimOf' = claimOf
    BY <1>3, SeenOfStep DEF claimOf
  <2>2. QED
    BY <1>1, <2>1 DEF PerKey!ClaimUnheard, claimOf, toldOf, takenOf, responseOf
<1>4. QED
  BY <1>2, <1>3

\* The same records in the same store are the same to the contract.
LEMMA SameRecords ==
  ASSUME binding' = binding, UNCHANGED records
  PROVE  takenOf' = takenOf /\ responseOf' = responseOf
BY DEF records, takenOf, responseOf

\* A line of the log, seen from the contract.
LEMMA LineSeen ==
  ASSUME IInv, ~raced, NEW d \in Delivery, binding = "file", binding' = binding,
         pc[d] \in {"nonce", "event", "respond"}, Line(d)
  PROVE  /\ pc[d] = "nonce" => takenOf' = takenOf /\ responseOf' = responseOf
         /\ pc[d] = "event" =>
              /\ sent[d].event \notin takenOf
              /\ takenOf' = takenOf \cup {sent[d].event}
              /\ responseOf' = responseOf
         /\ pc[d] = "respond" =>
              /\ d \in effect
              /\ takenOf' = takenOf
              /\ responseOf' = [responseOf EXCEPT ![sent[d].event] = d]
<1>1. TypeOK /\ PlaceInv(d) /\ sent[d].event \in Event
  BY SentTypes DEF IInv, Working
<1>2. events \in [Event -> Records]
  BY <1>1 DEF TypeOK, IngressTypeOK
<1>3. CASE pc[d] = "nonce"
  BY <1>3 DEF Line, NonceLine, takenOf, responseOf
<1>4. CASE pc[d] = "event"
  <2>1. events' = [events EXCEPT ![sent[d].event] = [state |-> "CLAIMED", of |-> None]]
    BY <1>4 DEF Line, EventLine
  <2>2. events[sent[d].event] = NoRecord
    BY <1>4 DEF IInv, LogInv, RecordOf
  <2>3. QED
    BY <1>1, <1>2, <1>4, <2>1, <2>2, RecordTypes DEF takenOf, responseOf, NoRecord
<1>5. CASE pc[d] = "respond"
  <2>1. events' = [events EXCEPT ![sent[d].event] = [state |-> "ANSWERED", of |-> d]]
    BY <1>5 DEF Line, ResponseLine
  <2>2. d \in effect /\ d \notin past /\ Claimed(d)
    BY <1>1, <1>5 DEF PlaceInv, Claimed
  <2>3. events[sent[d].event] # NoRecord
    BY <2>2 DEF IInv, LogInv, RecordOf
  <2>4. QED
    BY <1>1, <1>2, <1>5, <2>1, <2>2, <2>3, RecordTypes DEF takenOf, responseOf
<1>6. QED
  BY <1>3, <1>4, <1>5

-----------------------------------------------------------------------------
(* Each step is one of the contract's, or none                             *)

LEMMA IngressSeen ==
  ASSUME IInv, NEW d \in Delivery, StepOf(d), UNCHANGED file,
         Arrive(d) \/ ArriveUnverified(d) \/ DispatchCommits(d) \/ DispatchRefused(d)
           \/ DispatchFails(d)
  PROVE  UNCHANGED PerKey!vars \/ PerKey!Act(d) \/ PerKey!Lose(d)
<1>1. TypeOK /\ raced' = raced /\ binding' = binding
  BY DEF IInv, StepOf, file
<1>2. takenOf' = takenOf /\ responseOf' = responseOf
  BY <1>1, SameRecords DEF Arrive, ArriveUnverified, DispatchCommits, DispatchRefused, DispatchFails
<1> USE DEF TypeOK, IngressTypeOK, HasClaim, IsTold, Goes, Ends, Reply
<1>3. CASE Arrive(d) \/ ArriveUnverified(d)
  BY <1>1, <1>2, <1>3, UnseenWithout DEF Arrive, ArriveUnverified
<1>4. CASE DispatchCommits(d)
  BY <1>1, <1>2, <1>4, Acts DEF DispatchCommits
<1>5. CASE DispatchRefused(d)
  BY <1>1, <1>2, <1>5, Loses DEF DispatchRefused
<1>6. CASE DispatchFails(d)
  <2>1. ~HasClaim(d)' /\ ~IsTold(d)' /\ pc[d] = "dispatch"
    BY <1>1, <1>6 DEF DispatchFails
  <2>2. effect' = effect \/ effect' = effect \cup {d}
    BY <1>6 DEF DispatchFails
  <2>3. QED
    BY <1>1, <1>2, <2>1, <2>2, Loses, Acts
<1>7. QED
  BY <1>3, <1>4, <1>5, <1>6

LEMMA LockSeen ==
  ASSUME IInv, NEW d \in Delivery, StepOf(d), raced' = raced,
         OpenLock(d) \/ StatLock(d) \/ BreakLock(d) \/ Release(d)
  PROVE  UNCHANGED PerKey!vars
<1>1. TypeOK /\ binding' = binding /\ effect' = effect
  BY DEF IInv, StepOf, OpenLock, StatLock, BreakLock, Release
<1>2. takenOf' = takenOf /\ responseOf' = responseOf
  BY <1>1, SameRecords DEF OpenLock, StatLock, BreakLock, Release
<1> USE DEF TypeOK, IngressTypeOK, HasClaim, IsTold, Goes, Ends, Reply
<1>3. CASE OpenLock(d) \/ StatLock(d) \/ BreakLock(d)
  BY <1>1, <1>2, <1>3, UnseenWithout DEF OpenLock, StatLock, BreakLock, Again, Unavailable
<1>4. CASE Release(d)
  BY <1>1, <1>2, <1>4, Unseen DEF Release
<1>5. QED
  BY <1>3, <1>4

LEMMA LogSeen ==
  ASSUME IInv, ~raced, NEW d \in Delivery, StepOf(d), binding = "file",
         Decide(d) \/ Append(d) \/ AppendFails(d) \/ FileCrash(d)
  PROVE  [PerKey!Next]_(PerKey!vars)
<1>1. TypeOK /\ PlaceInv(d) /\ binding' = binding /\ raced' = raced
  BY DEF IInv, StepOf, Decide, Append, AppendFails, FileCrash, file
<1>2. UNCHANGED records => takenOf' = takenOf /\ responseOf' = responseOf
  BY <1>1, SameRecords
<1> USE DEF TypeOK, IngressTypeOK, HasClaim, IsTold, Goes, Ends
<1>3. CASE Decide(d)
  <2>1. effect' = effect /\ takenOf' = takenOf /\ responseOf' = responseOf /\ ~HasClaim(d)
    BY <1>2, <1>3 DEF Decide
  <2>2. CASE pc'[d] = "release" /\ answer'[d] = Replayed(d)
    <3>1. sent[d].event \in Event /\ ~HasClaim(d)' /\ IsTold(d)'
      BY <1>1, <1>3, <2>2, SentTypes DEF Decide, Replayed, Working
    <3>2. PICK e \in Event : answer'[d].of = events[e].of
      BY <2>2, <3>1 DEF Replayed, RecordOf
    <3>3. PerKey!Tell(d, e)
      BY <1>1, <2>1, <3>1, <3>2, Tells
    <3>4. QED
      BY <3>3 DEF PerKey!Next
  <2>3. CASE ~(pc'[d] = "release" /\ answer'[d] = Replayed(d))
    <3>1. ~IsTold(d) /\ ~IsTold(d)' /\ ~HasClaim(d)'
      BY <1>1, <1>3, <2>3 DEF Decide, Reply
    <3>2. QED
      BY <1>1, <2>1, <3>1, UnseenWithout
  <2>4. QED
    BY <2>2, <2>3
<1>4. CASE Append(d) \/ AppendFails(d)
  <2>1. /\ pc[d] \in {"nonce", "event", "respond"}
        /\ effect' = effect /\ sent' = sent
        /\ Line(d) \/ UNCHANGED records
    BY <1>4 DEF Append, AppendFails
  <2>2. ~HasClaim(d) /\ ~IsTold(d)
    BY <2>1
  <2>3. PICK e \in Event : sent[d].event = e
    BY <1>1, <2>1, SentTypes DEF Working
  <2>4. pc'[d] \in {"event", "release"}
    BY <1>1, <1>4, <2>1 DEF Append, AppendFails
  <2>5. answer'[d] = answer[d] \/ answer'[d].kind \in {"ACCEPTED", "UNAVAILABLE"}
    BY <1>1, <1>4 DEF Append, AppendFails, Reply
  <2>6. ~IsTold(d)'
    BY <1>1, <2>1, <2>5 DEF PlaceInv
  <2>7. HasClaim(d)' => pc[d] = "event" /\ Append(d)
    BY <1>1, <1>4, <2>1 DEF Append, AppendFails, Reply
  <2>8. CASE UNCHANGED records /\ ~HasClaim(d)'
    BY <1>1, <1>2, <2>1, <2>2, <2>6, <2>8, UnseenWithout
  <2>9. CASE Line(d)
    <3>1. CASE pc[d] = "nonce"
      BY <1>1, <2>1, <2>2, <2>6, <2>7, <2>9, <3>1, LineSeen, UnseenWithout
    <3>2. CASE pc[d] = "event"
      <4>1. HasClaim(d)' => KeyOf(d)' = e
        BY <1>1, <2>1, <2>3 DEF KeyOf
      <4>2. e \notin takenOf /\ takenOf' = takenOf \cup {e} /\ responseOf' = responseOf
        BY <1>1, <2>3, <2>9, <3>2, LineSeen
      <4>3. PerKey!Claim(d, e) \/ PerKey!ClaimUnheard(e)
        BY <1>1, <2>1, <2>2, <2>6, <4>1, <4>2, Claims
      <4>4. QED
        BY <4>3 DEF PerKey!Next
    <3>3. CASE pc[d] = "respond"
      <4>1. ~HasClaim(d)'
        BY <2>7, <3>3
      <4>2. d \in effect /\ takenOf' = takenOf /\ responseOf' = [responseOf EXCEPT ![e] = d]
        BY <1>1, <2>3, <2>9, <3>3, LineSeen
      <4>3. PerKey!Keep(d, e)
        BY <1>1, <2>1, <2>2, <2>6, <4>1, <4>2, Keeps
      <4>4. QED
        BY <4>3 DEF PerKey!Next
    <3>4. QED
      BY <2>1, <3>1, <3>2, <3>3
  <2>10. ASSUME UNCHANGED records, pc[d] = "event", Append(d)
        PROVE  Line(d)
    BY <1>1, <2>10 DEF Append, IInv, LogInv
  <2>11. QED
    BY <2>1, <2>7, <2>8, <2>9, <2>10
<1>5. CASE FileCrash(d)
  <2>1. ~HasClaim(d)' /\ ~IsTold(d)' /\ takenOf' = takenOf /\ responseOf' = responseOf
    BY <1>1, <1>2, <1>5 DEF FileCrash, Reply
  <2>2. effect' = effect \/ (pc[d] = "dispatch" /\ effect' = effect \cup {d})
    BY <1>5 DEF FileCrash
  <2>3. PerKey!Lose(d) \/ PerKey!Act(d)
    BY <1>1, <2>1, <2>2, Loses, Acts
  <2>4. QED
    BY <2>3 DEF PerKey!Next
<1>6. QED
  BY <1>3, <1>4, <1>5

\* Commands of the coordination store.
LEMMA CommandSeen ==
  ASSUME IInv, NEW d \in Delivery, StepOf(d), binding = "valkey", UNCHANGED file,
         GetEvent(d) \/ SetNonce(d) \/ SetEvent(d) \/ CommandFails(d) \/ ValkeyCrash(d)
  PROVE  [PerKey!Next]_(PerKey!vars)
<1>1. TypeOK /\ PlaceInv(d) /\ binding' = binding /\ raced' = raced
  BY DEF IInv, StepOf, file
<1>2. UNCHANGED records => takenOf' = takenOf /\ responseOf' = responseOf
  BY <1>1, SameRecords
<1>3. pc[d] \in Working /\ pc[d] # "release" /\ ~IsTold(d)
  BY DEF GetEvent, SetNonce, SetEvent, CommandFails, ValkeyCrash, Working, IsTold
<1>4. sent[d].nonce \in Nonce /\ sent[d].event \in Event
  BY <1>1, <1>3, SentTypes
<1> USE DEF TypeOK, IngressTypeOK, HasClaim, IsTold, Goes, Ends
<1>5. CASE GetEvent(d)
  <2>1. effect' = effect /\ takenOf' = takenOf /\ responseOf' = responseOf
          /\ ~HasClaim(d) /\ ~HasClaim(d)'
    BY <1>1, <1>2, <1>5 DEF GetEvent, Replayed
  <2>2. CASE pc'[d] = "done"
    <3>1. IsTold(d)' /\ answer'[d].of = events[sent[d].event].of
      BY <1>1, <1>5, <2>2 DEF GetEvent, Replayed, RecordOf
    <3>2. PICK e \in Event : answer'[d].of = events[e].of
      BY <1>4, <3>1
    <3>3. PerKey!Tell(d, e)
      BY <1>1, <2>1, <3>1, <3>2, Tells
    <3>4. QED
      BY <3>3 DEF PerKey!Next
  <2>3. CASE pc'[d] # "done"
    <3>1. ~IsTold(d)'
      BY <1>1, <1>5, <2>3 DEF GetEvent
    <3>2. QED
      BY <1>1, <1>3, <2>1, <3>1, UnseenWithout
  <2>4. QED
    BY <2>2, <2>3
\* What SET NX and SET do to what the contract sees.
<1>6. ASSUME nonces' = nonces \cup {sent[d].nonce}, events' = events
      PROVE  takenOf' = takenOf \cup {sent[d].nonce} /\ responseOf' = responseOf
  BY <1>1, <1>6 DEF takenOf, responseOf
<1>7. ASSUME events' = [events EXCEPT ![sent[d].event] = [state |-> "ANSWERED", of |-> d]],
             nonces' = nonces
      PROVE  takenOf' = takenOf /\ responseOf' = [responseOf EXCEPT ![sent[d].event] = d]
  BY <1>1, <1>4, <1>7 DEF takenOf, responseOf
<1>8. ASSUME pc[d] = "setnx", nonces' = nonces \cup {sent[d].nonce}, events' = events,
             effect' = effect, ~IsTold(d)',
             HasClaim(d)' => sent[d].nonce \notin nonces
      PROVE  [PerKey!Next]_(PerKey!vars)
  <2>1. CASE sent[d].nonce \in nonces
    <3>1. UNCHANGED records
      BY <1>8, <2>1 DEF records
    <3>2. QED
      BY <1>1, <1>2, <1>3, <1>8, <2>1, <3>1, UnseenWithout
  <2>2. CASE sent[d].nonce \notin nonces
    <3>1. PICK k \in Nonce : sent[d].nonce = k
      BY <1>4
    <3>2. KeyOf(d)' = k /\ k \notin takenOf /\ ~HasClaim(d)
      BY <1>1, <1>8, <2>2, <3>1 DEF KeyOf, takenOf, StepOf
    <3>3. takenOf' = takenOf \cup {k} /\ responseOf' = responseOf
      BY <1>6, <1>8, <3>1
    <3>4. PerKey!Claim(d, k) \/ PerKey!ClaimUnheard(k)
      BY <1>1, <1>3, <1>8, <3>2, <3>3, Claims
    <3>5. QED
      BY <3>4 DEF PerKey!Next
  <2>3. QED
    BY <2>1, <2>2
<1>9. ASSUME pc[d] = "store", phase[d] = "complete", effect' = effect, nonces' = nonces,
             events' = [events EXCEPT ![sent[d].event] = [state |-> "ANSWERED", of |-> d]],
             ~HasClaim(d)', ~IsTold(d)'
      PROVE  [PerKey!Next]_(PerKey!vars)
  <2>1. d \in effect /\ ~HasClaim(d)
    BY <1>1, <1>9 DEF PlaceInv
  <2>2. PICK e \in Event : sent[d].event = e
    BY <1>4
  <2>3. takenOf' = takenOf /\ responseOf' = [responseOf EXCEPT ![e] = d]
    BY <1>7, <1>9, <2>2
  <2>4. PerKey!Keep(d, e)
    BY <1>1, <1>3, <1>9, <2>1, <2>3, Keeps
  <2>5. QED
    BY <2>4 DEF PerKey!Next
<1>10. CASE SetNonce(d)
  <2>1. ~IsTold(d)' /\ (HasClaim(d)' => sent[d].nonce \notin nonces)
    BY <1>1, <1>10 DEF SetNonce, Reply, PlaceInv
  <2>2. QED
    BY <1>8, <1>10, <2>1 DEF SetNonce
<1>11. CASE SetEvent(d)
  <2>1. ~HasClaim(d)' /\ ~IsTold(d)'
    BY <1>1, <1>11 DEF SetEvent
  <2>2. QED
    BY <1>9, <1>11, <2>1 DEF SetEvent
<1>12. CASE CommandFails(d)
  <2>1. ~HasClaim(d) /\ ~HasClaim(d)' /\ ~IsTold(d)' /\ effect' = effect
    BY <1>1, <1>12 DEF CommandFails, Reply
  <2>2. CASE UNCHANGED records
    BY <1>1, <1>2, <1>3, <2>1, <2>2, UnseenWithout
  <2>3. QED
    BY <1>8, <1>9, <1>12, <2>1, <2>2 DEF CommandFails
<1>13. CASE ValkeyCrash(d)
  <2>1. ~HasClaim(d)' /\ ~IsTold(d)' /\ takenOf' = takenOf /\ responseOf' = responseOf
    BY <1>1, <1>2, <1>13 DEF ValkeyCrash, Reply
  <2>2. effect' = effect \/ (pc[d] = "dispatch" /\ effect' = effect \cup {d})
    BY <1>13 DEF ValkeyCrash
  <2>3. PerKey!Lose(d) \/ PerKey!Act(d)
    BY <1>1, <2>1, <2>2, Loses, Acts
  <2>4. QED
    BY <2>3 DEF PerKey!Next
<1>14. QED
  BY <1>5, <1>10, <1>11, <1>12, <1>13

\* When every record goes, nobody has a claim to act on.
LEMMA HourSeen ==
  ASSUME IInv, HourPasses
  PROVE  PerKey!Forget
<1>1. \A d \in Delivery : pc[d] \in {"new", "done"}
  BY DEF HourPasses
<1>2. \A d \in Delivery : ~HasClaim(d)
  BY <1>1 DEF HasClaim
<1>3. takenOf' = {} /\ responseOf' = [e \in Event |-> None]
  BY DEF HourPasses, takenOf, responseOf, NoRecord
<1>4. claimOf' = claimOf /\ toldOf' = toldOf /\ raced' = raced /\ effect' = effect
  BY DEF HourPasses, claimOf, toldOf, HasClaim, KeyOf, IsTold
<1>5. \A d \in Delivery : claimOf[d] = None
  BY <1>2 DEF claimOf
<1>6. QED
  BY <1>3, <1>4, <1>5 DEF PerKey!Forget, takenOf, claimOf, responseOf, toldOf

LEMMA InitPerKey == Init => PerKey!Init
<1> SUFFICES ASSUME Init
    PROVE  PerKey!Init
  OBVIOUS
<1>1. takenOf = {} /\ responseOf = [e \in Event |-> None]
  BY DEF Init, IngressInit, takenOf, responseOf, NoRecord
<1>2. claimOf = [d \in Delivery |-> None] /\ toldOf = [d \in Delivery |-> None]
  BY DEF Init, IngressInit, claimOf, toldOf, HasClaim, IsTold
<1>3. raced = FALSE /\ effect = {}
  BY DEF Init, IngressInit, FileInit
<1>4. QED
  BY <1>1, <1>2, <1>3 DEF PerKey!Init, takenOf, claimOf, responseOf, toldOf

LEMMA NextPerKey == IInv /\ [Next]_vars => [PerKey!Next]_(PerKey!vars)
<1> SUFFICES ASSUME IInv, [Next]_vars
    PROVE  [PerKey!Next]_(PerKey!vars)
  OBVIOUS
<1>1. CASE raced'
  <2>1. raced' = TRUE
    BY <1>1, NextInv DEF IInv, TypeOK, FileTypeOK
  <2>2. QED
    BY <2>1 DEF PerKey!Next, PerKey!Break
<1>2. CASE HourPasses
  BY <1>2, HourSeen DEF PerKey!Next
<1>3. ASSUME NEW d \in Delivery, Step(d) \/ Environment(d), ~raced'
      PROVE  [PerKey!Next]_(PerKey!vars)
  <2>1. StepOf(d) /\ TypeOK /\ TypeOK'
    BY <1>3, StepPlaces DEF IInv
  <2>2. CASE /\ Arrive(d) \/ ArriveUnverified(d) \/ DispatchCommits(d)
                \/ DispatchRefused(d) \/ DispatchFails(d)
             /\ UNCHANGED file
    BY <2>1, <2>2, IngressSeen DEF PerKey!Next
  <2>3. CASE /\ binding = "valkey" /\ UNCHANGED file
             /\ GetEvent(d) \/ SetNonce(d) \/ SetEvent(d) \/ CommandFails(d) \/ ValkeyCrash(d)
    BY <2>1, <2>3, CommandSeen
  <2>4. CASE OpenLock(d) \/ StatLock(d) \/ BreakLock(d) \/ Release(d)
    <3>1. raced' = raced
      BY <1>3, <2>1, <2>4
        DEF OpenLock, StatLock, BreakLock, Release, TypeOK, FileTypeOK
    <3>2. QED
      BY <2>1, <2>4, <3>1, LockSeen
  <2>5. CASE /\ binding = "file"
             /\ Decide(d) \/ Append(d) \/ AppendFails(d) \/ FileCrash(d)
    <3>1. ~raced
      BY <1>3, <2>5 DEF Decide, Append, AppendFails, FileCrash, file
    <3>2. QED
      BY <2>1, <2>5, <3>1, LogSeen
  <2>6. QED
    BY <1>3, <2>2, <2>3, <2>4, <2>5, StepKinds
<1>4. CASE UNCHANGED vars
  BY <1>4 DEF vars, ingress, records, file, PerKey!vars, HasClaim, KeyOf, IsTold
<1>5. QED
  BY <1>1, <1>2, <1>3, <1>4 DEF Next

\* The replay store, with either binding, claims one key of a delivery in one step,
\* whatever its locks, lines, commands, crashes and failed calls: the event id with
\* the log, the nonce with the coordination store.
THEOREM Implementation == Spec => ImplementsClaimPerKey
<1>1. Init => PerKey!Init
  BY InitPerKey
<1>2. IInv /\ [Next]_vars => [PerKey!Next]_(PerKey!vars)
  BY NextPerKey
<1>3. QED
  BY <1>1, <1>2, InvariantHolds, PTL DEF Spec, ImplementsClaimPerKey, PerKey!Spec

=============================================================================
