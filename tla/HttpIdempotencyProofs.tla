----------------------- MODULE HttpIdempotencyProofs -----------------------
(***************************************************************************)
(* IInv is an inductive invariant of HttpIdempotency for every set of      *)
(* attempts, keys and bodies; the safety properties follow from it, and    *)
(* with it every step of the protocol is a step of OncePerKey.             *)
(*                                                                         *)
(* Every action changes one attempt's place, claim and answer, and at most *)
(* one of the row and the set of committed attempts.  The lemmas treat one *)
(* kind of change each; an action is then an instance of one of them.      *)
(***************************************************************************)
EXTENDS HttpIdempotency, TLAPS

LEMMA InitInv == Init => IInv
<1> SUFFICES ASSUME Init PROVE IInv
  OBVIOUS
<1> USE NoneAssumption, MaxFaultsAssumption DEF Init
<1>1. TypeOK
  BY DEF TypeOK, Places, Working, Requests, NoRequest, Rows, NoRow, Answers, Reply
<1>2. PlacesInv
  BY DEF PlacesInv, Working, Reply
<1>3. HolderInv
  BY DEF HolderInv, Holds
<1>4. RowInv
  BY DEF RowInv, NoRow
<1>5. AnswerInv /\ ReplayIsOriginal /\ ReuseIsConflict
  BY DEF AnswerInv, ReplayIsOriginal, ReuseIsConflict, Reply
<1>6. QED
  BY <1>1, <1>2, <1>3, <1>4, <1>5 DEF IInv

-----------------------------------------------------------------------------

\* The step is attempt a's: it leaves the place, the claim and the answer of
\* every other attempt alone, ends nowhere before the start, and gives an
\* answer only where it ends.
StepOf(a) ==
  /\ pc[a] # "done"
  /\ pc' \in [Attempt -> Places]
  /\ claimed' \in [Attempt -> BOOLEAN]
  /\ answer' \in [Attempt -> Answers]
  /\ faults' \in 0 .. MaxFaults
  /\ \A x \in Attempt \ {a} :
       pc'[x] = pc[x] /\ claimed'[x] = claimed[x] /\ answer'[x] = answer[x]
  /\ pc'[a] # "new"
  /\ pc'[a] # "done" => answer'[a] = answer[a]

\* Arriving touches no row and claims nothing.
LEMMA ArriveInv ==
  ASSUME IInv, NEW a \in Attempt, Arrive(a)
  PROVE  IInv'
<1> USE NoneAssumption DEF Arrive, GoTo
<1>1. PICK k \in Key, b \in Body, t \in Target :
        req' = [req EXCEPT ![a] = [key |-> k, body |-> b, target |-> t]]
  OBVIOUS
<1>2. TypeOK /\ PlacesInv /\ HolderInv /\ RowInv /\ AnswerInv
  BY DEF IInv
<1>3. TypeOK'
  BY <1>1, <1>2 DEF TypeOK, Places, Working, Requests
<1>4. /\ pc[a] = "new" /\ a \notin executed /\ executed \subseteq Attempt
      /\ \A x \in Attempt : x # a => req'[x] = req[x] /\ pc'[x] = pc[x]
  BY <1>1, <1>2 DEF TypeOK, PlacesInv
<1>5. pc'[a] = "begin" /\ req'[a].key = k /\ req'[a].body = b
  BY <1>1, <1>2 DEF TypeOK
<1>6. PlacesInv'
  BY <1>2, <1>4, <1>5 DEF PlacesInv, Working
<1>7. HolderInv'
  BY <1>2, <1>4, <1>5 DEF HolderInv, Holds, RowOf
<1>8. RowInv'
  BY <1>2, <1>4, <1>5 DEF RowInv, RowOf
<1>9. AnswerInv'
  BY <1>2, <1>4, <1>5 DEF AnswerInv, PlacesInv
<1>10. ReplayIsOriginal' /\ ReuseIsConflict'
  BY <1>2, <1>4, <1>5 DEF ReplayIsOriginal, ReuseIsConflict, IInv, PlacesInv
<1>11. QED
  BY <1>3, <1>6, <1>7, <1>8, <1>9, <1>10 DEF IInv

\* A step that only moves an attempt keeps the invariant when the new place and
\* the new answer are justified by the row as it is.
LEMMA MoveInv ==
  ASSUME IInv, NEW a \in Attempt, StepOf(a),
         UNCHANGED <<req, row, separator, executed, unacked>>,
         pc'[a] # "done" =>
           /\ pc[a] \in Working
           /\ a \notin executed
           /\ pc'[a] \notin {"complete"}
           /\ pc'[a] \in {"work", "abandon"} => claimed'[a]
           /\ pc'[a] \in {"replayBegin", "replayRead"} => ~claimed'[a]
           /\ Holds(a)' => RowOf(a).state = "IN_FLIGHT" /\ RowOf(a).owner = a
           /\ pc'[a] \in {"handler", "replayBegin", "replayRead"} /\ ~claimed'[a]
                => RowOf(a).state = "COMPLETED",
         pc'[a] = "done" /\ answer'[a].kind \in {"REPLAYED", "KEY_REUSE", "EXECUTED"} =>
           /\ pc[a] = "replayRead"
           /\ RowOf(a).state = "COMPLETED"
           /\ answer'[a].kind # "EXECUTED"
           /\ answer'[a].kind = "KEY_REUSE" => FingerprintRead(RowOf(a)) # req[a].body
           /\ answer'[a].kind = "REPLAYED" => /\ FingerprintRead(RowOf(a)) = req[a].body
                                              /\ answer'[a].of = RowOf(a).owner
  PROVE  IInv'
<1> USE NoneAssumption
<1>1. TypeOK /\ PlacesInv /\ HolderInv /\ RowInv /\ AnswerInv
  BY DEF IInv
<1>2. TypeOK'
  BY <1>1 DEF TypeOK, StepOf
<1>3. PlacesInv'
  BY <1>1 DEF TypeOK, PlacesInv, StepOf, Working, Places
<1>4. HolderInv'
  BY <1>1 DEF HolderInv, StepOf, Holds, RowOf
<1>5. RowInv'
  BY <1>1 DEF TypeOK, RowInv, StepOf, RowOf
<1>6. ASSUME NEW x \in Attempt
      PROVE  /\ answer'[x].kind \in {"REPLAYED", "EXECUTED"} =>
                  /\ answer'[x].of \in executed \ unacked
                  /\ req[answer'[x].of].key = req[x].key
             /\ answer'[x].kind = "REPLAYED" =>
                  /\ req[answer'[x].of].body = req[x].body
                  /\ ~separator[answer'[x].of]
             /\ answer'[x].kind = "KEY_REUSE" =>
                  \E o \in executed : /\ o # x
                                      /\ req[o].key = req[x].key
                                      /\ req[o].body # req[x].body \/ separator[o]
  <2>1. CASE x # a \/ answer'[a] = answer[a]
    BY <1>1, <2>1 DEF StepOf, AnswerInv, ReplayIsOriginal, ReuseIsConflict, IInv
  <2>2. CASE x = a /\ answer'[a] # answer[a]
    <3> SUFFICES ASSUME answer'[a].kind \in {"REPLAYED", "KEY_REUSE", "EXECUTED"}
                 PROVE  <1>6!2
      BY <2>2
    <3> DEFINE k == req[a].key
               o == row[k].owner
    <3>1. pc'[a] = "done" /\ pc[a] = "replayRead" /\ row[k].state = "COMPLETED"
      BY <2>2 DEF StepOf, RowOf
    <3>2. k \in Key /\ req[a].body \in Body
      BY <1>1, <3>1 DEF PlacesInv, Working
    <3>3. /\ o \in executed \ unacked /\ req[o].key = k
          /\ row[k].fingerprint = req[o].body /\ o # a
      BY <1>1, <3>1, <3>2 DEF RowInv
    <3>4. QED
      BY <2>2, <3>1, <3>2, <3>3 DEF FingerprintRead, RowOf
  <2>3. QED
    BY <2>1, <2>2
<1>7. AnswerInv' /\ ReplayIsOriginal' /\ ReuseIsConflict'
  BY <1>6 DEF AnswerInv, ReplayIsOriginal, ReuseIsConflict
<1>8. QED
  BY <1>2, <1>3, <1>4, <1>5, <1>7 DEF IInv
-----------------------------------------------------------------------------

\* The INSERT gives a free key an owner; an attempt on the replay path finds the
\* key taken by a completed row, which stays.
LEMMA InsertInv ==
  ASSUME IInv, NEW a \in Attempt, StepOf(a), Insert(a),
         UNCHANGED <<req, separator, executed, unacked>>,
         \/ pc[a] = "begin" /\ pc'[a] \in {"read", "done"}
         \/ pc[a] = "replayBegin" /\ pc'[a] \in {"replayRead", "done"},
         answer'[a].kind \notin {"REPLAYED", "KEY_REUSE", "EXECUTED"}
  PROVE  IInv'
<1> USE NoneAssumption
<1>1. TypeOK /\ PlacesInv /\ HolderInv /\ RowInv /\ AnswerInv
  BY DEF IInv
<1> DEFINE k == req[a].key
<1>2. /\ k \in Key /\ req[a].body \in Body /\ a \notin executed
      /\ row[k] \in Rows /\ row \in [Key -> Rows]
  BY <1>1 DEF TypeOK, PlacesInv, Working
<1>3. CASE row[k].state # "ABSENT"
  <2>1. row' = row /\ claimed'[a] = FALSE
    BY <1>1, <1>3 DEF Insert, RowOf, TypeOK
  <2>2. pc[a] = "replayBegin" => RowOf(a).state = "COMPLETED"
    BY <1>1 DEF HolderInv, PlacesInv
  <2>3. QED
    BY <1>2, <2>1, <2>2, MoveInv DEF Holds, Working
<1>4. CASE row[k].state = "ABSENT"
  <2>1. pc[a] = "begin"
    BY <1>1, <1>4 DEF HolderInv, PlacesInv, RowOf
  <2>2. /\ claimed'[a] = TRUE
        /\ row' = [row EXCEPT ![k] = [state |-> "IN_FLIGHT", owner |-> a,
                                     fingerprint |-> req[a].body]]
    BY <1>1, <1>4 DEF Insert, RowOf, TypeOK
  <2>3. /\ row'[k].state = "IN_FLIGHT" /\ row'[k].owner = a
        /\ row'[k].fingerprint = req[a].body
        /\ \A j \in Key \ {k} : row'[j] = row[j]
    BY <1>2, <2>2
  <2>4. TypeOK'
    BY <1>1, <1>2, <2>2 DEF TypeOK, StepOf, Rows
  <2>5. PlacesInv'
    BY <1>1, <2>1, <2>2 DEF PlacesInv, StepOf, Working
  <2>6. HolderInv'
    BY <1>1, <1>2, <1>4, <2>1, <2>2, <2>3 DEF HolderInv, PlacesInv, StepOf, Holds, RowOf, Working
  <2>7. RowInv'
    <3>1. ASSUME NEW x \in executed \ unacked
          PROVE  RowOf(x)'.state # "ABSENT" /\ RowOf(x)'.owner = x
      BY <1>1, <1>4, <2>3, <3>1 DEF RowInv, RowOf, PlacesInv, TypeOK
    <3>2. ASSUME NEW j \in Key, row'[j].state # "ABSENT"
          PROVE  /\ row'[j].owner \in Attempt
                 /\ pc'[row'[j].owner] # "new"
                 /\ req[row'[j].owner].key = j
                 /\ row'[j].fingerprint = req[row'[j].owner].body
                 /\ row'[j].fingerprint \in Body
                 /\ row'[j].state = "COMPLETED" =>
                      /\ row'[j].owner \in executed \ unacked
                      /\ pc'[row'[j].owner] = "done"
      BY <1>1, <1>2, <2>1, <2>3, <3>2 DEF RowInv, StepOf, TypeOK
    <3>3. QED
      BY <3>1, <3>2 DEF RowInv
  <2>8. AnswerInv' /\ ReplayIsOriginal' /\ ReuseIsConflict'
    BY <1>1 DEF StepOf, AnswerInv, ReplayIsOriginal, ReuseIsConflict, IInv
  <2>9. QED
    BY <2>4, <2>5, <2>6, <2>7, <2>8 DEF IInv
<1>5. QED
  BY <1>3, <1>4

\* abandon deletes the abandoning attempt's own in-flight row.
LEMMA DeleteInv ==
  ASSUME IInv, NEW a \in Attempt, StepOf(a), Delete(a),
         UNCHANGED <<req, claimed, separator, executed, unacked>>,
         pc[a] = "abandon", pc'[a] = "done",
         answer'[a].kind \notin {"REPLAYED", "KEY_REUSE", "EXECUTED"}
  PROVE  IInv'
<1> USE NoneAssumption
<1>1. TypeOK /\ PlacesInv /\ HolderInv /\ RowInv /\ AnswerInv
  BY DEF IInv
<1> DEFINE k == req[a].key
<1>2. /\ k \in Key /\ a \notin executed \ unacked
      /\ row[k].state = "IN_FLIGHT" /\ row[k].owner = a
      /\ row \in [Key -> Rows]
  BY <1>1 DEF TypeOK, PlacesInv, HolderInv, Holds, RowOf, Working
<1>3. /\ row' = [row EXCEPT ![k] = NoRow]
      /\ row'[k].state = "ABSENT"
      /\ \A j \in Key \ {k} : row'[j] = row[j]
  BY <1>2 DEF Delete, RowOf, NoRow
<1>4. TypeOK'
  BY <1>1, <1>2, <1>3 DEF TypeOK, StepOf, Rows, NoRow
<1>5. PlacesInv'
  BY <1>1 DEF PlacesInv, StepOf, Working
<1>6. HolderInv'
  BY <1>1, <1>2, <1>3 DEF HolderInv, PlacesInv, StepOf, Holds, RowOf, Working
<1>7. RowInv'
  <2>1. ASSUME NEW x \in executed \ unacked
        PROVE  RowOf(x)'.state # "ABSENT" /\ RowOf(x)'.owner = x
    BY <1>1, <1>2, <1>3, <2>1 DEF RowInv, RowOf, PlacesInv, TypeOK
  <2>2. ASSUME NEW j \in Key, row'[j].state # "ABSENT"
        PROVE  row'[j] = row[j] /\ (row[j].owner \in Attempt => pc'[row[j].owner] # "new")
    BY <1>1, <1>2, <1>3, <2>2 DEF StepOf, RowInv
  <2>3. QED
    BY <1>1, <1>3, <2>1, <2>2 DEF RowInv, StepOf, TypeOK
<1>8. AnswerInv' /\ ReplayIsOriginal' /\ ReuseIsConflict'
  BY <1>1 DEF StepOf, AnswerInv, ReplayIsOriginal, ReuseIsConflict, IInv
<1>9. QED
  BY <1>4, <1>5, <1>6, <1>7, <1>8 DEF IInv

\* complete marks the completing attempt's own row.
LEMMA UpdateInv ==
  ASSUME IInv, NEW a \in Attempt, StepOf(a), Update(a),
         UNCHANGED <<req, claimed, separator, executed, unacked>>,
         pc[a] = "complete", pc'[a] = "done",
         answer'[a].kind \notin {"REPLAYED", "KEY_REUSE"},
         answer'[a].kind = "EXECUTED" => answer'[a].of = a
  PROVE  IInv'
<1> USE NoneAssumption
<1>1. TypeOK /\ PlacesInv /\ HolderInv /\ RowInv /\ AnswerInv
  BY DEF IInv
<1> DEFINE k == req[a].key
<1>2. /\ k \in Key /\ a \in executed \ unacked
      /\ row[k].state = "IN_FLIGHT" /\ row[k].owner = a
      /\ row \in [Key -> Rows]
  BY <1>1 DEF TypeOK, PlacesInv, HolderInv, Holds, RowOf, Working
<1>3. /\ row' = [row EXCEPT ![k].state = "COMPLETED"]
      /\ row'[k].state = "COMPLETED" /\ row'[k].owner = a
      /\ row'[k].fingerprint = row[k].fingerprint
      /\ \A j \in Key \ {k} : row'[j] = row[j]
  BY <1>2 DEF Update, RowOf, Rows
<1>4. TypeOK'
  BY <1>1, <1>2, <1>3 DEF TypeOK, StepOf, Rows
<1>5. PlacesInv'
  BY <1>1 DEF PlacesInv, StepOf, Working
<1>6. HolderInv'
  BY <1>1, <1>2, <1>3 DEF HolderInv, PlacesInv, StepOf, Holds, RowOf, Working
<1>7. RowInv'
  <2>1. /\ req' = req /\ executed' = executed /\ unacked' = unacked
        /\ \A x \in Attempt : pc'[x] \in {pc[x], "done"}
    BY <1>1 DEF StepOf, TypeOK
  <2>2. \A j \in Key : /\ row'[j].owner = row[j].owner
                       /\ row'[j].fingerprint = row[j].fingerprint
                       /\ row'[j].state = "ABSENT" <=> row[j].state = "ABSENT"
    BY <1>2, <1>3
  <2>3. ASSUME NEW j \in Key, row'[j].state # "ABSENT"
        PROVE  /\ row'[j].owner \in Attempt
               /\ pc'[row'[j].owner] # "new"
               /\ req'[row'[j].owner].key = j
               /\ row'[j].fingerprint = req'[row'[j].owner].body
               /\ row'[j].fingerprint \in Body
    BY <1>1, <2>1, <2>2, <2>3 DEF RowInv
  <2>4. ASSUME NEW j \in Key, row'[j].state = "COMPLETED"
        PROVE  row'[j].owner \in executed' \ unacked' /\ pc'[row'[j].owner] = "done"
    <3>1. CASE j = k
      BY <1>2, <1>3, <2>1, <3>1
    <3>2. CASE j # k
      <4>1. row[j].state = "COMPLETED" /\ row[j].owner \in Attempt
        BY <1>1, <1>3, <2>4, <3>2 DEF RowInv
      <4> QED
        BY <1>1, <1>3, <2>1, <2>2, <3>2, <4>1 DEF RowInv
    <3> QED
      BY <3>1, <3>2
  <2>5. \A x \in executed' \ unacked' : RowOf(x)'.state # "ABSENT" /\ RowOf(x)'.owner = x
    <3>1. ASSUME NEW x \in executed \ unacked
          PROVE  row'[req[x].key].state # "ABSENT" /\ row'[req[x].key].owner = x
      <4>1. x \in Attempt /\ RowOf(x).state # "ABSENT" /\ RowOf(x).owner = x
        BY <1>1 DEF RowInv, TypeOK
      <4>2. req[x].key \in Key
        BY <1>1, <4>1 DEF RowInv, RowOf, TypeOK, PlacesInv
      <4> QED
        BY <2>2, <4>1, <4>2 DEF RowOf
    <3> QED
      BY <2>1, <3>1 DEF RowOf
  <2> QED
    BY <2>3, <2>4, <2>5 DEF RowInv
<1>8. AnswerInv' /\ ReplayIsOriginal' /\ ReuseIsConflict'
  BY <1>1, <1>2 DEF StepOf, AnswerInv, ReplayIsOriginal, ReuseIsConflict, IInv
<1>9. QED
  BY <1>4, <1>5, <1>6, <1>7, <1>8 DEF IInv

\* The transaction commits, acknowledged or not, while the attempt holds the row.
LEMMA CommitInv ==
  ASSUME IInv, NEW a \in Attempt, StepOf(a),
         UNCHANGED <<req, claimed, row>>,
         pc[a] = "work",
         executed' = executed \cup {a},
         \/ pc'[a] = "complete" /\ unacked' = unacked
         \/ pc'[a] = "done" /\ unacked' = unacked
         \/ pc'[a] = "abandon" /\ unacked' = unacked \cup {a},
         separator' \in [Attempt -> BOOLEAN],
         \A x \in Attempt \ {a} : separator'[x] = separator[x],
         answer'[a].kind \notin {"REPLAYED", "KEY_REUSE", "EXECUTED"}
  PROVE  IInv'
<1> USE NoneAssumption
<1>1. TypeOK /\ PlacesInv /\ HolderInv /\ RowInv /\ AnswerInv
  BY DEF IInv
<1>2. /\ a \notin executed /\ a \notin unacked /\ claimed[a] /\ req[a].key \in Key
      /\ RowOf(a).state = "IN_FLIGHT" /\ RowOf(a).owner = a
  BY <1>1 DEF TypeOK, PlacesInv, HolderInv, Holds, Working
<1>3. TypeOK'
  BY <1>1 DEF TypeOK, StepOf
<1>4. PlacesInv'
  BY <1>1, <1>2 DEF PlacesInv, StepOf, Working
<1>5. HolderInv'
  BY <1>1, <1>2 DEF HolderInv, StepOf, Holds, RowOf
<1>6. RowInv'
  BY <1>1, <1>2 DEF RowInv, RowOf, StepOf, TypeOK
<1>7. AnswerInv'
  BY <1>1, <1>2 DEF StepOf, AnswerInv, TypeOK
<1>8. ReplayIsOriginal' /\ ReuseIsConflict'
  BY <1>1, <1>2 DEF StepOf, ReplayIsOriginal, ReuseIsConflict, IInv, TypeOK
<1>9. QED
  BY <1>3, <1>4, <1>5, <1>6, <1>7, <1>8 DEF IInv
-----------------------------------------------------------------------------

\* Every step keeps the invariant: one case per action.
LEMMA NextInv == IInv /\ [Next]_vars => IInv'
<1> SUFFICES ASSUME IInv, [Next]_vars PROVE IInv'
  OBVIOUS
<1>1. TypeOK /\ PlacesInv /\ HolderInv /\ RowInv
  BY DEF IInv
<1> USE <1>1, NoneAssumption, MaxFaultsAssumption
<1>2. CASE UNCHANGED vars
  BY <1>2 DEF IInv, TypeOK, PlacesInv, HolderInv, RowInv, AnswerInv, ReplayIsOriginal,
              ReuseIsConflict, Holds, RowOf, vars
<1>3. ASSUME NEW a \in Attempt, Arrive(a) PROVE IInv'
  BY <1>3, ArriveInv
<1>4. ASSUME NEW a \in Attempt, ArriveWithoutKey(a) PROVE IInv'
  <2>1. StepOf(a)
    BY <1>4 DEF ArriveWithoutKey, Finish, Reply, StepOf, TypeOK, Places, Answers
  <2>2. QED
    BY <1>4, <2>1, MoveInv DEF ArriveWithoutKey, Finish, Reply, TypeOK
<1>5. ASSUME NEW a \in Attempt, BeginInsert(a) PROVE IInv'
  <2>1. StepOf(a) /\ answer'[a].kind = "NONE" /\ pc'[a] = "read"
    BY <1>5 DEF BeginInsert, Insert, GoTo, StepOf, TypeOK, PlacesInv, Places, Working
  <2>2. QED
    BY <1>5, <2>1, InsertInv DEF BeginInsert
<1>6. ASSUME NEW a \in Attempt, BeginRead(a) PROVE IInv'
  <2>1. /\ StepOf(a)
        /\ pc'[a] = "done" => answer'[a].kind = "IN_FLIGHT"
        /\ pc'[a] # "done" => pc'[a] = "handler"
    <3>1. /\ pc[a] = "read" /\ faults' = faults
          /\ claimed' = claimed \/ claimed' = [claimed EXCEPT ![a] = FALSE]
          /\ GoTo(a, "handler") \/ Finish(a, Reply("IN_FLIGHT"))
      BY <1>6 DEF BeginRead
    <3>2. CASE GoTo(a, "handler")
      BY <3>1, <3>2 DEF GoTo, StepOf, TypeOK, Places, Working
    <3>3. CASE Finish(a, Reply("IN_FLIGHT"))
      BY <3>1, <3>3 DEF Finish, Reply, StepOf, TypeOK, Places, Answers
    <3>4. QED
      BY <3>1, <3>2, <3>3
  <2>2. pc'[a] # "done" =>
          IF RowOf(a).state = "COMPLETED" THEN ~claimed'[a] ELSE claimed'[a]
    BY <1>6 DEF BeginRead, GoTo, Finish, TypeOK
  <2>3. claimed[a] => RowOf(a).state = "IN_FLIGHT" /\ RowOf(a).owner = a
    BY <1>6 DEF BeginRead, HolderInv, Holds
  <2>4. pc'[a] # "done" /\ claimed'[a] => claimed[a]
    BY <1>6 DEF BeginRead, TypeOK
  <2>5. a \notin executed
    BY <1>6 DEF BeginRead, PlacesInv
  <2>6. QED
    BY <1>6, <2>1, <2>2, <2>3, <2>4, <2>5, MoveInv DEF BeginRead, Holds, Working, RowOf
<1>7. ASSUME NEW a \in Attempt, HandlerRefuses(a) PROVE IInv'
  <2>1. StepOf(a) /\ pc'[a] = "done" /\ answer'[a].kind = "REFUSED"
    BY <1>7 DEF HandlerRefuses, Finish, Reply, StepOf, TypeOK, Places, Answers
  <2>2. QED
    BY <1>7, <2>1, MoveInv DEF HandlerRefuses
<1>8. ASSUME NEW a \in Attempt, EnterWithIdempotency(a) PROVE IInv'
  <2>1. /\ StepOf(a) /\ answer' = answer /\ claimed' = claimed
        /\ pc'[a] = IF claimed[a] THEN "work" ELSE "replayBegin"
    BY <1>8 DEF EnterWithIdempotency, GoTo, StepOf, TypeOK, Places, Working
  <2>2. a \notin executed /\ pc[a] = "handler" /\ pc[a] \in Working
    BY <1>8 DEF EnterWithIdempotency, PlacesInv, Working
  <2>3. /\ claimed[a] => RowOf(a).state = "IN_FLIGHT" /\ RowOf(a).owner = a
        /\ ~claimed[a] => RowOf(a).state = "COMPLETED"
    BY <2>2 DEF HolderInv, Holds
  <2>4. QED
    BY <1>8, <2>1, <2>2, <2>3, MoveInv DEF EnterWithIdempotency, Holds
<1>9. ASSUME NEW a \in Attempt, ReplayInsert(a) PROVE IInv'
  <2>1. StepOf(a) /\ answer'[a].kind = "NONE" /\ pc'[a] = "replayRead"
    BY <1>9 DEF ReplayInsert, Insert, GoTo, StepOf, TypeOK, PlacesInv, Places, Working
  <2>2. QED
    BY <1>9, <2>1, InsertInv DEF ReplayInsert
<1>10. ASSUME NEW a \in Attempt, ReplayRead(a) PROVE IInv'
  <2>1. pc[a] = "replayRead" /\ RowOf(a).state = "COMPLETED"
    BY <1>10 DEF ReplayRead, HolderInv, PlacesInv
  <2>2. RowOf(a).owner \in Attempt
    BY <2>1 DEF RowInv, PlacesInv, RowOf, Working
  <2>3. /\ StepOf(a) /\ pc'[a] = "done"
        /\ \/ /\ answer'[a].kind = "KEY_REUSE"
              /\ FingerprintRead(RowOf(a)) # req[a].body
           \/ /\ answer'[a].kind = "REPLAYED" /\ answer'[a].of = RowOf(a).owner
              /\ FingerprintRead(RowOf(a)) = req[a].body
    BY <1>10, <2>1, <2>2 DEF ReplayRead, Finish, Reply, StepOf, TypeOK, Places, Answers
  <2>4. QED
    BY <1>10, <2>1, <2>3, MoveInv DEF ReplayRead
<1>11. ASSUME NEW a \in Attempt, WorkCommits(a) PROVE IInv'
  <2>1. /\ StepOf(a) /\ answer'[a].kind = "NONE" /\ pc'[a] = "complete"
        /\ separator' \in [Attempt -> BOOLEAN]
        /\ \A x \in Attempt \ {a} : separator'[x] = separator[x]
    BY <1>11 DEF WorkCommits, GoTo, StepOf, TypeOK, PlacesInv, Places, Working
  <2>2. QED
    BY <1>11, <2>1, CommitInv DEF WorkCommits
<1>12. ASSUME NEW a \in Attempt, WorkThrows(a) PROVE IInv'
  <2>1. StepOf(a) /\ answer' = answer /\ claimed' = claimed /\ pc'[a] = "abandon"
    BY <1>12 DEF WorkThrows, GoTo, StepOf, TypeOK, Places, Working
  <2>2. /\ a \notin executed /\ claimed[a] /\ pc[a] \in Working
        /\ RowOf(a).state = "IN_FLIGHT" /\ RowOf(a).owner = a
    BY <1>12 DEF WorkThrows, PlacesInv, HolderInv, Holds, Working
  <2>3. QED
    BY <1>12, <2>1, <2>2, MoveInv DEF WorkThrows
<1>13. ASSUME NEW a \in Attempt, CommitUnacknowledged(a) PROVE IInv'
  <2>1. /\ StepOf(a) /\ answer'[a].kind = "NONE" /\ pc'[a] = "abandon"
        /\ separator' \in [Attempt -> BOOLEAN]
    BY <1>13 DEF CommitUnacknowledged, Fault, GoTo, StepOf, TypeOK, PlacesInv, Places, Working
  <2>2. QED
    BY <1>13, <2>1, CommitInv DEF CommitUnacknowledged
<1>14. ASSUME NEW a \in Attempt, Abandon(a) PROVE IInv'
  <2>1. StepOf(a) /\ pc'[a] = "done" /\ answer'[a].kind = "REFUSED"
    BY <1>14 DEF Abandon, Finish, Reply, StepOf, TypeOK, Places, Answers
  <2>2. QED
    BY <1>14, <2>1, DeleteInv DEF Abandon
<1>15. ASSUME NEW a \in Attempt, Complete(a) PROVE IInv'
  <2>1. /\ StepOf(a) /\ pc'[a] = "done"
        /\ answer'[a].kind = "EXECUTED" /\ answer'[a].of = a
    BY <1>15 DEF Complete, Finish, StepOf, TypeOK, Places, Answers
  <2>2. QED
    BY <1>15, <2>1, UpdateInv DEF Complete
<1>16. ASSUME NEW a \in Attempt, StoreFails(a) PROVE IInv'
  <2>1. /\ pc'[a] = "done" /\ answer'[a].kind = "UNAVAILABLE"
        /\ UNCHANGED <<req, separator, executed, unacked>>
        /\ claimed' \in [Attempt -> BOOLEAN]
        /\ \A x \in Attempt \ {a} : claimed'[x] = claimed[x]
    BY <1>16 DEF StoreFails, Finish, Reply, Insert, TypeOK
  <2>2. StepOf(a)
    <3>1. Fault /\ Finish(a, Reply("UNAVAILABLE")) /\ pc[a] # "done"
      BY <1>16 DEF StoreFails
    <3>2. QED
      BY <2>1, <3>1 DEF Fault, Finish, Reply, StepOf, TypeOK, Places, Answers
  <2>3. CASE UNCHANGED <<claimed, row>>
    BY <2>1, <2>2, <2>3, MoveInv
  <2>4. CASE pc[a] \in {"begin", "replayBegin"} /\ Insert(a)
    BY <2>1, <2>2, <2>4, InsertInv
  <2>5. CASE pc[a] = "abandon" /\ Delete(a) /\ UNCHANGED claimed
    BY <2>1, <2>2, <2>5, DeleteInv
  <2>6. CASE pc[a] = "complete" /\ Update(a) /\ UNCHANGED claimed
    BY <2>1, <2>2, <2>6, UpdateInv
  <2>7. QED
    BY <1>16, <2>3, <2>4, <2>5, <2>6 DEF StoreFails
<1>17. ASSUME NEW a \in Attempt, Crash(a) PROVE IInv'
  <2>1. StepOf(a) /\ pc'[a] = "done" /\ answer'[a].kind = "DROPPED"
    BY <1>17 DEF Crash, Fault, Finish, Reply, StepOf, TypeOK, Places, Working, Answers
  <2>2. CASE UNCHANGED executed
    BY <1>17, <2>1, <2>2, MoveInv DEF Crash
  <2>3. CASE pc[a] = "work" /\ executed' = executed \cup {a}
    BY <1>17, <2>1, <2>3, CommitInv DEF Crash, TypeOK
  <2>4. QED
    BY <1>17, <2>2, <2>3 DEF Crash
<1>18. QED
  BY <1>2, <1>3, <1>4, <1>5, <1>6, <1>7, <1>8, <1>9, <1>10, <1>11, <1>12, <1>13, <1>14,
     <1>15, <1>16, <1>17 DEF Next, Step

-----------------------------------------------------------------------------
(* Theorems *)

\* The protocol keeps IInv, its type invariant among the parts.
THEOREM InvariantHolds == Spec => []IInv
<1>1. Init => IInv
  BY InitInv
<1>2. IInv /\ [Next]_vars => IInv'
  BY NextInv
<1>3. QED
  BY <1>1, <1>2, PTL DEF Spec

\* Two attempts never work under one key at the same time (the single INSERT of
\* store.begin decides).
THEOREM SoleHolderHolds == Spec => []SoleHolder
<1>1. IInv => SoleHolder
  BY DEF IInv, HolderInv, SoleHolder, RowOf
<1>2. QED
  BY <1>1, InvariantHolds, PTL

\* A second effect under one key needs a COMMIT whose acknowledgement was lost:
\* retries, crashes and store failures in any number cannot produce one.
THEOREM AtMostOneAcknowledgedEffectHolds == Spec => []AtMostOneAcknowledgedEffect
<1>1. IInv => AtMostOneAcknowledgedEffect
  BY DEF IInv, RowInv, AtMostOneAcknowledgedEffect, RowOf
<1>2. QED
  BY <1>1, InvariantHolds, PTL

\* Whatever is replayed is the answer of the same key and body, unharmed.
THEOREM ReplayIsOriginalHolds == Spec => []ReplayIsOriginal
<1>1. IInv => ReplayIsOriginal
  BY DEF IInv
<1>2. QED
  BY <1>1, InvariantHolds, PTL

\* An attempt is told KEY_REUSE only when another has done its work under the key with
\* another body, or with one that read() cuts.
THEOREM ReuseIsConflictHolds == Spec => []ReuseIsConflict
<1>1. IInv => ReuseIsConflict
  BY DEF IInv
<1>2. QED
  BY <1>1, InvariantHolds, PTL

\* A completed row stays what it is: later claims, releases and failures under
\* the same key leave it alone.
THEOREM CompletedIsFinalHolds == Spec => CompletedIsFinal
<1>1. ASSUME IInv, [Next]_vars, NEW k \in Key, row[k].state = "COMPLETED"
      PROVE  row'[k] = row[k]
  <2>1. TypeOK /\ row[k] \in Rows
    BY <1>1 DEF IInv, TypeOK
  <2>2. CASE row' = row
    BY <2>2
  <2>3. ASSUME NEW a \in Attempt, Insert(a) PROVE row'[k] = row[k]
    BY <1>1, <2>1, <2>3 DEF Insert, RowOf, TypeOK
  <2>4. ASSUME NEW a \in Attempt, Delete(a) PROVE row'[k] = row[k]
    BY <1>1, <2>1, <2>4 DEF Delete, RowOf, TypeOK
  <2>5. ASSUME NEW a \in Attempt, Update(a) PROVE row'[k] = row[k]
    BY <1>1, <2>1, <2>5 DEF Update, RowOf, TypeOK, Rows
  <2>6. row' = row \/ \E a \in Attempt : Insert(a) \/ Delete(a) \/ Update(a)
    BY <1>1 DEF vars, Next, Step, Arrive, ArriveWithoutKey, BeginInsert, BeginRead,
         HandlerRefuses, EnterWithIdempotency, ReplayInsert, ReplayRead, WorkCommits,
         WorkThrows, CommitUnacknowledged, Abandon, Complete, StoreFails, Crash
  <2>7. QED
    BY <2>2, <2>3, <2>4, <2>5, <2>6
<1>2. IInv /\ [Next]_vars => [\A k \in Key : row[k].state = "COMPLETED" => row'[k] = row[k]]_vars
  BY <1>1
<1>3. QED
  BY <1>2, InvariantHolds, PTL DEF Spec, CompletedIsFinal
-----------------------------------------------------------------------------
(* Implementation of OncePerKey *)

Replies == [a \in Attempt |-> ReplyGiven(a)]
Submissions == [a \in Attempt |-> req[a].key]

\* An attempt that is answered gets its reply, one that is not keeps having none.
LEMMA ReplyStep ==
  ASSUME IInv, NEW a \in Attempt, pc[a] # "done", answer' \in [Attempt -> Answers],
         \A x \in Attempt \ {a} : answer'[x] = answer[x]
  PROVE  /\ Replies[a] = None
         /\ Replies' = [Replies EXCEPT ![a] = ReplyGiven(a)']
         /\ answer'[a] = answer[a] => Replies' = Replies
  BY ZenonT(60) DEF IInv, PlacesInv, Replies, ReplyGiven

\* An attempt that holds its row finds every earlier effect in doubt: one that
\* is not has the row to itself.
LEMMA HolderMayPerform ==
  ASSUME IInv, NEW a \in Attempt, pc[a] = "work"
  PROVE  /\ Once!MayPerform(a)
         /\ Submissions[a] # None
<1>1. TypeOK /\ PlacesInv /\ HolderInv /\ RowInv
  BY DEF IInv
<1>2. claimed[a] /\ req[a].key \in Key /\ a \notin executed
  BY <1>1 DEF PlacesInv, Working
<1>3. row[req[a].key].owner = a
  BY <1>1, <1>2 DEF HolderInv, Holds, RowOf
<1>4. ASSUME NEW o \in executed, req[o].key = req[a].key PROVE o \in unacked
  BY <1>1, <1>2, <1>3, <1>4 DEF RowInv, RowOf
<1>5. \A x \in Attempt : Submissions[x] = req[x].key
  BY DEF Submissions
<1>6. QED
  BY <1>1, <1>2, <1>4, <1>5, NoneAssumption DEF Once!MayPerform, Submissions, TypeOK

LEMMA StepSimulation == IInv /\ IInv' /\ [Next]_vars => [Once!Next]_Once!vars
<1> SUFFICES ASSUME IInv, IInv', [Next]_vars
             PROVE  Once!Next \/ UNCHANGED Once!vars
  OBVIOUS
<1>1. TypeOK /\ PlacesInv /\ TypeOK' /\ AnswerInv'
  BY DEF IInv
<1> USE <1>1
<1> DEFINE Same == UNCHANGED <<Submissions, executed, unacked>>
<1>2. Same /\ Replies' = Replies => UNCHANGED Once!vars
  BY DEF Once!vars, Submissions, Replies
<1>3. CASE UNCHANGED vars
  BY <1>2, <1>3 DEF vars, Submissions, Replies, ReplyGiven
<1>4. ASSUME NEW a \in Attempt, Arrive(a) PROVE Once!Next
  <2>1. PICK k \in Key : Submissions' = [Submissions EXCEPT ![a] = k]
    <3>1. PICK k \in Key, b \in Body, t \in Target :
            req' = [req EXCEPT ![a] = [key |-> k, body |-> b, target |-> t]]
      BY <1>4 DEF Arrive
    <3>2. Submissions' = [Submissions EXCEPT ![a] = k]
      BY <3>1 DEF Submissions, TypeOK
    <3>3. QED
      BY <3>2
  <2>2. /\ Submissions[a] = None /\ Replies[a] = None /\ Replies' = Replies
        /\ UNCHANGED <<executed, unacked>>
    BY <1>4 DEF Arrive, GoTo, PlacesInv, NoRequest, Submissions, Replies, ReplyGiven
  <2>3. Once!Submit(a)
    BY <2>1, <2>2 DEF Once!Submit, Submissions, Replies
  <2>4. QED
    BY <2>3 DEF Once!Next
\* A step that answers without an effect: a refusal, or a report.
<1>5. ASSUME NEW a \in Attempt, pc[a] # "done", UNCHANGED <<req, executed, unacked>>,
             UNCHANGED answer \/ \E r \in Answers : answer' = [answer EXCEPT ![a] = r]
      PROVE  Once!Next \/ UNCHANGED Once!vars
  <2>1. /\ Same
        /\ \A x \in Attempt \ {a} : answer'[x] = answer[x]
        /\ answer'[a] \in Answers
    BY <1>5 DEF Submissions, TypeOK
  <2>2. /\ Replies[a] = None
        /\ Replies' = [Replies EXCEPT ![a] = ReplyGiven(a)']
    BY <1>5, <2>1, ReplyStep DEF TypeOK
  <2>3. CASE answer'[a].kind = "NONE"
    <3>1. ReplyGiven(a)' = None
      BY <2>3 DEF ReplyGiven
    <3>2. Replies' = Replies
      BY <2>2, <3>1 DEF Replies
    <3>3. QED
      BY <1>2, <2>1, <3>2
  <2>4. CASE answer'[a].kind \in {"REPLAYED", "EXECUTED"}
    <3>1. /\ answer'[a].of \in executed \ unacked
          /\ Submissions[answer'[a].of] = Submissions[a]
          /\ ReplyGiven(a)' = answer'[a].of
      BY <1>5, <2>4 DEF AnswerInv, ReplyGiven, Submissions, TypeOK
    <3>2. Once!Report(a)
      BY <2>1, <2>2, <3>1 DEF Once!Report, Submissions, Replies
    <3>3. QED
      BY <3>2 DEF Once!Next
  <2>5. CASE answer'[a].kind \notin {"NONE", "REPLAYED", "EXECUTED"}
    <3>1. ReplyGiven(a)' = "refused"
      BY <2>5 DEF ReplyGiven
    <3>2. Once!Refuse(a)
      BY <2>1, <2>2, <3>1 DEF Once!Refuse, Submissions, Replies
    <3>3. QED
      BY <3>2 DEF Once!Next
  <2>6. QED
    BY <2>3, <2>4, <2>5
\* A commit, acknowledged or not, the process surviving it or not.
<1>6. ASSUME NEW a \in Attempt, pc[a] = "work", UNCHANGED req,
             executed' = executed \cup {a},
             unacked' = unacked \/ unacked' = unacked \cup {a},
             UNCHANGED answer \/ answer' = [answer EXCEPT ![a] = Reply("DROPPED")]
      PROVE  Once!Next
  <2>1. /\ Submissions' = Submissions
        /\ \A x \in Attempt \ {a} : answer'[x] = answer[x]
    BY <1>6 DEF Submissions, TypeOK
  <2>2. /\ Replies[a] = None
        /\ Replies' = Replies \/ Replies' = [Replies EXCEPT ![a] = "refused"]
    <3>1. CASE UNCHANGED answer
      BY <1>6, <2>1, <3>1, ReplyStep DEF TypeOK
    <3>2. CASE answer' = [answer EXCEPT ![a] = Reply("DROPPED")]
      <4>1. ReplyGiven(a)' = "refused"
        BY <3>2 DEF ReplyGiven, Reply, TypeOK
      <4>2. QED
        BY <1>6, <2>1, <4>1, ReplyStep DEF TypeOK
    <3>3. QED
      BY <1>6, <3>1, <3>2
  <2>3. Once!Perform(a)
    BY <1>6, <2>1, <2>2, HolderMayPerform DEF Once!Perform, Submissions, Replies
  <2>4. QED
    BY <2>3 DEF Once!Next
<1>7. ASSUME NEW a \in Attempt, Step(a) \/ ArriveWithoutKey(a) \/ StoreFails(a)
      PROVE  Once!Next \/ UNCHANGED Once!vars
  <2>1. CASE WorkCommits(a)
    BY <1>6, <2>1 DEF WorkCommits, GoTo
  <2>2. CASE ~WorkCommits(a)
    <3>1. /\ pc[a] # "done" /\ UNCHANGED <<req, executed, unacked>>
          /\ \/ UNCHANGED answer
             \/ /\ answer'[a] \in Answers
                /\ \E r : answer' = [answer EXCEPT ![a] = r]
      BY <1>7, <2>2 DEF Step, ArriveWithoutKey, BeginInsert, BeginRead, HandlerRefuses,
           EnterWithIdempotency, ReplayInsert, ReplayRead, WorkThrows, Abandon, Complete,
           StoreFails, GoTo, Finish, TypeOK
    <3>2. UNCHANGED answer \/ \E r \in Answers : answer' = [answer EXCEPT ![a] = r]
      BY <3>1 DEF TypeOK
    <3>3. QED
      BY <1>5, <3>1, <3>2
  <2>3. QED
    BY <2>1, <2>2
<1>8. ASSUME NEW a \in Attempt, CommitUnacknowledged(a) PROVE Once!Next
  BY <1>6, <1>8 DEF CommitUnacknowledged, GoTo
<1>9. ASSUME NEW a \in Attempt, Crash(a) PROVE Once!Next \/ UNCHANGED Once!vars
  <2>1. CASE UNCHANGED executed
    <3>1. Reply("DROPPED") \in Answers /\ pc[a] # "done"
      BY <1>9 DEF Crash, Reply, Answers, Working
    <3>2. QED
      BY <1>5, <1>9, <2>1, <3>1 DEF Crash, Finish
  <2>2. CASE pc[a] = "work" /\ executed' = executed \cup {a}
    BY <1>6, <1>9, <2>2 DEF Crash, Finish
  <2>3. QED
    BY <1>9, <2>1, <2>2 DEF Crash
<1>10. QED
  BY <1>3, <1>4, <1>7, <1>8, <1>9 DEF Next

\* Routes, plugin, runner and store together implement the promise made to
\* clients, for every number of attempts, keys, bodies and faults.
THEOREM Implementation == Spec => ImplementsOncePerKey
<1>1. Init => Once!Init
  BY DEF Init, Once!Init, NoRequest, Reply, ReplyGiven
<1>2. IInv /\ IInv' /\ [Next]_vars => [Once!Next]_Once!vars
  BY StepSimulation
<1>3. QED
  BY <1>1, <1>2, InvariantHolds, PTL DEF Spec, ImplementsOncePerKey, Once!Spec
=============================================================================
