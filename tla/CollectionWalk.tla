---------------------------- MODULE CollectionWalk ----------------------------
(***************************************************************************)
(* A client walks one keyset-paginated collection page by page, while       *)
(* other requests insert and change its rows and the clock moves.           *)
(*                                                                         *)
(* PostgreSQL keeps a timestamp in microseconds and a cursor carries        *)
(* milliseconds; here an instant is a natural number of which Micros make   *)
(* one millisecond.  The rows are those of one collection, which the        *)
(* behaviour chooses; queries are put to it with and without a time window, *)
(* and a cursor is the payload the server signed.                           *)
(***************************************************************************)
EXTENDS Integers, FiniteSets

CONSTANTS
  Row,         \* row ids, in the order of their uuids
  Scope,       \* tenants; for a list nested under a case, that tenant's cases
  Routes,      \* the collections considered
  Micros,      \* instants in a millisecond
  Span,        \* DEFAULT_TIME_RANGE_DAYS, in milliseconds
  MaxSpan,     \* the widest window of the audit stream, in milliseconds
  Limits,      \* the page sizes a client asks for
  Asked,       \* the window bounds a client names, in milliseconds
  MaxClock,    \* bound: the last instant
  Lag,         \* bound: how long a transaction runs before its row is visible
  MaxWrites,   \* bound: inserts and changes
  None

\* The list of cases under sort=createdAt.  Under every other order a row is placed
\* by the column its cursor carries.
Misplaced == {"casesByCreation"}
\* The lists that read their cursor before they parse their query.
Peeking ==
  {"cases", "exposures", "reappearances"} \cup Misplaced
\* SPEC-003 5.15.1: an unbounded audit scan is refused.
RangeRequired == {"audit"}
Timed == Peeking \cup RangeRequired
\* The lists under a case, with a signed position of their own.
Nested == {"actions", "mailPieces"}
\* Lists whose order and whose keyset comparison both truncate to milliseconds.
Truncating == {"cases", "exposures", "reappearances", "subjects"} \cup Misplaced
\* The list that compares the column as it is stored; what its writer stores there
\* are whole milliseconds (Stamps).
Raw == {"audit"}
\* Lists whose rows a later command changes.
Touchable == {"cases", "exposures"} \cup Misplaced

Instant == 0 .. MaxClock
Milli == 0 .. (MaxClock \div Micros)

ASSUME CollectionAssumption ==
  /\ Row \subseteq Nat
  /\ Routes \subseteq Timed \cup Nested \cup Truncating \cup Raw
  /\ Micros \in Nat \ {0} /\ Span \in Nat \ {0} /\ Lag \in Nat /\ MaxSpan \in Nat
  /\ MaxClock \in Nat /\ MaxWrites \in Nat /\ None \notin Int
  /\ Limits \subseteq Nat \ {0} /\ Limits # {} /\ Asked \subseteq Milli

VARIABLES
  route,     \* the collection of this behaviour
  clock,     \* now(), of the database and of the server
  row,       \* the committed rows: NoRow, or a scope, the instant its lists filter on
             \* and sort by, and the instant it was made, kept where a list sorts by that
  writes,    \* inserts and changes so far
  moved,     \* the rows inserted or changed since the walk began
  walk       \* the client's walk

vars == <<route, clock, row, writes, moved, walk>>

NoRow == [scope |-> None, made |-> None, at |-> None]

Query == [scope : Scope, dir : {"asc", "desc"}, from : Asked \cup {None},
          to : Asked \cup {None}]

NoWindow == [from |-> None, to |-> None, defaulted |-> FALSE]
Refused == [from |-> None, to |-> None, defaulted |-> TRUE]
Window == [from : Int, to : Milli, defaulted : BOOLEAN] \cup {NoWindow}

Payload == [scope : Scope, route : Routes, filter : Window, dir : {"asc", "desc"},
            sortValue : Instant, id : Row]

NoCursor == [scope |-> None, route |-> None, filter |-> NoWindow, dir |-> None,
             sortValue |-> None, id |-> None]

Idle == [state |-> "idle", query |-> None, filter |-> NoWindow, start |-> {},
         cursor |-> NoCursor, seen |-> [r \in Row |-> 0]]

TypeOK ==
  /\ route \in Routes
  /\ clock \in Instant
  /\ row \in [Row -> [scope : Scope, made : Instant \cup {None}, at : Instant] \cup {NoRow}]
  /\ writes \in 0 .. MaxWrites
  /\ moved \subseteq Row
  /\ walk.state \in {"idle", "walking", "done", "refused"}
  /\ walk.state = "idle" \/ walk.query \in Query
  /\ walk.filter \in Window
  /\ walk.start \subseteq Row
  /\ walk.cursor \in Payload \cup {NoCursor}
  /\ walk.seen \in [Row -> 0 .. 2]

Init ==
  /\ route \in Routes
  /\ clock = 0
  /\ row = [r \in Row |-> NoRow]
  /\ writes = 0
  /\ moved = {}
  /\ walk = Idle

-----------------------------------------------------------------------------
(* The query *)

NowMs == clock \div Micros

\* A parameter the list's schema does not declare is refused: no window where
\* there is no time filter, and the order of a nested list cannot be chosen.
Declared(q) ==
  /\ route \notin Timed => q.from = None /\ q.to = None
  /\ route \in Nested => q.dir = "desc"

\* parseQuery: the window a request applies, given the one its cursor carries (or
\* NoWindow).  A side the request names is its own; a side it omits is inherited, or
\* else defaults to now and to Span before the upper bound.
AppliedWindow(q, inherited) ==
  LET own == IF q.to = None THEN NowMs ELSE q.to
      from == IF q.from # None THEN q.from
              ELSE IF inherited # NoWindow THEN inherited.from ELSE own - Span
      to == IF q.to = None /\ inherited # NoWindow THEN inherited.to ELSE own
  IN  IF \/ ~Declared(q)
         \/ route \in RangeRequired /\ (q.from = None \/ q.to = None)
      THEN Refused
      ELSE IF route \notin Timed THEN NoWindow
      ELSE IF from >= to \/ (route \in RangeRequired /\ to - from > MaxSpan)
      THEN Refused
      ELSE [from |-> from, to |-> to, defaulted |-> (q.from = None \/ q.to = None)]

\* Defect: every page resolves the default window against the clock.
InheritedNever(cursor) == NoWindow

\* peekCursor: what a continuation inherits from the cursor it presents.
Inherited(cursor) ==
  IF route \in Peeking THEN cursor.filter ELSE NoWindow

\* Defect: the filter binding is not compared.
DecodesAnyFilter(cursor, q, filter) ==
  cursor.scope = q.scope /\ cursor.route = route /\ cursor.dir = q.dir

\* decodeCursor, and decodeActionCursor of the nested lists: a cursor is only good
\* for the query it was issued to.
Decodes(cursor, q, filter) ==
  /\ cursor.scope = q.scope
  /\ route \notin Nested =>
       /\ cursor.route = route
       /\ cursor.filter = filter
       /\ cursor.dir = q.dir

Accepted(cursor, q) ==
  LET filter == AppliedWindow(q, Inherited(cursor))
  IN  filter # Refused /\ Decodes(cursor, q, filter)

-----------------------------------------------------------------------------
(* The SQL statement *)

Trunc(t) == (t \div Micros) * Micros

\* Defect: the keyset condition compares microseconds with the cursor's
\* milliseconds.
CompareUntruncated(t) == t

\* What ORDER BY sorts on, and what the keyset condition compares.
OrderValue(t) == IF route \in Truncating THEN Trunc(t) ELSE t
CompareValue(t) == IF route \in Raw THEN t ELSE Trunc(t)

\* The instant a row is placed by.
Placed(r) == IF route \in Misplaced THEN row[r].made ELSE row[r].at

\* (a, i) comes strictly before (b, j).
Before(dir, a, i, b, j) ==
  \/ IF dir = "asc" THEN a < b ELSE b < a
  \/ a = b /\ IF dir = "asc" THEN i < j ELSE j < i

Precedes(dir, r, s) ==
  Before(dir, OrderValue(Placed(r)), r, OrderValue(Placed(s)), s)

InWindow(t, filter) ==
  filter = NoWindow \/ (filter.from * Micros <= t /\ t < filter.to * Micros)

Matching(q, filter) ==
  {r \in Row : /\ row[r] # NoRow
               /\ row[r].scope = q.scope
               /\ InWindow(row[r].at, filter)}

\* The row lies past the position the cursor names.
After(cursor, q, r) ==
  Before(q.dir, cursor.sortValue, cursor.id, CompareValue(Placed(r)), r)

Selected(q, filter, cursor) ==
  {r \in Matching(q, filter) : cursor = NoCursor \/ After(cursor, q, r)}

\* ORDER BY ... LIMIT limit + 1, of which buildCollection keeps the first limit
\* rows: page is what is returned of the rows selected.
IsPage(page, rows, dir, limit) ==
  /\ page \subseteq rows
  /\ Cardinality(page) = IF Cardinality(rows) > limit THEN limit ELSE Cardinality(rows)
  /\ \A r \in page, s \in rows \ page : Precedes(dir, r, s)

\* The cursor minted from the last row of a page; sortValueOf of the cases' route
\* names updatedAt for createdAt too.
Minted(q, filter, last) ==
  [scope |-> q.scope, route |-> route, filter |-> filter, dir |-> q.dir,
   sortValue |-> Trunc(row[last].at), id |-> last]

-----------------------------------------------------------------------------
(* Actions *)

\* Bound: nothing is of interest once the walk is over.
Open == walk.state \in {"idle", "walking"}

Tick ==
  /\ Open /\ clock < MaxClock
  /\ clock' = clock + 1
  /\ UNCHANGED <<route, row, writes, moved, walk>>

\* now() is the instant the writing transaction began; the sink writes an audit
\* row's instant in whole milliseconds.
Stamps ==
  {t \in Instant : /\ clock - Lag <= t /\ t <= clock
                   /\ route \in Raw => t = Trunc(t)}

Write(r, scope, made, at) ==
  /\ Open /\ writes < MaxWrites
  /\ writes' = writes + 1
  /\ row' = [row EXCEPT ![r] = [scope |-> scope, made |-> made, at |-> at]]
  /\ moved' = IF walk.state = "walking" THEN moved \cup {r} ELSE moved
  /\ UNCHANGED <<route, clock, walk>>

Insert(r) ==
  /\ row[r] = NoRow
  /\ \E scope \in Scope, at \in Stamps :
       Write(r, scope, IF route \in Misplaced THEN at ELSE None, at)

\* A command moves the row to the instant its transaction began.
Touch(r) ==
  /\ route \in Touchable
  /\ row[r] # NoRow
  /\ \E at \in Stamps : Write(r, row[r].scope, row[r].made, at)

\* Bound: a row returned twice has been returned too often.
Once(count) == IF count = 0 THEN 1 ELSE 2

\* A page is served, and with it the cursor of the next one if there was a row
\* more than asked for.
Served(q, filter, cursor, page, next) ==
  walk' = [state |-> IF next = NoCursor THEN "done" ELSE "walking",
           query |-> q,
           filter |-> filter,
           start |-> IF cursor = NoCursor THEN Selected(q, filter, cursor) ELSE walk.start,
           cursor |-> next,
           seen |-> [r \in Row |->
                       LET before == IF cursor = NoCursor THEN 0 ELSE walk.seen[r]
                       IN  IF r \in page THEN Once(before) ELSE before]]

Serve(q, filter, cursor, limit) ==
  LET rows == Selected(q, filter, cursor)
  IN  \E page \in SUBSET rows :
        /\ IsPage(page, rows, q.dir, limit)
        /\ \/ page = rows /\ Served(q, filter, cursor, page, NoCursor)
           \/ /\ page # rows
              /\ \E last \in page :
                   /\ \A r \in page : r = last \/ Precedes(q.dir, r, last)
                   /\ Served(q, filter, cursor, page, Minted(q, filter, last))

FirstPage(q, limit) ==
  /\ walk.state = "idle"
  /\ LET filter == AppliedWindow(q, NoWindow)
     IN  /\ filter # Refused
         /\ Serve(q, filter, NoCursor, limit)
  /\ moved' = {}
  /\ UNCHANGED <<route, clock, row, writes>>

\* The client repeats its query with nextCursor, with any page size.
NextPage(limit) ==
  /\ walk.state = "walking"
  /\ LET filter == AppliedWindow(walk.query, Inherited(walk.cursor))
     IN  IF Accepted(walk.cursor, walk.query)
         THEN Serve(walk.query, filter, walk.cursor, limit)
         ELSE walk' = [walk EXCEPT !.state = "refused"]
  /\ UNCHANGED <<route, clock, row, writes, moved>>

Next ==
  \/ Tick
  \/ \E r \in Row : Insert(r) \/ Touch(r)
  \/ \E q \in Query, limit \in Limits : FirstPage(q, limit)
  \/ \E limit \in Limits : NextPage(limit)

Spec == Init /\ [][Next]_vars

-----------------------------------------------------------------------------
(* Properties *)

\* SPEC-003 2.5, subjects.ts:127, observations.ts:256: a walk returns every row it
\* began with exactly once, whatever page sizes it asks for, unless the row was
\* changed on the way; rows that share a millisecond across a page boundary are
\* neither skipped nor repeated.
WalkIsComplete ==
  walk.state = "done" => \A r \in walk.start \ moved : walk.seen[r] = 1

\* strict.ts:133: a client that follows nextCursor is not refused because the
\* clock moved under the window its first page defaulted to.
ContinuationIsAccepted == walk.state # "refused"

\* cursor.ts:183: a signed cursor continues its own query and no other: whatever
\* query presents it, at whatever time, a page it opens is of the same scope, in
\* the same order and of the same window as the page it was minted on.
CursorIsBound ==
  walk.cursor # NoCursor =>
    \A q \in Query :
      Accepted(walk.cursor, q) =>
        /\ q.scope = walk.query.scope
        /\ route \notin Nested =>
             /\ q.dir = walk.query.dir
             /\ AppliedWindow(q, Inherited(walk.cursor)) = walk.filter

=============================================================================
