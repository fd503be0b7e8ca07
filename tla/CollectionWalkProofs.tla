------------------------- MODULE CollectionWalkProofs -------------------------
(***************************************************************************)
(* What a walk of a collection guarantees, for every set of rows, every    *)
(* page size, window and resolution of the clock.                          *)
(*                                                                         *)
(* Where the order and the keyset comparison see the same value of a row,   *)
(* the cursor cuts the rows the walk began with in two: those before it     *)
(* have been returned once and those after it not at all.  A served page    *)
(* moves the cut.  For the lists nested under a case the two disagree, and  *)
(* for the cases by creation the cursor names another column: the theorems  *)
(* exclude both.                                                            *)
(***************************************************************************)
EXTENDS CollectionWalk, TLAPS

\* The lists whose order, comparison and cursor go by one value of a row.
Sound == Routes \cap (Nested \cup Misplaced) = {}

\* What the first page's window owes to the query, and the clock no longer to it.
Fits(q, f) ==
  /\ Declared(q)
  /\ f \in Window
  /\ route \notin Timed => f = NoWindow
  /\ route \in Timed =>
       /\ f # NoWindow /\ f # Refused
       /\ f.from \in Int /\ f.to \in Int /\ f.from < f.to
       /\ f.defaulted = (q.from = None \/ q.to = None)
       /\ q.from # None => f.from = q.from
       /\ q.to # None => f.to = q.to
       /\ route \in RangeRequired => q.from # None /\ q.to # None /\ f.to - f.from <= MaxSpan

RowsInv ==
  \A r \in Row : row[r] # NoRow =>
    /\ row[r] \in [scope : Scope, made : Instant \cup {None}, at : Instant]
    /\ route \in Raw => row[r].at = Trunc(row[r].at)

WalkInv ==
  /\ walk.state \in {"idle", "walking", "done"}
  /\ walk.state = "walking" =>
       /\ walk.query \in Query
       /\ Fits(walk.query, walk.filter)
       /\ \E at \in Instant, id \in Row :
            walk.cursor = [scope |-> walk.query.scope, route |-> route,
                           filter |-> walk.filter, dir |-> walk.query.dir,
                           sortValue |-> Trunc(at), id |-> id]
       /\ \A r \in walk.start \ moved :
            /\ r \in Matching(walk.query, walk.filter)
            /\ walk.seen[r] = IF After(walk.cursor, walk.query, r) THEN 0 ELSE 1
  /\ walk.state = "done" =>
       /\ walk.cursor = NoCursor
       /\ \A r \in walk.start \ moved : walk.seen[r] = 1
  /\ walk.state = "idle" => walk.cursor = NoCursor

IInv == TypeOK /\ RowsInv /\ WalkInv

-----------------------------------------------------------------------------
(* Order *)

LEMMA TruncType ==
  ASSUME NEW t \in Instant
  PROVE  Trunc(t) \in Instant
<1>1. t \in Nat /\ t <= MaxClock /\ Micros \in Nat /\ Micros > 0
  BY CollectionAssumption DEF Instant
<1>2. t \div Micros \in Nat
  BY <1>1
<1>3. (t \div Micros) * Micros \in Nat
  BY <1>1, <1>2
<1>4. (t \div Micros) * Micros <= t
  BY <1>1, <1>2
<1> QED
  BY <1>1, <1>3, <1>4, CollectionAssumption DEF Trunc, Instant

\* Where the list is sound, the order, the comparison and the cursor agree.
LEMMA ValuesAgree ==
  ASSUME Sound, IInv, NEW r \in Row, row[r] # NoRow
  PROVE  /\ OrderValue(Placed(r)) = Trunc(row[r].at)
         /\ CompareValue(Placed(r)) = Trunc(row[r].at)
         /\ row[r].at \in Instant
         /\ Trunc(row[r].at) \in Int
<1>1. route \in Truncating \cup Raw
  BY CollectionAssumption
     DEF IInv, TypeOK, Sound, Timed, Peeking, RangeRequired, Nested, Truncating, Raw,
         Misplaced
<1>2. Truncating \cap Raw = {}
  BY DEF Truncating, Raw, Misplaced
<1>3. row[r].at \in Instant /\ (route \in Raw => row[r].at = Trunc(row[r].at))
  BY DEF IInv, RowsInv
<1>4. Trunc(row[r].at) \in Int
  BY <1>3, TruncType DEF Instant
<1>5. Placed(r) = row[r].at
  BY DEF Placed, Sound, IInv, TypeOK
<1> QED
  BY <1>1, <1>2, <1>3, <1>4, <1>5 DEF OrderValue, CompareValue

LEMMA BeforeOrders ==
  ASSUME NEW dir \in {"asc", "desc"},
         NEW a \in Int, NEW b \in Int, NEW c \in Int,
         NEW i \in Int, NEW j \in Int, NEW k \in Int
  PROVE  /\ ~Before(dir, a, i, a, i)
         /\ Before(dir, a, i, b, j) => ~Before(dir, b, j, a, i)
         /\ Before(dir, a, i, b, j) /\ Before(dir, b, j, c, k) => Before(dir, a, i, c, k)
         /\ (a = b /\ i = j) \/ Before(dir, a, i, b, j) \/ Before(dir, b, j, a, i)
BY DEF Before

-----------------------------------------------------------------------------
(* The window *)
LEMMA ClockType ==
  ASSUME TypeOK
  PROVE  /\ NowMs \in Milli /\ NowMs \in Int
         /\ \A q \in Query : q.to = None \/ (q.to \in Milli /\ q.to \in Int)
         /\ \A q \in Query : q.from = None \/ q.from \in Int
<1>1. clock \in Nat /\ clock <= MaxClock /\ MaxClock \in Nat /\ Micros \in Nat /\ Micros > 0
  BY CollectionAssumption DEF TypeOK, Instant
<1>2. NowMs \in Nat
  BY <1>1 DEF NowMs
<1>3. clock \div Micros <= MaxClock \div Micros
  BY <1>1
<1>4. MaxClock \div Micros \in Nat
  BY <1>1
<1>5. NowMs \in Milli
  BY <1>2, <1>3, <1>4 DEF NowMs, Milli
<1>6. Milli \subseteq Int /\ Asked \subseteq Milli
  BY <1>4, CollectionAssumption DEF Milli
<1> QED
  BY <1>2, <1>5, <1>6 DEF Query

\* What the first page applies fits its query.
LEMMA FirstWindowFits ==
  ASSUME TypeOK, NEW q \in Query, AppliedWindow(q, NoWindow) # Refused
  PROVE  Fits(q, AppliedWindow(q, NoWindow))
<1> DEFINE own == IF q.to = None THEN NowMs ELSE q.to
           from == IF q.from # None THEN q.from ELSE own - Span
           f == [from |-> from, to |-> own, defaulted |-> (q.from = None \/ q.to = None)]
<1>1. Declared(q)
  BY DEF AppliedWindow
<1>2. CASE route \notin Timed
  BY <1>1, <1>2 DEF AppliedWindow, Fits, Window
<1>3. CASE route \in Timed
  <2>1. AppliedWindow(q, NoWindow) = f /\ ~(from >= own)
        /\ (route \in RangeRequired => q.from # None /\ q.to # None /\ ~(own - from > MaxSpan))
    BY <1>1, <1>3 DEF AppliedWindow, Refused
  <2>2. own \in Milli /\ own \in Int /\ from \in Int
    BY ClockType, CollectionAssumption
  <2>3. (q.from # None => from = q.from) /\ (q.to # None => own = q.to)
    OBVIOUS
  <2> HIDE DEF own, from
  <2>4. from < own /\ from # None
    BY <2>1, <2>2, CollectionAssumption
  <2>6. route \in RangeRequired => own - from <= MaxSpan
    BY <2>1, <2>2, CollectionAssumption
  <2>5. f \in Window /\ f # NoWindow /\ f # Refused
    BY <2>2, <2>4 DEF Window, NoWindow, Refused
  <2> QED
    BY <1>1, <1>3, <2>1, <2>2, <2>3, <2>4, <2>5, <2>6 DEF Fits
<1> QED
  BY <1>2, <1>3

\* A continuation applies the window of its first page, whatever the time.
LEMMA WindowIsKept ==
  ASSUME TypeOK, NEW q \in Query, NEW cursor, Fits(q, cursor.filter)
  PROVE  /\ AppliedWindow(q, Inherited(cursor)) = cursor.filter
         /\ cursor.filter # Refused
<1> DEFINE f == cursor.filter
<1>1. Declared(q) /\ f \in Window
  BY DEF Fits
<1>2. CASE route \notin Timed
  <2>1. f = NoWindow /\ route \notin RangeRequired
    BY <1>2 DEF Fits, Timed
  <2>2. NoWindow # Refused
    BY DEF NoWindow, Refused
  <2> QED
    BY <1>1, <1>2, <2>1, <2>2 DEF AppliedWindow
<1>3. CASE route \in Timed
  <2>1. /\ f # NoWindow /\ f # Refused
        /\ f.from \in Int /\ f.to \in Int /\ f.from < f.to
        /\ f.defaulted = (q.from = None \/ q.to = None)
        /\ q.from # None => f.from = q.from
        /\ q.to # None => f.to = q.to
        /\ route \in RangeRequired => q.from # None /\ q.to # None /\ f.to - f.from <= MaxSpan
    BY <1>3 DEF Fits
  <2>2. f = [from |-> f.from, to |-> f.to, defaulted |-> f.defaulted]
    BY <1>1, <2>1 DEF Window
  <2>3. CASE route \in Peeking
    <3>1. Inherited(cursor) = f /\ route \notin RangeRequired
      BY <2>3 DEF Inherited, Peeking, RangeRequired, Misplaced
    <3> QED
      BY <1>1, <1>3, <2>1, <2>2, <3>1 DEF AppliedWindow
  <2>4. CASE route \notin Peeking
    <3>1. Inherited(cursor) = NoWindow /\ route \in RangeRequired
      BY <1>3, <2>4 DEF Inherited, Timed
    <3>2. q.from # None /\ q.to # None /\ f.from = q.from /\ f.to = q.to
      BY <2>1, <3>1
    <3>3. ~(f.from >= f.to) /\ ~(f.to - f.from > MaxSpan)
      BY <2>1, <3>1, CollectionAssumption
    <3>4. f = [from |-> q.from, to |-> q.to, defaulted |-> (q.from = None \/ q.to = None)]
      BY <2>1, <2>2, <3>2
    <3>5. ~(q.from >= q.to) /\ ~(q.to - q.from > MaxSpan)
      BY <3>2, <3>3
    <3>6. AppliedWindow(q, NoWindow)
            = [from |-> q.from, to |-> q.to, defaulted |-> (q.from = None \/ q.to = None)]
      BY <1>1, <1>3, <3>2, <3>5 DEF AppliedWindow
    <3> QED
      BY <2>1, <3>1, <3>4, <3>6
  <2> QED
    BY <2>3, <2>4
<1> QED
  BY <1>2, <1>3

-----------------------------------------------------------------------------
(* Serving a page *)

LEMMA MintedCuts ==
  ASSUME Sound, IInv, NEW q \in Query, NEW f \in Window, NEW last \in Row, NEW r \in Row,
         row[last] # NoRow, row[r] # NoRow
  PROVE  After(Minted(q, f, last), q, r) <=> Precedes(q.dir, last, r)
<1>1. CompareValue(Placed(r)) = OrderValue(Placed(r))
      /\ Trunc(row[last].at) = OrderValue(Placed(last))
  BY ValuesAgree
<1> QED
  BY <1>1 DEF After, Minted, Precedes

LEMMA PrecedesOrders ==
  ASSUME Sound, IInv, NEW q \in Query, NEW r \in Row, NEW s \in Row,
         row[r] # NoRow, row[s] # NoRow
  PROVE  /\ ~Precedes(q.dir, r, r)
         /\ Precedes(q.dir, r, s) => ~Precedes(q.dir, s, r)
<1>1. OrderValue(Placed(r)) \in Int /\ OrderValue(Placed(s)) \in Int
  BY ValuesAgree
<1>2. q.dir \in {"asc", "desc"} /\ r \in Int /\ s \in Int
  BY CollectionAssumption DEF Query
<1> QED
  BY <1>1, <1>2, BeforeOrders DEF Precedes

LEMMA BeforeTransitive ==
  ASSUME NEW dir \in {"asc", "desc"},
         NEW a \in Int, NEW b \in Int, NEW c \in Int,
         NEW i \in Int, NEW j \in Int, NEW k \in Int,
         Before(dir, a, i, b, j), Before(dir, b, j, c, k)
  PROVE  Before(dir, a, i, c, k)
BY DEF Before

\* A row past the new cut was past the old one.
LEMMA CutMoves ==
  ASSUME Sound, IInv, NEW q \in Query, NEW r \in Row, NEW last \in Row,
         row[r] # NoRow, row[last] # NoRow,
         NEW at \in Int, NEW id \in Row, NEW cursor,
         cursor.id = id, cursor.sortValue = at,
         After(cursor, q, last), Precedes(q.dir, last, r)
  PROVE  After(cursor, q, r)
<1>1. /\ CompareValue(Placed(r)) = OrderValue(Placed(r))
      /\ CompareValue(Placed(last)) = OrderValue(Placed(last))
      /\ CompareValue(Placed(r)) \in Int /\ CompareValue(Placed(last)) \in Int
  BY ValuesAgree
<1>2. q.dir \in {"asc", "desc"}
  BY DEF Query
<1>3. r \in Int /\ last \in Int /\ id \in Int
  BY CollectionAssumption
<1>4. Before(q.dir, at, id, CompareValue(Placed(last)), last)
  BY DEF After
<1>5. Before(q.dir, CompareValue(Placed(last)), last, CompareValue(Placed(r)), r)
  BY <1>1 DEF Precedes
<1>6. Before(q.dir, at, id, CompareValue(Placed(r)), r)
  BY <1>1, <1>2, <1>3, <1>4, <1>5, BeforeTransitive
<1> QED
  BY <1>6 DEF After

\* The heart of it: a page served to a walk that has kept the invariant, or to one
\* that begins, leaves it kept.
LEMMA ServeKeeps ==
  ASSUME Sound, IInv, NEW q \in Query, NEW cursor, NEW f, Fits(q, f),
         NEW limit \in Limits, Serve(q, f, cursor, limit),
         UNCHANGED <<route, clock, row, writes>>,
         \/ cursor = NoCursor /\ moved' = {}
         \/ /\ walk.state = "walking" /\ q = walk.query /\ f = walk.filter
            /\ cursor = walk.cursor /\ moved' = moved
  PROVE  IInv'
<1> DEFINE rows == Selected(q, f, cursor)
<1>1. f \in Window
  BY DEF Fits
<1>2. \A r \in rows : r \in Row /\ row[r] # NoRow /\ r \in Matching(q, f)
  BY DEF Selected, Matching
<1>3. PICK page \in SUBSET rows :
        /\ \A r \in page, s \in rows \ page : Precedes(q.dir, r, s)
        /\ \/ page = rows /\ Served(q, f, cursor, page, NoCursor)
           \/ /\ page # rows
              /\ \E last \in page :
                   /\ \A r \in page : r = last \/ Precedes(q.dir, r, last)
                   /\ Served(q, f, cursor, page, Minted(q, f, last))
  BY DEF Serve, IsPage
<1>4. PICK next : Served(q, f, cursor, page, next)
        /\ \/ page = rows /\ next = NoCursor
           \/ \E last \in page :
                /\ \A r \in page : r = last \/ Precedes(q.dir, r, last)
                /\ next = Minted(q, f, last)
  BY <1>3
<1> DEFINE start == IF cursor = NoCursor THEN rows ELSE walk.start
           mvd == moved'
<1>5. /\ walk'.state = IF next = NoCursor THEN "done" ELSE "walking"
      /\ walk'.query = q /\ walk'.filter = f /\ walk'.cursor = next
      /\ walk'.start = start
      /\ \A r \in Row : walk'.seen[r] =
           IF r \in page THEN Once(IF cursor = NoCursor THEN 0 ELSE walk.seen[r])
           ELSE IF cursor = NoCursor THEN 0 ELSE walk.seen[r]
      /\ walk'.seen \in [Row -> 0 .. 2]
  <2>1. \A r \in Row : (IF cursor = NoCursor THEN 0 ELSE walk.seen[r]) \in 0 .. 2
    BY DEF IInv, TypeOK
  <2>2. \A r \in Row : Once(IF cursor = NoCursor THEN 0 ELSE walk.seen[r]) \in 0 .. 2
    BY DEF Once
  <2> QED
    BY <1>4, <2>1, <2>2 DEF Served
\* Each row of the walk, before this page: matched, and returned unless past the cut.
<1>6. \A r \in start \ mvd :
        /\ r \in Row /\ row[r] # NoRow /\ r \in Matching(q, f)
        /\ (IF cursor = NoCursor THEN 0 ELSE walk.seen[r]) = IF r \in rows THEN 0 ELSE 1
  <2>1. CASE cursor = NoCursor
    BY <2>1, <1>2
  <2>2. CASE cursor # NoCursor
    <3>1. /\ walk.state = "walking" /\ q = walk.query /\ f = walk.filter
          /\ cursor = walk.cursor /\ mvd = moved
      BY <2>2
    <3>2. \A r \in walk.start \ moved :
            /\ r \in Matching(q, f)
            /\ walk.seen[r] = IF After(cursor, q, r) THEN 0 ELSE 1
      BY <3>1 DEF IInv, WalkInv
    <3> QED
      BY <2>2, <3>1, <3>2 DEF Selected, Matching
  <2> QED
    BY <2>1, <2>2
<1>7. CASE next = NoCursor /\ page = rows
  <2>1. \A r \in start \ mvd : walk'.seen[r] = 1
    BY <1>5, <1>6, <1>7 DEF Once
  <2>2. WalkInv'
    BY <1>5, <1>7, <2>1 DEF WalkInv
  <2>3. TypeOK'
    BY <1>1, <1>2, <1>5, <1>7 DEF IInv, TypeOK
  <2>4. RowsInv'
    BY DEF IInv, RowsInv, Trunc
  <2> QED
    BY <2>2, <2>3, <2>4 DEF IInv
<1>8. ASSUME NEW last \in page,
             \A r \in page : r = last \/ Precedes(q.dir, r, last),
             next = Minted(q, f, last)
      PROVE  IInv'
  <2>1. last \in Row /\ row[last] # NoRow /\ row[last].at \in Instant
    BY <1>2, ValuesAgree
  <2>2. /\ next = [scope |-> q.scope, route |-> route, filter |-> f, dir |-> q.dir,
                   sortValue |-> Trunc(row[last].at), id |-> last]
        /\ next # NoCursor
    <3>1. next = [scope |-> q.scope, route |-> route, filter |-> f, dir |-> q.dir,
                  sortValue |-> Trunc(row[last].at), id |-> last]
      BY <1>8 DEF Minted
    <3>2. next.id # NoCursor.id
      BY <2>1, <3>1, CollectionAssumption DEF NoCursor
    <3> QED
      BY <3>1, <3>2
  <2>3. next \in Payload
    BY <1>1, <2>1, <2>2, TruncType DEF IInv, TypeOK, Payload, Query
  <2>4. TypeOK'
    BY <1>1, <1>2, <1>5, <2>2, <2>3 DEF IInv, TypeOK
  <2>5. RowsInv'
    BY DEF IInv, RowsInv, Trunc
  <2>6. ASSUME NEW r \in start \ mvd
        PROVE  walk'.seen[r] = IF After(next, q, r) THEN 0 ELSE 1
    <3>1. /\ r \in Row /\ row[r] # NoRow
          /\ (IF cursor = NoCursor THEN 0 ELSE walk.seen[r]) = IF r \in rows THEN 0 ELSE 1
      BY <1>6
    <3>2. After(next, q, r) <=> Precedes(q.dir, last, r)
      BY <1>1, <1>8, <2>1, <3>1, MintedCuts
    <3>3. CASE r \in page
      <4>1. ~Precedes(q.dir, last, r)
        BY <1>8, <2>1, <3>1, <3>3, PrecedesOrders
      <4> QED
        BY <1>5, <3>1, <3>2, <3>3, <4>1 DEF Once
    <3>4. CASE r \in rows \ page
      BY <1>3, <1>5, <3>1, <3>2, <3>4
    <3>5. CASE r \notin rows
      <4>1. cursor # NoCursor /\ cursor = walk.cursor /\ walk.state = "walking"
            /\ q = walk.query /\ f = walk.filter
        BY <3>5
      <4>2. ~After(cursor, q, r)
        BY <1>6, <3>5, <4>1 DEF Selected
      <4>3. After(cursor, q, last)
        BY <1>8, <4>1 DEF Selected
      <4>4. cursor.id \in Row /\ cursor.sortValue \in Int
        <5>1. PICK at \in Instant, id \in Row :
                cursor = [scope |-> walk.query.scope, route |-> route,
                          filter |-> walk.filter, dir |-> walk.query.dir,
                          sortValue |-> Trunc(at), id |-> id]
          BY <4>1 DEF IInv, WalkInv
        <5> QED
          BY <5>1, TruncType DEF Instant
      <4>5. ~Precedes(q.dir, last, r)
        BY <2>1, <3>1, <4>2, <4>3, <4>4, CutMoves
      <4> QED
        BY <1>3, <1>5, <3>1, <3>2, <3>5, <4>5
    <3> QED
      BY <3>3, <3>4, <3>5
  <2>7. WalkInv'
    <3>1. route' = route /\ row' = row
      OBVIOUS
    <3>2. Fits(walk.query, walk.filter)'
      BY <1>5, <3>1 DEF Fits, Declared
    <3>3. \E at \in Instant, id \in Row :
            next = [scope |-> q.scope, route |-> route', filter |-> f, dir |-> q.dir,
                    sortValue |-> Trunc(at), id |-> id]
      BY <2>1, <2>2, <3>1
    <3>4. ASSUME NEW r \in walk'.start \ moved'
          PROVE  (/\ r \in Matching(walk.query, walk.filter)
                  /\ walk.seen[r] = IF After(walk.cursor, walk.query, r) THEN 0 ELSE 1)'
      <4>1. r \in start \ mvd
        BY <1>5, <3>4
      <4>2. r \in Matching(q, f) /\ walk'.seen[r] = IF After(next, q, r) THEN 0 ELSE 1
        BY <1>6, <2>6, <4>1
      <4>3. walk'.query = q /\ walk'.filter = f /\ walk'.cursor = next
        BY <1>5
      <4>4. (r \in Matching(walk.query, walk.filter))'
        BY <3>1, <4>2, <4>3 DEF Matching, InWindow
      <4>5. (After(walk.cursor, walk.query, r))' = After(next, q, r)
        BY <3>1, <4>3 DEF After, CompareValue, Placed, Trunc
      <4> QED
        BY <4>2, <4>4, <4>5
    <3>5. walk'.state = "walking"
      BY <1>5, <2>2
    <3>6. (\E at \in Instant, id \in Row :
            walk.cursor = [scope |-> walk.query.scope, route |-> route,
                           filter |-> walk.filter, dir |-> walk.query.dir,
                           sortValue |-> Trunc(at), id |-> id])'
      BY <1>5, <3>3 DEF Trunc
    <3>7. walk'.query \in Query
      BY <1>5
    <3> HIDE DEF start, mvd, rows
    <3> QED
      BY <3>2, <3>4, <3>5, <3>6, <3>7 DEF WalkInv
  <2> QED
    BY <2>4, <2>5, <2>7 DEF IInv
<1> QED
  BY <1>4, <1>7, <1>8

-----------------------------------------------------------------------------
(* The invariant *)

LEMMA InitInv == Init => IInv
<1> SUFFICES ASSUME Init PROVE IInv
  OBVIOUS
<1>1. TypeOK
  BY CollectionAssumption DEF Init, TypeOK, Instant, Idle, Window
<1>2. RowsInv
  BY DEF Init, RowsInv
<1>3. WalkInv
  BY DEF Init, WalkInv, Idle
<1> QED
  BY <1>1, <1>2, <1>3 DEF IInv

\* What a walk has been promised stands as long as its query, its rows and the
\* collection do.
LEMMA WalkStands ==
  ASSUME IInv, route' = route, walk' = walk, moved \subseteq moved',
         walk.state = "walking" => \A r \in walk.start \ moved' : row'[r] = row[r]
  PROVE  WalkInv'
<1>1. CASE walk.state = "walking"
  <2>1. Fits(walk.query, walk.filter)'
    BY <1>1 DEF IInv, WalkInv, Fits, Declared
  <2>2. ASSUME NEW r \in walk.start \ moved'
        PROVE  (/\ r \in Matching(walk.query, walk.filter)
                /\ walk.seen[r] = IF After(walk.cursor, walk.query, r) THEN 0 ELSE 1)'
    <3>1. /\ r \in Matching(walk.query, walk.filter)
          /\ walk.seen[r] = IF After(walk.cursor, walk.query, r) THEN 0 ELSE 1
      BY <1>1, <2>2 DEF IInv, WalkInv
    <3>2. row'[r] = row[r] /\ walk' = walk /\ route' = route
      BY <1>1, <2>2
    <3>3. (r \in Matching(walk.query, walk.filter))'
      BY <3>1, <3>2 DEF Matching, InWindow
    <3>4. After(walk.cursor, walk.query, r)' = After(walk.cursor, walk.query, r)
      BY <3>2 DEF After, CompareValue, Placed, Trunc
    <3> QED
      BY <3>1, <3>2, <3>3, <3>4
  <2>3. /\ walk'.state = "walking" /\ walk'.query \in Query
        /\ (\E at \in Instant, id \in Row :
              walk.cursor = [scope |-> walk.query.scope, route |-> route,
                             filter |-> walk.filter, dir |-> walk.query.dir,
                             sortValue |-> Trunc(at), id |-> id])'
    BY <1>1 DEF IInv, WalkInv, Trunc
  <2> QED
    BY <2>1, <2>2, <2>3 DEF WalkInv
<1>2. CASE walk.state # "walking"
  BY <1>2 DEF IInv, WalkInv
<1> QED
  BY <1>1, <1>2

LEMMA WriteKeeps ==
  ASSUME IInv, NEW r \in Row, NEW scope \in Scope, NEW made \in Instant \cup {None}, NEW at \in Stamps,
         Write(r, scope, made, at)
  PROVE  IInv'
<1>1. at \in Instant /\ (route \in Raw => at = Trunc(at))
  BY DEF Stamps
<1>2. /\ route' = route /\ walk' = walk /\ clock' = clock
      /\ row' = [row EXCEPT ![r] = [scope |-> scope, made |-> made, at |-> at]]
      /\ moved' = IF walk.state = "walking" THEN moved \cup {r} ELSE moved
      /\ writes' = writes + 1 /\ writes < MaxWrites
  BY DEF Write
<1>3. TypeOK'
  BY <1>1, <1>2, CollectionAssumption DEF IInv, TypeOK
<1>4. RowsInv'
  BY <1>1, <1>2 DEF IInv, TypeOK, RowsInv, Trunc
<1>5. moved \subseteq moved'
      /\ (walk.state = "walking" => \A s \in walk.start \ moved' : row'[s] = row[s])
  BY <1>2 DEF IInv, TypeOK
<1>6. WalkInv'
  BY <1>2, <1>5, WalkStands
<1> QED
  BY <1>3, <1>4, <1>6 DEF IInv

LEMMA NextInv == Sound /\ IInv /\ [Next]_vars => IInv'
<1> SUFFICES ASSUME Sound, IInv, [Next]_vars PROVE IInv'
  OBVIOUS
<1>1. CASE Tick
  <2>1. /\ route' = route /\ walk' = walk /\ row' = row /\ moved' = moved
        /\ writes' = writes /\ clock' = clock + 1 /\ clock < MaxClock
    BY <1>1 DEF Tick
  <2>2. TypeOK'
    BY <2>1, CollectionAssumption DEF IInv, TypeOK, Instant
  <2>3. RowsInv'
    BY <2>1 DEF IInv, RowsInv, Trunc
  <2>4. WalkInv'
    BY <2>1, WalkStands
  <2> QED
    BY <2>2, <2>3, <2>4 DEF IInv
<1>2. ASSUME NEW r \in Row, Insert(r) PROVE IInv'
  <2>1. PICK scope \in Scope, at \in Stamps :
          Write(r, scope, IF route \in Misplaced THEN at ELSE None, at)
    BY <1>2 DEF Insert
  <2>2. PICK made \in Instant \cup {None} :
          made = IF route \in Misplaced THEN at ELSE None
    BY DEF Stamps
  <2> QED
    BY <2>1, <2>2, WriteKeeps
<1>3. ASSUME NEW r \in Row, Touch(r) PROVE IInv'
  <2>1. PICK at \in Stamps : Write(r, row[r].scope, row[r].made, at)
    BY <1>3 DEF Touch
  <2>2. PICK scope \in Scope, made \in Instant \cup {None} :
          scope = row[r].scope /\ made = row[r].made
    BY <1>3 DEF Touch, IInv, TypeOK
  <2> QED
    BY <2>1, <2>2, WriteKeeps
<1>4. ASSUME NEW q \in Query, NEW limit \in Limits, FirstPage(q, limit) PROVE IInv'
  <2>1. PICK f : f = AppliedWindow(q, NoWindow)
    OBVIOUS
  <2>2. f # Refused /\ Serve(q, f, NoCursor, limit) /\ moved' = {}
        /\ UNCHANGED <<route, clock, row, writes>>
    BY <1>4, <2>1 DEF FirstPage
  <2>3. Fits(q, f)
    BY <2>1, <2>2, FirstWindowFits DEF IInv
  <2> QED
    BY <2>2, <2>3, ServeKeeps
<1>5. ASSUME NEW limit \in Limits, NextPage(limit) PROVE IInv'
  <2>1. walk.state = "walking" /\ walk.query \in Query /\ Fits(walk.query, walk.filter)
    BY <1>5 DEF NextPage, IInv, WalkInv
  <2>2. PICK q, f, cursor : q = walk.query /\ f = walk.filter /\ cursor = walk.cursor
    OBVIOUS
  <2>3. /\ cursor.filter = f /\ cursor.scope = q.scope /\ cursor.route = route
        /\ cursor.dir = q.dir
    <3>1. PICK at \in Instant, id \in Row :
            walk.cursor = [scope |-> walk.query.scope, route |-> route,
                           filter |-> walk.filter, dir |-> walk.query.dir,
                           sortValue |-> Trunc(at), id |-> id]
      BY <2>1 DEF IInv, WalkInv
    <3> QED
      BY <2>2, <3>1
  <2>4. AppliedWindow(q, Inherited(cursor)) = f /\ f # Refused
    BY <2>1, <2>2, <2>3, WindowIsKept DEF IInv
  <2>5. Accepted(cursor, q)
    BY <2>3, <2>4 DEF Accepted, Decodes
  <2>6. Serve(q, f, cursor, limit) /\ UNCHANGED <<route, clock, row, writes, moved>>
    BY <1>5, <2>2, <2>4, <2>5 DEF NextPage
  <2> QED
    BY <2>1, <2>2, <2>6, ServeKeeps
<1>6. CASE UNCHANGED vars
  <2>1. /\ route' = route /\ walk' = walk /\ row' = row /\ moved' = moved
        /\ writes' = writes /\ clock' = clock
    BY <1>6 DEF vars
  <2>2. TypeOK' /\ RowsInv'
    BY <2>1 DEF IInv, TypeOK, RowsInv, Trunc
  <2>3. WalkInv'
    BY <2>1, WalkStands
  <2> QED
    BY <2>2, <2>3 DEF IInv
<1> QED
  BY <1>1, <1>2, <1>3, <1>4, <1>5, <1>6 DEF Next

-----------------------------------------------------------------------------
(* Theorems *)

\* The collection, the walk and the cursors minted keep their types.
THEOREM InvHolds ==
  ASSUME Sound
  PROVE  Spec => [](TypeOK /\ IInv)
<1>1. IInv /\ [Next]_vars => IInv'
  BY NextInv
<1>2. IInv => TypeOK
  BY DEF IInv
<1> QED
  BY <1>1, <1>2, InitInv, PTL DEF Spec

\* subjects.ts:127, observations.ts:256: on every list whose order and comparison
\* agree, a walk returns each row it began with exactly once unless it changed.
THEOREM WalkCompletes ==
  ASSUME Sound
  PROVE  Spec => []WalkIsComplete
<1>1. IInv => WalkIsComplete
  BY DEF IInv, WalkInv, WalkIsComplete
<1> QED
  BY <1>1, InvHolds, PTL

\* strict.ts:133: a client that follows nextCursor is not refused because the
\* clock moved.
THEOREM ContinuationAccepted ==
  ASSUME Sound
  PROVE  Spec => []ContinuationIsAccepted
<1>1. IInv => ContinuationIsAccepted
  BY DEF IInv, WalkInv, ContinuationIsAccepted
<1> QED
  BY <1>1, InvHolds, PTL

\* cursor.ts:183: a cursor opens no page of another scope, order or window.
THEOREM CursorBound ==
  ASSUME Sound
  PROVE  Spec => []CursorIsBound
<1>1. IInv => CursorIsBound
  <2> SUFFICES ASSUME IInv, walk.cursor # NoCursor,
                      NEW q \in Query, Accepted(walk.cursor, q)
               PROVE  /\ q.scope = walk.query.scope
                      /\ route \notin Nested =>
                           /\ q.dir = walk.query.dir
                           /\ AppliedWindow(q, Inherited(walk.cursor)) = walk.filter
    BY DEF CursorIsBound
  <2>1. walk.state = "walking"
    BY DEF IInv, WalkInv
  <2>2. PICK at \in Instant, id \in Row :
          walk.cursor = [scope |-> walk.query.scope, route |-> route,
                         filter |-> walk.filter, dir |-> walk.query.dir,
                         sortValue |-> Trunc(at), id |-> id]
    BY <2>1 DEF IInv, WalkInv
  <2>3. /\ walk.cursor.scope = walk.query.scope /\ walk.cursor.filter = walk.filter
        /\ walk.cursor.dir = walk.query.dir
    BY <2>2
  <2> QED
    BY <2>3 DEF Accepted, Decodes
<1> QED
  BY <1>1, InvHolds, PTL

=============================================================================
