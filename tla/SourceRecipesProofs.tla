-------------------------- MODULE SourceRecipesProofs --------------------------
(***************************************************************************)
(* IInv is an inductive invariant of SourceRecipes for every set of        *)
(* workers and sources and every finite set of recipes; that a recipe is   *)
(* on only where writes are permitted, that creates serialise, that no     *)
(* update is lost and that an operator's reason stands follow from it.     *)
(*                                                                         *)
(* Most steps leave every row of the two tables as it is and change one    *)
(* worker's job and the locks it holds: KeepsRows treats them all.  Four    *)
(* steps write rows.  What the invariant claims of the OTHER workers then   *)
(* stands because the writer holds the rows it writes.                      *)
(***************************************************************************)
EXTENDS SourceRecipes, FiniteSetTheorems, TLAPS

LEMMA InitInv == Init => IInv
<1> SUFFICES ASSUME Init PROVE IInv
  OBVIOUS
<1> USE RowsAreDistinct DEF Init
<1>1. TypeOK
  BY DEF TypeOK, Sources, Undeclared, Recipes, NoRecipe, Jobs, Idle
<1>2. RowsInv /\ EnabledIsPermitted
  BY DEF RowsInv, EnabledIsPermitted, NoRecipe, Undeclared
<1>3. VersionsAreConsecutive
  <2> SUFFICES ASSUME NEW s \in Source
               PROVE {recipe[r].version : r \in RecipesOf(s)} = 1 .. Cardinality(RecipesOf(s))
    BY DEF VersionsAreConsecutive
  <2>1. RecipesOf(s) = {}
    BY DEF RecipesOf, NoRecipe
  <2>2. Cardinality(RecipesOf(s)) = 0
    BY <2>1, FS_EmptySet
  <2> QED
    BY <2>1, <2>2
<1>4. \A w \in Worker : JobInv(w)
  BY DEF JobInv, Idle
<1> QED
  BY <1>1, <1>2, <1>3, <1>4 DEF IInv

-----------------------------------------------------------------------------

\* The next number is one more than the number of recipes there are.
LEMMA NextVersionIsNext ==
  ASSUME TypeOK, VersionsAreConsecutive, NEW s \in Source
  PROVE  /\ Cardinality(RecipesOf(s)) \in Nat
         /\ NextVersion(s) = Cardinality(RecipesOf(s)) + 1
<1> DEFINE n == Cardinality(RecipesOf(s))
           V == {recipe[r].version : r \in RecipesOf(s)}
<1>1. IsFiniteSet(RecipesOf(s))
  BY RecipesAreFinite, FS_Subset DEF RecipesOf
<1>2. n \in Nat
  BY <1>1, FS_CardinalityType
<1>3. V = 1 .. n
  BY DEF VersionsAreConsecutive
<1>4. n \in V \cup {0} /\ \A y \in V \cup {0} : n >= y
  BY <1>2, <1>3
<1>5. \A x \in V \cup {0} : (\A y \in V \cup {0} : x >= y) => x = n
  BY <1>2, <1>3
<1>6. Max(V \cup {0}) = n
  BY <1>4, <1>5 DEF Max
<1> QED
  BY <1>2, <1>6 DEF NextVersion

\* A number one beyond the recipes there are is nobody's.
LEMMA NextVersionIsFree ==
  ASSUME TypeOK, VersionsAreConsecutive, NEW s \in Source, NEW n,
         n = Cardinality(RecipesOf(s)) + 1
  PROVE  ~VersionTaken(s, n)
<1>1. Cardinality(RecipesOf(s)) \in Nat
  BY NextVersionIsNext
<1>2. {recipe[r].version : r \in RecipesOf(s)} = 1 .. Cardinality(RecipesOf(s))
  BY DEF VersionsAreConsecutive
<1>3. \A r \in RecipesOf(s) : recipe[r].version \in 1 .. Cardinality(RecipesOf(s))
  BY <1>2
<1> QED
  BY <1>1, <1>3 DEF VersionTaken

\* A step of worker w that writes no row keeps the invariant if w's own job is
\* in order after it and the others hold what they held.
LEMMA KeepsRows ==
  ASSUME IInv, NEW w \in Worker, TypeOK',
         UNCHANGED <<source, recipe>>,
         \A v \in Worker \ {w} : work'[v] = work[v],
         \A v \in Worker \ {w}, x \in Source \cup Recipe : lock[x] = v => lock'[x] = v,
         JobInv(w)'
  PROVE  IInv'
<1>1. RowsInv' /\ EnabledIsPermitted' /\ VersionsAreConsecutive'
  <2>1. RowsInv'
    BY DEF IInv, RowsInv
  <2>2. EnabledIsPermitted'
    BY DEF IInv, EnabledIsPermitted
  <2>3. VersionsAreConsecutive'
    BY DEF IInv, VersionsAreConsecutive, RecipesOf
  <2> QED
    BY <2>1, <2>2, <2>3
<1>2. ASSUME NEW v \in Worker, v # w PROVE JobInv(v)'
  <2>1. JobInv(v) /\ work'[v] = work[v]
    BY <1>2 DEF IInv
  <2>2. work[v].op = "permission" => PermissionInv(v)'
    BY <1>2, <2>1 DEF JobInv, PermissionInv, Declared
  <2>3. work[v].op = "create" => CreateInv(v)'
    BY <1>2, <2>1 DEF JobInv, CreateInv, RecipesOf
  <2>4. work[v].op = "enablement" => EnablementInv(v)'
    BY <1>2, <2>1 DEF JobInv, EnablementInv, SeenInv
  <2> QED
    BY <2>1, <2>2, <2>3, <2>4 DEF JobInv
<1> QED
  BY <1>1, <1>2 DEF IInv

\* The end of a transaction, for the worker itself and for the others.
LEMMA EndStep ==
  ASSUME TypeOK, NEW w \in Worker, End(w)
  PROVE  /\ work' \in [Worker -> Jobs]
         /\ lock' \in [Source \cup Recipe -> Worker \cup {None}]
         /\ work'[w] = Idle
         /\ JobInv(w)'
         /\ \A v \in Worker \ {w} : work'[v] = work[v]
         /\ \A v \in Worker \ {w}, x \in Source \cup Recipe : lock[x] = v => lock'[x] = v
<1>1. Idle \in Jobs
  BY RowsAreDistinct DEF Idle, Jobs, NoRecipe
<1>2. work' \in [Worker -> Jobs] /\ work'[w] = Idle
  BY <1>1 DEF TypeOK, End
<1>3. JobInv(w)'
  BY <1>2 DEF JobInv, Idle
<1> QED
  BY <1>2, <1>3 DEF TypeOK, End

\* A refusal or a roll-back.
LEMMA RollBackInv ==
  ASSUME IInv, NEW w \in Worker, End(w), UNCHANGED <<source, recipe, unfit>>
  PROVE  IInv'
<1>1. TypeOK
  BY DEF IInv
<1>2. TypeOK'
  BY <1>1, EndStep DEF TypeOK
<1> QED
  BY <1>1, <1>2, EndStep, KeepsRows

\* Taking a lock that is free or is one's own.
LEMMA TakeStep ==
  ASSUME TypeOK, NEW w \in Worker, NEW x \in Source \cup Recipe, Free(x), Take(w, x)
  PROVE  /\ lock' \in [Source \cup Recipe -> Worker \cup {None}]
         /\ lock'[x] = w
         /\ \A y \in Source \cup Recipe : y # x => lock'[y] = lock[y]
         /\ \A v \in Worker \ {w}, y \in Source \cup Recipe : lock[y] = v => lock'[y] = v
  BY RowsAreDistinct DEF TypeOK, Free, Take

\* Entering a phase, and nothing else of the job.
LEMMA PhaseStep ==
  ASSUME TypeOK, NEW w \in Worker, NEW phase \in {"asked", "half", "locked"},
         work' = [work EXCEPT ![w].phase = phase]
  PROVE  /\ work' \in [Worker -> Jobs]
         /\ work'[w].op = work[w].op /\ work'[w].row = work[w].row
         /\ work'[w].seen = work[w].seen /\ work'[w].on = work[w].on
         /\ work'[w].class = work[w].class
         /\ work'[w].version = work[w].version /\ work'[w].phase = phase
         /\ \A v \in Worker \ {w} : work'[v] = work[v]
  BY DEF TypeOK, Jobs

\* The same with a number drawn.
LEMMA NumberStep ==
  ASSUME TypeOK, NEW w \in Worker, NEW n \in Nat,
         work' = [work EXCEPT ![w].phase = "locked", ![w].version = n]
  PROVE  /\ work' \in [Worker -> Jobs]
         /\ work'[w].op = work[w].op /\ work'[w].row = work[w].row
         /\ work'[w].phase = "locked" /\ work'[w].version = n
         /\ \A v \in Worker \ {w} : work'[v] = work[v]
<1> DEFINE job == [work[w] EXCEPT !.phase = "locked", !.version = n]
<1>1. work \in [Worker -> Jobs] /\ work[w] \in Jobs
  BY DEF TypeOK
<1>2. /\ job \in Jobs /\ job.op = work[w].op /\ job.row = work[w].row
      /\ job.phase = "locked" /\ job.version = n
  BY <1>1 DEF Jobs
<1>3. work' = [work EXCEPT ![w] = job]
  BY <1>1
<1> HIDE DEF job
<1> QED
  BY <1>1, <1>2, <1>3

-----------------------------------------------------------------------------
(* Steps that write no row                                                 *)

\* The job a request starts with.
LEMMA AskInv ==
  ASSUME IInv, NEW w \in Worker, Request(w)
  PROVE  IInv'
<1> DEFINE jobs == {job \in Jobs : job.phase = "asked"}
<1>1. TypeOK
  BY DEF IInv
<1>2. ASSUME NEW s \in Source, NEW class \in Class, NEW open \in Windows(class),
             AskPermission(w, s, class, open)
      PROVE  IInv'
  <2> DEFINE job == [Idle EXCEPT !.op = "permission", !.row = s, !.seen = source[s],
                                 !.class = class, !.open = open]
  <2>1. /\ job \in Jobs
        /\ job.op = "permission" /\ job.row = s /\ job.seen = source[s]
        /\ job.class \in PermissionClasses /\ job.phase = "asked"
    BY <1>1, RowsAreDistinct DEF TypeOK, Jobs, Idle, Windows, NoRecipe
  <2>2. work' \in [Worker -> Jobs] /\ work'[w] = job
    BY <1>1, <1>2, <2>1 DEF AskPermission, Ask, TypeOK
  <2>3. JobInv(w)'
    BY <1>1, <1>2, <2>1, <2>2 DEF JobInv, PermissionInv, TypeOK, Declared, AskPermission, Ask
  <2>4. TypeOK'
    BY <1>1, <1>2, <2>2 DEF AskPermission, Ask, TypeOK
  <2> QED
    BY <1>1, <1>2, <2>3, <2>4, KeepsRows DEF AskPermission, Ask, TypeOK
<1>3. ASSUME NEW s \in Source, AskCreate(w, s)
      PROVE  IInv'
  <2> DEFINE job == [Idle EXCEPT !.op = "create", !.row = s, !.seen = source[s]]
  <2>1. /\ job \in Jobs
        /\ job.op = "create" /\ job.row = s /\ job.phase = "asked"
    BY <1>1, RowsAreDistinct DEF TypeOK, Jobs, Idle, NoRecipe
  <2>2. work' \in [Worker -> Jobs] /\ work'[w] = job
    BY <1>1, <1>3, <2>1 DEF AskCreate, Ask, TypeOK
  <2>3. JobInv(w)'
    BY <2>1, <2>2 DEF JobInv, CreateInv
  <2>4. TypeOK'
    BY <1>1, <1>3, <2>2 DEF AskCreate, Ask, TypeOK
  <2> QED
    BY <1>1, <1>3, <2>3, <2>4, KeepsRows DEF AskCreate, Ask, TypeOK
<1>4. ASSUME NEW r \in Recipe, NEW on \in BOOLEAN, AskEnablement(w, r, on)
      PROVE  IInv'
  <2> DEFINE job == [Idle EXCEPT !.op = "enablement", !.row = r, !.seen = recipe[r],
                                 !.on = on]
  <2>1. /\ job \in Jobs
        /\ job.op = "enablement" /\ job.row = r /\ job.seen = recipe[r]
        /\ job.phase = "asked"
    BY <1>1, RowsAreDistinct DEF TypeOK, Jobs, Idle, NoRecipe
  <2>2. work' \in [Worker -> Jobs] /\ work'[w] = job
    BY <1>1, <1>4, <2>1 DEF AskEnablement, Ask, TypeOK
  <2>3. recipe[r].of \in Source /\ recipe' = recipe /\ recipe[r] \in Recipes
    BY <1>1, <1>4 DEF IInv, RowsInv, AskEnablement, Ask, TypeOK, Recipes
  <2>4. recipe[r].rowVersion \in Nat
    BY <2>3 DEF Recipes
  <2>5. JobInv(w)'
    BY <2>1, <2>2, <2>3, <2>4 DEF JobInv, EnablementInv, SeenInv
  <2>6. TypeOK'
    BY <1>1, <1>4, <2>2 DEF AskEnablement, Ask, TypeOK
  <2> QED
    BY <1>1, <1>4, <2>5, <2>6, KeepsRows DEF AskEnablement, Ask, TypeOK
<1> QED
  BY <1>2, <1>3, <1>4 DEF Request

\* Locking the source for a permission change: the version is the one named.
LEMMA LockForPermissionInv ==
  ASSUME IInv, NEW w \in Worker, LockForPermission(w)
  PROVE  IInv'
<1> USE DEF LockForPermission
<1>1. TypeOK /\ PermissionInv(w) /\ work[w].op = "permission"
  BY DEF IInv, JobInv, At
<1>2. work[w].row \in Source
  BY <1>1 DEF PermissionInv
<1>3. /\ lock' \in [Source \cup Recipe -> Worker \cup {None}]
      /\ lock'[work[w].row] = w
      /\ \A v \in Worker \ {w}, y \in Source \cup Recipe : lock[y] = v => lock'[y] = v
  BY <1>1, <1>2, TakeStep
<1>4. /\ work' \in [Worker -> Jobs]
      /\ work'[w].op = work[w].op /\ work'[w].row = work[w].row
      /\ work'[w].seen = work[w].seen /\ work'[w].class = work[w].class
      /\ work'[w].phase = "locked"
      /\ \A v \in Worker \ {w} : work'[v] = work[v]
  BY <1>1, PhaseStep
<1>5. TypeOK'
  BY <1>1, <1>3, <1>4 DEF TypeOK
<1>6. JobInv(w)'
  BY <1>1, <1>3, <1>4 DEF JobInv, PermissionInv, Declared
<1> QED
  BY <1>3, <1>4, <1>5, <1>6, KeepsRows

\* Locking one recipe to switch off.
LEMMA LockRecipeToDisableInv ==
  ASSUME IInv, NEW w \in Worker, NEW r \in Recipe, LockRecipeToDisable(w, r)
  PROVE  IInv'
<1> USE DEF LockRecipeToDisable
<1>1. TypeOK /\ PermissionInv(w) /\ work[w].op = "permission" /\ work[w].phase = "locked"
  BY DEF IInv, JobInv, At
<1>2. /\ lock' \in [Source \cup Recipe -> Worker \cup {None}]
      /\ \A y \in Source \cup Recipe : y # r => lock'[y] = lock[y]
      /\ \A v \in Worker \ {w}, y \in Source \cup Recipe : lock[y] = v => lock'[y] = v
  BY <1>1, TakeStep
<1>3. TypeOK'
  BY <1>1, <1>2 DEF TypeOK
<1>4. JobInv(w)'
  BY <1>1, <1>2, RowsAreDistinct DEF JobInv, PermissionInv, Declared
<1> QED
  BY <1>2, <1>3, <1>4, KeepsRows

\* Drawing the number of a recipe under the source's lock.
LEMMA DrawVersionInv ==
  ASSUME IInv, NEW w \in Worker, DrawVersion(w)
  PROVE  IInv'
<1> USE DEF DrawVersion
<1>1. TypeOK /\ CreateInv(w) /\ work[w].op = "create" /\ VersionsAreConsecutive
  BY DEF IInv, JobInv, At
<1>2. work[w].row \in Source
  BY <1>1 DEF CreateInv
<1>3. /\ lock' \in [Source \cup Recipe -> Worker \cup {None}]
      /\ lock'[work[w].row] = w
      /\ \A v \in Worker \ {w}, y \in Source \cup Recipe : lock[y] = v => lock'[y] = v
  BY <1>1, <1>2, TakeStep
<1>4. /\ NextVersion(work[w].row) \in Nat
      /\ NextVersion(work[w].row) = Cardinality(RecipesOf(work[w].row)) + 1
  BY <1>1, <1>2, NextVersionIsNext
<1>5. /\ work' \in [Worker -> Jobs]
      /\ work'[w].op = work[w].op /\ work'[w].row = work[w].row
      /\ work'[w].phase = "locked" /\ work'[w].version = NextVersion(work[w].row)
      /\ \A v \in Worker \ {w} : work'[v] = work[v]
  BY <1>1, <1>4, NumberStep
<1>6. TypeOK'
  BY <1>1, <1>3, <1>5 DEF TypeOK
<1>7. RecipesOf(work[w].row)' = RecipesOf(work[w].row)
  BY <1>5 DEF RecipesOf
<1>8. JobInv(w)'
  BY <1>1, <1>2, <1>3, <1>4, <1>5, <1>7 DEF JobInv, CreateInv
<1> QED
  BY <1>3, <1>5, <1>6, <1>8, KeepsRows

\* An enablement's two locks.
LEMMA LockRecipeInv ==
  ASSUME IInv, NEW w \in Worker, LockRecipe(w)
  PROVE  IInv'
<1> USE DEF LockRecipe
<1>1. TypeOK /\ EnablementInv(w) /\ work[w].op = "enablement"
  BY DEF IInv, JobInv, At
<1>2. work[w].row \in Recipe
  BY <1>1 DEF EnablementInv
<1>3. /\ lock' \in [Source \cup Recipe -> Worker \cup {None}]
      /\ lock'[work[w].row] = w
      /\ \A v \in Worker \ {w}, y \in Source \cup Recipe : lock[y] = v => lock'[y] = v
  BY <1>1, <1>2, TakeStep
<1>4. /\ work' \in [Worker -> Jobs]
      /\ work'[w].op = work[w].op /\ work'[w].row = work[w].row
      /\ work'[w].seen = work[w].seen /\ work'[w].on = work[w].on
      /\ work'[w].phase = "half"
      /\ \A v \in Worker \ {w} : work'[v] = work[v]
  BY <1>1, PhaseStep
<1>5. TypeOK'
  BY <1>1, <1>3, <1>4 DEF TypeOK
<1>6. JobInv(w)'
  BY <1>1, <1>3, <1>4 DEF JobInv, EnablementInv, SeenInv
<1> QED
  BY <1>3, <1>4, <1>5, <1>6, KeepsRows

LEMMA LockItsSourceInv ==
  ASSUME IInv, NEW w \in Worker, LockItsSource(w)
  PROVE  IInv'
<1> USE DEF LockItsSource
<1>1. TypeOK /\ EnablementInv(w) /\ work[w].op = "enablement" /\ work[w].phase = "half"
  BY DEF IInv, JobInv, At
<1>2. work[w].row \in Recipe /\ recipe[work[w].row].of \in Source
  BY <1>1 DEF EnablementInv
<1>3. /\ lock' \in [Source \cup Recipe -> Worker \cup {None}]
      /\ lock'[recipe[work[w].row].of] = w
      /\ \A y \in Source \cup Recipe : y # recipe[work[w].row].of => lock'[y] = lock[y]
      /\ \A v \in Worker \ {w}, y \in Source \cup Recipe : lock[y] = v => lock'[y] = v
  BY <1>1, <1>2, TakeStep
<1>4. /\ work' \in [Worker -> Jobs]
      /\ work'[w].op = work[w].op /\ work'[w].row = work[w].row
      /\ work'[w].seen = work[w].seen /\ work'[w].on = work[w].on
      /\ work'[w].phase = "locked"
      /\ \A v \in Worker \ {w} : work'[v] = work[v]
  BY <1>1, PhaseStep
<1>5. TypeOK'
  BY <1>1, <1>3, <1>4 DEF TypeOK
<1>6. lock'[work[w].row] = w
  BY <1>1, <1>2, <1>3, RowsAreDistinct DEF EnablementInv
<1>7. /\ recipe[work[w].row].rowVersion = work[w].seen.rowVersion
      /\ work[w].on => source[recipe[work[w].row].of].class = "WRITE_PERMITTED"
  BY DEF Accepted, GuardsPass
<1>8. JobInv(w)'
  BY <1>1, <1>3, <1>4, <1>6, <1>7 DEF JobInv, EnablementInv, SeenInv
<1> QED
  BY <1>3, <1>4, <1>5, <1>8, KeepsRows

-----------------------------------------------------------------------------
(* Steps that write rows                                                   *)

LEMMA BecomesUnfitInv ==
  ASSUME IInv, NEW r \in Recipe, BecomesUnfit(r)
  PROVE  IInv'
<1>1. UNCHANGED <<source, recipe, lock, work>> /\ unfit' \subseteq Recipe
  BY DEF IInv, TypeOK, BecomesUnfit
<1>2. TypeOK'
  BY <1>1 DEF IInv, TypeOK
<1>3. RowsInv' /\ EnabledIsPermitted'
  BY <1>1 DEF IInv, RowsInv, EnabledIsPermitted
<1>4. VersionsAreConsecutive'
  BY <1>1 DEF IInv, VersionsAreConsecutive, RecipesOf
<1>5. ASSUME NEW v \in Worker PROVE JobInv(v)'
  BY <1>1 DEF IInv, JobInv, PermissionInv, Declared, CreateInv, EnablementInv, SeenInv,
              RecipesOf
<1> QED
  BY <1>2, <1>3, <1>4, <1>5 DEF IInv

\* A source row that is declared, or whose window closes: nobody has locked the
\* name before it is declared, and a closing window touches neither class nor
\* version.
LEMMA SourceStepInv ==
  ASSUME IInv, NEW s \in Source, NEW row \in Sources,
         source' = [source EXCEPT ![s] = row],
         UNCHANGED <<recipe, unfit, lock, work>>,
         row.class # None,
         Declared(s) => row.class = source[s].class /\ row.rowVersion = source[s].rowVersion
  PROVE  IInv'
<1>1. TypeOK /\ TypeOK'
  BY DEF IInv, TypeOK
<1>2. /\ source'[s] = row
      /\ \A x \in Source : x # s => source'[x] = source[x]
  BY <1>1 DEF TypeOK
<1>3. \A x \in Source : source[x].class = "WRITE_PERMITTED" => source'[x].class = "WRITE_PERMITTED"
  BY <1>1, <1>2, RowsAreDistinct DEF TypeOK, Declared, Undeclared, PermissionClasses
<1>4. \A x \in Source : Declared(x) => Declared(x)' /\ source'[x].rowVersion = source[x].rowVersion
  BY <1>2 DEF Declared, Undeclared
<1>5. RowsInv' /\ VersionsAreConsecutive'
  BY <1>2 DEF IInv, RowsInv, VersionsAreConsecutive, RecipesOf
<1>6. EnabledIsPermitted'
  <2> SUFFICES ASSUME NEW r \in Recipe, recipe[r].enabled
               PROVE  source'[recipe[r].of].class = "WRITE_PERMITTED"
    BY DEF EnabledIsPermitted
  <2>1. recipe[r] # NoRecipe /\ recipe[r].of \in Source
    BY <1>1 DEF IInv, RowsInv, NoRecipe, TypeOK, Recipes
  <2> QED
    BY <1>3, <2>1 DEF IInv, EnabledIsPermitted
<1>7. ASSUME NEW v \in Worker PROVE JobInv(v)'
  <2>1. JobInv(v) /\ work'[v] = work[v]
    BY DEF IInv
  <2>2. work[v].op = "permission" => PermissionInv(v)'
    BY <1>4, <2>1 DEF JobInv, PermissionInv
  <2>3. work[v].op = "create" => CreateInv(v)'
    BY <2>1 DEF JobInv, CreateInv, RecipesOf
  <2>4. work[v].op = "enablement" => EnablementInv(v)'
    BY <1>3, <2>1 DEF JobInv, EnablementInv, SeenInv
  <2> QED
    BY <2>1, <2>2, <2>3, <2>4 DEF JobInv
<1> QED
  BY <1>1, <1>5, <1>6, <1>7 DEF IInv

LEMMA DeclareInv ==
  ASSUME IInv, NEW s \in Source, NEW class \in Class, NEW open \in Windows(class),
         DeclareSource(s, class, open)
  PROVE  IInv'
<1> DEFINE row == [class |-> class, open |-> open, rowVersion |-> 1]
<1>1. row \in Sources /\ row.class # None
  BY RowsAreDistinct DEF Sources, Windows
<1>2. source' = [source EXCEPT ![s] = row] /\ ~Declared(s)
  BY DEF DeclareSource
<1>3. UNCHANGED <<recipe, unfit, lock, work>>
  BY DEF DeclareSource
<1> HIDE DEF row
<1> QED
  BY <1>1, <1>2, <1>3, SourceStepInv

LEMMA WindowClosesInv ==
  ASSUME IInv, NEW s \in Source, WindowCloses(s)
  PROVE  IInv'
<1> DEFINE row == [source[s] EXCEPT !.open = FALSE]
<1>1. source[s] \in Sources /\ source[s].open
  BY DEF IInv, TypeOK, WindowCloses
<1>2. Declared(s)
  BY <1>1 DEF Declared, Undeclared
<1>3. row \in Sources /\ row.class = source[s].class /\ row.rowVersion = source[s].rowVersion
  BY <1>1 DEF Sources
<1>4. row.class # None
  BY <1>2, <1>3 DEF IInv, RowsInv, Declared
<1>5. UNCHANGED <<recipe, unfit, lock, work>> /\ source' = [source EXCEPT ![s] = row]
  BY DEF WindowCloses
<1> HIDE DEF row
<1> QED
  BY <1>2, <1>3, <1>4, <1>5, SourceStepInv

\* A permission change commits: it holds the source and every recipe it
\* switches off, and each of those gets a new version.
LEMMA CommitPermissionInv ==
  ASSUME IInv, NEW w \in Worker, CommitPermission(w)
  PROVE  IInv'
<1> DEFINE s == work[w].row
           off == ToDisable(w)
<1>1. TypeOK /\ PermissionInv(w) /\ work[w] \in Jobs
  BY DEF IInv, JobInv, CommitPermission, At, TypeOK
<1>2. /\ s \in Source /\ lock[s] = w /\ source[s] \in Sources
      /\ work[w].phase = "locked"
  BY <1>1 DEF PermissionInv, CommitPermission, At, TypeOK
<1>3. /\ work[w].class \in PermissionClasses \cup {None}
      /\ work[w].open \in BOOLEAN
      /\ source[s].rowVersion \in Nat
  BY <1>1, <1>2 DEF Jobs, Sources
<1>4. /\ source' \in [Source -> Sources]
      /\ source'[s].class = work[w].class
      /\ source'[s].rowVersion = source[s].rowVersion + 1
      /\ \A x \in Source : x # s => source'[x] = source[x]
  BY <1>1, <1>2, <1>3 DEF CommitPermission, TypeOK, Sources
<1>5. off \subseteq RecipesOf(s) /\ RecipesOf(s) \subseteq Recipe
  BY DEF ToDisable, EnabledOf, RecipesOf
<1>6. SystemDisabledReason(work[w].class) \in SystemReasons
  BY DEF SystemDisabledReason, SystemReasons
<1>7. \A r \in Recipe : recipe[r] \in Recipes /\ recipe[r].rowVersion \in Nat
  BY <1>1 DEF TypeOK, Recipes
<1>8. /\ recipe' \in [Recipe -> Recipes]
      /\ \A r \in Recipe : recipe'[r].of = recipe[r].of /\ recipe'[r].version = recipe[r].version
      /\ \A r \in Recipe \ off : recipe'[r] = recipe[r]
      /\ \A r \in off : ~recipe'[r].enabled /\ recipe'[r].rowVersion = recipe[r].rowVersion + 1
  <2>1. recipe' = [r \in Recipe |->
                     IF r \in off
                     THEN [recipe[r] EXCEPT !.enabled = FALSE,
                                            !.reason = SystemDisabledReason(work[w].class),
                                            !.rowVersion = @ + 1]
                     ELSE recipe[r]]
    BY DEF CommitPermission, Disable
  <2> HIDE DEF off
  <2>2. \A r \in Recipe \ off : recipe'[r] = recipe[r]
    BY <2>1
  <2>3. ASSUME NEW r \in off
        PROVE  /\ recipe'[r] \in Recipes
               /\ recipe'[r].of = recipe[r].of /\ recipe'[r].version = recipe[r].version
               /\ ~recipe'[r].enabled /\ recipe'[r].rowVersion = recipe[r].rowVersion + 1
    <3>1. r \in Recipe
      BY <1>5
    <3>2. recipe[r] \in Recipes /\ recipe[r].rowVersion + 1 \in Nat
      BY <1>7, <3>1
    <3>3. recipe'[r] = [recipe[r] EXCEPT !.enabled = FALSE,
                                         !.reason = SystemDisabledReason(work[w].class),
                                         !.rowVersion = @ + 1]
      BY <2>1, <3>1
    <3> QED
      BY <1>6, <3>2, <3>3 DEF Recipes
  <2>4. \A r \in Recipe : recipe'[r] \in Recipes
    BY <1>7, <2>2, <2>3
  <2>5. recipe' \in [Recipe -> Recipes]
    BY <2>1, <2>4
  <2> QED
    BY <2>2, <2>3, <2>5
<1>9. \A r \in off : lock[r] = w
  BY DEF CommitPermission
<1>10. TypeOK'
  BY <1>1, <1>4, <1>8, EndStep DEF TypeOK, CommitPermission
<1>11. work[w].class \in PermissionClasses
  BY <1>1 DEF PermissionInv
<1>12. \A r \in Recipe : recipe[r].enabled => recipe[r].of \in Source
  BY <1>7 DEF IInv, RowsInv, NoRecipe, Recipes
<1>13. EnabledIsPermitted'
  <2> SUFFICES ASSUME NEW r \in Recipe, recipe'[r].enabled
               PROVE  source'[recipe'[r].of].class = "WRITE_PERMITTED"
    BY DEF EnabledIsPermitted
  <2>1. r \notin off /\ recipe'[r] = recipe[r]
    BY <1>8
  <2>2. CASE recipe[r].of = s
    BY <1>4, <2>1, <2>2 DEF ToDisable, EnabledOf, RecipesOf, Usable
  <2>3. CASE recipe[r].of # s
    BY <1>4, <1>12, <2>1, <2>3 DEF IInv, EnabledIsPermitted
  <2> QED
    BY <2>2, <2>3
<1> HIDE DEF off
<1>14. RowsInv'
  <2>1. \A x \in Source : source'[x].class = None => source'[x] = Undeclared
    BY <1>4, <1>11, RowsAreDistinct DEF IInv, RowsInv
  <2>2. \A r \in Recipe : recipe'[r].of = None => recipe'[r] = NoRecipe
    BY <1>2, <1>5, <1>8, RowsAreDistinct DEF IInv, RowsInv, RecipesOf
  <2>3. \A r \in Recipe : recipe'[r].enabled => recipe'[r].reason = "NONE"
    BY <1>8 DEF IInv, RowsInv
  <2> QED
    BY <2>1, <2>2, <2>3 DEF RowsInv
<1>15. \A x \in Source : RecipesOf(x)' = RecipesOf(x)
  BY <1>8 DEF RecipesOf
<1>16. VersionsAreConsecutive'
  <2> SUFFICES ASSUME NEW x \in Source
               PROVE  {recipe'[r].version : r \in RecipesOf(x)'} = 1 .. Cardinality(RecipesOf(x)')
    BY DEF VersionsAreConsecutive
  <2>1. {recipe'[r].version : r \in RecipesOf(x)} = {recipe[r].version : r \in RecipesOf(x)}
    BY <1>8 DEF RecipesOf
  <2> QED
    BY <1>15, <2>1 DEF IInv, VersionsAreConsecutive
<1>17. ASSUME NEW v \in Worker, v # w PROVE JobInv(v)'
  <2>1. /\ JobInv(v) /\ work'[v] = work[v]
        /\ \A x \in Source \cup Recipe : lock[x] = v => lock'[x] = v
    BY <1>1, <1>17, EndStep DEF IInv, CommitPermission
  <2>2. work[v].op = "permission" => PermissionInv(v)'
    <3> SUFFICES ASSUME work[v].op = "permission" PROVE PermissionInv(v)'
      OBVIOUS
    <3>1. PermissionInv(v)
      BY <2>1 DEF JobInv
    <3>2. Declared(work[v].row)'
      BY <1>4, <1>11, <2>1, <3>1, RowsAreDistinct DEF PermissionInv, Declared, Undeclared
    <3> QED
      BY <1>2, <1>4, <1>17, <2>1, <3>1, <3>2 DEF PermissionInv
  <2>3. work[v].op = "create" => CreateInv(v)'
    <3> SUFFICES ASSUME work[v].op = "create" PROVE CreateInv(v)'
      OBVIOUS
    <3>1. CreateInv(v)
      BY <2>1 DEF JobInv
    <3> QED
      BY <1>15, <2>1, <3>1 DEF CreateInv
  <2>4. work[v].op = "enablement" => EnablementInv(v)'
    <3> SUFFICES ASSUME work[v].op = "enablement" PROVE EnablementInv(v)'
      OBVIOUS
    <3> DEFINE r == work[v].row
    <3>1. EnablementInv(v)
      BY <2>1 DEF JobInv
    <3>2. r \in Recipe /\ recipe[r].of \in Source /\ recipe'[r].of = recipe[r].of
      BY <1>8, <3>1 DEF EnablementInv
    <3>3. work[v].seen.rowVersion \in Nat
      BY <3>1 DEF EnablementInv, SeenInv, Recipes
    <3>4. SeenInv(v)'
      <4>1. CASE r \in off
        BY <1>7, <1>8, <2>1, <3>1, <3>2, <3>3, <4>1 DEF EnablementInv, SeenInv
      <4>2. CASE r \notin off
        BY <1>8, <2>1, <3>1, <3>2, <4>2 DEF EnablementInv, SeenInv
      <4> QED
        BY <4>1, <4>2
    <3>5. CASE work[v].phase = "asked"
      BY <2>1, <3>1, <3>2, <3>4, <3>5 DEF EnablementInv
    <3>6. CASE work[v].phase # "asked"
      <4>1. lock[r] = v /\ lock'[r] = v
        BY <2>1, <3>1, <3>2, <3>6 DEF EnablementInv
      <4>2. r \notin off /\ recipe'[r] = recipe[r]
        BY <1>8, <1>9, <1>17, <3>2, <4>1
      <4>3. work[v].phase = "locked" => source'[recipe[r].of] = source[recipe[r].of]
        BY <1>2, <1>4, <1>17, <3>1, <3>2 DEF EnablementInv
      <4> QED
        BY <2>1, <3>1, <3>2, <3>4, <4>1, <4>2, <4>3 DEF EnablementInv
    <3> QED
      BY <3>5, <3>6
  <2> QED
    BY <2>1, <2>2, <2>3, <2>4 DEF JobInv
<1>18. JobInv(w)'
  BY <1>1, EndStep DEF CommitPermission
<1> QED
  BY <1>10, <1>13, <1>14, <1>16, <1>17, <1>18 DEF IInv

\* A recipe is inserted: nobody was at work on the row, and who else numbers
\* recipes of the source does not hold it.
LEMMA InsertRecipeInv ==
  ASSUME IInv, NEW w \in Worker, InsertRecipe(w)
  PROVE  IInv'
<1>1. TypeOK /\ CreateInv(w) /\ work[w].phase = "locked" /\ VersionsAreConsecutive
  BY DEF IInv, JobInv, InsertRecipe, At
<1>2. PICK s \in Source : s = work[w].row
  BY <1>1 DEF CreateInv
<1>3. PICK n \in Nat : n = Cardinality(RecipesOf(s))
  BY <1>1, NextVersionIsNext
<1>held. lock[s] = w /\ work[w].version = n + 1
  BY <1>1, <1>2, <1>3 DEF CreateInv
<1> DEFINE row == [of |-> s, version |-> n + 1, enabled |-> FALSE,
                   reason |-> "NONE", rowVersion |-> 1]
<1>4. PICK r \in Recipe : /\ recipe[r] = NoRecipe
                          /\ recipe' = [recipe EXCEPT ![r] = row]
                          /\ unfit' \in {unfit, unfit \cup ({r} \cap Ageing)}
  BY <1>2, <1>held DEF InsertRecipe
<1>5. row \in Recipes /\ row.of = s /\ row.version = n + 1 /\ ~row.enabled
  BY <1>2, <1>3 DEF Recipes
<1> HIDE DEF row
<1>6. /\ recipe' \in [Recipe -> Recipes] /\ recipe'[r] = row
      /\ \A x \in Recipe : x # r => recipe'[x] = recipe[x]
  BY <1>1, <1>4, <1>5 DEF TypeOK
<1>7. source' = source /\ unfit' \subseteq Recipe
  BY <1>1, <1>4 DEF InsertRecipe, TypeOK
<1>8. TypeOK'
  BY <1>1, <1>6, <1>7, EndStep DEF TypeOK, InsertRecipe
<1>9. RowsInv'
  BY <1>2, <1>5, <1>6, <1>7, RowsAreDistinct DEF IInv, RowsInv
<1>10. EnabledIsPermitted'
  BY <1>5, <1>6, <1>7 DEF IInv, EnabledIsPermitted
<1>11. \A x \in Source : x # s => RecipesOf(x)' = RecipesOf(x)
  BY <1>4, <1>5, <1>6, RowsAreDistinct DEF RecipesOf, NoRecipe
<1>12. RecipesOf(s)' = RecipesOf(s) \cup {r} /\ r \notin RecipesOf(s)
  <2>1. r \notin RecipesOf(s)
    BY <1>2, <1>4, RowsAreDistinct DEF RecipesOf, NoRecipe
  <2>2. \A x \in Recipe : recipe'[x].of = s <=> x \in RecipesOf(s) \/ x = r
    BY <1>5, <1>6, <2>1 DEF RecipesOf
  <2> QED
    BY <2>1, <2>2 DEF RecipesOf
<1>13. Cardinality(RecipesOf(s)') = n + 1
  <2>1. IsFiniteSet(RecipesOf(s))
    BY RecipesAreFinite, FS_Subset DEF RecipesOf
  <2> QED
    BY <1>3, <1>12, <2>1, FS_AddElement
<1>14. VersionsAreConsecutive'
  <2> SUFFICES ASSUME NEW x \in Source
               PROVE  {recipe'[q].version : q \in RecipesOf(x)'} = 1 .. Cardinality(RecipesOf(x)')
    BY DEF VersionsAreConsecutive
  <2>1. CASE x # s
    <3>1. \A q \in RecipesOf(x) : recipe'[q].version = recipe[q].version
      BY <1>2, <1>4, <1>6, <2>1, RowsAreDistinct DEF RecipesOf, NoRecipe
    <3>2. {recipe'[q].version : q \in RecipesOf(x)} = {recipe[q].version : q \in RecipesOf(x)}
      BY <3>1
    <3> QED
      BY <1>1, <1>11, <2>1, <3>2 DEF VersionsAreConsecutive
  <2>2. CASE x = s
    <3>1. \A q \in RecipesOf(s) : recipe'[q].version = recipe[q].version
      BY <1>6, <1>12 DEF RecipesOf
    <3>2. {recipe'[q].version : q \in RecipesOf(s)'}
            = {recipe[q].version : q \in RecipesOf(s)} \cup {n + 1}
      <4>1. recipe'[r].version = n + 1
        BY <1>5, <1>6
      <4>2. {recipe'[q].version : q \in RecipesOf(s) \cup {r}}
              = {recipe'[q].version : q \in RecipesOf(s)} \cup {recipe'[r].version}
        OBVIOUS
      <4>3. {recipe'[q].version : q \in RecipesOf(s)} = {recipe[q].version : q \in RecipesOf(s)}
        BY <3>1
      <4> QED
        BY <1>12, <4>1, <4>2, <4>3
    <3>3. {recipe[q].version : q \in RecipesOf(s)} = 1 .. n
      BY <1>1, <1>3 DEF VersionsAreConsecutive
    <3>4. (1 .. n) \cup {n + 1} = 1 .. (n + 1)
      BY <1>3
    <3> QED
      BY <1>13, <2>2, <3>2, <3>3, <3>4
  <2> QED
    BY <2>1, <2>2
<1>15. ASSUME NEW v \in Worker, v # w PROVE JobInv(v)'
  <2>1. /\ JobInv(v) /\ work'[v] = work[v]
        /\ \A x \in Source \cup Recipe : lock[x] = v => lock'[x] = v
    BY <1>1, <1>15, EndStep DEF IInv, InsertRecipe
  <2>2. work[v].op = "permission" => PermissionInv(v)'
    BY <1>7, <2>1 DEF JobInv, PermissionInv, Declared
  <2>3. work[v].op = "create" => CreateInv(v)'
    <3> SUFFICES ASSUME work[v].op = "create" PROVE CreateInv(v)'
      OBVIOUS
    <3>1. CreateInv(v)
      BY <2>1 DEF JobInv
    <3>2. work[v].phase = "locked" => work[v].row # s
      BY <1>15, <1>held, <3>1 DEF CreateInv
    <3> QED
      BY <1>11, <2>1, <3>1, <3>2 DEF CreateInv
  <2>4. work[v].op = "enablement" => EnablementInv(v)'
    <3> SUFFICES ASSUME work[v].op = "enablement" PROVE EnablementInv(v)'
      OBVIOUS
    <3>1. EnablementInv(v)
      BY <2>1 DEF JobInv
    <3>2. work[v].row \in Recipe /\ work[v].row # r
      BY <1>4, <3>1, RowsAreDistinct DEF EnablementInv, NoRecipe
    <3>3. recipe'[work[v].row] = recipe[work[v].row]
      BY <1>6, <3>2
    <3> QED
      BY <1>7, <2>1, <3>1, <3>2, <3>3 DEF EnablementInv, SeenInv
  <2> QED
    BY <2>1, <2>2, <2>3, <2>4 DEF JobInv
<1>16. JobInv(w)'
  BY <1>1, EndStep DEF InsertRecipe
<1> QED
  BY <1>8, <1>9, <1>10, <1>14, <1>15, <1>16 DEF IInv

\* An enablement commits: both rows are held, the guards were passed with both
\* held, and the recipe gets a new version.
LEMMA CommitEnablementInv ==
  ASSUME IInv, NEW w \in Worker, CommitEnablement(w)
  PROVE  IInv'
<1> DEFINE r == work[w].row
           row == [recipe[r] EXCEPT !.enabled = work[w].on,
                                    !.reason = IF work[w].on THEN "NONE" ELSE "OPERATOR",
                                    !.rowVersion = @ + 1]
<1>1. TypeOK /\ EnablementInv(w) /\ work[w].phase = "locked" /\ work[w] \in Jobs
  BY DEF IInv, JobInv, CommitEnablement, At, TypeOK
<1>2. /\ r \in Recipe /\ lock[r] = w /\ recipe[r] \in Recipes
      /\ recipe[r].of \in Source
      /\ work[w].on => source[recipe[r].of].class = "WRITE_PERMITTED"
  BY <1>1 DEF EnablementInv, TypeOK
<1>3. recipe[r].rowVersion \in Nat /\ work[w].on \in BOOLEAN
  BY <1>1, <1>2 DEF Recipes, Jobs
<1>4. /\ row \in Recipes /\ row.of = recipe[r].of /\ row.version = recipe[r].version
      /\ row.enabled = work[w].on /\ row.rowVersion = recipe[r].rowVersion + 1
      /\ row.reason = IF work[w].on THEN "NONE" ELSE "OPERATOR"
  <2>1. (IF work[w].on THEN "NONE" ELSE "OPERATOR") \in {"NONE", "OPERATOR"}
    OBVIOUS
  <2>2. recipe[r].rowVersion + 1 \in Nat
    BY <1>3
  <2> QED
    BY <1>2, <1>3, <2>1, <2>2 DEF Recipes
<1>5. recipe' = [recipe EXCEPT ![r] = row]
  BY DEF CommitEnablement
<1> HIDE DEF row
<1>6. /\ recipe' \in [Recipe -> Recipes] /\ recipe'[r] = row
      /\ \A x \in Recipe : x # r => recipe'[x] = recipe[x]
  BY <1>1, <1>2, <1>4, <1>5 DEF TypeOK
<1>7. source' = source /\ unfit' = unfit
  BY DEF CommitEnablement
<1>8. TypeOK'
  BY <1>1, <1>6, <1>7, EndStep DEF TypeOK, CommitEnablement
<1>9. RowsInv'
  BY <1>2, <1>4, <1>6, <1>7, RowsAreDistinct DEF IInv, RowsInv
<1>10. EnabledIsPermitted'
  BY <1>2, <1>4, <1>6, <1>7 DEF IInv, EnabledIsPermitted
<1>11. \A x \in Recipe : recipe'[x].of = recipe[x].of /\ recipe'[x].version = recipe[x].version
  BY <1>4, <1>6
<1>12. \A x \in Source : RecipesOf(x)' = RecipesOf(x)
  BY <1>11 DEF RecipesOf
<1>13. VersionsAreConsecutive'
  <2> SUFFICES ASSUME NEW x \in Source
               PROVE  {recipe'[q].version : q \in RecipesOf(x)'} = 1 .. Cardinality(RecipesOf(x)')
    BY DEF VersionsAreConsecutive
  <2>1. {recipe'[q].version : q \in RecipesOf(x)} = {recipe[q].version : q \in RecipesOf(x)}
    BY <1>11 DEF RecipesOf
  <2> QED
    BY <1>12, <2>1 DEF IInv, VersionsAreConsecutive
<1>14. ASSUME NEW v \in Worker, v # w PROVE JobInv(v)'
  <2>1. /\ JobInv(v) /\ work'[v] = work[v]
        /\ \A x \in Source \cup Recipe : lock[x] = v => lock'[x] = v
    BY <1>1, <1>14, EndStep DEF IInv, CommitEnablement
  <2>2. work[v].op = "permission" => PermissionInv(v)'
    BY <1>7, <2>1 DEF JobInv, PermissionInv, Declared
  <2>3. work[v].op = "create" => CreateInv(v)'
    BY <1>12, <2>1 DEF JobInv, CreateInv
  <2>4. work[v].op = "enablement" => EnablementInv(v)'
    <3> SUFFICES ASSUME work[v].op = "enablement" PROVE EnablementInv(v)'
      OBVIOUS
    <3>1. EnablementInv(v)
      BY <2>1 DEF JobInv
    <3>2. work[v].row \in Recipe /\ work[v].seen.rowVersion \in Nat
      BY <3>1 DEF EnablementInv, SeenInv, Recipes
    <3>3. CASE work[v].row # r
      BY <1>6, <1>7, <2>1, <3>1, <3>2, <3>3 DEF EnablementInv, SeenInv
    <3>4. CASE work[v].row = r
      <4>1. work[v].phase = "asked"
        BY <1>2, <1>14, <3>1, <3>4 DEF EnablementInv
      <4>2. SeenInv(v)'
        BY <1>3, <1>4, <1>6, <2>1, <3>1, <3>2, <3>4 DEF EnablementInv, SeenInv
      <4> QED
        BY <1>11, <2>1, <3>1, <3>4, <4>1, <4>2 DEF EnablementInv
    <3> QED
      BY <3>3, <3>4
  <2> QED
    BY <2>1, <2>2, <2>3, <2>4 DEF JobInv
<1>15. JobInv(w)'
  BY <1>1, EndStep DEF CommitEnablement
<1> QED
  BY <1>8, <1>9, <1>10, <1>13, <1>14, <1>15 DEF IInv

-----------------------------------------------------------------------------
(* The theorems                                                            *)

LEMMA StutterInv == IInv /\ UNCHANGED vars => IInv'
<1> SUFFICES ASSUME IInv, UNCHANGED vars PROVE IInv'
  OBVIOUS
<1> USE DEF vars
<1>1. TypeOK' /\ RowsInv'
  BY DEF IInv, TypeOK, RowsInv
<1>2. EnabledIsPermitted'
  BY DEF IInv, EnabledIsPermitted
<1>3. VersionsAreConsecutive'
  BY DEF IInv, VersionsAreConsecutive, RecipesOf
<1>4. ASSUME NEW v \in Worker PROVE JobInv(v)'
  BY DEF IInv, JobInv, PermissionInv, Declared, CreateInv, EnablementInv, SeenInv,
         RecipesOf
<1> QED
  BY <1>1, <1>2, <1>3, <1>4 DEF IInv

LEMMA NextInv == IInv /\ Next => IInv'
<1> SUFFICES ASSUME IInv, Next PROVE IInv'
  OBVIOUS
<1>1. CASE Passage
  BY <1>1, DeclareInv, WindowClosesInv, BecomesUnfitInv, RowsAreDistinct DEF Passage
<1>2. ASSUME NEW w \in Worker, Request(w) PROVE IInv'
  BY <1>2, AskInv
<1>3. ASSUME NEW w \in Worker, Permission(w) PROVE IInv'
  <2>1. CASE LockForPermission(w)
    BY <2>1, LockForPermissionInv
  <2>2. CASE PermissionRefused(w)
    BY <2>2, RollBackInv DEF PermissionRefused
  <2>3. CASE \E r \in Recipe : LockRecipeToDisable(w, r)
    BY <2>3, LockRecipeToDisableInv
  <2>4. CASE CommitPermission(w)
    BY <2>4, CommitPermissionInv
  <2> QED
    BY <1>3, <2>1, <2>2, <2>3, <2>4 DEF Permission
<1>4. ASSUME NEW w \in Worker, Create(w) PROVE IInv'
  <2>1. CASE DrawVersion(w)
    BY <2>1, DrawVersionInv
  <2>2. CASE CreateRefused(w)
    BY <2>2, RollBackInv DEF CreateRefused
  <2>3. CASE InsertRecipe(w)
    BY <2>3, InsertRecipeInv
  <2> QED
    BY <1>4, <2>1, <2>2, <2>3 DEF Create
<1>5. ASSUME NEW w \in Worker, Enablement(w) PROVE IInv'
  <2>1. CASE LockRecipe(w)
    BY <2>1, LockRecipeInv
  <2>2. CASE LockItsSource(w)
    BY <2>2, LockItsSourceInv
  <2>3. CASE EnablementRefused(w)
    BY <2>3, RollBackInv DEF EnablementRefused
  <2>4. CASE CommitEnablement(w)
    BY <2>4, CommitEnablementInv
  <2> QED
    BY <1>5, <2>1, <2>2, <2>3, <2>4 DEF Enablement
<1>6. ASSUME NEW w \in Worker, GiveUp(w) PROVE IInv'
  BY <1>6, RollBackInv DEF GiveUp
<1>7. ASSUME NEW w \in Worker, Fails(w) PROVE IInv'
  BY <1>7, RollBackInv DEF Fails
<1> QED
  BY <1>1, <1>2, <1>3, <1>4, <1>5, <1>6, <1>7 DEF Next, Progress

(* Every reachable state satisfies the inductive invariant. *)
THEOREM InvariantHolds == Spec => []IInv
<1>1. IInv /\ [Next]_vars => IInv'
  BY NextInv, StutterInv
<1> QED
  BY <1>1, InitInv, PTL DEF Spec

(* A recipe is enabled only on a source of class WRITE_PERMITTED, however
   enablements and permission changes overlap. *)
THEOREM EnabledIsPermittedHolds == Spec => []EnabledIsPermitted
<1>1. IInv => EnabledIsPermitted
  BY DEF IInv
<1> QED
  BY <1>1, InvariantHolds, PTL

(* The versions of a source's recipes are 1 to the number of its recipes. *)
THEOREM VersionsAreConsecutiveHolds == Spec => []VersionsAreConsecutive
<1>1. IInv => VersionsAreConsecutive
  BY DEF IInv
<1> QED
  BY <1>1, InvariantHolds, PTL

(* The number a createRecipe has drawn is free until it is inserted. *)
THEOREM CreatesSerialiseHolds == Spec => []CreatesSerialise
<1>1. ASSUME IInv PROVE CreatesSerialise
  <2> SUFFICES ASSUME NEW w \in Worker, At(w, "create", "locked")
               PROVE  ~VersionTaken(work[w].row, work[w].version)
    BY DEF CreatesSerialise
  <2>1. CreateInv(w) /\ work[w].phase = "locked"
    BY <1>1 DEF IInv, JobInv, At
  <2>2. /\ work[w].row \in Source
        /\ work[w].version = Cardinality(RecipesOf(work[w].row)) + 1
    BY <2>1 DEF CreateInv
  <2> QED
    BY <1>1, <2>2, NextVersionIsFree DEF IInv
<1> QED
  BY <1>1, InvariantHolds, PTL

\* Which steps write recipes: the two commits and the insert.
LEMMA RecipeWriters ==
  ASSUME [Next]_vars
  PROVE  \/ recipe' = recipe
         \/ \E w \in Worker : CommitPermission(w) \/ InsertRecipe(w) \/ CommitEnablement(w)
<1>1. CASE UNCHANGED vars
  BY <1>1 DEF vars
<1>2. CASE Passage
  BY <1>2 DEF Passage, DeclareSource, WindowCloses, BecomesUnfit
<1>3. ASSUME NEW w \in Worker, Request(w) PROVE recipe' = recipe
  BY <1>3 DEF Request, AskPermission, AskCreate, AskEnablement, Ask
<1>4. ASSUME NEW w \in Worker, Progress(w)
      PROVE  \/ recipe' = recipe
             \/ CommitPermission(w) \/ InsertRecipe(w) \/ CommitEnablement(w)
  BY <1>4 DEF Progress, Permission, LockForPermission, PermissionRefused,
     LockRecipeToDisable, Create, DrawVersion, CreateRefused, Enablement, LockRecipe,
     LockItsSource, EnablementRefused, GiveUp
<1>5. ASSUME NEW w \in Worker, Fails(w) PROVE recipe' = recipe
  BY <1>5 DEF Fails
<1> QED
  BY <1>1, <1>2, <1>3, <1>4, <1>5 DEF Next

\* Whose request a step can end, and which of those endings write rows.
LEMMA Endings ==
  ASSUME TypeOK, [Next]_vars, NEW w \in Worker, work[w] # Idle, work'[w] = Idle
  PROVE  \/ UNCHANGED <<source, recipe>>
         \/ CommitPermission(w) \/ InsertRecipe(w) \/ CommitEnablement(w)
<1>1. CASE UNCHANGED vars
  BY <1>1 DEF vars
<1>2. CASE Passage
  BY <1>2 DEF Passage, DeclareSource, WindowCloses, BecomesUnfit
<1>3. ASSUME NEW v \in Worker, Request(v) PROVE UNCHANGED <<source, recipe>>
  BY <1>3 DEF Request, AskPermission, AskCreate, AskEnablement, Ask
<1>4. ASSUME NEW v \in Worker, Progress(v), v # w PROVE work'[w] = work[w]
  BY <1>4 DEF TypeOK, Progress, Permission, LockForPermission, PermissionRefused,
     LockRecipeToDisable, CommitPermission, Create, DrawVersion, CreateRefused,
     InsertRecipe, Enablement, LockRecipe, LockItsSource, EnablementRefused,
     CommitEnablement, GiveUp, End
<1>5. CASE Progress(w)
  BY <1>5 DEF Progress, Permission, LockForPermission, PermissionRefused,
     LockRecipeToDisable, Create, DrawVersion, CreateRefused, Enablement, LockRecipe,
     LockItsSource, EnablementRefused, GiveUp
<1>6. ASSUME NEW v \in Worker, Fails(v) PROVE UNCHANGED <<source, recipe>>
  BY <1>6 DEF Fails
<1> QED
  BY <1>1, <1>2, <1>3, <1>4, <1>5, <1>6 DEF Next

(* What a request writes it writes over the row its caller read: no change of
   another request is lost between that read and the write. *)
THEOREM NoLostUpdateHolds == Spec => NoLostUpdate
<1>1. ASSUME IInv, [Next]_vars, NEW w \in Worker, work[w] # Idle, work'[w] = Idle
      PROVE  /\ (work[w].row \in Recipe /\ recipe'[work[w].row] # recipe[work[w].row])
                  => recipe[work[w].row] = work[w].seen
             /\ (work[w].op = "permission" /\ source'[work[w].row] # source[work[w].row])
                  => source[work[w].row].rowVersion = work[w].seen.rowVersion
  <2>1. TypeOK /\ JobInv(w)
    BY <1>1 DEF IInv
  <2>2. CASE UNCHANGED <<source, recipe>>
    BY <2>2
  <2>3. CASE CommitPermission(w)
    BY <2>1, <2>3, RowsAreDistinct DEF CommitPermission, At, JobInv, PermissionInv
  <2>4. CASE InsertRecipe(w)
    BY <2>1, <2>4, RowsAreDistinct DEF InsertRecipe, At, JobInv, CreateInv
  <2>5. CASE CommitEnablement(w)
    BY <2>1, <2>5 DEF CommitEnablement, At, JobInv, EnablementInv, SeenInv
  <2> QED
    BY <1>1, <2>1, <2>2, <2>3, <2>4, <2>5, Endings
<1>2. IInv /\ [Next]_vars =>
        [\A w \in Worker :
           work[w] # Idle /\ work'[w] = Idle =>
             /\ (work[w].row \in Recipe /\ recipe'[work[w].row] # recipe[work[w].row])
                  => recipe[work[w].row] = work[w].seen
             /\ (work[w].op = "permission" /\ source'[work[w].row] # source[work[w].row])
                  => source[work[w].row].rowVersion = work[w].seen.rowVersion]_vars
  BY <1>1
<1> QED
  BY <1>2, InvariantHolds, PTL DEF Spec, NoLostUpdate

(* An operator's reason for switching a recipe off is replaced only when the
   recipe is switched on. *)
THEOREM OperatorReasonStandsHolds == Spec => OperatorReasonStands
<1>1. ASSUME IInv, [Next]_vars, NEW r \in Recipe,
             recipe[r].reason = "OPERATOR", recipe'[r].reason # "OPERATOR"
      PROVE  recipe'[r].enabled
  <2>1. TypeOK /\ recipe[r] # NoRecipe /\ ~recipe[r].enabled
    BY <1>1 DEF IInv, RowsInv, NoRecipe
  <2>2. recipe'[r] # recipe[r]
    BY <1>1
  <2>3. ASSUME NEW w \in Worker, CommitPermission(w) PROVE FALSE
    <3>1. r \notin ToDisable(w)
      BY <2>1 DEF ToDisable, EnabledOf
    <3> QED
      BY <2>2, <2>3, <3>1 DEF CommitPermission, Disable
  <2>4. ASSUME NEW w \in Worker, InsertRecipe(w) PROVE FALSE
    BY <2>1, <2>2, <2>4 DEF InsertRecipe, TypeOK
  <2>5. ASSUME NEW w \in Worker, CommitEnablement(w) PROVE recipe'[r].enabled
    <3>1. JobInv(w) /\ work[w] \in Jobs /\ recipe[r] \in Recipes
      BY <1>1, <2>1 DEF IInv, TypeOK
    <3>2. r = work[w].row
      BY <2>1, <2>2, <2>5 DEF CommitEnablement, TypeOK
    <3>3. /\ recipe'[r].enabled = work[w].on
          /\ recipe'[r].reason = IF work[w].on THEN "NONE" ELSE "OPERATOR"
      BY <2>1, <2>5, <3>1, <3>2 DEF CommitEnablement, TypeOK, Recipes
    <3> QED
      BY <1>1, <3>1, <3>3 DEF Jobs
  <2> QED
    BY <1>1, <2>2, <2>3, <2>4, <2>5, RecipeWriters
<1>2. IInv /\ [Next]_vars =>
        [\A r \in Recipe :
           (recipe[r].reason = "OPERATOR" /\ recipe'[r].reason # "OPERATOR")
             => recipe'[r].enabled]_vars
  BY <1>1
<1> QED
  BY <1>2, InvariantHolds, PTL DEF Spec, OperatorReasonStands

=============================================================================
