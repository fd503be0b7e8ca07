----------------------------- MODULE SourceRecipes -----------------------------
(***************************************************************************)
(* Sources and their removal recipes: who may write to a source, and the   *)
(* signed recipe versions that are switched on for it.                     *)
(*                                                                         *)
(* Three requests change them, each one READ COMMITTED transaction that    *)
(* takes row locks with SELECT .. FOR UPDATE and holds them to the COMMIT:  *)
(*                                                                         *)
(*   permission   locks the source, sets its permission and then switches  *)
(*                off every enabled recipe if the permission is unusable;   *)
(*   create       locks the source and inserts the next version, disabled; *)
(*   enablement   locks the recipe, then its source, and sets `enabled'.   *)
(*                                                                         *)
(* permission takes source before recipe and enablement recipe before      *)
(* source, so two of them may wait for each other: one is rolled back by   *)
(* the deadlock detector or by the statement_timeout of every transaction. *)
(* Time is not a clock here: a permission window closes, and a recipe goes  *)
(* stale or loses its signing key, in a step of its own.                    *)
(***************************************************************************)
EXTENDS Naturals, FiniteSets, FiniteSetsExt

CONSTANTS
  Worker,     \* request handlers that may run at one time
  Source,     \* source names that may be declared
  Recipe,     \* removal_recipe rows that may come to exist
  Class,      \* the permission classes requests name
  Ageing,     \* bound: the recipes that become unfit
  SourceMax,  \* bounds: no request starts on a row of this version
  RecipeMax,  \*         or later
  None        \* no row, no worker

PermissionClasses == {"READ_ONLY", "WRITE_PERMITTED", "WRITE_UNCLEAR", "PROHIBITED"}

ASSUME RowsAreDistinct ==
  /\ Source \cap Recipe = {}
  /\ None \notin Source \cup Recipe \cup Worker \cup PermissionClasses
  /\ Class \subseteq PermissionClasses
  /\ Ageing \subseteq Recipe
  /\ SourceMax \in Nat /\ RecipeMax \in Nat

ASSUME RecipesAreFinite == IsFiniteSet(Recipe)

VARIABLES
  source,      \* permission class, whether its window is open, row_version
  recipe,      \* source, version, enabled, disabled_reason, row_version
  unfit,       \* recipes gone stale or whose signature no longer verifies
  lock,        \* the transaction that holds a row
  work         \* the request each worker is at

vars == <<source, recipe, unfit, lock, work>>

-----------------------------------------------------------------------------
(* Rows and requests                                                       *)

SystemReasons == {"PERMISSION_UNCLEAR", "PERMISSION_DOWNGRADED", "PERMISSION_STALE"}

Sources == [class: PermissionClasses \cup {None}, open: BOOLEAN, rowVersion: Nat]
Undeclared == [class |-> None, open |-> FALSE, rowVersion |-> 0]

Recipes == [of: Source \cup {None}, version: Nat, enabled: BOOLEAN,
            reason: SystemReasons \cup {"OPERATOR", "NONE"}, rowVersion: Nat]
NoRecipe == [of |-> None, version |-> 0, enabled |-> FALSE, reason |-> "NONE",
             rowVersion |-> 0]

\* `seen' is the row as the caller last read it; of it the request carries the
\* row version, as If-Match.  `class', `open' and `on' are what it asks for and
\* `version' is the number a create has drawn.
Jobs == [op: {"idle", "permission", "create", "enablement"},
         phase: {"asked", "half", "locked"},
         row: Source \cup Recipe \cup {None},
         seen: Sources \cup Recipes \cup {NoRecipe},
         class: PermissionClasses \cup {None}, open: BOOLEAN, on: BOOLEAN,
         version: Nat]
Idle == [op |-> "idle", phase |-> "asked", row |-> None, seen |-> NoRecipe,
         class |-> None, open |-> FALSE, on |-> FALSE, version |-> 0]

TypeOK ==
  /\ source \in [Source -> Sources]
  /\ recipe \in [Recipe -> Recipes]
  /\ unfit \subseteq Recipe
  /\ lock \in [Source \cup Recipe -> Worker \cup {None}]
  /\ work \in [Worker -> Jobs]

Init ==
  /\ source = [s \in Source |-> Undeclared]
  /\ recipe = [r \in Recipe |-> NoRecipe]
  /\ unfit = {}
  /\ lock = [x \in Source \cup Recipe |-> None]
  /\ work = [w \in Worker |-> Idle]

Declared(s) == source[s] # Undeclared

RecipesOf(s) == {r \in Recipe : recipe[r].of = s}

EnabledOf(s) == {r \in RecipesOf(s) : recipe[r].enabled}

\* Of any other class the window decides nothing.
Windows(class) == IF class = "WRITE_PERMITTED" THEN BOOLEAN ELSE {FALSE}

\* The permission half of writesEnabled; a source never checked or without a
\* window is not open.
Usable(class, open) == class = "WRITE_PERMITTED" /\ open

SystemDisabledReason(class) ==
  CASE class = "WRITE_UNCLEAR" -> "PERMISSION_UNCLEAR"
    [] class = "WRITE_PERMITTED" -> "PERMISSION_STALE"
    [] OTHER -> "PERMISSION_DOWNGRADED"

-----------------------------------------------------------------------------
(* Transactions and row locks                                              *)

At(w, op, phase) == work[w].op = op /\ work[w].phase = phase

Free(x) == lock[x] = None

Take(w, x) == lock' = [lock EXCEPT ![x] = w]

\* COMMIT and ROLLBACK alike end the request and release its rows.
End(w) ==
  /\ work' = [work EXCEPT ![w] = Idle]
  /\ lock' = [x \in Source \cup Recipe |-> IF lock[x] = w THEN None ELSE lock[x]]

Ask(w, job) ==
  /\ work[w] = Idle
  /\ work' = [work EXCEPT ![w] = job]
  /\ UNCHANGED <<source, recipe, unfit, lock>>

-----------------------------------------------------------------------------
(* declareSource                                                           *)

\* One INSERT .. ON CONFLICT DO NOTHING; of two for one name the second inserts
\* nothing.
DeclareSource(s, class, open) ==
  /\ ~Declared(s)
  /\ source' = [source EXCEPT ![s] = [class |-> class, open |-> open,
                                      rowVersion |-> 1]]
  /\ UNCHANGED <<recipe, unfit, lock, work>>

-----------------------------------------------------------------------------
(* setPermissionClass                                                      *)

AskPermission(w, s, class, open) ==
  /\ Declared(s)
  /\ source[s].rowVersion < SourceMax
  /\ Ask(w, [Idle EXCEPT !.op = "permission", !.row = s, !.seen = source[s],
                         !.class = class, !.open = open])

LockForPermission(w) ==
  /\ At(w, "permission", "asked")
  /\ Free(work[w].row)
  /\ source[work[w].row].rowVersion = work[w].seen.rowVersion
  /\ Take(w, work[w].row)
  /\ work' = [work EXCEPT ![w].phase = "locked"]
  /\ UNCHANGED <<source, recipe, unfit>>

\* PRECONDITION_FAILED.
PermissionRefused(w) ==
  /\ At(w, "permission", "asked")
  /\ Free(work[w].row)
  /\ source[work[w].row].rowVersion # work[w].seen.rowVersion
  /\ End(w)
  /\ UNCHANGED <<source, recipe, unfit>>

\* The rows the second UPDATE is about to write.
ToDisable(w) ==
  IF Usable(work[w].class, work[w].open) THEN {} ELSE EnabledOf(work[w].row)

\* That UPDATE takes its rows one after the other.
LockRecipeToDisable(w, r) ==
  /\ At(w, "permission", "locked")
  /\ r \in ToDisable(w)
  /\ Free(r)
  /\ Take(w, r)
  /\ UNCHANGED <<source, recipe, unfit, work>>

\* Defect: every recipe of the source is written, those already off as well.
DisableAll(w) ==
  [r \in Recipe |->
     IF r \in RecipesOf(work[w].row) /\ ~Usable(work[w].class, work[w].open)
     THEN [recipe[r] EXCEPT !.enabled = FALSE,
                            !.reason = SystemDisabledReason(work[w].class),
                            !.rowVersion = @ + 1]
     ELSE recipe[r]]

\* Defect: the auto-disable forgets the recipe's row version.
DisableUnversioned(w) ==
  [r \in Recipe |->
     IF r \in ToDisable(w)
     THEN [recipe[r] EXCEPT !.enabled = FALSE,
                            !.reason = SystemDisabledReason(work[w].class)]
     ELSE recipe[r]]

Disable(w) ==
  [r \in Recipe |->
     IF r \in ToDisable(w)
     THEN [recipe[r] EXCEPT !.enabled = FALSE,
                            !.reason = SystemDisabledReason(work[w].class),
                            !.rowVersion = @ + 1]
     ELSE recipe[r]]

\* The window's length is not the request's to set; whether the window is open
\* after it follows from the instant of the check it names.
CommitPermission(w) ==
  /\ At(w, "permission", "locked")
  /\ \A r \in ToDisable(w) : lock[r] = w
  /\ source' = [source EXCEPT ![work[w].row] =
                  [class |-> work[w].class, open |-> work[w].open,
                   rowVersion |-> @.rowVersion + 1]]
  /\ recipe' = Disable(w)
  /\ End(w)
  /\ UNCHANGED <<unfit>>

-----------------------------------------------------------------------------
(* createRecipe                                                            *)

AskCreate(w, s) ==
  /\ Declared(s)
  /\ Cardinality({v \in Worker : work[v].op = "create"})
       < Cardinality({r \in Recipe : recipe[r] = NoRecipe})
  /\ Ask(w, [Idle EXCEPT !.op = "create", !.row = s, !.seen = source[s]])

NextVersion(s) == Max({recipe[r].version : r \in RecipesOf(s)} \cup {0}) + 1

\* Defect: the number is drawn without the source's lock.
DrawVersionUnlocked(w) ==
  /\ At(w, "create", "asked")
  /\ work' = [work EXCEPT ![w].phase = "locked",
                          ![w].version = NextVersion(work[w].row)]
  /\ UNCHANGED <<source, recipe, unfit, lock>>

\* The signature verified and the source locked, the number is drawn.
DrawVersion(w) ==
  /\ At(w, "create", "asked")
  /\ Free(work[w].row)
  /\ Take(w, work[w].row)
  /\ work' = [work EXCEPT ![w].phase = "locked",
                          ![w].version = NextVersion(work[w].row)]
  /\ UNCHANGED <<source, recipe, unfit>>

\* SIGNING_KEY_UNCONFIGURED or SIGNATURE_UNVERIFIABLE.
CreateRefused(w) ==
  /\ At(w, "create", "asked")
  /\ Free(work[w].row)
  /\ End(w)
  /\ UNCHANGED <<source, recipe, unfit>>

VersionTaken(s, n) == \E r \in RecipesOf(s) : recipe[r].version = n

\* A recipe may be stale already when it is inserted; it is never enabled.  That
\* the number is taken, VERSION_CONFLICT, does not happen (CreatesSerialise).
InsertRecipe(w) ==
  /\ At(w, "create", "locked")
  /\ ~VersionTaken(work[w].row, work[w].version)
  /\ \E r \in Recipe :
       /\ recipe[r] = NoRecipe
       /\ recipe' = [recipe EXCEPT ![r] =
                       [of |-> work[w].row, version |-> work[w].version,
                        enabled |-> FALSE, reason |-> "NONE", rowVersion |-> 1]]
       /\ unfit' \in {unfit, unfit \cup ({r} \cap Ageing)}
  /\ End(w)
  /\ UNCHANGED source

-----------------------------------------------------------------------------
(* setRecipeEnablement                                                     *)

AskEnablement(w, r, on) ==
  /\ recipe[r] # NoRecipe
  /\ recipe[r].rowVersion < RecipeMax
  /\ Ask(w, [Idle EXCEPT !.op = "enablement", !.row = r, !.seen = recipe[r],
                         !.on = on])

\* FOR UPDATE OF r, s: the recipe first.
LockRecipe(w) ==
  /\ At(w, "enablement", "asked")
  /\ Free(work[w].row)
  /\ Take(w, work[w].row)
  /\ work' = [work EXCEPT ![w].phase = "half"]
  /\ UNCHANGED <<source, recipe, unfit>>

GuardsPass(r) ==
  /\ r \notin unfit
  /\ source[recipe[r].of].class = "WRITE_PERMITTED"
  /\ source[recipe[r].of].open

\* A statement that waited reads the rows again as they were committed, so what
\* is judged is what both rows hold now.  A disable passes no guard.
Accepted(w) ==
  LET r == work[w].row
  IN  /\ recipe[r].rowVersion = work[w].seen.rowVersion
      /\ work[w].on => GuardsPass(r)

\* Defect: FOR UPDATE OF r, the source is read and not locked.
LockItsSourceUnlocked(w) ==
  /\ At(w, "enablement", "half")
  /\ Free(recipe[work[w].row].of)
  /\ Accepted(w)
  /\ work' = [work EXCEPT ![w].phase = "locked"]
  /\ UNCHANGED <<source, recipe, unfit, lock>>

\* Then the source; version and guards are judged with both rows held.
LockItsSource(w) ==
  /\ At(w, "enablement", "half")
  /\ Free(recipe[work[w].row].of)
  /\ Accepted(w)
  /\ Take(w, recipe[work[w].row].of)
  /\ work' = [work EXCEPT ![w].phase = "locked"]
  /\ UNCHANGED <<source, recipe, unfit>>

\* PRECONDITION_FAILED or GUARD_FAILED: the row is not touched.
EnablementRefused(w) ==
  /\ At(w, "enablement", "half")
  /\ Free(recipe[work[w].row].of)
  /\ ~Accepted(w)
  /\ End(w)
  /\ UNCHANGED <<source, recipe, unfit>>

CommitEnablement(w) ==
  /\ At(w, "enablement", "locked")
  /\ recipe' = [recipe EXCEPT ![work[w].row] =
                  [recipe[work[w].row] EXCEPT
                     !.enabled = work[w].on,
                     !.reason = IF work[w].on THEN "NONE" ELSE "OPERATOR",
                     !.rowVersion = @ + 1]]
  /\ End(w)
  /\ UNCHANGED <<source, unfit>>

-----------------------------------------------------------------------------
(* Waiting, time and keys                                                  *)

\* The row whose lock a worker's next statement needs.
Needs(w, x) ==
  \/ At(w, "permission", "asked") /\ x = work[w].row
  \/ At(w, "permission", "locked") /\ x \in ToDisable(w)
  \/ At(w, "create", "asked") /\ x = work[w].row
  \/ At(w, "enablement", "asked") /\ x = work[w].row
  \/ At(w, "enablement", "half") /\ x = recipe[work[w].row].of

Waits(w) ==
  \E x \in Source \cup Recipe : Needs(w, x) /\ lock[x] \notin {None, w}

\* Defect: the transaction is tried again at once.
GiveUpAndRetry(w) ==
  /\ Waits(w)
  /\ work' = [work EXCEPT ![w].phase = "asked"]
  /\ lock' = [x \in Source \cup Recipe |-> IF lock[x] = w THEN None ELSE lock[x]]
  /\ UNCHANGED <<source, recipe, unfit>>

\* The deadlock detector or the statement_timeout ends a wait; the error rolls
\* the transaction back.
GiveUp(w) ==
  /\ Waits(w)
  /\ End(w)
  /\ UNCHANGED <<source, recipe, unfit>>

\* Any other error of a statement, or the death of the server.
Fails(w) ==
  /\ work[w] # Idle
  /\ End(w)
  /\ UNCHANGED <<source, recipe, unfit>>

WindowCloses(s) ==
  /\ source[s].open
  /\ source' = [source EXCEPT ![s].open = FALSE]
  /\ UNCHANGED <<recipe, unfit, lock, work>>

\* freshness_at passes, or the service restarts without the signing key.
BecomesUnfit(r) ==
  /\ recipe[r] # NoRecipe
  /\ unfit' = unfit \cup {r}
  /\ UNCHANGED <<source, recipe, lock, work>>

-----------------------------------------------------------------------------

Request(w) ==
  \/ \E s \in Source, class \in Class : \E open \in Windows(class) :
       AskPermission(w, s, class, open)
  \/ \E s \in Source : AskCreate(w, s)
  \/ \E r \in Recipe, on \in BOOLEAN : AskEnablement(w, r, on)

Permission(w) ==
  \/ LockForPermission(w)
  \/ PermissionRefused(w)
  \/ \E r \in Recipe : LockRecipeToDisable(w, r)
  \/ CommitPermission(w)

Create(w) == DrawVersion(w) \/ CreateRefused(w) \/ InsertRecipe(w)

Enablement(w) ==
  \/ LockRecipe(w)
  \/ LockItsSource(w)
  \/ EnablementRefused(w)
  \/ CommitEnablement(w)

Progress(w) == Permission(w) \/ Create(w) \/ Enablement(w) \/ GiveUp(w)

Passage ==
  \/ \E s \in Source, class \in Class : \E open \in Windows(class) :
       DeclareSource(s, class, open)
  \/ \E s \in Source : WindowCloses(s)
  \/ \E r \in Ageing : BecomesUnfit(r)

Next == Passage \/ \E w \in Worker : Request(w) \/ Progress(w) \/ Fails(w)

Spec == Init /\ [][Next]_vars

\* A handler runs to its end, and a wait ends: statement_timeout is set in every
\* transaction.
FairSpec == Spec /\ \A w \in Worker : WF_vars(Progress(w))

-----------------------------------------------------------------------------
(* Properties                                                              *)

(* A recipe is switched on only on a source that may be written to, also
   when an enablement and a downgrade overlap: whichever commits second has
   seen the other (setPermissionClass, setRecipeEnablement).  Only the class
   is claimed: a window closes by itself and switches nothing off. *)
EnabledIsPermitted ==
  \A r \in Recipe :
    recipe[r].enabled => source[recipe[r].of].class = "WRITE_PERMITTED"

(* Two createRecipe calls for one source serialise: the number a call has
   drawn is still nobody's when it is inserted, so the unique index never
   refuses it. *)
CreatesSerialise ==
  \A w \in Worker :
    At(w, "create", "locked") => ~VersionTaken(work[w].row, work[w].version)

(* The recipes of a source are numbered 1, 2, .. with no gap and no number
   twice, whatever requests were rolled back between. *)
VersionsAreConsecutive ==
  \A s \in Source :
    {recipe[r].version : r \in RecipesOf(s)} = 1 .. Cardinality(RecipesOf(s))

(* What a request writes it writes over the row its caller read: between
   that read and the write neither an operator nor an auto-disable has
   changed the row (If-Match, row_version). *)
NoLostUpdate ==
  [][\A w \in Worker :
       work[w] # Idle /\ work'[w] = Idle =>
         /\ (work[w].row \in Recipe /\ recipe'[work[w].row] # recipe[work[w].row])
              => recipe[work[w].row] = work[w].seen
         /\ (work[w].op = "permission" /\ source'[work[w].row] # source[work[w].row])
              => source[work[w].row].rowVersion = work[w].seen.rowVersion]_vars

(* Why an operator switched a recipe off stays on record until it is
   switched on again: a later downgrade does not overwrite it. *)
OperatorReasonStands ==
  [][\A r \in Recipe :
       (recipe[r].reason = "OPERATOR" /\ recipe'[r].reason # "OPERATOR")
         => recipe'[r].enabled]_vars

(* Every request is answered, though an enablement and a permission change
   may each hold the row the other waits for. *)
EveryRequestEnds ==
  \A w \in Worker : work[w] # Idle ~> work[w] = Idle

-----------------------------------------------------------------------------
(* The inductive invariant                                                 *)

RowsInv ==
  /\ \A s \in Source : source[s].class = None => source[s] = Undeclared
  /\ \A r \in Recipe : recipe[r].of = None => recipe[r] = NoRecipe
  /\ \A r \in Recipe : recipe[r].enabled => recipe[r].reason = "NONE"

\* What a caller read is never ahead of the row, and is the row if the version
\* is still the same.
SeenInv(w) ==
  LET r == work[w].row
  IN  /\ work[w].seen \in Recipes
      /\ work[w].seen.rowVersion <= recipe[r].rowVersion
      /\ work[w].seen.rowVersion = recipe[r].rowVersion => work[w].seen = recipe[r]

PermissionInv(w) ==
  /\ work[w].row \in Source
  /\ Declared(work[w].row)
  /\ work[w].class \in PermissionClasses
  /\ work[w].phase # "half"
  /\ work[w].seen \in Sources
  /\ work[w].phase = "locked" =>
       /\ lock[work[w].row] = w
       /\ source[work[w].row].rowVersion = work[w].seen.rowVersion

CreateInv(w) ==
  /\ work[w].row \in Source
  /\ work[w].phase # "half"
  /\ work[w].phase = "locked" =>
       /\ lock[work[w].row] = w
       /\ work[w].version = Cardinality(RecipesOf(work[w].row)) + 1

EnablementInv(w) ==
  LET r == work[w].row
  IN  /\ r \in Recipe
      /\ recipe[r].of \in Source
      /\ SeenInv(w)
      /\ work[w].phase # "asked" => lock[r] = w
      /\ work[w].phase = "locked" =>
           /\ lock[recipe[r].of] = w
           /\ recipe[r].rowVersion = work[w].seen.rowVersion
           /\ work[w].on => source[recipe[r].of].class = "WRITE_PERMITTED"

JobInv(w) ==
  /\ work[w].op = "permission" => PermissionInv(w)
  /\ work[w].op = "create" => CreateInv(w)
  /\ work[w].op = "enablement" => EnablementInv(w)

IInv ==
  /\ TypeOK
  /\ RowsInv
  /\ EnabledIsPermitted
  /\ VersionsAreConsecutive
  /\ \A w \in Worker : JobInv(w)

=============================================================================
