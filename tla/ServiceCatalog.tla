--------------------------- MODULE ServiceCatalog ---------------------------
(***************************************************************************)
(* manageCategory (api/operations/operations.service.ts) with the trigger  *)
(* of migration 0027.  SELECT ... ORDER BY sort_order FOR UPDATE locks the *)
(* whole catalog: after a wait the rows are those committed meanwhile, in  *)
(* the order the statement saw when it started.                            *)
(***************************************************************************)
EXTENDS Naturals, FiniteSets

CONSTANTS CatalogCalls, \* calls being served, one transaction each
          Categories,
          NoJob

ASSUME CategoriesAssumption == IsFiniteSet(Categories) /\ Categories # {}

VARIABLES catalog, \* committed service_categories
          job      \* what each call is doing

catalogVars == <<catalog, job>>

CategoryActions == {"activate", "deactivate", "move_up", "move_down"}
Positions == 1..Cardinality(Categories)
Entry == [active : BOOLEAN, order : Positions]

\* seen: the positions when the SELECT started, in which the rows are returned;
\* writes: the rows it has written.
Jobs == [category : Categories, action : CategoryActions, seen : [Categories -> Positions],
         writes : UNION {[S -> Entry] : S \in SUBSET Categories}]

ASSUME NoJobAssumption == NoJob \notin Jobs

CatalogTypeOK ==
  /\ catalog \in [Categories -> Entry]
  /\ job \in [CatalogCalls -> Jobs \cup {NoJob}]

\* Any first order will do: the moves lead to the others.
CatalogInit ==
  /\ catalog = CHOOSE c \in [Categories -> [active : {TRUE}, order : Positions]] :
                \A k, l \in Categories : c[k].order = c[l].order => k = l
  /\ job = [c \in CatalogCalls |-> NoJob]

Nothing == [k \in {} |-> catalog[k]]
Wrote(c) == job[c] # NoJob /\ DOMAIN job[c].writes # {}

ManageCategory(c, k, action) ==
  /\ job[c] = NoJob
  /\ job' = [job EXCEPT ![c] = [category |-> k, action |-> action, writes |-> Nothing,
                                seen |-> [l \in Categories |-> catalog[l].order]]]
  /\ UNCHANGED catalog

\* Mutant: the SELECT does not lock.
CatalogUnlocked(c) == TRUE

CatalogFree(c) == \A d \in CatalogCalls \ {c} : ~Wrote(d)

\* The service counts the rows it has locked, and the trigger counts again.
Switch(c) ==
  LET k == job[c].category
      value == job[c].action = "activate"
  IN /\ job[c].action \in {"activate", "deactivate"}
     /\ catalog[k].active # value
     /\ value \/ \E l \in Categories \ {k} : catalog[l].active
     /\ job' = [job EXCEPT ![c].writes = [l \in {k} |-> [catalog[k] EXCEPT !.active = value]]]

\* The category listed before or after the one to move.
IsTarget(c, l) ==
  LET position == job[c].seen[job[c].category]
  IN job[c].seen[l] = IF job[c].action = "move_up" THEN position - 1 ELSE position + 1

\* Mutant: the positions written are those of the list, not those of the rows.
MoveAsListed(c) ==
  LET k == job[c].category
  IN /\ job[c].action \in {"move_up", "move_down"}
     /\ \E l \in Categories :
          /\ IsTarget(c, l)
          /\ job' = [job EXCEPT ![c].writes = [x \in {k, l} |->
               [catalog[x] EXCEPT !.order = job[c].seen[IF x = k THEN l ELSE k]]]]

\* Both rows take the position of the other; the unique constraint is deferred.
Move(c) ==
  LET k == job[c].category
  IN /\ job[c].action \in {"move_up", "move_down"}
     /\ \E l \in Categories :
          /\ IsTarget(c, l)
          /\ job' = [job EXCEPT ![c].writes = [x \in {k, l} |->
               [catalog[x] EXCEPT !.order = catalog[IF x = k THEN l ELSE k].order]]]

LockCatalog(c) ==
  /\ job[c] # NoJob /\ ~Wrote(c) /\ CatalogFree(c)
  /\ Switch(c) \/ Move(c)
  /\ UNCHANGED catalog

\* The catalog as a call leaves it when it commits.
CatalogAfter(c) ==
  [k \in Categories |-> IF k \in DOMAIN job[c].writes THEN job[c].writes[k] ELSE catalog[k]]

CommitCatalog(c) ==
  /\ Wrote(c)
  /\ catalog' = CatalogAfter(c)
  /\ job' = [job EXCEPT ![c] = NoJob]

\* A check fails, or the transaction is rolled back for any other reason.
RollbackCatalog(c) ==
  /\ job[c] # NoJob
  /\ job' = [job EXCEPT ![c] = NoJob]
  /\ UNCHANGED catalog

CatalogNext == \E c \in CatalogCalls :
  \/ \E k \in Categories, action \in CategoryActions : ManageCategory(c, k, action)
  \/ LockCatalog(c) \/ CommitCatalog(c) \/ RollbackCatalog(c)

-----------------------------------------------------------------------------
(* Properties *)

\* The catalog keeps an active category, whatever calls deactivate at once.
OneCategoryActive == \E k \in Categories : catalog[k].active

\* No two categories share a position: a call that waited swaps the positions the
\* categories have now, even if another call moved them since it listed them.
PositionsDiffer == \A k, l \in Categories : catalog[k].order = catalog[l].order => k = l
=============================================================================
