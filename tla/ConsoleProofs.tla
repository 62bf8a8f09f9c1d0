---------------------------- MODULE ConsoleProofs -----------------------------
(***************************************************************************)
(* Proofs about what operators, partners and data subjects change side by  *)
(* side: one inductive invariant for each component, kept by each of its   *)
(* steps.  MCWorkflows composes them; WorkflowsProofs has its theorems.    *)
(***************************************************************************)
EXTENDS ServiceRegions, ServiceCatalog, OperationDesk, Verification, PrivacyRights, PartnerSupport,
        Referrals, FunctionTheorems, FiniteSetTheorems, SequenceTheorems, TLAPS

-----------------------------------------------------------------------------
(* The regions of the pilot and their neighborhoods *)

\* The region a place belongs to.
Area(p) == IF p \in Hoods THEN RegionOf[p] ELSE p

Holding(c) == regionAt[c] \in {"update", "commit"}

\* A call under way is about a place.
Placed == \A c \in RegionCalls : regionAt[c] # "idle" => place[c] \in Places

\* Two calls never hold rows of one region.
Exclusive == \A c, d \in RegionCalls :
  c # d /\ Holding(c) /\ Holding(d) => Area(place[c]) # Area(place[d])

\* What the trigger of a call found in the region itself.
Backed(p, value) ==
  /\ p \in Regions /\ value => ActiveHoods(p) # {}
  /\ p \in Hoods /\ ~value /\ active[RegionOf[p]] => ActiveHoods(RegionOf[p]) \ {p} # {}

StillBacked == \A c \in RegionCalls : regionAt[c] = "commit" => Backed(place[c], to[c])

RegionsInv == RegionsTypeOK /\ Placed /\ Exclusive /\ StillBacked /\ ActiveRegionHasHood

-----------------------------------------------------------------------------
LEMMA AreaInRegions ==
  ASSUME NEW p \in Places PROVE Area(p) \in Regions /\ Area(p) \in Locked(p)
BY RegionAssumption DEF Area, Places, Locked

LEMMA RegionsTypeStep == RegionsTypeOK /\ [RegionsNext]_regionVars => RegionsTypeOK'
<1> SUFFICES ASSUME RegionsTypeOK, [RegionsNext]_regionVars PROVE RegionsTypeOK'
  OBVIOUS
<1> USE DEF RegionsTypeOK
<1>1. CASE UNCHANGED regionVars
  BY <1>1 DEF regionVars
<1>2. ASSUME NEW c \in RegionCalls, NEW p \in Places, NEW value \in BOOLEAN,
             ManagePlace(c, p, value)
      PROVE  RegionsTypeOK'
  BY <1>2 DEF ManagePlace, Counts, ActiveRegions, ActiveHoods, Places
<1>3. ASSUME NEW c \in RegionCalls, LockPlace(c) \/ UpdatePlace(c) PROVE RegionsTypeOK'
  BY <1>3 DEF LockPlace, UpdatePlace
<1>4. ASSUME NEW c \in RegionCalls, CommitPlace(c) PROVE RegionsTypeOK'
  BY <1>4 DEF CommitPlace, ReturnCall
<1>5. ASSUME NEW c \in RegionCalls, RollbackPlace(c) PROVE RegionsTypeOK'
  BY <1>5 DEF RollbackPlace, ReturnCall
<1> QED
  BY <1>1, <1>2, <1>3, <1>4, <1>5 DEF RegionsNext

\* One step of the protocol keeps calls placed and regions held by one call.
LEMMA RegionsLocksStep == RegionsInv /\ [RegionsNext]_regionVars => Placed' /\ Exclusive'
<1> SUFFICES ASSUME RegionsInv, [RegionsNext]_regionVars PROVE Placed' /\ Exclusive'
  OBVIOUS
<1> USE DEF RegionsInv, RegionsTypeOK, Placed, Exclusive, Holding, Area
<1>1. CASE UNCHANGED regionVars
  BY <1>1 DEF regionVars
<1>2. ASSUME NEW c \in RegionCalls, NEW p \in Places, NEW value \in BOOLEAN,
             ManagePlace(c, p, value)
      PROVE  Placed' /\ Exclusive'
  BY <1>2 DEF ManagePlace
<1>3. ASSUME NEW c \in RegionCalls, LockPlace(c) PROVE Placed' /\ Exclusive'
  <2>1. Placed'
    BY <1>3 DEF LockPlace
  <2>2. \A d \in RegionCalls \ {c} : Holding(d) => Area(place[d]) # Area(place[c])
    <3> SUFFICES ASSUME NEW d \in RegionCalls \ {c}, Holding(d)
                 PROVE  Area(place[d]) # Area(place[c])
      OBVIOUS
    <3>1. place[c] \in Places /\ place[d] \in Places
      BY <1>3 DEF LockPlace
    <3>2. Locked(place[d]) \cap Locked(place[c]) = {}
      BY <1>3 DEF LockPlace, PlaceFree, HoldsPlace
    <3> QED
      BY <3>1, <3>2, AreaInRegions
  <2>3. Exclusive'
    BY <1>3, <2>2 DEF LockPlace
  <2> QED
    BY <2>1, <2>3
<1>4. ASSUME NEW c \in RegionCalls, UpdatePlace(c) PROVE Placed' /\ Exclusive'
  BY <1>4 DEF UpdatePlace
<1>5. ASSUME NEW c \in RegionCalls, CommitPlace(c) \/ RollbackPlace(c)
      PROVE  Placed' /\ Exclusive'
  BY <1>5 DEF CommitPlace, RollbackPlace, ReturnCall
<1> QED
  BY <1>1, <1>2, <1>3, <1>4, <1>5 DEF RegionsNext

\* A commit in one region leaves what is active in another as it was.
LEMMA OtherAreasStay ==
  ASSUME RegionsTypeOK, NEW p \in Places, NEW value \in BOOLEAN,
         active' = [active EXCEPT ![p] = value],
         NEW r \in Regions, r # Area(p)
  PROVE  active'[r] = active[r] /\ ActiveHoods(r)' = ActiveHoods(r)
<1>1. r # p
  BY RegionAssumption DEF Area
<1>2. \A h \in Hoods : RegionOf[h] = r => h # p
  BY RegionAssumption DEF Area
<1> QED
  BY <1>1, <1>2 DEF RegionsTypeOK, ActiveHoods, Places

\* After a commit that was backed, the region it changed has a neighborhood if it is active.
LEMMA OwnAreaBacked ==
  ASSUME RegionsTypeOK, ActiveRegionHasHood, NEW p \in Places, NEW value \in BOOLEAN,
         Backed(p, value), active' = [active EXCEPT ![p] = value]
  PROVE  active'[Area(p)] => ActiveHoods(Area(p))' # {}
<1> DEFINE r == Area(p)
<1>1. r \in Regions
  BY AreaInRegions
<1>2. ASSUME p \in Regions, active'[r] PROVE ActiveHoods(r)' # {}
  <2>1. p = r /\ value
    BY <1>2, RegionAssumption DEF Area, RegionsTypeOK, Places
  <2>2. PICK h \in ActiveHoods(p) : TRUE
    BY <1>2, <2>1 DEF Backed
  <2>3. h # p /\ h \in Places
    BY <1>2, <2>2, RegionAssumption DEF ActiveHoods, Places
  <2> QED
    BY <2>1, <2>2, <2>3 DEF ActiveHoods, RegionsTypeOK
<1>3. ASSUME p \in Hoods, active'[r] PROVE ActiveHoods(r)' # {}
  <2>1. r = RegionOf[p] /\ r # p /\ active[r]
    BY <1>1, <1>3, RegionAssumption DEF Area, RegionsTypeOK, Places
  <2>2. CASE value
    BY <1>3, <2>1, <2>2 DEF ActiveHoods, RegionsTypeOK, Places
  <2>3. CASE ~value
    <3>1. PICK h \in ActiveHoods(r) : h # p
      BY <1>3, <2>1, <2>3 DEF Backed
    <3> QED
      BY <2>1, <3>1 DEF ActiveHoods, RegionsTypeOK, Places
  <2> QED
    BY <2>2, <2>3
<1> QED
  BY <1>2, <1>3 DEF Places

LEMMA RegionsCommitStep ==
  ASSUME RegionsInv, NEW c \in RegionCalls, CommitPlace(c)
  PROVE  StillBacked' /\ ActiveRegionHasHood'
<1> DEFINE p == place[c]
<1>1. /\ p \in Places /\ to[c] \in BOOLEAN /\ Backed(p, to[c])
      /\ active' = [active EXCEPT ![p] = to[c]]
  BY DEF RegionsInv, CommitPlace, Placed, StillBacked, RegionsTypeOK
<1>2. RegionsTypeOK /\ ActiveRegionHasHood
  BY DEF RegionsInv
<1>3. ActiveRegionHasHood'
  <2> SUFFICES ASSUME NEW r \in Regions, active'[r] PROVE ActiveHoods(r)' # {}
    BY DEF ActiveRegionHasHood
  <2>1. CASE r = Area(p)
    BY <1>1, <1>2, <2>1, OwnAreaBacked
  <2>2. CASE r # Area(p)
    BY <1>1, <1>2, <2>2, OtherAreasStay DEF ActiveRegionHasHood
  <2> QED
    BY <2>1, <2>2
<1>4. StillBacked'
  <2> SUFFICES ASSUME NEW d \in RegionCalls, regionAt'[d] = "commit"
               PROVE  Backed(place[d], to[d])'
    BY DEF StillBacked
  <2>1. /\ d # c /\ regionAt[d] = "commit" /\ regionAt[c] = "commit"
        /\ place'[d] = place[d] /\ to'[d] = to[d]
    BY DEF CommitPlace, ReturnCall, RegionsInv, RegionsTypeOK
  <2>2. place[d] \in Places /\ Area(place[d]) # Area(p) /\ Backed(place[d], to[d])
    BY <2>1 DEF RegionsInv, Placed, Exclusive, Holding, StillBacked
  <2>3. /\ active'[Area(place[d])] = active[Area(place[d])]
        /\ ActiveHoods(Area(place[d]))' = ActiveHoods(Area(place[d]))
    <3>1. \A r \in Regions : r # Area(p) =>
            active'[r] = active[r] /\ ActiveHoods(r)' = ActiveHoods(r)
      BY <1>1, <1>2, OtherAreasStay
    <3>2. Area(place[d]) \in Regions /\ Area(place[d])' = Area(place[d])
      BY <2>1, <2>2, AreaInRegions DEF Area
    <3> QED
      BY <2>2, <3>1, <3>2 DEF ActiveHoods
  <2>4. CASE place[d] \in Regions
    BY <2>1, <2>2, <2>3, <2>4, RegionAssumption DEF Backed, Area, ActiveHoods
  <2>5. CASE place[d] \in Hoods
    BY <2>1, <2>2, <2>3, <2>5, RegionAssumption DEF Backed, Area, ActiveHoods
  <2> QED
    BY <2>2, <2>4, <2>5 DEF Places
<1> QED
  BY <1>3, <1>4

LEMMA BackedStep == RegionsInv /\ [RegionsNext]_regionVars => StillBacked' /\ ActiveRegionHasHood'
<1> SUFFICES ASSUME RegionsInv, [RegionsNext]_regionVars PROVE StillBacked' /\ ActiveRegionHasHood'
  OBVIOUS
<1> USE DEF RegionsInv, RegionsTypeOK, StillBacked, Backed, ActiveHoods, ActiveRegionHasHood
<1>1. CASE UNCHANGED regionVars
  BY <1>1 DEF regionVars
<1>2. ASSUME NEW c \in RegionCalls, NEW p \in Places, NEW value \in BOOLEAN,
             ManagePlace(c, p, value)
      PROVE  StillBacked' /\ ActiveRegionHasHood'
  BY <1>2 DEF ManagePlace
<1>3. ASSUME NEW c \in RegionCalls, LockPlace(c) PROVE StillBacked' /\ ActiveRegionHasHood'
  BY <1>3 DEF LockPlace
<1>4. ASSUME NEW c \in RegionCalls, UpdatePlace(c) PROVE StillBacked' /\ ActiveRegionHasHood'
  BY <1>4, RegionAssumption DEF UpdatePlace, GuardPasses, Places
<1>5. ASSUME NEW c \in RegionCalls, RollbackPlace(c) PROVE StillBacked' /\ ActiveRegionHasHood'
  BY <1>5 DEF RollbackPlace, ReturnCall
<1> QED
  BY <1>1, <1>2, <1>3, <1>4, <1>5, RegionsCommitStep DEF RegionsNext

-----------------------------------------------------------------------------
\* Every variable of the region handlers keeps its type.
THEOREM RegionsTypeCorrect == RegionsSpec => []RegionsTypeOK
<1>1. RegionsInit => RegionsTypeOK
  BY DEF RegionsInit, RegionsTypeOK
<1> QED
  BY <1>1, RegionsTypeStep, PTL DEF RegionsSpec

LEMMA RegionsInitInv == RegionsInit => RegionsInv
BY RegionAssumption DEF RegionsInit, RegionsInv, RegionsTypeOK, Placed, Exclusive, Holding,
   StillBacked, ActiveRegionHasHood, ActiveHoods, Places

LEMMA RegionsNextKeeps == RegionsInv /\ [RegionsNext]_regionVars => RegionsInv'
BY RegionsTypeStep, RegionsLocksStep, BackedStep DEF RegionsInv

\* An active region always has an active neighborhood, whatever calls of
\* manageRegion and manageRegionNeighborhood overlap.
THEOREM RegionsKeepHoods == RegionsSpec => []ActiveRegionHasHood
<1>1. RegionsInv => ActiveRegionHasHood
  BY DEF RegionsInv
<1> QED
  BY <1>1, RegionsInitInv, RegionsNextKeeps, PTL DEF RegionsSpec

-----------------------------------------------------------------------------
(* The catalog of categories *)

\* One call at a time has written, and what it will leave is a usable catalog.
OneWriter == \A c, d \in CatalogCalls : Wrote(c) /\ Wrote(d) => c = d

Usable(rows) ==
  /\ \E k \in Categories : rows[k].active
  /\ \A k, l \in Categories : rows[k].order = rows[l].order => k = l

UsableAfter == \A c \in CatalogCalls : Wrote(c) => Usable(CatalogAfter(c))

\* What a call may write, and the catalog with that written.
Writes == UNION {[S -> Entry] : S \in SUBSET Categories}
With(w) == [k \in Categories |-> IF k \in DOMAIN w THEN w[k] ELSE catalog[k]]

CatalogInv ==
  /\ CatalogTypeOK
  /\ OneWriter
  /\ UsableAfter
  /\ OneCategoryActive
  /\ PositionsDiffer

LEMMA CatalogInitInv == CatalogInit => CatalogInv
<1> SUFFICES ASSUME CatalogInit PROVE CatalogInv
  OBVIOUS
<1> DEFINE Order == [Categories -> [active : {TRUE}, order : Positions]]
           Differ(o) == \A k, l \in Categories : o[k].order = o[l].order => k = l
<1>1. PICK f : f \in Bijection(Categories, Positions)
  <2>1. ExistsBijection(Categories, Positions)
    BY CategoriesAssumption, FS_CardinalityType, Fun_ExistsBijSymmetric DEF Positions
  <2> QED BY <2>1 DEF ExistsBijection
<1>2. \E o \in Order : Differ(o)
  <2> DEFINE o == [k \in Categories |-> [active |-> TRUE, order |-> f[k]]]
  <2>1. /\ f \in [Categories -> Positions]
        /\ \A k, l \in Categories : f[k] = f[l] => k = l
    BY <1>1 DEF Bijection, Injection, IsInjective
  <2>2. o \in Order /\ Differ(o)
    BY <2>1
  <2> QED BY <2>2
<1>3. catalog \in Order /\ Differ(catalog)
  BY <1>2 DEF CatalogInit
<1>4. catalog \in [Categories -> Entry] /\ \A k \in Categories : catalog[k].active = TRUE
  BY <1>3 DEF Entry
<1>5. CatalogTypeOK /\ OneWriter /\ UsableAfter
  BY <1>4 DEF CatalogInit, CatalogTypeOK, OneWriter, UsableAfter, Wrote
<1> QED BY <1>3, <1>4, <1>5, CategoriesAssumption
    DEF CatalogInv, OneCategoryActive, PositionsDiffer

LEMMA AfterType ==
  ASSUME CatalogTypeOK, NEW c \in CatalogCalls, Wrote(c)
  PROVE  CatalogAfter(c) \in [Categories -> Entry]
<1>1. job[c] \in Jobs /\ catalog \in [Categories -> Entry]
  BY DEF CatalogTypeOK, Wrote
<1>2. PICK S \in SUBSET Categories : job[c].writes \in [S -> Entry]
  BY <1>1 DEF Jobs
<1> QED BY <1>1, <1>2 DEF CatalogAfter

\* A call that has locked the list leaves it usable.
LEMMA LockedCatalog ==
  ASSUME CatalogInv, NEW c \in CatalogCalls, LockCatalog(c)
  PROVE  CatalogInv'
<1> DEFINE k == job[c].category
<1>1. /\ CatalogTypeOK /\ job[c] \in Jobs /\ catalog \in [Categories -> Entry]
      /\ job \in [CatalogCalls -> Jobs \cup {NoJob}] /\ job[c] # NoJob
      /\ catalog' = catalog /\ k \in Categories
  BY DEF CatalogInv, CatalogTypeOK, LockCatalog, Jobs
<1>2. \E w \in Writes : job' = [job EXCEPT ![c].writes = w] /\ Usable(With(w))
  <2>1. CASE Switch(c)
    <3> DEFINE value == job[c].action = "activate"
               w == [l \in {k} |-> [catalog[k] EXCEPT !.active = value]]
    <3>1. /\ value \/ \E l \in Categories \ {k} : catalog[l].active
          /\ job' = [job EXCEPT ![c].writes = w]
      BY <2>1 DEF Switch
    <3>2. /\ w \in [{k} -> Entry] /\ w[k].active = value /\ w[k].order = catalog[k].order
          /\ value \in BOOLEAN
      BY <1>1 DEF Entry
    <3> HIDE DEF w, value
    <3>3. w \in Writes /\ DOMAIN w = {k}
      BY <1>1, <3>2 DEF Writes
    <3>4. With(w) = [catalog EXCEPT ![k] = w[k]]
      BY <1>1, <3>3 DEF With
    <3>5. Usable(With(w))
      BY <1>1, <3>1, <3>2, <3>4 DEF Usable, CatalogInv, PositionsDiffer
    <3> QED BY <3>1, <3>3, <3>5
  <2>2. CASE Move(c)
    <3>1. PICK l \in Categories :
            /\ IsTarget(c, l)
            /\ job' = [job EXCEPT ![c].writes = [x \in {k, l} |->
                 [catalog[x] EXCEPT !.order = catalog[IF x = k THEN l ELSE k].order]]]
      BY <2>2 DEF Move
    <3> DEFINE w == [x \in {k, l} |->
                 [catalog[x] EXCEPT !.order = catalog[IF x = k THEN l ELSE k].order]]
    <3>2. l # k
      BY <1>1, <3>1 DEF IsTarget, Jobs, Positions
    <3>3. w \in [{k, l} -> Entry]
      BY <1>1 DEF Entry
    <3>4. /\ w[k].order = catalog[l].order /\ w[l].order = catalog[k].order
          /\ w[k].active = catalog[k].active /\ w[l].active = catalog[l].active
      BY <1>1, <3>2 DEF Entry
    <3>5. job' = [job EXCEPT ![c].writes = w]
      BY <3>1
    <3> HIDE DEF w
    <3>6. w \in Writes /\ DOMAIN w = {k, l}
      BY <1>1, <3>3 DEF Writes
    <3>7. \A j \in Categories : With(w)[j] = IF j \in {k, l} THEN w[j] ELSE catalog[j]
      BY <3>6 DEF With
    <3>8. Usable(With(w))
      BY <1>1, <3>2, <3>4, <3>7 DEF Usable, CatalogInv, PositionsDiffer, OneCategoryActive
    <3> QED BY <3>5, <3>6, <3>8
  <2> QED BY <2>1, <2>2 DEF LockCatalog
<1>3. PICK w \in Writes : job' = [job EXCEPT ![c].writes = w] /\ Usable(With(w))
  BY <1>2
<1>4. /\ job'[c] = [job[c] EXCEPT !.writes = w]
      /\ \A d \in CatalogCalls \ {c} : job'[d] = job[d] /\ ~Wrote(d)
  BY <1>1, <1>3 DEF LockCatalog, CatalogFree
<1>5. job'[c] \in Jobs /\ job'[c].writes = w
  BY <1>1, <1>4 DEF Jobs, Writes
<1>6. CatalogTypeOK'
  BY <1>1, <1>3, <1>5 DEF CatalogTypeOK
<1>7. OneWriter'
  BY <1>4 DEF OneWriter, Wrote
<1>8. UsableAfter'
  <2>1. \A d \in CatalogCalls \ {c} : ~Wrote(d)'
    BY <1>4 DEF Wrote
  <2>2. CatalogAfter(c)' = With(w)
    BY <1>1, <1>5 DEF CatalogAfter, With
  <2>3. Usable(CatalogAfter(c))'
    BY <1>3, <2>2 DEF Usable
  <2> QED BY <2>1, <2>3 DEF UsableAfter
<1>9. OneCategoryActive' /\ PositionsDiffer'
  BY <1>1 DEF CatalogInv, OneCategoryActive, PositionsDiffer
<1> QED BY <1>6, <1>7, <1>8, <1>9 DEF CatalogInv

LEMMA CatalogNextKeeps == CatalogInv /\ [CatalogNext]_catalogVars => CatalogInv'
<1> SUFFICES ASSUME CatalogInv, [CatalogNext]_catalogVars PROVE CatalogInv'
  OBVIOUS
<1>1. /\ CatalogTypeOK /\ catalog \in [Categories -> Entry]
      /\ job \in [CatalogCalls -> Jobs \cup {NoJob}]
  BY DEF CatalogInv, CatalogTypeOK
<1>2. CASE UNCHANGED catalogVars
  BY <1>2 DEF catalogVars, CatalogInv, CatalogTypeOK, OneWriter, UsableAfter, OneCategoryActive,
     PositionsDiffer, Wrote, CatalogAfter, Usable
\* A call without writes begins or ends, the catalog stays.
<1>3. ASSUME NEW c \in CatalogCalls, NEW j \in Jobs \cup {NoJob}, UNCHANGED catalog,
             job' = [job EXCEPT ![c] = j], j = NoJob \/ DOMAIN j.writes = {}
      PROVE  CatalogInv'
  <2>1. CatalogTypeOK'
    BY <1>1, <1>3 DEF CatalogTypeOK
  <2>2. /\ job'[c] = j /\ ~Wrote(c)'
        /\ \A d \in CatalogCalls \ {c} : job'[d] = job[d] /\ Wrote(d)' = Wrote(d)
    BY <1>1, <1>3 DEF Wrote
  <2>3. OneWriter'
    BY <2>2 DEF CatalogInv, OneWriter
  <2>4. UsableAfter'
    BY <1>3, <2>2 DEF CatalogInv, UsableAfter, CatalogAfter, Usable
  <2> QED BY <1>3, <2>1, <2>3, <2>4 DEF CatalogInv, OneCategoryActive, PositionsDiffer
<1>4. ASSUME NEW c \in CatalogCalls, NEW k \in Categories, NEW action \in CategoryActions,
             ManageCategory(c, k, action)
      PROVE  CatalogInv'
  <2> DEFINE seen == [l \in Categories |-> catalog[l].order]
             j == [category |-> k, action |-> action, writes |-> Nothing, seen |-> seen]
  <2>1. seen \in [Categories -> Positions]
    BY <1>1 DEF Entry
  <2>2. Nothing \in [{} -> Entry] /\ DOMAIN Nothing = {}
    BY DEF Nothing
  <2>3. job' = [job EXCEPT ![c] = j] /\ UNCHANGED catalog
    BY <1>4 DEF ManageCategory
  <2> HIDE DEF seen
  <2>4. j \in Jobs
    BY <2>1, <2>2 DEF Jobs
  <2> QED BY <1>3, <2>2, <2>3, <2>4
<1>5. ASSUME NEW c \in CatalogCalls, RollbackCatalog(c) PROVE CatalogInv'
  BY <1>3, <1>5 DEF RollbackCatalog
<1>6. ASSUME NEW c \in CatalogCalls, CommitCatalog(c) PROVE CatalogInv'
  <2>1. /\ Wrote(c) /\ catalog' = CatalogAfter(c) /\ job' = [job EXCEPT ![c] = NoJob]
        /\ catalog' \in [Categories -> Entry]
    BY <1>1, <1>6, AfterType DEF CommitCatalog
  <2>2. CatalogTypeOK'
    BY <1>1, <2>1 DEF CatalogTypeOK
  <2>3. \A d \in CatalogCalls : ~Wrote(d)'
    BY <1>1, <2>1 DEF CatalogInv, OneWriter, Wrote
  <2>4. OneCategoryActive' /\ PositionsDiffer'
    BY <2>1 DEF CatalogInv, UsableAfter, Usable, OneCategoryActive, PositionsDiffer
  <2> QED BY <2>2, <2>3, <2>4 DEF CatalogInv, OneWriter, UsableAfter
<1> QED BY <1>2, <1>4, <1>5, <1>6, LockedCatalog DEF CatalogNext

-----------------------------------------------------------------------------
(* The records of the desk *)

DeskReads == {<<>>} \cup {<<r>> : r \in DeskRow}
DeskTasks == [to : RecordValues, view : DeskRow, read : DeskReads]

DeskTyped ==
  /\ record \in {"gate", "goals", "case"}
  /\ desk \in DeskRow /\ trail \in Seq(DeskEvent)
  /\ task \in [DeskCalls -> DeskTasks \cup {NoTask}]

\* The version counts the events, which lead from one value to the next.
TrailLeadsHere ==
  /\ desk.version = Len(trail) + 1
  /\ \A i \in 1..Len(trail) : trail[i].version = i + 1
  /\ \A i \in 1..Len(trail) - 1 : trail[i + 1].from = trail[i].to
  /\ trail # <<>> => trail[Len(trail)].to = desk.value

\* Who sees the current version sees the current value.
ViewsAreTrue == \A c \in DeskCalls : task[c] # NoTask =>
  /\ task[c].view.version <= desk.version
  /\ task[c].view.version = desk.version => task[c].view.value = desk.value

\* The row lock has one holder, and what it read is still there.
LockedRowIsRead == \A c \in DeskCalls : Reading(c) =>
  Read(c) = desk /\ \A d \in DeskCalls : Reading(d) => d = c

DeskInv ==
  /\ DeskTyped
  /\ TrailLeadsHere
  /\ ViewsAreTrue
  /\ LockedRowIsRead
  /\ GateSavesWereSeen

LEMMA DeskInvProperties ==
  ASSUME DeskInv
  PROVE  DeskTypeOK /\ TrailsChain
<1>1. DeskTypeOK
  <2> SUFFICES ASSUME NEW c \in DeskCalls, task[c] # NoTask
               PROVE  /\ task[c].to \in RecordValues /\ task[c].view \in DeskRow
                      /\ task[c].read \in Seq(DeskRow) /\ Len(task[c].read) <= 1
    BY DEF DeskTypeOK, DeskInv, DeskTyped
  <2>1. task[c] \in DeskTasks
    BY DEF DeskInv, DeskTyped
  <2>2. ASSUME NEW s \in DeskReads PROVE s \in Seq(DeskRow) /\ Len(s) <= 1
    <3>1. CASE s = <<>>
      BY <3>1
    <3>2. ASSUME NEW r \in DeskRow, s = <<r>> PROVE s \in Seq(DeskRow) /\ Len(s) <= 1
      BY <3>2
    <3> QED BY <3>1, <3>2 DEF DeskReads
  <2> QED BY <2>1, <2>2 DEF DeskTasks
<1>2. TrailsChain
  <2>1. Len(trail) \in Nat /\ trail \in Seq(DeskEvent) /\ desk \in DeskRow
    BY LenProperties DEF DeskInv, DeskTyped
  <2> SUFFICES ASSUME NEW i \in 1..Len(trail)
               PROVE  /\ trail[i].version = i + 1
                      /\ i < Len(trail) => trail[i + 1].from = trail[i].to
                      /\ i = Len(trail) => desk = [value |-> trail[i].to, version |-> i + 1]
    BY DEF TrailsChain
  <2>2. i = Len(trail) => trail # <<>>
    BY <2>1
  <2>3. i = Len(trail) => desk.value = trail[i].to /\ desk.version = i + 1
    BY <2>1, <2>2 DEF DeskInv, TrailLeadsHere
  <2>4. i = Len(trail) => desk = [value |-> trail[i].to, version |-> i + 1]
    BY <2>1, <2>3 DEF DeskRow
  <2> QED BY <2>1, <2>4 DEF DeskInv, TrailLeadsHere
<1> QED BY <1>1, <1>2

LEMMA DeskInitInv == DeskInit => DeskInv
<1> SUFFICES ASSUME DeskInit PROVE DeskInv
  OBVIOUS
<1>1. (CHOOSE v \in DeskValues : TRUE) \in DeskValues
  BY DeskValuesAssumption
<1>2. desk \in DeskRow /\ desk.version = 1 /\ trail = <<>> /\ record \in {"gate", "goals", "case"}
  BY <1>1 DEF DeskInit, DeskRow, RecordValues, CaseStatuses
<1>3. Len(trail) = 0 /\ trail \in Seq(DeskEvent)
  BY <1>2
<1>4. \A c \in DeskCalls : task[c] = NoTask
  BY DEF DeskInit
<1>5. DeskTyped
  BY <1>2, <1>3, <1>4 DEF DeskInit, DeskTyped
<1>6. TrailLeadsHere /\ GateSavesWereSeen
  BY <1>2, <1>3 DEF TrailLeadsHere, GateSavesWereSeen
<1> QED BY <1>4, <1>5, <1>6 DEF DeskInv, ViewsAreTrue, LockedRowIsRead, Reading

\* A call that begins, locks its row or ends without having changed it.
LEMMA DeskTaskMoves ==
  ASSUME DeskInv, NEW c \in DeskCalls, NEW j \in DeskTasks \cup {NoTask},
         UNCHANGED <<record, desk, trail>>, task' = [task EXCEPT ![c] = j],
         j # NoTask => /\ j.view.version <= desk.version
                       /\ j.view.version = desk.version => j.view.value = desk.value,
         j # NoTask /\ j.read # <<>> => RowFree(c) /\ j.read = <<desk>>
  PROVE  DeskInv'
<1>1. /\ task'[c] = j /\ \A d \in DeskCalls \ {c} : task'[d] = task[d]
      /\ task' \in [DeskCalls -> DeskTasks \cup {NoTask}]
  BY DEF DeskInv, DeskTyped
<1>2. DeskTyped'
  BY <1>1 DEF DeskInv, DeskTyped, DeskRow, DeskEvent, RecordValues, DeskTasks, DeskReads
<1>3. TrailLeadsHere' /\ GateSavesWereSeen'
  BY DEF DeskInv, TrailLeadsHere, GateSavesWereSeen
<1>4. ViewsAreTrue'
  BY <1>1 DEF DeskInv, ViewsAreTrue
<1>5. LockedRowIsRead'
  <2>1. \A d \in DeskCalls \ {c} : (Reading(d)' <=> Reading(d)) /\ Read(d)' = Read(d)
    BY <1>1 DEF Reading, Read
  <2>2. Reading(c)' => Read(c)' = desk /\ \A d \in DeskCalls \ {c} : ~Reading(d)
    BY <1>1 DEF Reading, Read, RowFree
  <2> QED BY <2>1, <2>2 DEF DeskInv, LockedRowIsRead
<1> QED BY <1>2, <1>3, <1>4, <1>5 DEF DeskInv

LEMMA CommitRowKeeps ==
  ASSUME DeskInv, NEW c \in DeskCalls, Reading(c), NEW value \in RecordValues, CommitRow(c, value),
         record = "gate" => task[c].view.value = desk.value
  PROVE  DeskInv'
<1> DEFINE event == [from |-> desk.value, to |-> value, version |-> desk.version + 1,
                     viewed |-> task[c].view.value]
           n == Len(trail)
<1>1. /\ DeskTyped /\ desk \in DeskRow /\ desk.version \in Nat /\ desk.value \in RecordValues
      /\ trail \in Seq(DeskEvent) /\ n \in Nat /\ desk.version = n + 1
      /\ task[c] \in DeskTasks /\ task[c].view.value \in RecordValues
      /\ \A d \in DeskCalls \ {c} : ~Reading(d)
  BY LenProperties DEF DeskInv, DeskTyped, DeskRow, DeskTasks, Reading, LockedRowIsRead, TrailLeadsHere
<1>2. /\ desk' = [value |-> value, version |-> desk.version + 1]
      /\ trail' = Append(trail, event) /\ task' = [task EXCEPT ![c] = NoTask] /\ UNCHANGED record
  BY DEF DeskInv, LockedRowIsRead, CommitRow
<1>3. event \in DeskEvent
  BY <1>1 DEF DeskEvent
<1> HIDE DEF event
<1>4. /\ trail' \in Seq(DeskEvent) /\ Len(trail') = n + 1
      /\ \A i \in 1..n : trail'[i] = trail[i]
      /\ trail'[n + 1] = event
  BY <1>1, <1>2, <1>3, AppendProperties
<1>5. /\ task'[c] = NoTask /\ \A d \in DeskCalls \ {c} : task'[d] = task[d]
      /\ task' \in [DeskCalls -> DeskTasks \cup {NoTask}]
  BY <1>1, <1>2 DEF DeskTyped
<1>6. DeskTyped'
  <2>1. desk' \in DeskRow
    BY <1>1, <1>2 DEF DeskRow
  <2> QED BY <1>1, <1>2, <1>4, <1>5, <2>1
      DEF DeskTyped, DeskRow, DeskEvent, RecordValues, DeskTasks, DeskReads
<1>7. /\ event.from = desk.value /\ event.to = value /\ event.version = n + 2
      /\ event.viewed = task[c].view.value
      /\ desk'.version = n + 2 /\ desk'.value = value
  BY <1>1, <1>2 DEF event
<1>8. TrailLeadsHere'
  <2>1. \A i \in 1..n + 1 : trail'[i].version = i + 1
    BY <1>1, <1>4, <1>7 DEF DeskInv, TrailLeadsHere
  <2>2. ASSUME NEW i \in 1..n PROVE trail'[i + 1].from = trail'[i].to
    <3>1. CASE i < n
      BY <1>1, <1>4, <3>1 DEF DeskInv, TrailLeadsHere
    <3>2. CASE i = n
      <4>1. trail # <<>>
        BY <1>1, <3>2
      <4> QED BY <1>1, <1>4, <1>7, <3>2, <4>1 DEF DeskInv, TrailLeadsHere
    <3> QED BY <1>1, <3>1, <3>2
  <2> QED BY <1>1, <1>4, <1>7, <2>1, <2>2 DEF TrailLeadsHere
<1>9. ViewsAreTrue'
  <2>1. \A d \in DeskCalls \ {c} : task[d] # NoTask =>
          task[d].view.version \in Nat /\ task[d].view.version <= n + 1
    BY <1>1 DEF DeskInv, DeskTyped, DeskTasks, DeskRow, ViewsAreTrue
  <2> QED BY <1>1, <1>5, <1>7, <2>1 DEF ViewsAreTrue
<1>10. \A d \in DeskCalls : ~Reading(d)'
  BY <1>1, <1>5 DEF Reading
<1>11. GateSavesWereSeen'
  BY <1>1, <1>2, <1>4, <1>7 DEF DeskInv, GateSavesWereSeen
<1> QED BY <1>6, <1>8, <1>9, <1>10, <1>11 DEF DeskInv, LockedRowIsRead

LEMMA DeskNextKeeps == DeskInv /\ [DeskNext]_deskVars => DeskInv'
<1> SUFFICES ASSUME DeskInv, [DeskNext]_deskVars PROVE DeskInv'
  OBVIOUS
<1>1. CASE UNCHANGED deskVars
  BY <1>1 DEF deskVars, DeskInv, DeskTyped, DeskRow, DeskEvent, RecordValues, DeskTasks, DeskReads,
     TrailLeadsHere, ViewsAreTrue, LockedRowIsRead, Reading, Read, GateSavesWereSeen
<1>2. /\ desk \in DeskRow /\ desk.version \in Nat
      /\ \A c \in DeskCalls : task[c] # NoTask => task[c] \in DeskTasks
  BY DEF DeskInv, DeskTyped, DeskRow
<1>3. ASSUME NEW c \in DeskCalls, NEW goal \in RecordValues, LookAt(c, goal) PROVE DeskInv'
  <2> DEFINE j == [to |-> goal, view |-> desk, read |-> <<>>]
  <2>1. task' = [task EXCEPT ![c] = j] /\ UNCHANGED <<record, desk, trail>>
    BY <1>3 DEF LookAt
  <2>2. j \in DeskTasks
    BY <1>2 DEF DeskTasks, DeskReads
  <2>3. j.view = desk /\ j.read = <<>>
    OBVIOUS
  <2>4. /\ j.view.version <= desk.version
        /\ j.view.version = desk.version => j.view.value = desk.value
    BY <1>2, <2>3
  <2> HIDE DEF j
  <2> QED BY <2>1, <2>2, <2>3, <2>4, DeskTaskMoves
<1>4. ASSUME NEW c \in DeskCalls, LockRow(c) PROVE DeskInv'
  <2> DEFINE j == [task[c] EXCEPT !.read = <<desk>>]
  <2>1. /\ task' = [task EXCEPT ![c] = j] /\ UNCHANGED <<record, desk, trail>>
        /\ task[c] # NoTask /\ RowFree(c) /\ task[c] \in DeskTasks
    BY <1>2, <1>4 DEF LockRow
  <2>2. j \in DeskTasks /\ j.view = task[c].view /\ j.read = <<desk>>
    BY <1>2, <2>1 DEF DeskTasks, DeskReads
  <2> HIDE DEF j
  <2> QED BY <2>1, <2>2, DeskTaskMoves DEF DeskInv, ViewsAreTrue
<1>5. ASSUME NEW c \in DeskCalls, RefuseTask(c) PROVE DeskInv'
  BY <1>5, DeskTaskMoves DEF RefuseTask
<1>6. ASSUME NEW c \in DeskCalls,
             UpdateReadinessGate(c) \/ UpdateReportGoals(c) \/ ChangeStatus(c) \/ AddNote(c)
      PROVE  DeskInv'
  <2>1. /\ Reading(c) /\ Read(c) = desk /\ task[c].to \in RecordValues /\ desk.value \in RecordValues
    BY <1>2, <1>6 DEF UpdateReadinessGate, UpdateReportGoals, ChangeStatus, AddNote, DeskInv,
       LockedRowIsRead, Reading, DeskTasks, DeskRow
  <2>2. PICK value \in RecordValues : CommitRow(c, value)
    BY <1>6, <2>1 DEF UpdateReadinessGate, UpdateReportGoals, ChangeStatus, AddNote
  <2>3. record = "gate" => task[c].view.value = desk.value
    BY <1>6, <2>1 DEF UpdateReadinessGate, UpdateReportGoals, ChangeStatus, AddNote, DeskInv,
       ViewsAreTrue, Reading
  <2> QED BY <2>1, <2>2, <2>3, CommitRowKeeps
<1> QED BY <1>1, <1>3, <1>4, <1>5, <1>6 DEF DeskNext

LEMMA ResolvedStep ==
  ASSUME DeskInv, DeskNext, desk.value = "resolved"
  PROVE  UNCHANGED <<desk, trail>>
<1>1. record = "case"
  BY DeskValuesAssumption DEF DeskInv, DeskTyped, DeskRow, RecordValues, CaseStatuses
<1>2. \A c \in DeskCalls : Reading(c) => Read(c) = desk
  BY DEF DeskInv, LockedRowIsRead
<1> QED BY <1>1, <1>2 DEF DeskNext, LookAt, LockRow, RefuseTask, UpdateReadinessGate,
        UpdateReportGoals, ChangeStatus, AddNote

-----------------------------------------------------------------------------
(* The review of a provider *)

Marks == {{}} \cup {{i} : i \in Items}
Reviews == [marks : Marks, to : (ItemStatuses \cup Verdicts) \ {"pending", "submitted"},
            seen : Verdicts, at : {"locked", "counted"}]

ReviewTyped ==
  /\ verdict \in Verdicts /\ checklist \in [Items -> ItemStatuses]
  /\ review \in [ReviewCalls -> Reviews \cup {NoReview}]

\* What a verdict stands on.
Grounds(v, list) ==
  /\ v = "submitted" => \A i \in Items : list[i] = "pending"
  /\ v = "approved" => \A i \in Items : list[i] = "accepted"
  /\ v = "changes_requested" => \E i \in Items : list[i] = "changes_requested"

\* The verification has one holder, which has seen its verdict; what was counted
\* for a decision still is so.
ReviewHolds == \A c \in ReviewCalls : review[c] # NoReview =>
  /\ review[c].seen = verdict
  /\ review[c].marks # {} => review[c].to \in ItemStatuses
  /\ review[c].at = "counted" => review[c].to \in Verdicts /\ Grounds(review[c].to, checklist)
  /\ \A d \in ReviewCalls \ {c} : review[d] = NoReview

VerificationInv == ReviewTyped /\ ReviewHolds /\ VerdictMatchesItems

LEMMA VerificationTyped == VerificationInv => VerificationTypeOK
<1> SUFFICES ASSUME VerificationInv PROVE VerificationTypeOK
  OBVIOUS
<1>1. \A m \in Marks : m \subseteq Items /\ Cardinality(m) <= 1
  <2> SUFFICES ASSUME NEW m \in Marks PROVE m \subseteq Items /\ Cardinality(m) <= 1
    OBVIOUS
  <2>1. CASE m = {}
    <3>1. Cardinality(m) = 0
      BY <2>1, FS_EmptySet
    <3> QED BY <2>1, <3>1
  <2>2. ASSUME NEW i \in Items, m = {i} PROVE m \subseteq Items /\ Cardinality(m) <= 1
    <3>1. Cardinality(m) = 1
      BY <2>2, FS_Singleton
    <3> QED BY <2>2, <3>1
  <2> QED BY <2>1, <2>2 DEF Marks
<1>2. ASSUME NEW c \in ReviewCalls, review[c] # NoReview PROVE review[c] \in Reviews
  BY <1>2 DEF VerificationInv, ReviewTyped
<1> QED BY <1>1, <1>2 DEF VerificationInv, ReviewTyped, VerificationTypeOK, Reviews

LEMMA VerificationInitInv == VerificationInit => VerificationInv
BY DEF VerificationInit, VerificationInv, ReviewTyped, ReviewHolds, VerdictMatchesItems, Verdicts,
   ItemStatuses

\* One request at a time moves, and the others do nothing.
LEMMA ReviewMoves ==
  ASSUME VerificationInv, NEW c \in ReviewCalls, NEW j \in Reviews \cup {NoReview},
         review' = [review EXCEPT ![c] = j],
         verdict' \in Verdicts, checklist' \in [Items -> ItemStatuses], VerdictMatchesItems',
         \A d \in ReviewCalls \ {c} : review[d] = NoReview,
         j # NoReview => /\ j.seen = verdict'
                         /\ j.marks # {} => j.to \in ItemStatuses
                         /\ j.at = "counted" => j.to \in Verdicts /\ Grounds(j.to, checklist')
  PROVE  VerificationInv'
<1>1. /\ review'[c] = j /\ \A d \in ReviewCalls \ {c} : review'[d] = NoReview
      /\ review' \in [ReviewCalls -> Reviews \cup {NoReview}]
  BY DEF VerificationInv, ReviewTyped
<1>2. ReviewTyped'
  BY <1>1 DEF ReviewTyped
<1>3. ReviewHolds'
  BY <1>1 DEF ReviewHolds, Grounds
<1> QED BY <1>2, <1>3 DEF VerificationInv

LEMMA VerificationNextKeeps == VerificationInv /\ [VerificationNext]_reviewVars => VerificationInv'
<1> SUFFICES ASSUME VerificationInv, [VerificationNext]_reviewVars PROVE VerificationInv'
  OBVIOUS
<1>1. CASE UNCHANGED reviewVars
  BY <1>1 DEF reviewVars, VerificationInv, ReviewTyped, ReviewHolds, Grounds, VerdictMatchesItems
<1>2. /\ verdict \in Verdicts /\ checklist \in [Items -> ItemStatuses] /\ VerdictMatchesItems
      /\ \A c \in ReviewCalls : review[c] # NoReview =>
           /\ review[c] \in Reviews /\ review[c].seen = verdict
           /\ review[c].marks # {} => review[c].to \in ItemStatuses
           /\ \A d \in ReviewCalls \ {c} : review[d] = NoReview
  BY DEF VerificationInv, ReviewTyped, ReviewHolds
<1>3. ASSUME NEW c \in ReviewCalls, NEW marks \in Marks,
             NEW goal \in (ItemStatuses \cup Verdicts) \ {"pending", "submitted"}, LockFor(c, marks, goal),
             marks # {} => goal \in ItemStatuses
      PROVE  VerificationInv'
  <2> DEFINE j == [marks |-> marks, to |-> goal, seen |-> verdict, at |-> "locked"]
  <2>1. j \in Reviews /\ j.seen = verdict /\ j.at = "locked" /\ j.marks = marks /\ j.to = goal
    BY <1>2 DEF Reviews
  <2>2. /\ review' = [review EXCEPT ![c] = j] /\ UNCHANGED <<verdict, checklist>>
        /\ \A d \in ReviewCalls \ {c} : review[d] = NoReview
    BY <1>3 DEF LockFor, VerificationFree
  <2> HIDE DEF j
  <2> QED BY <1>2, <1>3, <2>1, <2>2, ReviewMoves DEF VerdictMatchesItems
<1>4. ASSUME NEW c \in ReviewCalls, CountItems(c) PROVE VerificationInv'
  <2> DEFINE j == [review[c] EXCEPT !.at = "counted"]
  <2>1. review[c] # NoReview /\ review' = [review EXCEPT ![c] = j] /\ UNCHANGED <<verdict, checklist>>
    BY <1>4 DEF CountItems
  <2>2. j \in Reviews /\ j.seen = verdict /\ j.to = review[c].to /\ j.marks = review[c].marks
    BY <1>2, <2>1 DEF Reviews
  <2>3. review[c].to \in Verdicts \ {"submitted"}
    BY <1>4 DEF CountItems, VerdictAllowed, Verdicts
  <2>4. Grounds(review[c].to, checklist')
    BY <1>4, <2>3 DEF CountItems, Grounds
  <2> HIDE DEF j
  <2> QED BY <1>2, <2>1, <2>2, <2>3, <2>4, ReviewMoves DEF VerdictMatchesItems
<1>5. ASSUME NEW c \in ReviewCalls, ChangeVerdict(c) PROVE VerificationInv'
  <2>1. /\ review[c] # NoReview /\ review[c].to \in Verdicts /\ Grounds(review[c].to, checklist)
        /\ verdict' = review[c].to /\ review' = [review EXCEPT ![c] = NoReview] /\ UNCHANGED checklist
    BY <1>5 DEF ChangeVerdict, VerificationInv, ReviewHolds
  <2>2. VerdictMatchesItems'
    BY <2>1 DEF Grounds, VerdictMatchesItems
  <2> QED BY <1>2, <2>1, <2>2, ReviewMoves
<1>6. ASSUME NEW c \in ReviewCalls, ReviewDocument(c) PROVE VerificationInv'
  <2>1. /\ review[c] # NoReview /\ review[c].seen = "in_review"
        /\ review' = [review EXCEPT ![c] = NoReview] /\ UNCHANGED verdict
    BY <1>6 DEF ReviewDocument
  <2>2. PICK i \in review[c].marks : checklist' = [checklist EXCEPT ![i] = review[c].to]
    BY <1>6 DEF ReviewDocument
  <2>3. verdict' = "in_review"
    BY <1>2, <2>1
  <2>4. checklist' \in [Items -> ItemStatuses]
    BY <1>2, <2>1, <2>2
  <2> QED BY <1>2, <2>1, <2>3, <2>4, ReviewMoves DEF VerdictMatchesItems
<1>7. ASSUME NEW c \in ReviewCalls, DropReview(c) PROVE VerificationInv'
  BY <1>2, <1>7, ReviewMoves DEF DropReview, VerdictMatchesItems
<1> QED BY <1>1, <1>3, <1>4, <1>5, <1>6, <1>7
    DEF VerificationNext, Marks, Verdicts, ItemStatuses

-----------------------------------------------------------------------------
(* The requests of a data subject *)

DsRecords == [type : DsTypes, status : DsStatuses, version : Nat]
DsEvents == [to : DsStatuses, seen : Nat, version : Nat]
DsTasks == [to : DsStatuses, expected : Nat, at : {"started", "locked", "read"}, read : DsRecords]

PrivacyTyped ==
  /\ dsRequest \in DsRecords /\ dsEvents \in Seq(DsEvents) /\ receipts \in Nat
  /\ dsTask \in [PrivacyCalls -> DsTasks \cup {NoPrivacyTask}]

\* The version counts the events; only the first version is open.
VersionCountsEvents ==
  /\ dsRequest.status = "none" => dsEvents = <<>>
  /\ dsRequest.status # "none" => dsRequest.version = Len(dsEvents)
  /\ dsRequest.version >= 1 /\ (dsRequest.status \in {"none", "open"} => dsRequest.version = 1)

\* The request has one holder, and what it read is still there.
HoldsRequest(c) == InTask(c, "locked") \/ InTask(c, "read")

LockedRequestIsRead == \A c \in PrivacyCalls : dsTask[c] # NoPrivacyTask =>
  /\ dsRequest.status # "none" /\ dsTask[c].expected \in 1..dsRequest.version
  /\ HoldsRequest(c) => dsTask[c].read = dsRequest /\ \A d \in PrivacyCalls \ {c} : ~HoldsRequest(d)
  /\ InTask(c, "read") => dsRequest.type = "access"

PrivacyInv ==
  /\ PrivacyTyped
  /\ VersionCountsEvents
  /\ LockedRequestIsRead
  /\ AccessHasItsReceipt
  /\ DecisionsWereSeen

LEMMA PrivacyTypes == PrivacyInv => PrivacyTypeOK
<1> SUFFICES ASSUME PrivacyInv PROVE PrivacyTypeOK
  OBVIOUS
<1>1. \A i \in 1..Len(dsEvents) : dsEvents[i] \in DsEvents
  BY DEF PrivacyInv, PrivacyTyped
<1>2. \A c \in PrivacyCalls : dsTask[c] = NoPrivacyTask \/ dsTask[c] \in DsTasks
  BY DEF PrivacyInv, PrivacyTyped
<1>3. dsRequest \in DsRecords /\ receipts \in Nat
  BY DEF PrivacyInv, PrivacyTyped
<1> QED BY <1>1, <1>2, <1>3 DEF PrivacyTypeOK, DsRecords, DsEvents, DsTasks

LEMMA PrivacyInitInv == PrivacyInit => PrivacyInv
<1> SUFFICES ASSUME PrivacyInit PROVE PrivacyInv
  OBVIOUS
<1>1. dsEvents = <<>> /\ Len(dsEvents) = 0 /\ dsEvents \in Seq(DsEvents)
  BY DEF PrivacyInit
<1>2. /\ dsRequest \in DsRecords /\ dsRequest.status = "none" /\ dsRequest.version = 1
      /\ receipts = 0 /\ \A c \in PrivacyCalls : dsTask[c] = NoPrivacyTask
      /\ dsTask \in [PrivacyCalls -> DsTasks \cup {NoPrivacyTask}]
  BY DEF PrivacyInit, DsRecords, DsStatuses
<1> QED BY <1>1, <1>2 DEF PrivacyInv, PrivacyTyped, VersionCountsEvents, LockedRequestIsRead,
        AccessHasItsReceipt, DecisionsWereSeen

\* A call that begins, locks the request or ends without having changed it.
LEMMA DsTaskMoves ==
  ASSUME PrivacyInv, NEW c \in PrivacyCalls, NEW j \in DsTasks \cup {NoPrivacyTask},
         UNCHANGED <<dsRequest, dsEvents, receipts>>, dsTask' = [dsTask EXCEPT ![c] = j],
         j # NoPrivacyTask => dsRequest.status # "none" /\ j.expected \in 1..dsRequest.version,
         j # NoPrivacyTask /\ j.at # "started" =>
           /\ j.read = dsRequest /\ \A d \in PrivacyCalls \ {c} : ~HoldsRequest(d)
           /\ j.at = "read" => dsRequest.type = "access"
  PROVE  PrivacyInv'
<1>1. /\ dsTask'[c] = j /\ \A d \in PrivacyCalls \ {c} : dsTask'[d] = dsTask[d]
      /\ dsTask' \in [PrivacyCalls -> DsTasks \cup {NoPrivacyTask}]
  BY DEF PrivacyInv, PrivacyTyped
<1>2. PrivacyTyped' /\ VersionCountsEvents' /\ AccessHasItsReceipt' /\ DecisionsWereSeen'
  BY <1>1 DEF PrivacyInv, PrivacyTyped, VersionCountsEvents, AccessHasItsReceipt, DecisionsWereSeen
<1>3. LockedRequestIsRead'
  <2>1. \A d \in PrivacyCalls \ {c} : /\ HoldsRequest(d)' <=> HoldsRequest(d)
                                      /\ InTask(d, "read")' <=> InTask(d, "read")
    BY <1>1 DEF HoldsRequest, InTask
  <2>2. /\ HoldsRequest(c)' => j # NoPrivacyTask /\ j.at # "started"
        /\ InTask(c, "read")' => j # NoPrivacyTask /\ j.at = "read"
    BY <1>1 DEF HoldsRequest, InTask
  <2> QED BY <1>1, <2>1, <2>2 DEF PrivacyInv, LockedRequestIsRead
<1> QED BY <1>2, <1>3 DEF PrivacyInv

LEMMA CommitDsKeeps ==
  ASSUME PrivacyInv, NEW c \in PrivacyCalls, HoldsRequest(c), NEW goal \in DsStatuses \ {"none", "open"},
         CommitDs(c, goal), dsTask[c].expected = dsRequest.version, AccessHasItsReceipt', receipts' \in Nat
  PROVE  PrivacyInv'
<1> DEFINE n == Len(dsEvents)
           event == [to |-> goal, seen |-> dsTask[c].expected, version |-> dsTask[c].read.version + 1]
<1>1. /\ dsTask[c] # NoPrivacyTask /\ dsTask[c].read = dsRequest /\ dsRequest.status # "none"
      /\ dsRequest \in DsRecords /\ dsRequest.version = n /\ n \in Nat /\ dsEvents \in Seq(DsEvents)
      /\ \A d \in PrivacyCalls \ {c} : ~HoldsRequest(d)
      /\ \A d \in PrivacyCalls : dsTask[d] # NoPrivacyTask => dsTask[d].expected \in 1..n
  BY LenProperties DEF PrivacyInv, PrivacyTyped, LockedRequestIsRead, VersionCountsEvents, HoldsRequest,
     InTask
<1>2. event \in DsEvents /\ event.seen = n /\ event.version = n + 1
  BY <1>1 DEF DsEvents
<1>3. dsEvents' = Append(dsEvents, event)
  BY DEF CommitDs
<1> HIDE DEF event
<1>4. /\ dsEvents' \in Seq(DsEvents) /\ Len(dsEvents') = n + 1
      /\ \A i \in 1..n : dsEvents'[i] = dsEvents[i]
      /\ dsEvents'[n + 1] = event
  BY <1>1, <1>2, <1>3, AppendProperties
<1>5. dsRequest' \in DsRecords /\ dsRequest'.status = goal /\ dsRequest'.version = n + 1
  <2>1. PICK v \in Nat : v = n + 1
    BY <1>1
  <2>2. dsRequest' = [dsRequest EXCEPT !.status = goal, !.version = v]
    BY <1>1, <2>1 DEF CommitDs
  <2>3. goal \in DsStatuses
    BY <1>1
  <2> QED BY <1>1, <2>1, <2>2, <2>3 DEF DsRecords
<1>6. /\ dsTask' = [dsTask EXCEPT ![c] = NoPrivacyTask]
      /\ dsTask' \in [PrivacyCalls -> DsTasks \cup {NoPrivacyTask}] /\ dsTask'[c] = NoPrivacyTask
      /\ \A d \in PrivacyCalls \ {c} : dsTask'[d] = dsTask[d]
  BY DEF CommitDs, PrivacyInv, PrivacyTyped
<1>7. PrivacyTyped' /\ VersionCountsEvents'
  BY <1>4, <1>5, <1>6 DEF PrivacyTyped, VersionCountsEvents
<1>8. DecisionsWereSeen'
  BY <1>1, <1>2, <1>4 DEF PrivacyInv, DecisionsWereSeen
<1>9. LockedRequestIsRead'
  <2>1. \A d \in PrivacyCalls : ~HoldsRequest(d)'
    BY <1>1, <1>6 DEF HoldsRequest, InTask
  <2> QED BY <1>1, <1>5, <1>6, <2>1 DEF LockedRequestIsRead, HoldsRequest
<1> QED BY <1>7, <1>8, <1>9 DEF PrivacyInv

LEMMA PrivacyNextKeeps == PrivacyInv /\ [PrivacyNext]_privacyVars => PrivacyInv'
<1> SUFFICES ASSUME PrivacyInv, [PrivacyNext]_privacyVars PROVE PrivacyInv'
  OBVIOUS
<1>1. CASE UNCHANGED privacyVars
  BY <1>1 DEF privacyVars, PrivacyInv, PrivacyTyped, VersionCountsEvents, LockedRequestIsRead,
     HoldsRequest, InTask, AccessHasItsReceipt, DecisionsWereSeen
<1>2. /\ dsRequest \in DsRecords /\ dsRequest.version \in Nat /\ AccessHasItsReceipt /\ receipts \in Nat
      /\ \A c \in PrivacyCalls : dsTask[c] # NoPrivacyTask =>
           /\ dsTask[c] \in DsTasks /\ dsRequest.status # "none"
           /\ dsTask[c].expected \in 1..dsRequest.version
           /\ HoldsRequest(c) => /\ dsTask[c].read = dsRequest
                                 /\ \A d \in PrivacyCalls \ {c} : ~HoldsRequest(d)
           /\ InTask(c, "read") => dsRequest.type = "access"
  BY DEF PrivacyInv, PrivacyTyped, LockedRequestIsRead, DsRecords
<1>3. CASE CreateDsRequest
  <2> DEFINE event == [to |-> "open", seen |-> 0, version |-> 1]
  <2>1. /\ dsRequest' \in DsRecords /\ dsRequest'.status = "open" /\ dsRequest'.version = 1
        /\ dsRequest'.type = dsRequest.type /\ UNCHANGED <<receipts, dsTask>>
        /\ dsRequest.status = "none" /\ \A c \in PrivacyCalls : dsTask[c] = NoPrivacyTask
    BY <1>2, <1>3 DEF CreateDsRequest, DsRecords, DsStatuses, PrivacyInv, VersionCountsEvents
  <2>2. /\ dsEvents' \in Seq(DsEvents) /\ Len(dsEvents') = 1 /\ dsEvents'[1].seen = 0
        /\ dsEvents'[1].version = 1
    BY <1>3 DEF CreateDsRequest, DsEvents, DsStatuses
  <2>3. PrivacyTyped' /\ VersionCountsEvents' /\ DecisionsWereSeen'
    BY <2>1, <2>2 DEF PrivacyInv, PrivacyTyped, VersionCountsEvents, DecisionsWereSeen
  <2>4. LockedRequestIsRead' /\ AccessHasItsReceipt'
    BY <1>2, <2>1 DEF LockedRequestIsRead, AccessHasItsReceipt
  <2> QED BY <2>3, <2>4 DEF PrivacyInv
<1>4. ASSUME NEW c \in PrivacyCalls, NEW goal \in DsStatuses \ {"open"}, StartDsTask(c, goal)
      PROVE  PrivacyInv'
  <2> DEFINE j == [to |-> goal, expected |-> dsRequest.version, at |-> "started", read |-> dsRequest]
  <2>1. /\ dsTask' = [dsTask EXCEPT ![c] = j] /\ UNCHANGED <<dsRequest, dsEvents, receipts>>
        /\ dsRequest.status # "none"
    BY <1>4 DEF StartDsTask
  <2>2. j \in DsTasks /\ j.at = "started" /\ j.expected = dsRequest.version
    BY <1>2 DEF DsTasks
  <2>3. dsRequest.version \in 1..dsRequest.version
    BY <1>2 DEF PrivacyInv, VersionCountsEvents
  <2> HIDE DEF j
  <2> QED BY <1>2, <2>1, <2>2, <2>3, DsTaskMoves
<1>5. ASSUME NEW c \in PrivacyCalls, LockRequest(c) PROVE PrivacyInv'
  <2> DEFINE j == [dsTask[c] EXCEPT !.at = "locked", !.read = dsRequest]
  <2>1. /\ dsTask' = [dsTask EXCEPT ![c] = j] /\ UNCHANGED <<dsRequest, dsEvents, receipts>>
        /\ dsTask[c] # NoPrivacyTask /\ \A d \in PrivacyCalls \ {c} : ~HoldsRequest(d)
    BY <1>5 DEF LockRequest, InTask, RequestFree, HoldsRequest, PrivacyInv, PrivacyTyped
  <2>2. j \in DsTasks /\ j.at = "locked" /\ j.expected = dsTask[c].expected /\ j.read = dsRequest
    BY <1>2, <2>1 DEF DsTasks
  <2> HIDE DEF j
  <2> QED BY <1>2, <2>1, <2>2, DsTaskMoves
<1>6. ASSUME NEW c \in PrivacyCalls, BuildManifest(c) PROVE PrivacyInv'
  <2> DEFINE j == [dsTask[c] EXCEPT !.at = "read"]
  <2>1. /\ dsTask' = [dsTask EXCEPT ![c] = j] /\ UNCHANGED <<dsRequest, dsEvents, receipts>>
        /\ dsTask[c] # NoPrivacyTask /\ HoldsRequest(c) /\ dsTask[c].read.type = "access"
    BY <1>6 DEF BuildManifest, InTask, HoldsRequest
  <2>2. j \in DsTasks /\ j.at = "read" /\ j.expected = dsTask[c].expected /\ j.read = dsTask[c].read
    BY <1>2, <2>1 DEF DsTasks
  <2> HIDE DEF j
  <2> QED BY <1>2, <2>1, <2>2, DsTaskMoves
<1>7. ASSUME NEW c \in PrivacyCalls, GenerateExport(c) PROVE PrivacyInv'
  <2>1. /\ InTask(c, "read") /\ HoldsRequest(c) /\ dsRequest.status = "open" /\ dsRequest.version = 1
        /\ dsTask[c].expected = 1 /\ dsRequest.type = "access" /\ receipts = 0 /\ receipts' = 1
    BY <1>2, <1>7 DEF GenerateExport, HoldsRequest, InTask, AccessHasItsReceipt, PrivacyInv,
       VersionCountsEvents
  <2>2. dsRequest'.type = "access" /\ dsRequest'.status = "fulfilled"
    BY <1>2, <1>7, <2>1 DEF GenerateExport, CommitDs, DsRecords
  <2>3. AccessHasItsReceipt'
    BY <2>1, <2>2 DEF AccessHasItsReceipt
  <2> QED BY <1>7, <2>1, <2>3, CommitDsKeeps DEF GenerateExport, DsStatuses
<1>8. ASSUME NEW c \in PrivacyCalls, TransitionRequest(c) PROVE PrivacyInv'
  <2> DEFINE goal == dsTask[c].to
  <2>1. /\ InTask(c, "locked") /\ HoldsRequest(c) /\ dsTask[c].read = dsRequest
        /\ dsTask[c].expected = dsRequest.version /\ goal \in NextDsStatuses(dsRequest.status)
        /\ ~(dsRequest.type = "access" /\ goal = "fulfilled") /\ CommitDs(c, goal) /\ UNCHANGED receipts
    BY <1>2, <1>8 DEF TransitionRequest, HoldsRequest, InTask
  <2>2. goal \in DsStatuses \ {"none", "open"} /\ dsRequest.status \notin {"fulfilled", "denied"}
    BY <1>2, <2>1 DEF NextDsStatuses, DsStatuses, DsRecords, Closed
  <2>3. dsRequest'.type = dsRequest.type /\ dsRequest'.status = goal
    BY <1>2, <2>1 DEF CommitDs, DsRecords
  <2>4. AccessHasItsReceipt'
    BY <1>2, <2>1, <2>2, <2>3 DEF AccessHasItsReceipt
  <2> QED BY <1>2, <2>1, <2>2, <2>4, CommitDsKeeps
<1>9. ASSUME NEW c \in PrivacyCalls, DropDsTask(c) PROVE PrivacyInv'
  BY <1>9, DsTaskMoves DEF DropDsTask
<1> QED BY <1>1, <1>3, <1>4, <1>5, <1>6, <1>7, <1>8, <1>9 DEF PrivacyNext

-----------------------------------------------------------------------------
(* The support case of a partner and its dispute *)

TicketStatuses == {"none", "open", "in_review", "resolved"}
DisputeStatuses == {"open", "in_review", "upheld", "rejected"}
TicketValues == {"nothing"} \cup TicketStatuses \cup DisputeStatuses \cup Priorities
Tickets == [status : TicketStatuses, priority : Priorities, due : Priorities, answered : Nat]
TicketEvents == [message : BOOLEAN, to : TicketValues, began : Nat]
Errands == [kind : TicketKinds, to : TicketValues, at : {"started", "checked", "inserted", "locked"},
            began : Nat, seen : TicketValues]

TicketTyped ==
  /\ ticket \in Tickets /\ ticket.answered <= Len(ticketLog)
  /\ ticketLog \in Seq(TicketEvents) /\ dispute \in Seq(DisputeStatuses)
  /\ errand \in [TicketCalls -> Errands \cup {NoErrand}]

LogTells ==
  /\ \A i \in 1..Len(ticketLog) : ticketLog[i].began <= i - 1
  /\ ticket.status # "resolved" => \A i \in 1..Len(ticketLog) : ticketLog[i].to # "resolved"

HoldsRow(c, row) == errand[c] # NoErrand /\ errand[c].at = "locked" /\ RowOf(errand[c].kind) = row

\* What a request may rely on: the row it has locked, alone, is as it read it; a
\* message was admitted before any resolution; who opens a dispute saw one.
ErrandStands(c) == errand[c] # NoErrand =>
  LET kind == errand[c].kind
      at == errand[c].at
  IN /\ errand[c].to \in Wanted(kind) /\ errand[c].began <= Len(ticketLog)
     /\ kind # "open" => ticket.status # "none"
     /\ kind \in Messages /\ at \in {"inserted", "locked"} =>
          \A i \in 1..errand[c].began : ticketLog[i].to # "resolved"
     /\ kind = "dispute" /\ at = "checked" => ticket.status = "resolved"
     /\ at = "locked" => kind \in Messages \cup {"triage", "status", "decide"}
     /\ kind \in {"triage", "status"} /\ at = "locked" => errand[c].seen = ticket.status
     /\ kind = "decide" /\ at = "locked" =>
          dispute # <<>> /\ errand[c].seen = dispute[Len(dispute)]
     /\ at = "locked" => \A d \in TicketCalls \ {c} : ~HoldsRow(d, RowOf(kind))

TicketInv ==
  /\ TicketTyped
  /\ LogTells
  /\ \A c \in TicketCalls : ErrandStands(c)
  /\ OnlyLateMessages
  /\ DisputeTakesItsCourse

LEMMA TicketTypes == TicketInv => TicketTypeOK
<1> SUFFICES ASSUME TicketInv PROVE TicketTypeOK
  OBVIOUS
<1>1. /\ ticket \in Tickets /\ ticket.answered \in 0..Len(ticketLog) /\ dispute \in Seq(DisputeStatuses)
  BY LenProperties DEF TicketInv, TicketTyped, Tickets
<1>2. ASSUME NEW i \in 1..Len(ticketLog)
      PROVE  ticketLog[i].message \in BOOLEAN /\ ticketLog[i].began \in 0..(i - 1)
  <2>1. ticketLog[i] \in TicketEvents /\ ticketLog[i].began <= i - 1 /\ i \in Nat
    BY LenProperties DEF TicketInv, TicketTyped, LogTells
  <2> QED BY <2>1 DEF TicketEvents
<1>3. \A c \in TicketCalls : errand[c] # NoErrand =>
        errand[c] \in Errands /\ errand[c].to \in Wanted(errand[c].kind)
  BY DEF TicketInv, TicketTyped, ErrandStands
<1> QED BY <1>1, <1>2, <1>3 DEF TicketTypeOK, Tickets, TicketStatuses, DisputeStatuses, Errands

LEMMA TicketInitInv == TicketInit => TicketInv
<1> SUFFICES ASSUME TicketInit PROVE TicketInv
  OBVIOUS
<1>1. /\ ticketLog = <<>> /\ Len(ticketLog) = 0 /\ ticketLog \in Seq(TicketEvents)
      /\ dispute = <<>> /\ Len(dispute) = 0 /\ dispute \in Seq(DisputeStatuses)
  BY DEF TicketInit
<1>2. ticket \in Tickets /\ ticket.answered = 0 /\ \A c \in TicketCalls : errand[c] = NoErrand
  BY DEF TicketInit, Tickets, TicketStatuses, Priorities
<1>3. errand \in [TicketCalls -> Errands \cup {NoErrand}]
  BY DEF TicketInit
<1> QED BY <1>1, <1>2, <1>3 DEF TicketInv, TicketTyped, LogTells, ErrandStands, OnlyLateMessages,
        DisputeTakesItsCourse

LEMMA WantedValues == \A kind \in TicketKinds : \A goal \in Wanted(kind) : goal \in TicketValues
<1> SUFFICES ASSUME NEW kind \in TicketKinds, NEW goal \in Wanted(kind) PROVE goal \in TicketValues
  OBVIOUS
<1>1. CASE kind = "triage"
  BY <1>1 DEF Wanted, TicketValues
<1>2. CASE kind = "status"
  BY <1>2 DEF Wanted, TicketValues, TicketStatuses
<1>3. CASE kind = "decide"
  BY <1>3 DEF Wanted, TicketValues, DisputeStatuses
<1>4. CASE kind \notin {"triage", "status", "decide"}
  BY <1>4 DEF Wanted, TicketValues
<1> QED BY <1>1, <1>2, <1>3, <1>4

\* A request that moves on without having changed the case.
LEMMA ErrandMoves ==
  ASSUME TicketInv, NEW c \in TicketCalls, NEW j \in Errands \cup {NoErrand},
         UNCHANGED <<ticket, ticketLog, dispute>>, errand' = [errand EXCEPT ![c] = j], ErrandStands(c)'
  PROVE  TicketInv'
<1>1. /\ errand'[c] = j /\ \A d \in TicketCalls \ {c} : errand'[d] = errand[d]
      /\ errand' \in [TicketCalls -> Errands \cup {NoErrand}]
  BY DEF TicketInv, TicketTyped
<1>2. TicketTyped' /\ LogTells' /\ OnlyLateMessages' /\ DisputeTakesItsCourse'
  BY <1>1 DEF TicketInv, TicketTyped, LogTells, OnlyLateMessages, DisputeTakesItsCourse
<1>3. ASSUME NEW d \in TicketCalls \ {c} PROVE ErrandStands(d)'
  <2>1. errand[d] # NoErrand /\ errand[d].at = "locked" => ~HoldsRow(c, RowOf(errand[d].kind))'
    BY <1>1 DEF ErrandStands, HoldsRow
  <2>2. \A e \in TicketCalls \ {c}, row \in {"case", "dispute"} : HoldsRow(e, row)' <=> HoldsRow(e, row)
    BY <1>1 DEF HoldsRow
  <2>3. \A kind \in TicketKinds : RowOf(kind) \in {"case", "dispute"}
    BY DEF RowOf
  <2>4. ErrandStands(d) /\ (errand[d] # NoErrand => errand[d] \in Errands) /\ errand'[d] = errand[d]
    BY <1>1 DEF TicketInv, TicketTyped
  <2>5. errand[d] # NoErrand /\ errand[d].at = "locked" =>
          \A e \in TicketCalls \ {d} : ~HoldsRow(e, RowOf(errand[d].kind))'
    BY <2>1, <2>2, <2>3, <2>4 DEF ErrandStands, Errands
  <2> QED BY <2>4, <2>5 DEF ErrandStands
<1> QED BY <1>2, <1>3 DEF TicketInv

\* The others, when a request commits.
LEMMA OthersStand ==
  ASSUME TicketInv, NEW c \in TicketCalls, CommitErrand(c), ticketLog' \in Seq(TicketEvents),
         Len(ticketLog') >= Len(ticketLog),
         \A i \in 1..Len(ticketLog) : ticketLog'[i] = ticketLog[i],
         ticket'.status = ticket.status \/ HoldsRow(c, "case") \/ ticket.status = "none",
         ticket.status # "none" => ticket'.status # "none",
         ticket.status = "resolved" => ticket'.status = "resolved",
         dispute' = dispute \/ HoldsRow(c, "dispute") \/ dispute = <<>>
  PROVE  \A d \in TicketCalls : ErrandStands(d)'
<1>1. /\ errand'[c] = NoErrand /\ \A d \in TicketCalls \ {c} : errand'[d] = errand[d]
      /\ errand \in [TicketCalls -> Errands \cup {NoErrand}]
      /\ Len(ticketLog) \in Nat /\ Len(ticketLog') \in Nat
  BY LenProperties DEF TicketInv, TicketTyped, CommitErrand
<1> SUFFICES ASSUME NEW d \in TicketCalls, d # c, errand[d] # NoErrand PROVE ErrandStands(d)'
  BY <1>1 DEF ErrandStands
<1>2. errand[d] \in Errands /\ ErrandStands(d) /\ errand'[d] = errand[d]
  BY <1>1 DEF TicketInv
<1> DEFINE kind == errand[d].kind
           at == errand[d].at
<1>3. /\ kind \in {"triage", "status"} /\ at = "locked" => ticket'.status = ticket.status
      /\ kind = "decide" /\ at = "locked" => dispute' = dispute
  BY <1>2 DEF ErrandStands, RowOf
<1>4. kind \in Messages /\ at \in {"inserted", "locked"} =>
        \A i \in 1..errand[d].began : ticketLog'[i].to # "resolved"
  BY <1>1, <1>2 DEF ErrandStands, Errands
<1>5. at = "locked" => \A e \in TicketCalls \ {d} : ~HoldsRow(e, RowOf(kind))'
  BY <1>1, <1>2 DEF ErrandStands, HoldsRow
<1> QED BY <1>1, <1>2, <1>3, <1>4, <1>5 DEF ErrandStands, Errands

\* An event is written by who has not seen the resolution, or is a message that began before it.
LEMMA LogEventKeeps ==
  ASSUME TicketInv, NEW c \in TicketCalls, NEW goal \in TicketValues, errand[c] # NoErrand, LogEvent(c, goal),
         CommitErrand(c), UNCHANGED dispute, ticket' \in Tickets, ticket'.answered <= Len(ticketLog) + 1,
         ticket'.status = ticket.status \/ HoldsRow(c, "case") \/ ticket.status = "none",
         ticket.status # "none" => ticket'.status # "none",
         ticket.status = "resolved" => errand[c].kind \in Messages /\ errand[c].at = "locked",
         ticket.status = "resolved" \/ goal = "resolved" => ticket'.status = "resolved"
  PROVE  TicketInv'
<1> DEFINE n == Len(ticketLog)
           event == [message |-> errand[c].kind \in Messages, to |-> goal, began |-> errand[c].began]
<1>1. /\ errand[c] \in Errands /\ ErrandStands(c) /\ n \in Nat /\ ticketLog \in Seq(TicketEvents)
      /\ ticket \in Tickets /\ errand \in [TicketCalls -> Errands \cup {NoErrand}]
  BY LenProperties DEF TicketInv, TicketTyped
<1>2. event \in TicketEvents /\ errand[c].began <= n
  BY <1>1 DEF TicketEvents, Errands, ErrandStands
<1>3. ticketLog' = Append(ticketLog, event)
  BY DEF LogEvent
<1>4. event.began = errand[c].began /\ event.to = goal /\ event.message = (errand[c].kind \in Messages)
  OBVIOUS
<1> HIDE DEF event
<1>5. /\ ticketLog' \in Seq(TicketEvents) /\ Len(ticketLog') = n + 1
      /\ \A i \in 1..n : ticketLog'[i] = ticketLog[i]
      /\ ticketLog'[n + 1] = event
  BY <1>1, <1>2, <1>3, AppendProperties
<1>6. errand' \in [TicketCalls -> Errands \cup {NoErrand}]
  BY <1>1 DEF CommitErrand
<1>7. TicketTyped'
  BY <1>5, <1>6 DEF TicketInv, TicketTyped
<1>8. LogTells'
  <2>1. ticket'.status # "resolved" => ticket.status # "resolved" /\ goal # "resolved"
    OBVIOUS
  <2>2. ASSUME NEW i \in 1..n + 1
        PROVE  /\ ticketLog'[i].began <= i - 1
               /\ ticket'.status # "resolved" => ticketLog'[i].to # "resolved"
    <3>1. CASE i \in 1..n
      BY <1>5, <2>1, <3>1 DEF TicketInv, LogTells
    <3>2. CASE i = n + 1
      BY <1>1, <1>2, <1>4, <1>5, <2>1, <3>2
    <3> QED BY <1>1, <3>1, <3>2
  <2> QED BY <1>5, <2>2 DEF LogTells
<1>9. OnlyLateMessages'
  <2> SUFFICES ASSUME NEW i \in 1..n + 1, NEW j \in 1..n + 1, i < j, ticketLog'[i].to = "resolved"
               PROVE  ticketLog'[j].message /\ ticketLog'[j].began < i
    BY <1>5 DEF OnlyLateMessages
  <2>1. i \in 1..n /\ ticketLog[i].to = "resolved"
    BY <1>1, <1>5
  <2>2. CASE j \in 1..n
    BY <1>5, <2>1, <2>2 DEF TicketInv, OnlyLateMessages
  <2>3. CASE j = n + 1
    <3>1. errand[c].kind \in Messages /\ errand[c].at = "locked"
      BY <2>1 DEF TicketInv, LogTells
    <3>2. \A k \in 1..errand[c].began : ticketLog[k].to # "resolved"
      BY <1>1, <3>1 DEF ErrandStands
    <3>3. errand[c].began \in Nat /\ ~(i \in 1..errand[c].began)
      BY <1>1, <2>1, <3>2 DEF Errands
    <3>4. ticketLog'[j].message = TRUE /\ ticketLog'[j].began = errand[c].began
      BY <1>4, <1>5, <2>3, <3>1
    <3> QED BY <1>1, <2>1, <3>3, <3>4
  <2> QED BY <1>1, <2>2, <2>3
<1>10. DisputeTakesItsCourse'
  BY DEF TicketInv, DisputeTakesItsCourse
<1>11. \A d \in TicketCalls : ErrandStands(d)'
  BY <1>1, <1>5, OthersStand
<1> QED BY <1>7, <1>8, <1>9, <1>10, <1>11 DEF TicketInv

LEMMA CasesMove ==
  ASSUME TicketInv, NEW c \in TicketCalls,
         OpenTicket(c) \/ CommitCaseMessage(c) \/ Triage(c) \/ ChangeTicketStatus(c)
  PROVE  TicketInv'
<1> DEFINE n == Len(ticketLog)
<1>1. /\ errand[c] # NoErrand /\ errand[c] \in Errands /\ ErrandStands(c) /\ n \in Nat
      /\ ticket \in Tickets /\ ticket.answered \in 0..n /\ CommitErrand(c) /\ UNCHANGED dispute
  <2>1. errand[c] # NoErrand /\ CommitErrand(c) /\ UNCHANGED dispute
    BY DEF OpenTicket, CommitCaseMessage, Triage, ChangeTicketStatus, InErrand
  <2>2. ticket \in Tickets /\ ticket.answered <= n /\ n \in Nat
    BY LenProperties DEF TicketInv, TicketTyped
  <2> QED BY <2>1, <2>2 DEF TicketInv, TicketTyped, Tickets
<1>2. CASE OpenTicket(c)
  <2>1. ticket' = [ticket EXCEPT !.status = "open"] /\ ticket.status = "none" /\ LogEvent(c, "open")
    BY <1>2 DEF OpenTicket
  <2>2. ticket' \in Tickets /\ ticket'.status = "open" /\ ticket'.answered <= n + 1
    BY <1>1, <2>1 DEF Tickets, TicketStatuses
  <2>3. "open" \in TicketValues
    BY DEF TicketValues, TicketStatuses
  <2> QED BY <1>1, <2>1, <2>2, <2>3, LogEventKeeps
<1>3. Answered \in Nat /\ Answered <= n + 1
  BY <1>1 DEF Answered
<1>4. CASE CommitCaseMessage(c)
  <2>1. errand[c].kind \in Messages /\ errand[c].at = "locked" /\ LogEvent(c, "nothing")
    BY <1>4 DEF CommitCaseMessage, InErrand
  <2>4. ticket' = ticket \/ ticket' = [ticket EXCEPT !.answered = Answered]
    BY <1>4 DEF CommitCaseMessage
  <2>2. ticket' \in Tickets /\ ticket'.status = ticket.status /\ ticket'.answered <= n + 1
    BY <1>1, <1>3, <2>4 DEF Tickets
  <2>3. "nothing" \in TicketValues
    BY DEF TicketValues
  <2> QED BY <1>1, <2>1, <2>2, <2>3, LogEventKeeps
<1>5. CASE Triage(c)
  <2>1. /\ errand[c].kind = "triage" /\ errand[c].at = "locked" /\ LogEvent(c, errand[c].to)
        /\ errand[c].seen # "resolved" /\ errand[c].to \in Priorities /\ ticket.status = errand[c].seen
    BY <1>1, <1>5 DEF Triage, InErrand, Wanted, ErrandStands
  <2>2. ticket' = [ticket EXCEPT !.priority = errand[c].to,
                                 !.due = IF ticket.answered = 0 THEN errand[c].to ELSE @]
    BY <1>5 DEF Triage
  <2>3. ticket' \in Tickets /\ ticket'.status = ticket.status /\ ticket'.answered = ticket.answered
    BY <1>1, <2>1, <2>2 DEF Tickets
  <2>4. errand[c].to \in TicketValues /\ errand[c].to # "resolved"
    BY <2>1 DEF TicketValues, Priorities
  <2> QED BY <1>1, <2>1, <2>3, <2>4, LogEventKeeps
<1>6. CASE ChangeTicketStatus(c)
  <2>1. /\ errand[c].kind = "status" /\ errand[c].at = "locked" /\ LogEvent(c, errand[c].to)
        /\ errand[c].to \in {"in_review", "resolved"}
        /\ ticket.status = IF errand[c].to = "in_review" THEN "open" ELSE "in_review"
        /\ ticket' = [ticket EXCEPT !.status = errand[c].to, !.answered = Answered]
    BY <1>1, <1>6 DEF ChangeTicketStatus, InErrand, Wanted, ErrandStands
  <2>2. ticket' \in Tickets /\ ticket'.status = errand[c].to /\ ticket'.answered <= n + 1
    BY <1>1, <1>3, <2>1 DEF Tickets, TicketStatuses
  <2>3. errand[c].to \in TicketValues /\ HoldsRow(c, "case") /\ ticket.status # "resolved"
    BY <1>1, <2>1 DEF TicketValues, TicketStatuses, HoldsRow, RowOf
  <2> QED BY <1>1, <2>1, <2>2, <2>3, LogEventKeeps
<1> QED BY <1>2, <1>4, <1>5, <1>6

LEMMA DisputesMove ==
  ASSUME TicketInv, NEW c \in TicketCalls, CreateDispute(c) \/ ChangeDisputeStatus(c)
  PROVE  TicketInv'
<1> DEFINE n == Len(dispute)
<1>1. /\ errand[c] # NoErrand /\ errand[c] \in Errands /\ ErrandStands(c) /\ n \in Nat
      /\ CommitErrand(c) /\ UNCHANGED <<ticket, ticketLog>> /\ dispute \in Seq(DisputeStatuses)
      /\ ticketLog \in Seq(TicketEvents) /\ Len(ticketLog) \in Nat
  BY LenProperties DEF CreateDispute, ChangeDisputeStatus, InErrand, TicketInv, TicketTyped
<1>2. errand' \in [TicketCalls -> Errands \cup {NoErrand}]
  BY <1>1 DEF CommitErrand, TicketInv, TicketTyped
<1>3. /\ dispute' \in Seq(DisputeStatuses) /\ DisputeTakesItsCourse'
      /\ dispute = <<>> \/ HoldsRow(c, "dispute")
  <2>1. CASE CreateDispute(c)
    <3>1. ticket.status = "resolved" /\ dispute' = <<"open">> /\ dispute = <<>>
      BY <1>1, <2>1 DEF CreateDispute, InErrand, ErrandStands
    <3>2. Len(dispute') = 1 /\ dispute'[1] = "open" /\ dispute' \in Seq(DisputeStatuses)
      BY <3>1 DEF DisputeStatuses
    <3> QED BY <1>1, <3>1, <3>2 DEF DisputeTakesItsCourse
  <2>2. CASE ChangeDisputeStatus(c)
    <3>1. /\ errand[c].kind = "decide" /\ errand[c].at = "locked" /\ dispute # <<>>
          /\ errand[c].to \in {"in_review", "upheld", "rejected"}
          /\ dispute[n] = IF errand[c].to = "in_review" THEN "open" ELSE "in_review"
          /\ dispute' = Append(dispute, errand[c].to)
      BY <1>1, <2>2 DEF ChangeDisputeStatus, InErrand, Wanted, ErrandStands
    <3>2. /\ errand[c].to \in DisputeStatuses /\ HoldsRow(c, "dispute")
      BY <1>1, <3>1 DEF DisputeStatuses, HoldsRow, RowOf
    <3>3. /\ dispute' \in Seq(DisputeStatuses) /\ Len(dispute') = n + 1
          /\ \A i \in 1..n : dispute'[i] = dispute[i]
          /\ dispute'[n + 1] = errand[c].to
      BY <1>1, <3>1, <3>2, AppendProperties
    <3>4. /\ n \in 1..3 /\ ticket.status = "resolved"
          /\ 1 \in 1..n => dispute[1] = "open"
          /\ 2 \in 1..n => dispute[2] = "in_review"
          /\ 3 \in 1..n => dispute[3] \in {"upheld", "rejected"}
      <4>1. n <= 3 /\ n # 0 /\ ticket.status = "resolved"
        BY <1>1, <3>1, EmptySeq DEF TicketInv, DisputeTakesItsCourse
      <4>2. \A i \in 1..n : dispute[i] \in <<{"open"}, {"in_review"}, {"upheld", "rejected"}>>[i]
        BY DEF TicketInv, DisputeTakesItsCourse
      <4>3. <<{"open"}, {"in_review"}, {"upheld", "rejected"}>>[1] = {"open"}
        OBVIOUS
      <4>4. <<{"open"}, {"in_review"}, {"upheld", "rejected"}>>[2] = {"in_review"}
        OBVIOUS
      <4>5. <<{"open"}, {"in_review"}, {"upheld", "rejected"}>>[3] = {"upheld", "rejected"}
        OBVIOUS
      <4>8. n \in 1..3
        <5>1. n \in Nat /\ n <= 3 /\ n # 0
          BY <1>1, <4>1
        <5> HIDE DEF n
        <5> QED BY <5>1
      <4>6. 1 \in 1..n => dispute[1] \in {"open"}
        BY <4>2, <4>3
      <4>7. 2 \in 1..n => dispute[2] \in {"in_review"}
        BY <4>2, <4>4
      <4>9. 3 \in 1..n => dispute[3] \in {"upheld", "rejected"}
        BY <4>2, <4>5
      <4> HIDE DEF n
      <4> QED BY <4>1, <4>6, <4>7, <4>8, <4>9
    <3>5. \/ n = 1 /\ errand[c].to = "in_review"
          \/ n = 2 /\ errand[c].to \in {"upheld", "rejected"}
      <4>1. n = 1 \/ n = 2 \/ n = 3
        BY <1>1, <3>4
      <4>2. CASE n = 1
        <5>1. dispute[n] = "open"
          BY <3>4, <4>2
        <5> QED BY <3>1, <4>2, <5>1
      <4>3. CASE n = 2
        <5>1. dispute[n] = "in_review"
          BY <3>4, <4>3
        <5> QED BY <3>1, <4>3, <5>1
      <4>4. CASE n = 3
        <5>1. dispute[n] \in {"upheld", "rejected"}
          BY <3>4, <4>4
        <5> QED BY <3>1, <5>1
      <4> QED BY <4>1, <4>2, <4>3, <4>4
    <3>6. \A i \in 1..n + 1 :
            dispute'[i] \in <<{"open"}, {"in_review"}, {"upheld", "rejected"}>>[i]
      <4> SUFFICES ASSUME NEW i \in 1..n + 1
                   PROVE  dispute'[i] \in <<{"open"}, {"in_review"}, {"upheld", "rejected"}>>[i]
        OBVIOUS
      <4>1. CASE i \in 1..n
        BY <3>3, <4>1 DEF TicketInv, DisputeTakesItsCourse
      <4>2. CASE n = 1 /\ i = 2
        BY <3>3, <3>5, <4>2, <<{"open"}, {"in_review"}, {"upheld", "rejected"}>>[2] = {"in_review"}
      <4>3. CASE n = 2 /\ i = 3
        BY <3>3, <3>5, <4>3,
           <<{"open"}, {"in_review"}, {"upheld", "rejected"}>>[3] = {"upheld", "rejected"}
      <4>4. i \in 1..n \/ i = n + 1
        BY <1>1
      <4>5. ~(i \in 1..n) => (n = 1 /\ i = 2) \/ (n = 2 /\ i = 3)
        <5>1. n = 1 \/ n = 2
          BY <3>5
        <5>2. i \in 1..n \/ i = n + 1
          BY <4>4
        <5> HIDE DEF n
        <5> QED BY <5>1, <5>2
      <4> QED BY <4>1, <4>2, <4>3, <4>5
    <3> QED BY <1>1, <3>2, <3>3, <3>4, <3>5, <3>6 DEF DisputeTakesItsCourse
  <2> QED BY <2>1, <2>2
<1>4. \A d \in TicketCalls : ErrandStands(d)'
  BY <1>1, <1>3, OthersStand
<1>5. TicketTyped' /\ LogTells' /\ OnlyLateMessages'
  BY <1>1, <1>2, <1>3 DEF TicketInv, TicketTyped, LogTells, OnlyLateMessages
<1> QED BY <1>3, <1>4, <1>5 DEF TicketInv

LEMMA TicketNextKeeps == TicketInv /\ [TicketNext]_ticketVars => TicketInv'
<1> SUFFICES ASSUME TicketInv, [TicketNext]_ticketVars PROVE TicketInv'
  OBVIOUS
<1>1. CASE UNCHANGED ticketVars
  BY <1>1 DEF ticketVars, TicketInv, TicketTyped, LogTells, ErrandStands, HoldsRow, OnlyLateMessages,
     DisputeTakesItsCourse
<1>2. \A c \in TicketCalls : errand[c] # NoErrand => errand[c] \in Errands /\ ErrandStands(c)
  BY DEF TicketInv, TicketTyped
<1>3. errand \in [TicketCalls -> Errands \cup {NoErrand}] /\ Len(ticketLog) \in Nat
  BY LenProperties DEF TicketInv, TicketTyped
<1>4. ASSUME NEW c \in TicketCalls, NEW kind \in TicketKinds, StartErrand(c, kind) PROVE TicketInv'
  <2>1. PICK goal \in Wanted(kind) : errand' = [errand EXCEPT ![c] =
          [kind |-> kind, to |-> goal, at |-> "started", began |-> 0, seen |-> "nothing"]]
    BY <1>4 DEF StartErrand
  <2> DEFINE j == [kind |-> kind, to |-> goal, at |-> "started", began |-> 0, seen |-> "nothing"]
  <2>2. goal \in TicketValues
    BY <2>1, WantedValues
  <2>3. j \in Errands /\ j.at = "started" /\ j.kind = kind /\ j.to = goal /\ j.began = 0
    BY <2>2 DEF Errands, TicketValues
  <2>4. UNCHANGED <<ticket, ticketLog, dispute>> /\ (kind # "open" => ticket.status # "none")
    BY <1>4 DEF StartErrand
  <2> HIDE DEF j
  <2>5. errand'[c] = j
    BY <1>3, <2>1 DEF j
  <2>6. ErrandStands(c)'
    BY <1>3, <2>3, <2>4, <2>5 DEF ErrandStands
  <2> QED BY <2>1, <2>3, <2>4, <2>6, ErrandMoves DEF j
<1>5. ASSUME NEW c \in TicketCalls, CheckTicket(c) PROVE TicketInv'
  <2> DEFINE j == [errand[c] EXCEPT !.at = "checked"]
  <2>1. /\ errand[c] # NoErrand /\ errand' = [errand EXCEPT ![c] = j]
        /\ UNCHANGED <<ticket, ticketLog, dispute>>
    BY <1>5 DEF CheckTicket, InErrand, Advance
  <2>5. errand[c].kind = "dispute" => ticket.status = "resolved"
    BY <1>5 DEF CheckTicket, InErrand, Messages
  <2>2. /\ j \in Errands /\ j.at = "checked" /\ j.kind = errand[c].kind /\ j.to = errand[c].to
        /\ j.began = errand[c].began
    BY <1>2, <2>1 DEF Errands
  <2>3. errand'[c] = j
    BY <1>3, <2>1
  <2> HIDE DEF j
  <2>4. ErrandStands(c)'
    BY <1>2, <2>1, <2>2, <2>3, <2>5 DEF ErrandStands
  <2> QED BY <2>1, <2>2, <2>4, ErrandMoves
<1>6. ASSUME NEW c \in TicketCalls, InsertMessage(c) PROVE TicketInv'
  <2> DEFINE j == [errand[c] EXCEPT !.at = "inserted", !.began = Len(ticketLog)]
  <2>1. /\ errand[c] # NoErrand /\ errand' = [errand EXCEPT ![c] = j] /\ errand[c].kind \in Messages
        /\ UNCHANGED <<ticket, ticketLog, dispute>> /\ ticket.status # "resolved"
    BY <1>6 DEF InsertMessage, InErrand
  <2>2. /\ j \in Errands /\ j.at = "inserted" /\ j.kind = errand[c].kind /\ j.to = errand[c].to
        /\ j.began = Len(ticketLog)
    BY <1>2, <1>3, <2>1 DEF Errands
  <2>3. errand'[c] = j
    BY <1>3, <2>1
  <2> HIDE DEF j
  <2>5. /\ j.to \in Wanted(j.kind) /\ ticket.status # "none" /\ j.kind \notin {"open", "decide", "dispute"}
    BY <1>2, <2>1, <2>2 DEF ErrandStands, Messages
  <2>6. \A i \in 1..j.began : ticketLog[i].to # "resolved"
    BY <2>1, <2>2 DEF TicketInv, LogTells
  <2>4. ErrandStands(c)'
    BY <1>3, <2>1, <2>2, <2>3, <2>5, <2>6 DEF ErrandStands
  <2> QED BY <2>1, <2>2, <2>4, ErrandMoves
\* A row that is free has no holder.
<1>7. ASSUME NEW c \in TicketCalls, TicketFree(c), NEW d \in TicketCalls \ {c}
      PROVE  ~HoldsRow(d, RowOf(errand[c].kind))
  BY <1>2, <1>7 DEF TicketFree, InErrand, HoldsRow, Errands
<1>8. ASSUME NEW c \in TicketCalls, ShareRow(c) PROVE TicketInv'
  <2> DEFINE j == [errand[c] EXCEPT !.at = "locked"]
  <2>1. /\ errand[c] # NoErrand /\ errand' = [errand EXCEPT ![c] = j] /\ errand[c].kind \in Messages
        /\ UNCHANGED <<ticket, ticketLog, dispute>> /\ TicketFree(c) /\ errand[c].at = "inserted"
    BY <1>8 DEF ShareRow, InErrand, Advance
  <2>2. /\ j \in Errands /\ j.at = "locked" /\ j.kind = errand[c].kind /\ j.to = errand[c].to
        /\ j.began = errand[c].began
    BY <1>2, <2>1 DEF Errands
  <2>3. errand'[c] = j /\ \A d \in TicketCalls \ {c} : errand'[d] = errand[d]
    BY <1>3, <2>1
  <2> HIDE DEF j
  <2>4. \A d \in TicketCalls \ {c} : ~HoldsRow(d, RowOf(errand[c].kind))'
    BY <1>7, <2>1, <2>2, <2>3 DEF HoldsRow
  <2>6. /\ j.to \in Wanted(j.kind) /\ ticket.status # "none" /\ j.began <= Len(ticketLog)
        /\ j.kind \notin {"open", "decide", "dispute", "triage", "status"}
        /\ \A i \in 1..j.began : ticketLog[i].to # "resolved"
    BY <1>2, <2>1, <2>2 DEF ErrandStands, Messages
  <2>5. ErrandStands(c)'
    BY <2>1, <2>2, <2>3, <2>4, <2>6 DEF ErrandStands
  <2> QED BY <2>1, <2>2, <2>5, ErrandMoves
<1>9. ASSUME NEW c \in TicketCalls, LockTicket(c) PROVE TicketInv'
  <2> DEFINE seen == IF errand[c].kind = "decide" THEN dispute[Len(dispute)] ELSE ticket.status
             j == [errand[c] EXCEPT !.at = "locked", !.seen = seen]
  <2>1. /\ errand[c] # NoErrand /\ errand' = [errand EXCEPT ![c] = j]
        /\ errand[c].kind \in {"triage", "status", "decide"}
        /\ UNCHANGED <<ticket, ticketLog, dispute>> /\ TicketFree(c)
        /\ errand[c].kind = "decide" => dispute # <<>>
    BY <1>9 DEF LockTicket, InErrand
  <2>2. seen \in TicketValues
    <3>1. ticket.status \in TicketStatuses /\ dispute \in Seq(DisputeStatuses)
      BY DEF TicketInv, TicketTyped, Tickets
    <3>2. dispute # <<>> => dispute[Len(dispute)] \in DisputeStatuses
      BY <3>1, EmptySeq, LenProperties, ElementOfSeq
    <3> QED BY <2>1, <3>1, <3>2 DEF TicketValues
  <2>3. seen = IF errand[c].kind = "decide" THEN dispute[Len(dispute)] ELSE ticket.status
    OBVIOUS
  <2> HIDE DEF seen
  <2>4. /\ j \in Errands /\ j.at = "locked" /\ j.kind = errand[c].kind /\ j.to = errand[c].to
        /\ j.began = errand[c].began /\ j.seen = seen
    BY <1>2, <2>1, <2>2 DEF Errands
  <2>5. errand'[c] = j /\ \A d \in TicketCalls \ {c} : errand'[d] = errand[d]
    BY <1>3, <2>1
  <2> HIDE DEF j
  <2>6. \A d \in TicketCalls \ {c} : ~HoldsRow(d, RowOf(errand[c].kind))'
    BY <1>7, <2>1, <2>4, <2>5 DEF HoldsRow
  <2>8. /\ j.to \in Wanted(j.kind) /\ ticket.status # "none" /\ j.began <= Len(ticketLog)
        /\ j.kind \notin Messages \cup {"dispute"}
    BY <1>2, <2>1, <2>4 DEF ErrandStands, Messages
  <2>7. ErrandStands(c)'
    BY <2>1, <2>3, <2>4, <2>5, <2>6, <2>8 DEF ErrandStands
  <2> QED BY <2>1, <2>4, <2>7, ErrandMoves
<1>10. ASSUME NEW c \in TicketCalls, RefuseErrand(c) PROVE TicketInv'
  <2>1. errand'[c] = NoErrand
    BY <1>3, <1>10 DEF RefuseErrand, CommitErrand
  <2>2. ErrandStands(c)'
    BY <2>1 DEF ErrandStands
  <2> QED BY <1>10, <2>2, ErrandMoves DEF RefuseErrand, CommitErrand
<1> QED BY <1>1, <1>4, <1>5, <1>6, <1>8, <1>9, <1>10, CasesMove, DisputesMove DEF TicketNext

LEMMA AnsweredStep ==
  ASSUME TicketInv, TicketNext
  PROVE  /\ ticket.answered # 0 => ticket'.answered = ticket.answered /\ ticket'.due = ticket.due
         /\ ticket.priority = "high" => ticket'.priority = "high"
<1>1. ticket \in Tickets
  BY DEF TicketInv, TicketTyped
<1>2. PICK c \in TicketCalls :
        \/ UNCHANGED ticket
        \/ OpenTicket(c) \/ CommitCaseMessage(c) \/ Triage(c) \/ ChangeTicketStatus(c)
  BY DEF TicketNext, StartErrand, CheckTicket, InsertMessage, ShareRow, LockTicket, CreateDispute,
     ChangeDisputeStatus, RefuseErrand
<1>3. CASE UNCHANGED ticket
  BY <1>3
<1>4. CASE OpenTicket(c)
  BY <1>1, <1>4 DEF OpenTicket, Tickets
<1>5. CASE CommitCaseMessage(c)
  BY <1>1, <1>5 DEF CommitCaseMessage, Tickets, Answered
<1>6. CASE Triage(c)
  <2>1. errand[c].to \in {"normal", "high"}
    BY <1>6 DEF Triage, InErrand, TicketInv, ErrandStands, Wanted, Priorities
  <2> QED BY <1>1, <1>6, <2>1 DEF Triage, Tickets
<1>7. CASE ChangeTicketStatus(c)
  BY <1>1, <1>7 DEF ChangeTicketStatus, Tickets, Answered
<1> QED BY <1>2, <1>3, <1>4, <1>5, <1>6, <1>7

-----------------------------------------------------------------------------
(* The referrals of the partner networks *)

Reviewed == {"none", "cleared", "confirmed"}
Captures == [of : Contacts, public : BOOLEAN, before : BOOLEAN, step : CaptureSteps]
Triages == [of : Contacts, to : {"in_review", "cleared", "confirmed"} \cup Final, review : Reviewed,
            step : {"wait", "locked"}]

\* Public captures under way on the link of a partner.
InFlight(p) == {c \in ReferralCalls :
  visit[c] # NoVisit /\ visit[c].step \in CaptureSteps /\ visit[c].public /\ visit[c].of[1] = p}

\* Who counted the captures of a link has its place in the limit.
PlacesAreCounted == \A k \in Contacts :
  Cardinality(Captured(k)) + Cardinality(InFlight(k[1])) <= CaptureLimit + Cardinality(ReferralCalls) - 1

\* An inserted referral has one holder, and its risk is not below what its capture
\* saw; the review a triage joined, if any, is the one of its referral.
VisitStands(c) == visit[c] # NoVisit =>
  LET k == visit[c].of
      step == visit[c].step
  IN /\ Holds(c, k) => ~HeldByOther(c, k)
     /\ step \in RiskLevels => referral[k] = NoReferral /\ (visit[c].before => step = "flagged")
     /\ step = "insert" /\ visit[c].before => InOtherNetwork(k)
     /\ step \in {"wait", "locked"} =>
          /\ referral[k] # NoReferral
          /\ visit[c].review # "none" => referral[k].review = visit[c].review

ReferralsInv ==
  /\ ReferralsTypeOK /\ IsFiniteSet(recent)
  /\ \A c \in ReferralCalls : VisitStands(c)
  /\ RisksAreReviewed
  /\ PlacesAreCounted

LEMMA VisitKinds ==
  /\ Visits = Captures \cup Triages
  /\ \A v \in Captures : v \in Visits /\ v.step \in CaptureSteps /\ v # NoVisit
  /\ \A v \in Triages : v \in Visits /\ v.step \in {"wait", "locked"} /\ v # NoVisit
  /\ \A v \in Visits : v.of \in Contacts /\ v # NoVisit
  /\ \A v \in Visits : v.step \in CaptureSteps => v \in Captures
  /\ \A v \in Visits : v.step \in {"wait", "locked"} => v \in Triages
  /\ CaptureSteps = {"insert", "low", "flagged"}
<1>1. Visits = Captures \cup Triages
  BY DEF Visits, Captures, Triages, Reviewed
<1>2. CaptureSteps = {"insert", "low", "flagged"}
  BY DEF CaptureSteps, RiskLevels
<1>3. \A v \in Captures : v.step \in CaptureSteps /\ v.of \in Contacts
  BY DEF Captures
<1>4. \A v \in Triages : v.step \in {"wait", "locked"} /\ v.of \in Contacts
  BY DEF Triages
<1> QED BY <1>1, <1>2, <1>3, <1>4, NoReferralAssumption

LEMMA FlightsAreFinite ==
  \A p : IsFiniteSet(InFlight(p)) /\ Cardinality(InFlight(p)) \in Nat
         /\ Cardinality(InFlight(p)) <= Cardinality(ReferralCalls)
<1> TAKE p
<1>1. InFlight(p) \subseteq ReferralCalls
  BY DEF InFlight
<1> QED BY <1>1, FS_Subset, FS_CardinalityType, ReferralAssumption

LEMMA CapturesAreFinite ==
  ASSUME IsFiniteSet(recent)
  PROVE  \A k : IsFiniteSet(Captured(k)) /\ Cardinality(Captured(k)) \in Nat
<1> TAKE k
<1>1. Captured(k) \subseteq recent
  BY DEF Captured
<1> QED BY <1>1, FS_Subset, FS_CardinalityType

LEMMA ReferralsInitInv == ReferralsInit => ReferralsInv
<1> SUFFICES ASSUME ReferralsInit PROVE ReferralsInv
  OBVIOUS
<1>1. ReferralsTypeOK /\ \A c \in ReferralCalls : visit[c] = NoVisit
  BY DEF ReferralsInit, ReferralsTypeOK
<1>2. recent = {} /\ IsFiniteSet(recent)
  BY FS_EmptySet DEF ReferralsInit
<1>3. RisksAreReviewed /\ \A c \in ReferralCalls : VisitStands(c)
  BY <1>1 DEF ReferralsInit, RisksAreReviewed, DuplicatesAreFlagged, ApprovedWasCleared, Committed,
     VisitStands
<1>4. PlacesAreCounted
  <2> SUFFICES ASSUME NEW k \in Contacts
               PROVE  Cardinality(Captured(k)) + Cardinality(InFlight(k[1]))
                        <= CaptureLimit + Cardinality(ReferralCalls) - 1
    BY DEF PlacesAreCounted
  <2>1. Captured(k) = {} /\ InFlight(k[1]) = {}
    BY <1>1, <1>2 DEF Captured, InFlight
  <2>2. Cardinality(Captured(k)) = 0 /\ Cardinality(InFlight(k[1])) = 0
    BY <2>1, FS_EmptySet
  <2>3. Cardinality(ReferralCalls) \in Nat
    BY FS_CardinalityType, ReferralAssumption
  <2> QED BY <2>2, <2>3, ReferralAssumption
<1> QED BY <1>1, <1>2, <1>3, <1>4 DEF ReferralsInv

LEMMA ReferralsProperties == ReferralsInv => CapturesNearLimit
<1> SUFFICES ASSUME ReferralsInv, NEW k \in Contacts
             PROVE  Cardinality(Captured(k)) <= CaptureLimit + Cardinality(ReferralCalls) - 1
  BY DEF CapturesNearLimit
<1>1. /\ Cardinality(Captured(k)) \in Nat /\ Cardinality(InFlight(k[1])) \in Nat
      /\ Cardinality(ReferralCalls) \in Nat
  BY FlightsAreFinite, CapturesAreFinite, FS_CardinalityType, ReferralAssumption DEF ReferralsInv
<1> QED BY <1>1, ReferralAssumption DEF ReferralsInv, PlacesAreCounted

\* A request that moves on without having committed: another that has inserted the
\* same referral is waited for, and no place in a limit is taken.
LEMMA VisitMoves ==
  ASSUME ReferralsInv, NEW c \in ReferralCalls, NEW j \in Visits \cup {NoVisit},
         UNCHANGED <<referral, recent, known>>, visit' = [visit EXCEPT ![c] = j], VisitStands(c)',
         j # NoVisit /\ j.step \in RiskLevels \cup {"locked"} => ~HeldByOther(c, j.of),
         PlacesAreCounted'
  PROVE  ReferralsInv'
<1>1. /\ visit'[c] = j /\ \A d \in ReferralCalls \ {c} : visit'[d] = visit[d]
      /\ visit' \in [ReferralCalls -> Visits \cup {NoVisit}]
  BY DEF ReferralsInv, ReferralsTypeOK
<1>2. ReferralsTypeOK' /\ IsFiniteSet(recent') /\ RisksAreReviewed'
  BY <1>1 DEF ReferralsInv, ReferralsTypeOK, RisksAreReviewed, DuplicatesAreFlagged, ApprovedWasCleared,
     Committed
<1>3. ASSUME NEW d \in ReferralCalls \ {c} PROVE VisitStands(d)'
  <2>1. /\ VisitStands(d) /\ visit'[d] = visit[d]
        /\ \A k : Holds(d, k)' <=> Holds(d, k)
        /\ \A k : InOtherNetwork(k)' <=> InOtherNetwork(k)
    BY <1>1 DEF ReferralsInv, Holds, InOtherNetwork, Committed
  <2>2. ASSUME visit[d] # NoVisit, Holds(d, visit[d].of) PROVE ~HeldByOther(d, visit[d].of)'
    <3>1. ~HeldByOther(d, visit[d].of)
      BY <2>1, <2>2 DEF VisitStands
    <3>2. ~Holds(c, visit[d].of)'
      BY <1>1, <2>2 DEF Holds, HeldByOther
    <3> QED BY <1>1, <2>1, <3>1, <3>2 DEF HeldByOther, Holds
  <2> QED BY <2>1, <2>2 DEF VisitStands
<1> QED BY <1>2, <1>3 DEF ReferralsInv

\* No place in a limit is taken by a step that starts no public capture.
LEMMA FlightsEnd ==
  ASSUME ReferralsInv, NEW c \in ReferralCalls, NEW j \in Visits \cup {NoVisit}, UNCHANGED recent,
         visit' = [visit EXCEPT ![c] = j],
         j # NoVisit /\ j.step \in CaptureSteps =>
           visit[c] # NoVisit /\ visit[c].step \in CaptureSteps
           /\ visit[c].public = j.public /\ visit[c].of = j.of
  PROVE  PlacesAreCounted'
<1>1. /\ visit'[c] = j /\ \A d \in ReferralCalls \ {c} : visit'[d] = visit[d]
  BY DEF ReferralsInv, ReferralsTypeOK
<1> SUFFICES ASSUME NEW k \in Contacts
             PROVE  (Cardinality(Captured(k)) + Cardinality(InFlight(k[1]))
                        <= CaptureLimit + Cardinality(ReferralCalls) - 1)'
  BY DEF PlacesAreCounted
<1>2. InFlight(k[1])' \subseteq InFlight(k[1]) /\ Captured(k)' = Captured(k)
  BY <1>1 DEF InFlight, Captured
<1>3. Cardinality(InFlight(k[1])') <= Cardinality(InFlight(k[1])) /\ Cardinality(InFlight(k[1])') \in Nat
  BY <1>2, FlightsAreFinite, FS_Subset, FS_CardinalityType
<1>4. /\ Cardinality(InFlight(k[1])) \in Nat /\ Cardinality(Captured(k)) \in Nat
      /\ Cardinality(ReferralCalls) \in Nat
  BY FlightsAreFinite, CapturesAreFinite, FS_CardinalityType, ReferralAssumption DEF ReferralsInv
<1> QED BY <1>2, <1>3, <1>4, ReferralAssumption DEF ReferralsInv, PlacesAreCounted

LEMMA CaptureMoves ==
  ASSUME ReferralsInv, NEW c \in ReferralCalls, NEW k \in Contacts, NEW public \in BOOLEAN,
         StartCapture(c, k, public)
  PROVE  ReferralsInv'
<1> DEFINE j == [of |-> k, public |-> public, before |-> InOtherNetwork(k), step |-> "insert"]
<1>1. /\ visit' = [visit EXCEPT ![c] = j] /\ UNCHANGED <<referral, recent, known>> /\ visit[c] = NoVisit
      /\ public => Cardinality(Captured(k)) < CaptureLimit
  BY DEF StartCapture, MayCapture
<1>2. j \in Captures /\ j.step = "insert" /\ j.of = k /\ j.public = public /\ j.before = InOtherNetwork(k)
  BY DEF Captures, CaptureSteps, InOtherNetwork
<1>3. j \in Visits /\ j # NoVisit
  BY <1>2, VisitKinds
<1> HIDE DEF j
<1>4. /\ visit'[c] = j /\ \A d \in ReferralCalls \ {c} : visit'[d] = visit[d]
  BY <1>1 DEF ReferralsInv, ReferralsTypeOK
<1>5. InOtherNetwork(k)' <=> InOtherNetwork(k)
  BY <1>1 DEF InOtherNetwork, Committed
<1>6. VisitStands(c)'
  BY <1>2, <1>4, <1>5 DEF VisitStands, RiskLevels, Holds
<1>7. PlacesAreCounted'
  <2> SUFFICES ASSUME NEW l \in Contacts
               PROVE  (Cardinality(Captured(l)) + Cardinality(InFlight(l[1]))
                          <= CaptureLimit + Cardinality(ReferralCalls) - 1)'
    BY DEF PlacesAreCounted
  <2>1. Captured(l)' = Captured(l)
    BY <1>1 DEF Captured
  <2>2. /\ Cardinality(InFlight(l[1])) \in Nat /\ Cardinality(Captured(l)) \in Nat
        /\ Cardinality(ReferralCalls) \in Nat /\ CaptureLimit \in Nat
    BY FlightsAreFinite, CapturesAreFinite, FS_CardinalityType, ReferralAssumption DEF ReferralsInv
  <2>3. InFlight(l[1])' \subseteq ReferralCalls
    BY DEF InFlight
  <2>4. Cardinality(InFlight(l[1])') \in Nat /\ Cardinality(InFlight(l[1])') <= Cardinality(ReferralCalls)
    BY <2>3, FS_Subset, FS_CardinalityType, ReferralAssumption
  <2>5. CASE public /\ k[1] = l[1]
    <3>1. Captured(l) = Captured(k)
      BY <2>5 DEF Captured
    <3> QED BY <1>1, <2>1, <2>2, <2>4, <2>5, <3>1
  <2>6. CASE ~(public /\ k[1] = l[1])
    <3>1. InFlight(l[1])' = InFlight(l[1])
      BY <1>1, <1>2, <1>4, <2>6 DEF InFlight
    <3> QED BY <2>1, <3>1 DEF ReferralsInv, PlacesAreCounted
  <2> QED BY <2>5, <2>6
<1> QED BY <1>1, <1>2, <1>3, <1>6, <1>7, VisitMoves DEF RiskLevels

LEMMA CommitCaptureKeeps ==
  ASSUME ReferralsInv, NEW c \in ReferralCalls, CommitCapture(c)
  PROVE  ReferralsInv'
<1> DEFINE k == visit[c].of
           r == [status |-> "invited", risk |-> visit[c].step, review |-> "none"]
<1>1. /\ visit[c] # NoVisit /\ visit[c].step \in RiskLevels /\ referral' = [referral EXCEPT ![k] = r]
      /\ recent' = (IF visit[c].public THEN recent \cup {k} ELSE recent)
      /\ known' = [known EXCEPT ![k] = visit[c].before] /\ visit' = [visit EXCEPT ![c] = NoVisit]
  BY DEF CommitCapture, Leave
<1>2. /\ visit[c] \in Captures /\ k \in Contacts /\ VisitStands(c) /\ Holds(c, k)
  BY <1>1, VisitKinds DEF ReferralsInv, ReferralsTypeOK, RiskLevels, Holds
<1>3. /\ referral[k] = NoReferral /\ ~HeldByOther(c, k) /\ visit[c].before \in BOOLEAN
      /\ visit[c].public \in BOOLEAN /\ (visit[c].before => visit[c].step = "flagged")
  BY <1>1, <1>2 DEF VisitStands, Captures
<1>4. r \in Referral /\ r.risk = visit[c].step /\ r.status = "invited"
  BY <1>1 DEF Referral
<1> HIDE DEF r
<1>5. /\ referral'[k] = r /\ r # NoReferral /\ known'[k] = visit[c].before
      /\ \A l \in Contacts \ {k} : referral'[l] = referral[l] /\ known'[l] = known[l]
      /\ visit'[c] = NoVisit /\ \A d \in ReferralCalls \ {c} : visit'[d] = visit[d]
  BY <1>1, <1>2, <1>4, NoReferralAssumption DEF ReferralsInv, ReferralsTypeOK
<1>6. ReferralsTypeOK'
  BY <1>1, <1>2, <1>3, <1>4 DEF ReferralsInv, ReferralsTypeOK
<1>7. IsFiniteSet(recent')
  BY <1>1, FS_AddElement DEF ReferralsInv
<1>8. RisksAreReviewed'
  BY <1>2, <1>3, <1>4, <1>5 DEF ReferralsInv, RisksAreReviewed, DuplicatesAreFlagged, ApprovedWasCleared,
     Committed
<1>9. ASSUME NEW d \in ReferralCalls PROVE VisitStands(d)'
  <2>1. CASE d = c
    BY <1>5, <2>1 DEF VisitStands
  <2>2. CASE d # c
    <3>1. /\ VisitStands(d) /\ visit'[d] = visit[d] /\ (visit[d] # NoVisit => visit[d].of \in Contacts)
      BY <1>5, <2>2, VisitKinds DEF ReferralsInv, ReferralsTypeOK
    <3>2. \A l : InOtherNetwork(l) => InOtherNetwork(l)'
      BY <1>5 DEF InOtherNetwork, Committed
    <3>3. visit[d] # NoVisit /\ visit[d].step \in RiskLevels => visit[d].of # k
      BY <1>3, <2>2 DEF HeldByOther, Holds
    <3>4. visit[d] # NoVisit /\ visit[d].step \in {"wait", "locked"} => visit[d].of # k
      BY <1>3, <3>1 DEF VisitStands
    <3>5. \A l : Holds(d, l)' <=> Holds(d, l)
      BY <3>1 DEF Holds
    <3>6. \A l : HeldByOther(d, l)' => HeldByOther(d, l)
      BY <1>5 DEF HeldByOther, Holds
    <3> QED BY <1>5, <3>1, <3>2, <3>3, <3>4, <3>5, <3>6 DEF VisitStands
  <2> QED BY <2>1, <2>2
<1>10. PlacesAreCounted'
  <2> SUFFICES ASSUME NEW l \in Contacts
               PROVE  (Cardinality(Captured(l)) + Cardinality(InFlight(l[1]))
                          <= CaptureLimit + Cardinality(ReferralCalls) - 1)'
    BY DEF PlacesAreCounted
  <2>1. /\ Cardinality(InFlight(l[1])) \in Nat /\ Cardinality(Captured(l)) \in Nat
        /\ IsFiniteSet(InFlight(l[1])) /\ IsFiniteSet(Captured(l))
        /\ Cardinality(ReferralCalls) \in Nat /\ CaptureLimit \in Nat
    BY FlightsAreFinite, CapturesAreFinite, FS_CardinalityType, ReferralAssumption DEF ReferralsInv
  <2>2. CASE visit[c].public /\ k[1] = l[1]
    <3>1. c \in InFlight(l[1])
      BY <1>2, <1>1, <2>2 DEF InFlight, CaptureSteps
    <3>2. InFlight(l[1])' = InFlight(l[1]) \ {c}
      BY <1>5 DEF InFlight
    <3>6. Cardinality(InFlight(l[1]) \ {c}) = Cardinality(InFlight(l[1])) - 1
      BY <2>1, <3>1, FS_RemoveElement
    <3>3. Cardinality(InFlight(l[1])') = Cardinality(InFlight(l[1])) - 1
      BY <3>2, <3>6
    <3>4. Captured(l)' = Captured(l) \cup {k}
      BY <1>1, <2>2 DEF Captured
    <3>5. Cardinality(Captured(l)') \in {Cardinality(Captured(l)), Cardinality(Captured(l)) + 1}
      BY <2>1, <3>4, FS_AddElement
    <3> QED BY <2>1, <3>3, <3>5 DEF ReferralsInv, PlacesAreCounted
  <2>3. CASE ~(visit[c].public /\ k[1] = l[1])
    <3>1. InFlight(l[1])' = InFlight(l[1])
      BY <1>5, <2>3 DEF InFlight
    <3>2. Captured(l)' = Captured(l)
      BY <1>1, <2>3 DEF Captured
    <3> QED BY <3>1, <3>2 DEF ReferralsInv, PlacesAreCounted
  <2> QED BY <2>2, <2>3
<1> QED BY <1>6, <1>7, <1>8, <1>9, <1>10 DEF ReferralsInv

\* What a triage makes of a referral: its risk stays, and so does a review.
LEMMA TriageKeeps ==
  ASSUME ReferralsInv, NEW c \in ReferralCalls, ReviewReferralRisk(c) \/ ChangeReferralStatus(c)
  PROVE  ReferralsInv'
<1> DEFINE k == visit[c].of
           old == referral[k]
<1>1. /\ visit[c] # NoVisit /\ visit[c].step = "locked" /\ visit' = [visit EXCEPT ![c] = NoVisit]
      /\ UNCHANGED <<recent, known>>
  BY DEF ReviewReferralRisk, ChangeReferralStatus, StepIs, Leave
<1>2. /\ visit[c] \in Triages /\ k \in Contacts /\ VisitStands(c) /\ old \in Referral
      /\ old # NoReferral /\ (visit[c].review # "none" => old.review = visit[c].review)
      /\ visit[c].review \in Reviewed
  BY <1>1, VisitKinds DEF ReferralsInv, ReferralsTypeOK, VisitStands, Triages
<1>3. old.status = "approved" /\ old.risk = "flagged" => old.review = "cleared"
  BY <1>2 DEF ReferralsInv, RisksAreReviewed, ApprovedWasCleared, Committed
<1>4. PICK r \in Referral : /\ referral' = [referral EXCEPT ![k] = r] /\ r.risk = old.risk
                            /\ old.review # "none" => r.review = old.review
                            /\ r.status = "approved" /\ r.risk = "flagged" => r.review = "cleared"
  <2>1. CASE ReviewReferralRisk(c)
    <3>1. /\ visit[c].to \in {"cleared", "confirmed"} /\ old.status \notin Final /\ old.review = "none"
          /\ referral' = [referral EXCEPT ![k] = [old EXCEPT !.review = visit[c].to]]
      BY <1>2, <2>1 DEF ReviewReferralRisk, ReferralsInv, ReferralsTypeOK
    <3>2. /\ [old EXCEPT !.review = visit[c].to] \in Referral
          /\ [old EXCEPT !.review = visit[c].to].risk = old.risk
          /\ [old EXCEPT !.review = visit[c].to].status = old.status
      BY <1>2, <3>1 DEF Referral
    <3> QED BY <3>1, <3>2 DEF Final
  <2>2. CASE ChangeReferralStatus(c)
    <3> DEFINE goal == visit[c].to
    <3>1. /\ goal \in {"in_review"} \cup Final
          /\ goal \in Final /\ old.risk # "low" => visit[c].review # "none"
          /\ goal = "approved" => visit[c].review # "confirmed"
          /\ referral' = [referral EXCEPT ![k] = [old EXCEPT !.status = goal]]
      BY <1>2, <2>2 DEF ChangeReferralStatus, ReferralsInv, ReferralsTypeOK
    <3>2. /\ [old EXCEPT !.status = goal] \in Referral /\ [old EXCEPT !.status = goal].risk = old.risk
          /\ [old EXCEPT !.status = goal].review = old.review /\ [old EXCEPT !.status = goal].status = goal
      BY <1>2, <3>1 DEF Referral
    <3>3. goal = "approved" /\ old.risk = "flagged" => old.review = "cleared"
      BY <1>2, <3>1 DEF Final, Reviewed
    <3> QED BY <3>1, <3>2, <3>3
  <2> QED BY <2>1, <2>2
<1>5. /\ referral'[k] = r /\ r # NoReferral
      /\ \A l \in Contacts \ {k} : referral'[l] = referral[l]
      /\ visit'[c] = NoVisit /\ \A d \in ReferralCalls \ {c} : visit'[d] = visit[d]
  BY <1>1, <1>2, <1>4, NoReferralAssumption DEF ReferralsInv, ReferralsTypeOK
<1>6. ReferralsTypeOK' /\ IsFiniteSet(recent')
  BY <1>1, <1>2, <1>4 DEF ReferralsInv, ReferralsTypeOK
<1>7. Committed' = Committed
  BY <1>2, <1>5 DEF Committed
<1>8. RisksAreReviewed'
  BY <1>1, <1>2, <1>4, <1>5, <1>7 DEF ReferralsInv, RisksAreReviewed, DuplicatesAreFlagged,
     ApprovedWasCleared, Committed
<1>9. ASSUME NEW d \in ReferralCalls PROVE VisitStands(d)'
  <2>1. CASE d = c
    BY <1>5, <2>1 DEF VisitStands
  <2>2. CASE d # c
    <3>1. /\ VisitStands(d) /\ visit'[d] = visit[d] /\ (visit[d] # NoVisit => visit[d].of \in Contacts)
      BY <1>5, <2>2, VisitKinds DEF ReferralsInv, ReferralsTypeOK
    <3>2. \A l : InOtherNetwork(l) => InOtherNetwork(l)'
      BY <1>7 DEF InOtherNetwork
    <3>3. visit[d] # NoVisit /\ visit[d].step \in RiskLevels => visit[d].of # k
      BY <1>2, <3>1 DEF VisitStands
    <3>4. visit[d] # NoVisit /\ visit[d].step \in {"wait", "locked"} /\ visit[d].of = k
            /\ visit[d].review # "none" => r.review = visit[d].review
      BY <1>4, <3>1 DEF VisitStands
    <3>5. \A l : Holds(d, l)' <=> Holds(d, l)
      BY <3>1 DEF Holds
    <3>6. \A l : HeldByOther(d, l)' => HeldByOther(d, l)
      BY <1>5 DEF HeldByOther, Holds
    <3> QED BY <1>5, <3>1, <3>2, <3>3, <3>4, <3>5, <3>6 DEF VisitStands
  <2> QED BY <2>1, <2>2
<1>10. PlacesAreCounted'
  BY <1>1, FlightsEnd
<1> QED BY <1>6, <1>8, <1>9, <1>10 DEF ReferralsInv

LEMMA ReferralsNextKeeps == ReferralsInv /\ [ReferralsNext]_referralVars => ReferralsInv'
<1> SUFFICES ASSUME ReferralsInv, [ReferralsNext]_referralVars PROVE ReferralsInv'
  OBVIOUS
<1>1. CASE UNCHANGED referralVars
  BY <1>1 DEF referralVars, ReferralsInv, ReferralsTypeOK, VisitStands, Holds, HeldByOther,
     InOtherNetwork, Committed, RisksAreReviewed, DuplicatesAreFlagged, ApprovedWasCleared,
     PlacesAreCounted, Captured, InFlight
<1>2. visit \in [ReferralCalls -> Visits \cup {NoVisit}] /\ \A c \in ReferralCalls : VisitStands(c)
  BY DEF ReferralsInv, ReferralsTypeOK
<1>3. CASE WindowPasses
  <2>1. /\ recent' = {} /\ UNCHANGED <<referral, known, visit>>
        /\ \A c \in ReferralCalls : visit[c] = NoVisit
    BY <1>3 DEF WindowPasses
  <2>2. ReferralsTypeOK' /\ IsFiniteSet(recent') /\ RisksAreReviewed'
    BY <2>1, FS_EmptySet DEF ReferralsInv, ReferralsTypeOK, RisksAreReviewed, DuplicatesAreFlagged,
       ApprovedWasCleared, Committed
  <2>3. \A c \in ReferralCalls : VisitStands(c)'
    BY <2>1 DEF VisitStands
  <2>4. ASSUME NEW k \in Contacts
        PROVE  (Cardinality(Captured(k)) + Cardinality(InFlight(k[1]))
                   <= CaptureLimit + Cardinality(ReferralCalls) - 1)'
    <3>1. Captured(k)' = {} /\ InFlight(k[1])' = {}
      BY <2>1 DEF Captured, InFlight
    <3>2. Cardinality(Captured(k)') = 0 /\ Cardinality(InFlight(k[1])') = 0
      BY <3>1, FS_EmptySet
    <3>3. Cardinality(ReferralCalls) \in Nat
      BY FS_CardinalityType, ReferralAssumption
    <3> QED BY <3>2, <3>3, ReferralAssumption
  <2> QED BY <2>2, <2>3, <2>4 DEF ReferralsInv, PlacesAreCounted
<1>4. ASSUME NEW c \in ReferralCalls, NEW k \in Contacts,
             NEW goal \in {"in_review", "cleared", "confirmed"} \cup Final, StartTriage(c, k, goal)
      PROVE  ReferralsInv'
  <2> DEFINE j == [of |-> k, to |-> goal, review |-> referral[k].review, step |-> "wait"]
  <2>1. /\ visit' = [visit EXCEPT ![c] = j] /\ UNCHANGED <<referral, recent, known>>
        /\ referral[k] # NoReferral
    BY <1>4 DEF StartTriage
  <2>2. referral[k].review \in Reviewed
    BY <2>1 DEF ReferralsInv, ReferralsTypeOK, Referral, Reviewed
  <2>3. j \in Triages /\ j.step = "wait" /\ j.of = k /\ j.review = referral[k].review
    BY <2>2 DEF Triages
  <2>4. j \in Visits /\ j # NoVisit
    BY <2>3, VisitKinds
  <2> HIDE DEF j
  <2>5. visit'[c] = j
    BY <1>2, <2>1
  <2>6. VisitStands(c)'
    BY <2>1, <2>3, <2>5 DEF VisitStands, RiskLevels, Holds
  <2>7. PlacesAreCounted'
    BY <2>1, <2>3, <2>4, FlightsEnd, VisitKinds
  <2> QED BY <2>1, <2>3, <2>4, <2>6, <2>7, VisitMoves DEF RiskLevels
<1>5. ASSUME NEW c \in ReferralCalls, LockReferral(c) PROVE ReferralsInv'
  <2> DEFINE j == [visit[c] EXCEPT !.step = "locked"]
  <2>1. /\ visit[c] # NoVisit /\ visit[c].step = "wait" /\ visit' = [visit EXCEPT ![c] = j]
        /\ UNCHANGED <<referral, recent, known>> /\ ~HeldByOther(c, visit[c].of)
    BY <1>5 DEF LockReferral, StepIs, Go
  <2>2. visit[c] \in Triages
    BY <1>2, <2>1, VisitKinds
  <2>3. j \in Triages /\ j.step = "locked" /\ j.of = visit[c].of /\ j.review = visit[c].review
    BY <2>2 DEF Triages
  <2>4. j \in Visits /\ j # NoVisit
    BY <2>3, VisitKinds
  <2> HIDE DEF j
  <2>5. visit'[c] = j /\ \A d \in ReferralCalls \ {c} : visit'[d] = visit[d]
    BY <1>2, <2>1
  <2>6. PICK k \in Contacts : k = j.of
    BY <2>3 DEF Triages
  <2>7. VisitStands(c)'
    <3>1. ~HeldByOther(c, k)'
      BY <2>1, <2>3, <2>5, <2>6 DEF HeldByOther, Holds
    <3>2. referral'[k] # NoReferral /\ (j.review # "none" => referral'[k].review = j.review)
      BY <1>2, <2>1, <2>3, <2>6 DEF VisitStands
    <3> QED BY <2>3, <2>5, <2>6, <3>1, <3>2 DEF VisitStands, RiskLevels
  <2>8. PlacesAreCounted'
    BY <2>1, <2>3, <2>4, FlightsEnd, VisitKinds
  <2> QED BY <2>1, <2>3, <2>4, <2>7, <2>8, VisitMoves
<1>6. ASSUME NEW c \in ReferralCalls, visit[c] # NoVisit, visit' = [visit EXCEPT ![c] = NoVisit],
             UNCHANGED <<referral, recent, known>>
      PROVE  ReferralsInv'
  <2>1. visit'[c] = NoVisit
    BY <1>2, <1>6
  <2>2. VisitStands(c)'
    BY <2>1 DEF VisitStands
  <2>3. PlacesAreCounted'
    BY <1>6, FlightsEnd
  <2> QED BY <1>6, <2>2, <2>3, VisitMoves
<1>7. ASSUME NEW c \in ReferralCalls, InsertReferral(c) PROVE ReferralsInv'
  <2>1. /\ visit[c] # NoVisit /\ visit[c].step = "insert" /\ ~HeldByOther(c, visit[c].of)
        /\ UNCHANGED <<referral, recent, known>>
    BY <1>7 DEF InsertReferral, StepIs
  <2>2. CASE referral[visit[c].of] # NoReferral
    BY <1>6, <1>7, <2>1, <2>2 DEF InsertReferral, Leave
  <2>3. CASE referral[visit[c].of] = NoReferral
    <3> DEFINE risk == IF RaisesSignal(visit[c].of) THEN "flagged" ELSE "low"
               j == [visit[c] EXCEPT !.step = risk]
    <3>1. visit' = [visit EXCEPT ![c] = j]
      BY <1>7, <2>3 DEF InsertReferral, Go
    <3>2. visit[c] \in Captures /\ VisitStands(c)
      BY <1>2, <2>1, VisitKinds
    <3>3. risk \in RiskLevels /\ (visit[c].before => risk = "flagged")
      BY <2>1, <3>2 DEF RiskLevels, VisitStands, RaisesSignal
    <3> HIDE DEF risk
    <3>4. /\ j \in Captures /\ j.step = risk /\ j.of = visit[c].of /\ j.public = visit[c].public
          /\ j.before = visit[c].before
      BY <3>2, <3>3 DEF Captures, CaptureSteps
    <3>5. j \in Visits /\ j # NoVisit
      BY <3>4, VisitKinds
    <3> HIDE DEF j
    <3>6. visit'[c] = j /\ \A d \in ReferralCalls \ {c} : visit'[d] = visit[d]
      BY <1>2, <3>1
    <3>7. PICK k \in Contacts : k = j.of
      BY <3>4 DEF Captures
    <3>8. VisitStands(c)'
      <4>1. ~HeldByOther(c, k)'
        BY <2>1, <3>4, <3>6, <3>7 DEF HeldByOther, Holds
      <4>2. referral'[k] = NoReferral /\ j.step \in RiskLevels /\ (j.before => j.step = "flagged")
        BY <2>1, <2>3, <3>3, <3>4, <3>7
      <4> QED BY <3>6, <3>7, <4>1, <4>2 DEF VisitStands, RiskLevels
    <3>9. PlacesAreCounted'
      BY <2>1, <3>1, <3>4, <3>5, FlightsEnd DEF CaptureSteps
    <3> QED BY <2>1, <3>1, <3>4, <3>5, <3>8, <3>9, VisitMoves
  <2> QED BY <2>2, <2>3
<1>8. ASSUME NEW c \in ReferralCalls, RefuseVisit(c) PROVE ReferralsInv'
  BY <1>6, <1>8 DEF RefuseVisit, Leave
<1> QED BY <1>1, <1>3, <1>4, <1>5, <1>7, <1>8, CaptureMoves, CommitCaptureKeeps, TriageKeeps
    DEF ReferralsNext
=============================================================================
