--------------------------- MODULE ServiceRegions ---------------------------
(***************************************************************************)
(* manageRegion and manageRegionNeighborhood (api/operations/operations    *)
(* .service.ts) with the guards of migration 0038, as concurrent READ      *)
(* COMMITTED transactions.  The SELECT ... FOR UPDATE of a call counts     *)
(* what is committed when it starts, before it waits for the rows it       *)
(* locks; the trigger of its UPDATE looks again, at that moment.           *)
(***************************************************************************)
EXTENDS Naturals, FiniteSets

CONSTANTS RegionCalls,   \* calls being served, one transaction each
          Regions, Hoods,
          RegionOf,      \* the region of each neighborhood
          NoPlace

\* The migration creates every region with neighborhoods; the tables have ids apart.
ASSUME RegionAssumption ==
  /\ RegionOf \in [Hoods -> Regions] /\ Regions \cap Hoods = {}
  /\ NoPlace \notin Regions \cup Hoods
  /\ \A r \in Regions : \E h \in Hoods : RegionOf[h] = r

Places == Regions \cup Hoods

VARIABLES active,    \* committed service_regions.active and ..._neighborhoods.active
          regionAt,  \* the statement each call is at,
          place, to, \* the row it changes and the value it writes,
          counted    \* and the places its SELECT counted as active

regionVars == <<active, regionAt, place, to, counted>>

RegionsTypeOK ==
  /\ active \in [Places -> BOOLEAN]
  /\ regionAt \in [RegionCalls -> {"idle", "lock", "update", "commit"}]
  /\ place \in [RegionCalls -> Places \cup {NoPlace}]
  /\ to \in [RegionCalls -> BOOLEAN]
  /\ counted \in [RegionCalls -> SUBSET Places]

RegionsInit ==
  /\ active = [p \in Places |-> TRUE]
  /\ regionAt = [c \in RegionCalls |-> "idle"]
  /\ place = [c \in RegionCalls |-> NoPlace]
  /\ to = [c \in RegionCalls |-> FALSE]
  /\ counted = [c \in RegionCalls |-> {}]

ActiveRegions == {r \in Regions : active[r]}
ActiveHoods(r) == {h \in Hoods : RegionOf[h] = r /\ active[h]}

\* Mutant: FOR UPDATE OF neighborhood.
LockedAlone(p) == {p}

\* FOR UPDATE on a join locks the rows of both tables.
Locked(p) == IF p \in Hoods THEN {p, RegionOf[p]} ELSE {p}

\* What the SELECT of a call counts.
Counts(p) ==
  IF p \in Regions THEN ActiveRegions \cup ActiveHoods(p) ELSE ActiveHoods(RegionOf[p])

HoldsPlace(c) == IF regionAt[c] \in {"update", "commit"} THEN Locked(place[c]) ELSE {}
PlaceFree(c) == \A d \in RegionCalls \ {c} : HoldsPlace(d) \cap Locked(place[c]) = {}

ReturnCall(c) ==
  /\ regionAt' = [regionAt EXCEPT ![c] = "idle"]
  /\ place' = [place EXCEPT ![c] = NoPlace]
  /\ to' = [to EXCEPT ![c] = FALSE]
  /\ counted' = [counted EXCEPT ![c] = {}]

-----------------------------------------------------------------------------
\* The SELECT starts: its counts are those of this moment.
ManagePlace(c, p, value) ==
  /\ regionAt[c] = "idle"
  /\ regionAt' = [regionAt EXCEPT ![c] = "lock"]
  /\ place' = [place EXCEPT ![c] = p]
  /\ to' = [to EXCEPT ![c] = value]
  /\ counted' = [counted EXCEPT ![c] = Counts(p)]
  /\ UNCHANGED active

\* What the service allows: the row as it is once locked, the counts as they were.
Allowed(c) ==
  LET p == place[c]
      hoods == counted[c] \cap Hoods
  IN /\ active[p] # to[c]
     /\ p \in Regions => IF to[c] THEN hoods # {}
                         ELSE Cardinality(counted[c] \cap Regions) > 1
     /\ p \in Hoods => to[c] \/ ~active[RegionOf[p]] \/ Cardinality(hoods) > 1

LockPlace(c) ==
  /\ regionAt[c] = "lock" /\ PlaceFree(c) /\ Allowed(c)
  /\ regionAt' = [regionAt EXCEPT ![c] = "update"]
  /\ UNCHANGED <<active, place, to, counted>>

\* The BEFORE UPDATE triggers read what is committed now.
GuardPasses(c) ==
  LET p == place[c]
  IN IF p \in Regions
     THEN IF to[c] THEN ActiveHoods(p) # {} ELSE ActiveRegions \ {p} # {}
     ELSE to[c] \/ ~active[RegionOf[p]] \/ ActiveHoods(RegionOf[p]) \ {p} # {}

UpdatePlace(c) ==
  /\ regionAt[c] = "update" /\ GuardPasses(c)
  /\ regionAt' = [regionAt EXCEPT ![c] = "commit"]
  /\ UNCHANGED <<active, place, to, counted>>

CommitPlace(c) ==
  /\ regionAt[c] = "commit"
  /\ active' = [active EXCEPT ![place[c]] = to[c]]
  /\ ReturnCall(c)

\* A check fails, or the transaction is rolled back for any other reason.
RollbackPlace(c) == regionAt[c] # "idle" /\ ReturnCall(c) /\ UNCHANGED active

RegionsNext == \E c \in RegionCalls :
  \/ \E p \in Places, value \in BOOLEAN : ManagePlace(c, p, value)
  \/ LockPlace(c) \/ UpdatePlace(c) \/ CommitPlace(c) \/ RollbackPlace(c)

RegionsSpec == RegionsInit /\ [][RegionsNext]_regionVars

-----------------------------------------------------------------------------
(* Properties *)

\* An active region has an active neighborhood, though the counts of the service
\* are older than the rows it locks: the row of the region is locked by both calls
\* and the triggers count again.
ActiveRegionHasHood == \A r \in Regions : active[r] => ActiveHoods(r) # {}

\* "O piloto precisa manter ao menos uma região ativa." (operations.service.ts:725
\* and migration 0038:202)
OneRegionActive == ActiveRegions # {}
=============================================================================
