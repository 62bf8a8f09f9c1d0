--------------------------- MODULE WorkflowsProofs ---------------------------
(***************************************************************************)
(* Advertising, coupons, sessions, schedules, panels, onboarding, the rate *)
(* limits and the keys of a page: each has an inductive invariant of its   *)
(* own, kept by its own steps, which holds for any constants.  The last    *)
(* section gathers them, and those of ConsoleProofs, into theorems of the  *)
(* composed specification, in which a behaviour is of the one in focus.    *)
(***************************************************************************)
EXTENDS MCWorkflows, ConsoleProofs, WellFoundedInduction

-----------------------------------------------------------------------------
(* Contextual advertising *)

AdJobs == [does : {"deliver", "moderate"}, ad : Ads, to : AdStatuses \cup {"nothing"}]

AdTyped ==
  /\ adStatus \in [Ads -> AdStatuses] /\ adEnded \in [Ads -> BOOLEAN]
  /\ impressions \in [Ads -> Seq(BOOLEAN)]
  /\ adCall \in [AdCalls -> AdJobs \cup {NoAd}]

\* Who moderates a campaign holds its row alone, and its decision is still allowed.
ModerationHolds == \A c \in AdCalls : Moderating(c) =>
  /\ adCall[c].to \in NextAdStatus(adStatus[adCall[c].ad])
  /\ \A d \in AdCalls \ {c} : Moderating(d) => adCall[d].ad # adCall[c].ad

\* Requests that have selected a campaign and not yet recorded the impression: each
\* has its place in the limit.
Selected(a) == {c \in AdCalls : Delivering(c) /\ adCall[c].ad = a}

ImpressionsCounted == \A a \in Ads :
  Len(impressions[a]) + Cardinality(Selected(a)) <= ImpressionLimit + Cardinality(AdCalls) - 1

AdInv == AdTyped /\ ModerationHolds /\ ImpressionsCounted

LEMMA SelectedFinite ==
  \A a : IsFiniteSet(Selected(a)) /\ Cardinality(Selected(a)) \in Nat
         /\ Cardinality(Selected(a)) <= Cardinality(AdCalls)
<1> TAKE a
<1>1. Selected(a) \subseteq AdCalls
  BY DEF Selected
<1> QED BY <1>1, FS_Subset, FS_CardinalityType, AdAssumption

LEMMA ImpressionsTyped ==
  ASSUME AdTyped, NEW a \in Ads
  PROVE  impressions[a] \in Seq(BOOLEAN) /\ Len(impressions[a]) \in Nat
BY LenProperties DEF AdTyped

LEMMA AdProperties == AdInv => AdTypeOK /\ ImpressionsNearLimit
<1> SUFFICES ASSUME AdInv PROVE AdTypeOK /\ ImpressionsNearLimit
  OBVIOUS
<1>1. AdTypeOK
  BY DEF AdInv, AdTyped, AdTypeOK, AdJobs
<1>2. ASSUME NEW a \in Ads
      PROVE  Len(impressions[a]) <= ImpressionLimit + Cardinality(AdCalls) - 1
  <2>1. /\ Len(impressions[a]) \in Nat /\ Cardinality(Selected(a)) \in Nat
        /\ Cardinality(AdCalls) \in Nat /\ ImpressionLimit \in Nat
    BY ImpressionsTyped, SelectedFinite, FS_CardinalityType, AdAssumption DEF AdInv
  <2> QED BY <2>1 DEF AdInv, ImpressionsCounted
<1> QED BY <1>1, <1>2 DEF ImpressionsNearLimit

LEMMA AdInitInv == AdInit => AdInv
<1> SUFFICES ASSUME AdInit PROVE AdInv
  OBVIOUS
<1>1. AdTyped /\ \A c \in AdCalls : adCall[c] = NoAd
  BY DEF AdInit, AdTyped, AdStatuses
<1>2. ModerationHolds
  BY <1>1 DEF ModerationHolds, Moderating
<1>3. ASSUME NEW a \in Ads
      PROVE  Len(impressions[a]) + Cardinality(Selected(a)) <= ImpressionLimit + Cardinality(AdCalls) - 1
  <2>1. Selected(a) = {} /\ impressions[a] = <<>>
    BY <1>1 DEF Selected, Delivering, AdInit
  <2>2. Cardinality(Selected(a)) = 0 /\ Len(impressions[a]) = 0
    BY <2>1, FS_EmptySet
  <2>3. Cardinality(AdCalls) \in Nat
    BY FS_CardinalityType, AdAssumption
  <2> QED BY <2>2, <2>3, AdAssumption
<1> QED BY <1>1, <1>2, <1>3 DEF AdInv, ImpressionsCounted

\* No place in a limit is taken by a step that selects nothing: an impression is
\* recorded by who leaves its place, if any.
LEMMA PlacesLeft ==
  ASSUME AdInv, NEW c \in AdCalls, NEW b \in Ads, adCall' = [adCall EXCEPT ![c] = NoAd],
         Len(impressions'[b]) \in Nat,
         \/ Len(impressions'[b]) = Len(impressions[b])
         \/ Delivering(c) /\ adCall[c].ad = b /\ Len(impressions'[b]) = Len(impressions[b]) + 1
  PROVE  Len(impressions'[b]) + Cardinality(Selected(b)') <= ImpressionLimit + Cardinality(AdCalls) - 1
<1>1. /\ adCall'[c] = NoAd /\ \A d \in AdCalls \ {c} : adCall'[d] = adCall[d]
  BY DEF AdInv, AdTyped
<1>2. Selected(b)' = Selected(b) \ {c}
  BY <1>1 DEF Selected, Delivering
<1>3. Cardinality(Selected(b) \ {c}) = IF c \in Selected(b) THEN Cardinality(Selected(b)) - 1
                                       ELSE Cardinality(Selected(b))
  BY SelectedFinite, FS_RemoveElement
<1>4. Cardinality(Selected(b)') = IF c \in Selected(b) THEN Cardinality(Selected(b)) - 1
                                  ELSE Cardinality(Selected(b))
  BY <1>2, <1>3
<1>5. /\ Cardinality(Selected(b)) \in Nat /\ Cardinality(AdCalls) \in Nat /\ ImpressionLimit \in Nat
      /\ Len(impressions[b]) \in Nat
      /\ Len(impressions[b]) + Cardinality(Selected(b)) <= ImpressionLimit + Cardinality(AdCalls) - 1
  BY SelectedFinite, FS_CardinalityType, AdAssumption, ImpressionsTyped DEF AdInv, ImpressionsCounted
<1>6. Delivering(c) /\ adCall[c].ad = b => c \in Selected(b)
  BY DEF Selected
<1> DEFINE n == Cardinality(Selected(b))
           m == Cardinality(Selected(b)')
           before == Len(impressions[b])
           after == Len(impressions'[b])
           calls == Cardinality(AdCalls)
<1>7. /\ n \in Nat /\ calls \in Nat /\ ImpressionLimit \in Nat /\ before \in Nat /\ after \in Nat
      /\ before + n <= ImpressionLimit + calls - 1
      /\ (m = n /\ after = before) \/ (m = n - 1 /\ (after = before \/ after = before + 1))
  BY <1>4, <1>5, <1>6
<1> HIDE DEF n, m, before, after, calls
<1>8. after + m <= ImpressionLimit + calls - 1
  BY <1>7
<1> QED BY <1>8 DEF n, m, before, after, calls

LEMMA AdNextKeeps == AdInv /\ [AdNext]_adVars => AdInv'
<1> SUFFICES ASSUME AdInv, [AdNext]_adVars PROVE AdInv'
  OBVIOUS
<1>1. AdTyped /\ ModerationHolds /\ ImpressionsCounted
  BY DEF AdInv
<1>2. CASE UNCHANGED adVars
  BY <1>1, <1>2 DEF adVars, AdInv, AdTyped, ModerationHolds, Moderating, ImpressionsCounted, Selected,
     Delivering
<1>3. ASSUME NEW c \in AdCalls, NEW a \in Ads, LockAd(c, a) PROVE AdInv'
  <2>1. PICK goal \in NextAdStatus(adStatus[a]) :
          adCall' = [adCall EXCEPT ![c] = [does |-> "moderate", ad |-> a, to |-> goal]]
    BY <1>3 DEF LockAd
  <2>2. goal \in AdStatuses
    BY <2>1 DEF NextAdStatus, AdStatuses
  <2> DEFINE j == [does |-> "moderate", ad |-> a, to |-> goal]
  <2>3. j \in AdJobs /\ j.does = "moderate" /\ j.ad = a /\ j.to = goal
    BY <2>2 DEF AdJobs
  <2> HIDE DEF j
  <2>4. adCall' = [adCall EXCEPT ![c] = j]
    BY <2>1 DEF j
  <2>5. /\ UNCHANGED <<adStatus, adEnded, impressions>> /\ adCall[c] = NoAd /\ AdFree(c, a)
    BY <1>3 DEF LockAd
  <2>6. /\ adCall'[c] = j /\ \A d \in AdCalls \ {c} : adCall'[d] = adCall[d]
    BY <1>1, <2>4 DEF AdTyped
  <2>7. AdTyped'
    BY <1>1, <2>3, <2>4, <2>5 DEF AdTyped
  <2>8. ModerationHolds'
    BY <1>1, <2>1, <2>3, <2>5, <2>6 DEF ModerationHolds, Moderating, AdFree
  <2>9. ASSUME NEW b \in Ads PROVE Selected(b)' = Selected(b)
    BY <2>3, <2>5, <2>6 DEF Selected, Delivering
  <2> QED BY <1>1, <2>5, <2>7, <2>8, <2>9 DEF AdInv, ImpressionsCounted
<1>4. ASSUME NEW c \in AdCalls, NEW a \in Ads, SelectAd(c, a) PROVE AdInv'
  <2> DEFINE j == [does |-> "deliver", ad |-> a, to |-> "nothing"]
  <2>1. /\ adCall' = [adCall EXCEPT ![c] = j] /\ UNCHANGED <<adStatus, adEnded, impressions>>
        /\ adCall[c] = NoAd /\ Len(impressions[a]) < ImpressionLimit
    BY <1>4 DEF SelectAd, Runs
  <2>2. j \in AdJobs /\ j.does = "deliver" /\ j.ad = a
    BY DEF AdJobs
  <2> HIDE DEF j
  <2>3. /\ adCall'[c] = j /\ \A d \in AdCalls \ {c} : adCall'[d] = adCall[d]
    BY <1>1, <2>1 DEF AdTyped
  <2>4. AdTyped'
    BY <1>1, <2>1, <2>2 DEF AdTyped
  <2>5. ModerationHolds'
    BY <1>1, <2>1, <2>2, <2>3 DEF ModerationHolds, Moderating
  <2>6. ASSUME NEW b \in Ads
        PROVE  Len(impressions'[b]) + Cardinality(Selected(b)')
                 <= ImpressionLimit + Cardinality(AdCalls) - 1
    <3>1. CASE b = a
      <4>1. Selected(a)' \subseteq AdCalls
        BY DEF Selected
      <4>2. Cardinality(Selected(a)') \in Nat /\ Cardinality(Selected(a)') <= Cardinality(AdCalls)
        BY <4>1, FS_Subset, FS_CardinalityType, AdAssumption
      <4>3. /\ Len(impressions[a]) \in Nat /\ ImpressionLimit \in Nat /\ Cardinality(AdCalls) \in Nat
        BY <1>1, ImpressionsTyped, FS_CardinalityType, AdAssumption
      <4> QED BY <2>1, <3>1, <4>2, <4>3
    <3>2. CASE b # a
      <4>1. Selected(b)' = Selected(b)
        BY <2>1, <2>2, <2>3, <3>2 DEF Selected, Delivering
      <4> QED BY <1>1, <2>1, <4>1 DEF ImpressionsCounted
    <3> QED BY <3>1, <3>2
  <2> QED BY <2>4, <2>5, <2>6 DEF AdInv, ImpressionsCounted
\* A request ends.
<1>5. ASSUME NEW c \in AdCalls, Moderate(c) \/ InsertDelivery(c) \/ DropAdCall(c) PROVE AdInv'
  <2>1. adCall[c] # NoAd /\ adCall[c] \in AdJobs /\ adCall' = [adCall EXCEPT ![c] = NoAd]
    BY <1>1, <1>5 DEF Moderate, InsertDelivery, DropAdCall, Moderating, Delivering, AdTyped
  <2> DEFINE a == adCall[c].ad
  <2>2. a \in Ads /\ UNCHANGED adEnded
    BY <1>5, <2>1 DEF AdJobs, Moderate, InsertDelivery, DropAdCall
  <2>3. /\ adCall'[c] = NoAd /\ \A d \in AdCalls \ {c} : adCall'[d] = adCall[d]
        /\ adCall' \in [AdCalls -> AdJobs \cup {NoAd}]
    BY <1>1, <2>1 DEF AdTyped
  <2>4. CASE Moderate(c)
    <3>1. /\ adStatus' = [adStatus EXCEPT ![a] = adCall[c].to] /\ UNCHANGED impressions /\ Moderating(c)
      BY <2>4 DEF Moderate
    <3>2. adCall[c].to \in AdStatuses
      BY <1>1, <3>1 DEF ModerationHolds, NextAdStatus, AdStatuses
    <3>3. AdTyped'
      BY <1>1, <2>2, <2>3, <3>1, <3>2 DEF AdTyped
    <3>4. ASSUME NEW d \in AdCalls, Moderating(d)'
          PROVE  d # c /\ Moderating(d) /\ adCall'[d] = adCall[d] /\ adStatus'[adCall[d].ad] = adStatus[adCall[d].ad]
      <4>1. d # c /\ Moderating(d) /\ adCall'[d] = adCall[d]
        BY <2>3, <3>4 DEF Moderating
      <4>2. adCall[d].ad # a
        BY <1>1, <3>1, <4>1 DEF ModerationHolds
      <4>3. adCall[d].ad \in Ads
        BY <1>1, <4>1 DEF AdTyped, AdJobs, Moderating
      <4> QED BY <1>1, <3>1, <4>1, <4>2, <4>3 DEF AdTyped
    <3>5. ModerationHolds'
      BY <1>1, <3>4 DEF ModerationHolds
    <3>6. ImpressionsCounted'
      BY <1>1, <2>1, <3>1, ImpressionsTyped, PlacesLeft DEF ImpressionsCounted
    <3> QED BY <3>3, <3>5, <3>6 DEF AdInv
  <2>5. CASE InsertDelivery(c)
    <3>1. /\ impressions' = [impressions EXCEPT ![a] = Append(impressions[a], FALSE)] /\ UNCHANGED adStatus
          /\ Delivering(c)
      BY <1>1, <2>2, <2>5 DEF InsertDelivery, AdTyped
    <3>2. /\ Append(impressions[a], FALSE) \in Seq(BOOLEAN)
          /\ Len(Append(impressions[a], FALSE)) = Len(impressions[a]) + 1
      BY <1>1, <2>2, ImpressionsTyped, AppendProperties
    <3>3. AdTyped'
      BY <1>1, <2>2, <2>3, <3>1, <3>2 DEF AdTyped
    <3>4. ModerationHolds'
      BY <1>1, <2>3, <3>1 DEF ModerationHolds, Moderating
    <3>5. ASSUME NEW b \in Ads
          PROVE  /\ Len(impressions'[b]) \in Nat
                 /\ \/ Len(impressions'[b]) = Len(impressions[b])
                    \/ adCall[c].ad = b /\ Len(impressions'[b]) = Len(impressions[b]) + 1
      <4>1. CASE b = a
        BY <1>1, <2>2, <3>1, <3>2, <4>1, ImpressionsTyped DEF AdTyped
      <4>2. CASE b # a
        BY <1>1, <2>2, <3>1, <4>2, ImpressionsTyped DEF AdTyped
      <4> QED BY <4>1, <4>2
    <3>6. ImpressionsCounted'
      BY <2>1, <3>1, <3>5, PlacesLeft DEF ImpressionsCounted
    <3> QED BY <3>3, <3>4, <3>6 DEF AdInv
  <2>6. CASE DropAdCall(c)
    <3>1. UNCHANGED <<adStatus, impressions>>
      BY <2>6 DEF DropAdCall
    <3>2. AdTyped'
      BY <1>1, <2>2, <2>3, <3>1 DEF AdTyped
    <3>3. ModerationHolds'
      BY <1>1, <2>3, <3>1 DEF ModerationHolds, Moderating
    <3>4. ImpressionsCounted'
      BY <1>1, <2>1, <3>1, ImpressionsTyped, PlacesLeft DEF ImpressionsCounted
    <3> QED BY <3>2, <3>3, <3>4 DEF AdInv
  <2> QED BY <1>5, <2>4, <2>5, <2>6
\* A campaign is submitted, ends or is clicked: no request moves.
<1>6. ASSUME NEW a \in Ads, SubmitAd(a) PROVE AdInv'
  <2>1. /\ adStatus' = [adStatus EXCEPT ![a] = "pending_review"] /\ UNCHANGED <<adEnded, impressions, adCall>>
        /\ adStatus[a] = "none"
    BY <1>6 DEF SubmitAd
  <2>2. AdTyped'
    BY <1>1, <2>1 DEF AdTyped, AdStatuses
  <2>3. ASSUME NEW c \in AdCalls, Moderating(c) PROVE adStatus'[adCall[c].ad] = adStatus[adCall[c].ad]
    <3>1. adCall[c].ad # a
      BY <1>1, <2>1, <2>3 DEF ModerationHolds, NextAdStatus
    <3>2. adCall[c].ad \in Ads
      BY <1>1, <2>3 DEF AdTyped, AdJobs, Moderating
    <3> QED BY <1>1, <2>1, <3>1, <3>2 DEF AdTyped
  <2>4. ModerationHolds'
    BY <1>1, <2>1, <2>3 DEF ModerationHolds, Moderating
  <2> QED BY <1>1, <2>1, <2>2, <2>4 DEF AdInv, ImpressionsCounted, Selected, Delivering
<1>7. ASSUME NEW a \in Ads, EndAd(a) PROVE AdInv'
  BY <1>1, <1>7 DEF EndAd, AdInv, AdTyped, ModerationHolds, Moderating, ImpressionsCounted, Selected,
     Delivering
<1>8. ASSUME NEW a \in Ads, NEW i \in 1..Len(impressions[a]), TrackClick(a, i) PROVE AdInv'
  <2> DEFINE s == [impressions[a] EXCEPT ![i] = TRUE]
  <2>1. impressions' = [impressions EXCEPT ![a] = s] /\ UNCHANGED <<adStatus, adEnded, adCall>>
    BY <1>8 DEF TrackClick
  <2>2. s \in Seq(BOOLEAN) /\ Len(s) = Len(impressions[a])
    BY <1>1, ImpressionsTyped, ExceptSeq
  <2> HIDE DEF s
  <2>3. AdTyped'
    BY <1>1, <2>1, <2>2 DEF AdTyped
  <2>4. \A b \in Ads : Len(impressions'[b]) = Len(impressions[b])
    BY <1>1, <2>1, <2>2 DEF AdTyped
  <2>5. ModerationHolds'
    BY <1>1, <2>1 DEF ModerationHolds, Moderating
  <2> QED BY <1>1, <2>1, <2>3, <2>4, <2>5 DEF AdInv, ImpressionsCounted, Selected, Delivering
<1> QED BY <1>2, <1>3, <1>4, <1>5, <1>6, <1>7, <1>8 DEF AdNext, DeliverNothing

LEMMA ModeratedStep ==
  ASSUME AdInv, AdNext, NEW a \in Ads
  PROVE  adStatus'[a] = adStatus[a] \/ adStatus[a] = "none"
           \/ adStatus'[a] \in NextAdStatus(adStatus[a])
<1>1. AdTyped /\ ModerationHolds
  BY DEF AdInv
<1>2. CASE \E c \in AdCalls : Moderate(c)
  BY <1>1, <1>2 DEF Moderate, ModerationHolds, AdTyped
<1>3. CASE \E b \in Ads : SubmitAd(b)
  BY <1>1, <1>3 DEF SubmitAd, AdTyped
<1>4. CASE UNCHANGED adStatus
  BY <1>4
<1> QED BY <1>2, <1>3, <1>4 DEF AdNext, LockAd, SelectAd, InsertDelivery, DropAdCall, EndAd, TrackClick,
        DeliverNothing, adVars
-----------------------------------------------------------------------------
(* Coupons *)

Reserving(c) == CouponJob(c, "reserve")
Validating(c) == CouponJob(c, "validate")

\* Requests reserve for different orders, which hold nothing yet; the one that was
\* accepted is alone, and found a use left in both limits.
ReservesHold == \A c \in CouponCalls, o \in Orders : Reserving(c) /\ coupon[c].order = o =>
  /\ reservation[o] = "none"
  /\ \A d \in CouponCalls \ {c} : Reserving(d) => coupon[d].order # o
  /\ coupon[c].result = "accepted" =>
       /\ Uses(Orders) < TotalLimit
       /\ Uses(OrdersOf(OrderOwner(o))) < CustomerLimit
       /\ \A d \in CouponCalls \ {c} : Reserving(d) => coupon[d].result = "waiting"

\* Of the validations of a customer one at a time has an answer, which tells why only
\* below the limit.
ValidationsHold == \A c \in CouponCalls : Validating(c) /\ coupon[c].result # "waiting" =>
  /\ coupon[c].result \in Rejections \ {"blocked"} => rejected[coupon[c].who] < AbuseLimit
  /\ \A d \in CouponCalls \ {c} : Validating(d) /\ coupon[d].who = coupon[c].who
                                    => coupon[d].result = "waiting"

RefusalsCounted == \A w \in Shoppers : refused[w] <= rejected[w]

CouponInv == /\ CampaignsTypeOK /\ ReservesHold /\ ValidationsHold /\ RefusalsCounted
             /\ UsesWithinLimits

Used(set, held) == {o \in set : held[o] \in {"reserved", "redeemed"}}

LEMMA UsesCount ==
  \A set \in SUBSET Orders : /\ IsFiniteSet(Used(set, reservation)) /\ Uses(set) \in Nat
                             /\ Uses(set) = Cardinality(Used(set, reservation))
<1> TAKE set \in SUBSET Orders
<1>1. Used(set, reservation) \subseteq Orders
  BY DEF Used
<1> QED BY <1>1, FS_Subset, FS_CardinalityType, CouponAssumption DEF Used, Uses

LEMMA CustomersOrders == \A w : OrdersOf(w) \in SUBSET Orders
BY DEF OrdersOf

\* Redeeming adds no use, a reservation adds one to the sets that have its order.
LEMMA UsesGrow ==
  ASSUME CampaignsTypeOK, NEW o \in Orders, NEW value, reservation' = [reservation EXCEPT ![o] = value],
         NEW set \in SUBSET Orders
  PROVE  /\ reservation[o] = "reserved" => Uses(set)' <= Uses(set)
         /\ Uses(set)' <= Uses(set) + 1
         /\ o \notin set => Uses(set)' = Uses(set)
         /\ Uses(set)' \in Nat
<1> DEFINE before == Used(set, reservation)
           after == Used(set, reservation')
<1>1. /\ IsFiniteSet(before) /\ Uses(set) = Cardinality(before) /\ Uses(set) \in Nat
  BY UsesCount
<1>2. after \subseteq before \cup {o} /\ (o \notin set => after = before)
      /\ (reservation[o] = "reserved" => after \subseteq before)
  BY DEF CampaignsTypeOK, Used
<1>3. Uses(set)' = Cardinality(after)
  BY DEF Uses, Used
<1> HIDE DEF before, after
<1>4. /\ IsFiniteSet(before \cup {o})
      /\ Cardinality(before \cup {o}) = IF o \in before THEN Cardinality(before) ELSE Cardinality(before) + 1
  BY <1>1, FS_AddElement
<1>5. IsFiniteSet(after) /\ Cardinality(after) \in Nat /\ Cardinality(after) <= Cardinality(before \cup {o})
  BY <1>2, <1>4, FS_Subset, FS_CardinalityType
<1>6. Cardinality(before \cup {o}) <= Uses(set) + 1
  BY <1>1, <1>4
<1>7. reservation[o] = "reserved" => Uses(set)' <= Uses(set)
  BY <1>1, <1>2, <1>3, FS_Subset
<1>8. Cardinality(before \cup {o}) \in Nat
  BY <1>4, FS_CardinalityType
<1>9. o \notin set => Uses(set)' = Uses(set)
  BY <1>1, <1>2, <1>3
<1>10. Uses(set)' <= Uses(set) + 1 /\ Uses(set)' \in Nat
  BY <1>1, <1>3, <1>5, <1>6, <1>8
<1> QED BY <1>7, <1>9, <1>10

LEMMA CouponJobFields ==
  /\ \A j \in CouponJobs : j.kind = "validate" => j.who \in Shoppers /\ j.result \in Rejections \cup {"waiting", "accepted"}
  /\ \A j \in CouponJobs : j.kind = "reserve" => j.order \in Orders /\ j.result \in {"waiting", "accepted"}
BY DEF CouponJobs

LEMMA CouponProperties == CouponInv => UsesWithinLimits /\ GuessesWithinLimit
<1> SUFFICES ASSUME CouponInv, NEW w \in Shoppers PROVE refused[w] <= AbuseLimit
  BY DEF CouponInv, GuessesWithinLimit
<1>1. refused[w] \in Nat /\ rejected[w] \in 0..AbuseLimit /\ refused[w] <= rejected[w] /\ AbuseLimit \in Nat
  BY CouponAssumption DEF CouponInv, CampaignsTypeOK, RefusalsCounted
<1> QED BY <1>1

LEMMA CouponInitInv == CampaignsInit => CouponInv
<1> SUFFICES ASSUME CampaignsInit PROVE CouponInv
  OBVIOUS
<1>1. CampaignsTypeOK /\ \A c \in CouponCalls : coupon[c] = NoCoupon
  BY CouponAssumption DEF CampaignsInit, CampaignsTypeOK
<1>2. ReservesHold /\ ValidationsHold
  BY <1>1 DEF ReservesHold, ValidationsHold, Reserving, Validating, CouponJob
<1>3. RefusalsCounted
  BY DEF CampaignsInit, RefusalsCounted
<1>4. ASSUME NEW set \in SUBSET Orders PROVE Uses(set) = 0
  <2>1. Used(set, reservation) = {}
    BY <1>4 DEF CampaignsInit, Used
  <2> QED BY <2>1, UsesCount, FS_EmptySet
<1>5. UsesWithinLimits
  BY <1>4, CustomersOrders, CouponAssumption DEF UsesWithinLimits
<1> QED BY <1>1, <1>2, <1>3, <1>5 DEF CouponInv

\* What a request that begins, fails or only reads leaves as it was.
LEMMA CouponIdle ==
  ASSUME CouponInv, UNCHANGED <<reservation, rejected, refused, coupon>>, CampaignsTypeOK'
  PROVE  CouponInv'
<1>1. \A set : Uses(set)' = Uses(set)
  BY DEF Uses
<1>2. ReservesHold'
  BY <1>1 DEF CouponInv, ReservesHold, Reserving, CouponJob, OrdersOf
<1>3. ValidationsHold' /\ RefusalsCounted'
  BY DEF CouponInv, ValidationsHold, Validating, CouponJob, RefusalsCounted
<1>4. UsesWithinLimits'
  BY <1>1 DEF CouponInv, UsesWithinLimits, OrdersOf
<1> QED BY <1>2, <1>3, <1>4 DEF CouponInv

LEMMA CouponEndKeeps ==
  ASSUME CouponInv, NEW c \in CouponCalls, CouponEnds(c),
         UNCHANGED <<reservation, rejected, refused>>,
         campaign' \in {"none", "active", "paused"}, UNCHANGED <<open, consent>>
  PROVE  CouponInv'
<1>1. \A set : Uses(set)' = Uses(set)
  BY DEF Uses
<1>2. /\ coupon'[c] = NoCoupon /\ \A d \in CouponCalls \ {c} : coupon'[d] = coupon[d]
      /\ coupon' \in [CouponCalls -> CouponJobs \cup {NoCoupon}]
  BY DEF CouponInv, CampaignsTypeOK, CouponEnds
<1>3. CampaignsTypeOK'
  BY <1>2 DEF CouponInv, CampaignsTypeOK
<1>4. ReservesHold'
  BY <1>1, <1>2 DEF CouponInv, ReservesHold, Reserving, CouponJob, OrdersOf
<1>5. ValidationsHold' /\ RefusalsCounted'
  BY <1>2 DEF CouponInv, ValidationsHold, Validating, CouponJob, RefusalsCounted
<1>6. UsesWithinLimits'
  BY <1>1 DEF CouponInv, UsesWithinLimits, OrdersOf
<1> QED BY <1>3, <1>4, <1>5, <1>6 DEF CouponInv

LEMMA CouponNextKeeps == CouponInv /\ [CampaignsNext]_campaignVars => CouponInv'
<1> SUFFICES ASSUME CouponInv, [CampaignsNext]_campaignVars PROVE CouponInv'
  OBVIOUS
<1>1. CampaignsTypeOK /\ ReservesHold /\ ValidationsHold /\ RefusalsCounted /\ UsesWithinLimits
  BY DEF CouponInv
<1>2. CASE UNCHANGED campaignVars
  <2>1. CampaignsTypeOK'
    BY <1>1, <1>2 DEF CampaignsTypeOK, campaignVars
  <2> QED BY <1>2, <2>1, CouponIdle DEF campaignVars
\* The operation, the preference and time.
<1>3. CASE \/ CampaignEnds
           \/ \E status \in {"active", "paused"} : ChangeCampaignStatus(status)
           \/ \E w \in Shoppers : ChangeMarketingPreference(w)
  <2>1. UNCHANGED <<reservation, rejected, refused, coupon>>
    BY <1>3 DEF CampaignEnds, ChangeCampaignStatus, ChangeMarketingPreference
  <2>2. campaign' \in {"none", "active", "paused"} /\ open' \in BOOLEAN /\ consent' \subseteq Shoppers
    BY <1>1, <1>3 DEF CampaignEnds, ChangeCampaignStatus, ChangeMarketingPreference, CampaignsTypeOK
  <2>3. CampaignsTypeOK'
    BY <1>1, <2>1, <2>2 DEF CampaignsTypeOK
  <2> QED BY <2>1, <2>3, CouponIdle
<1>4. CASE AbuseWindowPasses
  <2>1. \A c \in CouponCalls : coupon[c] = NoCoupon
    BY <1>4 DEF AbuseWindowPasses
  <2>2. /\ rejected' = [w \in Shoppers |-> 0] /\ refused' = [w \in Shoppers |-> 0]
        /\ UNCHANGED <<campaign, open, consent, reservation, coupon>>
    BY <1>4 DEF AbuseWindowPasses
  <2>3. CampaignsTypeOK'
    BY <1>1, <2>2, CouponAssumption DEF CampaignsTypeOK
  <2>4. RefusalsCounted'
    BY <2>2 DEF RefusalsCounted
  <2>5. ReservesHold' /\ ValidationsHold'
    BY <2>1, <2>2 DEF ReservesHold, ValidationsHold, Reserving, Validating, CouponJob
  <2>6. UsesWithinLimits'
    BY <1>1, <2>2 DEF UsesWithinLimits, Uses, OrdersOf
  <2> QED BY <2>3, <2>4, <2>5, <2>6 DEF CouponInv
<1>5. ASSUME NEW o \in Orders, NEW outcome \in {"redeemed", "ineligible"}, Redeem(o, outcome)
      PROVE  CouponInv'
  <2>1. /\ reservation[o] = "reserved" /\ reservation' = [reservation EXCEPT ![o] = outcome]
        /\ UNCHANGED <<campaign, open, consent, rejected, refused, coupon>>
    BY <1>5 DEF Redeem
  <2>2. CampaignsTypeOK'
    BY <1>1, <2>1 DEF CampaignsTypeOK
  <2>3. ASSUME NEW set \in SUBSET Orders PROVE Uses(set)' <= Uses(set) /\ Uses(set)' \in Nat /\ Uses(set) \in Nat
    BY <1>1, <2>1, UsesGrow, UsesCount
  <2>4. ReservesHold'
    <3>1. SUFFICES ASSUME NEW c \in CouponCalls, NEW p \in Orders, Reserving(c), coupon[c].order = p
          PROVE /\ reservation'[p] = "none"
                /\ \A d \in CouponCalls \ {c} : Reserving(d) => coupon[d].order # p
                /\ coupon[c].result = "accepted" =>
                     /\ Uses(Orders)' < TotalLimit
                     /\ Uses(OrdersOf(OrderOwner(p)))' < CustomerLimit
                     /\ \A d \in CouponCalls \ {c} : Reserving(d) => coupon[d].result = "waiting"
      BY <2>1 DEF ReservesHold, Reserving, CouponJob, OrdersOf
    <3>2. reservation'[p] = "none" /\ p # o
      BY <1>1, <2>1, <3>1 DEF ReservesHold, CampaignsTypeOK
    <3>3. Uses(Orders)' <= Uses(Orders) /\ Uses(Orders)' \in Nat /\ Uses(Orders) \in Nat
      BY <2>3
    <3>4. /\ Uses(OrdersOf(OrderOwner(p)))' <= Uses(OrdersOf(OrderOwner(p)))
          /\ Uses(OrdersOf(OrderOwner(p)))' \in Nat /\ Uses(OrdersOf(OrderOwner(p))) \in Nat
      BY <2>3, CustomersOrders DEF OrdersOf
    <3> QED BY <1>1, <3>1, <3>2, <3>3, <3>4, CouponAssumption DEF ReservesHold
  <2>5. ValidationsHold' /\ RefusalsCounted'
    BY <1>1, <2>1 DEF ValidationsHold, Validating, CouponJob, RefusalsCounted
  <2>6. UsesWithinLimits'
    <3>1. Uses(Orders)' <= TotalLimit
      BY <1>1, <2>3, CouponAssumption DEF UsesWithinLimits
    <3>2. ASSUME NEW w \in Shoppers PROVE Uses(OrdersOf(w))' <= CustomerLimit
      <4>1. /\ Uses(OrdersOf(w))' <= Uses(OrdersOf(w))
            /\ Uses(OrdersOf(w))' \in Nat /\ Uses(OrdersOf(w)) \in Nat
        BY <2>3, CustomersOrders DEF OrdersOf
      <4> QED BY <1>1, <4>1, CouponAssumption DEF UsesWithinLimits
    <3> QED BY <3>1, <3>2 DEF UsesWithinLimits
  <2> QED BY <2>2, <2>4, <2>5, <2>6 DEF CouponInv
\* A request begins.
<1>6. ASSUME NEW c \in CouponCalls,
             \/ \E w \in Shoppers : StartValidation(c, w)
             \/ \E o \in Orders : StartReservation(c, o)
             \/ CreateCampaign(c)
      PROVE  CouponInv'
  <2>1. /\ UNCHANGED <<campaign, open, consent, reservation, rejected, refused>> /\ coupon[c] = NoCoupon
    BY <1>6 DEF StartValidation, StartReservation, CreateCampaign
  <2>2. \E j \in CouponJobs :
          /\ coupon' = [coupon EXCEPT ![c] = j]
          /\ j.result = "waiting" /\ j.kind \in {"validate", "reserve", "create"}
          /\ j.kind = "reserve" =>
               /\ reservation[j.order] = "none"
               /\ \A d \in CouponCalls : Reserving(d) => coupon[d].order # j.order
    <3>1. ASSUME NEW w \in Shoppers, StartValidation(c, w) PROVE <2>2
      <4> DEFINE j == [kind |-> "validate", who |-> w, result |-> "waiting"]
      <4>1. j \in CouponJobs /\ j.kind = "validate" /\ j.result = "waiting"
        BY DEF CouponJobs
      <4>2. coupon' = [coupon EXCEPT ![c] = j]
        BY <3>1 DEF StartValidation
      <4> HIDE DEF j
      <4> QED BY <4>1, <4>2
    <3>2. ASSUME NEW o \in Orders, StartReservation(c, o) PROVE <2>2
      <4> DEFINE j == [kind |-> "reserve", order |-> o, result |-> "waiting"]
      <4>1. j \in CouponJobs /\ j.kind = "reserve" /\ j.result = "waiting" /\ j.order = o
        BY DEF CouponJobs
      <4>2. coupon' = [coupon EXCEPT ![c] = j] /\ reservation[o] = "none"
            /\ \A d \in CouponCalls : Reserving(d) => coupon[d].order # o
        BY <3>2 DEF StartReservation, Reserving
      <4> HIDE DEF j
      <4> QED BY <4>1, <4>2
    <3>3. ASSUME CreateCampaign(c) PROVE <2>2
      <4> DEFINE j == [kind |-> "create", result |-> "waiting"]
      <4>1. j \in CouponJobs /\ j.kind = "create" /\ j.result = "waiting"
        BY DEF CouponJobs
      <4>2. coupon' = [coupon EXCEPT ![c] = j]
        BY <3>3 DEF CreateCampaign
      <4> HIDE DEF j
      <4> QED BY <4>1, <4>2
    <3> QED BY <1>6, <3>1, <3>2, <3>3
  <2>3. PICK j \in CouponJobs :
          /\ coupon' = [coupon EXCEPT ![c] = j]
          /\ j.result = "waiting" /\ j.kind \in {"validate", "reserve", "create"}
          /\ j.kind = "reserve" =>
               /\ reservation[j.order] = "none"
               /\ \A d \in CouponCalls : Reserving(d) => coupon[d].order # j.order
    BY <2>2
  <2>4. /\ coupon'[c] = j /\ \A d \in CouponCalls \ {c} : coupon'[d] = coupon[d]
        /\ coupon' \in [CouponCalls -> CouponJobs \cup {NoCoupon}]
    BY <1>1, <2>3 DEF CampaignsTypeOK
  <2>5. CampaignsTypeOK'
    BY <1>1, <2>1, <2>4 DEF CampaignsTypeOK
  <2>6. \A set : Uses(set)' = Uses(set)
    BY <2>1 DEF Uses
  <2>7. ReservesHold'
    BY <1>1, <2>1, <2>3, <2>4, <2>6 DEF ReservesHold, Reserving, CouponJob, OrdersOf
  <2>8. ValidationsHold' /\ RefusalsCounted'
    BY <1>1, <2>1, <2>3, <2>4 DEF ValidationsHold, Validating, CouponJob, RefusalsCounted
  <2>9. UsesWithinLimits'
    BY <1>1, <2>6 DEF UsesWithinLimits, OrdersOf
  <2> QED BY <2>5, <2>7, <2>8, <2>9 DEF CouponInv
\* A request ends and wrote no reservation and no attempt.
<1>7. ASSUME NEW c \in CouponCalls,
             \/ InsertCampaign(c) \/ CouponFails(c)
             \/ \E matches \in BOOLEAN : ReserveForRequest(c, matches) /\ CouponEnds(c)
      PROVE  CouponInv'
  <2>1. /\ CouponEnds(c) /\ UNCHANGED <<reservation, rejected, refused, open, consent>>
        /\ campaign' \in {"none", "active", "paused"}
    BY <1>1, <1>7 DEF InsertCampaign, CouponFails, ReserveForRequest, CampaignsTypeOK
  <2> QED BY <2>1, CouponEndKeeps
\* A validation gets its answer.
<1>8. ASSUME NEW c \in CouponCalls, NEW matches \in BOOLEAN, ValidateCoupon(c, matches) PROVE CouponInv'
  <2> DEFINE w == coupon[c].who
             answer == IF rejected[w] >= AbuseLimit THEN "blocked" ELSE OfferResult(w, matches)
             j == [kind |-> "validate", who |-> w, result |-> answer]
  <2>1. /\ Validating(c) /\ coupon[c].result = "waiting" /\ ValidationFree(c)
        /\ coupon' = [coupon EXCEPT ![c].result = answer]
        /\ UNCHANGED <<campaign, open, consent, reservation, rejected, refused>>
    BY <1>8 DEF ValidateCoupon, Validating
  <2>2. /\ w \in Shoppers /\ coupon[c] \in CouponJobs
        /\ coupon[c] \in [kind : {"validate"}, who : Shoppers, result : Rejections \cup {"waiting", "accepted"}]
    BY <1>1, <2>1 DEF CampaignsTypeOK, CouponJobs, Validating, CouponJob
  <2>3. answer \in Rejections \cup {"accepted"} /\ (answer # "blocked" => ~(rejected[w] >= AbuseLimit))
    BY DEF OfferResult, Rejections
  <2>4. [coupon[c] EXCEPT !.result = answer] = j
    BY <2>2
  <2>5. coupon' = [coupon EXCEPT ![c] = j]
    BY <1>1, <2>1, <2>4 DEF CampaignsTypeOK
  <2>6. j \in CouponJobs /\ j.kind = "validate" /\ j.who = w /\ j.result = answer
    BY <2>2, <2>3 DEF CouponJobs
  <2> HIDE DEF j
  <2>7. /\ coupon'[c] = j /\ \A d \in CouponCalls \ {c} : coupon'[d] = coupon[d]
        /\ coupon' \in [CouponCalls -> CouponJobs \cup {NoCoupon}]
    BY <1>1, <2>5, <2>6 DEF CampaignsTypeOK
  <2>8. CampaignsTypeOK'
    BY <1>1, <2>1, <2>7 DEF CampaignsTypeOK
  <2>9. \A set : Uses(set)' = Uses(set)
    BY <2>1 DEF Uses
  <2>10. ReservesHold'
    <3>1. ASSUME NEW d \in CouponCalls, Reserving(d)' PROVE d # c /\ coupon'[d] = coupon[d] /\ Reserving(d)
      BY <2>6, <2>7, <3>1 DEF Reserving, CouponJob
    <3>2. UNCHANGED reservation
      BY <2>1
    <3> HIDE DEF answer
    <3> QED BY <1>1, <2>9, <3>1, <3>2 DEF ReservesHold, OrdersOf
  <2>11. rejected[w] \in Nat /\ AbuseLimit \in Nat
    BY <1>1, <2>2, CouponAssumption DEF CampaignsTypeOK
  <2>12. answer # "blocked" => rejected[w] < AbuseLimit
    BY <2>3, <2>11
  <2>13. ValidationsHold'
    <3> HIDE DEF answer
    <3>1. \A d \in CouponCalls \ {c} : Validating(d) /\ coupon[d].who = w => coupon[d].result = "waiting"
      BY <2>1 DEF ValidationFree, Validating
    <3>2. j # NoCoupon
      BY <2>6, NoCouponAssumption
    <3> QED BY <1>1, <2>1, <2>6, <2>7, <2>12, <3>1, <3>2 DEF ValidationsHold, Validating, CouponJob
  <2>14. RefusalsCounted' /\ UsesWithinLimits'
    BY <1>1, <2>1, <2>9 DEF RefusalsCounted, UsesWithinLimits, OrdersOf
  <2> QED BY <2>8, <2>10, <2>13, <2>14 DEF CouponInv
\* Its attempt is committed.
<1>9. ASSUME NEW c \in CouponCalls, CommitValidation(c) PROVE CouponInv'
  <2> DEFINE w == coupon[c].who
             more == IF rejected[w] < AbuseLimit THEN rejected[w] + 1 ELSE AbuseLimit
  <2>1. /\ Validating(c) /\ coupon[c].result # "waiting"
        /\ rejected' = IF coupon[c].result = "accepted" THEN rejected
                       ELSE [rejected EXCEPT ![w] = more]
        /\ refused' = IF coupon[c].result \in Rejections \ {"blocked"}
                      THEN [refused EXCEPT ![w] = refused[w] + 1] ELSE refused
        /\ CouponEnds(c) /\ UNCHANGED <<campaign, open, consent, reservation>>
    BY <1>1, <1>9, CouponJobFields DEF CommitValidation, Validating, CouponJob, CampaignsTypeOK
  <2>2. w \in Shoppers /\ coupon[c].result \in Rejections \cup {"accepted"}
    BY <1>1, <2>1, CouponJobFields DEF CampaignsTypeOK, Validating, CouponJob
  <2>3. rejected[w] \in 0..AbuseLimit /\ refused[w] \in Nat /\ AbuseLimit \in Nat /\ refused[w] <= rejected[w]
    BY <1>1, <2>2, CouponAssumption DEF CampaignsTypeOK, RefusalsCounted
  <2>4. more \in 0..AbuseLimit /\ rejected[w] <= more /\ (rejected[w] < AbuseLimit => more = rejected[w] + 1)
    BY <2>3
  <2> HIDE DEF more
  <2>5. /\ coupon'[c] = NoCoupon /\ \A d \in CouponCalls \ {c} : coupon'[d] = coupon[d]
        /\ coupon' \in [CouponCalls -> CouponJobs \cup {NoCoupon}]
    BY <1>1, <2>1 DEF CampaignsTypeOK, CouponEnds
  <2>6. rejected' \in [Shoppers -> 0..AbuseLimit] /\ \A v \in Shoppers \ {w} : rejected'[v] = rejected[v]
    BY <1>1, <2>1, <2>2, <2>4 DEF CampaignsTypeOK
  <2>7. refused' \in [Shoppers -> Nat] /\ \A v \in Shoppers \ {w} : refused'[v] = refused[v]
    BY <1>1, <2>1, <2>2, <2>3 DEF CampaignsTypeOK
  <2>8. CampaignsTypeOK'
    BY <1>1, <2>1, <2>5, <2>6, <2>7 DEF CampaignsTypeOK
  <2>9. \A set : Uses(set)' = Uses(set)
    BY <2>1 DEF Uses
  <2>10. ReservesHold'
    BY <1>1, <2>1, <2>5, <2>9 DEF ReservesHold, Reserving, CouponJob, OrdersOf
  <2>11. ValidationsHold'
    BY <1>1, <2>1, <2>5, <2>6 DEF ValidationsHold, Validating, CouponJob
  <2>12. refused'[w] <= rejected'[w]
    <3>1. CASE coupon[c].result \in Rejections \ {"blocked"}
      <4>1. rejected[w] < AbuseLimit
        BY <1>1, <2>1, <3>1 DEF ValidationsHold
      <4>2. rejected'[w] = more /\ refused'[w] = refused[w] + 1
        BY <1>1, <2>1, <2>2, <3>1 DEF CampaignsTypeOK, Rejections
      <4> QED BY <2>3, <2>4, <4>1, <4>2
    <3>2. CASE coupon[c].result \notin Rejections \ {"blocked"}
      <4>1. refused'[w] = refused[w] /\ rejected'[w] \in {rejected[w], more}
        BY <1>1, <2>1, <2>2, <3>2 DEF CampaignsTypeOK
      <4> QED BY <2>3, <2>4, <4>1
    <3> QED BY <3>1, <3>2
  <2>13. RefusalsCounted'
    BY <1>1, <2>6, <2>7, <2>12 DEF RefusalsCounted
  <2>14. UsesWithinLimits'
    BY <1>1, <2>9 DEF UsesWithinLimits, OrdersOf
  <2> QED BY <2>8, <2>10, <2>11, <2>13, <2>14 DEF CouponInv
\* A request holds the code, and has counted.
<1>10. ASSUME NEW c \in CouponCalls, NEW matches \in BOOLEAN, ReserveForRequest(c, matches), ~CouponEnds(c)
       PROVE  CouponInv'
  <2> DEFINE o == coupon[c].order
             j == [kind |-> "reserve", order |-> o, result |-> "accepted"]
  <2>1. /\ Reserving(c) /\ coupon[c].result = "waiting" /\ CodeFree(c)
        /\ OfferResult(OrderOwner(o), matches) = "accepted"
        /\ coupon' = [coupon EXCEPT ![c].result = "accepted"]
        /\ UNCHANGED <<campaign, open, consent, reservation, rejected, refused>>
    BY <1>10 DEF ReserveForRequest, Reserving
  <2>2. /\ o \in Orders /\ coupon[c] \in CouponJobs
        /\ coupon[c] \in [kind : {"reserve"}, order : Orders, result : {"waiting", "accepted"}]
    BY <1>1, <2>1 DEF CampaignsTypeOK, CouponJobs, Reserving, CouponJob
  <2>3. [coupon[c] EXCEPT !.result = "accepted"] = j
    BY <2>2
  <2>4. coupon' = [coupon EXCEPT ![c] = j]
    BY <1>1, <2>1, <2>3 DEF CampaignsTypeOK
  <2>5. j \in CouponJobs /\ j.kind = "reserve" /\ j.order = o /\ j.result = "accepted"
    BY <2>2 DEF CouponJobs
  <2> HIDE DEF j
  <2>6. /\ coupon'[c] = j /\ \A d \in CouponCalls \ {c} : coupon'[d] = coupon[d]
        /\ coupon' \in [CouponCalls -> CouponJobs \cup {NoCoupon}]
    BY <1>1, <2>4, <2>5 DEF CampaignsTypeOK
  <2>7. CampaignsTypeOK'
    BY <1>1, <2>1, <2>6 DEF CampaignsTypeOK
  <2>8. \A set : Uses(set)' = Uses(set)
    BY <2>1 DEF Uses
  <2>9. Uses(Orders) < TotalLimit /\ Uses(OrdersOf(OrderOwner(o))) < CustomerLimit
    <3>1. Uses(Orders) \in Nat /\ Uses(OrdersOf(OrderOwner(o))) \in Nat
      BY UsesCount, CustomersOrders
    <3>2. ~(Uses(Orders) >= TotalLimit) /\ ~(Uses(OrdersOf(OrderOwner(o))) >= CustomerLimit)
      BY <2>1 DEF OfferResult
    <3> QED BY <3>1, <3>2, CouponAssumption
  <2>10. \A d \in CouponCalls \ {c} : Reserving(d) => coupon[d].result = "waiting"
    BY <1>1, <2>1, CouponJobFields DEF CodeFree, Reserving, CouponJob, CampaignsTypeOK
  <2>11. reservation[o] = "none" /\ \A d \in CouponCalls \ {c} : Reserving(d) => coupon[d].order # o
    BY <1>1, <2>1, <2>2 DEF ReservesHold
  <2>12. ReservesHold'
    <3>1. SUFFICES ASSUME NEW d \in CouponCalls, NEW p \in Orders, Reserving(d)', coupon'[d].order = p
          PROVE /\ reservation[p] = "none"
                /\ \A e \in CouponCalls \ {d} : Reserving(e)' => coupon'[e].order # p
                /\ coupon'[d].result = "accepted" =>
                     /\ Uses(Orders) < TotalLimit
                     /\ Uses(OrdersOf(OrderOwner(p))) < CustomerLimit
                     /\ \A e \in CouponCalls \ {d} : Reserving(e)' => coupon'[e].result = "waiting"
      BY <2>1, <2>8 DEF ReservesHold, OrdersOf
    <3>2. CASE d = c
      <4>1. p = o
        BY <2>5, <2>6, <3>1, <3>2
      <4> QED BY <2>6, <2>9, <2>10, <2>11, <3>2, <4>1 DEF Reserving, CouponJob
    <3>3. CASE d # c
      <4>1. coupon'[d] = coupon[d] /\ Reserving(d)
        BY <2>6, <3>1, <3>3 DEF Reserving, CouponJob
      <4>2. coupon[d].result = "waiting"
        BY <2>10, <3>3, <4>1
      <4> QED BY <1>1, <2>1, <2>5, <2>6, <3>1, <3>3, <4>1, <4>2 DEF ReservesHold, Reserving, CouponJob
    <3> QED BY <3>2, <3>3
  <2>13. ValidationsHold'
    BY <1>1, <2>1, <2>5, <2>6 DEF ValidationsHold, Validating, CouponJob
  <2>14. RefusalsCounted' /\ UsesWithinLimits'
    BY <1>1, <2>1, <2>8 DEF RefusalsCounted, UsesWithinLimits, OrdersOf
  <2> QED BY <2>7, <2>12, <2>13, <2>14 DEF CouponInv
\* Its reservation is committed.
<1>11. ASSUME NEW c \in CouponCalls, CommitReservation(c) PROVE CouponInv'
  <2>1. PICK o \in Orders : coupon[c].order = o
    BY <1>1, <1>11, CouponJobFields DEF CampaignsTypeOK, CommitReservation, CouponJob
  <2>2. /\ Reserving(c) /\ coupon[c].result = "accepted"
        /\ reservation' = [reservation EXCEPT ![o] = "reserved"]
        /\ CouponEnds(c) /\ UNCHANGED <<campaign, open, consent, rejected, refused>>
    BY <1>11, <2>1 DEF CommitReservation, Reserving
  <2>3. /\ coupon'[c] = NoCoupon /\ \A d \in CouponCalls \ {c} : coupon'[d] = coupon[d]
        /\ coupon' \in [CouponCalls -> CouponJobs \cup {NoCoupon}]
    BY <1>1, <2>2 DEF CampaignsTypeOK, CouponEnds
  <2>4. CampaignsTypeOK'
    BY <1>1, <2>2, <2>3 DEF CampaignsTypeOK
  <2>5. /\ Uses(Orders) < TotalLimit
        /\ Uses(OrdersOf(OrderOwner(o))) < CustomerLimit
        /\ \A d \in CouponCalls \ {c} : Reserving(d) => coupon[d].result = "waiting"
        /\ \A d \in CouponCalls \ {c} : Reserving(d) => coupon[d].order # o
    BY <1>1, <2>1, <2>2 DEF ReservesHold
  <2>6. ReservesHold'
    <3>1. SUFFICES ASSUME NEW d \in CouponCalls, NEW p \in Orders, Reserving(d)', coupon'[d].order = p
          PROVE /\ reservation'[p] = "none"
                /\ \A e \in CouponCalls \ {d} : Reserving(e)' => coupon'[e].order # p
                /\ coupon'[d].result # "accepted"
      BY DEF ReservesHold
    <3>2. d # c /\ coupon'[d] = coupon[d] /\ Reserving(d)
      BY <2>3, <3>1 DEF Reserving, CouponJob
    <3>3. p # o /\ coupon[d].result = "waiting"
      BY <2>5, <3>1, <3>2
    <3>4. reservation[p] = "none" /\ \A e \in CouponCalls \ {d} : Reserving(e) => coupon[e].order # p
      BY <1>1, <3>1, <3>2 DEF ReservesHold
    <3>5. reservation'[p] = "none"
      BY <1>1, <2>2, <3>3, <3>4 DEF CampaignsTypeOK
    <3> QED BY <2>3, <3>2, <3>3, <3>4, <3>5 DEF Reserving, CouponJob
  <2>7. ValidationsHold' /\ RefusalsCounted'
    BY <1>1, <2>2, <2>3 DEF ValidationsHold, Validating, CouponJob, RefusalsCounted
  <2>8. UsesWithinLimits'
    <3>1. ASSUME NEW set \in SUBSET Orders
          PROVE  /\ Uses(set)' <= Uses(set) + 1 /\ (o \notin set => Uses(set)' = Uses(set))
                 /\ Uses(set)' \in Nat /\ Uses(set) \in Nat
      BY <1>1, <2>2, UsesGrow, UsesCount
    <3>2. Uses(Orders)' <= TotalLimit
      BY <2>5, <3>1, CouponAssumption
    <3>3. ASSUME NEW w \in Shoppers PROVE Uses(OrdersOf(w))' <= CustomerLimit
      <4>1. /\ Uses(OrdersOf(w))' <= Uses(OrdersOf(w)) + 1
            /\ (o \notin OrdersOf(w) => Uses(OrdersOf(w))' = Uses(OrdersOf(w)))
            /\ Uses(OrdersOf(w))' \in Nat /\ Uses(OrdersOf(w)) \in Nat
        BY <3>1, CustomersOrders DEF OrdersOf
      <4>2. CASE w = OrderOwner(o)
        <5>1. Uses(OrdersOf(w)) < CustomerLimit
          BY <2>5, <4>2
        <5> QED BY <4>1, <5>1, CouponAssumption
      <4>3. CASE w # OrderOwner(o)
        <5>1. o \notin OrdersOf(w) /\ Uses(OrdersOf(w)) <= CustomerLimit
          BY <1>1, <4>3 DEF OrdersOf, UsesWithinLimits
        <5> QED BY <4>1, <5>1
      <4> QED BY <4>2, <4>3
    <3> QED BY <3>2, <3>3 DEF UsesWithinLimits
  <2> QED BY <2>4, <2>6, <2>7, <2>8 DEF CouponInv
<1> QED BY <1>2, <1>3, <1>4, <1>5, <1>6, <1>7, <1>8, <1>9, <1>10, <1>11 DEF CampaignsNext
-----------------------------------------------------------------------------
(* Sessions *)

Flying(t) == authFlight[t] # NoFlight
Started(s) == s # 0 => session[s].status # "unused"

\* A revocation this request depends on is behind it.
HasRevoked(f) ==
  \/ f.kind = "enter" /\ f.at \in {"revoked", "answered"}
  \/ f.kind = "leave" /\ f.at = "answered"
  \/ f.kind = "load" /\ f.at = "answered" /\ ~f.ok

\* What is known of a request on its way: its sessions were started, the one it
\* carried ended or is counted lost, and a call asks for what its tab shows or a route that
\* is shared, and was let in under a session of a role it allows.
FlightHolds(f) ==
  /\ Started(f.token) /\ Started(f.made)
  /\ HasRevoked(f) => f.token \in stray \/ ~Live(f.token)
  /\ f.kind = "act" => f.allowed = {f.role} \/ f.allowed \in SharedLists
  /\ f.kind = "act" /\ (f.at = "authorized" \/ (f.at = "answered" /\ f.ok)) =>
       f.token # 0 /\ session[f.token].role \in f.allowed

FlightsHold == \A t \in Tabs : Flying(t) => FlightHolds(authFlight[t])

\* The answer to an entry that brings the browser a session.
Brings(t, s) ==
  /\ Flying(t) /\ authFlight[t].kind = "enter" /\ authFlight[t].at = "answered" /\ authFlight[t].ok
  /\ authFlight[t].made = s

LiveOnesKnown == \A s \in Tokens : Live(s) => s = cookie \/ s \in stray \/ \E t \in Tabs : Brings(t, s)

SessionInv == SessionsTypeOK /\ Started(cookie) /\ FlightsHold /\ LiveOnesKnown

LEMMA SessionProperties == SessionInv => SessionsHold
<1> SUFFICES ASSUME SessionInv PROVE SessionsHold
  OBVIOUS
<1>1. CallsRunAsAllowed
  BY DEF SessionInv, FlightsHold, FlightHolds, CallsRunAsAllowed, FlightAt, Flying
<1>2. SessionsAccountedFor
  BY DEF SessionInv, LiveOnesKnown, SessionsAccountedFor, Brings, Flying
<1> QED BY <1>1, <1>2 DEF SessionsHold

LEMMA SessionInitInv == SessionsInit => SessionInv
<1> SUFFICES ASSUME SessionsInit PROVE SessionInv
  OBVIOUS
<1>1. SessionsTypeOK
  BY SessionsAssumption DEF SessionsInit, SessionsTypeOK, SessionRows, SessionRoles
<1>2. Started(cookie) /\ FlightsHold /\ LiveOnesKnown
  BY DEF SessionsInit, Started, FlightsHold, Flying, LiveOnesKnown, Live
<1> QED BY <1>1, <1>2 DEF SessionInv

\* Sessions grow old: they start once, in one role, and end once.
SessionsAge ==
  /\ stray \subseteq stray'
  /\ \A s \in Tokens : session[s].status # "unused" =>
       /\ session'[s].status # "unused" /\ session'[s].role = session[s].role
       /\ session'[s].status = "live" => session[s].status = "live"

LEMMA FlightStays ==
  ASSUME SessionsTypeOK, SessionsAge, NEW f \in SessionFlights, FlightHolds(f)
  PROVE  FlightHolds(f)'
<1>1. f.token \in 0..MaxSessions /\ f.made \in 0..MaxSessions
  BY DEF SessionFlights
<1>2. (f.token = 0 \/ f.token \in Tokens) /\ (f.made = 0 \/ f.made \in Tokens)
  BY <1>1, SessionsAssumption DEF Tokens
<1>3. Started(f.token)' /\ Started(f.made)'
  BY <1>2 DEF SessionsAge, FlightHolds, Started
<1>4. HasRevoked(f) => f.token \in stray' \/ ~Live(f.token)'
  BY <1>2 DEF SessionsAge, FlightHolds, Started, Live
<1> QED BY <1>2, <1>3, <1>4 DEF SessionsAge, FlightHolds, Started, HasRevoked

\* The request of one tab moves, or ends; the sessions grow old.
LEMMA OneFlightMoves ==
  ASSUME SessionInv, SessionsTypeOK', SessionsAge, NEW t \in Tabs,
         \A u \in Tabs \ {t} : authFlight'[u] = authFlight[u],
         Flying(t)' => FlightHolds(authFlight[t])'
  PROVE  FlightsHold'
<1> SUFFICES ASSUME NEW u \in Tabs \ {t}, Flying(u)' PROVE FlightHolds(authFlight[u])'
  BY DEF FlightsHold
<1>1. PICK f \in SessionFlights : f = authFlight[u]
  BY DEF SessionInv, SessionsTypeOK, Flying
<1>2. FlightHolds(f) /\ authFlight'[u] = f
  BY <1>1 DEF SessionInv, FlightsHold, Flying
<1>3. FlightHolds(f)'
  BY <1>2, FlightStays DEF SessionInv
<1> QED BY <1>2, <1>3

LEMMA EndsAge ==
  ASSUME SessionInv, NEW s \in 0..MaxSessions, session' = Ended(s), stray \subseteq stray'
  PROVE  /\ session' \in [Tokens -> SessionRows] /\ SessionsAge /\ ~Live(s)'
         /\ \A r \in Tokens : Live(r)' => Live(r)
<1>1. CASE ~Live(s)
  BY <1>1 DEF Ended, Live, SessionInv, SessionsTypeOK, SessionsAge
<1>2. CASE Live(s)
  <2>1. s \in Tokens
    BY <1>2, SessionsAssumption DEF Live, Tokens
  <2> DEFINE row == [role |-> session[s].role, status |-> "ended"]
  <2>2. session[s] \in SessionRows
    BY <2>1 DEF SessionInv, SessionsTypeOK
  <2>3. [session[s] EXCEPT !.status = "ended"] = row
    BY <2>2 DEF SessionRows
  <2>4. session' = [session EXCEPT ![s] = row]
    BY <1>2, <2>1, <2>3 DEF Ended, SessionInv, SessionsTypeOK
  <2>5. row \in SessionRows /\ row.status = "ended" /\ row.role = session[s].role
    BY <2>2 DEF SessionRows
  <2> HIDE DEF row
  <2> QED BY <2>1, <2>4, <2>5 DEF SessionInv, SessionsTypeOK, SessionsAge, Live
<1> QED BY <1>1, <1>2

LEMMA AnswerMoves ==
  ASSUME SessionInv, NEW t \in Tabs, Flying(t), NEW made \in 0..MaxSessions, NEW ok \in BOOLEAN,
         AnswersFlight(t, made, ok)
  PROVE  /\ \A u \in Tabs \ {t} : authFlight'[u] = authFlight[u]
         /\ authFlight' \in [Tabs -> SessionFlights \cup {NoFlight}]
         /\ authFlight'[t] \in SessionFlights
         /\ authFlight'[t].kind = authFlight[t].kind /\ authFlight'[t].role = authFlight[t].role
         /\ authFlight'[t].token = authFlight[t].token /\ authFlight'[t].allowed = authFlight[t].allowed
         /\ authFlight'[t].at = "answered" /\ authFlight'[t].made = made /\ authFlight'[t].ok = ok
<1> DEFINE f == authFlight[t]
           g == [kind |-> f.kind, role |-> f.role, allowed |-> f.allowed, token |-> f.token, made |-> made, ok |-> ok,
                 at |-> "answered"]
<1>1. f \in SessionFlights
  BY DEF SessionInv, SessionsTypeOK, Flying
<1>2. authFlight' = [authFlight EXCEPT ![t] = g]
  <2>1. [f EXCEPT !.at = "answered", !.made = made, !.ok = ok] = g
    <3>1. f = [kind |-> f.kind, role |-> f.role, allowed |-> f.allowed, token |-> f.token, made |-> f.made, ok |-> f.ok,
               at |-> f.at]
      BY <1>1 DEF SessionFlights
    <3>2. [f EXCEPT !.at = "answered", !.made = made, !.ok = ok]
            = [[[f EXCEPT !.at = "answered"] EXCEPT !.made = made] EXCEPT !.ok = ok]
      OBVIOUS
    <3>3. [f EXCEPT !.at = "answered"] = [kind |-> f.kind, role |-> f.role, allowed |-> f.allowed, token |-> f.token,
             made |-> f.made, ok |-> f.ok, at |-> "answered"]
      BY <1>1 DEF SessionFlights
    <3> DEFINE f1 == [kind |-> f.kind, role |-> f.role, allowed |-> f.allowed, token |-> f.token,
                      made |-> f.made, ok |-> f.ok, at |-> "answered"]
               f2 == [kind |-> f.kind, role |-> f.role, allowed |-> f.allowed, token |-> f.token,
                      made |-> made, ok |-> f.ok, at |-> "answered"]
    <3>4. [f1 EXCEPT !.made = made] = f2
      OBVIOUS
    <3>5. [f2 EXCEPT !.ok = ok] = g
      OBVIOUS
    <3> QED BY <3>2, <3>3, <3>4, <3>5
  <2>2. authFlight' = [authFlight EXCEPT ![t] = [f EXCEPT !.at = "answered", !.made = made, !.ok = ok]]
    BY DEF AnswersFlight, SessionInv, SessionsTypeOK
  <2> QED BY <2>1, <2>2
<1>3. /\ g \in SessionFlights /\ g.kind = f.kind /\ g.role = f.role /\ g.token = f.token
      /\ g.allowed = f.allowed
      /\ g.at = "answered" /\ g.made = made /\ g.ok = ok
  BY <1>1 DEF SessionFlights
<1> HIDE DEF g
<1> QED BY <1>2, <1>3 DEF SessionInv, SessionsTypeOK

LEMMA AtMoves ==
  ASSUME SessionInv, NEW t \in Tabs, Flying(t), NEW at \in {"revoked", "authorized"},
         authFlight' = [authFlight EXCEPT ![t].at = at]
  PROVE  /\ \A u \in Tabs \ {t} : authFlight'[u] = authFlight[u]
         /\ authFlight' \in [Tabs -> SessionFlights \cup {NoFlight}]
         /\ authFlight'[t] \in SessionFlights
         /\ authFlight'[t].kind = authFlight[t].kind /\ authFlight'[t].role = authFlight[t].role
         /\ authFlight'[t].token = authFlight[t].token /\ authFlight'[t].made = authFlight[t].made
         /\ authFlight'[t].allowed = authFlight[t].allowed
         /\ authFlight'[t].at = at /\ authFlight'[t].ok = authFlight[t].ok
<1> DEFINE f == authFlight[t]
           g == [kind |-> f.kind, role |-> f.role, allowed |-> f.allowed, token |-> f.token, made |-> f.made, ok |-> f.ok,
                 at |-> at]
<1>1. f \in SessionFlights
  BY DEF SessionInv, SessionsTypeOK, Flying
<1>2. authFlight' = [authFlight EXCEPT ![t] = g]
  <2>1. [f EXCEPT !.at = at] = g
    BY <1>1 DEF SessionFlights
  <2>2. authFlight' = [authFlight EXCEPT ![t] = [f EXCEPT !.at = at]]
    BY DEF SessionInv, SessionsTypeOK
  <2> QED BY <2>1, <2>2
<1>3. /\ g \in SessionFlights /\ g.kind = f.kind /\ g.role = f.role /\ g.token = f.token
      /\ g.allowed = f.allowed
      /\ g.at = at /\ g.made = f.made /\ g.ok = f.ok
  BY <1>1 DEF SessionFlights
<1> HIDE DEF g
<1> QED BY <1>2, <1>3 DEF SessionInv, SessionsTypeOK

LEMMA SessionNextKeeps == SessionInv /\ [SessionsNext]_sessionVars => SessionInv'
<1> SUFFICES ASSUME SessionInv, [SessionsNext]_sessionVars PROVE SessionInv'
  OBVIOUS
<1>1. SessionsTypeOK /\ Started(cookie) /\ FlightsHold /\ LiveOnesKnown
  BY DEF SessionInv
<1>2. CASE UNCHANGED sessionVars
  <2>1. SessionsAge /\ SessionsTypeOK'
    BY <1>1, <1>2 DEF sessionVars, SessionsAge, SessionsTypeOK
  <2>2. FlightsHold'
    BY <1>1, <1>2 DEF sessionVars, FlightsHold, FlightHolds, HasRevoked, Started, Live, Flying
  <2> QED BY <1>1, <1>2, <2>1, <2>2 DEF sessionVars, SessionInv, Started, LiveOnesKnown, Live, Brings, Flying
<1>3. \A t \in Tabs : Flying(t) =>
        /\ authFlight[t] \in SessionFlights /\ FlightHolds(authFlight[t])
        /\ authFlight[t].token \in 0..MaxSessions /\ authFlight[t].made \in 0..MaxSessions
        /\ authFlight[t].token = 0 \/ authFlight[t].token \in Tokens
        /\ authFlight[t].made = 0 \/ authFlight[t].made \in Tokens
  BY <1>1, SessionsAssumption DEF SessionsTypeOK, Flying, FlightsHold, SessionFlights, Tokens
<1>4. 0 \in 0..MaxSessions /\ Tokens \subseteq 0..MaxSessions /\ 0 \notin Tokens
  BY SessionsAssumption DEF Tokens
\* A session expires.
<1>5. ASSUME NEW s \in Tokens, SessionExpires(s) PROVE SessionInv'
  <2>1. /\ Live(s) /\ session' = Ended(s) /\ cookie' = IF cookie = s THEN 0 ELSE cookie
        /\ UNCHANGED <<tabRole, authFlight, stray>>
    BY <1>5 DEF SessionExpires
  <2>2. /\ session' \in [Tokens -> SessionRows] /\ SessionsAge /\ ~Live(s)'
        /\ \A r \in Tokens : Live(r)' => Live(r)
    BY <1>4, <2>1, EndsAge
  <2>3. SessionsTypeOK'
    BY <1>1, <1>4, <2>1, <2>2 DEF SessionsTypeOK
  <2>4. FlightsHold'
    <3>1. SUFFICES ASSUME NEW u \in Tabs, Flying(u) PROVE FlightHolds(authFlight[u])'
      BY <2>1 DEF FlightsHold, Flying
    <3>2. PICK f \in SessionFlights : f = authFlight[u] /\ FlightHolds(f)
      BY <1>3, <3>1
    <3>3. FlightHolds(f)'
      BY <1>1, <2>2, <3>2, FlightStays
    <3> QED BY <2>1, <3>2, <3>3
  <2>5. Started(cookie)'
    BY <1>1, <1>4, <2>1, <2>2 DEF Started, SessionsAge, SessionsTypeOK, Tokens
  <2>6. LiveOnesKnown'
    BY <1>1, <2>1, <2>2 DEF LiveOnesKnown, Brings, Flying, Live
  <2> QED BY <2>3, <2>4, <2>5, <2>6 DEF SessionInv
\* A session is created: its tab is answered with it.
<1>6. ASSUME NEW s \in Tokens, NEW t \in Tabs, InsertSession(t, s) PROVE SessionInv'
  <2> DEFINE row == [role |-> authFlight[t].role, status |-> "live"]
  <2>1. /\ Flying(t) /\ authFlight[t].kind = "enter" /\ authFlight[t].at = "revoked"
        /\ session[s].status = "unused" /\ session' = [session EXCEPT ![s] = row]
        /\ AnswersFlight(t, s, TRUE) /\ UNCHANGED <<cookie, tabRole, stray>>
    BY <1>6 DEF InsertSession, FlightAt, Flying
  <2>2. row \in SessionRows /\ row.status = "live"
    BY <1>3, <2>1 DEF SessionRows, SessionFlights
  <2> HIDE DEF row
  <2>3. /\ session' \in [Tokens -> SessionRows] /\ session'[s] = row
        /\ \A r \in Tokens \ {s} : session'[r] = session[r]
    BY <1>1, <2>1, <2>2 DEF SessionsTypeOK
  <2>4. SessionsAge
    BY <2>1, <2>3 DEF SessionsAge
  <2>5. /\ \A u \in Tabs \ {t} : authFlight'[u] = authFlight[u]
        /\ authFlight' \in [Tabs -> SessionFlights \cup {NoFlight}]
        /\ authFlight'[t] \in SessionFlights
        /\ authFlight'[t].kind = "enter" /\ authFlight'[t].token = authFlight[t].token
        /\ authFlight'[t].at = "answered" /\ authFlight'[t].made = s /\ authFlight'[t].ok = TRUE
    BY <1>4, <2>1, AnswerMoves
  <2>6. SessionsTypeOK'
    BY <1>1, <2>1, <2>3, <2>5 DEF SessionsTypeOK
  <2>7. FlightHolds(authFlight[t])'
    <3>1. Started(authFlight[t].made)' /\ Started(authFlight[t].token)'
      BY <1>3, <2>1, <2>2, <2>3, <2>4, <2>5 DEF FlightHolds, Started, SessionsAge
    <3>2. authFlight[t].token \in stray \/ ~Live(authFlight[t].token)
      BY <1>3, <2>1 DEF FlightHolds, HasRevoked
    <3>3. authFlight'[t].token \in stray' \/ ~Live(authFlight[t].token)'
      BY <1>3, <2>1, <2>3, <2>4, <2>5, <3>2 DEF Live, FlightHolds, Started, SessionsAge
    <3> QED BY <2>5, <3>1, <3>3 DEF FlightHolds
  <2>8. FlightsHold'
    BY <2>4, <2>5, <2>6, <2>7, OneFlightMoves
  <2>9. Started(cookie)'
    BY <1>1, <1>4, <2>1, <2>4, SessionsAssumption DEF Started, SessionsAge, SessionsTypeOK, Tokens
  <2>10. LiveOnesKnown'
    <3>1. Flying(t)'
      BY <2>5, SessionsAssumption DEF Flying
    <3>2. Brings(t, s)'
      BY <2>5, <3>1 DEF Brings
    <3>3. ASSUME NEW r \in Tokens \ {s}, Live(r)'
          PROVE  r = cookie' \/ r \in stray' \/ \E u \in Tabs : Brings(u, r)'
      <4>1. Live(r)
        BY <2>3, <3>3 DEF Live
      <4>2. ASSUME NEW u \in Tabs, Brings(u, r) PROVE Brings(u, r)'
        <5>1. u # t
          BY <2>1, <4>2 DEF Brings
        <5> QED BY <2>5, <4>2, <5>1 DEF Brings, Flying
      <4> QED BY <1>1, <2>1, <4>1, <4>2 DEF LiveOnesKnown
    <3> QED BY <3>2, <3>3 DEF LiveOnesKnown
  <2> QED BY <2>6, <2>8, <2>9, <2>10 DEF SessionInv
\* A tab sends a request.
<1>7. ASSUME NEW t \in Tabs,
             \/ \E r \in DemoRoles : ChangeRole(t, r)
             \/ SignOut(t) \/ LoadPage(t) \/ CallApi(t)
      PROVE  SessionInv'
  <2>1. PICK kind \in {"enter", "leave", "load", "act"}, role \in SessionRoles, allowed \in SUBSET DemoRoles :
           /\ Sends(t, kind, role, allowed)
           /\ kind = "act" => allowed = {role} \/ allowed \in SharedLists
    <3>1. \E role \in SessionRoles : Sends(t, "enter", role, {}) \/ Sends(t, "leave", role, {})
            \/ Sends(t, "load", role, {})
          \/ CallApi(t)
      BY <1>7 DEF ChangeRole, SignOut, LoadPage, SessionRoles
    <3>2. CASE CallApi(t)
      <4>1. PICK allowed : /\ Sends(t, "act", tabRole[t], allowed) /\ tabRole[t] # "out"
                           /\ allowed = {tabRole[t]} \/ allowed \in SharedLists
        BY <3>2 DEF CallApi
      <4>2. tabRole[t] \in SessionRoles /\ tabRole[t] \in DemoRoles
        BY <1>1, <4>1 DEF SessionsTypeOK, SessionRoles
      <4>3. allowed \in SUBSET DemoRoles
        BY <4>1, <4>2, SessionsAssumption
      <4> QED BY <4>1, <4>2, <4>3
    <3>3. CASE ~CallApi(t)
      BY <3>1, <3>3
    <3> QED BY <3>2, <3>3
  <2>2. tabRole' \in [Tabs -> SessionRoles]
    BY <1>1, <1>7 DEF ChangeRole, SignOut, LoadPage, CallApi, SessionRoles, SessionsTypeOK
  <2> DEFINE f == [kind |-> kind, role |-> role, allowed |-> allowed, token |-> cookie, at |-> "sent",
                   made |-> 0, ok |-> FALSE]
  <2>3. authFlight[t] = NoFlight /\ authFlight' = [authFlight EXCEPT ![t] = f]
        /\ UNCHANGED <<session, cookie, stray>>
    BY <2>1 DEF Sends
  <2>4. /\ f \in SessionFlights /\ f.token = cookie /\ f.made = 0 /\ f.at = "sent" /\ f.ok = FALSE
        /\ f.kind = kind /\ f.role = role /\ f.allowed = allowed
    BY <1>1, <1>4 DEF SessionFlights, SessionsTypeOK
  <2> HIDE DEF f
  <2>5. /\ authFlight'[t] = f /\ \A u \in Tabs \ {t} : authFlight'[u] = authFlight[u]
        /\ authFlight' \in [Tabs -> SessionFlights \cup {NoFlight}]
    BY <1>1, <2>3, <2>4 DEF SessionsTypeOK
  <2>6. SessionsTypeOK' /\ SessionsAge
    BY <1>1, <2>2, <2>3, <2>5 DEF SessionsTypeOK, SessionsAge
  <2>7. FlightHolds(authFlight[t])'
    BY <1>1, <2>1, <2>3, <2>4, <2>5 DEF FlightHolds, HasRevoked, Started
  <2>8. FlightsHold'
    BY <2>5, <2>6, <2>7, OneFlightMoves
  <2>9. LiveOnesKnown'
    <3>1. \A u \in Tabs, s \in Tokens : Brings(u, s) => Brings(u, s)'
      BY <2>3, <2>5 DEF Brings, Flying
    <3> QED BY <1>1, <2>3, <3>1 DEF LiveOnesKnown, Live
  <2> QED BY <1>1, <2>3, <2>6, <2>8, <2>9 DEF SessionInv, Started
\* A route revokes, resolves, refuses or runs: the request of its tab goes on, and
\* no session starts.
<1>8. ASSUME NEW t \in Tabs, Flying(t), authFlight[t].at # "answered",
             authFlight' \in [Tabs -> SessionFlights \cup {NoFlight}],
             authFlight'[t] \in SessionFlights,
             \A u \in Tabs \ {t} : authFlight'[u] = authFlight[u],
             UNCHANGED <<cookie, tabRole>>, session' \in [Tokens -> SessionRows], SessionsAge,
             stray' \subseteq Tokens,
             \A r \in Tokens : Live(r)' => Live(r), FlightHolds(authFlight[t])'
      PROVE  SessionInv'
  <2>1. SessionsTypeOK'
    BY <1>1, <1>8 DEF SessionsTypeOK
  <2>2. FlightsHold'
    BY <1>8, <2>1, OneFlightMoves
  <2>3. Started(cookie)'
    BY <1>1, <1>4, <1>8, SessionsAssumption DEF Started, SessionsAge, SessionsTypeOK, Tokens
  <2>4. \A u \in Tabs, s \in Tokens : Brings(u, s) => Brings(u, s)'
    BY <1>8 DEF Brings, Flying
  <2>5. LiveOnesKnown'
    BY <1>1, <1>8, <2>4 DEF LiveOnesKnown, SessionsAge
  <2> QED BY <2>1, <2>2, <2>3, <2>5 DEF SessionInv
<1>9. ASSUME NEW t \in Tabs, RevokePrevious(t) PROVE SessionInv'
  <2>0. PICK token \in 0..MaxSessions : token = authFlight[t].token /\ (token = 0 \/ token \in Tokens)
    BY <1>3, <1>9 DEF RevokePrevious, FlightAt, Flying
  <2>1. /\ Flying(t) /\ authFlight[t].kind = "enter" /\ authFlight[t].at = "sent"
        /\ authFlight' = [authFlight EXCEPT ![t].at = "revoked"] /\ UNCHANGED <<cookie, tabRole>>
        /\ \/ session' = Ended(token) /\ UNCHANGED stray
           \/ Live(token) /\ stray' = stray \cup {token} /\ UNCHANGED session
    BY <2>0, <1>9 DEF RevokePrevious, FlightAt, Flying
  <2>2. /\ \A u \in Tabs \ {t} : authFlight'[u] = authFlight[u]
        /\ authFlight' \in [Tabs -> SessionFlights \cup {NoFlight}]
        /\ authFlight'[t] \in SessionFlights
        /\ authFlight'[t].kind = "enter" /\ authFlight'[t].token = token
        /\ authFlight'[t].made = authFlight[t].made
    BY <2>0, <2>1, AtMoves
  <2>3. /\ session' \in [Tokens -> SessionRows] /\ SessionsAge /\ stray' \subseteq Tokens
        /\ \A r \in Tokens : Live(r)' => Live(r)
        /\ token \in stray' \/ ~Live(token)'
    <3>1. CASE session' = Ended(token) /\ UNCHANGED stray
      BY <1>1, <2>1, <3>1, EndsAge DEF SessionsTypeOK
    <3>2. CASE Live(token) /\ stray' = stray \cup {token} /\ UNCHANGED session
      BY <1>1, <2>0, <2>1, <3>2 DEF SessionsTypeOK, SessionsAge, Live
    <3> QED BY <2>1, <3>1, <3>2
  <2>4. FlightHolds(authFlight[t])'
    BY <1>3, <2>0, <2>1, <2>2, <2>3 DEF FlightHolds, Started, SessionsAge
  <2> QED BY <1>8, <2>1, <2>2, <2>3, <2>4
<1>10. ASSUME NEW t \in Tabs, RevokeCurrent(t) PROVE SessionInv'
  <2>0. PICK token \in 0..MaxSessions : token = authFlight[t].token /\ (token = 0 \/ token \in Tokens)
    BY <1>3, <1>10 DEF RevokeCurrent, FlightAt, Flying
  <2>1. /\ Flying(t) /\ authFlight[t].kind = "leave" /\ authFlight[t].at = "sent"
        /\ AnswersFlight(t, 0, TRUE) /\ UNCHANGED <<cookie, tabRole>>
        /\ \/ session' = Ended(token) /\ UNCHANGED stray
           \/ Live(token) /\ stray' = stray \cup {token} /\ UNCHANGED session
    BY <2>0, <1>10 DEF RevokeCurrent, FlightAt, Flying
  <2>2. /\ \A u \in Tabs \ {t} : authFlight'[u] = authFlight[u]
        /\ authFlight' \in [Tabs -> SessionFlights \cup {NoFlight}]
        /\ authFlight'[t] \in SessionFlights
        /\ authFlight'[t].kind = "leave" /\ authFlight'[t].token = token
        /\ authFlight'[t].made = 0
    BY <1>4, <2>0, <2>1, AnswerMoves
  <2>3. /\ session' \in [Tokens -> SessionRows] /\ SessionsAge /\ stray' \subseteq Tokens
        /\ \A r \in Tokens : Live(r)' => Live(r)
        /\ token \in stray' \/ ~Live(token)'
    <3>1. CASE session' = Ended(token) /\ UNCHANGED stray
      BY <1>1, <2>1, <3>1, EndsAge DEF SessionsTypeOK
    <3>2. CASE Live(token) /\ stray' = stray \cup {token} /\ UNCHANGED session
      BY <1>1, <2>0, <2>1, <3>2 DEF SessionsTypeOK, SessionsAge, Live
    <3> QED BY <2>1, <3>1, <3>2
  <2>4. FlightHolds(authFlight[t])'
    BY <1>3, <2>0, <2>1, <2>2, <2>3 DEF FlightHolds, Started, SessionsAge
  <2> QED BY <1>8, <2>1, <2>2, <2>3, <2>4
<1>11. ASSUME NEW t \in Tabs, InsertionFails(t) \/ Unauthorized(t) PROVE SessionInv'
  <2>1. /\ Flying(t) /\ authFlight[t].kind \in {"enter", "act"}
        /\ authFlight[t].kind = "enter" => authFlight[t].at = "revoked"
        /\ authFlight[t].at # "answered"
        /\ AnswersFlight(t, 0, FALSE) /\ UNCHANGED <<session, cookie, tabRole, stray>>
    BY <1>11 DEF InsertionFails, Unauthorized, FlightAt, Flying
  <2>2. /\ \A u \in Tabs \ {t} : authFlight'[u] = authFlight[u]
        /\ authFlight' \in [Tabs -> SessionFlights \cup {NoFlight}]
        /\ authFlight'[t] \in SessionFlights
        /\ authFlight'[t].kind = authFlight[t].kind /\ authFlight'[t].token = authFlight[t].token
        /\ authFlight'[t].role = authFlight[t].role /\ authFlight'[t].allowed = authFlight[t].allowed
        /\ authFlight'[t].made = 0 /\ authFlight'[t].ok = FALSE /\ authFlight'[t].at = "answered"
    BY <1>4, <2>1, AnswerMoves
  <2>3. /\ session' \in [Tokens -> SessionRows] /\ SessionsAge /\ stray' \subseteq Tokens
        /\ \A r \in Tokens : Live(r)' => Live(r)
    BY <1>1, <2>1 DEF SessionsTypeOK, SessionsAge, Live
  <2>4. FlightHolds(authFlight[t])'
    BY <1>3, <2>1, <2>2 DEF FlightHolds, HasRevoked, Started, Live
  <2> QED BY <1>8, <2>1, <2>2, <2>3, <2>4
<1>12. ASSUME NEW t \in Tabs, ResolveSession(t) PROVE SessionInv'
  <2> DEFINE token == authFlight[t].token
  <2>1. /\ Flying(t) /\ authFlight[t].kind = "load" /\ authFlight[t].at = "sent"
        /\ UNCHANGED <<session, cookie, tabRole>>
    BY <1>12 DEF ResolveSession, FlightAt, Flying
  <2>2. /\ session' \in [Tokens -> SessionRows] /\ \A r \in Tokens : Live(r)' => Live(r)
    BY <1>1, <2>1 DEF SessionsTypeOK, Live
  <2>3. CASE /\ AnswersFlight(t, 0, FALSE)
             /\ stray' = IF Live(token) THEN stray \cup {token} ELSE stray
    <3>1. /\ \A u \in Tabs \ {t} : authFlight'[u] = authFlight[u]
          /\ authFlight' \in [Tabs -> SessionFlights \cup {NoFlight}]
          /\ authFlight'[t] \in SessionFlights
          /\ authFlight'[t].kind = "load" /\ authFlight'[t].token = token /\ authFlight'[t].made = 0
      BY <1>4, <2>1, <2>3, AnswerMoves
    <3>2. SessionsAge /\ stray' \subseteq Tokens /\ (token \in stray' \/ ~Live(token))
      BY <1>1, <1>3, <2>1, <2>3 DEF SessionsAge, SessionsTypeOK, Live
    <3>3. FlightHolds(authFlight[t])'
      BY <1>3, <2>1, <3>1, <3>2 DEF FlightHolds, Started, Live
    <3> QED BY <1>8, <2>1, <2>2, <3>1, <3>2, <3>3
  <2>4. CASE /\ Live(token) /\ UNCHANGED stray
             /\ authFlight' = [authFlight EXCEPT ![t].at = "answered", ![t].ok = TRUE,
                                                 ![t].role = session[token].role]
    <3> DEFINE f == authFlight[t]
               g == [kind |-> f.kind, role |-> session[token].role, allowed |-> f.allowed, token |-> f.token,
                     made |-> f.made, ok |-> TRUE, at |-> "answered"]
    <3>1. f \in SessionFlights /\ token \in Tokens
      BY <1>3, <2>1, <2>4 DEF Live
    <3>2. [f EXCEPT !.at = "answered", !.ok = TRUE, !.role = session[token].role] = g
      <4>1. [f EXCEPT !.at = "answered", !.ok = TRUE, !.role = session[token].role]
              = [[[f EXCEPT !.at = "answered"] EXCEPT !.ok = TRUE] EXCEPT !.role = session[token].role]
        OBVIOUS
      <4> DEFINE f1 == [kind |-> f.kind, role |-> f.role, allowed |-> f.allowed, token |-> f.token,
                        made |-> f.made, ok |-> f.ok, at |-> "answered"]
                 f2 == [kind |-> f.kind, role |-> f.role, allowed |-> f.allowed, token |-> f.token,
                        made |-> f.made, ok |-> TRUE, at |-> "answered"]
      <4>2. [f EXCEPT !.at = "answered"] = f1
        BY <3>1 DEF SessionFlights
      <4>3. ASSUME NEW yes \in BOOLEAN
            PROVE  [f1 EXCEPT !.ok = yes] = [kind |-> f.kind, role |-> f.role, allowed |-> f.allowed, token |-> f.token,
                      made |-> f.made, ok |-> yes, at |-> "answered"]
        OBVIOUS
      <4>4. [f1 EXCEPT !.ok = TRUE] = f2
        <5> HIDE DEF f1
        <5> QED BY <4>3, Zenon
      <4>5. ASSUME NEW yes \in BOOLEAN
            PROVE  [[kind |-> f.kind, role |-> f.role, allowed |-> f.allowed, token |-> f.token,
                      made |-> f.made, ok |-> yes, at |-> "answered"] EXCEPT !.role = session[token].role]
                     = [kind |-> f.kind, role |-> session[token].role, allowed |-> f.allowed, token |-> f.token,
                        made |-> f.made, ok |-> yes, at |-> "answered"]
        OBVIOUS
      <4>6. [f2 EXCEPT !.role = session[token].role] = g
        BY <4>5, Zenon
      <4> QED BY <4>1, <4>2, <4>4, <4>6
    <3>3. authFlight' = [authFlight EXCEPT ![t] =
                           [f EXCEPT !.at = "answered", !.ok = TRUE, !.role = session[token].role]]
      BY <1>1, <2>4 DEF SessionsTypeOK
    <3>4. session[token].role \in SessionRoles
      BY <1>1, <3>1 DEF SessionsTypeOK, SessionRows
    <3>5. /\ g \in SessionFlights /\ g.kind = "load" /\ g.token = token /\ g.ok = TRUE /\ g.made = f.made
      BY <2>1, <3>1, <3>4 DEF SessionFlights
    <3>6. authFlight' = [authFlight EXCEPT ![t] = g]
      BY <3>2, <3>3
    <3> HIDE DEF g
    <3>7. /\ authFlight'[t] = g /\ \A u \in Tabs \ {t} : authFlight'[u] = authFlight[u]
          /\ authFlight' \in [Tabs -> SessionFlights \cup {NoFlight}]
      BY <1>1, <3>5, <3>6 DEF SessionsTypeOK
    <3>8. SessionsAge /\ stray' \subseteq Tokens
      BY <1>1, <2>1, <2>4 DEF SessionsAge, SessionsTypeOK
    <3>9. FlightHolds(authFlight[t])'
      BY <1>3, <2>1, <3>5, <3>7 DEF FlightHolds, HasRevoked, Started
    <3> QED BY <1>8, <2>1, <2>2, <3>5, <3>7, <3>8, <3>9
  <2> QED BY <1>12, <2>3, <2>4 DEF ResolveSession
<1>13. ASSUME NEW t \in Tabs, Authorize(t) PROVE SessionInv'
  <2>1. /\ Flying(t) /\ authFlight[t].kind = "act" /\ authFlight[t].at = "sent"
        /\ authFlight' = [authFlight EXCEPT ![t].at = "authorized"]
        /\ Live(authFlight[t].token) /\ session[authFlight[t].token].role \in authFlight[t].allowed
        /\ UNCHANGED <<session, cookie, tabRole, stray>>
    BY <1>13 DEF Authorize, FlightAt, Flying
  <2>2. /\ \A u \in Tabs \ {t} : authFlight'[u] = authFlight[u]
        /\ authFlight' \in [Tabs -> SessionFlights \cup {NoFlight}]
        /\ authFlight'[t] \in SessionFlights
        /\ authFlight'[t].kind = "act" /\ authFlight'[t].role = authFlight[t].role
        /\ authFlight'[t].allowed = authFlight[t].allowed
        /\ authFlight'[t].token = authFlight[t].token /\ authFlight'[t].made = authFlight[t].made
    BY <2>1, AtMoves
  <2>3. /\ session' \in [Tokens -> SessionRows] /\ SessionsAge /\ stray' \subseteq Tokens
        /\ \A r \in Tokens : Live(r)' => Live(r)
    BY <1>1, <2>1 DEF SessionsTypeOK, SessionsAge, Live
  <2>4. FlightHolds(authFlight[t])'
    BY <1>3, <2>1, <2>2 DEF FlightHolds, HasRevoked, Started, Live
  <2> QED BY <1>8, <2>1, <2>2, <2>3, <2>4
<1>14. ASSUME NEW t \in Tabs, RunCall(t) PROVE SessionInv'
  <2>1. /\ Flying(t) /\ authFlight[t].kind = "act" /\ authFlight[t].at = "authorized"
        /\ AnswersFlight(t, 0, TRUE) /\ UNCHANGED <<session, cookie, tabRole, stray>>
    BY <1>14 DEF RunCall, FlightAt, Flying
  <2>2. /\ \A u \in Tabs \ {t} : authFlight'[u] = authFlight[u]
        /\ authFlight' \in [Tabs -> SessionFlights \cup {NoFlight}]
        /\ authFlight'[t] \in SessionFlights
        /\ authFlight'[t].kind = "act" /\ authFlight'[t].role = authFlight[t].role
        /\ authFlight'[t].allowed = authFlight[t].allowed
        /\ authFlight'[t].token = authFlight[t].token /\ authFlight'[t].made = 0
    BY <1>4, <2>1, AnswerMoves
  <2>3. /\ session' \in [Tokens -> SessionRows] /\ SessionsAge /\ stray' \subseteq Tokens
        /\ \A r \in Tokens : Live(r)' => Live(r)
    BY <1>1, <2>1 DEF SessionsTypeOK, SessionsAge, Live
  <2>4. FlightHolds(authFlight[t])'
    BY <1>3, <2>1, <2>2 DEF FlightHolds, HasRevoked, Started, Live
  <2> QED BY <1>8, <2>1, <2>2, <2>3, <2>4
\* An answer arrives, or is lost.
<1>15. ASSUME NEW t \in Tabs, SessionArrives(t) \/ LoseFlight(t) PROVE SessionInv'
  <2> DEFINE f == authFlight[t]
  <2>1. /\ Flying(t) /\ f.kind \in {"enter", "leave", "load", "act"} /\ f \in SessionFlights
        /\ authFlight' = [authFlight EXCEPT ![t] = NoFlight] /\ UNCHANGED session
    BY <1>3, <1>15 DEF SessionArrives, LoseFlight, FlightAt, Flying
  <2>2. /\ authFlight'[t] = NoFlight /\ \A u \in Tabs \ {t} : authFlight'[u] = authFlight[u]
        /\ authFlight' \in [Tabs -> SessionFlights \cup {NoFlight}] /\ ~Flying(t)'
    BY <1>1, <2>1 DEF SessionsTypeOK, Flying
  <2>3. \A u \in Tabs, s \in Tokens : Brings(u, s) /\ u # t => Brings(u, s)'
    BY <2>2 DEF Brings, Flying
  <2>4. f.role \in SessionRoles
    BY <2>1 DEF SessionFlights
  <2>5. /\ tabRole' \in [Tabs -> SessionRoles] /\ stray \subseteq stray' /\ stray' \subseteq Tokens
        /\ cookie' \in 0..MaxSessions /\ Started(cookie')
        /\ Live(cookie) => cookie = cookie' \/ cookie \in stray'
        /\ \A s \in Tokens : Brings(t, s) /\ Live(s) => s = cookie' \/ s \in stray'
    <3>1. CASE LoseFlight(t)
      <4>1. /\ tabRole' = IF f.kind = "leave" THEN [tabRole EXCEPT ![t] = "out"] ELSE tabRole
            /\ stray' = IF Live(f.made) THEN stray \cup {f.made} ELSE stray
            /\ UNCHANGED cookie
        BY <3>1 DEF LoseFlight
      <4>2. tabRole' \in [Tabs -> SessionRoles]
        BY <1>1, <4>1 DEF SessionsTypeOK, SessionRoles
      <4> QED BY <1>1, <1>3, <2>1, <4>1, <4>2 DEF SessionsTypeOK, Brings, Live
    <3>2. ASSUME NEW made \in 0..MaxSessions, Started(made), StoreCookie(made, f.token),
                 HasRevoked(f), \A s \in Tokens : Brings(t, s) => s = made
          PROVE  /\ stray \subseteq stray' /\ stray' \subseteq Tokens
                 /\ cookie' \in 0..MaxSessions /\ Started(cookie')
                 /\ Live(cookie) => cookie = cookie' \/ cookie \in stray'
                 /\ \A s \in Tokens : Brings(t, s) /\ Live(s) => s = cookie' \/ s \in stray'
      <4>1. /\ cookie' = made
            /\ stray' = IF cookie \notin {made, f.token} /\ Live(cookie) THEN stray \cup {cookie} ELSE stray
        BY <3>2 DEF StoreCookie
      <4>2. f.token \in stray \/ ~Live(f.token)
        BY <1>3, <2>1, <3>2 DEF FlightHolds
      <4>3. Live(cookie) => cookie \in Tokens
        BY <1>1, SessionsAssumption DEF Live, SessionsTypeOK, Tokens
      <4> QED BY <1>1, <3>2, <4>1, <4>2, <4>3 DEF SessionsTypeOK
    <3>3. CASE SessionArrives(t)
      <4>1. f.at = "answered"
        BY <3>3 DEF SessionArrives, FlightAt
      <4>2. CASE f.kind = "enter" /\ f.ok
        <5>1. StoreCookie(f.made, f.token) /\ tabRole' = [tabRole EXCEPT ![t] = f.role]
          BY <3>3, <4>2 DEF SessionArrives
        <5>2. f.made \in 0..MaxSessions /\ Started(f.made) /\ HasRevoked(f)
          BY <1>3, <2>1, <4>1, <4>2 DEF FlightHolds, HasRevoked
        <5>3. tabRole' \in [Tabs -> SessionRoles]
          BY <1>1, <2>4, <5>1 DEF SessionsTypeOK
        <5> QED BY <3>2, <5>1, <5>2, <5>3 DEF Brings
      <4>3. CASE f.kind = "leave" \/ (f.kind = "load" /\ ~f.ok)
        <5>1. StoreCookie(0, f.token) /\ tabRole' \in {tabRole, [tabRole EXCEPT ![t] = "out"]}
          BY <3>3, <4>3 DEF SessionArrives
        <5>2. Started(0) /\ HasRevoked(f) /\ \A s \in Tokens : ~Brings(t, s)
          BY <4>1, <4>3 DEF Started, HasRevoked, Brings
        <5>3. tabRole' \in [Tabs -> SessionRoles]
          BY <1>1, <5>1 DEF SessionsTypeOK, SessionRoles
        <5> QED BY <1>4, <3>2, <5>1, <5>2, <5>3
      <4>4. CASE f.kind = "act" \/ (f.kind = "enter" /\ ~f.ok) \/ (f.kind = "load" /\ f.ok)
        <5>1. UNCHANGED <<cookie, stray>> /\ tabRole' \in {tabRole, [tabRole EXCEPT ![t] = f.role]}
          BY <3>3, <4>4 DEF SessionArrives
        <5>2. tabRole' \in [Tabs -> SessionRoles]
          BY <1>1, <2>4, <5>1 DEF SessionsTypeOK
        <5>3. \A s \in Tokens : ~Brings(t, s)
          BY <4>4 DEF Brings
        <5> QED BY <1>1, <5>1, <5>2, <5>3 DEF SessionsTypeOK
      <4> QED BY <2>1, <4>2, <4>3, <4>4
    <3> QED BY <1>15, <3>1, <3>3
  <2>6. SessionsTypeOK' /\ SessionsAge
    BY <1>1, <2>1, <2>2, <2>5 DEF SessionsTypeOK, SessionsAge
  <2>7. FlightsHold'
    BY <2>2, <2>6, OneFlightMoves
  <2>8. LiveOnesKnown'
    BY <1>1, <2>1, <2>3, <2>5 DEF LiveOnesKnown, Live
  <2> QED BY <2>1, <2>5, <2>6, <2>7, <2>8 DEF SessionInv, Started
<1> QED BY <1>2, <1>5, <1>6, <1>7, <1>9, <1>10, <1>11, <1>12, <1>13, <1>14, <1>15 DEF SessionsNext
-----------------------------------------------------------------------------
(* The agenda of a provider *)

AgendaEvents == [does : {"weekly", "block", "release"}, span : SUBSET Periods, version : Nat]

AgendaTyped == ProviderScheduleTypeOK /\ scheduleLog \in Seq(AgendaEvents)

Scheduling(c) == scheduling[c] # NoScheduling
Taking(c) == Doing(c, {"block", "accept"}, "written")

\* Who changes the agenda holds the settings, and the version is the one it read; who
\* has passed a trigger holds the advisory lock, and its span is still free.
TasksHold == \A c \in ScheduleCalls : Scheduling(c) =>
  /\ scheduling[c].does # "weekly" => scheduling[c].span \in Spans
  /\ scheduling[c].does # "accept" =>
       /\ scheduling[c].version = scheduleVersion
       /\ \A d \in ScheduleCalls \ {c} : Scheduling(d) => scheduling[d].does = "accept"
  /\ Taking(c) =>
       /\ ~BookedIn(scheduling[c].span) /\ ~BlockedIn(scheduling[c].span)
       /\ \A d \in ScheduleCalls \ {c} : ~Taking(d)

Takes(s) == booked[s] > 0 \/ s \in blocks
TakenOnce ==
  /\ \A s, t \in Spans : Takes(s) /\ Takes(t) /\ s \cap t # {} => s = t
  /\ \A s \in Spans : s \in blocks => booked[s] = 0

\* The last event of each kind, as the trail has it.
IsLast(i, set) == i \in set /\ \A j \in set : j <= i
WeekSaves == {i \in 1..Len(scheduleLog) : scheduleLog[i].does = "weekly"}
Touches(s) == {i \in 1..Len(scheduleLog) :
                 scheduleLog[i].does # "weekly" /\ scheduleLog[i].span = s}
TrailTold ==
  /\ scheduleVersion = Len(scheduleLog) + 1
  /\ \A i \in 1..Len(scheduleLog) : scheduleLog[i].version = i + 1
  /\ WeekSaves = {} \/ \E i : IsLast(i, WeekSaves) /\ weekly = scheduleLog[i].span
  /\ \A s \in Spans :
       \/ Touches(s) = {} /\ s \notin blocks
       \/ \E i : IsLast(i, Touches(s)) /\ (s \in blocks <=> scheduleLog[i].does = "block")

AgendaInv == AgendaTyped /\ TasksHold /\ TakenOnce /\ TrailTold

LEMMA LastIsUnique ==
  ASSUME NEW set \in SUBSET Nat, NEW i, IsLast(i, set)
  PROVE  (CHOOSE k \in set : \A j \in set : j <= k) = i
<1> DEFINE l == CHOOSE k \in set : \A j \in set : j <= k
<1>1. l \in set /\ \A j \in set : j <= l
  BY DEF IsLast
<1>2. i \in Nat /\ l \in Nat /\ i <= l /\ l <= i
  BY <1>1 DEF IsLast
<1> HIDE DEF l
<1>3. l = i
  BY <1>2
<1> QED BY <1>3 DEF l

LEMMA AgendaProperties == AgendaInv => ProviderScheduleTypeOK /\ AgendaHolds
<1> SUFFICES ASSUME AgendaInv PROVE PeriodsTakenOnce /\ TrailTellsAgenda
  BY DEF AgendaInv, AgendaTyped, AgendaHolds
<1>1. AgendaTyped /\ TakenOnce /\ TrailTold
  BY DEF AgendaInv
<1>2. PeriodsTakenOnce
  <2>1. \A s \in Spans : booked[s] \in 0..1
    BY <1>1 DEF AgendaTyped, ProviderScheduleTypeOK
  <2>2. ASSUME NEW p \in Periods, NEW s \in Spans, NEW t \in Spans,
               p \in s, booked[s] > 0 \/ s \in blocks, p \in t, booked[t] > 0 \/ t \in blocks
        PROVE  s = t
    BY <1>1, <2>2 DEF TakenOnce, Takes
  <2>3. ASSUME NEW s \in Spans, booked[s] > 0 \/ s \in blocks
        PROVE  booked[s] + (IF s \in blocks THEN 1 ELSE 0) = 1
    BY <1>1, <2>1, <2>3 DEF TakenOnce
  <2> QED BY <2>2, <2>3 DEF PeriodsTakenOnce
<1>3. TrailTellsAgenda
  <2>1. WeekSaves \in SUBSET Nat /\ \A s : Touches(s) \in SUBSET Nat
    BY DEF WeekSaves, Touches
  <2> DEFINE last(set) == CHOOSE i \in set : \A j \in set : j <= i
  <2>2. ASSUME WeekSaves # {} PROVE weekly = scheduleLog[last(WeekSaves)].span
    <3>1. PICK i : IsLast(i, WeekSaves) /\ weekly = scheduleLog[i].span
      BY <1>1, <2>2 DEF TrailTold
    <3>2. last(WeekSaves) = i
      BY <2>1, <3>1, LastIsUnique
    <3> QED BY <3>1, <3>2
  <2>3. ASSUME NEW s \in Spans
        PROVE  s \in blocks <=> Touches(s) # {} /\ scheduleLog[last(Touches(s))].does = "block"
    <3>1. CASE Touches(s) = {} /\ s \notin blocks
      BY <3>1
    <3>2. CASE \E i : IsLast(i, Touches(s)) /\ (s \in blocks <=> scheduleLog[i].does = "block")
      <4>1. PICK i : IsLast(i, Touches(s)) /\ (s \in blocks <=> scheduleLog[i].does = "block")
        BY <3>2
      <4>2. last(Touches(s)) = i
        BY <2>1, <4>1, LastIsUnique
      <4>3. Touches(s) # {}
        BY <4>1 DEF IsLast
      <4> QED BY <4>1, <4>2, <4>3
    <3> QED BY <1>1, <3>1, <3>2 DEF TrailTold
  <2>4. blocks = {s \in Spans : Touches(s) # {} /\ scheduleLog[last(Touches(s))].does = "block"}
    BY <1>1, <2>3 DEF AgendaTyped, ProviderScheduleTypeOK
  <2>5. \A i \in 1..Len(scheduleLog) : scheduleLog[i].version = i + 1
    BY <1>1 DEF TrailTold
  <2> QED BY <2>2, <2>4, <2>5 DEF TrailTellsAgenda, WeekSaves, Touches
<1> QED BY <1>2, <1>3

LEMMA AgendaInitInv == ProviderScheduleInit => AgendaInv
<1> SUFFICES ASSUME ProviderScheduleInit PROVE AgendaInv
  OBVIOUS
<1>1. AgendaTyped /\ scheduleLog = <<>> /\ blocks = {} /\ scheduleVersion = 1
  BY DEF ProviderScheduleInit, AgendaTyped, ProviderScheduleTypeOK
<1>2. TasksHold /\ TakenOnce
  BY DEF ProviderScheduleInit, TasksHold, Scheduling, TakenOnce, Takes
<1>3. WeekSaves = {} /\ \A s : Touches(s) = {}
  BY <1>1 DEF WeekSaves, Touches
<1> QED BY <1>1, <1>2, <1>3 DEF AgendaInv, TrailTold

LEMMA TrailGrows ==
  ASSUME AgendaTyped, TrailTold, NEW event \in AgendaEvents,
         event.version = scheduleVersion + 1, scheduleVersion' = scheduleVersion + 1,
         scheduleLog' = Append(scheduleLog, event),
         weekly' = IF event.does = "weekly" THEN event.span ELSE weekly,
         blocks' = CASE event.does = "block" -> blocks \cup {event.span}
                     [] event.does = "release" -> blocks \ {event.span}
                     [] OTHER -> blocks
  PROVE  scheduleLog' \in Seq(AgendaEvents) /\ TrailTold'
<1> DEFINE n == Len(scheduleLog)
<1>1. /\ n \in Nat /\ scheduleLog' \in Seq(AgendaEvents) /\ Len(scheduleLog') = n + 1
      /\ scheduleLog'[n + 1] = event /\ \A i \in 1..n : scheduleLog'[i] = scheduleLog[i]
  BY AppendProperties, LenProperties DEF AgendaTyped
<1>2. event.does \in {"weekly", "block", "release"}
  BY DEF AgendaEvents
<1>3. WeekSaves \subseteq 1..n /\ \A s : Touches(s) \subseteq 1..n
  BY DEF WeekSaves, Touches
<1>4. WeekSaves' = IF event.does = "weekly" THEN WeekSaves \cup {n + 1} ELSE WeekSaves
  BY <1>1 DEF WeekSaves
<1>5. ASSUME NEW s
      PROVE  Touches(s)' = IF event.does # "weekly" /\ event.span = s THEN Touches(s) \cup {n + 1}
                                                                     ELSE Touches(s)
  BY <1>1 DEF Touches
<1>6. scheduleVersion = n + 1 /\ \A i \in 1..n : scheduleLog[i].version = i + 1
  BY DEF TrailTold
<1> HIDE DEF n
<1>7. scheduleVersion' = Len(scheduleLog') + 1 /\ \A i \in 1..Len(scheduleLog') : scheduleLog'[i].version = i + 1
  <2>1. \A i \in 1..(n + 1) : i = n + 1 \/ i \in 1..n
    BY <1>1
  <2> QED BY <1>1, <1>6, <2>1
<1>8. \A set \in SUBSET (1..n) : IsLast(n + 1, set \cup {n + 1})
  BY <1>1 DEF IsLast
<1>9. WeekSaves' = {} \/ \E i : IsLast(i, WeekSaves') /\ weekly' = scheduleLog'[i].span
  <2>1. CASE event.does = "weekly"
    BY <1>1, <1>3, <1>4, <1>8, <2>1
  <2>2. CASE event.does # "weekly" /\ WeekSaves # {}
    <3>1. PICK i : IsLast(i, WeekSaves) /\ weekly = scheduleLog[i].span
      BY <2>2 DEF TrailTold
    <3>2. scheduleLog'[i] = scheduleLog[i]
      BY <1>1, <1>3, <3>1 DEF IsLast
    <3> QED BY <1>4, <2>2, <3>1, <3>2
  <2> QED BY <1>4, <2>1, <2>2
<1>10. ASSUME NEW s \in Spans
       PROVE  \/ Touches(s)' = {} /\ s \notin blocks'
              \/ \E i : IsLast(i, Touches(s)') /\ (s \in blocks' <=> scheduleLog'[i].does = "block")
  <2>1. CASE event.does # "weekly" /\ event.span = s
    <3>1. Touches(s)' = Touches(s) \cup {n + 1} /\ IsLast(n + 1, Touches(s)')
      BY <1>3, <1>5, <1>8, <2>1
    <3>2. s \in blocks' <=> event.does = "block"
      BY <1>2, <2>1
    <3> QED BY <1>1, <3>1, <3>2
  <2>2. CASE ~(event.does # "weekly" /\ event.span = s)
    <3>1. Touches(s)' = Touches(s) /\ (s \in blocks' <=> s \in blocks)
      BY <1>2, <1>5, <2>2
    <3>2. CASE Touches(s) # {}
      <4>1. PICK i : IsLast(i, Touches(s)) /\ (s \in blocks <=> scheduleLog[i].does = "block")
        BY <3>2 DEF TrailTold
      <4>2. scheduleLog'[i] = scheduleLog[i]
        BY <1>1, <1>3, <4>1 DEF IsLast
      <4> QED BY <3>1, <4>1, <4>2
    <3>3. CASE Touches(s) = {}
      BY <3>1, <3>3 DEF TrailTold, IsLast
    <3> QED BY <3>2, <3>3
  <2> QED BY <2>1, <2>2
<1> QED BY <1>1, <1>7, <1>9, <1>10 DEF TrailTold
\* The task of one request moves on or ends, and no span it takes is new.
LEMMA TaskMoves ==
  ASSUME AgendaInv, NEW c \in ScheduleCalls, Scheduling(c), NEW at \in {"written"},
         scheduling' = [scheduling EXCEPT ![c].at = at]
  PROVE  /\ \A d \in ScheduleCalls \ {c} : scheduling'[d] = scheduling[d]
         /\ scheduling' \in [ScheduleCalls -> Tasks \cup {NoScheduling}]
         /\ scheduling'[c].does = scheduling[c].does /\ scheduling'[c].span = scheduling[c].span
         /\ scheduling'[c].version = scheduling[c].version /\ scheduling'[c].at = at
<1> DEFINE f == scheduling[c]
           g == [does |-> f.does, span |-> f.span, version |-> f.version, at |-> at]
<1>1. f \in Tasks
  BY DEF AgendaInv, AgendaTyped, ProviderScheduleTypeOK, Scheduling
<1>2. [f EXCEPT !.at = at] = g
  BY <1>1 DEF Tasks
<1>3. scheduling' = [scheduling EXCEPT ![c] = g]
  BY <1>2 DEF AgendaInv, AgendaTyped, ProviderScheduleTypeOK
<1>4. g \in Tasks /\ g.does = f.does /\ g.span = f.span /\ g.version = f.version /\ g.at = at
  BY <1>1 DEF Tasks
<1> HIDE DEF g
<1> QED BY <1>3, <1>4 DEF AgendaInv, AgendaTyped, ProviderScheduleTypeOK

LEMMA AgendaNextKeeps == AgendaInv /\ [ProviderScheduleNext]_providerScheduleVars => AgendaInv'
<1> SUFFICES ASSUME AgendaInv, [ProviderScheduleNext]_providerScheduleVars PROVE AgendaInv'
  OBVIOUS
<1>1. AgendaTyped /\ TasksHold /\ TakenOnce /\ TrailTold
  BY DEF AgendaInv
<1>2. ASSUME UNCHANGED agendaVars,
             scheduling' \in [ScheduleCalls -> Tasks \cup {NoScheduling}], TasksHold'
      PROVE  AgendaInv'
  <2>1. AgendaTyped' /\ TakenOnce' /\ TrailTold'
    BY <1>1, <1>2 DEF agendaVars, AgendaTyped, ProviderScheduleTypeOK, TakenOnce, Takes, TrailTold,
       WeekSaves, Touches, IsLast
  <2> QED BY <1>2, <2>1 DEF AgendaInv
<1>3. CASE UNCHANGED providerScheduleVars
  <2>1. scheduling' \in [ScheduleCalls -> Tasks \cup {NoScheduling}] /\ UNCHANGED agendaVars
    BY <1>1, <1>3 DEF providerScheduleVars, AgendaTyped, ProviderScheduleTypeOK
  <2>2. TasksHold'
    BY <1>1, <1>3 DEF providerScheduleVars, agendaVars, TasksHold, Scheduling, Taking, Doing, BookedIn,
       BlockedIn
  <2> QED BY <1>2, <2>1, <2>2
\* A request begins.
<1>4. ASSUME NEW c \in ScheduleCalls, NEW does \in {"weekly", "block", "release"},
             NEW span \in SUBSET Periods, does # "weekly" => span \in Spans,
             LockSettings(c, does, span)
      PROVE  AgendaInv'
  <2> DEFINE j == [does |-> does, span |-> span, version |-> scheduleVersion, at |-> "locked"]
  <2>1. /\ scheduling[c] = NoScheduling /\ SettingsFree(c) /\ UNCHANGED agendaVars
        /\ scheduling' = [scheduling EXCEPT ![c] = j]
    BY <1>4 DEF LockSettings
  <2>2. /\ j \in Tasks /\ j.does = does /\ j.span = span /\ j.version = scheduleVersion
        /\ j.at = "locked"
    BY <1>1 DEF Tasks, AgendaTyped, ProviderScheduleTypeOK
  <2> HIDE DEF j
  <2>3. /\ scheduling'[c] = j /\ \A d \in ScheduleCalls \ {c} : scheduling'[d] = scheduling[d]
        /\ scheduling' \in [ScheduleCalls -> Tasks \cup {NoScheduling}]
    BY <1>1, <2>1, <2>2 DEF AgendaTyped, ProviderScheduleTypeOK
  <2>4. TasksHold'
    <3>1. \A d \in ScheduleCalls \ {c} : Scheduling(d) => scheduling[d].does = "accept"
      BY <2>1 DEF SettingsFree, Scheduling
    <3>2. ~Taking(c)'
      BY <2>2, <2>3 DEF Taking, Doing
    <3> QED BY <1>1, <1>4, <2>1, <2>2, <2>3, <3>1, <3>2 DEF agendaVars, TasksHold, Scheduling, Taking,
            Doing, BookedIn, BlockedIn
  <2> QED BY <1>2, <2>1, <2>3, <2>4
<1>5. ASSUME NEW c \in ScheduleCalls, NEW span \in Spans, FindSlot(c, span) PROVE AgendaInv'
  <2> DEFINE j == [does |-> "accept", span |-> span, version |-> 0, at |-> "read"]
  <2>1. scheduling[c] = NoScheduling /\ UNCHANGED agendaVars /\ scheduling' = [scheduling EXCEPT ![c] = j]
    BY <1>5 DEF FindSlot
  <2>2. j \in Tasks /\ j.does = "accept" /\ j.span = span /\ j.at = "read"
    BY SpansAssumption DEF Tasks
  <2> HIDE DEF j
  <2>3. /\ scheduling'[c] = j /\ \A d \in ScheduleCalls \ {c} : scheduling'[d] = scheduling[d]
        /\ scheduling' \in [ScheduleCalls -> Tasks \cup {NoScheduling}]
    BY <1>1, <2>1, <2>2 DEF AgendaTyped, ProviderScheduleTypeOK
  <2>4. ~Taking(c)'
    BY <2>2, <2>3 DEF Taking, Doing
  <2>5. TasksHold'
    BY <1>1, <2>1, <2>2, <2>3, <2>4 DEF agendaVars, TasksHold, Scheduling, Taking, Doing, BookedIn, BlockedIn
  <2> QED BY <1>2, <2>1, <2>3, <2>5
\* A statement is run: an insertion passes its trigger alone, over a free span.
<1>6. ASSUME NEW c \in ScheduleCalls,
             UpsertWeekly(c) \/ InsertBlock(c) \/ CancelBlock(c) \/ InsertSlot(c)
      PROVE  AgendaInv'
  <2>1. /\ Scheduling(c) /\ UNCHANGED agendaVars /\ scheduling' = [scheduling EXCEPT ![c].at = "written"]
    BY <1>6 DEF UpsertWeekly, InsertBlock, CancelBlock, InsertSlot, Write, Doing, Scheduling
  <2>2. /\ \A d \in ScheduleCalls \ {c} : scheduling'[d] = scheduling[d]
        /\ scheduling' \in [ScheduleCalls -> Tasks \cup {NoScheduling}]
        /\ scheduling'[c].does = scheduling[c].does /\ scheduling'[c].span = scheduling[c].span
        /\ scheduling'[c].version = scheduling[c].version
    BY <2>1, TaskMoves
  <2>3. scheduling[c].does \in {"block", "accept"} =>
          /\ ~BookedIn(scheduling[c].span) /\ ~BlockedIn(scheduling[c].span)
          /\ \A d \in ScheduleCalls \ {c} : ~Taking(d)
    BY <1>6 DEF UpsertWeekly, InsertBlock, CancelBlock, InsertSlot, Doing, AdvisoryFree, Taking
  <2>4. /\ Taking(c)' => scheduling[c].does \in {"block", "accept"}
        /\ \A d \in ScheduleCalls \ {c} : (Taking(d)' <=> Taking(d)) /\ (Scheduling(d)' <=> Scheduling(d))
    BY <2>2 DEF Taking, Doing, Scheduling
  <2>5. \A span : (BookedIn(span)' <=> BookedIn(span)) /\ (BlockedIn(span)' <=> BlockedIn(span))
    BY <2>1 DEF agendaVars, BookedIn, BlockedIn
  <2>6. scheduleVersion' = scheduleVersion
    BY <2>1 DEF agendaVars
  <2>7. ASSUME NEW e \in ScheduleCalls, Scheduling(e)'
        PROVE  /\ scheduling'[e].does # "weekly" => scheduling'[e].span \in Spans
               /\ scheduling'[e].does # "accept" =>
                    /\ scheduling'[e].version = scheduleVersion'
                    /\ \A d \in ScheduleCalls \ {e} : Scheduling(d)' => scheduling'[d].does = "accept"
               /\ Taking(e)' =>
                    /\ ~BookedIn(scheduling[e].span)' /\ ~BlockedIn(scheduling[e].span)'
                    /\ \A d \in ScheduleCalls \ {e} : ~Taking(d)'
    <3>1. Scheduling(e)
      BY <2>1, <2>4, <2>7
    <3>2. /\ scheduling'[e].does = scheduling[e].does /\ scheduling'[e].span = scheduling[e].span
          /\ scheduling'[e].version = scheduling[e].version
      BY <2>2
    <3>3. /\ scheduling'[e].does # "weekly" => scheduling'[e].span \in Spans
          /\ scheduling'[e].does # "accept" => scheduling'[e].version = scheduleVersion'
      BY <1>1, <2>6, <3>1, <3>2 DEF TasksHold
    <3>4. ASSUME scheduling'[e].does # "accept", NEW d \in ScheduleCalls \ {e}, Scheduling(d)'
          PROVE  scheduling'[d].does = "accept"
      <4>1. Scheduling(d) /\ scheduling'[d].does = scheduling[d].does
        BY <2>1, <2>2, <2>4, <3>4
      <4> QED BY <1>1, <3>1, <3>2, <3>4, <4>1 DEF TasksHold
    <3>5. ASSUME Taking(e)'
          PROVE  /\ ~BookedIn(scheduling[e].span) /\ ~BlockedIn(scheduling[e].span)
                 /\ \A d \in ScheduleCalls \ {e} : ~Taking(d)'
      <4>1. CASE e = c
        BY <2>3, <2>4, <3>5, <4>1
      <4>2. CASE e # c
        <5>1. Taking(e)
          BY <2>4, <3>5, <4>2
        <5>2. ~Taking(c)' 
          BY <2>3, <2>4, <4>2, <5>1
        <5> QED BY <1>1, <2>4, <3>1, <5>1, <5>2 DEF TasksHold
      <4> QED BY <4>1, <4>2
    <3>6. scheduling'[e].span = scheduling[e].span
      BY <3>2
    <3>7. PICK span : span = scheduling[e].span
      OBVIOUS
    <3>8. Taking(e)' => ~BookedIn(span)' /\ ~BlockedIn(span)'
      BY <2>5, <3>5, <3>7
    <3>9. Taking(e)' => ~BookedIn(scheduling[e].span)' /\ ~BlockedIn(scheduling[e].span)'
      BY <3>6, <3>7, <3>8
    <3> QED BY <3>3, <3>4, <3>5, <3>9
  <2>8. TasksHold'
    BY <2>7 DEF TasksHold
  <2> QED BY <1>2, <2>1, <2>2, <2>8
\* A request ends without a change.
<1>7. ASSUME NEW c \in ScheduleCalls, scheduling' = [scheduling EXCEPT ![c] = NoScheduling]
      PROVE  /\ scheduling' \in [ScheduleCalls -> Tasks \cup {NoScheduling}]
             /\ \A e \in ScheduleCalls : Scheduling(e)' => e # c /\ Scheduling(e) /\ scheduling'[e] = scheduling[e]
             /\ \A e \in ScheduleCalls : Taking(e)' => e # c /\ Taking(e)
  BY <1>1, <1>7 DEF AgendaTyped, ProviderScheduleTypeOK, Scheduling, Taking, Doing
\* The agenda changes: no span that another request takes is taken by it.
<1>8. ASSUME UNCHANGED scheduleVersion, AgendaTyped', TakenOnce', TrailTold',
             \A e \in ScheduleCalls : Scheduling(e)' => Scheduling(e) /\ scheduling'[e] = scheduling[e],
             \A e \in ScheduleCalls : Taking(e)' => Taking(e),
             \A e \in ScheduleCalls, span \in Spans :
               Taking(e)' /\ scheduling[e].span = span
                 => (BookedIn(span)' => BookedIn(span)) /\ (BlockedIn(span)' => BlockedIn(span))
      PROVE  AgendaInv'
  <2>1. ASSUME NEW e \in ScheduleCalls, Taking(e)', Scheduling(e)'
        PROVE  ~BookedIn(scheduling[e].span)' /\ ~BlockedIn(scheduling[e].span)'
    <3>1. PICK span \in Spans : span = scheduling[e].span
      BY <1>1, <1>8, <2>1 DEF TasksHold, Taking, Doing
    <3>2. ~BookedIn(span) /\ ~BlockedIn(span) /\ scheduling'[e].span = span
      BY <1>1, <1>8, <2>1, <3>1 DEF TasksHold
    <3>3. ~BookedIn(span)' /\ ~BlockedIn(span)'
      BY <1>8, <2>1, <3>1, <3>2
    <3> QED BY <3>2, <3>3
  <2>2. TasksHold'
    BY <1>1, <1>8, <2>1 DEF TasksHold
  <2> QED BY <1>8, <2>2 DEF AgendaInv
<1>9. ASSUME NEW c \in ScheduleCalls, DropScheduling(c) PROVE AgendaInv'
  <2>1. scheduling' = [scheduling EXCEPT ![c] = NoScheduling] /\ UNCHANGED agendaVars
    BY <1>9 DEF DropScheduling
  <2>2. scheduling' \in [ScheduleCalls -> Tasks \cup {NoScheduling}]
    BY <1>7, <2>1
  <2>3. AgendaTyped' /\ TakenOnce' /\ TrailTold' /\ UNCHANGED scheduleVersion
    BY <1>1, <2>1, <2>2 DEF agendaVars, AgendaTyped, ProviderScheduleTypeOK, TakenOnce, Takes, TrailTold,
       WeekSaves, Touches, IsLast
  <2>4. \A span : (BookedIn(span)' => BookedIn(span)) /\ (BlockedIn(span)' => BlockedIn(span))
    BY <2>1 DEF agendaVars, BookedIn, BlockedIn
  <2> QED BY <1>7, <1>8, <2>1, <2>3, <2>4
<1>10. ASSUME NEW span \in Spans, FreeSlot(span) PROVE AgendaInv'
  <2>1. /\ booked[span] > 0 /\ booked' = [booked EXCEPT ![span] = booked[span] - 1]
        /\ UNCHANGED <<weekly, blocks, scheduleVersion, scheduleLog, scheduling>>
    BY <1>1, <1>10 DEF FreeSlot, AgendaTyped, ProviderScheduleTypeOK
  <2>2. booked[span] = 1
    BY <1>1, <2>1 DEF AgendaTyped, ProviderScheduleTypeOK
  <2>3. booked' \in [Spans -> 0..1] /\ \A s \in Spans : booked'[s] = IF s = span THEN 0 ELSE booked[s]
    BY <1>1, <2>1, <2>2 DEF AgendaTyped, ProviderScheduleTypeOK
  <2>4. AgendaTyped' /\ TrailTold'
    BY <1>1, <2>1, <2>3 DEF AgendaTyped, ProviderScheduleTypeOK, TrailTold, WeekSaves, Touches, IsLast
  <2>5. \A s \in Spans : Takes(s)' => Takes(s)
    BY <2>1, <2>3 DEF Takes
  <2>6. TakenOnce'
    BY <1>1, <2>1, <2>2, <2>3, <2>5 DEF TakenOnce
  <2>7. \A s \in Spans : (BookedIn(s)' => BookedIn(s)) /\ (BlockedIn(s)' => BlockedIn(s))
    BY <2>1, <2>3 DEF BookedIn, BlockedIn
  <2> QED BY <1>8, <2>1, <2>4, <2>6, <2>7 DEF Scheduling, Taking, Doing
<1>11. ASSUME NEW c \in ScheduleCalls, CommitSlot(c) PROVE AgendaInv'
  <2>1. PICK span \in Spans : span = scheduling[c].span
    BY <1>1, <1>11 DEF CommitSlot, TasksHold, Doing, Scheduling
  <2>2. /\ Scheduling(c) /\ Taking(c) /\ booked' = [booked EXCEPT ![span] = booked[span] + 1]
        /\ scheduling' = [scheduling EXCEPT ![c] = NoScheduling]
        /\ UNCHANGED <<weekly, blocks, scheduleVersion, scheduleLog>>
    BY <1>1, <1>11, <2>1 DEF CommitSlot, Doing, Scheduling, Taking, AgendaTyped, ProviderScheduleTypeOK
  <2>3. /\ ~BookedIn(span) /\ ~BlockedIn(span) /\ \A d \in ScheduleCalls \ {c} : ~Taking(d)
    BY <1>1, <2>1, <2>2 DEF TasksHold
  <2>4. span # {} /\ span \cap span = span
    BY SpansAssumption
  <2>5. /\ booked[span] = 0
        /\ \A s \in Spans : Takes(s) => s \cap span = {}
    BY <1>1, <2>3, <2>4 DEF BookedIn, BlockedIn, Takes, AgendaTyped, ProviderScheduleTypeOK
  <2>6. booked' \in [Spans -> 0..1] /\ \A s \in Spans : booked'[s] = IF s = span THEN 1 ELSE booked[s]
    BY <1>1, <2>2, <2>5 DEF AgendaTyped, ProviderScheduleTypeOK
  <2>7. AgendaTyped' /\ TrailTold'
    BY <1>1, <1>7, <2>2, <2>6 DEF AgendaTyped, ProviderScheduleTypeOK, TrailTold, WeekSaves, Touches, IsLast
  <2>8. \A s \in Spans : Takes(s)' => s = span \/ Takes(s)
    BY <2>2, <2>6 DEF Takes
  <2>9. TakenOnce'
    <3>1. span \notin blocks
      BY <2>4, <2>5 DEF Takes
    <3> QED BY <1>1, <2>2, <2>5, <2>6, <2>8, <3>1 DEF TakenOnce
  <2>10. \A e \in ScheduleCalls : ~Taking(e)'
    BY <1>7, <2>2, <2>3
  <2> QED BY <1>7, <1>8, <2>2, <2>7, <2>9, <2>10
<1>12. ASSUME NEW c \in ScheduleCalls, CommitSchedule(c) PROVE AgendaInv'
  <2> DEFINE event == [does |-> scheduling[c].does, span |-> scheduling[c].span,
                       version |-> scheduling[c].version + 1]
  <2>1. /\ Scheduling(c) /\ scheduling[c].does \in {"weekly", "block", "release"}
        /\ weekly' = IF scheduling[c].does = "weekly" THEN scheduling[c].span ELSE weekly
        /\ blocks' = CASE scheduling[c].does = "block" -> blocks \cup {scheduling[c].span}
                       [] scheduling[c].does = "release" -> blocks \ {scheduling[c].span}
                       [] OTHER -> blocks
        /\ scheduleVersion' = scheduling[c].version + 1
        /\ scheduleLog' = Append(scheduleLog, event)
        /\ scheduling' = [scheduling EXCEPT ![c] = NoScheduling] /\ UNCHANGED booked
    BY <1>12 DEF CommitSchedule, Doing, Scheduling
  <2>2. scheduling[c] \in Tasks /\ scheduling[c].version = scheduleVersion
    BY <1>1, <2>1 DEF TasksHold, AgendaTyped, ProviderScheduleTypeOK, Scheduling
  <2>3. PICK span \in SUBSET Periods : span = scheduling[c].span
    BY <2>2 DEF Tasks
  <2>4. scheduling[c].does # "weekly" => span \in Spans
    BY <1>1, <2>1, <2>3 DEF TasksHold
  <2>5. /\ event \in AgendaEvents /\ event.version = scheduleVersion + 1
        /\ event.does = scheduling[c].does /\ event.span = span
    BY <1>1, <2>1, <2>2, <2>3 DEF AgendaEvents, AgendaTyped, ProviderScheduleTypeOK
  <2> HIDE DEF event
  <2>6. /\ weekly' = IF event.does = "weekly" THEN event.span ELSE weekly
        /\ blocks' = CASE event.does = "block" -> blocks \cup {event.span}
                       [] event.does = "release" -> blocks \ {event.span}
                       [] OTHER -> blocks
        /\ scheduleVersion' = scheduleVersion + 1
    BY <2>1, <2>2, <2>3, <2>5
  <2>7. scheduleLog' \in Seq(AgendaEvents) /\ TrailTold'
    BY <1>1, <2>1, <2>5, <2>6, TrailGrows
  <2>8. weekly' \in SUBSET Periods /\ blocks' \subseteq Spans
    BY <1>1, <2>1, <2>4, <2>5, <2>6 DEF AgendaTyped, ProviderScheduleTypeOK
  <2>9. AgendaTyped'
    BY <1>1, <1>7, <2>1, <2>6, <2>7, <2>8 DEF AgendaTyped, ProviderScheduleTypeOK
  <2>10. \A s : s \in blocks' => s \in blocks \/ (s = span /\ event.does = "block")
    BY <2>1, <2>5, <2>6
  <2>11. ASSUME event.does = "block"
         PROVE  /\ span \in Spans /\ \A d \in ScheduleCalls \ {c} : ~Taking(d)
                /\ booked[span] = 0 /\ \A s \in Spans : Takes(s) => s \cap span = {}
    <3>1. Taking(c) /\ span \in Spans
      BY <1>12, <2>4, <2>5, <2>11 DEF CommitSchedule, Taking, Doing
    <3>2. ~BookedIn(span) /\ ~BlockedIn(span) /\ \A d \in ScheduleCalls \ {c} : ~Taking(d)
      BY <1>1, <2>1, <2>3, <3>1 DEF TasksHold
    <3>3. span # {} /\ span \cap span = span
      BY <3>1, SpansAssumption
    <3> QED BY <1>1, <3>1, <3>2, <3>3 DEF BookedIn, BlockedIn, Takes, AgendaTyped, ProviderScheduleTypeOK
  <2>12. TakenOnce'
    <3>1. \A s \in Spans : Takes(s)' => Takes(s) \/ (s = span /\ event.does = "block")
      BY <2>1, <2>10 DEF Takes
    <3> QED BY <1>1, <2>1, <2>10, <2>11, <3>1 DEF TakenOnce
  <2>13. ASSUME NEW e \in ScheduleCalls, Scheduling(e)'
         PROVE  e # c /\ Scheduling(e) /\ scheduling'[e] = scheduling[e] /\ scheduling[e].does = "accept"
    BY <1>1, <1>7, <2>1, <2>13 DEF TasksHold
  <2>14. ASSUME NEW e \in ScheduleCalls, Scheduling(e)', Taking(e)'
         PROVE  ~BookedIn(scheduling[e].span)' /\ ~BlockedIn(scheduling[e].span)'
    <3>1. e # c /\ Scheduling(e) /\ scheduling'[e] = scheduling[e] /\ Taking(e)
      BY <1>7, <2>1, <2>13, <2>14
    <3>2. PICK taken : taken = scheduling[e].span
      OBVIOUS
    <3>3. ~BookedIn(taken) /\ ~BlockedIn(taken)
      BY <1>1, <3>1, <3>2 DEF TasksHold
    <3>4. event.does # "block"
      BY <2>11, <3>1
    <3>5. ~BookedIn(taken)' /\ ~BlockedIn(taken)'
      BY <2>1, <2>10, <3>3, <3>4 DEF BookedIn, BlockedIn
    <3>6. scheduling'[e].span = taken
      BY <3>1, <3>2
    <3> QED BY <3>5, <3>6
  <2>15. \A d \in ScheduleCalls : Taking(d)' => Taking(d)
    BY <1>7, <2>1
  <2>16. TasksHold'
    <3>1. SUFFICES ASSUME NEW e \in ScheduleCalls, Scheduling(e)'
          PROVE  /\ scheduling'[e].span \in Spans /\ scheduling'[e].does = "accept"
                 /\ Taking(e)' => \A d \in ScheduleCalls \ {e} : ~Taking(d)'
      BY <2>14 DEF TasksHold
    <3>2. e # c /\ Scheduling(e) /\ scheduling'[e] = scheduling[e] /\ scheduling[e].does = "accept"
      BY <2>13, <3>1
    <3>3. scheduling[e].span \in Spans
      BY <1>1, <3>2 DEF TasksHold
    <3> QED BY <1>1, <2>15, <3>2, <3>3 DEF TasksHold
  <2> QED BY <2>9, <2>7, <2>12, <2>16 DEF AgendaInv
<1>13. ASSUME NEW c \in ScheduleCalls, NEW days \in (SUBSET Periods) \ {{}}, LockSettings(c, "weekly", days)
       PROVE  AgendaInv'
  BY <1>4, <1>13
<1>14. ASSUME NEW c \in ScheduleCalls, NEW s \in Spans, NEW does \in {"block", "release"},
              LockSettings(c, does, s)
       PROVE  AgendaInv'
  BY <1>4, <1>14, SpansAssumption
<1> QED BY <1>3, <1>5, <1>6, <1>9, <1>10, <1>11, <1>12, <1>13, <1>14 DEF ProviderScheduleNext
-----------------------------------------------------------------------------
(* The panels of the page *)

\* What a panel of this many parts can show.
Shown == [subject : Subjects, place : 1..MaxReads, seen : [1..panel.parts -> 0..MaxStates]]

PanelTyped ==
  /\ panel \in ReadingPanels /\ subject \in Subjects /\ data \in Shown \cup {NoData}
  /\ reads \subseteq Shown /\ \A r, q \in reads : r.place = q.place => r = q
  /\ current \in 1..MaxStates /\ told \in 0..MaxStates /\ writing \subseteq Actions
  /\ failed \in BOOLEAN /\ crossed \in BOOLEAN

\* No version shown, read or made is of the future, nor one the user was told of.
VersionsPast ==
  /\ told <= current /\ \A w \in writing : w.made <= current
  /\ data # NoData => \A i \in 1..panel.parts : data.seen[i] <= current
  /\ \A r \in reads, i \in 1..panel.parts : r.seen[i] <= current

\* A panel has one read, of its subject, unless it keeps those that cross.
OneRead == panel.rereads # "keeps" \/ ~crossed =>
  /\ \A r, q \in reads : r = q
  /\ \A r \in reads : r.subject = subject

\* No part of it is older than what is shown of that subject, or than what the user was told.
ReadsNewer == ~crossed =>
  \A r \in reads, i \in 1..panel.parts : r.seen[i] # 0 =>
    /\ data # NoData /\ data.subject = subject => r.seen[i] >= data.seen[i]
    /\ panel.rereads # "skips" => r.seen[i] >= told

\* Where nothing orders the answers, an action that crosses nothing is alone, and newer
\* than what is shown.
ActionsNewer == Unordered /\ ~crossed => \A w \in writing :
  /\ reads = {} /\ writing = {w} /\ w.subject = subject /\ told <= w.made
  /\ data # NoData => \A i \in 1..panel.parts : data.seen[i] <= w.made

\* A form reads until it shows something, and only then lets its user act.
FormsTakeTurns == panel \notin CrossingPanels =>
  /\ ~crossed
  /\ "shown" \in panel.answers => IF data = NoData THEN writing = {} ELSE reads = {}

\* It shows its subject when nothing is being read.
ShowsSubject == reads = {} /\ ~failed /\ ~crossed =>
  /\ data \in Shown /\ data.subject = subject
  /\ panel.rereads # "skips" => \A i \in 1..panel.parts : data.seen[i] >= told

PanelInv == /\ PanelTyped /\ VersionsPast /\ OneRead /\ ReadsNewer
            /\ ActionsNewer /\ FormsTakeTurns /\ ShowsSubject

\* A panel that shows the answers to actions, and where they cannot cross, does nothing
\* but read until it shows something, and wait for one action at a time.
TakesTurns(p) == p.rereads # "keeps" /\ ("shown" \in p.answers =>
  p.single /\ p.refresh = "retry" /\ ~p.keyed /\ ~p.polls /\ "reread" \notin p.answers)

LEMMA PanelKinds ==
  \A p \in ReadingPanels : p.parts \in 1..3 /\ (p \in CrossingPanels \/ TakesTurns(p))
BY DEF TakesTurns, ReadingPanels, CrossingPanels, Panel, ReadOnce, ReadOnly, Plain, Keyed, Dialog, Form,
   unreadBadge, notificationCenter, serviceCategories,
   serviceRegions, contextualAd, providerMatching, opportunities, providerVerification,
   partnerDashboard, operationReports, reportDeliveries, advertiserCampaigns, operationQueues,
   referralDialog, verificationDialog, caseDialog, providerSchedule, bookingActivity,
   operationActivity, bookingDetail, proposalComparison, proposalSlots, supportCases,
   supportDetail, matchingOperations, regionManagement, catalogManagement,
   advertisingModeration, campaignManagement, onboardingPanel, notificationPreferences,
   systemHealth, operationReadiness, privacyCenter, operationPrivacy, financialSandbox

LEMMA ShownFields ==
  ASSUME NEW r \in Shown
  PROVE  /\ r.subject \in Subjects /\ r.seen \in [1..panel.parts -> 0..MaxStates]
         /\ DOMAIN r.seen = 1..panel.parts /\ \A i \in 1..panel.parts : r.seen[i] \in Nat
<1>1. r.subject \in Subjects /\ r.seen \in [1..panel.parts -> 0..MaxStates]
  BY DEF Shown
<1>2. 0..MaxStates \subseteq Nat
  BY StatesAssumption
<1> QED BY <1>1, <1>2

LEMMA PanelProperties == PanelInv => PageReadsTypeOK /\ PanelsShowTheirSubject
<1> SUFFICES ASSUME PanelInv PROVE PageReadsTypeOK /\ PanelsShowTheirSubject
  OBVIOUS
<1>1. PanelTyped /\ FormsTakeTurns /\ ShowsSubject
  BY DEF PanelInv
<1>2. Shown \subseteq Views
  <2>1. PICK n \in 1..3 : n = panel.parts
    BY <1>1, PanelKinds DEF PanelTyped
  <2> QED BY <2>1 DEF Shown, Views
<1>3. PageReadsTypeOK
  BY <1>1, <1>2 DEF PanelTyped, PageReadsTypeOK
<1>4. PanelsShowTheirSubject
  BY <1>1, ShownFields DEF ShowsSubject, FormsTakeTurns, PanelsShowTheirSubject
<1> QED BY <1>3, <1>4

LEMMA NewReadShown ==
  ASSUME NEW s \in Subjects, NEW spot \in 1..MaxReads
  PROVE  /\ NewRead(s, spot) \in Shown /\ NewRead(s, spot).subject = s
         /\ NewRead(s, spot).place = spot
         /\ \A i \in 1..panel.parts : NewRead(s, spot).seen[i] = 0
<1> DEFINE seen == [i \in 1..panel.parts |-> 0]
<1>1. seen \in [1..panel.parts -> 0..MaxStates] /\ \A i \in 1..panel.parts : seen[i] = 0
  BY StatesAssumption
<1>2. NewRead(s, spot) = [subject |-> s, place |-> spot, seen |-> seen]
  BY DEF NewRead
<1> HIDE DEF seen
<1> QED BY <1>1, <1>2 DEF Shown

LEMMA ViewShown ==
  ASSUME NEW s \in Subjects, NEW version \in 0..MaxStates
  PROVE  /\ ViewOf(s, version) \in Shown /\ ViewOf(s, version).subject = s
         /\ \A i \in 1..panel.parts : ViewOf(s, version).seen[i] = version
<1> DEFINE seen == [i \in 1..panel.parts |-> version]
<1>1. seen \in [1..panel.parts -> 0..MaxStates] /\ \A i \in 1..panel.parts : seen[i] = version
  OBVIOUS
<1>2. ViewOf(s, version) = [subject |-> s, place |-> 1, seen |-> seen] /\ 1 \in 1..MaxReads
  BY DEF ViewOf, MaxReads
<1> HIDE DEF seen
<1> QED BY <1>1, <1>2 DEF Shown

LEMMA PanelInitInv == PageReadsInit => PanelInv
<1> SUFFICES ASSUME PageReadsInit PROVE PanelInv
  OBVIOUS
<1>1. /\ NewRead(subject, 1) \in Shown /\ NewRead(subject, 1).subject = subject
      /\ \A i \in 1..panel.parts : NewRead(subject, 1).seen[i] = 0
  BY NewReadShown DEF PageReadsInit, MaxReads
<1>2. /\ panel \in ReadingPanels /\ subject \in Subjects /\ data = NoData /\ reads = {NewRead(subject, 1)}
      /\ current = 1 /\ writing = {} /\ told = 0 /\ failed = FALSE /\ crossed = FALSE
  BY DEF PageReadsInit
<1>3. 1 \in 1..MaxStates /\ 0 \in 0..MaxStates
  BY StatesAssumption
<1>4. PanelTyped
  BY <1>1, <1>2, <1>3 DEF PanelTyped
<1>5. VersionsPast /\ OneRead /\ ReadsNewer
  BY <1>1, <1>2 DEF VersionsPast, OneRead, ReadsNewer
<1>6. ActionsNewer /\ FormsTakeTurns /\ ShowsSubject
  BY <1>2 DEF ActionsNewer, FormsTakeTurns, ShowsSubject
<1> QED BY <1>4, <1>5, <1>6 DEF PanelInv

\* A panel that reads again has the new read, and beside it at most what it keeps.
LEMMA RereadingKeeps ==
  ASSUME PanelInv, NEW s \in Subjects, panel' = panel, subject' \in Subjects,
         \/ Rereads(s) /\ (s = subject' \/ panel.rereads = "keeps")
         \/ /\ reads' = {NewRead(s, 1)} /\ failed' = FALSE /\ crossed' = FALSE /\ writing' = {}
            /\ s = subject',
         data' \in {data, NoData}, current' = current, writing' \subseteq writing,
         told' \in 0..MaxStates, told' <= current,
         panel \notin CrossingPanels /\ "shown" \in panel.answers => data' = NoData /\ writing' = {}
  PROVE  PanelInv'
<1>1. PanelTyped /\ VersionsPast /\ OneRead /\ FormsTakeTurns
  BY DEF PanelInv
<1>2. PICK spot \in 1..MaxReads :
        /\ failed' = FALSE /\ crossed' \in BOOLEAN
        /\ Unordered /\ ~crossed' => writing' = {}
        /\ panel.rereads # "keeps" \/ ~crossed' => reads' = {NewRead(s, spot)} /\ s = subject'
        /\ \/ reads' = {NewRead(s, spot)}
           \/ reads' = reads \cup {NewRead(s, spot)} /\ \A r \in reads : r.place # spot
        /\ panel.rereads # "keeps" /\ crossed' => "shown" \in panel.answers /\ writing' # {}
  <2>0. 1 \in 1..MaxReads
    BY DEF MaxReads
  <2>1. CASE Rereads(s) /\ panel.rereads = "keeps"
    <3>1. PICK spot \in FreePlaces : reads' = reads \cup {NewRead(s, spot)}
      BY <2>1 DEF Rereads, AfterRereading
    <3>2. /\ failed' = FALSE /\ crossed' = (writing' # {} \/ reads # {} \/ s # subject')
      BY <2>1 DEF Rereads, Unordered
    <3> QED BY <2>1, <3>1, <3>2 DEF FreePlaces
  <2>2. CASE Rereads(s) /\ panel.rereads # "keeps" /\ s = subject'
    <3>1. reads' = {NewRead(s, 1)} /\ failed' = FALSE /\ crossed' = (Unordered /\ writing' # {})
      BY <2>2 DEF Rereads, AfterRereading
    <3>2. crossed' \in BOOLEAN /\ (Unordered => "shown" \in panel.answers)
      BY <2>2, <3>1 DEF Unordered
    <3> QED BY <2>0, <2>2, <3>1, <3>2
  <2>3. CASE /\ reads' = {NewRead(s, 1)} /\ failed' = FALSE /\ crossed' = FALSE /\ writing' = {}
             /\ s = subject'
    BY <2>0, <2>3
  <2> QED BY <2>1, <2>2, <2>3
<1>3. /\ NewRead(s, spot) \in Shown /\ NewRead(s, spot).subject = s
      /\ NewRead(s, spot).place = spot
      /\ \A i \in 1..panel.parts : NewRead(s, spot).seen[i] = 0
  BY NewReadShown
<1>4. Shown' = Shown /\ reads' # {} /\ reads' \subseteq Shown
  BY <1>1, <1>2, <1>3 DEF Shown, PanelTyped
<1>5. \A r, q \in reads' : r.place = q.place => r = q
  BY <1>1, <1>2, <1>3 DEF PanelTyped
<1>6. PanelTyped'
  BY <1>1, <1>2, <1>4, <1>5 DEF PanelTyped
<1>7. VersionsPast'
  <2>1. current \in Nat
    BY <1>1, StatesAssumption DEF PanelTyped
  <2> QED BY <1>1, <1>2, <1>3, <2>1 DEF VersionsPast
<1>8. OneRead' /\ ReadsNewer'
  BY <1>2, <1>3 DEF OneRead, ReadsNewer
<1>9. ActionsNewer' /\ ShowsSubject'
  BY <1>2, <1>4 DEF ActionsNewer, ShowsSubject, Unordered
<1>10. FormsTakeTurns'
  BY <1>1, <1>2, PanelKinds DEF FormsTakeTurns, PanelTyped, TakesTurns, CrossingPanels
<1> QED BY <1>6, <1>7, <1>8, <1>9, <1>10 DEF PanelInv

LEMMA PanelNextKeeps == PanelInv /\ [PageReadsNext]_readVars => PanelInv'
<1> SUFFICES ASSUME PanelInv, [PageReadsNext]_readVars PROVE PanelInv'
  OBVIOUS
<1>1. /\ PanelTyped /\ VersionsPast /\ OneRead /\ ReadsNewer
      /\ ActionsNewer /\ FormsTakeTurns /\ ShowsSubject
  BY DEF PanelInv
<1>2. CASE UNCHANGED readVars
  <2>1. PanelTyped' /\ VersionsPast' /\ OneRead' /\ ReadsNewer'
    BY <1>1, <1>2 DEF readVars, PanelTyped, VersionsPast, OneRead, ReadsNewer, Shown
  <2>2. ActionsNewer' /\ FormsTakeTurns' /\ ShowsSubject'
    BY <1>1, <1>2 DEF readVars, ActionsNewer, FormsTakeTurns, ShowsSubject, Shown, Unordered, CrossingPanels
  <2> QED BY <2>1, <2>2 DEF PanelInv
<1>3. /\ 0 \in 0..MaxStates /\ 0 <= current /\ told \in Nat /\ current \in Nat /\ current \in 0..MaxStates
      /\ \A w \in writing : w.subject \in Subjects /\ w.made \in 1..MaxStates /\ w.made \in Nat
  BY <1>1, StatesAssumption DEF PanelTyped, Actions
<1>4. panel \in CrossingPanels \/ TakesTurns(panel)
  BY <1>1, PanelKinds DEF PanelTyped
<1>5. CASE (\E s \in Subjects : Choose(s)) \/ Refresh \/ Poll \/ Remount
  <2>1. PICK s \in Subjects :
          /\ subject' = s
          /\ \/ Rereads(s)
             \/ reads' = {NewRead(s, 1)} /\ failed' = FALSE /\ crossed' = FALSE /\ writing' = {}
    BY <1>1, <1>5 DEF Choose, Refresh, Poll, Asks, Remount, PanelTyped
  <2>2. /\ panel' = panel /\ data' \in {data, NoData} /\ current' = current /\ told' = told
        /\ writing' \subseteq writing
    BY <1>5 DEF Choose, Refresh, Poll, Asks, Remount
  <2>3. panel \notin CrossingPanels /\ "shown" \in panel.answers => data' = NoData /\ writing' = {}
    <3>1. SUFFICES ASSUME panel \notin CrossingPanels, "shown" \in panel.answers
          PROVE  data' = NoData /\ writing' = {}
      OBVIOUS
    <3>2. CASE Remount
      BY <3>2 DEF Remount
    <3>3. CASE Refresh
      BY <1>1, <1>4, <3>1, <3>3 DEF Refresh, Asks, TakesTurns, FormsTakeTurns
    <3> QED BY <1>4, <1>5, <3>1, <3>2, <3>3 DEF TakesTurns, Choose, Poll
  <2> QED BY <1>1, <2>1, <2>2, <2>3, RereadingKeeps DEF PanelTyped, VersionsPast
\* The user is told, and the panel reads again.
<1>6. ASSUME NEW w \in writing, WriteAnswered(w) PROVE PanelInv'
  <2>1. /\ told' = (IF w.made > told THEN w.made ELSE told) /\ writing' = writing \ {w}
        /\ UNCHANGED <<panel, subject, data, current>> /\ "reread" \in panel.answers
    BY <1>6 DEF WriteAnswered, Tells
  <2>2. told' \in 0..MaxStates /\ told' <= current
    BY <1>1, <1>3, <2>1 DEF PanelTyped, VersionsPast
  <2>3. CASE panel.rereads = "skips" /\ reads # {} /\ UNCHANGED <<reads, failed, crossed>>
    <3>1. PanelTyped'
      BY <1>1, <2>1, <2>2, <2>3 DEF PanelTyped, Shown
    <3>2. VersionsPast' /\ OneRead' /\ ReadsNewer'
      BY <1>1, <2>1, <2>2, <2>3 DEF VersionsPast, OneRead, ReadsNewer
    <3>3. ActionsNewer' /\ ShowsSubject'
      BY <1>1, <2>1, <2>3 DEF ActionsNewer, ShowsSubject, Unordered
    <3>4. FormsTakeTurns'
      BY <1>1, <1>4, <2>1, <2>3 DEF FormsTakeTurns, TakesTurns, CrossingPanels
    <3> QED BY <3>1, <3>2, <3>3, <3>4 DEF PanelInv
  <2>4. CASE Rereads(IF panel.rereads = "keeps" THEN w.subject ELSE subject)
    <3>1. PICK s \in Subjects : Rereads(s) /\ (s = subject' \/ panel.rereads = "keeps")
      BY <1>1, <1>3, <2>1, <2>4 DEF PanelTyped
    <3>2. ~(panel \notin CrossingPanels /\ "shown" \in panel.answers)
      BY <1>4, <2>1 DEF TakesTurns
    <3>3. subject' \in Subjects
      BY <1>1, <2>1 DEF PanelTyped
    <3> QED BY <2>1, <2>2, <3>1, <3>2, <3>3, RereadingKeeps
  <2> QED BY <1>6, <2>3, <2>4 DEF WriteAnswered
\* The answer is shown.
<1>7. ASSUME NEW w \in writing, WriteShown(w) PROVE PanelInv'
  <2>1. /\ told' = (IF w.made > told THEN w.made ELSE told) /\ writing' = writing \ {w}
        /\ UNCHANGED <<panel, subject, reads, current, crossed>> /\ "shown" \in panel.answers
        /\ failed' = FALSE
    BY <1>7 DEF WriteShown, Tells
  <2>2. PICK version \in w.made..current : data' = ViewOf(w.subject, version)
    BY <1>7 DEF WriteShown
  <2>3. version \in 0..MaxStates /\ version \in Nat /\ version <= current /\ w.made <= version
    BY <1>1, <1>3, <2>2, StatesAssumption DEF PanelTyped
  <2>4. /\ data' \in Shown /\ data'.subject = w.subject
        /\ \A i \in 1..panel.parts : data'.seen[i] = version
    BY <1>3, <2>2, <2>3, ViewShown
  <2>5. told' \in 0..MaxStates /\ told' <= current
    BY <1>1, <1>3, <2>1 DEF PanelTyped, VersionsPast
  <2>6. ~crossed => reads = {} /\ writing = {w} /\ w.subject = subject /\ told' <= version
    BY <1>1, <1>3, <2>1, <2>3 DEF ActionsNewer, Unordered
  <2>7. PanelTyped'
    BY <1>1, <2>1, <2>4, <2>5 DEF PanelTyped, Shown
  <2>8. VersionsPast' /\ OneRead' /\ ReadsNewer'
    BY <1>1, <2>1, <2>3, <2>4, <2>5, <2>6 DEF VersionsPast, OneRead, ReadsNewer
  <2>9. ActionsNewer' /\ FormsTakeTurns'
    BY <1>1, <2>1, <2>6 DEF ActionsNewer, FormsTakeTurns, Unordered, CrossingPanels
  <2>10. ShowsSubject'
    BY <2>1, <2>4, <2>6 DEF ShowsSubject, Shown
  <2> QED BY <2>7, <2>8, <2>9, <2>10 DEF PanelInv
<1>8. ASSUME NEW w \in writing, WriteLost(w) PROVE PanelInv'
  <2>1. writing' = writing \ {w} /\ UNCHANGED <<panel, subject, data, reads, current, told, failed, crossed>>
    BY <1>8 DEF WriteLost
  <2>2. PanelTyped' /\ VersionsPast' /\ OneRead' /\ ReadsNewer'
    BY <1>1, <2>1 DEF PanelTyped, VersionsPast, OneRead, ReadsNewer, Shown
  <2>3. ActionsNewer' /\ FormsTakeTurns' /\ ShowsSubject'
    BY <1>1, <2>1 DEF ActionsNewer, FormsTakeTurns, ShowsSubject, Shown, Unordered, CrossingPanels
  <2> QED BY <2>2, <2>3 DEF PanelInv
\* A change of what is read, by others or by the user.
<1>9. CASE OthersWrite \/ UserWrites
  <2> DEFINE mine == [subject |-> subject, made |-> current + 1]
  <2>1. /\ current < MaxStates /\ current' = current + 1
        /\ UNCHANGED <<panel, subject, data, reads, told, failed>>
        /\ \/ UNCHANGED <<writing, crossed>>
           \/ /\ writing' = writing \cup {mine} /\ data # NoData
              /\ panel.single => writing = {}
              /\ crossed' = (crossed \/ (Unordered /\ (reads # {} \/ writing # {})))
    BY <1>9 DEF OthersWrite, UserWrites
  <2>2. mine \in Actions /\ mine.subject = subject /\ mine.made = current + 1
    BY <1>1, <1>3, <2>1, StatesAssumption DEF PanelTyped, Actions
  <2> HIDE DEF mine
  <2>3. current' \in 1..MaxStates /\ crossed' \in BOOLEAN
    <3>1. current' \in 1..MaxStates
      BY <1>3, <2>1, StatesAssumption
    <3>2. crossed' \in BOOLEAN
      BY <1>1, <2>1, Zenon DEF PanelTyped
    <3> QED BY <3>1, <3>2
  <2>4. PanelTyped'
    BY <1>1, <2>1, <2>2, <2>3 DEF PanelTyped, Shown
  <2>5. ASSUME data # NoData, NEW i \in 1..panel.parts
        PROVE  data.seen[i] \in Nat /\ data.seen[i] <= current + 1
    BY <1>1, <1>3, <2>5, ShownFields DEF PanelTyped, VersionsPast
  <2>6. VersionsPast'
    <3>1. told' <= current' /\ \A w \in writing' : w.made <= current'
      BY <1>1, <1>3, <2>1, <2>2 DEF VersionsPast
    <3>2. ASSUME NEW r \in reads, NEW i \in 1..panel.parts PROVE r.seen[i] <= current + 1
      <4>1. r.seen[i] \in Nat /\ r.seen[i] <= current
        BY <1>1, <3>2, ShownFields DEF PanelTyped, VersionsPast
      <4> QED BY <1>3, <4>1
    <3> QED BY <2>1, <2>5, <3>1, <3>2 DEF VersionsPast
  <2>7. crossed => crossed'
    BY <2>1
  <2>8. OneRead' /\ ReadsNewer' /\ ShowsSubject'
    BY <1>1, <2>1, <2>7 DEF OneRead, ReadsNewer, ShowsSubject, Shown
  <2>9. ActionsNewer'
    <3>1. CASE UNCHANGED <<writing, crossed>>
      BY <1>1, <2>1, <3>1 DEF ActionsNewer, Unordered
    <3>2. CASE /\ writing' = writing \cup {mine} /\ data # NoData
               /\ crossed' = (crossed \/ (Unordered /\ (reads # {} \/ writing # {})))
      <4>1. SUFFICES ASSUME Unordered, ~crossed'
            PROVE  \A w \in writing' :
                     /\ reads = {} /\ writing' = {w} /\ w.subject = subject /\ told <= w.made
                     /\ data # NoData => \A i \in 1..panel.parts : data.seen[i] <= w.made
        BY <2>1 DEF ActionsNewer, Unordered
      <4>2. reads = {} /\ writing' = {mine}
        BY <3>2, <4>1
      <4>3. told <= mine.made
        BY <1>1, <1>3, <2>2 DEF VersionsPast
      <4> QED BY <2>2, <2>5, <4>2, <4>3
    <3> QED BY <2>1, <3>1, <3>2
  <2>10. FormsTakeTurns'
    BY <1>1, <1>4, <2>1 DEF FormsTakeTurns, TakesTurns, Unordered, CrossingPanels
  <2> QED BY <2>4, <2>6, <2>8, <2>9, <2>10 DEF PanelInv
\* A request of a read is answered.
<1>10. ASSUME NEW r \in reads, NEW i \in DOMAIN r.seen, AnswerPart(r, i) PROVE PanelInv'
  <2>1. /\ r \in Shown /\ DOMAIN r.seen = 1..panel.parts /\ r.seen \in [1..panel.parts -> 0..MaxStates]
        /\ r.subject \in Subjects /\ r.place \in 1..MaxReads
    BY <1>1, ShownFields DEF PanelTyped, Shown
  <2> DEFINE seen == [r.seen EXCEPT ![i] = current]
             q == [subject |-> r.subject, place |-> r.place, seen |-> seen]
  <2>2. [r EXCEPT !.seen[i] = current] = q
    BY <2>1 DEF Shown
  <2>3. /\ reads' = (reads \ {r}) \cup {q}
        /\ UNCHANGED <<panel, subject, data, current, writing, told, failed, crossed>>
    BY <1>10, <2>2 DEF AnswerPart
  <2>4. seen \in [1..panel.parts -> 0..MaxStates] /\ seen[i] = current
        /\ \A k \in (1..panel.parts) \ {i} : seen[k] = r.seen[k]
    BY <1>3, <2>1
  <2> HIDE DEF seen
  <2>5. q \in Shown /\ q.subject = r.subject /\ q.place = r.place /\ q.seen = seen
    BY <2>1, <2>4 DEF Shown
  <2> HIDE DEF q
  <2>6. \A p, o \in reads' : p.place = o.place => p = o
    BY <1>1, <2>3, <2>5 DEF PanelTyped
  <2>7. PanelTyped'
    BY <1>1, <2>3, <2>5, <2>6 DEF PanelTyped, Shown
  <2>8. VersionsPast' /\ ShowsSubject'
    <3>1. \A k \in 1..panel.parts : q.seen[k] <= current
      BY <1>1, <1>3, <2>4, <2>5 DEF VersionsPast
    <3> QED BY <1>1, <2>3, <3>1 DEF VersionsPast, ShowsSubject
  <2>9. panel.rereads # "keeps" \/ ~crossed => reads' = {q} /\ q.subject = subject
    BY <1>1, <2>3, <2>5 DEF OneRead
  <2>10. OneRead'
    BY <2>3, <2>9 DEF OneRead
  <2>11. ReadsNewer'
    <3>1. SUFFICES ASSUME ~crossed, NEW k \in 1..panel.parts, q.seen[k] # 0
          PROVE  /\ data # NoData /\ data.subject = subject => q.seen[k] >= data.seen[k]
                 /\ panel.rereads # "skips" => q.seen[k] >= told
      BY <2>3, <2>9 DEF ReadsNewer
    <3>2. CASE k = i
      <4>1. q.seen[k] = current
        BY <2>4, <2>5, <3>2
      <4>2. data # NoData => data.seen[k] \in Nat /\ data.seen[k] <= current
        BY <1>1, ShownFields DEF PanelTyped, VersionsPast
      <4> QED BY <1>1, <1>3, <4>1, <4>2 DEF VersionsPast
    <3>3. CASE k # i
      BY <1>1, <2>4, <2>5, <3>1, <3>3 DEF ReadsNewer
    <3> QED BY <3>2, <3>3
  <2>12. ActionsNewer' /\ FormsTakeTurns'
    BY <1>1, <2>3 DEF ActionsNewer, FormsTakeTurns, Unordered, CrossingPanels
  <2> QED BY <2>7, <2>8, <2>10, <2>11, <2>12 DEF PanelInv
\* A read is shown, or fails.
<1>11. ASSUME NEW r \in reads, ShowRead(r) \/ ReadFails(r) PROVE PanelInv'
  <2>1. /\ reads' = reads \ {r} /\ UNCHANGED <<panel, subject, current, writing, told, crossed>>
        /\ failed' \in BOOLEAN
    BY <1>11 DEF ShowRead, ReadFails
  <2>2. /\ r \in Shown /\ DOMAIN r.seen = 1..panel.parts /\ r.seen \in [1..panel.parts -> 0..MaxStates]
        /\ r.subject \in Subjects
    BY <1>1, ShownFields DEF PanelTyped
  <2>3. panel.rereads # "keeps" \/ ~crossed => reads' = {}
    BY <1>1, <2>1 DEF OneRead
  <2>4. OneRead' /\ ReadsNewer'
    BY <2>1, <2>3 DEF OneRead, ReadsNewer
  <2>5. ActionsNewer'
    BY <1>1, <2>1 DEF ActionsNewer, Unordered
  <2>6. FormsTakeTurns'
    <3>1. panel \notin CrossingPanels /\ "shown" \in panel.answers => writing = {} /\ reads' = {}
      BY <1>1, <1>4, <2>3 DEF FormsTakeTurns, TakesTurns
    <3> QED BY <1>1, <2>1, <3>1 DEF FormsTakeTurns, CrossingPanels
  <2>7. CASE ShowRead(r)
    <3> DEFINE q == [subject |-> r.subject, place |-> 1, seen |-> r.seen]
    <3>1. [r EXCEPT !.place = 1] = q
      BY <2>2 DEF Shown
    <3>2. data' = q /\ failed' = FALSE /\ \A i \in 1..panel.parts : r.seen[i] # 0
      BY <2>2, <2>7, <3>1 DEF ShowRead
    <3>3. q \in Shown /\ q.subject = r.subject /\ q.seen = r.seen
      BY <2>2 DEF Shown, MaxReads
    <3> HIDE DEF q
    <3>4. PanelTyped'
      BY <1>1, <2>1, <3>2, <3>3 DEF PanelTyped, Shown
    <3>5. ShowsSubject'
      BY <1>1, <2>1, <3>2, <3>3 DEF ShowsSubject, OneRead, ReadsNewer, Shown
    <3>6. VersionsPast'
      BY <1>1, <2>1, <3>2, <3>3 DEF VersionsPast
    <3> QED BY <2>4, <2>5, <2>6, <3>4, <3>5, <3>6 DEF PanelInv
  <2>8. CASE ReadFails(r)
    <3>1. failed' = TRUE /\ data' \in {data, NoData}
      BY <2>8 DEF ReadFails
    <3>2. PanelTyped'
      BY <1>1, <2>1, <3>1 DEF PanelTyped, Shown
    <3>3. VersionsPast' /\ ShowsSubject'
      BY <1>1, <2>1, <3>1 DEF VersionsPast, ShowsSubject
    <3> QED BY <2>4, <2>5, <2>6, <3>2, <3>3 DEF PanelInv
  <2> QED BY <1>11, <2>7, <2>8
<1> QED BY <1>2, <1>5, <1>6, <1>7, <1>8, <1>9, <1>10, <1>11 DEF PageReadsNext

\* What is shown of a subject is replaced by an older state of it only after a crossing.
LEMMA PanelsForward ==
  ASSUME PanelInv, PageReadsNext, ~crossed, data # NoData, data' # NoData,
         data'.subject = data.subject
  PROVE  \A i \in DOMAIN data.seen : data'.seen[i] >= data.seen[i]
<1>1. PanelTyped /\ OneRead /\ VersionsPast /\ ReadsNewer /\ ActionsNewer
  BY DEF PanelInv
<1>2. data \in Shown /\ DOMAIN data.seen = 1..panel.parts /\ \A i \in 1..panel.parts : data.seen[i] \in Nat
  BY <1>1, ShownFields DEF PanelTyped
<1>3. CASE data' = data
  BY <1>2, <1>3
<1>4. ASSUME NEW r \in reads, ShowRead(r) PROVE \A i \in DOMAIN data.seen : data'.seen[i] >= data.seen[i]
  <2>1. r \in Shown /\ DOMAIN r.seen = 1..panel.parts
    BY <1>1, ShownFields DEF PanelTyped
  <2>2. data'.subject = r.subject /\ data'.seen = r.seen /\ \A i \in 1..panel.parts : r.seen[i] # 0
    BY <1>4, <2>1 DEF ShowRead, Shown
  <2>3. r.subject = subject /\ data.subject = subject
    BY <1>1, <2>2 DEF OneRead
  <2> QED BY <1>1, <1>2, <2>2, <2>3 DEF ReadsNewer
<1>5. ASSUME NEW w \in writing, WriteShown(w) PROVE \A i \in DOMAIN data.seen : data'.seen[i] >= data.seen[i]
  <2>1. PICK version \in w.made..current : data' = ViewOf(w.subject, version)
    BY <1>5 DEF WriteShown
  <2>2. /\ w.subject \in Subjects /\ w.made \in Nat /\ current \in Nat /\ version \in Nat
        /\ version >= w.made /\ version \in 0..MaxStates
    BY <1>1, StatesAssumption DEF PanelTyped, Actions
  <2>3. \A i \in 1..panel.parts : data'.seen[i] = version
    BY <2>1, <2>2, ViewShown
  <2>4. \A i \in 1..panel.parts : data.seen[i] <= w.made
    BY <1>1, <1>5 DEF ActionsNewer, WriteShown, Unordered
  <2> QED BY <1>2, <2>2, <2>3, <2>4
<1>6. data' = data \/ (\E r \in reads : ShowRead(r)) \/ (\E w \in writing : WriteShown(w))
  BY DEF PageReadsNext, Choose, Refresh, Asks, Remount, Poll, OthersWrite, UserWrites, WriteAnswered,
         WriteLost, ReadFails, AnswerPart
<1> QED BY <1>3, <1>4, <1>5, <1>6
-----------------------------------------------------------------------------
(* The onboarding of a provider *)

MatchingRows == [settings : Settings, version : Nat]
CoverageEvents == [removed : SUBSET ServedRegions, added : SUBSET ServedRegions]
Choices == BOOLEAN \cup {Unset}
ConsentEvents == [previous : Choices, granted : BOOLEAN]

OnboardingTyped ==
  /\ OnboardingTypeOK /\ coverageLog \in Seq(CoverageEvents)
  /\ matchingLog \in Seq(MatchingRows) /\ consentLog \in Seq(ConsentEvents)

\* One save at a time has written the profile, and one holds the matching profile:
\* what each read of the rows these guard is what they still are.
SavesHold == \A c \in OnboardingCalls :
  /\ SavingAt(c, {"upserted", "matched"}) =>
       /\ saving[c].covered = coverage
       /\ \A d \in OnboardingCalls \ {c} : ~SavingAt(d, {"upserted", "matched"})
  /\ SavingAt(c, {"matched", "dashboard"}) =>
       /\ saving[c].matched = matching
       /\ \A d \in OnboardingCalls \ {c} : ~SavingAt(d, {"matched", "dashboard"})
  /\ SavingAt(c, {"matched"}) => saving[c].was = consented

\* The coverage is the last of a series of sets that the events lead through.
LeadsThrough(g, log) ==
  /\ g[0] = {}
  /\ \A i \in 1..Len(log) :
       /\ g[i] = (g[i - 1] \ log[i].removed) \cup log[i].added
       /\ log[i].removed \subseteq g[i - 1] /\ log[i].added \cap g[i - 1] = {}

CoverageTold == \E g : LeadsThrough(g, coverageLog) /\ coverage = g[Len(coverageLog)]

OnboardingInv ==
  OnboardingTyped /\ SavesHold /\ ConsentTrailChains /\ CoverageTold /\ MatchingVersionsFollow

\* A set of numbers that is not empty has a least one.
LEMMA LeastElement ==
  ASSUME NEW S, S \subseteq Nat, S # {}
  PROVE  \E x \in S : \A y \in S : x <= y
<1> DEFINE R == {ss \in Nat \X Nat : ss[1] < ss[2]}
<1>1. IsWellFoundedOn(R, Nat)
  BY NatLessThanWellFounded DEF OpToRel
<1> HIDE DEF R
<1>2. \E x \in S : \A y \in S : ~ (<<y, x>> \in R)
  BY <1>1, WFMin
<1>3. PICK x \in S : \A y \in S : <<y, x>> \notin R
  BY <1>2
<1>4. ASSUME NEW y \in S PROVE x <= y
  <2>1. x \in Nat /\ y \in Nat /\ <<y, x>> \notin R
    BY <1>3
  <2>2. ~(y < x)
    BY <2>1 DEF R
  <2> QED BY <2>1, <2>2
<1> QED BY <1>4

LEMMA CoverageAlternates == CoverageTold /\ Len(coverageLog) \in Nat => CoverageTrailAlternates
<1> SUFFICES ASSUME CoverageTold, Len(coverageLog) \in Nat PROVE CoverageTrailAlternates
  OBVIOUS
<1> DEFINE n == Len(coverageLog)
           f[i \in 0..n] ==
             IF i = 0 THEN {} ELSE (f[i - 1] \ coverageLog[i].removed) \cup coverageLog[i].added
<1>1. PICK g : LeadsThrough(g, coverageLog) /\ coverage = g[n]
  BY DEF CoverageTold
<1> DEFINE body(h) == [i \in 0..n |-> IF i = 0 THEN {}
                         ELSE (h[i - 1] \ coverageLog[i].removed) \cup coverageLog[i].added]
           k == [i \in 0..n |-> g[i]]
<1>2. k = body(k)
  <2>1. ASSUME NEW i \in 0..n
        PROVE  k[i] = IF i = 0 THEN {} ELSE (k[i - 1] \ coverageLog[i].removed) \cup coverageLog[i].added
    <3>1. CASE i = 0
      BY <1>1, <3>1 DEF LeadsThrough
    <3>2. CASE i # 0
      <4>1. i \in 1..n /\ i - 1 \in 0..n
        BY <3>2
      <4> QED BY <1>1, <3>2, <4>1 DEF LeadsThrough
    <3> QED BY <3>1, <3>2
  <2> QED BY <2>1
<1>3. f = body(f)
  BY <1>2
<1> HIDE DEF f
<1>4. \A i \in 0..n : f[i] = IF i = 0 THEN {} ELSE (f[i - 1] \ coverageLog[i].removed) \cup coverageLog[i].added
  BY <1>3
<1>5. \A i \in 0..n : f[i] = g[i]
  <2> DEFINE S == {i \in 0..n : f[i] # g[i]}
  <2>1. SUFFICES ASSUME S # {} PROVE FALSE
    OBVIOUS
  <2>2. S \subseteq Nat /\ \A i : i \in S <=> i \in 0..n /\ f[i] # g[i]
    OBVIOUS
  <2> HIDE DEF S
  <2>3. PICK i \in S : \A y \in S : i <= y
    BY <2>1, <2>2, LeastElement
  <2>4. i \in 0..n /\ f[i] # g[i]
    BY <2>2, <2>3
  <2>5. i # 0
    BY <1>1, <1>4, <2>4 DEF LeadsThrough
  <2>6. i \in 1..n /\ i - 1 \in 0..n /\ ~(i <= i - 1)
    BY <2>4, <2>5
  <2>7. f[i - 1] = g[i - 1]
    BY <2>2, <2>3, <2>6
  <2>8. g[i] = (g[i - 1] \ coverageLog[i].removed) \cup coverageLog[i].added
    BY <1>1, <2>6 DEF LeadsThrough
  <2>9. f[i] = (f[i - 1] \ coverageLog[i].removed) \cup coverageLog[i].added
    BY <1>4, <2>4, <2>5
  <2> QED BY <2>4, <2>7, <2>8, <2>9
<1>6. coverage = f[n]
  BY <1>1, <1>5
<1>7. ASSUME NEW i \in 1..n
      PROVE  coverageLog[i].removed \subseteq f[i - 1] /\ coverageLog[i].added \cap f[i - 1] = {}
  <2>1. i - 1 \in 0..n
    OBVIOUS
  <2> QED BY <1>1, <1>5, <2>1 DEF LeadsThrough
<1> QED BY <1>6, <1>7 DEF CoverageTrailAlternates, f

LEMMA OnboardingProperties == OnboardingInv => OnboardingTypeOK /\ OnboardingTrailsTell
<1> SUFFICES ASSUME OnboardingInv PROVE OnboardingTypeOK /\ OnboardingTrailsTell
  OBVIOUS
<1>1. Len(coverageLog) \in Nat
  BY LenProperties DEF OnboardingInv, OnboardingTyped
<1>2. CoverageTrailAlternates
  BY <1>1, CoverageAlternates DEF OnboardingInv
<1> QED BY <1>2 DEF OnboardingInv, OnboardingTyped, OnboardingTrailsTell

LEMMA OnboardingInitInv == OnboardingInit => OnboardingInv
<1> SUFFICES ASSUME OnboardingInit PROVE OnboardingInv
  OBVIOUS
<1>1. OnboardingTyped
  BY DEF OnboardingInit, OnboardingTyped, OnboardingTypeOK
<1>2. SavesHold
  BY DEF OnboardingInit, SavesHold, SavingAt
<1>3. ConsentTrailChains /\ MatchingVersionsFollow
  BY DEF OnboardingInit, ConsentTrailChains, MatchingVersionsFollow
<1>4. CoverageTold
  <2> DEFINE g == [i \in {0} |-> {}]
  <2>1. g[0] = {} /\ Len(coverageLog) = 0 /\ coverage = {}
    BY DEF OnboardingInit
  <2>2. LeadsThrough(g, coverageLog)
    BY <2>1 DEF LeadsThrough
  <2> QED BY <2>1, <2>2 DEF CoverageTold
<1> QED BY <1>1, <1>2, <1>3, <1>4 DEF OnboardingInv
\* A region event is added to the trail.
LEMMA CoverageGrows ==
  ASSUME OnboardingTyped, CoverageTold, NEW event \in CoverageEvents,
         event.removed \subseteq coverage, event.added \cap coverage = {},
         coverageLog' = Append(coverageLog, event),
         coverage' = (coverage \ event.removed) \cup event.added
  PROVE  coverageLog' \in Seq(CoverageEvents) /\ CoverageTold'
<1> DEFINE n == Len(coverageLog)
<1>1. /\ n \in Nat /\ coverageLog' \in Seq(CoverageEvents) /\ Len(coverageLog') = n + 1
      /\ coverageLog'[n + 1] = event /\ \A i \in 1..n : coverageLog'[i] = coverageLog[i]
  BY AppendProperties, LenProperties DEF OnboardingTyped
<1>2. PICK g : LeadsThrough(g, coverageLog) /\ coverage = g[n]
  BY DEF CoverageTold
<1> HIDE DEF n
<1> DEFINE h == [i \in 0..(n + 1) |-> IF i = n + 1 THEN coverage' ELSE g[i]]
<1>3. h[n + 1] = coverage' /\ \A i \in 0..n : h[i] = g[i]
  BY <1>1
<1> HIDE DEF h
<1>4. h[0] = {}
  BY <1>1, <1>2, <1>3 DEF LeadsThrough
<1>5. ASSUME NEW i \in 1..(n + 1)
      PROVE  /\ h[i] = (h[i - 1] \ coverageLog'[i].removed) \cup coverageLog'[i].added
             /\ coverageLog'[i].removed \subseteq h[i - 1] /\ coverageLog'[i].added \cap h[i - 1] = {}
  <2>1. CASE i = n + 1
    <3>1. h[i - 1] = coverage /\ n \in 0..n
      BY <1>1, <1>2, <1>3, <2>1
    <3> QED BY <1>1, <1>3, <2>1, <3>1
  <2>2. CASE i # n + 1
    <3>1. i \in 1..n /\ i \in 0..n /\ i - 1 \in 0..n
      BY <1>1, <2>2
    <3> QED BY <1>1, <1>2, <1>3, <3>1 DEF LeadsThrough, n
  <2> QED BY <2>1, <2>2
<1>6. LeadsThrough(h, coverageLog')
  BY <1>1, <1>4, <1>5 DEF LeadsThrough
<1>7. CoverageTold'
  BY <1>1, <1>3, <1>6 DEF CoverageTold
<1> QED BY <1>1, <1>7

\* The matching profile is replaced by its next version, or is the same.
LEMMA MatchingFollows ==
  ASSUME OnboardingTyped, MatchingVersionsFollow, NEW save \in Saves, save.matched = matching,
         ReplaceMatching(save)
  PROVE  /\ matching' \in MatchingRows \cup {Unset} /\ matchingLog' \in Seq(MatchingRows)
         /\ MatchingVersionsFollow'
<1> DEFINE n == Len(matchingLog)
<1>1. n \in Nat /\ matchingLog \in Seq(MatchingRows) /\ (matchingLog = <<>> <=> n = 0)
      /\ \A i \in 1..n : matchingLog[i] \in MatchingRows
  BY LenProperties, EmptySeq, ElementOfSeq DEF OnboardingTyped
<1>2. CASE save.matched # Unset /\ save.matched.settings = save.form.settings
  BY <1>1, <1>2 DEF ReplaceMatching, OnboardingTyped, OnboardingTypeOK, MatchingRows, MatchingVersionsFollow
<1>3. CASE ~(save.matched # Unset /\ save.matched.settings = save.form.settings)
  <2> DEFINE row == [settings |-> save.form.settings,
                     version |-> IF save.matched = Unset THEN 1 ELSE save.matched.version + 1]
  <2>1. matching' = row /\ matchingLog' = Append(matchingLog, row)
    BY <1>3 DEF ReplaceMatching
  <2>2. save.form.settings \in Settings /\ (matching = Unset \/ matching \in MatchingRows)
    BY FormsAssumption DEF Saves, OnboardingTyped, OnboardingTypeOK, MatchingRows
  <2>3. matching = Unset <=> n = 0
    BY <1>1, FormsAssumption DEF MatchingVersionsFollow, MatchingRows
  <2>4. n > 0 => matching.version = n
    <3>1. n > 0 => n \in 1..n /\ matching = matchingLog[n]
      BY <1>1 DEF MatchingVersionsFollow
    <3> QED BY <3>1 DEF MatchingVersionsFollow
  <2>5. row \in MatchingRows /\ row.version = n + 1
    BY <1>1, <2>2, <2>3, <2>4 DEF MatchingRows
  <2> HIDE DEF row, n
  <2>6. /\ matchingLog' \in Seq(MatchingRows) /\ Len(matchingLog') = n + 1
        /\ matchingLog'[n + 1] = row /\ \A i \in 1..n : matchingLog'[i] = matchingLog[i]
    BY <1>1, <2>1, <2>5, AppendProperties DEF n
  <2>7. ASSUME NEW i \in 1..(n + 1) PROVE matchingLog'[i].version = i
    <3>1. i = n + 1 \/ i \in 1..n
      BY <1>1
    <3> QED BY <2>5, <2>6, <3>1 DEF MatchingVersionsFollow, n
  <2>8. matchingLog' # <<>>
    BY <1>1, <2>6
  <2> QED BY <2>1, <2>5, <2>6, <2>7, <2>8 DEF MatchingVersionsFollow
<1> QED BY <1>2, <1>3

\* An event of consent tells the choice that was, and the next one this.
LEMMA ConsentChains ==
  ASSUME OnboardingTyped, ConsentTrailChains, NEW granted \in BOOLEAN, consented' = granted,
         consentLog' = IF consented = granted THEN consentLog
                       ELSE Append(consentLog, [previous |-> consented, granted |-> granted])
  PROVE  consentLog' \in Seq(ConsentEvents) /\ ConsentTrailChains'
<1> DEFINE n == Len(consentLog)
           event == [previous |-> consented, granted |-> granted]
<1>1. n \in Nat /\ consentLog \in Seq(ConsentEvents) /\ (consentLog = <<>> <=> n = 0)
  BY LenProperties, EmptySeq DEF OnboardingTyped
<1>2. CASE consented = granted
  BY <1>1, <1>2 DEF ConsentTrailChains
<1>3. CASE consented # granted
  <2>1. consentLog' = Append(consentLog, event)
    BY <1>3
  <2>2. event \in ConsentEvents /\ event.previous = consented /\ event.granted = granted
    BY DEF ConsentEvents, Choices, OnboardingTyped, OnboardingTypeOK
  <2> HIDE DEF event, n
  <2>3. /\ consentLog' \in Seq(ConsentEvents) /\ Len(consentLog') = n + 1
        /\ consentLog'[n + 1] = event /\ \A i \in 1..n : consentLog'[i] = consentLog[i]
    BY <1>1, <2>1, <2>2, AppendProperties DEF n
  <2>4. consented = IF n = 0 THEN Unset ELSE consentLog[n].granted
    BY <1>1 DEF ConsentTrailChains, n
  <2>5. ASSUME NEW i \in 1..(n + 1)
        PROVE  consentLog'[i].previous = IF i = 1 THEN Unset ELSE consentLog'[i - 1].granted
    <3>1. CASE i = n + 1
      <4>1. CASE n = 0
        BY <2>2, <2>3, <2>4, <3>1, <4>1
      <4>2. CASE n # 0
        <5>1. i # 1 /\ i - 1 = n /\ n \in 1..n
          BY <1>1, <3>1, <4>2
        <5> QED BY <2>2, <2>3, <2>4, <3>1, <4>2, <5>1
      <4> QED BY <4>1, <4>2
    <3>2. CASE i # n + 1
      <4>1. i \in 1..n /\ (i # 1 => i - 1 \in 1..n)
        BY <1>1, <3>2
      <4> QED BY <2>3, <4>1 DEF ConsentTrailChains, n
    <3> QED BY <3>1, <3>2
  <2>6. consentLog' # <<>> /\ consentLog'[Len(consentLog')].granted = consented'
    <3>1. Len(consentLog') # 0 /\ consentLog'[Len(consentLog')] = event
      BY <1>1, <2>3
    <3>2. consentLog' # <<>>
      BY <3>1
    <3>3. event.granted = consented'
      BY <2>2
    <3> QED BY <3>1, <3>2, <3>3
  <2> QED BY <2>3, <2>5, <2>6 DEF ConsentTrailChains
<1> QED BY <1>2, <1>3
LEMMA OnboardingNextKeeps == OnboardingInv /\ [OnboardingNext]_onboardingVars => OnboardingInv'
<1> SUFFICES ASSUME OnboardingInv, [OnboardingNext]_onboardingVars PROVE OnboardingInv'
  OBVIOUS
<1>1. OnboardingTyped /\ SavesHold /\ ConsentTrailChains /\ CoverageTold /\ MatchingVersionsFollow
  BY DEF OnboardingInv
<1>2. ASSUME UNCHANGED savedVars, saving' \in [OnboardingCalls -> Saves \cup {NoSave}], SavesHold'
      PROVE  OnboardingInv'
  <2>1. OnboardingTyped'
    BY <1>1, <1>2 DEF savedVars, OnboardingTyped, OnboardingTypeOK
  <2>2. ConsentTrailChains' /\ CoverageTold' /\ MatchingVersionsFollow'
    BY <1>1, <1>2 DEF savedVars, ConsentTrailChains, CoverageTold, MatchingVersionsFollow
  <2> QED BY <1>2, <2>1, <2>2 DEF OnboardingInv
<1>3. CASE UNCHANGED onboardingVars
  <2>1. UNCHANGED savedVars /\ UNCHANGED saving /\ saving' \in [OnboardingCalls -> Saves \cup {NoSave}]
    BY <1>1, <1>3 DEF onboardingVars, OnboardingTyped, OnboardingTypeOK
  <2>2. SavesHold'
    BY <1>1, <2>1 DEF savedVars, SavesHold, SavingAt
  <2> QED BY <1>2, <2>1, <2>2
\* A request reads, or writes what nobody else sees yet.
<1>4. ASSUME NEW c \in OnboardingCalls, NEW j \in Saves, UNCHANGED savedVars,
             saving' = [saving EXCEPT ![c] = j],
             j.at \in {"upserted", "matched"} =>
               /\ j.covered = coverage
               /\ \A d \in OnboardingCalls \ {c} : ~SavingAt(d, {"upserted", "matched"}),
             j.at \in {"matched", "dashboard"} =>
               /\ j.matched = matching
               /\ \A d \in OnboardingCalls \ {c} : ~SavingAt(d, {"matched", "dashboard"}),
             j.at = "matched" => j.was = consented
      PROVE  OnboardingInv'
  <2>1. /\ saving'[c] = j /\ \A d \in OnboardingCalls \ {c} : saving'[d] = saving[d]
        /\ saving' \in [OnboardingCalls -> Saves \cup {NoSave}]
    BY <1>1, <1>4 DEF OnboardingTyped, OnboardingTypeOK
  <2>2. UNCHANGED <<coverage, matching, consented>>
    BY <1>4 DEF savedVars
  <2>3. ASSUME NEW d \in OnboardingCalls \ {c}, NEW steps
        PROVE  SavingAt(d, steps)' <=> SavingAt(d, steps)
    BY <2>1 DEF SavingAt
  <2>4. \A steps : SavingAt(c, steps)' => j.at \in steps
    BY <2>1 DEF SavingAt
  <2>5. ASSUME NEW d \in OnboardingCalls, SavingAt(d, {"upserted", "matched"})'
        PROVE  /\ saving'[d].covered = coverage
               /\ \A e \in OnboardingCalls \ {d} : ~SavingAt(e, {"upserted", "matched"})'
    <3>1. CASE d = c
      BY <1>4, <2>1, <2>3, <2>4, <2>5, <3>1
    <3>2. CASE d # c
      BY <1>1, <1>4, <2>1, <2>3, <2>4, <2>5, <3>2 DEF SavesHold
    <3> QED BY <3>1, <3>2
  <2>6. ASSUME NEW d \in OnboardingCalls, SavingAt(d, {"matched", "dashboard"})'
        PROVE  /\ saving'[d].matched = matching
               /\ \A e \in OnboardingCalls \ {d} : ~SavingAt(e, {"matched", "dashboard"})'
    <3>1. CASE d = c
      BY <1>4, <2>1, <2>3, <2>4, <2>6, <3>1
    <3>2. CASE d # c
      BY <1>1, <1>4, <2>1, <2>3, <2>4, <2>6, <3>2 DEF SavesHold
    <3> QED BY <3>1, <3>2
  <2>7. \A d \in OnboardingCalls : SavingAt(d, {"matched"})' => saving'[d].was = consented
    BY <1>1, <1>4, <2>1, <2>3, <2>4 DEF SavesHold
  <2>8. SavesHold'
    BY <2>2, <2>5, <2>6, <2>7 DEF SavesHold
  <2> QED BY <1>2, <1>4, <2>1, <2>8
<1>5. ASSUME NEW c \in OnboardingCalls, NEW form \in Forms, ReadProfile(c, form) PROVE OnboardingInv'
  <2> DEFINE j == [form |-> form, at |-> "read", next |-> profileVersion + 1, covered |-> {},
                   matched |-> Unset, was |-> Unset]
  <2>1. saving' = [saving EXCEPT ![c] = j] /\ UNCHANGED savedVars
    BY <1>5 DEF ReadProfile
  <2>2. j \in Saves /\ j.at = "read"
    BY <1>1 DEF Saves, OnboardingTyped, OnboardingTypeOK
  <2> HIDE DEF j
  <2> QED BY <1>4, <2>1, <2>2
<1>6. ASSUME NEW c \in OnboardingCalls, NEW form \in Forms, LockMatching(c, form) PROVE OnboardingInv'
  <2> DEFINE j == [form |-> form, at |-> "dashboard", next |-> 0, covered |-> {}, matched |-> matching,
                   was |-> Unset]
  <2>1. saving' = [saving EXCEPT ![c] = j] /\ UNCHANGED savedVars /\ MatchingFree(c)
    BY <1>6 DEF LockMatching
  <2>2. j \in Saves /\ j.at = "dashboard" /\ j.matched = matching
    BY <1>1 DEF Saves, OnboardingTyped, OnboardingTypeOK
  <2> HIDE DEF j
  <2> QED BY <1>4, <2>1, <2>2 DEF MatchingFree
<1>7. ASSUME NEW c \in OnboardingCalls, UpsertProfile(c) PROVE OnboardingInv'
  <2> DEFINE f == saving[c]
             j == [form |-> f.form, at |-> "upserted", next |-> f.next, covered |-> coverage,
                   matched |-> f.matched, was |-> f.was]
  <2>1. /\ SavingAt(c, {"read"}) /\ ProfileFree(c) /\ UNCHANGED savedVars
        /\ saving' = [saving EXCEPT ![c] = [f EXCEPT !.at = "upserted", !.covered = coverage]]
    BY <1>1, <1>7 DEF UpsertProfile, OnboardingTyped, OnboardingTypeOK
  <2>2. f \in Saves /\ coverage \in SUBSET ServedRegions
    BY <1>1, <2>1 DEF SavingAt, OnboardingTyped, OnboardingTypeOK
  <2>3. [f EXCEPT !.at = "upserted", !.covered = coverage] = j
    <3> DEFINE f1 == [form |-> f.form, at |-> "upserted", next |-> f.next, covered |-> f.covered,
                      matched |-> f.matched, was |-> f.was]
    <3>1. [f EXCEPT !.at = "upserted", !.covered = coverage]
            = [[f EXCEPT !.at = "upserted"] EXCEPT !.covered = coverage]
      OBVIOUS
    <3>2. [f EXCEPT !.at = "upserted"] = f1
      BY <2>2 DEF Saves
    <3>3. [f1 EXCEPT !.covered = coverage] = j
      OBVIOUS
    <3> QED BY <3>1, <3>2, <3>3
  <2>4. j \in Saves /\ j.at = "upserted" /\ j.covered = coverage
    BY <2>2 DEF Saves
  <2> HIDE DEF j
  <2> QED BY <1>4, <2>1, <2>3, <2>4 DEF ProfileFree
<1>8. ASSUME NEW c \in OnboardingCalls, SyncMatching(c) PROVE OnboardingInv'
  <2> DEFINE f == saving[c]
             j == [form |-> f.form, at |-> "matched", next |-> f.next, covered |-> f.covered,
                   matched |-> matching, was |-> consented]
  <2>1. /\ SavingAt(c, {"upserted"}) /\ MatchingFree(c) /\ UNCHANGED savedVars
        /\ saving' = [saving EXCEPT ![c] =
                        [f EXCEPT !.at = "matched", !.matched = matching, !.was = consented]]
    BY <1>1, <1>8 DEF SyncMatching, OnboardingTyped, OnboardingTypeOK
  <2>2. /\ f \in Saves /\ matching \in [settings : Settings, version : Nat] \cup {Unset}
        /\ consented \in BOOLEAN \cup {Unset}
    BY <1>1, <2>1 DEF SavingAt, OnboardingTyped, OnboardingTypeOK
  <2>3. [f EXCEPT !.at = "matched", !.matched = matching, !.was = consented] = j
    <3> DEFINE f1 == [form |-> f.form, at |-> "matched", next |-> f.next, covered |-> f.covered,
                      matched |-> f.matched, was |-> f.was]
               f2 == [form |-> f.form, at |-> "matched", next |-> f.next, covered |-> f.covered,
                      matched |-> matching, was |-> f.was]
    <3>1. [f EXCEPT !.at = "matched", !.matched = matching, !.was = consented]
            = [[[f EXCEPT !.at = "matched"] EXCEPT !.matched = matching] EXCEPT !.was = consented]
      OBVIOUS
    <3>2. [f EXCEPT !.at = "matched"] = f1
      BY <2>2 DEF Saves
    <3>3. [f1 EXCEPT !.matched = matching] = f2
      OBVIOUS
    <3>4. [f2 EXCEPT !.was = consented] = j
      OBVIOUS
    <3> QED BY <3>1, <3>2, <3>3, <3>4
  <2>4. j \in Saves /\ j.at = "matched" /\ j.covered = f.covered /\ j.matched = matching /\ j.was = consented
    BY <2>2 DEF Saves
  <2> HIDE DEF j
  <2>5. SavingAt(c, {"upserted", "matched"})
    BY <2>1 DEF SavingAt
  <2>6. j.covered = coverage /\ \A d \in OnboardingCalls \ {c} : ~SavingAt(d, {"upserted", "matched"})
    BY <1>1, <2>4, <2>5 DEF SavesHold
  <2> QED BY <1>4, <2>1, <2>3, <2>4, <2>6 DEF MatchingFree
<1>9. ASSUME NEW c \in OnboardingCalls, saving' = [saving EXCEPT ![c] = NoSave]
      PROVE  /\ saving' \in [OnboardingCalls -> Saves \cup {NoSave}]
             /\ \A d \in OnboardingCalls : d = c \/ saving'[d] = saving[d]
             /\ \A d \in OnboardingCalls :
                  /\ SavingAt(d, {"upserted", "matched"})' => d # c /\ SavingAt(d, {"upserted", "matched"})
                  /\ SavingAt(d, {"matched", "dashboard"})' => d # c /\ SavingAt(d, {"matched", "dashboard"})
                  /\ SavingAt(d, {"matched"})' => d # c /\ SavingAt(d, {"matched"})
  BY <1>1, <1>9 DEF OnboardingTyped, OnboardingTypeOK, SavingAt
<1>10. ASSUME NEW c \in OnboardingCalls, RollbackSave(c) PROVE OnboardingInv'
  <2>1. saving' = [saving EXCEPT ![c] = NoSave] /\ UNCHANGED savedVars
    BY <1>10 DEF RollbackSave
  <2>2. UNCHANGED <<coverage, matching, consented>>
    BY <2>1 DEF savedVars
  <2>3. SavesHold'
    BY <1>1, <1>9, <2>1, <2>2 DEF SavesHold
  <2> QED BY <1>2, <1>9, <2>1, <2>3
<1>11. ASSUME NEW c \in OnboardingCalls, CommitMatching(c) PROVE OnboardingInv'
  <2>1. /\ SavingAt(c, {"dashboard"}) /\ ReplaceMatching(saving[c])
        /\ saving' = [saving EXCEPT ![c] = NoSave]
        /\ UNCHANGED <<profileVersion, coverage, coverageLog, consented, consentLog>>
    BY <1>11 DEF CommitMatching
  <2>2. SavingAt(c, {"matched", "dashboard"}) /\ saving[c] \in Saves
    BY <1>1, <2>1 DEF SavingAt, OnboardingTyped, OnboardingTypeOK
  <2>3. /\ saving[c].matched = matching
        /\ \A d \in OnboardingCalls \ {c} : ~SavingAt(d, {"matched", "dashboard"}) /\ ~SavingAt(d, {"matched"})
    BY <1>1, <2>2 DEF SavesHold, SavingAt
  <2>4. /\ matching' \in MatchingRows \cup {Unset} /\ matchingLog' \in Seq(MatchingRows)
        /\ MatchingVersionsFollow'
    BY <1>1, <2>1, <2>2, <2>3, MatchingFollows
  <2>5. OnboardingTyped'
    BY <1>1, <1>9, <2>1, <2>4 DEF OnboardingTyped, OnboardingTypeOK, MatchingRows
  <2>6. ConsentTrailChains' /\ CoverageTold'
    BY <1>1, <2>1 DEF ConsentTrailChains, CoverageTold
  <2>7. SavesHold'
    BY <1>1, <1>9, <2>1, <2>3 DEF SavesHold
  <2> QED BY <2>4, <2>5, <2>6, <2>7 DEF OnboardingInv
<1>12. ASSUME NEW c \in OnboardingCalls, CommitOnboarding(c) PROVE OnboardingInv'
  <2>1. PICK save \in Saves : save = saving[c]
    BY <1>1, <1>12 DEF CommitOnboarding, SavingAt, OnboardingTyped, OnboardingTypeOK
  <2> DEFINE removed == save.covered \ save.form.regions
             added == save.form.regions \ save.covered
             event == [removed |-> removed, added |-> added]
  <2>2. /\ profileVersion' = save.next
        /\ coverage' = (coverage \ removed) \cup save.form.regions
        /\ coverageLog' = coverageLog \o (IF removed \cup added = {} THEN <<>> ELSE <<event>>)
        /\ ReplaceMatching(save)
        /\ consented' = save.form.granted
        /\ consentLog' = IF save.was = save.form.granted THEN consentLog
             ELSE Append(consentLog, [previous |-> save.was, granted |-> save.form.granted])
        /\ saving' = [saving EXCEPT ![c] = NoSave] /\ SavingAt(c, {"matched"})
    BY <1>12, <2>1 DEF CommitOnboarding, ConsentChanged
  <2>3. SavingAt(c, {"upserted", "matched"}) /\ SavingAt(c, {"matched", "dashboard"})
    BY <2>2 DEF SavingAt
  <2>4. /\ save.covered = coverage /\ save.matched = matching /\ save.was = consented
        /\ \A d \in OnboardingCalls \ {c} :
             /\ ~SavingAt(d, {"upserted", "matched"}) /\ ~SavingAt(d, {"matched", "dashboard"})
             /\ ~SavingAt(d, {"matched"})
    BY <1>1, <2>1, <2>2, <2>3 DEF SavesHold, SavingAt
  <2>5. /\ save.form \in Forms /\ save.form.granted \in BOOLEAN /\ save.next \in Nat
        /\ save.form.regions \subseteq ServedRegions /\ coverage \subseteq ServedRegions
    BY <1>1, FormsAssumption DEF Saves, OnboardingTyped, OnboardingTypeOK
  <2>6. /\ matching' \in MatchingRows \cup {Unset} /\ matchingLog' \in Seq(MatchingRows)
        /\ MatchingVersionsFollow'
    BY <1>1, <2>2, <2>4, MatchingFollows
  <2>7. consentLog' \in Seq(ConsentEvents) /\ ConsentTrailChains'
    BY <1>1, <2>2, <2>4, <2>5, ConsentChains
  <2>8. coverageLog' \in Seq(CoverageEvents) /\ CoverageTold'
    <3>1. /\ event \in CoverageEvents /\ event.removed = removed /\ event.added = added
      BY <2>4, <2>5 DEF CoverageEvents
    <3> HIDE DEF event
    <3>2. CASE removed \cup added = {}
      <4>1. coverage' = coverage
        BY <2>2, <2>4, <3>2
      <4>2. coverageLog' = coverageLog
        BY <1>1, <2>2, <3>2, ConcatEmptySeq DEF OnboardingTyped
      <4> QED BY <1>1, <4>1, <4>2 DEF OnboardingTyped, CoverageTold
    <3>3. CASE removed \cup added # {}
      <4>1. coverageLog' = Append(coverageLog, event)
        BY <1>1, <2>2, <3>1, <3>3, AppendIsConcat DEF OnboardingTyped
      <4>2. /\ event.removed \subseteq coverage /\ event.added \cap coverage = {}
            /\ coverage' = (coverage \ event.removed) \cup event.added
        BY <2>2, <2>4, <3>1
      <4> QED BY <1>1, <3>1, <4>1, <4>2, CoverageGrows
    <3> QED BY <3>2, <3>3
  <2>9. consented' \in BOOLEAN \cup {Unset} /\ coverage' \subseteq ServedRegions
    BY <2>2, <2>5
  <2>10. OnboardingTyped'
    BY <1>1, <1>9, <2>2, <2>5, <2>6, <2>7, <2>8, <2>9 DEF OnboardingTyped, OnboardingTypeOK, MatchingRows
  <2>11. SavesHold'
    BY <1>9, <2>2, <2>4 DEF SavesHold
  <2> QED BY <2>6, <2>7, <2>8, <2>10, <2>11 DEF OnboardingInv
<1> QED BY <1>3, <1>5, <1>6, <1>7, <1>8, <1>10, <1>11, <1>12 DEF OnboardingNext
-----------------------------------------------------------------------------
(* The windows of the abuse protection *)

\* What was admitted in this tick is numbered below the next admission, which is
\* therefore none of those that are counted.
NumberedInTick == \A d \in decided :
  d.at <= clock /\ (d.at = clock => d.nth < Cardinality({e \in decided : e.at = clock}))

RateInv ==
  /\ RateTypeOK /\ NumberedInTick /\ IsFiniteSet(decided)
  /\ \A c \in RateCalls : script[c] # NoScript => store = "redis"
  /\ store = "memory" => IsFiniteSet(DOMAIN buckets)
  /\ AdmissionsAreCounted

LEMMA RateInitInv == RateInit => RateInv
<1> SUFFICES ASSUME RateInit PROVE RateInv
  OBVIOUS
<1>1. DOMAIN buckets = {} /\ decided = {}
  BY DEF RateInit
<1>2. IsFiniteSet(DOMAIN buckets) /\ Cardinality(DOMAIN buckets) = 0 /\ IsFiniteSet(decided)
  BY <1>1, FS_EmptySet
<1>3. \A k : LiveStamps(buckets, k) = {} /\ Admissions(k) = {}
  BY <1>1 DEF LiveStamps, Admissions
<1>4. AdmissionsAreCounted
  BY <1>2, <1>3, FS_EmptySet, RateAssumption DEF AdmissionsAreCounted, WindowHolds, CountsAreAdmissions,
     BucketsBounded
<1>5. RateTypeOK /\ NumberedInTick /\ \A c \in RateCalls : script[c] = NoScript
  BY <1>1, RateAssumption DEF RateInit, RateTypeOK, NumberedInTick
<1> QED BY <1>2, <1>4, <1>5 DEF RateInv

\* The next admission is a member that no window has.
LEMMA AdmissionIsNew ==
  ASSUME RateInv, NEW code \in Codes
  PROVE  /\ Admission(code) \in Members /\ Admission(code) \notin decided
         /\ Admission(code).at = clock /\ Admission(code).code = code /\ InWindow(clock)
<1> DEFINE n == Cardinality({d \in decided : d.at = clock})
<1>1. n \in Nat
  <2>1. {d \in decided : d.at = clock} \subseteq decided
    OBVIOUS
  <2> QED BY <2>1, FS_Subset, FS_CardinalityType DEF RateInv
<1>2. clock \in 0..MaxClock /\ InWindow(clock)
  BY RateAssumption DEF RateInv, RateTypeOK, InWindow
<1>3. \A d \in decided : d.at = clock => d.nth \in Nat /\ d.nth < n
  BY DEF RateInv, NumberedInTick, RateTypeOK, Members
<1> HIDE DEF n
<1>4. /\ Admission(code).nth = n /\ Admission(code).at = clock /\ Admission(code).code = code
      /\ Admission(code) \in Members
  BY <1>1, <1>2 DEF Admission, n, Members
<1> QED BY <1>1, <1>2, <1>3, <1>4

\* What an admission leaves of the window: the key of its code and the global one count
\* it, the numbers of this tick go on, and no limit is passed that was not reached.
LEMMA AdmitKeeps ==
  ASSUME RateInv, NEW code \in Codes, UNCHANGED clock, Admit(code),
         \A k \in {"global", code} \ forgotten' : ~Full(buckets, k),
         forgotten \subseteq forgotten'
  PROVE  /\ IsFiniteSet(decided') /\ decided' \subseteq Members /\ NumberedInTick'
         /\ \A k : Admissions(k)' = Admissions(k) \cup
                     (IF k \in {"global", code} THEN {Admission(code)} ELSE {})
         /\ WindowHolds'
<1> DEFINE kept == {d \in decided : InWindow(d.at)}
           m == Admission(code)
<1>1. decided' = kept \cup {m}
  BY DEF Admit
<1>2. m \in Members /\ m \notin decided /\ m.at = clock /\ m.code = code /\ InWindow(clock)
  BY AdmissionIsNew
<1>3. decided \subseteq Members /\ IsFiniteSet(decided) /\ clock \in Nat
  BY DEF RateInv, RateTypeOK
<1>4. IsFiniteSet(kept)
  BY <1>3, FS_Subset
<1>5. IsFiniteSet(decided') /\ decided' \subseteq Members
  BY <1>1, <1>2, <1>3, <1>4, FS_AddElement
<1>6. NumberedInTick'
  <2> DEFINE tick == {d \in decided : d.at = clock}
  <2>1. {e \in decided' : e.at = clock'} = tick \cup {m} /\ m \notin tick
    BY <1>1, <1>2
  <2>2. IsFiniteSet(tick)
    BY <1>3, FS_Subset
  <2>3. Cardinality(tick \cup {m}) = Cardinality(tick) + 1 /\ Cardinality(tick) \in Nat
    BY <2>1, <2>2, FS_AddElement, FS_CardinalityType
  <2>4. m.nth = Cardinality(tick)
    BY DEF Admission
  <2>5. \A d \in decided : d.at <= clock /\ d.nth \in Nat /\ (d.at = clock => d.nth < Cardinality(tick))
    BY <1>3 DEF RateInv, NumberedInTick, Members
  <2>6. ASSUME NEW d \in decided'
        PROVE  d.at <= clock /\ (d.at = clock => d.nth < Cardinality(tick \cup {m}))
    <3> HIDE DEF m, tick
    <3>1. CASE d = m
      BY <1>2, <1>3, <2>3, <2>4, <3>1
    <3>2. CASE d \in decided
      BY <2>3, <2>5, <3>2
    <3> QED BY <1>1, <3>1, <3>2
  <2> QED BY <2>1, <2>6 DEF NumberedInTick
<1>7. ASSUME NEW k
      PROVE  Admissions(k)' = Admissions(k) \cup (IF k \in {"global", code} THEN {m} ELSE {})
  <2> HIDE DEF m
  <2> QED BY <1>1, <1>2 DEF Admissions, InWindow
<1>8. ASSUME NEW k \in RateKeys \ forgotten'
      PROVE  Cardinality(Admissions(k)') <= RateLimit[k]
  <2>1. Cardinality(Admissions(k)) <= RateLimit[k] /\ LiveStamps(buckets, k) = Admissions(k)
    BY <1>8 DEF RateInv, AdmissionsAreCounted, WindowHolds, CountsAreAdmissions
  <2>2. IsFiniteSet(Admissions(k)) /\ m \notin Admissions(k) /\ Cardinality(Admissions(k)) \in Nat
    <3>1. Admissions(k) \subseteq decided
      BY DEF Admissions
    <3> QED BY <1>2, <1>3, <3>1, FS_Subset, FS_CardinalityType
  <2>3. CASE k \in {"global", code}
    <3>1. Cardinality(Admissions(k)') = Cardinality(Admissions(k)) + 1
      <4>1. Admissions(k)' = Admissions(k) \cup {m}
        BY <1>7, <2>3
      <4> HIDE DEF m
      <4> QED BY <2>2, <4>1, FS_AddElement
    <3>2. ~(Cardinality(Admissions(k)) >= RateLimit[k])
      BY <1>8, <2>1, <2>3 DEF Full
    <3> QED BY <2>2, <3>1, <3>2, RateAssumption
  <2>4. CASE k \notin {"global", code}
    BY <1>7, <2>1, <2>4
  <2> QED BY <2>3, <2>4
<1> QED BY <1>5, <1>6, <1>7, <1>8 DEF WindowHolds

\* Buckets that stamp the keys they are told to.
LEMMA StampedDomain == \A b, keys, m : DOMAIN Stamped(b, keys, m) = DOMAIN b \cup keys
BY DEF Stamped

LEMMA StampedCounts ==
  ASSUME NEW b, NEW keys, NEW m, m.at = clock, InWindow(clock), NEW k
  PROVE  LiveStamps(Stamped(b, keys, m), k) = IF k \in keys THEN LiveStamps(b, k) \cup {m}
                                              ELSE LiveStamps(b, k)
<1>1. DOMAIN Stamped(b, keys, m) = DOMAIN b \cup keys
  BY StampedDomain
<1>2. CASE k \in keys
  <2>1. Stamped(b, keys, m)[k].stamps = LiveStamps(b, k) \cup {m}
    BY <1>2 DEF Stamped
  <2>2. LiveStamps(Stamped(b, keys, m), k) = {x \in LiveStamps(b, k) \cup {m} : InWindow(x.at)}
    BY <1>1, <1>2, <2>1 DEF LiveStamps
  <2>3. \A x \in LiveStamps(b, k) : InWindow(x.at)
    BY DEF LiveStamps
  <2> QED BY <1>2, <2>2, <2>3
<1>3. CASE k \notin keys /\ k \in DOMAIN b
  <2>1. Stamped(b, keys, m)[k] = b[k]
    BY <1>3 DEF Stamped
  <2> QED BY <1>1, <1>3, <2>1 DEF LiveStamps
<1>4. CASE k \notin keys /\ k \notin DOMAIN b
  BY <1>1, <1>4 DEF LiveStamps
<1> QED BY <1>2, <1>3, <1>4

\* A well-formed map of buckets.
Buckets(b) == DOMAIN b \subseteq RateKeys /\ \A k \in DOMAIN b : b[k] \in Bucket

LEMMA StampedTyped ==
  ASSUME NEW b, Buckets(b), NEW keys \in SUBSET RateKeys, NEW m \in Members, clock \in 0..MaxClock
  PROVE  Buckets(Stamped(b, keys, m))
<1>1. ASSUME NEW k \in keys PROVE Stamped(b, keys, m)[k] \in Bucket
  <2>1. LiveStamps(b, k) \subseteq Members
    BY DEF LiveStamps, Buckets, Bucket
  <2>2. Stamped(b, keys, m)[k] = [stamps |-> LiveStamps(b, k) \cup {m}, seen |-> clock]
    BY DEF Stamped
  <2> QED BY <2>1, <2>2 DEF Bucket
<1>2. ASSUME NEW k \in DOMAIN b \ keys PROVE Stamped(b, keys, m)[k] = b[k]
  BY DEF Stamped
<1>3. DOMAIN Stamped(b, keys, m) = DOMAIN b \cup keys
  BY DEF Stamped
<1> QED BY <1>1, <1>2, <1>3 DEF Buckets

\* Pruning forgets nothing that counts.
LEMMA PrunedKeeps ==
  ASSUME RateInv
  PROVE  /\ Buckets(Pruned) /\ DOMAIN Pruned \subseteq DOMAIN buckets
         /\ \A k : LiveStamps(Pruned, k) = LiveStamps(buckets, k)
<1> DEFINE left == {k \in DOMAIN buckets : LiveStamps(buckets, k) # {} \/ InWindow(buckets[k].seen)}
<1>1. DOMAIN Pruned = left
  BY DEF Pruned
<1>2. ASSUME NEW k \in left
      PROVE  /\ Pruned[k] \in Bucket /\ Pruned[k].stamps = LiveStamps(buckets, k)
  <2>1. Pruned[k] = [buckets[k] EXCEPT !.stamps = LiveStamps(buckets, k)]
    BY DEF Pruned
  <2>2. buckets[k] \in Bucket /\ LiveStamps(buckets, k) \subseteq Members
    BY DEF RateInv, RateTypeOK, LiveStamps, Bucket
  <2> QED BY <2>1, <2>2 DEF Bucket
<1>3. ASSUME NEW k PROVE LiveStamps(Pruned, k) = LiveStamps(buckets, k)
  <2>1. CASE k \in left
    <3>1. LiveStamps(Pruned, k) = {x \in LiveStamps(buckets, k) : InWindow(x.at)}
      BY <1>1, <1>2, <2>1 DEF LiveStamps
    <3>2. \A x \in LiveStamps(buckets, k) : InWindow(x.at)
      BY DEF LiveStamps
    <3> QED BY <3>1, <3>2
  <2>2. CASE k \notin left
    BY <1>1, <2>2 DEF LiveStamps
  <2> QED BY <2>1, <2>2
<1> QED BY <1>1, <1>2, <1>3 DEF Buckets, RateInv, RateTypeOK

\* A bucket that is looked up is there, in no more buckets than the limit; what it
\* evicts is all that is forgotten.
LEMMA WithBucketKeeps ==
  ASSUME NEW b, Buckets(b), NEW k \in RateKeys, NEW b2 \in WithBucket(b, k), clock \in 0..MaxClock,
         IsFiniteSet(DOMAIN b), Cardinality(DOMAIN b) <= MaxBuckets
  PROVE  /\ Buckets(b2) /\ k \in DOMAIN b2 /\ DOMAIN b2 \subseteq DOMAIN b \cup {k}
         /\ IsFiniteSet(DOMAIN b2) /\ Cardinality(DOMAIN b2) <= MaxBuckets
         /\ \A j : j \notin DOMAIN b \ DOMAIN b2 => LiveStamps(b2, j) = LiveStamps(b, j)
<1>1. CASE k \in DOMAIN b
  BY <1>1 DEF WithBucket
<1>2. CASE k \notin DOMAIN b
  <2> DEFINE keeps == IF Cardinality(DOMAIN b) < MaxBuckets THEN {DOMAIN b}
                      ELSE {DOMAIN b \ {k2} : k2 \in Evictable(b)}
             new == [stamps |-> {}, seen |-> clock]
  <2>1. PICK keep \in keeps : b2 = [j \in keep \cup {k} |-> IF j = k THEN new ELSE b[j]]
    BY <1>2 DEF WithBucket
  <2>2. /\ keep \subseteq DOMAIN b /\ IsFiniteSet(keep) /\ Cardinality(keep) \in Nat
        /\ Cardinality(keep) < MaxBuckets
    <3>1. Cardinality(DOMAIN b) \in Nat
      BY FS_CardinalityType
    <3>2. CASE Cardinality(DOMAIN b) < MaxBuckets
      BY <3>1, <3>2
    <3>3. CASE ~(Cardinality(DOMAIN b) < MaxBuckets)
      <4>1. PICK k2 \in Evictable(b) : keep = DOMAIN b \ {k2}
        BY <3>3
      <4>2. k2 \in DOMAIN b
        BY DEF Evictable
      <4>3. /\ IsFiniteSet(DOMAIN b \ {k2})
            /\ Cardinality(DOMAIN b \ {k2}) = Cardinality(DOMAIN b) - 1
        BY <4>2, FS_RemoveElement
      <4> QED BY <3>1, <4>1, <4>3, FS_CardinalityType, RateAssumption
    <3> QED BY <3>2, <3>3
  <2>3. DOMAIN b2 = keep \cup {k} /\ k \notin keep
    BY <1>2, <2>1, <2>2
  <2>4. IsFiniteSet(keep \cup {k}) /\ Cardinality(keep \cup {k}) = Cardinality(keep) + 1
    BY <2>2, <2>3, FS_AddElement
  <2>5. IsFiniteSet(DOMAIN b2) /\ Cardinality(DOMAIN b2) <= MaxBuckets
    BY <2>2, <2>3, <2>4, RateAssumption
  <2>6. b2[k] = new /\ \A j \in keep : b2[j] = b[j]
    BY <2>1, <2>3
  <2>7. Buckets(b2)
    BY <2>2, <2>3, <2>6 DEF Buckets, Bucket
  <2>8. ASSUME NEW j, j \notin DOMAIN b \ DOMAIN b2 PROVE LiveStamps(b2, j) = LiveStamps(b, j)
    <3>1. CASE j = k
      BY <1>2, <2>3, <2>6, <3>1 DEF LiveStamps
    <3>2. CASE j # k
      BY <2>2, <2>3, <2>6, <2>8, <3>2 DEF LiveStamps
    <3> QED BY <3>1, <3>2
  <2> QED BY <2>2, <2>3, <2>5, <2>7, <2>8
<1> QED BY <1>1, <1>2
\* Requests and commands that are sent, given up or lost, and time: no limit and no
\* count depends on them but through the window, which only loses admissions.
LEMMA RateIdleKeeps ==
  ASSUME RateInv, UNCHANGED <<store, buckets, decided, forgotten>>, RateTypeOK',
         \A c \in RateCalls : script'[c] # NoScript => store = "redis",
         clock' \in {clock, clock + 1}
  PROVE  RateInv'
<1>1. decided \subseteq Members /\ IsFiniteSet(decided) /\ clock \in Nat /\ clock' \in Nat
  BY DEF RateInv, RateTypeOK
<1>2. NumberedInTick'
  <2>1. CASE clock' = clock
    BY <2>1 DEF RateInv, NumberedInTick
  <2>2. CASE clock' = clock + 1
    <3>1. \A d \in decided : d.at \in Nat /\ d.at <= clock
      <4> TAKE d \in decided
      <4>1. d.at \in Nat
        BY <1>1, RateAssumption DEF Members
      <4>2. d.at <= clock
        BY DEF RateInv, NumberedInTick
      <4> QED BY <4>1, <4>2
    <3> QED BY <1>1, <2>2, <3>1 DEF NumberedInTick
  <2> QED BY <2>1, <2>2
<1>3. \A t \in Nat : InWindow(t)' => InWindow(t)
  BY <1>1, RateAssumption DEF InWindow
<1>4. ASSUME NEW k \in RateKeys \ forgotten
      PROVE  /\ LiveStamps(buckets, k)' = Admissions(k)'
             /\ Cardinality(Admissions(k)') <= RateLimit[k]
  <2>1. LiveStamps(buckets, k) = Admissions(k) /\ Cardinality(Admissions(k)) <= RateLimit[k]
    BY <1>4 DEF RateInv, AdmissionsAreCounted, CountsAreAdmissions, WindowHolds
  <2>2. k \in DOMAIN buckets => \A x \in buckets[k].stamps : x.at \in Nat
    BY DEF RateInv, RateTypeOK, Bucket, Members
  <2>3. \A x \in decided : x.at \in Nat
    BY <1>1 DEF Members
  <2>4. LiveStamps(buckets, k)' = {x \in LiveStamps(buckets, k) : InWindow(x.at)'}
    BY <1>3, <2>2 DEF LiveStamps
  <2>5. Admissions(k)' = {x \in Admissions(k) : InWindow(x.at)'}
    BY <1>3, <2>3 DEF Admissions
  <2>6. Admissions(k)' \subseteq Admissions(k) /\ Admissions(k) \subseteq decided
    BY <2>5 DEF Admissions
  <2>7. /\ Cardinality(Admissions(k)') \in Nat /\ Cardinality(Admissions(k)) \in Nat
        /\ Cardinality(Admissions(k)') <= Cardinality(Admissions(k))
    BY <1>1, <2>6, FS_Subset, FS_CardinalityType
  <2> QED BY <2>1, <2>4, <2>5, <2>7, RateAssumption
<1>5. AdmissionsAreCounted'
  BY <1>4 DEF RateInv, AdmissionsAreCounted, CountsAreAdmissions, WindowHolds, BucketsBounded
<1> QED BY <1>1, <1>2, <1>5 DEF RateInv

LEMMA RunScriptKeeps ==
  ASSUME RateInv, NEW c \in RateCalls, RunScript(c)
  PROVE  RateInv'
<1> DEFINE code == script[c].code
           m == Admission(code)
<1>1. code \in Codes /\ script[c] # NoScript /\ UNCHANGED <<store, clock, forgotten>>
  BY DEF RunScript, RateInv, RateTypeOK
<1>2. /\ script' \in [RateCalls -> [code : Codes, late : BOOLEAN] \cup {NoScript}]
      /\ store = "redis"
  BY DEF RunScript, RateInv, RateTypeOK
<1>3. CASE UNCHANGED <<buckets, decided>>
  <2>1. RateTypeOK'
    BY <1>1, <1>2, <1>3 DEF RateInv, RateTypeOK
  <2> QED BY <1>1, <1>2, <1>3, <2>1, RateIdleKeeps
<1>4. CASE /\ ~\E k \in {"global", code} : Full(buckets, k)
           /\ buckets' = Stamped(buckets, {"global", code}, m) /\ Admit(code)
  <2>1. m \in Members /\ m.at = clock /\ InWindow(clock)
    BY <1>1, AdmissionIsNew
  <2>2. /\ IsFiniteSet(decided') /\ decided' \subseteq Members /\ NumberedInTick' /\ WindowHolds'
        /\ \A k : Admissions(k)' = Admissions(k) \cup (IF k \in {"global", code} THEN {m} ELSE {})
    BY <1>1, <1>4, AdmitKeeps
  <2>3. Buckets(buckets) /\ {"global", code} \in SUBSET RateKeys /\ clock \in 0..MaxClock
    BY <1>1 DEF RateInv, RateTypeOK, Buckets, RateKeys
  <2>4. Buckets(buckets')
    BY <1>4, <2>1, <2>3, StampedTyped
  <2> HIDE DEF m
  <2>5. DOMAIN buckets' = DOMAIN buckets \cup {"global", code}
    BY <1>4, StampedDomain
  <2>6. ASSUME NEW k
        PROVE  LiveStamps(buckets', k) = IF k \in {"global", code} THEN LiveStamps(buckets, k) \cup {m}
                                         ELSE LiveStamps(buckets, k)
    BY <1>4, <2>1, StampedCounts
  <2>7. \A k : LiveStamps(buckets, k)' = LiveStamps(buckets', k)
    BY <1>1 DEF LiveStamps, InWindow
  <2>8. CountsAreAdmissions'
    BY <1>1, <2>2, <2>6, <2>7 DEF RateInv, AdmissionsAreCounted, CountsAreAdmissions
  <2>9. RateTypeOK'
    BY <1>1, <1>2, <2>2, <2>4 DEF RateInv, RateTypeOK, Buckets
  <2> QED BY <1>1, <1>2, <2>2, <2>8, <2>9 DEF RateInv, AdmissionsAreCounted, BucketsBounded
<1> QED BY <1>3, <1>4 DEF RunScript

LEMMA ConsumeKeeps ==
  ASSUME RateInv, NEW code \in Codes, ConsumeInMemory(code)
  PROVE  RateInv'
<1> DEFINE m == Admission(code)
<1>0. PICK b1 \in WithBucket(Pruned, "global") : \E b2 \in WithBucket(b1, code) :
        /\ IF Full(b1, "global") \/ Full(b2, code)
           THEN buckets' = b2 /\ UNCHANGED decided
           ELSE buckets' = Stamped(b2, {"global", code} \cap DOMAIN b2, m) /\ Admit(code)
        /\ forgotten' = forgotten \cup (DOMAIN Pruned \ DOMAIN b1) \cup (DOMAIN b1 \ DOMAIN b2)
  BY DEF ConsumeInMemory
<1>1. PICK b2 \in WithBucket(b1, code) :
        /\ IF Full(b1, "global") \/ Full(b2, code)
           THEN buckets' = b2 /\ UNCHANGED decided
           ELSE buckets' = Stamped(b2, {"global", code} \cap DOMAIN b2, m) /\ Admit(code)
        /\ forgotten' = forgotten \cup (DOMAIN Pruned \ DOMAIN b1) \cup (DOMAIN b1 \ DOMAIN b2)
  BY <1>0
<1>2. /\ store = "memory" /\ UNCHANGED <<store, clock, script>> /\ clock \in 0..MaxClock
      /\ forgotten \subseteq RateKeys
  BY DEF ConsumeInMemory, RateInv, RateTypeOK
<1>3. /\ Buckets(Pruned) /\ DOMAIN Pruned \subseteq DOMAIN buckets
      /\ \A k : LiveStamps(Pruned, k) = LiveStamps(buckets, k)
  BY PrunedKeeps
<1>4. IsFiniteSet(DOMAIN Pruned) /\ Cardinality(DOMAIN Pruned) <= MaxBuckets
  <2>1. IsFiniteSet(DOMAIN buckets) /\ Cardinality(DOMAIN buckets) <= MaxBuckets
    BY <1>2 DEF RateInv, AdmissionsAreCounted, BucketsBounded
  <2>2. IsFiniteSet(DOMAIN Pruned) /\ Cardinality(DOMAIN Pruned) <= Cardinality(DOMAIN buckets)
    BY <1>3, <2>1, FS_Subset
  <2> QED BY <2>1, <2>2, FS_CardinalityType, RateAssumption
<1>5. "global" \in RateKeys /\ code \in RateKeys /\ code # "global"
  BY RateAssumption DEF RateKeys
<1>6. /\ Buckets(b1) /\ "global" \in DOMAIN b1 /\ IsFiniteSet(DOMAIN b1)
      /\ Cardinality(DOMAIN b1) <= MaxBuckets
      /\ \A k : k \notin DOMAIN Pruned \ DOMAIN b1 => LiveStamps(b1, k) = LiveStamps(Pruned, k)
  BY <1>2, <1>3, <1>4, <1>5, WithBucketKeeps
<1>7. /\ Buckets(b2) /\ code \in DOMAIN b2 /\ IsFiniteSet(DOMAIN b2)
      /\ Cardinality(DOMAIN b2) <= MaxBuckets
      /\ \A k : k \notin DOMAIN b1 \ DOMAIN b2 => LiveStamps(b2, k) = LiveStamps(b1, k)
  BY <1>2, <1>5, <1>6, WithBucketKeeps
<1>8. ASSUME NEW k \in RateKeys \ forgotten'
      PROVE  /\ LiveStamps(b2, k) = LiveStamps(buckets, k) /\ LiveStamps(b1, k) = LiveStamps(buckets, k)
             /\ k \in DOMAIN b1 => k \in DOMAIN b2
             /\ LiveStamps(buckets, k) = Admissions(k)
  <2>1. k \notin forgotten /\ k \notin DOMAIN Pruned \ DOMAIN b1 /\ k \notin DOMAIN b1 \ DOMAIN b2
    BY <1>1, <1>8
  <2> QED BY <1>3, <1>6, <1>7, <2>1 DEF RateInv, AdmissionsAreCounted, CountsAreAdmissions
<1>9. forgotten \subseteq forgotten' /\ forgotten' \subseteq RateKeys
  BY <1>1, <1>2, <1>3, <1>6 DEF Buckets
<1>10. /\ script' \in [RateCalls -> [code : Codes, late : BOOLEAN] \cup {NoScript}]
       /\ store' \in {"memory", "redis"} /\ clock' \in 0..MaxClock
       /\ \A c \in RateCalls : script'[c] # NoScript => store' = "redis"
  BY <1>2 DEF RateInv, RateTypeOK
<1>11. \A k : LiveStamps(buckets, k)' = LiveStamps(buckets', k)
  BY <1>2 DEF LiveStamps, InWindow
<1>12. CASE buckets' = b2 /\ UNCHANGED decided
  <2>1. RateTypeOK' /\ NumberedInTick' /\ IsFiniteSet(decided')
    BY <1>2, <1>7, <1>9, <1>10, <1>12 DEF RateInv, RateTypeOK, NumberedInTick, Buckets
  <2>2. \A k : Admissions(k)' = Admissions(k)
    BY <1>2, <1>12 DEF Admissions, InWindow
  <2>3. CountsAreAdmissions'
    BY <1>8, <1>11, <1>12, <2>2 DEF CountsAreAdmissions
  <2>4. WindowHolds'
    BY <1>9, <2>2 DEF RateInv, AdmissionsAreCounted, WindowHolds
  <2> QED BY <1>7, <1>10, <1>12, <2>1, <2>3, <2>4 DEF RateInv, AdmissionsAreCounted, BucketsBounded
<1>13. CASE /\ ~(Full(b1, "global") \/ Full(b2, code))
            /\ buckets' = Stamped(b2, {"global", code} \cap DOMAIN b2, m) /\ Admit(code)
  <2> DEFINE keys == {"global", code} \cap DOMAIN b2
  <2>1. m \in Members /\ m.at = clock /\ InWindow(clock)
    BY AdmissionIsNew
  <2>2. \A k \in {"global", code} \ forgotten' : ~Full(buckets, k)
    BY <1>5, <1>8, <1>13 DEF Full
  <2>3. /\ IsFiniteSet(decided') /\ decided' \subseteq Members /\ NumberedInTick' /\ WindowHolds'
        /\ \A k : Admissions(k)' = Admissions(k) \cup (IF k \in {"global", code} THEN {m} ELSE {})
    BY <1>2, <1>9, <1>13, <2>2, AdmitKeeps
  <2>4. keys \in SUBSET RateKeys
    BY <1>5
  <2> HIDE DEF m
  <2>5. Buckets(buckets')
    BY <1>2, <1>7, <1>13, <2>1, <2>4, StampedTyped
  <2>6. DOMAIN buckets' = DOMAIN b2 \cup keys
    BY <1>13, StampedDomain
  <2>7. ASSUME NEW k
        PROVE  LiveStamps(buckets', k) = IF k \in keys THEN LiveStamps(b2, k) \cup {m}
                                         ELSE LiveStamps(b2, k)
    <3> HIDE DEF keys
    <3>1. buckets' = Stamped(b2, keys, m)
      BY <1>13 DEF keys
    <3> QED BY <2>1, <3>1, StampedCounts
  <2>8. DOMAIN buckets' = DOMAIN b2
    BY <2>6
  <2>9. ASSUME NEW k \in RateKeys \ forgotten'
        PROVE  LiveStamps(buckets, k)' = Admissions(k)'
    <3>1. k \in {"global", code} => k \in keys
      BY <1>6, <1>7, <1>8
    <3>2. k \in keys => k \in {"global", code}
      OBVIOUS
    <3>3. LiveStamps(b2, k) = Admissions(k)
      BY <1>8
    <3>4. LiveStamps(buckets, k)' = IF k \in keys THEN LiveStamps(b2, k) \cup {m} ELSE LiveStamps(b2, k)
      BY <1>11, <2>7
    <3>5. Admissions(k)' = Admissions(k) \cup (IF k \in {"global", code} THEN {m} ELSE {})
      BY <2>3
    <3> HIDE DEF keys
    <3> QED BY <3>1, <3>2, <3>3, <3>4, <3>5
  <2>10. RateTypeOK'
    BY <1>9, <1>10, <2>3, <2>5 DEF RateTypeOK, Buckets
  <2>11. BucketsBounded' /\ IsFiniteSet(DOMAIN buckets')
    BY <1>7, <2>8 DEF BucketsBounded
  <2> QED BY <1>10, <2>3, <2>9, <2>10, <2>11 DEF RateInv, AdmissionsAreCounted, CountsAreAdmissions
<1> QED BY <1>1, <1>12, <1>13

LEMMA RateNextKeeps == RateInv /\ [RateNext]_rateVars => RateInv'
<1> SUFFICES ASSUME RateInv, [RateNext]_rateVars PROVE RateInv'
  OBVIOUS
<1>1. CASE UNCHANGED rateVars
  <2>1. RateTypeOK' /\ \A c \in RateCalls : script'[c] # NoScript => store = "redis"
    BY <1>1 DEF RateInv, RateTypeOK, rateVars
  <2> QED BY <1>1, <2>1, RateIdleKeeps DEF rateVars
<1>2. ASSUME NEW c \in RateCalls, NEW code \in Codes, SendScript(c, code) PROVE RateInv'
  <2>1. [code |-> code, late |-> FALSE] \in [code : Codes, late : BOOLEAN]
    OBVIOUS
  <2>2. RateTypeOK' /\ \A d \in RateCalls : script'[d] # NoScript => store = "redis"
    BY <1>2, <2>1 DEF SendScript, RateInv, RateTypeOK
  <2> QED BY <1>2, <2>2, RateIdleKeeps DEF SendScript
<1>3. ASSUME NEW c \in RateCalls, GiveUpScript(c) PROVE RateInv'
  <2>1. script[c] \in [code : Codes, late : BOOLEAN] /\ UNCHANGED <<store, clock, buckets, decided, forgotten>>
    BY <1>3 DEF GiveUpScript, RateInv, RateTypeOK
  <2>2. PICK s \in [code : Codes, late : BOOLEAN] : script' = [script EXCEPT ![c] = s]
    <3>1. ASSUME NEW yes \in BOOLEAN
          PROVE  [script[c] EXCEPT !.late = yes] \in [code : Codes, late : BOOLEAN]
      BY <2>1
    <3>2. script' = [script EXCEPT ![c] = [script[c] EXCEPT !.late = TRUE]]
      BY <1>3 DEF GiveUpScript
    <3> QED BY <3>1, <3>2
  <2>3. script[c] # NoScript
    BY <1>3 DEF GiveUpScript
  <2>4. RateTypeOK' /\ \A d \in RateCalls : script'[d] # NoScript => store = "redis"
    BY <2>1, <2>2, <2>3 DEF RateInv, RateTypeOK
  <2> QED BY <2>1, <2>4, RateIdleKeeps
<1>4. ASSUME NEW c \in RateCalls, LoseScript(c) PROVE RateInv'
  <2>1. RateTypeOK' /\ \A d \in RateCalls : script'[d] # NoScript => store = "redis"
    BY <1>4 DEF LoseScript, RateInv, RateTypeOK
  <2> QED BY <1>4, <2>1, RateIdleKeeps DEF LoseScript
<1>5. CASE RestartReplica
  <2>1. DOMAIN buckets' = {} /\ decided' = {} /\ UNCHANGED <<store, clock, script, forgotten>>
    BY <1>5 DEF RestartReplica
  <2>2. IsFiniteSet(DOMAIN buckets') /\ Cardinality(DOMAIN buckets') = 0 /\ IsFiniteSet(decided')
    BY <2>1, FS_EmptySet
  <2>3. \A k : LiveStamps(buckets, k)' = {} /\ Admissions(k)' = {}
    BY <2>1 DEF LiveStamps, Admissions
  <2>4. AdmissionsAreCounted'
    BY <2>2, <2>3, FS_EmptySet, RateAssumption DEF AdmissionsAreCounted, WindowHolds,
       CountsAreAdmissions, BucketsBounded
  <2>5. RateTypeOK' /\ NumberedInTick'
    BY <2>1 DEF RateInv, RateTypeOK, NumberedInTick
  <2> QED BY <2>1, <2>2, <2>4, <2>5 DEF RateInv
<1>6. CASE TickClock
  <2>1. RateTypeOK' /\ \A d \in RateCalls : script'[d] # NoScript => store = "redis"
    <3>1. clock' \in 0..MaxClock
      BY <1>6, RateAssumption DEF TickClock, RateInv, RateTypeOK
    <3> QED BY <1>6, <3>1 DEF TickClock, RateInv, RateTypeOK
  <2> QED BY <1>6, <2>1, RateIdleKeeps DEF TickClock
<1> QED BY <1>1, <1>2, <1>3, <1>4, <1>5, <1>6, RunScriptKeeps, ConsumeKeeps DEF RateNext
-----------------------------------------------------------------------------
(* The mutations of a page *)

\* What a page may be: the handlers of the interface are of ten shapes.
Shapes ==
  {Page("dialog", FALSE, FALSE, FALSE), Page("map", FALSE, FALSE, FALSE),
   Page("dialog", FALSE, TRUE, FALSE), Page("slot", FALSE, FALSE, TRUE),
   Page("slot", FALSE, TRUE, TRUE), Page("map", TRUE, FALSE, TRUE), Page("map", FALSE, TRUE, TRUE),
   Page("map", FALSE, FALSE, TRUE), Page("none", FALSE, FALSE, TRUE), Page("none", FALSE, TRUE, TRUE)}

LEMMA PagesHaveShapes == Pages \subseteq Shapes
BY DEF Pages, Shapes, finish, photoUploads, submitProposal, acceptProposal, sendText, createAd, openCase,
   openDispute, changeReportStatus, simulateDelivery, saveGate, decidePrivacy,
   createReport, saveGoals, actOnRegion, actOnCategory, moderateAd, createCoupon,
   changeCoupon, uploadDocument, decideReferral, reviewRisk, reviewVerification,
   annotateCase, saveWeekly, createBlock, cancelBlock, transitionBooking, submitReview,
   submitCancellation, sendCaseMessage, transitionCase, triageCase, decideDispute,
   askForPrivacy, exportPackage, saveMatching, completeProfile, savePreferences,
   inviteReferral

LEMMA PageKinds ==
  ASSUME NEW p \in Pages
  PROVE  /\ p.keys \in {"dialog", "map", "slot", "none"}
         /\ p.versioned => p.keys = "map"
         /\ p.keys = "dialog" => ~p.forgets
         /\ p.keys = "slot" => p.forgets
<1>1. p \in Shapes
  BY PagesHaveShapes
<1> QED BY <1>1 DEF Shapes, Page
Awaits == [of : Requests, answer : {"none", "success", "refusal"}]
Pending(key) == \E p \in pending : p.key = key
AtPlace(i, key) == i \in 1..Len(ledger) /\ ledger[i].key = key
HasRun(key) == \E i \in 1..Len(ledger) : ledger[i].key = key
Told(key) == \E j \in 1..Len(announced) : announced[j] = key

\* Every request that some part of the system still knows.
SentRequests == pending \cup wire \cup {ledger[i] : i \in 1..Len(ledger)}
                  \cup (IF awaiting = NoRequest THEN {} ELSE {awaiting.of})

KeysMinted == \A r \in SentRequests : r.key <= minted
OneContent == page.keys # "dialog" =>
  ~conflicted /\ \A q, r \in SentRequests : q.key = r.key => q = r

\* What the page holds: a key for each fingerprint, or one; that of the request it
\* awaits among them.
KeysHeld ==
  /\ page.keys = "map" => \A p, q \in pending : p.print = q.print => p = q
  /\ page.keys \in {"dialog", "slot"} => \A p, q \in pending : p = q
  /\ awaiting # NoRequest => Pending(awaiting.of.key)
  /\ awaiting # NoRequest /\ page.keys # "dialog" => awaiting.of \in pending

\* A request of the page as it is mounted is forgotten only once it was announced.
UnseenPending == page.keys \in {"map", "dialog"} =>
  \A r \in SentRequests : r.key > mountedAt /\ ~Told(r.key) => Pending(r.key)

LedgerOnce == \A i, j \in 1..Len(ledger) : ledger[i].key = ledger[j].key => i = j

TruthTold ==
  /\ \A j \in 1..Len(announced) : HasRun(announced[j])
  /\ awaiting # NoRequest /\ awaiting.answer = "success" => HasRun(awaiting.of.key)

\* A version is executed once, at its place.
VersionsExecuted == page.versioned => \A i \in 1..Len(ledger) : ledger[i].print[2] = i - 1

\* What was announced was executed before what the page awaits, for one reason or
\* another: it is the only one, the page forgot it or minted another key since, or what
\* the page awaits carries the version it loaded since.
ToldBefore ==
  /\ page.keys = "dialog" => \A j \in 1..Len(announced) : Pending(announced[j])
  /\ page.keys = "slot" => \A p \in pending, j \in 1..Len(announced), i, l \in 1..Len(ledger) :
       ledger[i].key = announced[j] /\ ledger[l].key = p.key => i <= l
  /\ page.keys = "none" /\ awaiting # NoRequest =>
       \A j \in 1..Len(announced), i, l \in 1..Len(ledger) :
         ledger[i].key = announced[j] /\ ledger[l].key = awaiting.of.key => i <= l
  /\ page.versioned /\ awaiting # NoRequest => awaiting.of.print[2] <= loaded
  /\ page.versioned => \A j \in 1..Len(announced), i \in 1..Len(ledger) :
       ledger[i].key = announced[j] =>
         i - 1 <= loaded /\ (awaiting # NoRequest => i - 1 <= awaiting.of.print[2])

ToldInOrder == page.versioned \/ page.keys # "map" =>
  \A x, y \in 1..Len(announced), i, l \in 1..Len(ledger) :
    x < y /\ ledger[i].key = announced[x] /\ ledger[l].key = announced[y] => i <= l

PageInv ==
  /\ PageMutationsTypeOK /\ KeysMinted /\ OneContent /\ KeysHeld /\ UnseenPending
  /\ LedgerOnce /\ TruthTold /\ VersionsExecuted /\ ToldBefore /\ ToldInOrder

LEMMA PageTypes ==
  ASSUME PageMutationsTypeOK
  PROVE  /\ page.keys \in {"dialog", "map", "slot", "none"}
         /\ page.versioned => page.keys = "map"
         /\ page.keys = "dialog" => ~page.forgets
         /\ page.keys = "slot" => page.forgets
         /\ Len(ledger) \in Nat /\ Len(announced) \in Nat /\ minted \in Nat /\ loaded \in Nat
         /\ mountedAt \in Nat /\ mountedAt <= minted /\ loaded <= Len(ledger)
         /\ \A i \in 1..Len(ledger) : ledger[i] \in Requests
         /\ \A j \in 1..Len(announced) : announced[j] \in 1..minted
         /\ SentRequests \subseteq Requests
<1>1. page \in Pages
  BY DEF PageMutationsTypeOK
<1>2. ledger \in Seq(Requests) /\ announced \in Seq(1..minted)
  BY DEF PageMutationsTypeOK
<1>3. /\ Len(ledger) \in Nat /\ Len(announced) \in Nat
      /\ \A i \in 1..Len(ledger) : ledger[i] \in Requests
      /\ \A j \in 1..Len(announced) : announced[j] \in 1..minted
  BY <1>2, LenProperties, ElementOfSeq
<1>4. minted \in Nat /\ loaded \in Nat /\ mountedAt \in Nat /\ mountedAt <= minted /\ loaded <= Len(ledger)
  BY <1>3 DEF PageMutationsTypeOK, Version
<1>5. pending \subseteq Requests /\ wire \subseteq Requests
      /\ (awaiting # NoRequest => awaiting.of \in Requests)
  BY DEF PageMutationsTypeOK
<1>6. SentRequests \subseteq Requests
  BY <1>3, <1>5 DEF SentRequests
<1> QED BY <1>1, <1>3, <1>4, <1>6, PageKinds

LEMMA PageProperties == PageInv => KeysServeTheUser
<1> SUFFICES ASSUME PageInv PROVE KeysServeTheUser
  OBVIOUS
<1>1. /\ PageMutationsTypeOK /\ OneContent /\ KeysHeld /\ UnseenPending /\ LedgerOnce /\ TruthTold
      /\ ToldInOrder
  BY DEF PageInv
<1>2. ExecutedOnceUntilSeen
  <2> SUFFICES ASSUME page.keys \in {"map", "dialog"}, NEW n \in 1..Len(ledger)
               PROVE  Cardinality(Unseen(ledger[n].print)) <= 1
    BY DEF ExecutedOnceUntilSeen
  <2> DEFINE print == ledger[n].print
  <2>1. ASSUME NEW i \in Unseen(print), NEW j \in Unseen(print) PROVE i = j
    <3>1. /\ i \in 1..Len(ledger) /\ j \in 1..Len(ledger)
          /\ ledger[i].print = print /\ ledger[j].print = print
          /\ ledger[i].key > mountedAt /\ ledger[j].key > mountedAt
          /\ ~Told(ledger[i].key) /\ ~Told(ledger[j].key)
      BY DEF Unseen, Mounted, Told
    <3>2. ledger[i] \in SentRequests /\ ledger[j] \in SentRequests
      BY <3>1 DEF SentRequests
    <3>3. PICK p \in pending : p.key = ledger[i].key
      BY <1>1, <3>1, <3>2 DEF UnseenPending, Pending
    <3>4. PICK q \in pending : q.key = ledger[j].key
      BY <1>1, <3>1, <3>2 DEF UnseenPending, Pending
    <3>5. p \in SentRequests /\ q \in SentRequests
      BY DEF SentRequests
    <3>6. p = q
      BY <1>1, <3>1, <3>2, <3>3, <3>4, <3>5 DEF KeysHeld, OneContent
    <3> QED BY <1>1, <3>1, <3>3, <3>4, <3>6 DEF LedgerOnce
  <2>2. CASE Unseen(print) = {}
    BY <2>2, FS_EmptySet
  <2>3. CASE Unseen(print) # {}
    <3> HIDE DEF print
    <3>1. PICK i \in Unseen(print) : Unseen(print) = {i}
      BY <2>1, <2>3
    <3>2. Cardinality(Unseen(print)) = 1
      BY <3>1, FS_Singleton
    <3> QED BY <3>2 DEF print
  <2> QED BY <2>2, <2>3
<1>3. KeysCarryOneContent
  BY <1>1 DEF OneContent, KeysCarryOneContent
<1>4. AnnouncedInOrder
  <2> SUFFICES ASSUME page.versioned \/ page.keys # "map",
                      NEW x \in 1..Len(announced), NEW y \in 1..Len(announced), x < y
               PROVE  PlaceOf(announced[x]) <= PlaceOf(announced[y])
    BY DEF AnnouncedInOrder
  <2>1. /\ PlaceOf(announced[x]) \in 1..Len(ledger) /\ ledger[PlaceOf(announced[x])].key = announced[x]
        /\ PlaceOf(announced[y]) \in 1..Len(ledger) /\ ledger[PlaceOf(announced[y])].key = announced[y]
    BY <1>1 DEF PlaceOf, TruthTold, HasRun
  <2> QED BY <1>1, <2>1 DEF ToldInOrder
<1> QED BY <1>2, <1>3, <1>4 DEF KeysServeTheUser

LEMMA PageInitInv == PageMutationsInit => PageInv
<1> SUFFICES ASSUME PageMutationsInit PROVE PageInv
  OBVIOUS
<1>1. /\ page \in Pages /\ pending = {} /\ minted = 0 /\ mountedAt = 0 /\ awaiting = NoRequest
      /\ wire = {} /\ ledger = <<>> /\ loaded = 0 /\ announced = <<>> /\ conflicted = FALSE
  BY DEF PageMutationsInit
<1>2. SentRequests = {} /\ Len(ledger) = 0 /\ Len(announced) = 0
  BY <1>1 DEF SentRequests
<1>3. PageMutationsTypeOK
  <2>1. ledger \in Seq(Requests) /\ announced \in Seq(1..minted)
    BY <1>1, EmptySeq
  <2>2. conflicted \in BOOLEAN /\ awaiting \in Awaits \cup {NoRequest}
    BY <1>1
  <2>3. /\ pending \subseteq Requests /\ wire \subseteq Requests
        /\ minted \in Nat /\ mountedAt \in 0..minted /\ loaded \in 0..Len(ledger)
    BY <1>1, <1>2
  <2> QED BY <1>1, <2>1, <2>2, <2>3 DEF PageMutationsTypeOK, Version, Awaits
<1> QED BY <1>1, <1>2, <1>3 DEF PageInv, KeysMinted, OneContent, KeysHeld, UnseenPending, LedgerOnce,
        TruthTold, VersionsExecuted, ToldBefore, ToldInOrder, Pending
\* A click either mints a key no request has, or sends one the page holds once more.
LEMMA ClickCases ==
  ASSUME PageInv, NEW content \in Contents, Click(content)
  PROVE  \E r \in Requests :
           /\ awaiting = NoRequest /\ awaiting' = [of |-> r, answer |-> "none"]
           /\ wire' = wire \cup {r} /\ (page.versioned => r.print[2] = loaded)
           /\ UNCHANGED <<page, mountedAt, ledger, loaded, announced, conflicted>>
           /\ \/ /\ r.key = minted + 1 /\ minted' = minted + 1
                 /\ pending' = IF page.keys \in {"slot", "dialog"} THEN {r} ELSE pending \cup {r}
                 /\ page.keys = "map" => \A p \in pending : p.print # r.print
                 /\ page.keys = "dialog" => pending = {}
              \/ /\ page.keys # "none" /\ Pending(r.key) /\ (page.keys # "dialog" => r \in pending)
                 /\ UNCHANGED <<minted, pending>>
<1> DEFINE print == <<content, IF page.versioned THEN loaded ELSE 0>>
           held == CurrentFor(print)
           key == IF held = {} THEN minted + 1 ELSE (CHOOSE p \in held : TRUE).key
           r == [print |-> print, key |-> key]
<1>1. PageMutationsTypeOK /\ KeysHeld
  BY DEF PageInv
<1>2. print \in Prints /\ (page.versioned => print[2] = loaded)
  BY <1>1, PageTypes DEF Prints
<1>3. /\ awaiting = NoRequest /\ awaiting' = [of |-> r, answer |-> "none"] /\ wire' = wire \cup {r}
      /\ UNCHANGED <<page, mountedAt, ledger, loaded, announced, conflicted>>
      /\ minted' = IF held = {} THEN key ELSE minted
      /\ pending' = Remember(r)
  BY DEF Click
<1>4. /\ pending \subseteq Requests /\ minted \in Nat
      /\ page.keys \in {"dialog", "map", "slot", "none"}
  BY <1>1, PageTypes DEF PageMutationsTypeOK
<1> HIDE DEF print
<1>5. CASE held = {}
  <2>1. key = minted + 1
    BY <1>5
  <2>2. r \in Requests /\ r.key = minted + 1 /\ r.print = print
    BY <1>2, <1>4, <2>1 DEF Requests
  <2>3. /\ page.keys = "dialog" => pending = {}
        /\ page.keys = "map" => \A p \in pending : p.print # print
    BY <1>4, <1>5 DEF CurrentFor
  <2>4. pending' = IF page.keys \in {"slot", "dialog"} THEN {r} ELSE pending \cup {r}
    <3> HIDE DEF r
    <3> QED BY <1>3, <1>4, <2>3 DEF Remember
  <2>5. minted' = minted + 1
    BY <1>3, <1>5, <2>1
  <2> HIDE DEF r, key
  <2> QED BY <1>2, <1>3, <2>2, <2>3, <2>4, <2>5
<1>6. CASE held # {}
  <2>1. PICK p \in held : key = p.key
    BY <1>6
  <2>2. page.keys # "none" /\ p \in pending /\ (page.keys # "dialog" => p.print = print)
    BY <1>4, <2>1 DEF CurrentFor
  <2>3. r \in Requests /\ r.key = p.key /\ r.print = print
    BY <1>2, <1>4, <2>1, <2>2 DEF Requests
  <2>4. page.keys # "dialog" => r = p
    <3> HIDE DEF key
    <3> QED BY <1>4, <2>1, <2>2, <2>3 DEF Requests
  <2>5. minted' = minted
    BY <1>3, <1>6
  <2> HIDE DEF r, key, held
  <2>6. pending' = pending
    <3>1. CASE page.keys = "dialog"
      BY <1>3, <2>2, <3>1 DEF Remember
    <3>2. CASE page.keys = "slot"
      <4>1. pending = {p}
        BY <1>1, <2>2, <3>2 DEF KeysHeld
      <4> QED BY <1>3, <2>4, <3>2, <4>1 DEF Remember
    <3>3. CASE page.keys = "map"
      BY <1>3, <2>2, <2>4, <3>3 DEF Remember
    <3> QED BY <1>4, <2>2, <3>1, <3>2, <3>3
  <2>7. Pending(r.key)
    BY <2>2, <2>3 DEF Pending
  <2> QED BY <1>2, <1>3, <2>2, <2>3, <2>4, <2>5, <2>6, <2>7
<1> QED BY <1>5, <1>6

\* While no request is new, those that are known agree as before.
LEMMA SentFewer ==
  ASSUME PageInv, SentRequests' \subseteq SentRequests, UNCHANGED <<page, minted>>,
         page.keys # "dialog" => conflicted' = conflicted
  PROVE  KeysMinted' /\ OneContent'
BY DEF PageInv, KeysMinted, OneContent
LEMMA ClickKeeps ==
  ASSUME PageInv, NEW content \in Contents, Click(content)
  PROVE  PageInv'
<1>1. /\ PageMutationsTypeOK /\ KeysMinted /\ OneContent /\ KeysHeld /\ UnseenPending
      /\ LedgerOnce /\ TruthTold /\ VersionsExecuted /\ ToldBefore /\ ToldInOrder
  BY DEF PageInv
<1>2. PICK r \in Requests :
        /\ awaiting = NoRequest /\ awaiting' = [of |-> r, answer |-> "none"]
        /\ wire' = wire \cup {r} /\ (page.versioned => r.print[2] = loaded)
        /\ UNCHANGED <<page, mountedAt, ledger, loaded, announced, conflicted>>
        /\ \/ /\ r.key = minted + 1 /\ minted' = minted + 1
              /\ pending' = IF page.keys \in {"slot", "dialog"} THEN {r} ELSE pending \cup {r}
              /\ page.keys = "map" => \A p \in pending : p.print # r.print
              /\ page.keys = "dialog" => pending = {}
           \/ /\ page.keys # "none" /\ Pending(r.key) /\ (page.keys # "dialog" => r \in pending)
              /\ UNCHANGED <<minted, pending>>
  BY ClickCases
<1> DEFINE Mints == /\ r.key = minted + 1 /\ minted' = minted + 1
                    /\ pending' = IF page.keys \in {"slot", "dialog"} THEN {r} ELSE pending \cup {r}
                    /\ page.keys = "map" => \A p \in pending : p.print # r.print
                    /\ page.keys = "dialog" => pending = {}
           Repeats == /\ page.keys # "none" /\ Pending(r.key) /\ (page.keys # "dialog" => r \in pending)
                      /\ UNCHANGED <<minted, pending>>
<1>3. /\ page.keys \in {"dialog", "map", "slot", "none"} /\ (page.versioned => page.keys = "map")
      /\ minted \in Nat /\ SentRequests \subseteq Requests /\ loaded \in Nat /\ Len(ledger) \in Nat
      /\ \A j \in 1..Len(announced) : announced[j] \in 1..minted
  BY <1>1, PageTypes
<1>4. awaiting' \in Awaits /\ awaiting'.of = r /\ awaiting'.answer = "none"
  BY <1>2 DEF Awaits
<1>5. SentRequests' \subseteq SentRequests \cup {r} /\ pending' \subseteq pending \cup {r}
  BY <1>2, <1>4 DEF SentRequests
<1>6. Repeats => minted' = minted /\ pending' = pending /\ Pending(r.key)
  OBVIOUS
<1>7. minted' \in Nat /\ minted <= minted' /\ r.key <= minted'
  <2>1. CASE Mints
    BY <1>3, <2>1
  <2>2. CASE Repeats
    <3>1. PICK p \in pending : p.key = r.key
      BY <2>2 DEF Pending
    <3>2. p \in SentRequests
      BY DEF SentRequests
    <3> QED BY <1>1, <1>3, <2>2, <3>1, <3>2 DEF KeysMinted
  <2> QED BY <1>2, <2>1, <2>2
<1>8. PageMutationsTypeOK'
  <2>1. announced \in Seq(1..minted')
    <3>1. announced \in Seq(1..minted) /\ 1..minted \subseteq 1..minted'
      BY <1>1, <1>3, <1>7 DEF PageMutationsTypeOK
    <3> QED BY <3>1, SeqMonotonic
  <2>2. pending' \subseteq Requests /\ wire' \subseteq Requests /\ mountedAt' \in 0..minted'
    BY <1>1, <1>2, <1>3, <1>5, <1>7 DEF PageMutationsTypeOK
  <2> QED BY <1>1, <1>2, <1>4, <1>7, <2>1, <2>2 DEF PageMutationsTypeOK, Version, Awaits
<1>9. KeysMinted'
  <2>1. \A q \in SentRequests : q.key <= minted /\ q.key \in Nat
    BY <1>1, <1>3 DEF KeysMinted, Requests
  <2> QED BY <1>3, <1>5, <1>7, <2>1 DEF KeysMinted
<1>10. OneContent'
  <2> SUFFICES ASSUME page.keys # "dialog"
               PROVE  ~conflicted' /\ \A p, q \in SentRequests' : p.key = q.key => p = q
    BY <1>2 DEF OneContent
  <2>1. \A q \in SentRequests : q.key <= minted /\ q.key \in Nat
    BY <1>1, <1>3 DEF KeysMinted, Requests
  <2>2. \A q \in SentRequests : q.key = r.key => q = r
    <3>1. CASE Mints
      BY <1>3, <2>1, <3>1
    <3>2. CASE Repeats
      <4>1. r \in SentRequests
        BY <3>2 DEF SentRequests
      <4> QED BY <1>1, <4>1 DEF OneContent
    <3> QED BY <1>2, <3>1, <3>2
  <2>3. ~conflicted'
    BY <1>1, <1>2 DEF OneContent
  <2>4. \A p, q \in SentRequests : p.key = q.key => p = q
    BY <1>1 DEF OneContent
  <2> QED BY <1>5, <2>2, <2>3, <2>4
<1>11. \A key : Pending(key) /\ page.keys # "slot" => Pending(key)'
  BY <1>2 DEF Pending
<1>12. Pending(r.key)' /\ (page.keys # "dialog" => r \in pending')
  <2>1. CASE Mints
    BY <2>1 DEF Pending
  <2>2. CASE Repeats
    BY <2>2 DEF Pending
  <2> QED BY <1>2, <2>1, <2>2
<1>13. KeysHeld'
  <2>1. page.keys = "map" => \A p, q \in pending' : p.print = q.print => p = q
    <3>1. CASE Mints
      BY <1>1, <3>1 DEF KeysHeld
    <3>2. CASE Repeats
      BY <1>1, <3>2 DEF KeysHeld
    <3> QED BY <1>2, <3>1, <3>2
  <2>2. page.keys \in {"dialog", "slot"} => \A p, q \in pending' : p = q
    <3>1. CASE Mints
      BY <3>1
    <3>2. CASE Repeats
      BY <1>1, <3>2 DEF KeysHeld
    <3> QED BY <1>2, <3>1, <3>2
  <2> QED BY <1>2, <1>4, <1>12, <2>1, <2>2 DEF KeysHeld, Pending
<1>14. UnseenPending'
  <2> SUFFICES ASSUME page.keys \in {"map", "dialog"}, NEW q \in SentRequests',
                      q.key > mountedAt, ~Told(q.key)
               PROVE  Pending(q.key)'
    BY <1>2 DEF UnseenPending, Told
  <2> QED BY <1>1, <1>5, <1>11, <1>12 DEF UnseenPending
<1>15. LedgerOnce' /\ TruthTold' /\ VersionsExecuted' /\ ToldInOrder'
  BY <1>1, <1>2, <1>4 DEF LedgerOnce, TruthTold, HasRun, VersionsExecuted, ToldInOrder
<1>16. \A i \in 1..Len(ledger) : ledger[i].key <= minted /\ ledger[i].key \in Nat
  <2>1. \A i \in 1..Len(ledger) : ledger[i] \in SentRequests
    BY DEF SentRequests
  <2> QED BY <1>1, <1>3, <2>1 DEF KeysMinted, Requests
<1>17. ToldBefore'
  <2>1. page.keys = "dialog" => \A j \in 1..Len(announced) : Pending(announced[j])'
    <3>1. page.keys = "dialog" => \A j \in 1..Len(announced) : \E p \in pending : p.key = announced[j]
      BY <1>1 DEF ToldBefore, Pending
    <3>2. page.keys = "dialog" => pending \subseteq pending'
      BY <1>2
    <3> QED BY <1>2, <3>1, <3>2 DEF Pending
  <2>2. page.keys = "slot" => \A p \in pending', j \in 1..Len(announced), i, l \in 1..Len(ledger) :
          ledger[i].key = announced[j] /\ ledger[l].key = p.key => i <= l
    <3>1. CASE Mints
      BY <1>3, <1>16, <3>1
    <3>2. CASE Repeats
      BY <1>1, <3>2 DEF ToldBefore
    <3> QED BY <1>2, <3>1, <3>2
  <2>3. page.keys = "none" => \A l \in 1..Len(ledger) : ledger[l].key # r.key
    BY <1>2, <1>3, <1>16
  <2>4. page.versioned => \A j \in 1..Len(announced), i \in 1..Len(ledger) :
          ledger[i].key = announced[j] => i - 1 <= loaded /\ i - 1 <= r.print[2]
    BY <1>1, <1>2 DEF ToldBefore
  <2>5. page.versioned => r.print[2] <= loaded
    BY <1>2, <1>3
  <2> QED BY <1>2, <1>4, <2>1, <2>2, <2>3, <2>4, <2>5 DEF ToldBefore
<1> QED BY <1>8, <1>9, <1>10, <1>13, <1>14, <1>15, <1>17 DEF PageInv
\* The server's answer to a request: what the page awaits is the same request, with an
\* answer that may have come now.
LEMMA ServingAnswers ==
  ASSUME PageInv, NEW r \in wire, NEW answer \in {"success", "refusal"}, Serving(r, answer)
  PROVE  /\ wire' = wire \ {r} /\ awaiting' \in Awaits \cup {NoRequest}
         /\ awaiting' # NoRequest =>
              /\ awaiting # NoRequest /\ awaiting'.of = awaiting.of
              /\ \/ awaiting'.answer = awaiting.answer
                 \/ awaiting'.answer = answer /\ awaiting.of = r
<1>1. awaiting \in Awaits \cup {NoRequest}
  BY DEF PageInv, PageMutationsTypeOK, Awaits
<1>2. awaiting' = IF awaiting # NoRequest /\ awaiting.of = r
                  THEN [awaiting EXCEPT !.answer = answer] ELSE awaiting
  BY DEF Serving
<1>3. CASE awaiting # NoRequest /\ awaiting.of = r
  BY <1>1, <1>2, <1>3 DEF Serving, Awaits
<1>4. CASE ~(awaiting # NoRequest /\ awaiting.of = r)
  BY <1>1, <1>2, <1>4 DEF Serving
<1> QED BY <1>3, <1>4

\* An answer that adds nothing to the ledger: of a key that was executed, or a refusal.
LEMMA AnswerKeeps ==
  ASSUME PageInv, NEW r \in wire, NEW answer \in {"success", "refusal"}, Serving(r, answer),
         answer = "success" => HasRun(r.key),
         UNCHANGED <<page, pending, minted, mountedAt, ledger, loaded, announced>>,
         conflicted' \in BOOLEAN, page.keys # "dialog" => ~conflicted'
  PROVE  PageInv'
<1>1. /\ PageMutationsTypeOK /\ KeysMinted /\ OneContent /\ KeysHeld /\ UnseenPending
      /\ LedgerOnce /\ TruthTold /\ VersionsExecuted /\ ToldBefore /\ ToldInOrder
  BY DEF PageInv
<1>2. /\ wire' = wire \ {r} /\ awaiting' \in Awaits \cup {NoRequest}
      /\ awaiting' # NoRequest =>
           /\ awaiting # NoRequest /\ awaiting'.of = awaiting.of
           /\ \/ awaiting'.answer = awaiting.answer
              \/ awaiting'.answer = answer /\ awaiting.of = r
  BY ServingAnswers
<1>3. SentRequests' \subseteq SentRequests
  BY <1>2 DEF SentRequests
<1>4. PageMutationsTypeOK'
  <2>1. wire' \subseteq Requests
    BY <1>1, <1>2 DEF PageMutationsTypeOK
  <2>2. conflicted' \in BOOLEAN
    OBVIOUS
  <2> QED BY <1>1, <1>2, <2>1, <2>2 DEF PageMutationsTypeOK, Version, Awaits
<1>5. KeysMinted' /\ OneContent'
  BY <1>1, <1>3 DEF KeysMinted, OneContent
<1>6. KeysHeld' /\ UnseenPending'
  BY <1>1, <1>2, <1>3 DEF KeysHeld, UnseenPending, Pending, Told
<1>7. TruthTold' /\ ToldBefore'
  BY <1>1, <1>2 DEF TruthTold, HasRun, ToldBefore, Pending
<1>8. LedgerOnce' /\ VersionsExecuted' /\ ToldInOrder'
  BY <1>1 DEF LedgerOnce, VersionsExecuted, ToldInOrder
<1> QED BY <1>4, <1>5, <1>6, <1>7, <1>8 DEF PageInv

LEMMA ExecuteKeeps ==
  ASSUME PageInv, NEW r \in wire, ExecuteMutation(r)
  PROVE  PageInv'
<1>1. /\ PageMutationsTypeOK /\ KeysMinted /\ OneContent /\ KeysHeld /\ UnseenPending
      /\ LedgerOnce /\ TruthTold /\ VersionsExecuted /\ ToldBefore /\ ToldInOrder
  BY DEF PageInv
<1>2. /\ wire' = wire \ {r} /\ awaiting' \in Awaits \cup {NoRequest}
      /\ awaiting' # NoRequest =>
           /\ awaiting # NoRequest /\ awaiting'.of = awaiting.of
           /\ \/ awaiting'.answer = awaiting.answer
              \/ awaiting'.answer = "success" /\ awaiting.of = r
  <2>1. Serving(r, "success")
    BY DEF ExecuteMutation
  <2> QED BY <2>1, ServingAnswers
<1>3. /\ \A i \in 1..Len(ledger) : ledger[i].key # r.key
      /\ page.versioned => r.print[2] = Len(ledger)
      /\ UNCHANGED <<page, pending, minted, mountedAt, loaded, announced, conflicted>>
  BY DEF ExecuteMutation, Version
<1>4. /\ r \in Requests /\ ledger \in Seq(Requests) /\ Len(ledger) \in Nat /\ loaded \in 0..Len(ledger)
      /\ page.keys \in {"dialog", "map", "slot", "none"} /\ (page.versioned => page.keys = "map")
  BY <1>1, PageTypes DEF PageMutationsTypeOK, Version
<1>5. /\ ledger' \in Seq(Requests) /\ Len(ledger') = Len(ledger) + 1 /\ ledger'[Len(ledger) + 1] = r
      /\ \A i \in 1..Len(ledger) : ledger'[i] = ledger[i]
  BY <1>4, AppendProperties DEF ExecuteMutation
<1>6. SentRequests' \subseteq SentRequests
  <2>1. ASSUME NEW i \in 1..Len(ledger') PROVE ledger'[i] \in SentRequests
    <3>1. i \in 1..Len(ledger) \/ i = Len(ledger) + 1
      BY <1>4, <1>5
    <3> QED BY <1>5, <3>1 DEF SentRequests
  <2> QED BY <1>2, <1>3, <2>1 DEF SentRequests
<1>7. PageMutationsTypeOK'
  <2>1. wire' \subseteq Requests /\ loaded' \in 0..Len(ledger')
    BY <1>1, <1>2, <1>3, <1>4, <1>5 DEF PageMutationsTypeOK
  <2> QED BY <1>1, <1>2, <1>3, <1>5, <2>1 DEF PageMutationsTypeOK, Version, Awaits
<1>8. KeysMinted' /\ OneContent'
  BY <1>1, <1>3, <1>6 DEF KeysMinted, OneContent
<1>9. KeysHeld' /\ UnseenPending'
  BY <1>1, <1>2, <1>3, <1>6 DEF KeysHeld, UnseenPending, Pending, Told
<1>10. LedgerOnce'
  <2> SUFFICES ASSUME NEW i \in 1..Len(ledger'), NEW j \in 1..Len(ledger'), ledger'[i].key = ledger'[j].key
               PROVE  i = j
    BY DEF LedgerOnce
  <2>1. (i \in 1..Len(ledger) \/ i = Len(ledger) + 1) /\ (j \in 1..Len(ledger) \/ j = Len(ledger) + 1)
    BY <1>4, <1>5
  <2> QED BY <1>1, <1>3, <1>5, <2>1 DEF LedgerOnce
<1>11. \A key : HasRun(key) => HasRun(key)'
  BY <1>4, <1>5 DEF HasRun
<1>12. HasRun(r.key)'
  <2>1. Len(ledger) + 1 \in 1..Len(ledger')
    BY <1>4, <1>5
  <2> QED BY <1>5, <2>1 DEF HasRun
<1>13. TruthTold'
  <2>1. \A j \in 1..Len(announced) : \E i \in 1..Len(ledger) : ledger[i].key = announced[j]
    BY <1>1 DEF TruthTold, HasRun
  <2>2. \A j \in 1..Len(announced) : \E i \in 1..Len(ledger') : ledger'[i].key = announced[j]
    BY <1>4, <1>5, <2>1
  <2>3. awaiting' # NoRequest /\ awaiting'.answer = "success"
          => \E i \in 1..Len(ledger') : ledger'[i].key = awaiting'.of.key
    <3> SUFFICES ASSUME awaiting' # NoRequest, awaiting'.answer = "success"
                 PROVE  \E i \in 1..Len(ledger') : ledger'[i].key = awaiting'.of.key
      OBVIOUS
    <3>1. CASE awaiting'.answer = awaiting.answer
      <4>1. \E i \in 1..Len(ledger) : ledger[i].key = awaiting.of.key
        BY <1>1, <1>2, <3>1 DEF TruthTold, HasRun
      <4> QED BY <1>2, <1>4, <1>5, <4>1
    <3>2. CASE awaiting.of = r
      BY <1>2, <1>12, <3>2 DEF HasRun
    <3> QED BY <1>2, <3>1, <3>2
  <2> QED BY <1>3, <2>2, <2>3 DEF TruthTold, HasRun
<1>14. VersionsExecuted'
  <2> SUFFICES ASSUME page.versioned, NEW i \in 1..Len(ledger') PROVE ledger'[i].print[2] = i - 1
    BY <1>3 DEF VersionsExecuted
  <2>1. i \in 1..Len(ledger) \/ i = Len(ledger) + 1
    BY <1>4, <1>5
  <2> QED BY <1>1, <1>3, <1>4, <1>5, <2>1 DEF VersionsExecuted
\* A key that was announced had been executed: it is not the one executed now.
<1>15. ASSUME NEW j \in 1..Len(announced), NEW i \in 1..Len(ledger'), ledger'[i].key = announced[j]
       PROVE  i \in 1..Len(ledger) /\ ledger[i].key = announced[j]
  <2>1. announced[j] # r.key
    BY <1>1, <1>3 DEF TruthTold, HasRun
  <2>2. i \in 1..Len(ledger) \/ i = Len(ledger) + 1
    BY <1>4, <1>5
  <2> QED BY <1>5, <1>15, <2>1, <2>2
<1>16. ToldInOrder'
  BY <1>1, <1>3, <1>15 DEF ToldInOrder
<1>17. \A l \in 1..Len(ledger') : \/ l \in 1..Len(ledger) /\ ledger'[l] = ledger[l]
                                  \/ \A i \in 1..Len(ledger) : i <= l
  BY <1>4, <1>5
<1>18. ToldBefore'
  <2>1. page.keys = "dialog" => \A j \in 1..Len(announced) : Pending(announced[j])
    BY <1>1 DEF ToldBefore
  <2>2. page.keys = "slot" => \A p \in pending, j \in 1..Len(announced), i, l \in 1..Len(ledger') :
          ledger'[i].key = announced[j] /\ ledger'[l].key = p.key => i <= l
    BY <1>1, <1>15, <1>17 DEF ToldBefore
  <2>3. page.keys = "none" /\ awaiting' # NoRequest =>
          \A j \in 1..Len(announced), i, l \in 1..Len(ledger') :
            ledger'[i].key = announced[j] /\ ledger'[l].key = awaiting'.of.key => i <= l
    BY <1>1, <1>2, <1>15, <1>17 DEF ToldBefore
  <2>4. page.versioned => \A j \in 1..Len(announced), i \in 1..Len(ledger') :
          ledger'[i].key = announced[j] =>
            i - 1 <= loaded /\ (awaiting' # NoRequest => i - 1 <= awaiting'.of.print[2])
    BY <1>1, <1>2, <1>15 DEF ToldBefore
  <2>5. page.versioned /\ awaiting' # NoRequest => awaiting'.of.print[2] <= loaded
    BY <1>1, <1>2 DEF ToldBefore
  <2> QED BY <1>3, <2>1, <2>2, <2>3, <2>4, <2>5 DEF ToldBefore, Pending
<1> QED BY <1>7, <1>8, <1>9, <1>10, <1>13, <1>14, <1>16, <1>18 DEF PageInv
\* A page that unmounts starts anew: what it sent has old keys.
LEMMA UnmountKeeps ==
  ASSUME PageInv, Unmounted, awaiting' = NoRequest, UNCHANGED <<page, minted, wire, ledger, conflicted>>
  PROVE  PageInv'
<1>1. /\ PageMutationsTypeOK /\ KeysMinted /\ OneContent /\ LedgerOnce /\ VersionsExecuted
  BY DEF PageInv
<1>2. pending' = {} /\ announced' = <<>> /\ Len(announced') = 0 /\ mountedAt' = minted /\ loaded' = Len(ledger)
  BY DEF Unmounted, Version
<1>3. minted \in Nat /\ Len(ledger) \in Nat /\ SentRequests \subseteq Requests
  BY <1>1, PageTypes
<1>4. SentRequests' \subseteq SentRequests
  BY <1>2 DEF SentRequests
<1>5. PageMutationsTypeOK'
  <2>1. announced' \in Seq(1..minted')
    BY <1>2, EmptySeq
  <2>2. mountedAt' \in 0..minted' /\ loaded' \in 0..Len(ledger')
    BY <1>2, <1>3
  <2> QED BY <1>1, <1>2, <2>1, <2>2 DEF PageMutationsTypeOK, Version
<1>6. KeysMinted' /\ OneContent'
  BY <1>4, SentFewer
<1>7. KeysHeld'
  BY <1>2 DEF KeysHeld
<1>8. UnseenPending'
  <2>1. \A r \in SentRequests : r.key <= minted /\ r.key \in Nat
    BY <1>1, <1>3 DEF KeysMinted, Requests
  <2> QED BY <1>2, <1>3, <1>4, <2>1 DEF UnseenPending
<1>9. LedgerOnce' /\ VersionsExecuted'
  BY <1>1 DEF LedgerOnce, VersionsExecuted
<1>10. TruthTold' /\ ToldBefore' /\ ToldInOrder'
  BY <1>2 DEF TruthTold, ToldBefore, ToldInOrder
<1> QED BY <1>5, <1>6, <1>7, <1>8, <1>9, <1>10 DEF PageInv

\* The page waits for nothing, or has fetched its record again.
LEMMA IdleKeeps ==
  ASSUME PageInv, awaiting' = NoRequest, loaded' \in {loaded, Version},
         UNCHANGED <<page, pending, minted, mountedAt, wire, ledger, announced, conflicted>>
  PROVE  PageInv'
<1>1. /\ PageMutationsTypeOK /\ KeysMinted /\ OneContent /\ KeysHeld /\ UnseenPending
      /\ LedgerOnce /\ TruthTold /\ VersionsExecuted /\ ToldBefore /\ ToldInOrder
  BY DEF PageInv
<1>2. Len(ledger) \in Nat /\ loaded \in Nat /\ loaded <= Len(ledger)
  BY <1>1, PageTypes
<1>3. SentRequests' \subseteq SentRequests
  BY DEF SentRequests
<1>4. loaded' \in 0..Len(ledger) /\ loaded <= loaded'
  BY <1>2 DEF Version
<1>5. PageMutationsTypeOK'
  BY <1>1, <1>4 DEF PageMutationsTypeOK, Version
<1>6. KeysMinted' /\ OneContent'
  BY <1>3, SentFewer
<1>7. KeysHeld' /\ UnseenPending'
  BY <1>1, <1>3 DEF KeysHeld, UnseenPending, Pending, Told
<1>8. LedgerOnce' /\ VersionsExecuted' /\ TruthTold' /\ ToldInOrder'
  BY <1>1 DEF LedgerOnce, VersionsExecuted, TruthTold, HasRun, ToldInOrder
<1>9. ToldBefore'
  <2>1. page.versioned => \A j \in 1..Len(announced), i \in 1..Len(ledger) :
          ledger[i].key = announced[j] => i - 1 <= loaded'
    BY <1>1, <1>2, <1>4 DEF ToldBefore
  <2> QED BY <1>1, <2>1 DEF ToldBefore, Pending
<1> QED BY <1>5, <1>6, <1>7, <1>8, <1>9 DEF PageInv

\* What is announced was the last of those announced to be executed.
LEMMA AnnounceKeeps == ASSUME PageInv, Announce PROVE PageInv'
<1>1. /\ PageMutationsTypeOK /\ KeysMinted /\ OneContent /\ KeysHeld /\ UnseenPending
      /\ LedgerOnce /\ TruthTold /\ VersionsExecuted /\ ToldBefore /\ ToldInOrder
  BY DEF PageInv
<1>2. CASE page.closes
  BY <1>2, UnmountKeeps DEF Announce
<1>3. CASE ~page.closes
  <2> DEFINE key == awaiting.of.key
  <2>1. /\ awaiting # NoRequest /\ awaiting.answer = "success" /\ awaiting' = NoRequest
        /\ announced' = Append(announced, key)
        /\ pending' = IF page.forgets THEN {p \in pending : p.print # awaiting.of.print} ELSE pending
        /\ UNCHANGED <<page, minted, mountedAt, wire, ledger, loaded, conflicted>>
    BY <1>3 DEF Announce
  <2>2. /\ page.keys \in {"dialog", "map", "slot", "none"} /\ (page.versioned => page.keys = "map")
        /\ (page.keys = "dialog" => ~page.forgets) /\ (page.keys = "slot" => page.forgets)
        /\ Len(announced) \in Nat /\ minted \in Nat /\ SentRequests \subseteq Requests
        /\ Len(ledger) \in Nat /\ loaded \in Nat
    BY <1>1, PageTypes
  <2>3. awaiting.of \in SentRequests /\ pending \subseteq SentRequests
    BY <2>1 DEF SentRequests
  <2>4. key \in 1..minted
    BY <1>1, <2>2, <2>3 DEF KeysMinted, Requests
  <2>5. announced \in Seq(1..minted)
    BY <1>1 DEF PageMutationsTypeOK
  <2>6. /\ announced' \in Seq(1..minted) /\ Len(announced') = Len(announced) + 1
        /\ announced'[Len(announced) + 1] = key
        /\ \A j \in 1..Len(announced) : announced'[j] = announced[j]
    BY <2>1, <2>4, <2>5, AppendProperties
  <2>7. \A j \in 1..Len(announced') : j \in 1..Len(announced) \/ j = Len(announced) + 1
    BY <2>2, <2>6
  <2>8. pending' \subseteq pending /\ SentRequests' \subseteq SentRequests
    BY <2>1 DEF SentRequests
  <2>9. PageMutationsTypeOK'
    BY <1>1, <2>1, <2>6, <2>8 DEF PageMutationsTypeOK, Version
  <2>10. KeysMinted' /\ OneContent'
    BY <2>1, <2>8, SentFewer
  <2>11. KeysHeld'
    BY <1>1, <2>1, <2>8 DEF KeysHeld
  <2>12. /\ \E j \in 1..Len(announced') : announced'[j] = key
         /\ \A j \in 1..Len(announced) : j \in 1..Len(announced') /\ announced'[j] = announced[j]
    <3>1. Len(announced) + 1 \in 1..Len(announced') /\ \A j \in 1..Len(announced) : j \in 1..Len(announced')
      BY <2>2, <2>6
    <3> QED BY <2>6, <3>1
  <2>13. UnseenPending'
    <3> SUFFICES ASSUME page.keys \in {"map", "dialog"}, NEW r \in SentRequests',
                        r.key > mountedAt, ~(Told(r.key)')
                 PROVE  \E p \in pending' : p.key = r.key
      BY <2>1 DEF UnseenPending, Pending, Told
    <3>1. ~Told(r.key) /\ r.key # key
      <4>1. \A j \in 1..Len(announced') : announced'[j] # r.key
        BY DEF Told
      <4> QED BY <2>12, <4>1 DEF Told
    <3>2. PICK p \in pending : p.key = r.key
      BY <1>1, <2>8, <3>1 DEF UnseenPending, Pending
    <3>3. p \in pending'
      <4>1. page.keys = "map" => awaiting.of \in pending /\ (p.print = awaiting.of.print => p = awaiting.of)
        BY <1>1, <2>1 DEF KeysHeld
      <4> QED BY <2>1, <2>2, <3>1, <3>2, <4>1
    <3> QED BY <3>2, <3>3
  <2>14. LedgerOnce' /\ VersionsExecuted'
    BY <1>1, <2>1 DEF LedgerOnce, VersionsExecuted
  <2>15. HasRun(key)
    BY <1>1, <2>1 DEF TruthTold
  <2>16. TruthTold'
    <3>1. \A j \in 1..Len(announced) : \E i \in 1..Len(ledger) : ledger[i].key = announced[j]
      BY <1>1 DEF TruthTold, HasRun
    <3>2. \A j \in 1..Len(announced') : \E i \in 1..Len(ledger) : ledger[i].key = announced'[j]
      BY <2>6, <2>7, <2>15, <3>1 DEF HasRun
    <3> QED BY <2>1, <3>2 DEF TruthTold, HasRun
  \* The places of what was announced are not after the place of what is announced now.
  <2>17. page.versioned \/ page.keys # "map" =>
           \A j \in 1..Len(announced), i, l \in 1..Len(ledger) :
             ledger[i].key = announced[j] /\ ledger[l].key = key => i <= l
    <3> SUFFICES ASSUME page.versioned \/ page.keys # "map", NEW j \in 1..Len(announced),
                        NEW i \in 1..Len(ledger), NEW l \in 1..Len(ledger),
                        ledger[i].key = announced[j], ledger[l].key = key
                 PROVE  i <= l
      OBVIOUS
    <3>1. CASE page.keys = "dialog"
      <4>1. Pending(announced[j]) /\ Pending(key)
        BY <1>1, <2>1, <3>1 DEF ToldBefore, KeysHeld
      <4>2. announced[j] = key
        BY <1>1, <3>1, <4>1 DEF Pending, KeysHeld
      <4> QED BY <1>1, <4>2 DEF LedgerOnce
    <3>2. CASE page.keys = "slot"
      <4>1. awaiting.of \in pending
        BY <1>1, <2>1, <3>2 DEF KeysHeld
      <4> QED BY <1>1, <3>2, <4>1 DEF ToldBefore
    <3>3. CASE page.keys = "none"
      BY <1>1, <2>1, <3>3 DEF ToldBefore
    <3>4. CASE page.versioned
      <4>1. ledger[l] = awaiting.of
        <5>1. ledger[l] \in SentRequests
          BY DEF SentRequests
        <5> QED BY <1>1, <2>2, <2>3, <3>4, <5>1 DEF OneContent
      <4>2. l - 1 = awaiting.of.print[2]
        BY <1>1, <3>4, <4>1 DEF VersionsExecuted
      <4>3. i - 1 <= awaiting.of.print[2]
        BY <1>1, <2>1, <3>4 DEF ToldBefore
      <4> QED BY <2>2, <4>2, <4>3
    <3> QED BY <2>2, <3>1, <3>2, <3>3, <3>4
  <2>18. ToldInOrder'
    <3>1. ASSUME page.versioned \/ page.keys # "map",
                 NEW x \in 1..Len(announced'), NEW y \in 1..Len(announced'), x < y,
                 NEW i \in 1..Len(ledger), NEW l \in 1..Len(ledger),
                 ledger[i].key = announced'[x], ledger[l].key = announced'[y]
          PROVE  i <= l
      <4>1. x \in 1..Len(announced)
        BY <2>2, <2>6, <3>1
      <4>2. CASE y \in 1..Len(announced)
        BY <1>1, <2>6, <3>1, <4>1, <4>2 DEF ToldInOrder
      <4>3. CASE y = Len(announced) + 1
        BY <2>6, <2>17, <3>1, <4>1, <4>3
      <4> QED BY <2>7, <4>2, <4>3
    <3>2. page' = page /\ ledger' = ledger
      BY <2>1
    <3> QED BY <3>1, <3>2 DEF ToldInOrder
  <2>19. ToldBefore'
    <3>1. page.keys = "dialog" => \A j \in 1..Len(announced') : \E p \in pending' : p.key = announced'[j]
      <4> SUFFICES ASSUME page.keys = "dialog", NEW j \in 1..Len(announced')
                   PROVE  \E p \in pending' : p.key = announced'[j]
        OBVIOUS
      <4>1. pending' = pending
        BY <2>1, <2>2
      <4>2. CASE j \in 1..Len(announced)
        <5>1. \E p \in pending : p.key = announced[j]
          BY <1>1, <4>2 DEF ToldBefore, Pending
        <5> QED BY <2>6, <4>1, <4>2, <5>1
      <4>3. CASE j = Len(announced) + 1
        <5>1. \E p \in pending : p.key = key
          BY <1>1, <2>1 DEF KeysHeld, Pending
        <5> QED BY <2>6, <4>1, <4>3, <5>1
      <4> QED BY <2>7, <4>2, <4>3
    <3>2. page.keys = "slot" => pending' = {}
      <4> SUFFICES ASSUME page.keys = "slot" PROVE pending' = {}
        OBVIOUS
      <4>1. awaiting.of \in pending /\ \A p \in pending : p = awaiting.of
        BY <1>1, <2>1 DEF KeysHeld
      <4> QED BY <2>1, <2>2, <4>1
    <3>3. page.versioned => \A j \in 1..Len(announced'), i \in 1..Len(ledger) :
            ledger[i].key = announced'[j] => i - 1 <= loaded
      <4> SUFFICES ASSUME page.versioned, NEW j \in 1..Len(announced'), NEW i \in 1..Len(ledger),
                          ledger[i].key = announced'[j]
                   PROVE  i - 1 <= loaded
        OBVIOUS
      <4>1. CASE j \in 1..Len(announced)
        BY <1>1, <2>6, <4>1 DEF ToldBefore
      <4>2. CASE j = Len(announced) + 1
        <5>1. ledger[i] \in SentRequests /\ ledger[i].key = key
          BY <2>6, <4>2 DEF SentRequests
        <5>2. ledger[i] = awaiting.of
          BY <1>1, <2>2, <2>3, <5>1 DEF OneContent
        <5>3. i - 1 = awaiting.of.print[2]
          BY <1>1, <5>2 DEF VersionsExecuted
        <5> QED BY <1>1, <2>1, <5>3 DEF ToldBefore
      <4> QED BY <2>7, <4>1, <4>2
    <3> QED BY <2>1, <3>1, <3>2, <3>3 DEF ToldBefore, Pending
  <2> QED BY <2>9, <2>10, <2>11, <2>13, <2>14, <2>16, <2>18, <2>19 DEF PageInv
<1> QED BY <1>2, <1>3

LEMMA PageNextKeeps == PageInv /\ [PageMutationsNext]_pageMutationVars => PageInv'
<1> SUFFICES ASSUME PageInv, [PageMutationsNext]_pageMutationVars PROVE PageInv'
  OBVIOUS
<1>1. conflicted \in BOOLEAN /\ OneContent
  BY DEF PageInv, PageMutationsTypeOK
<1>2. CASE UNCHANGED pageMutationVars
  BY <1>2 DEF pageMutationVars, PageInv, PageMutationsTypeOK, Version, KeysMinted, OneContent, SentRequests,
     KeysHeld, Pending, UnseenPending, Told, LedgerOnce, TruthTold, HasRun, VersionsExecuted, ToldBefore,
     ToldInOrder
<1>3. ASSUME NEW r \in wire, AnswerKnownKey(r) PROVE PageInv'
  <2>1. PICK i \in 1..Len(ledger) :
          /\ ledger[i].key = r.key
          /\ Serving(r, IF ledger[i].print = r.print THEN "success" ELSE "refusal")
          /\ conflicted' = (conflicted \/ ledger[i].print # r.print)
          /\ UNCHANGED <<page, pending, minted, mountedAt, ledger, loaded, announced>>
    BY <1>3 DEF AnswerKnownKey
  <2>2. HasRun(r.key)
    BY <2>1 DEF HasRun
  <2>3. conflicted' \in BOOLEAN
    BY <2>1
  <2>4. page.keys # "dialog" => ledger[i].print = r.print
    <3>1. ledger[i] \in SentRequests /\ r \in SentRequests
      BY DEF SentRequests
    <3> QED BY <1>1, <2>1, <3>1 DEF OneContent
  <2>5. page.keys # "dialog" => ~conflicted'
    <3>1. page.keys # "dialog" => ~conflicted
      BY <1>1 DEF OneContent
    <3> QED BY <2>1, <2>4, <3>1
  <2>6. PICK answer \in {"success", "refusal"} : Serving(r, answer)
    BY <2>1
  <2> QED BY <2>1, <2>2, <2>3, <2>5, <2>6, AnswerKeeps
<1>4. ASSUME NEW r \in wire, LoseMutation(r) PROVE PageInv'
  <2>1. /\ Serving(r, "refusal")
        /\ UNCHANGED <<page, pending, minted, mountedAt, ledger, loaded, announced, conflicted>>
    BY <1>4 DEF LoseMutation
  <2>2. conflicted' \in BOOLEAN /\ (page.keys # "dialog" => ~conflicted')
    BY <1>1, <2>1 DEF OneContent
  <2> QED BY <2>1, <2>2, AnswerKeeps
<1>5. CASE ReportFailure \/ Reload
  BY <1>5, IdleKeeps DEF ReportFailure, Kept, Reload
<1>6. CASE LeavePage
  BY <1>6, UnmountKeeps DEF LeavePage
<1> QED BY <1>2, <1>3, <1>4, <1>5, <1>6, ClickKeeps, ExecuteKeeps, AnnounceKeeps DEF PageMutationsNext
-----------------------------------------------------------------------------
(* The composed specification: who is not in focus takes no step *)

LEMMA WorkflowStarts ==
  WorkflowsInit => /\ RegionsInit /\ CatalogInit /\ DeskInit /\ ReferralsInit /\ CampaignsInit
                   /\ TicketInit /\ AdInit /\ VerificationInit /\ PrivacyInit /\ PageReadsInit
                   /\ ProviderScheduleInit /\ OnboardingInit /\ SessionsInit /\ RateInit
                   /\ PageMutationsInit
BY DEF WorkflowsInit

LEMMA WorkflowSteps ==
  [WorkflowsNext]_workflowVars =>
    /\ [RegionsNext]_regionVars /\ [CatalogNext]_catalogVars /\ [DeskNext]_deskVars
    /\ [ReferralsNext]_referralVars /\ [CampaignsNext]_campaignVars /\ [TicketNext]_ticketVars
    /\ [AdNext]_adVars /\ [VerificationNext]_reviewVars /\ [PrivacyNext]_privacyVars
    /\ [PageReadsNext]_readVars /\ [ProviderScheduleNext]_providerScheduleVars
    /\ [OnboardingNext]_onboardingVars /\ [SessionsNext]_sessionVars /\ [RateNext]_rateVars
    /\ [PageMutationsNext]_pageMutationVars
BY DEF WorkflowsNext, Others, workflowVars

\* The catalog of the console stays usable through concurrent deactivations and moves:
\* manageCategory keeps an active category and no position twice, manageRegion and
\* manageRegionNeighborhood keep an active quarter in every active region.
THEOREM CatalogIsUsable == WorkflowsSpec => []CatalogStaysUsable
<1>1. WorkflowsInit => RegionsInv /\ CatalogInv
  BY WorkflowStarts, RegionsInitInv, CatalogInitInv
<1>2. RegionsInv /\ CatalogInv /\ [WorkflowsNext]_workflowVars => RegionsInv' /\ CatalogInv'
  BY WorkflowSteps, RegionsNextKeeps, CatalogNextKeeps
<1>3. RegionsInv /\ CatalogInv => CatalogStaysUsable
  BY DEF RegionsInv, CatalogInv, CatalogStaysUsable
<1> QED BY <1>1, <1>2, <1>3, PTL DEF WorkflowsSpec

\* Every change of a gate, a goal, a case or a request of a data subject starts from
\* the state its author saw, and the events tell them all: the version that is
\* compared under the row lock leaves no lost update.
THEOREM ChangesAreSeen == WorkflowsSpec => []ChangesWereSeen
<1>1. WorkflowsInit => DeskInv /\ PrivacyInv
  BY WorkflowStarts, DeskInitInv, PrivacyInitInv
<1>2. DeskInv /\ PrivacyInv /\ [WorkflowsNext]_workflowVars => DeskInv' /\ PrivacyInv'
  BY WorkflowSteps, DeskNextKeeps, PrivacyNextKeeps
<1>3. DeskInv /\ PrivacyInv => ChangesWereSeen
  BY DeskInvProperties DEF DeskInv, PrivacyInv, ChangesWereSeen
<1> QED BY <1>1, <1>2, <1>3, PTL DEF WorkflowsSpec

\* An approved provider has every item accepted (reviewVerification), and a request of
\* access is fulfilled with exactly one package (exportPackage, decidePrivacyRequest).
THEOREM VerdictsAreGrounded == WorkflowsSpec => []VerdictsHaveTheirGrounds
<1>1. WorkflowsInit => VerificationInv /\ PrivacyInv
  BY WorkflowStarts, VerificationInitInv, PrivacyInitInv
<1>2. VerificationInv /\ PrivacyInv /\ [WorkflowsNext]_workflowVars => VerificationInv' /\ PrivacyInv'
  BY WorkflowSteps, VerificationNextKeeps, PrivacyNextKeeps
<1>3. VerificationInv /\ PrivacyInv => VerdictsHaveTheirGrounds
  BY DEF VerificationInv, PrivacyInv, VerdictsHaveTheirGrounds
<1> QED BY <1>1, <1>2, <1>3, PTL DEF WorkflowsSpec

\* After its resolution nothing but late messages is written to a ticket, and one
\* dispute at most is decided on it, whichever rows the requests lock first.
THEOREM TicketsAreSettledOnce == WorkflowsSpec => []TicketsTakeTheirCourse
<1>1. WorkflowsInit => TicketInv
  BY WorkflowStarts, TicketInitInv
<1>2. TicketInv /\ [WorkflowsNext]_workflowVars => TicketInv'
  BY WorkflowSteps, TicketNextKeeps
<1>3. TicketInv => TicketsTakeTheirCourse
  BY DEF TicketInv, TicketsTakeTheirCourse
<1> QED BY <1>1, <1>2, <1>3, PTL DEF WorkflowsSpec

\* A referral of a contact that another network had committed before is flagged, and
\* none with a signal is approved uncleared, though its capture and its triage race.
THEOREM ReferralRisksAreReviewed == WorkflowsSpec => []RisksAreReviewed
<1>1. WorkflowsInit => ReferralsInv
  BY WorkflowStarts, ReferralsInitInv
<1>2. ReferralsInv /\ [WorkflowsNext]_workflowVars => ReferralsInv'
  BY WorkflowSteps, ReferralsNextKeeps
<1>3. ReferralsInv => RisksAreReviewed
  BY DEF ReferralsInv
<1> QED BY <1>1, <1>2, <1>3, PTL DEF WorkflowsSpec

\* Coupons are never granted over their limits nor guessed more often than allowed, for
\* a lock covers the count and the insert; captures and impressions, which are counted
\* without one, exceed theirs by the requests in flight at most.
THEOREM LimitsAreKept == WorkflowsSpec => []LimitsHold
<1> DEFINE Inv == CouponInv /\ ReferralsInv /\ AdInv
<1>1. WorkflowsInit => Inv
  BY WorkflowStarts, CouponInitInv, ReferralsInitInv, AdInitInv
<1>2. Inv /\ [WorkflowsNext]_workflowVars => Inv'
  BY WorkflowSteps, CouponNextKeeps, ReferralsNextKeeps, AdNextKeeps
<1>3. Inv => LimitsHold
  BY CouponProperties, ReferralsProperties, AdProperties DEF LimitsHold
<1> QED BY <1>1, <1>2, <1>3, PTL DEF WorkflowsSpec

\* A call runs in the role its tab shows or, on a route of several roles, in another of
\* them when another tab replaced the cookie; and a live session is the cookie's, of a request under way, or one that was left behind.
THEOREM SessionsAreAccounted == WorkflowsSpec => []SessionsHold
<1>1. WorkflowsInit => SessionInv
  BY WorkflowStarts, SessionInitInv
<1>2. SessionInv /\ [WorkflowsNext]_workflowVars => SessionInv'
  BY WorkflowSteps, SessionNextKeeps
<1> QED BY <1>1, <1>2, SessionProperties, PTL DEF WorkflowsSpec

\* No period is taken twice, by bookings or blocks, and the events tell the week and the
\* blocks of now, though slots are read unlocked and two tabs change the agenda.
THEOREM AgendaIsKept == WorkflowsSpec => []AgendaHolds
<1>1. WorkflowsInit => AgendaInv
  BY WorkflowStarts, AgendaInitInv
<1>2. AgendaInv /\ [WorkflowsNext]_workflowVars => AgendaInv'
  BY WorkflowSteps, AgendaNextKeeps
<1> QED BY <1>1, <1>2, AgendaProperties, PTL DEF WorkflowsSpec

\* Answers cross in seven panels only; else a panel that reads nothing and has not failed
\* shows the subject chosen, with all its user was told to have done.
THEOREM PanelsShowWhatWasChosen == WorkflowsSpec => []PanelsShowTheirSubject
<1>1. WorkflowsInit => PanelInv
  BY WorkflowStarts, PanelInitInv
<1>2. PanelInv /\ [WorkflowsNext]_workflowVars => PanelInv'
  BY WorkflowSteps, PanelNextKeeps
<1> QED BY <1>1, <1>2, PanelProperties, PTL DEF WorkflowsSpec

\* No answer that comes late takes a panel back to an older state of its subject, but for
\* those that crossed, where reads are kept or answers to actions are shown.
THEOREM PanelsOnlyGoForward == WorkflowsSpec => PanelsNeverGoBack
<1> DEFINE Forward == ~crossed /\ data # NoData /\ data' # NoData
                        /\ data'.subject = data.subject
                        => \A i \in DOMAIN data.seen : data'.seen[i] >= data.seen[i]
<1>1. WorkflowsInit => PanelInv
  BY WorkflowStarts, PanelInitInv
<1>2. PanelInv /\ [WorkflowsNext]_workflowVars => PanelInv'
  BY WorkflowSteps, PanelNextKeeps
<1>3. PanelInv /\ [PageReadsNext]_readVars => [Forward]_readVars
  BY PanelsForward
<1>4. PanelInv /\ [WorkflowsNext]_workflowVars => [Forward]_readVars
  BY <1>3, WorkflowSteps
<1> QED BY <1>1, <1>2, <1>4, PTL DEF WorkflowsSpec, PanelsNeverGoBack

\* The three trails of an onboarding tell the rows of now: consents are chained, the events
\* of a region alternate, and the versions of matching follow each other.
THEOREM OnboardingIsTold == WorkflowsSpec => []OnboardingTrailsTell
<1>1. WorkflowsInit => OnboardingInv
  BY WorkflowStarts, OnboardingInitInv
<1>2. OnboardingInv /\ [WorkflowsNext]_workflowVars => OnboardingInv'
  BY WorkflowSteps, OnboardingNextKeeps
<1> QED BY <1>1, <1>2, OnboardingProperties, PTL DEF WorkflowsSpec

\* A resolved case, the first answer to a ticket and a moderated advertisement stay as
\* they are, though a request that saw them open still waits for their row.
THEOREM WhatIsSettledStays == WorkflowsSpec => SettledStays
<1> DEFINE Inv == DeskInv /\ TicketInv /\ AdInv
           Resolved == desk.value = "resolved" => UNCHANGED <<desk, trail>>
           Replied ==
             /\ ticket.answered # 0 => ticket'.answered = ticket.answered /\ ticket'.due = ticket.due
             /\ ticket.priority = "high" => ticket'.priority = "high"
           Moderated == \A a \in Ads : adStatus'[a] = adStatus[a] \/ adStatus[a] = "none"
                                         \/ adStatus'[a] \in NextAdStatus(adStatus[a])
<1>1. WorkflowsInit => Inv
  BY WorkflowStarts, DeskInitInv, TicketInitInv, AdInitInv
<1>2. Inv /\ [WorkflowsNext]_workflowVars => Inv'
  BY WorkflowSteps, DeskNextKeeps, TicketNextKeeps, AdNextKeeps
<1>3. Inv /\ [WorkflowsNext]_workflowVars => [Resolved]_deskVars
  BY WorkflowSteps, ResolvedStep
<1>4. Inv /\ [WorkflowsNext]_workflowVars => [Replied]_ticketVars
  BY WorkflowSteps, AnsweredStep
<1>5. Inv /\ [WorkflowsNext]_workflowVars => [Moderated]_adVars
  BY WorkflowSteps, ModeratedStep
<1> QED BY <1>1, <1>2, <1>3, <1>4, <1>5, PTL DEF WorkflowsSpec, SettledStays, ResolvedStays,
           FirstAnswerStands, ModerationIsFinal

\* The counts of the limiter are the admissions it gave, never more than a limit in a
\* window, and its memory is bounded: whatever is evicted, lost or runs late.
THEOREM AdmissionsAreCountedHolds == WorkflowsSpec => []AdmissionsAreCounted
<1>1. WorkflowsInit => RateInv
  BY WorkflowStarts, RateInitInv
<1>2. RateInv /\ [WorkflowsNext]_workflowVars => RateInv'
  BY WorkflowSteps, RateNextKeeps
<1>3. RateInv => AdmissionsAreCounted
  BY DEF RateInv
<1> QED BY <1>1, <1>2, <1>3, PTL DEF WorkflowsSpec

\* What a user asks for on a page is executed once until it is announced, under one
\* content, and announced in the order it happened, though answers are lost or late.
THEOREM KeysServeTheUserHolds == WorkflowsSpec => []KeysServeTheUser
<1>1. WorkflowsInit => PageInv
  BY WorkflowStarts, PageInitInv
<1>2. PageInv /\ [WorkflowsNext]_workflowVars => PageInv'
  BY WorkflowSteps, PageNextKeeps
<1> QED BY <1>1, <1>2, PageProperties, PTL DEF WorkflowsSpec

\* Every variable of the workflow in focus keeps its type.
THEOREM WorkflowsTypeCorrect == WorkflowsSpec => []WorkflowsTypeOK
<1> DEFINE Console == /\ RegionsInv /\ CatalogInv /\ DeskInv /\ VerificationInv /\ PrivacyInv
                      /\ TicketInv /\ ReferralsInv
           Rest == /\ CouponInv /\ RateInv /\ AdInv /\ PageInv /\ PanelInv /\ AgendaInv
                   /\ OnboardingInv /\ SessionInv
           Focused == focus \in Workflows
<1>1. WorkflowsInit => Focused /\ Console /\ Rest
  <2> SUFFICES ASSUME WorkflowsInit PROVE Focused /\ Console /\ Rest
    OBVIOUS
  <2>1. Focused
    BY DEF WorkflowsInit
  <2>2. Console
    BY WorkflowStarts, RegionsInitInv, CatalogInitInv, DeskInitInv, VerificationInitInv, PrivacyInitInv,
       TicketInitInv, ReferralsInitInv
  <2>3. Rest
    BY WorkflowStarts, CouponInitInv, RateInitInv, AdInitInv, PageInitInv, PanelInitInv, AgendaInitInv,
       OnboardingInitInv, SessionInitInv
  <2> QED BY <2>1, <2>2, <2>3
<1>2. Console /\ [WorkflowsNext]_workflowVars => Console'
  BY WorkflowSteps, RegionsNextKeeps, CatalogNextKeeps, DeskNextKeeps, VerificationNextKeeps,
     PrivacyNextKeeps, TicketNextKeeps, ReferralsNextKeeps
<1>3. Rest /\ [WorkflowsNext]_workflowVars => Rest'
  BY WorkflowSteps, CouponNextKeeps, RateNextKeeps, AdNextKeeps, PageNextKeeps, PanelNextKeeps,
     AgendaNextKeeps, OnboardingNextKeeps, SessionNextKeeps
<1>4. Focused /\ [WorkflowsNext]_workflowVars => Focused'
  BY DEF WorkflowsNext, Others, workflowVars
<1>5. Focused /\ Console /\ Rest => WorkflowsTypeOK
  <2> SUFFICES ASSUME Focused, Console, Rest PROVE WorkflowsTypeOK
    OBVIOUS
  <2>1. /\ RegionsTypeOK /\ CatalogTypeOK /\ DeskTypeOK /\ ReferralsTypeOK /\ TicketTypeOK
        /\ VerificationTypeOK /\ PrivacyTypeOK
    BY DeskInvProperties, VerificationTyped, PrivacyTypes, TicketTypes
       DEF RegionsInv, CatalogInv, ReferralsInv
  <2>2. /\ CampaignsTypeOK /\ RateTypeOK /\ AdTypeOK /\ PageMutationsTypeOK /\ PageReadsTypeOK
        /\ ProviderScheduleTypeOK /\ OnboardingTypeOK /\ SessionsTypeOK
    BY AdProperties, PanelProperties, AgendaProperties, OnboardingProperties
       DEF CouponInv, RateInv, PageInv, SessionInv
  <2> HIDE DEF Console, Rest
  <2> QED BY <2>1, <2>2 DEF WorkflowsTypeOK, Workflows
<1> QED BY <1>1, <1>2, <1>3, <1>4, <1>5, PTL DEF WorkflowsSpec
=============================================================================
