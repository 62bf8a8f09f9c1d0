----------------------------- MODULE Campaigns -----------------------------
(***************************************************************************)
(* One coupon (api/campaigns/campaigns.service.ts): the operation creates, *)
(* pauses and activates it; customers validate its code, and reserve it in *)
(* the transaction that creates a request; the acceptance of a proposal    *)
(* redeems the reservation or finds it ineligible (migration 0032).        *)
(***************************************************************************)
EXTENDS Naturals, FiniteSets

CONSTANTS CouponCalls,
          Orders,         \* service requests that name the coupon
          OrderOwner(_),  \* the customer of an order
          TotalLimit, CustomerLimit,
          AbuseLimit,     \* 10 rejections in 15 minutes in the source
          NoCoupon

ASSUME CouponAssumption == TotalLimit \in Nat \ {0} /\ CustomerLimit \in 1..TotalLimit
                           /\ AbuseLimit \in Nat \ {0} /\ IsFiniteSet(Orders)

Shoppers == {OrderOwner(o) : o \in Orders}

VARIABLES campaign,    \* its status; "none" before it is created
          open,        \* now lies in its period
          consent,     \* customers with a marketing preference that is granted
          reservation, \* the committed reservation of each order
          rejected,    \* attempts not accepted in the last 15 minutes, up to the limit
          refused,     \* of these, the times a customer learnt why (not "blocked")
          coupon       \* what each request is doing

campaignVars == <<campaign, open, consent, reservation, rejected, refused, coupon>>

Rejections == {"not_found", "outside_segment", "consent_required", "total_limit",
               "customer_limit", "blocked"}
CouponJobs ==
  [kind : {"validate"}, who : Shoppers, result : Rejections \cup {"waiting", "accepted"}]
  \cup [kind : {"reserve"}, order : Orders, result : {"waiting", "accepted"}]
  \cup [kind : {"create"}, result : {"waiting", "inserted"}]

ASSUME NoCouponAssumption == NoCoupon \notin CouponJobs

CampaignsTypeOK ==
  /\ campaign \in {"none", "active", "paused"}
  /\ open \in BOOLEAN /\ consent \subseteq Shoppers
  /\ reservation \in [Orders -> {"none", "reserved", "redeemed", "ineligible"}]
  /\ rejected \in [Shoppers -> 0..AbuseLimit] /\ refused \in [Shoppers -> Nat]
  /\ coupon \in [CouponCalls -> CouponJobs \cup {NoCoupon}]

CampaignsInit ==
  /\ campaign = "none" /\ open = TRUE /\ consent \in {{}, Shoppers}
  /\ reservation = [o \in Orders |-> "none"]
  /\ rejected = [w \in Shoppers |-> 0] /\ refused = [w \in Shoppers |-> 0]
  /\ coupon = [c \in CouponCalls |-> NoCoupon]

CouponJob(c, kind) == coupon[c] # NoCoupon /\ coupon[c].kind = kind
CouponEnds(c) == coupon' = [coupon EXCEPT ![c] = NoCoupon]

-----------------------------------------------------------------------------
(* The offer *)

\* marketing_campaign_usage, of all customers and of one.
Uses(set) == Cardinality({o \in set : reservation[o] \in {"reserved", "redeemed"}})
OrdersOf(w) == {o \in Orders : OrderOwner(o) = w}

\* findAvailableOffer and campaignEligibilityResult; matches: the category and the
\* region of the context are those of the campaign.
OfferResult(w, matches) ==
  CASE campaign # "active" \/ ~open            -> "not_found"
    [] Uses(Orders) >= TotalLimit              -> "total_limit"
    [] Uses(OrdersOf(w)) >= CustomerLimit      -> "customer_limit"
    [] ~matches                                -> "outside_segment"
    [] w \notin consent                        -> "consent_required"
    [] OTHER                                   -> "accepted"

-----------------------------------------------------------------------------
(* validateCoupon *)

StartValidation(c, w) ==
  /\ coupon[c] = NoCoupon
  /\ coupon' = [coupon EXCEPT ![c] = [kind |-> "validate", who |-> w, result |-> "waiting"]]
  /\ UNCHANGED <<campaign, open, consent, reservation, rejected, refused>>

\* Mutant: validations of one customer are not serialised.
ValidationAlways(c) == TRUE

\* The advisory lock of the customer is free.
ValidationFree(c) == \A d \in CouponCalls \ {c} :
  CouponJob(d, "validate") /\ coupon[d].who = coupon[c].who => coupon[d].result = "waiting"

ValidateCoupon(c, matches) ==
  /\ CouponJob(c, "validate") /\ coupon[c].result = "waiting" /\ ValidationFree(c)
  /\ LET w == coupon[c].who
     IN coupon' = [coupon EXCEPT ![c].result =
          IF rejected[w] >= AbuseLimit THEN "blocked" ELSE OfferResult(w, matches)]
  /\ UNCHANGED <<campaign, open, consent, reservation, rejected, refused>>

\* The attempt is committed; the error is thrown after that.
CommitValidation(c) ==
  /\ CouponJob(c, "validate") /\ coupon[c].result # "waiting"
  /\ LET w == coupon[c].who
         more == IF rejected[w] < AbuseLimit THEN rejected[w] + 1 ELSE AbuseLimit
     IN /\ rejected' = IF coupon[c].result = "accepted" THEN rejected
                       ELSE [rejected EXCEPT ![w] = more]
        /\ refused' = IF coupon[c].result \in Rejections \ {"blocked"}
                      THEN [refused EXCEPT ![w] = @ + 1] ELSE refused
  /\ CouponEnds(c)
  /\ UNCHANGED <<campaign, open, consent, reservation>>

\* Fifteen minutes pass, in which every open request ends.
AbuseWindowPasses ==
  /\ \A c \in CouponCalls : coupon[c] = NoCoupon
  /\ rejected' = [w \in Shoppers |-> 0] /\ refused' = [w \in Shoppers |-> 0]
  /\ UNCHANGED <<campaign, open, consent, reservation, coupon>>

-----------------------------------------------------------------------------
(* reserveForRequest, and what the acceptance does *)

StartReservation(c, o) ==
  /\ coupon[c] = NoCoupon /\ reservation[o] = "none"
  /\ \A d \in CouponCalls : CouponJob(d, "reserve") => coupon[d].order # o
  /\ coupon' = [coupon EXCEPT ![c] = [kind |-> "reserve", order |-> o, result |-> "waiting"]]
  /\ UNCHANGED <<campaign, open, consent, reservation, rejected, refused>>

\* Mutant: the code is not locked.
CodeAlways(c) == TRUE

\* The advisory lock of the code is free; its holder keeps it until it commits.
CodeFree(c) == \A d \in CouponCalls \ {c} : ~(CouponJob(d, "reserve") /\ coupon[d].result = "accepted")

ReserveForRequest(c, matches) ==
  /\ CouponJob(c, "reserve") /\ coupon[c].result = "waiting" /\ CodeFree(c)
  /\ IF OfferResult(OrderOwner(coupon[c].order), matches) = "accepted"
     THEN coupon' = [coupon EXCEPT ![c].result = "accepted"]
     ELSE CouponEnds(c)
  /\ UNCHANGED <<campaign, open, consent, reservation, rejected, refused>>

CommitReservation(c) ==
  /\ CouponJob(c, "reserve") /\ coupon[c].result = "accepted"
  /\ reservation' = [reservation EXCEPT ![coupon[c].order] = "reserved"]
  /\ CouponEnds(c)
  /\ UNCHANGED <<campaign, open, consent, rejected, refused>>

\* create_sandbox_financial_snapshot: the discount is zero below the minimum amount.
\* Nothing else ever ends a reservation.
Redeem(o, outcome) ==
  /\ reservation[o] = "reserved"
  /\ reservation' = [reservation EXCEPT ![o] = outcome]
  /\ UNCHANGED <<campaign, open, consent, rejected, refused, coupon>>

-----------------------------------------------------------------------------
(* The operation, the customer's preference and time *)

\* create looks for the code before it inserts it; the unique constraint decides.
CreateCampaign(c) ==
  /\ coupon[c] = NoCoupon /\ campaign = "none" /\ open
  /\ coupon' = [coupon EXCEPT ![c] = [kind |-> "create", result |-> "waiting"]]
  /\ UNCHANGED <<campaign, open, consent, reservation, rejected, refused>>

InsertCampaign(c) ==
  /\ CouponJob(c, "create") /\ campaign = "none"
  /\ campaign' = "active" /\ CouponEnds(c)
  /\ UNCHANGED <<open, consent, reservation, rejected, refused>>

ChangeCampaignStatus(status) ==
  /\ campaign \notin {"none", status}
  /\ status = "active" => open
  /\ campaign' = status
  /\ UNCHANGED <<open, consent, reservation, rejected, refused, coupon>>

ChangeMarketingPreference(w) ==
  /\ consent' = IF w \in consent THEN consent \ {w} ELSE consent \cup {w}
  /\ UNCHANGED <<campaign, open, reservation, rejected, refused, coupon>>

CampaignEnds ==
  /\ open /\ open' = FALSE
  /\ UNCHANGED <<campaign, consent, reservation, rejected, refused, coupon>>

\* A transaction fails.
CouponFails(c) ==
  /\ coupon[c] # NoCoupon /\ CouponEnds(c)
  /\ UNCHANGED <<campaign, open, consent, reservation, rejected, refused>>

CampaignsNext ==
  \/ AbuseWindowPasses \/ CampaignEnds
  \/ \E status \in {"active", "paused"} : ChangeCampaignStatus(status)
  \/ \E w \in Shoppers : ChangeMarketingPreference(w)
  \/ \E o \in Orders, outcome \in {"redeemed", "ineligible"} : Redeem(o, outcome)
  \/ \E c \in CouponCalls :
       \/ \E w \in Shoppers : StartValidation(c, w)
       \/ \E o \in Orders : StartReservation(c, o)
       \/ \E matches \in BOOLEAN : ValidateCoupon(c, matches) \/ ReserveForRequest(c, matches)
       \/ CommitValidation(c) \/ CommitReservation(c)
       \/ CreateCampaign(c) \/ InsertCampaign(c) \/ CouponFails(c)

-----------------------------------------------------------------------------
(* Properties *)

\* The coupon is never granted more often than its limits allow, to all customers or
\* to one, however many requests reserve it at once while others are redeemed.
UsesWithinLimits ==
  /\ Uses(Orders) <= TotalLimit
  /\ \A w \in Shoppers : Uses(OrdersOf(w)) <= CustomerLimit

\* In fifteen minutes a customer learns of no more failed codes than the limit,
\* however many validations it runs at once.
GuessesWithinLimit == \A w \in Shoppers : refused[w] <= AbuseLimit
=============================================================================
