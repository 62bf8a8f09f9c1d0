----------------------------- MODULE AdDelivery -----------------------------
(***************************************************************************)
(* Contextual advertising (api/advertising/advertising.service.ts,         *)
(* advertising-rules.ts, migrations 0051, 0053 and 0054): an advertiser    *)
(* submits a campaign, operators moderate it, customers are shown one at a *)
(* time, up to its limit of impressions, and click what they were shown.   *)
(***************************************************************************)
EXTENDS Naturals, Sequences, FiniteSets

CONSTANTS AdCalls,         \* requests being served
          Ads,             \* campaigns
          Targeted,        \* those with a target category or region
          ImpressionLimit,
          NoAd

ASSUME AdAssumption == ImpressionLimit \in Nat \ {0} /\ IsFiniteSet(AdCalls)

VARIABLES adStatus,    \* status of each campaign, "none" before it is submitted
          adEnded,     \* ends_at has passed
          impressions, \* the deliveries of each campaign: whether each was clicked
          adCall       \* what each request is doing

adVars == <<adStatus, adEnded, impressions, adCall>>

AdStatuses == {"none", "pending_review", "approved", "rejected", "paused"}

AdTypeOK ==
  /\ adStatus \in [Ads -> AdStatuses] /\ adEnded \in [Ads -> BOOLEAN]
  /\ impressions \in [Ads -> Seq(BOOLEAN)]
  /\ \A c \in AdCalls : adCall[c] = NoAd \/ adCall[c].ad \in Ads

AdInit ==
  /\ adStatus = [a \in Ads |-> "none"] /\ adEnded = [a \in Ads |-> FALSE]
  /\ impressions = [a \in Ads |-> <<>>]
  /\ adCall = [c \in AdCalls |-> NoAd]

Delivering(c) == adCall[c] # NoAd /\ adCall[c].does = "deliver"
Moderating(c) == adCall[c] # NoAd /\ adCall[c].does = "moderate"

\* Mutant: the count of impressions is not compared.
RunsUnlimited(a) == adStatus[a] = "approved" /\ ~adEnded[a]

\* What the WHERE of deliver asks of a campaign, in the snapshot of its statement.
Runs(a) == adStatus[a] = "approved" /\ ~adEnded[a] /\ Len(impressions[a]) < ImpressionLimit

\* ORDER BY specificity DESC, impressions ASC, created_at DESC: the last is open here.
Comes(a, b) ==
  IF (a \in Targeted) # (b \in Targeted) THEN a \in Targeted
  ELSE Len(impressions[a]) <= Len(impressions[b])

\* contextualAdNextStatus; the other states offer no action.
NextAdStatus(status) ==
  CASE status = "pending_review" -> {"approved", "rejected"}
    [] status = "approved" -> {"paused"}
    [] status = "paused" -> {"approved"}
    [] OTHER -> {}

-----------------------------------------------------------------------------
SubmitAd(a) ==
  /\ adStatus[a] = "none" /\ ~adEnded[a]
  /\ adStatus' = [adStatus EXCEPT ![a] = "pending_review"]
  /\ UNCHANGED <<adEnded, impressions, adCall>>

\* Mutant: SELECT without FOR UPDATE.
AdShared(c, a) == TRUE

AdFree(c, a) == \A d \in AdCalls \ {c} : Moderating(d) => adCall[d].ad # a

LockAd(c, a) ==
  /\ adCall[c] = NoAd /\ adStatus[a] # "none" /\ AdFree(c, a)
  /\ \E to \in NextAdStatus(adStatus[a]) :
       /\ to = "approved" => ~adEnded[a]
       /\ adCall' = [adCall EXCEPT ![c] = [does |-> "moderate", ad |-> a, to |-> to]]
  /\ UNCHANGED <<adStatus, adEnded, impressions>>

Moderate(c) ==
  /\ Moderating(c)
  /\ adStatus' = [adStatus EXCEPT ![adCall[c].ad] = adCall[c].to]
  /\ adCall' = [adCall EXCEPT ![c] = NoAd]
  /\ UNCHANGED <<adEnded, impressions>>

SelectAd(c, a) ==
  /\ adCall[c] = NoAd
  /\ Runs(a) /\ \A b \in Ads : Runs(b) => Comes(a, b)
  /\ adCall' = [adCall EXCEPT ![c] = [does |-> "deliver", ad |-> a, to |-> "nothing"]]
  /\ UNCHANGED <<adStatus, adEnded, impressions>>

\* No campaign runs: the answer has no ad.
DeliverNothing ==
  /\ \A a \in Ads : ~Runs(a)
  /\ UNCHANGED adVars

\* The policy of the INSERT asks for an approved campaign again, not for the limit.
InsertDelivery(c) ==
  /\ Delivering(c) /\ adStatus[adCall[c].ad] = "approved" /\ ~adEnded[adCall[c].ad]
  /\ impressions' = [impressions EXCEPT ![adCall[c].ad] = Append(@, FALSE)]
  /\ adCall' = [adCall EXCEPT ![c] = NoAd]
  /\ UNCHANGED <<adStatus, adEnded>>

\* The policy refuses it, or the transaction fails.
DropAdCall(c) ==
  /\ adCall[c] # NoAd
  /\ adCall' = [adCall EXCEPT ![c] = NoAd]
  /\ UNCHANGED <<adStatus, adEnded, impressions>>

\* contextual_ad_track_click: a second click of a token changes nothing.
TrackClick(a, i) ==
  /\ adStatus[a] = "approved" /\ ~adEnded[a] /\ i \in 1..Len(impressions[a])
  /\ impressions' = [impressions EXCEPT ![a][i] = TRUE]
  /\ UNCHANGED <<adStatus, adEnded, adCall>>

EndAd(a) ==
  /\ ~adEnded[a]
  /\ adEnded' = [adEnded EXCEPT ![a] = TRUE]
  /\ UNCHANGED <<adStatus, impressions, adCall>>

AdNext ==
  \/ \E c \in AdCalls, a \in Ads : LockAd(c, a) \/ SelectAd(c, a)
  \/ \E c \in AdCalls : Moderate(c) \/ InsertDelivery(c) \/ DropAdCall(c)
  \/ \E a \in Ads : SubmitAd(a) \/ EndAd(a) \/ \E i \in 1..Len(impressions[a]) : TrackClick(a, i)
  \/ DeliverNothing

-----------------------------------------------------------------------------
(* Properties *)

\* The limit is read before the impression is recorded, with no lock: requests
\* served at once may pass it, but never by more than one each.
ImpressionsNearLimit == \A a \in Ads :
  Len(impressions[a]) <= ImpressionLimit + Cardinality(AdCalls) - 1

\* A campaign only moves as its rules say, and a rejected one never again, though
\* two operators decide at once.
ModerationIsFinal == [][\A a \in Ads :
  adStatus'[a] = adStatus[a] \/ adStatus[a] = "none"
    \/ adStatus'[a] \in NextAdStatus(adStatus[a])]_adVars
=============================================================================
