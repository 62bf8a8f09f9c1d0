---------------------------- MODULE MCWorkflows -----------------------------
(***************************************************************************)
(* The workflows that need no fairness to be right, in one instance.  They *)
(* share no row with each other: a behaviour is of the one in focus and    *)
(* the others stay in a single initial state, so the states of the run     *)
(* are the sum of theirs.  Two requests, or two tabs, of each are served   *)
(* at once; they are interchangeable, and every property is of safety.     *)
(***************************************************************************)
EXTENDS MCRegions, ServiceCatalog, OperationDesk, Referrals, Campaigns, PartnerSupport,
        RateWindow, AdDelivery, Verification, PrivacyRights, PageMutations, PageReads,
        ProviderSchedule, Onboarding, Sessions, TLC

ThreeCategories == {"k1", "k2", "k3"}
ThreeValues == {"v", "w", "x"}
\* a+x is another way to write the address a; b is the partner's own.
FourContacts == {<<"p", "a">>, <<"p", "b">>, <<"p", "c">>, <<"q", "a+x">>}
OneTriaged == {<<"p", "b">>}
WithoutAlias(e) == IF e = "a+x" THEN "a" ELSE e
PartnerEmail(p) == "b"
ThreeOrders == {"o1", "o2", "o3"}
OwnerOf(o) == IF o = "o3" THEN "v" ELSE "w"
TwoCodes == {"a", "b"}
Limits == [k \in {"global"} \cup TwoCodes |-> IF k = "global" THEN 2 ELSE 1]
TwoAds == {"a1", "a2"}
OneTargeted == {"a1"}
TwoItems == {"i1", "i2"}
TwoContents == {"x", "y"}
TwoSubjects == {1, 2}
TwoPeriods == {1, 2}
ThreeSpans == {{1}, {2}, {1, 2}}
TwoServed == {1, 2}
TwoSettings == {3, 4}
ThreeForms == {[regions |-> {1}, settings |-> 3, granted |-> TRUE],
               [regions |-> {2}, settings |-> 3, granted |-> FALSE],
               [regions |-> {1, 2}, settings |-> 4, granted |-> FALSE]}
TwoRoles == {"customer", "provider"}
CustomerAndProvider == {{"customer", "provider"}}

VARIABLE focus

Workflows == {"regions", "catalog", "desk", "referrals", "campaigns", "tickets", "rate", "ads",
              "verification", "privacy", "pages", "reads", "agenda", "onboarding", "sessions"}

\* What may start in several ways is fixed while it is not in focus.
WorkflowsInit ==
  /\ focus \in Workflows
  /\ RegionsInit /\ CatalogInit /\ DeskInit /\ ReferralsInit /\ CampaignsInit /\ TicketInit
  /\ RateInit /\ AdInit /\ VerificationInit /\ PrivacyInit /\ PageMutationsInit
  /\ PageReadsInit /\ ProviderScheduleInit /\ OnboardingInit /\ SessionsInit
  /\ focus # "desk" => record = "gate"
  /\ focus # "campaigns" => consent = {}
  /\ focus # "rate" => store = "memory"
  /\ focus # "privacy" => dsRequest.type = "access"
  /\ focus # "pages" => page = saveMatching
  /\ focus # "reads" => panel = Plain /\ subject = 1

Others ==
  /\ UNCHANGED focus
  /\ focus # "regions" => UNCHANGED regionVars
  /\ focus # "catalog" => UNCHANGED catalogVars
  /\ focus # "desk" => UNCHANGED deskVars
  /\ focus # "referrals" => UNCHANGED referralVars
  /\ focus # "campaigns" => UNCHANGED campaignVars
  /\ focus # "tickets" => UNCHANGED ticketVars
  /\ focus # "rate" => UNCHANGED rateVars
  /\ focus # "ads" => UNCHANGED adVars
  /\ focus # "verification" => UNCHANGED reviewVars
  /\ focus # "privacy" => UNCHANGED privacyVars
  /\ focus # "pages" => UNCHANGED pageMutationVars
  /\ focus # "reads" => UNCHANGED readVars
  /\ focus # "agenda" => UNCHANGED providerScheduleVars
  /\ focus # "onboarding" => UNCHANGED onboardingVars
  /\ focus # "sessions" => UNCHANGED sessionVars

WorkflowsNext ==
  /\ \/ focus = "regions" /\ RegionsNext
     \/ focus = "catalog" /\ CatalogNext
     \/ focus = "desk" /\ DeskNext
     \/ focus = "referrals" /\ ReferralsNext
     \/ focus = "campaigns" /\ CampaignsNext
     \/ focus = "tickets" /\ TicketNext
     \/ focus = "rate" /\ RateNext
     \/ focus = "ads" /\ AdNext
     \/ focus = "verification" /\ VerificationNext
     \/ focus = "privacy" /\ PrivacyNext
     \/ focus = "pages" /\ PageMutationsNext
     \/ focus = "reads" /\ PageReadsNext
     \/ focus = "agenda" /\ ProviderScheduleNext
     \/ focus = "onboarding" /\ OnboardingNext
     \/ focus = "sessions" /\ SessionsNext
  /\ Others

workflowVars ==
  <<focus, regionVars, catalogVars, deskVars, referralVars, campaignVars, ticketVars, rateVars,
    adVars, reviewVars, privacyVars, pageMutationVars, readVars, providerScheduleVars,
    onboardingVars, sessionVars>>
WorkflowsSpec == WorkflowsInit /\ [][WorkflowsNext]_workflowVars

Interchangeable == Permutations(TwoCalls)

\* Triage concerns the row of one referral: no other is captured beside it.
TriageAlone ==
  \/ \A c \in ReferralCalls : visit[c] # NoVisit => "to" \notin DOMAIN visit[c]
     /\ \A k \in Triaged \cap Committed : referral[k].status = "invited" /\ referral[k].review = "none"
  \/ Committed \subseteq Triaged

\* Every variable of the workflow in focus keeps its type.
WorkflowsTypeOK ==
  /\ focus \in Workflows
  /\ focus = "regions"      => RegionsTypeOK
  /\ focus = "catalog"      => CatalogTypeOK
  /\ focus = "desk"         => DeskTypeOK
  /\ focus = "referrals"    => ReferralsTypeOK
  /\ focus = "campaigns"    => CampaignsTypeOK
  /\ focus = "tickets"      => TicketTypeOK
  /\ focus = "rate"         => RateTypeOK
  /\ focus = "ads"          => AdTypeOK
  /\ focus = "verification" => VerificationTypeOK
  /\ focus = "privacy"      => PrivacyTypeOK
  /\ focus = "pages"        => PageMutationsTypeOK
  /\ focus = "reads"        => PageReadsTypeOK
  /\ focus = "agenda"       => ProviderScheduleTypeOK
  /\ focus = "onboarding"   => OnboardingTypeOK
  /\ focus = "sessions"     => SessionsTypeOK

-----------------------------------------------------------------------------
(* What the workflows that resemble each other promise together *)

\* The catalog of the console stays usable through concurrent deactivations and
\* moves: an active category, no position twice, no active region without a quarter.
CatalogStaysUsable == ActiveRegionHasHood /\ OneCategoryActive /\ PositionsDiffer

\* The records the operation changes are changed from the state that was seen, by
\* events without a gap: gates, goals and cases, and requests of data subjects.
ChangesWereSeen == TrailsChain /\ GateSavesWereSeen /\ DecisionsWereSeen

\* A limit that is counted before the row it limits is inserted is kept exactly
\* where a lock covers both, and else up to the requests that counted at once.
LimitsHold ==
  UsesWithinLimits /\ GuessesWithinLimit /\ CapturesNearLimit /\ ImpressionsNearLimit

\* A verdict stands on what was there when it was given: the items of a verification,
\* the package of a request of access.
VerdictsHaveTheirGrounds == VerdictMatchesItems /\ AccessHasItsReceipt

\* What was settled stays settled, though a second operator saw it open: resolved
\* cases, the first answer to a ticket, moderated advertisements.
SettledStays == ResolvedStays /\ FirstAnswerStands /\ ModerationIsFinal
=============================================================================
