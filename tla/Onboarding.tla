----------------------------- MODULE Onboarding -----------------------------
(***************************************************************************)
(* The onboarding of a provider (api/onboarding/onboarding.service.ts):    *)
(* one transaction saves the profile, synchronises the service regions and *)
(* the matching profile, and records the consents.  The matching profile   *)
(* is also changed from the dashboard (MarketplaceService).  Users do not  *)
(* share rows: a behaviour follows one.                                    *)
(***************************************************************************)
EXTENDS Naturals, Sequences

CONSTANTS OnboardingCalls, \* requests of the provider's tabs
          ServedRegions,   \* regions it may cover
          Settings,        \* contents of a matching profile
          Forms,           \* forms it may fill
          MaxSaves,        \* bound of the model: no save begins to commit past it
          NoSave, Unset    \* an idle request; a row that does not exist

ASSUME FormsAssumption ==
  /\ Forms \subseteq [regions : (SUBSET ServedRegions) \ {{}}, settings : Settings, granted : BOOLEAN]
  /\ Unset \notin [settings : Settings, version : Nat]

VARIABLES profileVersion, \* onboarding_profiles.version, 0 before the first
          coverage,       \* active provider_service_regions
          coverageLog,    \* provider_service_region_events
          matching,       \* provider_matching_profiles, or Unset
          matchingLog,    \* provider_matching_events
          consented,      \* consent_preferences of a purpose, or Unset
          consentLog,     \* consent_events of it
          saving          \* what each request is doing

savedVars == <<profileVersion, coverage, coverageLog, matching, matchingLog, consented, consentLog>>
onboardingVars == <<savedVars, saving>>

Saves == [form : Forms, at : {"read", "upserted", "matched", "dashboard"}, next : Nat,
          covered : SUBSET ServedRegions,
          matched : [settings : Settings, version : Nat] \cup {Unset},
          was : BOOLEAN \cup {Unset}]

OnboardingTypeOK ==
  /\ profileVersion \in Nat /\ coverage \subseteq ServedRegions
  /\ matching \in [settings : Settings, version : Nat] \cup {Unset}
  /\ consented \in BOOLEAN \cup {Unset}
  /\ saving \in [OnboardingCalls -> Saves \cup {NoSave}]

OnboardingInit ==
  /\ profileVersion = 0 /\ coverage = {} /\ coverageLog = <<>>
  /\ matching = Unset /\ matchingLog = <<>> /\ consented = Unset /\ consentLog = <<>>
  /\ saving = [c \in OnboardingCalls |-> NoSave]

SavingAt(c, steps) == saving[c] # NoSave /\ saving[c].at \in steps

\* Mutant: the profile is written after what depends on it.
ProfileShared(c) == TRUE

\* The row of onboarding_profiles: once it exists the SELECT locks it, before that
\* the INSERT of its primary key is the first to wait.
ProfileFree(c) == \A d \in OnboardingCalls \ {c} :
  ~SavingAt(d, {"upserted", "matched"}) /\ ~(profileVersion > 0 /\ SavingAt(d, {"read"}))

\* Mutant: the SELECT of the matching profile has no FOR UPDATE.
MatchingShared(c) == TRUE

MatchingFree(c) == \A d \in OnboardingCalls \ {c} : ~SavingAt(d, {"matched", "dashboard"})

-----------------------------------------------------------------------------
\* The rows a request has not read yet are those of now until it reads them.
ReadProfile(c, form) ==
  /\ saving[c] = NoSave
  /\ profileVersion > 0 => ProfileFree(c)
  /\ saving' = [saving EXCEPT ![c] =
       [form |-> form, at |-> "read", next |-> profileVersion + 1, covered |-> {},
        matched |-> Unset, was |-> Unset]]
  /\ UNCHANGED savedVars

\* INSERT … ON CONFLICT of the profile, then syncProviderRegions reads the coverage.
UpsertProfile(c) ==
  /\ SavingAt(c, {"read"}) /\ ProfileFree(c)
  /\ saving' = [saving EXCEPT ![c].at = "upserted", ![c].covered = coverage]
  /\ UNCHANGED savedVars

\* syncProviderMatching and upsertConsent read the rows they will replace.
SyncMatching(c) ==
  /\ SavingAt(c, {"upserted"}) /\ MatchingFree(c)
  /\ saving' = [saving EXCEPT ![c].at = "matched", ![c].matched = matching, ![c].was = consented]
  /\ UNCHANGED savedVars

\* updateProviderMatching of the dashboard, refused when nothing is configured.
LockMatching(c, form) ==
  /\ saving[c] = NoSave /\ matching # Unset /\ MatchingFree(c)
  /\ matching.settings # form.settings
  /\ saving' = [saving EXCEPT ![c] =
       [form |-> form, at |-> "dashboard", next |-> 0, covered |-> {}, matched |-> matching,
        was |-> Unset]]
  /\ UNCHANGED savedVars

\* A matching profile that differs is replaced under the next version.
ReplaceMatching(save) ==
  IF save.matched # Unset /\ save.matched.settings = save.form.settings
  THEN UNCHANGED <<matching, matchingLog>>
  ELSE LET row == [settings |-> save.form.settings,
                   version |-> IF save.matched = Unset THEN 1 ELSE save.matched.version + 1]
       IN matching' = row /\ matchingLog' = Append(matchingLog, row)

\* Mutant: only a consent given is recorded.
ConsentGiven(save) == save.form.granted /\ save.was # TRUE

ConsentChanged(save) == save.was # save.form.granted

CommitMatching(c) ==
  /\ SavingAt(c, {"dashboard"})
  /\ profileVersion + Len(matchingLog) < MaxSaves
  /\ ReplaceMatching(saving[c])
  /\ saving' = [saving EXCEPT ![c] = NoSave]
  /\ UNCHANGED <<profileVersion, coverage, coverageLog, consented, consentLog>>

CommitOnboarding(c) ==
  /\ SavingAt(c, {"matched"})
  /\ profileVersion + Len(matchingLog) < MaxSaves
  /\ LET save == saving[c]
         removed == save.covered \ save.form.regions
         added == save.form.regions \ save.covered
     IN /\ profileVersion' = save.next
        /\ coverage' = (coverage \ removed) \cup save.form.regions
        /\ coverageLog' = coverageLog \o (IF removed \cup added = {} THEN <<>>
                            ELSE <<[removed |-> removed, added |-> added]>>)
        /\ ReplaceMatching(save)
        /\ consented' = save.form.granted
        /\ consentLog' = IF ~ConsentChanged(save) THEN consentLog
             ELSE Append(consentLog, [previous |-> save.was, granted |-> save.form.granted])
  /\ saving' = [saving EXCEPT ![c] = NoSave]

\* Documents out of date, a category, region or quarter no longer served, or a failure.
RollbackSave(c) ==
  /\ saving[c] # NoSave
  /\ saving' = [saving EXCEPT ![c] = NoSave]
  /\ UNCHANGED savedVars

OnboardingNext == \E c \in OnboardingCalls :
  \/ \E f \in Forms : ReadProfile(c, f) \/ LockMatching(c, f)
  \/ UpsertProfile(c) \/ SyncMatching(c) \/ CommitMatching(c) \/ CommitOnboarding(c)
  \/ RollbackSave(c)

-----------------------------------------------------------------------------
(* Properties *)

\* Two tabs complete the onboarding at once, the first time or later: each consent
\* event tells the choice it replaced, and the last one the choice of now.
ConsentTrailChains ==
  /\ \A i \in 1..Len(consentLog) :
       consentLog[i].previous = IF i = 1 THEN Unset ELSE consentLog[i - 1].granted
  /\ consented = IF consentLog = <<>> THEN Unset ELSE consentLog[Len(consentLog)].granted

\* The events of a region alternate, and tell the coverage of now: no two saves add
\* the same region, though each compares with the coverage it read.
CoverageTrailAlternates == LET f[i \in 0..Len(coverageLog)] ==
    IF i = 0 THEN {} ELSE (f[i - 1] \ coverageLog[i].removed) \cup coverageLog[i].added
  IN /\ coverage = f[Len(coverageLog)]
     /\ \A i \in 1..Len(coverageLog) :
          coverageLog[i].removed \subseteq f[i - 1] /\ coverageLog[i].added \cap f[i - 1] = {}

\* The onboarding and the dashboard change the matching profile one after the other:
\* one event for each version, and the last is the profile of now.
MatchingVersionsFollow ==
  /\ \A i \in 1..Len(matchingLog) : matchingLog[i].version = i
  /\ matching = IF matchingLog = <<>> THEN Unset ELSE matchingLog[Len(matchingLog)]

\* The three trails of the onboarding tell the consent, the coverage and the matching
\* of now, though completions and the dashboard write them at once.
OnboardingTrailsTell == ConsentTrailChains /\ CoverageTrailAlternates /\ MatchingVersionsFollow
=============================================================================
