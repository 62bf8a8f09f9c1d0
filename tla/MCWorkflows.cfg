SPECIFICATION WorkflowsSpec
SYMMETRY Interchangeable
CONSTRAINT TriageAlone
CONSTANTS
  c1 = c1  c2 = c2
  RegionCalls <- TwoCalls  Regions <- TwoRegions  Hoods <- ThreeHoods
  RegionOf <- HoodRegion  NoPlace = NoPlace
  CatalogCalls <- TwoCalls  Categories <- ThreeCategories  NoJob = NoJob
  DeskCalls <- TwoCalls  DeskValues <- ThreeValues  MaxEvents = 3  NoTask = NoTask
  ReferralCalls <- TwoCalls  Contacts <- FourContacts  Triaged <- OneTriaged
  Canonical <- WithoutAlias  OwnEmail <- PartnerEmail  CaptureLimit = 1
  NoReferral = NoReferral  NoVisit = NoVisit
  CouponCalls <- TwoCalls  Orders <- ThreeOrders  OrderOwner <- OwnerOf
  TotalLimit = 2  CustomerLimit = 1  AbuseLimit = 1  NoCoupon = NoCoupon
  TicketCalls <- TwoCalls  MaxTicketEvents = 4  NoErrand = NoErrand
  RateCalls <- TwoCalls  Codes <- TwoCodes  RateLimit <- Limits  Window = 2
  MaxBuckets = 2  MaxClock = 4  MaxDecided = 4  NoScript = NoScript
  AdCalls <- TwoCalls  Ads <- TwoAds  Targeted <- OneTargeted  ImpressionLimit = 1  NoAd = NoAd
  ReviewCalls <- TwoCalls  Items <- TwoItems  NoReview = NoReview
  PrivacyCalls <- TwoCalls  MaxDsEvents = 5  NoPrivacyTask = NoPrivacyTask
  Contents <- TwoContents  MaxMinted = 3  MaxWire = 2  NoRequest = NoRequest
  Subjects <- TwoSubjects  MaxStates = 3  NoData = NoData
  ScheduleCalls <- TwoCalls  Periods <- TwoPeriods  Spans <- ThreeSpans
  MaxScheduleVersion = 3  NoScheduling = NoScheduling
  OnboardingCalls <- TwoCalls  ServedRegions <- TwoServed  Settings <- TwoSettings
  Forms <- ThreeForms  MaxSaves = 5  NoSave = NoSave  Unset = Unset
  Tabs <- TwoCalls  DemoRoles <- TwoRoles  SharedLists <- CustomerAndProvider  MaxSessions = 2  NoFlight = NoFlight
INVARIANTS WorkflowsTypeOK CatalogStaysUsable ChangesWereSeen LimitsHold VerdictsHaveTheirGrounds
  RisksAreReviewed TicketsTakeTheirCourse AdmissionsAreCounted KeysServeTheUser AgendaHolds
  OnboardingTrailsTell SessionsHold PanelsShowTheirSubject
PROPERTIES SettledStays PanelsNeverGoBack
