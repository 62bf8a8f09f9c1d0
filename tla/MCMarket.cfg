SPECIFICATION FairSpec
CONSTANTS
  t1 = t1  t2 = t2
  p1 = p1  p2 = p2
  r1 = r1  r2 = r2
  None = None
  Transactions <- TwoTransactions
  Providers <- TwoProviders
  Requests <- TwoRequests
  Amounts <- OneAmount
  ProposalLimit = 1
  JobLimit = 1
INVARIANTS MarketTypeOK BookedByOneAcceptance ProposalLimitHolds
PROPERTIES DecisionsAreFinal TransactionsEnd
