SPECIFICATION Spec
CONSTANTS
  t1 = t1  t2 = t2
  p1 = p1  p2 = p2
  r1 = r1  r2 = r2
  None = None
  Transactions <- TwoTransactions
  Providers <- OneProvider
  Requests <- OneRequest
  Amounts <- TwoAmounts
  ProposalLimit = 1
  JobLimit = 1
INVARIANTS AcceptedAmountIsBooked
