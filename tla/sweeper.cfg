\* Two processes sweep two deposits, with three faults.
SPECIFICATION FairSpec
CONSTANTS
  p1 = p1
  p2 = p2
  None = None
  Processes = {p1, p2}
  Deposits = {1, 2}
  MaxFaults = 3
CHECK_DEADLOCK FALSE
INVARIANTS TypeOK LeadersOverlapAfterLoss
PROPERTIES OpenIsRetried
