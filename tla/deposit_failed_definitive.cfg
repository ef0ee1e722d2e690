\* Claim: Failed is definitive.
SPECIFICATION Spec
CONSTANTS
  d1 = d1
  d2 = d2
  u1 = u1
  h1 = h1
  h2 = h2
  r1 = r1
  r2 = r2
  None = None
  Deposits = {d1}
  Wallets = {u1}
  Handlers = {h1}
  Recoverers = {r1}
  Owner <- MCOwner
  Amount <- MCAmount
  ProcessOf <- OneProcess
  MaxAttempts = 1
  MaxBalance = 1
  Openings = {0}
  UnreadBound = 1
  CallbackBound = 1
CHECK_DEADLOCK FALSE
INVARIANTS FailedIsDefinitive
