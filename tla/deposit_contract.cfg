\* Two deposits into one wallet implement the contract.
SPECIFICATION Spec
CONSTANTS
  d1 = d1
  d2 = d2
  u1 = u1
  h1 = h1
  h2 = h2
  r1 = r1
  r2 = r2
  None = None
  Deposits = {d1, d2}
  Wallets = {u1}
  Handlers = {h1}
  Recoverers = {r1}
  Owner <- MCOwner
  Amount <- MCAmount
  ProcessOf <- OneProcess
  MaxAttempts = 1
  MaxBalance = 3
  Openings = {0, 1}
  UnreadBound = 0
  CallbackBound = 1
CHECK_DEADLOCK FALSE
INVARIANTS BalanceIsExplained
PROPERTIES ImplementsContract
