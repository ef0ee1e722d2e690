\* One deposit, two callback threads of one process, two recoverers.
SPECIFICATION Spec
CONSTANTS
  d1 = d1
  d2 = d2
  u1 = u1
  h1 = h1
  h2 = h2
  r1 = r1
  r2 = r2
  None = None
  Deposits = {d1}
  Wallets = {u1}
  Handlers = {h1, h2}
  Recoverers = {r1, r2}
  Owner <- MCOwner
  Amount <- MCAmount
  ProcessOf <- OneProcess
  MaxAttempts = 2
  MaxBalance = 1
  Openings = {0, 1}
  UnreadBound = 1
  CallbackBound = 2
CHECK_DEADLOCK FALSE
INVARIANTS TypeOK CreditedOnce BackstopUnused OutcomeIsTrue RecoverersExcluded AttemptBudget
PROPERTIES TerminalIsFinal ThrottleIsFree
