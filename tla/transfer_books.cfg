\* Two users, two threads, three movements: the books after every interleaving.
SPECIFICATION Spec
CONSTANTS
  w1 = w1
  w2 = w2
  w3 = w3
  c1 = c1
  c2 = c2
  c3 = c3
  None = None
  Wallets = {1, 2}
  Threads = {w1, w2}
  Codes = {c1, c2, c3}
  Opening <- MCOpening
  Amounts = {1, 2}
  MaxBalance = 3
SYMMETRY ThreadSymmetry
INVARIANTS TypeOK LedgerChains BooksAgree MoneyConserved WaitsAscend
PROPERTIES ImplementsBank
