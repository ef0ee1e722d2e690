\* Every request is answered.
SPECIFICATION FairSpec
CONSTANTS
  u1 = u1
  u2 = u2
  w1 = w1
  w2 = w2
  w3 = w3
  p1 = p1
  p2 = p2
  p3 = p3
  k1 = k1
  k2 = k2
  None = None
  Opening <- MCOpening
  Users = {u1, u2}
  Threads = {w1, w2}
  Payments = {p1}
  Accounts = {"PENDING"}
  Keys = {k1}
  Amounts = {2}
PROPERTIES RequestsEnd
