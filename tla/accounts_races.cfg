\* Two threads register, edit, pay and delete two users, in every order.
SPECIFICATION Spec
CONSTANTS
  u1 = u1
  u2 = u2
  w1 = w1
  w2 = w2
  i1 = i1
  i2 = i2
  e1 = e1
  E1 = E1
  f1 = f1
  None = None
  Users = {u1, u2}
  Threads = {w1, w2}
  Records = {i1, i2}
  Emails = {e1, E1}
  Lower <- MCLower
  Phones = {f1}
SYMMETRY AccountSymmetry
INVARIANTS TypeOK AccountsComplete NoOrphans
PROPERTIES FreezeIsKept ImplementsRegistry
