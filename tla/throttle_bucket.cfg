\* Two callers, a bucket of three tokens that refills one token in two ticks.
SPECIFICATION Spec
CONSTANTS
  w1 = w1
  w2 = w2
  w3 = w3
  Callers = {w1, w2}
  Token = 2
  Capacity = 6
  Refill = 1
  Cooldowns = {1, 2}
  MaxTime = 4
SYMMETRY CallerSymmetry
INVARIANTS TypeOK RateBound
PROPERTIES CooldownsKept
