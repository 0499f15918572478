SPECIFICATION Spec
CONSTANTS
  c = c
  a = a
  Timers = {a}
  Callers = {c}
  Uses <- Owner
  Restarts <- Itself
  Periodic = {}
  Times = {1, 3}
  TickMod = 12
  MaxLate = 1
INVARIANT DeactivatedIsUnlisted
