SPECIFICATION Spec
CONSTANTS
  d1 = d1
  d2 = d2
  m1 = m1
  m2 = m2
  m3 = m3
  f = f
  t1 = t1
  t2 = t2
  NoDoc = NoDoc
  Docs = {d1, d2}
  Mine = {m1, m2, m3}
  Theirs = {t1}
  DocOf <- MCDocOf
  Region <- MCRegion
  Clash <- MCClash
  Fixes = {}
  PushAttempts = 2
  MaxFaults = 0
  MaxDeletes = 0
  MaxSettles = 0
  WritesAtStops = TRUE
INVARIANT EditAccounted
CHECK_DEADLOCK FALSE
