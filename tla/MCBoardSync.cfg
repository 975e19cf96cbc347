SPECIFICATION Spec
CONSTANTS
  d1 = d1
  d2 = d2
  m1 = m1
  m2 = m2
  m3 = m3
  f = f
  t1 = t1
  t2 = t2
  NoDoc = NoDoc
  Docs = {d1, d2}
  Mine = {m1, f}
  Theirs = {t1, t2}
  DocOf <- MCDocOf
  Region <- MCRegion
  Clash <- MCClash
  Fixes = {f}
  PushAttempts = 2
  MaxFaults = 1
  MaxDeletes = 1
  MaxSettles = 1
  WritesAtStops = FALSE
INVARIANT EditAccounted
INVARIANT TeammateKept
INVARIANT PublishedParses
PROPERTY Converges
