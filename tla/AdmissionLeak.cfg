SPECIFICATION AdmissionSpec
CONSTANTS
  t1 = t1  t2 = t2  t3 = t3  s = s
  q1 = q1  q2 = q2  q3 = q3  sr = sr  sq = sq
  here = here  there = there  thereToo = thereToo
  recall = recall  embed = embed
  Requests = {t1, t2, t3, s}
  MaxInflight = 1
  MaxQueue = 2
  Calls = {q1, q2, q3, sr, sq}
  CallsOf <- MCCallsOf
  Surfaces = {s}
  Limiters = {recall, embed}
  Clients = {here, there, thereToo}
  LimiterOf <- MCLimiterOf
  ClientOf <- MCClientOf
  Waits = {q1, q2, q3, sq}
  Rate = 3
  Burst = 5
  Cost = 4
  TtlMs = 2
  SweepEveryN = 2
  MaxWaitMs = 1
  MaxTime = 3
INVARIANT SlotsAreInFlight
CHECK_DEADLOCK FALSE
