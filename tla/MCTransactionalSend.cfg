\* Safety: two requests under one Idempotency-Key, a third under another.
CONSTANTS
  k1 = k1  i1 = i1  i2 = i2  p1 = p1  p2 = p2  r1 = r1  s1 = s1
  q1 = q1  q2 = q2  q3 = q3
  ApiKeys = {k1}
  ClientKeys = {i1, i2}
  Payloads = {p1, p2}
  Recipients = {r1}
  Requests = {q1, q2, q3}
  Senders = {s1}
  KeyOf <- MCKeyOf
  ClientKeyOf <- MCClientKeyOf
  RecipientOf <- MCRecipientOf
  SenderOf <- MCSenderOf
  Quota <- MCQuota
  LastWindow = 1
  Reports = {"hard_bounce", "rejected"}
  NoRequest = NoRequest
  NoPayload = NoPayload
  Faults = TRUE
  Stragglers = TRUE
SPECIFICATION Spec
INVARIANTS TxInvariant AtMostOneMail QuotaExact StatusIsTrue AnswerIsTrue
PROPERTIES SettledStays
SYMMETRY MCSymmetry
CHECK_DEADLOCK FALSE
