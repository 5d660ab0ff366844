\* Two mails to one recipient: the first bounces, the second is complained about.
CONSTANTS
  k1 = k1  i1 = i1  i2 = i2  p1 = p1  p2 = p2  r1 = r1  s1 = s1
  q1 = q1  q2 = q2  q3 = q3
  ApiKeys = {k1}
  ClientKeys = {i1, i2}
  Payloads = {p1}
  Recipients = {r1}
  Requests = {q1, q3}
  Senders = {s1}
  KeyOf <- MCKeyOf
  ClientKeyOf <- MCClientKeyOf
  RecipientOf <- MCRecipientOf
  SenderOf <- MCSenderOf
  Quota <- MCQuota
  LastWindow = 1
  Reports = {"hard_bounce", "complained"}
  NoRequest = NoRequest
  NoPayload = NoPayload
  Faults = FALSE
  Stragglers = FALSE
SPECIFICATION Spec
PROPERTIES ComplaintSuppresses
CHECK_DEADLOCK FALSE
