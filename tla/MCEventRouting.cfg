\* Routing of delivery events: safety and liveness.
SPECIFICATION RoutingSpec
CONSTANTS
  k1 = k1  i1 = i1  i2 = i2  p1 = p1  r1 = r1
  q1 = q1  q2 = q2  s1 = s1  h1 = h1
  ApiKeys = {k1}
  ClientKeys = {i1, i2}
  Payloads = {p1}
  Recipients = {r1}
  Requests = {q1, q2}
  Senders = {s1}
  HumanMails = {h1}
  KeyOf <- MCKeyOf
  ClientKeyOf <- MCClientKeyOf
  RecipientOf <- MCRecipientOf
  SenderOf <- MCSenderOf
  Quota <- MCQuota
  AddressOf <- MCAddressOf
  Traffic <- MCTraffic
  LastWindow = 0
  Reports = {"hard_bounce"}
  NoRequest = NoRequest
  NoPayload = NoPayload
  Faults = FALSE
  Stragglers = FALSE
  MaxRetries = 1
  DeadRetries = 0
INVARIANTS
  EventInvariant
PROPERTIES
  RemovedStaysRemoved KnownMailSettlesItsRow EventEnds
CHECK_DEADLOCK FALSE
