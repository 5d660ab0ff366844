\* Keys, templates and routing while their editors overlap, and the feedback
\* verdict against the channel it is about: safety.
SPECIFICATION MCSpec
CONSTANTS
  b1 = b1  b2 = b2
  Calls = {b1, b2}
  Sends = {1}
  NoName = NoName
  SenderNames = {NoName, "brand"}
  TemplateIds = {a1, a2}
  Contents = {"v1", "v2"}
  MaxKeys = 3
  a1 = a1  a2 = a2
  Addresses = {a1, a2}
  Rules = {1}
  Nobody = Nobody
  Editors = {b1, b2}
  Deliveries = {1}
  MaxEdits = 1
  n1 = n1
  Requests = {1, 2}
  Domains = {n1}
  Boxes = {1, 2}
  DomainOf <- MCDomainOf
  BoxOf <- MCBoxOf
  Maturity = 1
  Lookback = 3
  LastTick = 4
INVARIANTS KeysInvariant RoutingInvariant FeedbackInvariant
PROPERTIES RetiredStaysRetired AliasNotStolen
SYMMETRY MCSymmetry
CHECK_DEADLOCK FALSE
