\* Liveness: two callers, one key, fair scheduling.
CONSTANTS
  d1 = d1  c1 = c1  c2 = c2  c3 = c3  k1 = k1  k2 = k2
  short = short  big = big
  Drafts = {d1}
  Keys = {k1, k2}
  Callers = {c1, c2}
  DraftOf <- MCDraftOf
  KeyOf <- MCKeyOf
  Texts = {short, big}
  Oversized = {big}
  NoKey = NoKey
  NoText = NoText
  Faults = TRUE
  Stragglers = FALSE
SPECIFICATION FairSpec
PROPERTIES SendingRowIsResolved CallerIsAnswered
CHECK_DEADLOCK FALSE
