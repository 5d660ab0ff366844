\* No crash at all: two attempt keys race on one draft.
CONSTANTS
  d1 = d1  c1 = c1  c2 = c2  c3 = c3  k1 = k1  k2 = k2
  short = short  big = big
  Drafts = {d1}
  Keys = {k1, k2}
  Callers = {c1, c3}
  DraftOf <- MCDraftOf
  KeyOf <- MCKeyOf
  Texts = {short}
  Oversized = {}
  NoKey = NoKey
  NoText = NoText
  Faults = FALSE
  Stragglers = FALSE
SPECIFICATION Spec
INVARIANTS SentRowMeansMailed
CHECK_DEADLOCK FALSE
