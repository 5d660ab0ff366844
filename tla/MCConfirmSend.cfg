\* Safety: crashes and stragglers on, three callers, two keys, one draft.
CONSTANTS
  d1 = d1  c1 = c1  c2 = c2  c3 = c3  k1 = k1  k2 = k2
  short = short  big = big
  Drafts = {d1}
  Keys = {k1, k2}
  Callers = {c1, c2, c3}
  DraftOf <- MCDraftOf
  KeyOf <- MCKeyOf
  Texts = {short}
  Oversized = {}
  NoKey = NoKey
  NoText = NoText
  Faults = TRUE
  Stragglers = TRUE
SPECIFICATION Spec
INVARIANTS SendInvariant AtMostOneMail NoPhantomCopy
PROPERTIES ClosedDraftStaysClosed PromiseKept
SYMMETRY MCSymmetry
CHECK_DEADLOCK FALSE
