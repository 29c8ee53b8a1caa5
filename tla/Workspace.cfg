SPECIFICATION Spec
CONSTANTS
  groq = groq
  local = local
  m1 = m1
  m2 = m2
  Provider = {groq, local}
  Unasked = {local}
  Static = {local}
  Model = {m1, m2}
  Catalog <- MCCatalog
  Process = {c1, c2}
  Type = "embedding"
  Preference = Preference
  Request = {r1, r2, r3}
  Old = Old
  None = None
SYMMETRY Symmetric
CHECK_DEADLOCK FALSE
INVARIANTS
  OneSettledDefault
  TestedUnlessRaced
  FreshAfterSet
