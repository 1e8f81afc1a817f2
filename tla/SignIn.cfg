CONSTANTS
  p1 = p1
  p2 = p2
  c1 = c1
  c2 = c2
  d1 = d1
  None = None
  Pages = {p1, p2}
  Callers = {c1, c2, d1}
  Senders <- MCSenders
  pageOf <- MCPageOf
  Tokens = {t1, t2, t3}
SYMMETRY CallersOfOnePage
SPECIFICATION Spec
INVARIANT TypeOK
INVARIANT RotationChain
INVARIANT OneRefreshPerPage
INVARIANT StoredIsUsable
INVARIANT NeverReplays
