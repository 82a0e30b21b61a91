CONSTANTS
  u1 = u1
  u2 = u2
  k1 = k1
  c1 = c1
  p1 = p1
  p2 = p2
  Users = {u1, u2}
  Keys = {k1}
  Codes = {c1}
  Procs = {p1, p2}
  Grant <- MCGrant
  Quota <- MCQuota
  Configs <- MCConfigs
  Adjustments <- MCAdjustments
  MaxAdjustments = 1
SYMMETRY Symmetry
SPECIFICATION Spec
INVARIANTS
  TypeOK
  BooksAgree
  OneRowPerReference
  RefundMatchesSpend
  CodeWithinQuota
PROPERTY ImplementsAccount
