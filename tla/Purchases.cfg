SPECIFICATION Spec
CONSTANTS
  p1 = p1
  p2 = p2
  r1 = r1
  r2 = r2
  u1 = u1
  u2 = u2
  s1 = s1
  n1 = n1
  e1 = e1
  l1 = l1
  l2 = l2
  None = None
  Purchases = {p1, p2}
  Requests = {r1, r2}
  Users = {u1, u2}
  Suppliers = {s1}
  Numbers = {n1}
  Events = {e1}
  Lines = {l1, l2}
  Settings <- MCSettings
  Forms <- MCForms
  Scans <- MCScans
  Proposals <- MCProposals
CONSTRAINT OneReviewed
SYMMETRY Symmetric
INVARIANTS BooksFollowStatus FourEyes CountedOnce
PROPERTIES ReviewedIsFrozen
