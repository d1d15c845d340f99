SPECIFICATION Spec
CONSTANTS
  t1 = t1
  t2 = t2
  ann = ann
  bob = bob
  eve = eve
  padded = padded
  bad = bad
  old = old
  new = new
  short = short
  s1 = s1
  unslug = unslug
  Unset = Unset
  Tasks = {t1, t2}
  Names = {ann, bob, eve, padded, bad}
  Trim <- MCTrim
  RejectedNames = {bad}
  Passwords = {old, new, short}
  ShortPasswords = {short}
  Slugs = {s1, unslug}
  RejectedSlugs = {unslug}
  InitialUsers <- MCUsers
  Requests <- MCRequests
  SessionTtl = 1
  Budget = 4
  MaxTime = 1
SYMMETRY TaskSymmetry
INVARIANTS TypeOK AuthorityWasHeld LogIsTruthful
PROPERTIES LastAdminFallsOnlyToStaleAuthority EditsKeepToTheirForm
