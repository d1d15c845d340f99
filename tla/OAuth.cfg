SPECIFICATION Spec
CONSTANTS
  t1 = t1
  t2 = t2
  u1 = u1
  c1 = c1
  c2 = c2
  r1 = r1
  v1 = v1
  v2 = v2
  h1 = h1
  h2 = h2
  Unset = Unset
  Tasks = {t1, t2}
  Users = {u1}
  Clients = {c1, c2}
  Uris = {r1}
  BadUris = {}
  Verifiers = {v1, v2}
  Challenges = {h1, h2}
  Digest <- MCDigest
  ConsentForms <- MCConsentForms
  TokenForms <- MCTokenForms
  CodeTtl = 1
  AccessTtl = 1
  RefreshTtl = 1
  Budget = 4
  MaxTime = 1
SYMMETRY TaskSymmetry
INVARIANTS TypeOK OneHolder TokensKeepTheirGrant
PROPERTIES RunsWithinGrantAndRole AnsweredPairIsStored SpentStaysSpent ImplementsGrant
