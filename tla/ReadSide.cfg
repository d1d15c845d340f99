SPECIFICATION Spec
CONSTANTS
  p = p
  q = q
  c1 = c1
  c2 = c2
  c3 = c3
  g1 = g1
  g2 = g2
  users = users
  admin = admin
  n1 = n1
  n2 = n2
  get = get
  post = post
  Unset = Unset
  Gone = Gone
  Slugs = {p, q}
  Contracts = {c1, c2, c3}
  Groups = {g1, g2}
  GroupNames = {n1, n2}
  Paths = {users, admin}
  Methods = {get, post}
  Matching <- MCMatching
  Named <- MCNamed
  Distance <- MCDistance
  Requests <- MCRequests
  Databases <- MCDatabases
  RankOffset = 60
  ExactLimit = 2
  NearestLimit = 2
  HybridLimit = 2
  MaxLimit = 3
  ListLimit = 2
  PageLimit = 2
  ExportLimit = 3
  Asks = 1
  MaxWrites = 3
INVARIANTS TypeOK SearchHitsWereThere SearchFindsWhatStays ExportKeepsWhatStays PageShowsEachContractOnce NotFoundIsTrue
