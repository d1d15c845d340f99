SPECIFICATION Spec
CONSTANTS
  p1 = p1
  p2 = p2
  root = root
  badname = badname
  long = long
  short = short
  other = other
  dflt = dflt
  named = named
  padded = padded
  empty = empty
  v = v
  w = w
  null = null
  Unset = Unset
  Gone = Gone
  Procs = {p1, p2}
  Statements <- MCStatements
  Repeatable = {2}
  ExamplesSince = 3
  UsersSince = 4
  Names = {root, badname}
  RejectedNames = {badname}
  Passwords = {long, short, other}
  ShortPasswords = {short}
  Configs <- MCConfigs
  OldVersions = {0, 2, 5}
  OldUsers <- MCOldUsers
  OldContracts <- MCOldContracts
  Inputs <- MCInputs
  MaxStarts = 3
  MaxEdits = 1
  ExampleNames = {dflt, named, padded, empty}
  TrimExample <- MCTrim
  RejectedExamples = {empty}
  Default = dflt
  Values = {v, w, null}
  JsonNull = null
  MaxExamples = 2
CHECK_DEADLOCK FALSE
INVARIANTS TypeOK ServesOnlyWhatIsReady BackfillIsComplete ExampleNamesAreUnique
PROPERTIES FailsOnlyForAReason StartsOverwriteNothing MirrorBreaksOnlyByStaleBackfill EveryStartEnds
