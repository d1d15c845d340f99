SPECIFICATION Spec
CONSTANTS
  t1 = t1
  t2 = t2
  p1 = p1
  p2 = p2
  n1 = n1
  k1 = k1
  k2 = k2
  s1 = s1
  s2 = s2
  bad = bad
  Unset = Unset
  Blank = Blank
  Projects = {p1, p2}
  Names = {n1}
  Keys = {k1, k2}
  Similarity <- MCSimilarity
  Threshold = 2
  Tasks = {t1, t2}
  Texts = {s1, s2}
  RejectedTexts = {}
  Requests <- RegroupRequests
  TopK = 3
  Faults = {}
  Budget = 3
PROPERTIES UnmentionedGroupKept
