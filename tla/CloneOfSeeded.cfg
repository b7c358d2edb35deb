SPECIFICATION Spec
CONSTANTS
  n1 = n1
  n2 = n2
  s1 = s1
  db = db
  r1 = r1
  r2 = r2
  t1 = t1
  t2 = t2
  t3 = t3
  rev1 = rev1
  Sep = Sep
  ByTag = ByTag
  None = None
  Names = {n1, n2}
  SnapNames = {s1}
  TagOf <- OwnTags
  Repos = {db, r1, r2}
  PvcRepo <- OwnRepos
  CaptureRegistry = TRUE
  Classes <- SameClass
  SnapClasses <- OwnRepo
  Seeds <- OneSeed
  MaxVersion = 3
SYMMETRY Symmetry
INVARIANTS
  CloneShowsSource
