\* Four contents, each to be previewed.
CONSTANTS
  i1 = i1  i2 = i2  v1 = v1  v2 = v2  none = none  f1 = f1  f2 = f2
  w1 = w1  w2 = w2  s1 = s1  s2 = s2  r1 = r1  nobody = nobody
  Items <- OneItem
  Values <- OneValue
  NoAnswer = none
  Files <- OneFile
  ItemOf <- FilesOfFirstItem
  Windows <- OneWindow
  Staff <- Nobody
  Reviewers <- Nobody
  NoReviewer = nobody
  MaxDrafts = 2
  MaxSignings = 2
  MaxLinks = 1
SPECIFICATION FairSpec
PROPERTIES PreviewIsGranted
\* A completed or closed case, or one with no link left, ends the behavior.
CHECK_DEADLOCK FALSE
