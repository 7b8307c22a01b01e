\* Two handlers, crashes and expired leases, two clerks who retry twice.
CONSTANTS
  w1 = w1  w2 = w2  c1 = c1  s1 = s1  s2 = s2  a = a  b = b  none = none
  Workers <- TwoWorkers
  Consumers <- Nobody
  Staff <- TwoClerks
  Mortal <- TwoWorkers
  Shas <- TwoDigests
  NoSha = none
  MaxAttempts = 1
  RetryLimit = 0
  LateUploads = FALSE
  MaxJobs = 1
  MaxGenerations = 2
SPECIFICATION Spec
SYMMETRY Symmetry
INVARIANTS TypeOK OneFinalPdf PendingIsStaged
PROPERTIES SucceededIsFinal
\* A case that is completed, closed or beyond staff's reach ends the behavior.
CHECK_DEADLOCK FALSE
