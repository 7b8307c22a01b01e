\* Two mortal handlers, a consumer that lives, late uploads: fairness.
CONSTANTS
  w1 = w1  w2 = w2  c1 = c1  s1 = s1  s2 = s2  a = a  b = b  none = none
  Workers <- TwoWorkers
  Consumers <- OneConsumer
  Staff <- Nobody
  Mortal <- TwoWorkers
  Shas <- OneDigest
  NoSha = none
  MaxAttempts = 2
  RetryLimit = 1
  LateUploads = TRUE
  MaxJobs = 1
  MaxGenerations = 0
SPECIFICATION FairSpec
INVARIANT DeliveryInFlight
PROPERTIES FinalizingEnds
\* A case that is completed, closed or beyond staff's reach ends the behavior.
CHECK_DEADLOCK FALSE
