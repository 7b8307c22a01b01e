\* From the handler to the consumer: crashes, late uploads, retry and close.
CONSTANTS
  w1 = w1  w2 = w2  c1 = c1  s1 = s1  s2 = s2  a = a  b = b  none = none
  Workers <- OneWorker
  Consumers <- OneConsumer
  Staff <- OneClerk
  Mortal <- OneConsumer
  Shas <- OneDigest
  NoSha = none
  MaxAttempts = 1
  RetryLimit = 0
  LateUploads = TRUE
  MaxJobs = 1
  MaxGenerations = 1
SPECIFICATION Spec
SYMMETRY Symmetry
INVARIANTS EventsAreDurable CompletedIsDelivered FailureIsVisible
PROPERTIES KeepsLifecycle
\* A case that is completed, closed or beyond staff's reach ends the behavior.
CHECK_DEADLOCK FALSE
