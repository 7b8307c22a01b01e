\* Two materials and a preview, two contents, crashes and lost answers.
CONSTANTS
  u1 = u1  u2 = u2  u3 = u3  a = a  b = b  none = none
  Uploads <- ThreeUploads
  KindOf <- AndAPreview
  Contents <- TwoContents
  Size <- Sizes
  FinalSize = 1
  Capacity = 2
  MaxFiles = 1
  PageFiles = 2
  MaxActive <- OneAtOnce
  MaxAttempts <- TwoAttempts
  MaxWindows = 2
  None = none
SPECIFICATION Spec
SYMMETRY Symmetry
INVARIANTS
  TypeOK RowsHaveObjects AcceptedIsKept FilesAreFew CapacityKept GatesCount
  ShownIsKept
PROPERTY ServedInTurn
\* Every request is made once: the behavior ends when all have ended.
CHECK_DEADLOCK FALSE
