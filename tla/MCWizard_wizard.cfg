\* Two windows of one link that edit, save, preview and submit.
CONSTANTS
  p1 = p1  p2 = p2  none = none
  Pages <- TwoPages
  None = none
  MaxEdits <- OneAndNone
  MaxSaves = 3
  MaxPreviews = 2
  MaxLost = 1
  MaxMoves <- OneAndNone
SPECIFICATION Spec
INVARIANTS TypeOK DraftsMeanwhileAreKept EditsInOrder SavedIsStored UrlsAreShown
\* A submitted case, or one whose bounds are used up, ends the behavior.
CHECK_DEADLOCK FALSE
