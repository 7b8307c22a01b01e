\* Two administrators; any three versions of two requirements and two templates.
CONSTANTS
  letter = letter  brand = brand  t1 = t1  t2 = t2  a1 = a1  a2 = a2
  Requirements <- LetterAndBrand
  Authorization = letter
  Definitions <- LetterOrText
  Templates <- TwoTemplates
  Asts <- SomePages
  Admins <- TwoAdmins
  SeedRequirements <- LetterAndBrand
  SeedTemplate = t1
  MaxVersions = 2
  MaxRows = 3
  MaxCases = 1
SPECIFICATION Spec
SYMMETRY Symmetry
INVARIANTS TypeOK DraftIsNewest PublishedStaysComplete CasesAskForLetter
PROPERTY CasesAreFixed
\* The bounds and the one-way life of versions end the behavior.
CHECK_DEADLOCK FALSE
