\* Two seals, four choices, switches and loads together.
CONSTANTS
  a = a  b = b
  Images <- TwoSeals
  None = None
  Sliders <- FarRight
  Scales <- Sizes
  Template <- ThreePages
  MaxSteps = 4
SPECIFICATION Spec
SYMMETRY Symmetry
INVARIANT ConfirmedSealIsShown
\* The bounds on seals and loads end the behavior.
CHECK_DEADLOCK FALSE
