SPECIFICATION MCSpec
CONSTANTS
  w1 = w1
  w2 = w2
  Workers = {w1, w2}
  Targets = {clash, surge4}
  Paths = {my, clash}
  Common = common
  Torn = Torn
  None = None
  Crashes = TRUE
  MaxUploads = 3
SYMMETRY Symmetry
CHECK_DEADLOCK FALSE
INVARIANTS
  ConfIsSound
  LinksStayCurrent
