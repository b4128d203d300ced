SPECIFICATION Spec
CONSTANTS
  ann = ann
  bob = bob
  cat = cat
  e1 = e1
  e2 = e2
  e3 = e3
  Assistants <- All
  Calls <- ThreeEdits
  MaxInFlight = 2
  MaxMishaps = 1
SYMMETRY Symmetry
CHECK_DEADLOCK FALSE
INVARIANTS MutualUnlessDamaged EditsTakeEffect
