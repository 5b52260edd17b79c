SPECIFICATION Spec
CONSTANTS
  Keys = {k1, k2, k3}
  Names = {n1, n2}
  Head <- SameDigits
  Tail <- SameDigits
SYMMETRY Symmetry
CHECK_DEADLOCK FALSE
INVARIANTS OneOwner RevocationSticks ClaimsSurvive
