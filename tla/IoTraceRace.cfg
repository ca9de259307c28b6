CONSTANTS
  Callers = {c1, c2}
  Targets = {t1, t2}
SYMMETRY IoTraceSymmetry
SPECIFICATION Spec
INVARIANT CallTargetStaysValid
CHECK_DEADLOCK FALSE
