CONSTANTS
  NULL = NULL
  g1 = g1  g2 = g2
  Groups <- MC_Groups

SPECIFICATION Spec

CHECK_DEADLOCK FALSE

INVARIANT CleanTeardown
