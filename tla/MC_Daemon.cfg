CONSTANTS
  NULL = NULL
  g1 = g1  g2 = g2
  Groups <- MC_Groups

SPECIFICATION Spec

\* The process ends after s_daemon_ctx_free: the final states have no successor.
CHECK_DEADLOCK FALSE

INVARIANT TypeOK
INVARIANT PublishedGroupsHoldService
PROPERTY QuitEnds
