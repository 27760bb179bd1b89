CONSTANTS
  NULL = NULL
  w1 = w1  w2 = w2  t1 = t1
  Watches <- MC_Watches
  Timers <- MC_Timers

SPECIFICATION Spec_Faults

\* Once avahi has freed every watch and timeout nothing is left to dispatch.
CHECK_DEADLOCK FALSE

PROPERTY Contract
