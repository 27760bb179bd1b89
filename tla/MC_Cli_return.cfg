CONSTANTS
  i1 = i1  i2 = i2  i3 = i3
  NoArg = NoArg
  NoPid = NoPid
  Inv <- MC_Inv
  Args <- MC_Args

SPECIFICATION FairSpec

PROPERTY InvocationsReturn

CHECK_DEADLOCK FALSE
