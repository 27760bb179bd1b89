CONSTANTS
  NULL = NULL
  a1 = a1  a2 = a2  a3 = a3  a4 = a4
  d1 = d1  d2 = d2  h1 = h1  h2 = h2
  Addr <- MC_Addr3
  Data <- MC_Data
  Handles <- MC_Handles
  CopyOf <- MC_CopyOf
  MaxPos = 3

SPECIFICATION Spec_Contract

PROPERTY Refinement
