CONSTANTS
  NULL = NULL  Server = Server
  a1 = a1  a2 = a2  a3 = a3  c1 = c1  c2 = c2
  Addr <- MC_Addr
  Conn <- MC_Conn

SPECIFICATION Spec




INVARIANT TransportErrorReleases
