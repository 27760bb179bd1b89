---------------------------- MODULE MC_SslServer ----------------------------
(* Instantiates SslServer for TLC: two peers and three list-node addresses. *)
EXTENDS SslServer, TLC

CONSTANTS a1, a2, a3, c1, c2

MC_Addr == {a1, a2, a3}
MC_Conn == {c1, c2}
MC_Conn1 == {c1}

=============================================================================
