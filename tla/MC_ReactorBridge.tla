--------------------------- MODULE MC_ReactorBridge ---------------------------
(* Two watches, so that the callbacks and updates of two descriptors      *)
(* interleave, and one timeout.                                            *)
EXTENDS ReactorBridge

CONSTANTS w1, w2, t1

MC_Watches == {w1, w2}
MC_Timers == {t1}

=============================================================================
