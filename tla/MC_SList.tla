------------------------------ MODULE MC_SList ------------------------------
(* Instantiates SListSpec for TLC: three or four node addresses, two       *)
(* payloads and two caller handles.                                        *)
EXTENDS SListSpec, TLC

CONSTANTS a1, a2, a3, a4, d1, d2, h1, h2

MC_Addr3 == {a1, a2, a3}
MC_Addr4 == {a1, a2, a3, a4}
MC_Data == {d1, d2}
MC_Handles == {h1, h2}

(* A copy callback that maps each payload to another one.                  *)
MC_CopyOf == (d1 :> d2) @@ (d2 :> d1)

=============================================================================
