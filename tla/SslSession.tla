----------------------------- MODULE SslSession -----------------------------
(***************************************************************************)
(* The secure-session lifecycle that spec.md section 4.4 promises, for the *)
(* sessions of one server: Handshaking -> Established -> Closed and        *)
(* Handshaking -> Closed, nothing re-entering Handshaking.  live is the    *)
(* server's live-session set: a session is in it exactly while it is       *)
(* Established, it enters on the one "connected" notification and it      *)
(* leaves in the same step that destroys it.                               *)
(***************************************************************************)
CONSTANTS Conn   \* the sessions the server may accept

VARIABLES state, live

States == {"idle", "handshaking", "established", "closed"}

Init == state = [c \in Conn |-> "idle"] /\ live = {}

Accept(c) ==
  /\ state[c] = "idle"
  /\ state' = [state EXCEPT ![c] = "handshaking"]
  /\ UNCHANGED live

Establish(c) ==
  /\ state[c] = "handshaking"
  /\ state' = [state EXCEPT ![c] = "established"]
  /\ live' = live \cup {c}

Close(c) ==
  /\ state[c] \in {"handshaking", "established"}
  /\ state' = [state EXCEPT ![c] = "closed"]
  /\ live' = live \ {c}

Next == \E c \in Conn : Accept(c) \/ Establish(c) \/ Close(c)

Spec == Init /\ [][Next]_<<state, live>>

=============================================================================
