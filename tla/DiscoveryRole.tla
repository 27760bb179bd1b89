---------------------------- MODULE DiscoveryRole ----------------------------
(***************************************************************************)
(* What the daemon promises of its discovery role (spec.md 4.3, and the   *)
(* orchestration of daemon-client.c and daemon-group.c): it holds one      *)
(* publication group, ctx->group, whose record it adds and commits when    *)
(* the avahi client runs; the group follows the publication state machine  *)
(* Uncommitted -> Registering -> Established, Collision resets it, Failure *)
(* ends it; Established opens the secure-session listener in the same     *)
(* callback.  A group the daemon replaces is released.                     *)
(***************************************************************************)
CONSTANTS Groups

VARIABLES
  held,       \* the groups the daemon holds
  state,      \* the publication state of its group, "none" without one
  listening   \* the secure-session listener is open

vars == <<held, state, listening>>

Init == held = {} /\ state = "none" /\ listening = FALSE

(* The client runs: a group is created, its record added and committed;   *)
(* a failed add or commit leaves it uncommitted.                           *)
Create ==
  /\ state # "gone"
  /\ \E g \in Groups : held' = {g}
  /\ state' \in {"uncommited", "registering"}
  /\ UNCHANGED listening

(* Established triggers the dependent startup: the listener opens.         *)
Establish ==
  /\ state = "registering"
  /\ state' = "established" /\ listening' = TRUE
  /\ UNCHANGED held

(* A collision resets the registration; the record stays queued.          *)
Collide ==
  /\ state \in {"registering", "established"}
  /\ state' = "uncommited"
  /\ UNCHANGED <<held, listening>>

Fail ==
  /\ state \in {"uncommited", "registering", "established"}
  /\ state' = "failure"
  /\ UNCHANGED <<held, listening>>

(* Teardown: the avahi client and its entry groups go away.               *)
Release ==
  /\ state \notin {"none", "gone"}
  /\ state' = "gone"
  /\ UNCHANGED <<held, listening>>

Next == Create \/ Establish \/ Collide \/ Fail \/ Release

Spec == Init /\ [][Next]_vars

=============================================================================
