-------------------------- MODULE AvahiPollContract --------------------------
(***************************************************************************)
(* What the daemon's AvahiPoll table promises avahi, as spec.md 4.2 states *)
(* it: watches and timeouts avahi creates, re-arms and frees at will, and  *)
(* callbacks that report exactly what avahi asked to be told about.        *)
(*   wState[x], tState[t]: "none", "live" or "freed"                       *)
(*   wMask[x]  : the events avahi watches on x                              *)
(*   pending[x]: the directions x's descriptor is ready for, not yet told  *)
(*   tEnabled[t]: a deadline is set and has not been met                   *)
(*   ev        : what avahi was told in the last step                      *)
(* A watch callback reports exactly the watched directions that are ready, *)
(* get_events returns the current interest mask (spec.md 4.2's query       *)
(* contract; avahi's own watch.h documents it as the events that happened, *)
(* which the bridge does not attempt), a timeout fires only while enabled, *)
(* and neither fires for a freed object.  Readiness that is watched and a  *)
(* deadline that is set are eventually reported (weak fairness: the poll   *)
(* loop keeps dispatching).  Each callback is one step: the bridge's       *)
(* callbacks end with the call into avahi, so what avahi does from inside  *)
(* one is the next step, and libevent's own bookkeeping of the event being *)
(* dispatched is not part of the contract.                                 *)
(***************************************************************************)
CONSTANTS Watches, Timers, NULL

VARIABLES wState, wMask, pending, tState, tEnabled, ev

avars == <<wState, wMask, pending, tState, tEnabled, ev>>

Dir == {"IN", "OUT"}

Told(kind, obj, events) == ev' = [kind |-> kind, obj |-> obj, events |-> events]
Silent == Told("none", NULL, {})

Init ==
  /\ wState = [x \in Watches |-> "none"] /\ wMask = [x \in Watches |-> {}]
  /\ pending = [x \in Watches |-> {}]
  /\ tState = [t \in Timers |-> "none"] /\ tEnabled = [t \in Timers |-> FALSE]
  /\ ev = [kind |-> "none", obj |-> NULL, events |-> {}]

TVars == <<tState, tEnabled>>

(* watch_new returns a watch on the mask, or NULL (the object is spent).   *)
WatchNew(x) ==
  /\ wState[x] = "none"
  /\ \/ \E m \in SUBSET Dir : wState' = [wState EXCEPT ![x] = "live"] /\ wMask' = [wMask EXCEPT ![x] = m]
     \/ wState' = [wState EXCEPT ![x] = "freed"] /\ UNCHANGED wMask
  /\ Silent /\ UNCHANGED <<pending, TVars>>

WatchUpdate(x) ==
  /\ wState[x] = "live"
  /\ \E m \in SUBSET Dir : wMask' = [wMask EXCEPT ![x] = m]
  /\ Silent /\ UNCHANGED <<wState, pending, TVars>>

WatchGetEvents(x) ==
  /\ wState[x] = "live"
  /\ Told("get", x, wMask[x])
  /\ UNCHANGED <<wState, wMask, pending, TVars>>

WatchFree(x) ==
  /\ wState[x] = "live"
  /\ wState' = [wState EXCEPT ![x] = "freed"] /\ wMask' = [wMask EXCEPT ![x] = {}]
  /\ Silent /\ UNCHANGED <<pending, TVars>>

(* The environment: a live watch's descriptor becomes ready.               *)
Ready(x) ==
  /\ wState[x] = "live"
  /\ \E d \in Dir \ pending[x] : pending' = [pending EXCEPT ![x] = @ \cup {d}]
  /\ Silent /\ UNCHANGED <<wState, wMask, TVars>>

WatchCallback(x) ==
  /\ wState[x] = "live"
  /\ wMask[x] \cap pending[x] # {}
  /\ Told("watch", x, wMask[x] \cap pending[x])
  /\ pending' = [pending EXCEPT ![x] = @ \ wMask[x]]
  /\ UNCHANGED <<wState, wMask, TVars>>

TimeoutNew(t) ==
  /\ tState[t] = "none"
  /\ tState' = [tState EXCEPT ![t] = "live"]
  /\ \E on \in BOOLEAN : tEnabled' = [tEnabled EXCEPT ![t] = on]
  /\ Silent /\ UNCHANGED <<wState, wMask, pending>>

TimeoutUpdate(t) ==
  /\ tState[t] = "live"
  /\ \E on \in BOOLEAN : tEnabled' = [tEnabled EXCEPT ![t] = on]
  /\ Silent /\ UNCHANGED <<tState, wState, wMask, pending>>

TimeoutFree(t) ==
  /\ tState[t] = "live"
  /\ tState' = [tState EXCEPT ![t] = "freed"] /\ tEnabled' = [tEnabled EXCEPT ![t] = FALSE]
  /\ Silent /\ UNCHANGED <<wState, wMask, pending>>

TimeoutFire(t) ==
  /\ tState[t] = "live" /\ tEnabled[t]
  /\ tEnabled' = [tEnabled EXCEPT ![t] = FALSE]
  /\ Told("timer", t, {})
  /\ UNCHANGED <<tState, wState, wMask, pending>>

Next ==
  \/ \E x \in Watches :
       WatchNew(x) \/ WatchUpdate(x) \/ WatchGetEvents(x) \/ WatchFree(x)
         \/ Ready(x) \/ WatchCallback(x)
  \/ \E t \in Timers :
       TimeoutNew(t) \/ TimeoutUpdate(t) \/ TimeoutFree(t) \/ TimeoutFire(t)

Spec ==
  /\ Init /\ [][Next]_avars
  /\ \A x \in Watches : WF_avars(WatchCallback(x))
  /\ \A t \in Timers : WF_avars(TimeoutFire(t))

=============================================================================
