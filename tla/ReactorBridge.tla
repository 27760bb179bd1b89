---------------------------- MODULE ReactorBridge ----------------------------
(***************************************************************************)
(* The AvahiPoll table the daemon hands avahi (src/daemon/avahi/          *)
(* avahi-loop.c): watches (avahi-watch.c) and timeouts (avahi-timer.c)     *)
(* built on libevent events.  Avahi calls new, update, get_events and free *)
(* in any order, also from inside a callback; libevent dispatches a        *)
(* registered event whose condition holds.  The loop is single-threaded   *)
(* and neither bridge callback reads bridge state after calling avahi, so *)
(* a call avahi makes from inside a callback is the step right after it.  *)
(*   watch[x], timer[t] : the bridge struct, "none", "live" or "freed"     *)
(*   wEv[x]  : the libevent event in watch->event, NULL or its flags and   *)
(*             whether event_add succeeded                                 *)
(*   want[x] : the AvahiWatchEvent mask avahi last asked for               *)
(*   ready[x]: the directions watch x's descriptor is ready for            *)
(*   tArmed[t]: timer->event is pending                                    *)
(*   tWant[t] : avahi's view: "enabled" (a deadline set) or "disabled"     *)
(*   cb      : what the bridge told avahi in the last step                 *)
(***************************************************************************)
CONSTANTS
  Watches,  \* the struct s_avahi_watch avahi may create
  Timers,   \* the struct s_avahi_timer avahi may create
  NULL

VARIABLES watch, wEv, want, ready, timer, tArmed, tWant, cb

vars == <<watch, wEv, want, ready, timer, tArmed, tWant, cb>>

Dir == {"IN", "OUT"}                      \* AVAHI_WATCH_IN, AVAHI_WATCH_OUT
Flags == {"PERSIST", "READ", "WRITE"}     \* EV_PERSIST, EV_READ, EV_WRITE

(* A deadline avahi passes to timeout_new / timeout_update: none, or an   *)
(* absolute time, past or future alike for the bridge.                   *)
TimeVals == {NULL, "time"}

NoCb == [kind |-> "none", obj |-> NULL, events |-> {}]

(* Mutant: AVAHI_WATCH_IN translated to EV_WRITE and OUT to EV_READ.      *)
EvFlags_swapped(events) ==
  {"PERSIST"} \cup {IF e = "IN" THEN "WRITE" ELSE "READ" : e \in events}

(* The translation in s_avahi_watch_new and s_avahi_watch_update.         *)
EvFlags(events) ==
  {"PERSIST"} \cup {IF e = "IN" THEN "READ" ELSE "WRITE" : e \in events}

(* The translation back in _s_avahi_watch_cbk and s_avahi_watch_get_events. *)
AvahiEvents(what) ==
  {IF f = "READ" THEN "IN" ELSE "OUT" : f \in what \cap {"READ", "WRITE"}}

ReadyFlags(dirs) == {IF d = "IN" THEN "READ" ELSE "WRITE" : d \in dirs}

Init ==
  /\ watch = [x \in Watches |-> "none"]
  /\ wEv = [x \in Watches |-> NULL]
  /\ want = [x \in Watches |-> {}]
  /\ ready = [x \in Watches |-> {}]
  /\ timer = [t \in Timers |-> "none"]
  /\ tArmed = [t \in Timers |-> FALSE]
  /\ tWant = [t \in Timers |-> "disabled"]
  /\ cb = NoCb

TimerVars == <<timer, tArmed, tWant>>
WatchVars == <<watch, wEv, want, ready>>

(* s_avahi_watch_new: a persistent event for the translated mask; when    *)
(* event_add fails (ok = FALSE) s_avahi_watch_free releases it and NULL   *)
(* is returned, so avahi never holds the watch.                            *)
s_avahi_watch_new(x, events, ok) ==
  /\ watch[x] = "none"
  /\ IF ok
     THEN /\ watch' = [watch EXCEPT ![x] = "live"]
          /\ wEv' = [wEv EXCEPT ![x] = [flags |-> EvFlags(events), added |-> TRUE]]
          /\ want' = [want EXCEPT ![x] = events]
     ELSE /\ watch' = [watch EXCEPT ![x] = "freed"]
          /\ UNCHANGED <<wEv, want>>
  /\ cb' = NoCb
  /\ UNCHANGED <<ready, TimerVars>>

(* Mutant: the new event is created but never added.                      *)
s_avahi_watch_update_noadd(x, events, ok) ==
  /\ watch[x] = "live"
  /\ wEv' = [wEv EXCEPT ![x] = [flags |-> EvFlags(events), added |-> FALSE]]
  /\ want' = [want EXCEPT ![x] = events]
  /\ cb' = NoCb
  /\ UNCHANGED <<watch, ready, TimerVars>>

(* s_avahi_watch_update: event_del and event_free the old event, then a   *)
(* new one for the new mask; a failed event_add (ok = FALSE) is only      *)
(* logged and leaves the watch without a registration.                    *)
s_avahi_watch_update(x, events, ok) ==
  /\ watch[x] = "live"
  /\ wEv' = [wEv EXCEPT ![x] = [flags |-> EvFlags(events), added |-> ok]]
  /\ want' = [want EXCEPT ![x] = events]
  /\ cb' = NoCb
  /\ UNCHANGED <<watch, ready, TimerVars>>

(* Mutant: the libevent flags returned untranslated.                      *)
s_avahi_watch_get_events_raw(x) ==
  /\ watch[x] = "live"
  /\ cb' = [kind |-> "get", obj |-> x, events |-> IF wEv[x].added THEN wEv[x].flags ELSE {}]
  /\ UNCHANGED <<WatchVars, TimerVars>>

(* s_avahi_watch_get_events: event_pending for EV_READ and for EV_WRITE.   *)
s_avahi_watch_get_events(x) ==
  /\ watch[x] = "live"
  /\ cb' = [kind |-> "get", obj |-> x,
            events |-> IF wEv[x].added THEN AvahiEvents(wEv[x].flags) ELSE {}]
  /\ UNCHANGED <<WatchVars, TimerVars>>

(* Mutant: the struct is freed without event_del / event_free.           *)
s_avahi_watch_free_nodel(x) ==
  /\ watch[x] = "live"
  /\ watch' = [watch EXCEPT ![x] = "freed"]
  /\ want' = [want EXCEPT ![x] = {}]
  /\ cb' = NoCb
  /\ UNCHANGED <<wEv, ready, TimerVars>>

(* s_avahi_watch_free: event_del, event_free, daemon_free.                 *)
s_avahi_watch_free(x) ==
  /\ watch[x] = "live"
  /\ watch' = [watch EXCEPT ![x] = "freed"]
  /\ wEv' = [wEv EXCEPT ![x] = NULL]
  /\ want' = [want EXCEPT ![x] = {}]
  /\ cb' = NoCb
  /\ UNCHANGED <<ready, TimerVars>>

(* The descriptor of a live watch becomes readable or writable.           *)
FdReady(x, d) ==
  /\ watch[x] = "live" /\ d \notin ready[x]
  /\ ready' = [ready EXCEPT ![x] = @ \cup {d}]
  /\ cb' = NoCb
  /\ UNCHANGED <<watch, wEv, want, TimerVars>>

(* libevent runs a registered event whose condition holds: _s_avahi_watch_cbk *)
(* translates the triggered flags and calls watch->callback, which handles *)
(* (and so clears) the readiness it was told about.                        *)
s_avahi_watch_cbk(x) ==
  /\ wEv[x] # NULL /\ wEv[x].added
  /\ LET events == AvahiEvents(wEv[x].flags \cap ReadyFlags(ready[x]))
     IN /\ events # {}
        /\ cb' = [kind |-> "watch", obj |-> x, events |-> events]
        /\ ready' = [ready EXCEPT ![x] = @ \ events]
  /\ UNCHANGED <<watch, wEv, want, TimerVars>>

(* s_avahi_timer_new: the event is always added; no deadline (tv NULL)    *)
(* and a zero deadline both clear e_tv, so they fire at the next loop     *)
(* iteration, as a past deadline does.                                     *)
s_avahi_timer_new(t, tv) ==
  /\ timer[t] = "none"
  /\ timer' = [timer EXCEPT ![t] = "live"]
  /\ tArmed' = [tArmed EXCEPT ![t] = TRUE]
  /\ tWant' = [tWant EXCEPT ![t] = IF tv = NULL THEN "disabled" ELSE "enabled"]
  /\ cb' = NoCb
  /\ UNCHANGED WatchVars

(* Mutant: the NULL test before event_del, so disabling keeps the firing. *)
s_avahi_timer_update_late_del(t, tv) ==
  /\ timer[t] = "live"
  /\ tArmed' = [tArmed EXCEPT ![t] = tv # NULL \/ @]
  /\ tWant' = [tWant EXCEPT ![t] = IF tv = NULL THEN "disabled" ELSE "enabled"]
  /\ cb' = NoCb
  /\ UNCHANGED <<timer, WatchVars>>

(* Mutant: the event is deleted, and never added again.                   *)
s_avahi_timer_update_noadd(t, tv) ==
  /\ timer[t] = "live"
  /\ tArmed' = [tArmed EXCEPT ![t] = FALSE]
  /\ tWant' = [tWant EXCEPT ![t] = IF tv = NULL THEN "disabled" ELSE "enabled"]
  /\ cb' = NoCb
  /\ UNCHANGED <<timer, WatchVars>>

(* s_avahi_timer_update: event_del, then event_add for a deadline only.   *)
s_avahi_timer_update(t, tv) ==
  /\ timer[t] = "live"
  /\ tArmed' = [tArmed EXCEPT ![t] = tv # NULL]
  /\ tWant' = [tWant EXCEPT ![t] = IF tv = NULL THEN "disabled" ELSE "enabled"]
  /\ cb' = NoCb
  /\ UNCHANGED <<timer, WatchVars>>

(* s_avahi_timer_free: event_del, event_free, daemon_free.                 *)
s_avahi_timer_free(t) ==
  /\ timer[t] = "live"
  /\ timer' = [timer EXCEPT ![t] = "freed"]
  /\ tArmed' = [tArmed EXCEPT ![t] = FALSE]
  /\ cb' = NoCb
  /\ UNCHANGED <<tWant, WatchVars>>

(* The one-shot EV_TIMEOUT event fires: _s_avahi_timeout_cbk calls         *)
(* timer->callback; for avahi the timeout has elapsed and is disabled.    *)
s_avahi_timeout_cbk(t) ==
  /\ tArmed[t]
  /\ tArmed' = [tArmed EXCEPT ![t] = FALSE]
  /\ cb' = [kind |-> "timer", obj |-> t, events |-> {}]
  /\ tWant' = [tWant EXCEPT ![t] = "disabled"]
  /\ UNCHANGED <<timer, WatchVars>>

(* Avahi's calls through the table of s_loop_toavahi, the descriptors and *)
(* libevent's dispatch.  Next holds what the bridge gets right: a watch   *)
(* update whose event_add succeeds and timeouts created with a deadline.  *)
Next ==
  \/ \E x \in Watches :
       \/ \E ev \in SUBSET Dir, ok \in BOOLEAN : s_avahi_watch_new(x, ev, ok)
       \/ \E ev \in SUBSET Dir : s_avahi_watch_update(x, ev, TRUE)
       \/ s_avahi_watch_get_events(x) \/ s_avahi_watch_free(x)
       \/ \E d \in Dir : FdReady(x, d)
       \/ s_avahi_watch_cbk(x)
  \/ \E t \in Timers :
       \/ s_avahi_timer_new(t, "time")
       \/ \E tv \in TimeVals : s_avahi_timer_update(t, tv)
       \/ s_avahi_timer_free(t) \/ s_avahi_timeout_cbk(t)

(* event_base_loop runs every active event in each iteration.              *)
Fairness ==
  /\ \A x \in Watches : WF_vars(s_avahi_watch_cbk(x))
  /\ \A t \in Timers : WF_vars(s_avahi_timeout_cbk(t))

Spec == Init /\ [][Next]_vars /\ Fairness

(* Avahi also creates timeouts with no deadline, and libevent's event_add *)
(* can fail when a watch is re-armed.                                      *)
NextNullTimer == \E t \in Timers : s_avahi_timer_new(t, NULL)
NextUpdateFails == \E x \in Watches, ev \in SUBSET Dir : s_avahi_watch_update(x, ev, FALSE)

Spec_Faults == Init /\ [][Next \/ NextNullTimer \/ NextUpdateFails]_vars /\ Fairness

-----------------------------------------------------------------------------
TypeOK ==
  /\ watch \in [Watches -> {"none", "live", "freed"}]
  /\ wEv \in [Watches -> {NULL} \cup [flags : SUBSET Flags, added : BOOLEAN]]
  /\ want \in [Watches -> SUBSET Dir] /\ ready \in [Watches -> SUBSET Dir]
  /\ timer \in [Timers -> {"none", "live", "freed"}]
  /\ tArmed \in [Timers -> BOOLEAN] /\ tWant \in [Timers -> {"enabled", "disabled"}]
  /\ cb.kind \in {"none", "get", "watch", "timer"} /\ cb.events \subseteq Dir

(* The bridge implements the AvahiPoll contract: no callback reaches a    *)
(* watch or timeout avahi has freed (the free functions unregister before *)
(* daemon_free); a watch callback reports exactly the watched directions  *)
(* that are ready and get_events the mask avahi last set, through any     *)
(* updates, also those made from inside a callback; a timeout fires only  *)
(* while avahi has a deadline set (spec.md 4.2); and a watched readiness   *)
(* or a set deadline is eventually reported, since libevent keeps         *)
(* dispatching the events the bridge registered.                          *)
PC == INSTANCE AvahiPollContract WITH
        wState <- watch, wMask <- want, pending <- ready, tState <- timer,
        tEnabled <- [t \in Timers |-> timer[t] = "live" /\ tWant[t] = "enabled"],
        ev <- cb

Contract == PC!Spec

=============================================================================
