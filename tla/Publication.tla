----------------------------- MODULE Publication -----------------------------
(***************************************************************************)
(* The publication groups of src/daemon/avahi/avahi-group.c and the avahi *)
(* entry groups behind them.  A world p is a record                        *)
(*   p.alloc       : the struct s_group allocated by daemon_malloc         *)
(*   p.entry[g]    : the state avahi holds for g's AvahiEntryGroup, "none" *)
(*                   before it exists and "gone" once avahi freed it       *)
(*   p.services[g] : the records in g's services list, in order            *)
(*   p.records     : the struct s_service_data allocated and not freed     *)
(* Each function is an operator returning [p |-> world, ret |-> result];   *)
(* the record a caller generates for group g is named g itself.            *)
(* Outcomes decided inside avahi are parameters chosen by the caller of   *)
(* the operator from the values avahi can return.                          *)
(***************************************************************************)
EXTENDS Naturals, Sequences

CONSTANTS
  Groups,  \* the struct s_group addresses (and their service records)
  NULL

EntryStates == {"none", "uncommited", "registering", "established", "collision", "failure", "gone"}

(* The results of avahi_entry_group_add_service the code tells apart.      *)
AddOutcomes == {"ok", "collision", "error"}

PubInit ==
  [alloc    |-> {},
   entry    |-> [g \in Groups |-> "none"],
   services |-> [g \in Groups |-> << >>],
   records  |-> {}]

(* Mutant: the !group->entry check dropped; the group comes back with a   *)
(* NULL entry.                                                             *)
s_group_new_nocheck(p, g, entryOk) ==
  [p |-> [p EXCEPT !.alloc = @ \cup {g}, !.entry[g] = IF entryOk THEN "uncommited" ELSE NULL],
   ret |-> g]

(* s_group_new: malloc, avahi_entry_group_new (entryOk); on failure the    *)
(* group is freed again through s_group_free and NULL returned.           *)
s_group_new(p, g, entryOk) ==
  IF entryOk
  THEN [p |-> [p EXCEPT !.alloc = @ \cup {g}, !.entry[g] = "uncommited"], ret |-> g]
  ELSE [p |-> p, ret |-> NULL]

s_service_generate(p, r) == [p EXCEPT !.records = @ \cup {r}]

(* s_group_add_service: on "ok" the record is appended and the length      *)
(* check passes; on a collision the entry group is reset (avahi drops its  *)
(* entries and goes back to UNCOMMITED) and funcs.collision(group) called, *)
(* which the daemon only logs; any other error changes nothing.            *)
s_group_add_service(p, g, r, outcome) ==
  CASE outcome = "ok" ->
         [p |-> [p EXCEPT !.services[g] = Append(@, r)], ret |-> "ok"]
    [] outcome = "collision" ->
         [p |-> [p EXCEPT !.entry[g] = "uncommited"], ret |-> "collision"]
    [] OTHER -> [p |-> p, ret |-> "error"]

(* s_group_commit: avahi_entry_group_commit starts registering on success. *)
s_group_commit(p, g, ok) ==
  IF ok THEN [p |-> [p EXCEPT !.entry[g] = "registering"], ret |-> "ok"]
        ELSE [p |-> p, ret |-> "error"]

(* The state changes avahi may report for g's entry group, from each state. *)
GroupEvents(p, g) ==
  CASE p.entry[g] = "registering" -> {"established", "collision", "failure"}
    [] p.entry[g] = "established" -> {"collision", "failure"}
    [] p.entry[g] = "uncommited"  -> {"failure"}
    [] OTHER                      -> {}

(* _s_group_cbk for the state st: ESTABLISHED and FAILURE are recorded and *)
(* handed to funcs.running / funcs.failure; COLLISION is answered with    *)
(* avahi_entry_group_reset, which leaves the group UNCOMMITED.            *)
s_group_cbk(p, g, st) ==
  [p EXCEPT !.entry[g] = IF st = "collision" THEN "uncommited" ELSE st]

(* avahi_client_free frees every entry group of the client: avahi forgets *)
(* them, the struct s_group and its records stay allocated.               *)
EntriesFreed(p) == [p EXCEPT !.entry = [g \in Groups |-> IF @[g] = "none" THEN "none" ELSE "gone"]]

=============================================================================
