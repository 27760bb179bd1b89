------------------------------- MODULE Daemon -------------------------------
(***************************************************************************)
(* The running daemon: daemon_load_process (src/daemon/daemon.c) after    *)
(* s_daemon_ctx_new succeeded, s_daemon_ctx_run, the callbacks the loop    *)
(* dispatches, and s_daemon_ctx_free.  It composes                         *)
(*   - the avahi client (avahi-client.c) and the daemon's client handlers  *)
(*     (daemon-client.c), which create a publication group on RUNNING;     *)
(*   - the publication groups (module Publication, daemon-group.c);        *)
(*   - the loop and its idle wake (daemon-loop.c, daemon-idle.c): quit     *)
(*     writes 2^64-2 to an eventfd that nobody reads, whose readability   *)
(*     fires a one-shot event calling event_base_loopexit;                 *)
(*   - the signal event of the ctx (daemon-ctx.c), one-shot as well.       *)
(* An eventfd counter holds at most 2^64-2, so the counter is either 0 or  *)
(* full after the first write: efdFull says which.                         *)
(***************************************************************************)
EXTENDS Publication

VARIABLES
  pub,          \* the publication world (module Publication)
  client,       \* the avahi client: "none" before s_client_run, "absent" if
                \* avahi_client_new failed, then its avahi states, "freed"
  ctxGroup,     \* ctx->group
  loop,         \* "init", "running", "exited", "freed", "aborted"
  efdFull,      \* the idle eventfd counter is not zero
  idleArmed,    \* the idle task's EV_READ event is pending
  signalArmed,  \* the ctx's signal event is pending
  sigPending,   \* a signal is waiting on daemon_signal_fd()
  listening,    \* a TLS listener has been opened
  quitReq       \* history: s_daemon_ctx_quit has been called

vars == <<pub, client, ctxGroup, loop, efdFull, idleArmed, signalArmed, sigPending,
          listening, quitReq>>

ClientStates == {"none", "absent", "running", "collision", "registering", "failure", "freed"}

(* ctx->connection: zeroed by daemon_malloc in s_daemon_ctx_new and never *)
(* assigned by any code of the daemon.                                     *)
ctxConnection == NULL

(* The client state changes avahi reports from each state.                 *)
ClientEvents(st) ==
  CASE st = "running"     -> {"collision", "registering", "failure"}
    [] st = "collision"   -> {"registering", "failure"}
    [] st = "registering" -> {"running", "collision", "failure"}
    [] OTHER              -> {}

(* Mutant: the write stores 0, which leaves an eventfd unreadable.         *)
s_task_idle_wakeup_zero == UNCHANGED efdFull

(* s_task_idle_wakeup: write(2^64-2) succeeds only on an empty counter; on *)
(* a full one the non-blocking write fails with EAGAIN, which no caller    *)
(* looks at.                                                               *)
s_task_idle_wakeup == efdFull' = TRUE

(* s_loop_quit: wake the idle task of the loop.                           *)
s_loop_quit == s_task_idle_wakeup

(* s_daemon_ctx_quit: s_loop_quit on ctx->loop.                           *)
s_daemon_ctx_quit == s_loop_quit /\ quitReq' = TRUE

(* s_loop_free: s_loop_quit, then the idle task and the event base are     *)
(* freed; nothing of them is left to model.                                *)
s_loop_free == s_loop_quit

(* s_client_free: avahi_client_free(client->client) asserts its argument, *)
(* which is NULL when avahi_client_new failed in s_client_run.             *)
s_client_free_asserts == client = "absent"

(* _s_daemon_ctx_client_collision only logs.                              *)
s_daemon_ctx_client_collision == UNCHANGED <<pub, ctxGroup, efdFull, quitReq>>

(* _s_daemon_ctx_client_failure: log, then s_daemon_ctx_quit.              *)
s_daemon_ctx_client_failure == s_daemon_ctx_quit /\ UNCHANGED <<pub, ctxGroup>>

(* _s_daemon_ctx_group_collision and _s_daemon_ctx_group_failure only log. *)
s_daemon_ctx_group_failure == UNCHANGED listening

(* A free struct s_group address for daemon_malloc: the bound on how many  *)
(* groups one run may create.                                              *)
HasGroupRoom(p) == Groups \ p.alloc # {}

(* Mutant: commit is called whatever s_group_add_service returned.        *)
s_daemon_ctx_client_running_commitalways(p, entryOk, outcome, commitOk) ==
  LET g == CHOOSE x \in Groups \ p.alloc : TRUE
      n == s_group_new(p, g, entryOk)
  IN IF n.ret = NULL THEN [p |-> n.p, group |-> NULL]
     ELSE LET a == s_group_add_service(s_service_generate(n.p, g), g, g, outcome)
          IN [p |-> s_group_commit(a.p, g, commitOk).p, group |-> g]

(* _s_daemon_ctx_client_running: a new group stored in ctx->group, one    *)
(* generated service record added, then commit; on any failure the record *)
(* is left allocated.                                                      *)
s_daemon_ctx_client_running(p, entryOk, outcome, commitOk) ==
  LET g == CHOOSE x \in Groups \ p.alloc : TRUE
      n == s_group_new(p, g, entryOk)
  IN IF n.ret = NULL THEN [p |-> n.p, group |-> NULL]
     ELSE LET a == s_group_add_service(s_service_generate(n.p, g), g, g, outcome)
          IN IF a.ret # "ok" THEN [p |-> a.p, group |-> g]
             ELSE [p |-> s_group_commit(a.p, g, commitOk).p, group |-> g]

(* The client's RUNNING callback with the group outcomes chosen by avahi.  *)
OnClientRunning ==
  /\ HasGroupRoom(pub)
  /\ \E entryOk, commitOk \in BOOLEAN, outcome \in AddOutcomes :
       LET r == s_daemon_ctx_client_running(pub, entryOk, outcome, commitOk)
       IN pub' = r.p /\ ctxGroup' = r.group

(* s_task_idle_new: eventfd(0) and its EV_READ event added.               *)
s_task_idle_new == efdFull = FALSE /\ idleArmed = TRUE

(* s_loop_new: an event base and its idle task.                           *)
s_loop_new == loop = "init" /\ s_task_idle_new

(* A daemon context s_daemon_ctx_new returned: loop, client object (not   *)
(* yet run), signal event added, no group and no connection.              *)
Init ==
  /\ pub = PubInit
  /\ client = "none"
  /\ ctxGroup = NULL
  /\ s_loop_new
  /\ signalArmed = TRUE
  /\ sigPending = FALSE /\ listening = FALSE /\ quitReq = FALSE

(* s_client_run: avahi_client_new fails (client->client NULL, -EBADE), or *)
(* succeeds after calling back with the first state, registering or       *)
(* running.                                                                *)
s_client_run == {"absent", "registering", "running"}

(* s_daemon_ctx_run: s_client_run, whose avahi_client_new calls back      *)
(* synchronously with the first state (first), then s_loop_run whatever   *)
(* s_client_run returned.                                                  *)
s_daemon_ctx_run ==
  /\ loop = "init"
  /\ loop' = "running"
  /\ \E st \in s_client_run :
       /\ client' = st
       /\ IF st = "running" THEN OnClientRunning ELSE UNCHANGED <<pub, ctxGroup>>
  /\ UNCHANGED <<efdFull, idleArmed, signalArmed, sigPending, listening, quitReq>>

(* _s_client_cbk for a state change avahi reports while the loop runs:    *)
(* RUNNING creates a group again, FAILURE quits, COLLISION is only logged. *)
s_client_cbk(st) ==
  /\ loop = "running"
  /\ st \in ClientEvents(client)
  /\ client' = st
  /\ CASE st = "running" -> OnClientRunning /\ UNCHANGED <<efdFull, quitReq>>
       [] st = "failure" -> s_daemon_ctx_client_failure
       [] OTHER          -> s_daemon_ctx_client_collision
  /\ UNCHANGED <<loop, idleArmed, signalArmed, sigPending, listening>>

(* _s_daemon_ctx_group_running: s_ssl_server_connect(ctx->connection, ...) *)
(* opens a listener only for a server; on NULL it returns at its guard.    *)
s_daemon_ctx_group_running == listening' = (listening \/ ctxConnection # NULL)

(* _s_group_cbk for group g: ESTABLISHED calls the running handler above; *)
(* the collision and failure handlers only log.                            *)
s_group_event(g, st) ==
  /\ loop = "running"
  /\ client \notin {"failure", "absent"}
  /\ st \in GroupEvents(pub, g)
  /\ pub' = s_group_cbk(pub, g, st)
  /\ IF st = "established" THEN s_daemon_ctx_group_running ELSE s_daemon_ctx_group_failure
  /\ UNCHANGED <<client, ctxGroup, loop, efdFull, idleArmed, signalArmed, sigPending, quitReq>>

(* A SIGINT/SIGTERM (daemon_kill_process sends SIGINT) makes the signal fd *)
(* readable; the daemon never reads it back.                               *)
Signal ==
  /\ ~sigPending /\ loop \in {"init", "running"}
  /\ sigPending' = TRUE
  /\ UNCHANGED <<pub, client, ctxGroup, loop, efdFull, idleArmed, signalArmed, listening, quitReq>>

(* _s_daemon_ctx_signal_received: the one-shot event fires once.           *)
s_daemon_ctx_signal_received ==
  /\ loop = "running" /\ signalArmed /\ sigPending
  /\ signalArmed' = FALSE
  /\ s_daemon_ctx_quit
  /\ UNCHANGED <<pub, client, ctxGroup, loop, idleArmed, sigPending, listening>>

(* _s_task_idle_cbk: the one-shot idle event calls event_base_loopexit.    *)
s_task_idle_cbk ==
  /\ loop = "running" /\ idleArmed /\ efdFull
  /\ idleArmed' = FALSE
  /\ loop' = "exited"
  /\ UNCHANGED <<pub, client, ctxGroup, efdFull, signalArmed, sigPending, listening, quitReq>>

(* s_daemon_ctx_free once the loop returned: signal event freed, no       *)
(* server (ctx->connection is NULL), s_client_free, whose                  *)
(* avahi_client_free asserts a non-NULL client, then s_loop_free, whose    *)
(* quit write fails on the full eventfd.  ctx->group is never freed.       *)
s_daemon_ctx_free ==
  /\ loop = "exited"
  /\ IF s_client_free_asserts
     THEN loop' = "aborted" /\ UNCHANGED <<pub, client, efdFull, quitReq>>
     ELSE /\ pub' = EntriesFreed(pub)
          /\ client' = "freed"
          /\ loop' = "freed"
          /\ s_loop_free
          /\ UNCHANGED quitReq
  /\ UNCHANGED <<ctxGroup, idleArmed, signalArmed, sigPending, listening>>

Next ==
  \/ s_daemon_ctx_run
  \/ \E st \in ClientStates : s_client_cbk(st)
  \/ \E g \in Groups, st \in EntryStates : s_group_event(g, st)
  \/ Signal
  \/ s_daemon_ctx_signal_received
  \/ s_task_idle_cbk
  \/ s_daemon_ctx_free

(* main runs on (WF of run and free), libevent dispatches every active    *)
(* event (WF of the signal and idle callbacks), and avahi ends every      *)
(* registration it started, one way or another.                           *)
Fairness ==
  /\ WF_vars(s_daemon_ctx_run) /\ WF_vars(s_daemon_ctx_free)
  /\ WF_vars(s_daemon_ctx_signal_received) /\ WF_vars(s_task_idle_cbk)
  /\ \A g \in Groups : WF_vars(pub.entry[g] = "registering" /\ \E st \in EntryStates : s_group_event(g, st))

Spec == Init /\ [][Next]_vars /\ Fairness

-----------------------------------------------------------------------------
TypeOK ==
  /\ pub.alloc \subseteq Groups /\ pub.records \subseteq Groups
  /\ pub.entry \in [Groups -> EntryStates]
  /\ pub.services \in [Groups -> Seq(Groups)]
  /\ client \in ClientStates
  /\ ctxGroup \in Groups \cup {NULL}
  /\ loop \in {"init", "running", "exited", "freed", "aborted"}
  /\ {efdFull, idleArmed, signalArmed, sigPending, listening, quitReq} \subseteq BOOLEAN

(* Every shutdown request ends the loop: once a signal is waiting or       *)
(* s_daemon_ctx_quit has been called (signal callback, client FAILURE),    *)
(* event_base_loop returns.  It rests on the eventfd write of              *)
(* s_task_idle_wakeup making the one-shot idle event fire, though the      *)
(* counter is never read and a second write fails.                         *)
QuitEnds == (sigPending \/ quitReq) ~> (loop \in {"exited", "freed", "aborted"})

(* Avahi only registers or publishes a group of the daemon that holds its  *)
(* service record: _s_daemon_ctx_client_running commits only after         *)
(* s_group_add_service succeeded, and a collision reset keeps the list.    *)
PublishedGroupsHoldService ==
  \A g \in Groups : pub.entry[g] \in {"registering", "established"} => pub.services[g] # << >>

(* The discovery role as the daemon promises it (module DiscoveryRole):   *)
(* the groups it holds are the struct s_group allocated, and its group's   *)
(* state is avahi's state of ctx->group.                                   *)
Role == INSTANCE DiscoveryRole
          WITH held <- pub.alloc,
               state <- IF ctxGroup = NULL THEN "none" ELSE pub.entry[ctxGroup]

(* The daemon implements its discovery role: one group, owned through      *)
(* ctx->group and replaced rather than leaked when the avahi client runs   *)
(* again (_s_daemon_ctx_client_running), and an Established group opens    *)
(* the listener (_s_daemon_ctx_group_running through ctx->connection).     *)
RoleRefinement == Role!Spec

(* Teardown never aborts: s_daemon_ctx_free releases what s_daemon_ctx_run *)
(* set up, even when avahi-daemon was not reachable (s_client_free calls  *)
(* avahi_client_free on client->client).                                  *)
CleanTeardown == loop # "aborted"

=============================================================================
