# Model checking cerebrum's daemon

TLA+ models of the cerebrum daemon (`src/src/daemon`), checked with TLC. Each
module translates the C source: functions become operators or actions, and
their guards, early returns and error paths are kept. Data is abstracted to
small sets of model values. `PROJECT.json` maps every modelling definition to
the source lines it translates, and lists the runs, the mutants, the findings
and the hazards.

## 1. The system

The daemon is a single-threaded libevent reactor with three subsystems:

| Part | Source | State it keeps | Operations |
|---|---|---|---|
| Linked list | `daemon-list.c/.h` | nodes `{data, previous, next}` on the heap | append, prepend, insert, insert_before, remove, remove_link, delete_link, remove_all, copy, deep_copy, concat, free, free_full; length, find, nth, first, last, foreach (read only) |
| Secure-session server | `ssl/ssl-server.c`, `ssl/ssl-connection.c` | server `{context, listener, connections}`; connection `{buffer, callbacks, server}` | new, connect, free, accept callback, connection event callback, read callback, add/remove connection |
| Publication group | `avahi/avahi-group.c`, `daemon-group.c` | group `{entry, funcs, services list}` | new, free, add_service, remove_service, commit; avahi entry-group callback (ESTABLISHED, COLLISION, FAILURE) |
| Discovery client | `avahi/avahi-client.c`, `daemon-client.c` | client `{AvahiClient, funcs}` | new, run, free; avahi client callback (RUNNING, COLLISION, FAILURE) |
| Orchestration context | `daemon-ctx.c`, `daemon.c` | ctx `{loop, client, group, connection, signal event}` | new, run, quit, free; the signal callback |
| Loop and idle wake | `daemon-loop.c`, `daemon-idle.c` | event base; eventfd and its one-shot event | new, run, quit (eventfd write), free |
| Reactor bridge | `avahi/avahi-watch.c`, `avahi/avahi-timer.c`, `avahi/avahi-loop.c` | watch `{event, fd}`; timer `{event}` | the AvahiPoll table: watch new/update/get_events/free, timeout new/update/free |
| Service record | `avahi/avahi-service.c` | none | generate, free, check (key comparison) |
| Command line | `daemon-main.c`, `daemon-options.c` | options `{process, verbosity}` | parse, dispatch check/kill/start/reload |

How the parts interact:

- The avahi client runs on the libevent loop through the reactor bridge.
- When the client reaches RUNNING, `_s_daemon_ctx_client_running` creates a group, adds the service record and commits.
- When the group reaches ESTABLISHED, its running handler is meant to open the TLS listener (`s_ssl_server_connect`).
- The server then accepts sessions and keeps the established ones in a daemon-list.
- A signal, or a client failure, calls `s_daemon_ctx_quit`, which writes the idle eventfd. Its event exits the loop, and main frees the context.

What makes the system hard:

- Callbacks that free what the dispatcher or a caller still holds:
  - a session freed inside its own event;
  - a server freed under live sessions;
  - a watch updated inside its own callback.
- List calls whose returned head the caller must store.
- State machines driven by external libraries: avahi's group and client states, and libevent's bufferevent events.
- One-shot events and a saturated eventfd that must still end the loop.

## 2. Modules

### SList: the list at pointer level

The heap is a record `m` with three fields:

- `m.node[a]` holds the `data`, `previous` and `next` of address `a`;
- `m.live` is the set of allocated addresses;
- `m.ub` records undefined behaviour: any read, write or free of an address that is not allocated (NULL, or freed).

Each `s_list_*` function is an operator `(m, args) -> [m |-> heap, ret |-> result]`. Its loops are RECURSIVE operators that follow the code node by node, and it reads exactly the nodes the code reads (`Deref`). `HasRoom` stands for `daemon_malloc`, which aborts rather than fail. Callers only make a call when the heap has room.

**SListSpec** is a caller holding one list pointer per handle. Each action is one call, and it stores the returned head as the header asks. `Next` holds the calls the code gets right. `Spec_Contract` adds the calls that disagree with their documentation, for a violation run.

**AbstractList** states the header's documented semantics on sequences. A history variable `call` records each call and its arguments, so every concrete call must match the abstract call of the same name. `Refinement` checks `SListSpec` against it through `seqs <- [h |-> Contents(mem, head[h])]`. A call with undefined behaviour (`mem.ub`) is mapped to the call `undefined`, which AbstractList does not have: the contract includes that every documented call is defined on the lists the header describes.

### SslServer: server and sessions, driven by libevent

SslServer extends SList: `connections` is a list head in the same heap. Each connection `c` goes through `conn[c]`:

- `idle`, then `refused` or `handshake`;
- `handshake`, then `open`, or `freed` when it terminates;
- `open`, then `dead` on an error, or `freed`.

`bound` records that some listener for the server is bound; it can outlive `server->ssl.listener`.

The actions are the code's handlers:

- `s_ssl_server_new`;
- `s_ssl_server_connect(ctxOk, bindOk)`, where the arguments are the outcomes of building the SSL_CTX and binding the port;
- `_s_ssl_server_accept`, through `s_ssl_server_accept`;
- `_s_ssl_connection_event` (`s_ssl_connection_event`) for every flag set libevent's openssl bufferevent can report in that state;
- `s_ssl_server_free`.

A call through a pointer to the freed server sets `mem.ub`.

**SslSession** is spec.md §4.4's lifecycle: `idle → handshaking → established → closed`, with the live set equal to the established sessions. SslServer refines it through the mapping `AbstractState`, with `live <- Listed`.

### Publication: the avahi entry groups

A world `p` records which `struct s_group` are allocated, the state avahi holds for each entry group (`none`, `uncommited`, `registering`, `established`, `failure`, or `gone` once avahi freed it), each group's services list, and the allocated service records.

- `s_group_new(p, g, entryOk)`: `entryOk` is whether `avahi_entry_group_new` succeeds.
- `s_group_add_service(p, g, r, outcome)`: `outcome` is `ok` (appended), `collision` (the entry group is reset) or `error`.
- `s_group_commit(p, g, ok)`: a successful commit starts registering.
- `GroupEvents` lists the states avahi may report from each state; `s_group_cbk` is `_s_group_cbk`, which resets on a collision.

`s_group_remove_service` and `s_group_free` are left out: no code of the daemon calls them.

### Daemon: client, group, loop and shutdown

Daemon extends Publication and models `daemon_load_process` from `s_daemon_ctx_run` to `s_daemon_ctx_free`.

- `Init` is the context `s_daemon_ctx_new` returns: `s_loop_new` with its `s_task_idle_new` (empty eventfd, event added), and the signal event added.
- `s_daemon_ctx_run`: `s_client_run`, whose `avahi_client_new` fails (`absent`), or calls back synchronously with REGISTERING or RUNNING; the loop runs either way.
- `s_client_cbk(st)`: avahi's later client states. RUNNING runs `_s_daemon_ctx_client_running` again, FAILURE runs `_s_daemon_ctx_client_failure` (quit), COLLISION only logs.
- `s_group_event(g, st)`: the entry-group callback. ESTABLISHED runs `_s_daemon_ctx_group_running`, which connects `ctx->connection`. That pointer is never assigned (`ctxConnection == NULL`). The group collision and failure handlers only log.
- `Signal`, `s_daemon_ctx_signal_received`: a signal makes the signal fd readable; the one-shot event quits.
- `s_task_idle_wakeup`: the eventfd write. The counter is 0 or full (`efdFull`): the first write of 2^64-2 fills it, later writes fail with EAGAIN, and nobody reads it.
- `s_task_idle_cbk`: the one-shot idle event exits the loop.
- `s_daemon_ctx_free`: asserts in `avahi_client_free(NULL)` when the client is absent (`aborted`); otherwise avahi frees the entry groups and `s_loop_free` quits once more (`s_loop_quit`).

**DiscoveryRole** is spec.md §4.3's promise for the group the daemon holds: one group at a time (`held`), whose state goes `uncommited`/`registering` → `established` (and only then the listener is open) → `uncommited` on a collision, `failure`, or gone when released. Daemon refines it through `held <- pub.alloc` and the state of `ctx->group` (`RoleRefinement`).

### Cli: concurrent invocations and the PID file

Each invocation `i` of `Inv` runs `main` with one `argv[1]`: `GetOpt` is getopt_long on that word, `s_options_new` the resulting process option, and `main` dispatches.

- `daemon_check_process`: `daemon_pid_file_is_running`.
- `daemon_kill_process` and `daemon_pid_file_kill`/`daemon_pid_file_kill_wait`: two reads of the PID file, SIGINT to the process the second read names, then the wait.
- `daemon_fork_process`: the is_running check, the fork, then `daemon_retval_wait`, which may time out.
- `daemon_load_process` in the child: close the descriptors, create the PID file, install the signal handlers, then `s_daemon_ctx_new` (a context, NULL, or the abort in `s_client_free`). A failure of the first three goes to `finish`, which removes the PID file by name.
- `daemon_signal_exit`, `daemon_failure_exit`: the running daemon ends.

The PID file follows libdaemon 0.14: create is `O_CREAT|O_EXCL`, is_running probes the PID with `kill(pid, 0)` and unlinks a stale file, remove unlinks whatever file is at the path. `child[i]` abstracts the whole Daemon module to `loading`, `running` and `exited`. `reused` holds the exited children whose PID the kernel has given to an unrelated process (`PidReuse`), which `kill(pid, 0)` then finds alive: `daemon_load_process` returns without `daemon_pid_file_remove` (daemon.c:88-91), so an exited daemon's file may still name that PID.

### ReactorBridge: the AvahiPoll table on libevent

Each watch `x` has its bridge struct (`watch[x]`), the libevent event in `watch->event` (`wEv[x]`: flags and whether `event_add` succeeded), the mask avahi last asked for (`want[x]`) and the readiness of its descriptor (`ready[x]`). Each timeout `t` has its struct, whether its event is pending (`tArmed[t]`), and avahi's view (`tWant[t]`: a deadline is set or not). `cb` records what the bridge told avahi in the step.

- Avahi's calls: `s_avahi_watch_new/update/get_events/free` and `s_avahi_timer_new/update/free`, in any order, on live objects.
- libevent's dispatch: `s_avahi_watch_cbk(x)` runs when a registered event's flags meet the readiness; `s_avahi_timeout_cbk(t)` runs when the event is pending, and is one-shot.
- Both callbacks end with the call into avahi, so a call avahi makes from inside a callback is the next step of the model.

`Next` holds the calls the bridge gets right: updates whose `event_add` succeeds, and timeouts created with a deadline. `Spec_Faults` adds `timeout_new(NULL)` (`NextNullTimer`) and updates whose `event_add` fails (`NextUpdateFails`).

`AvahiPollContract` is what avahi relies on, in avahi's terms only: per watch its state, mask and the undelivered readiness; per timeout its state and whether a deadline is set; and `ev`, what avahi was told. A watch callback reports exactly the watched directions that are ready, get_events returns the mask, a timeout fires only while set, nothing fires for a freed object, and (weak fairness) watched readiness and set deadlines are eventually reported. The `get_events` clause is spec.md 4.2's query contract (the current interest mask, read from the registration); avahi's own `watch.h` documents `watch_get_events` as the events that happened, which the bridge does not attempt. Each callback is one step, since the bridge's callbacks end with the call into avahi: the contract sees whether a watch updated or freed from inside its own callback reports again, not how libevent handles an event freed while it is being dispatched. `ReactorBridge` instantiates it with `tEnabled` mapped to "live and a deadline set", and `Contract` is that specification, checked as a property.

### SslServer's read path

Each session also has `rx` (the peer has sent data the bufferevent holds) and the server a set `packets` of sessions with an allocated `struct s_ssl_packet`. `PeerData` is the peer's write; `s_ssl_connection_read` is the read callback, which generates a packet (`s_ssl_packet_generate`) and frees it. The error branch of the event callback also generates a packet from buffered data, and never frees it.

## 3. Runs

| Run | Expect | Shows |
|---|---|---|
| `slist` | pass | Append, prepend, remove, delete_link, copy, deep_copy and free keep every list well formed (`WellFormed`: acyclic, back pointers consistent, lists disjoint, no leaked node) and memory safe (`MemorySafe`), and each refines its documented effect (`Refinement`). |
| `slist_contract` | violation | Six calls break the header's contract (`Refinement`). TLC reports the shortest trace: `insert_before(NULL, NULL, d)` drops `d`, because `_s_list_check` rejects a NULL sibling before the append branch. The others: insert places the element one position late; insert_before at the head leaves the old head's `previous` NULL, so a later delete_link of it drops the new node; `concat(NULL, l2)` returns NULL; remove_all of a matching head and free_full of two elements read freed nodes; find on an empty list dereferences NULL, where spec.md 4.1 says operations on an empty list never fail. Each, added alone to `Next`, breaks the property. The passing `slist` run leaves these calls out, so its `WellFormed` and `MemorySafe` say nothing about them. |
| `sslserver` | pass | Under every interleaving of accept, connect and the events of two sessions, the live list is exactly the established sessions, each listed once, removed and freed in one step (`Refinement` to SslSession), with no access to freed memory. |
| `sslserver_error` | violation | A transport error leaves the dead session listed forever, and its buffered data in a packet nothing frees (`TransportErrorReleases`). |
| `sslserver_free` | violation | After server free, a listener or session callback reaches the freed server. |
| `daemon` | pass | A group avahi registers always holds its service record (`PublishedGroupsHoldService`), and every signal or client failure ends the loop (`QuitEnds`), although the eventfd saturates and both events are one-shot. |
| `daemon_role` | violation | Daemon does not refine DiscoveryRole (`RoleRefinement`): the group reaches ESTABLISHED with no TLS listener (the reported trace), and a second client RUNNING allocates a second group and overwrites `ctx->group`. With both fixed in a copy of the model, the refinement holds. |
| `daemon_teardown` | violation | With avahi-daemon unreachable, a signal ends the loop and teardown aborts in `avahi_client_free(NULL)` (`CleanTeardown`). |
| `bridge` | pass | The bridge implements the AvahiPoll contract (`Contract`): no callback reaches a freed watch or timeout; callbacks and `get_events` report exactly avahi's current mask through any updates; a timeout fires only while set; no readiness and no deadline is lost. |
| `bridge_faults` | violation | With `Spec_Faults` the bridge no longer implements the contract (`Contract`): a timeout created with no deadline fires at the next loop iteration (the reported trace), and a watch whose `event_add` failed in update stays live for avahi but never reports again and `get_events` returns nothing. Each fault alone breaks the property. |
| `cli_return` | pass | Every invocation returns from main (`InvocationsReturn`), under any interleaving of three invocations and their children. A child may abort in `s_daemon_ctx_new` before it answers, and a daemon may never act on SIGINT: the 20 s retval wait and the 5 s kill wait are what end main then. Without the retval timeout (the mutant), a parent waits forever on an aborted child. |
| `cli_pidfile` | violation | `daemon_pid_file_is_running`, which every command asks first, does not answer whether a daemon runs (`PidFileTracksDaemon`). The reported trace: a daemon exits normally, leaves its PID file, the kernel reuses the PID, and is_running reports a daemon (start refuses, `--kill` signals the other process). The other cause, checked alone by disabling `PidReuse`: two starts both pass the check; the second child fails to create the PID file and its `finish` path removes the first daemon's file, so the running daemon is no longer seen and a third start runs a second daemon. |

Every property of a passing run has a mutant in PROJECT.json: a plausible bug in a mapped definition that TLC finds breaks it. Examples: the eventfd write storing 0, a watch freed without `event_del`, a timeout update testing NULL before `event_del`.

A collision leaves the daemon's group UNCOMMITED for good. The model shows it, but no run checks it: spec.md 4.3 leaves re-committing to the caller.

## 4. Bounds and why they suffice

- **List runs:** 4 node addresses, 2 payloads, 2 handles (`MC_SList.cfg`).
  - Every call reaches lists of length 0 to 4. The cases it distinguishes all occur: head, middle and tail nodes; equal payloads; both lists sharing the heap; a full heap.
  - The violation runs use 3 addresses. Each bug needs at most 3 nodes, and the traces are 1 to 4 calls long.
- **Server runs:** 2 sessions, 3 node addresses (`MC_SslServer.cfg`).
  - Two sessions give two members of the list, so removal happens both at the head and behind it.
  - They also give interleaved handshakes, and a session freed while the other is listed.
- **Daemon runs:** 2 groups (`MC_Daemon.cfg`). The client can reach RUNNING twice, which is what overwrites `ctx->group`. Each group has one record, as in the code.
- **Cli runs:** 3 invocations, arguments none, `--check`, `--kill` and `-r`. The race needs two starts plus a third, and check, kill and reload read or change the PID file in between. The liveness run uses the same bounds: 268k states.
- **Bridge runs:** 2 watches and 1 timeout (`MC_ReactorBridge.cfg`). Every mask (none, IN, OUT, both) and every readiness occurs. Two watches interleave their callbacks and updates. Updates and re-arms are unbounded: the state space closes without counting them.

## 5. Fairness

- **List and server runs:** safety and refinement only, so no fairness.
- **Daemon:**
  - weak fairness of `s_daemon_ctx_run` and `s_daemon_ctx_free`: main calls them in sequence;
  - weak fairness of the signal and idle callbacks: `event_base_loop` runs every active event before it waits again;
  - weak fairness of avahi ending each registration it started, ESTABLISHED, COLLISION or FAILURE.
  
  Signals, client state changes and group failures have no fairness: they may never happen.
- **Cli:** `FairSpec` has weak fairness of each invocation's steps (`Invocation(i)`) and of each child's `daemon_load_process`: they are processes the kernel keeps scheduling. The running daemon's exits have none, since it may run for ever or ignore the signal. `cli_pidfile` uses `Spec`, with no fairness.
- **Bridge:** weak fairness of each watch and timeout callback, by the same libevent argument. Avahi's calls and the descriptors' readiness have no fairness.
- **Deadlock:** not checked in the Daemon, Cli and bridge runs. Cli ends when every invocation has returned and every daemon has exited. The process ends after `s_daemon_ctx_free`, and the bridge has nothing left to dispatch once avahi has freed everything.

## 6. Not modelled

- `daemon-browser.c` uses `ssl-client.h` and `avahi-browser.h`, which the repository does not contain. `daemon-ssl.c` only logs, and only the browser would use its callbacks.
- `s_service_check` (`avahi-service.c`): nothing in the daemon calls it.
- OpenSSL context setup and teardown (`ssl.h`): outcomes only (`s_ssl_context_server_new`).
- Packet contents: a packet is only present or not.
- `s_ssl_server_write` and `s_ssl_connection_write`: stubs or never called.
- Logging.
- In Daemon, the libdaemon process plumbing is outside the module; Cli models the fork, the retval pipe and the PID file.
- Allocation failures inside libevent (`event_new` returning NULL), like `daemon_malloc`'s abort: spec.md 7 class (a).
- A failed `event_add` in `s_avahi_watch_update`: the model has it (`ok`), but the runs keep it out of `Next`, since the code only logs it (hazard in PROJECT.json).
- Calendar time in the bridge: a past and a future deadline both give a pending event, so they are one input.
- `s_group_remove_service`, `s_group_free`, `s_list_nth` and `s_list_foreach`: no code of the daemon calls them.
