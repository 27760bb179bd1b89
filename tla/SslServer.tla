------------------------------ MODULE SslServer ------------------------------
(***************************************************************************)
(* The TLS server of src/daemon/ssl/ssl-server.c and the sessions of       *)
(* src/daemon/ssl/ssl-connection.c, driven by libevent.  The server keeps  *)
(* its established sessions in a daemon-list (module SList) whose nodes    *)
(* live in the heap mem; mem.ub records any access to freed memory, the    *)
(* server struct included.                                                 *)
(*   conn[c] is the life of connection c: "idle" (no peer yet), "refused"  *)
(*   (the accept callback gave up), "handshake" (struct and bufferevent    *)
(*   allocated, TLS accepting), "open" (handshake done), "dead" (libevent  *)
(*   reported an error and stopped the bufferevent) and "freed".           *)
(*   bound: a listener bound to the port delivers accepts to this server; *)
(*   it outlives server->ssl.listener when that pointer is overwritten.    *)
(*   rx[c]: c's input buffer holds data the peer sent.                     *)
(*   packets: the sessions whose struct s_ssl_packet was allocated by a    *)
(*   callback and never freed.                                             *)
(***************************************************************************)
EXTENDS SList
LOCAL INSTANCE SequencesExt

CONSTANTS
  Conn,    \* the struct s_ssl_connection addresses, one per incoming peer
  Server   \* the struct s_ssl_server address

ASSUME NULL \notin Conn

VARIABLES
  mem,          \* the heap of list nodes (and the undefined-behaviour flag)
  connections,  \* server->connections: head of the live-session list
  server,       \* the server struct: "none", "live" or "freed"
  context,      \* server->ssl.context # NULL
  listener,     \* server->ssl.listener # NULL
  bound,        \* some evconnlistener for this server is bound and enabled
  conn,         \* conn[c]: the life of connection c, see above
  rx,           \* rx[c]: data is buffered in c's input
  packets       \* the sessions whose packet is allocated and not freed

vars == <<mem, connections, server, context, listener, bound, conn, rx, packets>>

ConnStates == {"idle", "refused", "handshake", "open", "dead", "freed"}

(* The events a libevent openssl bufferevent reports, as flag sets: the    *)
(* handshake reports CONNECTED once, or closes with READING|WRITING; reads *)
(* and writes close with their own direction flag.  No timeout is ever set *)
(* on these bufferevents, so BEV_EVENT_TIMEOUT does not occur.             *)
HandshakeEvents == {{"CONNECTED"}, {"READING", "WRITING", "ERROR"}, {"READING", "WRITING", "EOF"}}
OpenEvents == {{"READING", "EOF"}, {"READING", "ERROR"}, {"WRITING", "ERROR"}, {"WRITING", "EOF"}}

Deliverable(c) ==
  CASE conn[c] = "handshake" -> HandshakeEvents
    [] conn[c] = "open"      -> OpenEvents
    [] OTHER                 -> {}

(* The if-chain of _s_ssl_connection_event and its error classification. *)
ErrorClass(what) ==
  IF "WRITING" \notin what THEN "read" ELSE IF "READING" \notin what THEN "write" ELSE "eof"

EventKind(what) ==
  CASE "EOF" \in what \/ "TIMEOUT" \in what -> "terminated"
    [] "CONNECTED" \in what                 -> "connected"
    [] ErrorClass(what) = "eof"             -> "terminated"
    [] OTHER                                -> "error"

(* Mutant: the connection's server pointer appended instead of itself.    *)
s_ssl_server_add_connection_server(m, list, c) == s_list_append(m, list, Server)

s_ssl_server_add_connection(m, list, c) == s_list_append(m, list, c)

(* Mutant: the search starts at s_list_next(s_list_first(...)).           *)
s_ssl_server_remove_connection_skiphead(m, list, c) ==
  LET w == IF list = NULL THEN << >> ELSE Tail(Walk(m, list))
      i == SelectInSeq(w, LAMBDA x : m.node[x].data = c)
  IN IF i = 0 THEN [m |-> Deref(m, ToSet(Walk(m, list))), ret |-> list]
     ELSE s_list_remove(m, list, c)

(* Mutant: s_list_remove_all(server->connections, data) in place of       *)
(* s_list_remove.                                                          *)
s_ssl_server_remove_connection_all(m, list, c) ==
  LET w == Walk(m, list)
      i == SelectInSeq(w, LAMBDA x : m.node[x].data = c)
  IN IF i = 0 THEN [m |-> Deref(m, ToSet(w)), ret |-> list]
     ELSE s_list_remove_all(Deref(m, ToSet(SubSeq(w, 1, i))), list, c)

(* The loop reads the nodes up to the one holding c, then s_list_remove.  *)
s_ssl_server_remove_connection(m, list, c) ==
  LET w == Walk(m, list)
      i == SelectInSeq(w, LAMBDA x : m.node[x].data = c)
  IN IF i = 0 THEN [m |-> Deref(m, ToSet(w)), ret |-> list]
     ELSE s_list_remove(Deref(m, ToSet(SubSeq(w, 1, i))), list, c)

(* A call through connection->server: undefined once the server is freed. *)
OnServer(r) ==
  IF server = "live"
  THEN mem' = r.m /\ connections' = r.ret
  ELSE mem' = [mem EXCEPT !.ub = TRUE] /\ UNCHANGED connections

SetConn(c, s) == conn' = [conn EXCEPT ![c] = s]

Init ==
  /\ mem = EmptyHeap
  /\ connections = NULL
  /\ server = "none"
  /\ context = FALSE /\ listener = FALSE /\ bound = FALSE
  /\ conn = [c \in Conn |-> "idle"]
  /\ rx = [c \in Conn |-> FALSE]
  /\ packets = {}

(* s_ssl_server_new: a zeroed struct; no list, context nor listener.       *)
s_ssl_server_new ==
  /\ server = "none"
  /\ server' = "live"
  /\ UNCHANGED <<mem, connections, context, listener, bound, conn, rx, packets>>

(* s_ssl_context_server_new (ssl.h): a context, or NULL when RAND_poll,   *)
(* SSL_CTX_new, the certificate chain or the private key fails.           *)
s_ssl_context_server_new == BOOLEAN

(* s_ssl_server_connect: ctxOk is whether the SSL_CTX could be built from *)
(* the certificate and key, bindOk whether binding port 8000 succeeds; the *)
(* port is refused while another listener of this server holds it.  The  *)
(* early return on a NULL context leaves server->ssl.listener as it was.  *)
s_ssl_server_connect(ctxOk, bindOk) ==
  /\ server = "live"
  /\ context' = ctxOk
  /\ IF ctxOk
     THEN /\ listener' = (bindOk /\ ~bound)
          /\ bound' = (bound \/ listener')
     ELSE UNCHANGED <<listener, bound>>
  /\ UNCHANGED <<mem, connections, server, conn, rx, packets>>

(* _s_ssl_server_accept: reads server->ssl.context for SSL_new, which     *)
(* fails on a NULL context or out of memory (sslOk); the bufferevent and  *)
(* s_ssl_connection_new then arm the session.                             *)
s_ssl_server_accept(c, sslOk) ==
  /\ bound /\ conn[c] = "idle"
  /\ IF server # "live"
     THEN mem' = [mem EXCEPT !.ub = TRUE] /\ UNCHANGED conn
     ELSE /\ SetConn(c, IF sslOk /\ context THEN "handshake" ELSE "refused")
          /\ UNCHANGED mem
  /\ UNCHANGED <<connections, server, context, listener, bound, rx, packets>>

(* s_ssl_packet_new: NULL for a NULL payload, else a packet and a copy of *)
(* the payload; the packet of session c is named c.                        *)
s_ssl_packet_new(c, payload) == IF payload THEN {c} ELSE {}

(* s_ssl_packet_free: a no-op on NULL.                                     *)
s_ssl_packet_free(c, ps) == ps \ {c}

(* _s_ssl_packet_generate: the input buffer moved into a fresh evbuffer,  *)
(* whose evbuffer_pullup is NULL when nothing was buffered.                *)
s_ssl_packet_generate(c) == packets \cup s_ssl_packet_new(c, rx[c])

(* The peer's data arrives in the input buffer of an open session.        *)
PeerData(c) ==
  /\ conn[c] = "open" /\ ~rx[c]
  /\ rx' = [rx EXCEPT ![c] = TRUE]
  /\ UNCHANGED <<mem, connections, server, context, listener, bound, conn, packets>>

(* _s_ssl_connection_read: the buffered data becomes a packet, which goes *)
(* to connection->read (the server's _s_ssl_server_communication_read,    *)
(* which only logs; it is handed connection->server where it expects the  *)
(* connection) and is then freed by s_ssl_packet_free.                     *)
s_ssl_connection_read(c) ==
  /\ conn[c] = "open" /\ rx[c]
  /\ rx' = [rx EXCEPT ![c] = FALSE]
  /\ packets' = s_ssl_packet_free(c, s_ssl_packet_generate(c))
  /\ UNCHANGED <<mem, connections, server, context, listener, bound, conn>>

(* _s_ssl_connection_event for the event what on connection c; the error  *)
(* branch assembles a packet from what is buffered and hands it to        *)
(* connection->error, and nobody frees it.                                 *)
s_ssl_connection_event(c, what) ==
  /\ what \in Deliverable(c)
  /\ CASE EventKind(what) = "connected" ->
            OnServer(s_ssl_server_add_connection(mem, connections, c)) /\ SetConn(c, "open")
       [] EventKind(what) = "terminated" ->
            OnServer(s_ssl_server_remove_connection(mem, connections, c)) /\ SetConn(c, "freed")
       [] OTHER ->
            /\ SetConn(c, "dead")
            /\ packets' = s_ssl_packet_generate(c)
            /\ UNCHANGED <<mem, connections>>
  /\ EventKind(what) # "error" => UNCHANGED packets
  /\ UNCHANGED <<server, context, listener, bound, rx>>

(* s_ssl_server_free: the listener is freed only under a context; the     *)
(* listed sessions go through s_list_free_full with s_ssl_connection_free. *)
s_ssl_server_free ==
  /\ server = "live"
  /\ LET r == s_list_free_full(mem, connections)
     IN /\ mem' = r.m
        /\ conn' = [c \in Conn |-> IF c \in ToSet(r.ret) THEN "freed" ELSE conn[c]]
  /\ bound' = (bound /\ ~(context /\ listener))
  /\ server' = "freed"
  /\ UNCHANGED <<connections, context, listener, rx, packets>>

(* Once the code has done something undefined the process is gone.        *)
Next ==
  /\ ~mem.ub
  /\ \/ s_ssl_server_new
     \/ \E ok1 \in s_ssl_context_server_new, ok2 \in BOOLEAN : s_ssl_server_connect(ok1, ok2)
     \/ \E c \in Conn, ok \in BOOLEAN : s_ssl_server_accept(c, ok)
     \/ \E c \in Conn, what \in HandshakeEvents \cup OpenEvents : s_ssl_connection_event(c, what)
     \/ \E c \in Conn : PeerData(c) \/ s_ssl_connection_read(c)

Spec == Init /\ [][Next]_vars

NextFree == ~mem.ub /\ s_ssl_server_free

Spec_Free == Init /\ [][Next \/ NextFree]_vars

-----------------------------------------------------------------------------
(* The sessions the server lists, read through the list's pointers.       *)
Listed == ToSet(Contents(mem, connections))

TypeOK ==
  /\ mem.live \subseteq Addr
  /\ connections \in Addr \cup {NULL}
  /\ Listed \subseteq Conn
  /\ server \in {"none", "live", "freed"}
  /\ {context, listener, bound} \subseteq BOOLEAN
  /\ conn \in [Conn -> ConnStates]
  /\ rx \in [Conn -> BOOLEAN]
  /\ packets \subseteq Conn

(* No callback or call touches freed memory: no event of a session, and no *)
(* accept of a listener, reaches a server or a list node already freed.   *)
MemorySafe == ~mem.ub

(* The sessions follow the lifecycle of spec.md 4.4 (SslSession): a       *)
(* session enters the live list once, on its CONNECTED event, stays there *)
(* exactly while established, and _s_ssl_connection_event removes and    *)
(* frees it in one step.  A session whose transport failed ("dead") is    *)
(* still established for the abstract view: the code keeps it.           *)
AbstractState(c) ==
  CASE conn[c] \in {"idle", "refused"} -> "idle"
    [] conn[c] = "handshake"          -> "handshaking"
    [] conn[c] \in {"open", "dead"}   -> "established"
    [] conn[c] = "freed"              -> "closed"

SS == INSTANCE SslSession WITH state <- [c \in Conn |-> AbstractState(c)], live <- Listed

Refinement == SS!Spec

(* A transport error ends the session (spec.md 3: sessions are "destroyed *)
(* and removed ... on unrecoverable transport error"; 7(d)) and releases  *)
(* what the error branch held (4.4: the payload is released by the caller *)
(* of the callback): a session that hit a read or write error is neither  *)
(* in the live list nor the owner of a packet.  The error branch of       *)
(* _s_ssl_connection_event calls the error callback with the packet it    *)
(* assembled and returns.                                                  *)
TransportErrorReleases == \A c \in Conn : conn[c] = "dead" => c \notin Listed /\ c \notin packets

=============================================================================
