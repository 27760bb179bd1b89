-------------------------------- MODULE Cli --------------------------------
(***************************************************************************)
(* The command line and the process life of the daemon: main and          *)
(* _daemon_fork_process (src/daemon/daemon-main.c), s_options_new          *)
(* (daemon-options.c), daemon_check_process, daemon_kill_process and       *)
(* daemon_load_process (daemon.c).                                         *)
(*                                                                         *)
(* Several invocations of the program run at once, each a process of Inv.  *)
(* An invocation that forks leaves its child in child[i]; the child loads  *)
(* the daemon: it takes the PID file, sends its status back on the retval  *)
(* pipe and then runs the loop (module Daemon) until it quits.  The PID    *)
(* file at its path is pidfile: the invocation whose child wrote it, or    *)
(* NoPid.  In libdaemon 0.14, daemon_pid_file_create opens the path with  *)
(* O_CREAT|O_EXCL and fails whenever a file is there;                      *)
(* daemon_pid_file_is_running reads the PID, probes it with kill(pid, 0)   *)
(* and unlinks the file if that process is gone; daemon_pid_file_remove    *)
(* unlinks the path whoever wrote it.                                      *)
(***************************************************************************)
EXTENDS Naturals, FiniteSets

CONSTANTS
  Inv,     \* the invocations of the program that run concurrently
  Args,    \* the argv[1] each may be given; NoArg stands for argc = 1
  NoArg,
  NoPid    \* no PID file at the path

VARIABLES
  argv,    \* argv[1] of each invocation
  pc,      \* where each invocation is in main
  opt,     \* its s_options process option
  ret,     \* main's ret
  child,   \* the process it forked: "none", "loading", "running", "exited"
  retval,  \* the first value its child sent on the retval pipe, or "none"
  sig,     \* a SIGINT is pending at its child
  target,  \* the process its kill signalled
  pidfile, \* the PID file at its path
  reused   \* the exited children whose PID the kernel gave to another process

vars == <<argv, pc, opt, ret, child, retval, sig, target, pidfile, reused>>

Options == {"check", "reload", "start", "kill", "error"}
PCs == {"main", "check", "kill", "kill_send", "kill_wait", "fork", "retval_wait", "done"}
Codes == {"none", "0", "1", "EALREADY", "errno", "timeout", "EBADE"}

(* getopt_long(argc, argv, "crs", long options) for one argument: the     *)
(* short string knows c, r and s; the long table check, kill, reload and   *)
(* verbose (with a required argument).  Anything else is '?' and a word    *)
(* that is not an option ends the scan (-1).                               *)
GetOpt(a) ==
  CASE a \in {"-c", "--check"}  -> "c"
    [] a \in {"-r", "--reload"} -> "r"
    [] a = "-s"                 -> "s"
    [] a = "--kill"             -> "k"
    [] a = "--verbose=1"        -> "v"
    [] a \in {"-k", "-v", "--verbose"} -> "?"
    [] OTHER                    -> "-1"

(* s_options_new: no argument starts the daemon; 'v' shares the default   *)
(* branch with every unknown option.                                       *)
s_options_new(a) ==
  IF a = NoArg THEN "start"
  ELSE CASE GetOpt(a) = "c" -> "check"
         [] GetOpt(a) = "k" -> "kill"
         [] GetOpt(a) = "r" -> "reload"
         [] OTHER           -> "error"

(* The process with i's child's PID exists: kill(pid, 0) succeeds, also   *)
(* when the PID now belongs to an unrelated process.                       *)
Alive(i) == child[i] \in {"loading", "running"} \/ i \in reused

(* daemon_pid_file_is_running: the writer while it lives; a stale file is *)
(* unlinked on the way.                                                    *)
IsRunning == pidfile # NoPid /\ Alive(pidfile)
PidFileChecked == pidfile' = IF IsRunning THEN pidfile ELSE NoPid

(* The step of main after the dispatch of its option.                      *)
FirstStep(o) ==
  CASE o = "check" -> "check"
    [] o \in {"kill", "reload"} -> "kill"
    [] o = "start" -> "fork"
    [] OTHER -> "done"

Init ==
  /\ argv \in [Inv -> Args]
  /\ pc = [i \in Inv |-> "main"]
  /\ opt = [i \in Inv |-> "error"]
  /\ ret = [i \in Inv |-> "none"]
  /\ child = [i \in Inv |-> "none"]
  /\ retval = [i \in Inv |-> "none"]
  /\ sig = [i \in Inv |-> FALSE]
  /\ target = [i \in Inv |-> NoPid]
  /\ pidfile = NoPid
  /\ reused = {}

(* _daemon_initialize: daemon_reset_sigs, daemon_unblock_sigs and         *)
(* daemon_retval_init, each of which may fail with errno.                  *)
daemon_initialize == {"0", "errno"}

(* main: _daemon_initialize, then s_options_new and the switch; an        *)
(* unknown option goes straight to the default branch, ret = -EBADE.       *)
main(i) ==
  /\ pc[i] = "main"
  /\ \E r \in daemon_initialize :
       IF r # "0"
       THEN pc' = [pc EXCEPT ![i] = "done"] /\ ret' = [ret EXCEPT ![i] = r] /\ UNCHANGED opt
       ELSE LET o == s_options_new(argv[i])
            IN /\ opt' = [opt EXCEPT ![i] = o]
               /\ pc' = [pc EXCEPT ![i] = FirstStep(o)]
               /\ ret' = [ret EXCEPT ![i] = IF o = "error" THEN "EBADE" ELSE @]
  /\ UNCHANGED <<argv, reused, child, retval, sig, target, pidfile>>

(* main's check case: ret = daemon_check_process(), 0 if a daemon runs.    *)
daemon_check_process(i) ==
  /\ pc[i] = "check"
  /\ ret' = [ret EXCEPT ![i] = IF IsRunning THEN "0" ELSE "1"]
  /\ pc' = [pc EXCEPT ![i] = "done"]
  /\ PidFileChecked
  /\ UNCHANGED <<argv, reused, opt, child, retval, sig, target>>

(* The step after daemon_kill_process: kill is done, reload forks.         *)
AfterKill(i) == IF opt[i] = "reload" THEN "fork" ELSE "done"

(* daemon_kill_process: daemon_check_process; no daemon gives -EALREADY.  *)
daemon_kill_process(i) ==
  /\ pc[i] = "kill"
  /\ pc' = [pc EXCEPT ![i] = IF IsRunning THEN "kill_send" ELSE AfterKill(i)]
  /\ ret' = [ret EXCEPT ![i] = IF IsRunning THEN @ ELSE "EALREADY"]
  /\ PidFileChecked
  /\ UNCHANGED <<argv, reused, opt, child, retval, sig, target>>

(* daemon_pid_file_kill_wait(SIGINT, 5), first half: it reads the PID     *)
(* file again and signals its writer; a daemon gone since the check makes *)
(* it return -1, and daemon_kill_process -errno.                           *)
daemon_pid_file_kill(i) ==
  /\ pc[i] = "kill_send"
  /\ IF IsRunning
     THEN /\ sig' = [sig EXCEPT ![pidfile] = TRUE]
          /\ target' = [target EXCEPT ![i] = pidfile]
          /\ pc' = [pc EXCEPT ![i] = "kill_wait"]
          /\ UNCHANGED ret
     ELSE /\ ret' = [ret EXCEPT ![i] = "errno"]
          /\ pc' = [pc EXCEPT ![i] = AfterKill(i)]
          /\ UNCHANGED <<sig, target>>
  /\ PidFileChecked
  /\ UNCHANGED <<argv, reused, opt, child, retval>>

(* Second half: 0 once the signalled process is gone; the 5 second        *)
(* timeout may expire while it still lives (-ETIME).                       *)
daemon_pid_file_kill_wait(i) ==
  /\ pc[i] = "kill_wait"
  /\ \/ ~Alive(target[i]) /\ ret' = [ret EXCEPT ![i] = "0"]
     \/ Alive(target[i]) /\ ret' = [ret EXCEPT ![i] = "errno"]
  /\ pc' = [pc EXCEPT ![i] = AfterKill(i)]
  /\ UNCHANGED <<argv, reused, opt, child, retval, sig, pidfile, target>>

(* After _daemon_fork_process: start returns its value; reload falls      *)
(* through into the default branch, which sets ret = -EBADE.               *)
AfterFork(i, r) == IF opt[i] = "reload" THEN "EBADE" ELSE r

(* _daemon_fork_process: daemon_check_process, then daemon_fork, which    *)
(* may fail (errno); the parent goes on to wait for the child's status.   *)
daemon_fork_process(i) ==
  /\ pc[i] = "fork"
  /\ IF IsRunning
     THEN /\ ret' = [ret EXCEPT ![i] = AfterFork(i, "EALREADY")]
          /\ pc' = [pc EXCEPT ![i] = "done"]
          /\ UNCHANGED child
     ELSE \/ /\ ret' = [ret EXCEPT ![i] = AfterFork(i, "errno")]
             /\ pc' = [pc EXCEPT ![i] = "done"]
             /\ UNCHANGED child
          \/ /\ child' = [child EXCEPT ![i] = "loading"]
             /\ pc' = [pc EXCEPT ![i] = "retval_wait"]
             /\ UNCHANGED ret
  /\ PidFileChecked
  /\ UNCHANGED <<argv, reused, opt, retval, sig, target>>

(* Mutant: the wait without its 20 second timeout.                         *)
daemon_retval_wait_notimeout(i) ==
  /\ pc[i] = "retval_wait"
  /\ retval[i] # "none" /\ ret' = [ret EXCEPT ![i] = AfterFork(i, retval[i])]
  /\ pc' = [pc EXCEPT ![i] = "done"]
  /\ UNCHANGED <<argv, reused, opt, child, retval, sig, pidfile, target>>

(* daemon_retval_wait(20): the first value the child sent, or -1 when 20  *)
(* seconds pass first.                                                     *)
daemon_retval_wait(i) ==
  /\ pc[i] = "retval_wait"
  /\ \/ retval[i] # "none" /\ ret' = [ret EXCEPT ![i] = AfterFork(i, retval[i])]
     \/ retval[i] = "none" /\ ret' = [ret EXCEPT ![i] = AfterFork(i, "timeout")]
  /\ pc' = [pc EXCEPT ![i] = "done"]
  /\ UNCHANGED <<argv, reused, opt, child, retval, sig, pidfile, target>>

(* s_daemon_ctx_new's outcomes: a context; NULL when s_loop_new fails     *)
(* (s_client_new, s_daemon_ctx_free's s_client_free and s_loop_free all   *)
(* return at their guards); or an abort when event_add fails once the      *)
(* client exists, since s_client_free hands avahi_client_free the client   *)
(* s_client_run never created and avahi_client_free asserts it non-NULL.  *)
s_daemon_ctx_new == {"ctx", "null", "abort"}

(* daemon_load_process in the child: close the descriptors, create the    *)
(* PID file, install the signal handlers, then s_daemon_ctx_new, whose    *)
(* status (0 or EBADE) goes on the pipe before the loop runs.  A failure  *)
(* of the first three goes to finish: errno on the pipe, then             *)
(* daemon_pid_file_remove and exit.  A NULL ctx makes s_daemon_ctx_run    *)
(* and s_daemon_ctx_free return at once; the PID file is left behind, as  *)
(* it is when the child aborts before sending any status.                 *)
daemon_load_process(i) ==
  /\ child[i] = "loading"
  /\ \E closeOk, signalOk \in BOOLEAN, ctx \in s_daemon_ctx_new :
       LET createOk == pidfile = NoPid
       IN IF closeOk /\ createOk /\ signalOk
          THEN /\ pidfile' = i
               /\ retval' = [retval EXCEPT ![i] = CASE ctx = "ctx"  -> "0"
                                                   [] ctx = "null" -> "EBADE"
                                                   [] OTHER        -> @]
               /\ child' = [child EXCEPT ![i] = IF ctx = "ctx" THEN "running" ELSE "exited"]
          ELSE /\ retval' = [retval EXCEPT ![i] = "errno"]
               /\ pidfile' = NoPid
               /\ child' = [child EXCEPT ![i] = "exited"]
  /\ UNCHANGED <<argv, reused, pc, opt, ret, sig, target>>

(* The daemon's loop ends once the pending SIGINT is dispatched, or on    *)
(* its own when the avahi client fails (module Daemon, QuitEnds); then    *)
(* s_daemon_ctx_free runs and daemon_load_process returns without         *)
(* removing the PID file.                                                  *)
daemon_signal_exit(i) ==
  /\ child[i] = "running" /\ sig[i]
  /\ child' = [child EXCEPT ![i] = "exited"]
  /\ UNCHANGED <<argv, reused, pc, opt, ret, retval, sig, pidfile, target>>

daemon_failure_exit(i) ==
  /\ child[i] = "running"
  /\ child' = [child EXCEPT ![i] = "exited"]
  /\ UNCHANGED <<argv, reused, pc, opt, ret, retval, sig, pidfile, target>>

(* The kernel hands the PID of an exited child to an unrelated process,   *)
(* which lives on whatever it is sent.  daemon_load_process returns after  *)
(* s_daemon_ctx_free without daemon_pid_file_remove, so the daemon's PID   *)
(* file may still name that PID.                                           *)
PidReuse(i) ==
  /\ child[i] = "exited" /\ i \notin reused
  /\ reused' = reused \cup {i}
  /\ UNCHANGED <<argv, pc, opt, ret, child, retval, sig, target, pidfile>>

Next ==
  \E i \in Inv :
    \/ main(i)
    \/ daemon_check_process(i)
    \/ daemon_kill_process(i)
    \/ daemon_pid_file_kill(i)
    \/ daemon_pid_file_kill_wait(i)
    \/ daemon_fork_process(i)
    \/ daemon_retval_wait(i)
    \/ daemon_load_process(i)
    \/ daemon_signal_exit(i)
    \/ daemon_failure_exit(i)
    \/ PidReuse(i)

Spec == Init /\ [][Next]_vars

(* The steps main takes in invocation i.                                   *)
Invocation(i) ==
  \/ main(i)
  \/ daemon_check_process(i)
  \/ daemon_kill_process(i)
  \/ daemon_pid_file_kill(i)
  \/ daemon_pid_file_kill_wait(i)
  \/ daemon_fork_process(i)
  \/ daemon_retval_wait(i)

(* Each invocation and each forked child is a process the kernel keeps    *)
(* scheduling: weak fairness of its steps.  The running daemon's exits     *)
(* have none: it may run until the machine stops.                          *)
FairSpec ==
  /\ Spec
  /\ \A i \in Inv : WF_vars(Invocation(i)) /\ WF_vars(daemon_load_process(i))

-----------------------------------------------------------------------------
TypeOK ==
  /\ argv \in [Inv -> Args]
  /\ pc \in [Inv -> PCs]
  /\ opt \in [Inv -> Options]
  /\ ret \in [Inv -> Codes]
  /\ child \in [Inv -> {"none", "loading", "running", "exited"}]
  /\ retval \in [Inv -> {"none", "0", "EBADE", "errno"}]
  /\ sig \in [Inv -> BOOLEAN]
  /\ target \in [Inv -> Inv \cup {NoPid}]
  /\ pidfile \in Inv \cup {NoPid}
  /\ reused \subseteq Inv

(* daemon_pid_file_is_running, which check, kill, start and reload all    *)
(* ask first, reports a daemon exactly when one runs.  It trusts the PID   *)
(* file and kill(pid, 0): the finish path of daemon_load_process unlinks   *)
(* the file even when the file it failed to create belongs to a running    *)
(* daemon, and a daemon that exits normally leaves its file behind.        *)
PidFileTracksDaemon == IsRunning <=> \E i \in Inv : child[i] = "running"

(* Every invocation returns from main, whatever the others and the         *)
(* children do: daemon_retval_wait gives up after 20 seconds on a child    *)
(* that never answers (it aborted in s_daemon_ctx_new's error path), and   *)
(* daemon_pid_file_kill_wait after 5 seconds on a daemon that ignores the  *)
(* signal; no invocation waits for another.                                 *)
InvocationsReturn == \A i \in Inv : <>(pc[i] = "done")

====
