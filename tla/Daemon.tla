------------------------------ MODULE Daemon ------------------------------
(***************************************************************************)
(* `ve orch start' and `ve orch stop' (src/src/orchestrator/daemon.py):    *)
(* one orchestrator daemon per project, by a locked PID file, and the      *)
(* socket and port files by which clients find it.  Commands and daemons   *)
(* are processes of their own; each step below is one file operation or    *)
(* signal, or several that a lock makes one.                               *)
(*                                                                         *)
(* A PID file has a name and an inode: a process that has it open keeps    *)
(* the inode, and its lock, when the name is unlinked.  The inode's number *)
(* here is that of the daemon that created it; a daemon's number is its    *)
(* PID, and PIDs are not used twice.                                       *)
(***************************************************************************)
EXTENDS Naturals, FiniteSets

CONSTANTS
  Commands,    \* processes that run `ve orch start' and `ve orch stop'
  MaxDaemons   \* bound: daemons ever forked

ASSUME DaemonBound == MaxDaemons \in Nat \ {0}

VARIABLES
  path,        \* the inode orchestrator.pid names, 0 when there is none
  content,     \* content[i]: the PID in inode i
  lock,        \* lock[i]: the daemon that holds the flock of inode i
  fd,          \* fd[d]: the inode daemon d opened
  sock, port,  \* the daemon whose orchestrator.sock and .port are there
  daemon,      \* daemon[d]: where daemon d is
  forked,      \* daemons forked so far
  pc, target,  \* pc[c]: where command c is; the PID a stop acts on
  overlapped   \* history, for properties: a command was started while
               \* another ran or a daemon was starting or leaving

vars == <<path, content, lock, fd, sock, port, daemon, forked, pc, target, overlapped>>

Daemons == 1..MaxDaemons
OrNone == 0..MaxDaemons

Starting == {"born", "opened", "claimed", "announced"}
Leaving == {"leaving", "unported", "unsocketed"}
DaemonStates == {"none", "serving", "dead"} \cup Starting \cup Leaving
CommandStates ==
  {"idle", "check", "clean", "fork", "wait", "report", "read", "term", "poll", "tidy"}

(* is_process_running, by the signal 0                                     *)
Alive(d) == d # 0 /\ daemon[d] \notin {"none", "dead"}

(* read_pid_file: nothing without the file, or when it is still empty.     *)
ReadPid == IF path = 0 THEN 0 ELSE content[path]

(* is_daemon_running                                                       *)
DaemonRunning == Alive(ReadPid)

(* What a user is shown: get_daemon_status, the dashboard's URL and the    *)
(* daemon that a request of the client reaches; 0 for none.                *)
Status == IF DaemonRunning THEN ReadPid ELSE 0
Url == IF DaemonRunning THEN port ELSE 0
Reached ==
  IF DaemonRunning /\ sock # 0 /\ Alive(sock) THEN sock ELSE 0

Settled ==
  /\ \A c \in Commands : pc[c] = "idle"
  /\ \A d \in Daemons : daemon[d] \in {"none", "serving", "dead"}

Init ==
  /\ path = 0 /\ sock = 0 /\ port = 0 /\ forked = 0
  /\ content = [i \in Daemons |-> 0] /\ lock = [i \in Daemons |-> 0]
  /\ fd = [d \in Daemons |-> 0]
  /\ daemon = [d \in Daemons |-> "none"]
  /\ pc = [c \in Commands |-> "idle"] /\ target = [c \in Commands |-> 0]
  /\ overlapped = FALSE

-----------------------------------------------------------------------------
(* Commands.                                                               *)

stateFiles == <<path, content, lock, fd, sock, port>>

Go(c, state) == pc' = [pc EXCEPT ![c] = state]

Begin(c, state) ==
  /\ pc[c] = "idle"
  /\ Go(c, state)
  /\ overlapped' = (overlapped \/ ~Settled)
  /\ UNCHANGED <<stateFiles, daemon, forked, target>>

Start(c) == Begin(c, "check")
Stop(c) == Begin(c, "read")

(* start_daemon: refused when the PID file names a process that runs.      *)
CheckRunning(c) ==
  /\ pc[c] = "check"
  /\ Go(c, IF DaemonRunning THEN "idle" ELSE "clean")
  /\ UNCHANGED <<stateFiles, daemon, forked, target, overlapped>>

(* The stale socket and port files of a daemon before are removed.         *)
RemoveStale(c) ==
  /\ pc[c] = "clean"
  /\ sock' = 0 /\ port' = 0
  /\ Go(c, "fork")
  /\ UNCHANGED <<path, content, lock, fd, daemon, forked, target, overlapped>>

Fork(c) ==
  /\ pc[c] = "fork"
  /\ forked < MaxDaemons
  /\ forked' = forked + 1
  /\ daemon' = [daemon EXCEPT ![forked + 1] = "born"]
  /\ Go(c, "wait")
  /\ UNCHANGED <<stateFiles, target, overlapped>>

(* The parent waits for the port file, up to five seconds.                 *)
AwaitPort(c) ==
  /\ pc[c] = "wait"
  /\ Go(c, "report")
  /\ UNCHANGED <<stateFiles, daemon, forked, target, overlapped>>

(* Success needs a running daemon and a port file; it reports what the     *)
(* files say, whoever wrote them (see ReportedIsServed).                   *)
ReportStart(c) ==
  /\ pc[c] = "report"
  /\ Go(c, "idle")
  /\ UNCHANGED <<stateFiles, daemon, forked, target, overlapped>>

(* stop_daemon: nothing without a PID; only the files of a dead process.   *)
ReadStopTarget(c) ==
  /\ pc[c] = "read"
  /\ target' = [target EXCEPT ![c] = ReadPid]
  /\ Go(c, IF ReadPid = 0 THEN "idle" ELSE IF DaemonRunning THEN "term" ELSE "tidy")
  /\ UNCHANGED <<stateFiles, daemon, forked, overlapped>>

(* SIGTERM.  Before the handlers are set, just after the PID file is       *)
(* written, the default action ends the process with its files in place.   *)
Killed(d) ==
  /\ daemon' = [daemon EXCEPT ![d] = "dead"]
  /\ fd' = [fd EXCEPT ![d] = 0]
  /\ lock' = [i \in Daemons |-> IF lock[i] = d THEN 0 ELSE lock[i]]

(* Mutant: a signal that could not be sent is taken for a dead process.    *)
TerminateUnsent(c) ==
  /\ pc[c] = "term"
  /\ Go(c, "tidy")
  /\ UNCHANGED <<stateFiles, daemon, forked, target, overlapped>>

Terminate(c) ==
  LET d == target[c] IN
  /\ pc[c] = "term"
  /\ IF ~Alive(d)
     THEN Go(c, "tidy") /\ UNCHANGED <<daemon, lock, fd>>
     ELSE /\ Go(c, "poll")
          /\ \/ daemon[d] \in Leaving /\ UNCHANGED <<daemon, lock, fd>>
             \/ /\ daemon[d] \notin Leaving
                /\ daemon' = [daemon EXCEPT ![d] = "leaving"]
                /\ UNCHANGED <<lock, fd>>
             \/ daemon[d] = "claimed" /\ Killed(d)
  /\ UNCHANGED <<path, content, sock, port, forked, target, overlapped>>

(* It polls for five seconds ...                                           *)
AwaitExit(c) ==
  /\ pc[c] = "poll"
  /\ ~Alive(target[c])
  /\ Go(c, "tidy")
  /\ UNCHANGED <<stateFiles, daemon, forked, target, overlapped>>

(* ... and then sends SIGKILL. *)
KillTarget(c) ==
  /\ pc[c] = "poll"
  /\ Alive(target[c])
  /\ Killed(target[c])
  /\ Go(c, "tidy")
  /\ UNCHANGED <<path, content, sock, port, forked, target, overlapped>>

(* _cleanup_state_files removes the three names, whosever they are by now. *)
CleanupStateFiles(c) ==
  /\ pc[c] = "tidy"
  /\ path' = 0 /\ sock' = 0 /\ port' = 0
  /\ target' = [target EXCEPT ![c] = 0]
  /\ Go(c, "idle")
  /\ UNCHANGED <<content, lock, fd, daemon, forked, overlapped>>

-----------------------------------------------------------------------------
(* Daemons.                                                                *)

commands == <<pc, target, overlapped>>

Become(d, state) == daemon' = [daemon EXCEPT ![d] = state]

(* _write_pid_file: open, creating; then the lock, and under it the check  *)
(* of the PID that is there and the write.  The lock is kept.              *)
OpenPidFile(d) ==
  /\ daemon[d] = "born"
  /\ path' = IF path = 0 THEN d ELSE path
  /\ fd' = [fd EXCEPT ![d] = path']
  /\ Become(d, "opened")
  /\ UNCHANGED <<content, lock, sock, port, forked, commands>>

Claimable(d) == lock[fd[d]] = 0 /\ ~Alive(content[fd[d]])

WritePidFile(d) ==
  /\ daemon[d] = "opened"
  /\ IF Claimable(d)
     THEN /\ lock' = [lock EXCEPT ![fd[d]] = d]
          /\ content' = [content EXCEPT ![fd[d]] = d]
          /\ Become(d, "claimed")
          /\ UNCHANGED fd
     ELSE Killed(d) /\ UNCHANGED content
  /\ UNCHANGED <<path, sock, port, forked, commands>>

(* _run_daemon_async: the port file, then the scheduler and the servers;   *)
(* binding the socket takes the name over.                                 *)
WritePort(d) ==
  /\ daemon[d] = "claimed"
  /\ port' = d
  /\ Become(d, "announced")
  /\ UNCHANGED <<path, content, lock, fd, sock, forked, commands>>

Serve(d) ==
  /\ daemon[d] = "announced"
  /\ sock' = d
  /\ Become(d, "serving")
  /\ UNCHANGED <<path, content, lock, fd, port, forked, commands>>

(* An error before it serves ends it by sys.exit, with the exit handlers.  *)
StartupError(d) ==
  /\ daemon[d] \in {"claimed", "announced"}
  /\ Become(d, "leaving")
  /\ UNCHANGED <<stateFiles, forked, commands>>

(* The exit handlers, last registered first: port, socket, PID file; the   *)
(* lock goes with the process.                                             *)
RemovePort(d) ==
  /\ daemon[d] = "leaving"
  /\ port' = 0
  /\ Become(d, "unported")
  /\ UNCHANGED <<path, content, lock, fd, sock, forked, commands>>

RemoveSocket(d) ==
  /\ daemon[d] = "unported"
  /\ sock' = 0
  /\ Become(d, "unsocketed")
  /\ UNCHANGED <<path, content, lock, fd, port, forked, commands>>

RemovePidFile(d) ==
  /\ daemon[d] = "unsocketed"
  /\ path' = 0
  /\ Killed(d)
  /\ UNCHANGED <<content, sock, port, forked, commands>>

(* SIGKILL from elsewhere, or a crash of the process: no handler runs.     *)
Crash(d) ==
  /\ Alive(d)
  /\ Killed(d)
  /\ UNCHANGED <<path, content, sock, port, forked, commands>>

CommandStep(c) ==
  \/ CheckRunning(c) \/ RemoveStale(c) \/ Fork(c) \/ AwaitPort(c) \/ ReportStart(c)
  \/ ReadStopTarget(c) \/ Terminate(c) \/ AwaitExit(c) \/ KillTarget(c)
  \/ CleanupStateFiles(c)

DaemonStep(d) ==
  \/ OpenPidFile(d) \/ WritePidFile(d) \/ WritePort(d) \/ Serve(d)
  \/ StartupError(d) \/ RemovePort(d) \/ RemoveSocket(d) \/ RemovePidFile(d)

Next ==
  \/ \E c \in Commands : Start(c) \/ Stop(c) \/ CommandStep(c)
  \/ \E d \in Daemons : DaemonStep(d) \/ Crash(d)

Spec == Init /\ [][Next]_vars

-----------------------------------------------------------------------------
(* Properties.                                                             *)

(* The type invariant. *)
DaemonTypeOK ==
  /\ path \in OrNone /\ sock \in OrNone /\ port \in OrNone /\ forked \in OrNone
  /\ content \in [Daemons -> OrNone] /\ lock \in [Daemons -> OrNone]
  /\ fd \in [Daemons -> OrNone]
  /\ daemon \in [Daemons -> DaemonStates]
  /\ pc \in [Commands -> CommandStates] /\ target \in [Commands -> OrNone]
  /\ overlapped \in BOOLEAN

Claimed == {d \in Daemons : Alive(d) /\ daemon[d] \notin {"born", "opened"}}

(* docs/subsystems/orchestrator/OVERVIEW.md: "Only one daemon instance     *)
(* allowed per project".  Two would dispatch from one database.            *)
OneDaemon == Cardinality(Claimed) <= 1

(* It holds as long as no command is started while another runs or while a *)
(* daemon starts or leaves, wherever processes crash or time out.          *)
OneDaemonInTurn == overlapped \/ OneDaemon

(* Then, too, a daemon that serves is found by status, by the dashboard's  *)
(* URL and by the client's requests: no file of a daemon before it hides   *)
(* it, no cleanup takes its files away.                                    *)
ServingIsFound ==
  \A d \in Daemons : daemon[d] = "serving" =>
    overlapped \/ (\E c \in Commands : pc[c] \in {"poll", "tidy"})
      \/ (Status = d /\ Url = d /\ Reached = d)

(* What a successful start reports then is one daemon, PID and port.       *)
ReportedIsServed ==
  \A c \in Commands : pc[c] = "report" /\ DaemonRunning /\ port # 0 =>
    overlapped \/ ReadPid = port

(* However commands overlap, daemons that share a PID file do not run at a *)
(* time: the lock is kept for the daemon's life.                           *)
OnePerPidFile ==
  \A d, e \in Claimed : d # e => fd[d] # fd[e]

(* The invariant of the module: its types, one daemon at a time where no   *)
(* commands overlap, and the files that lead to it.                        *)
DaemonInv ==
  DaemonTypeOK /\ OneDaemonInTurn /\ ServingIsFound /\ ReportedIsServed /\ OnePerPidFile
=============================================================================
