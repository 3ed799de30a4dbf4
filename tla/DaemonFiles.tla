----------------------------- MODULE DaemonFiles -----------------------------
(* How the servers of one data directory and the commands that look for them   *)
(* find one another: daemon.lock, locked by the server for its lifetime, and   *)
(* daemon.pid and daemon.port, written once it is bound (server.rs, main.rs,   *)
(* the server within the desktop application), read and sometimes removed by   *)
(* commands (cli/daemon.rs).  Every access to a file is a step of its own.     *)
EXTENDS Naturals, Sequences

CONSTANTS
    Servers,    \* server processes, each started once
    Embedded,   \* those within the desktop application
    Commands,   \* commands, each run any number of times
    None,       \* no file
    MaxMoves    \* bound: times a server binds to another port

ASSUME DaemonAssumption ==
    /\ Embedded \subseteq Servers /\ MaxMoves \in Nat
    /\ None \notin Servers /\ None \notin [of : Servers, move : 0..MaxMoves]

VARIABLES
    stage,      \* server -> where it is in its life
    file,       \* server -> the file it opened as daemon.lock, named by its creator
    moves,      \* server -> the ports it has had before
    rest,       \* server -> the files it has still to remove
    lockPath,   \* the file at daemon.lock
    pidFile,    \* daemon.pid
    portFile,   \* daemon.port
    cmd,        \* command -> where it is, and what it has read
    unlinked,       \* history: a lock was taken on a file no longer at daemon.lock
    hidden,     \* history: servers whose files a command or another server took
    crashed     \* history: a server ended without cleaning up

serverVars == <<stage, file, moves, rest>>
fileVars == <<pidFile, portFile>>
daemonVars == <<serverVars, lockPath, fileVars, cmd, unlinked, hidden, crashed>>

Port(s) == [of |-> s, move |-> moves[s]]
Idle == [at |-> "idle", ensure |-> FALSE, first |-> TRUE, pid |-> None, port |-> None]
Goes(c, at) == cmd' = [cmd EXCEPT ![c].at = at]
Stage(s, at) == stage' = [stage EXCEPT ![s] = at]

DaemonInit ==
    /\ stage = [s \in Servers |-> "unborn"]
    /\ file = [s \in Servers |-> None]
    /\ moves = [s \in Servers |-> 0]
    /\ rest = [s \in Servers |-> <<>>]
    /\ lockPath = None /\ pidFile = None /\ portFile = None
    /\ cmd = [c \in Commands |-> Idle]
    /\ unlinked = FALSE /\ hidden = {} /\ crashed = FALSE

Alive(s) == stage[s] \notin {"unborn", "dead"}

\* The living server a file names.
NamedBy(pid, port) == {s \in Servers : Alive(s) /\ (pid = s \/ (port # None /\ port.of = s))}

\* The process is gone, and its lock with it: "The kernel releases the flock".
Gone(s) ==
    /\ Stage(s, "dead")
    /\ file' = [file EXCEPT ![s] = None]
    /\ moves' = [moves EXCEPT ![s] = 0]
    /\ rest' = [rest EXCEPT ![s] = <<>>]
    /\ hidden' = hidden \ {s}

\* Fault: the lock is released before the files are removed.
Holds_UntilCleanup(s) ==
    stage[s] \in {"locked", "bound", "written", "ready", "serving", "restarting", "draining"}

\* The server has a DaemonLock, or is dropping it: "_flock drops here".
Holds(s) ==
    stage[s] \in {"locked", "bound", "written", "ready", "serving", "restarting", "draining",
                  "ending", "releasing"}

-----------------------------------------------------------------------------
(* The start of a server.                                                      *)

Launch(s) ==
    /\ stage[s] = "unborn"
    /\ Stage(s, "spawned")
    /\ UNCHANGED <<file, moves, rest, lockPath, fileVars, cmd, unlinked, hidden, crashed>>

\* try_acquire_daemon_lock: the file is created if it is not there.
Open(s) ==
    /\ stage[s] = "spawned"
    /\ Stage(s, "opened")
    /\ lockPath' = IF lockPath = None THEN s ELSE lockPath
    /\ file' = [file EXCEPT ![s] = lockPath']
    /\ UNCHANGED <<moves, rest, fileVars, cmd, unlinked, hidden, crashed>>

\* Flock::lock
Lock(s) ==
    /\ stage[s] = "opened"
    /\ \A t \in Servers : Holds(t) => file[t] # file[s]
    /\ Stage(s, "locked")
    /\ unlinked' = (unlinked \/ file[s] # lockPath)
    /\ UNCHANGED <<file, moves, rest, lockPath, fileVars, cmd, hidden, crashed>>

\* "Another server is already running"
Refused(s) ==
    /\ stage[s] = "opened"
    /\ \E t \in Servers : Holds(t) /\ file[t] = file[s]
    /\ Gone(s)
    /\ UNCHANGED <<lockPath, fileVars, cmd, unlinked, crashed>>

\* TcpListener::bind.  After a restart the port is the one it had, unless the
\* configuration asks for another.
Bind(s) ==
    /\ stage[s] = "locked" \/ (stage[s] = "restarting" /\ s \notin Embedded)
    /\ Stage(s, "bound")
    /\ moves' \in {moves} \cup (IF stage[s] = "restarting" /\ moves[s] < MaxMoves
                                THEN {[moves EXCEPT ![s] = @ + 1]} ELSE {})
    /\ UNCHANGED <<file, rest, lockPath, fileVars, cmd, unlinked, hidden, crashed>>

\* write_daemon_files: the pid, then the port.  What another wrote is lost.
WritePid(s) ==
    /\ stage[s] = "bound"
    /\ Stage(s, "written")
    /\ pidFile' = s
    /\ hidden' = (hidden \cup NamedBy(pidFile, None)) \ {s}
    /\ UNCHANGED <<file, moves, rest, lockPath, portFile, cmd, unlinked, crashed>>

WritePort(s) ==
    /\ stage[s] = "written"
    /\ Stage(s, "ready")
    /\ portFile' = Port(s)
    /\ hidden' = hidden \cup (NamedBy(None, portFile) \ {s})
    /\ UNCHANGED <<file, moves, rest, lockPath, pidFile, cmd, unlinked, crashed>>

\* axum::serve
Serve(s) ==
    /\ stage[s] = "ready"
    /\ Stage(s, "serving")
    /\ UNCHANGED <<file, moves, rest, lockPath, fileVars, cmd, unlinked, hidden, crashed>>

-----------------------------------------------------------------------------
(* Restart and end of a server.                                                *)

\* restart_rx.changed(): the listener is dropped.
Restart(s) ==
    /\ stage[s] = "serving"
    /\ Stage(s, "restarting")
    /\ UNCHANGED <<file, moves, rest, lockPath, fileVars, cmd, unlinked, hidden, crashed>>

\* The embedded server asks daemon.port for its own port, and takes any port if
\* the file is gone; it writes no files.
Rebind(s) ==
    /\ stage[s] = "restarting" /\ s \in Embedded
    /\ \/ portFile = Port(s) /\ UNCHANGED moves
       \/ portFile = None /\ moves[s] < MaxMoves /\ moves' = [moves EXCEPT ![s] = @ + 1]
    /\ Stage(s, "ready")
    /\ UNCHANGED <<file, rest, lockPath, fileVars, cmd, unlinked, hidden, crashed>>

\* A signal, or the application quits: the listener is dropped first.
Shutdown(s) ==
    /\ stage[s] = "serving"
    /\ Stage(s, "draining")
    /\ UNCHANGED <<file, moves, rest, lockPath, fileVars, cmd, unlinked, hidden, crashed>>

\* "Shutdown complete", or an error on the way up: DaemonLock is dropped.
Finish(s) ==
    /\ stage[s] \in {"locked", "bound", "written", "restarting", "draining"}
    /\ Stage(s, "ending")
    /\ UNCHANGED <<file, moves, rest, lockPath, fileVars, cmd, unlinked, hidden, crashed>>

\* Fault: a pid file that is gone is not taken for its own.
Dominated_IfWritten(s) == pidFile = s

\* "file gone - nothing to protect"
Dominated(s) == pidFile \in {s, None}

\* Fault: the lock file is removed first.
Removals_LockFirst == <<"lock", "pid", "port">>

Removals == <<"pid", "port", "lock">>

\* release_daemon_files
Release(s) ==
    /\ stage[s] = "ending"
    /\ Stage(s, "releasing")
    /\ rest' = [rest EXCEPT ![s] = IF Dominated(s) THEN Removals ELSE <<>>]
    /\ UNCHANGED <<file, moves, lockPath, fileVars, cmd, unlinked, hidden, crashed>>

Remove(s) ==
    /\ stage[s] = "releasing" /\ rest[s] # <<>>
    /\ rest' = [rest EXCEPT ![s] = Tail(@)]
    /\ pidFile' = IF Head(rest[s]) = "pid" THEN None ELSE pidFile
    /\ portFile' = IF Head(rest[s]) = "port" THEN None ELSE portFile
    /\ lockPath' = IF Head(rest[s]) = "lock" THEN None ELSE lockPath
    /\ UNCHANGED <<stage, file, moves, cmd, unlinked, hidden, crashed>>

\* "_flock drops here"
Unlock(s) ==
    /\ stage[s] = "releasing" /\ rest[s] = <<>>
    /\ Gone(s)
    /\ UNCHANGED <<lockPath, fileVars, cmd, unlinked, crashed>>

\* The process is killed: its files stay.
Killed(s) ==
    /\ Alive(s)
    /\ Gone(s) /\ crashed' = TRUE
    /\ UNCHANGED <<lockPath, fileVars, cmd, unlinked>>

-----------------------------------------------------------------------------
(* Commands: ensure_daemon, and require_running_daemon or rediscover_daemon,   *)
(* which only look.                                                            *)

Begin(c) ==
    /\ cmd[c].at = "idle"
    /\ \E ensure \in BOOLEAN : cmd' = [cmd EXCEPT ![c].at = "check", ![c].ensure = ensure]
    /\ UNCHANGED <<serverVars, lockPath, fileVars, unlinked, hidden, crashed>>

\* Nothing was found: start a server, look again later, or give up.
NotFound(c) ==
    cmd' = [cmd EXCEPT ![c] =
        IF ~cmd[c].ensure THEN Idle
        ELSE [Idle EXCEPT !.at = IF cmd[c].first THEN "start" ELSE "wait",
                          !.ensure = TRUE, !.first = cmd[c].first]]

\* check_daemon, file by file: the pid.
ReadPid(c) ==
    /\ cmd[c].at = "check"
    /\ IF pidFile = None THEN NotFound(c)
       ELSE cmd' = [cmd EXCEPT ![c].at = "probe", ![c].pid = pidFile]
    /\ UNCHANGED <<serverVars, lockPath, fileVars, unlinked, hidden, crashed>>

\* kill(pid, 0)
Probe(c) ==
    /\ cmd[c].at = "probe" /\ Alive(cmd[c].pid)
    /\ Goes(c, "port")
    /\ UNCHANGED <<serverVars, lockPath, fileVars, unlinked, hidden, crashed>>

\* "Process is dead, clean up stale files", or "not healthy - clean up and
\* restart": the files are removed, whoever has written them meanwhile.
RemovePid(c) ==
    /\ \/ cmd[c].at = "probe" /\ ~Alive(cmd[c].pid) /\ Goes(c, "cleaned")
       \/ cmd[c].at = "drop" /\ Goes(c, "dropped")
    /\ pidFile' = None
    /\ hidden' = hidden \cup NamedBy(pidFile, None)
    /\ UNCHANGED <<serverVars, lockPath, portFile, unlinked, crashed>>

RemovePort(c) ==
    /\ cmd[c].at \in {"cleaned", "dropped"}
    /\ IF cmd[c].at = "cleaned" THEN NotFound(c) ELSE Goes(c, "start")
    /\ portFile' = None
    /\ hidden' = hidden \cup NamedBy(None, portFile)
    /\ UNCHANGED <<serverVars, lockPath, pidFile, unlinked, crashed>>

ReadPort(c) ==
    /\ cmd[c].at = "port"
    /\ IF portFile = None THEN NotFound(c)
       ELSE cmd' = [cmd EXCEPT ![c].at = "health", ![c].port = portFile]
    /\ UNCHANGED <<serverVars, lockPath, fileVars, unlinked, hidden, crashed>>

\* health_check: a server that is bound and does not serve yet lets it wait.
Health(c) ==
    /\ cmd[c].at = "health"
    /\ LET s == cmd[c].port.of
           here == cmd[c].port = Port(s)
       IN \/ stage[s] = "serving" /\ here /\ Goes(c, "found")
          \/ /\ ~(stage[s] \in {"bound", "written", "ready", "serving"} /\ here)
             /\ IF cmd[c].ensure /\ cmd[c].first THEN Goes(c, "drop") ELSE NotFound(c)
    /\ UNCHANGED <<serverVars, lockPath, fileVars, unlinked, hidden, crashed>>

\* start_daemon
StartServer(c) ==
    /\ cmd[c].at = "start"
    /\ \E s \in Servers \ Embedded : stage[s] = "unborn" /\ Stage(s, "spawned")
    /\ cmd' = [cmd EXCEPT ![c] = [Idle EXCEPT !.at = "wait", !.ensure = TRUE, !.first = FALSE]]
    /\ UNCHANGED <<file, moves, rest, lockPath, fileVars, unlinked, hidden, crashed>>

LookAgain(c) ==
    /\ cmd[c].at = "wait"
    /\ Goes(c, "check")
    /\ UNCHANGED <<serverVars, lockPath, fileVars, unlinked, hidden, crashed>>

\* stop_daemon: SIGTERM to the pid.  A server within the application, or one
\* that does not serve yet, is killed by it (Killed), or loses it.
KillServer(c) ==
    /\ cmd[c].at = "found"
    /\ cmd' = [cmd EXCEPT ![c] = Idle]
    /\ \/ cmd[c].pid \notin Embedded /\ stage[cmd[c].pid] = "serving" /\ Stage(cmd[c].pid, "draining")
       \/ (cmd[c].pid \in Embedded \/ stage[cmd[c].pid] # "serving") /\ UNCHANGED stage
    /\ UNCHANGED <<file, moves, rest, lockPath, fileVars, unlinked, hidden, crashed>>

\* The command ends: its work is done, "Timed out", or interrupted.
Quit(c) ==
    /\ cmd[c].at # "idle"
    /\ cmd' = [cmd EXCEPT ![c] = Idle]
    /\ UNCHANGED <<serverVars, lockPath, fileVars, unlinked, hidden, crashed>>

-----------------------------------------------------------------------------

DaemonNext ==
    \/ \E s \in Servers :
        \/ Launch(s) \/ Open(s) \/ Lock(s) \/ Refused(s) \/ Bind(s) \/ WritePid(s) \/ WritePort(s) \/ Serve(s)
        \/ Restart(s) \/ Rebind(s) \/ Shutdown(s) \/ Finish(s) \/ Release(s) \/ Remove(s) \/ Unlock(s) \/ Killed(s)
    \/ \E c \in Commands :
        \/ Begin(c) \/ ReadPid(c) \/ Probe(c) \/ RemovePid(c) \/ RemovePort(c) \/ ReadPort(c) \/ Health(c)
        \/ StartServer(c) \/ LookAgain(c) \/ KillServer(c) \/ Quit(c)

DaemonSpec == DaemonInit /\ [][DaemonNext]_daemonVars

-----------------------------------------------------------------------------
(* Properties.                                                                 *)

Ports == [of : Servers, move : 0..MaxMoves]

DaemonTypeOK ==
    /\ stage \in [Servers -> {"unborn", "spawned", "opened", "locked", "bound", "written", "ready", "serving",
                              "restarting", "draining", "ending", "releasing", "dead"}]
    /\ file \in [Servers -> Servers \cup {None}]
    /\ moves \in [Servers -> 0..MaxMoves]
    /\ rest \in [Servers -> Seq({"pid", "port", "lock"})]
    /\ {lockPath, pidFile} \subseteq Servers \cup {None}
    /\ portFile \in Ports \cup {None}
    /\ cmd \in [Commands -> [at : {"idle", "check", "probe", "cleaned", "drop", "dropped", "port",
                                   "health", "found", "start", "wait"},
                             ensure : BOOLEAN, first : BOOLEAN,
                             pid : Servers \cup {None}, port : Ports \cup {None}]]
    /\ hidden \subseteq Servers
    /\ {unlinked, crashed} \subseteq BOOLEAN

\* The server has the directory for itself: it may read and write its database.
Active(s) == Holds(s) /\ ~(stage[s] = "releasing" /\ rest[s] = <<>>)

\* "One server per data dir", however many are launched at once, crash, restart
\* or end while others start, unless one locks a file that was removed after it
\* had opened it.
OneServer == ~unlinked => \A s, t \in Servers : Active(s) /\ Active(t) => s = t

\* A server that serves is the one the files name, unless a command has removed
\* them: no other server's start, restart or clean-up "clobbers" them.
ServingIsNamed ==
    ~unlinked => \A s \in Servers \ hidden : stage[s] = "serving" => pidFile = s /\ portFile = Port(s)

\* "Stale files don't linger": when the last server has ended, none of them by a
\* crash, no file names one, whatever commands have removed in the meantime.
NothingLingers ==
    ~crashed /\ (\A s \in Servers : stage[s] \in {"unborn", "spawned", "opened", "dead"})
        => pidFile = None /\ portFile = None

\* Both without their conditions: they fail.
OneServerAlways == \A s, t \in Servers : Active(s) /\ Active(t) => s = t
AlwaysNamed == \A s \in Servers : stage[s] = "serving" => pidFile = s

\* The process a command would stop is the server it found: it fails, for the two
\* files are read at different times.
PidServesPort == \A c \in Commands : cmd[c].at = "found" => cmd[c].pid = cmd[c].port.of
=============================================================================
