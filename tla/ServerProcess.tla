--------------------------- MODULE ServerProcess ---------------------------
(***************************************************************************)
(* The life of agentdp-server processes on one host and of the agentctl    *)
(* processes that start, stop and replace them.  They share three files:   *)
(* the lock, the local socket and the installed server binary.  Nothing    *)
(* orders one process against another but these files, so every file       *)
(* operation is a step of its own.                                         *)
(***************************************************************************)
EXTENDS Naturals, FiniteSets

CONSTANTS Servers,         \* the process ids a server may run under
          Clients,         \* agentctl processes
          MaxServerFaults  \* bound on crashes and failing loads

VARIABLES
  lock,      \* the lock file: the process that created it, and whether its pid is in it
  socket,    \* the socket path: "absent" or the pid whose listener it names
  binary,    \* the installed server binary, "old" or "new"
  sv,        \* per server: pc, the lock owner it read, the binary it runs
  cl,        \* per client: pc, command, the pid it is stopping, has it stopped
  overlap,   \* history: two processes were inside sections that exclude none
  svFaults   \* faults so far

procVars == <<lock, socket, binary, sv, cl, overlap, svFaults>>

ServerPcs == {"none", "open", "write", "read", "probe", "unlock", "check", "clear",
              "bind", "load", "serving", "stopping", "release", "unlink", "gone"}
ClientPcs == {"idle", "ping", "timedOut", "clearSocket", "clearLock", "spawn", "wait",
              "shutdown", "exit", "terminate", "kill", "install", "done", "failed"}

NoLock == [by |-> "absent", written |-> FALSE]
\* lock_owner_pid_from_contents: nobody when there is no file or nothing in it yet.
Owner == IF lock.written THEN lock.by ELSE "absent"

ProcInit ==
  /\ lock = NoLock /\ socket = "absent" /\ binary = "old" /\ overlap = FALSE
  /\ sv = [p \in Servers |-> [pc |-> "none", owner |-> "absent", bin |-> "old"]]
  /\ cl = [c \in Clients |-> [pc |-> "idle", mode |-> "ensure", pid |-> "absent",
                              stopped |-> FALSE]]
  /\ svFaults = 0

\* process_status: the process exists.
Running(p) == p \in Servers /\ sv[p].pc \notin {"none", "gone"}
\* A listener takes connections into its backlog from bind on, as long as the process is there.
Listening(p) == p \in Servers /\ sv[p].pc \in {"load", "serving", "stopping", "release", "unlink"}
Serving == {p \in Servers : sv[p].pc = "serving"}

(***************************************************************************)
(* The sections whose file operations assume that nobody else is in one:   *)
(* taking the lock up to a bound socket, giving it up (unless to the       *)
(* client that waits for it), and a client's way from the answer it acts   *)
(* on to its removal of the files.                                         *)
(***************************************************************************)
InSection(ss, cs) ==
  {p \in Servers :
     \/ ss[p].pc \in {"open", "write", "read", "probe", "unlock", "check", "clear", "bind"}
     \/ ss[p].pc \in {"release", "unlink"} /\ \A c \in Clients : cs[c].pid # p}
  \cup {c \in Clients : cs[c].pc \in {"shutdown", "timedOut", "clearSocket", "clearLock",
                                      "kill", "exit", "terminate"}}

Move(ss, cs) ==
  /\ sv' = ss /\ cl' = cs
  /\ overlap' = (overlap \/ Cardinality(InSection(ss, cs)) > 1)
ServerGoes(p, pc) == Move([sv EXCEPT ![p].pc = pc], cl)
ClientGoes(c, pc) == Move(sv, [cl EXCEPT ![c].pc = pc])

-----------------------------------------------------------------------------
(* acquire_server_lock *)

\* OpenOptions::create_new: an empty lock file of one's own, or the one that is there.
OpenLock(p) ==
  /\ sv[p].pc = "open"
  /\ IF lock = NoLock
     THEN lock' = [by |-> p, written |-> FALSE] /\ ServerGoes(p, "write")
     ELSE ServerGoes(p, "read") /\ UNCHANGED lock
  /\ UNCHANGED <<socket, binary, svFaults>>

\* Writes the pid; when the file was unlinked meanwhile the write reaches nobody.
WriteLock(p) ==
  /\ sv[p].pc = "write"
  /\ lock' = IF lock.by = p THEN [lock EXCEPT !.written = TRUE] ELSE lock
  /\ ServerGoes(p, "check")
  /\ UNCHANGED <<socket, binary, svFaults>>

\* server_lock_owner: the file may have gone, which is an error; an empty one names nobody.
ReadOwner(p) ==
  /\ sv[p].pc = "read"
  /\ CASE lock = NoLock      -> ServerGoes(p, "gone")
       [] lock # NoLock /\ ~lock.written -> ServerGoes(p, "unlock")
       [] lock.written       -> Move([sv EXCEPT ![p].pc = "probe", ![p].owner = Owner], cl)
  /\ UNCHANGED <<lock, socket, binary, svFaults>>

ProbeAssumingStale(p) ==
  /\ sv[p].pc = "probe"
  /\ ServerGoes(p, "unlock")
  /\ UNCHANGED <<lock, socket, binary, svFaults>>
\* AlreadyRunning for a live owner, otherwise the lock is stale.
Probe(p) ==
  /\ sv[p].pc = "probe"
  /\ ServerGoes(p, IF Running(sv[p].owner) THEN "gone" ELSE "unlock")
  /\ UNCHANGED <<lock, socket, binary, svFaults>>

\* remove_file by name, whoever the file belongs to by now; then around the loop again.
RemoveStale(p) ==
  /\ sv[p].pc = "unlock"
  /\ lock' = NoLock
  /\ ServerGoes(p, "open")
  /\ UNCHANGED <<socket, binary, svFaults>>

-----------------------------------------------------------------------------
(* bind_local_socket and serve *)

\* prepare_socket_path: a path that answers is left alone, any other is to be removed.
CheckSocket(p) ==
  /\ sv[p].pc = "check"
  /\ ServerGoes(p, IF Listening(socket) THEN "bind" ELSE "clear")
  /\ UNCHANGED <<lock, socket, binary, svFaults>>

ClearSocket(p) ==
  /\ sv[p].pc = "clear"
  /\ socket' = "absent"
  /\ ServerGoes(p, "bind")
  /\ UNCHANGED <<lock, binary, svFaults>>

\* UnixListener::bind; a path in use is an error that gives the lock back.
Bind(p) ==
  /\ sv[p].pc = "bind"
  /\ IF socket = "absent"
     THEN socket' = p /\ ServerGoes(p, "load")
     ELSE ServerGoes(p, "release") /\ UNCHANGED socket
  /\ UNCHANGED <<lock, binary, svFaults>>

\* AgentRegistry::load, then the accept loop; an error gives the lock back.
Load(p) ==
  /\ sv[p].pc = "load"
  /\ \/ ServerGoes(p, "serving") /\ UNCHANGED svFaults
     \/ /\ svFaults < MaxServerFaults /\ svFaults' = svFaults + 1
        /\ ServerGoes(p, "release")
  /\ UNCHANGED <<lock, socket, binary>>

\* web.stop and agents.stop have ended; nothing is accepted meanwhile.
Stopped(p) ==
  /\ sv[p].pc = "stopping"
  /\ ServerGoes(p, "release")
  /\ UNCHANGED <<lock, socket, binary, svFaults>>

\* ServerLock::release: reads the file first and removes it only when it names this process.
ReleaseLock(p) ==
  /\ sv[p].pc = "release"
  /\ ServerGoes(p, IF Owner = p THEN "unlink" ELSE "gone")
  /\ UNCHANGED <<lock, socket, binary, svFaults>>

UnlinkLock(p) ==
  /\ sv[p].pc = "unlink"
  /\ lock' = NoLock
  /\ ServerGoes(p, "gone")
  /\ UNCHANGED <<socket, binary, svFaults>>

\* A crash, or a kill from outside, leaves both files as they are.
Crash(p) ==
  /\ Running(p)
  /\ svFaults < MaxServerFaults /\ svFaults' = svFaults + 1
  /\ ServerGoes(p, "gone")
  /\ UNCHANGED <<lock, socket, binary>>

-----------------------------------------------------------------------------
(* agentctl: ensure_running (every command) and self install *)

Begin(c) ==
  /\ cl[c].pc = "idle"
  /\ \E mode \in {"ensure", "install"} :
       Move(sv, [cl EXCEPT ![c].pc = "ping", ![c].mode = mode])
  /\ UNCHANGED <<lock, socket, binary, svFaults>>

\* What send_with_timeout can bring back over the socket path.
Answers == IF socket \in Serving THEN {"ok"}
           ELSE IF Listening(socket) THEN {"timeout", "closed"} ELSE {"io"}

\* The first ping of ensure_running and of stop_if_running.
PingFirst(c) ==
  /\ cl[c].pc = "ping"
  /\ \E answer \in Answers :
       CASE answer = "ok" /\ cl[c].mode = "ensure"  -> ClientGoes(c, "done")
         [] answer = "ok" /\ cl[c].mode = "install" ->
              Move(sv, [cl EXCEPT ![c].pc = "shutdown", ![c].pid = socket])
         [] answer = "timeout" -> ClientGoes(c, "timedOut")
         [] answer = "closed"  -> ClientGoes(c, "failed")
         [] answer = "io" -> ClientGoes(c, IF cl[c].mode = "ensure" THEN "spawn" ELSE "install")
  /\ UNCHANGED <<lock, socket, binary, svFaults>>

\* cleanup_unowned_server_socket, and stop_unresponsive_lock_owner when the lock has a live owner.
TimedOut(c) ==
  /\ cl[c].pc = "timedOut"
  /\ CASE ~Running(Owner) -> ClientGoes(c, "clearSocket")
       [] Running(Owner) /\ cl[c].mode = "ensure" -> ClientGoes(c, "failed")
       [] OTHER -> Move(sv, [cl EXCEPT ![c].pc = "kill", ![c].pid = Owner])
  /\ UNCHANGED <<lock, socket, binary, svFaults>>

\* server.shutdown over the socket, answered by whoever listens there now.
Shutdown(c) ==
  /\ cl[c].pc = "shutdown"
  /\ \E answer \in Answers :
       CASE answer = "ok" -> Move([sv EXCEPT ![socket].pc = "stopping"], [cl EXCEPT ![c].pc = "exit"])
         [] answer = "timeout" -> ClientGoes(c, "exit")
         [] answer = "closed" -> ClientGoes(c, "failed")
         [] answer = "io" -> Move(sv, [cl EXCEPT ![c].pc = "install", ![c].stopped = TRUE])
  /\ UNCHANGED <<lock, socket, binary, svFaults>>

\* wait_for_process_exit, for a bounded time, on the pid of the first answer.
AwaitExit(c) ==
  /\ cl[c].pc = "exit"
  /\ ClientGoes(c, IF Running(cl[c].pid) THEN "kill" ELSE "clearSocket")
  /\ UNCHANGED <<lock, socket, binary, svFaults>>

\* terminate_process: SIGTERM ends the server where it stands; a pid that is gone is an error.
Terminate(c) ==
  /\ cl[c].pc = "kill"
  /\ IF Running(cl[c].pid)
     THEN Move([sv EXCEPT ![cl[c].pid].pc = "gone"], [cl EXCEPT ![c].pc = "terminate"])
     ELSE ClientGoes(c, "failed")
  /\ UNCHANGED <<lock, socket, binary, svFaults>>

\* The second wait, after the signal.
AwaitTerminated(c) ==
  /\ cl[c].pc = "terminate"
  /\ ClientGoes(c, IF Running(cl[c].pid) THEN "failed" ELSE "clearSocket")
  /\ UNCHANGED <<lock, socket, binary, svFaults>>

\* remove_socket_and_lock, one remove_file after the other, both by name.
RemoveSocket(c) ==
  /\ cl[c].pc = "clearSocket"
  /\ socket' = "absent"
  /\ ClientGoes(c, "clearLock")
  /\ UNCHANGED <<lock, binary, svFaults>>
RemoveLock(c) ==
  /\ cl[c].pc = "clearLock"
  /\ lock' = NoLock
  /\ Move(sv, [cl EXCEPT ![c].pc = IF cl[c].mode = "ensure" THEN "spawn" ELSE "install",
                         ![c].stopped = cl[c].pid # "absent"])
  /\ UNCHANGED <<socket, binary, svFaults>>

\* install_binary: copied beside the destination and renamed over it.
ReplaceBinary == binary' = "new"
\* install's try_run starts a server again only when it has stopped one.
AfterInstall(c) == IF cl[c].stopped THEN "spawn" ELSE "done"
\* install_current_agentctl
Install(c) ==
  /\ cl[c].pc = "install"
  /\ ReplaceBinary
  /\ ClientGoes(c, AfterInstall(c))
  /\ UNCHANGED <<lock, socket, svFaults>>

\* spawn_detached: a process of its own, which outlives the client.
Detached(p) == [sv EXCEPT ![p].pc = "open", ![p].bin = binary]
\* start and start_server_from, from the binary at the installed path.
Spawn(c) ==
  /\ cl[c].pc = "spawn"
  /\ \E p \in Servers : sv[p].pc = "none" /\ Move(Detached(p), [cl EXCEPT ![c].pc = "wait"])
  /\ UNCHANGED <<lock, socket, binary, svFaults>>

\* The pings after a start: only an I/O error is tried again, START_RETRY_COUNT times.
AwaitPing(c) ==
  /\ cl[c].pc = "wait"
  /\ \E answer \in Answers :
       ClientGoes(c, IF answer = "ok" THEN "done" ELSE "failed")
  /\ UNCHANGED <<lock, socket, binary, svFaults>>

ServerStep(p) == \/ OpenLock(p) \/ WriteLock(p) \/ ReadOwner(p) \/ Probe(p) \/ RemoveStale(p)
                 \/ CheckSocket(p) \/ ClearSocket(p) \/ Bind(p) \/ Load(p)
                 \/ Stopped(p) \/ ReleaseLock(p) \/ UnlinkLock(p)
ClientStep(c) == \/ Begin(c) \/ PingFirst(c) \/ TimedOut(c) \/ Shutdown(c) \/ AwaitExit(c)
                 \/ Terminate(c) \/ AwaitTerminated(c) \/ RemoveSocket(c) \/ RemoveLock(c)
                 \/ Install(c) \/ Spawn(c) \/ AwaitPing(c)
ProcNext == \/ \E p \in Servers : ServerStep(p) \/ Crash(p)
            \/ \E c \in Clients : ClientStep(c)
ProcSpec == ProcInit /\ [][ProcNext]_procVars

-----------------------------------------------------------------------------
\* The files and the program counters range over what the code can write.
ProcTypeOK ==
  /\ lock \in [by : Servers, written : BOOLEAN] \cup {NoLock}
  /\ socket \in {"absent"} \cup Servers
  /\ binary \in {"old", "new"} /\ overlap \in BOOLEAN /\ svFaults \in 0..MaxServerFaults
  /\ \A p \in Servers : sv[p].pc \in ServerPcs /\ sv[p].owner \in {"absent"} \cup Servers
                        /\ sv[p].bin \in {"old", "new"}
  /\ \A c \in Clients : cl[c].pc \in ClientPcs /\ cl[c].pid \in {"absent"} \cup Servers

(***************************************************************************)
(* What lock and socket are for, through every order of starts, crashes,   *)
(* stops, kills and installs in which no two processes were inside the     *)
(* unprotected sections at once (acquire_server_lock to bind, release,     *)
(* remove_socket_and_lock): at most one server serves, its pid is in the   *)
(* lock, and the socket path leads to it.                                  *)
(***************************************************************************)
ServerReachable ==
  ~overlap => /\ Cardinality(Serving) <= 1
              /\ \A p \in Serving : Owner = p /\ socket = p
=============================================================================
