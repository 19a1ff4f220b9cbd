--------------------------- MODULE MediatedSecrets ---------------------------
(***************************************************************************)
(* The secrets of the host that a guest only knows by placeholder          *)
(* (agentdp-server/src/host/seed.rs, qemu/lifecycle.rs, agent/runtime.rs,  *)
(* agentdp-core/src/provisioning).  The guest's environment gets its       *)
(* placeholders once, when the instance is created; the network thread     *)
(* replaces a placeholder by the secret in what the guest sends.  The      *)
(* bindings are collected again whenever the network is attached and by a  *)
(* periodic refresh, from files of the host that change meanwhile, and     *)
(* only the placeholders are stored.  A placeholder stands for its random  *)
(* text; the secrets' values and allowed hosts are left out.               *)
(***************************************************************************)
EXTENDS Naturals, Sequences, FiniteSets, FiniteSetsExt, Functions

CONSTANTS EnvNames,          \* the mediated variables, one required group
          Token,             \* the secret of the host's auth file
          MaxLines, MaxPlaceholders,
          MaxTasks, MaxEdits, MaxGens, MaxSecretFaults   \* bounds: tasks, host edits, generations, faults

VARIABLES
    hostEnv,    \* the .env file beside the manifest: its assignments of mediated variables,
                \* none when the file is missing (external)
    hostAuth,   \* the auth file: "missing", without a token or with one (external)
    machine,    \* "absent", "stopped" or "running"
    guestEnv,   \* the placeholder each variable has in the guest, 0 without one
    guestFile,  \* the placeholder in the guest's auth file, 0 without one
    stored,     \* mediated_secrets of the document: pairs of a name and a placeholder
    saved,      \* the document on disk: [made, stored]
    net,        \* the network thread: its bindings, and those it was started with: [on, live, first]
    secretFile, \* secret_host_files: [some, ph]
    secretTask, \* the refresh, the work and the shell that collect, and the host inputs task
    secretLog   \* bounds and history: [tasks, edits, gens, faults, steady]

secretVars == <<hostEnv, hostAuth, machine, guestEnv, guestFile, stored, saved, net, secretFile,
                secretTask, secretLog>>

Collectors == {"refresh", "work", "shell"}
Names == EnvNames \cup {Token}
EnvFiles == UNION {[1..n -> EnvNames] : n \in 0..MaxLines}
NetOff == [on |-> FALSE, live |-> {}, first |-> {}]
NoFiles == [some |-> FALSE, ph |-> 0]
NoTask == [at |-> "idle", for |-> "", state |-> {}, live |-> {}, ph |-> 0, current |-> TRUE]

Bindings == Names \X (1..MaxPlaceholders)
NamesOf(bindings) == {b[1] : b \in bindings}

SecretTypeOK ==
    /\ hostEnv \in EnvFiles /\ hostAuth \in {"missing", "empty", "token"}
    /\ machine \in {"absent", "stopped", "running"}
    /\ guestEnv \in [EnvNames -> 0..MaxPlaceholders] /\ guestFile \in 0..MaxPlaceholders
    /\ stored \subseteq Bindings /\ saved.stored \subseteq Bindings /\ net.live \subseteq Bindings
    /\ \A t \in Collectors \cup {"inputs"} :
          /\ secretTask[t].at \in {"idle", "collect", "attach", "starting", "stopping", "ok", "failed"}
          /\ secretTask[t].at = "idle" => secretTask[t] = NoTask

SecretInit ==
    /\ hostEnv \in EnvFiles /\ hostAuth \in {"missing", "empty", "token"}
    /\ machine = "absent" /\ guestEnv = [n \in EnvNames |-> 0] /\ guestFile = 0
    /\ stored = {} /\ saved = [made |-> FALSE, stored |-> {}] /\ net = NetOff /\ secretFile = NoFiles
    /\ secretTask = [t \in Collectors \cup {"inputs"} |-> NoTask]
    /\ secretLog = [tasks |-> 0, edits |-> 0, gens |-> 0, faults |-> 0, steady |-> {}]
-----------------------------------------------------------------------------
\* What anybody still holds; a placeholder is 128 random bits, so a new one is none of these.
Held ==
    {b[2] : b \in stored \cup saved.stored \cup net.live \cup net.first
                  \cup UNION {secretTask[t].state \cup secretTask[t].live : t \in Collectors}}
    \cup {guestEnv[n] : n \in EnvNames} \cup {guestFile, secretFile.ph, secretTask["inputs"].ph}

\* placeholder_for: new placeholders, the first for the token and the others for the lines.
\* Only the order of two that belong to one name shows, so the others are taken in order.
Minted ==
    LET free == (1..MaxPlaceholders) \ Held
        a == Min(free)
        b == Min(free \ {a})
        c == Min(free \ {a, b})
    IN  IF Cardinality(free) < 3 THEN {}
        ELSE {<<a, b, c>>} \cup (IF Cardinality(Range(hostEnv)) < Len(hostEnv) THEN {<<a, c, b>>} ELSE {})

\* SecretBindings::placeholder_for_name: the bindings are ordered by placeholder.
PlaceholderForName(bindings, name) ==
    LET phs == {b[2] : b \in {x \in bindings : x[1] = name}} IN IF phs = {} THEN 0 ELSE Min(phs)

\* Mutant: every collection mints new placeholders.
ReusedNever(existing, name, fresh) == fresh

\* SecretBinding::new_with_placeholder: an existing placeholder is kept.
Reused(existing, name, fresh) ==
    IF PlaceholderForName(existing, name) = 0 THEN fresh ELSE PlaceholderForName(existing, name)

\* materialize_custom_env: the placeholder of every line.
LinePlaceholders(existing, mint) ==
    [i \in 1..Len(hostEnv) |-> Reused(existing, hostEnv[i], mint[i + 1])]

\* The auth file's placeholder: an empty or absent token stays as it is.
TokenPlaceholder(existing, mint) == IF hostAuth = "token" THEN Reused(existing, Token, mint[1]) ELSE 0

\* materialize_host_input_file: the auth file has to be there, with a token or without.
AuthReadable == hostAuth # "missing"

\* The collection fails on a missing file and when no variable of the required group is
\* assigned (and on an empty value, which is left out: it fails like a missing file).
Collectable == AuthReadable /\ hostEnv # <<>>

\* collect_runtime_secrets, and the secrets of collect.
Collected(existing, mint) ==
    {<<hostEnv[i], LinePlaceholders(existing, mint)[i]>> : i \in 1..Len(hostEnv)}
    \cup (IF hostAuth = "token" THEN {<<Token, TokenPlaceholder(existing, mint)>>} ELSE {})

\* The guest's environment: the last assignment of a variable is the one that counts.
EnvOf(placeholders) ==
    [n \in EnvNames |->
        LET at == {i \in 1..Len(hostEnv) : hostEnv[i] = n}
        IN  IF at = {} THEN 0 ELSE placeholders[Max(at)]]

\* The names that one line, or the auth file, gives a placeholder at creation.
AssignedOnce ==
    {n \in EnvNames : Cardinality({i \in 1..Len(hostEnv) : hostEnv[i] = n}) = 1}
    \cup (IF hostAuth = "token" THEN {Token} ELSE {})

\* The document takes the bindings of a task.
Store(bindings) ==
    /\ stored' = bindings
    /\ secretLog' = [secretLog EXCEPT !.steady = @ \cap NamesOf(bindings)]
-----------------------------------------------------------------------------
\* The files of the host are edited at any time.
HostEdit ==
    /\ secretLog.edits < MaxEdits /\ secretLog' = [secretLog EXCEPT !.edits = @ + 1]
    /\ \/ hostEnv' \in EnvFiles \ {hostEnv} /\ UNCHANGED hostAuth
       \/ hostAuth' \in {"missing", "empty", "token"} \ {hostAuth} /\ UNCHANGED hostEnv
    /\ UNCHANGED <<machine, guestEnv, guestFile, stored, saved, net, secretFile, secretTask>>

\* collect, and the create whose seed media carries the files; a failure leaves nothing.
CreateInstance ==
    /\ machine = "absent" /\ Collectable
    /\ \E mint \in Minted :
          /\ guestEnv' = EnvOf(LinePlaceholders({}, mint)) /\ guestFile' = TokenPlaceholder({}, mint)
          /\ stored' = Collected({}, mint)
    /\ machine' = "stopped" /\ secretLog' = [secretLog EXCEPT !.steady = AssignedOnce]
    /\ UNCHANGED <<hostEnv, hostAuth, saved, net, secretFile, secretTask>>

\* The document is committed.
SaveDocument ==
    /\ saved' = [made |-> machine # "absent", stored |-> stored] /\ saved' # saved
    /\ UNCHANGED <<hostEnv, hostAuth, machine, guestEnv, guestFile, stored, net, secretFile, secretTask, secretLog>>

\* A new manifest generation: the files to write are collected anew, and a refresh
\* under way is of the old generation.
NewGeneration ==
    /\ secretLog.gens < MaxGens /\ secretLog' = [secretLog EXCEPT !.gens = @ + 1]
    /\ secretFile' = NoFiles
    /\ secretTask' = [secretTask EXCEPT !["refresh"].current = secretTask["refresh"].at = "idle"]
    /\ UNCHANGED <<hostEnv, hostAuth, machine, guestEnv, guestFile, stored, saved, net>>

Idle(t) == secretTask[t].at = "idle"
Begun(t, at, for) == secretTask' = [secretTask EXCEPT ![t] = [NoTask EXCEPT !.at = at, !.for = for, !.state = stored]]

\* A task begins with a copy of the document: the refresh, the instance's work (start,
\* reconcile or stop), an exec or a shell.
BeginCollector ==
    /\ secretLog.tasks < MaxTasks /\ secretLog' = [secretLog EXCEPT !.tasks = @ + 1]
    /\ \/ machine = "running" /\ Idle("refresh") /\ Idle("inputs") /\ Idle("work")
             /\ Begun("refresh", "collect", "refresh")
       \/ machine = "running" /\ Idle("work")
             /\ (Begun("work", "collect", "reconcile") \/ Begun("work", "stopping", "stop"))
       \/ machine = "stopped" /\ Idle("work") /\ Begun("work", "collect", "start")
       \/ machine = "running" /\ Idle("shell") /\ Begun("shell", "collect", "shell")
    /\ UNCHANGED <<hostEnv, hostAuth, machine, guestEnv, guestFile, stored, saved, net, secretFile>>

\* start, reconcile, ensure_attached and reconcile_runtime_secrets collect; reconcile and
\* ensure_attached only when no network runs. Start and reconcile put the placeholders in
\* their copy of the document at once.
Collect(t) ==
    LET task == secretTask[t] IN
    /\ task.at = "collect"
    /\ \/ /\ task.for \in {"reconcile", "shell"} /\ net.on
          /\ secretTask' = [secretTask EXCEPT ![t].at = "ok"]
       \/ /\ task.for \in {"refresh", "start"} \/ ~net.on
          /\ ~Collectable /\ secretTask' = [secretTask EXCEPT ![t].at = "failed"]
       \/ /\ task.for \in {"refresh", "start"} \/ ~net.on
          /\ Collectable
          /\ \E mint \in Minted :
                LET live == Collected(task.state, mint) IN
                secretTask' = [secretTask EXCEPT ![t].at = "attach", ![t].live = live,
                                 ![t].state = IF t = "work" THEN live ELSE @,
                                 ![t].ph = TokenPlaceholder(task.state, mint)]
    /\ UNCHANGED <<hostEnv, hostAuth, machine, guestEnv, guestFile, stored, saved, net, secretFile, secretLog>>

\* ensure_instance_network_attached and update_instance_network_secrets: a network that
\* runs takes the refresh's bindings and is left alone by the others; a start replaces it.
Attach(t) ==
    LET task == secretTask[t] IN
    /\ task.at = "attach"
    /\ IF net.on /\ task.for # "start"
       THEN /\ net' = IF task.for = "refresh" THEN [net EXCEPT !.live = task.live] ELSE net
            /\ secretTask' = [secretTask EXCEPT ![t].at = "ok"]
       ELSE net' = NetOff /\ secretTask' = [secretTask EXCEPT ![t].at = "starting"]
    /\ UNCHANGED <<hostEnv, hostAuth, machine, guestEnv, guestFile, stored, saved, secretFile, secretLog>>

\* InstanceNetwork::start after the configuration was awaited: a network that runs by now
\* is kept, with the bindings it has.
StartNetwork(t) ==
    /\ secretTask[t].at = "starting"
    /\ net' = IF net.on THEN net ELSE [on |-> TRUE, live |-> secretTask[t].live, first |-> secretTask[t].live]
    /\ secretTask' = [secretTask EXCEPT ![t].at = "ok"]
    /\ UNCHANGED <<hostEnv, hostAuth, machine, guestEnv, guestFile, stored, saved, secretFile, secretLog>>

\* Attaching fails, a command queue is full, QEMU does not start, or the control session
\* to the guest breaks.
TaskFails(t) ==
    /\ secretTask[t].at \in {"attach", "starting"} /\ secretLog.faults < MaxSecretFaults
    /\ secretLog' = [secretLog EXCEPT !.faults = @ + 1]
    /\ secretTask' = [secretTask EXCEPT ![t].at = "failed"]
    /\ net' = IF secretTask[t].for = "start" THEN NetOff ELSE net
    /\ UNCHANGED <<hostEnv, hostAuth, machine, guestEnv, guestFile, stored, saved, secretFile>>

StopMachine ==
    /\ secretTask["work"].at = "stopping" /\ net' = NetOff
    /\ secretTask' = [secretTask EXCEPT !["work"].at = "ok"]
    /\ UNCHANGED <<hostEnv, hostAuth, machine, guestEnv, guestFile, stored, saved, secretFile, secretLog>>

\* handle_runtime_secrets_completion: only a refresh of this generation that succeeded counts.
EndRefresh ==
    LET task == secretTask["refresh"] IN
    /\ task.at \in {"ok", "failed"} /\ secretTask' = [secretTask EXCEPT !["refresh"] = NoTask]
    /\ IF task.current /\ task.at = "ok"
       THEN Store(task.live) /\ secretFile' = [some |-> TRUE, ph |-> task.ph]
       ELSE UNCHANGED <<stored, secretFile, secretLog>>
    /\ UNCHANGED <<hostEnv, hostAuth, machine, guestEnv, guestFile, saved, net>>

\* complete_instance_start, _reconcile and _stop: the document takes the task's copy
\* whatever the result and the generation.
EndWork ==
    LET task == secretTask["work"] IN
    /\ task.at \in {"ok", "failed"} /\ Store(task.state) /\ secretTask' = [secretTask EXCEPT !["work"] = NoTask]
    /\ machine' = IF task.at = "failed" THEN machine
                  ELSE CASE task.for = "start" -> "running" [] task.for = "stop" -> "stopped" [] OTHER -> machine
    /\ UNCHANGED <<hostEnv, hostAuth, guestEnv, guestFile, saved, net, secretFile>>

\* An exec or a shell hands nothing back to the document.
EndShell ==
    /\ secretTask["shell"].at \in {"ok", "failed"} /\ secretTask' = [secretTask EXCEPT !["shell"] = NoTask]
    /\ UNCHANGED <<hostEnv, hostAuth, machine, guestEnv, guestFile, stored, saved, net, secretFile, secretLog>>

\* collect_runtime_host_files: of the files, those the refresh made are kept last.
RuntimeHostFiles == secretFile.ph

\* reconcile_instance_host_inputs: the files the refresh left are written to the guest.
BeginInputs ==
    /\ machine = "running" /\ secretFile.some /\ \A t \in DOMAIN secretTask : Idle(t)
    /\ secretTask' = [secretTask EXCEPT !["inputs"] = [NoTask EXCEPT !.at = "ok", !.ph = RuntimeHostFiles]]
    /\ UNCHANGED <<hostEnv, hostAuth, machine, guestEnv, guestFile, stored, saved, net, secretFile, secretLog>>

\* reconcile_host_inputs: the file is written, or the write fails with the session.
WriteGuestFile ==
    /\ secretTask["inputs"].at = "ok" /\ secretTask' = [secretTask EXCEPT !["inputs"] = NoTask]
    /\ \/ machine = "running" /\ guestFile' = secretTask["inputs"].ph /\ UNCHANGED secretLog
       \/ /\ secretLog.faults < MaxSecretFaults /\ secretLog' = [secretLog EXCEPT !.faults = @ + 1]
          /\ UNCHANGED guestFile
       \/ machine # "running" /\ UNCHANGED <<guestFile, secretLog>>
    /\ UNCHANGED <<hostEnv, hostAuth, machine, guestEnv, stored, saved, net, secretFile>>

\* The network thread ends by itself.
NetworkLost ==
    /\ net.on /\ net' = NetOff
    /\ secretLog.faults < MaxSecretFaults /\ secretLog' = [secretLog EXCEPT !.faults = @ + 1]
    /\ UNCHANGED <<hostEnv, hostAuth, machine, guestEnv, guestFile, stored, saved, secretFile, secretTask>>

\* reset_dataplane: a reconnect of the guest goes back to what the thread was started with.
GuestReconnects ==
    /\ net.live # net.first /\ net' = [net EXCEPT !.live = net.first]
    /\ secretLog.faults < MaxSecretFaults /\ secretLog' = [secretLog EXCEPT !.faults = @ + 1]
    /\ UNCHANGED <<hostEnv, hostAuth, machine, guestEnv, guestFile, stored, saved, secretFile, secretTask>>

\* The server restarts from the documents on disk; an instance that is not there is made again.
CrashServer ==
    /\ secretLog.faults < MaxSecretFaults
    /\ stored' = saved.stored /\ net' = NetOff /\ secretFile' = NoFiles
    /\ secretTask' = [t \in DOMAIN secretTask |-> NoTask]
    /\ IF saved.made
       THEN UNCHANGED <<machine, guestEnv, guestFile>> /\ secretLog' = [secretLog EXCEPT !.faults = @ + 1]
       ELSE /\ machine' = "absent" /\ guestEnv' = [n \in EnvNames |-> 0] /\ guestFile' = 0
            /\ secretLog' = [secretLog EXCEPT !.faults = @ + 1, !.steady = {}]
    /\ UNCHANGED <<hostEnv, hostAuth, saved>>

SecretNext ==
    \/ HostEdit \/ CreateInstance \/ SaveDocument \/ NewGeneration \/ BeginCollector
    \/ \E t \in Collectors : Collect(t) \/ Attach(t) \/ StartNetwork(t) \/ TaskFails(t)
    \/ StopMachine \/ EndRefresh \/ EndWork \/ EndShell \/ BeginInputs \/ WriteGuestFile
    \/ NetworkLost \/ GuestReconnects \/ CrashServer

SecretSpec == SecretInit /\ [][SecretNext]_secretVars
-----------------------------------------------------------------------------
GuestPlaceholder(n) == IF n = Token THEN guestFile ELSE guestEnv[n]

\* A secret the host has had, under one assignment, in every collection since the instance
\* was created keeps the placeholder the guest knows: it is the one stored, and the one any
\* network has a binding for, whether a refresh, a reconcile, a start or a shell gave it its
\* bindings, whatever overlaps, and also after a reconnect or a restart.
PlaceholderKept ==
    \A n \in secretLog.steady :
        /\ <<n, GuestPlaceholder(n)>> \in stored
        /\ \A b \in net.live : b[1] = n => b[2] = GuestPlaceholder(n)
=============================================================================
