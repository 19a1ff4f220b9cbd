# agentdp: TLA+ models, model checking and proofs

agentdp runs coding agents in QEMU virtual machines. A server process keeps one
control loop per agent; the loop turns a manifest into a base image and a number
of VMs ("instances"), repairs them, and survives restarts from the documents it
writes. This directory models the parts of it where the order of events decides
whether it is right, checks them with TLC on small instances, and proves what it
can for every instance with TLAPS.

Paths below are relative to `src/src/` of the repository unless they name a file
of this directory.

## 1. Inventory

| Part | State it keeps | Operations | How it meets the others |
|---|---|---|---|
| Agent control loop, `apps/agentdp-server/src/agent/runtime.rs` | the agent document, one cell per instance (document, work slot, secrets slot, host-inputs slot, session), the base state, pending responses | apply, scale, delete, exec; one handler per kind of completed task; `reconcile`; `commit_state`; load after a restart | commands and completions arrive in one inbox; spawns tasks; writes documents |
| Agent documents, `agent/documents.rs` | private and persisted copy of each document | derive the status, dirty check, persist | called once per turn by the loop |
| Agent document, `core/agentdp-core/src/agent/{document,status,identity}.rs` | generation, desired state, base record, instance status | `from_manifest`, `from_manifest_after_existing`, `set_replicas_if_changed`, `mark_*` | data of the loop, read by every client |
| Wait conditions, `agent/wait.rs` | none | `wait_status` | what a client that waits is told |
| Registry and requests, `agent/registry.rs`, `server/{dispatch,request}.rs` | the loops by name; connections, streams and answers under way | spawn or find a loop; document, wait, watch, exec, delete | hands commands to the loop, reads its streams |
| Server process, `server.rs`, `server/lock.rs`, `apps/agentdp-cli` | the lock, the socket, the installed binary | start, stop, upgrade | processes that share nothing but files |
| Event log, `agent/event_log.rs` | numbered events on disk | append, inspect, repair, read a tail | the loop numbers, a writer task appends |
| VM backend, `qemu/`, `backends/agentdp-qemu`, `agent/base.rs` | QEMU processes, pid files, disks, the base document, copies of `status.backend` | create, start, reconcile, stop, remove, build a base | tasks of the loop; each ends in one completion |
| Guest bootstrap, `apps/agentdp-guest/src/system`, `qemu/control.rs` | the record of steps in the guest, the host's session | run the plan, report, retry, write files | a serial channel that may break |
| Manifest and plan, `core/agentdp-core/src/{manifest,provisioning}` | none | validate, assign ports, render two bootstrap plans | client, server and guest all use it |
| Host services, `host/{credentials,tailscale}.rs` | refresh failures; recorded routes | refresh tokens, serve and remove routes | files and a daemon other programs use too |
| Guest services, `apps/agentdp-guest/src/{user,containers}` | registry, seen events and queue of pull requests; connections to Docker | poll, register, deliver; proxy requests | files, agent sessions, the container daemon |
| Instance network, `services/instance_network` | the thread's handle, its event ring, the observation | start, stop, secrets, drain | between the loop and the network thread |
| Network thread, `libs/agentdp-network/src/{event_loop,drive,network,timer,guest}.rs` | session generation, queues, timers, budget, status | connect, two drive phases per turn, commands, reconnect | drives everything below it |
| Data path, `libs/agentdp-network/src/{egress,ingress,gateway,application,buffers,reactor}` | flows, proxies, attributed addresses, buffers, tokens | one pass per ready flow, cut short by the budget anywhere | reactor events in, guest frames and sockets out |
| Rings and channels, `libs/agentdp-ds` | cursors, slots, queues | send, receive, drop | below everything above |
| Editor extension | none | | a client of the command line |

What is hard here, and hard to test:

* tasks overlap commands: any completion may arrive after the generation it was
  started for is gone, and several tasks hold copies of one status;
* the loop awaits its writes, and tasks go on meanwhile: an instance directory
  must not be removed and written at once;
* the server may die between two writes or inside one, and an answer given to a
  client must survive it;
* deletion has to end whatever is in flight, and must wait for what it may not
  interrupt;
* the rings between threads have no lock: a slot must not be written while it is
  read, and the end of the stream must not hide the last value;
* every turn of the network thread has a budget and every queue a limit: work cut
  short in the middle must be found again, without a poll that looks at everything;
* edges are reported once, and tokens, slots and queues outlive what they were made
  for;
* QEMU, the host's own tools, a second `agentctl` and the guest act on the same
  files, sockets and channels with nothing that orders them;
* what is shown of work done elsewhere is put together from events some of which
  are dropped.

The list with source lines and the properties that cover each is `hazards` in
`PROJECT.json`.

## 2. Modules

| Module | Models | Used by |
|---|---|---|
| `AgentDocument` | the agent document, its revisions, and `wait_status` | everything of the agent |
| `AgentInstance` | the cell of one instance: projection of the desired state, the reconcile functions, the handlers of completions, exec | `AgentController` |
| `AgentController` | the loop: commands, turns, base, tasks with their effects, commit, crash, restart; properties and fairness | `MCAgent` |
| `MCAgent` | manifests and auth bindings for TLC | the agent runs |
| `BoundedQueue` | what an SPSC queue promises | `Spsc` (refinement) |
| `Spsc` | `sync/spsc.rs`, one action per access to shared memory | `MCNetwork` |
| `AgentProofs`, `AgentAckProofs`, `AgentReportProofs` | proofs about the controller: its invariants, acknowledged commands, and what its document reports | |
| `SpscProofs`, `EventLoopProofs` | proofs about the cross-thread ring and the network thread | |
| `DataPathProofs` | proofs about `Ring`, `Drive` and `Reactor` | |
| `HostProofs` | proofs about `QemuVm`, `InstanceNetwork` and `BootstrapProgress` | |
| `ServiceProofs` | proofs about `HostCredentials`, `TailscaleRoutes` and `PrNotifications` | |
| `NetworkLifecycle` | the states an instance network may report, and in which order | `EventLoop` (refinement) |
| `EventLoop` | the network thread: connection loop, two drive phases, timers, commands, reconnect | run `network_event_loop` |
| `Drive` | the budget and the report of one turn, and each drive operation | `MCNetwork` |
| `IoSlot` | readiness of one source: interest, latch, probes (`readiness.rs`) | `Drive`, `Reactor`, `TcpEgress`, `TlsProxy`, `UdpGateway` |
| `Reactor` | tokens, registration, suspension and edges (`reactor/mio`) | `MCNetwork` |
| `TcpEgress`, `TlsProxy`, `HostPorts` | the flows of the data path | `MCNetwork`; `TlsProxy` also run `tls_upload_stalls` |
| `UdpGateway` | UDP flows, DNS and what addresses it admits | `MCServices` |
| `Http1Relay` | HTTP/1 framing and secrets over cut streams | `MCNetwork` |
| `GuestFrames` | the frame pool, the device and QEMU's stream | `MCNetwork` |
| `Ring` | `sync/ring.rs`, slots filled and read in place | `MCHost` |
| `DockerProxy` | one connection of the guest's Docker proxy | `MCNetwork` |
| `InstanceNetwork`, `NetworkStatus` | start, stop and drain of a network; the status rebuilt from its events | `MCServices`, `MCHost` |
| `QemuVm`, `GuestBootstrap`, `BootstrapProgress` | the machine, the bootstrap inside it, and what the status says of it | `MCServices`; `GuestBootstrap` `MCHost` |
| `ManifestPlan` | validation, host ports and the two bootstrap plans | `MCHost` |
| `ServerProcess`, `Requests`, `EventLog` | server processes, the way of a request, the event log | `MCHost` |
| `MediatedSecrets` | the host's secrets and the placeholders the guest knows them by | `MCHost` |
| `TailscaleRoutes`, `HostCredentials`, `PrNotifications` | routes, tokens, pull request notifications | `MCServices` |
| `MCNetwork`, `MCServices`, `MCHost` | the suites: the components above, each on its own instance | their runs |

### The controller

One turn of the loop (`spawn_agent_loop`) is one action: it handles an input,
then `Turn` reconciles and derives the documents, exactly in the order of
`reconcile`: project the desired state, refresh the observed generation, runtime
secrets, then the branch for deletion, inactivity, or activity, then host inputs.
Everything in it is synchronous in the code, so nothing can interleave. Then
`pc = "commit"` while the writes are awaited one at a time, agent document first,
instances in id order. `FinishTask` is the end of a spawned task and its effect
on the VM, the directory and its copy of `status.backend`; the completion is
handled in a later turn (`CompleteTask`). Tasks, VMs and crashes interleave with
every write.

An instance cell is `absent`, `starting` (creation in flight or waiting to be
retried) or `running` (it has a document, whatever its phase). `inst[i].tasks` is
the set of its tasks in flight, each with the id and generation it was given, the
copy of the backend record it took, and its result.

`Crash` drops all memory; a write in progress leaves the old file or a torn one
(`tokio::fs::write` is not atomic). `Restart` loads the documents, or refuses.

Abstractions:

* A base key is a function of the template, so the template stands for it.
* Deadlines (`next_at`, `retry_at`, cleanup and bootstrap retries) are a choice:
  in each turn a deadline may or may not have passed.
* Work ids grow without bound in the code. The model reuses the smallest id no
  task and no slot of that instance holds, which tells apart exactly what a
  comparison with a live id can tell apart.
* Any finished task may be handled next: more orders than the FIFO inbox allows.
* `moved` is an apply of the same manifest from another path; `expired` a
  credential that has expired.
* Left out: read-only commands, streams and events; ports, tailscale status and
  network observations in the documents; timestamps in `status.work` (they make
  some writes of the code happen that the model skips). Network events cannot
  dirty a document during its removal: `InstanceNetwork::stop` awaits the output
  task before the stop completes, and the turn of that completion drains them.
* A stop that finds neither a recorded pid nor a pid file ends nothing and succeeds
  (`qemu/lifecycle.rs:339`). Without a crash it does not meet that case: on Unix QEMU is
  daemonised (`:969`), so a launch returns only after the pid file is there. After one it
  may, and `StopOutcomes` then may leave the machine on. The machine from before a crash
  and that of the instance created again are one `vm[i]`; `QemuVm` tells them apart.
* Not represented: `process_status` errors, and the detached launch of Windows, whose pid
  file may never appear.

### The ring

Each action is one access to shared memory. A load of the other side's cursor may
return any value it has held since this side last synchronised with it
(`LoadCursor`), which is what acquire and release promise and no more. Cursors
wrap at `CursorSpace`. `ImplementsQueue` is the refinement of `BoundedQueue`: a
send takes effect at the publishing store, a receive at the advance, and
`Disconnected` may be answered only when no value is left.

### The network thread

`EventLoop` follows `run` of `event_loop.rs`: `pc` is where the thread is between
two waits. `BeginConnect`, `ConnectPending`, `ConnectFails`, `ConnectSucceeds` and
`WaitRound` are the connection loop, `TurnCommands`, `PollReactor`, `QueuedPhase` and
`ReadyPhase` one turn. A drive phase is one action, since nothing can interleave with
it; inside it the budget may stop the work on any queue. Every item in a queue
carries the generation of the guest session it was made in, because the queues
outlive a reconnect (`DropRuntime` says which do not). `ImplementsLifecycle` maps
`state` and `generation` to `NetworkLifecycle`.

`Drive` is the vocabulary of `drive.rs`: reads, writes, datagrams, smoltcp transfers,
guest frames, events and state changes, each of which takes from the budget before it
acts and reports why it stopped. The flow modules use it in a simpler form: a pass may
be `Exhausted` at every point at which the code asks for budget.

### The data path

* `Reactor`: `token`, `suspended` and `armed` are the table of `reactor/mio/mod.rs`;
  `edges` is what mio will still report; `edgeSince` remembers since when a source has
  been ready for its registration. `IoSlot` has the latch that a poll sets and
  `would_block` clears.
* `TcpEgress`: one slot of `TcpProxies`. A pass walks through `drive_proxy_entry`
  (`RecvAndSend`, `FinishGuestWrite`, `CloseGuest`, `InactiveSocket`) and the rounds of
  `PlainTcpProxy::drive`, and the next one starts only when `Runnable`, which is
  `is_runnable` term by term. `WorkLeft` is what the slot holds and `ToRead` what the
  upstream has for it. `Stranded` is the one state in which the code comes back to neither
  (see the observations), and the one `NotForgotten` excepts.
* `TlsProxy`: the phases of `TlsTcpProxy` and, once open, the order of `drive` of
  `TlsHttp1Proxy`. rustls is external: a session turns tokens of the guest into
  plaintext and output.
* `Http1Relay`: `GuestReads` and `UpstreamReads` feed any cut of the two streams to
  the request filter and the response tracker. It parses with RECURSIVE operators and
  is checked by TLC only. Left out are the limits on the size of a head, a buffered request
  or an upgrade answer (`application/http1.rs:140`, `:286`, `:411`) and an interim answer
  before a 101, which ends the watch for the upgrade.
* `UdpGateway`: admission, a proxy per flow with its expiry, and the DNS attribution
  that makes an address admissible.
* `HostPorts`: listeners, connections, one UDP port, and the events kept for a later
  turn (`deferred`).
* `GuestFrames`: where each frame buffer is. `HostSteps` and `QemuSteps` are the two
  sides that might wait for each other.
* `Ring`: as `Spsc`, with batches: `Commit(n)` publishes part of a reservation.
* `DockerProxy`: `handle_connection`, with a stream as tokens of requests.

### Around the control loop

* `QemuVm`: one operation at a time on a copy of the record (`rec`), saved later
  (`saved`). QEMU (`vm`), its pid file and sockets (`runDir`) and the disk outlive a
  crash. `kind` tells an instance from the building of a base.
* `GuestBootstrap`: both ends. `record` is the guest's file, `guest` its daemon,
  `session` and `call` the server. The scheduler's choice (`NextReady`) is by phase,
  dependencies and resources. A call that times out may leave half a line behind.
* `BootstrapProgress`: what the control loop makes of the events in between: shown
  phase and step, failures, deadline, and the copy on disk.
* `ManifestPlan`: a step is its phase, dependencies and resources, with what its script
  needs, makes and edits, for manifests of at most `MaxPlugins` plugins. `PlanSound`
  compares the two: whatever order the scheduler of `GuestBootstrap` may take, a step
  finds what it needs, and two steps that edit one file never run together.
* `ServerProcess`: every file operation of the lock, the socket and the binary is a
  step, for any mix of servers and `agentctl` processes. `overlap` remembers that two
  were in an unprotected section at once.
* `Requests`: one thread, so a step is what happens between two awaits. Inbox, streams
  and connection queues are bounded.
* `EventLog`: a record is three tokens on the way to the disk; a write may stop after
  any of them.
* `InstanceNetwork`, `NetworkStatus`: the handle and the drain task; the thread's
  status against the one rebuilt from its events.
* `MediatedSecrets`: a refresh, the instance's work and a shell each take a copy of the
  stored placeholders, read the host's files, mint what is missing and attach or update
  the network, in any overlap; the guest's environment is written at creation only.
  `steady` remembers the secrets that no collection missed, the ones the code can promise
  something about. Placeholders are numbers nobody holds; values are left out.
* `TailscaleRoutes`: `served` is the daemon's configuration, keyed by ports and paths of
  the whole host as in the code, so two instances may claim one key. `unsure` remembers
  the keys the code can promise nothing about: claimed by two instances, of an instance one
  of whose commands failed, or left without a record by a restart, which clears the record
  of Running instances only.
* `HostCredentials`, `PrNotifications`: the other user of the shared thing (the host's
  tool, another control connection) is a process of the model.

## 3. Runs

| Run | Instance | Shows |
|---|---|---|
| `agent_failures` | 2 templates, 1 replica, 3 generations, 1 failure | work is owned, the backend record is never lost, convergence and deletion reports are true, an instance runs on its own template's base |
| `agent_crashes` | 1 crash instead of the failure, 1 session, a third template with other auth | acknowledged commands survive and only go up; removal waits for the Deleted document, and, until the crash, for the machine to be off; removed instances stay removed; a session holds off deletion; bindings never change under an instance |
| `agent_replicas` | 2 replicas, 2 generations | the agent-wide status is right about all instances |
| `agent_liveness` | 1 template, 2 generations, 1 failure, 1 crash | everybody who waits is answered; deletions end |
| `agent_stale_base` | 4 generations, 1 crash | violation: an instance on another template's base (finding) |
| `agent_delete_ack` | removal may fail | violation: an acknowledged deletion that is not on disk (finding) |
| `agent_pause_leaves_vm` | 1 template, 4 generations, 1 failure | violation: a machine behind an agent that reports its instances stopped (finding) |
| `network_event_loop` | 2 guest sessions, 1 update of secrets, a stop | no frame reaches another session, every wait has a timer, a stop ends the thread, the published states are the promised lifecycle |
| `network_components` | the 9 components of `MCNetwork` | the cross-thread ring is a bounded queue and its unsafe code sound, turns keep to their budget and explain their stops, edges reach their owner, no wake-up is lost but in one state (`Stranded`), streams stay intact, messages framed |
| `host_services` | the 7 components of `MCServices` | machines and bases are what the records say, one network per instance, true progress of bootstraps, sign-in kept, routes recorded where the code can promise it, events told once, addresses from DNS answers admitted |
| `host_components` | the 8 components of `MCHost` | frame slots have one owner, true records of networks, events and placeholders, true outcomes of bootstraps, sound plans and ports, clients that are served |
| `tls_upload_stalls` | 1 data token each way | violation: an upload that nothing drives on (finding) |

The suites. Most components outside the agent's loop meet the others only through the
data their modules already have as environment actions, so their product would add
states and no behaviour. Three suites, `MCNetwork`, `MCServices` and `MCHost`, therefore
check them side by side, divided so that each is checked in a few minutes: `subject`
chooses a component in the initial state and only that one moves, so the states add up
instead of multiplying. The components the proofs are about are extended, with their own
variables, so that TLC evaluates their assumptions and checks the very definitions the
theorems state; the others are instantiated, and `v1`, `v2`, ... hold the variables of
the one that is the subject. A property of a suite that several components share is one
promise that each makes in its own terms: `NoLostWakeup`, for instance, is
`NotForgotten` of a TCP slot, with its one exception, and `NoStandstill` of the frame path. Properties of one
component that belong together have a name together in its module: `SlotsSound`,
`TurnHonest`, `EdgesDelivered`, `MachinesSound`, `SignInKept`, `EventsToldOnce`. Each
component was also run alone, and every action of its next-state relation is taken
within the bounds. The suites do not check for deadlock: a component that has used up
its bounds stops. `network_event_loop` does not either, because a thread that was told
to stop ends.

The bounds of an instantiated component are next to its INSTANCE, with the case each is
for, and those of an extended one in the `.cfg`. In general a table holds one entry less
than the model offers, a budget ends before and after each operation, and one fault
(crash, failure, break) happens anywhere. Of the extended ones:

* both rings have 3 places in 4 slots and cursors that wrap at 8, with 2 values: full and
  empty, the slot that is never used, and two wraps; a batch may be all that fits;
* a turn has 3 bytes and 2 steps for items of up to 2 bytes, 1 buffer and a queue of 1:
  each of them runs out first in some behaviour;
* two sources compete for 1 place of the reactor's table, with 2 registrations: the second
  is refused, or meets an edge of the first;
* 2 QEMU processes, 5 operations and 1 crash: a start after a start that was cut short;
* 2 networks with a ring, a channel and a command queue of 1: a second network after the
  first was stopped, and events for which there is no room;
* an inbox of 2 for 2 steps, 3 failures, so that the doubled delay meets its maximum, 2
  generations and 1 crash of the bootstrap's agent;
* 2 tasks for a credential queue of 1, 3 tokens issued and 1 lost answer;
* 2 instances with 2 routes each, 3 updates, 2 attempts and 1 failure;
* 1 pull request with 2 events and 2 sessions, 2 calls and 1 fault.

Operators marked "Mutant:" are plausible bugs of the definition below them, listed in
`PROJECT.json` with the property that each breaks.

Bounds. `MaxGeneration` 3 is a manifest, a change of it while its work is in
flight, and a deletion or another change on top: the longest chain of overlapping
intents a slot and a late completion can span, since each slot holds one task.
The finding on the base needs a fourth, so its run has four; without a crash
`BaseMatchesTemplate` also holds at four. `MaxFailures` and `MaxCrashes` are 1:
one failing task, write or VM, or one crash, at every possible point. Instances
interact only through the agent document, so two replicas are enough to see a
status that is right about one and wrong about another. No symmetry is used:
instance ids are ordered.
`MaxExecs` is 1: a session that may be open when anything else happens.

`agent_failures` and `agent_replicas` check for deadlock: the loop always has a timer.
The runs with a crash do not, because an agent whose document is torn refuses to load
and stays so.

### Fairness

`LoopSpec` of `EventLoop` has weak fairness of the thread: a wait of the reactor ends
with an event, with the waker that every command rings, or with the next timer
(`WaitsAreBounded` shows that there is one where the code relies on it).

`LiveSpec` assumes what the code provides:

* writes return, and the timer wakes the loop: `next_wake` always includes
  `next_reconcile`, at most `AGENT_RECONCILE_INTERVAL` (5 s) ahead;
* a task ends (`Ends`): the backend puts a timeout on each step;
* its completion is received (`Received`): `queue_completion` awaits the send,
  so it cannot be dropped;
* a deadline passes (`DeadlinePasses`): if a turn keeps being able to start a
  task, one eventually does;
* the refreshes of secrets and host inputs leave gaps (`Rests`): each schedules
  the next one at least a second ahead.

Commands, failures, crashes and the restart itself get none. `Settles` is stated
for a running loop with `wait_status` as the judge: `Failed` is an answer,
`Pending` is not. It is not guaranteed that the answer is success: a base that
failed is not built again for the same generation.

### Findings

1. `agent_stale_base`. If a build ends after the agent was deleted, its key is
   recorded as the ready base although the manifest has moved on
   (`runtime.rs:1536`). Applying that manifest again keeps the record, and a
   server that restarts then takes the base for ready
   (`apply t1`, `apply t2`, `delete`, build of t1 ends, `apply t2`, crash). The
   instances of t2 are created on the base of t1.
2. `agent_delete_ack`. When the directory of a deleted agent cannot be removed
   the error is only logged and the pending commands are answered
   (`runtime.rs:2914`). A delete that has nothing to stop is complete in its own
   turn, and the document with the deletion is never written: the file still says
   what it said before, and a restart loads it. The comment on `commit_state`
   promises an answer with the committed view. A deletion that takes several turns
   is not affected: its request was persisted in the first one.
3. `agent_pause_leaves_vm`. A start that brings QEMU up and then fails (the network does
   not get ready, `qemu/lifecycle.rs:282`, and the machine cannot be terminated, `:293`)
   ends with a record that names the pid. If the agent was paused meanwhile the completion
   is no longer relevant, and `complete_instance_start` does nothing with its error
   (`runtime.rs:1822`) beyond writing back its record (`:1800`): the instance stays Stopped
   with the pid recorded and nothing acts on it, its generation counts as observed, and the
   agent reports that nothing runs. `QemuVm` has this too: `Fails` may leave the phase as
   it was. The test
   `paused_apply_is_not_observed_until_instances_stop` (`agent/runtime_tests.rs:1034`)
   says what `StoppedIsOff` says. `ReportsTrue` therefore claims that machines are off
   only where nothing failed; that clause is proved.
4. `tls_upload_stalls`. `has_local_work` of an open intercepted connection
   (`libs/agentdp-network/src/egress/tcp/tls.rs:752`) looks neither at bytes of the
   guest that were received and not yet decrypted nor at plaintext not yet read. A turn
   whose budget ends there leaves the connection not runnable; the upload goes on only
   when the guest or the upstream sends something again. A test of the repository says
   that such turns are continued.

### Observations

Met while modelling, each stated in the module concerned or excepted by its property,
and without a run of its own:

* Secrets sent to a network are forgotten when it reconnects: the dataplane is built
  again from the specification of the start (`event_loop.rs:939`).
* A variable assigned twice in `.env` gets two placeholders at creation, and the first
  start keeps the smaller one only, which need not be the one in the guest's environment
  (`provisioning/secrets.rs:217`). A variable that is missing from one collection gets
  another placeholder when it comes back, while the guest keeps the first.
* A refresh and a reconcile that overlap, which after a restart they do, may mint different
  placeholders for a new secret: the guest's file then names one the network does not know
  until the next refresh (`runtime.rs:2403`).
* A TCP slot whose reads were masked is not runnable when the budget ends between taking
  the mask away and asking for reads again (`egress/tcp/mod.rs:359`): bytes or the end of
  the upstream wait until the guest does something. `NotForgotten` excepts this state
  (`Stranded`), and TLC finds it without the exception.
* Two instances with a fixed proxy path have one key in the serve configuration, and
  duplicates are refused within an instance only (`host/tailscale.rs:251`): the first to be
  stopped removes the route that the other one's document still records. `RoutesRecorded`
  excepts such keys.
* Two servers may start when both meet the same stale or still empty lock
  (`server/lock.rs:70`): `ServerReachable` excepts overlapping sections.
* A host port connection that is closed while an event of it is kept keeps its place
  (`ingress/host_ports.rs:589`).
* The Docker proxy drops bytes of a close-delimited answer that came with its head
  (`proxy.rs:235`).
* The gateway's own answers may use up the reserve of frame buffers that protects the
  path from a standstill.
* A machine that had not written its pid file when the server crashed, or whose pid file
  the next start removed (`system.rs:224`), is not found again, and a stop succeeds without
  it (`qemu/lifecycle.rs:339`): its instance may be removed while it runs; a failed append to the event log leaves a log that the next start refuses.
* A second registration of a pull request marks its new events as seen; a crash between
  the paste into tmux and the removal of the queue file tells an event twice.
* `delete --wait` may report a failure though the deletion succeeded, when the agent
  ends before the wait is opened (`server/request.rs:474`).
* The count of bootstrap failures and the deadline survive a new generation
  (`runtime.rs:4232`).

## 4. Proofs

Eight modules hold the proofs; each EXTENDS the modules it is about. Every theorem is of
the form `Spec => []Inv` (or a refinement), so it says of every number of instances,
sessions, slots, budgets, crashes or calls what the runs show of small ones.

| Module | Theorems | Checked by the runs as |
|---|---|---|
| `AgentProofs` | `ControllerInvariant`, `ControllerTypes`, `EveryTaskIsOwned`, `SessionsHold`, `RemovalIsFinal`, `BackendsAreRecorded`, `BindingsAreFixed`, `DeletionIsClean` | `TypeOK`, `OwnedWork`, `SessionHoldsInstance`, `RemovedForGood`, `BackendRecorded`, `AuthBindingsFixed`; the deletion half of `ReportsTrue` |
| `AgentAckProofs` | `AcknowledgedSurvive`, `AcknowledgedGrow` | `DurableAck`, `AckedMonotonic` |
| `AgentReportProofs` | `ReportInvariant`, `ReportsAreTrue`, `BasesMatch` | `ReportsTrue`; `BaseMatchesTemplate`, until the first crash |
| `SpscProofs` | `RingInvariant`, `TypeCorrect`, `SlotExclusion`, `NoLeak`, `SlotsAreSound`, `RefinesQueue` | `SlotsSound`, `ImplementsQueue`; the ring's part of `NetTypeOK` |
| `EventLoopProofs` | `LoopInvariant`, `LoopTypeCorrect`, `FramesOfThisSession`, `EveryWaitEnds`, `RefinesLifecycle` | all of `network_event_loop` but `StopEnds`, which is liveness |
| `DataPathProofs` | `FrameRingInvariant`, `FrameRingTypes`, `FrameSlotsOwned`; `TurnInvariant`, `TurnTypes`, `TurnsAreBounded`, `StopsAreExplained`, `TurnsAreHonest`; `ReactorInvariant`, `ReactorTypes`, `ReadinessIsKept`, `LatchesAreOwn`, `EdgesAreDelivered` | `SlotsOwned`, `TurnHonest`, `EdgesDelivered`; their parts of `NetTypeOK` and `HostTypeOK` |
| `HostProofs` | `QemuInvariant`, `QemuTypes`, `MachinesAreAccounted`, `ReadyBasesAreSound`, `MachinesAreSound`; `InstInvariant`, `InstTypes`, `NetworksAreExclusive`; `BootInvariant`, `BootTypes`, `ProgressIsTrue` | `MachinesSound`, `OneNetwork`, `ProgressTrue`; their parts of `ServicesTypeOK` |
| `ServiceProofs` | `CredInvariant`, `CredTypes`, `HostStaysSignedIn`, `RejectionsAreFinal`, `SignInIsKept`; `RouteInvariant`, `RouteTypes`, `RoutesAreRecorded`; `PrInvariant`, `PrTypes`, `EventsAreToldOnce`, `NoEventIsDropped`, `EveryEventIsToldOnce` | `SignInKept`, `RoutesRecorded`, `EventsToldOnce`; their parts of `ServicesTypeOK` |

### Assumptions

What the theorems assume of the constants, and where the code gives it:

* `BoundsAssumption`, `LoopBounds`, `QemuAssumption`, `InstAssumption`: the bounds and
  capacities of the model are numbers. A capacity of zero is allowed.
* `TemplatesAssumption`, `ManifestsAssumption`, `ReplicasAssumption`: there is a
  template, `None` is not one, and manifests ask for at most `MaxReplicas` replicas.
  An agent without a manifest has no template to name, so an empty set of them would
  leave nothing to prove about.
* `RingAssumption` (`Spsc`), `FrameRingAssumption` (`Ring`): the slot count divides the
  cursor space and is at least the capacity, and the cursor space is larger than the
  capacity (in `Ring` by more than one). The code rounds the slot count up to a power of
  two and counts with 64 bits.
* `DriveAssumption`: budgets, buffers and queues are numbers, and a read buffer holds
  something. A budget of zero is allowed.
* `ReactorAssumption`: the number of registrations is a number. Nothing is assumed of the
  size of the tables.
* `BootAssumption`: the bounds are numbers, there is a generation, and the delay can be
  doubled eight times, which is how often the code does it at most.
* `CredAssumption`, `RouteAssumption`, `PrAssumption`: the bounds are numbers, a token has
  been issued, and the identifiers that stand for "nobody" and for the poller are not those
  of a task or an instance.
* `~RemovalMayFail`, in `AgentAckProofs` only: the directory of a deleted agent can be
  removed. `agent_delete_ack` shows that it is needed.

All but the last are assumptions of modules that the runs extend, so TLC evaluates them
on every instance it checks.

### The controller (`AgentProofs`)

None of the controller's invariants is inductive alone; they lean on each other in a
circle. A directory may be removed only behind a stop (`RemovedForGood`), which holds
because the slot that admitted the removal cannot be taken by other work, which holds
because slots and tasks account for each other (`OwnedWork`), which is kept at a restart
only because what is on disk is what the cells were. `AgentInv` closes the circle with
four parts, and was first checked by TLC on the instances of `agent_failures` and of
foreground sessions:

* `DocsInv`: the document in memory, the copy last saved and the file agree as far as the
  loop relies on it, and an agent that is deleted or not served has no instances;
* `BaseInv`: the base waits for a task iff it has that task, with its id, generation and
  key;
* `CellsInv`: in each cell the four slots and the tasks account for each other
  (`LedgerInv`), only some slots may be occupied together (`SlotInv`), and the last steps
  of an instance come in their order (`CleanupInv`): a stop for deletion only in phase
  Deleting, a removal only in phase Deleted with that document saved, and no new work in
  that phase;
* `WorldInv`: each cell fits its file and directory and, until a crash, its VM (`Fits`);
  until a crash, somebody who will come back to it knows of each VM (`Backed`); cell, creation in flight and file
  carry the agent's auth bindings (`Bound`).

A turn is long, so the proof goes cell by cell and pass by pass. `Goes(c, e, d)` is what
passes of one turn may make of a cell: it is transitive (`GoesOn`), each function of
`AgentInstance` satisfies it, and a cell that goes that way still fits its file, directory
and VM (`GoesFits`). `Lands` says the same of a completion, `Yields` and `Ended` of a task
that ends. `TurnKeeps` puts the turn together, and there is one lemma per action.

`AgentAckProofs` rests on `AckInv` instead, and needs nothing about instances.
`DurableAck` is not inductive. An answer may be given without a write, when the documents
are in sync: that the disk covers it lies in `SavedInv`, what the persisted copy in memory
says about the disk. After a restart the loop goes on from the disk, and between restarts
from memory: `MemoryInv` says the document in memory covers every answer too. Generations
start again at 1 when a deleted agent is applied again, which is harmless only because
nobody holds an answer then (`RemovedInv`). A turn changes the generation and the desired
state only through the command it handles (`WriteKeeps`, `BaseCompletionFollows`,
`CommandsFollow`, `AfterExistingFollows`).

### What is reported (`AgentReportProofs`)

The agent's document is derived from the documents of its instances, so the question is
why those may be believed. `ReportInv`, on top of `AgentInv`, answers it:

* `Firm`: an observed generation is one its instance has reached: a generation observed as
  stopped has phase Stopped, and an instance runs in the current generation only on a base
  that this generation names. The results that tasks will bring are firm too (`FirmTask`),
  and so is every file a restart may load, under every document it may be loaded with
  (`FilesInv`). A later document keeps what is firm (`LaterFirm`).
* `Current`: after a turn, an instance that is not being cleaned up carries the generation,
  target, template and base of the agent.
* `Published`: the agent reports convergence only in two ways, all stopped or as many up as
  there are replicas, judged by the instances of this very state.
* `Dark`, while nothing fails: a machine under a stopped instance is being started.
* `Keyed`, `Matched` and `BaseMatched`, until the first crash: the base that is ready, asked
  for or built is that of the template of its generation. This is `BasesMatch`; that the
  condition on crashes is needed is what `agent_stale_base` shows.

`ConvergedFollows` then counts: an observed instance whose id is not below the number of
replicas has an inactive target (`Current`) and is therefore stopped (`Firm`); as many
instances are Running as there are replicas, so they are all the ids below that number. That
`ReportsTrue` excepts failures in the clause on machines is not a gap of the proof: see
finding 3.

### The rings (`SpscProofs`, `DataPathProofs`)

* `Spsc`: neither slot exclusion nor the absence of leaks is inductive; both rest on which
  slots hold values, which rests on where the cached cursors lie between the real ones.
  `RingInv` has three parts: types; `CursorInv`, the order of cached and real cursors
  around the ring; `SlotInv`, that exactly the slots between head and tail, and the ones an
  endpoint is half-way through, are live. `RefinesQueue` rests on `RingIndexInjective`:
  within one lap of the ring, different cursors mean different slots, also across the wrap.
* `Ring`: slots are never empty, so the invariant is about contents. `LagInv` orders the
  cursors, the cached ones included, and the reservation and the batch between them;
  `ContentsInv` says that every committed slot holds the value it was committed with;
  `EndInv` that the end is told only to a consumer that has seen everything. The lemmas on
  differences of wrapping cursors take the place of natural order.

### The network thread (`EventLoopProofs`, `DataPathProofs`)

* `LoopInv` relates every place of the thread to the states published there
  (`PublishedInv`, which the refinement needs), says that a session has begun wherever
  items are made (`SessionInv`), and that the status timer is armed everywhere, not only
  where the thread waits (`TimersInv`).
* `DriveInv` adds to the two properties that buffers are free or in the queue, and never
  more than the pool has. `Charged` is the fact all operations share: what was moved was
  taken from the budget first.
* `ReactorInv`: an edge carries a token and nothing else, so that a latch is its own rests
  on tokens being handed out once (`TokenInv`) and on edges of a token being raised for its
  holder (`EdgeInv`); that readiness is not lost rests on the selector being armed with
  what the owner's slot says (`ArmedInv`), through suspensions and refused changes.

### What the server keeps of an instance (`HostProofs`)

* `QemuInv`: between operations a machine is known by the record, while one runs by the
  copy it works on (`KnownPid`). `VmAccounted` is about the moments between operations and
  not inductive: `InstanceInv` says for every point of every operation who knows the pid
  and which phase the record may be in, which after a failure is any; `BaseInv`
  says for the building of a base from which point on its disk is final and no machine is
  left on it.
* `InstInv`: `OneNetwork` is kept by a start because the network it replaces has ended, and
  that is known from an event: a terminal status is emitted by the thread after it has let
  go, and what comes through the ring is what was emitted (`Whole`).
* `BootInv`: a bootstrap's task, the work that is held and the messages in the inbox belong
  together. The task that runs is that of the work (`BootWorkInv`); a message of its id is
  never ahead of it, and a verdict of an id is in the inbox only when its task is gone
  (`BootMailInv`), so events that were dropped make the status late and never wrong.

### The services (`ServiceProofs`)

* `CredInv`: each refresh token the server issued has one holder until it is written: the
  file, the host's tool or the actor's answer (`HeldInv`, `AccessInv`). `KeptInv` says that
  a token in the file that is no longer accepted is about to be replaced. A rejection is
  final because what was rejected is remembered or has just been read (`RejectedInv`).
* `RouteInv` goes key by key, for the keys that are not `unsure`: such a key has one
  instance that claims it (`OneClaim`), is served only for one (`ServedClaimed`), and
  `KeyInv` says at every point of the task of that instance what its commands, the
  configuration and the record say of the key. Other tasks leave the key alone, because
  they touch only what their own instance claims (`TouchInv`) and one at a time is in the
  middle of its commands (`MutexInv`).
* `PrInv`: events of two batches are disjoint and marked before a second poll looks
  (`QueueInv`, `PollInv`), whoever holds `seen_transaction` saves what it has read
  (`SeenLockInv`), and a batch that was told is in the transcript, or is about to be removed
  (`ToldInv`).

### Left to TLC

* Liveness (`Settles`, `DeletionCompletes`, `StopEnds`) and `NoStandstill`, which is about
  ENABLED: beyond this prover.
* `Http1Relay`, which parses with RECURSIVE operators.
* `BaseMatchesTemplate` after a crash: not an invariant of the code. It is proved until the
  first crash, and holds up to three generations with one; `agent_stale_base` shows it broken
  at four.
* `DropsAccounted`: it adds up the counts in a sequence of events, and what a fold computes
  for every sequence is an induction over data.
* The components the suites instantiate: `TcpEgress`, `TlsProxy`, `HostPorts`, `GuestFrames`
  and `DockerProxy` in `MCNetwork`; `UdpGateway` in `MCServices`; `GuestBootstrap`,
  `ManifestPlan`, `ServerProcess`, `Requests`, `EventLog`, `NetworkStatus` and
  `MediatedSecrets` in `MCHost`.
  The ones that compare streams (`TcpEgress`, `HostPorts`, `DockerProxy`, `EventLog`) say
  what a sequence holds after any number of appends and cuts, so their proofs need facts
  about concatenation and prefixes for every length.

## 5. Not modelled

Each part that is left out is listed in `components` of `PROJECT.json` with the
reason. In short:

* text: the wording of scripts, command lines, messages and formats, the rewriting of
  build files, argument parsing and output, the web page;
* third-party behaviour: smoltcp's protocol state, rustls, mio and the kernel appear as
  environment actions, from how the code uses them;
* the gateway side of ingress flows and the matching of policy patterns;
* wakers and the executor of the single-threaded runtime: a step is what happens between
  two awaits, and any ready task may be next;
* the fixed table, the secret wrapper, byte codecs, and the editor extension.

Each is sequential, formatting, or a wrapper, and has unit tests in the repository.

## 6. Plan

The system's parts with control of their own are modelled. Proved about are the controller,
the cross-thread rings, the network thread with its turns and its reactor, the machines, the
network and the bootstrap status of an instance, and three services. What would come next:

1. `ServerProcess`: `ServerReachable`. While no two unprotected sections overlap, at most one
   process is in one, a server that is up holds the lock and the socket, and a client that
   waits for a process to end knows which one; the invariant follows the clients' steps.
2. `UdpGateway` (`AnswersAdmitted`) and `MediatedSecrets` (`PlaceholderKept`), whose
   invariants relate tables to histories and need no induction over data.
3. `GuestFrames` without `NoStandstill`, and `Requests`.
