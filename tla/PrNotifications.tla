--------------------------- MODULE PrNotifications ---------------------------
(***************************************************************************)
(* The guest's notifications of pull request events                        *)
(* (agentdp-guest/src/user: github_pr.rs, agent_host.rs, agent_session.rs, *)
(* control.rs, and daemon/user.rs).  One loop polls the registered pull    *)
(* requests; every connection of the control socket is a task of its own   *)
(* that registers or unregisters one.  Registry, seen events and one queue *)
(* file per batch are JSON files, each replaced atomically, and the daemon *)
(* may stop between any two of its steps.  An event stands for its id, a   *)
(* pair of its pull request and a number.                                  *)
(***************************************************************************)
EXTENDS Naturals, FiniteSets

CONSTANTS Prs, AgentSessions, PrTasks,      \* pull requests, Agent Host sessions, control connections
          MaxPrEvents, MaxPrCalls, MaxPrFaults   \* bounds: events per request, control calls, failures

\* 0 stands for nobody and 100 for the poll loop as holder of seen_transaction.
ASSUME PrAssumption ==
    {MaxPrEvents, MaxPrCalls, MaxPrFaults} \subseteq Nat /\ PrTasks \cap {0, 100} = {}

VARIABLES
    automation,  \* "host" or "tmux": AgentAutomation
    github,      \* how many events each pull request has (external)
    registry,    \* the session a pull request is registered for, or "none"
    seen,        \* seen.events
    queue,       \* the queue files: [pr, session, events]; the name is a hash of the three
    poller,      \* poll_loop
    prTask,      \* the control calls under way
    lock,        \* seen_transaction: who holds it, or 0
    chat,        \* the batches each session's transcript holds (external)
    archived,    \* the sessions that are archived (external)
    told,        \* history: how often the agent was told an event
    prLog        \* bounds and history: [calls, faults, marked]

prVars == <<automation, github, registry, seen, queue, poller, prTask, lock, chat, archived, told, prLog>>

EventsOf(pr) == {pr} \X (1 .. github[pr])
Sessions == AgentSessions \cup {"tmux"}
NoEntry == [pr |-> "none", session |-> "none"]
Resting == [at |-> "idle", entries |-> {}, entry |-> NoEntry, ids |-> {}, old |-> {}, files |-> {}, file |-> {}, second |-> FALSE]
NoCall == [at |-> "idle", pr |-> "none", session |-> "none", copy |-> [pr \in Prs |-> "none"], ids |-> {}, old |-> {}]

PrTypeOK ==
    /\ registry \in [Prs -> Sessions \cup {"none"}]
    /\ seen \subseteq Prs \X (1 .. MaxPrEvents)
    /\ \A file \in queue : file.session \in Sessions /\ file.events # {} /\ file.events \subseteq EventsOf(file.pr)
    /\ poller.at \in {"idle", "committing", "saving", "polling", "viewed", "queueing", "flushing", "accepted", "removing"}
    /\ lock \in PrTasks \cup {0, 100}
    /\ \A t \in PrTasks : prTask[t].at \in {"idle", "viewed", "read", "registered", "marking", "saving", "unregistering"}
    /\ lock = 100 <=> poller.at = "saving"
    /\ \A t \in PrTasks : lock = t <=> prTask[t].at = "saving"

PrInit ==
    /\ automation \in {"host", "tmux"} /\ github = [pr \in Prs |-> 0]
    /\ registry = [pr \in Prs |-> "none"] /\ seen = {} /\ queue = {}
    /\ poller = Resting /\ prTask = [t \in PrTasks |-> NoCall] /\ lock = 0
    /\ chat = [s \in AgentSessions |-> {}] /\ archived = {}
    /\ told = [id \in Prs \X (1 .. MaxPrEvents) |-> 0]
    /\ prLog = [calls |-> 0, faults |-> 0, marked |-> {}]

Fault == prLog.faults < MaxPrFaults /\ prLog' = [prLog EXCEPT !.faults = @ + 1]
Twice(n) == IF n < 2 THEN n + 1 ELSE 2
Tell(ids) == told' = [id \in DOMAIN told |-> IF id \in ids THEN Twice(told[id]) ELSE told[id]]

\* A review, a comment, a failed check or a merge.
GithubEvent(pr) ==
    /\ github[pr] < MaxPrEvents /\ github' = [github EXCEPT ![pr] = @ + 1]
    /\ UNCHANGED <<automation, registry, seen, queue, poller, prTask, lock, chat, archived, told, prLog>>
Archive(s) ==
    /\ automation = "host" /\ archived' = IF s \in archived THEN archived \ {s} ELSE archived \cup {s}
    /\ UNCHANGED <<automation, github, registry, seen, queue, poller, prTask, lock, chat, told, prLog>>

\* pr_events of pr_view: the merge, the failed checks, the reviews and the comments the
\* pull request has now.
PrEvents(pr) == EventsOf(pr)
-----------------------------------------------------------------------------
\* register, register_agent_host: the way events are delivered is the automation's.
Register(t) ==
    /\ prTask[t].at = "idle" /\ prLog.calls < MaxPrCalls
    /\ \E pr \in Prs, s \in IF automation = "host" THEN AgentSessions ELSE {"tmux"} :
          prTask' = [prTask EXCEPT ![t] = [NoCall EXCEPT !.at = "viewed", !.pr = pr, !.session = s]]
    /\ prLog' = [prLog EXCEPT !.calls = @ + 1]
    /\ UNCHANGED <<automation, github, registry, seen, queue, poller, lock, chat, archived, told>>

\* register_view: the registry is read, changed and written with nothing to keep another
\* call out between.
ReadRegistry(t) ==
    /\ prTask[t].at = "viewed" /\ prTask' = [prTask EXCEPT ![t].at = "read", ![t].copy = registry]
    /\ UNCHANGED <<automation, github, registry, seen, queue, poller, lock, chat, archived, told, prLog>>
WriteRegistry(t) ==
    /\ prTask[t].at = "read"
    /\ registry' = [prTask[t].copy EXCEPT ![prTask[t].pr] = prTask[t].session]
    /\ prTask' = [prTask EXCEPT ![t].at = "registered"]
    /\ UNCHANGED <<automation, github, seen, queue, poller, lock, chat, archived, told, prLog>>

\* mark_seen_events_at_registration: what is there already is not news; a failure leaves
\* the pull request registered.
MarkSeen(t) ==
    /\ prTask[t].at = "registered"
    /\ \/ /\ prTask' = [prTask EXCEPT ![t].at = "marking", ![t].ids = PrEvents(prTask[t].pr)] /\ UNCHANGED prLog
       \/ Fault /\ prTask' = [prTask EXCEPT ![t] = NoCall]
    /\ UNCHANGED <<automation, github, registry, seen, queue, poller, lock, chat, archived, told>>

\* unregister, unregister_agent_host: read first; a session removes only its own entry.
Unregister(t) ==
    /\ prTask[t].at = "idle" /\ prLog.calls < MaxPrCalls
    /\ \E pr \in Prs : registry[pr] # "none"
          /\ prTask' = [prTask EXCEPT ![t] = [NoCall EXCEPT !.at = "unregistering", !.copy = [registry EXCEPT ![pr] = "none"]]]
    /\ prLog' = [prLog EXCEPT !.calls = @ + 1]
    /\ UNCHANGED <<automation, github, registry, seen, queue, poller, lock, chat, archived, told>>
WriteUnregistered(t) ==
    /\ prTask[t].at = "unregistering" /\ registry' = prTask[t].copy /\ prTask' = [prTask EXCEPT ![t] = NoCall]
    /\ UNCHANGED <<automation, github, seen, queue, poller, lock, chat, archived, told, prLog>>

\* commit_seen_ids: the seen events are read and written under seen_transaction.
Free == lock = 0
TakeLock(t) ==
    /\ prTask[t].at = "marking" /\ Free /\ lock' = t
    /\ prTask' = [prTask EXCEPT ![t].at = "saving", ![t].old = seen]
    /\ UNCHANGED <<automation, github, registry, seen, queue, poller, chat, archived, told, prLog>>
SaveSeen(t) ==
    /\ prTask[t].at = "saving" /\ seen' = prTask[t].old \cup prTask[t].ids /\ lock' = 0
    /\ prTask' = [prTask EXCEPT ![t] = NoCall] /\ prLog' = [prLog EXCEPT !.marked = @ \cup prTask[t].ids]
    /\ UNCHANGED <<automation, github, registry, queue, poller, chat, archived, told>>
-----------------------------------------------------------------------------
\* read_registry: the pull requests to look at.
Entries == {[pr |-> pr, session |-> registry[pr]] : pr \in {p \in Prs : registry[p] # "none"}}

\* Mutant: poll_once does not take up the queue an earlier daemon left.
FirstCommitSkipped == [Resting EXCEPT !.at = "polling", !.entries = Entries]

\* poll_once begins with what is queued already.
FirstCommit == [Resting EXCEPT !.at = "committing", !.ids = UNION {file.events : file \in queue}]

PollOnce ==
    /\ poller.at = "idle" /\ poller' = FirstCommit
    /\ UNCHANGED <<automation, github, registry, seen, queue, prTask, lock, chat, archived, told, prLog>>

\* poll_registered_prs reads the registry once.
AfterCommit ==
    IF poller.second THEN [Resting EXCEPT !.at = "flushing", !.files = queue]
    ELSE [Resting EXCEPT !.at = "polling", !.entries = Entries]
SecondCommit == [Resting EXCEPT !.at = "committing", !.second = TRUE, !.ids = UNION {file.events : file \in queue}]

\* commit_queued_events_to_seen, twice in a poll: before the requests are looked at and
\* before anything is delivered.  An error ends the poll, the first one without delivery.
CommitQueued ==
    \/ /\ poller.at = "committing" /\ Free /\ lock' = 100 /\ poller' = [poller EXCEPT !.at = "saving", !.old = seen]
       /\ UNCHANGED <<seen, prLog>>
    \/ /\ poller.at = "saving" /\ seen' = poller.old \cup poller.ids /\ lock' = 0 /\ poller' = AfterCommit /\ UNCHANGED prLog
    \/ /\ poller.at = "saving" /\ Fault /\ lock' = 0 /\ poller' = Resting /\ UNCHANGED seen
Commit == CommitQueued /\ UNCHANGED <<automation, github, registry, queue, prTask, chat, archived, told>>

\* handle_pr: the request is viewed, then the seen events are read; the first failure ends
\* the polling, not the delivery.
HandlePr ==
    \/ /\ poller.at = "polling"
       /\ \E entry \in poller.entries :
             \/ /\ poller' = [poller EXCEPT !.at = "viewed", !.entries = @ \ {entry}, !.entry = entry, !.ids = PrEvents(entry.pr)]
                /\ UNCHANGED prLog
             \/ Fault /\ poller' = SecondCommit
    \/ /\ poller.at = "polling" /\ poller.entries = {} /\ poller' = SecondCommit /\ UNCHANGED prLog
    \/ /\ poller.at = "viewed" /\ UNCHANGED prLog
       /\ poller' = [poller EXCEPT !.at = IF poller.ids \subseteq seen THEN "polling" ELSE "queueing", !.ids = @ \ seen]
Handle == HandlePr /\ UNCHANGED <<automation, github, registry, seen, queue, prTask, lock, chat, archived, told>>

\* queue_events: a file of the same batch is there already, or is written.
QueueEvents ==
    /\ poller.at = "queueing"
    /\ \/ /\ queue' = queue \cup {[pr |-> poller.entry.pr, session |-> poller.entry.session, events |-> poller.ids]}
          /\ poller' = [poller EXCEPT !.at = "polling", !.ids = {}] /\ UNCHANGED prLog
       \/ Fault /\ poller' = SecondCommit /\ UNCHANGED queue
    /\ UNCHANGED <<automation, github, registry, seen, prTask, lock, chat, archived, told>>
-----------------------------------------------------------------------------
\* delivery_state: the marker of a batch, a hash of its events, is in the transcript.
DeliveryState(file) == file.events \in chat[file.session]

\* queue_message: the batch is sent; an answer that does not come in AHP_OPERATION_TIMEOUT
\* may follow a message that was accepted, and a failure keeps the file.
Dispatch(file) ==
    /\ chat' = [chat EXCEPT ![file.session] = @ \cup {file.events}] /\ Tell(file.events)
    /\ \/ poller' = [poller EXCEPT !.at = "accepted", !.file = {file}] /\ UNCHANGED prLog
       \/ Fault /\ poller' = [poller EXCEPT !.files = @ \ {file}]

\* queue_pr_events: the session is subscribed to; archived, it is left for later; a batch
\* it holds already is not sent again.
QueuePrEvents(file) ==
    \/ /\ file.session \in archived /\ poller' = [poller EXCEPT !.files = @ \ {file}] /\ UNCHANGED <<chat, told, prLog>>
    \/ /\ file.session \notin archived /\ DeliveryState(file)
       /\ poller' = [poller EXCEPT !.at = "accepted", !.file = {file}] /\ UNCHANGED <<chat, told, prLog>>
    \/ file.session \notin archived /\ ~DeliveryState(file) /\ Dispatch(file)
    \/ Fault /\ poller' = [poller EXCEPT !.files = @ \ {file}] /\ UNCHANGED <<chat, told>>

\* inject_pr_events_if_idle, inject_prompt: all batches at once into an idle pane; the
\* keys may fail to arrive after the text was pasted.
InjectIfIdle ==
    \/ poller' = Resting /\ UNCHANGED <<told, prLog>>
    \/ /\ Tell(UNION {file.events : file \in poller.files})
       /\ \/ poller' = [poller EXCEPT !.at = "removing"] /\ UNCHANGED prLog
          \/ Fault /\ poller' = Resting

\* flush_queued_events: what was delivered is removed, one file at a time.
FlushQueued ==
    \/ /\ poller.at = "flushing" /\ poller.files = {} /\ poller' = Resting /\ UNCHANGED <<queue, chat, told, prLog>>
    \/ /\ poller.at = "flushing" /\ automation = "host" /\ UNCHANGED queue
       /\ \E file \in poller.files : QueuePrEvents(file)
    \/ /\ poller.at = "accepted" /\ queue' = queue \ poller.file
       /\ poller' = [poller EXCEPT !.at = "flushing", !.files = @ \ poller.file, !.file = {}] /\ UNCHANGED <<chat, told, prLog>>
    \/ poller.at = "flushing" /\ automation = "tmux" /\ poller.files # {} /\ InjectIfIdle /\ UNCHANGED <<queue, chat>>
    \/ /\ poller.at = "removing" /\ UNCHANGED <<chat, told, prLog>>
       /\ IF poller.files = {} THEN poller' = Resting /\ UNCHANGED queue
          ELSE \E file \in poller.files : queue' = queue \ {file} /\ poller' = [poller EXCEPT !.files = @ \ {file}]
Flush == FlushQueued /\ UNCHANGED <<automation, github, registry, seen, prTask, lock, archived>>

\* The daemon stops, with the VM or on its own, and is started again.
DaemonRestarts ==
    /\ prLog.faults < MaxPrFaults /\ prLog' = [prLog EXCEPT !.faults = @ + 1]
    /\ poller' = Resting /\ prTask' = [t \in PrTasks |-> NoCall] /\ lock' = 0
    /\ UNCHANGED <<automation, github, registry, seen, queue, chat, archived, told>>

PrNext ==
    \/ \E pr \in Prs : GithubEvent(pr)
    \/ \E s \in AgentSessions : Archive(s)
    \/ \E t \in PrTasks : Register(t) \/ ReadRegistry(t) \/ WriteRegistry(t) \/ MarkSeen(t) \/ Unregister(t)
                          \/ WriteUnregistered(t) \/ TakeLock(t) \/ SaveSeen(t)
    \/ PollOnce \/ Commit \/ Handle \/ QueueEvents \/ Flush
    \/ DaemonRestarts

PrSpec == PrInit /\ [][PrNext]_prVars
-----------------------------------------------------------------------------
\* An agent is told an event once: through the Agent Host also when the daemon stops at
\* any point, when an answer is lost, or when the pull request is registered for another
\* session meanwhile; through tmux as long as nothing fails.
ToldOnce ==
    (automation = "host" \/ prLog.faults = 0) => \A id \in DOMAIN told : told[id] <= 1

\* No event is dropped: one that counts as seen was there when the pull request was
\* registered, waits in the queue, or was told.
NoneDropped ==
    \A id \in seen : id \in prLog.marked \/ told[id] > 0 \/ \E file \in queue : id \in file.events

\* Every event of a pull request reaches the agent once (github_pr.rs).
EventsToldOnce == ToldOnce /\ NoneDropped
=============================================================================
