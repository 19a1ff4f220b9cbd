------------------------------ MODULE Requests ------------------------------
(***************************************************************************)
(* The way of a request through agentdp-server: the connection, the task   *)
(* that answers it, the agent registry, the agent's inbox and the streams  *)
(* the agent publishes its documents to.  All of it runs on one thread, so *)
(* a step is what happens between two awaits; every queue is bounded and   *)
(* says so when it is full.  A document is its version; the same stream    *)
(* carries events, written 0.                                              *)
(***************************************************************************)
EXTENDS Integers, Sequences, SequencesExt, FiniteSets

CONSTANTS Conns,             \* client connections, one request each
          MaxVersion,        \* bound on the changes of the document
          MaxAgents,         \* bound on the agent tasks spawned for the name
          InboxCapacity,     \* INPUT_CAPACITY
          StreamCapacity,    \* REQUEST_AGENT_STREAM_CAPACITY
          EventCapacity,     \* CONNECTION_EVENT_CAPACITY
          MaxChunks,         \* output chunks of one exec
          MaxPersistFaults   \* bound on failing writes of the document

VARIABLES
  cn,      \* per connection, see Conn
  rq,      \* the registry's command queue
  reg,     \* the agent task the registry holds, 0 when none
  ag,      \* the newest agent task, see Agent
  inbox,   \* its inbox: the connections whose commands wait there
  disk,    \* the version of the document on disk, 0 when there is none
  reqFaults

reqVars == <<cn, rq, reg, ag, inbox, disk, reqFaults>>

Mutations == {"apply", "delete"}
Kinds == Mutations \cup {"status", "wait", "watch", "exec"}
NoReply == [tag |-> "none", v |-> 0]
Conn == [pc |-> "idle", kind |-> "status", want |-> 0, on |-> 0, reply |-> NoReply,
         seen |-> 0, stream |-> <<>>, attached |-> FALSE, evq |-> <<>>,
         chunks |-> 0, up |-> TRUE]
Agent == [n |-> 0, alive |-> FALSE, ver |-> 0, deleting |-> FALSE]

ReqInit ==
  /\ cn = [c \in Conns |-> Conn]
  /\ disk \in {0, 1}       \* AgentRegistry::load spawns a task for every agent on disk
  /\ reg = disk /\ ag = [Agent EXCEPT !.n = disk, !.alive = disk = 1, !.ver = disk]
  /\ rq = <<>> /\ inbox = <<>> /\ reqFaults = 0

Finished(n) == ~(n = ag.n /\ ag.alive)
Fails(r) == [r EXCEPT !.pc = "answered", !.reply = [tag |-> "err", v |-> 0]]
Succeeds(r, v) == [r EXCEPT !.pc = "answered", !.reply = [tag |-> "ok", v |-> v]]
\* The connection is over; the agent still holds what it was given of it.
Done(r) == [Conn EXCEPT !.pc = "done", !.up = FALSE, !.kind = r.kind, !.on = r.on,
                        !.attached = r.attached]
\* The receiver of a queue takes its oldest item.
Oldest(q) == Head(q)
\* try_send on a bounded queue: what finds it full is handed back.
HasRoom(q, capacity) == Len(q) < capacity
\* A oneshot's value reaches its receiver only while the receiver waits for it.
Resolve(r, v) == IF r.pc = "asked" THEN [r EXCEPT !.reply = [tag |-> "ok", v |-> v]] ELSE r
\* A responder dropped without a value.
Forsake(r) == IF r.pc \in {"asked", "opening"} THEN Fails(r) ELSE r
\* ConnectionEvents::emit: an event that finds the queue full is lost.
Emit(r, item) == IF HasRoom(r.evq, EventCapacity) THEN [r EXCEPT !.evq = Append(@, item)] ELSE r

-----------------------------------------------------------------------------
(* The registry *)

\* handle_connection reads the one request of the connection and starts its task, which asks
\* the registry first: EnsureAgent for an apply, Get for everything else.
Accept(c) ==
  /\ cn[c].pc = "idle"
  /\ \E k \in Kinds, w \in 2..MaxVersion :
       /\ k # "wait" => w = 2
       /\ cn' = [cn EXCEPT ![c] = [@ EXCEPT !.pc = "lookup", !.kind = k, !.want = w]]
  /\ rq' = Append(rq, c)
  /\ UNCHANGED <<reg, ag, inbox, disk, reqFaults>>

\* Agent::spawn: a new task that loads the document on disk.
SpawnAgent == [n |-> ag.n + 1, alive |-> TRUE, ver |-> disk, deleting |-> FALSE]

\* The registry loop: a finished task is forgotten first; EnsureAgent spawns where none is left.
RegistryStep ==
  /\ rq # <<>>
  /\ LET c == Oldest(rq)
         held == IF Finished(reg) THEN 0 ELSE reg
         spawns == cn[c].kind = "apply" /\ held = 0
     IN /\ ag.n < MaxAgents \/ ~spawns
        /\ ag' = IF spawns THEN SpawnAgent ELSE ag
        /\ inbox' = IF spawns THEN <<>> ELSE inbox
        /\ reg' = IF spawns THEN ag'.n ELSE held
        /\ cn' = [cn EXCEPT ![c] = IF @.pc = "lookup"
                                   THEN [@ EXCEPT !.pc = "found", !.on = reg'] ELSE @]
  /\ rq' = Tail(rq)
  /\ UNCHANGED <<disk, reqFaults>>

InboxHasRoom == HasRoom(inbox, InboxCapacity)
\* Agent::send: refused by a finished task and by a full inbox.
Accepts(n) == ~Finished(n) /\ InboxHasRoom

SendCommand(c) ==
  /\ cn[c].pc = "found"
  /\ IF Accepts(cn[c].on)
     THEN cn' = [cn EXCEPT ![c].pc = IF cn[c].kind = "watch" THEN "opening" ELSE "asked"]
          /\ inbox' = Append(inbox, c)
     ELSE cn' = [cn EXCEPT ![c] = Fails(@)] /\ UNCHANGED inbox
  /\ UNCHANGED <<rq, reg, ag, disk, reqFaults>>

-----------------------------------------------------------------------------
(* The agent *)

PublishKeepingFull(cs, item) ==
  [c \in Conns |-> IF ~cs[c].attached THEN cs[c]
                   ELSE IF cs[c].pc # "streaming" THEN [cs[c] EXCEPT !.attached = FALSE]
                   ELSE IF HasRoom(cs[c].stream, StreamCapacity)
                        THEN [cs[c] EXCEPT !.stream = Append(@, item)] ELSE cs[c]]
\* publish: retain_mut keeps the streams that took the item, so a slow reader loses its stream.
Publish(cs, item) ==
  [c \in Conns |-> IF ~cs[c].attached THEN cs[c]
                   ELSE IF cs[c].pc = "streaming" /\ HasRoom(cs[c].stream, StreamCapacity)
                        THEN [cs[c] EXCEPT !.stream = Append(@, item)]
                        ELSE [cs[c] EXCEPT !.attached = FALSE]]

\* open_stream: the current document first; the receiver is handed over with the reply.
OpenStream(cs, c, v) ==
  IF cs[c].pc # "opening" THEN cs
  ELSE [cs EXCEPT ![c].pc = "streaming", ![c].attached = TRUE, ![c].stream = <<v>>]

FinishAgentStreamsOnly(cs) == [c \in Conns |-> [cs[c] EXCEPT !.attached = FALSE]]
\* The end of the task drops its inbox with every responder in it, and its streams.
FinishAgent(cs) ==
  [c \in Conns |-> [(IF c \in Range(inbox) THEN Forsake(cs[c]) ELSE cs[c])
                    EXCEPT !.attached = FALSE]]

AnswerUnsaved(cs, c, v, saved) ==
  IF cs[c].pc = "opening" THEN OpenStream(cs, c, v)
  ELSE [cs EXCEPT ![c] = Resolve(@, v)]
\* answer_pending_responses: the committed document, or the error that kept it from the disk.
Answer(cs, c, v, saved) ==
  IF ~saved THEN [cs EXCEPT ![c] = Forsake(@)]
  ELSE IF cs[c].pc = "opening" THEN OpenStream(cs, c, v)
  ELSE [cs EXCEPT ![c] = Resolve(@, v)]

(***************************************************************************)
(* commit_state: write the document if it changed, tell the streams, then  *)
(* answer the commands of this turn; the loop ends with a deleted          *)
(* document.                                                               *)
(***************************************************************************)
Commit(cs, asked, v, deleted) ==
  \E saved \in {TRUE} \cup {s \in {FALSE} : v # disk /\ ~deleted /\ reqFaults < MaxPersistFaults} :
    LET told == IF saved /\ v # disk THEN Publish(cs, v) ELSE cs
        answered == FoldLeft(LAMBDA x, c : Answer(x, c, v, saved), told, asked)
    IN /\ cn' = IF deleted THEN FinishAgent(answered) ELSE answered
       /\ disk' = IF deleted THEN 0 ELSE IF saved THEN v ELSE disk
       /\ reqFaults' = IF saved THEN reqFaults ELSE reqFaults + 1

\* A turn that takes a command from the inbox.
AgentCommand ==
  /\ ag.alive /\ inbox # <<>>
  /\ LET c == Oldest(inbox)
         changes == cn[c].kind \in Mutations
         v == IF changes THEN ag.ver + 1 ELSE ag.ver
     IN /\ changes => v <= MaxVersion
        /\ \/ /\ cn[c].kind # "exec"
              /\ ag' = [ag EXCEPT !.ver = v, !.deleting = @ \/ cn[c].kind = "delete"]
              /\ Commit(cn, <<c>>, v, FALSE)
           \/ \* start_instance_exec: the responder goes to the session's own task
              /\ cn[c].kind = "exec"
              /\ Commit([cn EXCEPT ![c].pc = IF @ = "asked" THEN "session" ELSE @], <<>>, v, FALSE)
              /\ UNCHANGED ag
  /\ inbox' = Tail(inbox)
  /\ UNCHANGED <<rq, reg>>

\* A turn that takes the completion of background work, the last one of a deletion included.
AgentWork ==
  /\ ag.alive /\ ag.ver > 0 /\ ag.ver < MaxVersion
  /\ ag' = [ag EXCEPT !.ver = @ + 1, !.alive = ~ag.deleting]
  /\ Commit(cn, <<>>, ag.ver + 1, ag.deleting)
  /\ inbox' = IF ag.deleting THEN <<>> ELSE inbox
  /\ UNCHANGED <<rq, reg>>

\* emit: an event goes to the streams without a change of the document.
AgentEvent ==
  /\ ag.alive /\ \E c \in Conns : cn[c].attached
  /\ cn' = Publish(cn, 0)
  /\ UNCHANGED <<rq, reg, ag, inbox, disk, reqFaults>>

\* A session's output chunk, through receive_session_result into the connection's events.
SessionOutput(c) ==
  /\ cn[c].pc = "session" /\ cn[c].chunks < MaxChunks
  /\ cn' = [cn EXCEPT ![c] = Emit([@ EXCEPT !.chunks = @ + 1], 0)]
  /\ UNCHANGED <<rq, reg, ag, inbox, disk, reqFaults>>

\* The session's own task answers, with or without an agent around it.
SessionEnd(c) ==
  /\ cn[c].pc = "session"
  /\ cn' = [cn EXCEPT ![c] = Succeeds(@, 0)]
  /\ UNCHANGED <<rq, reg, ag, inbox, disk, reqFaults>>

-----------------------------------------------------------------------------
(* The request's task *)

Met(c, v) == v = cn[c].want

\* receive_agent_response: status and mutations answer with the document; a wait first looks
\* at it and, when the condition is pending, asks for a stream.
Received(c) ==
  /\ cn[c].pc = "asked" /\ cn[c].reply.tag = "ok"
  /\ LET v == cn[c].reply.v
         waits == cn[c].kind = "wait" /\ ~Met(c, v)
     IN IF waits /\ Accepts(cn[c].on)
        THEN /\ cn' = [cn EXCEPT ![c] = [@ EXCEPT !.pc = "opening", !.seen = v, !.reply = NoReply]]
             /\ inbox' = Append(inbox, c)
        ELSE /\ cn' = [cn EXCEPT ![c] = IF waits THEN Fails(@) ELSE Succeeds(@, v)]
             /\ UNCHANGED inbox
  /\ UNCHANGED <<rq, reg, ag, disk, reqFaults>>

\* One item of the stream, in wait_on_agent and in agent_watch_response.
StreamItem(c) ==
  /\ cn[c].pc = "streaming" /\ cn[c].stream # <<>>
  /\ LET item == Head(cn[c].stream)
         r == Emit([cn[c] EXCEPT !.stream = Tail(@)], item)
     IN cn' = [cn EXCEPT ![c] =
                 IF item = 0 THEN r
                 ELSE IF cn[c].kind = "wait" /\ Met(c, item) THEN Succeeds(r, item)
                 ELSE [r EXCEPT !.seen = item]]
  /\ UNCHANGED <<rq, reg, ag, inbox, disk, reqFaults>>

\* The stream is gone: an answer only from a finished agent's last document, else an error.
StreamClosed(c) ==
  /\ cn[c].pc = "streaming" /\ cn[c].stream = <<>> /\ ~cn[c].attached
  /\ cn' = [cn EXCEPT ![c] = IF cn[c].kind = "wait" /\ Finished(cn[c].on) /\ Met(c, cn[c].seen)
                             THEN Succeeds(@, cn[c].seen) ELSE Fails(@)]
  /\ UNCHANGED <<rq, reg, ag, inbox, disk, reqFaults>>

\* wait_timeout_result; a wait that was given no timeout never takes this step.
WaitTimeout(c) ==
  /\ cn[c].pc = "streaming" /\ cn[c].kind = "wait"
  /\ cn' = [cn EXCEPT ![c] = [@ EXCEPT !.pc = "answered", !.reply = [tag |-> "timeout", v |-> cn[c].seen]]]
  /\ UNCHANGED <<rq, reg, ag, inbox, disk, reqFaults>>

-----------------------------------------------------------------------------
(* The connection *)

\* An event is written to the client while the task runs.
WriteEvent(c) ==
  /\ cn[c].up /\ cn[c].pc \notin {"idle", "done"} /\ cn[c].evq # <<>>
  /\ cn' = [cn EXCEPT ![c].evq = Tail(@)]
  /\ UNCHANGED <<rq, reg, ag, inbox, disk, reqFaults>>

\* The task has ended: the remaining events, then the response; nobody to write to otherwise.
WriteResponse(c) ==
  /\ cn[c].pc = "answered"
  /\ cn' = [cn EXCEPT ![c] = Done(@)]
  /\ UNCHANGED <<rq, reg, ag, inbox, disk, reqFaults>>

\* agentctl apply, scale and delete with --wait: once answered, the client waits on a
\* connection of its own for what the document it got is to become.
WaitAfter(c) ==
  /\ cn[c].pc = "answered" /\ cn[c].up /\ cn[c].kind \in Mutations /\ cn[c].reply.tag = "ok"
  /\ cn' = [cn EXCEPT ![c] = [Conn EXCEPT !.pc = "lookup", !.kind = "wait", !.want = MaxVersion]]
  /\ rq' = Append(rq, c)
  /\ UNCHANGED <<reg, ag, inbox, disk, reqFaults>>

\* The client is gone: its own timeout, Ctrl-C.  A mutation's task goes on, any other is aborted.
Disconnect(c) ==
  /\ cn[c].up /\ cn[c].pc \notin {"idle", "answered", "done"}
  /\ cn' = [cn EXCEPT ![c] = IF cn[c].kind \in Mutations THEN [@ EXCEPT !.up = FALSE]
                             ELSE Done(@)]
  /\ UNCHANGED <<rq, reg, ag, inbox, disk, reqFaults>>

ReqNext ==
  \/ RegistryStep \/ AgentCommand \/ AgentWork \/ AgentEvent
  \/ \E c \in Conns :
       \/ Accept(c) \/ SendCommand(c) \/ Received(c) \/ SessionOutput(c) \/ SessionEnd(c)
       \/ StreamItem(c) \/ StreamClosed(c) \/ WaitTimeout(c)
       \/ WriteEvent(c) \/ WriteResponse(c) \/ WaitAfter(c) \/ Disconnect(c)
ReqSpec == ReqInit /\ [][ReqNext]_reqVars

-----------------------------------------------------------------------------
\* Queues within their capacity, versions and program counters in range.
ReqTypeOK ==
  /\ Len(inbox) <= InboxCapacity /\ disk \in 0..MaxVersion /\ ag.ver \in 0..MaxVersion
  /\ ag.n \in 0..MaxAgents /\ reg \in 0..MaxAgents
  /\ \A c \in Conns : /\ Len(cn[c].stream) <= StreamCapacity /\ Len(cn[c].evq) <= EventCapacity
                      /\ cn[c].pc \in {"idle", "lookup", "found", "asked", "opening", "session",
                                       "streaming", "answered", "done"}

(***************************************************************************)
(* A waiter or watcher that sleeps on an empty stream of a running agent   *)
(* has seen the document as it is now: publication, the opening of the     *)
(* stream and the loss of a slow reader's stream leave no change untold.   *)
(***************************************************************************)
WaiterCurrent ==
  \A c \in Conns : cn[c].pc = "streaming" /\ cn[c].attached /\ cn[c].stream = <<>>
                   => cn[c].seen = disk

(***************************************************************************)
(* Every version a client has been shown or is about to be shown by a      *)
(* running agent's document, in a response or a stream, had reached the    *)
(* disk: commit_state is the only publication boundary, and a failing      *)
(* write is answered with an error.                                        *)
(***************************************************************************)
ShownIsDurable ==
  ag.alive => \A c \in Conns :
    cn[c].on = ag.n =>
      /\ cn[c].seen <= disk /\ cn[c].reply.v <= disk
      /\ \A item \in Range(cn[c].stream) \cup Range(cn[c].evq) : item <= disk

(***************************************************************************)
(* No request waits for an answer that nobody owes it: its command is in   *)
(* the registry's queue or in a running agent's inbox, or the reply, the   *)
(* refusal or the end of the agent has reached it.                         *)
(***************************************************************************)
NobodyForgotten ==
  \A c \in Conns :
    /\ cn[c].pc = "lookup" => c \in Range(rq)
    /\ cn[c].pc = "opening" => ag.alive /\ c \in Range(inbox)
    /\ cn[c].pc = "asked" /\ cn[c].reply = NoReply => ag.alive /\ c \in Range(inbox)
    /\ cn[c].attached => ag.alive /\ cn[c].on = ag.n
=============================================================================
