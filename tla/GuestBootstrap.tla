--------------------------- MODULE GuestBootstrap ----------------------------
(***************************************************************************)
(* Bootstrap of a guest, both ends: the guest's system daemon runs the     *)
(* steps of the plan and keeps their record on disk                        *)
(* (agentdp-guest/src/system: bootstrap, its scheduler and executor, the   *)
(* control channel), and the server waits for the outcome, asks for        *)
(* another attempt and writes files into the guest                         *)
(* (agentdp-server/src/qemu/control.rs).  They talk over a serial channel: *)
(* when the host connects again, what was on the way is gone, and the      *)
(* guest may not notice.  A write that times out may leave half a line.    *)
(***************************************************************************)
EXTENDS Naturals, Sequences, FiniteSets

CONSTANTS
    Steps, DependsOn, UserSteps, Resources,   \* the plan: a set, a function, a set, a function
    MaxParallel,                              \* bootstrap_parallelism
    MaxEpoch, MaxRestarts, MaxBreaks, Window  \* bounds: retries, restarts of the guest, faults, messages in flight

VARIABLES
    record,    \* BootstrapState, on disk
    guest,     \* the daemon: [at, emits, running, ended, replay, open]
    toHost, toGuest, connected,   \* the channel, and whether the host has it open
    session,   \* the server's Session, kept or in use; NoSession
    call,      \* the call of wait_bootstrap or write_user_file
    outcome,   \* the last outcome a call returned
    faults     \* history: [restarts, breaks]

guestVars == <<record, guest, toHost, toGuest, connected, session, call, outcome, faults>>
guestSide == <<record, guest>>
hostSide == <<session, call, outcome>>

NoSession == [open |-> FALSE, usable |-> FALSE, kept |-> FALSE, terminal |-> "none", epoch |-> 0]
NoCall == [at |-> "idle", retry |-> 0, hello |-> FALSE, expect |-> 0, status |-> "none", epoch |-> 0]
NoReplay == [status |-> <<>>, terminal |-> <<>>]
Status(life, e) == [kind |-> "Status", life |-> life, epoch |-> e]
Message(kind, e) == [kind |-> kind, life |-> "", epoch |-> e]
Booting == [at |-> "run", emits |-> <<Status("Pending", record.epoch)>>, running |-> {}, ended |-> {},
            replay |-> NoReplay, open |-> FALSE]

GuestTypeOK ==
    /\ record.epoch \in 0 .. MaxEpoch /\ record.steps \in [Steps -> {"None", "Pending", "Running", "Passed", "Failed"}]
    /\ guest.at \in {"run", "steps", "serve"} /\ guest.running \subseteq Steps
    /\ Len(toHost) <= Window + 4 /\ Len(toGuest) <= 1
    /\ {connected, session.open, session.usable, session.kept} \subseteq BOOLEAN
    /\ call.at \in {"idle", "enter", "connect", "read", "ack", "ackFile"}

GuestInit ==
    /\ record = [epoch |-> 0, steps |-> [s \in Steps |-> "None"]]
    /\ guest = Booting /\ toHost = <<>> /\ toGuest = <<>> /\ connected = FALSE
    /\ session = NoSession /\ call = NoCall /\ outcome = [result |-> "none", epoch |-> 0]
    /\ faults = [restarts |-> 0, breaks |-> 0]
-----------------------------------------------------------------------------
\* BootstrapState.
StepPassed(s) == record.steps[s] = "Passed"
HasFailed == \E s \in Steps : record.steps[s] = "Failed"
SetStep(s, status) == [record EXCEPT !.steps[s] = status]

\* SystemControl::send_replay, on a channel that was just opened.
Replay(g) == <<Message("Hello", 0)>> \o g.replay.status \o g.replay.terminal
\* BootstrapReplay::observe.
ObserveReplay(r, m) ==
    CASE m.kind = "Status" -> [status |-> <<m>>, terminal |-> <<>>]
      [] m.kind \in {"Finished", "Failed"} -> [r EXCEPT !.terminal = <<m>>]
      [] OTHER -> r

\* SystemControl::reopen, once the host is there.
Reopen ==
    /\ ~guest.open /\ connected /\ Len(toHost) <= Window
    /\ toHost' = toHost \o Replay(guest)
    /\ guest' = [guest EXCEPT !.open = TRUE]
    /\ UNCHANGED <<record, toGuest, connected, faults, hostSide>>

\* SystemControl::emit.
EmitEvent ==
    /\ guest.emits # <<>> /\ guest.open /\ connected /\ Len(toHost) < Window
    /\ toHost' = Append(toHost, Head(guest.emits))
    /\ guest' = [guest EXCEPT !.emits = Tail(@), !.replay = ObserveReplay(@, Head(guest.emits))]
    /\ UNCHANGED <<record, toGuest, connected, faults, hostSide>>

\* A write that fails or times out, perhaps within a line; or the end of the stream
\* while the daemon waits for commands.
ChannelLost ==
    /\ guest.open
    /\ \/ ~connected /\ UNCHANGED <<toHost, faults>>
       \/ /\ connected /\ guest.emits # <<>> /\ faults.breaks < MaxBreaks
          /\ faults' = [faults EXCEPT !.breaks = @ + 1]
          /\ toHost' \in {toHost, Append(toHost, Message("Torn", 0))}
    /\ guest' = [guest EXCEPT !.open = FALSE]
    /\ UNCHANGED <<record, toGuest, connected, hostSide>>
-----------------------------------------------------------------------------
Quiet == guest.emits = <<>>

\* Mutant: the step found running is reported as failed, but its record is not saved.
RunStateUnsaved ==
    /\ guest.at = "run" /\ Quiet
    /\ IF HasFailed \/ \E s \in Steps : record.steps[s] = "Running"
       THEN guest' = [guest EXCEPT !.at = "serve", !.emits = <<Status("Failed", record.epoch), Message("Failed", record.epoch)>>]
       ELSE guest' = [guest EXCEPT !.at = "steps"]
    /\ UNCHANGED <<record, toHost, toGuest, connected, faults, hostSide>>

\* run_state: a failure of an earlier attempt is reported again; a step that was
\* running when the daemon ended has failed.
RunState ==
    /\ guest.at = "run" /\ Quiet
    /\ LET interrupted == {s \in Steps : record.steps[s] = "Running"}
           failed == [guest EXCEPT !.at = "serve",
                                   !.emits = <<Status("Failed", record.epoch), Message("Failed", record.epoch)>>]
       IN  \/ HasFailed /\ guest' = failed /\ UNCHANGED record
           \/ ~HasFailed /\ \E s \in interrupted : record' = SetStep(s, "Failed") /\ guest' = failed
           \/ ~HasFailed /\ interrupted = {} /\ guest' = [guest EXCEPT !.at = "steps"] /\ UNCHANGED record
    /\ UNCHANGED <<toHost, toGuest, connected, faults, hostSide>>

\* BootstrapScheduler::next_ready; the order of the plan is left open.
NextReady(s) ==
    /\ ~StepPassed(s) /\ s \notin guest.running
    /\ s \in UserSteps => \A t \in Steps \ UserSteps : StepPassed(t)
    /\ \A d \in DependsOn[s] : StepPassed(d)
    /\ \A t \in guest.running : Resources[s] \cap Resources[t] = {}

Stopping == HasFailed
Unfinished == guest.running \cup {e.step : e \in guest.ended}

StartStep ==
    /\ guest.at = "steps" /\ Quiet /\ ~Stopping /\ Cardinality(Unfinished) < MaxParallel
    /\ \E s \in Steps \ Unfinished :
          /\ NextReady(s)
          /\ record' = SetStep(s, "Running")
          /\ guest' = [guest EXCEPT !.running = @ \cup {s},
                                    !.emits = <<Status("Running", record.epoch), Message("Progress", record.epoch)>>]
    /\ UNCHANGED <<toHost, toGuest, connected, faults, hostSide>>

\* StepExecutor::run: the script ends, is killed at its timeout, or fails.
StepEnds ==
    /\ \E s \in guest.running, passed \in BOOLEAN :
          guest' = [guest EXCEPT !.running = @ \ {s}, !.ended = @ \cup {[step |-> s, passed |-> passed]}]
    /\ UNCHANGED <<record, toHost, toGuest, connected, faults, hostSide>>

\* handle_task_event.
HandleTaskEvent ==
    /\ guest.at = "steps" /\ Quiet
    /\ \E e \in guest.ended :
          /\ record' = SetStep(e.step, IF e.passed THEN "Passed" ELSE "Failed")
          /\ guest' = [guest EXCEPT !.ended = @ \ {e},
                !.emits = IF e.passed
                          THEN <<Message("Progress", record.epoch), Status(IF HasFailed THEN "Failed" ELSE "Running", record.epoch)>>
                          ELSE <<Status("Failed", record.epoch)>>]
    /\ UNCHANGED <<toHost, toGuest, connected, faults, hostSide>>

\* The end of run_steps and of run_state.
FinishRun ==
    /\ guest.at = "steps" /\ Quiet
    /\ \/ /\ \A s \in Steps : StepPassed(s)
          /\ guest' = [guest EXCEPT !.at = "serve",
                                    !.emits = <<Status("Passed", record.epoch), Message("Finished", record.epoch)>>]
       \/ /\ Stopping /\ Unfinished = {}
          /\ guest' = [guest EXCEPT !.at = "serve",
                                    !.emits = <<Status("Failed", record.epoch), Message("Failed", record.epoch)>>]
    /\ UNCHANGED <<record, toHost, toGuest, connected, faults, hostSide>>

\* The host's commands.  A retry names the epoch it starts: the current one again
\* is answered and run again, the next one resets what has not passed.
Answer(kind) == toHost' = Append(toHost, Message(kind, Head(toGuest).epoch))
Undone == {s \in Steps : record.steps[s] \in {"Running", "Failed"}}

\* BootstrapState::prepare_retry.
NextAttempt(e) ==
    [epoch |-> e, steps |-> [s \in Steps |-> IF s \in Undone THEN "Pending" ELSE record.steps[s]]]

\* user_file: a worker of its own writes the file, or fails, or is killed at its deadline.
WriteFile == \E k \in {"Result", "Error"} : Answer(k) /\ UNCHANGED guestSide

ServeCommand ==
    /\ guest.at = "serve" /\ Quiet /\ guest.open /\ connected /\ toGuest # <<>>
    /\ toGuest' = <<>>
    /\ LET c == Head(toGuest)
           begun == [guest EXCEPT !.at = "run", !.replay.terminal = <<>>, !.emits = <<Status("Pending", c.epoch)>>]
           known == c.epoch = record.epoch
           next == c.epoch = record.epoch + 1 /\ Undone # {}
       IN  \/ c.kind = "File" /\ WriteFile
           \/ c.kind = "Retry" /\ known /\ Answer("Result") /\ guest' = begun /\ UNCHANGED record
           \/ c.kind = "Retry" /\ next /\ Answer("Result") /\ guest' = begun /\ record' = NextAttempt(c.epoch)
           \/ c.kind = "Retry" /\ ~known /\ ~next /\ Answer("Error") /\ UNCHANGED guestSide
    /\ UNCHANGED <<connected, faults, hostSide>>

\* The daemon, or the machine, is started again.
GuestRestarts ==
    /\ faults.restarts < MaxRestarts /\ faults' = [faults EXCEPT !.restarts = @ + 1]
    /\ guest' = Booting
    /\ UNCHANGED <<record, toHost, toGuest, connected, hostSide>>
-----------------------------------------------------------------------------
\* The host.  Closing a session loses what was on the way.
Closed == connected' = FALSE /\ toHost' = <<>> /\ toGuest' = <<>>
Disconnect == session' = NoSession /\ Closed
Return == call' = NoCall
Outcome(result, e) == outcome' = [result |-> result, epoch |-> e]
ChannelUnchanged == UNCHANGED <<connected, toHost, toGuest>>

\* wait_bootstrap is called for the first attempt, to attach again, or to ask for
\* the attempt after one that failed; write_user_file with a session that is kept.
WaitBootstrap ==
    /\ call = NoCall
    /\ \E retry \in {0} \cup (IF outcome.result = "Failed" /\ outcome.epoch < MaxEpoch THEN {outcome.epoch + 1} ELSE {}) :
          call' = [NoCall EXCEPT !.at = "enter", !.retry = retry]
    /\ UNCHANGED <<session, outcome, guestSide, faults>> /\ ChannelUnchanged

SendCommand(kind, e) == toGuest' = <<[kind |-> kind, epoch |-> e]>> /\ UNCHANGED <<connected, toHost>>

WriteUserFile ==
    /\ call = NoCall /\ session.kept /\ session.usable /\ session.terminal # "none"
    /\ call' = [NoCall EXCEPT !.at = "ackFile"] /\ SendCommand("File", 0)
    /\ UNCHANGED <<session, outcome, guestSide, faults>>

\* reconcile_retained_bootstrap.
UseRetained ==
    /\ call.at = "enter"
    /\ IF session.kept /\ session.usable /\ session.terminal # "none"
       THEN IF session.terminal = "Failed" /\ call.retry > session.epoch
            THEN /\ call' = [call EXCEPT !.at = "ack"] /\ SendCommand("Retry", call.retry)
                 /\ UNCHANGED <<session, outcome>>
            ELSE Outcome(session.terminal, session.epoch) /\ Return /\ UNCHANGED session /\ ChannelUnchanged
       ELSE Disconnect /\ call' = [call EXCEPT !.at = "connect"] /\ UNCHANGED outcome
    /\ UNCHANGED <<guestSide, faults>>

Connect ==
    /\ call.at = "connect"
    /\ connected' = TRUE /\ toHost' = <<>> /\ toGuest' = <<>>
    /\ session' = [NoSession EXCEPT !.open = TRUE, !.usable = TRUE]
    /\ call' = [call EXCEPT !.at = "read", !.hello = FALSE, !.expect = 0, !.status = "none", !.epoch = 0]
    /\ UNCHANGED <<outcome, guestSide, faults>>

\* An error leaves wait_bootstrap: a session of this call is closed with it, one
\* that was kept stays, with what is known of it.
FailCall(kept) ==
    /\ Return /\ UNCHANGED outcome
    /\ IF session.kept THEN session' = kept /\ ChannelUnchanged ELSE Disconnect

\* A terminal message has to follow the status that announced it.
TerminalMatches(m, life) == call.status = life /\ call.epoch = m.epoch

\* BootstrapObserver::handle on the next message of the stream.
Refused(m) ==
    \/ m.kind \in {"Torn", "Error"}
    \/ m.kind # "Hello" /\ ~call.hello
    \/ m.kind = "Status" /\ ((call.expect # 0 /\ m.epoch # call.expect) \/ (call.status # "none" /\ m.epoch < call.epoch))
    \/ m.kind \in {"Progress", "Result"} /\ call.status = "none"
    \/ m.kind = "Finished" /\ ~TerminalMatches(m, "Passed")
    \/ m.kind = "Failed" /\ ~TerminalMatches(m, "Failed")

\* read_bootstrap_stream: one line is taken from the socket.
TakeLine == toHost' = Tail(toHost) /\ UNCHANGED <<connected, toGuest>>

ReadBootstrapStream ==
    /\ call.at = "read" /\ toHost # <<>>
    /\ LET m == Head(toHost)
           ended == [session EXCEPT !.terminal = IF m.kind = "Finished" THEN "Passed" ELSE "Failed", !.epoch = m.epoch]
       IN  \/ Refused(m) /\ FailCall(session)
           \/ /\ ~Refused(m) /\ m.kind \in {"Hello", "Status", "Progress", "Result"} /\ TakeLine
              /\ call' = IF m.kind = "Hello" THEN [call EXCEPT !.hello = TRUE]
                         ELSE IF m.kind = "Status" THEN [call EXCEPT !.status = m.life, !.epoch = m.epoch]
                         ELSE call
              /\ UNCHANGED <<session, outcome>>
           \/ /\ ~Refused(m) /\ m.kind \in {"Finished", "Failed"}
              /\ IF m.kind = "Failed" /\ call.expect = 0 /\ call.retry > m.epoch
                 THEN /\ toHost' = Tail(toHost) /\ toGuest' = <<[kind |-> "Retry", epoch |-> call.retry]>> /\ UNCHANGED connected
                      /\ session' = ended /\ call' = [call EXCEPT !.at = "ack"] /\ UNCHANGED outcome
                 ELSE TakeLine /\ session' = [ended EXCEPT !.kept = TRUE] /\ Outcome(ended.terminal, m.epoch) /\ Return
    /\ UNCHANGED <<guestSide, faults>>

\* request_bootstrap_retry was answered.
RetryAccepted(s) == [s EXCEPT !.terminal = "none"]

\* read_command_result: the next line has to be the answer.
ReadCommandResult ==
    /\ call.at \in {"ack", "ackFile"} /\ toHost # <<>>
    /\ LET m == Head(toHost)
           broken == [session EXCEPT !.usable = FALSE]
       IN  IF m.kind = "Result"
           THEN /\ TakeLine /\ UNCHANGED outcome
                /\ IF call.at = "ackFile" THEN Return /\ UNCHANGED session
                   ELSE /\ session' = RetryAccepted(session)
                        /\ call' = [call EXCEPT !.at = "read", !.hello = TRUE, !.expect = call.retry, !.status = "none", !.epoch = 0]
           ELSE /\ Return /\ UNCHANGED outcome
                /\ IF session.kept
                   THEN TakeLine /\ session' = IF m.kind = "Error" THEN session ELSE broken
                   ELSE Disconnect
    /\ UNCHANGED <<guestSide, faults>>

\* The deadline of the call or of the command.  A stream that is given up is as good as closed.
TimeOut ==
    /\ call.at \in {"connect", "read", "ack", "ackFile"}
    /\ IF call.at \in {"ack", "ackFile"} THEN FailCall([session EXCEPT !.usable = FALSE])
       ELSE Disconnect /\ Return /\ UNCHANGED outcome
    /\ UNCHANGED <<guestSide, faults>>

\* The socket breaks while the stream is read: the call connects again.
SocketBreaks ==
    /\ connected /\ faults.breaks < MaxBreaks /\ faults' = [faults EXCEPT !.breaks = @ + 1]
    /\ call.at \in {"read", "ack", "ackFile"}
    /\ IF call.at = "read" THEN Disconnect /\ call' = [call EXCEPT !.at = "connect"] /\ UNCHANGED outcome
       ELSE FailCall([session EXCEPT !.usable = FALSE])
    /\ UNCHANGED guestSide

\* The server drops the session when it stops the instance or ends.
DropSession ==
    /\ call = NoCall /\ session.kept /\ Disconnect
    /\ UNCHANGED <<call, outcome, guestSide, faults>>

GuestNext ==
    \/ Reopen \/ EmitEvent \/ ChannelLost \/ RunState \/ StartStep \/ StepEnds \/ HandleTaskEvent \/ FinishRun
    \/ ServeCommand \/ GuestRestarts
    \/ WaitBootstrap \/ WriteUserFile \/ UseRetained \/ Connect \/ ReadBootstrapStream \/ ReadCommandResult
    \/ TimeOut \/ SocketBreaks \/ DropSession

GuestSpec == GuestInit /\ [][GuestNext]_guestVars
-----------------------------------------------------------------------------
\* What the server believes of a bootstrap is what the guest's disk says, through
\* restarts, lost messages and retries: passed means every step has passed, failed at
\* an epoch that a step of that epoch has failed or that a later attempt has begun.
OutcomeTrue ==
    /\ outcome.result = "Passed" => \A s \in Steps : StepPassed(s)
    /\ outcome.result = "Failed" => outcome.epoch < record.epoch \/ (outcome.epoch = record.epoch /\ HasFailed)

\* A step runs only after what it depends on has passed, never beside one that uses
\* the same resource, and never again once it has passed.
StepsInOrder ==
    \A s \in guest.running :
        /\ record.steps[s] = "Running"
        /\ \A d \in DependsOn[s] : StepPassed(d)
        /\ s \in UserSteps => \A t \in Steps \ UserSteps : StepPassed(t)
        /\ \A t \in guest.running \ {s} : Resources[s] \cap Resources[t] = {}
=============================================================================
