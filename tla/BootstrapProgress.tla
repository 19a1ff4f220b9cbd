-------------------------- MODULE BootstrapProgress --------------------------
(***************************************************************************)
(* What an instance's status says of its bootstrap (agent/runtime.rs).     *)
(* The bootstrap task reports its beginning and its end through the        *)
(* agent's inbox and waits for room there; the steps in between are        *)
(* offered and dropped when the inbox is full.  The agent turns both into  *)
(* status.work.bootstrap, counts failures and plans the next attempt,      *)
(* while new manifests move the desired generation and the server may      *)
(* crash.  Whatever else shares the inbox appears as "other" messages.     *)
(***************************************************************************)
EXTENDS Naturals, Sequences

CONSTANTS Steps,                                   \* steps of the guest's bootstrap, 1 .. Steps
          RetryDelay, RetryMaxDelay,               \* INSTANCE_BOOTSTRAP_RETRY_DELAY and its maximum
          BootInbox,                               \* INPUT_CAPACITY
          MaxGenerations, MaxFailures, MaxCrashes  \* bounds

\* Delays are whole numbers of a unit of time, and the exponent of the backoff ends at 8.
ASSUME BootAssumption ==
    /\ {Steps, RetryMaxDelay, BootInbox, MaxFailures, MaxCrashes} \subseteq Nat
    /\ MaxGenerations \in Nat \ {0}
    /\ \A n \in 0 .. 8 : RetryDelay * 2^n \in Nat

VARIABLES
    desired,   \* spec.desired_generation
    bootWork,  \* instance.work, NoWork when there is none
    shownBoot, \* status.work.bootstrap, NoBoot when there is none
    attempts,  \* status.bootstrap and readiness: [failures, wait, ready]
    retry,     \* bootstrap_retry: time left, None when there is no deadline
    bootTask,  \* the bootstrap task
    mail,      \* the agent's inbox
    nextWork,  \* next_work_id
    stored,    \* attempts as the instance document on disk has them
    bootFaults \* crashes so far, and the generation of the last recorded failure

bootVars == <<desired, bootWork, shownBoot, attempts, retry, bootTask, mail, nextWork, stored, bootFaults>>

NoWork == [id |-> 0, kind |-> "none", gen |-> 0]
NoBoot == [phase |-> "none", step |-> 0, count |-> 0]
None == RetryMaxDelay + 1
NoTask == [id |-> 0, gen |-> 0, at |-> "none", step |-> 0]
Fresh == [failures |-> 0, wait |-> 0, ready |-> FALSE]

BootTypeOK ==
    /\ desired \in 1 .. MaxGenerations /\ Len(mail) <= BootInbox /\ retry \in 0 .. None
    /\ bootWork.kind \in {"none", "Bootstrapping", "Reconciling"}
    /\ shownBoot.phase \in {"none", "Running", "Failed", "BackingOff"} /\ shownBoot.step \in 0 .. Steps
    /\ attempts.failures \in 0 .. MaxFailures /\ stored.failures \in 0 .. MaxFailures
    /\ attempts.wait \in 0 .. RetryMaxDelay
    /\ bootTask.at \in {"none", "announcing", "running", "failing", "finishing"}

BootInit ==
    /\ desired = 1 /\ bootWork = NoWork /\ shownBoot = NoBoot /\ attempts = Fresh /\ retry = None
    /\ bootTask = NoTask /\ mail = <<>> /\ nextWork = 1 /\ stored = Fresh
    /\ bootFaults = [crashes |-> 0, failedGen |-> 0]
-----------------------------------------------------------------------------
Least(a, b) == IF a < b THEN a ELSE b

\* bootstrap_retry_delay.
BootstrapRetryDelay(count) == Least(RetryDelay * 2^Least(IF count = 0 THEN 0 ELSE count - 1, 8), RetryMaxDelay)

\* bootstrap_retry_deadline: what a restart makes of the recorded deadline.
BootstrapRetryDeadline(doc) == IF doc.ready \/ doc.failures = 0 THEN None ELSE doc.wait

\* work_status: what admitting a kind of work shows.
WorkStatus(kind) == IF kind = "Bootstrapping" THEN [NoBoot EXCEPT !.phase = "Running"] ELSE NoBoot

Admit(kind) ==
    /\ bootWork' = [id |-> nextWork, kind |-> kind, gen |-> desired] /\ nextWork' = nextWork + 1
    /\ shownBoot' = WorkStatus(kind)

\* clear_instance_work.
Clear == bootWork' = NoWork /\ shownBoot' = NoBoot

\* bootstrap_retry_wake: the deadline counts for an instance without work that is not ready.
BootstrapRetryWake == bootWork = NoWork /\ ~attempts.ready

\* reconcile_instance_bootstrap: an instance that is not ready, without work and with
\* no deadline ahead.
ReconcileBootstrap ==
    /\ BootstrapRetryWake /\ bootTask = NoTask /\ retry \in {0, None}
    /\ nextWork <= MaxFailures + MaxGenerations + 2
    /\ retry' = None /\ Admit("Bootstrapping")
    /\ bootTask' = [id |-> nextWork, gen |-> desired, at |-> "announcing", step |-> 0]
    /\ UNCHANGED <<desired, attempts, mail, stored, bootFaults>>

\* Any other work of the instance; its completion comes through the inbox as well.
OtherWork ==
    /\ bootWork = NoWork /\ nextWork <= MaxGenerations
    /\ Admit("Reconciling")
    /\ UNCHANGED <<desired, attempts, retry, bootTask, mail, stored, bootFaults>>

\* apply_manifest: the projection clears readiness and the deadline; the recorded
\* failures and what is shown stay.
NewGeneration ==
    /\ desired < MaxGenerations /\ desired' = desired + 1
    /\ attempts' = [attempts EXCEPT !.ready = FALSE] /\ retry' = None
    /\ UNCHANGED <<bootWork, shownBoot, bootTask, mail, nextWork, stored, bootFaults>>
-----------------------------------------------------------------------------
Message(kind, step) == [kind |-> kind, id |-> bootTask.id, gen |-> bootTask.gen, step |-> step]

\* queue_completion waits until the inbox has room.
QueueCompletion(kind) == Len(mail) < BootInbox /\ mail' = Append(mail, Message(kind, 0))

\* queue_bootstrap_event: try_send.
QueueBootstrapEvent(kind, step) == mail' = IF Len(mail) < BootInbox THEN Append(mail, Message(kind, step)) ELSE mail

\* spawn_bootstrap_instance, with RuntimeBootstrapEvents as the sink of the backend's
\* events: the task announces itself, passes on what the guest reports, and ends with
\* the guest's verdict, a failed probe or a lost guest.
TaskAnnounces ==
    /\ bootTask.at = "announcing" /\ QueueCompletion("Started") /\ bootTask' = [bootTask EXCEPT !.at = "running"]
    /\ UNCHANGED <<desired, bootWork, shownBoot, attempts, retry, nextWork, stored, bootFaults>>

TaskReports ==
    /\ bootTask.at = "running"
    /\ \/ /\ bootTask.step < Steps /\ QueueBootstrapEvent("StepStarted", bootTask.step + 1)
          /\ bootTask' = [bootTask EXCEPT !.step = @ + 1]
       \/ bootTask.step > 0 /\ QueueBootstrapEvent("StepFinished", bootTask.step) /\ UNCHANGED bootTask
       \/ /\ bootTask.step > 0 /\ attempts.failures < MaxFailures
          /\ QueueBootstrapEvent("StepFailed", bootTask.step) /\ bootTask' = [bootTask EXCEPT !.at = "failing"]
       \/ bootTask' = [bootTask EXCEPT !.at = "finishing"] /\ UNCHANGED mail
    /\ UNCHANGED <<desired, bootWork, shownBoot, attempts, retry, nextWork, stored, bootFaults>>

TaskEnds ==
    /\ \/ bootTask.at = "finishing" /\ QueueCompletion("Passed")
       \/ bootTask.at \in {"finishing", "failing"} /\ attempts.failures < MaxFailures /\ QueueCompletion("Failed")
    /\ bootTask' = NoTask
    /\ UNCHANGED <<desired, bootWork, shownBoot, attempts, retry, nextWork, stored, bootFaults>>

\* Whatever else the inbox carries.
OtherMail ==
    /\ Len(mail) < BootInbox
    /\ mail' = Append(mail, [kind |-> "other", id |-> 0, gen |-> 0, step |-> 0])
    /\ UNCHANGED <<desired, bootWork, shownBoot, attempts, retry, bootTask, nextWork, stored, bootFaults>>
-----------------------------------------------------------------------------
OwnsBootstrap(msg) == bootWork.kind = "Bootstrapping" /\ bootWork.id = msg.id /\ bootWork.gen = msg.gen

\* The guard of apply_bootstrap_event and of BootstrapStarted.
ShowsEvent(msg) == msg.gen = desired /\ OwnsBootstrap(msg)

\* Mutant: a failed step is counted though the attempt will be.
ApplyBootstrapEventCounting(msg) ==
    /\ shownBoot' = IF msg.kind = "StepFailed" THEN [phase |-> "Failed", step |-> 0, count |-> attempts.failures + 1]
                    ELSE [phase |-> "Running", step |-> IF msg.kind = "StepStarted" THEN msg.step ELSE 0, count |-> 0]
    /\ attempts' = IF msg.kind = "StepFailed" THEN [attempts EXCEPT !.failures = @ + 1] ELSE attempts

\* apply_bootstrap_event: a step that began replaces what is shown, its end clears the
\* step, its failure shows the number the attempt will have when it ends.
ApplyBootstrapEvent(msg) ==
    /\ shownBoot' = CASE msg.kind \in {"Started", "StepStarted"} -> [phase |-> "Running", step |-> msg.step, count |-> 0]
                      [] msg.kind = "StepFinished" -> IF shownBoot = NoBoot THEN NoBoot ELSE [shownBoot EXCEPT !.step = 0]
                      [] OTHER -> [phase |-> "Failed", step |-> 0, count |-> attempts.failures + 1]
    /\ UNCHANGED attempts

\* BootstrapFinished for a generation that is no longer wanted.
FinishStale == Clear /\ retry' = None /\ UNCHANGED <<attempts, bootFaults>>

FinishPassed ==
    /\ attempts' = [failures |-> 0, wait |-> 0, ready |-> TRUE] /\ retry' = None /\ Clear /\ UNCHANGED bootFaults

FinishFailed ==
    LET count == attempts.failures + 1 IN
    /\ attempts' = [failures |-> count, wait |-> BootstrapRetryDelay(count), ready |-> FALSE]
    /\ retry' = BootstrapRetryDelay(count)
    /\ shownBoot' = [phase |-> "BackingOff", step |-> 0, count |-> count] /\ bootWork' = NoWork
    /\ bootFaults' = [bootFaults EXCEPT !.failedGen = desired]

\* handle_bootstrap_completion.
HandleMail ==
    /\ mail # <<>> /\ mail' = Tail(mail)
    /\ LET msg == Head(mail) IN
       \/ msg.kind = "other" /\ UNCHANGED <<bootWork, shownBoot, attempts, retry, bootFaults>>
       \/ /\ msg.kind \in {"Started", "StepStarted", "StepFinished", "StepFailed"}
          /\ IF ShowsEvent(msg) THEN ApplyBootstrapEvent(msg) ELSE UNCHANGED <<shownBoot, attempts>>
          /\ UNCHANGED <<bootWork, retry, bootFaults>>
       \/ /\ msg.kind \in {"Passed", "Failed"}
          /\ IF ~OwnsBootstrap(msg) THEN UNCHANGED <<bootWork, shownBoot, attempts, retry, bootFaults>>
             ELSE IF msg.gen # desired THEN FinishStale
             ELSE IF msg.kind = "Passed" THEN FinishPassed ELSE FinishFailed
    /\ UNCHANGED <<desired, bootTask, nextWork, stored>>

\* The other work ends.
OtherWorkEnds ==
    /\ bootWork.kind = "Reconciling" /\ Clear
    /\ UNCHANGED <<desired, attempts, retry, bootTask, mail, nextWork, stored, bootFaults>>

\* Time passes; both the deadline and the recorded one come nearer.
Sooner(left) == IF left = 0 THEN 0 ELSE left - 1
Tick ==
    /\ retry \in 1 .. RetryMaxDelay /\ retry' = retry - 1
    /\ attempts' = [attempts EXCEPT !.wait = Sooner(@)] /\ stored' = [stored EXCEPT !.wait = Sooner(@)]
    /\ UNCHANGED <<desired, bootWork, shownBoot, bootTask, mail, nextWork, bootFaults>>

\* The turn's commit writes the instance document.
SaveStatus ==
    /\ stored # attempts /\ stored' = attempts
    /\ UNCHANGED <<desired, bootWork, shownBoot, attempts, retry, bootTask, mail, nextWork, bootFaults>>

\* The server dies and loads the document: tasks and inbox are gone, the work shown is
\* reset, readiness has to be found out again, the deadline comes from the record.
CrashAndLoad ==
    /\ bootFaults.crashes < MaxCrashes /\ bootFaults' = [bootFaults EXCEPT !.crashes = @ + 1]
    /\ attempts' = [stored EXCEPT !.ready = FALSE] /\ retry' = BootstrapRetryDeadline([stored EXCEPT !.ready = FALSE])
    /\ Clear /\ bootTask' = NoTask /\ mail' = <<>> /\ nextWork' = 1
    /\ UNCHANGED <<desired, stored>>

BootNext ==
    \/ ReconcileBootstrap \/ OtherWork \/ NewGeneration \/ TaskAnnounces \/ TaskReports \/ TaskEnds \/ OtherMail
    \/ HandleMail \/ OtherWorkEnds \/ Tick \/ SaveStatus \/ CrashAndLoad

BootSpec == BootInit /\ [][BootNext]_bootVars
-----------------------------------------------------------------------------
\* Progress that is shown is the progress of the attempt under way: though events are
\* dropped and arrive after the generation has moved, no step outlives its attempt, a
\* step that is shown was begun by the task of the work that is held, a failure shown
\* in advance has the number it will be recorded under, and an instance that is shown
\* backing off for its generation has a deadline.
ProgressTrue ==
    /\ bootWork.kind # "Bootstrapping" => shownBoot.phase \in {"none", "BackingOff"}
    /\ shownBoot.step # 0 => bootWork.kind = "Bootstrapping"
                             /\ (bootTask.id = bootWork.id => shownBoot.step <= bootTask.step)
    /\ shownBoot.phase = "Failed" => shownBoot.count = attempts.failures + 1
    /\ shownBoot.phase = "BackingOff" =>
          /\ shownBoot.count = attempts.failures /\ bootWork = NoWork
          /\ bootFaults.failedGen = desired => retry # None
=============================================================================
