--------------------------- MODULE HostCredentials ---------------------------
(***************************************************************************)
(* The refresh of the host's Codex tokens before an instance gets them     *)
(* (agentdp-server/src/host/credentials.rs).  One actor serves the tasks   *)
(* of all instances; the file it reads and replaces also belongs to the    *)
(* host's own tool, which refreshes and signs in without any lock, and the *)
(* authorization server may accept a refresh token only once.  A token is  *)
(* its number of issue; the digest of the file is its contents.            *)
(***************************************************************************)
EXTENDS Naturals, Sequences

CONSTANTS CredTasks, CredCapacity,          \* COMMAND_CAPACITY
          MaxIssued, MaxCredFaults          \* bounds: tokens issued, failures

\* The command queue is an mpsc channel with a fixed capacity; 0 stands for no task and
\* for no token.
ASSUME CredAssumption ==
    /\ {CredCapacity, MaxCredFaults} \subseteq Nat
    /\ MaxIssued \in Nat \ {0}
    /\ 0 \notin CredTasks

VARIABLES
    auth,       \* auth.json: [whole, access, refresh], 0 for a token that is missing
    oauth,      \* the authorization server: [valid, issued, rotates] (external)
    life,       \* what is left of an access token: fresh, due (within REFRESH_WINDOW), expired
    hostTool,   \* [at, access, refresh, orphan], orphan: its file was replaced while open (external)
    actor,      \* run_actor and the call of prepare_codex_auth under way
    requests,   \* the command queue: the tasks waiting
    credTask,   \* what each task was told: none, waiting, ready, failed, expired, error
    failures,   \* the cached failure: [some, digest, retry], retry: FALSE for never
    credLog     \* bounds and history: [faults, lost, rejected]

credVars == <<auth, oauth, life, hostTool, actor, requests, credTask, failures, credLog>>

Issues == 0 .. MaxIssued
NoFailure == [some |-> FALSE, digest |-> [whole |-> FALSE, access |-> 0, refresh |-> 0], retry |-> FALSE]
AtRest == [at |-> "idle", task |-> 0, read |-> NoFailure.digest, lives |-> <<>>, why |-> "none", got |-> NoFailure.digest]

CredTypeOK ==
    /\ auth \in [whole : BOOLEAN, access : Issues, refresh : Issues]
    /\ oauth.valid \subseteq 1 .. oauth.issued /\ oauth.issued \in Issues
    /\ hostTool.at \in {"idle", "holding", "open"}
    /\ actor.at \in {"idle", "reading", "observing", "asking", "answered", "writing"}
    /\ actor.at = "idle" <=> actor.task = 0
    /\ requests \in Seq(CredTasks) /\ Len(requests) <= CredCapacity
    /\ \A t \in CredTasks : credTask[t] \in {"none", "waiting", "ready", "failed", "expired", "error"}

CredInit ==
    /\ auth = [whole |-> TRUE, access |-> 1, refresh |-> 1]
    /\ \E rotates \in BOOLEAN : oauth = [valid |-> {1}, issued |-> 1, rotates |-> rotates]
    /\ life \in [1 .. MaxIssued -> {"fresh", "due", "expired"}] /\ \A n \in 2 .. MaxIssued : life[n] = "fresh"
    /\ hostTool = [at |-> "idle", access |-> 0, refresh |-> 0, orphan |-> FALSE]
    /\ actor = AtRest /\ requests = <<>> /\ failures = NoFailure
    /\ credTask = [t \in CredTasks |-> "none"]
    /\ credLog = [faults |-> 0, lost |-> FALSE, rejected |-> <<>>]

\* An access token that was issued comes near its end.
Age(n) ==
    /\ n <= oauth.issued /\ life[n] # "expired"
    /\ life' = [life EXCEPT ![n] = IF @ = "fresh" THEN "due" ELSE "expired"]
    /\ UNCHANGED <<auth, oauth, hostTool, actor, requests, credTask, failures, credLog>>
-----------------------------------------------------------------------------
\* The server answers a refresh with a token it accepts: the new access token, and a new
\* refresh token in place of the old one when it rotates them.
Granted(refresh) ==
    LET n == oauth.issued + 1 IN
    /\ oauth.issued < MaxIssued /\ refresh \in oauth.valid
    /\ oauth' = [oauth EXCEPT !.issued = n,
                              !.valid = IF oauth.rotates THEN (@ \ {refresh}) \cup {n} ELSE @]
GrantedTokens ==
    [whole |-> TRUE, access |-> oauth.issued + 1, refresh |-> IF oauth.rotates THEN oauth.issued + 1 ELSE 0]

\* The host's tool refreshes with the token of the file, or signs in anew; then it writes
\* the file in place: truncated first, whole afterwards.
HostRefresh ==
    /\ hostTool.at = "idle" /\ auth.whole /\ Granted(auth.refresh)
    /\ hostTool' = [hostTool EXCEPT !.at = "holding", !.access = oauth.issued + 1,
                                    !.refresh = IF oauth.rotates THEN oauth.issued + 1 ELSE auth.refresh]
    /\ UNCHANGED <<auth, life, actor, requests, credTask, failures, credLog>>
HostSignIn ==
    /\ hostTool.at = "idle" /\ oauth.issued < MaxIssued
    /\ oauth' = [oauth EXCEPT !.issued = @ + 1, !.valid = @ \cup {oauth.issued + 1}]
    /\ hostTool' = [hostTool EXCEPT !.at = "holding", !.access = oauth.issued + 1, !.refresh = oauth.issued + 1]
    /\ UNCHANGED <<auth, life, actor, requests, credTask, failures, credLog>>
HostTruncate ==
    /\ hostTool.at = "holding" /\ auth' = [auth EXCEPT !.whole = FALSE]
    /\ hostTool' = [hostTool EXCEPT !.at = "open", !.orphan = FALSE]
    /\ UNCHANGED <<oauth, life, actor, requests, credTask, failures, credLog>>
HostWrite ==
    /\ hostTool.at = "open"
    /\ auth' = IF hostTool.orphan THEN auth ELSE [whole |-> TRUE, access |-> hostTool.access, refresh |-> hostTool.refresh]
    /\ hostTool' = [hostTool EXCEPT !.at = "idle"]
    /\ UNCHANGED <<oauth, life, actor, requests, credTask, failures, credLog>>
-----------------------------------------------------------------------------
\* prepare, prepare_codex: a task asks the actor, which is started by the first; a full
\* queue is an error.
PrepareCodex(t) ==
    /\ credTask[t] # "waiting"
    /\ IF Len(requests) < CredCapacity
       THEN requests' = Append(requests, t) /\ credTask' = [credTask EXCEPT ![t] = "waiting"]
       ELSE credTask' = [credTask EXCEPT ![t] = "error"] /\ UNCHANGED requests
    /\ UNCHANGED <<auth, oauth, life, hostTool, actor, failures, credLog>>

TakeCommand ==
    /\ actor.at = "idle" /\ requests # <<>>
    /\ actor' = [AtRest EXCEPT !.at = "reading", !.task = Head(requests)] /\ requests' = Tail(requests)
    /\ UNCHANGED <<auth, oauth, life, hostTool, credTask, failures, credLog>>

Respond(told) == actor' = AtRest /\ credTask' = [credTask EXCEPT ![actor.task] = told]

\* AuthSnapshot: a file without access token needs no refresh; the lives are those of the
\* time the call began.
LifeOf(snapshot, lives) == IF snapshot.access = 0 THEN "fresh" ELSE lives[snapshot.access]
NeedsRefresh(snapshot, lives) == LifeOf(snapshot, lives) # "fresh"
IsExpired(snapshot, lives) == LifeOf(snapshot, lives) = "expired"
FailureState(snapshot, lives) == IF IsExpired(snapshot, lives) THEN "expired" ELSE "failed"

\* The cached failure holds for the same file: for ever when the token was rejected,
\* until TRANSIENT_RETRY_DELAY otherwise (RetryLater).
StillFailing(digest) == failures.some /\ failures.digest = digest
RetryLater ==
    /\ failures.some /\ failures.retry /\ failures' = NoFailure
    /\ UNCHANGED <<auth, oauth, life, hostTool, actor, requests, credTask, credLog>>

\* prepare_codex_auth up to its first decision.
ReadAuth ==
    /\ actor.at = "reading"
    /\ IF ~auth.whole THEN Respond("error") /\ UNCHANGED failures
       ELSE IF ~NeedsRefresh(auth, life) THEN Respond("ready") /\ failures' = NoFailure
       ELSE IF auth.refresh = 0 \/ StillFailing(auth) THEN Respond(FailureState(auth, life)) /\ UNCHANGED failures
       ELSE /\ actor' = [actor EXCEPT !.at = IF IsExpired(auth, life) THEN "observing" ELSE "asking",
                                      !.read = auth, !.lives = life, !.why = "expired"]
            /\ UNCHANGED <<failures, credTask>>
    /\ UNCHANGED <<auth, oauth, life, hostTool, requests, credLog>>

\* What was not found by the deadline: an expired token is refreshed now, a rejected one
\* is remembered.
NotObserved ==
    IF actor.why = "expired" THEN actor' = [actor EXCEPT !.at = "asking"] /\ UNCHANGED <<failures, credTask>>
    ELSE /\ Respond(FailureState(actor.read, actor.lives))
         /\ failures' = [some |-> TRUE, digest |-> actor.read, retry |-> FALSE]

\* observe_concurrent_host_refresh, read_changed_host_auth: the file is read again until
\* it changed or CONCURRENT_REFRESH_OBSERVE_TIMEOUT passed; a file that does not parse is
\* looked at again, and an error at the deadline.
ObserveHostRefresh ==
    /\ actor.at = "observing"
    /\ \/ /\ auth.whole /\ auth # actor.read /\ failures' = NoFailure
          /\ Respond(IF NeedsRefresh(auth, actor.lives) THEN FailureState(auth, actor.lives) ELSE "ready")
       \/ ~auth.whole /\ Respond("error") /\ UNCHANGED failures
       \/ auth = actor.read /\ NotObserved
    /\ UNCHANGED <<auth, oauth, life, hostTool, requests, credLog>>

\* refresh_codex_token: tokens, a rejection, or a failure that may pass: the request did
\* not arrive, or its answer is lost with the tokens in it.
Rejected == actor.read.refresh \notin oauth.valid
RefreshCodexToken ==
    /\ actor.at = "asking"
    /\ \/ /\ Granted(actor.read.refresh)
          /\ actor' = [actor EXCEPT !.at = "answered", !.got = GrantedTokens]
          /\ UNCHANGED <<failures, credLog, credTask>>
       \/ /\ Rejected /\ actor' = [actor EXCEPT !.at = "observing", !.why = "rejected"]
          /\ credLog' = [credLog EXCEPT !.rejected = Append(@, actor.read)]
          /\ UNCHANGED <<oauth, failures, credTask>>
       \/ /\ credLog.faults < MaxCredFaults
          /\ \/ UNCHANGED oauth /\ credLog' = [credLog EXCEPT !.faults = @ + 1]
             \/ Granted(actor.read.refresh) /\ credLog' = [credLog EXCEPT !.faults = @ + 1, !.lost = TRUE]
          /\ Respond(FailureState(actor.read, actor.lives))
          /\ failures' = [some |-> TRUE, digest |-> actor.read, retry |-> TRUE]
    /\ UNCHANGED <<auth, life, hostTool, requests>>

\* Mutant: tokens that are not in the answer are cleared.
UpdateAuthAll(latest, response) == response

\* update_auth: only the tokens of the answer are replaced.
UpdateAuth(latest, response) ==
    [latest EXCEPT !.access = response.access, !.refresh = IF response.refresh = 0 THEN @ ELSE response.refresh]

\* The file is read again; what the host wrote meanwhile is kept.
Reread ==
    /\ actor.at = "answered"
    /\ IF ~auth.whole THEN Respond("error") /\ UNCHANGED failures
       ELSE IF auth.refresh # actor.read.refresh
            THEN /\ failures' = NoFailure
                 /\ Respond(IF NeedsRefresh(auth, actor.lives) THEN FailureState(auth, actor.lives) ELSE "ready")
       ELSE actor' = [actor EXCEPT !.at = "writing", !.got = UpdateAuth(auth, @)] /\ UNCHANGED <<failures, credTask>>
    /\ UNCHANGED <<auth, oauth, life, hostTool, requests, credLog>>

\* write_atomic: a new file takes the name, or nothing is changed and the tokens are lost.
WriteAuth ==
    /\ actor.at = "writing"
    /\ \/ /\ auth' = actor.got /\ hostTool' = [hostTool EXCEPT !.orphan = (hostTool.at = "open")]
          /\ Respond("ready") /\ failures' = NoFailure /\ UNCHANGED credLog
       \/ /\ credLog.faults < MaxCredFaults /\ credLog' = [credLog EXCEPT !.faults = @ + 1, !.lost = TRUE]
          /\ Respond("error") /\ UNCHANGED <<auth, hostTool, failures>>
    /\ UNCHANGED <<oauth, life, requests>>

\* The server goes: ServiceInner aborts the actor, its cache is gone, and so are the
\* tokens of an answer not yet written.
ServerGoes ==
    /\ credLog.faults < MaxCredFaults
    /\ credLog' = [faults |-> credLog.faults + 1, rejected |-> <<>>,
                   lost |-> credLog.lost \/ actor.at \in {"answered", "writing"}]
    /\ actor' = AtRest /\ requests' = <<>> /\ failures' = NoFailure
    /\ credTask' = [t \in CredTasks |-> IF credTask[t] = "waiting" THEN "error" ELSE credTask[t]]
    /\ UNCHANGED <<auth, oauth, life, hostTool>>

CredNext ==
    \/ \E n \in 1 .. MaxIssued : Age(n)
    \/ HostRefresh \/ HostSignIn \/ HostTruncate \/ HostWrite
    \/ \E t \in CredTasks : PrepareCodex(t)
    \/ TakeCommand \/ ReadAuth \/ ObserveHostRefresh \/ RefreshCodexToken \/ Reread \/ WriteAuth
    \/ RetryLater \/ ServerGoes

CredSpec == CredInit /\ [][CredNext]_credVars
-----------------------------------------------------------------------------
\* AgentDP does not sign the host out: when nobody is changing the file, the refresh token
\* in it is one the authorization server still accepts, unless an answer, or the write of
\* the tokens in it, was lost.
RefreshTokenKept ==
    (auth.whole /\ hostTool.at = "idle" /\ actor.at \notin {"answered", "writing"} /\ ~credLog.lost)
        => auth.refresh \in oauth.valid

\* A refresh token the server rejected is not offered again from the same file by the same
\* server process: a failure is remembered until the file changes.
RejectedOnce ==
    \A m, n \in DOMAIN credLog.rejected : m # n => credLog.rejected[m] # credLog.rejected[n]

\* prepare_codex_auth leaves the host signed in, and does not repeat what was rejected.
SignInKept == RefreshTokenKept /\ RejectedOnce
=============================================================================
