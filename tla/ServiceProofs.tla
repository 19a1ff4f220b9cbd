---------------------------- MODULE ServiceProofs ----------------------------
(***************************************************************************)
(* The proofs about three services beside the control loop: the host's     *)
(* credentials (HostCredentials), the Tailscale routes of the instances    *)
(* (TailscaleRoutes) and the guest's notifications of pull request events  *)
(* (PrNotifications).  They share no state; each part has its own          *)
(* inductive invariant.                                                    *)
(***************************************************************************)
EXTENDS HostCredentials, TailscaleRoutes, PrNotifications, SequenceTheorems, TLAPS
-----------------------------------------------------------------------------
(***************************************************************************)
(* The host's credentials.  That the refresh token survives rests on each  *)
(* token the server issued having one holder until it is written (the file,*)
(* the host's tool or the actor's answer); that a rejection is final rests *)
(* on an access token being written to the file only once.                 *)
(***************************************************************************)
Lives == {"fresh", "due", "expired"}
Auths == [whole : BOOLEAN, access : Issues, refresh : Issues]

HostBusy == hostTool.at # "idle"
ActorBusy == actor.at \in {"observing", "asking", "answered", "writing"}
ActorHolds == actor.at \in {"answered", "writing"}

OauthSet == [valid : SUBSET Issues, issued : Issues, rotates : BOOLEAN]
HostSet == [at : {"idle", "holding", "open"}, access : Issues, refresh : Issues, orphan : BOOLEAN]
ActorSet ==
    [at : {"idle", "reading", "observing", "asking", "answered", "writing"},
     task : CredTasks \cup {0}, read : Auths,
     lives : [1 .. MaxIssued -> Lives] \cup {<<>>},
     why : {"none", "expired", "rejected"}, got : Auths]
ToldSet == {"none", "waiting", "ready", "failed", "expired", "error"}
FailureSet == [some : BOOLEAN, digest : Auths, retry : BOOLEAN]
LogSet == [faults : Nat, lost : BOOLEAN, rejected : Seq(Auths)]

CredTypesInv ==
    /\ auth \in Auths /\ oauth \in OauthSet /\ life \in [1 .. MaxIssued -> Lives]
    /\ hostTool \in HostSet /\ actor \in ActorSet
    /\ requests \in Seq(CredTasks) /\ Len(requests) <= CredCapacity
    /\ credTask \in [CredTasks -> ToldSet]
    /\ failures \in FailureSet /\ credLog \in LogSet

\* Who is at work, and that every token in use was issued.
IssuedInv ==
    /\ oauth.valid \subseteq 1 .. oauth.issued
    /\ {auth.access, auth.refresh} \subseteq 1 .. oauth.issued
    /\ HostBusy => {hostTool.access, hostTool.refresh} \subseteq 1 .. oauth.issued
    /\ actor.at = "idle" <=> actor.task = 0
    /\ ActorBusy => {actor.read.access, actor.read.refresh} \subseteq 1 .. oauth.issued
    /\ ActorHolds => actor.got.access \in 1 .. oauth.issued /\ actor.got.refresh <= oauth.issued

\* A torn file is about to be written; what the actor read or will write was whole.
WholeInv ==
    /\ ~auth.whole => hostTool.at = "open" /\ ~hostTool.orphan
    /\ ActorBusy => actor.read.whole
    /\ actor.at = "writing" => actor.got.whole

\* A server that does not rotate accepts every token; one that does keeps those that
\* are held and not yet in the file.
HeldInv ==
    /\ ~oauth.rotates =>
          /\ auth.refresh \in oauth.valid
          /\ HostBusy => hostTool.refresh \in oauth.valid
          /\ actor.at = "answered" => actor.got.refresh = 0
          /\ actor.at = "writing" => actor.got.refresh \in oauth.valid
    /\ oauth.rotates =>
          /\ HostBusy => /\ hostTool.refresh \in oauth.valid /\ hostTool.refresh # auth.refresh
                         /\ ActorBusy => hostTool.refresh # actor.read.refresh
          /\ ActorHolds => /\ actor.got.refresh \in oauth.valid /\ actor.got.refresh # auth.refresh
                           /\ HostBusy => actor.got.refresh # hostTool.refresh

\* A refresh token that is no longer accepted is about to be replaced.
KeptInv ==
    ~credLog.lost =>
        \/ auth.refresh \in oauth.valid
        \/ hostTool.at = "holding" \/ (hostTool.at = "open" /\ ~hostTool.orphan)
        \/ ActorHolds /\ auth.refresh = actor.read.refresh

\* An access token the host's tool or the actor holds is in no file that was read.
AccessInv ==
    /\ HostBusy => hostTool.access # auth.access
    /\ HostBusy /\ ActorBusy => hostTool.access # actor.read.access
    /\ HostBusy /\ ActorHolds => hostTool.access # actor.got.access

\* What the actor read is due for a refresh and stays so.
DueInv ==
    ActorBusy => life[actor.read.access] # "fresh" /\ actor.why \in {"expired", "rejected"}

Remembered(a) == failures.some /\ failures.digest = a /\ ~failures.retry
Observed(a) == actor.at = "observing" /\ actor.why = "rejected" /\ actor.read = a
BeforeAnswer == actor.at = "asking" \/ (actor.at = "observing" /\ actor.why = "expired")

\* A file whose token was rejected is due, is not about to come back, and while it is
\* there the rejection is remembered or its call under way; no other call starts on it.
IsRejection(a) ==
    /\ a.whole /\ a.access \in 1 .. oauth.issued /\ life[a.access] # "fresh"
    /\ HostBusy => a.access # hostTool.access
    /\ ActorHolds => a.access # actor.got.access
    /\ auth = a => Remembered(a) \/ Observed(a)
    /\ ActorBusy /\ auth = a => actor.read = a
    /\ BeforeAnswer => actor.read # a

RejectedInv == \A k \in DOMAIN credLog.rejected : IsRejection(credLog.rejected[k])

CredInv ==
    /\ CredTypesInv /\ IssuedInv /\ WholeInv /\ HeldInv /\ KeptInv
    /\ AccessInv /\ DueInv /\ RejectedInv /\ RejectedOnce

-----------------------------------------------------------------------------
\* The fields of the actor at rest, and what a reply leaves behind.
LEMMA AtRestFacts ==
    /\ AtRest.at = "idle" /\ AtRest.task = 0 /\ AtRest.why = "none"
    /\ AtRest = [at |-> "idle", task |-> 0, read |-> AtRest.read, lives |-> <<>>, why |-> "none", got |-> AtRest.got]
    /\ AtRest.read \in Auths /\ AtRest.got \in Auths
    /\ NoFailure \in FailureSet /\ ~NoFailure.some /\ ~NoFailure.retry
  BY CredAssumption DEF AtRest, NoFailure, Auths, Issues, FailureSet

LEMMA AtRestType == AtRest \in ActorSet
  BY AtRestFacts DEF ActorSet

LEMMA CredInitTypes == CredInit => CredTypesInv
  <1> SUFFICES ASSUME CredInit PROVE CredTypesInv
    OBVIOUS
  <1>1. auth \in Auths
    BY CredAssumption DEF CredInit, Auths, Issues
  <1>2. oauth \in OauthSet
    BY CredAssumption DEF CredInit, Issues, OauthSet
  <1>3. life \in [1 .. MaxIssued -> Lives]
    BY DEF CredInit, Lives
  <1>4. hostTool \in HostSet
    BY CredAssumption DEF CredInit, Issues, HostSet
  <1>5. actor \in ActorSet
    BY AtRestType DEF CredInit
  <1>6. requests \in Seq(CredTasks) /\ Len(requests) <= CredCapacity
    BY CredAssumption DEF CredInit
  <1>7. credTask \in [CredTasks -> ToldSet]
    BY DEF CredInit, ToldSet
  <1>8. failures \in FailureSet
    BY AtRestFacts DEF CredInit
  <1>9. credLog \in LogSet
    BY DEF CredInit, LogSet
  <1> QED
    BY <1>1, <1>2, <1>3, <1>4, <1>5, <1>6, <1>7, <1>8, <1>9 DEF CredTypesInv

\* A reply: the actor is at rest again and its task was told.
LEMMA RespondTypes ==
    ASSUME CredTypesInv, NEW word \in ToldSet, Respond(word)
    PROVE  actor' \in ActorSet /\ credTask' \in [CredTasks -> ToldSet]
  BY AtRestType DEF CredTypesInv, Respond

\* What a failed call tells its task.
LEMMA FailureTold ==
    ASSUME NEW snapshot, NEW lives PROVE FailureState(snapshot, lives) \in ToldSet
  BY DEF FailureState, ToldSet

\* A grant adds one token.
LEMMA GrantTypes ==
    ASSUME CredTypesInv, NEW refresh, Granted(refresh)
    PROVE  /\ oauth' \in OauthSet /\ oauth'.issued = oauth.issued + 1 /\ oauth'.rotates = oauth.rotates
           /\ oauth.issued + 1 \in Issues /\ refresh \in oauth.valid
           /\ oauth'.valid = IF oauth.rotates THEN (oauth.valid \ {refresh}) \cup {oauth.issued + 1} ELSE oauth.valid
           /\ oauth.issued \in Nat
  <1>1. oauth.issued \in Issues /\ oauth.valid \in SUBSET Issues /\ oauth.rotates \in BOOLEAN
    BY DEF CredTypesInv, OauthSet
  <1>2. oauth.issued \in Nat /\ oauth.issued + 1 \in Issues
    BY <1>1, CredAssumption DEF Granted, Issues
  <1>3. oauth' = [oauth EXCEPT !.issued = oauth.issued + 1,
                     !.valid = IF oauth.rotates THEN (oauth.valid \ {refresh}) \cup {oauth.issued + 1} ELSE oauth.valid]
    BY DEF Granted, CredTypesInv, OauthSet
  <1>4. /\ oauth'.issued = oauth.issued + 1 /\ oauth'.rotates = oauth.rotates
        /\ oauth'.valid = IF oauth.rotates THEN (oauth.valid \ {refresh}) \cup {oauth.issued + 1} ELSE oauth.valid
    BY <1>3 DEF CredTypesInv, OauthSet
  <1>5. oauth' \in OauthSet
    BY <1>1, <1>2, <1>3 DEF CredTypesInv, OauthSet
  <1> QED
    BY <1>2, <1>4, <1>5 DEF Granted

-----------------------------------------------------------------------------
(* What each action does, field by field, and that it keeps the types. *)

LEMMA AgeFacts ==
    ASSUME CredTypesInv, NEW n \in 1 .. MaxIssued, Age(n)
    PROVE  /\ CredTypesInv'
           /\ UNCHANGED <<auth, oauth, hostTool, actor, failures, credLog>>
           /\ \A k \in 1 .. MaxIssued : life[k] # "fresh" => life'[k] # "fresh"
  <1>1. life' \in [1 .. MaxIssued -> Lives]
    BY DEF Age, CredTypesInv, Lives
  <1>2. \A k \in 1 .. MaxIssued : life[k] # "fresh" => life'[k] # "fresh"
    BY DEF Age, CredTypesInv, Lives
  <1> QED
    BY <1>1, <1>2 DEF Age, CredTypesInv

LEMMA HostHoldsFacts ==
    ASSUME CredTypesInv, HostRefresh \/ HostSignIn
    PROVE  /\ CredTypesInv' /\ UNCHANGED <<auth, life, actor, failures, credLog>>
           /\ hostTool.at = "idle" /\ hostTool'.at = "holding" /\ hostTool'.access = oauth.issued + 1
           /\ oauth.issued \in Nat /\ oauth'.issued = oauth.issued + 1 /\ oauth'.rotates = oauth.rotates
           /\ \/ /\ auth.refresh \in oauth.valid
                 /\ oauth'.valid = IF oauth.rotates THEN (oauth.valid \ {auth.refresh}) \cup {oauth.issued + 1} ELSE oauth.valid
                 /\ hostTool'.refresh = IF oauth.rotates THEN oauth.issued + 1 ELSE auth.refresh
              \/ /\ oauth'.valid = oauth.valid \cup {oauth.issued + 1}
                 /\ hostTool'.refresh = oauth.issued + 1
  <1>0. oauth.issued \in Issues /\ auth.refresh \in Issues /\ hostTool.orphan \in BOOLEAN
    BY DEF CredTypesInv, OauthSet, Auths, HostSet
  <1>1. CASE HostRefresh
    <2>1. Granted(auth.refresh)
      BY <1>1 DEF HostRefresh
    <2> DEFINE r == IF oauth.rotates THEN oauth.issued + 1 ELSE auth.refresh
    <2>2. hostTool' = [hostTool EXCEPT !.at = "holding", !.access = oauth.issued + 1, !.refresh = r]
      BY <1>1 DEF HostRefresh
    <2>3. r \in Issues
      BY <2>1, <1>0, GrantTypes
    <2>4. hostTool' \in HostSet /\ hostTool'.at = "holding" /\ hostTool'.access = oauth.issued + 1 /\ hostTool'.refresh = r
      <3> HIDE DEF r
      <3> QED  BY <2>1, <2>2, <2>3, GrantTypes DEF CredTypesInv, HostSet
    <2>5. oauth' \in OauthSet
      BY <2>1, GrantTypes
    <2>6. CredTypesInv'
      BY <1>1, <2>4, <2>5 DEF HostRefresh, CredTypesInv
    <2> QED
      BY <1>1, <2>1, <2>4, <2>6, GrantTypes DEF HostRefresh
  <1>2. CASE HostSignIn
    <2>1. oauth.issued \in Nat /\ oauth.issued + 1 \in Issues
      BY <1>0, <1>2, CredAssumption DEF HostSignIn, Issues
    <2>2. /\ oauth' = [oauth EXCEPT !.issued = oauth.issued + 1, !.valid = oauth.valid \cup {oauth.issued + 1}]
          /\ hostTool' = [hostTool EXCEPT !.at = "holding", !.access = oauth.issued + 1, !.refresh = oauth.issued + 1]
      BY <1>2 DEF HostSignIn, CredTypesInv, OauthSet
    <2>3. /\ oauth' \in OauthSet /\ oauth'.issued = oauth.issued + 1 /\ oauth'.rotates = oauth.rotates
          /\ oauth'.valid = oauth.valid \cup {oauth.issued + 1}
      BY <2>1, <2>2 DEF CredTypesInv, OauthSet
    <2>4. /\ hostTool' \in HostSet /\ hostTool'.at = "holding" /\ hostTool'.access = oauth.issued + 1
          /\ hostTool'.refresh = oauth.issued + 1
      BY <2>1, <2>2 DEF CredTypesInv, HostSet
    <2>5. CredTypesInv'
      BY <1>2, <2>3, <2>4 DEF HostSignIn, CredTypesInv
    <2> QED
      BY <1>2, <2>1, <2>3, <2>4, <2>5 DEF HostSignIn
  <1> QED
    BY <1>1, <1>2

LEMMA HostTruncateFacts ==
    ASSUME CredTypesInv, HostTruncate
    PROVE  /\ CredTypesInv' /\ UNCHANGED <<oauth, life, actor, failures, credLog>>
           /\ hostTool.at = "holding" /\ hostTool'.at = "open" /\ ~hostTool'.orphan
           /\ hostTool'.access = hostTool.access /\ hostTool'.refresh = hostTool.refresh
           /\ ~auth'.whole /\ auth'.access = auth.access /\ auth'.refresh = auth.refresh
  <1>1. /\ hostTool' = [hostTool EXCEPT !.at = "open", !.orphan = FALSE]
        /\ auth' = [auth EXCEPT !.whole = FALSE]
    BY DEF HostTruncate
  <1>2. /\ hostTool' \in HostSet /\ hostTool'.at = "open" /\ ~hostTool'.orphan
        /\ hostTool'.access = hostTool.access /\ hostTool'.refresh = hostTool.refresh
    BY <1>1 DEF CredTypesInv, HostSet
  <1>3. auth' \in Auths /\ ~auth'.whole /\ auth'.access = auth.access /\ auth'.refresh = auth.refresh
    BY <1>1 DEF CredTypesInv, Auths
  <1> QED
    BY <1>2, <1>3 DEF HostTruncate, CredTypesInv

LEMMA HostWriteFacts ==
    ASSUME CredTypesInv, HostWrite
    PROVE  /\ CredTypesInv' /\ UNCHANGED <<oauth, life, actor, failures, credLog>>
           /\ hostTool.at = "open" /\ hostTool'.at = "idle"
           /\ hostTool.orphan => auth' = auth
           /\ ~hostTool.orphan => auth'.whole /\ auth'.access = hostTool.access /\ auth'.refresh = hostTool.refresh
  <1>1. /\ hostTool' = [hostTool EXCEPT !.at = "idle"]
        /\ auth' = IF hostTool.orphan THEN auth ELSE [whole |-> TRUE, access |-> hostTool.access, refresh |-> hostTool.refresh]
    BY DEF HostWrite
  <1>2. hostTool' \in HostSet /\ hostTool'.at = "idle"
    BY <1>1 DEF CredTypesInv, HostSet
  <1>3. hostTool.access \in Issues /\ hostTool.refresh \in Issues
    BY DEF CredTypesInv, HostSet
  <1>4. auth' \in Auths
    BY <1>1, <1>3 DEF CredTypesInv, Auths
  <1>5. ~hostTool.orphan => auth'.whole /\ auth'.access = hostTool.access /\ auth'.refresh = hostTool.refresh
    BY <1>1
  <1> QED
    BY <1>1, <1>2, <1>4, <1>5 DEF HostWrite, CredTypesInv

LEMMA PrepareFacts ==
    ASSUME CredTypesInv, NEW t \in CredTasks, PrepareCodex(t)
    PROVE  CredTypesInv' /\ UNCHANGED <<auth, oauth, life, hostTool, actor, failures, credLog>>
  <1>1. credTask' \in [CredTasks -> ToldSet]
    BY DEF PrepareCodex, CredTypesInv, ToldSet
  <1>2. requests' \in Seq(CredTasks) /\ Len(requests') <= CredCapacity
    <2>1. requests \in Seq(CredTasks) /\ Len(requests) <= CredCapacity /\ CredCapacity \in Nat
      BY CredAssumption DEF CredTypesInv
    <2>2. CASE requests' = Append(requests, t) /\ Len(requests) < CredCapacity
      <3>1. requests' \in Seq(CredTasks) /\ Len(requests') = Len(requests) + 1 /\ Len(requests) \in Nat
        BY <2>1, <2>2, AppendProperties, LenProperties
      <3> QED  BY <2>1, <2>2, <3>1
    <2>3. CASE requests' = requests
      BY <2>1, <2>3
    <2> QED
      BY <2>2, <2>3 DEF PrepareCodex
  <1> QED
    BY <1>1, <1>2 DEF PrepareCodex, CredTypesInv

LEMMA TakeFacts ==
    ASSUME CredTypesInv, TakeCommand
    PROVE  /\ CredTypesInv' /\ UNCHANGED <<auth, oauth, life, hostTool, failures, credLog>>
           /\ actor.at = "idle" /\ actor'.at = "reading" /\ actor'.task \in CredTasks
  <1>1. Head(requests) \in CredTasks /\ Tail(requests) \in Seq(CredTasks) /\ Len(Tail(requests)) <= CredCapacity
    BY CredAssumption DEF TakeCommand, CredTypesInv
  <1>2. actor' = [AtRest EXCEPT !.at = "reading", !.task = Head(requests)]
    BY DEF TakeCommand
  <1> DEFINE first == Head(requests)
  <1>3. actor' \in ActorSet /\ actor'.at = "reading" /\ actor'.task = first
    <2>1. first \in CredTasks /\ actor' = [AtRest EXCEPT !.at = "reading", !.task = first]
      BY <1>1, <1>2
    <2> HIDE DEF first
    <2> QED  BY <2>1, AtRestType DEF ActorSet
  <1> QED
    BY <1>1, <1>3 DEF TakeCommand, CredTypesInv

LEMMA RetryFacts ==
    ASSUME CredTypesInv, RetryLater
    PROVE  /\ CredTypesInv' /\ UNCHANGED <<auth, oauth, life, hostTool, actor, credLog>>
           /\ failures.retry /\ ~failures'.some
  BY AtRestFacts DEF RetryLater, CredTypesInv

LEMMA ReadFacts ==
    ASSUME CredTypesInv, ReadAuth
    PROVE  /\ CredTypesInv' /\ UNCHANGED <<auth, oauth, life, hostTool, credLog>> /\ actor.at = "reading"
           /\ \/ actor' = AtRest /\ failures' = failures
              \/ actor' = AtRest /\ failures' = NoFailure /\ auth.whole /\ ~NeedsRefresh(auth, life)
              \/ /\ auth.whole /\ NeedsRefresh(auth, life) /\ ~StillFailing(auth) /\ failures' = failures
                 /\ actor'.at \in {"observing", "asking"} /\ actor'.read = auth /\ actor'.why = "expired"
                 /\ actor'.task = actor.task
  <1>0. "error" \in ToldSet /\ "ready" \in ToldSet
    BY DEF ToldSet
  <1>1. CASE ~auth.whole
    <2>1. Respond("error") /\ UNCHANGED <<auth, oauth, life, hostTool, requests, credLog, failures>> /\ actor.at = "reading"
      BY <1>1 DEF ReadAuth
    <2>2. CredTypesInv'
      BY <1>0, <2>1, RespondTypes DEF CredTypesInv
    <2> QED  BY <2>1, <2>2 DEF Respond
  <1>2. CASE auth.whole /\ ~NeedsRefresh(auth, life)
    <2>1. /\ Respond("ready") /\ UNCHANGED <<auth, oauth, life, hostTool, requests, credLog>> /\ failures' = NoFailure
          /\ actor.at = "reading"
      BY <1>2 DEF ReadAuth
    <2>2. CredTypesInv'
      BY <1>0, <2>1, RespondTypes, AtRestFacts DEF CredTypesInv
    <2> QED  BY <1>2, <2>1, <2>2 DEF Respond
  <1>3. CASE auth.whole /\ NeedsRefresh(auth, life) /\ (auth.refresh = 0 \/ StillFailing(auth))
    <2>1. /\ Respond(FailureState(auth, life)) /\ UNCHANGED <<auth, oauth, life, hostTool, requests, credLog, failures>>
          /\ actor.at = "reading"
      BY <1>3 DEF ReadAuth
    <2>2. CredTypesInv'
      BY <2>1, RespondTypes, FailureTold DEF CredTypesInv
    <2> QED  BY <2>1, <2>2 DEF Respond
  <1>4. CASE auth.whole /\ NeedsRefresh(auth, life) /\ ~(auth.refresh = 0 \/ StillFailing(auth))
    <2> DEFINE where == IF IsExpired(auth, life) THEN "observing" ELSE "asking"
    <2>1. /\ actor' = [actor EXCEPT !.at = where, !.read = auth, !.lives = life, !.why = "expired"]
          /\ UNCHANGED <<auth, oauth, life, hostTool, requests, credLog, failures, credTask>> /\ actor.at = "reading"
      BY <1>4 DEF ReadAuth
    <2>2. where \in {"observing", "asking"}
      OBVIOUS
    <2>3. /\ actor' \in ActorSet /\ actor'.at = where /\ actor'.read = auth /\ actor'.why = "expired"
          /\ actor'.task = actor.task
      <3> HIDE DEF where
      <3> QED  BY <2>1, <2>2 DEF CredTypesInv, ActorSet
    <2>4. CredTypesInv'
      BY <2>1, <2>3 DEF CredTypesInv
    <2> QED
      BY <1>4, <2>1, <2>2, <2>3, <2>4
  <1> QED
    BY <1>1, <1>2, <1>3, <1>4

LEMMA ObserveFacts ==
    ASSUME CredTypesInv, ObserveHostRefresh
    PROVE  /\ CredTypesInv' /\ UNCHANGED <<auth, oauth, life, hostTool, credLog>> /\ actor.at = "observing"
           /\ \/ actor' = AtRest /\ failures' = NoFailure /\ auth.whole /\ auth # actor.read
              \/ actor' = AtRest /\ failures' = failures /\ ~auth.whole
              \/ /\ auth = actor.read /\ actor.why = "expired" /\ failures' = failures
                 /\ actor'.at = "asking" /\ actor'.read = actor.read /\ actor'.why = actor.why /\ actor'.task = actor.task
              \/ /\ auth = actor.read /\ actor.why # "expired" /\ actor' = AtRest
                 /\ failures'.some /\ failures'.digest = actor.read /\ ~failures'.retry
  <1>0. "error" \in ToldSet /\ "ready" \in ToldSet
    BY DEF ToldSet
  <1>1. UNCHANGED <<auth, oauth, life, hostTool, requests, credLog>> /\ actor.at = "observing"
    BY DEF ObserveHostRefresh
  <1>2. CASE auth.whole /\ auth # actor.read /\ failures' = NoFailure
             /\ Respond(IF NeedsRefresh(auth, actor.lives) THEN FailureState(auth, actor.lives) ELSE "ready")
    <2>1. CredTypesInv'
      BY <1>0, <1>1, <1>2, RespondTypes, FailureTold, AtRestFacts DEF CredTypesInv
    <2> QED  BY <1>1, <1>2, <2>1 DEF Respond
  <1>3. CASE ~auth.whole /\ Respond("error") /\ UNCHANGED failures
    <2>1. CredTypesInv'
      BY <1>0, <1>1, <1>3, RespondTypes DEF CredTypesInv
    <2> QED  BY <1>1, <1>3, <2>1 DEF Respond
  <1>4. CASE auth = actor.read /\ actor.why = "expired" /\ actor' = [actor EXCEPT !.at = "asking"] /\ UNCHANGED <<failures, credTask>>
    <2>1. /\ actor' \in ActorSet /\ actor'.at = "asking" /\ actor'.read = actor.read /\ actor'.why = actor.why
          /\ actor'.task = actor.task
      BY <1>4 DEF CredTypesInv, ActorSet
    <2>2. CredTypesInv'
      BY <1>1, <1>4, <2>1 DEF CredTypesInv
    <2> QED  BY <1>1, <1>4, <2>1, <2>2
  <1>5. CASE /\ auth = actor.read /\ actor.why # "expired" /\ Respond(FailureState(actor.read, actor.lives))
             /\ failures' = [some |-> TRUE, digest |-> actor.read, retry |-> FALSE]
    <2>1. failures' \in FailureSet /\ failures'.some /\ failures'.digest = actor.read /\ ~failures'.retry
      <3>1. actor.read \in Auths
        BY DEF CredTypesInv, ActorSet
      <3> QED  BY <1>5, <3>1 DEF FailureSet
    <2>2. CredTypesInv'
      BY <1>1, <1>5, <2>1, RespondTypes, FailureTold DEF CredTypesInv
    <2> QED  BY <1>1, <1>5, <2>1, <2>2 DEF Respond
  <1> QED
    BY <1>2, <1>3, <1>4, <1>5 DEF ObserveHostRefresh, NotObserved

\* The actor with the fields that its own steps change.
LEMMA AnswerFacts ==
    ASSUME CredTypesInv, NEW g \in Auths, NEW where \in {"answered", "writing"},
           actor' = [actor EXCEPT !.at = where, !.got = g]
    PROVE  /\ actor' \in ActorSet /\ actor'.at = where /\ actor'.got = g /\ actor'.read = actor.read
           /\ actor'.task = actor.task /\ actor'.why = actor.why
  BY DEF CredTypesInv, ActorSet

\* The history of rejections and faults.
LEMMA LogFacts ==
    ASSUME CredTypesInv
    PROVE  /\ credLog' = [credLog EXCEPT !.faults = @ + 1] =>
                 credLog' \in LogSet /\ credLog'.lost = credLog.lost /\ credLog'.rejected = credLog.rejected
           /\ credLog' = [credLog EXCEPT !.faults = @ + 1, !.lost = TRUE] =>
                 credLog' \in LogSet /\ credLog'.lost /\ credLog'.rejected = credLog.rejected
           /\ credLog' = [credLog EXCEPT !.rejected = Append(@, actor.read)] =>
                 credLog' \in LogSet /\ credLog'.lost = credLog.lost /\ credLog'.rejected = Append(credLog.rejected, actor.read)
  <1>1. credLog.faults \in Nat /\ credLog.rejected \in Seq(Auths) /\ actor.read \in Auths
    BY DEF CredTypesInv, LogSet, ActorSet
  <1>2. credLog' = [credLog EXCEPT !.faults = @ + 1] =>
            credLog' \in LogSet /\ credLog'.lost = credLog.lost /\ credLog'.rejected = credLog.rejected
    BY <1>1 DEF CredTypesInv, LogSet
  <1>3. credLog' = [credLog EXCEPT !.faults = @ + 1, !.lost = TRUE] =>
            credLog' \in LogSet /\ credLog'.lost /\ credLog'.rejected = credLog.rejected
    <2> SUFFICES ASSUME credLog' = [credLog EXCEPT !.faults = @ + 1, !.lost = TRUE]
                 PROVE  credLog' \in LogSet /\ credLog'.lost /\ credLog'.rejected = credLog.rejected
      OBVIOUS
    <2>1. credLog'.lost /\ credLog'.rejected = credLog.rejected
      BY DEF CredTypesInv, LogSet
    <2> DEFINE n == credLog.faults + 1
    <2>2. credLog' = [credLog EXCEPT !.faults = n, !.lost = TRUE] /\ n \in Nat
      BY <1>1 DEF CredTypesInv, LogSet
    <2>3. credLog' \in LogSet
      <3> HIDE DEF n
      <3> QED  BY <2>2, ZenonT(60) DEF CredTypesInv, LogSet
    <2> QED  BY <2>1, <2>3
  <1> DEFINE longer == Append(credLog.rejected, actor.read)
  <1>4. longer \in Seq(Auths)
    BY <1>1, AppendProperties
  <1>5. ASSUME credLog' = [credLog EXCEPT !.rejected = longer]
        PROVE  credLog' \in LogSet /\ credLog'.lost = credLog.lost /\ credLog'.rejected = longer
    <2> HIDE DEF longer
    <2> QED  BY <1>4, <1>5 DEF CredTypesInv, LogSet
  <1> QED
    BY <1>2, <1>3, <1>5

LEMMA RefreshFacts ==
    ASSUME CredTypesInv, RefreshCodexToken
    PROVE  /\ CredTypesInv' /\ UNCHANGED <<auth, life, hostTool>> /\ actor.at = "asking"
           /\ \/ /\ Granted(actor.read.refresh) /\ UNCHANGED <<failures, credLog>>
                 /\ actor'.at = "answered" /\ actor'.read = actor.read /\ actor'.task = actor.task /\ actor'.why = actor.why
                 /\ actor'.got.access = oauth.issued + 1
                 /\ actor'.got.refresh = IF oauth.rotates THEN oauth.issued + 1 ELSE 0
              \/ /\ actor'.at = "observing" /\ actor'.read = actor.read /\ actor'.task = actor.task /\ actor'.why = "rejected"
                 /\ credLog'.lost = credLog.lost /\ credLog'.rejected = Append(credLog.rejected, actor.read)
                 /\ UNCHANGED <<oauth, failures>>
              \/ /\ actor' = AtRest /\ credLog'.rejected = credLog.rejected
                 /\ \/ UNCHANGED oauth /\ credLog'.lost = credLog.lost
                    \/ Granted(actor.read.refresh) /\ credLog'.lost
  <1>0. UNCHANGED <<auth, life, hostTool, requests>> /\ actor.at = "asking" /\ actor.read \in Auths
    BY DEF RefreshCodexToken, CredTypesInv, ActorSet
  <1>1. CASE /\ Granted(actor.read.refresh) /\ actor' = [actor EXCEPT !.at = "answered", !.got = GrantedTokens]
             /\ UNCHANGED <<failures, credLog, credTask>>
    <2>1. oauth' \in OauthSet /\ oauth.issued + 1 \in Issues
      BY <1>1, GrantTypes
    <2>2. /\ GrantedTokens \in Auths /\ GrantedTokens.access = oauth.issued + 1
          /\ GrantedTokens.refresh = IF oauth.rotates THEN oauth.issued + 1 ELSE 0
      BY <2>1, CredAssumption DEF GrantedTokens, Auths, Issues
    <2>3. /\ actor' \in ActorSet /\ actor'.at = "answered" /\ actor'.got = GrantedTokens /\ actor'.read = actor.read
          /\ actor'.task = actor.task /\ actor'.why = actor.why
      BY <1>1, <2>2, AnswerFacts
    <2>4. CredTypesInv'
      BY <1>0, <1>1, <2>1, <2>3 DEF CredTypesInv
    <2> QED
      BY <1>0, <1>1, <2>2, <2>3, <2>4
  <1>2. CASE /\ actor' = [actor EXCEPT !.at = "observing", !.why = "rejected"]
             /\ credLog' = [credLog EXCEPT !.rejected = Append(@, actor.read)]
             /\ UNCHANGED <<oauth, failures, credTask>>
    <2>1. /\ actor' \in ActorSet /\ actor'.at = "observing" /\ actor'.read = actor.read
          /\ actor'.task = actor.task /\ actor'.why = "rejected"
      BY <1>2 DEF CredTypesInv, ActorSet
    <2>2. /\ credLog' \in LogSet /\ credLog'.lost = credLog.lost
          /\ credLog'.rejected = Append(credLog.rejected, actor.read)
      BY <1>2, LogFacts
    <2>3. CredTypesInv'
      BY <1>0, <1>2, <2>1, <2>2 DEF CredTypesInv
    <2> QED
      BY <1>0, <1>2, <2>1, <2>2, <2>3
  <1>3. CASE /\ \/ UNCHANGED oauth /\ credLog' = [credLog EXCEPT !.faults = @ + 1]
                \/ Granted(actor.read.refresh) /\ credLog' = [credLog EXCEPT !.faults = @ + 1, !.lost = TRUE]
             /\ Respond(FailureState(actor.read, actor.lives))
             /\ failures' = [some |-> TRUE, digest |-> actor.read, retry |-> TRUE]
    <2>1. failures' \in FailureSet
      BY <1>0, <1>3 DEF FailureSet
    <2>2. actor' \in ActorSet /\ credTask' \in [CredTasks -> ToldSet] /\ actor' = AtRest
      BY <1>3, RespondTypes, FailureTold DEF Respond
    <2>3. CASE UNCHANGED oauth /\ credLog' = [credLog EXCEPT !.faults = @ + 1]
      <3>1. credLog' \in LogSet /\ credLog'.lost = credLog.lost /\ credLog'.rejected = credLog.rejected
        BY <2>3, LogFacts
      <3>2. CredTypesInv'
        BY <1>0, <2>1, <2>2, <2>3, <3>1 DEF CredTypesInv
      <3> QED
        BY <1>0, <2>2, <2>3, <3>1, <3>2
    <2>4. CASE Granted(actor.read.refresh) /\ credLog' = [credLog EXCEPT !.faults = @ + 1, !.lost = TRUE]
      <3>1. credLog' \in LogSet /\ credLog'.lost /\ credLog'.rejected = credLog.rejected
        BY <2>4, LogFacts
      <3>2. oauth' \in OauthSet
        BY <2>4, GrantTypes
      <3>3. CredTypesInv'
        BY <1>0, <2>1, <2>2, <3>1, <3>2 DEF CredTypesInv
      <3> QED
        BY <1>0, <2>2, <2>4, <3>1, <3>3
    <2> QED
      BY <1>3, <2>3, <2>4
  <1> QED
    BY <1>1, <1>2, <1>3 DEF RefreshCodexToken

LEMMA RereadFacts ==
    ASSUME CredTypesInv, Reread
    PROVE  /\ CredTypesInv' /\ UNCHANGED <<auth, oauth, life, hostTool, credLog>> /\ actor.at = "answered"
           /\ \/ actor' = AtRest /\ failures' = failures /\ ~auth.whole
              \/ actor' = AtRest /\ failures' = NoFailure /\ auth.whole /\ auth.refresh # actor.read.refresh
              \/ /\ auth.whole /\ failures' = failures
                 /\ actor'.at = "writing" /\ actor'.read = actor.read /\ actor'.task = actor.task /\ actor'.why = actor.why
                 /\ actor'.got.whole /\ actor'.got.access = actor.got.access
                 /\ actor'.got.refresh = IF actor.got.refresh = 0 THEN auth.refresh ELSE actor.got.refresh
  <1>0. "error" \in ToldSet /\ "ready" \in ToldSet
    BY DEF ToldSet
  <1>1. UNCHANGED <<auth, oauth, life, hostTool, requests, credLog>> /\ actor.at = "answered"
    BY DEF Reread
  <1>2. CASE ~auth.whole
    <2>1. Respond("error") /\ UNCHANGED failures
      BY <1>2 DEF Reread
    <2>2. CredTypesInv'
      BY <1>0, <1>1, <2>1, RespondTypes DEF CredTypesInv
    <2> QED  BY <1>1, <1>2, <2>1, <2>2 DEF Respond
  <1>3. CASE auth.whole /\ auth.refresh # actor.read.refresh
    <2>1. /\ failures' = NoFailure
          /\ Respond(IF NeedsRefresh(auth, actor.lives) THEN FailureState(auth, actor.lives) ELSE "ready")
      BY <1>3 DEF Reread
    <2>2. CredTypesInv'
      BY <1>0, <1>1, <2>1, RespondTypes, FailureTold, AtRestFacts DEF CredTypesInv
    <2> QED  BY <1>1, <1>3, <2>1, <2>2 DEF Respond
  <1>4. CASE auth.whole /\ auth.refresh = actor.read.refresh
    <2> DEFINE updated == UpdateAuth(auth, actor.got)
    <2>1. actor' = [actor EXCEPT !.at = "writing", !.got = updated] /\ UNCHANGED <<failures, credTask>>
      BY <1>4 DEF Reread, CredTypesInv, ActorSet
    <2>2. actor.got \in Auths /\ auth \in Auths
      BY DEF CredTypesInv, ActorSet
    <2>3. actor.got.access \in Issues /\ actor.got.refresh \in Issues /\ auth.refresh \in Issues
      BY <2>2 DEF Auths
    <2>4. /\ updated \in Auths /\ updated.whole = auth.whole /\ updated.access = actor.got.access
          /\ updated.refresh = IF actor.got.refresh = 0 THEN auth.refresh ELSE actor.got.refresh
      BY <2>2, <2>3 DEF UpdateAuth, Auths
    <2> HIDE DEF updated
    <2>5. /\ actor' \in ActorSet /\ actor'.at = "writing" /\ actor'.got = updated /\ actor'.read = actor.read
          /\ actor'.task = actor.task /\ actor'.why = actor.why
      BY <2>1, <2>4, AnswerFacts
    <2>6. CredTypesInv'
      BY <1>1, <2>1, <2>5 DEF CredTypesInv
    <2> QED
      BY <1>1, <1>4, <2>1, <2>4, <2>5, <2>6
  <1> QED
    BY <1>2, <1>3, <1>4

LEMMA WriteFacts ==
    ASSUME CredTypesInv, WriteAuth
    PROVE  /\ CredTypesInv' /\ UNCHANGED <<oauth, life>> /\ actor.at = "writing" /\ actor' = AtRest
           /\ \/ /\ auth' = actor.got /\ failures' = NoFailure /\ credLog' = credLog
                 /\ hostTool'.at = hostTool.at /\ hostTool'.access = hostTool.access /\ hostTool'.refresh = hostTool.refresh
              \/ UNCHANGED <<auth, hostTool, failures>> /\ credLog'.lost /\ credLog'.rejected = credLog.rejected
  <1>0. "error" \in ToldSet /\ "ready" \in ToldSet
    BY DEF ToldSet
  <1>1. UNCHANGED <<oauth, life, requests>> /\ actor.at = "writing" /\ actor.got \in Auths
    BY DEF WriteAuth, CredTypesInv, ActorSet
  <1>2. CASE /\ auth' = actor.got /\ hostTool' = [hostTool EXCEPT !.orphan = (hostTool.at = "open")]
             /\ Respond("ready") /\ failures' = NoFailure /\ UNCHANGED credLog
    <2>1. /\ hostTool' \in HostSet /\ hostTool'.at = hostTool.at /\ hostTool'.access = hostTool.access
          /\ hostTool'.refresh = hostTool.refresh
      BY <1>2 DEF CredTypesInv, HostSet
    <2>2. CredTypesInv'
      BY <1>0, <1>1, <1>2, <2>1, RespondTypes, AtRestFacts DEF CredTypesInv
    <2> QED  BY <1>1, <1>2, <2>1, <2>2 DEF Respond
  <1>3. CASE /\ credLog' = [credLog EXCEPT !.faults = @ + 1, !.lost = TRUE]
             /\ Respond("error") /\ UNCHANGED <<auth, hostTool, failures>>
    <2>1. credLog' \in LogSet /\ credLog'.lost /\ credLog'.rejected = credLog.rejected
      BY <1>3, LogFacts
    <2>2. CredTypesInv'
      BY <1>0, <1>1, <1>3, <2>1, RespondTypes DEF CredTypesInv
    <2> QED  BY <1>1, <1>3, <2>1, <2>2 DEF Respond
  <1> QED
    BY <1>2, <1>3 DEF WriteAuth

LEMMA GoesFacts ==
    ASSUME CredTypesInv, ServerGoes
    PROVE  /\ CredTypesInv' /\ UNCHANGED <<auth, oauth, life, hostTool>> /\ actor' = AtRest
           /\ credLog'.rejected = <<>>
           /\ ~credLog'.lost => ~credLog.lost /\ ~ActorHolds
  <1>1. /\ credLog' = [faults |-> credLog.faults + 1, rejected |-> <<>>,
                       lost |-> credLog.lost \/ actor.at \in {"answered", "writing"}]
        /\ actor' = AtRest /\ requests' = <<>> /\ failures' = NoFailure
        /\ credTask' = [t \in CredTasks |-> IF credTask[t] = "waiting" THEN "error" ELSE credTask[t]]
        /\ UNCHANGED <<auth, oauth, life, hostTool>>
    BY DEF ServerGoes
  <1>2. credTask' \in [CredTasks -> ToldSet]
    BY <1>1 DEF CredTypesInv, ToldSet
  <1>3. credLog.faults + 1 \in Nat /\ credLog.lost \in BOOLEAN
    BY DEF CredTypesInv, LogSet
  <1>4. credLog' \in LogSet
    BY <1>1, <1>3 DEF LogSet
  <1>5. credLog'.rejected = <<>> /\ (~credLog'.lost => ~credLog.lost /\ ~ActorHolds)
    BY <1>1, <1>3 DEF ActorHolds
  <1>6. requests' \in Seq(CredTasks) /\ Len(requests') <= CredCapacity
    BY <1>1, CredAssumption
  <1>7. CredTypesInv'
    BY <1>1, <1>2, <1>4, <1>6, AtRestType, AtRestFacts DEF CredTypesInv
  <1> QED
    BY <1>1, <1>5, <1>7

-----------------------------------------------------------------------------
(* Steps that leave the file, the server and the host's tool alone. *)

\* The actor waits for a command or has just taken one.
Settled == actor.at \in {"idle", "reading"} /\ (actor.at = "idle" <=> actor.task = 0)

LEMMA ActorRests == ASSUME actor' = AtRest PROVE Settled'
  BY AtRestFacts DEF Settled

LEMMA RestFacts ==
    ASSUME Settled'
    PROVE  ~ActorBusy' /\ ~ActorHolds' /\ ~BeforeAnswer' /\ actor'.at \notin {"answered", "writing"}
  BY DEF Settled, ActorBusy, ActorHolds, BeforeAnswer

LEMMA RestKeepsTokens ==
    ASSUME CredInv, Settled', UNCHANGED <<auth, oauth, life, hostTool>>
    PROVE  IssuedInv' /\ WholeInv' /\ HeldInv' /\ AccessInv' /\ DueInv'
  <1>0. HostBusy' = HostBusy /\ ~ActorBusy' /\ ~ActorHolds' /\ actor'.at \notin {"answered", "writing"}
    BY RestFacts DEF HostBusy
  <1>1. IssuedInv'
    BY <1>0 DEF CredInv, IssuedInv, Settled
  <1>2. WholeInv'
    BY <1>0 DEF CredInv, WholeInv
  <1>3. HeldInv'
    BY <1>0 DEF CredInv, HeldInv
  <1>4. AccessInv' /\ DueInv'
    BY <1>0 DEF CredInv, AccessInv, DueInv
  <1> QED
    BY <1>1, <1>2, <1>3, <1>4

\* The call that ends held no answer that the file needs.
LEMMA RestKeepsRefresh ==
    ASSUME CredInv, Settled', UNCHANGED <<auth, oauth, hostTool>>,
           ~credLog'.lost => ~credLog.lost /\ ~(ActorHolds /\ auth.refresh = actor.read.refresh /\ auth.whole)
    PROVE  KeptInv'
  BY RestFacts DEF CredInv, KeptInv, WholeInv

\* The rejections stay what they are while the one of the file, if any, is remembered.
LEMMA RestKeepsRejections ==
    ASSUME CredInv, Settled', UNCHANGED <<auth, oauth, life, hostTool>>,
           credLog'.rejected = credLog.rejected,
           \A k \in DOMAIN credLog.rejected : auth = credLog.rejected[k] => Remembered(credLog.rejected[k])'
    PROVE  RejectedInv' /\ RejectedOnce'
  <1>1. ASSUME NEW k \in DOMAIN credLog.rejected PROVE IsRejection(credLog.rejected[k])'
    <2> DEFINE a == credLog.rejected[k]
    <2>1. IsRejection(a) /\ (auth = a => Remembered(a)') /\ a' = a
      BY <1>1 DEF CredInv, RejectedInv
    <2> HIDE DEF a
    <2>2. HostBusy' = HostBusy /\ ~ActorBusy' /\ ~ActorHolds' /\ ~BeforeAnswer'
      BY RestFacts DEF HostBusy
    <2>3. IsRejection(a)'
      BY <2>1, <2>2 DEF IsRejection
    <2> QED
      BY <2>3 DEF a
  <1> QED
    BY <1>1 DEF RejectedInv, RejectedOnce, CredInv

\* Steps of the queue and of the cache.
LEMMA QuietKeeps ==
    ASSUME CredInv, UNCHANGED <<auth, oauth, life, hostTool, actor, failures, credLog>>
    PROVE  /\ IssuedInv' /\ WholeInv' /\ HeldInv' /\ KeptInv' /\ AccessInv' /\ DueInv'
           /\ RejectedInv' /\ RejectedOnce'
  <1>1. ActorBusy' = ActorBusy /\ ActorHolds' = ActorHolds /\ HostBusy' = HostBusy /\ BeforeAnswer' = BeforeAnswer
    BY DEF ActorBusy, ActorHolds, HostBusy, BeforeAnswer
  <1>2. IssuedInv' /\ WholeInv' /\ HeldInv' /\ KeptInv' /\ AccessInv' /\ DueInv'
    BY <1>1 DEF CredInv, IssuedInv, WholeInv, HeldInv, KeptInv, AccessInv, DueInv
  <1>3. RejectedInv' /\ RejectedOnce'
    BY <1>1 DEF CredInv, RejectedInv, RejectedOnce, IsRejection, Remembered, Observed
  <1> QED
    BY <1>2, <1>3

-----------------------------------------------------------------------------
(* The host's tool, and the tokens growing old. *)

LEMMA TokenRanges ==
    ASSUME CredTypesInv, IssuedInv
    PROVE  /\ oauth.issued \in Nat /\ oauth.issued <= MaxIssued
           /\ auth.access \in 1 .. oauth.issued /\ auth.refresh \in 1 .. oauth.issued
           /\ ActorBusy => actor.read.access \in 1 .. oauth.issued /\ actor.read.refresh \in 1 .. oauth.issued
           /\ HostBusy => hostTool.access \in 1 .. oauth.issued /\ hostTool.refresh \in 1 .. oauth.issued
           /\ ActorHolds => actor.got.access \in 1 .. oauth.issued /\ actor.got.refresh \in 0 .. oauth.issued
           /\ ActorHolds => ActorBusy
  <1>1. oauth.issued \in Issues /\ actor.got \in Auths
    BY DEF CredTypesInv, OauthSet, ActorSet
  <1>2. actor.got.refresh \in Issues
    BY <1>1 DEF Auths
  <1> QED
    BY <1>1, <1>2, CredAssumption DEF IssuedInv, Issues, ActorHolds, ActorBusy

LEMMA AgeKeeps ==
    ASSUME CredInv, NEW n \in 1 .. MaxIssued, Age(n)
    PROVE  CredInv'
  <1>1. /\ CredTypesInv' /\ UNCHANGED <<auth, oauth, hostTool, actor, failures, credLog>>
        /\ \A k \in 1 .. MaxIssued : life[k] # "fresh" => life'[k] # "fresh"
    BY AgeFacts DEF CredInv
  <1>2. ActorBusy' = ActorBusy /\ ActorHolds' = ActorHolds /\ HostBusy' = HostBusy /\ BeforeAnswer' = BeforeAnswer
    BY <1>1 DEF ActorBusy, ActorHolds, HostBusy, BeforeAnswer
  <1>3. IssuedInv' /\ WholeInv' /\ HeldInv' /\ KeptInv' /\ AccessInv'
    BY <1>1, <1>2 DEF CredInv, IssuedInv, WholeInv, HeldInv, KeptInv, AccessInv
  <1>4. \A k \in 1 .. oauth.issued : life[k] # "fresh" => life'[k] # "fresh"
    <2>1. \A k \in 1 .. oauth.issued : k \in 1 .. MaxIssued
      BY TokenRanges, CredAssumption DEF CredInv
    <2> QED  BY <1>1, <2>1
  <1>5. DueInv'
    <2>1. ActorBusy => actor.read.access \in 1 .. oauth.issued
      BY TokenRanges DEF CredInv
    <2>2. ActorBusy => life[actor.read.access] # "fresh" /\ actor.why \in {"expired", "rejected"}
      BY DEF CredInv, DueInv
    <2>3. ActorBusy => life'[actor.read.access] # "fresh"
      BY <1>4, <2>1, <2>2
    <2> QED  BY <1>1, <1>2, <2>2, <2>3 DEF DueInv
  <1>6. \A a : IsRejection(a) => IsRejection(a)'
    BY <1>1, <1>2, <1>4 DEF IsRejection, Remembered, Observed
  <1>7. RejectedInv' /\ RejectedOnce'
    BY <1>1, <1>6 DEF CredInv, RejectedInv, RejectedOnce
  <1> QED
    BY <1>1, <1>3, <1>5, <1>7 DEF CredInv

LEMMA HostHoldsKeeps ==
    ASSUME CredInv, HostRefresh \/ HostSignIn
    PROVE  CredInv'
  <1> DEFINE n == oauth.issued + 1
  <1>1. /\ CredTypesInv' /\ UNCHANGED <<auth, life, actor, failures, credLog>>
        /\ hostTool.at = "idle" /\ hostTool'.at = "holding" /\ hostTool'.access = n
        /\ oauth'.issued = n /\ oauth'.rotates = oauth.rotates
        /\ \/ /\ auth.refresh \in oauth.valid
              /\ oauth'.valid = IF oauth.rotates THEN (oauth.valid \ {auth.refresh}) \cup {n} ELSE oauth.valid
              /\ hostTool'.refresh = IF oauth.rotates THEN n ELSE auth.refresh
           \/ oauth'.valid = oauth.valid \cup {n} /\ hostTool'.refresh = n
    BY HostHoldsFacts DEF CredInv
  <1>2. ActorBusy' = ActorBusy /\ ActorHolds' = ActorHolds /\ BeforeAnswer' = BeforeAnswer /\ HostBusy'
    BY <1>1 DEF ActorBusy, ActorHolds, HostBusy, BeforeAnswer
  <1>3. /\ oauth.issued \in Nat /\ \A k \in 0 .. oauth.issued : k # n /\ k <= n
        /\ oauth.issued <= n /\ n \in 1 .. n
    BY TokenRanges DEF CredInv
  <1>4. auth.access # n /\ auth.refresh # n /\ (ActorBusy => actor.read.access # n /\ actor.read.refresh # n)
        /\ (ActorHolds => actor.got.access # n /\ actor.got.refresh # n)
    BY <1>3, TokenRanges DEF CredInv
  <1>5. IssuedInv'
    <2>1. \A k \in 1 .. oauth.issued : k \in 1 .. n
      BY <1>3
    <2>2. oauth'.valid \subseteq 1 .. n /\ hostTool'.refresh \in 1 .. n
      BY <1>1, <1>3, <2>1, TokenRanges DEF CredInv, IssuedInv
    <2> HIDE DEF n
    <2> QED  BY <1>1, <1>2, <1>3, <2>1, <2>2, TokenRanges DEF CredInv, IssuedInv
  <1>6. WholeInv' /\ DueInv'
    BY <1>1, <1>2 DEF CredInv, WholeInv, DueInv
  <1>7. KeptInv'
    BY <1>1 DEF KeptInv
  <1>8. AccessInv'
    BY <1>1, <1>2, <1>4 DEF AccessInv
  <1>9. HeldInv'
    <2> HIDE DEF n
    <2>1. CASE ~oauth.rotates
      <3>1. oauth.valid \subseteq oauth'.valid /\ hostTool'.refresh \in oauth'.valid
        BY <1>1, <2>1
      <3> QED  BY <1>1, <1>2, <2>1, <3>1 DEF CredInv, HeldInv
    <2>2. CASE oauth.rotates
      <3>1. hostTool'.refresh = n /\ n \in oauth'.valid /\ \A k \in oauth.valid : k # auth.refresh => k \in oauth'.valid
        BY <1>1, <2>2
      <3> QED  BY <1>1, <1>2, <1>4, <2>2, <3>1 DEF CredInv, HeldInv
    <2> QED
      BY <2>1, <2>2
  <1>10. \A a : IsRejection(a) => IsRejection(a)'
    <2> SUFFICES ASSUME NEW a, IsRejection(a) PROVE IsRejection(a)'
      OBVIOUS
    <2>1. a.access # n /\ a.access \in 1 .. n
      BY <1>3 DEF IsRejection
    <2> HIDE DEF n
    <2> QED  BY <1>1, <1>2, <2>1 DEF IsRejection, Remembered, Observed
  <1>11. RejectedInv' /\ RejectedOnce'
    BY <1>1, <1>10 DEF CredInv, RejectedInv, RejectedOnce
  <1> QED
    BY <1>1, <1>5, <1>6, <1>7, <1>8, <1>9, <1>11 DEF CredInv

LEMMA HostTruncateKeeps ==
    ASSUME CredInv, HostTruncate
    PROVE  CredInv'
  <1>1. /\ CredTypesInv' /\ UNCHANGED <<oauth, life, actor, failures, credLog>>
        /\ hostTool.at = "holding" /\ hostTool'.at = "open" /\ ~hostTool'.orphan
        /\ hostTool'.access = hostTool.access /\ hostTool'.refresh = hostTool.refresh
        /\ ~auth'.whole /\ auth'.access = auth.access /\ auth'.refresh = auth.refresh
    BY HostTruncateFacts DEF CredInv
  <1>2. ActorBusy' = ActorBusy /\ ActorHolds' = ActorHolds /\ BeforeAnswer' = BeforeAnswer /\ HostBusy' /\ HostBusy
    BY <1>1 DEF ActorBusy, ActorHolds, HostBusy, BeforeAnswer
  <1>3. IssuedInv' /\ WholeInv' /\ DueInv'
    BY <1>1, <1>2 DEF CredInv, IssuedInv, WholeInv, DueInv
  <1>4. HeldInv' /\ KeptInv' /\ AccessInv'
    BY <1>1, <1>2 DEF CredInv, HeldInv, KeptInv, AccessInv
  <1>5. \A a : IsRejection(a) => IsRejection(a)'
    BY <1>1, <1>2 DEF IsRejection
  <1>6. RejectedInv' /\ RejectedOnce'
    BY <1>1, <1>5 DEF CredInv, RejectedInv, RejectedOnce
  <1> QED
    BY <1>1, <1>3, <1>4, <1>6 DEF CredInv

LEMMA HostWriteKeeps ==
    ASSUME CredInv, HostWrite
    PROVE  CredInv'
  <1>1. /\ CredTypesInv' /\ UNCHANGED <<oauth, life, actor, failures, credLog>>
        /\ hostTool.at = "open" /\ hostTool'.at = "idle"
        /\ hostTool.orphan => auth' = auth
        /\ ~hostTool.orphan => auth'.whole /\ auth'.access = hostTool.access /\ auth'.refresh = hostTool.refresh
    BY HostWriteFacts DEF CredInv
  <1>2. ActorBusy' = ActorBusy /\ ActorHolds' = ActorHolds /\ BeforeAnswer' = BeforeAnswer /\ ~HostBusy' /\ HostBusy
    BY <1>1 DEF ActorBusy, ActorHolds, HostBusy, BeforeAnswer
  <1>3. hostTool.orphan => auth.whole
    BY <1>1 DEF CredInv, WholeInv
  <1>4. IssuedInv' /\ WholeInv' /\ DueInv'
    BY <1>1, <1>2, <1>3 DEF CredInv, IssuedInv, WholeInv, DueInv
  <1>5. AccessInv'
    BY <1>2 DEF AccessInv
  <1>6. HeldInv'
    BY <1>1, <1>2 DEF CredInv, HeldInv
  <1>7. KeptInv'
    BY <1>1, <1>2 DEF CredInv, KeptInv, HeldInv
  <1>8. \A a : IsRejection(a) => IsRejection(a)'
    <2> SUFFICES ASSUME NEW a, IsRejection(a) PROVE IsRejection(a)'
      OBVIOUS
    <2>1. a.access # hostTool.access
      BY <1>2 DEF IsRejection
    <2>2. auth' = a => auth = a
      BY <1>1, <2>1
    <2> QED  BY <1>1, <1>2, <2>2 DEF IsRejection, Remembered, Observed
  <1>9. RejectedInv' /\ RejectedOnce'
    BY <1>1, <1>8 DEF CredInv, RejectedInv, RejectedOnce
  <1> QED
    BY <1>1, <1>4, <1>5, <1>6, <1>7, <1>9 DEF CredInv

-----------------------------------------------------------------------------
(* The actor. *)

LEMMA TakeKeeps ==
    ASSUME CredInv, TakeCommand
    PROVE  CredInv'
  <1>1. /\ CredTypesInv' /\ UNCHANGED <<auth, oauth, life, hostTool, failures, credLog>>
        /\ actor.at = "idle" /\ actor'.at = "reading" /\ actor'.task \in CredTasks
    BY TakeFacts DEF CredInv
  <1>2. Settled' /\ ~ActorHolds /\ ~ActorBusy
    BY <1>1, CredAssumption DEF Settled, ActorHolds, ActorBusy
  <1>3. KeptInv'
    BY <1>1, <1>2, RestKeepsRefresh
  <1>4. \A k \in DOMAIN credLog.rejected : auth = credLog.rejected[k] => Remembered(credLog.rejected[k])'
    BY <1>1 DEF CredInv, RejectedInv, IsRejection, Observed, Remembered
  <1>5. RejectedInv' /\ RejectedOnce'
    BY <1>1, <1>2, <1>4, RestKeepsRejections
  <1> QED
    BY <1>1, <1>2, <1>3, <1>5, RestKeepsTokens DEF CredInv

LEMMA RetryKeeps ==
    ASSUME CredInv, RetryLater
    PROVE  CredInv'
  <1>1. /\ CredTypesInv' /\ UNCHANGED <<auth, oauth, life, hostTool, actor, credLog>>
        /\ failures.retry /\ ~failures'.some
    BY RetryFacts DEF CredInv
  <1>2. ActorBusy' = ActorBusy /\ ActorHolds' = ActorHolds /\ HostBusy' = HostBusy /\ BeforeAnswer' = BeforeAnswer
    BY <1>1 DEF ActorBusy, ActorHolds, HostBusy, BeforeAnswer
  <1>3. IssuedInv' /\ WholeInv' /\ HeldInv' /\ KeptInv' /\ AccessInv' /\ DueInv'
    BY <1>1, <1>2 DEF CredInv, IssuedInv, WholeInv, HeldInv, KeptInv, AccessInv, DueInv
  <1>4. \A a : IsRejection(a) => IsRejection(a)'
    BY <1>1, <1>2 DEF IsRejection, Remembered, Observed
  <1>5. RejectedInv' /\ RejectedOnce'
    BY <1>1, <1>4 DEF CredInv, RejectedInv, RejectedOnce
  <1> QED
    BY <1>1, <1>3, <1>5 DEF CredInv

\* A file whose token was rejected needs a refresh.
LEMMA RejectedIsDue ==
    ASSUME CredInv, IsRejection(auth)
    PROVE  NeedsRefresh(auth, life) /\ auth.whole /\ (Remembered(auth) \/ Observed(auth))
  <1>1. auth.access \in 1 .. oauth.issued /\ oauth.issued \in Nat
    BY TokenRanges DEF CredInv
  <1>2. auth.access # 0
    BY <1>1
  <1> QED
    BY <1>2 DEF IsRejection, NeedsRefresh, LifeOf

\* A call goes on with what it has read: the fields its step leaves alone.
LEMMA ReadKeeps ==
    ASSUME CredInv, ReadAuth
    PROVE  CredInv'
  <1>1. /\ CredTypesInv' /\ UNCHANGED <<auth, oauth, life, hostTool, credLog>> /\ actor.at = "reading"
        /\ \/ actor' = AtRest /\ failures' = failures
           \/ actor' = AtRest /\ failures' = NoFailure /\ auth.whole /\ ~NeedsRefresh(auth, life)
           \/ /\ auth.whole /\ NeedsRefresh(auth, life) /\ ~StillFailing(auth) /\ failures' = failures
              /\ actor'.at \in {"observing", "asking"} /\ actor'.read = auth /\ actor'.why = "expired"
              /\ actor'.task = actor.task
    BY ReadFacts DEF CredInv
  <1>2. ~ActorHolds /\ ~ActorBusy /\ HostBusy' = HostBusy /\ \A a : ~Observed(a)
    BY <1>1 DEF ActorHolds, ActorBusy, HostBusy, Observed
  <1>3. CASE actor' = AtRest
    <2>1. Settled'
      BY <1>3, ActorRests
    <2>2. KeptInv'
      BY <1>1, <1>2, <2>1, RestKeepsRefresh
    <2>3. ASSUME NEW k \in DOMAIN credLog.rejected, auth = credLog.rejected[k]
          PROVE  Remembered(credLog.rejected[k])'
      <3>1. IsRejection(auth)
        BY <2>3 DEF CredInv, RejectedInv
      <3>2. failures' = failures /\ Remembered(auth)
        BY <1>1, <1>2, <3>1, RejectedIsDue, AtRestFacts, <1>3 DEF AtRest
      <3> QED
        BY <1>1, <2>3, <3>2 DEF Remembered
    <2>4. RejectedInv' /\ RejectedOnce'
      BY <1>1, <2>1, <2>3, RestKeepsRejections
    <2> QED
      BY <1>1, <2>1, <2>2, <2>4, RestKeepsTokens DEF CredInv
  <1>4. CASE /\ auth.whole /\ NeedsRefresh(auth, life) /\ ~StillFailing(auth) /\ failures' = failures
             /\ actor'.at \in {"observing", "asking"} /\ actor'.read = auth /\ actor'.why = "expired"
             /\ actor'.task = actor.task
    <2>1. ActorBusy' /\ ~ActorHolds' /\ actor'.at \notin {"idle", "answered", "writing"}
      BY <1>4 DEF ActorBusy, ActorHolds
    <2>2. IssuedInv'
      BY <1>1, <1>2, <1>4, <2>1, TokenRanges DEF CredInv, IssuedInv
    <2>3. WholeInv' /\ KeptInv'
      BY <1>1, <1>2, <1>4, <2>1 DEF CredInv, WholeInv, KeptInv
    <2>4. HeldInv' /\ AccessInv'
      BY <1>1, <1>2, <1>4, <2>1 DEF CredInv, HeldInv, AccessInv
    <2>5. DueInv'
      <3>1. auth.access # 0
        BY TokenRanges DEF CredInv
      <3> QED  BY <1>1, <1>4, <3>1 DEF DueInv, NeedsRefresh, LifeOf
    <2>6. ~IsRejection(auth)
      BY <1>2, <1>4, RejectedIsDue DEF Remembered, StillFailing
    <2>7. ASSUME NEW a, IsRejection(a) PROVE IsRejection(a)'
      <3>1. a # auth
        BY <2>6, <2>7
      <3> QED  BY <1>1, <1>2, <1>4, <2>1, <2>7, <3>1 DEF IsRejection
    <2>8. RejectedInv' /\ RejectedOnce'
      BY <1>1, <2>7 DEF CredInv, RejectedInv, RejectedOnce
    <2> QED
      BY <1>1, <2>2, <2>3, <2>4, <2>5, <2>8 DEF CredInv
  <1> QED
    BY <1>1, <1>3, <1>4

LEMMA ObserveKeeps ==
    ASSUME CredInv, ObserveHostRefresh
    PROVE  CredInv'
  <1>1. /\ CredTypesInv' /\ UNCHANGED <<auth, oauth, life, hostTool, credLog>> /\ actor.at = "observing"
        /\ \/ actor' = AtRest /\ failures' = NoFailure /\ auth.whole /\ auth # actor.read
           \/ actor' = AtRest /\ failures' = failures /\ ~auth.whole
           \/ /\ auth = actor.read /\ actor.why = "expired" /\ failures' = failures
              /\ actor'.at = "asking" /\ actor'.read = actor.read /\ actor'.why = actor.why /\ actor'.task = actor.task
           \/ /\ auth = actor.read /\ actor.why # "expired" /\ actor' = AtRest
              /\ failures'.some /\ failures'.digest = actor.read /\ ~failures'.retry
    BY ObserveFacts DEF CredInv
  <1>2. ~ActorHolds /\ ActorBusy /\ HostBusy' = HostBusy
    BY <1>1 DEF ActorHolds, ActorBusy, HostBusy
  <1>3. CASE /\ actor' = AtRest
             /\ \/ auth # actor.read \/ ~auth.whole
                \/ auth = actor.read /\ failures'.some /\ failures'.digest = actor.read /\ ~failures'.retry
    <2>1. Settled'
      BY <1>3, ActorRests
    <2>2. KeptInv'
      BY <1>1, <1>2, <2>1, RestKeepsRefresh
    <2>3. ASSUME NEW k \in DOMAIN credLog.rejected, auth = credLog.rejected[k]
          PROVE  Remembered(credLog.rejected[k])'
      <3>1. IsRejection(auth)
        BY <2>3 DEF CredInv, RejectedInv
      <3>2. auth = actor.read /\ auth.whole
        BY <1>2, <3>1 DEF IsRejection
      <3> QED
        BY <1>1, <1>3, <2>3, <3>2 DEF Remembered
    <2>4. RejectedInv' /\ RejectedOnce'
      BY <1>1, <2>1, <2>3, RestKeepsRejections
    <2> QED
      BY <1>1, <2>1, <2>2, <2>4, RestKeepsTokens DEF CredInv
  <1>4. CASE /\ auth = actor.read /\ actor.why = "expired" /\ failures' = failures
             /\ actor'.at = "asking" /\ actor'.read = actor.read /\ actor'.why = actor.why /\ actor'.task = actor.task
    <2>1. ActorBusy' /\ ~ActorHolds' /\ BeforeAnswer
      BY <1>1, <1>4 DEF ActorBusy, ActorHolds, BeforeAnswer
    <2>2. IssuedInv' /\ WholeInv' /\ KeptInv'
      BY <1>1, <1>2, <1>4, <2>1 DEF CredInv, IssuedInv, WholeInv, KeptInv
    <2>3. HeldInv' /\ AccessInv' /\ DueInv'
      BY <1>1, <1>2, <1>4, <2>1 DEF CredInv, HeldInv, AccessInv, DueInv
    <2>4. \A a : IsRejection(a) => IsRejection(a)'
      BY <1>1, <1>2, <1>4, <2>1 DEF IsRejection
    <2>5. RejectedInv' /\ RejectedOnce'
      BY <1>1, <2>4 DEF CredInv, RejectedInv, RejectedOnce
    <2> QED
      BY <1>1, <2>2, <2>3, <2>5 DEF CredInv
  <1> QED
    BY <1>1, <1>3, <1>4

\* The server answers, rejects, or the call fails.
LEMMA RefreshKeeps ==
    ASSUME CredInv, RefreshCodexToken
    PROVE  CredInv'
  <1>1. /\ CredTypesInv' /\ UNCHANGED <<auth, life, hostTool>> /\ actor.at = "asking"
        /\ \/ /\ Granted(actor.read.refresh) /\ UNCHANGED <<failures, credLog>>
              /\ actor'.at = "answered" /\ actor'.read = actor.read /\ actor'.task = actor.task /\ actor'.why = actor.why
              /\ actor'.got.access = oauth.issued + 1
              /\ actor'.got.refresh = IF oauth.rotates THEN oauth.issued + 1 ELSE 0
           \/ /\ actor'.at = "observing" /\ actor'.read = actor.read /\ actor'.task = actor.task /\ actor'.why = "rejected"
              /\ credLog'.lost = credLog.lost /\ credLog'.rejected = Append(credLog.rejected, actor.read)
              /\ UNCHANGED <<oauth, failures>>
           \/ /\ actor' = AtRest /\ credLog'.rejected = credLog.rejected
              /\ \/ UNCHANGED oauth /\ credLog'.lost = credLog.lost
                 \/ Granted(actor.read.refresh) /\ credLog'.lost
    BY RefreshFacts DEF CredInv
  <1>2. ~ActorHolds /\ ActorBusy /\ BeforeAnswer /\ HostBusy' = HostBusy /\ \A a : ~Observed(a)
    BY <1>1 DEF ActorHolds, ActorBusy, BeforeAnswer, HostBusy, Observed
  <1>3. ASSUME NEW a, IsRejection(a) PROVE a # auth
    BY <1>2, <1>3 DEF IsRejection
  <1> DEFINE n == oauth.issued + 1
  \* What a grant does to the tokens, whether or not its answer arrives.
  <1>4. ASSUME Granted(actor.read.refresh)
        PROVE  /\ oauth'.issued = n /\ oauth'.rotates = oauth.rotates /\ n \in Nat
               /\ oauth'.valid \subseteq 1 .. n /\ \A k \in 1 .. oauth.issued : k \in 1 .. n /\ k # n
               /\ oauth.rotates => /\ n \in oauth'.valid
                                   /\ \A k \in oauth.valid : k # actor.read.refresh => k \in oauth'.valid
               /\ ~oauth.rotates => oauth'.valid = oauth.valid
    <2>1. /\ oauth'.issued = n /\ oauth'.rotates = oauth.rotates /\ oauth.issued \in Nat
          /\ oauth'.valid = IF oauth.rotates THEN (oauth.valid \ {actor.read.refresh}) \cup {n} ELSE oauth.valid
      BY <1>4, GrantTypes DEF CredInv
    <2>2. oauth.valid \subseteq 1 .. oauth.issued
      BY DEF CredInv, IssuedInv
    <2> QED
      BY <2>1, <2>2
  <1>5. /\ auth.access \in 1 .. oauth.issued /\ auth.refresh \in 1 .. oauth.issued
        /\ actor.read.access \in 1 .. oauth.issued /\ actor.read.refresh \in 1 .. oauth.issued
        /\ HostBusy => hostTool.access \in 1 .. oauth.issued /\ hostTool.refresh \in 1 .. oauth.issued
    BY <1>2, TokenRanges DEF CredInv
  <1>6. CASE /\ Granted(actor.read.refresh) /\ UNCHANGED <<failures, credLog>>
             /\ actor'.at = "answered" /\ actor'.read = actor.read /\ actor'.task = actor.task /\ actor'.why = actor.why
             /\ actor'.got.access = n /\ actor'.got.refresh = IF oauth.rotates THEN n ELSE 0
    <2>1. ActorBusy' /\ ActorHolds' /\ ~BeforeAnswer'
      BY <1>6 DEF ActorBusy, ActorHolds, BeforeAnswer
    <2>2. /\ oauth'.issued = n /\ oauth'.rotates = oauth.rotates /\ n \in Nat
          /\ oauth'.valid \subseteq 1 .. n /\ \A k \in 1 .. oauth.issued : k \in 1 .. n /\ k # n
          /\ oauth.rotates => /\ n \in oauth'.valid
                              /\ \A k \in oauth.valid : k # actor.read.refresh => k \in oauth'.valid
          /\ ~oauth.rotates => oauth'.valid = oauth.valid
      BY <1>4, <1>6
    <2>3. n \in 1 .. n /\ actor'.got.refresh <= n
      BY <1>6, TokenRanges DEF CredInv
    <2> HIDE DEF n
    <2>4. IssuedInv'
      BY <1>1, <1>2, <1>5, <1>6, <2>1, <2>2, <2>3 DEF CredInv, IssuedInv
    <2>5. WholeInv' /\ DueInv'
      BY <1>1, <1>2, <1>6, <2>1 DEF CredInv, WholeInv, DueInv
    <2>6. AccessInv'
      BY <1>1, <1>2, <1>5, <1>6, <2>1, <2>2 DEF CredInv, AccessInv
    <2>7. HeldInv'
      <3>1. CASE ~oauth.rotates
        BY <1>1, <1>2, <1>6, <2>1, <2>2, <3>1 DEF CredInv, HeldInv
      <3>2. CASE oauth.rotates
        <4>1. actor'.got.refresh = n /\ n # auth.refresh /\ (HostBusy => n # hostTool.refresh)
          BY <1>5, <1>6, <2>2, <3>2
        <4>2. HostBusy => hostTool.refresh # actor.read.refresh /\ hostTool.refresh \in oauth.valid
          BY <1>2, <3>2 DEF CredInv, HeldInv
        <4> QED  BY <1>1, <1>2, <1>6, <2>1, <2>2, <3>2, <4>1, <4>2 DEF CredInv, HeldInv
      <3> QED
        BY <3>1, <3>2
    <2>8. KeptInv'
      BY <1>1, <1>2, <1>6, <2>1, <2>2 DEF CredInv, KeptInv
    <2>9. ASSUME NEW a, IsRejection(a) PROVE IsRejection(a)'
      <3>1. a # auth /\ a.access # n /\ a.access \in 1 .. n
        BY <1>3, <2>2, <2>9 DEF IsRejection
      <3> QED  BY <1>1, <1>2, <1>6, <2>1, <2>2, <2>9, <3>1 DEF IsRejection
    <2>10. RejectedInv' /\ RejectedOnce'
      BY <1>6, <2>9 DEF CredInv, RejectedInv, RejectedOnce
    <2> QED
      BY <1>1, <2>4, <2>5, <2>6, <2>7, <2>8, <2>10 DEF CredInv
  <1>7. CASE /\ actor'.at = "observing" /\ actor'.read = actor.read /\ actor'.task = actor.task /\ actor'.why = "rejected"
             /\ credLog'.lost = credLog.lost /\ credLog'.rejected = Append(credLog.rejected, actor.read)
             /\ UNCHANGED <<oauth, failures>>
    <2>1. ActorBusy' /\ ~ActorHolds' /\ ~BeforeAnswer' /\ actor'.at \notin {"answered", "writing"}
      BY <1>7 DEF ActorBusy, ActorHolds, BeforeAnswer
    <2>2. IssuedInv' /\ WholeInv' /\ KeptInv'
      BY <1>1, <1>2, <1>7, <2>1 DEF CredInv, IssuedInv, WholeInv, KeptInv
    <2>3. HeldInv' /\ AccessInv' /\ DueInv'
      BY <1>1, <1>2, <1>7, <2>1 DEF CredInv, HeldInv, AccessInv, DueInv
    <2>4. ASSUME NEW a, IsRejection(a) PROVE IsRejection(a)' /\ a # actor.read
      BY <1>1, <1>2, <1>3, <1>7, <2>1, <2>4 DEF IsRejection
    <2>5. IsRejection(actor.read)'
      <3>1. /\ actor.read.whole /\ life[actor.read.access] # "fresh"
            /\ HostBusy => actor.read.access # hostTool.access
        BY <1>2 DEF CredInv, WholeInv, DueInv, AccessInv
      <3>2. auth' = actor.read' => Observed(actor.read)'
        BY <1>7 DEF Observed
      <3> QED
        BY <1>1, <1>2, <1>5, <1>7, <2>1, <3>1, <3>2 DEF IsRejection
    <2> DEFINE old == credLog.rejected
    <2>6. /\ old \in Seq(Auths) /\ Len(old) \in Nat /\ credLog'.rejected = Append(old, actor.read)
          /\ DOMAIN old = 1 .. Len(old) /\ DOMAIN credLog'.rejected = 1 .. Len(old) + 1
          /\ credLog'.rejected[Len(old) + 1] = actor.read
          /\ \A k \in 1 .. Len(old) : credLog'.rejected[k] = old[k]
      <3>1. old \in Seq(Auths) /\ actor.read \in Auths
        BY DEF CredInv, CredTypesInv, LogSet, ActorSet
      <3> HIDE DEF old
      <3>2. credLog'.rejected = Append(old, actor.read)
        BY <1>7 DEF old
      <3> QED
        BY <3>1, <3>2, AppendProperties, LenProperties
    <2>7. \A k \in 1 .. Len(old) : IsRejection(old[k])
      BY <2>6 DEF CredInv, RejectedInv
    <2>8. \A j, k \in 1 .. Len(old) : j # k => old[j] # old[k]
      BY <2>6 DEF CredInv, RejectedOnce
    <2> HIDE DEF old
    <2>9. RejectedInv'
      <3>1. ASSUME NEW k \in DOMAIN credLog'.rejected PROVE IsRejection(credLog.rejected[k])'
        <4>1. k \in 1 .. Len(old) \/ k = Len(old) + 1
          BY <2>6, <3>1
        <4>2. CASE k \in 1 .. Len(old)
          <5> DEFINE b == old[k]
          <5>1. IsRejection(b)
            BY <2>7, <4>2
          <5>2. credLog'.rejected[k] = b
            BY <2>6, <4>2
          <5>3. \A a : IsRejection(a) => IsRejection(a)'
            BY <2>4
          <5> HIDE DEF b
          <5> QED  BY <5>1, <5>2, <5>3 DEF IsRejection, Remembered, Observed
        <4>3. CASE k = Len(old) + 1
          BY <1>7, <2>5, <2>6, <4>3 DEF IsRejection, Remembered, Observed
        <4> QED
          BY <4>1, <4>2, <4>3
      <3> QED
        BY <3>1 DEF RejectedInv
    <2>10. RejectedOnce'
      <3>1. \A k \in 1 .. Len(old) : old[k] # actor.read
        BY <2>4, <2>7
      <3>2. \A k \in DOMAIN credLog'.rejected : k \in 1 .. Len(old) \/ k = Len(old) + 1
        BY <2>6
      <3> QED
        BY <2>6, <2>8, <3>1, <3>2 DEF RejectedOnce
    <2> QED
      BY <1>1, <2>2, <2>3, <2>9, <2>10 DEF CredInv
  <1>8. CASE /\ actor' = AtRest /\ credLog'.rejected = credLog.rejected
             /\ UNCHANGED oauth /\ credLog'.lost = credLog.lost
    <2>1. Settled'
      BY <1>8, ActorRests
    <2>2. KeptInv'
      BY <1>1, <1>2, <1>8, <2>1, RestKeepsRefresh
    <2>3. \A k \in DOMAIN credLog.rejected : auth # credLog.rejected[k]
      BY <1>3 DEF CredInv, RejectedInv
    <2>4. RejectedInv' /\ RejectedOnce'
      BY <1>1, <1>8, <2>1, <2>3, RestKeepsRejections
    <2> QED
      BY <1>1, <1>8, <2>1, <2>2, <2>4, RestKeepsTokens DEF CredInv
  <1>9. CASE /\ actor' = AtRest /\ credLog'.rejected = credLog.rejected
             /\ Granted(actor.read.refresh) /\ credLog'.lost
    <2>1. Settled' /\ ~ActorBusy' /\ ~ActorHolds' /\ ~BeforeAnswer' /\ actor'.at \notin {"answered", "writing"}
      BY <1>9, ActorRests, RestFacts
    <2>2. /\ oauth'.issued = n /\ oauth'.rotates = oauth.rotates /\ n \in Nat
          /\ oauth'.valid \subseteq 1 .. n /\ \A k \in 1 .. oauth.issued : k \in 1 .. n /\ k # n
          /\ oauth.rotates => /\ n \in oauth'.valid
                              /\ \A k \in oauth.valid : k # actor.read.refresh => k \in oauth'.valid
          /\ ~oauth.rotates => oauth'.valid = oauth.valid
      BY <1>4, <1>9
    <2> HIDE DEF n
    <2>3. IssuedInv'
      BY <1>1, <1>2, <1>5, <2>1, <2>2 DEF IssuedInv, Settled
    <2>4. WholeInv' /\ DueInv' /\ KeptInv' /\ AccessInv'
      BY <1>1, <1>2, <1>9, <2>1 DEF CredInv, WholeInv, DueInv, KeptInv, AccessInv
    <2>5. HeldInv'
      BY <1>1, <1>2, <2>1, <2>2 DEF CredInv, HeldInv
    <2>6. ASSUME NEW a, IsRejection(a) PROVE IsRejection(a)'
      <3>1. a # auth /\ a.access \in 1 .. n
        BY <1>3, <2>2, <2>6 DEF IsRejection
      <3> QED  BY <1>1, <1>2, <2>1, <2>2, <2>6, <3>1 DEF IsRejection
    <2>7. RejectedInv' /\ RejectedOnce'
      BY <1>9, <2>6 DEF CredInv, RejectedInv, RejectedOnce
    <2> QED
      BY <1>1, <2>3, <2>4, <2>5, <2>7 DEF CredInv
  <1> QED
    BY <1>1, <1>6, <1>7, <1>8, <1>9

LEMMA RereadKeeps ==
    ASSUME CredInv, Reread
    PROVE  CredInv'
  <1>1. /\ CredTypesInv' /\ UNCHANGED <<auth, oauth, life, hostTool, credLog>> /\ actor.at = "answered"
        /\ \/ actor' = AtRest /\ failures' = failures /\ ~auth.whole
           \/ actor' = AtRest /\ failures' = NoFailure /\ auth.whole /\ auth.refresh # actor.read.refresh
           \/ /\ auth.whole /\ failures' = failures
              /\ actor'.at = "writing" /\ actor'.read = actor.read /\ actor'.task = actor.task /\ actor'.why = actor.why
              /\ actor'.got.whole /\ actor'.got.access = actor.got.access
              /\ actor'.got.refresh = IF actor.got.refresh = 0 THEN auth.refresh ELSE actor.got.refresh
    BY RereadFacts DEF CredInv
  <1>2. ActorHolds /\ ActorBusy /\ HostBusy' = HostBusy /\ \A a : ~Observed(a)
    BY <1>1 DEF ActorHolds, ActorBusy, HostBusy, Observed
  <1>3. CASE actor' = AtRest /\ failures' = failures /\ ~auth.whole
    <2>1. Settled'
      BY <1>3, ActorRests
    <2>2. KeptInv'
      BY <1>1, <1>3, <2>1, RestKeepsRefresh
    <2>3. \A k \in DOMAIN credLog.rejected : auth # credLog.rejected[k]
      BY <1>3 DEF CredInv, RejectedInv, IsRejection
    <2>4. RejectedInv' /\ RejectedOnce'
      BY <1>1, <2>1, <2>3, RestKeepsRejections
    <2> QED
      BY <1>1, <2>1, <2>2, <2>4, RestKeepsTokens DEF CredInv
  <1>4. CASE actor' = AtRest /\ auth.whole /\ auth.refresh # actor.read.refresh
    <2>1. Settled'
      BY <1>4, ActorRests
    <2>2. KeptInv'
      BY <1>1, <1>4, <2>1, RestKeepsRefresh
    <2>3. \A k \in DOMAIN credLog.rejected : auth # credLog.rejected[k]
      BY <1>2, <1>4 DEF CredInv, RejectedInv, IsRejection
    <2>4. RejectedInv' /\ RejectedOnce'
      BY <1>1, <2>1, <2>3, RestKeepsRejections
    <2> QED
      BY <1>1, <2>1, <2>2, <2>4, RestKeepsTokens DEF CredInv
  <1>5. CASE /\ auth.whole /\ failures' = failures
             /\ actor'.at = "writing" /\ actor'.read = actor.read /\ actor'.task = actor.task /\ actor'.why = actor.why
             /\ actor'.got.whole /\ actor'.got.access = actor.got.access
             /\ actor'.got.refresh = IF actor.got.refresh = 0 THEN auth.refresh ELSE actor.got.refresh
    <2>1. ActorBusy' /\ ActorHolds' /\ ~BeforeAnswer'
      BY <1>5 DEF ActorBusy, ActorHolds, BeforeAnswer
    <2>2. /\ auth.refresh \in 1 .. oauth.issued /\ oauth.issued \in Nat
          /\ actor.got.access \in 1 .. oauth.issued /\ actor.got.refresh \in 0 .. oauth.issued
      BY <1>2, TokenRanges DEF CredInv
    <2>3. IssuedInv'
      BY <1>1, <1>2, <1>5, <2>1, <2>2 DEF CredInv, IssuedInv
    <2>4. WholeInv' /\ KeptInv'
      BY <1>1, <1>2, <1>5, <2>1 DEF CredInv, WholeInv, KeptInv
    <2>5. AccessInv' /\ DueInv'
      BY <1>1, <1>2, <1>5, <2>1 DEF CredInv, AccessInv, DueInv
    <2>6. HeldInv'
      <3>1. CASE ~oauth.rotates
        BY <1>1, <1>2, <1>5, <2>1, <3>1 DEF CredInv, HeldInv
      <3>2. CASE oauth.rotates
        <4>1. actor.got.refresh \in oauth.valid /\ oauth.valid \subseteq 1 .. oauth.issued
          BY <1>2, <3>2 DEF CredInv, HeldInv, IssuedInv
        <4>2. actor.got.refresh # 0
          BY <4>1
        <4> QED  BY <1>1, <1>2, <1>5, <2>1, <3>2, <4>2 DEF CredInv, HeldInv
      <3> QED
        BY <3>1, <3>2
    <2>7. \A a : IsRejection(a) => IsRejection(a)'
      BY <1>1, <1>2, <1>5, <2>1 DEF IsRejection, Remembered
    <2>8. RejectedInv' /\ RejectedOnce'
      BY <1>1, <2>7 DEF CredInv, RejectedInv, RejectedOnce
    <2> QED
      BY <1>1, <2>3, <2>4, <2>5, <2>6, <2>8 DEF CredInv
  <1> QED
    BY <1>1, <1>3, <1>4, <1>5

LEMMA WriteKeeps ==
    ASSUME CredInv, WriteAuth
    PROVE  CredInv'
  <1>1. /\ CredTypesInv' /\ UNCHANGED <<oauth, life>> /\ actor.at = "writing" /\ actor' = AtRest
        /\ \/ /\ auth' = actor.got /\ failures' = NoFailure /\ credLog' = credLog
              /\ hostTool'.at = hostTool.at /\ hostTool'.access = hostTool.access /\ hostTool'.refresh = hostTool.refresh
           \/ UNCHANGED <<auth, hostTool, failures>> /\ credLog'.lost /\ credLog'.rejected = credLog.rejected
    BY WriteFacts DEF CredInv
  <1>2. ActorHolds /\ ActorBusy /\ \A a : ~Observed(a)
    BY <1>1 DEF ActorHolds, ActorBusy, Observed
  <1>3. Settled' /\ ~ActorBusy' /\ ~ActorHolds' /\ ~BeforeAnswer' /\ actor'.at \notin {"answered", "writing"}
    BY <1>1, ActorRests, RestFacts
  <1>4. CASE /\ auth' = actor.got /\ failures' = NoFailure /\ credLog' = credLog
             /\ hostTool'.at = hostTool.at /\ hostTool'.access = hostTool.access /\ hostTool'.refresh = hostTool.refresh
    <2>1. HostBusy' = HostBusy /\ actor.got.refresh \in oauth.valid /\ actor.got.whole
      BY <1>1, <1>2, <1>4 DEF CredInv, HeldInv, WholeInv, HostBusy
    <2>2. IssuedInv'
      BY <1>1, <1>2, <1>3, <1>4, <2>1 DEF CredInv, IssuedInv, Settled
    <2>3. WholeInv' /\ KeptInv' /\ DueInv'
      BY <1>1, <1>3, <1>4, <2>1 DEF WholeInv, KeptInv, DueInv
    <2>4. AccessInv'
      BY <1>2, <1>3, <1>4, <2>1 DEF CredInv, AccessInv
    <2>5. HeldInv'
      BY <1>1, <1>2, <1>3, <1>4, <2>1 DEF CredInv, HeldInv
    <2>6. ASSUME NEW a, IsRejection(a) PROVE IsRejection(a)'
      <3>1. auth' # a
        BY <1>2, <1>4, <2>6 DEF IsRejection
      <3> QED  BY <1>1, <1>3, <1>4, <2>1, <2>6, <3>1 DEF IsRejection
    <2>7. RejectedInv' /\ RejectedOnce'
      BY <1>4, <2>6 DEF CredInv, RejectedInv, RejectedOnce
    <2> QED
      BY <1>1, <2>2, <2>3, <2>4, <2>5, <2>7 DEF CredInv
  <1>5. CASE UNCHANGED <<auth, hostTool, failures>> /\ credLog'.lost /\ credLog'.rejected = credLog.rejected
    <2>1. KeptInv'
      BY <1>5 DEF KeptInv
    <2>2. \A k \in DOMAIN credLog.rejected : auth = credLog.rejected[k] => Remembered(credLog.rejected[k])'
      BY <1>2, <1>5 DEF CredInv, RejectedInv, IsRejection, Remembered
    <2>3. RejectedInv' /\ RejectedOnce'
      BY <1>1, <1>3, <1>5, <2>2, RestKeepsRejections
    <2> QED
      BY <1>1, <1>3, <1>5, <2>1, <2>3, RestKeepsTokens DEF CredInv
  <1> QED
    BY <1>1, <1>4, <1>5

LEMMA GoesKeeps ==
    ASSUME CredInv, ServerGoes
    PROVE  CredInv'
  <1>1. /\ CredTypesInv' /\ UNCHANGED <<auth, oauth, life, hostTool>> /\ actor' = AtRest
        /\ credLog'.rejected = <<>>
        /\ ~credLog'.lost => ~credLog.lost /\ ~ActorHolds
    BY GoesFacts DEF CredInv
  <1>2. Settled'
    BY <1>1, ActorRests
  <1>3. KeptInv'
    BY <1>1, <1>2, RestKeepsRefresh
  <1>4. RejectedInv' /\ RejectedOnce'
    BY <1>1 DEF RejectedInv, RejectedOnce
  <1> QED
    BY <1>1, <1>2, <1>3, <1>4, RestKeepsTokens DEF CredInv

LEMMA CredInitInv == CredInit => CredInv
  <1> SUFFICES ASSUME CredInit PROVE CredInv
    OBVIOUS
  <1>1. CredTypesInv
    BY CredInitTypes
  <1>2. /\ auth.whole /\ auth.access = 1 /\ auth.refresh = 1 /\ oauth.valid = {1} /\ oauth.issued = 1
        /\ hostTool.at = "idle" /\ actor = AtRest /\ credLog.rejected = <<>>
    BY DEF CredInit
  <1>3. ~ActorBusy /\ ~ActorHolds /\ ~HostBusy /\ actor.at = "idle" /\ actor.task = 0
    BY <1>2, AtRestFacts DEF ActorBusy, ActorHolds, HostBusy
  <1>4. IssuedInv
    BY <1>2, <1>3 DEF IssuedInv
  <1>5. WholeInv /\ HeldInv /\ KeptInv /\ AccessInv /\ DueInv
    BY <1>2, <1>3 DEF WholeInv, HeldInv, KeptInv, AccessInv, DueInv
  <1>6. RejectedInv /\ RejectedOnce
    BY <1>2 DEF RejectedInv, RejectedOnce
  <1> QED
    BY <1>1, <1>4, <1>5, <1>6 DEF CredInv

LEMMA CredStep == CredInv /\ [CredNext]_credVars => CredInv'
  <1> SUFFICES ASSUME CredInv, [CredNext]_credVars PROVE CredInv'
    OBVIOUS
  <1>1. ASSUME NEW n \in 1 .. MaxIssued, Age(n) PROVE CredInv'
    BY <1>1, AgeKeeps
  <1>2. CASE HostRefresh \/ HostSignIn
    BY <1>2, HostHoldsKeeps
  <1>3. CASE HostTruncate
    BY <1>3, HostTruncateKeeps
  <1>4. CASE HostWrite
    BY <1>4, HostWriteKeeps
  <1>5. ASSUME NEW t \in CredTasks, PrepareCodex(t) PROVE CredInv'
    <2>1. CredTypesInv' /\ UNCHANGED <<auth, oauth, life, hostTool, actor, failures, credLog>>
      BY <1>5, PrepareFacts DEF CredInv
    <2> QED  BY <2>1, QuietKeeps DEF CredInv
  <1>6. CASE TakeCommand
    BY <1>6, TakeKeeps
  <1>7. CASE ReadAuth
    BY <1>7, ReadKeeps
  <1>8. CASE ObserveHostRefresh
    BY <1>8, ObserveKeeps
  <1>9. CASE RefreshCodexToken
    BY <1>9, RefreshKeeps
  <1>10. CASE Reread
    BY <1>10, RereadKeeps
  <1>11. CASE WriteAuth
    BY <1>11, WriteKeeps
  <1>12. CASE RetryLater
    BY <1>12, RetryKeeps
  <1>13. CASE ServerGoes
    BY <1>13, GoesKeeps
  <1>14. CASE UNCHANGED credVars
    <2>1. CredTypesInv'
      BY <1>14 DEF credVars, CredInv, CredTypesInv
    <2> QED  BY <1>14, <2>1, QuietKeeps DEF credVars, CredInv
  <1> QED
    BY <1>1, <1>2, <1>3, <1>4, <1>5, <1>6, <1>7, <1>8, <1>9, <1>10, <1>11, <1>12, <1>13, <1>14 DEF CredNext

-----------------------------------------------------------------------------
\* The inductive invariant of the credentials service: who holds which token the
\* authorization server issued, whatever the host's own tool does to the file
\* meanwhile (credentials.rs).
THEOREM CredInvariant == CredSpec => []CredInv
  BY CredInitInv, CredStep, PTL DEF CredSpec

\* The file, the actor and the queue keep their types, and no token is used before it
\* was issued.
THEOREM CredTypes == CredSpec => []CredTypeOK
  <1>1. CredInv => CredTypeOK
    <2> SUFFICES ASSUME CredInv PROVE CredTypeOK
      OBVIOUS
    <2>1. /\ oauth.issued \in Issues /\ hostTool.at \in {"idle", "holding", "open"}
          /\ actor.at \in {"idle", "reading", "observing", "asking", "answered", "writing"}
      BY DEF CredInv, CredTypesInv, OauthSet, HostSet, ActorSet
    <2>2. \A t \in CredTasks : credTask[t] \in {"none", "waiting", "ready", "failed", "expired", "error"}
      BY DEF CredInv, CredTypesInv, ToldSet
    <2> QED
      BY <2>1, <2>2 DEF CredInv, CredTypesInv, IssuedInv, CredTypeOK, Auths
  <1> QED
    BY <1>1, CredInvariant, PTL

\* AgentDP never signs the host out: with no writer at work, the refresh token in the
\* file is one the server accepts, unless an answer or its write was lost
\* (prepare_codex_auth, update_auth).
THEOREM HostStaysSignedIn == CredSpec => []RefreshTokenKept
  <1>1. CredInv => RefreshTokenKept
    BY DEF CredInv, KeptInv, RefreshTokenKept, ActorHolds
  <1> QED
    BY <1>1, CredInvariant, PTL

\* A token the server rejected is offered at most once from the same file, however
\* reads, refreshes and writes of the file interleave (the cached failure of
\* prepare_codex_auth).
THEOREM RejectionsAreFinal == CredSpec => []RejectedOnce
  <1>1. CredInv => RejectedOnce
    BY DEF CredInv
  <1> QED
    BY <1>1, CredInvariant, PTL

\* Both together: what prepare_codex_auth does to the host's sign-in.
THEOREM SignInIsKept == CredSpec => []SignInKept
  <1>1. RefreshTokenKept /\ RejectedOnce => SignInKept
    BY DEF SignInKept
  <1> QED
    BY HostStaysSignedIn, RejectionsAreFinal, <1>1, PTL
-----------------------------------------------------------------------------
(***************************************************************************)
(* The Tailscale routes of the instances.  Between the first command of a  *)
(* task and its completion neither the document nor the manifest says what *)
(* is served; what is left to remove and to apply does (KeyInv).  It says  *)
(* so of the one instance that claims a key: a command of another one does *)
(* not touch the key, as tasks remove and apply what they claim.           *)
(***************************************************************************)
\* Nothing recorded is no route recorded.
RouteStates == {r \in [some : BOOLEAN, routes : SUBSET RouteKeys] : ~r.some => r.routes = {}}
RouteTasks ==
    [at : {"idle", "waiting", "changing", "ok", "failed"}, remove : SUBSET RouteKeys,
     apply : SUBSET RouteKeys, desired : RouteStates, current : BOOLEAN, attempt : 0 .. ServeAttempts]
RouteLogs == [updates : Nat, faults : Nat, unsure : SUBSET RouteKeys]

RouteTypesInv ==
    /\ served \subseteq RouteKeys
    /\ wanted \in [RouteInstances -> SUBSET RouteKeys] /\ active \in [RouteInstances -> BOOLEAN]
    /\ recorded \in [RouteInstances -> RouteStates]
    /\ routeTask \in [RouteInstances -> RouteTasks]
    /\ mutex \in RouteInstances \cup {0} /\ routeLog \in RouteLogs

MutexInv == \A i \in RouteInstances : routeTask[i].at = "changing" <=> mutex = i

\* A task touches the keys of its instance only.
Touches(task, record) == task.remove \subseteq record.routes /\ task.apply \subseteq task.desired.routes

TouchInv == \A i \in RouteInstances : Touches(routeTask[i], recorded[i])

\* What task and record of the instance that claims a key say of it.
KeyInv(task, record, now, key) ==
    /\ task.at \in {"idle", "failed", "waiting"} => (key \in now <=> key \in record.routes)
    /\ task.at \in {"waiting", "changing"} =>
          /\ key \in now /\ key \notin task.remove => key \in task.desired.routes
          /\ key \in task.desired.routes => key \in task.apply \/ key \in now
          /\ key \in task.desired.routes /\ task.remove # {} => key \in task.apply
    /\ task.at = "ok" => (key \in now <=> key \in task.desired.routes)

OneClaim == \A key \in RouteKeys \ routeLog.unsure : \A i, j \in RouteInstances :
    key \in Claims(i) /\ key \in Claims(j) => i = j
ServedClaimed == \A key \in RouteKeys \ routeLog.unsure :
    key \in served => \E i \in RouteInstances : key \in Claims(i)
KeysInv == \A key \in RouteKeys \ routeLog.unsure : \A i \in RouteInstances :
    key \in Claims(i) => KeyInv(routeTask[i], recorded[i], served, key)

RouteInv == RouteTypesInv /\ MutexInv /\ TouchInv /\ OneClaim /\ ServedClaimed /\ KeysInv


LEMMA TaskFields ==
    ASSUME RouteTypesInv, NEW i \in RouteInstances
    PROVE  /\ routeTask[i] \in RouteTasks /\ recorded[i] \in RouteStates
           /\ routeTask[i].remove \subseteq RouteKeys /\ routeTask[i].apply \subseteq RouteKeys
           /\ routeTask[i].desired \in RouteStates /\ routeTask[i].attempt \in 0 .. ServeAttempts
           /\ recorded[i].routes \subseteq RouteKeys /\ wanted[i] \subseteq RouteKeys
           /\ i # 0
  <1>1. routeTask[i] \in RouteTasks /\ recorded[i] \in RouteStates /\ wanted[i] \in SUBSET RouteKeys
    BY DEF RouteTypesInv
  <1>2. recorded[i].routes \subseteq RouteKeys
    BY <1>1 DEF RouteStates
  <1> DEFINE t == routeTask[i]
  <1>3. t \in RouteTasks
    BY <1>1
  <1> HIDE DEF t
  <1>4. /\ t.remove \subseteq RouteKeys /\ t.apply \subseteq RouteKeys
        /\ t.desired \in RouteStates /\ t.attempt \in 0 .. ServeAttempts
    BY <1>3 DEF RouteTasks
  <1> QED
    BY <1>1, <1>2, <1>4, RouteAssumption DEF t

\* The record at rest.
LEMMA NoRouteTaskFacts ==
    /\ NoRouteTask \in RouteTasks /\ NoRouteTask.at = "idle" /\ NoRouteTask.desired.routes = {} /\ NoRouteTask.remove = {} /\ NoRouteTask.apply = {}
    /\ NoRoutes \in RouteStates /\ ~NoRoutes.some /\ NoRoutes.routes = {}
  BY RouteAssumption DEF NoRouteTask, RouteTasks, NoRoutes, RouteStates

\* Only the task, the record and the keys of one instance change: t, r and now are its
\* task, its record and the configuration afterwards.
LEMMA OneInstance ==
    ASSUME RouteInv, NEW i \in RouteInstances, NEW t, NEW r,
           routeTask'[i] = t, recorded'[i] = r,
           \A j \in RouteInstances \ {i} : routeTask'[j] = routeTask[j] /\ recorded'[j] = recorded[j],
           routeLog.unsure \subseteq routeLog'.unsure, Touches(t, r),
           \A key \in RouteKeys \ routeLog'.unsure :
              /\ key \in r.routes \cup t.desired.routes =>
                    key \in Claims(i) \/ \A j \in RouteInstances \ {i} : key \notin Claims(j)
              /\ key \notin Claims(i) => (key \in served' <=> key \in served)
              /\ key \in Claims(i) /\ key \in served' => key \in r.routes \cup t.desired.routes
              /\ key \in r.routes \cup t.desired.routes => KeyInv(t, r, served', key)
    PROVE  TouchInv' /\ OneClaim' /\ ServedClaimed' /\ KeysInv'
  <1>1. \A j \in RouteInstances \ {i} : Claims(j)' = Claims(j)
    BY DEF Claims
  <1>2. Claims(i)' = r.routes \cup t.desired.routes
    BY DEF Claims
  <1>3. TouchInv'
    BY DEF RouteInv, TouchInv, Touches
  <1> DEFINE mine(key) == key \in r.routes \cup t.desired.routes
  <1>4. OneClaim'
    <2> SUFFICES ASSUME NEW key \in RouteKeys \ routeLog'.unsure, NEW j \in RouteInstances, NEW k \in RouteInstances,
                        key \in Claims(j)', key \in Claims(k)', j # k
                 PROVE  FALSE
      BY DEF OneClaim
    <2>1. \A l \in RouteInstances \ {i} : key \in Claims(l) => key \notin Claims(i)
      BY DEF RouteInv, OneClaim
    <2>2. CASE j # i /\ k # i
      BY <1>1, <2>2 DEF RouteInv, OneClaim
    <2>3. CASE j = i \/ k = i
      BY <1>1, <1>2, <2>1, <2>3
    <2> QED
      BY <2>2, <2>3
  <1>5. ServedClaimed'
    <2> SUFFICES ASSUME NEW key \in RouteKeys \ routeLog'.unsure, key \in served'
                 PROVE  \E j \in RouteInstances : key \in Claims(j)'
      BY DEF ServedClaimed
    <2>1. CASE key \in Claims(i)
      BY <1>2, <2>1
    <2>2. CASE key \notin Claims(i)
      <3>1. PICK j \in RouteInstances : key \in Claims(j)
        BY <2>2 DEF RouteInv, ServedClaimed
      <3> QED
        BY <1>1, <2>2, <3>1
    <2> QED
      BY <2>1, <2>2
  <1>6. KeysInv'
    <2> SUFFICES ASSUME NEW key \in RouteKeys \ routeLog'.unsure, NEW j \in RouteInstances, key \in Claims(j)'
                 PROVE  KeyInv(routeTask'[j], recorded'[j], served', key)
      BY DEF KeysInv, KeyInv
    <2>1. CASE j = i
      BY <1>2, <2>1
    <2>2. CASE j # i
      <3>1. key \in Claims(j) /\ routeTask'[j] = routeTask[j] /\ recorded'[j] = recorded[j]
        BY <1>1, <2>2
      <3>2. key \notin Claims(i)
        BY <2>2, <3>1 DEF RouteInv, OneClaim
      <3>3. key \in served' <=> key \in served
        BY <3>2
      <3>4. KeyInv(routeTask[j], recorded[j], served, key)
        BY <3>1 DEF RouteInv, KeysInv
      <3> DEFINE u == routeTask[j]
                 v == recorded[j]
      <3>5. KeyInv(u, v, served, key)
        BY <3>4
      <3> HIDE DEF u, v
      <3>6. KeyInv(u, v, served', key)
        BY <3>3, <3>5 DEF KeyInv
      <3> QED
        BY <3>1, <3>6 DEF u, v
    <2> QED
      BY <2>1, <2>2
  <1> QED
    BY <1>3, <1>4, <1>5, <1>6

\* The task of one instance is replaced by one of the right type.
LEMMA TaskChanges ==
    ASSUME RouteTypesInv, NEW i \in RouteInstances, NEW t \in RouteTasks,
           routeTask' = [routeTask EXCEPT ![i] = t]
    PROVE  /\ routeTask' \in [RouteInstances -> RouteTasks] /\ routeTask'[i] = t
           /\ \A j \in RouteInstances \ {i} : routeTask'[j] = routeTask[j]
  BY DEF RouteTypesInv

\* The bounds and the history.
LEMMA RouteLogFacts ==
    ASSUME RouteTypesInv, NEW keys \in SUBSET RouteKeys
    PROVE  /\ \/ routeLog' = [routeLog EXCEPT !.updates = @ + 1]
              \/ routeLog' = [routeLog EXCEPT !.faults = @ + 1]
              => routeLog' \in RouteLogs /\ routeLog'.unsure = routeLog.unsure
           /\ \/ routeLog' = [routeLog EXCEPT !.faults = @ + 1, !.unsure = @ \cup keys]
              \/ routeLog' = [routeLog EXCEPT !.unsure = @ \cup keys]
              => routeLog' \in RouteLogs /\ routeLog'.unsure = routeLog.unsure \cup keys
  <1>1. /\ routeLog \in RouteLogs /\ routeLog.updates + 1 \in Nat /\ routeLog.faults + 1 \in Nat
        /\ routeLog.unsure \cup keys \in SUBSET RouteKeys
    BY DEF RouteTypesInv, RouteLogs
  <1>2. routeLog' = [routeLog EXCEPT !.updates = @ + 1] => routeLog' \in RouteLogs /\ routeLog'.unsure = routeLog.unsure
    BY <1>1 DEF RouteLogs
  <1>3. routeLog' = [routeLog EXCEPT !.faults = @ + 1] => routeLog' \in RouteLogs /\ routeLog'.unsure = routeLog.unsure
    BY <1>1 DEF RouteLogs
  <1> DEFINE more == routeLog.unsure \cup keys
             n == routeLog.faults + 1
  <1>4. ASSUME routeLog' = [routeLog EXCEPT !.faults = n, !.unsure = more] \/ routeLog' = [routeLog EXCEPT !.unsure = more]
        PROVE  routeLog' \in RouteLogs /\ routeLog'.unsure = more
    <2>1. more \in SUBSET RouteKeys /\ n \in Nat
      BY <1>1
    <2> HIDE DEF more, n
    <2>2. routeLog'.unsure = more
      BY <1>1, <1>4 DEF RouteLogs
    <2>3. routeLog' \in RouteLogs
      BY <1>1, <1>4, <2>1, ZenonT(60) DEF RouteLogs
    <2> QED  BY <2>2, <2>3
  <1> QED
    BY <1>1, <1>2, <1>3, <1>4

\* A step of an instance's task that leaves documents and manifests alone and the keys
\* it claims as they are.
LEMMA OneTaskStep ==
    ASSUME RouteInv, NEW i \in RouteInstances, NEW t \in RouteTasks,
           routeTask' = [routeTask EXCEPT ![i] = t], UNCHANGED recorded,
           wanted' \in [RouteInstances -> SUBSET RouteKeys], active' \in [RouteInstances -> BOOLEAN],
           routeLog' \in RouteLogs, routeLog.unsure \subseteq routeLog'.unsure,
           served' \subseteq RouteKeys,
           t.at = "changing" <=> mutex' = i,
           mutex' = mutex \/ (mutex \in {0, i} /\ mutex' \in {0, i}),
           t.desired = routeTask[i].desired,
           t.remove \subseteq routeTask[i].remove, t.apply \subseteq routeTask[i].apply,
           \A key \in RouteKeys \ routeLog'.unsure :
              /\ key \notin Claims(i) => (key \in served' <=> key \in served)
              /\ key \in Claims(i) => KeyInv(t, recorded[i], served', key)
    PROVE  RouteInv'
  <1>1. /\ routeTask' \in [RouteInstances -> RouteTasks] /\ routeTask'[i] = t
        /\ \A j \in RouteInstances \ {i} : routeTask'[j] = routeTask[j]
    BY TaskChanges DEF RouteInv
  <1>2. RouteTypesInv'
    BY <1>1, RouteAssumption DEF RouteInv, RouteTypesInv
  <1>3. MutexInv'
    <2> SUFFICES ASSUME NEW j \in RouteInstances PROVE routeTask'[j].at = "changing" <=> mutex' = j
      BY DEF MutexInv
    <2>1. CASE j = i
      BY <1>1, <2>1
    <2>2. CASE j # i
      BY <1>1, <2>2, RouteAssumption DEF RouteInv, MutexInv
    <2> QED
      BY <2>1, <2>2
  <1>4. Claims(i) = recorded[i].routes \cup t.desired.routes /\ Touches(t, recorded[i])
    BY DEF Claims, RouteInv, TouchInv, Touches
  <1>5. TouchInv' /\ OneClaim' /\ ServedClaimed' /\ KeysInv'
    <2> DEFINE r == recorded[i]
    <2>1. routeTask'[i] = t /\ recorded'[i] = r /\ Touches(t, r)
      BY <1>1, <1>4
    <2>2. \A j \in RouteInstances \ {i} : routeTask'[j] = routeTask[j] /\ recorded'[j] = recorded[j]
      BY <1>1
    <2>3. \A key \in RouteKeys \ routeLog'.unsure :
              /\ key \in r.routes \cup t.desired.routes =>
                    key \in Claims(i) \/ \A j \in RouteInstances \ {i} : key \notin Claims(j)
              /\ key \notin Claims(i) => (key \in served' <=> key \in served)
              /\ key \in Claims(i) /\ key \in served' => key \in r.routes \cup t.desired.routes
              /\ key \in r.routes \cup t.desired.routes => KeyInv(t, r, served', key)
      BY <1>4
    <2> HIDE DEF r
    <2> QED
      BY <2>1, <2>2, <2>3, OneInstance
  <1> QED
    BY <1>2, <1>3, <1>5 DEF RouteInv

LEMMA UpdateKeeps ==
    ASSUME RouteInv, NEW i \in RouteInstances, Update(i)
    PROVE  RouteInv'
  <1> DEFINE old == routeTask[i]
             t == [old EXCEPT !.current = FALSE]
  <1>1. /\ routeTask' = [routeTask EXCEPT ![i] = t] /\ UNCHANGED <<served, recorded, mutex>>
        /\ routeLog' \in RouteLogs /\ routeLog'.unsure = routeLog.unsure
    BY RouteLogFacts DEF Update, RouteInv
  <1>2. old \in RouteTasks /\ (old.at = "changing" <=> mutex = i)
    BY TaskFields DEF RouteInv, MutexInv
  <1>3. \A key \in RouteKeys \ routeLog.unsure : key \in Claims(i) => KeyInv(old, recorded[i], served, key)
    BY DEF RouteInv, KeysInv
  <1>4. old = routeTask[i]
    OBVIOUS
  <1> HIDE DEF old
  <1>5. /\ t \in RouteTasks /\ t.at = old.at /\ t.remove = old.remove /\ t.apply = old.apply
        /\ t.desired = old.desired
    BY <1>2 DEF RouteTasks
  <1> HIDE DEF t
  <1>6. wanted' \in [RouteInstances -> SUBSET RouteKeys] /\ active' \in [RouteInstances -> BOOLEAN]
    BY DEF Update, RouteInv, RouteTypesInv
  <1>7. \A key \in RouteKeys \ routeLog'.unsure :
              /\ key \notin Claims(i) => (key \in served' <=> key \in served)
              /\ key \in Claims(i) => KeyInv(t, recorded[i], served', key)
    BY <1>1, <1>3, <1>5 DEF KeyInv
  <1>8. served' \subseteq RouteKeys
    BY <1>1 DEF RouteInv, RouteTypesInv
  <1> QED
    BY <1>1, <1>2, <1>4, <1>5, <1>6, <1>7, <1>8, OneTaskStep

LEMMA BeginKeeps ==
    ASSUME RouteInv, NEW i \in RouteInstances, BeginTask(i)
    PROVE  RouteInv'
  <1> DEFINE record == recorded[i]
             keys == wanted[i]
             unsure == routeLog'.unsure
  <1>1. routeTask[i].at = "idle" /\ UNCHANGED <<served, wanted, active, recorded, mutex>>
    BY DEF BeginTask
  <1>2. mutex # i
    BY <1>1 DEF RouteInv, MutexInv
  <1>3. \A key \in RouteKeys \ routeLog.unsure : key \in Claims(i) => (key \in served <=> key \in record.routes)
    BY <1>1 DEF RouteInv, KeysInv, KeyInv
  <1>4. \A key \in RouteKeys \ routeLog.unsure :
            key \in served /\ key \notin Claims(i) => \E j \in RouteInstances \ {i} : key \in Claims(j)
    BY DEF RouteInv, ServedClaimed
  <1>5. /\ record \in RouteStates /\ record.routes \subseteq RouteKeys /\ keys \subseteq RouteKeys
        /\ ~record.some => record.routes = {}
    BY TaskFields DEF RouteInv, RouteStates
  <1>6. record.routes \subseteq Claims(i)
    BY DEF Claims
  <1>7. ASSUME NEW t \in RouteTasks, routeTask' = [routeTask EXCEPT ![i] = t], t.at # "changing",
               routeLog' \in RouteLogs, routeLog.unsure \subseteq unsure, Touches(t, record),
               \A key \in RouteKeys \ unsure : key \in t.desired.routes => \A j \in RouteInstances \ {i} : key \notin Claims(j),
               \A key \in RouteKeys \ unsure :
                  (key \in served <=> key \in record.routes) /\ key \in record.routes \cup t.desired.routes
                  => KeyInv(t, record, served, key)
        PROVE  RouteInv'
    <2>1. /\ routeTask' \in [RouteInstances -> RouteTasks] /\ routeTask'[i] = t
          /\ \A j \in RouteInstances \ {i} : routeTask'[j] = routeTask[j]
      BY <1>7, TaskChanges DEF RouteInv
    <2>2. RouteTypesInv'
      BY <1>1, <1>7, <2>1 DEF RouteInv, RouteTypesInv
    <2>3. MutexInv'
      BY <1>1, <1>2, <1>7, <2>1 DEF RouteInv, MutexInv
    <2>4. \A key \in RouteKeys \ unsure : key \in record.routes \cup t.desired.routes => (key \in served <=> key \in record.routes)
      BY <1>3, <1>4, <1>6, <1>7
    <2>5. \A key \in RouteKeys \ unsure :
              /\ key \in record.routes \cup t.desired.routes =>
                    key \in Claims(i) \/ \A j \in RouteInstances \ {i} : key \notin Claims(j)
              /\ key \notin Claims(i) => (key \in served' <=> key \in served)
              /\ key \in Claims(i) /\ key \in served' => key \in record.routes \cup t.desired.routes
              /\ key \in record.routes \cup t.desired.routes => KeyInv(t, record, served', key)
      BY <1>1, <1>3, <1>6, <1>7, <2>4
    <2>6. recorded'[i] = record /\ \A j \in RouteInstances : recorded'[j] = recorded[j]
      BY <1>1
    <2>7. TouchInv' /\ OneClaim' /\ ServedClaimed' /\ KeysInv'
      <3> HIDE DEF record
      <3> QED  BY <1>7, <2>1, <2>5, <2>6, OneInstance
    <2> QED
      BY <2>2, <2>3, <2>7 DEF RouteInv
  <1>8. CASE ReconcileInstance(i)
    <2> DEFINE desired == Routes(keys)
               remove == RemovedFirst(record, desired)
               t == [at |-> "waiting", remove |-> remove, apply |-> keys,
                     desired |-> desired, current |-> TRUE, attempt |-> 0]
    <2>1. desired \in RouteStates /\ desired.routes = keys
      BY <1>5 DEF Routes, RouteStates
    <2>2. remove \subseteq RouteKeys /\ (remove = record.routes \/ (remove = {} /\ record = desired))
      BY <1>5 DEF RemovedFirst
    <2>3. CASE routeTask' = [routeTask EXCEPT ![i] = t] /\ routeLog' = [routeLog EXCEPT !.unsure = @ \cup Shared(i)]
      <3>1. Shared(i) \in SUBSET RouteKeys
        BY <1>5 DEF Shared
      <3>2. routeLog' \in RouteLogs /\ unsure = routeLog.unsure \cup Shared(i)
        BY <2>3, <3>1, RouteLogFacts DEF RouteInv
      <3>3. \A key \in RouteKeys \ unsure : key \in keys => \A j \in RouteInstances \ {i} : key \notin Claims(j)
        BY <3>2 DEF Shared
      <3>4. routeTask' = [routeTask EXCEPT ![i] = t]
        BY <2>3
      <3> HIDE DEF desired, remove, record, keys, unsure
      <3>5. t \in RouteTasks /\ t.at = "waiting" /\ t.remove = remove /\ t.apply = keys /\ t.desired = desired
        BY <1>5, <2>1, <2>2, RouteAssumption DEF RouteTasks
      <3> HIDE DEF t
      <3>6. Touches(t, record)
        BY <2>1, <2>2, <3>5 DEF Touches
      <3>7. ASSUME NEW key, key \in served <=> key \in record.routes PROVE KeyInv(t, record, served, key)
        BY <2>1, <2>2, <3>5, <3>7 DEF KeyInv
      <3> QED
        BY <1>7, <2>1, <3>2, <3>3, <3>4, <3>5, <3>6, <3>7
    <2>4. CASE Refusal(i)
      <3> DEFINE u == [NoRouteTask EXCEPT !.at = "failed", !.current = TRUE]
      <3>1. routeTask' = [routeTask EXCEPT ![i] = u] /\ routeLog' \in RouteLogs /\ unsure = routeLog.unsure
        BY <2>4, RouteLogFacts DEF Refusal, RouteInv
      <3>2. u \in RouteTasks /\ u.at = "failed" /\ u.remove = {} /\ u.apply = {} /\ u.desired.routes = {}
        BY NoRouteTaskFacts DEF RouteTasks
      <3> HIDE DEF u, record, unsure
      <3>3. Touches(u, record)
        BY <3>2 DEF Touches
      <3>4. ASSUME NEW key, key \in served <=> key \in record.routes PROVE KeyInv(u, record, served, key)
        BY <3>2, <3>4 DEF KeyInv
      <3> QED
        BY <1>7, <3>1, <3>2, <3>3, <3>4
    <2> QED
      BY <1>8, <2>3, <2>4 DEF ReconcileInstance, ResolvedRoutes
  <1>9. CASE ReconcileAbsent(i)
    <2> DEFINE where == IF record.some THEN "waiting" ELSE "ok"
               all == record.routes
               t == [NoRouteTask EXCEPT !.at = where, !.remove = all, !.current = TRUE]
    <2>1. routeTask' = [routeTask EXCEPT ![i] = t] /\ UNCHANGED routeLog
      BY <1>9 DEF ReconcileAbsent
    <2>2. where \in {"waiting", "ok"} /\ (where = "ok" => all = {}) /\ all \subseteq RouteKeys
      BY <1>5
    <2>3. all = record.routes /\ routeLog' \in RouteLogs /\ unsure = routeLog.unsure
      BY <2>1 DEF RouteInv, RouteTypesInv
    <2> HIDE DEF where, all, record, unsure
    <2>4. /\ t \in RouteTasks /\ t.at = where /\ t.remove = all /\ t.apply = {} /\ t.desired = NoRouteTask.desired
      BY <2>2, NoRouteTaskFacts DEF RouteTasks
    <2> HIDE DEF t
    <2>5. Touches(t, record) /\ t.desired.routes = {}
      BY <2>3, <2>4, NoRouteTaskFacts DEF Touches
    <2>6. ASSUME NEW key, key \in served <=> key \in record.routes PROVE KeyInv(t, record, served, key)
      BY <2>2, <2>3, <2>4, <2>5, <2>6 DEF KeyInv
    <2> QED
      BY <1>7, <2>1, <2>2, <2>3, <2>4, <2>5, <2>6
  <1> QED
    BY <1>8, <1>9 DEF BeginTask

LEMMA TakeMutexKeeps ==
    ASSUME RouteInv, NEW i \in RouteInstances, TakeMutex(i)
    PROVE  RouteInv'
  <1> DEFINE old == routeTask[i]
             t == [old EXCEPT !.at = "changing"]
  <1>1. /\ routeTask' = [routeTask EXCEPT ![i] = t] /\ UNCHANGED <<served, wanted, active, recorded, routeLog>>
        /\ old.at = "waiting" /\ mutex = 0 /\ mutex' = i
    BY DEF TakeMutex
  <1>2. old \in RouteTasks /\ old = routeTask[i]
    BY TaskFields DEF RouteInv
  <1>3. \A key \in RouteKeys \ routeLog.unsure : key \in Claims(i) => KeyInv(old, recorded[i], served, key)
    BY DEF RouteInv, KeysInv
  <1> HIDE DEF old
  <1>4. t \in RouteTasks /\ t.at = "changing" /\ t.remove = old.remove /\ t.apply = old.apply /\ t.desired = old.desired
    BY <1>2 DEF RouteTasks
  <1> HIDE DEF t
  <1>5. \A key \in RouteKeys \ routeLog'.unsure :
              /\ key \notin Claims(i) => (key \in served' <=> key \in served)
              /\ key \in Claims(i) => KeyInv(t, recorded[i], served', key)
    BY <1>1, <1>3, <1>4 DEF KeyInv
  <1>6. /\ routeLog' \in RouteLogs /\ routeLog.unsure \subseteq routeLog'.unsure /\ served' \subseteq RouteKeys
        /\ wanted' \in [RouteInstances -> SUBSET RouteKeys] /\ active' \in [RouteInstances -> BOOLEAN]
    BY <1>1 DEF RouteInv, RouteTypesInv
  <1> QED
    BY <1>1, <1>2, <1>4, <1>5, <1>6, OneTaskStep

\* One serve command, carried out, tried again or failed.
LEMMA RunKeeps ==
    ASSUME RouteInv, NEW i \in RouteInstances, routeTask[i].at = "changing",
           NEW next \in RouteTasks, next.at = "changing", next.desired = routeTask[i].desired,
           next.remove \subseteq routeTask[i].remove, next.apply \subseteq routeTask[i].apply,
           NEW config \in SUBSET RouteKeys,
           \A key \in RouteKeys \ routeLog.unsure :
              /\ key \notin Claims(i) => (key \in config <=> key \in served)
              /\ key \in Claims(i) => KeyInv(next, recorded[i], config, key),
           Run(i, next, config), UNCHANGED <<wanted, active, recorded>>
    PROVE  RouteInv'
  <1> DEFINE old == routeTask[i]
  <1>1. mutex = i /\ routeLog \in RouteLogs /\ served \subseteq RouteKeys
    BY DEF RouteInv, MutexInv, RouteTypesInv
  <1>2. old \in RouteTasks /\ old.at = "changing" /\ old.attempt \in 0 .. ServeAttempts /\ i # 0 /\ old = routeTask[i]
    BY TaskFields DEF RouteInv
  <1>3. \A key \in RouteKeys \ routeLog.unsure : key \in Claims(i) => KeyInv(old, recorded[i], served, key)
    BY DEF RouteInv, KeysInv
  <1>4. wanted' \in [RouteInstances -> SUBSET RouteKeys] /\ active' \in [RouteInstances -> BOOLEAN]
    BY DEF RouteInv, RouteTypesInv
  <1>5. CASE /\ routeTask' = [routeTask EXCEPT ![i] = [next EXCEPT !.attempt = 0]] /\ served' = config
             /\ UNCHANGED <<mutex, routeLog>>
    <2> DEFINE t == [next EXCEPT !.attempt = 0]
    <2>1. t \in RouteTasks /\ t.at = "changing" /\ t.remove = next.remove /\ t.apply = next.apply /\ t.desired = next.desired
      BY RouteAssumption DEF RouteTasks
    <2>2. routeTask' = [routeTask EXCEPT ![i] = t]
      BY <1>5
    <2> HIDE DEF t, old
    <2>3. \A key \in RouteKeys \ routeLog'.unsure :
              /\ key \notin Claims(i) => (key \in served' <=> key \in served)
              /\ key \in Claims(i) => KeyInv(t, recorded[i], served', key)
      BY <1>5, <2>1 DEF KeyInv
    <2> QED
      BY <1>1, <1>2, <1>4, <1>5, <2>1, <2>2, <2>3, OneTaskStep
  <1>6. CASE /\ old.attempt + 1 < ServeAttempts
             /\ routeTask' = [routeTask EXCEPT ![i].attempt = @ + 1] /\ UNCHANGED <<served, mutex, routeLog>>
    <2> DEFINE n == old.attempt + 1
               t == [old EXCEPT !.attempt = n]
    <2>1. routeTask' = [routeTask EXCEPT ![i] = t] /\ n \in 0 .. ServeAttempts
      BY <1>2, <1>6, RouteAssumption
    <2> HIDE DEF old, n
    <2>2. t \in RouteTasks /\ t.at = "changing" /\ t.remove = old.remove /\ t.apply = old.apply /\ t.desired = old.desired
      BY <1>2, <2>1 DEF RouteTasks
    <2> HIDE DEF t
    <2>3. \A key \in RouteKeys \ routeLog'.unsure :
              /\ key \notin Claims(i) => (key \in served' <=> key \in served)
              /\ key \in Claims(i) => KeyInv(t, recorded[i], served', key)
      BY <1>2, <1>3, <1>6, <2>2 DEF KeyInv
    <2> QED
      BY <1>1, <1>2, <1>4, <1>6, <2>1, <2>2, <2>3, OneTaskStep
  <1>7. CASE /\ routeLog' = [routeLog EXCEPT !.faults = @ + 1, !.unsure = @ \cup Claims(i)]
             /\ routeTask' = [routeTask EXCEPT ![i].at = "failed"] /\ mutex' = 0 /\ UNCHANGED served
    <2> DEFINE t == [old EXCEPT !.at = "failed"]
    <2>1. routeTask' = [routeTask EXCEPT ![i] = t]
      BY <1>7
    <2> HIDE DEF old
    <2>2. t \in RouteTasks /\ t.at = "failed" /\ t.remove = old.remove /\ t.apply = old.apply /\ t.desired = old.desired
      BY <1>2 DEF RouteTasks
    <2> HIDE DEF t
    <2>3. Claims(i) \in SUBSET RouteKeys
      BY TaskFields DEF RouteInv, Claims, RouteStates
    <2>4. routeLog' \in RouteLogs /\ routeLog'.unsure = routeLog.unsure \cup Claims(i)
      BY <1>7, <2>3, RouteLogFacts DEF RouteInv
    <2> QED
      BY <1>1, <1>2, <1>4, <1>7, <2>1, <2>2, <2>4, OneTaskStep
  <1> QED
    BY <1>5, <1>6, <1>7 DEF Run

LEMMA ChangeKeeps ==
    ASSUME RouteInv, NEW i \in RouteInstances, ChangeRoutes(i)
    PROVE  RouteInv'
  <1> DEFINE old == routeTask[i]
             record == recorded[i]
  <1>1. old.at = "changing" /\ UNCHANGED <<wanted, active, recorded>>
    BY DEF ChangeRoutes
  <1>2. /\ old \in RouteTasks /\ old.remove \subseteq RouteKeys /\ old.apply \subseteq RouteKeys /\ i # 0
        /\ old = routeTask[i] /\ record = recorded[i]
    BY TaskFields DEF RouteInv
  <1>3. \A key \in RouteKeys \ routeLog.unsure : key \in Claims(i) => KeyInv(old, record, served, key)
    BY DEF RouteInv, KeysInv
  <1>4. served \subseteq RouteKeys /\ mutex = i /\ routeLog \in RouteLogs
    BY <1>1 DEF RouteInv, RouteTypesInv, MutexInv
  <1>5. old.remove \subseteq Claims(i) /\ old.apply \subseteq Claims(i) /\ old.apply \subseteq old.desired.routes
    BY DEF RouteInv, TouchInv, Touches, Claims
  <1>6. ASSUME NEW key \in old.remove,
               Run(i, [old EXCEPT !.remove = @ \ {key}], served \ {key})
        PROVE  RouteInv'
    <2> DEFINE fewer == old.remove \ {key}
               t == [old EXCEPT !.remove = fewer]
               config == served \ {key}
    <2>1. fewer \subseteq RouteKeys /\ key \in RouteKeys /\ key \in old.remove /\ fewer = old.remove \ {key}
      BY <1>2, <1>6
    <2>2. Run(i, t, config)
      BY <1>2, <1>6 DEF RouteTasks
    <2>3. config \in SUBSET RouteKeys /\ config = served \ {key}
      BY <1>4
    <2> HIDE DEF old, fewer, config, record
    <2>4. t \in RouteTasks /\ t.at = "changing" /\ t.remove = fewer /\ t.apply = old.apply /\ t.desired = old.desired
      BY <1>1, <1>2, <2>1 DEF RouteTasks
    <2> HIDE DEF t
    <2>5. \A k \in RouteKeys \ routeLog.unsure :
              /\ k \notin Claims(i) => (k \in config <=> k \in served)
              /\ k \in Claims(i) => KeyInv(t, record, config, k)
      BY <1>1, <1>3, <1>5, <2>1, <2>3, <2>4 DEF KeyInv
    <2> QED
      BY <1>1, <1>2, <2>1, <2>2, <2>3, <2>4, <2>5, RunKeeps
  <1>7. ASSUME NEW key \in old.apply, old.remove = {},
               Run(i, [old EXCEPT !.apply = @ \ {key}], served \cup {key})
        PROVE  RouteInv'
    <2> DEFINE fewer == old.apply \ {key}
               t == [old EXCEPT !.apply = fewer]
               config == served \cup {key}
    <2>1. fewer \subseteq RouteKeys /\ key \in RouteKeys /\ key \in old.apply /\ old.remove = {} /\ fewer = old.apply \ {key}
      BY <1>2, <1>7
    <2>2. Run(i, t, config)
      BY <1>2, <1>7 DEF RouteTasks
    <2>3. config \in SUBSET RouteKeys /\ config = served \cup {key}
      BY <1>4, <2>1
    <2> HIDE DEF old, fewer, config, record
    <2>4. t \in RouteTasks /\ t.at = "changing" /\ t.remove = old.remove /\ t.apply = fewer /\ t.desired = old.desired
      BY <1>1, <1>2, <2>1 DEF RouteTasks
    <2> HIDE DEF t
    <2>5. \A k \in RouteKeys \ routeLog.unsure :
              /\ k \notin Claims(i) => (k \in config <=> k \in served)
              /\ k \in Claims(i) => KeyInv(t, record, config, k)
      BY <1>1, <1>3, <1>5, <2>1, <2>3, <2>4 DEF KeyInv
    <2> QED
      BY <1>1, <1>2, <2>1, <2>2, <2>3, <2>4, <2>5, RunKeeps
  <1>8. CASE /\ old.remove = {} /\ old.apply = {}
             /\ routeTask' = [routeTask EXCEPT ![i].at = "ok"] /\ mutex' = 0 /\ UNCHANGED <<served, routeLog>>
    <2> DEFINE t == [old EXCEPT !.at = "ok"]
    <2>1. routeTask' = [routeTask EXCEPT ![i] = t] /\ old.remove = {} /\ old.apply = {}
      BY <1>8
    <2> HIDE DEF old, record
    <2>2. t \in RouteTasks /\ t.at = "ok" /\ t.remove = old.remove /\ t.apply = old.apply /\ t.desired = old.desired
      BY <1>2 DEF RouteTasks
    <2> HIDE DEF t
    <2>3. \A k \in RouteKeys \ routeLog'.unsure :
              /\ k \notin Claims(i) => (k \in served' <=> k \in served)
              /\ k \in Claims(i) => KeyInv(t, record, served', k)
      BY <1>1, <1>3, <1>8, <2>1, <2>2 DEF KeyInv
    <2>4. wanted' \in [RouteInstances -> SUBSET RouteKeys] /\ active' \in [RouteInstances -> BOOLEAN]
      BY <1>1 DEF RouteInv, RouteTypesInv
    <2> QED
      BY <1>1, <1>2, <1>4, <1>8, <2>1, <2>2, <2>3, <2>4, OneTaskStep
  <1> QED
    BY <1>6, <1>7, <1>8 DEF ChangeRoutes

LEMMA EndKeeps ==
    ASSUME RouteInv, NEW i \in RouteInstances, EndTask(i)
    PROVE  RouteInv'
  <1> DEFINE old == routeTask[i]
             record == Completed(i)
  <1>1. /\ old.at \in {"ok", "failed"} /\ recorded' = [recorded EXCEPT ![i] = record]
        /\ routeTask' = [routeTask EXCEPT ![i] = NoRouteTask] /\ UNCHANGED <<served, wanted, active, mutex, routeLog>>
    BY DEF EndTask
  <1>2. old \in RouteTasks /\ record \in RouteStates
    BY TaskFields DEF RouteInv, Completed
  <1>3. /\ routeTask' \in [RouteInstances -> RouteTasks] /\ routeTask'[i] = NoRouteTask
        /\ \A j \in RouteInstances \ {i} : routeTask'[j] = routeTask[j]
    BY <1>1, TaskChanges, NoRouteTaskFacts DEF RouteInv
  <1>4. /\ recorded' \in [RouteInstances -> RouteStates] /\ recorded'[i] = record
        /\ \A j \in RouteInstances \ {i} : recorded'[j] = recorded[j]
    BY <1>1, <1>2 DEF RouteInv, RouteTypesInv
  <1>5. RouteTypesInv'
    BY <1>1, <1>3, <1>4 DEF RouteInv, RouteTypesInv
  <1>6. MutexInv'
    BY <1>1, <1>3, NoRouteTaskFacts DEF RouteInv, MutexInv
  <1>7. \A key \in RouteKeys \ routeLog.unsure : key \in Claims(i) => (key \in served <=> key \in record.routes)
    BY <1>1 DEF RouteInv, KeysInv, KeyInv, Completed
  <1>8. record.routes \subseteq Claims(i)
    BY DEF Completed, Claims
  <1> HIDE DEF old, record
  <1>9. Touches(NoRouteTask, record)
    BY NoRouteTaskFacts DEF Touches
  <1>10. \A key \in RouteKeys \ routeLog.unsure : key \in record.routes => KeyInv(NoRouteTask, record, served, key)
    BY <1>7, <1>8, NoRouteTaskFacts DEF KeyInv
  <1>11. TouchInv' /\ OneClaim' /\ ServedClaimed' /\ KeysInv'
    BY <1>1, <1>3, <1>4, <1>7, <1>8, <1>9, <1>10, NoRouteTaskFacts, OneInstance
  <1> QED
    BY <1>5, <1>6, <1>11 DEF RouteInv

LEMMA RestartKeeps ==
    ASSUME RouteInv, RestartServer
    PROVE  RouteInv'
  <1>1. PICK running \in SUBSET RouteInstances :
        LET loaded == [i \in RouteInstances |-> IF i \in running THEN NoRoutes ELSE recorded[i]]
            known  == UNION {loaded[i].routes : i \in RouteInstances}
        IN  /\ routeLog' = [routeLog EXCEPT !.faults = @ + 1, !.unsure = @ \cup (served \ known) \cup (known \ served)]
            /\ recorded' = loaded /\ routeTask' = [i \in RouteInstances |-> NoRouteTask] /\ mutex' = 0
            /\ UNCHANGED <<served, wanted, active>>
    BY DEF RestartServer
  <1> DEFINE loaded == [i \in RouteInstances |-> IF i \in running THEN NoRoutes ELSE recorded[i]]
             known  == UNION {loaded[i].routes : i \in RouteInstances}
             differ == (served \ known) \cup (known \ served)
  <1>2. /\ recorded' = loaded /\ routeTask' = [i \in RouteInstances |-> NoRouteTask]
        /\ mutex' = 0 /\ UNCHANGED <<served, wanted, active>>
    BY <1>1
  <1>3. \A i \in RouteInstances : loaded[i] \in RouteStates /\ loaded[i].routes \subseteq recorded[i].routes /\ loaded[i].routes \subseteq RouteKeys
    BY TaskFields, NoRouteTaskFacts DEF RouteInv
  <1>4. loaded \in [RouteInstances -> RouteStates]
    BY <1>3
  <1>5. differ \in SUBSET RouteKeys
    BY <1>3 DEF RouteInv, RouteTypesInv
  <1>6. routeLog' = [routeLog EXCEPT !.faults = @ + 1, !.unsure = @ \cup differ]
    <2>1. routeLog.unsure \cup (served \ known) \cup (known \ served) = routeLog.unsure \cup differ
      OBVIOUS
    <2> QED  BY <1>1, <2>1
  <1>7. \A key : key \in known <=> \E i \in RouteInstances : key \in loaded[i].routes
    OBVIOUS
  <1> HIDE DEF known, loaded
  <1>8. \A key : key \notin differ => (key \in served <=> \E i \in RouteInstances : key \in loaded[i].routes)
    BY <1>7
  <1> HIDE DEF differ
  <1>9. routeLog' \in RouteLogs /\ routeLog'.unsure = routeLog.unsure \cup differ
    BY <1>5, <1>6, RouteLogFacts DEF RouteInv
  <1>10. RouteTypesInv'
    BY <1>2, <1>4, <1>9, NoRouteTaskFacts DEF RouteInv, RouteTypesInv
  <1>11. MutexInv'
    BY <1>2, NoRouteTaskFacts, RouteAssumption DEF MutexInv
  <1>12. \A i \in RouteInstances : routeTask'[i] = NoRouteTask /\ recorded'[i] = loaded[i] /\ Claims(i)' = loaded[i].routes
    BY <1>2, NoRouteTaskFacts DEF Claims
  <1>13. \A i \in RouteInstances : loaded[i].routes \subseteq Claims(i)
    BY <1>3 DEF Claims
  <1>14. TouchInv'
    BY <1>12, NoRouteTaskFacts DEF TouchInv, Touches
  <1>15. OneClaim'
    BY <1>9, <1>12, <1>13 DEF RouteInv, OneClaim
  <1>16. ServedClaimed'
    BY <1>2, <1>8, <1>9, <1>12 DEF ServedClaimed
  <1>17. KeysInv'
    <2> SUFFICES ASSUME NEW key \in RouteKeys \ routeLog'.unsure, NEW i \in RouteInstances, key \in Claims(i)'
                 PROVE  KeyInv(routeTask'[i], recorded'[i], served', key)
      BY DEF KeysInv, KeyInv
    <2>1. key \in loaded[i].routes /\ key \in served /\ served' = served
      BY <1>2, <1>8, <1>9, <1>12
    <2>2. KeyInv(NoRouteTask, loaded[i], served, key)
      BY <2>1, NoRouteTaskFacts DEF KeyInv
    <2> QED
      BY <1>12, <2>1, <2>2
  <1> QED
    BY <1>10, <1>11, <1>14, <1>15, <1>16, <1>17 DEF RouteInv

LEMMA RouteInitInv == RouteInit => RouteInv
  <1> SUFFICES ASSUME RouteInit PROVE RouteInv
    OBVIOUS
  <1>1. routeLog \in RouteLogs
    BY DEF RouteInit, RouteLogs
  <1>2. RouteTypesInv
    BY <1>1, NoRouteTaskFacts DEF RouteInit, RouteTypesInv
  <1>3. MutexInv
    BY NoRouteTaskFacts, RouteAssumption DEF RouteInit, MutexInv
  <1>4. \A i \in RouteInstances : routeTask[i] = NoRouteTask /\ recorded[i] = NoRoutes /\ Claims(i) = {}
    BY NoRouteTaskFacts DEF RouteInit, Claims
  <1>5. TouchInv /\ OneClaim /\ KeysInv
    BY <1>4, NoRouteTaskFacts DEF TouchInv, Touches, OneClaim, KeysInv
  <1>6. ServedClaimed
    BY DEF RouteInit, ServedClaimed
  <1> QED
    BY <1>2, <1>3, <1>5, <1>6 DEF RouteInv

LEMMA RouteStep == RouteInv /\ [RouteNext]_routeVars => RouteInv'
  <1> SUFFICES ASSUME RouteInv, [RouteNext]_routeVars PROVE RouteInv'
    OBVIOUS
  <1>1. ASSUME NEW i \in RouteInstances, Update(i) PROVE RouteInv'
    BY <1>1, UpdateKeeps
  <1>2. ASSUME NEW i \in RouteInstances, BeginTask(i) PROVE RouteInv'
    BY <1>2, BeginKeeps
  <1>3. ASSUME NEW i \in RouteInstances, TakeMutex(i) PROVE RouteInv'
    BY <1>3, TakeMutexKeeps
  <1>4. ASSUME NEW i \in RouteInstances, ChangeRoutes(i) PROVE RouteInv'
    BY <1>4, ChangeKeeps
  <1>5. ASSUME NEW i \in RouteInstances, EndTask(i) PROVE RouteInv'
    BY <1>5, EndKeeps
  <1>6. CASE RestartServer
    BY <1>6, RestartKeeps
  <1>7. CASE UNCHANGED routeVars
    BY <1>7 DEF routeVars, RouteInv, RouteTypesInv, MutexInv, TouchInv, Touches, OneClaim, ServedClaimed, KeysInv, KeyInv, Claims
  <1> QED
    BY <1>1, <1>2, <1>3, <1>4, <1>5, <1>6, <1>7 DEF RouteNext

-----------------------------------------------------------------------------
\* The inductive invariant of the routes: a key one instance claims is served as the
\* record says, changed by the part of the task that is done (tailscale.rs).
THEOREM RouteInvariant == RouteSpec => []RouteInv
  BY RouteInitInv, RouteStep, PTL DEF RouteSpec

\* The tasks hold serve_mutations one at a time and try a command SERVE_MUTATION_ATTEMPTS
\* times at most.
THEOREM RouteTypes == RouteSpec => []RouteTypeOK
  <1>1. RouteInv => RouteTypeOK
    <2> SUFFICES ASSUME RouteInv, NEW i \in RouteInstances
                 PROVE  /\ wanted[i] \subseteq RouteKeys /\ recorded[i].routes \subseteq RouteKeys
                        /\ routeTask[i].at \in {"idle", "waiting", "changing", "ok", "failed"}
                        /\ routeTask[i].at = "changing" <=> mutex = i
                        /\ routeTask[i].attempt <= ServeAttempts
      BY DEF RouteInv, RouteTypesInv, RouteTypeOK
    <2>1. routeTask[i] \in RouteTasks /\ routeTask[i].attempt \in 0 .. ServeAttempts
      BY TaskFields DEF RouteInv
    <2>2. routeTask[i].at \in {"idle", "waiting", "changing", "ok", "failed"}
      BY <2>1 DEF RouteTasks
    <2> QED
      BY <2>1, <2>2, TaskFields, RouteAssumption DEF RouteInv, MutexInv
  <1> QED
    BY <1>1, RouteInvariant, PTL

\* Of any number of instances that change one serve configuration of the host: what is
\* served some document records or some task will account for, and what a document
\* records between two tasks is served, except for a key that two instances claim, that
\* is of an instance whose command failed, or that a restart left without a record
\* (reconcile_instance, reconcile_absent).
THEOREM RoutesAreRecorded == RouteSpec => []RoutesRecorded
  <1>1. RouteInv => RoutesRecorded
    <2> SUFFICES ASSUME RouteInv, NEW key \in RouteKeys \ routeLog.unsure, NEW i \in RouteInstances,
                        routeTask[i].at = "idle", key \in recorded[i].routes
                 PROVE  key \in served
      BY DEF RouteInv, ServedClaimed, RoutesRecorded
    <2>1. key \in Claims(i)
      BY DEF Claims
    <2> QED
      BY <2>1 DEF RouteInv, KeysInv, KeyInv
  <1> QED
    BY <1>1, RouteInvariant, PTL
-----------------------------------------------------------------------------
(***************************************************************************)
(* Notifications of pull request events.  An event is told once because a  *)
(* batch is queued only with events that no batch holds and that were not  *)
(* told, which in turn rests on the order of a poll: the queue is marked   *)
(* as seen before the requests are looked at and before anything is        *)
(* delivered (PollInv).                                                    *)
(***************************************************************************)
Ids == Prs \X (1 .. MaxPrEvents)
\* The sessions a registration can name, by the automation.
Targets == IF automation = "host" THEN AgentSessions ELSE {"tmux"}
Registries == [Prs -> Targets \cup {"none"}]
EntrySet == [pr : Prs, session : Targets]
Files == [pr : Prs, session : Targets, events : SUBSET Ids]
Pollers ==
    [at : {"idle", "committing", "saving", "polling", "viewed", "queueing", "flushing", "accepted", "removing"},
     entries : SUBSET EntrySet, entry : EntrySet \cup {NoEntry}, ids : SUBSET Ids, old : SUBSET Ids,
     files : SUBSET Files, file : SUBSET Files, second : BOOLEAN]
Calls ==
    [at : {"idle", "viewed", "read", "registered", "marking", "saving", "unregistering"},
     pr : Prs \cup {"none"}, session : Targets \cup {"none"}, copy : [Prs -> Targets \cup {"none"}],
     ids : SUBSET Ids, old : SUBSET Ids]
PrLogs == [calls : Nat, faults : Nat, marked : SUBSET Ids]

PrTypesInv ==
    /\ automation \in {"host", "tmux"} /\ github \in [Prs -> 0 .. MaxPrEvents]
    /\ registry \in Registries /\ seen \subseteq Ids /\ queue \subseteq Files
    /\ poller \in Pollers /\ prTask \in [PrTasks -> Calls] /\ lock \in PrTasks \cup {0, 100}
    /\ chat \in [AgentSessions -> SUBSET SUBSET Ids] /\ told \in [Ids -> 0 .. 2]
    /\ prLog \in PrLogs

\* A call names its pull request and its session until it is done with them.
CallInv ==
    \A t \in PrTasks : prTask[t].at \in {"viewed", "read", "registered"} => prTask[t].pr \in Prs /\ prTask[t].session \in Targets

\* seen_transaction: its holder saves what it has read.
SeenLockInv ==
    /\ lock = 100 <=> poller.at = "saving"
    /\ poller.at = "saving" => poller.old = seen
    /\ \A t \in PrTasks : /\ lock = t <=> prTask[t].at = "saving"
                          /\ prTask[t].at = "saving" => prTask[t].old = seen

\* A batch holds events of its pull request, and no event is in two batches.
QueueInv ==
    /\ \A file \in queue : file.events # {} /\ file.events \subseteq EventsOf(file.pr)
    /\ \A f, g \in queue : f # g => f.events \cap g.events = {}

\* A pull request that is still to be looked at has no batch that is not marked as seen.
Marked(pr) == \A file \in queue : file.pr = pr => file.events \subseteq seen

InTold(events) == \A id \in events : told[id] > 0

PollInv ==
    /\ poller.at \in {"committing", "saving"} => poller.ids = UNION {file.events : file \in queue}
    /\ poller.at \in {"polling", "viewed", "queueing"} =>
          /\ \A e \in poller.entries : Marked(e.pr)
          /\ \A d, e \in poller.entries : d.pr = e.pr => d = e
    /\ poller.at \in {"viewed", "queueing"} =>
          /\ poller.entry \in EntrySet /\ Marked(poller.entry.pr)
          /\ \A e \in poller.entries : e.pr # poller.entry.pr
          /\ poller.ids \subseteq EventsOf(poller.entry.pr)
    /\ poller.at = "queueing" =>
          /\ poller.ids # {}
          /\ \A id \in poller.ids : told[id] = 0 /\ \A file \in queue : id \notin file.events
    /\ poller.at \in {"flushing", "accepted", "removing"} =>
          /\ poller.files \subseteq queue
          /\ \A file \in queue : file.events \subseteq seen
    /\ poller.at = "accepted" =>
          automation = "host" /\ poller.file \subseteq poller.files /\ \A file \in poller.file : InTold(file.events)
    /\ poller.at = "removing" => automation = "tmux" /\ \A file \in poller.files : InTold(file.events)

\* What was told is seen; a batch in the transcript was told, and a batch of which an event
\* was told is in the transcript or about to be removed.
ToldInv ==
    /\ \A id \in Ids : told[id] > 0 => id \in seen
    /\ \A s \in AgentSessions : \A events \in chat[s] : InTold(events)
    /\ automation = "host" =>
          \A file \in queue : \A id \in file.events : told[id] > 0 => file.events \in chat[file.session]
    /\ automation = "tmux" /\ prLog.faults = 0 =>
          \A file \in queue : \A id \in file.events : told[id] > 0 => poller.at = "removing" /\ file \in poller.files

PrInv ==
    /\ PrTypesInv /\ CallInv /\ SeenLockInv /\ QueueInv /\ PollInv
    /\ ToldInv /\ ToldOnce /\ NoneDropped

-----------------------------------------------------------------------------
(* Sets that depend on the automation do not change, and fields of the records. *)

LEMMA SameSets ==
    ASSUME automation' = automation
    PROVE  /\ Targets' = Targets /\ Registries' = Registries /\ EntrySet' = EntrySet /\ Files' = Files
           /\ Pollers' = Pollers /\ Calls' = Calls
  <1>1. Targets' = Targets
    BY DEF Targets
  <1>2. Registries' = Registries /\ EntrySet' = EntrySet /\ Files' = Files /\ Calls' = Calls
    BY <1>1 DEF Registries, EntrySet, Files, Calls
  <1> QED
    BY <1>1, <1>2 DEF Pollers

LEMMA RestingFacts ==
    /\ Resting \in Pollers /\ Resting.at = "idle" /\ Resting.files = {}
    /\ NoCall \in Calls /\ NoCall.at = "idle"
  <1>1. Resting \in Pollers
    BY DEF Resting, Pollers
  <1>2. [pr \in Prs |-> "none"] \in [Prs -> Targets \cup {"none"}]
    OBVIOUS
  <1>3. NoCall \in Calls
    BY <1>2 DEF NoCall, Calls
  <1> QED
    BY <1>1, <1>3 DEF Resting, NoCall

LEMMA PollerFields ==
    ASSUME PrTypesInv
    PROVE  /\ poller.entries \subseteq EntrySet /\ poller.entry \in EntrySet \cup {NoEntry}
           /\ poller.ids \subseteq Ids /\ poller.old \subseteq Ids
           /\ poller.files \subseteq Files /\ poller.file \subseteq Files /\ poller.second \in BOOLEAN
  BY DEF PrTypesInv, Pollers

LEMMA CallFields ==
    ASSUME PrTypesInv, NEW t \in PrTasks
    PROVE  /\ prTask[t] \in Calls /\ prTask[t].copy \in [Prs -> Targets \cup {"none"}]
           /\ prTask[t].ids \subseteq Ids /\ prTask[t].old \subseteq Ids
           /\ t # 0 /\ t # 100
  <1>1. prTask[t] \in Calls
    BY DEF PrTypesInv
  <1> DEFINE c == prTask[t]
  <1>2. c \in Calls
    BY <1>1
  <1> HIDE DEF c
  <1>3. c.copy \in [Prs -> Targets \cup {"none"}] /\ c.ids \subseteq Ids /\ c.old \subseteq Ids
    BY <1>2 DEF Calls
  <1> QED
    BY <1>1, <1>3, PrAssumption DEF c

\* The events of a pull request, now and later.
LEMMA EventFacts ==
    ASSUME PrTypesInv, NEW pr \in Prs
    PROVE  EventsOf(pr) \subseteq Ids /\ \A id \in EventsOf(pr) : id[1] = pr
  <1>1. github[pr] \in 0 .. MaxPrEvents /\ MaxPrEvents \in Nat
    BY PrAssumption DEF PrTypesInv
  <1>2. \A n \in 1 .. github[pr] : n \in 1 .. MaxPrEvents
    BY <1>1
  <1> QED
    BY <1>2 DEF EventsOf, Ids

LEMMA FileFacts ==
    ASSUME PrTypesInv, NEW file \in queue
    PROVE  file \in Files /\ file.pr \in Prs /\ file.session \in Targets /\ file.events \subseteq Ids
  BY DEF PrTypesInv, Files

\* Calls and failures are counted; marked events only grow.
LEMMA PrLogFacts ==
    ASSUME PrTypesInv, NEW more \in SUBSET Ids
    PROVE  /\ prLog.faults \in Nat /\ prLog.marked \subseteq Ids
           /\ Fault => prLog' \in PrLogs /\ prLog'.marked = prLog.marked /\ prLog'.faults # 0
           /\ prLog' = [prLog EXCEPT !.calls = @ + 1] =>
                 prLog' \in PrLogs /\ prLog'.marked = prLog.marked /\ prLog'.faults = prLog.faults
           /\ prLog' = [prLog EXCEPT !.marked = @ \cup more] =>
                 prLog' \in PrLogs /\ prLog'.marked = prLog.marked \cup more /\ prLog'.faults = prLog.faults
  <1>1. /\ prLog \in PrLogs /\ prLog.faults \in Nat /\ prLog.calls \in Nat /\ prLog.marked \in SUBSET Ids
    BY DEF PrTypesInv, PrLogs
  <1>2. Fault => prLog' \in PrLogs /\ prLog'.marked = prLog.marked /\ prLog'.faults # 0
    BY <1>1 DEF Fault, PrLogs
  <1>3. prLog' = [prLog EXCEPT !.calls = @ + 1] =>
            prLog' \in PrLogs /\ prLog'.marked = prLog.marked /\ prLog'.faults = prLog.faults
    BY <1>1 DEF PrLogs
  <1> DEFINE all == prLog.marked \cup more
  <1>4. ASSUME prLog' = [prLog EXCEPT !.marked = all]
        PROVE  prLog' \in PrLogs /\ prLog'.marked = all /\ prLog'.faults = prLog.faults
    <2>1. all \in SUBSET Ids
      BY <1>1
    <2> HIDE DEF all
    <2> QED  BY <1>1, <1>4, <2>1 DEF PrLogs
  <1> QED
    BY <1>1, <1>2, <1>3, <1>4

LEMMA ToldFacts ==
    ASSUME PrTypesInv, NEW ids \in SUBSET Ids, Tell(ids)
    PROVE  /\ told' \in [Ids -> 0 .. 2]
           /\ \A id \in ids : told'[id] > 0 /\ (told[id] = 0 => told'[id] = 1)
           /\ \A id \in Ids \ ids : told'[id] = told[id]
           /\ \A id \in Ids : told[id] > 0 => told'[id] > 0
  <1>1. told \in [Ids -> 0 .. 2] /\ told' = [id \in Ids |-> IF id \in ids THEN Twice(told[id]) ELSE told[id]]
    BY DEF PrTypesInv, Tell
  <1>2. \A n \in 0 .. 2 : Twice(n) \in 0 .. 2 /\ Twice(n) > 0 /\ (n = 0 => Twice(n) = 1)
    BY DEF Twice
  <1> QED
    BY <1>1, <1>2
-----------------------------------------------------------------------------
(* The control calls and the world outside. *)

\* Nothing that the poll loop works on changes, and no failure is taken back.
LEMMA PollerAside ==
    ASSUME PrInv, UNCHANGED <<automation, github, seen, queue, poller, chat, told>>,
           prLog'.marked = prLog.marked, prLog'.faults = 0 => prLog.faults = 0
    PROVE  QueueInv' /\ PollInv' /\ ToldInv' /\ ToldOnce' /\ NoneDropped'
  <1>1. QueueInv'
    BY DEF PrInv, QueueInv, EventsOf
  <1>2. PollInv'
    <2>1. EntrySet' = EntrySet
      BY SameSets
    <2> QED  BY <2>1 DEF PrInv, PollInv, Marked, InTold, EventsOf
  <1>3. ToldInv'
    BY DEF PrInv, ToldInv, InTold
  <1>4. ToldOnce' /\ NoneDropped'
    BY DEF PrInv, ToldOnce, NoneDropped
  <1> QED
    BY <1>1, <1>2, <1>3, <1>4

\* A call that neither holds nor takes the transaction changes its own record.
LEMMA CallKeeps ==
    ASSUME PrInv, UNCHANGED <<automation, github, seen, queue, poller, lock, chat, told>>,
           registry' \in Registries, prLog' \in PrLogs,
           prLog'.marked = prLog.marked, prLog'.faults = 0 => prLog.faults = 0,
           NEW t \in PrTasks, NEW c \in Calls, prTask' = [prTask EXCEPT ![t] = c],
           prTask[t].at # "saving", c.at # "saving",
           c.at \in {"viewed", "read", "registered"} => c.pr \in Prs /\ c.session \in Targets
    PROVE  PrInv'
  <1>0. PrTypesInv /\ prTask \in [PrTasks -> Calls]
    BY DEF PrInv, PrTypesInv
  <1>s. /\ Targets' = Targets /\ Registries' = Registries /\ Files' = Files /\ Pollers' = Pollers /\ Calls' = Calls
    BY SameSets
  <1>1. prTask' \in [PrTasks -> Calls] /\ prTask'[t] = c /\ \A u \in PrTasks \ {t} : prTask'[u] = prTask[u]
    BY <1>0
  <1>2. PrTypesInv'
    BY <1>0, <1>1, <1>s DEF PrTypesInv
  <1>3. CallInv'
    BY <1>1, <1>s DEF PrInv, CallInv
  <1>4. SeenLockInv'
    <2>1. lock # t
      BY DEF PrInv, SeenLockInv
    <2> QED  BY <1>1, <2>1 DEF PrInv, SeenLockInv
  <1> QED
    BY <1>2, <1>3, <1>4, PollerAside DEF PrInv

LEMMA RegisterKeeps ==
    ASSUME PrInv, NEW t \in PrTasks, Register(t)
    PROVE  PrInv'
  <1>0. PrTypesInv
    BY DEF PrInv
  <1>1. PICK pr \in Prs, s \in Targets :
            prTask' = [prTask EXCEPT ![t] = [NoCall EXCEPT !.at = "viewed", !.pr = pr, !.session = s]]
    BY DEF Register, Targets
  <1> DEFINE c == [NoCall EXCEPT !.at = "viewed", !.pr = pr, !.session = s]
  <1>2. c \in Calls /\ c.at = "viewed" /\ c.pr = pr /\ c.session = s
    <2>1. NoCall \in Calls
      BY RestingFacts
    <2> QED  BY <2>1, ZenonT(60) DEF Calls, NoCall
  <1>3. prTask' = [prTask EXCEPT ![t] = c]
    BY <1>1
  <1> HIDE DEF c
  <1>4. /\ prTask[t].at = "idle" /\ UNCHANGED <<automation, github, seen, queue, poller, lock, chat, told>>
        /\ registry' = registry /\ prLog' = [prLog EXCEPT !.calls = @ + 1]
    BY DEF Register
  <1>5. prLog' \in PrLogs /\ prLog'.marked = prLog.marked /\ prLog'.faults = prLog.faults
    BY <1>0, <1>4, PrLogFacts
  <1>6. registry' \in Registries
    BY <1>0, <1>4 DEF PrTypesInv
  <1> QED
    BY <1>2, <1>3, <1>4, <1>5, <1>6, CallKeeps

LEMMA ReadRegistryKeeps ==
    ASSUME PrInv, NEW t \in PrTasks, ReadRegistry(t)
    PROVE  PrInv'
  <1>0. PrTypesInv /\ prTask[t] \in Calls /\ registry \in [Prs -> Targets \cup {"none"}]
    BY CallFields DEF PrInv, PrTypesInv, Registries
  <1> DEFINE old == prTask[t]
             c == [old EXCEPT !.at = "read", !.copy = registry]
  <1>1. prTask' = [prTask EXCEPT ![t] = c]
    <2>1. prTask \in [PrTasks -> Calls] /\ prTask' = [prTask EXCEPT ![t].at = "read", ![t].copy = registry]
      BY <1>0 DEF ReadRegistry, PrTypesInv
    <2>2. prTask' = [[prTask EXCEPT ![t].at = "read"] EXCEPT ![t].copy = registry]
      BY <2>1
    <2> DEFINE mid == [prTask EXCEPT ![t] = [old EXCEPT !.at = "read"]]
    <2>3. mid[t] = [old EXCEPT !.at = "read"] /\ prTask' = [mid EXCEPT ![t] = [mid[t] EXCEPT !.copy = registry]]
      BY <2>1, <2>2
    <2> QED  BY <2>1, <2>3
  <1>2. old \in Calls /\ old.pr \in Prs /\ old.session \in Targets /\ old.at = "viewed"
    BY <1>0 DEF PrInv, CallInv, ReadRegistry
  <1> HIDE DEF old
  <1>3. c \in Calls /\ c.at = "read" /\ c.pr = old.pr /\ c.session = old.session
    BY <1>0, <1>2 DEF Calls
  <1> HIDE DEF c
  <1>4. /\ prTask[t].at = "viewed" /\ UNCHANGED <<automation, github, seen, queue, poller, lock, chat, told, registry, prLog>>
    BY DEF ReadRegistry
  <1>5. prLog' \in PrLogs /\ registry' \in Registries
    BY <1>0, <1>4 DEF PrTypesInv
  <1> QED
    BY <1>1, <1>2, <1>3, <1>4, <1>5, CallKeeps

LEMMA WriteRegistryKeeps ==
    ASSUME PrInv, NEW t \in PrTasks, WriteRegistry(t)
    PROVE  PrInv'
  <1>0. PrTypesInv /\ prTask[t] \in Calls /\ prTask[t].copy \in [Prs -> Targets \cup {"none"}]
    BY CallFields DEF PrInv
  <1> DEFINE old == prTask[t]
             c == [old EXCEPT !.at = "registered"]
  <1>1. prTask' = [prTask EXCEPT ![t] = c]
    BY <1>0 DEF WriteRegistry, PrTypesInv
  <1>2. old \in Calls /\ old.pr \in Prs /\ old.session \in Targets /\ old.at = "read"
    BY <1>0 DEF PrInv, CallInv, WriteRegistry
  <1>5. prLog' \in PrLogs /\ registry' \in Registries
    BY <1>0, <1>2 DEF PrTypesInv, WriteRegistry, Registries
  <1> HIDE DEF old
  <1>3. c \in Calls /\ c.at = "registered" /\ c.pr = old.pr /\ c.session = old.session
    BY <1>2 DEF Calls
  <1> HIDE DEF c
  <1>4. /\ prTask[t].at = "read" /\ UNCHANGED <<automation, github, seen, queue, poller, lock, chat, told, prLog>>
    BY DEF WriteRegistry
  <1> QED
    BY <1>1, <1>2, <1>3, <1>4, <1>5, CallKeeps

LEMMA MarkSeenKeeps ==
    ASSUME PrInv, NEW t \in PrTasks, MarkSeen(t)
    PROVE  PrInv'
  <1>0. PrTypesInv /\ prTask[t] \in Calls
    BY CallFields DEF PrInv
  <1>4. /\ prTask[t].at = "registered" /\ UNCHANGED <<automation, github, seen, queue, poller, lock, chat, told, registry>>
    BY DEF MarkSeen
  <1>5. registry' \in Registries
    BY <1>0, <1>4 DEF PrTypesInv
  <1>6. CASE prTask' = [prTask EXCEPT ![t].at = "marking", ![t].ids = PrEvents(prTask[t].pr)] /\ UNCHANGED prLog
    <2> DEFINE old == prTask[t]
               ids == PrEvents(prTask[t].pr)
               c == [old EXCEPT !.at = "marking", !.ids = ids]
    <2>1. prTask' = [prTask EXCEPT ![t] = c]
      <3>1. prTask \in [PrTasks -> Calls] /\ prTask' = [[prTask EXCEPT ![t].at = "marking"] EXCEPT ![t].ids = ids]
        BY <1>0, <1>6 DEF PrTypesInv
      <3> DEFINE mid == [prTask EXCEPT ![t] = [old EXCEPT !.at = "marking"]]
      <3> HIDE DEF ids
      <3>2. mid[t] = [old EXCEPT !.at = "marking"] /\ prTask' = [mid EXCEPT ![t] = [mid[t] EXCEPT !.ids = ids]]
        BY <3>1
      <3> QED  BY <3>1, <3>2
    <2>2. ids \in SUBSET Ids
      BY <1>0, <1>4, EventFacts DEF PrInv, CallInv, PrEvents
    <2>3. old \in Calls
      BY <1>0
    <2> HIDE DEF old, ids
    <2>4. c \in Calls /\ c.at = "marking"
      BY <2>2, <2>3 DEF Calls
    <2> HIDE DEF c
    <2>5. prLog' \in PrLogs
      BY <1>0, <1>6 DEF PrTypesInv
    <2> QED  BY <1>4, <1>5, <1>6, <2>1, <2>4, <2>5, CallKeeps
  <1>7. CASE Fault /\ prTask' = [prTask EXCEPT ![t] = NoCall]
    <2>1. prLog' \in PrLogs /\ prLog'.marked = prLog.marked /\ prLog'.faults # 0
      BY <1>0, <1>7, PrLogFacts
    <2> QED  BY <1>4, <1>5, <1>7, <2>1, CallKeeps, RestingFacts
  <1> QED
    BY <1>6, <1>7 DEF MarkSeen

LEMMA UnregisterKeeps ==
    ASSUME PrInv, NEW t \in PrTasks, Unregister(t) \/ WriteUnregistered(t)
    PROVE  PrInv'
  <1>0. PrTypesInv /\ registry \in [Prs -> Targets \cup {"none"}] /\ prTask[t].copy \in [Prs -> Targets \cup {"none"}]
    BY CallFields DEF PrInv, PrTypesInv, Registries
  <1>1. CASE Unregister(t)
    <2>1. PICK pr \in Prs :
              prTask' = [prTask EXCEPT ![t] = [NoCall EXCEPT !.at = "unregistering", !.copy = [registry EXCEPT ![pr] = "none"]]]
      BY <1>1 DEF Unregister
    <2> DEFINE without == [registry EXCEPT ![pr] = "none"]
               c == [NoCall EXCEPT !.at = "unregistering", !.copy = without]
    <2>2. prTask' = [prTask EXCEPT ![t] = c]
      BY <2>1
    <2>3. without \in [Prs -> Targets \cup {"none"}]
      BY <1>0
    <2> HIDE DEF without
    <2>4. c \in Calls /\ c.at = "unregistering"
      <3>1. NoCall \in Calls
        BY RestingFacts
      <3> QED  BY <3>1, <2>3, ZenonT(60) DEF Calls, NoCall
    <2> HIDE DEF c
    <2>5. /\ prTask[t].at = "idle" /\ UNCHANGED <<automation, github, seen, queue, poller, lock, chat, told>>
          /\ registry' = registry /\ prLog' = [prLog EXCEPT !.calls = @ + 1]
      BY <1>1 DEF Unregister
    <2>6. prLog' \in PrLogs /\ prLog'.marked = prLog.marked /\ prLog'.faults = prLog.faults
      BY <1>0, <2>5, PrLogFacts
    <2>7. registry' \in Registries
      BY <1>0, <2>5 DEF PrTypesInv
    <2> QED  BY <2>2, <2>4, <2>5, <2>6, <2>7, CallKeeps
  <1>2. CASE WriteUnregistered(t)
    <2>1. /\ prTask[t].at = "unregistering" /\ prTask' = [prTask EXCEPT ![t] = NoCall]
          /\ UNCHANGED <<automation, github, seen, queue, poller, lock, chat, told, prLog>>
      BY <1>2 DEF WriteUnregistered
    <2>2. prLog' \in PrLogs /\ registry' \in Registries
      BY <1>0, <1>2 DEF PrTypesInv, WriteUnregistered, Registries
    <2> QED  BY <2>1, <2>2, CallKeeps, RestingFacts
  <1> QED
    BY <1>1, <1>2

\* The transaction taken and given back by a call: what it saves is what is seen and the
\* events that were there at the registration.
LEMMA TakeLockKeeps ==
    ASSUME PrInv, NEW t \in PrTasks, TakeLock(t)
    PROVE  PrInv'
  <1>0. PrTypesInv /\ prTask[t] \in Calls /\ prTask \in [PrTasks -> Calls] /\ t # 0 /\ t # 100
    BY CallFields DEF PrInv, PrTypesInv
  <1> DEFINE old == prTask[t]
             c == [old EXCEPT !.at = "saving", !.old = seen]
  <1>1. prTask' = [prTask EXCEPT ![t] = c]
    <2>1. prTask' = [[prTask EXCEPT ![t].at = "saving"] EXCEPT ![t].old = seen]
      BY <1>0 DEF TakeLock
    <2> DEFINE mid == [prTask EXCEPT ![t] = [old EXCEPT !.at = "saving"]]
    <2>2. mid[t] = [old EXCEPT !.at = "saving"] /\ prTask' = [mid EXCEPT ![t] = [mid[t] EXCEPT !.old = seen]]
      BY <1>0, <2>1
    <2> QED  BY <1>0, <2>2
  <1>2. old \in Calls /\ seen \in SUBSET Ids
    BY <1>0 DEF PrTypesInv
  <1> HIDE DEF old
  <1>3. c \in Calls /\ c.at = "saving" /\ c.old = seen
    BY <1>2 DEF Calls
  <1> HIDE DEF c
  <1>4. prTask' \in [PrTasks -> Calls] /\ prTask'[t] = c /\ \A u \in PrTasks \ {t} : prTask'[u] = prTask[u]
    BY <1>0, <1>1, <1>3
  <1>5. /\ prTask[t].at = "marking" /\ lock = 0 /\ lock' = t
        /\ UNCHANGED <<automation, github, registry, seen, queue, poller, chat, told, prLog>>
    BY DEF TakeLock, Free
  <1>s. /\ Targets' = Targets /\ Registries' = Registries /\ Files' = Files /\ Pollers' = Pollers /\ Calls' = Calls
    BY <1>5, SameSets
  <1>6. PrTypesInv'
    BY <1>0, <1>4, <1>5, <1>s DEF PrTypesInv
  <1>7. CallInv'
    BY <1>3, <1>4, <1>s DEF PrInv, CallInv
  <1>8. SeenLockInv'
    <2>1. \A u \in PrTasks : u # 0 /\ u # 100
      BY PrAssumption
    <2>2. \A u \in PrTasks : prTask[u].at # "saving"
      BY <1>5, <2>1 DEF PrInv, SeenLockInv
    <2> QED  BY <1>3, <1>4, <1>5, <2>1, <2>2 DEF PrInv, SeenLockInv
  <1> QED
    BY <1>5, <1>6, <1>7, <1>8, PollerAside DEF PrInv

LEMMA SaveSeenKeeps ==
    ASSUME PrInv, NEW t \in PrTasks, SaveSeen(t)
    PROVE  PrInv'
  <1>0. /\ PrTypesInv /\ prTask[t] \in Calls /\ prTask \in [PrTasks -> Calls] /\ t # 0 /\ t # 100
        /\ prTask[t].ids \in SUBSET Ids
    BY CallFields DEF PrInv, PrTypesInv
  <1>1. /\ prTask[t].at = "saving" /\ lock = t /\ lock' = 0 /\ prTask[t].old = seen
        /\ poller.at # "saving"
        /\ UNCHANGED <<automation, github, registry, queue, poller, chat, told>>
    BY <1>0 DEF SaveSeen, PrInv, SeenLockInv
  <1>2. prTask' = [prTask EXCEPT ![t] = NoCall] /\ seen' = seen \cup prTask[t].ids
    BY <1>1 DEF SaveSeen
  <1>3. prTask' \in [PrTasks -> Calls] /\ prTask'[t].at = "idle" /\ \A u \in PrTasks \ {t} : prTask'[u] = prTask[u]
    BY <1>0, <1>2, RestingFacts
  <1>4. prLog' \in PrLogs /\ prLog'.marked = prLog.marked \cup prTask[t].ids /\ prLog'.faults = prLog.faults
    BY <1>0, PrLogFacts DEF SaveSeen
  <1>s. /\ Targets' = Targets /\ Registries' = Registries /\ EntrySet' = EntrySet /\ Files' = Files
        /\ Pollers' = Pollers /\ Calls' = Calls
    BY <1>1, SameSets
  <1>5. PrTypesInv'
    BY <1>0, <1>1, <1>2, <1>3, <1>4, <1>s DEF PrTypesInv
  <1>6. CallInv'
    BY <1>3, <1>s DEF PrInv, CallInv
  <1>7. SeenLockInv'
    <2>1. \A u \in PrTasks : u # 0 /\ u # 100
      BY PrAssumption
    <2>2. \A u \in PrTasks : prTask'[u].at # "saving"
      BY <1>1, <1>3 DEF PrInv, SeenLockInv
    <2> QED  BY <1>1, <2>1, <2>2 DEF PrInv, SeenLockInv
  <1>8. QueueInv'
    BY <1>1 DEF PrInv, QueueInv, EventsOf
  <1>9. PollInv'
    <2>1. \A pr : Marked(pr) => Marked(pr)'
      BY <1>1, <1>2 DEF Marked
    <2> QED  BY <1>1, <1>2, <1>s, <2>1 DEF PrInv, PollInv, InTold, EventsOf
  <1>10. ToldInv'
    BY <1>1, <1>2, <1>4 DEF PrInv, ToldInv, InTold
  <1>11. ToldOnce' /\ NoneDropped'
    BY <1>1, <1>2, <1>4 DEF PrInv, ToldOnce, NoneDropped
  <1> QED
    BY <1>5, <1>6, <1>7, <1>8, <1>9, <1>10, <1>11 DEF PrInv

\* A pull request gets an event: no batch holds it yet.
LEMMA GithubEventKeeps ==
    ASSUME PrInv, NEW p \in Prs, GithubEvent(p)
    PROVE  PrInv'
  <1>0. PrTypesInv
    BY DEF PrInv
  <1>1. /\ github[p] < MaxPrEvents /\ github' = [github EXCEPT ![p] = @ + 1]
        /\ UNCHANGED <<automation, registry, seen, queue, poller, prTask, lock, chat, told, prLog>>
    BY DEF GithubEvent
  <1>2. github' \in [Prs -> 0 .. MaxPrEvents] /\ \A pr \in Prs : github[pr] <= github'[pr]
    BY <1>0, <1>1, PrAssumption DEF PrTypesInv
  <1>3. \A pr \in Prs : EventsOf(pr) \subseteq EventsOf(pr)'
    <2> SUFFICES ASSUME NEW pr \in Prs PROVE EventsOf(pr) \subseteq EventsOf(pr)'
      OBVIOUS
    <2>1. github[pr] \in Nat /\ github'[pr] \in Nat
      BY <1>0, <1>2, PrAssumption DEF PrTypesInv
    <2>2. \A n \in 1 .. github[pr] : n \in 1 .. github'[pr]
      BY <1>2, <2>1
    <2> QED  BY <2>2 DEF EventsOf
  <1>s. /\ Targets' = Targets /\ Registries' = Registries /\ EntrySet' = EntrySet /\ Files' = Files
        /\ Pollers' = Pollers /\ Calls' = Calls
    BY <1>1, SameSets
  <1>4. PrTypesInv'
    BY <1>0, <1>1, <1>2, <1>s DEF PrTypesInv
  <1>5. CallInv' /\ SeenLockInv'
    BY <1>1, <1>s DEF PrInv, CallInv, SeenLockInv
  <1>6. QueueInv'
    BY <1>0, <1>1, <1>3, FileFacts DEF PrInv, QueueInv
  <1>7. PollInv'
    <2>1. poller.at \in {"viewed", "queueing"} => poller.ids \subseteq EventsOf(poller.entry.pr)'
      BY <1>1, <1>3 DEF PrInv, PollInv, EntrySet
    <2> QED  BY <1>1, <1>s, <2>1 DEF PrInv, PollInv, Marked, InTold
  <1>8. ToldInv' /\ ToldOnce' /\ NoneDropped'
    BY <1>1 DEF PrInv, ToldInv, InTold, ToldOnce, NoneDropped
  <1> QED
    BY <1>4, <1>5, <1>6, <1>7, <1>8 DEF PrInv

\* Archiving a session and a stutter change nothing the invariant speaks of.
LEMMA ArchiveKeeps ==
    ASSUME PrInv,
           UNCHANGED <<automation, github, registry, seen, queue, poller, prTask, lock, chat, told, prLog>>
    PROVE  PrInv'
  <1>1. PrTypesInv'
    <2>1. /\ Targets' = Targets /\ Registries' = Registries /\ Files' = Files /\ Pollers' = Pollers /\ Calls' = Calls
      BY SameSets
    <2> QED  BY <2>1 DEF PrInv, PrTypesInv
  <1>2. CallInv' /\ SeenLockInv'
    BY DEF PrInv, CallInv, SeenLockInv, Targets
  <1> QED
    BY <1>1, <1>2, PollerAside DEF PrInv
-----------------------------------------------------------------------------
(* The poll loop. *)

LEMMA PollerTypes ==
    ASSUME PrInv, UNCHANGED <<automation, github, registry, prTask>>,
           seen' \subseteq Ids, queue' \subseteq Files, poller' \in Pollers, lock' \in PrTasks \cup {0, 100},
           chat' \in [AgentSessions -> SUBSET SUBSET Ids], told' \in [Ids -> 0 .. 2], prLog' \in PrLogs
    PROVE  PrTypesInv' /\ CallInv'
  <1>1. /\ Targets' = Targets /\ Registries' = Registries /\ Files' = Files /\ Pollers' = Pollers /\ Calls' = Calls
    BY SameSets
  <1> QED
    BY <1>1 DEF PrInv, PrTypesInv, CallInv

LEMMA LockAside ==
    ASSUME PrInv, UNCHANGED <<lock, seen, prTask>>, poller.at # "saving", poller'.at # "saving"
    PROVE  SeenLockInv'
  BY DEF PrInv, SeenLockInv

\* A step of the loop that changes its own record and reaches PollInv again.
LEMMA QuietPollerKeeps ==
    ASSUME PrInv, UNCHANGED <<automation, github, registry, seen, queue, prTask, lock, chat, told>>,
           poller.at # "saving", poller' \in Pollers, poller'.at # "saving",
           prLog' \in PrLogs, prLog'.marked = prLog.marked, prLog'.faults = 0 => prLog.faults = 0,
           poller.at = "removing" => poller.files = {},
           PollInv'
    PROVE  PrInv'
  <1>0. PrTypesInv
    BY DEF PrInv
  <1>1. PrTypesInv' /\ CallInv'
    BY <1>0, PollerTypes DEF PrTypesInv
  <1>2. SeenLockInv'
    BY LockAside
  <1>3. QueueInv'
    BY DEF PrInv, QueueInv, EventsOf
  <1>4. ToldInv'
    BY DEF PrInv, ToldInv, InTold
  <1>5. ToldOnce' /\ NoneDropped'
    BY DEF PrInv, ToldOnce, NoneDropped
  <1> QED
    BY <1>1, <1>2, <1>3, <1>4, <1>5 DEF PrInv

\* The records a poll starts its parts with.
LEMMA NewPollers ==
    ASSUME PrTypesInv
    PROVE  /\ FirstCommit \in Pollers /\ FirstCommit.at = "committing" /\ FirstCommit.ids = UNION {file.events : file \in queue}
           /\ SecondCommit \in Pollers /\ SecondCommit.at = "committing" /\ SecondCommit.ids = UNION {file.events : file \in queue}
           /\ AfterCommit \in Pollers
           /\ \/ AfterCommit.at = "flushing" /\ AfterCommit.files = queue
              \/ AfterCommit.at = "polling" /\ AfterCommit.entries = Entries
  <1>0. Resting \in Pollers
    BY RestingFacts
  <1> DEFINE held == UNION {file.events : file \in queue}
  <1>1. held \in SUBSET Ids /\ queue \in SUBSET Files
    BY DEF PrTypesInv, Files
  <1>2. Entries \in SUBSET EntrySet
    BY DEF PrTypesInv, Registries, Entries, EntrySet
  <1>3. FirstCommit = [Resting EXCEPT !.at = "committing", !.ids = held]
    BY DEF FirstCommit
  <1>4. SecondCommit = [Resting EXCEPT !.at = "committing", !.second = TRUE, !.ids = held]
    BY DEF SecondCommit
  <1> HIDE DEF held
  <1>5. FirstCommit \in Pollers /\ FirstCommit.at = "committing" /\ FirstCommit.ids = held
    BY <1>0, <1>1, <1>3 DEF Pollers, Resting
  <1>6. SecondCommit \in Pollers /\ SecondCommit.at = "committing" /\ SecondCommit.ids = held
    BY <1>0, <1>1, <1>4 DEF Pollers, Resting
  <1> DEFINE flush == [Resting EXCEPT !.at = "flushing", !.files = queue]
             poll == [Resting EXCEPT !.at = "polling", !.entries = Entries]
  <1>7. flush \in Pollers /\ flush.at = "flushing" /\ flush.files = queue
    BY <1>0, <1>1 DEF Pollers, Resting
  <1>8. poll \in Pollers /\ poll.at = "polling" /\ poll.entries = Entries
    BY <1>0, <1>2 DEF Pollers, Resting
  <1>9. AfterCommit = flush \/ AfterCommit = poll
    BY DEF AfterCommit
  <1> HIDE DEF flush, poll
  <1> QED
    BY <1>5, <1>6, <1>7, <1>8, <1>9 DEF held

\* PollInv where nothing is asked of the loop's record but the ids it is to commit.
LEMMA CommitPolls ==
    ASSUME UNCHANGED queue,
           \/ poller'.at = "idle"
           \/ poller'.at = "committing" /\ poller'.ids = UNION {file.events : file \in queue}
    PROVE  PollInv'
  BY DEF PollInv

LEMMA PollOnceKeeps ==
    ASSUME PrInv, PollOnce
    PROVE  PrInv'
  <1>0. PrTypesInv /\ prLog \in PrLogs
    BY DEF PrInv, PrTypesInv
  <1>1. /\ poller.at = "idle" /\ poller' = FirstCommit
        /\ UNCHANGED <<automation, github, registry, seen, queue, prTask, lock, chat, told, prLog>>
    BY DEF PollOnce
  <1>2. poller' \in Pollers /\ poller'.at = "committing" /\ poller'.ids = UNION {file.events : file \in queue}
    BY <1>0, <1>1, NewPollers
  <1>3. PollInv'
    BY <1>1, <1>2, CommitPolls
  <1> QED
    BY <1>0, <1>1, <1>2, <1>3, QuietPollerKeeps

LEMMA CommitKeeps ==
    ASSUME PrInv, Commit
    PROVE  PrInv'
  <1>0. /\ PrTypesInv /\ prLog \in PrLogs /\ chat \in [AgentSessions -> SUBSET SUBSET Ids] /\ told \in [Ids -> 0 .. 2]
        /\ seen \subseteq Ids /\ queue \subseteq Files /\ poller \in Pollers
    BY DEF PrInv, PrTypesInv
  <1>u. UNCHANGED <<automation, github, registry, queue, prTask, chat, told>>
    BY DEF Commit
  <1>t. \A u \in PrTasks : u # 0 /\ u # 100
    BY PrAssumption
  <1>q. QueueInv'
    BY <1>u DEF PrInv, QueueInv, EventsOf
  <1>1. CASE poller.at = "committing" /\ Free /\ lock' = 100 /\ poller' = [poller EXCEPT !.at = "saving", !.old = seen]
             /\ UNCHANGED <<seen, prLog>>
    <2>1. poller' \in Pollers /\ poller'.at = "saving" /\ poller'.old = seen /\ poller'.ids = poller.ids
      BY <1>0, <1>1 DEF Pollers
    <2>2. PrTypesInv' /\ CallInv'
      BY <1>0, <1>1, <1>u, <2>1, PollerTypes
    <2>3. SeenLockInv'
      <3>1. \A u \in PrTasks : prTask[u].at # "saving"
        BY <1>1, <1>t DEF PrInv, SeenLockInv, Free
      <3> QED  BY <1>1, <1>t, <1>u, <2>1, <3>1 DEF SeenLockInv
    <2>4. PollInv'
      BY <1>1, <1>u, <2>1 DEF PrInv, PollInv
    <2>5. ToldInv' /\ ToldOnce' /\ NoneDropped'
      BY <1>1, <1>u, <2>1 DEF PrInv, ToldInv, InTold, ToldOnce, NoneDropped
    <2> QED  BY <1>q, <2>2, <2>3, <2>4, <2>5 DEF PrInv
  <1>2. CASE poller.at = "saving" /\ seen' = poller.old \cup poller.ids /\ lock' = 0 /\ poller' = AfterCommit /\ UNCHANGED prLog
    <2>1. seen' = seen \cup UNION {file.events : file \in queue}
      BY <1>2 DEF PrInv, SeenLockInv, PollInv
    <2>2. /\ poller' \in Pollers
          /\ \/ poller'.at = "flushing" /\ poller'.files = queue
             \/ poller'.at = "polling" /\ poller'.entries = Entries
      BY <1>0, <1>2, NewPollers
    <2>3. seen \subseteq seen' /\ seen' \subseteq Ids /\ \A file \in queue : file.events \subseteq seen'
      BY <1>0, <2>1 DEF Files
    <2>4. PrTypesInv' /\ CallInv'
      BY <1>0, <1>2, <1>u, <2>2, <2>3, PollerTypes
    <2>5. SeenLockInv'
      <3>1. \A u \in PrTasks : prTask[u].at # "saving"
        BY <1>2, <1>t DEF PrInv, SeenLockInv
      <3> QED  BY <1>2, <1>t, <1>u, <2>2, <3>1 DEF SeenLockInv
    <2>6. PollInv'
      <3>1. \A d, e \in Entries : d.pr = e.pr => d = e
        BY DEF Entries
      <3>2. \A pr : Marked(pr)'
        BY <1>u, <2>3 DEF Marked
      <3> QED  BY <1>u, <2>2, <2>3, <3>1, <3>2 DEF PollInv
    <2>7. ToldInv'
      BY <1>2, <1>u, <2>3 DEF PrInv, ToldInv, InTold
    <2>8. ToldOnce' /\ NoneDropped'
      BY <1>2, <1>u, <2>1 DEF PrInv, ToldOnce, NoneDropped
    <2> QED  BY <1>q, <2>4, <2>5, <2>6, <2>7, <2>8 DEF PrInv
  <1>3. CASE poller.at = "saving" /\ Fault /\ lock' = 0 /\ poller' = Resting /\ UNCHANGED seen
    <2>1. prLog' \in PrLogs /\ prLog'.marked = prLog.marked /\ prLog'.faults # 0
      BY <1>0, <1>3, PrLogFacts
    <2>2. poller' \in Pollers /\ poller'.at = "idle"
      BY <1>3, RestingFacts
    <2>3. PrTypesInv' /\ CallInv'
      BY <1>0, <1>3, <1>u, <2>1, <2>2, PollerTypes
    <2>4. SeenLockInv'
      <3>1. \A u \in PrTasks : prTask[u].at # "saving"
        BY <1>3, <1>t DEF PrInv, SeenLockInv
      <3> QED  BY <1>3, <1>t, <1>u, <2>2, <3>1 DEF SeenLockInv
    <2>5. PollInv'
      BY <1>u, <2>2, CommitPolls
    <2>6. ToldInv' /\ ToldOnce' /\ NoneDropped'
      BY <1>3, <1>u, <2>1 DEF PrInv, ToldInv, InTold, ToldOnce, NoneDropped
    <2> QED  BY <1>q, <2>3, <2>4, <2>5, <2>6 DEF PrInv
  <1> QED
    BY <1>1, <1>2, <1>3 DEF Commit, CommitQueued

\* handle_pr: what is not seen of the pull request was never told and is in no batch.
LEMMA HandleKeeps ==
    ASSUME PrInv, Handle
    PROVE  PrInv'
  <1>0. PrTypesInv /\ prLog \in PrLogs /\ poller \in Pollers
    BY DEF PrInv, PrTypesInv
  <1>u. UNCHANGED <<automation, github, registry, seen, queue, prTask, lock, chat, told>>
    BY DEF Handle
  <1>s. EntrySet' = EntrySet /\ \A pr : Marked(pr)' <=> Marked(pr)
    BY <1>u, SameSets DEF Marked
  <1>e. \A pr : EventsOf(pr)' = EventsOf(pr)
    BY <1>u DEF EventsOf
  <1>1. ASSUME poller.at \in {"polling", "queueing"}, poller' = SecondCommit, Fault \/ UNCHANGED prLog
        PROVE  PrInv'
    <2>1. prLog' \in PrLogs /\ prLog'.marked = prLog.marked /\ (prLog'.faults = 0 => prLog.faults = 0)
      BY <1>0, <1>1, PrLogFacts
    <2>2. poller' \in Pollers /\ poller'.at = "committing" /\ poller'.ids = UNION {file.events : file \in queue}
      BY <1>0, <1>1, NewPollers
    <2>3. PollInv'
      BY <1>u, <2>2, CommitPolls
    <2> QED  BY <1>1, <1>u, <2>1, <2>2, <2>3, QuietPollerKeeps
  <1>2. ASSUME poller.at = "polling", UNCHANGED prLog, NEW entry \in poller.entries,
               poller' = [poller EXCEPT !.at = "viewed", !.entries = @ \ {entry}, !.entry = entry, !.ids = PrEvents(entry.pr)]
        PROVE  PrInv'
    <2> DEFINE rest == poller.entries \ {entry}
               ids == PrEvents(entry.pr)
    <2>1. entry \in EntrySet /\ rest \in SUBSET EntrySet
      BY <1>0, PollerFields
    <2>2. entry.pr \in Prs
      BY <2>1 DEF EntrySet
    <2>3. ids = EventsOf(entry.pr) /\ ids \in SUBSET Ids
      BY <1>0, <2>2, EventFacts DEF PrEvents
    <2>4. /\ \A e \in rest : Marked(e.pr) /\ e.pr # entry.pr
          /\ \A d, e \in rest : d.pr = e.pr => d = e
          /\ Marked(entry.pr)
      BY <1>2 DEF PrInv, PollInv
    <2>5. poller' = [poller EXCEPT !.at = "viewed", !.entries = rest, !.entry = entry, !.ids = ids]
      BY <1>2
    <2> HIDE DEF rest, ids
    <2>6. /\ poller' \in Pollers /\ poller'.at = "viewed" /\ poller'.entries = rest
          /\ poller'.entry = entry /\ poller'.ids = ids
      BY <1>0, <2>1, <2>3, <2>5 DEF Pollers
    <2>7. PollInv'
      BY <1>s, <1>e, <2>1, <2>3, <2>4, <2>6 DEF PollInv
    <2> QED  BY <1>0, <1>2, <1>u, <2>6, <2>7, QuietPollerKeeps
  <1>3. ASSUME poller.at = "viewed", UNCHANGED prLog,
               poller' = [poller EXCEPT !.at = IF poller.ids \subseteq seen THEN "polling" ELSE "queueing", !.ids = @ \ seen]
        PROVE  PrInv'
    <2> DEFINE at == IF poller.ids \subseteq seen THEN "polling" ELSE "queueing"
               new == poller.ids \ seen
    <2>1. at \in {"polling", "queueing"} /\ new \in SUBSET Ids /\ (at = "queueing" => new # {})
      BY <1>0, PollerFields
    <2>2. poller' = [poller EXCEPT !.at = at, !.ids = new]
      BY <1>3
    <2>3. ASSUME NEW id \in new PROVE told[id] = 0 /\ \A file \in queue : id \notin file.events
      <3>1. id \in EventsOf(poller.entry.pr) /\ id \notin seen /\ poller.entry.pr \in Prs /\ Marked(poller.entry.pr)
        BY <1>3 DEF PrInv, PollInv, EntrySet
      <3>2. id[1] = poller.entry.pr /\ id \in Ids
        BY <1>0, <3>1, EventFacts
      <3>3. told[id] = 0
        BY <1>0, <3>1, <3>2 DEF PrInv, ToldInv, PrTypesInv
      <3>4. ASSUME NEW file \in queue, id \in file.events PROVE FALSE
        <4>1. file.pr \in Prs /\ id \in EventsOf(file.pr)
          BY <1>0, <3>4, FileFacts DEF PrInv, QueueInv
        <4>2. file.pr = poller.entry.pr
          BY <1>0, <3>2, <4>1, EventFacts
        <4> QED  BY <3>1, <3>4, <4>2 DEF Marked
      <3> QED  BY <3>3, <3>4
    <2>4. new \subseteq poller.ids
      OBVIOUS
    <2> HIDE DEF at, new
    <2>5. /\ poller' \in Pollers /\ poller'.at = at /\ poller'.entries = poller.entries
          /\ poller'.entry = poller.entry /\ poller'.ids = new
      BY <1>0, <2>1, <2>2 DEF Pollers
    <2>6. PollInv'
      BY <1>3, <1>s, <1>e, <1>u, <2>1, <2>3, <2>4, <2>5 DEF PrInv, PollInv
    <2> QED  BY <1>0, <1>3, <1>u, <2>1, <2>5, <2>6, QuietPollerKeeps
  <1> QED
    BY <1>1, <1>2, <1>3 DEF Handle, HandlePr

LEMMA QueueEventsKeeps ==
    ASSUME PrInv, QueueEvents
    PROVE  PrInv'
  <1>0. /\ PrTypesInv /\ prLog \in PrLogs /\ chat \in [AgentSessions -> SUBSET SUBSET Ids] /\ told \in [Ids -> 0 .. 2]
        /\ seen \subseteq Ids /\ queue \subseteq Files /\ poller \in Pollers /\ lock \in PrTasks \cup {0, 100}
    BY DEF PrInv, PrTypesInv
  <1>u. poller.at = "queueing" /\ UNCHANGED <<automation, github, registry, seen, prTask, lock, chat, told>>
    BY DEF QueueEvents
  <1>1. CASE Fault /\ poller' = SecondCommit /\ UNCHANGED queue
    <2>1. prLog' \in PrLogs /\ prLog'.marked = prLog.marked /\ prLog'.faults # 0
      BY <1>0, <1>1, PrLogFacts
    <2>2. poller' \in Pollers /\ poller'.at = "committing" /\ poller'.ids = UNION {file.events : file \in queue}
      BY <1>0, <1>1, NewPollers
    <2>3. PollInv'
      BY <1>1, <2>2, CommitPolls
    <2> QED  BY <1>1, <1>u, <2>1, <2>2, <2>3, QuietPollerKeeps
  <1>2. CASE /\ queue' = queue \cup {[pr |-> poller.entry.pr, session |-> poller.entry.session, events |-> poller.ids]}
             /\ poller' = [poller EXCEPT !.at = "polling", !.ids = {}] /\ UNCHANGED prLog
    <2> DEFINE batch == [pr |-> poller.entry.pr, session |-> poller.entry.session, events |-> poller.ids]
    <2>1. /\ poller.entry \in EntrySet /\ poller.ids # {} /\ poller.ids \subseteq EventsOf(poller.entry.pr)
          /\ \A id \in poller.ids : told[id] = 0 /\ \A file \in queue : id \notin file.events
          /\ \A e \in poller.entries : Marked(e.pr) /\ e.pr # poller.entry.pr
          /\ \A d, e \in poller.entries : d.pr = e.pr => d = e
      BY <1>u DEF PrInv, PollInv
    <2>2. batch \in Files /\ batch.pr = poller.entry.pr /\ batch.events = poller.ids
      BY <1>0, <2>1, PollerFields DEF Files, EntrySet
    <2>3. queue' = queue \cup {batch}
      BY <1>2
    <2> HIDE DEF batch
    <2>4. poller' \in Pollers /\ poller'.at = "polling" /\ poller'.entries = poller.entries
      BY <1>0, <1>2 DEF Pollers
    <2>5. PrTypesInv' /\ CallInv'
      BY <1>0, <1>2, <1>u, <2>2, <2>3, <2>4, PollerTypes
    <2>6. SeenLockInv'
      BY <1>u, <2>4, LockAside
    <2>7. QueueInv'
      <3>1. \A pr : EventsOf(pr)' = EventsOf(pr)
        BY <1>u DEF EventsOf
      <3>2. \A file \in queue' : file.events # {} /\ file.events \subseteq EventsOf(file.pr)'
        BY <2>1, <2>2, <2>3, <3>1 DEF PrInv, QueueInv
      <3>3. \A f \in queue : f.events \cap batch.events = {}
        BY <2>1, <2>2
      <3>4. \A f, g \in queue' : f # g => f.events \cap g.events = {}
        BY <2>3, <3>3 DEF PrInv, QueueInv
      <3> QED  BY <3>2, <3>4 DEF QueueInv
    <2>8. PollInv'
      <3>1. \A e \in poller.entries : Marked(e.pr)'
        BY <1>u, <2>1, <2>2, <2>3 DEF Marked
      <3> QED  BY <2>1, <2>4, <3>1 DEF PollInv
    <2>9. ToldInv'
      <3>1. \A id \in batch.events : ~(told'[id] > 0)
        BY <1>u, <2>1, <2>2
      <3> QED  BY <1>2, <1>u, <2>3, <3>1 DEF PrInv, ToldInv, InTold
    <2>10. ToldOnce' /\ NoneDropped'
      BY <1>2, <1>u, <2>3 DEF PrInv, ToldOnce, NoneDropped
    <2> QED  BY <2>5, <2>6, <2>7, <2>8, <2>9, <2>10 DEF PrInv
  <1> QED
    BY <1>1, <1>2 DEF QueueEvents

LEMMA DaemonRestartsKeeps ==
    ASSUME PrInv, DaemonRestarts
    PROVE  PrInv'
  <1>0. PrTypesInv
    BY DEF PrInv
  <1>u. /\ poller' = Resting /\ prTask' = [t \in PrTasks |-> NoCall] /\ lock' = 0
        /\ UNCHANGED <<automation, github, registry, seen, queue, chat, told>>
    BY DEF DaemonRestarts
  <1>1. prLog' \in PrLogs /\ prLog'.marked = prLog.marked /\ prLog'.faults # 0
    <2>1. Fault
      BY DEF DaemonRestarts, Fault
    <2> QED  BY <1>0, <2>1, PrLogFacts
  <1>2. poller' \in Pollers /\ poller'.at = "idle"
    BY <1>u, RestingFacts
  <1>3. prTask' \in [PrTasks -> Calls] /\ \A u \in PrTasks : prTask'[u].at = "idle"
    BY <1>u, RestingFacts
  <1>4. PrTypesInv'
    <2>1. /\ Targets' = Targets /\ Registries' = Registries /\ Files' = Files /\ Pollers' = Pollers /\ Calls' = Calls
      BY <1>u, SameSets
    <2> QED  BY <1>0, <1>u, <1>1, <1>2, <1>3, <2>1 DEF PrTypesInv
  <1>5. CallInv'
    BY <1>3 DEF CallInv
  <1>6. SeenLockInv'
    <2>1. \A u \in PrTasks : u # 0 /\ u # 100
      BY PrAssumption
    <2> QED  BY <1>u, <1>2, <1>3, <2>1 DEF SeenLockInv
  <1>7. QueueInv'
    BY <1>u DEF PrInv, QueueInv, EventsOf
  <1>8. PollInv'
    BY <1>u, <1>2, CommitPolls
  <1>9. ToldInv' /\ ToldOnce' /\ NoneDropped'
    BY <1>u, <1>1 DEF PrInv, ToldInv, InTold, ToldOnce, NoneDropped
  <1> QED
    BY <1>4, <1>5, <1>6, <1>7, <1>8, <1>9 DEF PrInv
-----------------------------------------------------------------------------
(* flush_queued_events. *)

\* A file is not delivered in this poll, or its session holds it already.
LEMMA PassOverKeeps ==
    ASSUME PrInv, UNCHANGED <<automation, github, registry, seen, queue, prTask, lock, chat, told>>,
           poller.at = "flushing", NEW file \in poller.files, Fault \/ UNCHANGED prLog,
           \/ poller' = [poller EXCEPT !.files = @ \ {file}]
           \/ /\ automation = "host" /\ DeliveryState(file)
              /\ poller' = [poller EXCEPT !.at = "accepted", !.file = {file}]
    PROVE  PrInv'
  <1>0. PrTypesInv /\ prLog \in PrLogs /\ poller \in Pollers
    BY DEF PrInv, PrTypesInv
  <1>1. prLog' \in PrLogs /\ prLog'.marked = prLog.marked /\ (prLog'.faults = 0 => prLog.faults = 0)
    BY <1>0, PrLogFacts
  <1>2. poller.files \subseteq queue /\ \A g \in queue : g.events \subseteq seen
    BY DEF PrInv, PollInv
  <1>3. file \in queue /\ file \in Files /\ file.session \in Targets
    BY <1>0, <1>2, FileFacts
  <1>4. CASE poller' = [poller EXCEPT !.files = @ \ {file}]
    <2> DEFINE rest == poller.files \ {file}
    <2>1. rest \in SUBSET Files /\ rest \subseteq queue /\ poller' = [poller EXCEPT !.files = rest]
      BY <1>0, <1>2, <1>4, PollerFields
    <2> HIDE DEF rest
    <2>2. poller' \in Pollers /\ poller'.at = "flushing" /\ poller'.files = rest
      BY <1>0, <2>1 DEF Pollers
    <2>3. PollInv'
      BY <1>2, <2>1, <2>2 DEF PollInv
    <2> QED  BY <1>1, <2>2, <2>3, QuietPollerKeeps
  <1>5. CASE automation = "host" /\ DeliveryState(file) /\ poller' = [poller EXCEPT !.at = "accepted", !.file = {file}]
    <2>1. poller' \in Pollers /\ poller'.at = "accepted" /\ poller'.files = poller.files /\ poller'.file = {file}
      <3>1. {file} \in SUBSET Files
        BY <1>3
      <3> QED  BY <1>0, <1>5, <3>1 DEF Pollers
    <2>2. InTold(file.events)
      BY <1>3, <1>5 DEF PrInv, ToldInv, DeliveryState, Targets
    <2>3. PollInv'
      BY <1>2, <1>5, <2>1, <2>2 DEF PollInv, InTold
    <2> QED  BY <1>1, <2>1, <2>3, QuietPollerKeeps
  <1> QED
    BY <1>4, <1>5

\* A batch goes to its session: none of its events was told before, as the session would
\* hold the batch.
LEMMA DispatchKeeps ==
    ASSUME PrInv, UNCHANGED <<automation, github, registry, seen, queue, prTask, lock>>,
           poller.at = "flushing", automation = "host", NEW file \in poller.files, ~DeliveryState(file), Dispatch(file)
    PROVE  PrInv'
  <1>0. /\ PrTypesInv /\ prLog \in PrLogs /\ chat \in [AgentSessions -> SUBSET SUBSET Ids] /\ told \in [Ids -> 0 .. 2]
        /\ seen \subseteq Ids /\ queue \subseteq Files /\ poller \in Pollers /\ lock \in PrTasks \cup {0, 100}
    BY DEF PrInv, PrTypesInv
  <1>1. poller.files \subseteq queue /\ \A g \in queue : g.events \subseteq seen
    BY DEF PrInv, PollInv
  <1>2. file \in queue /\ file \in Files /\ file.session \in AgentSessions /\ file.events \in SUBSET Ids
    BY <1>0, <1>1, FileFacts DEF Targets
  <1>3. /\ chat' = [chat EXCEPT ![file.session] = @ \cup {file.events}] /\ Tell(file.events)
    BY DEF Dispatch
  <1>4. /\ chat' \in [AgentSessions -> SUBSET SUBSET Ids] /\ file.events \in chat'[file.session]
        /\ \A s \in AgentSessions : chat[s] \subseteq chat'[s] /\ \A events \in chat'[s] : events \in chat[s] \/ events = file.events
    BY <1>0, <1>2, <1>3
  <1>5. /\ told' \in [Ids -> 0 .. 2]
        /\ \A id \in file.events : told'[id] > 0 /\ (told[id] = 0 => told'[id] = 1)
        /\ \A id \in Ids \ file.events : told'[id] = told[id]
        /\ \A id \in Ids : told[id] > 0 => told'[id] > 0
    BY <1>0, <1>2, <1>3, ToldFacts
  <1>6. \A id \in file.events : told[id] = 0
    <2>1. \A id \in file.events : ~(told[id] > 0)
      BY <1>2 DEF PrInv, ToldInv, DeliveryState
    <2> QED  BY <1>0, <1>2, <2>1
  <1>7. /\ poller' \in Pollers /\ prLog' \in PrLogs /\ prLog'.marked = prLog.marked
        /\ \/ poller'.at = "accepted" /\ poller'.files = poller.files /\ poller'.file = {file}
           \/ poller'.at = "flushing" /\ poller'.files \subseteq poller.files
    <2>1. CASE poller' = [poller EXCEPT !.at = "accepted", !.file = {file}] /\ UNCHANGED prLog
      <3>1. {file} \in SUBSET Files
        BY <1>2
      <3> QED  BY <1>0, <2>1, <3>1 DEF Pollers
    <2>2. CASE Fault /\ poller' = [poller EXCEPT !.files = @ \ {file}]
      <3> DEFINE rest == poller.files \ {file}
      <3>1. rest \in SUBSET Files /\ rest \subseteq poller.files /\ poller' = [poller EXCEPT !.files = rest]
        BY <1>0, <2>2, PollerFields
      <3> HIDE DEF rest
      <3>2. poller' \in Pollers /\ poller'.at = "flushing" /\ poller'.files = rest
        BY <1>0, <3>1 DEF Pollers
      <3>3. prLog' \in PrLogs /\ prLog'.marked = prLog.marked
        BY <1>0, <2>2, PrLogFacts
      <3> QED  BY <3>1, <3>2, <3>3
    <2> QED  BY <2>1, <2>2 DEF Dispatch
  <1>8. PrTypesInv' /\ CallInv'
    BY <1>0, <1>4, <1>5, <1>7, PollerTypes
  <1>9. SeenLockInv'
    BY <1>7, LockAside
  <1>10. QueueInv'
    BY DEF PrInv, QueueInv, EventsOf
  <1>11. PollInv'
    <2>1. InTold(file.events)'
      BY <1>5 DEF InTold
    <2> QED  BY <1>1, <1>7, <2>1 DEF PollInv, InTold
  <1>12. ToldInv'
    <2>1. \A id \in Ids : told'[id] > 0 => id \in seen'
      BY <1>1, <1>2, <1>5 DEF PrInv, ToldInv
    <2>2. ASSUME NEW s \in AgentSessions, NEW events \in chat'[s], NEW id \in events PROVE told'[id] > 0
      <3>1. CASE events = file.events
        BY <1>5, <2>2, <3>1
      <3>2. CASE events \in chat[s]
        <4>1. events \subseteq Ids
          BY <1>0, <3>2
        <4>2. told[id] > 0
          BY <2>2, <3>2 DEF PrInv, ToldInv, InTold
        <4> QED  BY <1>5, <2>2, <4>1, <4>2
      <3> QED  BY <1>4, <3>1, <3>2
    <2>3. ASSUME NEW f \in queue', NEW id \in f.events, told'[id] > 0 PROVE f.events \in chat'[f.session]
      <3>1. CASE f = file
        BY <1>4, <3>1
      <3>2. CASE f # file
        <4>1. f \in queue /\ id \notin file.events
          BY <1>2, <2>3, <3>2 DEF PrInv, QueueInv
        <4>2. id \in Ids /\ f.session \in AgentSessions
          BY <1>0, <4>1, FileFacts DEF Targets
        <4>3. told[id] > 0
          BY <1>5, <2>3, <4>1, <4>2
        <4>4. f.events \in chat[f.session]
          BY <2>3, <4>1, <4>3 DEF PrInv, ToldInv
        <4> QED  BY <1>4, <4>2, <4>4
      <3> QED  BY <3>1, <3>2
    <2> QED  BY <2>1, <2>2, <2>3 DEF ToldInv, InTold
  <1>13. ToldOnce'
    <2>1. \A id \in Ids : told[id] <= 1
      BY <1>0 DEF PrInv, ToldOnce
    <2>2. \A id \in Ids : told'[id] <= 1
      BY <1>5, <1>6, <2>1
    <2> QED  BY <1>5, <2>2 DEF ToldOnce
  <1>14. NoneDropped'
    BY <1>0, <1>5, <1>7 DEF PrInv, NoneDropped
  <1> QED
    BY <1>8, <1>9, <1>10, <1>11, <1>12, <1>13, <1>14 DEF PrInv

\* All batches go into the idle pane at once.
LEMMA InjectKeeps ==
    ASSUME PrInv, UNCHANGED <<automation, github, registry, seen, queue, prTask, lock, chat>>,
           poller.at = "flushing", automation = "tmux", Tell(UNION {file.events : file \in poller.files}),
           \/ poller' = [poller EXCEPT !.at = "removing"] /\ UNCHANGED prLog
           \/ Fault /\ poller' = Resting
    PROVE  PrInv'
  <1>0. /\ PrTypesInv /\ prLog \in PrLogs /\ chat \in [AgentSessions -> SUBSET SUBSET Ids] /\ told \in [Ids -> 0 .. 2]
        /\ seen \subseteq Ids /\ queue \subseteq Files /\ poller \in Pollers /\ lock \in PrTasks \cup {0, 100}
    BY DEF PrInv, PrTypesInv
  <1>1. poller.files \subseteq queue /\ \A g \in queue : g.events \subseteq seen
    BY DEF PrInv, PollInv
  <1> DEFINE all == UNION {file.events : file \in poller.files}
  <1>2. all \in SUBSET Ids /\ all \subseteq seen
    BY <1>0, <1>1 DEF Files
  <1>3. \A file \in poller.files : file.events \subseteq all
    OBVIOUS
  <1>4. \A id \in all : \E g \in poller.files : id \in g.events
    OBVIOUS
  <1> HIDE DEF all
  <1>5. /\ told' \in [Ids -> 0 .. 2]
        /\ \A id \in all : told'[id] > 0 /\ (told[id] = 0 => told'[id] = 1)
        /\ \A id \in Ids \ all : told'[id] = told[id]
        /\ \A id \in Ids : told[id] > 0 => told'[id] > 0
    <2>1. Tell(all)
      BY DEF all
    <2> QED  BY <1>0, <1>2, <2>1, ToldFacts
  <1>6. /\ poller' \in Pollers /\ prLog' \in PrLogs /\ prLog'.marked = prLog.marked
        /\ \/ poller'.at = "removing" /\ poller'.files = poller.files /\ prLog' = prLog
           \/ poller'.at = "idle" /\ prLog'.faults # 0
    <2>1. CASE poller' = [poller EXCEPT !.at = "removing"] /\ UNCHANGED prLog
      BY <1>0, <2>1 DEF Pollers
    <2>2. CASE Fault /\ poller' = Resting
      BY <1>0, <2>2, PrLogFacts, RestingFacts
    <2> QED  BY <2>1, <2>2
  <1>7. prLog.faults = 0 => \A file \in queue : \A id \in file.events : told[id] = 0
    <2>1. prLog.faults = 0 => \A file \in queue : \A id \in file.events : ~(told[id] > 0)
      BY DEF PrInv, ToldInv
    <2> QED  BY <1>0, <2>1, FileFacts
  <1>8. PrTypesInv' /\ CallInv'
    BY <1>0, <1>5, <1>6, PollerTypes
  <1>9. SeenLockInv'
    BY <1>6, LockAside
  <1>10. QueueInv'
    BY DEF PrInv, QueueInv, EventsOf
  <1>11. PollInv'
    <2>1. \A file \in poller.files : InTold(file.events)'
      BY <1>3, <1>5 DEF InTold
    <2> QED  BY <1>1, <1>6, <2>1 DEF PollInv, InTold
  <1>12. ToldInv'
    <2>1. \A id \in Ids : told'[id] > 0 => id \in seen'
      BY <1>2, <1>5 DEF PrInv, ToldInv
    <2>2. ASSUME NEW s \in AgentSessions, NEW events \in chat[s], NEW id \in events PROVE told'[id] > 0
      <3>1. id \in Ids /\ told[id] > 0
        BY <1>0, <2>2 DEF PrInv, ToldInv, InTold
      <3> QED  BY <1>5, <3>1
    <2>3. ASSUME prLog'.faults = 0, NEW f \in queue, NEW id \in f.events, told'[id] > 0
          PROVE  poller'.at = "removing" /\ f \in poller'.files
      <3>1. prLog' = prLog /\ poller'.at = "removing" /\ poller'.files = poller.files
        BY <1>6, <2>3
      <3>2. told[id] = 0 /\ id \in Ids
        BY <1>0, <1>7, <2>3, <3>1, FileFacts
      <3>3. id \in all
        BY <1>5, <2>3, <3>2
      <3>4. PICK g \in poller.files : id \in g.events
        BY <1>4, <3>3
      <3>5. f = g
        BY <1>1, <2>3, <3>4 DEF PrInv, QueueInv
      <3> QED  BY <3>1, <3>4, <3>5
    <2> QED  BY <2>1, <2>2, <2>3 DEF ToldInv, InTold
  <1>13. ToldOnce'
    <2> SUFFICES ASSUME prLog'.faults = 0, NEW id \in Ids PROVE told'[id] <= 1
      BY <1>5 DEF ToldOnce
    <2>1. prLog.faults = 0
      BY <1>6
    <2>2. told[id] <= 1
      BY <1>0, <2>1 DEF PrInv, ToldOnce
    <2>3. id \in all => told[id] = 0
      BY <1>1, <1>4, <1>7, <2>1
    <2> QED  BY <1>5, <2>2, <2>3
  <1>14. NoneDropped'
    BY <1>0, <1>5, <1>6 DEF PrInv, NoneDropped
  <1> QED
    BY <1>8, <1>9, <1>10, <1>11, <1>12, <1>13, <1>14 DEF PrInv

\* What was delivered is removed.
LEMMA RemoveKeeps ==
    ASSUME PrInv, UNCHANGED <<automation, github, registry, seen, prTask, lock, chat, told, prLog>>,
           poller.at \in {"accepted", "removing"}, NEW gone \in SUBSET poller.files,
           \A file \in gone : InTold(file.events),
           queue' = queue \ gone,
           poller' \in Pollers, poller'.files = poller.files \ gone,
           \/ poller.at = "accepted" /\ poller'.at = "flushing"
           \/ poller.at = "removing" /\ poller'.at = "removing"
    PROVE  PrInv'
  <1>0. /\ PrTypesInv /\ prLog \in PrLogs /\ chat \in [AgentSessions -> SUBSET SUBSET Ids] /\ told \in [Ids -> 0 .. 2]
        /\ seen \subseteq Ids /\ queue \subseteq Files /\ poller \in Pollers /\ lock \in PrTasks \cup {0, 100}
    BY DEF PrInv, PrTypesInv
  <1>1. poller.files \subseteq queue /\ \A g \in queue : g.events \subseteq seen
    BY DEF PrInv, PollInv
  <1>2. PrTypesInv' /\ CallInv'
    BY <1>0, PollerTypes
  <1>3. SeenLockInv'
    BY LockAside
  <1>4. QueueInv'
    BY DEF PrInv, QueueInv, EventsOf
  <1>5. PollInv'
    BY <1>1 DEF PrInv, PollInv, InTold
  <1>6. ToldInv'
    BY DEF PrInv, ToldInv, PollInv, InTold
  <1>7. ToldOnce'
    BY DEF PrInv, ToldOnce
  <1>8. NoneDropped'
    BY DEF PrInv, NoneDropped, InTold
  <1> QED
    BY <1>2, <1>3, <1>4, <1>5, <1>6, <1>7, <1>8 DEF PrInv

LEMMA FlushKeeps ==
    ASSUME PrInv, Flush
    PROVE  PrInv'
  <1>0. PrTypesInv /\ prLog \in PrLogs /\ poller \in Pollers /\ poller.files \subseteq Files
    BY PollerFields DEF PrInv, PrTypesInv
  <1>u. UNCHANGED <<automation, github, registry, seen, prTask, lock>>
    BY DEF Flush
  <1>1. ASSUME poller' = Resting, UNCHANGED <<queue, chat, told, prLog>>,
               poller.at = "flushing" \/ (poller.at = "removing" /\ poller.files = {})
        PROVE  PrInv'
    <2>1. poller' \in Pollers /\ poller'.at = "idle"
      BY <1>1, RestingFacts
    <2>2. PollInv'
      BY <1>1, <2>1, CommitPolls
    <2> QED  BY <1>0, <1>1, <1>u, <2>1, <2>2, QuietPollerKeeps
  <1>2. ASSUME poller.at = "flushing", automation = "host", UNCHANGED queue, NEW file \in poller.files, QueuePrEvents(file)
        PROVE  PrInv'
    <2>1. CASE poller' = [poller EXCEPT !.files = @ \ {file}] /\ UNCHANGED <<chat, told, prLog>>
      BY <1>2, <1>u, <2>1, PassOverKeeps
    <2>2. CASE DeliveryState(file) /\ poller' = [poller EXCEPT !.at = "accepted", !.file = {file}] /\ UNCHANGED <<chat, told, prLog>>
      BY <1>2, <1>u, <2>2, PassOverKeeps
    <2>3. CASE ~DeliveryState(file) /\ Dispatch(file)
      BY <1>2, <1>u, <2>3, DispatchKeeps
    <2>4. CASE Fault /\ poller' = [poller EXCEPT !.files = @ \ {file}] /\ UNCHANGED <<chat, told>>
      BY <1>2, <1>u, <2>4, PassOverKeeps
    <2> QED  BY <1>2, <2>1, <2>2, <2>3, <2>4 DEF QueuePrEvents
  <1>3. ASSUME poller.at = "accepted", queue' = queue \ poller.file, UNCHANGED <<chat, told, prLog>>,
               poller' = [poller EXCEPT !.at = "flushing", !.files = @ \ poller.file, !.file = {}]
        PROVE  PrInv'
    <2> DEFINE rest == poller.files \ poller.file
    <2>1. poller.file \in SUBSET poller.files /\ \A file \in poller.file : InTold(file.events)
      BY <1>3 DEF PrInv, PollInv
    <2>2. rest \in SUBSET Files /\ poller' = [poller EXCEPT !.at = "flushing", !.files = rest, !.file = {}]
      BY <1>0, <1>3
    <2> HIDE DEF rest
    <2>3. poller' \in Pollers /\ poller'.at = "flushing" /\ poller'.files = rest
      BY <1>0, <2>2 DEF Pollers
    <2>4. poller'.files = poller.files \ poller.file
      BY <2>3 DEF rest
    <2> QED  BY <1>3, <1>u, <2>1, <2>3, <2>4, RemoveKeeps
  <1>4. ASSUME poller.at = "flushing", automation = "tmux", InjectIfIdle, UNCHANGED <<queue, chat>>
        PROVE  PrInv'
    <2>1. CASE poller' = Resting /\ UNCHANGED <<told, prLog>>
      BY <1>1, <1>4, <2>1
    <2>2. CASE /\ Tell(UNION {file.events : file \in poller.files})
               /\ \/ poller' = [poller EXCEPT !.at = "removing"] /\ UNCHANGED prLog
                  \/ Fault /\ poller' = Resting
      BY <1>4, <1>u, <2>2, InjectKeeps
    <2> QED  BY <1>4, <2>1, <2>2 DEF InjectIfIdle
  <1>5. ASSUME poller.at = "removing", UNCHANGED <<chat, told, prLog>>, NEW file \in poller.files,
               queue' = queue \ {file}, poller' = [poller EXCEPT !.files = @ \ {file}]
        PROVE  PrInv'
    <2> DEFINE rest == poller.files \ {file}
    <2>1. {file} \in SUBSET poller.files /\ \A g \in {file} : InTold(g.events)
      BY <1>5 DEF PrInv, PollInv
    <2>2. rest \in SUBSET Files /\ poller' = [poller EXCEPT !.files = rest]
      BY <1>0, <1>5
    <2> HIDE DEF rest
    <2>3. poller' \in Pollers /\ poller'.at = "removing" /\ poller'.files = rest
      BY <1>0, <1>5, <2>2 DEF Pollers
    <2>4. poller'.files = poller.files \ {file}
      BY <2>3 DEF rest
    <2> QED  BY <1>5, <1>u, <2>1, <2>3, <2>4, RemoveKeeps
  <1> QED
    BY <1>1, <1>2, <1>3, <1>4, <1>5 DEF Flush, FlushQueued
-----------------------------------------------------------------------------
LEMMA PrInitially ==
    ASSUME PrInit
    PROVE  PrInv
  <1>1. PrTypesInv
    <2>1. poller \in Pollers /\ prTask \in [PrTasks -> Calls]
      BY RestingFacts DEF PrInit
    <2>2. github \in [Prs -> 0 .. MaxPrEvents] /\ registry \in Registries /\ chat \in [AgentSessions -> SUBSET SUBSET Ids]
      BY PrAssumption DEF PrInit, Registries
    <2>3. told \in [Ids -> 0 .. 2] /\ prLog \in PrLogs
      BY DEF PrInit, Ids, PrLogs
    <2> QED  BY <2>1, <2>2, <2>3 DEF PrInit, PrTypesInv
  <1>2. poller.at = "idle" /\ \A t \in PrTasks : prTask[t].at = "idle"
    BY RestingFacts DEF PrInit
  <1>3. CallInv
    BY <1>2 DEF CallInv
  <1>4. SeenLockInv
    <2>1. \A u \in PrTasks : u # 0 /\ u # 100
      BY PrAssumption
    <2> QED  BY <1>2, <2>1 DEF PrInit, SeenLockInv
  <1>5. QueueInv /\ PollInv /\ NoneDropped
    BY <1>2 DEF PrInit, QueueInv, PollInv, NoneDropped
  <1>6. ToldInv /\ ToldOnce
    BY DEF PrInit, ToldInv, ToldOnce, Ids
  <1> QED
    BY <1>1, <1>3, <1>4, <1>5, <1>6 DEF PrInv

LEMMA PrStep ==
    ASSUME PrInv, [PrNext]_prVars
    PROVE  PrInv'
  <1>1. ASSUME NEW p \in Prs, GithubEvent(p) PROVE PrInv'
    BY <1>1, GithubEventKeeps
  <1>2. ASSUME NEW s \in AgentSessions, Archive(s) PROVE PrInv'
    BY <1>2, ArchiveKeeps DEF Archive
  <1>3. ASSUME NEW t \in PrTasks,
               Register(t) \/ ReadRegistry(t) \/ WriteRegistry(t) \/ MarkSeen(t) \/ Unregister(t)
                  \/ WriteUnregistered(t) \/ TakeLock(t) \/ SaveSeen(t)
        PROVE  PrInv'
    BY <1>3, RegisterKeeps, ReadRegistryKeeps, WriteRegistryKeeps, MarkSeenKeeps, UnregisterKeeps,
       TakeLockKeeps, SaveSeenKeeps
  <1>4. CASE PollOnce \/ Commit \/ Handle \/ QueueEvents \/ Flush \/ DaemonRestarts
    BY <1>4, PollOnceKeeps, CommitKeeps, HandleKeeps, QueueEventsKeeps, FlushKeeps, DaemonRestartsKeeps
  <1>5. CASE UNCHANGED prVars
    BY <1>5, ArchiveKeeps DEF prVars
  <1> QED
    BY <1>1, <1>2, <1>3, <1>4, <1>5 DEF PrNext

\* The inductive invariant of the notifications holds in every state, for any numbers of
\* pull requests, sessions, connections, events and failures.
THEOREM PrInvariant == PrSpec => []PrInv
  <1>1. PrInit => PrInv
    BY PrInitially
  <1>2. PrInv /\ [PrNext]_prVars => PrInv'
    BY PrStep
  <1> QED
    BY <1>1, <1>2, PTL DEF PrSpec

\* The files of github_pr.rs and the states of its tasks have their types, and
\* seen_transaction has one holder, the one that is saving.
THEOREM PrTypes == PrSpec => []PrTypeOK
  <1>1. PrInv => PrTypeOK
    <2> SUFFICES ASSUME PrInv PROVE PrTypeOK
      OBVIOUS
    <2>0. PrTypesInv
      BY DEF PrInv
    <2>1. Targets \subseteq Sessions
      BY DEF Targets, Sessions
    <2>2. registry \in [Prs -> Sessions \cup {"none"}] /\ seen \subseteq Prs \X (1 .. MaxPrEvents)
      BY <2>0, <2>1 DEF PrTypesInv, Registries, Ids
    <2>3. \A file \in queue : file.session \in Sessions /\ file.events # {} /\ file.events \subseteq EventsOf(file.pr)
      BY <2>0, <2>1, FileFacts DEF PrInv, QueueInv
    <2>4. poller.at \in {"idle", "committing", "saving", "polling", "viewed", "queueing", "flushing", "accepted", "removing"}
      BY <2>0 DEF PrTypesInv, Pollers
    <2>5. \A t \in PrTasks : prTask[t].at \in {"idle", "viewed", "read", "registered", "marking", "saving", "unregistering"}
      BY <2>0, CallFields DEF Calls
    <2>6. lock \in PrTasks \cup {0, 100}
      BY <2>0 DEF PrTypesInv
    <2> QED  BY <2>2, <2>3, <2>4, <2>5, <2>6 DEF PrTypeOK, PrInv, SeenLockInv
  <1> QED
    BY <1>1, PrInvariant, PTL

\* An agent is told an event once: through the Agent Host whatever fails and whenever the
\* daemon stops, through tmux as long as nothing fails.
THEOREM EventsAreToldOnce == PrSpec => []ToldOnce
  <1>1. PrInv => ToldOnce
    BY DEF PrInv
  <1> QED
    BY <1>1, PrInvariant, PTL

\* No event is dropped: one that counts as seen was there at the registration, waits in
\* the queue, or was told.
THEOREM NoEventIsDropped == PrSpec => []NoneDropped
  <1>1. PrInv => NoneDropped
    BY DEF PrInv
  <1> QED
    BY <1>1, PrInvariant, PTL

\* Both together: every event that counts reaches the agent once.
THEOREM EveryEventIsToldOnce == PrSpec => []EventsToldOnce
  <1>1. ToldOnce /\ NoneDropped => EventsToldOnce
    BY DEF EventsToldOnce
  <1> QED
    BY EventsAreToldOnce, NoEventIsDropped, <1>1, PTL
=============================================================================
