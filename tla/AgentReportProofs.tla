------------------------- MODULE AgentReportProofs -------------------------
(***************************************************************************)
(* What the agent document reports is true, for every number of replicas,  *)
(* templates, failures, crashes and sessions: ReportsTrue of               *)
(* AgentController, and BaseMatchesTemplate of a server that never crashes.*)
(*                                                                         *)
(* The report is derived from the documents of the instances, so the       *)
(* question is why those may be believed.  ReportInv says it, on top of    *)
(* AgentInv: an observed generation is one its instance has reached (Firm),*)
(* also in a file that a restart will load; after every turn an instance   *)
(* that is not being cleaned up carries the desired state of the agent     *)
(* (Current); the published document follows from the instances of this    *)
(* very state (Published); and a stopped instance is dark unless its start *)
(* is under way (Dark).                                                    *)
(***************************************************************************)
EXTENDS AgentProofs

\* What an instance document g says holds under the agent document d.  A generation is
\* observed only of an instance that has reached its target, and an instance runs in the
\* current generation only on a base that this generation names.
Firm(g, d) ==
    /\ g.gen <= d.gen /\ g.observed <= g.gen
    /\ g.observed = g.gen =>
         /\ g.phase \notin CleanupPhases /\ g.target # "Deleting"
         /\ g.target = "Inactive" => g.phase = "Stopped"
    /\ g.gen = d.gen =>
         /\ g.observed = g.gen /\ g.target = "Active" => d.baseDesired # None
         /\ g.phase = "Running" /\ g.recon = "ok" => d.baseDesired # None

\* A task's result will be firm too.
FirmTask(t, d) ==
    /\ t.kind \in {"start", "reconcile"} => t.gen <= d.gen /\ (t.gen = d.gen => d.baseDesired # None)
    /\ t.kind = "create" => 0 < t.gen /\ t.gen <= d.gen

\* A cell and what its tasks will make of it.
FirmCell(c, d) ==
    /\ IsRunning(c) =>
         /\ Firm(c.doc, d)
         /\ c.doc.observed = c.doc.gen /\ c.doc.target = "Inactive" => c.work = {}
    /\ \A t \in c.tasks : FirmTask(t, d)

\* The instance carries the desired state of the agent.
Projected(c, d, i) ==
    IsRunning(c) /\ c.doc.phase \notin CleanupPhases =>
      /\ c.doc.gen = d.gen /\ c.doc.target = TargetFor(d, i)
      /\ c.doc.mtmpl = d.tmpl /\ c.doc.mbase = ProjectedBase(c.doc, d)

\* What a turn leaves: nothing but cleanup in an agent that is being deleted.
Current(c, d, i) ==
    Projected(c, d, i) /\ (IsRunning(c) /\ d.del => c.doc.phase \in CleanupPhases)

\* While nothing fails: a VM under a stopped instance is one that is being started.
Dark(c, up) ==
    /\ \A t \in c.tasks :
         /\ t.res \notin {"err", "expired"}
         /\ t.res = "stopped" => t.kind = "reconcile" /\ ~up
         /\ t.kind = "stop" /\ t.res = "ok" => ~up
    /\ up /\ IsRunning(c) /\ c.doc.phase = "Stopped" => \E t \in c.tasks : t.kind = "start"

\* Without crashes: the base of an instance is the one of its template.
Matched(c) ==
    /\ IsRunning(c) => c.doc.mbase = c.doc.mtmpl
    /\ \A t \in c.tasks : t.kind = "create" => t.base = t.tmpl

\* A base that is ready or asked for has a key.
Keyed(b, tasks) ==
    /\ b.st = "Ready" => b.key # None
    /\ \A t \in tasks : t.kind # "stop" => t.key # None

\* Without crashes: a base is ready for the template of the document, unless the agent
\* is being deleted, and is built for the template of its generation.
BaseMatched(d, b, tasks) ==
    /\ b.st = "Ready" /\ ~d.del => b.key = d.tmpl
    /\ \A t \in tasks : t.kind # "stop" => t.gen <= d.gen /\ (t.gen = d.gen => t.key = d.tmpl)

\* The two ways an agent that is not deleted has converged.
AllStopped(d, cells) ==
    /\ Inactive(d) /\ InstancesObserved(d, cells)
    /\ \A i \in RunningIds(cells) : cells[i].doc.phase \notin CleanupPhases
AllUp(d, cells) ==
    /\ ~d.paused /\ InstancesObserved(d, cells)
    /\ Cardinality({i \in RunningIds(cells) : cells[i].doc.phase = "Running"}) = d.replicas
    /\ d.baseReady = d.baseDesired

Published(d, cells) == ~d.reconciling /\ ~d.del => AllStopped(d, cells) \/ AllUp(d, cells)

\* The instance documents on disk, for the loop that runs and for one that loads them.
FilesInv ==
    \A i \in Ids : \A g \in file[i].doc :
      /\ mode = "Running" => Firm(g, doc)
      /\ \A e \in disk.doc : Firm(g, e)

ReportInv ==
    /\ failures \in Nat
    /\ Keyed(base, baseTasks)
    /\ FilesInv
    /\ \A i \in Ids : FirmCell(inst[i], doc)
    /\ mode = "Running" => Published(doc, inst) /\ \A i \in Ids : Current(inst[i], doc, i)
    /\ crashes = 0 => BaseMatched(doc, base, baseTasks) /\ \A i \in Ids : Matched(inst[i])
    /\ crashes = 0 /\ failures = 0 => \A i \in Ids : Dark(inst[i], vm[i])

-----------------------------------------------------------------------------
(* The agent document. *)

\* What an input may make of the agent document: a new generation, or one that still
\* names a base.
Later(d, e) ==
    e.gen > d.gen \/ (e.gen = d.gen /\ (d.baseDesired # None => e.baseDesired # None))

\* What is firm stays so under a later document.
LEMMA LaterFirm ==
    ASSUME NEW d \in Docs, NEW e \in Docs, Later(d, e)
    PROVE /\ \A g \in InstanceDocs : Firm(g, d) => Firm(g, e)
          /\ \A c \in Cells : FirmCell(c, d) => FirmCell(c, e)
<1>1. d.gen \in Nat /\ e.gen \in Nat BY DEF Docs, AgentDocs
<1>2. ASSUME NEW g \in InstanceDocs, Firm(g, d) PROVE Firm(g, e)
    <2>1. g.gen \in Nat /\ g.observed \in Nat BY DEF InstanceDocs
    <2> QED BY <1>1, <1>2, <2>1 DEF Later, Firm
<1>3. ASSUME NEW t \in Tasks, FirmTask(t, d) PROVE FirmTask(t, e)
    <2>1. t.gen \in Nat BY DEF Tasks
    <2> QED BY <1>1, <1>3, <2>1 DEF Later, FirmTask
<1>4. ASSUME NEW c \in Cells, FirmCell(c, d) PROVE FirmCell(c, e)
    <2>1. c.doc \in InstanceDocs /\ c.tasks \subseteq Tasks BY DEF Cells
    <2> QED BY <1>2, <1>3, <1>4, <2>1 DEF FirmCell
<1> QED BY <1>2, <1>4

\* What decides whether the base, the cells and the report fit a document.
Spine(d) ==
    [gen |-> d.gen, del |-> d.del, tmpl |-> d.tmpl, replicas |-> d.replicas, paused |-> d.paused,
     baseDesired |-> d.baseDesired, baseReady |-> d.baseReady]

\* AgentDocuments::write leaves metadata, spec and the keys of the base alone.
LEMMA WriteSpine ==
    ASSUME NEW d \in Docs, NEW b, NEW cells PROVE Spine(Write(d, b, cells)) = Spine(d)
BY DEF Docs, AgentDocs, Write, Spine

\* Documents with the same spine agree on what is compared with instances.
LEMMA SpineFacts ==
    ASSUME NEW d, NEW e, Spine(d) = Spine(e)
    PROVE /\ d.gen = e.gen /\ d.del = e.del /\ d.tmpl = e.tmpl /\ d.replicas = e.replicas
          /\ d.paused = e.paused /\ d.baseDesired = e.baseDesired /\ d.baseReady = e.baseReady
          /\ \A c : FirmCell(c, d) <=> FirmCell(c, e)
          /\ \A g : Firm(g, d) <=> Firm(g, e)
          /\ \A c, i : Current(c, d, i) <=> Current(c, e, i)
          /\ \A b, tasks : BaseMatched(d, b, tasks) <=> BaseMatched(e, b, tasks)
<1>1. /\ Spine(d).gen = Spine(e).gen /\ Spine(d).del = Spine(e).del /\ Spine(d).tmpl = Spine(e).tmpl
      /\ Spine(d).replicas = Spine(e).replicas /\ Spine(d).paused = Spine(e).paused
      /\ Spine(d).baseDesired = Spine(e).baseDesired /\ Spine(d).baseReady = Spine(e).baseReady
    OBVIOUS
<1>2. /\ d.gen = e.gen /\ d.del = e.del /\ d.tmpl = e.tmpl /\ d.replicas = e.replicas
      /\ d.paused = e.paused /\ d.baseDesired = e.baseDesired /\ d.baseReady = e.baseReady
    BY <1>1 DEF Spine
<1>3. \A g : Firm(g, d) <=> Firm(g, e) BY <1>2 DEF Firm
<1>4. \A t : FirmTask(t, d) <=> FirmTask(t, e) BY <1>2 DEF FirmTask
<1>5. \A c : FirmCell(c, d) <=> FirmCell(c, e) BY <1>3, <1>4 DEF FirmCell
<1>6. \A i : TargetFor(d, i) = TargetFor(e, i) BY <1>2 DEF TargetFor
<1>7. \A g : ProjectedBase(g, d) = ProjectedBase(g, e) BY <1>2 DEF ProjectedBase
<1>8. \A c, i : Current(c, d, i) <=> Current(c, e, i) BY <1>2, <1>6, <1>7 DEF Current, Projected
<1>9. \A b, tasks : BaseMatched(d, b, tasks) <=> BaseMatched(e, b, tasks) BY <1>2 DEF BaseMatched
<1> QED BY <1>2, <1>3, <1>5, <1>8, <1>9

\* The document that a turn derives is published for the very cells of that turn.
LEMMA WritePublishes ==
    ASSUME NEW d \in Docs, NEW b, NEW cells PROVE Published(Write(d, b, cells), cells)
<1> DEFINE up == {i \in RunningIds(cells) : cells[i].doc.phase = "Running"}
           cleaning == {i \in RunningIds(cells) : cells[i].doc.phase \in CleanupPhases}
           gone == Deleted(d, b, cells)
           inactiveConverged == Inactive(d) /\ up = {} /\ cleaning = {} /\ InstancesObserved(d, cells)
           runningConverged == /\ ~d.del /\ ~d.paused
                               /\ Cardinality(up) = d.replicas
                               /\ d.baseReady = d.baseDesired
                               /\ InstancesObserved(d, cells)
           seen == gone \/ inactiveConverged \/ runningConverged
           e == Write(d, b, cells)
<1>1. e.reconciling = ~seen BY DEF Docs, AgentDocs, Write
<1>2. Spine(e) = Spine(d) BY WriteSpine
<1>3. /\ e.gen = d.gen /\ e.del = d.del /\ e.replicas = d.replicas /\ e.paused = d.paused
      /\ e.baseDesired = d.baseDesired /\ e.baseReady = d.baseReady
    BY <1>2, SpineFacts
<1>4. InstancesObserved(e, cells) <=> InstancesObserved(d, cells) BY <1>3 DEF InstancesObserved
<1>5. Inactive(e) <=> Inactive(d) BY <1>3 DEF Inactive
<1>6. gone => d.del BY DEF Deleted
<1>7. inactiveConverged => AllStopped(e, cells) BY <1>4, <1>5 DEF AllStopped
<1>8. runningConverged => AllUp(e, cells) BY <1>3, <1>4 DEF AllUp
<1> HIDE DEF gone, inactiveConverged, runningConverged, e
<1>9. ~e.reconciling /\ ~e.del => AllStopped(e, cells) \/ AllUp(e, cells)
    BY <1>1, <1>3, <1>6, <1>7, <1>8, Zenon
<1> QED BY <1>9 DEF Published, e

\* A command keeps the document or starts a generation.
LEMMA CommandsLater ==
    ASSUME NEW d \in Docs
    PROVE /\ \A n : SetReplicas(d, n) = d
                    \/ /\ SetReplicas(d, n).gen = d.gen + 1 /\ SetReplicas(d, n).tmpl = d.tmpl
                       /\ SetReplicas(d, n).del = d.del
          /\ \/ MarkDeletionRequested(d) = d
             \/ MarkDeletionRequested(d).gen = d.gen + 1 /\ MarkDeletionRequested(d).del
          /\ \A m : \/ FromManifestAfterExisting(m, d) = d
                    \/ FromManifestAfterExisting(m, d).gen = d.gen + 1
<1> DEFINE next == d.gen + 1
<1>1. ASSUME NEW n, SetReplicas(d, n) # d
      PROVE /\ SetReplicas(d, n).gen = next /\ SetReplicas(d, n).tmpl = d.tmpl
            /\ SetReplicas(d, n).del = d.del
    <2>1. SetReplicas(d, n) = [d EXCEPT !.replicas = n, !.gen = next] BY <1>1 DEF SetReplicas
    <2> HIDE DEF next
    <2> QED BY <2>1 DEF Docs, AgentDocs
<1>2. ASSUME MarkDeletionRequested(d) # d
      PROVE MarkDeletionRequested(d).gen = next /\ MarkDeletionRequested(d).del
    <2>1. MarkDeletionRequested(d) = [d EXCEPT !.del = TRUE, !.gen = next] BY <1>2 DEF MarkDeletionRequested
    <2> HIDE DEF next
    <2> QED BY <2>1 DEF Docs, AgentDocs
<1>3. ASSUME NEW m, FromManifestAfterExisting(m, d) # d
      PROVE FromManifestAfterExisting(m, d).gen = next
    <2> DEFINE new == FromManifest(m)
               keep == d.tmpl = m.tmpl
               desired == IF keep THEN d.baseDesired ELSE None
               ready == IF keep THEN d.baseReady ELSE None
               phase == IF keep THEN d.basePhase ELSE "Missing"
               x == [new EXCEPT !.gen = next, !.observed = d.observed, !.active = d.active,
                                !.ready = d.ready, !.instances = d.instances,
                                !.baseDesired = desired, !.baseReady = ready, !.basePhase = phase]
    <2>1. FromManifestAfterExisting(m, d) = RefreshStatusProjection(x, FALSE)
        BY <1>3 DEF FromManifestAfterExisting
    <2>2. x.gen = next
        <3> HIDE DEF next, desired, ready, phase
        <3> QED BY DEF FromManifest
    <2>3. DOMAIN x = DOMAIN FromManifest(m) /\ "gen" \in DOMAIN FromManifest(m) BY DEF FromManifest
    <2> HIDE DEF x, next
    <2> QED BY <2>1, <2>2, <2>3 DEF RefreshStatusProjection
<1> QED BY <1>1, <1>2, <1>3

-----------------------------------------------------------------------------
(* What a turn makes of a cell. *)

\* A task spawned under the document d and the base b: instances are created, started
\* and adopted only on a base that is ready for the document.
SpawnedFor(t, d, b) ==
    /\ t.kind \in {"start", "reconcile"} => BaseReadyForDocument(d, b) /\ t.gen = d.gen
    /\ t.kind = "create" =>
         /\ BaseReadyForDocument(d, b) /\ ~d.del
         /\ t.gen = d.gen /\ t.tmpl = d.tmpl /\ t.base = d.baseReady

\* A turn under d and b, once it has projected the desired state, has made e of c.
Turned(c, e, d, b, i) ==
    /\ IsRunning(e) =>
         /\ Firm(e.doc, d)
         /\ e.doc.observed = e.doc.gen /\ e.doc.target = "Inactive" => e.work = {}
         /\ e.doc.mbase = c.doc.mbase /\ e.doc.phase \in {c.doc.phase, "Deleting"}
    /\ Projected(e, d, i)
    /\ \A t \in e.tasks \ c.tasks : SpawnedFor(t, d, b)

\* A pass over x that keeps its document, but for what says that work is under way, and
\* starts the task t.
LEMMA TurnedOn ==
    ASSUME NEW c, NEW x, NEW e, NEW d, NEW b, NEW i, Turned(c, x, d, b, i), e.st = x.st,
           NEW t, e.tasks = x.tasks \cup {t}, SpawnedFor(t, d, b),
           IsRunning(x) =>
             /\ e.doc.gen = x.doc.gen /\ e.doc.target = x.doc.target /\ e.doc.observed = x.doc.observed
             /\ e.doc.phase = x.doc.phase /\ e.doc.recon = x.doc.recon /\ e.doc.base = x.doc.base
             /\ e.doc.mbase = x.doc.mbase /\ e.doc.mtmpl = x.doc.mtmpl,
           e.work = x.work \/ x.doc.target # "Inactive" \/ x.doc.observed # x.doc.gen
    PROVE Turned(c, e, d, b, i)
<1>1. IsRunning(e) <=> IsRunning(x) BY DEF IsRunning
<1>2. CASE ~IsRunning(x) BY <1>1, <1>2 DEF Turned, Projected
<1>3. CASE IsRunning(x)
    <2>1. Firm(e.doc, d) BY <1>3 DEF Turned, Firm
    <2>2. ProjectedBase(e.doc, d) = ProjectedBase(x.doc, d) BY <1>3 DEF ProjectedBase
    <2>3. Projected(e, d, i) BY <1>1, <1>3, <2>2 DEF Turned, Projected
    <2> QED BY <1>1, <1>3, <2>1, <2>3 DEF Turned
<1> QED BY <1>2, <1>3

\* The document fields that decide whether a document is firm, kept by a change of others.
LEMMA AdmittedDoc ==
    ASSUME NEW c, CellInv(c), NEW work, NEW kind
    PROVE LET e == AdmitInstanceWork(c, work, kind)
          IN  /\ e.st = c.st /\ e.tasks = c.tasks \cup {Task(c, kind, c.doc.gen)}
              /\ e.doc.gen = c.doc.gen /\ e.doc.target = c.doc.target
              /\ e.doc.observed = c.doc.observed /\ e.doc.phase = c.doc.phase
              /\ e.doc.recon = c.doc.recon /\ e.doc.base = c.doc.base
              /\ e.doc.mbase = c.doc.mbase /\ e.doc.mtmpl = c.doc.mtmpl
<1> DEFINE t == Task(c, kind, c.doc.gen)
           w == {[id |-> t.id, kind |-> work, gen |-> t.gen]}
           n == Cardinality(c.session)
           x == [c EXCEPT !.work = w, !.tasks = @ \cup {t}]
<1>1. c \in Cells /\ c.doc \in InstanceDocs BY DEF CellInv, Cells
<1>2. OwnWork(c, work, kind) = x BY DEF OwnWork
<1>3. AdmitInstanceWork(c, work, kind) = [x EXCEPT !.doc.busy = TRUE, !.doc.sessions = n]
    BY <1>2 DEF AdmitInstanceWork
<1> HIDE DEF t, w, n
<1>4. x.st = c.st /\ x.doc = c.doc /\ x.tasks = c.tasks \cup {t} /\ DOMAIN x = DOMAIN c
    BY <1>1 DEF Cells
<1> DEFINE g == [c.doc EXCEPT !.busy = TRUE, !.sessions = n]
           e == [x EXCEPT !.doc = g]
<1>5. /\ g.gen = c.doc.gen /\ g.target = c.doc.target /\ g.observed = c.doc.observed
      /\ g.phase = c.doc.phase /\ g.recon = c.doc.recon /\ g.base = c.doc.base
      /\ g.mbase = c.doc.mbase /\ g.mtmpl = c.doc.mtmpl
    BY <1>1 DEF InstanceDocs
<1>6. AdmitInstanceWork(c, work, kind) = e BY <1>3, <1>4
<1> HIDE DEF g
<1>7. e.st = c.st /\ e.doc = g /\ e.tasks = c.tasks \cup {t} BY <1>1 DEF Cells
<1> QED BY <1>5, <1>6, <1>7 DEF t

\* A task spawned for the document of its cell, of a kind that needs no base.
LEMMA PlainTask ==
    ASSUME NEW c, CellInv(c), NEW kind \in TaskKinds \ {"start", "reconcile", "create"},
           NEW gen \in Nat, NEW d, NEW b
    PROVE SpawnedFor(Task(c, kind, gen), d, b)
<1>1. Task(c, kind, gen).kind = kind BY TaskFacts DEF CellInv
<1> QED BY <1>1 DEF SpawnedFor

\* refresh_observed_generation: a generation is marked observed of an instance that has
\* reached its target, without work left.
LEMMA RefreshTurned ==
    ASSUME NEW c, NEW x, CellInv(x), IsRunning(x), NEW d, NEW b, NEW i, Turned(c, x, d, b, i)
    PROVE /\ Turned(c, RefreshObservedGeneration(x), d, b, i)
          /\ RefreshObservedGeneration(x).doc.phase = x.doc.phase
<1> DEFINE gen == x.doc.gen
           g == [x.doc EXCEPT !.observed = gen]
           e == [x EXCEPT !.doc = g]
<1>1. x \in Cells /\ x.doc \in InstanceDocs BY DEF CellInv, Cells
<1>2. CASE ~(x.work = {} /\ Converged(x.doc))
    BY <1>2 DEF RefreshObservedGeneration
<1>3. CASE x.work = {} /\ Converged(x.doc)
    <2>1. RefreshObservedGeneration(x) = e BY <1>3 DEF RefreshObservedGeneration
    <2> HIDE DEF gen
    <2>2. /\ g.gen = x.doc.gen /\ g.target = x.doc.target /\ g.observed = gen
          /\ g.phase = x.doc.phase /\ g.recon = x.doc.recon /\ g.base = x.doc.base
          /\ g.mbase = x.doc.mbase /\ g.mtmpl = x.doc.mtmpl
        BY <1>1 DEF InstanceDocs
    <2> HIDE DEF g
    <2>3. e.st = x.st /\ e.doc = g /\ e.tasks = x.tasks /\ e.work = x.work BY <1>1 DEF Cells
    <2> HIDE DEF e
    <2>4. /\ x.doc.target = "Inactive" => x.doc.phase = "Stopped"
          /\ x.doc.target = "Active" => x.doc.phase = "Running" /\ x.doc.recon = "ok"
          /\ x.doc.target # "Deleting" /\ x.doc.phase \in {"Running", "Stopped"}
        BY <1>3 DEF Converged
    <2>5. g.gen \in Nat BY <1>1, <2>2 DEF InstanceDocs
    <2>6. Firm(g, d) BY <2>2, <2>4, <2>5 DEF Turned, Firm, CleanupPhases, gen
    <2>7. ProjectedBase(g, d) = ProjectedBase(x.doc, d) BY <2>2 DEF ProjectedBase
    <2>8. Projected(e, d, i) BY <2>2, <2>3, <2>7 DEF Turned, Projected, IsRunning
    <2>9. Turned(c, e, d, b, i) BY <1>3, <2>2, <2>3, <2>6, <2>8 DEF Turned, IsRunning
    <2> QED BY <2>1, <2>2, <2>3, <2>9
<1> QED BY <1>2, <1>3

\* A step back of the observed generation makes it an earlier one.
LEMMA SteppedBack ==
    ASSUME NEW observed \in Nat, NEW gen \in Nat, gen > 0
    PROVE StepBack(observed, gen) \in Nat /\ StepBack(observed, gen) < gen
BY DEF StepBack

\* project_instance_desired_state.
LEMMA ProjectTurned ==
    ASSUME NEW c, CellInv(c), NEW d \in Docs, NEW b, NEW i \in Ids, FirmCell(c, d)
    PROVE Turned(c, Project(c, d, i), d, b, i)
<1>1. CASE ~IsRunning(c) BY <1>1 DEF Project, Turned, Projected
<1>2. CASE IsRunning(c)
    <2> DEFINE doc0 == c.doc
               base0 == ProjectedBase(doc0, d)
               target == TargetFor(d, i)
               genChanged == doc0.gen # d.gen
               desiredChanged == genChanged \/ doc0.base # base0 \/ doc0.tmpl # d.tmpl \/ doc0.target # target
               enteringCleanup == (doc0.mbase # base0 \/ doc0.mtmpl # d.tmpl) /\ doc0.phase # "Deleting"
               repair == IF desiredChanged THEN "Idle" ELSE c.repair
               files == c.files /\ ~genChanged
               hostReady == IF genChanged THEN 0 ELSE doc0.hostReady
               phase == IF enteringCleanup THEN "Deleting" ELSE doc0.phase
               observed == StepBack(doc0.observed, d.gen)
               g == [doc0 EXCEPT
                    !.gen = d.gen, !.base = base0, !.tmpl = d.tmpl, !.target = target,
                    !.hostReady = hostReady, !.phase = phase, !.ready = FALSE, !.recon = "none",
                    !.observed = observed]
               q == [c EXCEPT !.repair = repair, !.files = files, !.doc = g]
               p == ProjectInstanceDesiredState(c, d, i)
    <2>1. c \in Cells /\ c.doc \in InstanceDocs BY DEF CellInv, Cells
    <2>2. d.gen \in Nat /\ d.gen > 0 BY DEF Docs, AgentDocs
    <2>3. CellInv(p) BY <1>2, ProjectInstanceGoes
    <2>4. Turned(c, p, d, b, i)
        <3>1. CASE doc0.phase = "Deleted" \/ ~(desiredChanged \/ enteringCleanup)
            <4>1. p = c BY <3>1 DEF ProjectInstanceDesiredState
            <4>2. doc0.phase \in CleanupPhases \/
                    /\ doc0.gen = d.gen /\ doc0.target = target
                    /\ doc0.mtmpl = d.tmpl /\ doc0.mbase = base0
                BY <3>1 DEF CleanupPhases
            <4>3. Projected(c, d, i) BY <4>2 DEF Projected
            <4> QED BY <4>1, <4>3 DEF Turned, FirmCell
        <3>2. CASE doc0.phase # "Deleted" /\ (desiredChanged \/ enteringCleanup)
            <4>1. p = q BY <3>2 DEF ProjectInstanceDesiredState
            <4>2. doc0.observed \in Nat BY <2>1 DEF InstanceDocs
            <4>3. observed \in Nat /\ observed < d.gen BY <2>2, <4>2, SteppedBack
            <4>4. /\ phase \in {doc0.phase, "Deleting"}
                  /\ phase \notin CleanupPhases => doc0.mtmpl = d.tmpl /\ doc0.mbase = base0
                BY DEF CleanupPhases
            <4>5. target = TargetFor(d, i) /\ base0 = ProjectedBase(doc0, d) OBVIOUS
            <4> HIDE DEF observed, phase, hostReady, target, base0, repair, files
            <4>6. /\ g.gen = d.gen /\ g.target = target /\ g.observed = observed /\ g.phase = phase
                  /\ g.recon = "none" /\ g.base = base0 /\ g.mbase = doc0.mbase /\ g.mtmpl = doc0.mtmpl
                BY <2>1 DEF InstanceDocs
            <4> HIDE DEF g
            <4>7. q.st = c.st /\ q.doc = g /\ q.tasks = c.tasks /\ q.work = c.work BY <2>1 DEF Cells
            <4>8. Firm(g, d) BY <2>2, <4>3, <4>6 DEF Firm
            <4>9. ProjectedBase(g, d) = base0 BY <4>5, <4>6 DEF ProjectedBase
            <4> HIDE DEF q
            <4>10. Projected(q, d, i) BY <4>4, <4>5, <4>6, <4>7, <4>9 DEF Projected
            <4>11. Turned(c, q, d, b, i)
                BY <1>2, <2>2, <4>3, <4>4, <4>6, <4>7, <4>8, <4>10 DEF Turned
            <4> QED BY <4>1, <4>11
        <3> QED BY <3>1, <3>2
    <2>5. IsRunning(p)
        BY <1>2, <2>1 DEF ProjectInstanceDesiredState, IsRunning, Cells
    <2>6. Project(c, d, i) = RefreshObservedGeneration(p) BY <1>2 DEF Project
    <2> HIDE DEF p
    <2> QED BY <2>3, <2>4, <2>5, <2>6, RefreshTurned
<1> QED BY <1>1, <1>2

\* Work that reconcile_instance admits is started with the document unchanged.
LEMMA AdmitTurned ==
    ASSUME NEW c, NEW x, CellInv(x), NEW y, CellInv(y), IsRunning(x), y.st = x.st, y.doc = x.doc,
           y.tasks = x.tasks, NEW d, NEW b, NEW i, Turned(c, x, d, b, i),
           NEW work, NEW kind \in TaskKinds \ {"create"},
           kind \in {"start", "reconcile"} => BaseReadyForDocument(d, b) /\ x.doc.gen = d.gen,
           x.doc.target # "Inactive" \/ x.doc.observed # x.doc.gen
    PROVE LET e == AdmitInstanceWork(y, work, kind)
          IN  Turned(c, e, d, b, i) /\ e.doc.phase = x.doc.phase
<1> DEFINE e == AdmitInstanceWork(y, work, kind)
           t == Task(y, kind, y.doc.gen)
<1>1. y \in Cells /\ LedgerInv(y) /\ y.doc.gen \in Nat BY DEF CellInv, Cells, InstanceDocs
<1>2. t.kind = kind /\ t.gen = y.doc.gen BY <1>1, TaskFacts
<1>3. /\ e.st = y.st /\ e.tasks = y.tasks \cup {t}
      /\ e.doc.gen = y.doc.gen /\ e.doc.target = y.doc.target
      /\ e.doc.observed = y.doc.observed /\ e.doc.phase = y.doc.phase
      /\ e.doc.recon = y.doc.recon /\ e.doc.base = y.doc.base
      /\ e.doc.mbase = y.doc.mbase /\ e.doc.mtmpl = y.doc.mtmpl
    BY AdmittedDoc
<1> HIDE DEF e, t
<1>4. SpawnedFor(t, d, b) BY <1>2 DEF SpawnedFor
<1>5. Turned(c, e, d, b, i) BY <1>3, <1>4, TurnedOn
<1> QED BY <1>3, <1>5 DEF e

\* reconcile_instance.
LEMMA ReconcileTurned ==
    ASSUME NEW c, NEW x, CellInv(x), NEW d, NEW b, NEW i, Turned(c, x, d, b, i),
           NEW e \in ReconcileInstance(x),
           IsRunning(x) /\ x.doc.target = "Active" /\ x.doc.phase \notin CleanupPhases
             => BaseReadyForDocument(d, b)
    PROVE Turned(c, e, d, b, i) /\ (IsRunning(e) => e.doc.phase = x.doc.phase)
<1>1. CASE e = x BY <1>1
<1>2. CASE e # x
    <2>1. IsRunning(x) /\ ~BlocksInstanceTransition(x) BY <1>2 DEF ReconcileInstance
    <2>2. x \in Cells /\ LedgerInv(x) /\ x.doc.gen \in Nat /\ x.doc.target \in Targets
        BY DEF CellInv, Cells, InstanceDocs
    <2>3. Firm(x.doc, d) /\ Projected(x, d, i) BY <2>1 DEF Turned
    <2>4. ASSUME NEW work, NEW kind \in TaskKinds \ {"create"}, e = AdmitInstanceWork(x, work, kind),
                 kind \in {"start", "reconcile"} => BaseReadyForDocument(d, b) /\ x.doc.gen = d.gen,
                 x.doc.target # "Inactive" \/ x.doc.observed # x.doc.gen
          PROVE Turned(c, e, d, b, i) /\ e.doc.phase = x.doc.phase
        BY <2>1, <2>4, AdmitTurned
    <2>5. CASE x.doc.phase \in CleanupPhases \/ x.doc.target = "Deleting"
        <3>0. e \in ReconcileDeletingInstance(x) BY <2>1, <2>5 DEF ReconcileInstance
        <3>1. CASE x.doc.phase = "Deleting"
            <4>1. e = AdmitInstanceWork(x, "Deleting", "stopForDelete")
                BY <1>2, <3>0, <3>1 DEF ReconcileDeletingInstance
            <4>2. x.doc.observed # x.doc.gen BY <2>3, <3>1 DEF Firm, CleanupPhases
            <4> QED BY <2>4, <4>1, <4>2 DEF TaskKinds
        <3>2. CASE x.doc.phase # "Deleting"
            <4> DEFINE t == Task(x, "removeFiles", x.doc.gen)
                       w == {[id |-> t.id, kind |-> "Deleting", gen |-> t.gen]}
            <4>1. e = [x EXCEPT !.work = w, !.tasks = @ \cup {t}]
                BY <1>2, <3>0, <3>2 DEF ReconcileDeletingInstance, OwnWork
            <4>2. SpawnedFor(t, d, b) BY <2>2, PlainTask DEF TaskKinds
            <4> HIDE DEF t, w
            <4>3. e.st = x.st /\ e.doc = x.doc /\ e.tasks = x.tasks \cup {t} BY <2>2, <4>1 DEF Cells
            <4>4. x.doc.observed # x.doc.gen BY <2>3, <2>5 DEF Firm
            <4> QED BY <4>2, <4>3, <4>4, TurnedOn
        <3> QED BY <3>1, <3>2
    <2>6. CASE x.doc.phase \notin CleanupPhases /\ x.doc.target = "Active"
        <3>1. e \in ReconcileActiveInstance(x) BY <2>1, <2>6 DEF ReconcileInstance
        <3>2. x.doc.gen = d.gen BY <2>1, <2>3, <2>6 DEF Projected
        <3> DEFINE y == [x EXCEPT !.repair = "Backoff"]
        <3>3. \/ e = AdmitInstanceWork(y, "Repairing", "reconcile")
              \/ \E work : \E kind \in {"reconcile", "start", "bootstrap", "tailscale"} :
                   e = AdmitInstanceWork(x, work, kind)
            BY <1>2, <3>1 DEF ReconcileActiveInstance
        <3>4. CASE e = AdmitInstanceWork(y, "Repairing", "reconcile")
            <4>1. /\ y \in Cells /\ y.st = x.st /\ y.doc = x.doc /\ y.tasks = x.tasks
                  /\ y.saved = x.saved /\ y.work = x.work /\ y.secrets = x.secrets
                  /\ y.host = x.host /\ y.session = x.session
                BY <2>2 DEF Cells
            <4> HIDE DEF y
            <4>2. CellInv(y)
                BY <4>1 DEF CellInv, LedgerInv, SlotInv, CleanupInv, IsRunning
            <4> QED BY <2>1, <2>6, <3>2, <3>4, <4>1, <4>2, AdmitTurned DEF TaskKinds
        <3>5. CASE \E work : \E kind \in {"reconcile", "start", "bootstrap", "tailscale"} :
                     e = AdmitInstanceWork(x, work, kind)
            <4>1. PICK work : \E kind \in {"reconcile", "start", "bootstrap", "tailscale"} :
                                e = AdmitInstanceWork(x, work, kind)
                BY <3>5
            <4>2. PICK kind \in {"reconcile", "start", "bootstrap", "tailscale"} :
                         e = AdmitInstanceWork(x, work, kind)
                BY <4>1
            <4> QED BY <2>1, <2>4, <2>6, <3>2, <4>2 DEF TaskKinds
        <3> QED BY <3>3, <3>4, <3>5
    <2>7. CASE x.doc.phase \notin CleanupPhases /\ x.doc.target = "Inactive"
        <3>1. e \in ReconcileInactiveInstance(x) BY <2>1, <2>7 DEF ReconcileInstance
        <3>2. CASE x.doc.phase = "Stopped"
            <4>1. e = RefreshObservedGeneration(x) BY <3>1, <3>2 DEF ReconcileInactiveInstance
            <4> QED BY <2>1, <4>1, RefreshTurned
        <3>3. CASE x.doc.phase # "Stopped"
            <4>1. e = AdmitInstanceWork(x, "Stopping", "stop")
                BY <3>1, <3>3 DEF ReconcileInactiveInstance
            <4>2. x.doc.observed # x.doc.gen BY <2>3, <2>7, <3>3 DEF Firm
            <4> QED BY <2>4, <4>1, <4>2 DEF TaskKinds
        <3> QED BY <3>2, <3>3
    <2> QED BY <2>2, <2>5, <2>6, <2>7 DEF Targets
<1> QED BY <1>1, <1>2

\* The refreshes of credentials and host inputs start a task beside the others.
LEMMA AuxiliaryTurned ==
    ASSUME NEW c, NEW x, CellInv(x), NEW d, NEW b, NEW i, Turned(c, x, d, b, i),
           NEW e \in ReconcileRuntimeSecrets(x) \cup ReconcileHostInputs(x)
    PROVE Turned(c, e, d, b, i) /\ e.doc = x.doc /\ e.st = x.st
<1>1. x \in Cells /\ x.doc.gen \in Nat BY DEF CellInv, Cells, InstanceDocs
<1>2. CASE e = x BY <1>2
<1>3. CASE e # x
    <2>1. PICK kind \in {"secrets", "hostInputs"} :
            LET t == Task(x, kind, x.doc.gen)
            IN  \/ e = [x EXCEPT !.secrets = {t.id}, !.tasks = @ \cup {t}]
                \/ e = [x EXCEPT !.host = {t.id}, !.tasks = @ \cup {t}]
        BY <1>3 DEF ReconcileRuntimeSecrets, ReconcileHostInputs
    <2> DEFINE t == Task(x, kind, x.doc.gen)
               k == {t.id}
    <2>2. SpawnedFor(t, d, b) BY <1>1, PlainTask DEF TaskKinds
    <2>3. \/ e = [x EXCEPT !.secrets = k, !.tasks = @ \cup {t}]
          \/ e = [x EXCEPT !.host = k, !.tasks = @ \cup {t}]
        BY <2>1
    <2> HIDE DEF t, k
    <2>4. e.st = x.st /\ e.doc = x.doc /\ e.tasks = x.tasks \cup {t} /\ e.work = x.work
        BY <1>1, <2>3 DEF Cells
    <2> QED BY <2>2, <2>4, TurnedOn
<1> QED BY <1>2, <1>3


\* reconcile_deletion: what was desired before is observed no more.
LEMMA MarkDeletingTurned ==
    ASSUME NEW c, NEW x, CellInv(x), NEW d, d.del, NEW b, NEW i, Turned(c, x, d, b, i)
    PROVE LET e == MarkDeleting(x)
          IN  Turned(c, e, d, b, i) /\ (IsRunning(e) => e.doc.phase \in CleanupPhases)
<1>1. CASE ~(IsRunning(x) /\ x.doc.phase \notin CleanupPhases) BY <1>1 DEF MarkDeleting
<1>2. CASE IsRunning(x) /\ x.doc.phase \notin CleanupPhases
    <2> DEFINE g == [x.doc EXCEPT !.phase = "Deleting", !.ready = FALSE, !.recon = "none"]
               e == [x EXCEPT !.doc = g]
    <2>1. x \in Cells /\ x.doc \in InstanceDocs BY DEF CellInv, Cells
    <2>2. MarkDeleting(x) = e BY <1>2, <2>1 DEF MarkDeleting, Cells
    <2>3. /\ g.gen = x.doc.gen /\ g.target = x.doc.target /\ g.observed = x.doc.observed
          /\ g.phase = "Deleting" /\ g.recon = "none" /\ g.mbase = x.doc.mbase
        BY <2>1 DEF InstanceDocs
    <2> HIDE DEF g
    <2>4. e.st = x.st /\ e.doc = g /\ e.tasks = x.tasks /\ e.work = x.work BY <2>1 DEF Cells
    <2> HIDE DEF e
    <2>5. x.doc.target = "Deleting" BY <1>2 DEF Turned, Projected, TargetFor
    <2>6. x.doc.observed # x.doc.gen BY <1>2, <2>5 DEF Turned, Firm
    <2>7. Firm(g, d) BY <1>2, <2>3, <2>6 DEF Turned, Firm
    <2>8. Turned(c, e, d, b, i)
        BY <1>2, <2>3, <2>4, <2>6, <2>7 DEF Turned, Projected, IsRunning, CleanupPhases
    <2> QED BY <2>2, <2>3, <2>4, <2>8 DEF CleanupPhases
<1> QED BY <1>1, <1>2

\* drop_retrying_starting_instances, and the slots that reconcile_active_instances fills.
LEMMA SlotsTurned ==
    ASSUME NEW c, NEW x, CellInv(x), NEW d \in Docs, NEW b, NEW i, Turned(c, x, d, b, i)
    PROVE /\ Turned(c, DropRetrying(x), d, b, i)
          /\ ~d.del /\ BaseReadyForDocument(d, b) =>
               \A e \in EnsureCreated(x, d) : Turned(c, e, d, b, i)
<1>1. Turned(c, DropRetrying(x), d, b, i)
    BY AbsentCell DEF DropRetrying, Turned, Projected, IsRunning
<1>2. ASSUME ~d.del, BaseReadyForDocument(d, b), NEW e \in EnsureCreated(x, d), e # x
      PROVE Turned(c, e, d, b, i)
    <2> DEFINE k == Task(x, "create", d.gen)
               t == [k EXCEPT !.tmpl = d.tmpl, !.base = d.baseReady]
               w == {[id |-> t.id, kind |-> "Creating", gen |-> d.gen]}
    <2>1. x \in Cells /\ LedgerInv(x) BY DEF CellInv
    <2>2. d.gen \in Nat /\ d.tmpl \in Keys /\ d.baseReady \in Keys BY DEF Docs, AgentDocs, Keys
    <2>3. k \in Tasks /\ k.kind = "create" /\ k.gen = d.gen
        BY <2>1, <2>2, TaskFacts DEF TaskKinds
    <2>4. e = [x EXCEPT !.st = "starting", !.gen = d.gen, !.work = w, !.tasks = @ \cup {t}]
        BY <1>2 DEF EnsureCreated, SpawnCreate
    <2> HIDE DEF k
    <2>5. t.kind = "create" /\ t.gen = d.gen /\ t.tmpl = d.tmpl /\ t.base = d.baseReady
        BY <2>2, <2>3 DEF Tasks
    <2>6. SpawnedFor(t, d, b) BY <1>2, <2>5 DEF SpawnedFor
    <2> HIDE DEF t, w
    <2>7. e.st = "starting" /\ e.tasks = x.tasks \cup {t} BY <2>1, <2>4 DEF Cells
    <2> QED BY <2>6, <2>7 DEF Turned, Projected, IsRunning
<1> QED BY <1>1, <1>2

\* What the passes of one turn, in their order, make of a cell.
LEMMA TurnCellTurned ==
    ASSUME NEW c, CellInv(c), NEW d \in Docs, NEW b, NEW i \in Ids, FirmCell(c, d),
           NEW e \in TurnCell(c, d, b, i)
    PROVE Turned(c, e, d, b, i) /\ Current(e, d, i)
<1> DEFINE p == Project(c, d, i)
<1>1. PICK x, y :
        /\ x \in ReconcileRuntimeSecrets(p)
        /\ e \in ReconcileHostInputs(y)
        /\ \/ d.del /\ y \in ReconcileInstance(MarkDeleting(DropRetrying(x)))
           \/ ~d.del /\ Inactive(d) /\ y \in ReconcileInstance(DropRetrying(x))
           \/ /\ ~d.del /\ BaseReadyForDocument(d, b)
              /\ \E z \in EnsureCreated(x, d) \cup {DropRetrying(x)} : y \in ReconcileInstance(z)
           \/ ~d.del /\ IsRunning(x) /\ x.doc.phase \in CleanupPhases /\ y \in ReconcileInstance(x)
           \/ ~d.del /\ y = x
    BY DEF TurnCell
<1>2. CellInv(p) /\ Goes(c, p, d) BY ProjectGoes
<1>3. Turned(c, p, d, b, i) BY ProjectTurned
<1> HIDE DEF p
<1>4. CellInv(x) BY <1>1, <1>2, RuntimeSecretsGoes
<1>5. Turned(c, x, d, b, i) BY <1>1, <1>2, <1>3, AuxiliaryTurned
<1>6. CellInv(DropRetrying(x)) BY <1>4, DropRetryingGoes
<1>7. /\ Turned(c, DropRetrying(x), d, b, i)
      /\ ~d.del /\ BaseReadyForDocument(d, b) =>
               \A z \in EnsureCreated(x, d) : Turned(c, z, d, b, i)
    BY <1>4, <1>5, SlotsTurned
<1>8. /\ Turned(c, y, d, b, i)
      /\ d.del /\ IsRunning(y) => y.doc.phase \in CleanupPhases
      /\ CellInv(y)
    <2>0. ASSUME NEW z, CellInv(z), Turned(c, z, d, b, i), y \in ReconcileInstance(z),
                 IsRunning(z) => /\ z.doc.target = "Deleting" => z.doc.phase \in CleanupPhases
                                 /\ z.doc.target = "Active" /\ z.doc.phase \notin CleanupPhases
                                      => BaseReadyForDocument(d, b)
          PROVE Turned(c, y, d, b, i) /\ (IsRunning(y) => y.doc.phase = z.doc.phase)
                /\ CellInv(y) /\ (IsRunning(z) <=> IsRunning(y))
        <3>1. Turned(c, y, d, b, i) /\ (IsRunning(y) => y.doc.phase = z.doc.phase)
            BY <2>0, ReconcileTurned
        <3>2. CellInv(y) /\ Goes(z, y, d) BY <2>0, ReconcileInstanceGoes
        <3> QED BY <3>1, <3>2 DEF Goes
    <2>9. ASSUME ~d.del, NEW z, Turned(c, z, d, b, i), IsRunning(z), z.doc.target = "Deleting"
          PROVE z.doc.phase \in CleanupPhases
        BY <2>9 DEF Turned, Projected, TargetFor
    <2>1. CASE d.del /\ y \in ReconcileInstance(MarkDeleting(DropRetrying(x)))
        <3> DEFINE r == DropRetrying(x)
                   m == MarkDeleting(r)
        <3>1. CellInv(r) /\ Turned(c, r, d, b, i) BY <1>6, <1>7
        <3> HIDE DEF r
        <3>2. CellInv(m) BY <3>1, MarkDeletingGoes
        <3>3. Turned(c, m, d, b, i) /\ (IsRunning(m) => m.doc.phase \in CleanupPhases)
            BY <2>1, <3>1, MarkDeletingTurned
        <3>4. y \in ReconcileInstance(m) BY <2>1 DEF r
        <3> HIDE DEF m
        <3> QED BY <2>0, <3>2, <3>3, <3>4
    <2>2. CASE ~d.del /\ Inactive(d) /\ y \in ReconcileInstance(DropRetrying(x))
        <3> DEFINE r == DropRetrying(x)
        <3>1. CellInv(r) /\ Turned(c, r, d, b, i) /\ y \in ReconcileInstance(r) BY <1>6, <1>7, <2>2
        <3> HIDE DEF r
        <3>2. TargetFor(d, i) = "Inactive"
            BY <2>2, ReplicasAssumption DEF TargetFor, Inactive, Ids, Docs, AgentDocs
        <3>3. IsRunning(r) /\ r.doc.phase \notin CleanupPhases => r.doc.target = "Inactive"
            BY <3>1, <3>2 DEF Turned, Projected
        <3> QED BY <2>0, <2>2, <2>9, <3>1, <3>3
    <2>3. CASE /\ ~d.del /\ BaseReadyForDocument(d, b)
               /\ \E z \in EnsureCreated(x, d) \cup {DropRetrying(x)} : y \in ReconcileInstance(z)
        <3>1. PICK z \in EnsureCreated(x, d) \cup {DropRetrying(x)} : y \in ReconcileInstance(z)
            BY <2>3
        <3>2. CellInv(z) BY <1>4, <1>6, <3>1, EnsureCreatedGoes
        <3>3. Turned(c, z, d, b, i) BY <1>7, <2>3, <3>1
        <3> QED BY <2>0, <2>3, <2>9, <3>1, <3>2, <3>3
    <2>4. CASE ~d.del /\ IsRunning(x) /\ x.doc.phase \in CleanupPhases /\ y \in ReconcileInstance(x)
        BY <1>4, <1>5, <2>0, <2>4
    <2>5. CASE ~d.del /\ y = x BY <1>4, <1>5, <2>5
    <2> QED BY <1>1, <2>1, <2>2, <2>3, <2>4, <2>5
<1>9. Turned(c, e, d, b, i) /\ e.doc = y.doc /\ e.st = y.st BY <1>1, <1>8, AuxiliaryTurned
<1>10. Current(e, d, i) BY <1>8, <1>9 DEF Current, Turned, IsRunning
<1> QED BY <1>9, <1>10


\* What a turn makes of a cell is as firm, dark and matched as the cell was.
LEMMA TurnedKeeps ==
    ASSUME NEW c, CellInv(c), NEW e, CellInv(e), NEW d \in Docs, NEW b, NEW i, Goes(c, e, d),
           Turned(c, e, d, b, i), FirmCell(c, d), b.st = "Ready" => b.key # None
    PROVE /\ FirmCell(e, d)
          /\ \A up : Dark(c, up) => Dark(e, up)
          /\ Matched(c) /\ (b.st = "Ready" /\ ~d.del => b.key = d.tmpl) => Matched(e)
<1>1. d.gen \in Nat /\ d.gen > 0 BY DEF Docs, AgentDocs
<1>2. ASSUME NEW t \in e.tasks \ c.tasks PROVE FirmTask(t, d)
    BY <1>1, <1>2 DEF Turned, SpawnedFor, BaseReadyForDocument, FirmTask
<1>3. FirmCell(e, d) BY <1>2 DEF FirmCell, Turned
<1>4. ASSUME NEW up, Dark(c, up) PROVE Dark(e, up)
    <2>1. \A t \in e.tasks : t \in c.tasks \/ t.res = "running" BY DEF Goes
    <2>2. IsRunning(e) /\ e.doc.phase = "Stopped" =>
            IsRunning(c) /\ c.doc.phase = "Stopped" /\ c.tasks \subseteq e.tasks
        BY DEF Goes, Turned
    <2> QED BY <1>4, <2>1, <2>2 DEF Dark
<1>5. ASSUME Matched(c), b.st = "Ready" /\ ~d.del => b.key = d.tmpl PROVE Matched(e)
    <2>1. IsRunning(e) => e.doc.mbase = e.doc.mtmpl BY <1>5 DEF Matched, Turned, Goes
    <2>2. ASSUME NEW t \in e.tasks, t.kind = "create" PROVE t.base = t.tmpl
        BY <1>5, <2>2 DEF Matched, Turned, SpawnedFor, BaseReadyForDocument
    <2> QED BY <2>1, <2>2 DEF Matched
<1> QED BY <1>3, <1>4, <1>5

-----------------------------------------------------------------------------
(* What a completion makes of a cell. *)

\* A document that the end of the work task t may leave of the one of c.
Follows(g, c, t) ==
    /\ g.gen = c.doc.gen /\ g.target = c.doc.target /\ g.observed = c.doc.observed
    /\ g.mbase = c.doc.mbase /\ g.mtmpl = c.doc.mtmpl
    /\ g.phase \in CleanupPhases => c.doc.phase \in CleanupPhases
    /\ g.phase = "Running" /\ g.recon = "ok" =>
         \/ c.doc.phase = "Running" /\ c.doc.recon = "ok"
         \/ t.kind \in {"start", "reconcile"} /\ t.gen = c.doc.gen
    /\ g.phase = "Stopped" =>
         \/ c.doc.phase = "Stopped" /\ (t.kind = "start" => t.res # "ok")
         \/ t.res = "stopped"
         \/ t.kind = "stop" /\ t.res = "ok"

\* The work of a running instance ends.
LEMMA WorkEnds ==
    ASSUME NEW c, CellInv(c), NEW t \in c.tasks, Lane(t) = "work", t.kind # "create",
           t.res # "running", NEW d, FirmCell(c, d), NEW e,
           e.st = c.st, e.work = {}, e.tasks = c.tasks \ {t}, Follows(e.doc, c, t)
    PROVE /\ FirmCell(e, d)
          /\ \A up : Dark(c, up) => Dark(e, up)
          /\ Matched(c) => Matched(e)
<1>1. IsRunning(c) BY SlotOfTask
<1>2. c.work # {} /\ \A u \in c.tasks : Lane(u) = "work" => u = t BY SlotOfTask
<1>3. t \in Tasks /\ t.res \in Results BY DEF CellInv, Cells, Tasks
<1>4. Firm(c.doc, d) /\ FirmTask(t, d) BY <1>1 DEF FirmCell
<1>5. c.doc.observed = c.doc.gen => c.doc.target # "Inactive" BY <1>1, <1>2 DEF FirmCell
<1>6. Firm(e.doc, d) BY <1>4, <1>5 DEF Firm, FirmTask, Follows
<1>7. FirmCell(e, d) BY <1>6 DEF FirmCell
<1>8. ASSUME NEW up, Dark(c, up) PROVE Dark(e, up)
    <2>1. t.res \in {"ok", "stopped"} BY <1>3, <1>8 DEF Dark, Results
    <2>2. ASSUME up, e.doc.phase = "Stopped" PROVE FALSE
        <3>1. t.res = "stopped" => ~up BY <1>8 DEF Dark
        <3>2. t.kind = "stop" /\ t.res = "ok" => ~up BY <1>8 DEF Dark
        <3>3. c.doc.phase = "Stopped" /\ (t.kind = "start" => t.res # "ok")
            BY <2>2, <3>1, <3>2 DEF Follows
        <3>4. PICK u \in c.tasks : u.kind = "start" BY <1>1, <1>8, <2>2, <3>3 DEF Dark
        <3>5. u = t BY <1>2, <3>4 DEF Lane
        <3> QED BY <2>1, <2>2, <3>1, <3>3, <3>4, <3>5
    <2> QED BY <1>8, <2>2 DEF Dark
<1>9. ASSUME Matched(c) PROVE Matched(e) BY <1>1, <1>9 DEF Matched, Follows
<1> QED BY <1>7, <1>8, <1>9

\* A task beside the work ends, or a session starts: the document keeps what matters here.
LEMMA AuxiliaryEnds ==
    ASSUME NEW c, NEW d, FirmCell(c, d), NEW e, IsRunning(c),
           e.st = c.st, e.work = c.work,
           \A u \in e.tasks \ c.tasks : u.kind = "exec" /\ u.res = "running",
           \A u \in c.tasks : u.kind = "start" => u \in e.tasks,
           e.doc.gen = c.doc.gen, e.doc.target = c.doc.target, e.doc.observed = c.doc.observed,
           e.doc.phase = c.doc.phase, e.doc.recon = c.doc.recon,
           e.doc.mbase = c.doc.mbase, e.doc.mtmpl = c.doc.mtmpl
    PROVE /\ FirmCell(e, d)
          /\ \A up : Dark(c, up) => Dark(e, up)
          /\ Matched(c) => Matched(e)
<1>1. Firm(e.doc, d) BY DEF FirmCell, Firm
<1>2. \A u \in e.tasks : FirmTask(u, d) BY DEF FirmCell, FirmTask
<1>3. FirmCell(e, d) BY <1>1, <1>2 DEF FirmCell, IsRunning
<1>4. ASSUME NEW up, Dark(c, up) PROVE Dark(e, up)
    <2>1. ASSUME NEW u \in e.tasks
          PROVE /\ u.res \notin {"err", "expired"}
                /\ u.res = "stopped" => u.kind = "reconcile" /\ ~up
                /\ u.kind = "stop" /\ u.res = "ok" => ~up
        BY <1>4, <2>1 DEF Dark
    <2> QED BY <1>4, <2>1 DEF Dark, IsRunning
<1>5. Matched(c) => Matched(e) BY DEF Matched, IsRunning
<1> QED BY <1>3, <1>4, <1>5

\* clear_instance_work keeps the document but for what says that work is under way.
LEMMA ClearedDoc ==
    ASSUME NEW x \in Cells
    PROVE LET e == ClearInstanceWork(x)
          IN  /\ e.st = x.st /\ e.work = {} /\ e.tasks = x.tasks
              /\ \A c, t : Follows(x.doc, c, t) => Follows(e.doc, c, t)
<1> DEFINE n == Cardinality(x.session)
           g == [x.doc EXCEPT !.busy = FALSE, !.sessions = n]
           e == [x EXCEPT !.work = {}, !.doc = g]
<1>1. x.doc \in InstanceDocs BY DEF Cells
<1>2. ClearInstanceWork(x) = e BY DEF ClearInstanceWork, Cells
<1> HIDE DEF n
<1>3. /\ g.gen = x.doc.gen /\ g.target = x.doc.target /\ g.observed = x.doc.observed
      /\ g.phase = x.doc.phase /\ g.recon = x.doc.recon
      /\ g.mbase = x.doc.mbase /\ g.mtmpl = x.doc.mtmpl
    BY <1>1 DEF InstanceDocs
<1> HIDE DEF g
<1>4. e.st = x.st /\ e.work = {} /\ e.tasks = x.tasks /\ e.doc = g BY DEF Cells
<1>5. \A c, t : Follows(x.doc, c, t) => Follows(g, c, t) BY <1>3 DEF Follows
<1> QED BY <1>2, <1>4, <1>5


\* What is left of c is as firm, dark and matched as it was.
Stays(c, e, d) ==
    FirmCell(e, d) /\ (\A up : Dark(c, up) => Dark(e, up)) /\ (Matched(c) => Matched(e))

\* The work ends with the document g, before clear_instance_work.
LEMMA ClearedStays ==
    ASSUME NEW c, CellInv(c), NEW t \in c.tasks, Lane(t) = "work", t.kind # "create",
           t.res # "running", NEW d, FirmCell(c, d),
           NEW x \in Cells, x.st = c.st, x.tasks = c.tasks \ {t}, Follows(x.doc, c, t)
    PROVE Stays(c, ClearInstanceWork(x), d)
<1> DEFINE e == ClearInstanceWork(x)
<1>1. e.st = c.st /\ e.work = {} /\ e.tasks = c.tasks \ {t} /\ Follows(e.doc, c, t) BY ClearedDoc
<1> HIDE DEF e
<1>2. Stays(c, e, d) BY <1>1, WorkEnds DEF Stays
<1> QED BY <1>2 DEF e

\* A create ends in a new instance, in nothing, or in a slot that retries.
LEMMA CreateStays ==
    ASSUME NEW c, CellInv(c), NEW t \in c.tasks, t.kind = "create", NEW d, FirmCell(c, d)
    PROVE Stays(c, Completed(c, t, d), d)
<1> DEFINE rest == [c EXCEPT !.tasks = @ \ {t}]
           retrying == [rest EXCEPT !.work = {}]
           g == NewInstanceDoc(t.gen, t.base, t.tmpl)
           new == RunningCell(g, {})
           e == Completed(c, t, d)
<1>1. c \in Cells BY DEF CellInv
<1>2. c.st = "starting" /\ c.tasks = {t} BY SlotOfTask
<1>3. rest.st = c.st /\ rest.work = c.work BY <1>1 DEF Cells
<1>4. rest.st = "starting" /\ \E w \in rest.work : w.id = t.id
    <2>1. Lane(t) = "work" BY DEF Lane
    <2> QED BY <1>3, <2>1, OwnsOwnWork
<1>5. e = new \/ e = Absent \/ e = retrying
    <2>1. e = CompleteInstanceCreate(rest, t, d) BY DEF Completed
    <2> HIDE DEF rest, e
    <2> QED BY <1>4, <2>1 DEF CompleteInstanceCreate
<1>6. retrying.st = "starting" /\ retrying.tasks = {} BY <1>1, <1>2 DEF Cells
<1>7. /\ g.gen = t.gen /\ g.observed = 0 /\ g.phase = "Materialized" /\ g.recon = "none"
      /\ g.target = "Active" /\ g.mbase = t.base /\ g.mtmpl = t.tmpl
    BY DEF NewInstanceDoc
<1> HIDE DEF retrying, g, e
<1>8. new.st = "running" /\ new.tasks = {} /\ new.doc = g BY DEF RunningCell, Absent
<1> HIDE DEF new
<1>9. Absent.st = "absent" /\ Absent.tasks = {} BY AbsentCell
<1>10. FirmTask(t, d) /\ t.gen \in Nat BY DEF FirmCell, CellInv, Cells, Tasks
<1>11. Firm(g, d) BY <1>7, <1>10 DEF Firm, FirmTask, CleanupPhases
<1>12. FirmCell(e, d) BY <1>5, <1>6, <1>7, <1>8, <1>9, <1>11 DEF FirmCell, IsRunning
<1>13. ASSUME NEW up PROVE Dark(e, up)
    BY <1>5, <1>6, <1>7, <1>8, <1>9 DEF Dark, IsRunning
<1>14. Matched(c) => Matched(e)
    BY <1>5, <1>6, <1>7, <1>8, <1>9 DEF Matched, IsRunning
<1> QED BY <1>12, <1>13, <1>14 DEF Stays, e

\* start_instance, reconcile_instance and stop_instance have returned.
LEMMA TransitionStays ==
    ASSUME NEW c, CellInv(c), NEW t \in c.tasks, t.kind \in {"start", "reconcile", "stop"},
           t.res # "running", NEW d, FirmCell(c, d), NEW i, Current(c, d, i)
    PROVE Stays(c, Completed(c, t, d), d)
<1> DEFINE rest == [c EXCEPT !.tasks = @ \ {t}]
           e == Completed(c, t, d)
           kept == [c.doc EXCEPT !.pid = t.pid]
<1>1. c \in Cells /\ c.doc \in InstanceDocs /\ c.repair \in {"Idle", "Due", "Backoff"}
    BY DEF CellInv, Cells
<1>2. t.pid \in BOOLEAN /\ t.res \in Results BY <1>1 DEF Cells, Tasks
<1>3. Lane(t) = "work" BY DEF Lane
<1>4. IsRunning(c) BY SlotOfTask
<1>5. c.doc.target = "Deleting" => c.doc.phase \in CleanupPhases
    BY <1>4 DEF Current, Projected, TargetFor
<1>6. /\ rest \in Cells /\ rest.st = c.st /\ rest.work = c.work /\ rest.tasks = c.tasks \ {t}
      /\ rest.doc = c.doc /\ rest.repair = c.repair
    BY <1>1 DEF Cells
<1>7. ASSUME NEW g \in InstanceDocs, Follows(g, c, t), NEW repair \in {"Idle", "Due", "Backoff"},
             e = ClearInstanceWork([rest EXCEPT !.doc = g, !.repair = repair])
      PROVE Stays(c, e, d)
    <2> DEFINE x == [rest EXCEPT !.doc = g, !.repair = repair]
    <2> HIDE DEF rest, e
    <2>1. x \in Cells /\ x.st = c.st /\ x.tasks = c.tasks \ {t} /\ x.doc = g BY <1>6 DEF Cells
    <2>2. e = ClearInstanceWork(x) BY <1>7
    <2> HIDE DEF x
    <2> QED BY <1>3, <1>7, <2>1, <2>2, ClearedStays
<1>8. /\ t.kind = "start" => OwnsWork(rest, t, {"Starting"})
      /\ t.kind = "reconcile" => OwnsWork(rest, t, {"Reconciling", "Repairing"})
      /\ t.kind = "stop" => OwnsWork(rest, t, {"Stopping"})
    BY <1>3, <1>6, OwnsOwnWork
<1>9. /\ kept \in InstanceDocs /\ kept.gen = c.doc.gen /\ kept.target = c.doc.target
      /\ kept.observed = c.doc.observed /\ kept.mbase = c.doc.mbase /\ kept.mtmpl = c.doc.mtmpl
      /\ kept.phase = c.doc.phase /\ kept.recon = c.doc.recon
    BY <1>1, <1>2 DEF InstanceDocs
\* A document that differs from the kept one in its phase and reconciliation.
<1> DEFINE Marked(g, phase, recon) ==
               /\ g \in InstanceDocs /\ g.gen = c.doc.gen /\ g.target = c.doc.target
               /\ g.observed = c.doc.observed /\ g.mbase = c.doc.mbase /\ g.mtmpl = c.doc.mtmpl
               /\ g.phase = phase /\ g.recon = recon
<1>10. ASSUME NEW phase \in Phases, NEW recon \in {"none", "ok", "stale"}
       PROVE /\ Marked([kept EXCEPT !.recon = recon], c.doc.phase, recon)
             /\ Marked([kept EXCEPT !.ready = FALSE, !.recon = recon], c.doc.phase, recon)
             /\ Marked([kept EXCEPT !.phase = phase, !.ready = FALSE, !.recon = recon], phase, recon)
             /\ Marked([[kept EXCEPT !.phase = phase, !.ready = FALSE] EXCEPT !.recon = recon], phase, recon)
    <2> HIDE DEF kept
    <2> QED BY <1>9 DEF InstanceDocs
<1>11. {"Running", "Stopped", "Failed"} \subseteq Phases BY DEF Phases
<1>12. Marked(MarkTransitionFailed(kept), "Failed", "stale")
    <2> HIDE DEF kept, Marked
    <2> QED BY <1>10, <1>11 DEF MarkTransitionFailed
<1>0. Marked(kept, c.doc.phase, c.doc.recon) BY <1>9
<1>13. CASE t.kind = "start"
    <2> DEFINE recon == IF Relevant(rest, t) THEN "ok" ELSE "none"
               done ==
                 IF t.res = "ok" /\ ~CleaningUp(rest)
                 THEN [kept EXCEPT !.phase = "Running", !.ready = FALSE, !.recon = recon]
                 ELSE IF t.res = "ok" THEN [kept EXCEPT !.ready = FALSE, !.recon = "none"]
                 ELSE IF Relevant(rest, t) /\ ~CleaningUp(rest) THEN MarkTransitionFailed(kept)
                 ELSE kept
    <2>1. e = ClearInstanceWork([rest EXCEPT !.doc = done])
        <3>1. e = CompleteInstanceStart(rest, t) BY <1>13 DEF Completed
        <3> HIDE DEF rest
        <3> QED BY <1>6, <1>8, <1>13, <3>1 DEF CompleteInstanceStart
    <2>2. recon \in {"none", "ok"} /\ (recon = "ok" => t.gen = c.doc.gen) BY <1>6 DEF Relevant
    <2>3. CleaningUp(rest) => c.doc.phase \in CleanupPhases BY <1>5, <1>6 DEF CleaningUp
    <2> HIDE DEF recon, kept, rest, Marked
    <2>4. \/ Marked(done, "Running", recon)
          \/ Marked(done, c.doc.phase, "none") /\ c.doc.phase \in CleanupPhases
          \/ Marked(done, "Failed", "stale")
          \/ Marked(done, c.doc.phase, c.doc.recon) /\ t.res # "ok"
        BY <1>0, <1>10, <1>11, <1>12, <2>2, <2>3
    <2> HIDE DEF done
    <2>5. done \in InstanceDocs /\ Follows(done, c, t)
        BY <1>13, <2>2, <2>4 DEF Marked, Follows, CleanupPhases
    <2>6. [rest EXCEPT !.doc = done] = [rest EXCEPT !.doc = done, !.repair = c.repair]
        BY <1>6 DEF Cells
    <2> QED BY <1>1, <1>7, <2>1, <2>5, <2>6
<1>14. CASE t.kind = "reconcile"
    <2> DEFINE repairing == \E w \in rest.work : w.kind = "Repairing"
               seen == IF t.res = "stopped" THEN [kept EXCEPT !.phase = "Stopped", !.ready = FALSE] ELSE kept
               recon == IF ~Relevant(rest, t) THEN "none" ELSE IF t.res = "ok" THEN "ok" ELSE "stale"
               done ==
                 IF t.res \in {"ok", "stopped"} THEN [seen EXCEPT !.recon = recon]
                 ELSE IF Relevant(rest, t) /\ ~repairing THEN MarkTransitionFailed(kept)
                 ELSE kept
               repair == IF repairing /\ t.res # "err" THEN "Idle" ELSE rest.repair
    <2>1. e = ClearInstanceWork([rest EXCEPT !.doc = done, !.repair = repair])
        <3>1. e = CompleteInstanceReconcile(rest, t) BY <1>14 DEF Completed
        <3> HIDE DEF rest
        <3> QED BY <1>6, <1>8, <1>14, <3>1 DEF CompleteInstanceReconcile
    <2>2. recon \in {"none", "ok", "stale"} /\ (recon = "ok" => t.gen = c.doc.gen)
        BY <1>6 DEF Relevant
    <2>3. repair \in {"Idle", "Due", "Backoff"} BY <1>1, <1>6
    <2> HIDE DEF recon, kept, rest, Marked, repair
    <2>4. \/ Marked(done, "Stopped", recon) /\ t.res = "stopped"
          \/ Marked(done, c.doc.phase, recon)
          \/ Marked(done, "Failed", "stale")
          \/ Marked(done, c.doc.phase, c.doc.recon)
        BY <1>0, <1>10, <1>11, <1>12, <2>2
    <2> HIDE DEF done
    <2>5. done \in InstanceDocs /\ Follows(done, c, t)
        BY <1>14, <2>2, <2>4 DEF Marked, Follows, CleanupPhases
    <2> QED BY <1>7, <2>1, <2>3, <2>5
<1>15. CASE t.kind = "stop"
    <2> DEFINE done ==
                 IF t.res = "ok" THEN [kept EXCEPT !.phase = "Stopped", !.ready = FALSE, !.recon = "ok"]
                 ELSE IF Relevant(rest, t) THEN MarkTransitionFailed(kept)
                 ELSE kept
    <2>1. e = ClearInstanceWork([rest EXCEPT !.doc = done])
        <3>1. e = CompleteInstanceStop(rest, t) BY <1>15 DEF Completed
        <3> HIDE DEF rest
        <3> QED BY <1>6, <1>8, <1>15, <3>1 DEF CompleteInstanceStop
    <2> HIDE DEF kept, rest, Marked
    <2>4. \/ Marked(done, "Stopped", "ok") /\ t.res = "ok"
          \/ Marked(done, "Failed", "stale")
          \/ Marked(done, c.doc.phase, c.doc.recon)
        BY <1>0, <1>10, <1>11, <1>12
    <2> HIDE DEF done
    <2>5. done \in InstanceDocs /\ Follows(done, c, t)
        BY <1>15, <2>4 DEF Marked, Follows, CleanupPhases
    <2>6. [rest EXCEPT !.doc = done] = [rest EXCEPT !.doc = done, !.repair = c.repair]
        BY <1>6 DEF Cells
    <2> QED BY <1>1, <1>7, <2>1, <2>5, <2>6
<1> QED BY <1>13, <1>14, <1>15

\* The steps of a deletion, a bootstrap or a publication have returned.
LEMMA OtherWorkStays ==
    ASSUME NEW c, CellInv(c), NEW t \in c.tasks,
           t.kind \in {"stopForDelete", "removeFiles", "bootstrap", "tailscale"},
           t.res # "running", NEW d, FirmCell(c, d)
    PROVE Stays(c, Completed(c, t, d), d)
<1> DEFINE rest == [c EXCEPT !.tasks = @ \ {t}]
           e == Completed(c, t, d)
           phase == IF t.res = "ok" THEN "Deleted" ELSE c.doc.phase
           gone == [c.doc EXCEPT !.pid = t.pid, !.phase = phase]
           up == [c.doc EXCEPT !.ready = TRUE]
           off == [c.doc EXCEPT !.ready = FALSE]
<1>1. c \in Cells /\ c.doc \in InstanceDocs BY DEF CellInv, Cells
<1>2. t.pid \in BOOLEAN BY <1>1 DEF Cells, Tasks
<1>3. Lane(t) = "work" BY DEF Lane
<1>4. /\ rest \in Cells /\ rest.st = c.st /\ rest.work = c.work /\ rest.tasks = c.tasks \ {t}
      /\ rest.doc = c.doc
    BY <1>1 DEF Cells
<1>5. /\ t.kind \in {"stopForDelete", "removeFiles"} =>
            OwnsWork(rest, t, {"Deleting"}) /\ IsRunning(rest)
            /\ \E w \in rest.work : w.id = t.id /\ w.kind = "Deleting"
      /\ t.kind = "bootstrap" => OwnsWork(rest, t, {"Bootstrapping"})
      /\ t.kind = "tailscale" => OwnsWork(rest, t, {"Reconciling"})
    <2> HIDE DEF rest
    <2> QED BY <1>3, <1>4, OwnsOwnWork
<1>6. \/ t.kind = "stopForDelete" /\ e = ClearInstanceWork([rest EXCEPT !.doc = gone])
      \/ t.kind # "stopForDelete" /\ e = ClearInstanceWork(rest)
      \/ t.kind # "stopForDelete" /\ e = ClearInstanceWork([rest EXCEPT !.doc = up])
      \/ t.kind # "stopForDelete" /\ e = [rest EXCEPT !.doc = off, !.work = {}]
      \/ e = Absent
    <2>1. /\ t.kind = "stopForDelete" => e = CompleteInstanceDeleteRuntime(rest, t)
          /\ t.kind = "removeFiles" => e = CompleteInstanceDelete(rest, t)
          /\ t.kind = "bootstrap" => e = CompleteBootstrap(rest, t)
          /\ t.kind = "tailscale" => e = CompleteTailscale(rest, t)
        BY DEF Completed
    <2> HIDE DEF e, rest
    <2>2. ASSUME t.kind = "stopForDelete" PROVE e = ClearInstanceWork([rest EXCEPT !.doc = gone])
        <3>1. e = ClearInstanceWork([rest EXCEPT !.doc.pid = t.pid, !.doc.phase = phase])
            BY <1>4, <1>5, <2>1, <2>2 DEF CompleteInstanceDeleteRuntime
        <3> HIDE DEF phase
        <3>2. [rest EXCEPT !.doc.pid = t.pid, !.doc.phase = phase] = [rest EXCEPT !.doc = gone]
            BY <1>1, <1>4 DEF Cells, InstanceDocs
        <3> QED BY <3>1, <3>2
    <2>3. t.kind = "removeFiles" => e = Absent \/ e = ClearInstanceWork(rest)
        BY <1>5, <2>1 DEF CompleteInstanceDelete
    <2>4. t.kind = "tailscale" => e = ClearInstanceWork(rest)
        BY <1>5, <2>1 DEF CompleteTailscale
    <2>5. ASSUME t.kind = "bootstrap"
          PROVE \/ e = ClearInstanceWork(rest) \/ e = ClearInstanceWork([rest EXCEPT !.doc = up])
                \/ e = [rest EXCEPT !.doc = off, !.work = {}]
        <3>1. \/ e = ClearInstanceWork(rest) \/ e = ClearInstanceWork([rest EXCEPT !.doc.ready = TRUE])
              \/ e = [rest EXCEPT !.doc.ready = FALSE, !.work = {}]
            BY <1>5, <2>1, <2>5 DEF CompleteBootstrap
        <3>2. /\ [rest EXCEPT !.doc.ready = TRUE] = [rest EXCEPT !.doc = up]
              /\ [rest EXCEPT !.doc.ready = FALSE, !.work = {}] = [rest EXCEPT !.doc = off, !.work = {}]
            BY <1>4 DEF Cells
        <3> QED BY <3>1, <3>2
    <2> QED BY <2>2, <2>3, <2>4, <2>5
<1>7. /\ t.kind = "stopForDelete" => gone \in InstanceDocs /\ Follows(gone, c, t)
      /\ t.kind # "stopForDelete" =>
           \A h \in {up, off, c.doc} : h \in InstanceDocs /\ Follows(h, c, t)
    <2>1. phase \in Phases /\ phase \in {c.doc.phase, "Deleted"} BY <1>1 DEF Phases, InstanceDocs
    <2>2. t.kind = "stopForDelete" => c.doc.phase = "Deleting" BY DEF CellInv, CleanupInv
    <2> HIDE DEF phase
    <2>3. /\ gone \in InstanceDocs /\ gone.gen = c.doc.gen /\ gone.target = c.doc.target
          /\ gone.observed = c.doc.observed /\ gone.mbase = c.doc.mbase /\ gone.mtmpl = c.doc.mtmpl
          /\ gone.phase = phase /\ gone.recon = c.doc.recon
        BY <1>1, <1>2, <2>1 DEF InstanceDocs
    <2>4. ASSUME NEW h \in {up, off, c.doc}
          PROVE /\ h \in InstanceDocs /\ h.gen = c.doc.gen /\ h.target = c.doc.target
                /\ h.observed = c.doc.observed /\ h.mbase = c.doc.mbase /\ h.mtmpl = c.doc.mtmpl
                /\ h.phase = c.doc.phase /\ h.recon = c.doc.recon
        BY <1>1, <2>4 DEF InstanceDocs
    <2> HIDE DEF gone, up, off
    <2>5. ASSUME t.kind = "stopForDelete" PROVE Follows(gone, c, t)
        BY <2>1, <2>2, <2>3, <2>5 DEF Follows, CleanupPhases
    <2>6. ASSUME t.kind # "stopForDelete", NEW h \in {up, off, c.doc} PROVE Follows(h, c, t)
        BY <2>4, <2>6 DEF Follows
    <2> QED BY <2>3, <2>4, <2>5, <2>6
<1> HIDE DEF rest, e, gone, up, off
<1>8. ASSUME NEW g \in InstanceDocs, Follows(g, c, t)
      PROVE /\ Stays(c, ClearInstanceWork([rest EXCEPT !.doc = g]), d)
            /\ Stays(c, [rest EXCEPT !.doc = g, !.work = {}], d)
    <2> DEFINE x == [rest EXCEPT !.doc = g]
               y == [rest EXCEPT !.doc = g, !.work = {}]
    <2>1. x \in Cells /\ x.st = c.st /\ x.tasks = c.tasks \ {t} /\ x.doc = g BY <1>4 DEF Cells
    <2>2. y.st = c.st /\ y.work = {} /\ y.tasks = c.tasks \ {t} /\ y.doc = g BY <1>4 DEF Cells
    <2> HIDE DEF x, y
    <2>3. Stays(c, ClearInstanceWork(x), d) BY <1>3, <1>8, <2>1, ClearedStays
    <2>4. Stays(c, y, d) BY <1>3, <1>8, <2>2, WorkEnds DEF Stays
    <2> QED BY <2>3, <2>4 DEF x, y
<1>9. Stays(c, Absent, d) BY AbsentCell DEF Stays, FirmCell, Dark, Matched, IsRunning
<1>10. t.kind # "stopForDelete" => Stays(c, ClearInstanceWork(rest), d)
    BY <1>3, <1>4, <1>7, ClearedStays
<1>11. Stays(c, e, d) BY <1>6, <1>7, <1>8, <1>9, <1>10
<1> QED BY <1>11 DEF e

\* A refresh of the credentials or of the host inputs, or a session, has ended.
LEMMA AuxiliaryStays ==
    ASSUME NEW c, CellInv(c), NEW t \in c.tasks, t.kind \in {"secrets", "hostInputs", "exec"},
           NEW d, FirmCell(c, d)
    PROVE Stays(c, Completed(c, t, d), d)
<1> DEFINE rest == [c EXCEPT !.tasks = @ \ {t}]
           e == Completed(c, t, d)
<1>1. c \in Cells /\ c.doc \in InstanceDocs BY DEF CellInv, Cells
<1>2. IsRunning(c) BY SlotOfTask
<1>3. /\ rest \in Cells /\ rest.st = c.st /\ rest.work = c.work /\ rest.secrets = c.secrets
      /\ rest.host = c.host /\ rest.session = c.session /\ rest.tasks = c.tasks \ {t} /\ rest.doc = c.doc
    BY <1>1 DEF Cells
<1>4. /\ t.kind = "secrets" => t.id \in c.secrets
      /\ t.kind = "hostInputs" => t.id \in c.host
      /\ t.kind = "exec" => t.id \in c.session
    BY DEF CellInv, LedgerInv, Ledger, Lane
<1> DEFINE Beside(x) ==
             /\ x.st = c.st /\ x.work = c.work /\ x.tasks = c.tasks \ {t}
             /\ x.doc.gen = c.doc.gen /\ x.doc.target = c.doc.target
             /\ x.doc.observed = c.doc.observed /\ x.doc.phase = c.doc.phase
             /\ x.doc.recon = c.doc.recon /\ x.doc.mbase = c.doc.mbase /\ x.doc.mtmpl = c.doc.mtmpl
<1>5. CASE t.kind = "secrets"
    <2> DEFINE expired == t.res = "expired"
               freed == [rest EXCEPT !.secrets = {}]
               failed == [freed EXCEPT !.repair = "Due", !.doc.hostReady = 0]
               renewed == [freed EXCEPT !.repair = "Idle", !.files = TRUE, !.doc.pid = t.pid,
                                        !.doc.expired = expired]
    <2>1. e \in {freed, failed, renewed}
        <3>1. e = CompleteRuntimeSecrets(rest, t) BY <1>5 DEF Completed
        <3>2. IsRunning(rest) /\ t.id \in rest.secrets BY <1>2, <1>3, <1>4, <1>5 DEF IsRunning
        <3> HIDE DEF rest, e
        <3> QED BY <3>1, <3>2, Zenon DEF CompleteRuntimeSecrets
    <2> HIDE DEF rest, e, expired
    <2>2. Beside(freed) /\ freed \in Cells BY <1>3 DEF Cells
    <2> HIDE DEF freed
    <2>3. Beside(failed) BY ZenonT(60), <1>1, <2>2 DEF Cells, InstanceDocs
    <2>4. Beside(renewed) BY ZenonT(60), <1>1, <2>2 DEF Cells, InstanceDocs
    <2> HIDE DEF failed, renewed, Beside
    <2>5. Beside(e) BY <2>1, <2>2, <2>3, <2>4
    <2> QED BY <1>2, <1>5, <2>5, AuxiliaryEnds DEF Beside, Stays, e
<1>6. CASE t.kind = "hostInputs"
    <2> DEFINE seen == IF t.res = "ok" THEN t.gen ELSE 0
               old == [rest EXCEPT !.host = {}]
               new == [rest EXCEPT !.host = {}, !.doc.hostReady = seen]
    <2>1. e \in {old, new}
        <3>1. e = CompleteHostInputs(rest, t) BY <1>6 DEF Completed
        <3>2. IsRunning(rest) /\ t.id \in rest.host BY <1>2, <1>3, <1>4, <1>6 DEF IsRunning
        <3> HIDE DEF rest, e
        <3> QED BY <3>1, <3>2, Zenon DEF CompleteHostInputs
    <2> HIDE DEF rest, e, seen
    <2>2. Beside(old) BY <1>3 DEF Cells
    <2>3. Beside(new) BY ZenonT(60), <1>1, <1>3 DEF Cells, InstanceDocs
    <2> HIDE DEF old, new, Beside
    <2>4. Beside(e) BY <2>1, <2>2, <2>3
    <2> QED BY <1>2, <1>6, <2>4, AuxiliaryEnds DEF Beside, Stays, e
<1>7. CASE t.kind = "exec"
    <2> DEFINE new == [rest EXCEPT !.session = {}, !.doc.sessions = 0]
    <2>1. e = new
        <3>1. e = CompleteExec(rest, t) BY <1>7 DEF Completed
        <3>2. IsRunning(rest) /\ t.id \in rest.session BY <1>2, <1>3, <1>4, <1>7 DEF IsRunning
        <3> HIDE DEF rest, e
        <3> QED BY <3>1, <3>2 DEF CompleteExec
    <2> HIDE DEF rest, e
    <2>2. Beside(new) BY ZenonT(60), <1>1, <1>3 DEF Cells, InstanceDocs
    <2> HIDE DEF new, Beside
    <2>3. Beside(e) BY <2>1, <2>2
    <2> QED BY <1>2, <1>7, <2>3, AuxiliaryEnds DEF Beside, Stays, e
<1> QED BY <1>5, <1>6, <1>7

\* handle_work_completion.
LEMMA CompletedStays ==
    ASSUME NEW c, CellInv(c), NEW t \in c.tasks, t.res # "running", NEW d, FirmCell(c, d),
           NEW i, Current(c, d, i)
    PROVE Stays(c, Completed(c, t, d), d)
<1>1. t.kind \in TaskKinds BY DEF CellInv, Cells, Tasks
<1> QED BY <1>1, CreateStays, TransitionStays, OtherWorkStays, AuxiliaryStays DEF TaskKinds

\* start_exec_command.
LEMMA StartExecStays ==
    ASSUME NEW c, CellInv(c), CanExec(c), NEW d, FirmCell(c, d)
    PROVE Stays(c, StartExec(c), d)
<1> DEFINE t == Task(c, "exec", 0)
           k == {t.id}
           e == StartExec(c)
<1>1. c \in Cells /\ LedgerInv(c) /\ IsRunning(c) BY DEF CellInv, CanExec
<1>2. t.kind = "exec" /\ t.res = "running" BY <1>1, TaskFacts DEF TaskKinds
<1>3. e = [c EXCEPT !.session = k, !.doc.sessions = 1, !.tasks = @ \cup {t}] BY DEF StartExec
<1> HIDE DEF t, e, k
<1>4. /\ e.st = c.st /\ e.work = c.work /\ e.tasks = c.tasks \cup {t}
      /\ e.doc.gen = c.doc.gen /\ e.doc.target = c.doc.target /\ e.doc.observed = c.doc.observed
      /\ e.doc.phase = c.doc.phase /\ e.doc.recon = c.doc.recon
      /\ e.doc.mbase = c.doc.mbase /\ e.doc.mtmpl = c.doc.mtmpl
    BY ZenonT(60), <1>1, <1>3 DEF Cells, InstanceDocs
<1>5. \A u \in e.tasks \ c.tasks : u.kind = "exec" /\ u.res = "running" BY <1>2, <1>4
<1>6. \A u \in c.tasks : u.kind = "start" => u \in e.tasks BY <1>4
<1>7. Stays(c, e, d) BY <1>1, <1>4, <1>5, <1>6, AuxiliaryEnds DEF Stays
<1> QED BY <1>7 DEF e


-----------------------------------------------------------------------------
(* The agent base. *)

\* reconcile_base asks for the base of the template of this generation.
LEMMA ReconcileBaseMatched ==
    ASSUME NEW d \in Docs, NEW b, NEW tasks, BaseOf(b, tasks), Keyed(b, tasks), NEW cells
    PROVE \A s \in {ReconcileBase(d, b, tasks), ReconcileBaseDeletion(b, tasks, cells)} :
            Keyed(s.base, s.tasks) /\ (BaseMatched(d, b, tasks) => BaseMatched(d, s.base, s.tasks))
<1>1. b \in BaseStates BY DEF BaseOf
<1>2. d.tmpl # None /\ d.gen \in Nat BY TemplatesAssumption DEF Docs, AgentDocs
<1>3. b.st \notin {"Preparing", "Building", "Stopping"} => tasks = {} BY <1>1, IdleBase
<1> DEFINE prepare == [kind |-> "prepare", id |-> 0, gen |-> d.gen, key |-> d.tmpl, res |-> "running"]
           stop == [kind |-> "stop", id |-> 0, gen |-> 0, key |-> None, res |-> "running"]
           same == [base |-> b, tasks |-> tasks]
<1>4. ReconcileBase(d, b, tasks) \in {same, [base |-> Base("Preparing"), tasks |-> {prepare}]}
    BY <1>3 DEF ReconcileBase, SpawnBase, Base
<1>5. ReconcileBaseDeletion(b, tasks, cells) \in {same, [base |-> Base("Stopping"), tasks |-> {stop}]}
    BY <1>3 DEF ReconcileBaseDeletion, SpawnBase, Base
<1>6. Base("Preparing").st = "Preparing" /\ Base("Stopping").st = "Stopping" BY DEF Base
<1>7. Keyed(Base("Preparing"), {prepare}) /\ BaseMatched(d, Base("Preparing"), {prepare})
    BY <1>2, <1>6 DEF Keyed, BaseMatched
<1>8. Keyed(Base("Stopping"), {stop}) /\ BaseMatched(d, Base("Stopping"), {stop})
    BY <1>6 DEF Keyed, BaseMatched
<1> HIDE DEF prepare, stop
<1> QED BY <1>4, <1>5, <1>7, <1>8

\* handle_base_completion: a base is taken over only for the generation it was built
\* for, or by an agent that is being deleted.
LEMMA BaseCompletionMatched ==
    ASSUME BaseInv, doc \in Docs, Keyed(base, baseTasks), NEW t \in baseTasks
    PROVE LET h == HandleBaseCompletion(t)
          IN  /\ Later(doc, h.doc) /\ Keyed(h.base, h.tasks)
              /\ BaseMatched(doc, base, baseTasks) => BaseMatched(h.doc, h.base, h.tasks)
<1> DEFINE h == HandleBaseCompletion(t)
           desired == MarkBaseDesired(doc, t.key)
           ready == MarkBaseReady(doc, t.key)
           failed == MarkBaseFailed(doc)
           rest == baseTasks \ {t}
<1>1. rest = {} BY DEF BaseInv, BaseOf, AtMostOne
<1>2. /\ base \in BaseStates /\ t \in BaseTaskRecords /\ base.id = t.id
      /\ t.kind = "prepare" => base.st = "Preparing"
      /\ t.kind = "build" => base.st = "Building" /\ base.gen = t.gen /\ base.key = t.key
      /\ t.kind = "stop" => base.st = "Stopping"
    BY DEF BaseInv, BaseOf
<1>3. t.kind # "stop" => t.key # None BY DEF Keyed
<1>4. BaseMatched(doc, base, baseTasks) /\ t.kind # "stop" =>
        t.gen <= doc.gen /\ (t.gen = doc.gen => t.key = doc.tmpl)
    BY DEF BaseMatched
<1>5. /\ Base("Missing").st = "Missing" /\ Base("Stopped").st = "Stopped"
      /\ BaseReady(t.key).st = "Ready" /\ BaseReady(t.key).key = t.key
    BY DEF Base, BaseReady
<1>6. /\ desired.gen = doc.gen /\ desired.baseDesired = t.key
      /\ desired.tmpl = doc.tmpl /\ desired.del = doc.del
      /\ ready.gen = doc.gen /\ ready.baseDesired = t.key
      /\ ready.tmpl = doc.tmpl /\ ready.del = doc.del
      /\ failed.gen = doc.gen /\ failed.baseDesired = doc.baseDesired
    BY DEF MarkBaseDesired, MarkBaseReady, MarkBaseFailed, Docs, AgentDocs
<1>7. doc.gen \in Nat BY DEF Docs, AgentDocs
<1>8. ASSUME NEW d, NEW b, h = [doc |-> d, base |-> b, tasks |-> {}], Later(doc, d), b.st # "Ready"
      PROVE Later(doc, h.doc) /\ Keyed(h.base, h.tasks) /\ BaseMatched(h.doc, h.base, h.tasks)
    BY <1>8 DEF Keyed, BaseMatched
<1>9. Later(doc, doc) BY <1>7 DEF Later
<1>10. CASE t.kind = "stop"
    <2>1. h = [doc |-> doc, tasks |-> {}, base |-> Base("Stopped")]
        BY <1>1, <1>2, <1>10 DEF HandleBaseCompletion, BaseStopped, OwnsBase
    <2> HIDE DEF h
    <2> QED BY <1>5, <1>8, <1>9, <2>1 DEF h
<1>11. CASE t.kind # "stop" /\ t.res = "err"
    <2> DEFINE key == IF base.st = "Preparing" THEN doc.baseDesired ELSE base.key
               b == [st |-> "Failed", id |-> 0, gen |-> t.gen, key |-> key]
    <2>1. base.st \in {"Preparing", "Building"} BY <1>2, <1>11 DEF BaseTaskRecords
    <2>2. h = IF t.gen # doc.gen THEN [doc |-> doc, base |-> Base("Missing"), tasks |-> {}]
              ELSE [doc |-> failed, base |-> b, tasks |-> {}]
        BY <1>1, <1>2, <1>11, <2>1 DEF HandleBaseCompletion, BaseFailed, OwnsBase
    <2>3. b.st = "Failed" OBVIOUS
    <2>4. Later(doc, failed) BY <1>6, <1>7 DEF Later
    <2> HIDE DEF b, h, failed
    <2> QED BY <1>5, <1>8, <1>9, <2>2, <2>3, <2>4 DEF h
<1>12. CASE t.kind = "prepare" /\ t.res # "err"
    <2> DEFINE b == [st |-> "Building", id |-> t.id, gen |-> t.gen, key |-> t.key]
               u == [t EXCEPT !.kind = "build", !.res = "running"]
    <2>1. h = IF t.gen # doc.gen THEN [doc |-> doc, base |-> Base("Missing"), tasks |-> {}]
              ELSE [doc |-> desired, base |-> b, tasks |-> {u}]
        BY <1>1, <1>2, <1>12 DEF HandleBaseCompletion, BasePrepared, OwnsBase
    <2>2. b.st = "Building" /\ u.kind = "build" /\ u.gen = t.gen /\ u.key = t.key
        BY <1>2 DEF BaseTaskRecords
    <2>3. Later(doc, desired) BY <1>3, <1>6, <1>7, <1>12 DEF Later
    <2> HIDE DEF b, u, h, desired
    <2>4. Keyed(b, {u}) BY <1>3, <1>12, <2>2 DEF Keyed
    <2>5. BaseMatched(doc, base, baseTasks) => BaseMatched(desired, b, {u})
        BY <1>4, <1>6, <1>12, <2>2 DEF BaseMatched
    <2>6. CASE t.gen # doc.gen BY <1>5, <1>8, <1>9, <2>1, <2>6 DEF h
    <2>7. CASE t.gen = doc.gen
        <3>1. h.doc = desired /\ h.base = b /\ h.tasks = {u} BY <2>1, <2>7
        <3> QED BY <2>3, <2>4, <2>5, <3>1 DEF h
    <2> QED BY <2>6, <2>7
<1>13. CASE t.kind = "build" /\ t.res # "err"
    <2>1. h = IF ~doc.del /\ t.gen # doc.gen THEN [doc |-> doc, base |-> Base("Missing"), tasks |-> {}]
              ELSE [doc |-> ready, base |-> BaseReady(t.key), tasks |-> {}]
        BY <1>1, <1>2, <1>13 DEF HandleBaseCompletion, BaseBuilt, OwnsBase
    <2>2. Later(doc, ready) BY <1>3, <1>6, <1>7, <1>13 DEF Later
    <2> HIDE DEF h, ready
    <2>3. Keyed(BaseReady(t.key), {}) BY <1>3, <1>5, <1>13 DEF Keyed
    <2>4. CASE ~doc.del /\ t.gen # doc.gen BY <1>5, <1>8, <1>9, <2>1, <2>4 DEF h
    <2>5. CASE ~(~doc.del /\ t.gen # doc.gen)
        <3>1. h.doc = ready /\ h.base = BaseReady(t.key) /\ h.tasks = {} BY <2>1, <2>5
        <3>2. BaseMatched(doc, base, baseTasks) => BaseMatched(ready, BaseReady(t.key), {})
            BY <1>4, <1>5, <1>6, <1>13, <2>5 DEF BaseMatched
        <3> QED BY <2>2, <2>3, <3>1, <3>2 DEF h
    <2> QED BY <2>4, <2>5
<1> QED BY <1>2, <1>10, <1>11, <1>12, <1>13 DEF BaseTaskRecords

-----------------------------------------------------------------------------
(* A turn of the loop. *)

\* What an input leaves for the turn.
Ready(d, b, tasks, cells) ==
    /\ Keyed(b, tasks)
    /\ \A i \in Ids : /\ FirmCell(cells[i], d)
                      /\ \A g \in file[i].doc : Firm(g, d) /\ \A x \in disk.doc : Firm(g, x)
    /\ crashes = 0 => BaseMatched(d, b, tasks) /\ \A i \in Ids : Matched(cells[i])
    /\ crashes = 0 /\ failures = 0 => \A i \in Ids : Dark(cells[i], vm[i])

\* A turn publishes what it has just made of the instances.
LEMMA TurnReports ==
    ASSUME NEW d \in Docs, NEW b, NEW tasks, BaseOf(b, tasks),
           NEW cells \in [Ids -> Cells], \A i \in Ids : CellInv(cells[i]), Ready(d, b, tasks, cells),
           NEW asked, Turn(d, b, tasks, cells, asked),
           failures \in Nat, UNCHANGED <<disk, file, vm, crashes, failures>>
    PROVE ReportInv'
<1> DEFINE choice == [i \in Ids |-> TurnCell(cells[i], d, b, i)]
           S(next) == IF d.del THEN ReconcileBaseDeletion(b, tasks, next)
                      ELSE IF Inactive(d) THEN [base |-> b, tasks |-> tasks]
                      ELSE ReconcileBase(d, b, tasks)
<1>1. PICK next \in Pick(choice) :
        /\ doc' = Write(d, S(next).base, next)
        /\ base' = S(next).base
        /\ baseTasks' = S(next).tasks
        /\ inst' = next
    BY Zenon DEF Turn
<1>2. \A i \in Ids : next[i] \in choice[i] BY <1>1 DEF Pick
<1>3. \A i \in Ids : next[i] \in TurnCell(cells[i], d, b, i) BY <1>2
<1>4. Keyed(b, tasks) BY DEF Ready
<1>5. /\ Keyed(S(next).base, S(next).tasks)
      /\ BaseMatched(d, b, tasks) => BaseMatched(d, S(next).base, S(next).tasks)
    BY <1>4, ReconcileBaseMatched
<1> HIDE DEF S, choice
<1>6. Spine(doc') = Spine(d) /\ Published(doc', next) BY <1>1, WriteSpine, WritePublishes
<1>7. /\ \A c : FirmCell(c, d) <=> FirmCell(c, doc')
      /\ \A g : Firm(g, d) <=> Firm(g, doc')
      /\ \A c, i : Current(c, d, i) <=> Current(c, doc', i)
      /\ \A x, y : BaseMatched(d, x, y) <=> BaseMatched(doc', x, y)
    BY <1>6, SpineFacts
<1>8. ASSUME NEW i \in Ids
      PROVE /\ FirmCell(next[i], d) /\ Current(next[i], d, i)
            /\ \A up : Dark(cells[i], up) => Dark(next[i], up)
            /\ Matched(cells[i]) /\ BaseMatched(d, b, tasks) => Matched(next[i])
    <2>1. CellInv(cells[i]) /\ FirmCell(cells[i], d) /\ next[i] \in TurnCell(cells[i], d, b, i)
        BY <1>3, <1>8 DEF Ready
    <2>2. CellInv(next[i]) /\ Goes(cells[i], next[i], d) BY <2>1, TurnCellGoes
    <2>3. Turned(cells[i], next[i], d, b, i) /\ Current(next[i], d, i) BY <2>1, TurnCellTurned
    <2> QED BY <1>4, <2>1, <2>2, <2>3, TurnedKeeps DEF Keyed, BaseMatched
<1>9. FilesInv' BY <1>7 DEF FilesInv, Ready
<1>10. \A i \in Ids : FirmCell(inst'[i], doc') /\ Current(inst'[i], doc', i) BY <1>1, <1>7, <1>8
<1>11. crashes' = 0 => BaseMatched(doc', base', baseTasks') /\ \A i \in Ids : Matched(inst'[i])
    BY <1>1, <1>5, <1>7, <1>8 DEF Ready
<1>12. crashes' = 0 /\ failures' = 0 => \A i \in Ids : Dark(inst'[i], vm'[i])
    BY <1>1, <1>8 DEF Ready
<1> QED BY <1>1, <1>5, <1>6, <1>9, <1>10, <1>11, <1>12 DEF ReportInv


\* An input that leaves the cells as firm as they were, under a later document.
LEMMA LoopTurnReports ==
    ASSUME AgentInv, ReportInv, Awaiting, NEW d \in Docs, Later(doc, d),
           NEW b, NEW tasks, BaseOf(b, tasks), Keyed(b, tasks), crashes = 0 => BaseMatched(d, b, tasks),
           NEW cells \in [Ids -> Cells],
           \A i \in Ids : CellInv(cells[i]) /\ Stays(inst[i], cells[i], doc),
           NEW asked, LoopTurn(d, b, tasks, cells, asked), UNCHANGED <<failures, crashes>>
    PROVE ReportInv'
<1>1. /\ Turn(d, b, tasks, cells, asked) /\ UNCHANGED <<disk, file, vm, crashes, failures>>
    BY DEF LoopTurn, world
<1>2. mode = "Running" /\ doc \in Docs BY DEF Awaiting, AgentInv, DocsInv
<1>3. ASSUME NEW i \in Ids
      PROVE /\ FirmCell(cells[i], d)
            /\ \A g \in file[i].doc : Firm(g, d) /\ \A x \in disk.doc : Firm(g, x)
            /\ crashes = 0 => Matched(cells[i])
            /\ crashes = 0 /\ failures = 0 => Dark(cells[i], vm[i])
    <2>1. Stays(inst[i], cells[i], doc) /\ cells[i] \in Cells BY <1>3
    <2>2. FirmCell(cells[i], d) BY <1>2, <2>1, LaterFirm DEF Stays
    <2>3. file[i].doc \subseteq InstanceDocs
        <3>1. FileOf(file[i], InstanceDocs) BY <1>3 DEF AgentInv, WorldInv
        <3> QED BY <3>1, FileKinds DEF FileOf
    <2>4. \A g \in file[i].doc : Firm(g, doc) /\ \A x \in disk.doc : Firm(g, x)
        BY <1>2, <1>3 DEF ReportInv, FilesInv
    <2>5. \A g \in file[i].doc : Firm(g, d) BY <1>2, <2>3, <2>4, LaterFirm
    <2>6. /\ crashes = 0 => Matched(inst[i])
          /\ crashes = 0 /\ failures = 0 => Dark(inst[i], vm[i])
        BY <1>3 DEF ReportInv
    <2> QED BY <2>1, <2>2, <2>4, <2>5, <2>6 DEF Stays
<1>4. Ready(d, b, tasks, cells) BY <1>3 DEF Ready
<1>5. failures \in Nat BY DEF ReportInv
<1> QED BY <1>1, <1>4, <1>5, TurnReports

\* A cell that no input touches.
LEMMA StaysHere ==
    ASSUME ReportInv, NEW i \in Ids PROVE Stays(inst[i], inst[i], doc)
BY DEF ReportInv, Stays

-----------------------------------------------------------------------------
(* Inputs. *)

\* The tasks of the base were asked for under an earlier generation.
LEMMA BaseOutlived ==
    ASSUME NEW d \in Docs, NEW e \in Docs, e.gen = d.gen + 1, NEW b, NEW tasks, BaseOf(b, tasks),
           BaseMatched(d, b, tasks), b.st = "Ready" /\ ~e.del => ~d.del /\ e.tmpl = d.tmpl
    PROVE BaseMatched(e, b, tasks)
<1>1. d.gen \in Nat BY DEF Docs, AgentDocs
<1>2. ASSUME NEW t \in tasks, t.kind # "stop" PROVE t.gen <= e.gen /\ t.gen # e.gen
    <2>1. t.gen \in Nat BY DEF BaseOf, BaseTaskRecords
    <2>2. t.gen <= d.gen BY <1>2 DEF BaseMatched
    <2> QED BY <1>1, <2>1, <2>2
<1> QED BY <1>2 DEF BaseMatched

\* Scale, delete, a timer, an exec and the completions.
LEMMA InputReports ==
    ASSUME AgentInv, ReportInv,
           \/ \E n \in 0 .. MaxReplicas : Scale(n)
           \/ Delete \/ Wake \/ CompleteBaseTask
           \/ \E i \in Ids : Exec(i)
           \/ \E i \in Ids, lane \in Lanes : CompleteTask(i, lane)
    PROVE ReportInv'
<1>1. doc \in Docs /\ BaseInv /\ BaseOf(base, baseTasks) BY DEF AgentInv, DocsInv, BaseInv
<1>2. /\ inst \in [Ids -> Cells]
      /\ \A i \in Ids : CellInv(inst[i]) /\ Stays(inst[i], inst[i], doc)
    BY AllLandHere, StaysHere
<1>3. /\ Keyed(base, baseTasks) /\ (crashes = 0 => BaseMatched(doc, base, baseTasks))
      /\ \A i \in Ids : FirmCell(inst[i], doc)
    BY DEF ReportInv
<1>4. doc.gen \in Nat /\ Later(doc, doc) BY <1>1 DEF Docs, AgentDocs, Later
<1>5. ASSUME NEW d \in Docs, d = doc \/ (d.gen = doc.gen + 1 /\ (d.del \/ (d.del = doc.del /\ d.tmpl = doc.tmpl))),
             Awaiting, UNCHANGED <<failures, crashes>>, NEW asked, LoopTurn(d, base, baseTasks, inst, asked)
      PROVE ReportInv'
    <2>1. Later(doc, d) BY <1>4, <1>5 DEF Later
    <2>2. crashes = 0 => BaseMatched(d, base, baseTasks) BY <1>1, <1>3, <1>5, BaseOutlived
    <2> QED BY <1>1, <1>2, <1>3, <1>5, <2>1, <2>2, LoopTurnReports
<1>6. ASSUME NEW n \in 0 .. MaxReplicas, Scale(n) PROVE ReportInv'
    <2> DEFINE d == SetReplicas(doc, n)
    <2>1. /\ Awaiting /\ UNCHANGED <<failures, crashes>> /\ LoopTurn(d, base, baseTasks, inst, TRUE)
        BY <1>6 DEF Scale, budgets
    <2>2. d \in Docs BY <1>1, <1>6, CommandDocs
    <2>3. d = doc \/ (d.gen = doc.gen + 1 /\ d.tmpl = doc.tmpl /\ d.del = doc.del) BY <1>1, CommandsLater
    <2> HIDE DEF d
    <2> QED BY <1>5, <2>1, <2>2, <2>3
<1>7. ASSUME Delete PROVE ReportInv'
    <2> DEFINE d == MarkDeletionRequested(doc)
    <2>1. /\ Awaiting /\ UNCHANGED <<failures, crashes>> /\ LoopTurn(d, base, baseTasks, inst, TRUE)
        BY <1>7 DEF Delete, budgets
    <2>2. d \in Docs BY <1>1, CommandDocs
    <2>3. d = doc \/ (d.gen = doc.gen + 1 /\ d.del) BY <1>1, CommandsLater
    <2> HIDE DEF d
    <2> QED BY <1>5, <2>1, <2>2, <2>3
<1>8. ASSUME Wake PROVE ReportInv'
    BY <1>1, <1>5, <1>8 DEF Wake, budgets
<1>9. ASSUME CompleteBaseTask PROVE ReportInv'
    <2>1. PICK t \in baseTasks :
            LoopTurn(HandleBaseCompletion(t).doc, HandleBaseCompletion(t).base,
                     HandleBaseCompletion(t).tasks, inst, FALSE)
        BY <1>9 DEF CompleteBaseTask
    <2> DEFINE h == HandleBaseCompletion(t)
    <2>2. Awaiting /\ UNCHANGED <<failures, crashes>> BY <1>9 DEF CompleteBaseTask, budgets
    <2>3. h.doc \in Docs /\ BaseOf(h.base, h.tasks) BY <1>1, BaseCompletionKeeps
    <2>4. /\ Later(doc, h.doc) /\ Keyed(h.base, h.tasks)
          /\ crashes = 0 => BaseMatched(h.doc, h.base, h.tasks)
        BY <1>1, <1>3, BaseCompletionMatched
    <2>5. LoopTurn(h.doc, h.base, h.tasks, inst, FALSE) BY <2>1
    <2> HIDE DEF h
    <2> QED BY <1>2, <2>2, <2>3, <2>4, <2>5, LoopTurnReports
<1>10. ASSUME NEW i \in Ids, NEW e, CellInv(e), Stays(inst[i], e, doc), Awaiting,
              UNCHANGED <<failures, crashes>>,
              LoopTurn(doc, base, baseTasks, [inst EXCEPT ![i] = e], FALSE)
       PROVE ReportInv'
    <2> DEFINE cells == [inst EXCEPT ![i] = e]
    <2>1. e \in Cells BY <1>10 DEF CellInv
    <2>2. cells \in [Ids -> Cells] /\ \A j \in Ids : CellInv(cells[j]) /\ Stays(inst[j], cells[j], doc)
        BY <1>2, <1>10, <2>1
    <2>3. LoopTurn(doc, base, baseTasks, cells, FALSE) BY <1>10
    <2> HIDE DEF cells
    <2> QED BY <1>1, <1>3, <1>4, <1>10, <2>2, <2>3, LoopTurnReports
<1>11. ASSUME NEW i \in Ids, Exec(i) PROVE ReportInv'
    <2>1. /\ Awaiting /\ UNCHANGED <<failures, crashes>> /\ CanExec(inst[i])
          /\ LoopTurn(doc, base, baseTasks, [inst EXCEPT ![i] = StartExec(inst[i])], FALSE)
        BY <1>11 DEF Exec
    <2>2. CellInv(StartExec(inst[i])) BY <1>2, <2>1, StartExecLands DEF Lands
    <2>3. Stays(inst[i], StartExec(inst[i]), doc) BY <1>2, <1>3, <2>1, StartExecStays
    <2> QED BY <1>10, <2>1, <2>2, <2>3
<1>12. ASSUME NEW i \in Ids, NEW lane \in Lanes, CompleteTask(i, lane) PROVE ReportInv'
    <2>1. PICK t \in inst[i].tasks :
            /\ t.res # "running"
            /\ LoopTurn(doc, base, baseTasks, [inst EXCEPT ![i] = Completed(inst[i], t, doc)], FALSE)
        BY <1>12 DEF CompleteTask
    <2>2. Awaiting /\ UNCHANGED <<failures, crashes>> BY <1>12 DEF CompleteTask, budgets
    <2>3. Current(inst[i], doc, i) BY <1>12, <2>2 DEF Awaiting, ReportInv
    <2>4. CellInv(Completed(inst[i], t, doc)) BY <1>2, CompletedLands DEF Lands
    <2>5. Stays(inst[i], Completed(inst[i], t, doc), doc) BY <1>2, <1>3, <2>1, <2>3, CompletedStays
    <2> QED BY <1>10, <2>1, <2>2, <2>4, <2>5
<1> QED BY <1>6, <1>7, <1>8, <1>9, <1>11, <1>12


\* A turn over cells of which nothing is left.
LEMMA AnewReports ==
    ASSUME NEW d \in Docs, NEW b, NEW tasks, BaseOf(b, tasks), Keyed(b, tasks), BaseMatched(d, b, tasks),
           NEW cells \in [Ids -> Cells],
           \A i \in Ids : CellInv(cells[i]) /\ cells[i].st = "absent" /\ file[i].doc = {},
           NEW asked, Turn(d, b, tasks, cells, asked),
           failures \in Nat, UNCHANGED <<disk, file, vm, crashes, failures>>
    PROVE ReportInv'
<1>1. \A i \in Ids : ~IsRunning(cells[i]) /\ cells[i].tasks = {} BY AbsentBound DEF IsRunning
<1>2. \A i \in Ids : FirmCell(cells[i], d) /\ Matched(cells[i]) /\ Dark(cells[i], vm[i])
    BY <1>1 DEF FirmCell, Matched, Dark
<1>3. Ready(d, b, tasks, cells) BY <1>2 DEF Ready
<1> QED BY <1>3, TurnReports

\* An applied manifest starts a generation, and with it another base, unless it asks
\* for what is there already or the agent had been deleted.
LEMMA ApplyReports ==
    ASSUME AgentInv, ReportInv, NEW m \in Manifests, NEW moved, Apply(m, moved)
    PROVE ReportInv'
<1>1. /\ Awaiting /\ UNCHANGED <<failures, crashes>>
      /\ LoopTurn(doc, base, baseTasks, inst, FALSE) \/ ApplyManifest(m, moved)
    BY DEF Apply, budgets
<1>2. doc \in Docs /\ BaseOf(base, baseTasks) BY DEF AgentInv, DocsInv, BaseInv
<1>3. /\ inst \in [Ids -> Cells]
      /\ \A i \in Ids : CellInv(inst[i]) /\ Stays(inst[i], inst[i], doc)
    BY AllLandHere, StaysHere
<1>4. Keyed(base, baseTasks) /\ (crashes = 0 => BaseMatched(doc, base, baseTasks)) BY DEF ReportInv
<1>5. doc.gen \in Nat /\ Later(doc, doc) BY <1>2 DEF Docs, AgentDocs, Later
<1>6. ASSUME NEW asked, LoopTurn(doc, base, baseTasks, inst, asked) PROVE ReportInv'
    BY <1>1, <1>2, <1>3, <1>4, <1>5, <1>6, LoopTurnReports
<1>7. CASE ApplyManifest(m, moved) /\ ~LoopTurn(doc, base, baseTasks, inst, TRUE)
    <2> DEFINE updated == Updated(m)
               genChanged == updated.gen # doc.gen
               restart == /\ genChanged \/ (updated.baseDesired = None /\ updated.baseReady = None)
                          /\ base.st \notin {"Preparing", "Building", "Stopping"}
               forget == [i \in Ids |-> [inst[i] EXCEPT !.files = @ /\ ~genChanged]]
               written == Write(updated, base, inst)
               b == IF restart THEN Base("Missing") ELSE base
    <2>1. LoopTurn(written, b, baseTasks, forget, TRUE)
        BY <1>7, Zenon DEF ApplyManifest
    <2>2. updated \in Docs
        BY <1>2, FromManifestDoc, ManifestsMeant, AfterExistingDoc DEF Updated
    <2>3. ASSUME NEW i \in Ids
          PROVE /\ forget[i] \in Cells /\ CellInv(forget[i]) /\ forget[i].st = inst[i].st
                /\ Stays(inst[i], forget[i], doc)
        <3> DEFINE c == inst[i]
                   keep == c.files /\ ~genChanged
                   e == [c EXCEPT !.files = keep]
        <3>1. forget[i] = e OBVIOUS
        <3>2. keep \in BOOLEAN BY Zenon
        <3>3. CellInv(c) /\ Stays(c, c, doc) BY <1>3
        <3> HIDE DEF keep, c, forget
        <3>4. /\ e \in Cells /\ e.st = c.st /\ e.work = c.work /\ e.secrets = c.secrets
              /\ e.host = c.host /\ e.session = c.session /\ e.saved = c.saved /\ e.tasks = c.tasks
              /\ e.doc = c.doc
            BY <3>2, <3>3 DEF CellInv, Cells
        <3> HIDE DEF e
        <3>5. CellInv(e)
            BY <3>3, <3>4 DEF CellInv, LedgerInv, SlotInv, CleanupInv, IsRunning
        <3>6. Stays(c, e, doc) BY <3>3, <3>4 DEF Stays, FirmCell, Dark, Matched, IsRunning
        <3> QED BY <3>1, <3>4, <3>5, <3>6 DEF c
    <2>4. forget \in [Ids -> Cells] BY <2>3
    <2>5. BaseOf(b, baseTasks) /\ (restart => baseTasks = {})
        <3>1. restart => base.st \notin {"Preparing", "Building", "Stopping"} OBVIOUS
        <3>2. base \in BaseStates BY <1>2 DEF BaseOf
        <3>3. restart => baseTasks = {} BY <1>2, <3>1, <3>2, IdleBase
        <3>4. BaseOf(Base("Missing"), {}) BY BaseRecords, IdleBase
        <3> QED BY <1>2, <3>3, <3>4
    <2>6. Base("Missing").st = "Missing" BY DEF Base
    <2>7. Keyed(b, baseTasks) BY <1>4, <2>6 DEF Keyed
    <2>8. written \in Docs BY <1>3, <2>2, WriteDoc
    <2>9. Spine(written) = Spine(updated) BY <2>2, WriteSpine
    <2>10. /\ written.gen = updated.gen /\ written.del = updated.del /\ written.tmpl = updated.tmpl
           /\ written.baseDesired = updated.baseDesired
           /\ \A x, y : BaseMatched(written, x, y) <=> BaseMatched(updated, x, y)
        BY <2>9, SpineFacts
    <2>11. CASE doc.deleted
        <3>1. /\ \A i \in Ids : inst[i].st = "absent"
              /\ base.st \in {"Stopped", "Missing", "Failed"}
            BY <2>11 DEF AgentInv, DocsInv
        <3>2. base \in BaseStates /\ baseTasks = {} BY <1>2, <3>1, IdleBase DEF BaseOf
        <3>3. BaseMatched(written, b, baseTasks) BY <2>6, <3>1, <3>2 DEF BaseMatched
        <3>4. mode = "Running" BY <1>1 DEF Awaiting
        <3>5. ASSUME NEW i \in Ids PROVE file[i].doc = {}
            <4>1. file[i] = NoFile BY <3>1, <3>4, <3>5 DEF AgentInv, WorldInv, Fits, IsRunning
            <4> QED BY <4>1, FileKinds
        <3>6. /\ Turn(written, b, baseTasks, forget, TRUE) /\ UNCHANGED <<disk, file, vm, crashes, failures>>
            BY <1>1, <2>1 DEF LoopTurn, world
        <3>7. failures \in Nat BY DEF ReportInv
        <3>8. \A i \in Ids : CellInv(forget[i]) /\ forget[i].st = "absent" /\ file[i].doc = {}
            BY <2>3, <3>1, <3>5
        <3> HIDE DEF forget, b, written, updated
        <3> QED BY <2>4, <2>5, <2>7, <2>8, <3>3, <3>6, <3>7, <3>8, AnewReports
    <2>12. CASE ~doc.deleted
        <3>1. updated = FromManifestAfterExisting(m, doc) BY <2>12 DEF Updated
        <3>2. updated = doc \/ updated.gen = doc.gen + 1 BY <1>2, <3>1, CommandsLater
        <3> HIDE DEF updated
        <3>3. genChanged => b.st # "Ready" BY <2>6
        <3>4. genChanged <=> updated # doc BY <1>5, <3>2
        <3>5. crashes = 0 => BaseMatched(updated, b, baseTasks)
            <4>1. CASE updated = doc BY <1>4, <2>5, <2>6, <4>1 DEF BaseMatched
            <4>2. CASE updated # doc
                <5>1. crashes = 0 => BaseMatched(doc, b, baseTasks)
                    BY <1>4, <2>5, <2>6 DEF BaseMatched
                <5> HIDE DEF b, genChanged
                <5> QED BY <1>2, <2>2, <2>5, <3>2, <3>3, <3>4, <4>2, <5>1, BaseOutlived
            <4> QED BY <4>1, <4>2
        <3>6. Later(doc, written) BY <1>5, <2>10, <3>2 DEF Later
        <3>7. crashes = 0 => BaseMatched(written, b, baseTasks) BY <2>10, <3>5
        <3> HIDE DEF forget, b, written
        <3> QED BY <1>1, <2>1, <2>3, <2>4, <2>5, <2>7, <2>8, <3>6, <3>7, LoopTurnReports
    <2> QED BY <2>11, <2>12
<1> QED BY <1>1, <1>6, <1>7

\* The first apply finds nothing to report yet.
LEMMA ApplyFirstReports ==
    ASSUME AgentInv, ReportInv, NEW m \in Manifests, ApplyFirst(m) PROVE ReportInv'
<1> DEFINE none == [i \in Ids |-> Absent]
           d == FromManifest(m)
<1>1. /\ mode = "Starting" /\ Turn(d, Base("Missing"), {}, none, TRUE)
      /\ UNCHANGED <<disk, file, vm, crashes, failures>>
    BY DEF ApplyFirst, world, budgets
<1>2. d \in Docs BY ManifestsMeant, FromManifestDoc
<1>3. BaseOf(Base("Missing"), {}) /\ Base("Missing").st = "Missing" BY BaseRecords, IdleBase
<1>4. CellInv(Absent) /\ Absent \in Cells /\ Absent.st = "absent" BY AbsentCell DEF CellInv
<1>5. disk = NoFile BY <1>1 DEF AgentInv, DocsInv
<1>6. \A i \in Ids : file[i].doc = {} BY <1>5, FileKinds DEF AgentInv, WorldInv
<1>7. none \in [Ids -> Cells] /\ \A i \in Ids : CellInv(none[i]) /\ none[i].st = "absent" BY <1>4
<1>8. Keyed(Base("Missing"), {}) /\ BaseMatched(d, Base("Missing"), {}) BY <1>3 DEF Keyed, BaseMatched
<1>9. failures \in Nat BY DEF ReportInv
<1> HIDE DEF none, d
<1> QED BY <1>1, <1>2, <1>3, <1>6, <1>7, <1>8, <1>9, AnewReports


-----------------------------------------------------------------------------
(* Tasks. *)

\* A VM is found stopped only by the task that looked for it and did not find it, and
\* a stop that succeeds leaves none the loop knew of.
LEMMA OutcomesHonest ==
    ASSUME NEW i \in Ids, NEW t \in Tasks, crashes \in Nat, NEW o \in Outcomes(i, t)
    PROVE /\ o.res = "stopped" => t.kind = "reconcile" /\ o.vm = vm[i] /\ ~(t.pid /\ vm[i])
          /\ t.kind = "stop" /\ o.res = "ok" => ~Known(crashes, o.vm)
<1> DEFINE Is(res, up) == o.res = res /\ o.vm = up
<1>1. t.kind \in TaskKinds BY DEF Tasks
<1>2. \A res, up, pid, there : o = Outcome(res, up, pid, there) => Is(res, up) BY DEF Outcome
<1>3. \A res : o = Same(i, t, res) => Is(res, vm[i]) BY <1>2 DEF Same
<1> HIDE DEF Is
<1>4. t.kind = "reconcile" =>
        Is("err", vm[i]) \/ Is("ok", vm[i]) \/ (~(t.pid /\ vm[i]) /\ Is("stopped", vm[i]))
    BY <1>2, <1>3 DEF Outcomes, ReconcileOutcomes
<1>5. t.kind \in {"stop", "stopForDelete"} =>
        \/ Is("err", vm[i]) \/ Is("err", FALSE)
        \/ Is("ok", FALSE) \/ Is("ok", vm[i] /\ crashes > 0)
    BY <1>2, <1>3 DEF Outcomes, StopOutcomes
<1>6. t.kind = "create" => Is("err", vm[i]) \/ Is("ok", vm[i])
    BY <1>2, <1>3, Zenon DEF Outcomes, CreateOutcomes
<1>7. t.kind = "start" => Is("err", vm[i]) \/ Is("ok", TRUE) \/ Is("err", TRUE)
    BY <1>2, <1>3 DEF Outcomes, StartOutcomes
<1>8. t.kind = "removeFiles" => Is("err", vm[i]) \/ Is("ok", vm[i])
    BY <1>2, <1>3 DEF Outcomes, RemoveFilesOutcomes
<1>9. t.kind \in {"bootstrap", "tailscale", "secrets", "hostInputs", "exec"} =>
        Is("ok", vm[i]) \/ Is("err", vm[i]) \/ Is("expired", vm[i])
    BY <1>2, <1>3 DEF Outcomes, BootstrapOutcomes, TailscaleOutcomes, SecretsOutcomes,
                      HostInputsOutcomes, ExecOutcomes
<1>10. \A up : ~Known(crashes, up /\ crashes > 0) BY DEF Known
<1>11. t.kind = "stop" /\ o.res = "ok" => ~Known(crashes, o.vm) BY <1>5, <1>10 DEF Is, Known
<1> QED BY <1>1, <1>4, <1>5, <1>6, <1>7, <1>8, <1>9, <1>11 DEF TaskKinds, Is

\* A task that ends changes nothing of what its instance says.
LEMMA EndedReports ==
    ASSUME NEW c, CellInv(c), NEW t \in c.tasks, NEW up, NEW on, NEW there, NEW o,
           Yields(t, up, on, there, o),
           Backed(c, up) /\ o.res = "stopped" => t.kind = "reconcile" /\ ~on,
           t.kind = "stop" /\ o.res = "ok" => ~on
    PROVE LET e == Ended(c, t, o)
          IN  /\ e.st = c.st /\ e.doc = c.doc
              /\ \A d : FirmCell(c, d) => FirmCell(e, d)
              /\ Matched(c) => Matched(e)
              /\ o.res \notin {"err", "expired"} /\ Backed(c, up) /\ Dark(c, up) => Dark(e, on)
<1> DEFINE u == [t EXCEPT !.res = o.res, !.pid = o.pid]
           e == Ended(c, t, o)
<1>1. c \in Cells /\ t \in Tasks BY DEF CellInv, Cells
<1>2. /\ u.kind = t.kind /\ u.gen = t.gen /\ u.base = t.base /\ u.tmpl = t.tmpl /\ u.res = o.res
    BY <1>1 DEF Tasks
<1>3. /\ e.st = c.st /\ e.doc = c.doc /\ e.work = c.work /\ e.tasks = (c.tasks \ {t}) \cup {u}
    BY <1>1 DEF Ended, Cells
<1> HIDE DEF u, e
<1>4. ASSUME NEW d, FirmCell(c, d) PROVE FirmCell(e, d)
    BY <1>2, <1>3, <1>4 DEF FirmCell, FirmTask, IsRunning
<1>5. Matched(c) => Matched(e) BY <1>2, <1>3 DEF Matched, IsRunning
<1>6. ASSUME o.res \notin {"err", "expired"}, Backed(c, up), Dark(c, up) PROVE Dark(e, on)
    <2>1. ASSUME NEW x \in e.tasks
          PROVE /\ x.res \notin {"err", "expired"}
                /\ x.res = "stopped" => x.kind = "reconcile" /\ ~on
                /\ x.kind = "stop" /\ x.res = "ok" => ~on
        <3>1. CASE x = u BY <1>2, <1>6, <3>1
        <3>2. CASE x # u
            <4>1. x \in c.tasks /\ x # t BY <1>3, <2>1, <3>2
            <4>2. /\ x.res \notin {"err", "expired"}
                  /\ x.res = "stopped" => x.kind = "reconcile" /\ ~up
                  /\ x.kind = "stop" /\ x.res = "ok" => ~up
                BY <1>6, <4>1 DEF Dark
            <4>3. x.kind \in {"reconcile", "stop"} => t.kind # "start"
                BY <4>1, SlotOfTask DEF Lane
            <4>4. x.kind \in {"reconcile", "stop"} => (on => up) BY <4>3 DEF Yields
            <4> QED BY <4>2, <4>4
        <3> QED BY <3>1, <3>2
    <2>2. ASSUME on, IsRunning(e), e.doc.phase = "Stopped" PROVE \E x \in e.tasks : x.kind = "start"
        <3>1. IsRunning(c) /\ c.doc.phase = "Stopped" BY <1>3, <2>2 DEF IsRunning
        <3>2. CASE t.kind = "start" BY <1>2, <1>3, <3>2
        <3>3. CASE t.kind # "start"
            <4>1. up BY <2>2, <3>3 DEF Yields
            <4>2. PICK x \in c.tasks : x.kind = "start" BY <1>6, <3>1, <4>1 DEF Dark
            <4> QED BY <1>3, <3>3, <4>2
        <3> QED BY <3>2, <3>3
    <2> QED BY <2>1, <2>2 DEF Dark
<1> QED BY <1>3, <1>4, <1>5, <1>6 DEF e

\* What is published depends on the instances, not on the tasks that work on them.
LEMMA PublishedSame ==
    ASSUME NEW cells, NEW next, \A i \in Ids : next[i].st = cells[i].st /\ next[i].doc = cells[i].doc
    PROVE /\ \A d : Published(d, cells) <=> Published(d, next)
          /\ \A d : \A i \in Ids : Current(cells[i], d, i) <=> Current(next[i], d, i)
<1>1. \A i \in Ids : IsRunning(next[i]) <=> IsRunning(cells[i]) BY DEF IsRunning
<1>2. RunningIds(next) = RunningIds(cells) BY <1>1 DEF RunningIds
<1>3. \A d : InstancesObserved(d, next) <=> InstancesObserved(d, cells) BY <1>1 DEF InstancesObserved
<1>4. \A i \in RunningIds(cells) : next[i].doc = cells[i].doc BY DEF RunningIds
<1>5. {i \in RunningIds(next) : next[i].doc.phase = "Running"}
        = {i \in RunningIds(cells) : cells[i].doc.phase = "Running"}
    BY <1>2, <1>4
<1>6. ASSUME NEW d PROVE Published(d, cells) <=> Published(d, next)
    <2>1. AllStopped(d, cells) <=> AllStopped(d, next) BY <1>2, <1>3, <1>4 DEF AllStopped
    <2>2. AllUp(d, cells) <=> AllUp(d, next) BY <1>3, <1>5 DEF AllUp
    <2> QED BY <2>1, <2>2 DEF Published
<1>7. ASSUME NEW d, NEW i \in Ids PROVE Current(cells[i], d, i) <=> Current(next[i], d, i)
    BY <1>1, <1>7 DEF Current, Projected
<1> QED BY <1>6, <1>7

\* Failures are counted.
LEMMA FailsCounts ==
    ASSUME failures \in Nat, NEW bad, Fails(bad)
    PROVE failures' \in Nat /\ (failures' = 0 => failures = 0 /\ ~bad)
BY DEF Fails


\* A task that ends changes the VM and its own result.
LEMMA FinishTaskReports ==
    ASSUME AgentInv, ReportInv, NEW i \in Ids, NEW lane \in Lanes, FinishTask(i, lane) PROVE ReportInv'
<1>1. PICK t, o :
        /\ t \in inst[i].tasks /\ o \in Outcomes(i, t)
        /\ Fails(o.res \in {"err", "expired"})
        /\ inst' = [inst EXCEPT ![i].tasks = (@ \ {t}) \cup {[t EXCEPT !.res = o.res, !.pid = o.pid]}]
        /\ vm' = [vm EXCEPT ![i] = o.vm]
        /\ \/ t.kind = "removeFiles" /\ file' = [file EXCEPT ![i] = NoFile]
           \/ ~(t.kind = "removeFiles" /\ o.res = "ok") /\ UNCHANGED file
    BY DEF FinishTask
<1>2. UNCHANGED <<mode, doc, base, baseTasks, disk, crashes>> BY DEF FinishTask
<1>3. /\ inst \in [Ids -> Cells] /\ \A j \in Ids : CellInv(inst[j])
      /\ vm \in [Ids -> BOOLEAN] /\ dir \in [Ids -> BOOLEAN] /\ DOMAIN file = Ids /\ crashes \in Nat
    BY DEF AgentInv, DocsInv, CellsInv, WorldInv
<1>4. t \in Tasks BY <1>1, <1>3 DEF Cells
<1> DEFINE was == Known(crashes, vm[i])
           on == Known(crashes, o.vm)
<1>5. o.vm \in BOOLEAN /\ Yields(t, was, on, dir[i], o) BY <1>1, <1>3, <1>4, OutcomesYield
<1>6. /\ o.res = "stopped" => t.kind = "reconcile" /\ o.vm = vm[i] /\ ~(t.pid /\ vm[i])
      /\ t.kind = "stop" /\ o.res = "ok" => ~on
    BY <1>1, <1>3, <1>4, OutcomesHonest
<1>7. Backed(inst[i], was) /\ o.res = "stopped" => t.kind = "reconcile" /\ ~on
    BY <1>1, <1>6 DEF Backed, Known, BackendTasks
<1> HIDE DEF was, on
<1> DEFINE e == Ended(inst[i], t, o)
<1>8. inst' = [inst EXCEPT ![i] = e] BY <1>1 DEF Ended
<1>9. /\ e.st = inst[i].st /\ e.doc = inst[i].doc
      /\ \A d : FirmCell(inst[i], d) => FirmCell(e, d)
      /\ Matched(inst[i]) => Matched(e)
      /\ o.res \notin {"err", "expired"} /\ Backed(inst[i], was) /\ Dark(inst[i], was) => Dark(e, on)
    BY <1>1, <1>3, <1>5, <1>6, <1>7, EndedReports
<1> HIDE DEF e
<1>10. /\ inst'[i] = e /\ \A j \in Ids : j # i => inst'[j] = inst[j]
       /\ vm'[i] = o.vm /\ \A j \in Ids : j # i => vm'[j] = vm[j]
    BY <1>1, <1>3, <1>8
<1>11. \A j \in Ids : file'[j] = file[j] \/ file'[j] = NoFile BY <1>1, <1>3
<1>12. failures' \in Nat /\ (failures' = 0 => failures = 0 /\ o.res \notin {"err", "expired"})
    BY <1>1, FailsCounts DEF ReportInv
<1>13. Keyed(base', baseTasks') BY <1>2 DEF ReportInv
<1>14. FilesInv' BY <1>2, <1>11, FileKinds DEF ReportInv, FilesInv
<1>15. \A j \in Ids : FirmCell(inst'[j], doc') BY <1>2, <1>9, <1>10 DEF ReportInv
<1>16. mode' = "Running" => Published(doc', inst') /\ \A j \in Ids : Current(inst'[j], doc', j)
    <2>1. \A j \in Ids : inst'[j].st = inst[j].st /\ inst'[j].doc = inst[j].doc BY <1>9, <1>10
    <2> QED BY <1>2, <2>1, PublishedSame DEF ReportInv
<1>17. crashes' = 0 => BaseMatched(doc', base', baseTasks') /\ \A j \in Ids : Matched(inst'[j])
    BY <1>2, <1>9, <1>10 DEF ReportInv
<1>18. crashes' = 0 /\ failures' = 0 => \A j \in Ids : Dark(inst'[j], vm'[j])
    <2>1. Backed(inst[i], was) BY DEF AgentInv, WorldInv, was
    <2>2. crashes = 0 => (was <=> vm[i]) /\ (on <=> o.vm) BY DEF was, on, Known
    <2>3. crashes = 0 /\ Dark(inst[i], vm[i]) => Dark(inst[i], was) BY <2>2 DEF Dark
    <2>4. crashes = 0 /\ Dark(e, on) => Dark(e, o.vm) BY <2>2 DEF Dark
    <2> QED BY <1>2, <1>9, <1>10, <1>12, <2>1, <2>3, <2>4 DEF ReportInv
<1> QED BY <1>12, <1>13, <1>14, <1>15, <1>16, <1>17, <1>18 DEF ReportInv

\* A task of the base that ends keeps its generation and its key.
LEMMA FinishBaseTaskReports ==
    ASSUME AgentInv, ReportInv, FinishBaseTask PROVE ReportInv'
<1>1. PICK t \in baseTasks, res \in {"ok", "err"} :
        Fails(res = "err") /\ baseTasks' = (baseTasks \ {t}) \cup {[t EXCEPT !.res = res]}
    BY DEF FinishBaseTask
<1>2. UNCHANGED <<mode, doc, base, inst, disk, file, vm, crashes>> BY DEF FinishBaseTask, world
<1> DEFINE u == [t EXCEPT !.res = res]
<1>3. t \in BaseTaskRecords BY DEF AgentInv, BaseInv, BaseOf
<1>4. u.kind = t.kind /\ u.gen = t.gen /\ u.key = t.key BY <1>3 DEF BaseTaskRecords
<1>5. baseTasks' = (baseTasks \ {t}) \cup {u} BY <1>1
<1> HIDE DEF u
<1>6. failures' \in Nat /\ (failures' = 0 => failures = 0) BY <1>1, FailsCounts DEF ReportInv
<1>7. Keyed(base', baseTasks') BY <1>2, <1>4, <1>5 DEF ReportInv, Keyed
<1>8. crashes' = 0 => BaseMatched(doc', base', baseTasks')
    BY <1>2, <1>4, <1>5 DEF ReportInv, BaseMatched
<1>9. FilesInv' BY <1>2 DEF ReportInv, FilesInv
<1> QED BY <1>2, <1>6, <1>7, <1>8, <1>9 DEF ReportInv

\* A VM that dies counts as a failure.
LEMMA VmDiesReports ==
    ASSUME AgentInv, ReportInv, NEW i \in Ids, VmDies(i) PROVE ReportInv'
<1>1. Fails(TRUE) /\ UNCHANGED <<mode, doc, base, baseTasks, inst, disk, file, crashes>>
    BY DEF VmDies, mem
<1>2. failures' \in Nat /\ failures' # 0 BY <1>1, FailsCounts DEF ReportInv
<1>3. FilesInv' BY <1>1 DEF ReportInv, FilesInv
<1> QED BY <1>1, <1>2, <1>3 DEF ReportInv

-----------------------------------------------------------------------------
(* Commits, crashes and restarts. *)

\* persist_to, for the agent document: it is the one the loop has compared the files with.
LEMMA WriteAgentDocReports ==
    ASSUME AgentInv, ReportInv, WriteAgentDoc PROVE ReportInv'
<1>1. /\ mode = "Running" /\ disk' = Holding(doc)
      /\ UNCHANGED <<mode, doc, base, baseTasks, inst, file, vm, crashes, failures>>
    BY DEF WriteAgentDoc, Committing, budgets
<1>2. disk'.doc = {doc} BY <1>1, FileKinds
<1>3. FilesInv' BY <1>1, <1>2 DEF ReportInv, FilesInv
<1> QED BY <1>1, <1>3 DEF ReportInv

\* persist_to, for an instance: its document is firm, and the agent document on disk is
\* the one in memory.
LEMMA WriteInstanceDocReports ==
    ASSUME AgentInv, ReportInv, NEW i \in Ids, WriteInstanceDoc(i) PROVE ReportInv'
<1> DEFINE c == inst[i]
           e == [c EXCEPT !.saved = {c.doc}]
<1>1. /\ mode = "Running" /\ InstanceDue(i)
      /\ file' = [file EXCEPT ![i] = Holding(c.doc)]
      /\ inst' = [inst EXCEPT ![i] = e]
      /\ UNCHANGED <<mode, doc, base, baseTasks, disk, vm, crashes, failures>>
    BY DEF WriteInstanceDoc, Committing, budgets
<1>2. (\A x \in disk.doc : x = doc) /\ IsRunning(c) BY <1>1, InstanceDueFacts
<1>3. inst \in [Ids -> Cells] /\ c \in Cells /\ DOMAIN file = Ids BY DEF AgentInv, CellsInv, WorldInv
<1>4. FirmCell(c, doc) BY DEF ReportInv
<1> HIDE DEF c
<1>5. e.st = c.st /\ e.doc = c.doc /\ e.work = c.work /\ e.tasks = c.tasks BY <1>3 DEF Cells
<1> HIDE DEF e
<1>6. /\ inst'[i] = e /\ \A j \in Ids : j # i => inst'[j] = inst[j]
      /\ file'[i] = Holding(c.doc) /\ \A j \in Ids : j # i => file'[j] = file[j]
    BY <1>1, <1>3
<1>7. /\ \A d : FirmCell(c, d) => FirmCell(e, d)
      /\ Matched(c) => Matched(e)
      /\ \A up : Dark(c, up) => Dark(e, up)
    BY <1>5 DEF FirmCell, Matched, Dark, IsRunning
<1>8. file'[i].doc = {c.doc} BY <1>6, FileKinds
<1>9. Firm(c.doc, doc) BY <1>2, <1>4 DEF FirmCell
<1>10. FilesInv' BY <1>1, <1>2, <1>6, <1>8, <1>9 DEF ReportInv, FilesInv
<1>11. Published(doc', inst') /\ \A j \in Ids : Current(inst'[j], doc', j)
    <2>1. \A j \in Ids : inst'[j].st = inst[j].st /\ inst'[j].doc = inst[j].doc BY <1>5, <1>6 DEF c
    <2>2. Published(doc, inst) /\ \A j \in Ids : Current(inst[j], doc, j) BY <1>1 DEF ReportInv
    <2>3. doc' = doc BY <1>1
    <2> QED BY <2>1, <2>2, <2>3, PublishedSame
<1>12. \A j \in Ids : /\ FirmCell(inst[j], doc) => FirmCell(inst'[j], doc)
                      /\ Matched(inst[j]) => Matched(inst'[j])
                      /\ Dark(inst[j], vm[j]) => Dark(inst'[j], vm[j])
    BY <1>6, <1>7 DEF c
<1> QED BY <1>1, <1>10, <1>11, <1>12 DEF ReportInv

\* A write that is cut short leaves fewer documents to be wrong about.
LEMMA CutShortFiles ==
    ASSUME AgentInv, mode = "Running", WriteCutShort
    PROVE disk'.doc \subseteq disk.doc /\ \A j \in Ids : file'[j].doc \subseteq file[j].doc
BY CutShortFacts, FileKinds

\* A write that fails is a failure; the documents in memory stay.
LEMMA WriteFailsReports ==
    ASSUME AgentInv, ReportInv, WriteFails PROVE ReportInv'
<1>1. /\ mode = "Running" /\ WriteCutShort /\ Fails(TRUE)
      /\ UNCHANGED <<mode, doc, base, baseTasks, inst, vm, crashes>>
    BY DEF WriteFails, Committing, mem
<1>2. disk'.doc \subseteq disk.doc /\ \A j \in Ids : file'[j].doc \subseteq file[j].doc
    BY <1>1, CutShortFiles
<1>3. FilesInv' BY <1>1, <1>2 DEF ReportInv, FilesInv
<1>4. failures' \in Nat /\ failures' # 0 BY <1>1, FailsCounts DEF ReportInv
<1> QED BY <1>1, <1>3, <1>4 DEF ReportInv

\* The directory of a deleted agent goes with all its files.
LEMMA RemoveAgentDirReports ==
    ASSUME AgentInv, ReportInv, RemoveAgentDir PROVE ReportInv'
<1>1. /\ UNCHANGED <<mode, doc, base, baseTasks, inst, vm, crashes, failures>>
      /\ (file' = [i \in Ids |-> NoFile]) \/ UNCHANGED <<disk, file>>
    BY DEF RemoveAgentDir, Committing, budgets
<1>2. FilesInv'
    <2>1. CASE file' = [i \in Ids |-> NoFile]
        <3>1. \A i \in Ids : file'[i].doc = {} BY <2>1, FileKinds
        <3> QED BY <3>1 DEF FilesInv
    <2>2. CASE UNCHANGED <<disk, file>> BY <1>1, <2>2 DEF ReportInv, FilesInv
    <2> QED BY <1>1, <2>1, <2>2
<1> QED BY <1>1, <1>2 DEF ReportInv

\* A crash leaves the files.
LEMMA CrashReports ==
    ASSUME AgentInv, ReportInv, Crash PROVE ReportInv'
<1>1. /\ mode' = "Down" /\ crashes' = crashes + 1 /\ failures' = failures
      /\ base' = Base("Missing") /\ baseTasks' = {} /\ inst' = [i \in Ids |-> Absent]
      /\ (mode = "Running" /\ WriteCutShort) \/ UNCHANGED <<disk, file>>
    BY DEF Crash, Committing
<1>2. disk'.doc \subseteq disk.doc /\ \A j \in Ids : file'[j].doc \subseteq file[j].doc
    BY <1>1, CutShortFiles
<1>3. FilesInv' BY <1>1, <1>2 DEF ReportInv, FilesInv
<1>4. crashes' # 0 BY <1>1 DEF AgentInv, DocsInv
<1>5. \A i \in Ids : inst'[i] = Absent BY <1>1
<1>6. ~IsRunning(Absent) /\ Absent.tasks = {} BY AbsentCell DEF IsRunning
<1>7. \A i \in Ids : FirmCell(inst'[i], doc') BY <1>5, <1>6 DEF FirmCell
<1>8. Keyed(base', baseTasks') BY <1>1 DEF Keyed, Base
<1> QED BY <1>1, <1>3, <1>4, <1>7, <1>8 DEF ReportInv


\* A document that was firm when it was written is firm when it is loaded.
LEMMA LoadedFirm ==
    ASSUME NEW x \in InstanceDocs, NEW d, Firm(x, d)
    PROVE LET g == LoadedInstanceDoc(x) IN FirmCell(RunningCell(g, {g}), d)
<1> DEFINE g == LoadedInstanceDoc(x)
           c == RunningCell(g, {g})
<1>1. /\ g.gen = x.gen /\ g.target = x.target /\ g.observed = x.observed /\ g.phase = x.phase
      /\ g.phase = "Running" => g.recon = "none"
    BY DEF LoadedInstanceDoc, InstanceDocs
<1> HIDE DEF g
<1>2. Firm(g, d) BY <1>1 DEF Firm
<1>3. c.doc = g /\ c.work = {} /\ c.tasks = {} BY DEF RunningCell, Absent
<1> HIDE DEF c
<1> QED BY <1>2, <1>3 DEF FirmCell, c, g

\* A restart reports what the files hold.
LEMMA LoadReports ==
    ASSUME AgentInv, ReportInv, mode = "Down", ~LoadRefused, disk # NoFile, LoadDocuments,
           UNCHANGED <<disk, file, vm, crashes, failures>>
    PROVE ReportInv'
<1> DEFINE d == CHOOSE x \in disk.doc : TRUE
           loaded(i) == LoadedInstanceDoc(CHOOSE x \in file[i].doc : TRUE)
           b == IF d.baseReady = None THEN Base("Missing") ELSE BaseReady(d.baseReady)
           cells == [i \in Ids |-> IF file[i].doc = {} THEN Absent ELSE RunningCell(loaded(i), {loaded(i)})]
<1>1. Turn(d, b, {}, cells, FALSE) BY DEF LoadDocuments
<1>2. d \in Docs /\ disk.doc = {d}
    <2>1. FileOf(disk, Docs) /\ ~disk.torn BY DEF AgentInv, DocsInv, LoadRefused
    <2>2. PICK x \in Docs : disk = Holding(x) BY <2>1, FileKinds
    <2>3. disk.doc = {x} BY <2>2, FileKinds
    <2>4. d = x BY <2>3
    <2> QED BY <2>3, <2>4
<1>3. BaseOf(b, {}) /\ Keyed(b, {})
    <2>1. d.baseReady \in Keys BY <1>2 DEF Docs, AgentDocs
    <2> HIDE DEF d
    <2>2. /\ Base("Missing") \in BaseStates /\ Base("Missing").st = "Missing"
          /\ BaseReady(d.baseReady) \in BaseStates /\ BaseReady(d.baseReady).st = "Ready"
        BY <2>1, BaseRecords
    <2>3. BaseReady(d.baseReady).key = d.baseReady BY DEF BaseReady, Base
    <2> QED BY <2>2, <2>3, IdleBase DEF Keyed
<1>4. crashes # 0 /\ failures \in Nat BY DEF AgentInv, DocsInv, ReportInv
<1>5. ASSUME NEW i \in Ids
      PROVE /\ CellInv(cells[i]) /\ FirmCell(cells[i], d)
            /\ \A g \in file[i].doc : Firm(g, d)
    <2>1. FileOf(file[i], InstanceDocs) /\ ~file[i].torn
        BY <1>2, <1>5 DEF AgentInv, WorldInv, LoadRefused
    <2>2. \A g \in file[i].doc : Firm(g, d) BY <1>2, <1>5 DEF ReportInv, FilesInv
    <2>3. CASE file[i] = NoFile
        <3>1. file[i].doc = {} /\ cells[i] = Absent BY <2>3, FileKinds
        <3>2. CellInv(Absent) /\ ~IsRunning(Absent) /\ Absent.tasks = {} BY AbsentCell DEF IsRunning
        <3>3. FirmCell(Absent, d) BY <3>2 DEF FirmCell
        <3> QED BY <2>2, <3>1, <3>2, <3>3
    <2>4. CASE file[i] # NoFile
        <3>1. PICK x \in InstanceDocs : file[i] = Holding(x) BY <2>1, <2>4, FileKinds
        <3>2. file[i].doc = {x} BY <3>1, FileKinds
        <3> DEFINE g == LoadedInstanceDoc(x)
                   c == RunningCell(g, {g})
        <3>3. cells[i] = c BY <3>2
        <3>4. CellInv(c) BY LoadedCell
        <3>5. Firm(x, d) BY <2>2, <3>2
        <3> HIDE DEF d
        <3>6. FirmCell(c, d) BY <3>5, LoadedFirm
        <3> QED BY <2>2, <3>3, <3>4, <3>6
    <2> QED BY <2>3, <2>4
<1>6. cells \in [Ids -> Cells]
    <2>1. \A i \in Ids : cells[i] \in Cells BY <1>5 DEF CellInv
    <2> QED BY <2>1
<1> HIDE DEF cells, d, b
<1>7. Ready(d, b, {}, cells) BY <1>2, <1>3, <1>4, <1>5 DEF Ready
<1> QED BY <1>1, <1>2, <1>3, <1>4, <1>5, <1>6, <1>7, TurnReports

\* A restart loads the documents, refuses them, or finds no agent.
LEMMA RestartReports ==
    ASSUME AgentInv, ReportInv, Restart PROVE ReportInv'
<1>1. mode = "Down" /\ UNCHANGED <<disk, file, vm, crashes, failures>> BY DEF Restart, world, budgets
<1>2. CASE ~LoadRefused /\ disk # NoFile /\ LoadDocuments BY <1>1, <1>2, LoadReports
<1>3. ASSUME mode' # "Running", UNCHANGED mem PROVE ReportInv'
    <2>1. UNCHANGED <<doc, base, baseTasks, inst>> BY <1>3 DEF mem
    <2>2. FilesInv' BY <1>1, <1>3 DEF ReportInv, FilesInv
    <2> QED BY <1>1, <1>3, <2>1, <2>2 DEF ReportInv
<1> QED BY <1>2, <1>3 DEF Restart

-----------------------------------------------------------------------------

\* Nothing is reported when the loop is spawned.
LEMMA ReportInit == Init => ReportInv
<1> SUFFICES ASSUME Init PROVE ReportInv OBVIOUS
<1>1. /\ mode = "Starting" /\ base = Base("Missing") /\ baseTasks = {} /\ inst = [i \in Ids |-> Absent]
      /\ file = [i \in Ids |-> NoFile] /\ failures = 0
    BY DEF Init
<1>2. \A i \in Ids : ~IsRunning(inst[i]) /\ inst[i].tasks = {} BY <1>1, AbsentCell DEF IsRunning
<1>3. \A i \in Ids : FirmCell(inst[i], doc) /\ Matched(inst[i]) /\ Dark(inst[i], vm[i])
    BY <1>2 DEF FirmCell, Matched, Dark
<1>4. FilesInv
    <2>1. \A i \in Ids : file[i].doc = {} BY <1>1, FileKinds
    <2> QED BY <2>1 DEF FilesInv
<1>5. Base("Missing").st = "Missing" BY DEF Base
<1>6. Keyed(base, baseTasks) /\ BaseMatched(doc, base, baseTasks)
    BY <1>1, <1>5 DEF Keyed, BaseMatched
<1> QED BY <1>1, <1>3, <1>4, <1>6 DEF ReportInv

\* Every step keeps the report true.
LEMMA ReportNext == AgentInv /\ ReportInv /\ [Next]_vars => ReportInv'
<1> SUFFICES ASSUME AgentInv, ReportInv, [Next]_vars PROVE ReportInv' OBVIOUS
<1>1. CASE Command
    <2>1. ASSUME NEW m \in Manifests, ApplyFirst(m) PROVE ReportInv' BY <2>1, ApplyFirstReports
    <2>2. ASSUME NEW m \in Manifests, NEW moved \in BOOLEAN, Apply(m, moved) PROVE ReportInv'
        BY <2>2, ApplyReports
    <2>3. CASE \/ \E n \in 0 .. MaxReplicas : Scale(n)
               \/ Delete
               \/ \E i \in Ids : Exec(i)
        BY <2>3, InputReports
    <2> QED BY <1>1, <2>1, <2>2, <2>3 DEF Command
<1>2. CASE Wake BY <1>2, InputReports
<1>3. CASE Completion BY <1>3, InputReports DEF Completion
<1>4. CASE TaskStep BY <1>4, FinishBaseTaskReports, FinishTaskReports, VmDiesReports DEF TaskStep
<1>5. CASE CommitStep
    BY <1>5, WriteAgentDocReports, WriteInstanceDocReports, WriteFailsReports, RemoveAgentDirReports
       DEF CommitStep
<1>6. CASE Crash BY <1>6, CrashReports
<1>7. CASE Restart BY <1>7, RestartReports
<1>8. CASE UNCHANGED vars
    <2>1. UNCHANGED <<mode, doc, base, baseTasks, inst, disk, file, vm, failures, crashes>>
        BY <1>8 DEF vars, mem, world, budgets
    <2>2. FilesInv' BY <2>1 DEF ReportInv, FilesInv
    <2> QED BY <2>1, <2>2 DEF ReportInv
<1> QED BY <1>1, <1>2, <1>3, <1>4, <1>5, <1>6, <1>7, <1>8 DEF Next

\* The documents of the instances are to be believed, and the document of the agent is
\* derived from them as they are.
THEOREM ReportInvariant == Spec => [](AgentInv /\ ReportInv)
<1>1. Init => AgentInv /\ ReportInv BY AgentInit, ReportInit
<1>2. AgentInv /\ ReportInv /\ [Next]_vars => (AgentInv /\ ReportInv)' BY AgentNext, ReportNext
<1> QED BY <1>1, <1>2, PTL DEF Spec

\* An instance that is observed carries the desired state of the agent and has reached it.
LEMMA ObservedHasArrived ==
    ASSUME AgentInv, ReportInv, mode = "Running", ~doc.del, NEW i \in Ids, IsRunning(inst[i]),
           inst[i].doc.observed = doc.gen
    PROVE LET g == inst[i].doc
          IN  /\ g.mtmpl = doc.tmpl /\ g.mbase = ProjectedBase(g, doc)
              /\ TargetFor(doc, i) = "Active" => doc.baseDesired # None
              /\ TargetFor(doc, i) # "Active" => g.phase = "Stopped" /\ inst[i].work = {}
<1> DEFINE g == inst[i].doc
<1>1. g \in InstanceDocs /\ doc.gen \in Nat BY DEF AgentInv, CellsInv, CellInv, Cells, DocsInv, Docs, AgentDocs
<1>2. FirmCell(inst[i], doc) /\ Current(inst[i], doc, i) BY DEF ReportInv
<1>3. Firm(g, doc) BY <1>2 DEF FirmCell
<1>4. g.gen \in Nat /\ g.observed \in Nat BY <1>1 DEF InstanceDocs
<1>5. g.gen = doc.gen /\ g.observed = g.gen
    <2>1. g.gen <= doc.gen /\ g.observed <= g.gen /\ g.observed = doc.gen BY <1>3 DEF Firm
    <2> QED BY <1>1, <1>4, <2>1
<1>6. g.phase \notin CleanupPhases BY <1>3, <1>5 DEF Firm
<1>7. g.target = TargetFor(doc, i) /\ g.mtmpl = doc.tmpl /\ g.mbase = ProjectedBase(g, doc)
    BY <1>2, <1>6 DEF Current, Projected
<1>8. TargetFor(doc, i) \in {"Active", "Inactive"} BY DEF TargetFor
<1> QED BY <1>2, <1>3, <1>5, <1>7, <1>8 DEF Firm, FirmCell

\* Convergence, from the invariant.
LEMMA ConvergedFollows ==
    ASSUME AgentInv, ReportInv PROVE ConvergedMeansCurrent
<1> SUFFICES ASSUME Awaiting, ~doc.reconciling, ~doc.del, NEW i \in Ids
             PROVE IF TargetFor(doc, i) = "Active"
                   THEN /\ IsRunning(inst[i])
                        /\ inst[i].doc.phase = "Running"
                        /\ inst[i].doc.mtmpl = doc.tmpl
                        /\ inst[i].doc.mbase = doc.baseReady
                   ELSE /\ inst[i].st # "starting"
                        /\ IsRunning(inst[i]) => inst[i].doc.phase = "Stopped"
                        /\ crashes = 0 /\ failures = 0 => ~vm[i]
    BY DEF ConvergedMeansCurrent
<1>1. mode = "Running" BY DEF Awaiting
<1>2. AllStopped(doc, inst) \/ AllUp(doc, inst) BY <1>1 DEF ReportInv, Published
<1>3. InstancesObserved(doc, inst) BY <1>2 DEF AllStopped, AllUp
<1>4. \A j \in Ids : inst[j].st # "starting" /\ (IsRunning(inst[j]) => inst[j].doc.observed = doc.gen)
    BY <1>3 DEF InstancesObserved
<1>5. \A j \in Ids : IsRunning(inst[j]) =>
        LET g == inst[j].doc
        IN  /\ g.mtmpl = doc.tmpl /\ g.mbase = ProjectedBase(g, doc)
            /\ TargetFor(doc, j) = "Active" => doc.baseDesired # None
            /\ TargetFor(doc, j) # "Active" => g.phase = "Stopped" /\ inst[j].work = {}
    BY <1>1, <1>4, ObservedHasArrived
<1>6. CASE TargetFor(doc, i) # "Active"
    <2>1. ASSUME crashes = 0, failures = 0, vm[i] PROVE FALSE
        <3>1. CellInv(inst[i]) /\ IsRunning(inst[i])
            BY <2>1 DEF AgentInv, CellsInv, WorldInv, Backed, Known
        <3>2. inst[i].doc.phase = "Stopped" /\ inst[i].work = {} BY <1>5, <1>6, <3>1
        <3>3. PICK t \in inst[i].tasks : t.kind = "start" BY <2>1, <3>1, <3>2 DEF ReportInv, Dark
        <3>4. Lane(t) = "work" BY <3>3 DEF Lane
        <3> QED BY <3>1, <3>2, <3>4, SlotOfTask
    <2> QED BY <1>4, <1>5, <1>6, <2>1
<1>7. CASE TargetFor(doc, i) = "Active"
    <2> DEFINE up == {j \in RunningIds(inst) : inst[j].doc.phase = "Running"}
               n == doc.replicas
    <2>1. n \in Nat BY DEF AgentInv, DocsInv, Docs, AgentDocs
    <2>2. i \in Nat /\ i < n /\ ~doc.paused BY <1>7, <2>1 DEF TargetFor, Ids
    <2>3. AllUp(doc, inst) BY <1>2, <2>1, <2>2 DEF AllStopped, Inactive
    <2>4. Cardinality(up) = n /\ doc.baseReady = doc.baseDesired BY <2>3 DEF AllUp
    <2>5. ASSUME NEW j \in up PROVE j \in 0 .. n - 1
        <3>1. j \in Ids /\ IsRunning(inst[j]) /\ inst[j].doc.phase = "Running" BY <2>5 DEF RunningIds
        <3>2. TargetFor(doc, j) = "Active" BY <1>5, <3>1
        <3> QED BY <2>1, <3>1, <3>2 DEF TargetFor, Ids
    <2>6. IsFiniteSet(0 .. n - 1) /\ Cardinality(0 .. n - 1) = n
        <3>1. 0 \in Int /\ n - 1 \in Int BY <2>1
        <3>2. /\ IsFiniteSet(0 .. n - 1)
              /\ Cardinality(0 .. n - 1) = IF 0 > n - 1 THEN 0 ELSE (n - 1) - 0 + 1
            BY <3>1, FS_Interval
        <3> QED BY <2>1, <3>2
    <2> HIDE DEF up
    <2>7. up = 0 .. n - 1 BY <2>4, <2>5, <2>6, FS_Subset
    <2>8. i \in up BY <2>1, <2>2, <2>7
    <2>9. IsRunning(inst[i]) /\ inst[i].doc.phase = "Running" BY <2>8 DEF up, RunningIds
    <2> QED BY <1>5, <1>7, <2>4, <2>9 DEF ProjectedBase
<1> QED BY <1>6, <1>7

\* The document of an agent never reports too much: when it says that the agent has
\* converged, the replicas run the template and the base it asks for and every other
\* instance is stopped, its VM off unless something failed; when it says that the agent
\* is deleted, nothing is left of it.
THEOREM ReportsAreTrue == Spec => []ReportsTrue
<1>1. AgentInv /\ ReportInv => ConvergedMeansCurrent BY ConvergedFollows
<1>2. ConvergedMeansCurrent /\ DeletedClean => ReportsTrue BY DEF ReportsTrue
<1> QED BY <1>1, <1>2, ReportInvariant, DeletionIsClean, PTL

\* Until the server crashes, an instance is created on the base of its own template,
\* whatever was applied while the base was built.
THEOREM BasesMatch == Spec => [](crashes = 0 => BaseMatchesTemplate)
<1>1. ASSUME AgentInv, ReportInv PROVE crashes = 0 => BaseMatchesTemplate
    BY <1>1 DEF ReportInv, Matched, BaseMatchesTemplate
<1> QED BY <1>1, ReportInvariant, PTL
=============================================================================
