--------------------------- MODULE AgentAckProofs ---------------------------
(***************************************************************************)
(* Acknowledged commands survive: DurableAck and AckedMonotonic of         *)
(* AgentController, for any number of instances, templates, generations,   *)
(* failures and crashes.  The one assumption is that the directory of a    *)
(* deleted agent can be removed; without it DurableAck is false.           *)
(*                                                                         *)
(* DurableAck is not inductive: why the document on disk covers an answer  *)
(* that is given without a write lies in what `saved` says about the disk, *)
(* and why the next document covers it lies in memory.                     *)
(***************************************************************************)
EXTENDS AgentController, TLAPS

DocFields ==
    {"gen", "del", "tmpl", "replicas", "paused", "baseDesired", "baseReady", "basePhase",
     "observed", "deleted", "reconciling", "active", "ready", "instances"}

Shaped(d) == DOMAIN d = DocFields /\ d.gen \in Nat

\* A document that covers an answer: the acknowledged one, or a later one.
Covers(d, a) == d.gen > a.gen \/ Accepted(d) = a

\* What a step may make of the agent document without losing an answer.
Follows(e, d) == e.gen > d.gen \/ Accepted(e) = Accepted(d)

ShapeInv ==
    /\ Shaped(doc)
    /\ \A d \in saved \cup disk.doc : Shaped(d)
    /\ \A a \in acked : a.gen \in Nat
    /\ \A a, b \in acked : a = b

\* A file holds one document, nothing, or a torn rest.
DiskInv ==
    /\ disk = [torn |-> disk.torn, doc |-> disk.doc]
    /\ disk.torn \in BOOLEAN
    /\ disk.torn => disk.doc = {}
    /\ \A d, e \in disk.doc : d = e

\* The loop knows what is on disk, unless a write failed half-way.
SavedInv ==
    mode = "Running" => \A s \in saved : s.deleted \/ disk.torn \/ disk.doc = {s}

\* The document in memory covers every answer.
MemoryInv ==
    /\ mode = "Running" => \A a \in acked : Covers(doc, a)
    /\ mode = "Starting" => acked = {}

\* Generations start again only when nobody holds an answer.
RemovedInv == mode = "Running" /\ pc = "input" /\ doc.deleted => acked = {}

\* AckedMonotonic, of one step.
AnswersGrow == \A a \in acked, b \in acked' : b.gen > a.gen \/ b = a

AckInv == ShapeInv /\ DiskInv /\ SavedInv /\ MemoryInv /\ RemovedInv /\ DurableAck

-----------------------------------------------------------------------------
(* What the operators on documents keep. *)

\* AgentDocuments::write derives status fields and leaves metadata and spec alone.
LEMMA WriteKeeps ==
    ASSUME NEW d, Shaped(d), NEW b, NEW cells
    PROVE Shaped(Write(d, b, cells)) /\ Accepted(Write(d, b, cells)) = Accepted(d)
          /\ Write(d, b, cells).gen = d.gen
BY DEF Shaped, DocFields, Write, Accepted, DesiredState

\* Follows is reflexive and transitive, and carries coverage along.
LEMMA FollowsFacts ==
    ASSUME NEW c, NEW d, NEW e, c.gen \in Nat, d.gen \in Nat, e.gen \in Nat
    PROVE /\ Follows(d, d)
          /\ Follows(d, c) /\ Follows(e, d) => Follows(e, c)
          /\ \A a : a.gen \in Nat /\ Covers(c, a) /\ Follows(d, c) => Covers(d, a)
BY DEF Follows, Covers, Accepted

\* A new document starts at generation 1.
LEMMA FromManifestShape ==
    ASSUME NEW m PROVE Shaped(FromManifest(m))
BY DEF Shaped, DocFields, FromManifest

\* An apply on an agent that is not deleted keeps the document or starts a generation.
LEMMA AfterExistingFollows ==
    ASSUME NEW m, NEW d, Shaped(d)
    PROVE /\ Shaped(FromManifestAfterExisting(m, d))
          /\ Follows(FromManifestAfterExisting(m, d), d)
<1> DEFINE new == FromManifest(m)
           keep == d.tmpl = m.tmpl
           revised ==
             [new EXCEPT !.gen = d.gen + 1,
                         !.observed = d.observed,
                         !.active = d.active,
                         !.ready = d.ready,
                         !.instances = d.instances,
                         !.baseDesired = IF keep THEN d.baseDesired ELSE None,
                         !.baseReady   = IF keep THEN d.baseReady ELSE None,
                         !.basePhase   = IF keep THEN d.basePhase ELSE "Missing"]
           refreshed == RefreshStatusProjection(revised, FALSE)
<1>1. DOMAIN new = DocFields BY FromManifestShape DEF Shaped
<1>2. DOMAIN revised = DocFields /\ revised.gen = d.gen + 1
    <2> HIDE DEF new
    <2> QED BY <1>1 DEF DocFields
<1>3. DOMAIN refreshed = DocFields /\ refreshed.gen = d.gen + 1
    <2> HIDE DEF revised
    <2> QED BY <1>2 DEF DocFields, RefreshStatusProjection
<1>4. FromManifestAfterExisting(m, d) \in {d, refreshed}
    BY DEF FromManifestAfterExisting
<1>5. Shaped(refreshed) /\ Follows(refreshed, d)
    <2> HIDE DEF refreshed
    <2> QED BY <1>3 DEF Shaped, Follows
<1>6. Follows(d, d) BY DEF Follows
<1> HIDE DEF refreshed
<1> QED BY <1>4, <1>5, <1>6

\* Deletion and scaling start a generation unless they change nothing.
LEMMA CommandsFollow ==
    ASSUME NEW d, Shaped(d), NEW n
    PROVE /\ Shaped(MarkDeletionRequested(d)) /\ Follows(MarkDeletionRequested(d), d)
          /\ Shaped(SetReplicas(d, n)) /\ Follows(SetReplicas(d, n), d)
<1>1. d.gen + 1 > d.gen /\ d.gen + 1 \in Nat BY DEF Shaped
<1>2. Shaped(MarkDeletionRequested(d)) /\ Follows(MarkDeletionRequested(d), d)
    BY <1>1 DEF Shaped, DocFields, Follows, MarkDeletionRequested
<1>3. Shaped(SetReplicas(d, n)) /\ Follows(SetReplicas(d, n), d)
    BY <1>1 DEF Shaped, DocFields, Follows, SetReplicas
<1> QED BY <1>2, <1>3

\* The base record is no part of what a client asked for.
LEMMA BaseMarksFollow ==
    ASSUME NEW d, Shaped(d), NEW key
    PROVE /\ Shaped(MarkBaseDesired(d, key)) /\ Follows(MarkBaseDesired(d, key), d)
          /\ Shaped(MarkBaseReady(d, key)) /\ Follows(MarkBaseReady(d, key), d)
          /\ Shaped(MarkBaseFailed(d)) /\ Follows(MarkBaseFailed(d), d)
<1> USE DEF Shaped, DocFields, Follows, Accepted, DesiredState
<1>1. Shaped(MarkBaseDesired(d, key)) /\ Follows(MarkBaseDesired(d, key), d)
    BY DEF MarkBaseDesired
<1>2. Shaped(MarkBaseReady(d, key)) /\ Follows(MarkBaseReady(d, key), d)
    BY DEF MarkBaseReady
<1>3. Shaped(MarkBaseFailed(d)) /\ Follows(MarkBaseFailed(d), d)
    BY DEF MarkBaseFailed
<1> QED BY <1>1, <1>2, <1>3

\* So no completion of a base task changes what the document stands for.
LEMMA BaseCompletionFollows ==
    ASSUME Shaped(doc), NEW t
    PROVE Shaped(HandleBaseCompletion(t).doc) /\ Follows(HandleBaseCompletion(t).doc, doc)
<1> DEFINE rest == baseTasks \ {t}
<1>0. Follows(doc, doc) BY DEF Follows
<1>1. BaseStopped(t, rest).doc = doc BY DEF BaseStopped
<1>2. BaseFailed(t, rest).doc \in {doc, MarkBaseFailed(doc)} BY DEF BaseFailed
<1>3. BasePrepared(t, rest).doc \in {doc, MarkBaseDesired(doc, t.key)} BY DEF BasePrepared
<1>4. BaseBuilt(t, rest).doc \in {doc, MarkBaseReady(doc, t.key)} BY DEF BaseBuilt
<1>5. HandleBaseCompletion(t).doc
        \in {doc, MarkBaseFailed(doc), MarkBaseDesired(doc, t.key), MarkBaseReady(doc, t.key)}
    BY <1>1, <1>2, <1>3, <1>4 DEF HandleBaseCompletion
<1> QED BY <1>0, <1>5, BaseMarksFollow

-----------------------------------------------------------------------------
(* Turns of the loop. *)

\* A turn that ends the wait of its commands answers with a document the disk
\* already holds; any other turn leaves the answers to the commit.
LEMMA TurnOutcome ==
    ASSUME NEW d, Shaped(d), NEW b, NEW tasks, NEW cells, NEW asked,
           Turn(d, b, tasks, cells, asked)
    PROVE /\ Shaped(doc') /\ Accepted(doc') = Accepted(d) /\ doc'.gen = d.gen
          /\ \/ pc' = "commit" /\ acked' = acked
             \/ /\ pc' = "input" /\ ~doc'.deleted /\ saved' = {doc'}
                /\ acked' = acked \/ acked' = {Accepted(doc')}
<1>1. PICK b2, cells2 : doc' = Write(d, b2, cells2)
    BY DEF Turn
<1>2. Shaped(doc') /\ Accepted(doc') = Accepted(d) /\ doc'.gen = d.gen
    BY <1>1, WriteKeeps
<1>3. \/ pc' = "commit" /\ acked' = acked
      \/ \E next : InSync(doc', saved', next) /\ Answer(doc', asked)
    BY DEF Turn
<1> QED BY <1>2, <1>3 DEF InSync, Answer

\* The invariant after a turn from a document that follows the old one.
LEMMA TurnKeeps ==
    ASSUME AckInv, NEW d, Shaped(d), NEW b, NEW tasks, NEW cells, NEW asked,
           Turn(d, b, tasks, cells, asked),
           mode' = "Running", disk' = disk,
           \A s \in saved' : Shaped(s) /\ (s.deleted \/ disk.torn \/ disk.doc = {s}),
           \A a \in acked : Covers(d, a)
    PROVE AckInv' /\ AnswersGrow
<1>1. /\ Shaped(doc') /\ Accepted(doc') = Accepted(d) /\ doc'.gen = d.gen
      /\ \/ pc' = "commit" /\ acked' = acked
         \/ /\ pc' = "input" /\ ~doc'.deleted /\ saved' = {doc'}
            /\ acked' = acked \/ acked' = {Accepted(doc')}
    BY TurnOutcome
<1>2. \A a \in acked : Covers(doc', a) BY <1>1 DEF Covers
<1>3. ShapeInv'
    BY <1>1 DEF AckInv, ShapeInv, Shaped, Accepted
<1>4. DiskInv' BY DEF AckInv, DiskInv
<1>5. SavedInv' BY DEF SavedInv
<1>6. MemoryInv' BY <1>1, <1>2 DEF MemoryInv, Covers
<1>7. RemovedInv' BY <1>1 DEF RemovedInv
<1>8. DurableAck'
    <2>1. CASE acked' = acked BY <2>1 DEF AckInv, DurableAck
    <2>2. CASE acked' # acked
        <3>1. ~doc'.deleted /\ doc' \in saved' /\ acked' = {Accepted(doc')}
            BY <1>1, <2>2
        <3>2. disk'.torn \/ disk'.doc = {doc'} BY <3>1
        <3> QED BY <3>1, <3>2 DEF DurableAck
    <2> QED BY <2>1, <2>2
<1>9. AnswersGrow BY <1>1, <1>2 DEF AnswersGrow, Covers, AckInv, ShapeInv, Accepted
<1> QED BY <1>3, <1>4, <1>5, <1>6, <1>7, <1>8, <1>9 DEF AckInv

\* A turn of the running loop, from a document that covers the answers.
LEMMA LoopTurnKeeps ==
    ASSUME AckInv, Awaiting, NEW d, Shaped(d), \A a \in acked : Covers(d, a),
           NEW b, NEW tasks, NEW cells, NEW asked, LoopTurn(d, b, tasks, cells, asked)
    PROVE AckInv' /\ AnswersGrow
<1>1. /\ Turn(d, b, tasks, cells, asked) /\ saved' = saved /\ mode' = mode /\ disk' = disk
      /\ mode = "Running"
    BY DEF LoopTurn, Awaiting, world
<1>2. \A s \in saved' : Shaped(s) /\ (s.deleted \/ disk.torn \/ disk.doc = {s})
    BY <1>1 DEF AckInv, ShapeInv, SavedInv
<1> QED BY <1>1, <1>2, TurnKeeps

\* While the loop runs, whatever follows its document covers the answers.
LEMMA RunningCovers ==
    ASSUME AckInv, mode = "Running", NEW d, Shaped(d), Follows(d, doc)
    PROVE \A a \in acked : Covers(d, a)
BY FollowsFacts DEF AckInv, ShapeInv, MemoryInv, Shaped

\* An apply: an agent that is deleted starts again, any other one follows.
LEMMA ApplyKeeps ==
    ASSUME AckInv, NEW m, NEW moved, Apply(m, moved)
    PROVE AckInv' /\ AnswersGrow
<1>0. Awaiting /\ mode = "Running" /\ pc = "input" BY DEF Apply, Awaiting
<1>1. Shaped(doc) /\ Follows(doc, doc) BY DEF AckInv, ShapeInv, Follows
<1>2. Shaped(Updated(m)) /\ \A a \in acked : Covers(Updated(m), a)
    <2>1. CASE doc.deleted
        <3>1. acked = {} BY <1>0, <2>1 DEF AckInv, RemovedInv
        <3> QED BY <2>1, <3>1, FromManifestShape DEF Updated
    <2>2. CASE ~doc.deleted
        BY <1>0, <1>1, <2>2, AfterExistingFollows, RunningCovers DEF Updated
    <2> QED BY <2>1, <2>2
<1>3. Shaped(Write(Updated(m), base, inst)) /\ \A a \in acked : Covers(Write(Updated(m), base, inst), a)
    BY <1>2, WriteKeeps DEF Covers
<1>4. \/ \E asked : LoopTurn(doc, base, baseTasks, inst, asked)
      \/ \E b, cells : LoopTurn(Write(Updated(m), base, inst), b, baseTasks, cells, TRUE)
    BY DEF Apply, ApplyManifest
<1>5. CASE \E asked : LoopTurn(doc, base, baseTasks, inst, asked)
    BY <1>0, <1>1, <1>5, RunningCovers, LoopTurnKeeps
<1>6. CASE \E b, cells : LoopTurn(Write(Updated(m), base, inst), b, baseTasks, cells, TRUE)
    BY <1>0, <1>3, <1>6, LoopTurnKeeps
<1> QED BY <1>4, <1>5, <1>6

\* The first apply: nobody has an answer yet.
LEMMA ApplyFirstKeeps ==
    ASSUME AckInv, NEW m, ApplyFirst(m)
    PROVE AckInv' /\ AnswersGrow
<1>1. acked = {} /\ saved' = {} /\ mode' = "Running" /\ disk' = disk
    BY DEF ApplyFirst, AckInv, MemoryInv, world
<1>2. Turn(FromManifest(m), Base("Missing"), {}, [i \in Ids |-> Absent], TRUE) BY DEF ApplyFirst
<1> QED BY <1>1, <1>2, FromManifestShape, TurnKeeps

\* The other inputs of the running loop.
LEMMA InputKeeps ==
    ASSUME AckInv,
           \/ \E n \in 0 .. MaxReplicas : Scale(n)
           \/ Delete
           \/ \E i \in Ids : Exec(i)
           \/ Wake
           \/ Completion
    PROVE AckInv' /\ AnswersGrow
<1>1. Shaped(doc) /\ Follows(doc, doc) BY DEF AckInv, ShapeInv, Follows
<1>2. PICK d, b, tasks, cells, asked :
        /\ Awaiting /\ LoopTurn(d, b, tasks, cells, asked)
        /\ Shaped(d) /\ Follows(d, doc)
    <2>1. CASE \E n \in 0 .. MaxReplicas : Scale(n)
        BY <1>1, <2>1, CommandsFollow DEF Scale
    <2>2. CASE Delete BY <1>1, <2>2, CommandsFollow DEF Delete
    <2>3. CASE \E i \in Ids : Exec(i) BY <1>1, <2>3 DEF Exec
    <2>4. CASE Wake BY <1>1, <2>4 DEF Wake
    <2>5. CASE CompleteBaseTask
        <3>1. PICK t \in baseTasks :
                LoopTurn(HandleBaseCompletion(t).doc, HandleBaseCompletion(t).base,
                         HandleBaseCompletion(t).tasks, inst, FALSE)
            BY <2>5 DEF CompleteBaseTask
        <3>2. Awaiting BY <2>5 DEF CompleteBaseTask
        <3> QED BY <1>1, <3>1, <3>2, BaseCompletionFollows
    <2>6. CASE \E i \in Ids, lane \in Lanes : CompleteTask(i, lane)
        BY <1>1, <2>6 DEF CompleteTask
    <2> QED BY <2>1, <2>2, <2>3, <2>4, <2>5, <2>6 DEF Completion
<1>3. mode = "Running" BY <1>2 DEF Awaiting
<1> QED BY <1>2, <1>3, RunningCovers, LoopTurnKeeps

-----------------------------------------------------------------------------
(* The commit, the tasks, and the end and the start of the server. *)

\* What the steps outside a turn keep of the agent's own state.
LEMMA QuietKeeps ==
    ASSUME AckInv, UNCHANGED <<mode, pc, doc, saved, acked, disk>>
    PROVE AckInv' /\ AnswersGrow
BY DEF AckInv, ShapeInv, DiskInv, SavedInv, MemoryInv, RemovedInv, DurableAck, Covers, AnswersGrow

\* Tasks and VMs touch neither the agent document nor the answers.
LEMMA TaskStepKeeps ==
    ASSUME AckInv, TaskStep
    PROVE AckInv' /\ AnswersGrow
<1>1. UNCHANGED <<mode, pc, doc, saved, acked, disk>>
    BY DEF TaskStep, FinishBaseTask, FinishTask, VmDies, mem, world
<1> QED BY <1>1, QuietKeeps

\* A write that is cut short tears a file or leaves it.
LEMMA CutShort ==
    ASSUME AckInv, WriteCutShort
    PROVE /\ disk' = disk \/ disk' = TornFile
          /\ DiskInv' /\ \A d \in disk'.doc : Shaped(d)
<1>1. disk' = disk \/ disk' = TornFile BY DEF WriteCutShort
<1>2. CASE disk' = disk BY <1>2 DEF AckInv, DiskInv, ShapeInv
<1>3. CASE disk' = TornFile
    <2>1. disk'.torn = TRUE /\ disk'.doc = {} BY <1>3 DEF TornFile
    <2>2. disk' = [torn |-> disk'.torn, doc |-> disk'.doc] BY <1>3, <2>1 DEF TornFile
    <2> QED BY <1>1, <2>1, <2>2 DEF DiskInv
<1> QED BY <1>1, <1>2, <1>3

\* The steps of a commit.
LEMMA CommitKeeps ==
    ASSUME AckInv, ~RemovalMayFail, CommitStep
    PROVE AckInv' /\ AnswersGrow
<1> USE DEF ShapeInv, Shaped
<1>0. /\ ShapeInv /\ DiskInv /\ SavedInv /\ MemoryInv /\ RemovedInv /\ DurableAck
    BY DEF AckInv
<1>1. CASE WriteAgentDoc
    <2>1. /\ mode = "Running" /\ mode' = mode /\ doc' = doc /\ ~doc.deleted
          /\ disk' = Holding(doc) /\ saved' = {doc}
          /\ acked' = acked \/ acked' = {Accepted(doc)}
        BY <1>1 DEF WriteAgentDoc, Committing, AgentDue, Proceed, Answer
    <2>2. \A a \in acked : Covers(doc', a) BY <1>0, <2>1 DEF MemoryInv, Covers
    <2>3. ShapeInv' /\ DiskInv' BY <1>0, <2>1 DEF Holding, DiskInv, Accepted
    <2>4. SavedInv' /\ MemoryInv' /\ RemovedInv'
        BY <2>1, <2>2 DEF Holding, SavedInv, MemoryInv, RemovedInv, Covers
    <2>5. DurableAck' BY <1>0, <2>1, <2>2 DEF Holding, DurableAck, Covers
    <2>6. AnswersGrow BY <1>0, <2>1, <2>2 DEF AnswersGrow, Covers, Accepted
    <2> QED BY <2>3, <2>4, <2>5, <2>6 DEF AckInv
<1>2. CASE \E i \in Ids : WriteInstanceDoc(i)
    <2>1. /\ mode = "Running" /\ UNCHANGED <<mode, doc, saved, disk>>
          /\ ~doc.deleted /\ saved = {doc}
          /\ acked' = acked \/ acked' = {Accepted(doc)}
        BY <1>2 DEF WriteInstanceDoc, Committing, InstanceDue, Proceed, Answer
    <2>2. \A a \in acked : Covers(doc', a) BY <1>0, <2>1 DEF MemoryInv, Covers
    <2>3. ShapeInv' /\ DiskInv' BY <1>0, <2>1 DEF DiskInv, Accepted
    <2>4. SavedInv' /\ MemoryInv' /\ RemovedInv'
        BY <1>0, <2>1, <2>2 DEF SavedInv, MemoryInv, RemovedInv, Covers
    <2>5. disk.torn \/ disk.doc = {doc} BY <1>0, <2>1 DEF SavedInv
    <2>6. DurableAck' BY <1>0, <2>1, <2>5 DEF DurableAck
    <2>7. AnswersGrow BY <1>0, <2>1, <2>2 DEF AnswersGrow, Covers, Accepted
    <2> QED BY <2>3, <2>4, <2>6, <2>7 DEF AckInv
<1>3. CASE WriteFails
    <2>1. /\ mode = "Running" /\ UNCHANGED <<mode, doc, saved, acked>> /\ ~doc.deleted
          /\ WriteCutShort
        BY <1>3 DEF WriteFails, Committing, mem
    <2>2. /\ disk' = disk \/ disk' = TornFile
          /\ DiskInv' /\ \A d \in disk'.doc : Shaped(d)
        BY <2>1, CutShort
    <2>3. AnswersGrow BY <1>0, <2>1 DEF AnswersGrow
    <2>4. ShapeInv' BY <1>0, <2>1, <2>2
    <2>5. SavedInv' /\ MemoryInv' /\ RemovedInv' /\ DurableAck'
        BY <1>0, <2>1, <2>2 DEF TornFile, SavedInv, MemoryInv, RemovedInv, DurableAck, Covers
    <2> QED BY <2>2, <2>3, <2>4, <2>5 DEF AckInv
<1>4. CASE RemoveAgentDir
    <2>1. /\ mode = "Running" /\ UNCHANGED <<mode, doc>> /\ doc.deleted
          /\ disk' = NoFile /\ acked' = {} /\ saved' = {doc}
        BY <1>4 DEF RemoveAgentDir, Committing
    <2>2. AnswersGrow BY <2>1 DEF AnswersGrow
    <2>3. ShapeInv' /\ DiskInv' /\ SavedInv' /\ MemoryInv' /\ RemovedInv' /\ DurableAck'
        BY <1>0, <2>1 DEF NoFile, DiskInv, SavedInv, MemoryInv, RemovedInv, DurableAck
    <2> QED BY <2>2, <2>3 DEF AckInv
<1> QED BY <1>1, <1>2, <1>3, <1>4 DEF CommitStep

\* The server dies: only the disk and the answers remain.
LEMMA CrashKeeps ==
    ASSUME AckInv, Crash
    PROVE AckInv' /\ AnswersGrow
<1>1. /\ mode' = "Down" /\ acked' = acked /\ saved' = {}
      /\ doc' = NoAgentDoc
      /\ WriteCutShort \/ disk' = disk
    BY DEF Crash
<1>2. /\ disk' = disk \/ disk' = TornFile
      /\ DiskInv' /\ \A d \in disk'.doc : Shaped(d)
    <2>1. CASE WriteCutShort BY <2>1, CutShort
    <2>2. CASE disk' = disk BY <2>2 DEF AckInv, ShapeInv, DiskInv
    <2> QED BY <1>1, <2>1, <2>2
<1>3. Shaped(doc') BY <1>1, FromManifestShape DEF NoAgentDoc
<1>4. ShapeInv' BY <1>1, <1>2, <1>3 DEF AckInv, ShapeInv
<1>5. SavedInv' /\ MemoryInv' /\ RemovedInv' BY <1>1 DEF SavedInv, MemoryInv, RemovedInv
<1>6. DurableAck' BY <1>1, <1>2 DEF AckInv, DurableAck, TornFile
<1>7. AnswersGrow BY <1>1 DEF AckInv, ShapeInv, AnswersGrow
<1> QED BY <1>2, <1>4, <1>5, <1>6, <1>7 DEF AckInv

\* A restart finds a document that covers the answers, or none was given.
LEMMA RestartKeeps ==
    ASSUME AckInv, Restart
    PROVE AckInv' /\ AnswersGrow
<1>0. ShapeInv /\ DiskInv /\ DurableAck /\ disk' = disk BY DEF AckInv, Restart, world
<1>1. CASE /\ mode' \in {"LoadFailed", "Starting"} /\ UNCHANGED <<pc, mem, acked>>
           /\ mode' = "Starting" => disk = NoFile
    <2>1. mode' = "Starting" => acked = {} BY <1>0, <1>1 DEF DurableAck, NoFile
    <2>2. UNCHANGED <<doc, saved, acked, disk>> BY <1>0, <1>1 DEF mem
    <2>3. ShapeInv' /\ DiskInv' /\ DurableAck' BY <1>0, <2>2 DEF ShapeInv, DiskInv, DurableAck
    <2>4. SavedInv' /\ MemoryInv' /\ RemovedInv'
        BY <1>1, <2>1, <2>2 DEF SavedInv, MemoryInv, RemovedInv
    <2>5. AnswersGrow BY <1>0, <2>2 DEF ShapeInv, AnswersGrow
    <2> QED BY <2>3, <2>4, <2>5 DEF AckInv
<1>2. CASE ~LoadRefused /\ disk # NoFile /\ LoadDocuments
    <2> DEFINE d == CHOOSE d \in disk.doc : TRUE
    <2>1. ~disk.torn BY <1>2 DEF LoadRefused
    <2>2. disk.doc # {} BY <1>0, <1>2, <2>1 DEF DiskInv, NoFile
    <2>3. d \in disk.doc BY <2>2
    <2>4. disk.doc = {d} BY <1>0, <2>3 DEF DiskInv
    <2>5. Shaped(d) BY <1>0, <2>3 DEF ShapeInv
    <2>6. \A a \in acked : Covers(d, a) BY <1>0, <2>1, <2>4 DEF DurableAck, Covers
    <2>7. PICK b, cells : Turn(d, b, {}, cells, FALSE) BY <1>2 DEF LoadDocuments
    <2>8. saved' = {d} /\ mode' = "Running" BY <1>2 DEF LoadDocuments
    <2> HIDE DEF d
    <2> QED BY <1>0, <2>4, <2>5, <2>6, <2>7, <2>8, TurnKeeps
<1> QED BY <1>1, <1>2 DEF Restart

-----------------------------------------------------------------------------

\* The invariant holds at first, when there is no agent.
LEMMA AckInit == Init => AckInv
<1> SUFFICES ASSUME Init PROVE AckInv OBVIOUS
<1>1. /\ mode = "Starting" /\ doc = NoAgentDoc /\ saved = {} /\ acked = {} /\ disk = NoFile
    BY DEF Init
<1>2. Shaped(doc) BY <1>1, FromManifestShape DEF NoAgentDoc
<1> QED BY <1>1, <1>2 DEF AckInv, ShapeInv, DiskInv, SavedInv, MemoryInv, RemovedInv, DurableAck, NoFile

\* Every step keeps it, and every answer given is a new one or a newer one.
LEMMA AckNext ==
    ASSUME AckInv, ~RemovalMayFail, [Next]_vars
    PROVE AckInv' /\ AnswersGrow
<1>1. CASE Command BY <1>1, ApplyKeeps, ApplyFirstKeeps, InputKeeps DEF Command
<1>2. CASE Wake \/ Completion BY <1>2, InputKeeps
<1>3. CASE TaskStep BY <1>3, TaskStepKeeps
<1>4. CASE CommitStep BY <1>4, CommitKeeps
<1>5. CASE Crash BY <1>5, CrashKeeps
<1>6. CASE Restart BY <1>6, RestartKeeps
<1>7. CASE UNCHANGED vars BY <1>7, QuietKeeps DEF vars, mem, world
<1> QED BY <1>1, <1>2, <1>3, <1>4, <1>5, <1>6, <1>7 DEF Next

\* Acknowledged commands are on disk, whenever the server dies (commit_state
\* answers only with what persist_to has written).
THEOREM AcknowledgedSurvive ==
    ASSUME ~RemovalMayFail PROVE Spec => []DurableAck
<1>1. AckInv /\ [Next]_vars => AckInv' BY AckNext
<1>2. AckInv => DurableAck BY DEF AckInv
<1> QED BY AckInit, <1>1, <1>2, PTL DEF Spec

\* Acknowledged generations only go up, across crashes too, and never name two
\* desired states (apply, scale and delete start a generation or change nothing).
THEOREM AcknowledgedGrow ==
    ASSUME ~RemovalMayFail PROVE Spec => AckedMonotonic
<1>1. AckInv /\ [Next]_vars => AckInv' BY AckNext
<1>2. AckInv /\ [Next]_vars => [\A a \in acked, b \in acked' : b.gen > a.gen \/ b = a]_vars
    BY AckNext DEF AnswersGrow
<1> QED BY AckInit, <1>1, <1>2, PTL DEF Spec, AckedMonotonic
=============================================================================
