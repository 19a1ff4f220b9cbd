---------------------------- MODULE AgentProofs ----------------------------
(***************************************************************************)
(* What the control loop of an agent keeps, for every number of replicas,  *)
(* templates, failures, crashes and sessions: AgentController's invariants *)
(* as theorems.                                                            *)
(*                                                                         *)
(* None of them is inductive alone.  AgentInv relates four things: the     *)
(* documents in memory and on disk (DocsInv), the agent base and its task  *)
(* (BaseInv), each cell with its slots and tasks (CellsInv), and each cell *)
(* with its file, directory and VM (WorldInv).  The proof goes cell by     *)
(* cell: Goes says what the passes of one turn may do to a cell, Lands     *)
(* what a completion may, and both keep a cell in its place.               *)
(***************************************************************************)
EXTENDS AgentController, FiniteSetTheorems, TLAPS

\* An option.
AtMostOne(S) == \A x, y \in S : x = y

\* The task that a work slot admitted.
Serves(t, w) == w.id = t.id /\ w.gen = t.gen /\ t.kind \in TasksFor(w.kind)

\* The slots of a cell and its tasks account for each other.
Ledger(work, secrets, host, session, tasks) ==
    /\ AtMostOne(work) /\ AtMostOne(secrets) /\ AtMostOne(host) /\ AtMostOne(session)
    /\ \A t, u \in tasks : t.id = u.id => t = u
    /\ \A t \in tasks :
         /\ Lane(t) = "work" => \E w \in work : Serves(t, w)
         /\ Lane(t) = "secrets" => t.id \in secrets
         /\ Lane(t) = "host" => t.id \in host
         /\ Lane(t) = "session" => t.id \in session
    /\ \A w \in work : \E t \in tasks : Lane(t) = "work" /\ Serves(t, w)
    /\ \A k \in secrets : \E t \in tasks : Lane(t) = "secrets" /\ t.id = k
    /\ \A k \in host : \E t \in tasks : Lane(t) = "host" /\ t.id = k
    /\ \A k \in session : \E t \in tasks : Lane(t) = "session" /\ t.id = k

LedgerInv(c) == Ledger(c.work, c.secrets, c.host, c.session, c.tasks)

\* Which slots may be occupied together, and in which phases.
SlotInv(c) ==
    /\ ~IsRunning(c) => c.secrets = {} /\ c.host = {} /\ c.session = {}
    /\ c.st = "absent" => c.work = {}
    /\ \A w \in c.work :
         /\ w.kind = "Creating" <=> c.st = "starting"
         /\ w.kind = "Deleting" => c.secrets = {} /\ c.host = {} /\ c.session = {}
         /\ c.secrets # {} => w.kind = "Bootstrapping"

\* The last steps of an instance.
CleanupInv(c) ==
    /\ AtMostOne(c.saved)
    /\ \A t \in c.tasks :
         /\ t.kind = "stopForDelete" => c.doc.phase = "Deleting"
         /\ t.kind = "removeFiles" => c.doc.phase = "Deleted" /\ c.saved = {c.doc}
    /\ IsRunning(c) /\ c.doc.phase = "Deleted" =>
         /\ c.secrets = {} /\ c.host = {} /\ c.session = {}
         /\ \A w \in c.work : w.kind = "Deleting"
         /\ ~c.doc.busy /\ c.doc.sessions = 0
    /\ IsRunning(c) => \A s \in c.saved : s.phase = "Deleted" => s = c.doc

CellInv(c) == c \in Cells /\ LedgerInv(c) /\ SlotInv(c) /\ CleanupInv(c)

\* A VM, where up tells whether it runs, that no crash can have made the loop forget.
Known(lost, up) == lost = 0 /\ up

\* A cell, its document file f, its directory and its VM.
Fits(c, f, there, up) ==
    /\ IsRunning(c) /\ c.doc.phase # "Deleted" => there
    /\ IsRunning(c) /\ c.doc.phase = "Deleted" => ~up
    /\ f # NoFile => IsRunning(c)
    /\ \A g \in f.doc : g.mtmpl = c.doc.mtmpl /\ (g.phase = "Deleted" => c.doc.phase = "Deleted")
    /\ \A t \in c.tasks : t.res = "ok" =>
         /\ t.kind = "create" => there
         /\ t.kind = "stopForDelete" => ~up
         /\ t.kind = "removeFiles" => f = NoFile

\* Who knows of a VM.
Backed(c, up) == up =>
    /\ IsRunning(c)
    /\ \A t \in c.tasks : t.kind \in BackendTasks => t.pid
    /\ (\A t \in c.tasks : t.kind \notin BackendTasks \ {"secrets"}) => c.doc.pid

\* A cell and what its tasks will make of it carry the auth bindings a.
Bound(c, a) ==
    /\ IsRunning(c) => AuthBindings[c.doc.mtmpl] = a
    /\ \A t \in c.tasks : t.kind = "create" => AuthBindings[t.tmpl] = a

\* A document file whose document, if it holds one, is in S.
FileOf(f, S) == f = NoFile \/ f = TornFile \/ \E d \in f.doc : d \in S /\ f = Holding(d)

\* The documents of an agent start with generation 1.
Docs == {d \in AgentDocs : d.gen > 0}
-----------------------------------------------------------------------------
\* The agent document: what is published and saved, and what the file holds of it.  An
\* agent that is reported as deleted, or that no loop serves, has no instances.
DocsInv ==
    /\ mode \in {"Down", "Starting", "Running", "LoadFailed"} /\ pc \in {"input", "commit"}
    /\ crashes \in Nat
    /\ doc \in Docs /\ saved \subseteq Docs
    /\ FileOf(disk, Docs)
    /\ doc.deleted => /\ \A i \in Ids : inst[i].st = "absent"
                      /\ base.st \in {"Stopped", "Missing", "Failed"}
    /\ mode # "Running" => \A i \in Ids : inst[i].st = "absent"
    /\ mode = "Running" => \A s \in saved : s.deleted \/ disk.torn \/ disk.doc = {s}
    /\ mode = "Starting" => disk = NoFile
    /\ mode = "Down" => crashes > 0

\* The tasks spawned for the agent base.
BaseTaskRecords ==
    [kind : {"prepare", "build", "stop"}, id : {0, 1}, gen : Nat, key : Keys, res : {"running", "ok", "err"}]

\* The base is in one of the states that wait for a task iff it has its task.
BaseOf(b, tasks) ==
    /\ b \in BaseStates
    /\ AtMostOne(tasks)
    /\ \A t \in tasks :
         /\ t \in BaseTaskRecords
         /\ b.id = t.id
         /\ t.kind = "prepare" => b.st = "Preparing"
         /\ t.kind = "build" => b.st = "Building" /\ b.gen = t.gen /\ b.key = t.key
         /\ t.kind = "stop" => b.st = "Stopping"
    /\ b.st \in {"Preparing", "Building", "Stopping"} => tasks # {}

BaseInv == BaseOf(base, baseTasks)

\* The instances, one by one.
CellsInv == inst \in [Ids -> Cells] /\ \A i \in Ids : CellInv(inst[i])

\* The files, directories and VMs, and what a restart will find: every file holds a
\* document of the agent's auth bindings, in a directory that exists.
WorldInv ==
    /\ dir \in [Ids -> BOOLEAN] /\ vm \in [Ids -> BOOLEAN] /\ DOMAIN file = Ids
    /\ \A i \in Ids :
         /\ FileOf(file[i], InstanceDocs)
         /\ disk = NoFile => file[i] = NoFile
         /\ \A g \in file[i].doc : /\ dir[i]
                                   /\ \A e \in disk.doc : AuthBindings[g.mtmpl] = AuthBindings[e.tmpl]
         /\ mode = "Running" => Fits(inst[i], file[i], dir[i], Known(crashes, vm[i]))
         /\ Backed(inst[i], Known(crashes, vm[i]))
         /\ Bound(inst[i], AuthBindings[doc.tmpl])

AgentInv == DocsInv /\ BaseInv /\ CellsInv /\ WorldInv

-----------------------------------------------------------------------------
(* Work ids and slots. *)

\* A slot, an option in the code, is a set of no or one task.
LEMMA AtMostOneCardinality ==
    ASSUME NEW S, AtMostOne(S)
    PROVE Cardinality(S) \in {0, 1} /\ (S = {} => Cardinality(S) = 0)
<1>1. CASE S = {} BY <1>1, FS_EmptySet
<1>2. CASE S # {}
    <2>1. PICK x \in S : TRUE BY <1>2
    <2>2. S = {x} BY <2>1 DEF AtMostOne
    <2> QED BY <1>2, <2>2, FS_Singleton
<1> QED BY <1>1, <1>2

\* The four slots leave a work id free.
LEMMA FreshId ==
    ASSUME NEW c, LedgerInv(c)
    PROVE AllocateWorkId(c) \in WorkIds /\ AllocateWorkId(c) \notin UsedIds(c)
<1> DEFINE used == UsedIds(c)
<1>1. PICK a : \A w \in c.work : w.id = a BY DEF LedgerInv, Ledger, AtMostOne
<1>2. PICK b : \A k \in c.secrets : k = b BY DEF LedgerInv, Ledger, AtMostOne
<1>3. PICK e : \A k \in c.host : k = e BY DEF LedgerInv, Ledger, AtMostOne
<1>4. PICK f : \A k \in c.session : k = f BY DEF LedgerInv, Ledger, AtMostOne
<1>5. \A t \in c.tasks : t.id \in {a, b, e, f}
    <2> TAKE t \in c.tasks
    <2>1. Lane(t) \in {"work", "secrets", "host", "session"} BY DEF Lane
    <2>2. /\ Lane(t) = "work" => \E w \in c.work : w.id = t.id
          /\ Lane(t) = "secrets" => t.id \in c.secrets
          /\ Lane(t) = "host" => t.id \in c.host
          /\ Lane(t) = "session" => t.id \in c.session
        BY DEF LedgerInv, Ledger, Serves
    <2> QED BY <1>1, <1>2, <1>3, <1>4, <2>1, <2>2
<1>6. used \subseteq {a, b, e, f}
    BY <1>1, <1>2, <1>3, <1>4, <1>5 DEF UsedIds
<1> HIDE DEF used
<1>7. \E id \in 0 .. 4 : id \notin used
    <2>1. \E id \in 0 .. 4 : id # a /\ id # b /\ id # e /\ id # f
        <3>1. 0 \in 0 .. 4 /\ 1 \in 0 .. 4 /\ 2 \in 0 .. 4 /\ 3 \in 0 .. 4 /\ 4 \in 0 .. 4
            OBVIOUS
        <3> QED BY <3>1
    <2> QED BY <1>6, <2>1
<1>8. \E id \in WorkIds : id \notin used /\ \A other \in WorkIds : other < id => other \in used
    <2> USE DEF WorkIds
    <2>0. CASE 0 \notin used BY <2>0
    <2>1. CASE 0 \in used /\ 1 \notin used BY <2>1
    <2>2. CASE 0 \in used /\ 1 \in used /\ 2 \notin used BY <2>2
    <2>3. CASE 0 \in used /\ 1 \in used /\ 2 \in used /\ 3 \notin used BY <2>3
    <2>4. CASE 0 \in used /\ 1 \in used /\ 2 \in used /\ 3 \in used /\ 4 \notin used BY <2>4
    <2> QED BY <1>7, <2>0, <2>1, <2>2, <2>3, <2>4
<1> QED BY <1>8 DEF AllocateWorkId, used

\* A task with a new id and the slot it belongs to are entered together.
LEMMA LedgerAdmits ==
    ASSUME NEW work, NEW secrets, NEW host, NEW session, NEW tasks,
           Ledger(work, secrets, host, session, tasks), NEW t,
           \A u \in tasks : u.id # t.id
    PROVE /\ \A w : work = {} /\ Lane(t) = "work" /\ Serves(t, w)
                => Ledger({w}, secrets, host, session, tasks \cup {t})
          /\ secrets = {} /\ Lane(t) = "secrets"
                => Ledger(work, {t.id}, host, session, tasks \cup {t})
          /\ host = {} /\ Lane(t) = "host"
                => Ledger(work, secrets, {t.id}, session, tasks \cup {t})
          /\ session = {} /\ Lane(t) = "session"
                => Ledger(work, secrets, host, {t.id}, tasks \cup {t})
<1>1. ASSUME NEW w, work = {}, Lane(t) = "work", Serves(t, w)
      PROVE Ledger({w}, secrets, host, session, tasks \cup {t})
    BY <1>1 DEF Ledger, AtMostOne
<1>2. ASSUME secrets = {}, Lane(t) = "secrets"
      PROVE Ledger(work, {t.id}, host, session, tasks \cup {t})
    BY <1>2 DEF Ledger, AtMostOne
<1>3. ASSUME host = {}, Lane(t) = "host"
      PROVE Ledger(work, secrets, {t.id}, session, tasks \cup {t})
    BY <1>3 DEF Ledger, AtMostOne
<1>4. ASSUME session = {}, Lane(t) = "session"
      PROVE Ledger(work, secrets, host, {t.id}, tasks \cup {t})
    BY <1>4 DEF Ledger, AtMostOne
<1> QED BY <1>1, <1>2, <1>3, <1>4

\* A task and its slot are struck out together.
LEMMA LedgerClears ==
    ASSUME NEW work, NEW secrets, NEW host, NEW session, NEW tasks,
           Ledger(work, secrets, host, session, tasks), NEW t \in tasks
    PROVE /\ Lane(t) = "work" => Ledger({}, secrets, host, session, tasks \ {t})
          /\ Lane(t) = "secrets" => Ledger(work, {}, host, session, tasks \ {t})
          /\ Lane(t) = "host" => Ledger(work, secrets, {}, session, tasks \ {t})
          /\ Lane(t) = "session" => Ledger(work, secrets, host, {}, tasks \ {t})
<1> USE DEF Ledger, AtMostOne, Serves
<1>1. ASSUME Lane(t) = "work" PROVE Ledger({}, secrets, host, session, tasks \ {t}) BY <1>1
<1>2. ASSUME Lane(t) = "secrets" PROVE Ledger(work, {}, host, session, tasks \ {t}) BY <1>2
<1>3. ASSUME Lane(t) = "host" PROVE Ledger(work, secrets, {}, session, tasks \ {t}) BY <1>3
<1>4. ASSUME Lane(t) = "session" PROVE Ledger(work, secrets, host, {}, tasks \ {t}) BY <1>4
<1> QED BY <1>1, <1>2, <1>3, <1>4

\* A result changes no entry.
LEMMA LedgerFinishes ==
    ASSUME NEW work, NEW secrets, NEW host, NEW session, NEW tasks,
           Ledger(work, secrets, host, session, tasks), NEW t \in tasks, NEW u,
           u.id = t.id, u.kind = t.kind, u.gen = t.gen
    PROVE Ledger(work, secrets, host, session, (tasks \ {t}) \cup {u})
<1>1. Lane(u) = Lane(t) /\ \A w : Serves(u, w) <=> Serves(t, w) BY DEF Lane, Serves
<1> QED BY <1>1 DEF Ledger

-----------------------------------------------------------------------------
(* What the loop does to one cell. *)

\* The backend tasks that own the work slot.
StrongTasks == BackendTasks \ {"secrets"}

\* What a turn under the document d makes of a cell: it ends no task, and what it
\* starts works on the document as it is.
Goes(c, e, d) ==
    /\ IsRunning(c) <=> IsRunning(e)
    /\ IsRunning(c) =>
         /\ e.saved = c.saved /\ c.tasks \subseteq e.tasks
         /\ e.doc.mtmpl = c.doc.mtmpl /\ e.doc.pid = c.doc.pid
         /\ e.doc.phase = "Deleted" <=> c.doc.phase = "Deleted"
    /\ \A t \in e.tasks \ c.tasks :
         /\ t.res = "running"
         /\ t.kind = "create" => t.tmpl = d.tmpl
         /\ t.kind \in BackendTasks =>
              /\ IsRunning(c) /\ t.pid = c.doc.pid
              /\ \A u \in c.tasks : u.kind \notin StrongTasks

\* Two passes of a turn over a cell in a row are one.
LEMMA GoesOn ==
    ASSUME NEW c, NEW e, NEW g, NEW d, Goes(c, e, d), Goes(e, g, d) PROVE Goes(c, g, d)
<1>1. IsRunning(c) <=> IsRunning(g) BY DEF Goes
<1>2. IsRunning(c) =>
        /\ g.saved = c.saved /\ c.tasks \subseteq g.tasks
        /\ g.doc.mtmpl = c.doc.mtmpl /\ g.doc.pid = c.doc.pid
        /\ g.doc.phase = "Deleted" <=> c.doc.phase = "Deleted"
    BY DEF Goes
<1>3. ASSUME NEW t \in g.tasks \ c.tasks
      PROVE /\ t.res = "running"
            /\ t.kind = "create" => t.tmpl = d.tmpl
            /\ t.kind \in BackendTasks =>
                 /\ IsRunning(c) /\ t.pid = c.doc.pid
                 /\ \A u \in c.tasks : u.kind \notin StrongTasks
    <2>1. CASE t \in e.tasks BY <2>1 DEF Goes
    <2>2. CASE t \notin e.tasks BY <2>2 DEF Goes
    <2> QED BY <2>1, <2>2
<1> QED BY <1>1, <1>2, <1>3 DEF Goes

\* A pass may leave the cell alone.
LEMMA GoesNowhere == ASSUME NEW c, NEW d PROVE Goes(c, c, d)
BY DEF Goes

\* A spawned task has a fresh id, no result yet, and the kind and generation asked for.
LEMMA TaskFacts ==
    ASSUME NEW c \in Cells, LedgerInv(c), NEW kind \in TaskKinds, NEW gen \in Nat
    PROVE /\ Task(c, kind, gen) \in Tasks
          /\ Task(c, kind, gen).id = AllocateWorkId(c)
          /\ Task(c, kind, gen).kind = kind /\ Task(c, kind, gen).gen = gen
          /\ Task(c, kind, gen).res = "running"
          /\ kind \in BackendTasks => Task(c, kind, gen).pid = c.doc.pid
          /\ \A u \in c.tasks : u.id # Task(c, kind, gen).id
          /\ Task(c, kind, gen) \notin c.tasks
<1> DEFINE id == AllocateWorkId(c)
           pid == kind \in BackendTasks /\ c.doc.pid
<1>1. id \in WorkIds /\ \A u \in c.tasks : u.id # id BY FreshId DEF UsedIds
<1>2. pid \in BOOLEAN BY Zenon
<1>3. kind \in BackendTasks => pid = c.doc.pid
    <2>1. c.doc.pid \in BOOLEAN BY DEF Cells, InstanceDocs
    <2> QED BY <2>1, Zenon
<1>4. Task(c, kind, gen) = [kind |-> kind, id |-> id, gen |-> gen, tmpl |-> None, base |-> None,
                            pid |-> pid, res |-> "running"]
    BY DEF Task
<1> HIDE DEF id, pid
<1> QED BY <1>1, <1>2, <1>3, <1>4 DEF Tasks, Keys, Results, id

\* A change of the document alone, as the projection of the desired state makes it.
LEMMA Redocumented ==
    ASSUME NEW c, CellInv(c), IsRunning(c), NEW e \in Cells, NEW d,
           e.st = c.st, e.work = c.work, e.secrets = c.secrets, e.host = c.host,
           e.session = c.session, e.saved = c.saved, e.tasks = c.tasks,
           e.doc.mtmpl = c.doc.mtmpl, e.doc.pid = c.doc.pid,
           c.doc.phase = "Deleted" => e.doc = c.doc,
           c.doc.phase = "Deleting" => e.doc.phase = "Deleting",
           e.doc.phase = "Deleted" => c.doc.phase = "Deleted"
    PROVE CellInv(e) /\ Goes(c, e, d)
<1>1. LedgerInv(e) BY DEF CellInv, LedgerInv
<1>2. SlotInv(e) BY DEF CellInv, SlotInv, IsRunning
<1>3. CleanupInv(e) BY DEF CellInv, CleanupInv, IsRunning
<1>4. Goes(c, e, d) BY DEF Goes, IsRunning
<1> QED BY <1>1, <1>2, <1>3, <1>4 DEF CellInv

\* A cell that is free to change its instance takes the slot together with its task.
LEMMA OwnWorkGoes ==
    ASSUME NEW c, CellInv(c), IsRunning(c), ~BlocksInstanceTransition(c), NEW d,
           NEW work \in WorkKinds \ {"Creating"}, NEW kind \in TasksFor(work),
           kind = "stopForDelete" => c.doc.phase = "Deleting",
           kind = "removeFiles" => c.doc.phase = "Deleted" /\ c.saved = {c.doc},
           c.doc.phase = "Deleted" => work = "Deleting"
    PROVE /\ CellInv(OwnWork(c, work, kind)) /\ Goes(c, OwnWork(c, work, kind), d)
          /\ OwnWork(c, work, kind).doc = c.doc
          /\ OwnWork(c, work, kind).session = c.session
<1> DEFINE t == Task(c, kind, c.doc.gen)
           w == [id |-> t.id, kind |-> work, gen |-> t.gen]
           e == OwnWork(c, work, kind)
<1>1. c \in Cells /\ LedgerInv(c) /\ SlotInv(c) /\ CleanupInv(c) BY DEF CellInv
<1>2. c.doc.gen \in Nat BY <1>1 DEF Cells, InstanceDocs
<1>3. kind \in TaskKinds /\ kind \notin {"secrets", "hostInputs", "exec", "create"}
    BY DEF TasksFor, WorkKinds, TaskKinds
<1>4. /\ t \in Tasks /\ t.kind = kind /\ t.gen = c.doc.gen /\ t.res = "running"
      /\ kind \in BackendTasks => t.pid = c.doc.pid
      /\ \A u \in c.tasks : u.id # t.id
    BY <1>1, <1>2, <1>3, TaskFacts
<1>5. Lane(t) = "work" BY <1>3, <1>4 DEF Lane
<1>6. c.work = {} /\ c.secrets = {} /\ c.host = {} /\ c.session = {}
    BY DEF BlocksInstanceTransition
<1>7. \A u \in c.tasks : FALSE
    BY <1>1, <1>6 DEF LedgerInv, Ledger, Lane
<1>8. e = [c EXCEPT !.work = {w}, !.tasks = @ \cup {t}] BY DEF OwnWork
<1> HIDE DEF t
<1>9. Serves(t, w) BY <1>4 DEF Serves
<1>10. w \in [id : WorkIds, kind : WorkKinds, gen : Nat] BY <1>4 DEF Tasks
<1> HIDE DEF w
<1>11. w.kind = work BY DEF w
<1> HIDE DEF e
<1>12. /\ e \in Cells /\ e.st = c.st /\ e.doc = c.doc /\ e.saved = c.saved /\ e.work = {w}
       /\ e.secrets = c.secrets /\ e.host = c.host /\ e.session = c.session
       /\ e.tasks = c.tasks \cup {t}
    BY <1>1, <1>4, <1>8, <1>10 DEF Cells
<1>13. LedgerInv(e)
    <2>1. Ledger(c.work, c.secrets, c.host, c.session, c.tasks) BY <1>1 DEF LedgerInv
    <2>2. Ledger({w}, c.secrets, c.host, c.session, c.tasks \cup {t})
        BY <1>4, <1>5, <1>6, <1>9, <2>1, LedgerAdmits
    <2> QED BY <1>12, <2>2 DEF LedgerInv
<1>14. SlotInv(e) BY <1>1, <1>6, <1>11, <1>12 DEF SlotInv, IsRunning
<1>15. CleanupInv(e)
    BY <1>1, <1>4, <1>6, <1>7, <1>11, <1>12 DEF CleanupInv, IsRunning
<1>16. Goes(c, e, d)
    BY <1>3, <1>4, <1>7, <1>12 DEF Goes, IsRunning
<1> QED BY <1>12, <1>13, <1>14, <1>15, <1>16 DEF CellInv, e

\* admit_instance_work: the task works for the generation the instance was projected to.
LEMMA AdmitInstanceWorkGoes ==
    ASSUME NEW c, CellInv(c), IsRunning(c), ~BlocksInstanceTransition(c), NEW d,
           NEW work \in WorkKinds \ {"Creating"}, NEW kind \in TasksFor(work),
           kind = "stopForDelete" => c.doc.phase = "Deleting", kind # "removeFiles",
           c.doc.phase # "Deleted"
    PROVE CellInv(AdmitInstanceWork(c, work, kind)) /\ Goes(c, AdmitInstanceWork(c, work, kind), d)
<1> DEFINE o == OwnWork(c, work, kind)
           n == Cardinality(c.session)
           e == [o EXCEPT !.doc.busy = TRUE, !.doc.sessions = n]
<1>1. /\ CellInv(o) /\ Goes(c, o, d) /\ o.doc = c.doc BY OwnWorkGoes
<1>2. n \in {0, 1} BY AtMostOneCardinality DEF CellInv, LedgerInv, Ledger
<1>3. AdmitInstanceWork(c, work, kind) = e BY DEF AdmitInstanceWork
<1> HIDE DEF o, n
<1>4. o \in Cells BY <1>1 DEF CellInv
<1>5. /\ e \in Cells /\ e.st = o.st /\ e.work = o.work /\ e.secrets = o.secrets
      /\ e.host = o.host /\ e.session = o.session /\ e.saved = o.saved /\ e.tasks = o.tasks
      /\ e.doc.mtmpl = o.doc.mtmpl /\ e.doc.pid = o.doc.pid /\ e.doc.phase = o.doc.phase
    BY ZenonT(60), <1>2, <1>4 DEF Cells, InstanceDocs
<1>6. IsRunning(o) BY <1>1 DEF Goes
<1> HIDE DEF e
<1>7. CellInv(e) /\ Goes(o, e, d) BY <1>1, <1>5, <1>6, Redocumented
<1> QED BY <1>1, <1>3, <1>7, GoesOn

\* refresh_instance_observed_generation writes down a generation and nothing else.
LEMMA RefreshGoes ==
    ASSUME NEW c, CellInv(c), IsRunning(c), NEW d
    PROVE /\ CellInv(RefreshObservedGeneration(c)) /\ Goes(c, RefreshObservedGeneration(c), d)
          /\ RefreshObservedGeneration(c).doc.target = c.doc.target
          /\ RefreshObservedGeneration(c).doc.phase = c.doc.phase
<1> DEFINE e == [c EXCEPT !.doc.observed = c.doc.gen]
<1>1. c \in Cells BY DEF CellInv
<1>2. /\ e \in Cells /\ e.st = c.st /\ e.work = c.work /\ e.secrets = c.secrets
      /\ e.host = c.host /\ e.session = c.session /\ e.saved = c.saved /\ e.tasks = c.tasks
      /\ e.doc.mtmpl = c.doc.mtmpl /\ e.doc.pid = c.doc.pid /\ e.doc.phase = c.doc.phase
      /\ e.doc.target = c.doc.target
    BY <1>1 DEF Cells, InstanceDocs
<1>3. Converged(c.doc) => c.doc.phase # "Deleted" BY DEF Converged
<1>4. RefreshObservedGeneration(c) = IF c.work = {} /\ Converged(c.doc) THEN e ELSE c
    BY DEF RefreshObservedGeneration
<1> HIDE DEF e
<1>5. c.doc.phase # "Deleted" => CellInv(e) /\ Goes(c, e, d) BY <1>2, Redocumented
<1> QED BY <1>2, <1>3, <1>4, <1>5, GoesNowhere

\* project_instance_desired_state: an instance gets the target of the agent, unless its
\* files are about to go.
LEMMA ProjectInstanceGoes ==
    ASSUME NEW c, CellInv(c), IsRunning(c), NEW d \in Docs, NEW i \in Ids
    PROVE LET p == ProjectInstanceDesiredState(c, d, i)
          IN  /\ CellInv(p) /\ Goes(c, p, d)
              /\ p.doc.target = TargetFor(d, i) \/ p.doc.phase = "Deleted"
<1> DEFINE p == ProjectInstanceDesiredState(c, d, i)
           key == ProjectedBase(c.doc, d)
           target == TargetFor(d, i)
           genChanged == c.doc.gen # d.gen
           desiredChanged == \/ genChanged \/ c.doc.base # key
                             \/ c.doc.tmpl # d.tmpl \/ c.doc.target # target
           enteringCleanup == /\ c.doc.mbase # key \/ c.doc.mtmpl # d.tmpl
                              /\ c.doc.phase # "Deleting"
           repair == IF desiredChanged THEN "Idle" ELSE c.repair
           files == c.files /\ ~genChanged
           hostReady == IF genChanged THEN 0 ELSE c.doc.hostReady
           phase == IF enteringCleanup THEN "Deleting" ELSE c.doc.phase
           observed == StepBack(c.doc.observed, d.gen)
           new == [c.doc EXCEPT !.gen = d.gen, !.base = key, !.tmpl = d.tmpl,
                                !.target = target, !.hostReady = hostReady,
                                !.phase = phase, !.ready = FALSE, !.recon = "none",
                                !.observed = observed]
           e == [c EXCEPT !.repair = repair, !.files = files, !.doc = new]
<1>1. c \in Cells /\ c.doc \in InstanceDocs BY DEF CellInv, Cells
<1>2. \/ p = c /\ (c.doc.target = target \/ c.doc.phase = "Deleted")
      \/ p = e /\ c.doc.phase # "Deleted"
    BY DEF ProjectInstanceDesiredState
<1>3. key \in Keys /\ target \in Targets /\ d.gen \in Nat /\ d.tmpl \in Keys
    BY <1>1 DEF ProjectedBase, TargetFor, Targets, Docs, AgentDocs, InstanceDocs, Keys
<1>4. observed \in Nat BY <1>1 DEF StepBack, Docs, AgentDocs, InstanceDocs
<1>5. files \in BOOLEAN BY Zenon
<1>6. repair \in {"Idle", "Due", "Backoff"} BY <1>1 DEF Cells
<1>7. hostReady \in Nat /\ phase \in Phases BY <1>1 DEF InstanceDocs, Phases
<1>8. /\ c.doc.phase = "Deleting" => phase = "Deleting"
      /\ phase = "Deleted" => c.doc.phase = "Deleted"
    OBVIOUS
<1> HIDE DEF key, target, observed, files, repair, hostReady, phase
<1>9. /\ new \in InstanceDocs /\ new.mtmpl = c.doc.mtmpl /\ new.pid = c.doc.pid
      /\ new.phase = phase /\ new.target = target
    BY <1>1, <1>3, <1>4, <1>7 DEF InstanceDocs
<1> HIDE DEF new
<1>10. /\ e \in Cells /\ e.st = c.st /\ e.work = c.work /\ e.secrets = c.secrets
       /\ e.host = c.host /\ e.session = c.session /\ e.saved = c.saved
       /\ e.tasks = c.tasks /\ e.doc = new
    BY <1>1, <1>5, <1>6, <1>9 DEF Cells
<1> HIDE DEF e
<1>11. c.doc.phase # "Deleted" => CellInv(e) /\ Goes(c, e, d)
    BY <1>8, <1>9, <1>10, Redocumented
<1> QED BY <1>2, <1>9, <1>10, <1>11, GoesNowhere DEF target

\* project_instance_desired_states: only the deletion of the agent turns an instance
\* towards deletion.
LEMMA ProjectGoes ==
    ASSUME NEW c, CellInv(c), NEW d \in Docs, NEW i \in Ids
    PROVE /\ CellInv(Project(c, d, i)) /\ Goes(c, Project(c, d, i), d)
          /\ IsRunning(c) /\ Project(c, d, i).doc.target = "Deleting"
               => d.del \/ Project(c, d, i).doc.phase = "Deleted"
<1>1. CASE ~IsRunning(c) BY <1>1, GoesNowhere DEF Project
<1>2. CASE IsRunning(c)
    <2> DEFINE p == ProjectInstanceDesiredState(c, d, i)
    <2>1. /\ CellInv(p) /\ Goes(c, p, d)
          /\ p.doc.target = TargetFor(d, i) \/ p.doc.phase = "Deleted"
        BY <1>2, ProjectInstanceGoes
    <2> HIDE DEF p
    <2>0. TargetFor(d, i) = "Deleting" => d.del BY DEF TargetFor
    <2>2. IsRunning(p) BY <1>2, <2>1 DEF Goes
    <2>3. Project(c, d, i) = RefreshObservedGeneration(p) BY <1>2 DEF Project, p
    <2> QED BY <2>0, <2>1, <2>2, <2>3, RefreshGoes, GoesOn
<1> QED BY <1>1, <1>2

\* An instance that does not exist owns nothing.
LEMMA AbsentCell == CellInv(Absent) /\ Absent.tasks = {} /\ Absent.st = "absent"
<1>1. NewInstanceDoc(0, None, None) \in InstanceDocs
    BY DEF NewInstanceDoc, InstanceDocs, Keys, Targets, Phases
<1>2. /\ Absent \in Cells /\ Absent.st = "absent" /\ Absent.work = {} /\ Absent.secrets = {}
      /\ Absent.host = {} /\ Absent.session = {} /\ Absent.tasks = {} /\ Absent.saved = {}
    BY <1>1 DEF Absent, Cells
<1>3. LedgerInv(Absent) BY <1>2 DEF LedgerInv, Ledger, AtMostOne
<1>4. SlotInv(Absent) BY <1>2 DEF SlotInv, IsRunning
<1>5. CleanupInv(Absent) BY <1>2 DEF CleanupInv, AtMostOne, IsRunning
<1> QED BY <1>2, <1>3, <1>4, <1>5 DEF CellInv

\* A refresh of the credentials is the only work beside a bootstrap.
LEMMA RuntimeSecretsGoes ==
    ASSUME NEW c, CellInv(c), NEW d, NEW e \in ReconcileRuntimeSecrets(c)
    PROVE CellInv(e) /\ Goes(c, e, d) /\ e.doc = c.doc
<1>1. CASE e = c BY <1>1, GoesNowhere
<1>2. CASE e # c
    <2> DEFINE t == Task(c, "secrets", c.doc.gen)
    <2>1. ShouldReconcileRuntimeSecrets(c) /\ e = [c EXCEPT !.secrets = {t.id}, !.tasks = @ \cup {t}]
        BY <1>2 DEF ReconcileRuntimeSecrets
    <2>2. /\ IsRunning(c) /\ c.secrets = {} /\ c.doc.phase = "Running"
          /\ \A w \in c.work : w.kind = "Bootstrapping"
        BY <2>1 DEF ShouldReconcileRuntimeSecrets
    <2>3. c \in Cells /\ LedgerInv(c) /\ SlotInv(c) /\ CleanupInv(c) BY DEF CellInv
    <2>4. c.doc.gen \in Nat BY <2>3 DEF Cells, InstanceDocs
    <2>5. /\ t \in Tasks /\ t.kind = "secrets" /\ t.res = "running" /\ t.pid = c.doc.pid
          /\ \A u \in c.tasks : u.id # t.id
        BY <2>3, <2>4, TaskFacts DEF TaskKinds, BackendTasks
    <2>6. Lane(t) = "secrets" BY <2>5 DEF Lane
    <2>7. \A u \in c.tasks : u.kind \notin StrongTasks
        BY <2>2, <2>3 DEF LedgerInv, Ledger, Lane, Serves, TasksFor, StrongTasks, BackendTasks
    <2> HIDE DEF t
    <2>8. /\ e \in Cells /\ e.st = c.st /\ e.doc = c.doc /\ e.saved = c.saved /\ e.work = c.work
          /\ e.secrets = {t.id} /\ e.host = c.host /\ e.session = c.session
          /\ e.tasks = c.tasks \cup {t}
        BY <2>1, <2>3, <2>5 DEF Cells, Tasks
    <2>9. LedgerInv(e)
        <3>1. Ledger(c.work, c.secrets, c.host, c.session, c.tasks) BY <2>3 DEF LedgerInv
        <3>2. Ledger(c.work, {t.id}, c.host, c.session, c.tasks \cup {t})
            BY <2>2, <2>5, <2>6, <3>1, LedgerAdmits
        <3> QED BY <2>8, <3>2 DEF LedgerInv
    <2>10. SlotInv(e) BY <2>2, <2>3, <2>8 DEF SlotInv, IsRunning
    <2>11. CleanupInv(e) BY <2>2, <2>3, <2>5, <2>8 DEF CleanupInv, IsRunning
    <2>12. Goes(c, e, d) BY <2>2, <2>5, <2>7, <2>8 DEF Goes, IsRunning
    <2> QED BY <2>8, <2>9, <2>10, <2>11, <2>12 DEF CellInv
<1> QED BY <1>1, <1>2

\* The host inputs of an instance are looked after in a slot of their own.
LEMMA HostInputsGoes ==
    ASSUME NEW c, CellInv(c), NEW d, NEW e \in ReconcileHostInputs(c)
    PROVE CellInv(e) /\ Goes(c, e, d)
<1>1. CASE e = c BY <1>1, GoesNowhere
<1>2. CASE e # c
    <2> DEFINE t == Task(c, "hostInputs", c.doc.gen)
    <2>1. ShouldReconcileHostInputs(c) /\ e = [c EXCEPT !.host = {t.id}, !.tasks = @ \cup {t}]
        BY <1>2 DEF ReconcileHostInputs
    <2>2. /\ IsRunning(c) /\ c.doc.phase = "Running"
          /\ c.work = {} /\ c.secrets = {} /\ c.host = {} /\ c.session = {}
        BY <2>1 DEF ShouldReconcileHostInputs, BlocksInstanceTransition
    <2>3. c \in Cells /\ LedgerInv(c) /\ SlotInv(c) /\ CleanupInv(c) BY DEF CellInv
    <2>4. c.doc.gen \in Nat BY <2>3 DEF Cells, InstanceDocs
    <2>5. /\ t \in Tasks /\ t.kind = "hostInputs" /\ t.res = "running"
          /\ \A u \in c.tasks : u.id # t.id
        BY <2>3, <2>4, TaskFacts DEF TaskKinds
    <2>6. Lane(t) = "host" BY <2>5 DEF Lane
    <2> HIDE DEF t
    <2>8. /\ e \in Cells /\ e.st = c.st /\ e.doc = c.doc /\ e.saved = c.saved /\ e.work = c.work
          /\ e.host = {t.id} /\ e.secrets = c.secrets /\ e.session = c.session
          /\ e.tasks = c.tasks \cup {t}
        BY <2>1, <2>3, <2>5 DEF Cells, Tasks
    <2>9. LedgerInv(e)
        <3>1. Ledger(c.work, c.secrets, c.host, c.session, c.tasks) BY <2>3 DEF LedgerInv
        <3>2. Ledger(c.work, c.secrets, {t.id}, c.session, c.tasks \cup {t})
            BY <2>2, <2>5, <2>6, <3>1, LedgerAdmits
        <3> QED BY <2>8, <3>2 DEF LedgerInv
    <2>10. SlotInv(e) BY <2>2, <2>3, <2>8 DEF SlotInv, IsRunning
    <2>11. CleanupInv(e) BY <2>2, <2>3, <2>5, <2>8 DEF CleanupInv, IsRunning
    <2>12. Goes(c, e, d) BY <2>2, <2>5, <2>8 DEF Goes, IsRunning, BackendTasks
    <2> QED BY <2>8, <2>9, <2>10, <2>11, <2>12 DEF CellInv
<1> QED BY <1>1, <1>2

\* reconcile_active_instance starts one task for an instance that is not being cleaned up.
LEMMA ActiveInstanceGoes ==
    ASSUME NEW c, CellInv(c), NEW d, IsRunning(c), ~BlocksInstanceTransition(c),
           c.doc.phase \notin CleanupPhases, NEW e \in ReconcileActiveInstance(c)
    PROVE CellInv(e) /\ Goes(c, e, d)
<1> USE DEF WorkKinds, TasksFor, CleanupPhases
<1>1. CASE e = c BY <1>1, GoesNowhere
<1>2. CASE e = AdmitInstanceWork([c EXCEPT !.repair = "Backoff"], "Repairing", "reconcile")
    <2> DEFINE b == [c EXCEPT !.repair = "Backoff"]
    <2>1. /\ b \in Cells /\ b.st = c.st /\ b.work = c.work /\ b.secrets = c.secrets
          /\ b.host = c.host /\ b.session = c.session /\ b.saved = c.saved /\ b.tasks = c.tasks
          /\ b.doc = c.doc
        BY DEF CellInv, Cells
    <2> HIDE DEF b
    <2>2. CellInv(b) /\ Goes(c, b, d) BY <2>1, Redocumented
    <2>3. IsRunning(b) /\ ~BlocksInstanceTransition(b)
        BY <2>1 DEF IsRunning, BlocksInstanceTransition
    <2>4. e = AdmitInstanceWork(b, "Repairing", "reconcile") BY <1>2 DEF b
    <2>5. CellInv(e) /\ Goes(b, e, d) BY <2>1, <2>2, <2>3, <2>4, AdmitInstanceWorkGoes
    <2> QED BY <2>2, <2>5, GoesOn
<1>3. CASE e = AdmitInstanceWork(c, "Reconciling", "reconcile") BY <1>3, AdmitInstanceWorkGoes
<1>4. CASE e = AdmitInstanceWork(c, "Starting", "start") BY <1>4, AdmitInstanceWorkGoes
<1>5. CASE e = AdmitInstanceWork(c, "Bootstrapping", "bootstrap") BY <1>5, AdmitInstanceWorkGoes
<1>6. CASE e = AdmitInstanceWork(c, "Reconciling", "tailscale") BY <1>6, AdmitInstanceWorkGoes
<1>7. e \in {c, AdmitInstanceWork([c EXCEPT !.repair = "Backoff"], "Repairing", "reconcile"),
             AdmitInstanceWork(c, "Reconciling", "reconcile"), AdmitInstanceWork(c, "Starting", "start"),
             AdmitInstanceWork(c, "Bootstrapping", "bootstrap"),
             AdmitInstanceWork(c, "Reconciling", "tailscale")}
    BY Zenon DEF ReconcileActiveInstance
<1> QED BY <1>1, <1>2, <1>3, <1>4, <1>5, <1>6, <1>7

\* A turn that wants an instance deleted has marked it first.
LEMMA ReconcileInstanceGoes ==
    ASSUME NEW c, CellInv(c), NEW d, NEW e \in ReconcileInstance(c),
           IsRunning(c) /\ c.doc.target = "Deleting" => c.doc.phase \in CleanupPhases
    PROVE CellInv(e) /\ Goes(c, e, d)
<1>1. CASE e = c BY <1>1, GoesNowhere
<1>2. CASE e # c
    <2>1. IsRunning(c) /\ ~BlocksInstanceTransition(c) BY <1>2 DEF ReconcileInstance
    <2>2. CASE c.doc.phase \in CleanupPhases
        <3>0. e \in ReconcileDeletingInstance(c) BY <2>1, <2>2 DEF ReconcileInstance
        <3>1. PICK s \in c.saved : s.phase = c.doc.phase
            BY <1>2, <3>0 DEF ReconcileDeletingInstance, CleanupPhasePersisted
        <3>2. CASE c.doc.phase = "Deleting"
            <4>1. e = AdmitInstanceWork(c, "Deleting", "stopForDelete")
                BY <1>2, <3>0, <3>2 DEF ReconcileDeletingInstance
            <4> QED BY <2>1, <3>2, <4>1, AdmitInstanceWorkGoes DEF WorkKinds, TasksFor
        <3>3. CASE c.doc.phase = "Deleted"
            <4>1. e = OwnWork(c, "Deleting", "removeFiles")
                BY <1>2, <3>0, <3>3 DEF ReconcileDeletingInstance
            <4>2. s = c.doc BY <2>1, <3>1, <3>3 DEF CellInv, CleanupInv
            <4>3. c.saved = {c.doc} BY <3>1, <4>2 DEF CellInv, CleanupInv, AtMostOne
            <4> QED BY <2>1, <3>3, <4>1, <4>3, OwnWorkGoes DEF WorkKinds, TasksFor
        <3> QED BY <2>2, <3>2, <3>3 DEF CleanupPhases
    <2>3. CASE c.doc.phase \notin CleanupPhases
        <3>1. e \in ReconcileActiveInstance(c) \/ e \in ReconcileInactiveInstance(c)
            BY <2>1, <2>3 DEF ReconcileInstance
        <3>2. CASE e \in ReconcileActiveInstance(c) BY <2>1, <2>3, <3>2, ActiveInstanceGoes
        <3>3. CASE e \in ReconcileInactiveInstance(c)
            <4>1. e = RefreshObservedGeneration(c) \/ e = AdmitInstanceWork(c, "Stopping", "stop")
                BY <3>3 DEF ReconcileInactiveInstance
            <4> QED BY <2>1, <2>3, <4>1, RefreshGoes, AdmitInstanceWorkGoes
                    DEF WorkKinds, TasksFor, CleanupPhases
        <3> QED BY <3>1, <3>2, <3>3
    <2> QED BY <2>2, <2>3
<1> QED BY <1>1, <1>2

\* An instance that waits for another try of its creation has no task to lose.
LEMMA DropRetryingGoes ==
    ASSUME NEW c, CellInv(c), NEW d
    PROVE CellInv(DropRetrying(c)) /\ Goes(c, DropRetrying(c), d)
<1>1. CASE Retrying(c) BY <1>1, AbsentCell DEF DropRetrying, Retrying, Goes, IsRunning
<1>2. CASE ~Retrying(c) BY <1>2, GoesNowhere DEF DropRetrying
<1> QED BY <1>1, <1>2

\* reconcile_deletion puts every running instance into a phase of the cleanup.
LEMMA MarkDeletingGoes ==
    ASSUME NEW c, CellInv(c), NEW d
    PROVE /\ CellInv(MarkDeleting(c)) /\ Goes(c, MarkDeleting(c), d)
          /\ IsRunning(c) => MarkDeleting(c).doc.phase \in CleanupPhases
<1> DEFINE e == [c EXCEPT !.doc.phase = "Deleting", !.doc.ready = FALSE, !.doc.recon = "none"]
<1>1. c \in Cells BY DEF CellInv
<1>2. /\ e \in Cells /\ e.st = c.st /\ e.work = c.work /\ e.secrets = c.secrets
      /\ e.host = c.host /\ e.session = c.session /\ e.saved = c.saved /\ e.tasks = c.tasks
      /\ e.doc.mtmpl = c.doc.mtmpl /\ e.doc.pid = c.doc.pid /\ e.doc.phase = "Deleting"
    BY ZenonT(60), <1>1 DEF Cells, InstanceDocs, Phases
<1>3. MarkDeleting(c) = IF IsRunning(c) /\ c.doc.phase \notin CleanupPhases THEN e ELSE c
    BY DEF MarkDeleting
<1> HIDE DEF e
<1>4. IsRunning(c) /\ c.doc.phase \notin CleanupPhases => CellInv(e) /\ Goes(c, e, d)
    BY <1>2, Redocumented DEF CleanupPhases
<1> QED BY <1>2, <1>3, <1>4, GoesNowhere DEF CleanupPhases

\* A creation is spawned for an instance that does not exist yet.
LEMMA SpawnCreateGoes ==
    ASSUME NEW c, CellInv(c), ~IsRunning(c), c.work = {}, NEW d \in Docs
    PROVE CellInv(SpawnCreate(c, d)) /\ Goes(c, SpawnCreate(c, d), d)
<1> DEFINE k == Task(c, "create", d.gen)
           t == [k EXCEPT !.tmpl = d.tmpl, !.base = d.baseReady]
           w == [id |-> t.id, kind |-> "Creating", gen |-> d.gen]
           e == SpawnCreate(c, d)
<1>1. c \in Cells /\ LedgerInv(c) /\ SlotInv(c) BY DEF CellInv
<1>2. d.gen \in Nat /\ d.tmpl \in Keys /\ d.baseReady \in Keys BY DEF Docs, AgentDocs, Keys
<1>3. k \in Tasks /\ k.kind = "create" /\ k.gen = d.gen /\ k.res = "running"
      /\ \A u \in c.tasks : u.id # k.id
    BY <1>1, <1>2, TaskFacts DEF TaskKinds
<1>4. e = [c EXCEPT !.st = "starting", !.gen = d.gen, !.work = {w}, !.tasks = @ \cup {t}]
    BY DEF SpawnCreate
<1> HIDE DEF k
<1>5. /\ t \in Tasks /\ t.kind = "create" /\ t.gen = d.gen /\ t.res = "running"
      /\ t.tmpl = d.tmpl /\ \A u \in c.tasks : u.id # t.id
    BY <1>2, <1>3 DEF Tasks
<1> HIDE DEF t
<1>6. Lane(t) = "work" BY <1>5 DEF Lane
<1>7. Serves(t, w) /\ w.kind = "Creating" BY <1>5 DEF Serves, TasksFor
<1>8. w \in [id : WorkIds, kind : WorkKinds, gen : Nat] BY <1>2, <1>5 DEF Tasks, WorkKinds
<1> HIDE DEF w, e
<1>9. /\ e \in Cells /\ e.st = "starting" /\ e.saved = c.saved /\ e.work = {w}
      /\ e.secrets = c.secrets /\ e.host = c.host /\ e.session = c.session
      /\ e.tasks = c.tasks \cup {t}
    BY <1>1, <1>2, <1>4, <1>5, <1>8 DEF Cells
<1>10. c.secrets = {} /\ c.host = {} /\ c.session = {} BY <1>1 DEF SlotInv
<1>11. \A u \in c.tasks : FALSE BY <1>1, <1>10 DEF LedgerInv, Ledger, Lane
<1>12. LedgerInv(e)
    <2>1. Ledger(c.work, c.secrets, c.host, c.session, c.tasks) BY <1>1 DEF LedgerInv
    <2>2. Ledger({w}, c.secrets, c.host, c.session, c.tasks \cup {t})
        BY <1>5, <1>6, <1>7, <2>1, LedgerAdmits
    <2> QED BY <1>9, <2>2 DEF LedgerInv
<1>13. SlotInv(e) BY <1>7, <1>9, <1>10 DEF SlotInv, IsRunning
<1>14. CleanupInv(e)
    BY <1>5, <1>9, <1>11 DEF CellInv, CleanupInv, IsRunning
<1>15. Goes(c, e, d) BY <1>5, <1>9, <1>11 DEF Goes, IsRunning, BackendTasks
<1> QED BY <1>9, <1>12, <1>13, <1>14, <1>15 DEF CellInv, e

\* reconcile_active_instances leaves an instance that exists to the other passes.
LEMMA EnsureCreatedGoes ==
    ASSUME NEW c, CellInv(c), NEW d \in Docs, NEW e \in EnsureCreated(c, d)
    PROVE CellInv(e) /\ Goes(c, e, d) /\ (IsRunning(c) => e = c)
<1>1. CASE e = c BY <1>1, GoesNowhere
<1>2. CASE e # c
    <2>1. e = SpawnCreate(c, d) /\ (c.st = "absent" \/ Retrying(c))
        BY <1>2 DEF EnsureCreated
    <2>2. ~IsRunning(c) /\ c.work = {}
        BY <2>1 DEF Retrying, IsRunning, CellInv, SlotInv
    <2> QED BY <2>1, <2>2, SpawnCreateGoes
<1> QED BY <1>1, <1>2

\* What the passes of one turn, in their order, make of a cell.
LEMMA TurnCellGoes ==
    ASSUME NEW c, CellInv(c), NEW d \in Docs, NEW b, NEW i \in Ids, NEW e \in TurnCell(c, d, b, i)
    PROVE CellInv(e) /\ Goes(c, e, d)
<1> DEFINE p == Project(c, d, i)
<1>1. PICK x, y :
        /\ x \in ReconcileRuntimeSecrets(p)
        /\ e \in ReconcileHostInputs(y)
        /\ \/ d.del /\ y \in ReconcileInstance(MarkDeleting(DropRetrying(x)))
           \/ ~d.del /\ y \in ReconcileInstance(DropRetrying(x))
           \/ ~d.del /\ \E z \in EnsureCreated(x, d) : y \in ReconcileInstance(z)
           \/ ~d.del /\ y \in ReconcileInstance(x)
           \/ y = x
    BY DEF TurnCell
<1>2. /\ CellInv(p) /\ Goes(c, p, d)
      /\ IsRunning(c) /\ p.doc.target = "Deleting" => d.del \/ p.doc.phase = "Deleted"
    BY ProjectGoes
<1> HIDE DEF p
<1>3. /\ CellInv(x) /\ Goes(p, x, d) /\ x.doc = p.doc BY <1>1, <1>2, RuntimeSecretsGoes
<1>4. Goes(c, x, d) BY <1>2, <1>3, GoesOn
<1>5. ~d.del /\ IsRunning(x) /\ x.doc.target = "Deleting" => x.doc.phase \in CleanupPhases
    BY <1>2, <1>3, <1>4 DEF Goes, CleanupPhases
<1>6. DropRetrying(x) = x \/ ~IsRunning(DropRetrying(x))
    BY AbsentCell DEF DropRetrying, IsRunning
<1>7. CellInv(y) /\ Goes(x, y, d)
    <2>1. CASE d.del /\ y \in ReconcileInstance(MarkDeleting(DropRetrying(x)))
        <3> DEFINE r == DropRetrying(x)
                   m == MarkDeleting(r)
        <3>1. CellInv(r) /\ Goes(x, r, d) BY <1>3, DropRetryingGoes
        <3> HIDE DEF r
        <3>2. CellInv(m) /\ Goes(r, m, d) /\ (IsRunning(m) => m.doc.phase \in CleanupPhases)
            BY <3>1, MarkDeletingGoes DEF Goes
        <3> HIDE DEF m
        <3>3. y \in ReconcileInstance(m) BY <2>1 DEF m, r
        <3>4. CellInv(y) /\ Goes(m, y, d) BY <3>2, <3>3, ReconcileInstanceGoes
        <3> QED BY <3>1, <3>2, <3>4, GoesOn
    <2>2. CASE ~d.del /\ y \in ReconcileInstance(DropRetrying(x))
        <3> DEFINE r == DropRetrying(x)
        <3>1. CellInv(r) /\ Goes(x, r, d) BY <1>3, DropRetryingGoes
        <3>2. IsRunning(r) /\ r.doc.target = "Deleting" => r.doc.phase \in CleanupPhases
            BY <1>5, <1>6, <2>2
        <3> HIDE DEF r
        <3>3. y \in ReconcileInstance(r) BY <2>2 DEF r
        <3>4. CellInv(y) /\ Goes(r, y, d) BY <3>1, <3>2, <3>3, ReconcileInstanceGoes
        <3> QED BY <3>1, <3>4, GoesOn
    <2>3. CASE ~d.del /\ \E z \in EnsureCreated(x, d) : y \in ReconcileInstance(z)
        <3>1. PICK z \in EnsureCreated(x, d) : y \in ReconcileInstance(z) BY <2>3
        <3>2. CellInv(z) /\ Goes(x, z, d) /\ (IsRunning(x) => z = x)
            BY <1>3, EnsureCreatedGoes
        <3>3. IsRunning(z) /\ z.doc.target = "Deleting" => z.doc.phase \in CleanupPhases
            BY <1>5, <2>3, <3>2 DEF Goes
        <3>4. CellInv(y) /\ Goes(z, y, d) BY <3>1, <3>2, <3>3, ReconcileInstanceGoes
        <3> QED BY <3>2, <3>4, GoesOn
    <2>4. CASE ~d.del /\ y \in ReconcileInstance(x)
        BY <1>3, <1>5, <2>4, ReconcileInstanceGoes
    <2>5. CASE y = x BY <1>3, <2>5, GoesNowhere
    <2> QED BY <1>1, <2>1, <2>2, <2>3, <2>4, <2>5
<1>8. CellInv(e) /\ Goes(y, e, d) BY <1>1, <1>7, HostInputsGoes
<1> QED BY <1>4, <1>7, <1>8, GoesOn

-----------------------------------------------------------------------------
(* A cell and its place outside the loop. *)

\* What a turn does to a cell leaves its file, its directory and its VM in place for it.
LEMMA GoesFits ==
    ASSUME NEW c, NEW e, NEW d, CellInv(c), CellInv(e), Goes(c, e, d)
    PROVE /\ \A f, there, up : FileOf(f, InstanceDocs) /\ Fits(c, f, there, up) => Fits(e, f, there, up)
          /\ \A up : Backed(c, up) => Backed(e, up)
          /\ Bound(c, AuthBindings[d.tmpl]) => Bound(e, AuthBindings[d.tmpl])
<1>1. ASSUME NEW f, NEW there, NEW up, FileOf(f, InstanceDocs), Fits(c, f, there, up)
      PROVE Fits(e, f, there, up)
    <2>1. f.doc # {} => f # NoFile BY DEF NoFile
    <2>2. /\ IsRunning(e) /\ e.doc.phase # "Deleted" => there
          /\ IsRunning(e) /\ e.doc.phase = "Deleted" => ~up
          /\ f # NoFile => IsRunning(e)
        BY <1>1 DEF Goes, Fits
    <2>3. \A g \in f.doc : g.mtmpl = e.doc.mtmpl /\ (g.phase = "Deleted" => e.doc.phase = "Deleted")
        BY <1>1, <2>1 DEF Goes, Fits
    <2>4. \A t \in e.tasks : t.res = "ok" => t \in c.tasks BY DEF Goes
    <2> QED BY <1>1, <2>2, <2>3, <2>4 DEF Fits
<1>2. ASSUME NEW up, Backed(c, up) PROVE Backed(e, up)
    BY <1>2 DEF Goes, Backed, StrongTasks
<1>3. Bound(c, AuthBindings[d.tmpl]) => Bound(e, AuthBindings[d.tmpl]) BY DEF Goes, Bound
<1> QED BY <1>1, <1>2, <1>3

\* The slot of a task of the running instance; its only work task is the slot's.
LEMMA SlotOfTask ==
    ASSUME NEW c, CellInv(c), NEW t \in c.tasks
    PROVE /\ t.kind = "create" <=> c.st = "starting"
          /\ t.kind = "create" => c.tasks = {t}
          /\ t.kind # "create" => IsRunning(c)
          /\ Lane(t) = "work" =>
               /\ \A u \in c.tasks : Lane(u) = "work" => u = t
               /\ \E w \in c.work : c.work = {w} /\ Serves(t, w) /\ w.kind \in WorkKinds
<1>1. c \in Cells /\ LedgerInv(c) /\ SlotInv(c) BY DEF CellInv
<1>2. c.st \in {"absent", "starting", "running"}
      /\ c.work \subseteq [id : WorkIds, kind : WorkKinds, gen : Nat]
    BY <1>1 DEF Cells
<1>3. Lane(t) = "work" =>
        /\ \A u \in c.tasks : Lane(u) = "work" => u = t
        /\ \E w \in c.work : c.work = {w} /\ Serves(t, w) /\ w.kind \in WorkKinds
    BY <1>1, <1>2 DEF LedgerInv, Ledger, AtMostOne, Serves
<1>4. Lane(t) # "work" => IsRunning(c) /\ t.kind # "create"
    BY <1>1 DEF LedgerInv, Ledger, SlotInv, Lane
<1>5. ASSUME Lane(t) = "work"
      PROVE (t.kind = "create" <=> c.st = "starting") /\ c.st # "absent"
    <2>1. PICK w \in c.work : Serves(t, w) /\ w.kind \in WorkKinds BY <1>3, <1>5
    <2>2. t.kind = "create" <=> w.kind = "Creating"
        BY <2>1 DEF Serves, TasksFor, WorkKinds
    <2> QED BY <1>1, <2>1, <2>2 DEF SlotInv
<1>6. t.kind = "create" => c.tasks = {t}
    <2>1. ASSUME t.kind = "create", NEW u \in c.tasks PROVE u = t
        <3>1. Lane(t) = "work" BY <2>1 DEF Lane
        <3>2. ~IsRunning(c) BY <1>5, <2>1, <3>1 DEF IsRunning
        <3>3. Lane(u) = "work" BY <1>1, <3>2 DEF LedgerInv, Ledger, SlotInv, Lane
        <3> QED BY <1>3, <3>1, <3>3
    <2> QED BY <2>1
<1> QED BY <1>2, <1>3, <1>4, <1>5, <1>6 DEF IsRunning

-----------------------------------------------------------------------------
(* Completions. *)

\* What a completion of t leaves has its place where the cell had its.
Lands(c, e) ==
    /\ CellInv(e)
    /\ \A f, there, up : FileOf(f, InstanceDocs) /\ Fits(c, f, there, up) =>
         Fits(e, f, there, up) /\ (Backed(c, up) => Backed(e, up))
    /\ \A a : Bound(c, a) => Bound(e, a)

\* The work task of a running instance ends: its slot is free, and the document
\* takes over the backend the task worked on.
LEMMA WorkLands ==
    ASSUME NEW c, CellInv(c), IsRunning(c), NEW t \in c.tasks, Lane(t) = "work", NEW e \in Cells,
           e.st = c.st, e.work = {}, e.secrets = c.secrets, e.host = c.host,
           e.session = c.session, e.saved = c.saved, e.tasks = c.tasks \ {t},
           e.doc.mtmpl = c.doc.mtmpl,
           e.doc.pid = IF t.kind \in StrongTasks THEN t.pid ELSE c.doc.pid,
           c.doc.phase = "Deleted" => e.doc = c.doc,
           e.doc.phase = "Deleted" =>
             \/ c.doc.phase = "Deleted"
             \/ t.kind = "stopForDelete" /\ t.res = "ok" /\ ~e.doc.busy /\ e.doc.sessions = 0
    PROVE Lands(c, e)
<1>1. LedgerInv(c) /\ SlotInv(c) /\ CleanupInv(c) /\ c \in Cells BY DEF CellInv
<1>2. LedgerInv(e)
    <2>1. Ledger(c.work, c.secrets, c.host, c.session, c.tasks) BY <1>1 DEF LedgerInv
    <2>2. Ledger({}, c.secrets, c.host, c.session, c.tasks \ {t}) BY <2>1, LedgerClears
    <2> QED BY <2>2 DEF LedgerInv
<1>3. SlotInv(e) BY DEF SlotInv, IsRunning
<1>4. /\ \A u \in e.tasks : Lane(u) # "work"
      /\ \A u \in e.tasks : u.kind \notin StrongTasks \cup {"create", "removeFiles"}
    <2>1. \A u \in e.tasks : Lane(u) # "work" BY SlotOfTask
    <2> QED BY <2>1 DEF Lane, StrongTasks, BackendTasks
<1>5. PICK w \in c.work : c.work = {w} /\ Serves(t, w) /\ w.kind \in WorkKinds BY SlotOfTask
<1>6. t.kind = "stopForDelete" => c.secrets = {} /\ c.host = {} /\ c.session = {}
    <2>1. t.kind = "stopForDelete" => w.kind = "Deleting" BY <1>5 DEF Serves, TasksFor, WorkKinds
    <2> QED BY <1>1, <2>1 DEF SlotInv
<1>7. CleanupInv(e)
    <2>1. AtMostOne(e.saved) BY <1>1 DEF CleanupInv
    <2>2. \A u \in e.tasks : u.kind # "stopForDelete" /\ u.kind # "removeFiles"
        BY <1>4 DEF StrongTasks, BackendTasks
    <2>3. e.doc.phase = "Deleted" =>
            /\ e.secrets = {} /\ e.host = {} /\ e.session = {}
            /\ ~e.doc.busy /\ e.doc.sessions = 0
        BY <1>1, <1>6 DEF CleanupInv
    <2>4. \A s \in e.saved : s.phase = "Deleted" => s = e.doc BY <1>1 DEF CleanupInv
    <2> QED BY <2>1, <2>2, <2>3, <2>4 DEF CleanupInv
<1>8. ASSUME NEW f, NEW there, NEW up, FileOf(f, InstanceDocs), Fits(c, f, there, up)
      PROVE Fits(e, f, there, up)
    BY <1>4, <1>8 DEF Fits, IsRunning
<1>9. ASSUME NEW up, Backed(c, up) PROVE Backed(e, up)
    <2> SUFFICES ASSUME up PROVE /\ IsRunning(e)
                                 /\ \A u \in e.tasks : u.kind \in BackendTasks => u.pid
                                 /\ e.doc.pid
        BY DEF Backed
    <2>1. IsRunning(e) /\ \A u \in c.tasks : u.kind \in BackendTasks => u.pid
        BY <1>9 DEF Backed, IsRunning
    <2>2. e.doc.pid
        <3>1. CASE t.kind \in StrongTasks BY <2>1, <3>1 DEF StrongTasks
        <3>2. CASE t.kind \notin StrongTasks
            <4>1. \A u \in c.tasks : u.kind \notin StrongTasks BY <1>4, <3>2
            <4> QED BY <1>9, <3>2, <4>1 DEF Backed, StrongTasks
        <3> QED BY <3>1, <3>2
    <2> QED BY <2>1, <2>2
<1>10. ASSUME NEW a, Bound(c, a) PROVE Bound(e, a) BY <1>10 DEF Bound, IsRunning
<1> QED BY <1>2, <1>3, <1>7, <1>8, <1>9, <1>10 DEF Lands, CellInv

\* A task beside the work slot ends.
LEMMA AuxiliaryLands ==
    ASSUME NEW c, CellInv(c), NEW t \in c.tasks, Lane(t) # "work", NEW e \in Cells,
           e.st = c.st, e.work = c.work, e.saved = c.saved, e.tasks = c.tasks \ {t},
           e.secrets = (IF Lane(t) = "secrets" THEN {} ELSE c.secrets),
           e.host = (IF Lane(t) = "host" THEN {} ELSE c.host),
           e.session = (IF Lane(t) = "session" THEN {} ELSE c.session),
           e.doc.mtmpl = c.doc.mtmpl, e.doc.phase = c.doc.phase,
           e.doc.pid = c.doc.pid \/ (t.kind = "secrets" /\ e.doc.pid = t.pid)
    PROVE Lands(c, e)
<1>1. LedgerInv(c) /\ SlotInv(c) /\ CleanupInv(c) /\ c \in Cells BY DEF CellInv
<1>0. IsRunning(c)
    BY SlotOfTask DEF Lane
<1>2. LedgerInv(e)
    <2>1. Ledger(c.work, c.secrets, c.host, c.session, c.tasks) BY <1>1 DEF LedgerInv
    <2>2. Lane(t) \in {"secrets", "host", "session"} BY DEF Lane
    <2>3. Ledger(e.work, e.secrets, e.host, e.session, e.tasks)
        BY <2>1, <2>2, LedgerClears
    <2> QED BY <2>3 DEF LedgerInv
<1>3. SlotInv(e) BY <1>0, <1>1 DEF SlotInv, IsRunning
<1>4. c.doc.phase # "Deleted"
    BY <1>0, <1>1 DEF CleanupInv, LedgerInv, Ledger, Lane
<1>5. CleanupInv(e) BY <1>0, <1>1, <1>4 DEF CleanupInv, IsRunning
<1>6. ASSUME NEW f, NEW there, NEW up, FileOf(f, InstanceDocs), Fits(c, f, there, up)
      PROVE Fits(e, f, there, up)
    BY <1>0, <1>6 DEF Fits, IsRunning
<1>7. ASSUME NEW up, Backed(c, up) PROVE Backed(e, up)
    <2> SUFFICES ASSUME up, \A u \in e.tasks : u.kind \notin BackendTasks \ {"secrets"}
                 PROVE e.doc.pid
        BY <1>0, <1>7 DEF Backed, IsRunning
    <2>1. t.kind \notin StrongTasks BY DEF Lane, StrongTasks, BackendTasks
    <2>2. \A u \in c.tasks : u.kind \notin BackendTasks \ {"secrets"} BY <2>1 DEF StrongTasks
    <2>3. c.doc.pid /\ (t.kind = "secrets" => t.pid) BY <1>7, <2>2 DEF Backed, BackendTasks
    <2> QED BY <2>3
<1>8. ASSUME NEW a, Bound(c, a) PROVE Bound(e, a) BY <1>8 DEF Bound, IsRunning
<1> QED BY <1>2, <1>3, <1>5, <1>6, <1>7, <1>8 DEF Lands, CellInv

\* clear_instance_work empties the slot of the transition and no other.
LEMMA ClearFields ==
    ASSUME NEW x \in Cells, AtMostOne(x.session)
    PROVE LET e == ClearInstanceWork(x)
          IN  /\ e \in Cells /\ e.st = x.st /\ e.work = {} /\ e.secrets = x.secrets
              /\ e.host = x.host /\ e.session = x.session /\ e.saved = x.saved
              /\ e.tasks = x.tasks /\ e.doc.mtmpl = x.doc.mtmpl /\ e.doc.pid = x.doc.pid
              /\ e.doc.phase = x.doc.phase /\ ~e.doc.busy
              /\ x.session = {} => e.doc.sessions = 0
              /\ x.session = {} /\ ~x.doc.busy /\ x.doc.sessions = 0 => e.doc = x.doc
<1> DEFINE n == Cardinality(x.session)
           e == [x EXCEPT !.work = {}, !.doc.busy = FALSE, !.doc.sessions = n]
           g == [x.doc EXCEPT !.busy = FALSE, !.sessions = n]
<1>1. n \in {0, 1} /\ (x.session = {} => n = 0) BY AtMostOneCardinality
<1>2. ClearInstanceWork(x) = e BY DEF ClearInstanceWork
<1> HIDE DEF n
<1>3. x.doc \in InstanceDocs BY DEF Cells
<1>4. /\ g \in InstanceDocs /\ g.mtmpl = x.doc.mtmpl /\ g.pid = x.doc.pid /\ g.phase = x.doc.phase
      /\ g.busy = FALSE /\ g.sessions = n
    BY <1>1, <1>3 DEF InstanceDocs
<1>5. ~x.doc.busy /\ x.doc.sessions = n => g = x.doc
    BY <1>3 DEF InstanceDocs
<1>6. e.doc = g BY DEF Cells
<1> HIDE DEF g
<1>7. /\ e \in Cells /\ e.st = x.st /\ e.work = {} /\ e.secrets = x.secrets
      /\ e.host = x.host /\ e.session = x.session /\ e.saved = x.saved /\ e.tasks = x.tasks
    <2>1. e = [x EXCEPT !.work = {}, !.doc = g] BY DEF g
    <2> QED BY <1>4, <2>1 DEF Cells
<1> HIDE DEF e
<1> QED BY <1>1, <1>2, <1>4, <1>5, <1>6, <1>7

\* The work of a running instance ends with a new document.
LEMMA ClearLands ==
    ASSUME NEW c, CellInv(c), NEW t \in c.tasks, Lane(t) = "work", t.kind # "create",
           NEW x \in Cells, x.st = c.st, x.secrets = c.secrets, x.host = c.host,
           x.session = c.session, x.saved = c.saved, x.tasks = c.tasks \ {t},
           x.doc.mtmpl = c.doc.mtmpl,
           x.doc.pid = IF t.kind \in StrongTasks THEN t.pid ELSE c.doc.pid,
           c.doc.phase = "Deleted" => x.doc = c.doc,
           x.doc.phase = "Deleted" =>
             c.doc.phase = "Deleted" \/ (t.kind = "stopForDelete" /\ t.res = "ok")
    PROVE Lands(c, ClearInstanceWork(x))
<1> DEFINE e == ClearInstanceWork(x)
<1>1. IsRunning(c) BY SlotOfTask
<1>2. AtMostOne(x.session) BY DEF CellInv, LedgerInv, Ledger
<1>3. /\ e \in Cells /\ e.st = x.st /\ e.work = {} /\ e.secrets = x.secrets
      /\ e.host = x.host /\ e.session = x.session /\ e.saved = x.saved
      /\ e.tasks = x.tasks /\ e.doc.mtmpl = x.doc.mtmpl /\ e.doc.pid = x.doc.pid
      /\ e.doc.phase = x.doc.phase /\ ~e.doc.busy
      /\ x.session = {} => e.doc.sessions = 0
      /\ x.session = {} /\ ~x.doc.busy /\ x.doc.sessions = 0 => e.doc = x.doc
    BY <1>2, ClearFields
<1> HIDE DEF e
<1>4. c.doc.phase = "Deleted" => e.doc = c.doc
    BY <1>1, <1>3 DEF CellInv, CleanupInv
<1>5. t.kind = "stopForDelete" => c.session = {}
    <2>1. PICK w \in c.work : Serves(t, w) /\ w.kind \in WorkKinds BY SlotOfTask
    <2>2. t.kind = "stopForDelete" => w.kind = "Deleting" BY <2>1 DEF Serves, TasksFor, WorkKinds
    <2> QED BY <2>1, <2>2 DEF CellInv, SlotInv
<1>6. Lands(c, e) BY <1>1, <1>3, <1>4, <1>5, WorkLands
<1> QED BY <1>6 DEF e

\* The slot a completion looks for is the one of its task.
LEMMA OwnsOwnWork ==
    ASSUME NEW c, CellInv(c), NEW t \in c.tasks, Lane(t) = "work",
           NEW r, r.st = c.st, r.work = c.work
    PROVE /\ t.kind = "create" => r.st = "starting" /\ \E w \in r.work : w.id = t.id
          /\ t.kind = "start" => OwnsWork(r, t, {"Starting"})
          /\ t.kind = "reconcile" => OwnsWork(r, t, {"Reconciling", "Repairing"})
          /\ t.kind = "tailscale" => OwnsWork(r, t, {"Reconciling"})
          /\ t.kind = "stop" => OwnsWork(r, t, {"Stopping"})
          /\ t.kind = "bootstrap" => OwnsWork(r, t, {"Bootstrapping"})
          /\ t.kind \in {"stopForDelete", "removeFiles"} =>
               OwnsWork(r, t, {"Deleting"}) /\ IsRunning(r)
               /\ \E w \in r.work : w.id = t.id /\ w.kind = "Deleting"
<1>1. PICK w \in c.work : Serves(t, w) /\ w.kind \in WorkKinds BY SlotOfTask
<1>2. /\ t.kind = "create" <=> c.st = "starting"
      /\ t.kind # "create" => IsRunning(r)
    BY SlotOfTask DEF IsRunning
<1>3. /\ t.kind = "start" => w.kind = "Starting"
      /\ t.kind = "reconcile" => w.kind \in {"Reconciling", "Repairing"}
      /\ t.kind = "tailscale" => w.kind = "Reconciling"
      /\ t.kind = "stop" => w.kind = "Stopping"
      /\ t.kind = "bootstrap" => w.kind = "Bootstrapping"
      /\ t.kind \in {"stopForDelete", "removeFiles"} => w.kind = "Deleting"
    BY <1>1 DEF Serves, TasksFor, WorkKinds
<1> QED BY <1>1, <1>2, <1>3 DEF OwnsWork, Serves


\* A create ends in a new instance, in nothing, or in a slot that retries.
LEMMA CreateLands ==
    ASSUME NEW c, CellInv(c), NEW t \in c.tasks, t.kind = "create", NEW d
    PROVE Lands(c, Completed(c, t, d))
<1> DEFINE rest == [c EXCEPT !.tasks = @ \ {t}]
           retrying == [rest EXCEPT !.work = {}]
           g == NewInstanceDoc(t.gen, t.base, t.tmpl)
           new == RunningCell(g, {})
           e == Completed(c, t, d)
<1>1. c \in Cells /\ LedgerInv(c) /\ SlotInv(c) /\ CleanupInv(c) BY DEF CellInv
<1>2. c.st = "starting" /\ c.tasks = {t} /\ ~IsRunning(c) BY SlotOfTask DEF IsRunning
<1>3. t \in Tasks BY <1>1 DEF Cells
<1>4. c.secrets = {} /\ c.host = {} /\ c.session = {} BY <1>1, <1>2 DEF SlotInv
<1>5. /\ retrying \in Cells /\ retrying.st = "starting" /\ retrying.work = {} /\ retrying.secrets = {}
      /\ retrying.host = {} /\ retrying.session = {} /\ retrying.tasks = {} /\ retrying.saved = c.saved
    BY <1>1, <1>2, <1>4 DEF Cells
<1>6. /\ g \in InstanceDocs /\ g.phase = "Materialized" /\ g.mtmpl = t.tmpl
    BY <1>3 DEF NewInstanceDoc, InstanceDocs, Tasks, Targets, Phases
<1>7. (e = new /\ t.res = "ok") \/ e = Absent \/ e = retrying
    <2>1. rest.st = c.st /\ rest.work = c.work BY <1>1 DEF Cells
    <2>2. Lane(t) = "work" BY DEF Lane
    <2>3. rest.st = "starting" /\ \E w \in rest.work : w.id = t.id BY <2>1, <2>2, OwnsOwnWork
    <2>4. e = CompleteInstanceCreate(rest, t, d) BY DEF Completed
    <2> HIDE DEF rest, e
    <2> QED BY <2>3, <2>4 DEF CompleteInstanceCreate
<1> HIDE DEF retrying, g
<1>8. /\ new \in Cells /\ new.st = "running" /\ new.work = {} /\ new.secrets = {}
      /\ new.host = {} /\ new.session = {} /\ new.tasks = {} /\ new.saved = {} /\ new.doc = g
    BY <1>6 DEF RunningCell, Absent, Cells
<1>9. /\ Absent \in Cells /\ Absent.st = "absent" /\ Absent.tasks = {}
    BY AbsentCell DEF CellInv
<1> HIDE DEF new, e
<1>10. CellInv(new)
    <2>1. LedgerInv(new) BY <1>8 DEF LedgerInv, Ledger, AtMostOne
    <2>2. SlotInv(new) BY <1>8 DEF SlotInv, IsRunning
    <2>3. CleanupInv(new) BY <1>6, <1>8 DEF CleanupInv, AtMostOne, IsRunning
    <2> QED BY <1>8, <2>1, <2>2, <2>3 DEF CellInv
<1>11. CellInv(retrying)
    <2>1. LedgerInv(retrying) BY <1>5 DEF LedgerInv, Ledger, AtMostOne
    <2>2. SlotInv(retrying) BY <1>5 DEF SlotInv, IsRunning
    <2>3. CleanupInv(retrying) BY <1>1, <1>5 DEF CleanupInv, IsRunning
    <2> QED BY <1>5, <2>1, <2>2, <2>3 DEF CellInv
<1>12. CellInv(e) BY <1>7, <1>10, <1>11, AbsentCell
<1>13. ASSUME NEW f, NEW there, NEW up, FileOf(f, InstanceDocs), Fits(c, f, there, up)
       PROVE Fits(e, f, there, up) /\ (Backed(c, up) => Backed(e, up))
    <2>1. f = NoFile /\ (t.res = "ok" => there) BY <1>2, <1>13 DEF Fits
    <2>2. f.doc = {} BY <2>1 DEF NoFile
    <2>3. Fits(e, f, there, up)
        BY <1>5, <1>6, <1>7, <1>8, <1>9, <2>1, <2>2 DEF Fits, IsRunning
    <2>4. Backed(c, up) => ~up BY <1>2 DEF Backed
    <2> QED BY <2>3, <2>4 DEF Backed
<1>14. ASSUME NEW a, Bound(c, a) PROVE Bound(e, a)
    BY <1>2, <1>5, <1>6, <1>7, <1>8, <1>9, <1>14 DEF Bound, IsRunning
<1> QED BY <1>12, <1>13, <1>14 DEF Lands, e

\* start_instance, reconcile_instance and stop_instance have returned: whatever they
\* report, the document takes over the backend they worked on.
LEMMA TransitionLands ==
    ASSUME NEW c, CellInv(c), NEW t \in c.tasks, t.kind \in {"start", "reconcile", "stop"}, NEW d
    PROVE Lands(c, Completed(c, t, d))
<1> DEFINE rest == [c EXCEPT !.tasks = @ \ {t}]
           e == Completed(c, t, d)
<1>1. c \in Cells /\ c.doc \in InstanceDocs /\ c.repair \in {"Idle", "Due", "Backoff"}
    BY DEF CellInv, Cells
<1>2. t.pid \in BOOLEAN BY <1>1 DEF Cells, Tasks
<1>3. Lane(t) = "work" BY DEF Lane
<1>4. IsRunning(c) BY SlotOfTask
<1>5. c.doc.phase # "Deleted"
    <2>1. PICK w \in c.work : Serves(t, w) /\ w.kind \in WorkKinds BY <1>3, SlotOfTask
    <2>2. w.kind # "Deleting" BY <2>1 DEF Serves, TasksFor
    <2> QED BY <1>4, <2>1, <2>2 DEF CellInv, CleanupInv
<1>6. /\ rest \in Cells /\ rest.st = c.st /\ rest.work = c.work /\ rest.secrets = c.secrets
      /\ rest.host = c.host /\ rest.session = c.session /\ rest.saved = c.saved
      /\ rest.tasks = c.tasks \ {t} /\ rest.doc = c.doc /\ rest.repair = c.repair
    BY <1>1 DEF Cells
<1>7. ASSUME NEW g \in InstanceDocs, g.mtmpl = c.doc.mtmpl, g.pid = t.pid, g.phase # "Deleted",
             NEW repair \in {"Idle", "Due", "Backoff"},
             e = ClearInstanceWork([rest EXCEPT !.doc = g, !.repair = repair])
      PROVE Lands(c, e)
    <2> DEFINE x == [rest EXCEPT !.doc = g, !.repair = repair]
    <2> HIDE DEF rest, e
    <2>1. /\ x \in Cells /\ x.st = c.st /\ x.work = c.work /\ x.secrets = c.secrets
          /\ x.host = c.host /\ x.session = c.session /\ x.saved = c.saved
          /\ x.tasks = c.tasks \ {t} /\ x.doc = g
        BY <1>6 DEF Cells
    <2>2. e = ClearInstanceWork(x) BY <1>7
    <2> HIDE DEF x
    <2>3. t.kind \in StrongTasks BY DEF StrongTasks, BackendTasks
    <2>4. Lands(c, ClearInstanceWork(x)) BY <1>3, <1>5, <1>7, <2>1, <2>3, ClearLands
    <2> QED BY <2>2, <2>4
<1>8. /\ t.kind = "start" => OwnsWork(rest, t, {"Starting"})
      /\ t.kind = "reconcile" => OwnsWork(rest, t, {"Reconciling", "Repairing"})
      /\ t.kind = "stop" => OwnsWork(rest, t, {"Stopping"})
    BY <1>3, <1>6, OwnsOwnWork
<1> DEFINE Carries(g) == g \in InstanceDocs /\ g.mtmpl = c.doc.mtmpl /\ g.pid = t.pid /\ g.phase # "Deleted"
           kept == [c.doc EXCEPT !.pid = t.pid]
<1>0. Carries(kept) BY <1>1, <1>2, <1>5 DEF InstanceDocs
<1>9. /\ Carries(kept)
      /\ Carries(MarkTransitionFailed(kept))
      /\ \A recon \in {"none", "ok", "stale"} :
           /\ Carries([kept EXCEPT !.recon = recon])
           /\ Carries([kept EXCEPT !.ready = FALSE, !.recon = recon])
           /\ Carries([[kept EXCEPT !.phase = "Stopped", !.ready = FALSE] EXCEPT !.recon = recon])
           /\ Carries([kept EXCEPT !.phase = "Running", !.ready = FALSE, !.recon = recon])
           /\ Carries([kept EXCEPT !.phase = "Stopped", !.ready = FALSE, !.recon = recon])
    <2>1. Carries(MarkTransitionFailed(kept))
        <3> HIDE DEF kept
        <3> QED BY <1>0 DEF InstanceDocs, Phases, MarkTransitionFailed
    <2>2. ASSUME NEW recon \in {"none", "ok", "stale"}
          PROVE /\ Carries([kept EXCEPT !.recon = recon])
                /\ Carries([kept EXCEPT !.ready = FALSE, !.recon = recon])
        <3> HIDE DEF kept
        <3> QED BY <1>0 DEF InstanceDocs
    <2>3. ASSUME NEW recon \in {"none", "ok", "stale"}, NEW phase \in Phases \ {"Deleted"}
          PROVE /\ Carries([[kept EXCEPT !.phase = phase, !.ready = FALSE] EXCEPT !.recon = recon])
                /\ Carries([kept EXCEPT !.phase = phase, !.ready = FALSE, !.recon = recon])
        <3> HIDE DEF kept
        <3> QED BY <1>0 DEF InstanceDocs
    <2>4. "Running" \in Phases \ {"Deleted"} /\ "Stopped" \in Phases \ {"Deleted"} BY DEF Phases
    <2> HIDE DEF kept, Carries
    <2> QED BY <1>0, <2>1, <2>2, <2>3, <2>4
<1>10. CASE t.kind = "start"
    <2> DEFINE recon == IF Relevant(rest, t) THEN "ok" ELSE "none"
               done ==
                 IF t.res = "ok" /\ ~CleaningUp(rest)
                 THEN [kept EXCEPT !.phase = "Running", !.ready = FALSE, !.recon = recon]
                 ELSE IF t.res = "ok" THEN [kept EXCEPT !.ready = FALSE, !.recon = "none"]
                 ELSE IF Relevant(rest, t) /\ ~CleaningUp(rest) THEN MarkTransitionFailed(kept)
                 ELSE kept
    <2>1. e = ClearInstanceWork([rest EXCEPT !.doc = done])
        <3>1. e = CompleteInstanceStart(rest, t) BY <1>10 DEF Completed
        <3> HIDE DEF rest
        <3> QED BY <1>6, <1>8, <1>10, <3>1 DEF CompleteInstanceStart
    <2>2. recon \in {"none", "ok", "stale"} OBVIOUS
    <2> HIDE DEF recon, kept, rest, Carries
    <2>3. Carries(done) BY <1>9, <2>2
    <2> HIDE DEF done
    <2>4. [rest EXCEPT !.doc = done] = [rest EXCEPT !.doc = done, !.repair = c.repair]
        BY <1>6 DEF Cells
    <2> QED BY <1>1, <1>7, <2>1, <2>3, <2>4 DEF Carries
<1>11. CASE t.kind = "reconcile"
    <2> DEFINE repairing == \E w \in rest.work : w.kind = "Repairing"
               seen == IF t.res = "stopped" THEN [kept EXCEPT !.phase = "Stopped", !.ready = FALSE] ELSE kept
               recon == IF ~Relevant(rest, t) THEN "none" ELSE IF t.res = "ok" THEN "ok" ELSE "stale"
               done ==
                 IF t.res \in {"ok", "stopped"} THEN [seen EXCEPT !.recon = recon]
                 ELSE IF Relevant(rest, t) /\ ~repairing THEN MarkTransitionFailed(kept)
                 ELSE kept
               repair == IF repairing /\ t.res # "err" THEN "Idle" ELSE rest.repair
    <2>1. e = ClearInstanceWork([rest EXCEPT !.doc = done, !.repair = repair])
        <3>1. e = CompleteInstanceReconcile(rest, t) BY <1>11 DEF Completed
        <3> HIDE DEF rest
        <3> QED BY <1>6, <1>8, <1>11, <3>1 DEF CompleteInstanceReconcile
    <2>2. recon \in {"none", "ok", "stale"} OBVIOUS
    <2>3. repair \in {"Idle", "Due", "Backoff"} BY <1>1, <1>6
    <2> HIDE DEF recon, kept, rest, Carries, repair
    <2>4. Carries(done) BY <1>9, <2>2
    <2> HIDE DEF done
    <2> QED BY <1>7, <2>1, <2>3, <2>4 DEF Carries
<1>12. CASE t.kind = "stop"
    <2> DEFINE done ==
                 IF t.res = "ok" THEN [kept EXCEPT !.phase = "Stopped", !.ready = FALSE, !.recon = "ok"]
                 ELSE IF Relevant(rest, t) THEN MarkTransitionFailed(kept)
                 ELSE kept
    <2>1. e = ClearInstanceWork([rest EXCEPT !.doc = done])
        <3>1. e = CompleteInstanceStop(rest, t) BY <1>12 DEF Completed
        <3> HIDE DEF rest
        <3> QED BY <1>6, <1>8, <1>12, <3>1 DEF CompleteInstanceStop
    <2> HIDE DEF kept, rest, Carries
    <2>3. Carries(done) BY <1>9
    <2> HIDE DEF done
    <2>4. [rest EXCEPT !.doc = done] = [rest EXCEPT !.doc = done, !.repair = c.repair]
        BY <1>6 DEF Cells
    <2> QED BY <1>1, <1>7, <2>1, <2>3, <2>4 DEF Carries
<1> QED BY <1>10, <1>11, <1>12

\* The stop before a deletion has returned.
LEMMA DeleteRuntimeLands ==
    ASSUME NEW c, CellInv(c), NEW t \in c.tasks, t.kind = "stopForDelete", NEW d
    PROVE Lands(c, Completed(c, t, d))
<1> DEFINE rest == [c EXCEPT !.tasks = @ \ {t}]
           e == Completed(c, t, d)
           phase == IF t.res = "ok" THEN "Deleted" ELSE rest.doc.phase
           x == [rest EXCEPT !.doc.pid = t.pid, !.doc.phase = phase]
<1>1. c \in Cells /\ c.doc \in InstanceDocs BY DEF CellInv, Cells
<1>2. t.pid \in BOOLEAN BY <1>1 DEF Cells, Tasks
<1>3. Lane(t) = "work" BY DEF Lane
<1>4. c.doc.phase = "Deleting" BY DEF CellInv, CleanupInv
<1>6. /\ rest \in Cells /\ rest.st = c.st /\ rest.work = c.work /\ rest.secrets = c.secrets
      /\ rest.host = c.host /\ rest.session = c.session /\ rest.saved = c.saved
      /\ rest.tasks = c.tasks \ {t} /\ rest.doc = c.doc
    BY <1>1 DEF Cells
<1>7. OwnsWork(rest, t, {"Deleting"}) BY <1>3, <1>6, OwnsOwnWork
<1>8. e = ClearInstanceWork(x)
    BY <1>7 DEF Completed, CompleteInstanceDeleteRuntime
<1>9. phase \in Phases /\ (phase = "Deleted" => t.res = "ok") BY <1>4, <1>6 DEF Phases
<1> HIDE DEF rest, e, phase
<1>10. /\ x \in Cells /\ x.st = c.st /\ x.work = c.work /\ x.secrets = c.secrets
       /\ x.host = c.host /\ x.session = c.session /\ x.saved = c.saved
       /\ x.tasks = c.tasks \ {t} /\ x.doc.mtmpl = c.doc.mtmpl /\ x.doc.pid = t.pid
       /\ x.doc.phase = phase
    BY ZenonT(60), <1>2, <1>6, <1>9 DEF Cells, InstanceDocs
<1> HIDE DEF x
<1>11. t.kind \in StrongTasks BY DEF StrongTasks, BackendTasks
<1>12. Lands(c, ClearInstanceWork(x)) BY <1>3, <1>4, <1>9, <1>10, <1>11, ClearLands
<1> QED BY <1>8, <1>12 DEF e

\* The directory has been removed, or not.
LEMMA DeleteLands ==
    ASSUME NEW c, CellInv(c), NEW t \in c.tasks, t.kind = "removeFiles", NEW d
    PROVE Lands(c, Completed(c, t, d))
<1> DEFINE rest == [c EXCEPT !.tasks = @ \ {t}]
           e == Completed(c, t, d)
<1>1. c \in Cells BY DEF CellInv
<1>2. Lane(t) = "work" BY DEF Lane
<1>3. c.doc.phase = "Deleted" BY DEF CellInv, CleanupInv
<1>4. IsRunning(c) BY SlotOfTask
<1>6. /\ rest \in Cells /\ rest.st = c.st /\ rest.work = c.work /\ rest.secrets = c.secrets
      /\ rest.host = c.host /\ rest.session = c.session /\ rest.saved = c.saved
      /\ rest.tasks = c.tasks \ {t} /\ rest.doc = c.doc
    BY <1>1 DEF Cells
<1>7. IsRunning(rest) /\ \E w \in rest.work : w.id = t.id /\ w.kind = "Deleting"
    <2> HIDE DEF rest
    <2> QED BY <1>2, <1>6, OwnsOwnWork
<1>8. e = IF t.res = "ok" THEN Absent ELSE ClearInstanceWork(rest)
    BY <1>7 DEF Completed, CompleteInstanceDelete
<1> HIDE DEF rest, e
<1>9. Lands(c, ClearInstanceWork(rest))
    <2>1. t.kind \notin StrongTasks BY DEF StrongTasks, BackendTasks
    <2> QED BY <1>2, <1>3, <1>6, <2>1, ClearLands
<1>10. ASSUME t.res = "ok" PROVE Lands(c, Absent)
    <2>1. CellInv(Absent) /\ Absent.tasks = {} /\ ~IsRunning(Absent) BY AbsentCell DEF IsRunning
    <2>2. ASSUME NEW f, NEW there, NEW up, FileOf(f, InstanceDocs), Fits(c, f, there, up)
          PROVE Fits(Absent, f, there, up) /\ (Backed(c, up) => Backed(Absent, up))
        <3>1. f = NoFile /\ ~up BY <1>3, <1>4, <1>10, <2>2 DEF Fits
        <3>2. f.doc = {} BY <3>1 DEF NoFile
        <3> QED BY <2>1, <3>1, <3>2 DEF Fits, Backed
    <2>3. ASSUME NEW a, Bound(c, a) PROVE Bound(Absent, a) BY <2>1 DEF Bound
    <2> QED BY <2>1, <2>2, <2>3 DEF Lands
<1> QED BY <1>8, <1>9, <1>10 DEF e

\* A bootstrap, or the publication of the Tailscale state, has returned.
LEMMA BootstrapLands ==
    ASSUME NEW c, CellInv(c), NEW t \in c.tasks, t.kind \in {"bootstrap", "tailscale"}, NEW d
    PROVE Lands(c, Completed(c, t, d))
<1> DEFINE rest == [c EXCEPT !.tasks = @ \ {t}]
           e == Completed(c, t, d)
           up == [rest EXCEPT !.doc.ready = TRUE]
           off == [rest EXCEPT !.doc.ready = FALSE, !.work = {}]
<1>1. c \in Cells /\ c.doc \in InstanceDocs BY DEF CellInv, Cells
<1>2. Lane(t) = "work" BY DEF Lane
<1>3. IsRunning(c) BY SlotOfTask
<1>5. c.doc.phase # "Deleted"
    <2>1. PICK w \in c.work : Serves(t, w) /\ w.kind \in WorkKinds BY <1>2, SlotOfTask
    <2>2. w.kind # "Deleting" BY <2>1 DEF Serves, TasksFor
    <2> QED BY <1>3, <2>1, <2>2 DEF CellInv, CleanupInv
<1>6. /\ rest \in Cells /\ rest.st = c.st /\ rest.work = c.work /\ rest.secrets = c.secrets
      /\ rest.host = c.host /\ rest.session = c.session /\ rest.saved = c.saved
      /\ rest.tasks = c.tasks \ {t} /\ rest.doc = c.doc
    BY <1>1 DEF Cells
<1>7. /\ t.kind = "bootstrap" => OwnsWork(rest, t, {"Bootstrapping"})
      /\ t.kind = "tailscale" => OwnsWork(rest, t, {"Reconciling"})
    BY <1>2, <1>6, OwnsOwnWork
<1>8. e \in {ClearInstanceWork(rest), ClearInstanceWork(up), off}
    BY <1>7 DEF Completed, CompleteBootstrap, CompleteTailscale
<1>9. t.kind \notin StrongTasks BY DEF StrongTasks, BackendTasks
<1> HIDE DEF rest, e
<1>10. /\ up \in Cells /\ up.st = c.st /\ up.work = c.work /\ up.secrets = c.secrets
       /\ up.host = c.host /\ up.session = c.session /\ up.saved = c.saved
       /\ up.tasks = c.tasks \ {t} /\ up.doc.mtmpl = c.doc.mtmpl /\ up.doc.pid = c.doc.pid
       /\ up.doc.phase = c.doc.phase
    BY ZenonT(60), <1>6 DEF Cells, InstanceDocs
<1>11. /\ off \in Cells /\ off.st = c.st /\ off.work = {} /\ off.secrets = c.secrets
       /\ off.host = c.host /\ off.session = c.session /\ off.saved = c.saved
       /\ off.tasks = c.tasks \ {t} /\ off.doc.mtmpl = c.doc.mtmpl /\ off.doc.pid = c.doc.pid
       /\ off.doc.phase = c.doc.phase
    BY ZenonT(60), <1>6 DEF Cells, InstanceDocs
<1> HIDE DEF up, off
<1>12. Lands(c, ClearInstanceWork(rest)) BY <1>2, <1>5, <1>6, <1>9, ClearLands
<1>13. Lands(c, ClearInstanceWork(up)) BY <1>2, <1>5, <1>9, <1>10, ClearLands
<1>14. Lands(c, off) BY <1>2, <1>3, <1>5, <1>9, <1>11, WorkLands
<1> QED BY <1>8, <1>12, <1>13, <1>14 DEF e

\* A refresh of the credentials or of the host inputs, or a session, has ended.
LEMMA AuxiliaryTaskLands ==
    ASSUME NEW c, CellInv(c), NEW t \in c.tasks, t.kind \in {"secrets", "hostInputs", "exec"}, NEW d
    PROVE Lands(c, Completed(c, t, d))
<1> DEFINE rest == [c EXCEPT !.tasks = @ \ {t}]
           e == Completed(c, t, d)
<1>1. c \in Cells /\ c.doc \in InstanceDocs BY DEF CellInv, Cells
<1>2. t.pid \in BOOLEAN /\ t.gen \in Nat BY <1>1 DEF Cells, Tasks
<1>3. Lane(t) # "work" BY DEF Lane
<1>4. IsRunning(c) BY SlotOfTask
<1>5. /\ rest \in Cells /\ rest.st = c.st /\ rest.work = c.work /\ rest.secrets = c.secrets
      /\ rest.host = c.host /\ rest.session = c.session /\ rest.saved = c.saved
      /\ rest.tasks = c.tasks \ {t} /\ rest.doc = c.doc
    BY <1>1 DEF Cells
<1>6. /\ t.kind = "secrets" => t.id \in c.secrets
      /\ t.kind = "hostInputs" => t.id \in c.host
      /\ t.kind = "exec" => t.id \in c.session
    BY DEF CellInv, LedgerInv, Ledger, Lane
<1>7. CASE t.kind = "secrets"
    <2> DEFINE expired == t.res = "expired"
               freed == [rest EXCEPT !.secrets = {}]
               failed == [freed EXCEPT !.repair = "Due", !.doc.hostReady = 0]
               renewed == [freed EXCEPT !.repair = "Idle", !.files = TRUE, !.doc.pid = t.pid,
                                        !.doc.expired = expired]
    <2>1. e \in {freed, failed, renewed}
        <3>1. e = CompleteRuntimeSecrets(rest, t) BY <1>7 DEF Completed
        <3>2. IsRunning(rest) /\ t.id \in rest.secrets BY <1>4, <1>5, <1>6, <1>7 DEF IsRunning
        <3> HIDE DEF rest, e
        <3> QED BY <3>1, <3>2, Zenon DEF CompleteRuntimeSecrets
    <2>2. expired \in BOOLEAN BY Zenon
    <2> HIDE DEF rest, e, expired
    <2>3. /\ freed \in Cells /\ freed.st = c.st /\ freed.work = c.work /\ freed.secrets = {}
          /\ freed.host = c.host /\ freed.session = c.session /\ freed.saved = c.saved
          /\ freed.tasks = c.tasks \ {t} /\ freed.doc = c.doc
        BY <1>5 DEF Cells
    <2> HIDE DEF freed
    <2>4. /\ failed \in Cells /\ failed.st = c.st /\ failed.work = c.work /\ failed.secrets = {}
          /\ failed.host = c.host /\ failed.session = c.session /\ failed.saved = c.saved
          /\ failed.tasks = c.tasks \ {t} /\ failed.doc.mtmpl = c.doc.mtmpl
          /\ failed.doc.pid = c.doc.pid /\ failed.doc.phase = c.doc.phase
        BY ZenonT(60), <2>3 DEF Cells, InstanceDocs
    <2>5. /\ renewed \in Cells /\ renewed.st = c.st /\ renewed.work = c.work /\ renewed.secrets = {}
          /\ renewed.host = c.host /\ renewed.session = c.session /\ renewed.saved = c.saved
          /\ renewed.tasks = c.tasks \ {t} /\ renewed.doc.mtmpl = c.doc.mtmpl
          /\ renewed.doc.pid = t.pid /\ renewed.doc.phase = c.doc.phase
        BY ZenonT(60), <1>2, <2>2, <2>3 DEF Cells, InstanceDocs
    <2> HIDE DEF failed, renewed
    <2>6. Lane(t) = "secrets" BY <1>7 DEF Lane
    <2>7. Lands(c, freed) BY <2>3, <2>6, AuxiliaryLands
    <2>8. Lands(c, failed) BY <2>4, <2>6, AuxiliaryLands
    <2>9. Lands(c, renewed) BY <1>7, <2>5, <2>6, AuxiliaryLands
    <2> QED BY <2>1, <2>7, <2>8, <2>9 DEF e
<1>8. CASE t.kind = "hostInputs"
    <2> DEFINE seen == IF t.res = "ok" THEN t.gen ELSE 0
               old == [rest EXCEPT !.host = {}]
               new == [rest EXCEPT !.host = {}, !.doc.hostReady = seen]
    <2>1. e \in {old, new}
        <3>1. e = CompleteHostInputs(rest, t) BY <1>8 DEF Completed
        <3>2. IsRunning(rest) /\ t.id \in rest.host BY <1>4, <1>5, <1>6, <1>8 DEF IsRunning
        <3> HIDE DEF rest, e
        <3> QED BY <3>1, <3>2, Zenon DEF CompleteHostInputs
    <2>2. seen \in Nat BY <1>2
    <2> HIDE DEF rest, e, seen
    <2>3. /\ old \in Cells /\ old.st = c.st /\ old.work = c.work /\ old.secrets = c.secrets
          /\ old.host = {} /\ old.session = c.session /\ old.saved = c.saved
          /\ old.tasks = c.tasks \ {t} /\ old.doc = c.doc
        BY <1>5 DEF Cells
    <2>4. /\ new \in Cells /\ new.st = c.st /\ new.work = c.work /\ new.secrets = c.secrets
          /\ new.host = {} /\ new.session = c.session /\ new.saved = c.saved
          /\ new.tasks = c.tasks \ {t} /\ new.doc.mtmpl = c.doc.mtmpl
          /\ new.doc.pid = c.doc.pid /\ new.doc.phase = c.doc.phase
        BY ZenonT(60), <1>5, <2>2 DEF Cells, InstanceDocs
    <2> HIDE DEF old, new
    <2>5. Lane(t) = "host" BY <1>8 DEF Lane
    <2>6. Lands(c, old) BY <2>3, <2>5, AuxiliaryLands
    <2>7. Lands(c, new) BY <2>4, <2>5, AuxiliaryLands
    <2> QED BY <2>1, <2>6, <2>7 DEF e
<1>9. CASE t.kind = "exec"
    <2> DEFINE new == [rest EXCEPT !.session = {}, !.doc.sessions = 0]
    <2>1. e = new
        <3>1. e = CompleteExec(rest, t) BY <1>9 DEF Completed
        <3>2. IsRunning(rest) /\ t.id \in rest.session BY <1>4, <1>5, <1>6, <1>9 DEF IsRunning
        <3> HIDE DEF rest, e
        <3> QED BY <3>1, <3>2 DEF CompleteExec
    <2> HIDE DEF rest, e
    <2>2. /\ new \in Cells /\ new.st = c.st /\ new.work = c.work /\ new.secrets = c.secrets
          /\ new.session = {} /\ new.host = c.host /\ new.saved = c.saved
          /\ new.tasks = c.tasks \ {t} /\ new.doc.mtmpl = c.doc.mtmpl
          /\ new.doc.pid = c.doc.pid /\ new.doc.phase = c.doc.phase
        BY ZenonT(60), <1>5 DEF Cells, InstanceDocs
    <2> HIDE DEF new
    <2>3. Lane(t) = "session" BY <1>9 DEF Lane
    <2>4. Lands(c, new) BY <2>2, <2>3, AuxiliaryLands
    <2> QED BY <2>1, <2>4 DEF e
<1> QED BY <1>7, <1>8, <1>9

\* handle_work_completion.
LEMMA CompletedLands ==
    ASSUME NEW c, CellInv(c), NEW t \in c.tasks, NEW d
    PROVE Lands(c, Completed(c, t, d))
<1>1. t.kind \in TaskKinds BY DEF CellInv, Cells, Tasks
<1> QED BY <1>1, CreateLands, TransitionLands, DeleteRuntimeLands, DeleteLands, BootstrapLands,
           AuxiliaryTaskLands DEF TaskKinds

\* start_exec_command.
LEMMA StartExecLands ==
    ASSUME NEW c, CellInv(c), CanExec(c)
    PROVE Lands(c, StartExec(c))
<1> DEFINE t == Task(c, "exec", 0)
           e == StartExec(c)
<1>1. c \in Cells /\ LedgerInv(c) /\ SlotInv(c) /\ CleanupInv(c) BY DEF CellInv
<1>2. IsRunning(c) /\ c.session = {} /\ c.doc.phase = "Running" BY DEF CanExec
<1>3. /\ t \in Tasks /\ t.kind = "exec" /\ t.res = "running" /\ \A u \in c.tasks : u.id # t.id
    BY <1>1, TaskFacts DEF TaskKinds
<1>4. Lane(t) = "session" BY <1>3 DEF Lane
<1>5. e = [c EXCEPT !.session = {t.id}, !.doc.sessions = 1, !.tasks = @ \cup {t}] BY DEF StartExec
<1> HIDE DEF t, e
<1>6. /\ e \in Cells /\ e.st = c.st /\ e.work = c.work /\ e.secrets = c.secrets /\ e.host = c.host
      /\ e.session = {t.id} /\ e.saved = c.saved /\ e.tasks = c.tasks \cup {t}
      /\ e.doc.mtmpl = c.doc.mtmpl /\ e.doc.pid = c.doc.pid /\ e.doc.phase = "Running"
    BY ZenonT(60), <1>1, <1>2, <1>3, <1>5 DEF Cells, InstanceDocs, Tasks
<1>7. LedgerInv(e)
    <2>1. Ledger(c.work, c.secrets, c.host, c.session, c.tasks) BY <1>1 DEF LedgerInv
    <2>2. Ledger(c.work, c.secrets, c.host, {t.id}, c.tasks \cup {t})
        BY <1>2, <1>3, <1>4, <2>1, LedgerAdmits
    <2> QED BY <1>6, <2>2 DEF LedgerInv
<1>8. SlotInv(e)
    <2>1. ASSUME NEW w \in c.work, w.kind = "Deleting" PROVE FALSE
        <3>1. PICK u \in c.tasks : Serves(u, w) BY <1>1, <2>1 DEF LedgerInv, Ledger
        <3>2. u.kind \in {"stopForDelete", "removeFiles"} BY <2>1, <3>1 DEF Serves, TasksFor
        <3> QED BY <1>1, <1>2, <3>2 DEF CleanupInv
    <2> QED BY <1>1, <1>2, <1>6, <2>1 DEF SlotInv, IsRunning
<1>9. CleanupInv(e) BY <1>1, <1>2, <1>3, <1>6 DEF CleanupInv, IsRunning
<1>10. ASSUME NEW f, NEW there, NEW up, FileOf(f, InstanceDocs), Fits(c, f, there, up)
       PROVE Fits(e, f, there, up) /\ (Backed(c, up) => Backed(e, up))
    <2>1. Fits(e, f, there, up) BY <1>2, <1>3, <1>6, <1>10 DEF Fits, IsRunning
    <2>2. Backed(c, up) => Backed(e, up) BY <1>2, <1>3, <1>6 DEF Backed, IsRunning, BackendTasks
    <2> QED BY <2>1, <2>2
<1>11. ASSUME NEW a, Bound(c, a) PROVE Bound(e, a) BY <1>2, <1>3, <1>6, <1>11 DEF Bound, IsRunning
<1> QED BY <1>6, <1>7, <1>8, <1>9, <1>10, <1>11 DEF Lands, CellInv, e

-----------------------------------------------------------------------------
(* Tasks end. *)

\* What any result of the task t says and leaves, where up and there tell whether the
\* VM ran and the directory existed before, and on whether it runs now.
Yields(t, up, on, there, o) ==
    /\ o.res \in Results /\ o.pid \in BOOLEAN /\ on \in BOOLEAN /\ o.dir \in BOOLEAN
    /\ t.kind # "start" => (on => up)
    /\ t.kind \notin StrongTasks => on = up /\ o.pid = t.pid
    /\ t.kind # "removeFiles" => (there => o.dir)
    /\ t.kind = "create" /\ o.res = "ok" => o.dir
    /\ t.kind = "stopForDelete" /\ o.res = "ok" => ~on
    /\ t.kind = "removeFiles" /\ o.res = "err" => (there => o.dir)
    /\ t.kind = "removeFiles" => o.res \in {"ok", "err"}
    /\ t.kind \in BackendTasks /\ on /\ (up => t.pid) => o.pid

\* Every way a task may end is one the cell was prepared for.
LEMMA OutcomesYield ==
    ASSUME NEW i \in Ids, NEW t \in Tasks, vm[i] \in BOOLEAN, dir[i] \in BOOLEAN, crashes \in Nat,
           NEW o \in Outcomes(i, t)
    PROVE o.vm \in BOOLEAN /\ Yields(t, Known(crashes, vm[i]), Known(crashes, o.vm), dir[i], o)
<1> DEFINE Is(res, up, pid, there) == o.res = res /\ o.vm = up /\ o.pid = pid /\ o.dir = there
           Stays(res) == Is(res, vm[i], t.pid, dir[i])
<1>1. t.pid \in BOOLEAN /\ t.kind \in TaskKinds BY DEF Tasks
<1>2. \A res, up, pid, there : o = Outcome(res, up, pid, there) => Is(res, up, pid, there)
    BY DEF Outcome
<1>3. \A res : o = Same(i, t, res) => Stays(res) BY <1>2 DEF Same
<1> HIDE DEF Is
<1>4. t.kind = "create" => Stays("err") \/ Is("ok", vm[i], t.pid, TRUE) \/ Is("err", vm[i], t.pid, TRUE)
    BY <1>2, <1>3, Zenon DEF Outcomes, CreateOutcomes
<1>5. t.kind = "start" => Stays("err") \/ Is("ok", TRUE, TRUE, dir[i]) \/ Is("err", TRUE, TRUE, dir[i])
    BY <1>2, <1>3 DEF Outcomes, StartOutcomes
<1>6. t.kind = "reconcile" =>
        Stays("err") \/ Stays("ok") \/ (~(t.pid /\ vm[i]) /\ Is("stopped", vm[i], FALSE, dir[i]))
    BY <1>2, <1>3 DEF Outcomes, ReconcileOutcomes
<1>7. t.kind \in {"stop", "stopForDelete"} =>
        \/ Stays("err") \/ Is("err", FALSE, t.pid, dir[i]) \/ Is("ok", FALSE, FALSE, dir[i])
        \/ Is("ok", vm[i] /\ crashes > 0, FALSE, dir[i])
    BY <1>2, <1>3 DEF Outcomes, StopOutcomes
<1>8. t.kind = "removeFiles" => Stays("err") \/ Is("ok", vm[i], t.pid, FALSE)
    BY <1>2, <1>3 DEF Outcomes, RemoveFilesOutcomes
<1>9. t.kind \in {"bootstrap", "tailscale", "secrets", "hostInputs", "exec"} =>
        Stays("ok") \/ Stays("err") \/ Stays("expired")
    BY <1>2, <1>3 DEF Outcomes, BootstrapOutcomes, TailscaleOutcomes, SecretsOutcomes,
                      HostInputsOutcomes, ExecOutcomes
<1> USE DEF Yields, StrongTasks, BackendTasks, Results, Is, Known
<1>10. CASE t.kind = "create" BY <1>1, <1>4, <1>10
<1>11. CASE t.kind = "start" BY <1>1, <1>5, <1>11
<1>12. CASE t.kind = "reconcile" BY <1>1, <1>6, <1>12
<1>13. CASE t.kind \in {"stop", "stopForDelete"}
    <2>1. crashes = 0 => ~(crashes > 0) OBVIOUS
    <2>2. CASE Stays("err") BY <1>1, <1>13, <2>2
    <2>3. CASE Is("err", FALSE, t.pid, dir[i]) BY <1>1, <1>13, <2>3
    <2>4. CASE Is("ok", FALSE, FALSE, dir[i]) BY <1>1, <1>13, <2>4
    <2>5. CASE Is("ok", vm[i] /\ crashes > 0, FALSE, dir[i]) BY <1>1, <1>13, <2>1, <2>5
    <2> QED BY <1>7, <1>13, <2>2, <2>3, <2>4, <2>5
<1>14. CASE t.kind = "removeFiles" BY <1>1, <1>8, <1>14
<1>15. CASE t.kind \in {"bootstrap", "tailscale", "secrets", "hostInputs", "exec"} BY <1>1, <1>9, <1>15
<1> QED BY <1>1, <1>10, <1>11, <1>12, <1>13, <1>14, <1>15 DEF TaskKinds

\* The cell of a task that ends with o.
Ended(c, t, o) == [c EXCEPT !.tasks = (@ \ {t}) \cup {[t EXCEPT !.res = o.res, !.pid = o.pid]}]

\* A task that ends keeps its slot until its completion is handled.
LEMMA EndedCell ==
    ASSUME NEW c, CellInv(c), NEW t \in c.tasks, NEW up, NEW on, NEW there, NEW o, Yields(t, up, on, there, o)
    PROVE /\ CellInv(Ended(c, t, o))
          /\ \A a : Bound(c, a) => Bound(Ended(c, t, o), a)
          /\ Backed(c, up) => Backed(Ended(c, t, o), on)
          /\ \A f, g : /\ FileOf(f, InstanceDocs) /\ Fits(c, f, there, up)
                       /\ g = f \/ g = NoFile
                       /\ t.kind = "removeFiles" /\ o.res = "ok" => g = NoFile
                       => Fits(Ended(c, t, o), g, o.dir, on)
<1> DEFINE u == [t EXCEPT !.res = o.res, !.pid = o.pid]
           e == Ended(c, t, o)
<1>1. c \in Cells /\ LedgerInv(c) /\ SlotInv(c) /\ CleanupInv(c) BY DEF CellInv
<1>2. t \in Tasks BY <1>1 DEF Cells
<1>3. o.res \in Results /\ o.pid \in BOOLEAN BY DEF Yields
<1>4. e = [c EXCEPT !.tasks = (@ \ {t}) \cup {u}] BY DEF Ended
<1>5. /\ u \in Tasks /\ u.id = t.id /\ u.kind = t.kind /\ u.gen = t.gen /\ u.tmpl = t.tmpl
      /\ u.res = o.res /\ u.pid = o.pid
    BY <1>2, <1>3 DEF Tasks
<1> HIDE DEF u, e
<1>6. /\ e \in Cells /\ e.st = c.st /\ e.doc = c.doc /\ e.saved = c.saved /\ e.work = c.work
      /\ e.secrets = c.secrets /\ e.host = c.host /\ e.session = c.session
      /\ e.tasks = (c.tasks \ {t}) \cup {u}
    BY <1>1, <1>4, <1>5 DEF Cells
<1>7. CellInv(e)
    <2>1. LedgerInv(e)
        <3>1. Ledger(c.work, c.secrets, c.host, c.session, c.tasks) BY <1>1 DEF LedgerInv
        <3>2. Ledger(c.work, c.secrets, c.host, c.session, (c.tasks \ {t}) \cup {u})
            BY <1>5, <3>1, LedgerFinishes
        <3> QED BY <1>6, <3>2 DEF LedgerInv
    <2>2. SlotInv(e) BY <1>1, <1>6 DEF SlotInv, IsRunning
    <2>3. CleanupInv(e) BY <1>1, <1>5, <1>6 DEF CleanupInv, IsRunning
    <2> QED BY <1>6, <2>1, <2>2, <2>3 DEF CellInv
<1>8. ASSUME NEW a, Bound(c, a) PROVE Bound(e, a) BY <1>5, <1>6, <1>8 DEF Bound, IsRunning
<1>9. t.kind = "start" =>
        /\ IsRunning(c) /\ c.doc.phase # "Deleted"
        /\ \A v \in c.tasks : v.kind \in BackendTasks => v = t
    <2> SUFFICES ASSUME t.kind = "start" PROVE /\ IsRunning(c) /\ c.doc.phase # "Deleted"
                                               /\ \A v \in c.tasks : v.kind \in BackendTasks => v = t
        OBVIOUS
    <2>1. Lane(t) = "work" BY DEF Lane
    <2>2. PICK w \in c.work : Serves(t, w) /\ w.kind \in WorkKinds BY <2>1, SlotOfTask
    <2>3. w.kind = "Starting" BY <2>2 DEF Serves, TasksFor, WorkKinds
    <2>4. c.secrets = {} BY <1>1, <2>2, <2>3 DEF SlotInv
    <2>5. IsRunning(c) BY SlotOfTask
    <2>6. \A v \in c.tasks : v.kind # "secrets" BY <1>1, <2>4 DEF LedgerInv, Ledger, Lane
    <2>7. \A v \in c.tasks : v.kind \in BackendTasks => Lane(v) = "work"
        BY <2>6 DEF BackendTasks, Lane
    <2> QED BY <1>1, <2>1, <2>2, <2>3, <2>5, <2>7, SlotOfTask DEF CleanupInv
<1>10. ASSUME Backed(c, up), on PROVE Backed(e, on)
    <2>1. CASE up
        <3>1. /\ IsRunning(c) /\ \A v \in c.tasks : v.kind \in BackendTasks => v.pid
              /\ (\A v \in c.tasks : v.kind \notin StrongTasks) => c.doc.pid
            BY <1>10, <2>1 DEF Backed, StrongTasks
        <3>2. u.kind \in BackendTasks => u.pid BY <1>5, <1>10, <2>1, <3>1 DEF Yields
        <3>3. \A v \in e.tasks : v.kind \in BackendTasks => v.pid BY <1>6, <3>1, <3>2
        <3>4. (\A v \in e.tasks : v.kind \notin StrongTasks) => c.doc.pid
            BY <1>5, <1>6, <3>1
        <3> QED BY <1>6, <3>1, <3>3, <3>4 DEF Backed, IsRunning, StrongTasks
    <2>2. CASE ~up
        <3>1. t.kind = "start" BY <1>10, <2>2 DEF Yields
        <3>2. u.kind = "start" /\ u.pid
            BY <1>5, <1>10, <2>2, <3>1 DEF Yields, BackendTasks
        <3>3. \A v \in e.tasks : v.kind \in BackendTasks => v.pid BY <1>6, <1>9, <3>1, <3>2
        <3> QED BY <1>6, <1>9, <3>1, <3>2, <3>3 DEF Backed, IsRunning, BackendTasks
    <2> QED BY <2>1, <2>2
<1>11. Backed(c, up) => Backed(e, on)
    <2>1. ~on => Backed(e, on) BY DEF Backed
    <2> QED BY <1>10, <2>1
<1>12. ASSUME NEW f, NEW g, FileOf(f, InstanceDocs), Fits(c, f, there, up), g = f \/ g = NoFile,
              t.kind = "removeFiles" /\ o.res = "ok" => g = NoFile
       PROVE Fits(e, g, o.dir, on)
    <2>1. IsRunning(e) /\ e.doc.phase # "Deleted" => o.dir
        <3>1. t.kind = "removeFiles" => c.doc.phase = "Deleted" BY <1>1 DEF CleanupInv
        <3> QED BY <1>6, <1>12, <3>1 DEF Fits, IsRunning, Yields
    <2>2. IsRunning(e) /\ e.doc.phase = "Deleted" => ~on
        BY <1>6, <1>9, <1>12 DEF Fits, IsRunning, Yields
    <2>3. g # NoFile => g = f /\ IsRunning(e) BY <1>6, <1>12 DEF Fits, IsRunning
    <2>4. \A h \in g.doc : h.mtmpl = e.doc.mtmpl /\ (h.phase = "Deleted" => e.doc.phase = "Deleted")
        <3>1. NoFile.doc = {} BY DEF NoFile
        <3> QED BY <1>6, <1>12, <3>1 DEF Fits
    <2>5. ASSUME NEW v \in e.tasks, v.res = "ok"
          PROVE /\ v.kind = "create" => o.dir
                /\ v.kind = "stopForDelete" => ~on
                /\ v.kind = "removeFiles" => g = NoFile
        <3>1. CASE v = u BY <1>5, <1>12, <2>5, <3>1 DEF Yields
        <3>2. CASE v # u
            <4>1. v \in c.tasks /\ v # t BY <1>6, <3>2
            <4>2. /\ v.kind = "create" => there
                  /\ v.kind = "stopForDelete" => ~up
                  /\ v.kind = "removeFiles" => f = NoFile
                BY <1>12, <2>5, <4>1 DEF Fits
            <4>3. v.kind \in {"create", "stopForDelete", "removeFiles"} => Lane(t) # "work"
                BY <4>1, SlotOfTask DEF Lane
            <4>4. Lane(t) # "work" => t.kind \notin StrongTasks \cup {"removeFiles"}
                BY DEF Lane, StrongTasks, BackendTasks
            <4>5. t.kind \notin StrongTasks \cup {"removeFiles"} => on = up /\ (there => o.dir)
                BY DEF Yields
            <4> QED BY <1>12, <4>2, <4>3, <4>4, <4>5
        <3> QED BY <3>1, <3>2
    <2> QED BY <2>1, <2>2, <2>3, <2>4, <2>5 DEF Fits
<1> QED BY <1>7, <1>8, <1>11, <1>12 DEF e

-----------------------------------------------------------------------------
(* Documents. *)

\* There are finitely many instance ids, so the status can count them.
LEMMA IdsFinite == IsFiniteSet(Ids) /\ \A S : S \subseteq Ids => Cardinality(S) \in Nat
<1>1. IsFiniteSet(Ids) BY FS_Interval, ReplicasAssumption DEF Ids
<1> QED BY <1>1, FS_Subset, FS_CardinalityType

\* A first apply makes a document that is not deleted.
LEMMA FromManifestDoc ==
    ASSUME NEW m \in [tmpl : Templates, replicas : Nat, paused : BOOLEAN]
    PROVE FromManifest(m) \in Docs /\ FromManifest(m).tmpl = m.tmpl /\ ~FromManifest(m).deleted
<1> DEFINE none == [i \in Ids |-> {}]
<1>1. none \in [Ids -> SUBSET InstanceStatuses] OBVIOUS
<1> HIDE DEF none
<1>2. FromManifest(m) =
        [gen |-> 1, del |-> FALSE, tmpl |-> m.tmpl, replicas |-> m.replicas, paused |-> m.paused,
         baseDesired |-> None, baseReady |-> None, basePhase |-> "Missing",
         observed |-> 0, deleted |-> FALSE, reconciling |-> TRUE,
         active |-> 0, ready |-> 0, instances |-> none]
    BY DEF FromManifest, none
<1>3. None \in Keys BY DEF Keys
<1> QED BY <1>1, <1>2, <1>3 DEF Docs, AgentDocs

\* The document of an agent that was never applied is a document.
LEMMA NoAgentDocs == NoAgentDoc \in Docs /\ ~NoAgentDoc.deleted
<1> DEFINE m == [tmpl |-> CHOOSE t \in Templates : TRUE, replicas |-> 0, paused |-> TRUE]
<1>1. (CHOOSE t \in Templates : TRUE) \in Templates BY TemplatesAssumption
<1>2. m \in [tmpl : Templates, replicas : Nat, paused : BOOLEAN] BY <1>1
<1> HIDE DEF m
<1>3. FromManifest(m) \in Docs /\ ~FromManifest(m).deleted BY <1>2, FromManifestDoc
<1> QED BY <1>3 DEF NoAgentDoc, m

\* A manifest names a template, a number of replicas and whether the agent is paused.
LEMMA ManifestsMeant ==
    ASSUME NEW m \in Manifests PROVE m \in [tmpl : Templates, replicas : Nat, paused : BOOLEAN]
<1>1. m \in [tmpl : Templates, replicas : 0 .. MaxReplicas, paused : BOOLEAN] BY ManifestsAssumption
<1>2. 0 .. MaxReplicas \subseteq Nat BY ReplicasAssumption
<1> QED BY <1>1, <1>2

\* A later apply makes a document of the manifest's template.
LEMMA AfterExistingDoc ==
    ASSUME NEW m \in Manifests, NEW d \in Docs
    PROVE FromManifestAfterExisting(m, d) \in Docs /\ FromManifestAfterExisting(m, d).tmpl = m.tmpl
<1> DEFINE new == FromManifest(m)
           desired == IF d.tmpl = m.tmpl THEN d.baseDesired ELSE None
           ready == IF d.tmpl = m.tmpl THEN d.baseReady ELSE None
           phase == IF d.tmpl = m.tmpl THEN d.basePhase ELSE "Missing"
           behind == d.observed # d.gen + 1
           e == FromManifestAfterExisting(m, d)
<1>1. new \in Docs /\ new.tmpl = m.tmpl BY ManifestsMeant, FromManifestDoc
<1>2. CASE DesiredState(new) = DesiredState(d)
    <2>1. e = d BY <1>2 DEF FromManifestAfterExisting
    <2>2. DesiredState(new).tmpl = DesiredState(d).tmpl BY <1>2
    <2>3. new.tmpl = d.tmpl BY <2>2 DEF DesiredState
    <2> QED BY <1>1, <2>1, <2>3
<1>3. CASE DesiredState(new) # DesiredState(d)
    <2> DEFINE next == d.gen + 1
               x == [new EXCEPT !.gen = next, !.observed = d.observed, !.active = d.active,
                                !.ready = d.ready, !.instances = d.instances,
                                !.baseDesired = desired, !.baseReady = ready, !.basePhase = phase]
               y == [x EXCEPT !.deleted = FALSE, !.reconciling = x.observed # x.gen]
    <2>1. e = y BY <1>3 DEF FromManifestAfterExisting, RefreshStatusProjection
    <2>2. /\ desired \in Keys /\ ready \in Keys /\ phase \in {"Missing", "Building", "Ready", "Failed"}
        BY DEF Docs, AgentDocs, Keys
    <2>0. next \in Nat /\ next > 0 BY DEF Docs, AgentDocs
    <2> HIDE DEF new, desired, ready, phase, next
    <2>3. x \in Docs /\ x.tmpl = m.tmpl BY <1>1, <2>0, <2>2 DEF Docs, AgentDocs
    <2> HIDE DEF x
    <2> DEFINE b == x.observed # x.gen
    <2>4. b \in BOOLEAN BY Zenon
    <2> HIDE DEF b
    <2>5. [x EXCEPT !.deleted = FALSE, !.reconciling = b] \in Docs
          /\ [x EXCEPT !.deleted = FALSE, !.reconciling = b].tmpl = m.tmpl
        BY <2>3, <2>4 DEF Docs, AgentDocs
    <2> QED BY <2>1, <2>5 DEF b
<1> QED BY <1>2, <1>3

\* Scaling, deleting and the records of the base keep the template.
LEMMA CommandDocs ==
    ASSUME NEW d \in Docs
    PROVE /\ \A n \in 0 .. MaxReplicas : SetReplicas(d, n) \in Docs /\ SetReplicas(d, n).tmpl = d.tmpl
          /\ MarkDeletionRequested(d) \in Docs /\ MarkDeletionRequested(d).tmpl = d.tmpl
          /\ \A key \in Keys : /\ MarkBaseDesired(d, key) \in Docs /\ MarkBaseDesired(d, key).tmpl = d.tmpl
                               /\ MarkBaseReady(d, key) \in Docs /\ MarkBaseReady(d, key).tmpl = d.tmpl
          /\ MarkBaseFailed(d) \in Docs /\ MarkBaseFailed(d).tmpl = d.tmpl
<1> DEFINE next == d.gen + 1
<1>0. next \in Nat /\ next > 0 BY DEF Docs, AgentDocs
<1>1. ASSUME NEW n \in 0 .. MaxReplicas
      PROVE SetReplicas(d, n) \in Docs /\ SetReplicas(d, n).tmpl = d.tmpl
    <2>1. n \in Nat BY ReplicasAssumption
    <2>2. SetReplicas(d, n) = IF d.replicas = n THEN d ELSE [d EXCEPT !.replicas = n, !.gen = next]
        BY DEF SetReplicas
    <2> HIDE DEF next
    <2> QED BY ZenonT(60), <1>0, <2>1, <2>2 DEF Docs, AgentDocs
<1>2. MarkDeletionRequested(d) \in Docs /\ MarkDeletionRequested(d).tmpl = d.tmpl
    <2>1. MarkDeletionRequested(d) = IF d.del THEN d ELSE [d EXCEPT !.del = TRUE, !.gen = next]
        BY DEF MarkDeletionRequested
    <2> HIDE DEF next
    <2> QED BY ZenonT(60), <1>0, <2>1 DEF Docs, AgentDocs
<1>3. ASSUME NEW key \in Keys
      PROVE /\ MarkBaseDesired(d, key) \in Docs /\ MarkBaseDesired(d, key).tmpl = d.tmpl
            /\ MarkBaseReady(d, key) \in Docs /\ MarkBaseReady(d, key).tmpl = d.tmpl
    <2>1. None \in Keys BY DEF Keys
    <2>2. MarkBaseDesired(d, key) \in Docs /\ MarkBaseDesired(d, key).tmpl = d.tmpl
        BY <2>1 DEF MarkBaseDesired, Docs, AgentDocs
    <2>3. MarkBaseReady(d, key) \in Docs /\ MarkBaseReady(d, key).tmpl = d.tmpl
        BY DEF MarkBaseReady, Docs, AgentDocs
    <2> QED BY <2>2, <2>3
<1>4. MarkBaseFailed(d) \in Docs /\ MarkBaseFailed(d).tmpl = d.tmpl
    BY DEF MarkBaseFailed, Docs, AgentDocs
<1> QED BY <1>1, <1>2, <1>3, <1>4

\* The status of an instance document is one the agent document can hold.
LEMMA StatusOf == ASSUME NEW g \in InstanceDocs PROVE Status(g) \in InstanceStatuses
BY DEF Status, StatusFields, InstanceDocs, InstanceStatuses

\* AgentDocuments::write: the published document is one, and says deleted only when
\* nothing is left.
LEMMA WriteDoc ==
    ASSUME NEW d \in Docs, NEW b, NEW cells \in [Ids -> Cells]
    PROVE /\ Write(d, b, cells) \in Docs /\ Write(d, b, cells).tmpl = d.tmpl
          /\ Write(d, b, cells).deleted => /\ \A i \in Ids : cells[i].st = "absent"
                                           /\ b.st \in {"Stopped", "Missing", "Failed"}
<1> DEFINE up == {i \in RunningIds(cells) : cells[i].doc.phase = "Running"}
           cleaning == {i \in RunningIds(cells) : cells[i].doc.phase \in CleanupPhases}
           gone == Deleted(d, b, cells)
           inactiveConverged == Inactive(d) /\ up = {} /\ cleaning = {} /\ InstancesObserved(d, cells)
           runningConverged == /\ ~d.del /\ ~d.paused
                               /\ Cardinality(up) = d.replicas
                               /\ d.baseReady = d.baseDesired
                               /\ InstancesObserved(d, cells)
           seen == gone \/ inactiveConverged \/ runningConverged
           busy == ~seen
           observed == IF seen THEN d.gen ELSE d.observed
           active == Cardinality(up)
           ready == Cardinality({i \in RunningIds(cells) : InstanceReady(cells[i], d)})
           all == [i \in Ids |-> IF IsRunning(cells[i]) THEN {Status(cells[i].doc)} ELSE {}]
           e == [d EXCEPT !.observed = observed, !.deleted = gone, !.reconciling = busy,
                          !.active = active, !.ready = ready, !.instances = all]
<1>1. Write(d, b, cells) = e BY DEF Write
<1>2. active \in Nat /\ ready \in Nat
    <2>1. /\ up \subseteq Ids
          /\ {i \in RunningIds(cells) : InstanceReady(cells[i], d)} \subseteq Ids
        BY DEF RunningIds
    <2> QED BY <2>1, IdsFinite
<1>3. all \in [Ids -> SUBSET InstanceStatuses]
    <2>1. \A i \in Ids : cells[i].doc \in InstanceDocs BY DEF Cells
    <2> QED BY <2>1, StatusOf
<1>4. gone \in BOOLEAN /\ busy \in BOOLEAN BY Zenon DEF Deleted
<1>5. observed \in Nat BY DEF Docs, AgentDocs
<1>6. gone => /\ \A i \in Ids : cells[i].st = "absent"
              /\ b.st \in {"Stopped", "Missing", "Failed"}
    BY DEF Deleted
<1> HIDE DEF active, ready, all, gone, busy, observed
<1>7. e \in Docs /\ e.tmpl = d.tmpl /\ e.deleted = gone
    BY <1>2, <1>3, <1>4, <1>5 DEF Docs, AgentDocs
<1> QED BY <1>1, <1>6, <1>7

-----------------------------------------------------------------------------
(* The agent base. *)

\* A base that nobody works on has no task.
LEMMA IdleBase ==
    ASSUME NEW b \in BaseStates, b.st \notin {"Preparing", "Building", "Stopping"}
    PROVE /\ BaseOf(b, {})
          /\ \A tasks : BaseOf(b, tasks) => tasks = {}
<1>1. BaseOf(b, {}) BY DEF BaseOf, AtMostOne
<1>2. ASSUME NEW tasks, BaseOf(b, tasks), NEW t \in tasks PROVE FALSE
    BY <1>2 DEF BaseOf, BaseTaskRecords
<1> QED BY <1>1, <1>2

\* The states of a base that nobody works on are states of a base.
LEMMA BaseRecords ==
    /\ \A st \in {"Missing", "Stopped"} : Base(st) \in BaseStates /\ Base(st).st = st
    /\ \A key \in Keys : BaseReady(key) \in BaseStates /\ BaseReady(key).st = "Ready"
<1>1. None \in Keys BY DEF Keys
<1> QED BY <1>1 DEF Base, BaseReady, BaseStates

\* spawn_prepare_base and the stop of a base start the one task the state waits for.
LEMMA SpawnBaseKeeps ==
    ASSUME NEW st, NEW kind, NEW gen \in Nat, NEW key \in Keys,
           \/ st = "Preparing" /\ kind = "prepare"
           \/ st = "Stopping" /\ kind = "stop"
    PROVE BaseOf(SpawnBase({}, st, kind, gen, key).base, SpawnBase({}, st, kind, gen, key).tasks)
<1> DEFINE b == [st |-> st, id |-> 0, gen |-> 0, key |-> None]
           t == [kind |-> kind, id |-> 0, gen |-> gen, key |-> key, res |-> "running"]
           s == SpawnBase({}, st, kind, gen, key)
<1>1. s = [base |-> b, tasks |-> {t}] BY DEF SpawnBase, Base
<1>2. None \in Keys BY DEF Keys
<1>3. b \in BaseStates /\ b.id = 0 /\ b.st = st BY <1>2 DEF BaseStates
<1>4. t \in BaseTaskRecords /\ t.id = 0 /\ t.kind = kind BY DEF BaseTaskRecords
<1> HIDE DEF b, t
<1>5. BaseOf(b, {t}) BY <1>3, <1>4 DEF BaseOf, AtMostOne
<1> QED BY <1>1, <1>5

\* reconcile_base and reconcile_deletion start a task of the base only when none is left.
LEMMA ReconcileBaseKeeps ==
    ASSUME NEW d \in Docs, NEW b, NEW tasks, BaseOf(b, tasks), NEW cells
    PROVE /\ BaseOf(ReconcileBase(d, b, tasks).base, ReconcileBase(d, b, tasks).tasks)
          /\ BaseOf(ReconcileBaseDeletion(b, tasks, cells).base, ReconcileBaseDeletion(b, tasks, cells).tasks)
<1>1. b \in BaseStates BY DEF BaseOf
<1>2. d.gen \in Nat /\ d.tmpl \in Keys /\ None \in Keys BY DEF Docs, AgentDocs, Keys
<1>3. b.st \notin {"Preparing", "Building", "Stopping"} => tasks = {} BY <1>1, IdleBase
<1>4. ReconcileBase(d, b, tasks) \in
        {[base |-> b, tasks |-> tasks], SpawnBase({}, "Preparing", "prepare", d.gen, d.tmpl)}
    BY <1>3 DEF ReconcileBase
<1>5. ReconcileBaseDeletion(b, tasks, cells) \in
        {[base |-> b, tasks |-> tasks], SpawnBase({}, "Stopping", "stop", 0, None)}
    BY <1>3 DEF ReconcileBaseDeletion
<1>6. /\ BaseOf(SpawnBase({}, "Preparing", "prepare", d.gen, d.tmpl).base,
                SpawnBase({}, "Preparing", "prepare", d.gen, d.tmpl).tasks)
      /\ BaseOf(SpawnBase({}, "Stopping", "stop", 0, None).base,
                SpawnBase({}, "Stopping", "stop", 0, None).tasks)
    BY <1>2, SpawnBaseKeeps
<1> QED BY <1>4, <1>5, <1>6

\* handle_base_completion finds the base waiting for the task that has ended.
LEMMA BaseCompletionKeeps ==
    ASSUME BaseInv, doc \in Docs, NEW t \in baseTasks
    PROVE LET h == HandleBaseCompletion(t)
          IN  h.doc \in Docs /\ h.doc.tmpl = doc.tmpl /\ BaseOf(h.base, h.tasks)
<1> DEFINE h == HandleBaseCompletion(t)
           rest == baseTasks \ {t}
<1>1. rest = {} BY DEF BaseInv, BaseOf, AtMostOne
<1>2. /\ base \in BaseStates /\ t \in BaseTaskRecords /\ base.id = t.id
      /\ t.kind = "prepare" => base.st = "Preparing"
      /\ t.kind = "build" => base.st = "Building" /\ base.gen = t.gen /\ base.key = t.key
      /\ t.kind = "stop" => base.st = "Stopping"
    BY DEF BaseInv, BaseOf
<1>3. t.gen \in Nat /\ t.key \in Keys /\ doc.baseDesired \in Keys /\ base.key \in Keys
    BY <1>2 DEF BaseTaskRecords, BaseStates, Docs, AgentDocs
<1>4. /\ \A st \in {"Missing", "Stopped"} : Base(st) \in BaseStates /\ Base(st).st = st
      /\ BaseReady(t.key) \in BaseStates /\ BaseReady(t.key).st = "Ready"
    BY <1>3, BaseRecords
<1>6. /\ MarkBaseDesired(doc, t.key) \in Docs /\ MarkBaseDesired(doc, t.key).tmpl = doc.tmpl
      /\ MarkBaseReady(doc, t.key) \in Docs /\ MarkBaseReady(doc, t.key).tmpl = doc.tmpl
      /\ MarkBaseFailed(doc) \in Docs /\ MarkBaseFailed(doc).tmpl = doc.tmpl
    BY <1>3, CommandDocs
<1>7. CASE t.kind = "stop"
    <2>1. h = [doc |-> doc, tasks |-> {}, base |-> Base("Stopped")]
        BY <1>1, <1>2, <1>7 DEF HandleBaseCompletion, BaseStopped, OwnsBase
    <2>2. BaseOf(Base("Stopped"), {}) BY <1>4, IdleBase
    <2> HIDE DEF h
    <2> QED BY <2>1, <2>2 DEF h
<1>8. CASE t.kind # "stop" /\ t.res = "err"
    <2> DEFINE key == IF base.st = "Preparing" THEN doc.baseDesired ELSE base.key
               failed == [st |-> "Failed", id |-> 0, gen |-> t.gen, key |-> key]
    <2>0. base.st \in {"Preparing", "Building"} BY <1>2, <1>8 DEF BaseTaskRecords
    <2>1. h = IF t.gen # doc.gen THEN [doc |-> doc, base |-> Base("Missing"), tasks |-> {}]
              ELSE [doc |-> MarkBaseFailed(doc), base |-> failed, tasks |-> {}]
        BY <1>1, <1>2, <1>8, <2>0 DEF HandleBaseCompletion, BaseFailed, OwnsBase
    <2>2. key \in Keys BY <1>3
    <2> HIDE DEF key, h
    <2>3. failed \in BaseStates /\ failed.st = "Failed" BY <1>3, <2>2 DEF BaseStates
    <2> HIDE DEF failed
    <2>4. BaseOf(failed, {}) /\ BaseOf(Base("Missing"), {}) BY <1>4, <2>3, IdleBase
    <2> QED BY <1>6, <2>1, <2>4 DEF h
<1>9. CASE t.kind = "prepare" /\ t.res # "err"
    <2> DEFINE b == [st |-> "Building", id |-> t.id, gen |-> t.gen, key |-> t.key]
               u == [t EXCEPT !.kind = "build", !.res = "running"]
    <2>1. h = IF t.gen # doc.gen THEN [doc |-> doc, base |-> Base("Missing"), tasks |-> {}]
              ELSE [doc |-> MarkBaseDesired(doc, t.key), base |-> b, tasks |-> {u}]
        BY <1>1, <1>2, <1>9 DEF HandleBaseCompletion, BasePrepared, OwnsBase
    <2>2. b \in BaseStates /\ b.st = "Building" /\ b.id = t.id /\ b.gen = t.gen /\ b.key = t.key
        BY <1>2 DEF BaseStates, BaseTaskRecords
    <2>3. u \in BaseTaskRecords /\ u.kind = "build" /\ u.id = t.id /\ u.gen = t.gen /\ u.key = t.key
        BY <1>2 DEF BaseTaskRecords
    <2> HIDE DEF b, u, h
    <2>4. BaseOf(b, {u}) BY <2>2, <2>3 DEF BaseOf, AtMostOne
    <2>5. BaseOf(Base("Missing"), {}) BY <1>4, IdleBase
    <2> QED BY <1>6, <2>1, <2>4, <2>5 DEF h
<1>10. CASE t.kind = "build" /\ t.res # "err"
    <2>1. h = IF ~doc.del /\ t.gen # doc.gen THEN [doc |-> doc, base |-> Base("Missing"), tasks |-> {}]
              ELSE [doc |-> MarkBaseReady(doc, t.key), base |-> BaseReady(t.key), tasks |-> {}]
        BY <1>1, <1>2, <1>10 DEF HandleBaseCompletion, BaseBuilt, OwnsBase
    <2> HIDE DEF h
    <2>2. BaseOf(Base("Missing"), {}) /\ BaseOf(BaseReady(t.key), {}) BY <1>4, IdleBase
    <2> QED BY <1>6, <2>1, <2>2 DEF h
<1> QED BY <1>2, <1>7, <1>8, <1>9, <1>10 DEF BaseTaskRecords

-----------------------------------------------------------------------------
(* A turn of the loop. *)

\* What a turn publishes: a document of the same template, deleted only when nothing is left.
LEMMA TurnOutcome ==
    ASSUME NEW d \in Docs, NEW b, NEW tasks, BaseOf(b, tasks), NEW cells \in [Ids -> Cells],
           \A i \in Ids : CellInv(cells[i]), NEW asked, Turn(d, b, tasks, cells, asked)
    PROVE /\ doc' \in Docs /\ doc'.tmpl = d.tmpl /\ pc' \in {"input", "commit"}
          /\ doc'.deleted => /\ \A i \in Ids : inst'[i].st = "absent"
                             /\ base'.st \in {"Stopped", "Missing", "Failed"}
          /\ BaseInv'
          /\ inst' \in [Ids -> Cells]
          /\ \A i \in Ids : CellInv(inst'[i]) /\ Goes(cells[i], inst'[i], d)
<1> DEFINE choice == [i \in Ids |-> TurnCell(cells[i], d, b, i)]
           S(next) == IF d.del THEN ReconcileBaseDeletion(b, tasks, next)
                      ELSE IF Inactive(d) THEN [base |-> b, tasks |-> tasks]
                      ELSE ReconcileBase(d, b, tasks)
<1>1. PICK next \in Pick(choice) :
        /\ doc' = Write(d, S(next).base, next)
        /\ base' = S(next).base
        /\ baseTasks' = S(next).tasks
        /\ inst' = next
        /\ IF InSync(Write(d, S(next).base, next), saved', next)
           THEN Answer(Write(d, S(next).base, next), asked)
           ELSE pc' = "commit" /\ pending' = asked /\ UNCHANGED acked
    BY Zenon DEF Turn
<1>2. next \in [Ids -> UNION {choice[i] : i \in Ids}] /\ \A i \in Ids : next[i] \in choice[i]
    BY <1>1 DEF Pick
<1>3. \A i \in Ids : next[i] \in TurnCell(cells[i], d, b, i) BY <1>2
<1>4. ASSUME NEW i \in Ids PROVE CellInv(next[i]) /\ Goes(cells[i], next[i], d)
    BY <1>3, <1>4, TurnCellGoes
<1>5. next \in [Ids -> Cells]
    <2>1. \A i \in Ids : next[i] \in Cells BY <1>4 DEF CellInv
    <2> QED BY <1>2, <2>1
<1>6. pc' \in {"input", "commit"} BY <1>1 DEF Answer
<1>7. BaseOf(S(next).base, S(next).tasks) BY ReconcileBaseKeeps
<1> HIDE DEF S, choice
<1>8. /\ doc' \in Docs /\ doc'.tmpl = d.tmpl
      /\ doc'.deleted => /\ \A i \in Ids : inst'[i].st = "absent"
                         /\ base'.st \in {"Stopped", "Missing", "Failed"}
    BY <1>1, <1>5, WriteDoc
<1>9. BaseInv' BY <1>1, <1>7 DEF BaseInv
<1> QED BY <1>1, <1>4, <1>5, <1>6, <1>8, <1>9

\* The cells an input leaves, under the document d, have their place in the world.
Placed(cells, d) ==
    /\ cells \in [Ids -> Cells]
    /\ \A i \in Ids :
         /\ CellInv(cells[i])
         /\ Fits(cells[i], file[i], dir[i], Known(crashes, vm[i]))
         /\ Backed(cells[i], Known(crashes, vm[i]))
         /\ Bound(cells[i], AuthBindings[d.tmpl])

\* A turn that begins with cells that fit the world keeps the invariant.
LEMMA TurnKeeps ==
    ASSUME AgentInv, NEW d \in Docs, NEW b, NEW tasks, BaseOf(b, tasks), NEW cells, Placed(cells, d),
           NEW asked, Turn(d, b, tasks, cells, asked),
           mode' = "Running", UNCHANGED <<disk, file, dir, vm, crashes>>, saved' \subseteq Docs,
           \A s \in saved' : s.deleted \/ disk.torn \/ disk.doc = {s}
    PROVE AgentInv'
<1>1. /\ doc' \in Docs /\ doc'.tmpl = d.tmpl /\ pc' \in {"input", "commit"}
      /\ doc'.deleted => /\ \A i \in Ids : inst'[i].st = "absent"
                         /\ base'.st \in {"Stopped", "Missing", "Failed"}
      /\ BaseInv'
      /\ inst' \in [Ids -> Cells]
      /\ \A i \in Ids : CellInv(inst'[i]) /\ Goes(cells[i], inst'[i], d)
    BY TurnOutcome DEF Placed
<1>2. DocsInv' BY <1>1 DEF AgentInv, DocsInv
<1>3. CellsInv' BY <1>1 DEF CellsInv
<1>4. WorldInv'
    <2>1. ASSUME NEW i \in Ids
          PROVE /\ Fits(inst'[i], file[i], dir[i], Known(crashes, vm[i]))
                /\ Backed(inst'[i], Known(crashes, vm[i]))
                /\ Bound(inst'[i], AuthBindings[doc'.tmpl])
        <3>1. /\ CellInv(cells[i]) /\ Fits(cells[i], file[i], dir[i], Known(crashes, vm[i]))
              /\ Backed(cells[i], Known(crashes, vm[i]))
              /\ Bound(cells[i], AuthBindings[d.tmpl])
            BY DEF Placed
        <3>2. FileOf(file[i], InstanceDocs) BY DEF AgentInv, WorldInv
        <3>3. CellInv(inst'[i]) /\ Goes(cells[i], inst'[i], d) BY <1>1
        <3> QED BY <1>1, <3>1, <3>2, <3>3, GoesFits
    <2> QED BY <2>1 DEF AgentInv, WorldInv
<1> QED BY <1>1, <1>2, <1>3, <1>4 DEF AgentInv

\* An input that leaves every cell where it was.
LEMMA LoopTurnKeeps ==
    ASSUME AgentInv, Awaiting, NEW d \in Docs, NEW b, NEW tasks, BaseOf(b, tasks),
           NEW cells \in [Ids -> Cells], \A i \in Ids : Lands(inst[i], cells[i]),
           \A i \in Ids : Bound(inst[i], AuthBindings[d.tmpl]),
           NEW asked, LoopTurn(d, b, tasks, cells, asked), UNCHANGED crashes
    PROVE AgentInv'
<1>1. /\ Turn(d, b, tasks, cells, asked) /\ saved' = saved /\ mode' = mode
      /\ UNCHANGED <<disk, file, dir, vm, crashes>>
    BY DEF LoopTurn, world
<1>2. mode = "Running" BY DEF Awaiting
<1>3. saved \subseteq Docs /\ \A s \in saved : s.deleted \/ disk.torn \/ disk.doc = {s}
    BY <1>2 DEF AgentInv, DocsInv
<1>4. Placed(cells, d)
    <2>1. ASSUME NEW i \in Ids
          PROVE /\ CellInv(cells[i])
                /\ Fits(cells[i], file[i], dir[i], Known(crashes, vm[i]))
                /\ Backed(cells[i], Known(crashes, vm[i]))
                /\ Bound(cells[i], AuthBindings[d.tmpl])
        <3>1. Lands(inst[i], cells[i]) /\ Bound(inst[i], AuthBindings[d.tmpl]) OBVIOUS
        <3>2. /\ FileOf(file[i], InstanceDocs) /\ Fits(inst[i], file[i], dir[i], Known(crashes, vm[i]))
              /\ Backed(inst[i], Known(crashes, vm[i]))
            BY <1>2 DEF AgentInv, WorldInv
        <3> QED BY <3>1, <3>2 DEF Lands
    <2> QED BY <2>1 DEF Placed
<1> QED BY <1>1, <1>2, <1>3, <1>4, TurnKeeps

\* A cell that no completion is handled for stays where it is.
LEMMA LandsHere == ASSUME NEW c, CellInv(c) PROVE Lands(c, c)
BY DEF Lands

\* A turn may begin with the cells as they are.
LEMMA AllLandHere ==
    ASSUME AgentInv
    PROVE /\ inst \in [Ids -> Cells]
          /\ \A i \in Ids : CellInv(inst[i]) /\ Lands(inst[i], inst[i])
          /\ \A i \in Ids : Bound(inst[i], AuthBindings[doc.tmpl])
<1>1. inst \in [Ids -> Cells] /\ \A i \in Ids : CellInv(inst[i]) BY DEF AgentInv, CellsInv
<1>2. \A i \in Ids : Bound(inst[i], AuthBindings[doc.tmpl]) BY DEF AgentInv, WorldInv
<1> QED BY <1>1, <1>2, LandsHere

\* An absent cell carries nothing.
LEMMA AbsentBound ==
    ASSUME NEW c, CellInv(c), c.st = "absent"
    PROVE c.tasks = {} /\ \A a : Bound(c, a)
<1>1. \A t \in c.tasks : FALSE BY SlotOfTask DEF IsRunning
<1> QED BY <1>1 DEF Bound, IsRunning

-----------------------------------------------------------------------------
(* Inputs. *)

\* validate_mediated_auth_bindings lets a manifest through that keeps the bindings, or
\* when nothing carries them yet.
LEMMA ApplyKeeps ==
    ASSUME AgentInv, NEW m \in Manifests, NEW moved, Apply(m, moved)
    PROVE AgentInv'
<1>1. /\ Awaiting /\ crashes' = crashes
      /\ \/ LoopTurn(doc, base, baseTasks, inst, FALSE)
         \/ ~AuthBindingsChanged(m) /\ ApplyManifest(m, moved)
    BY DEF Apply, budgets
<1>2. doc \in Docs /\ BaseOf(base, baseTasks) BY DEF AgentInv, DocsInv, BaseInv
<1>3. /\ inst \in [Ids -> Cells]
      /\ \A i \in Ids : CellInv(inst[i]) /\ Lands(inst[i], inst[i])
      /\ \A i \in Ids : Bound(inst[i], AuthBindings[doc.tmpl])
    BY AllLandHere
<1>4. CASE LoopTurn(doc, base, baseTasks, inst, FALSE) BY <1>1, <1>2, <1>3, <1>4, LoopTurnKeeps
<1>5. CASE LoopTurn(doc, base, baseTasks, inst, TRUE) BY <1>1, <1>2, <1>3, <1>5, LoopTurnKeeps
<1>6. CASE ~AuthBindingsChanged(m) /\ ApplyManifest(m, moved) /\ ~LoopTurn(doc, base, baseTasks, inst, TRUE)
    <2> DEFINE updated == Updated(m)
               genChanged == updated.gen # doc.gen
               restart == /\ genChanged \/ (updated.baseDesired = None /\ updated.baseReady = None)
                          /\ base.st \notin {"Preparing", "Building", "Stopping"}
               forget == [i \in Ids |-> [inst[i] EXCEPT !.files = @ /\ ~genChanged]]
               written == Write(updated, base, inst)
               b == IF restart THEN Base("Missing") ELSE base
    <2>1. LoopTurn(written, b, baseTasks, forget, TRUE)
        BY <1>6, Zenon DEF ApplyManifest
    <2>2. updated \in Docs /\ updated.tmpl = m.tmpl
        BY <1>2, FromManifestDoc, ManifestsMeant, AfterExistingDoc DEF Updated
    <2>3. \A i \in Ids : Bound(inst[i], AuthBindings[m.tmpl])
        <3>1. doc.deleted => \A i \in Ids : inst[i].st = "absent" BY DEF AgentInv, DocsInv
        <3>2. (\A i \in Ids : inst[i].st = "absent") \/ AuthBindings[m.tmpl] = AuthBindings[doc.tmpl]
            BY <1>6, <3>1 DEF AuthBindingsChanged, Provisioned
        <3> QED BY <1>3, <3>2, AbsentBound
    <2>4. ASSUME NEW i \in Ids PROVE forget[i] \in Cells /\ Lands(inst[i], forget[i])
        <3> DEFINE c == inst[i]
                   keep == c.files /\ ~genChanged
                   e == [c EXCEPT !.files = keep]
        <3>1. forget[i] = e OBVIOUS
        <3>2. keep \in BOOLEAN BY Zenon
        <3>3. CellInv(c) BY <1>3
        <3> HIDE DEF keep, c, forget
        <3>4. /\ e \in Cells /\ e.st = c.st /\ e.work = c.work /\ e.secrets = c.secrets
              /\ e.host = c.host /\ e.session = c.session /\ e.saved = c.saved /\ e.tasks = c.tasks
              /\ e.doc = c.doc
            BY <3>2, <3>3 DEF CellInv, Cells
        <3> HIDE DEF e
        <3>5. CellInv(e)
            BY <3>3, <3>4 DEF CellInv, LedgerInv, SlotInv, CleanupInv, IsRunning
        <3>6. /\ \A f, there, up : Fits(c, f, there, up) => Fits(e, f, there, up)
              /\ \A up : Backed(c, up) => Backed(e, up)
              /\ \A a : Bound(c, a) => Bound(e, a)
            BY <3>4 DEF Fits, Backed, Bound, IsRunning
        <3> QED BY <3>1, <3>4, <3>5, <3>6 DEF Lands, c
    <2>5. forget \in [Ids -> Cells] BY <2>4
    <2>6. BaseOf(b, baseTasks)
        <3>1. restart => base.st \notin {"Preparing", "Building", "Stopping"} OBVIOUS
        <3>2. base \in BaseStates BY <1>2 DEF BaseOf
        <3>3. restart => baseTasks = {} BY <1>2, <3>1, <3>2, IdleBase
        <3>4. BaseOf(Base("Missing"), {}) BY BaseRecords, IdleBase
        <3> QED BY <1>2, <3>3, <3>4
    <2>7. written \in Docs /\ written.tmpl = m.tmpl BY <1>3, <2>2, WriteDoc
    <2> HIDE DEF forget, b, written, updated
    <2> QED BY <1>1, <2>1, <2>3, <2>4, <2>5, <2>6, <2>7, LoopTurnKeeps
<1> QED BY <1>1, <1>4, <1>5, <1>6

\* The first apply of an agent begins with no instance at all.
LEMMA ApplyFirstKeeps ==
    ASSUME AgentInv, NEW m \in Manifests, ApplyFirst(m)
    PROVE AgentInv'
<1> DEFINE none == [i \in Ids |-> Absent]
           d == FromManifest(m)
<1>1. /\ mode = "Starting" /\ mode' = "Running" /\ saved' = {}
      /\ Turn(d, Base("Missing"), {}, none, TRUE)
      /\ UNCHANGED <<disk, file, dir, vm, crashes>>
    BY DEF ApplyFirst, world, budgets
<1>2. d \in Docs BY ManifestsMeant, FromManifestDoc
<1>3. BaseOf(Base("Missing"), {}) BY BaseRecords, IdleBase
<1>4. /\ CellInv(Absent) /\ Absent \in Cells /\ ~IsRunning(Absent) /\ Absent.tasks = {}
      /\ \A a : Bound(Absent, a)
    BY AbsentCell, AbsentBound DEF CellInv, IsRunning
<1>5. disk = NoFile /\ \A i \in Ids : inst[i].st = "absent"
    BY <1>1 DEF AgentInv, DocsInv
<1>6. ASSUME NEW i \in Ids
      PROVE Fits(Absent, file[i], dir[i], Known(crashes, vm[i])) /\ Backed(Absent, Known(crashes, vm[i]))
    <2>1. file[i] = NoFile /\ file[i].doc = {} BY <1>5, <1>6 DEF AgentInv, WorldInv, NoFile
    <2>2. ~Known(crashes, vm[i]) BY <1>5, <1>6 DEF AgentInv, WorldInv, Backed, IsRunning
    <2> QED BY <1>4, <2>1, <2>2 DEF Fits, Backed
<1>7. Placed(none, d) BY <1>4, <1>6 DEF Placed
<1> HIDE DEF none, d
<1> QED BY <1>1, <1>2, <1>3, <1>7, TurnKeeps

\* Every other input leaves the desired template and every cell in place.
LEMMA InputKeeps ==
    ASSUME AgentInv,
           \/ \E n \in 0 .. MaxReplicas : Scale(n)
           \/ Delete \/ Wake \/ CompleteBaseTask
           \/ \E i \in Ids : Exec(i)
           \/ \E i \in Ids, lane \in Lanes : CompleteTask(i, lane)
    PROVE AgentInv'
<1>1. doc \in Docs /\ BaseInv /\ BaseOf(base, baseTasks) BY DEF AgentInv, DocsInv, BaseInv
<1>2. /\ inst \in [Ids -> Cells]
      /\ \A i \in Ids : CellInv(inst[i]) /\ Lands(inst[i], inst[i])
      /\ \A i \in Ids : Bound(inst[i], AuthBindings[doc.tmpl])
    BY AllLandHere
<1>3. ASSUME NEW n \in 0 .. MaxReplicas, Scale(n) PROVE AgentInv'
    <2>1. /\ Awaiting /\ crashes' = crashes
          /\ LoopTurn(SetReplicas(doc, n), base, baseTasks, inst, TRUE)
        BY <1>3 DEF Scale, budgets
    <2>2. SetReplicas(doc, n) \in Docs /\ SetReplicas(doc, n).tmpl = doc.tmpl BY <1>1, CommandDocs
    <2> QED BY <1>1, <1>2, <2>1, <2>2, LoopTurnKeeps
<1>4. ASSUME Delete PROVE AgentInv'
    <2>1. /\ Awaiting /\ crashes' = crashes
          /\ LoopTurn(MarkDeletionRequested(doc), base, baseTasks, inst, TRUE)
        BY <1>4 DEF Delete, budgets
    <2>2. MarkDeletionRequested(doc) \in Docs /\ MarkDeletionRequested(doc).tmpl = doc.tmpl
        BY <1>1, CommandDocs
    <2> QED BY <1>1, <1>2, <2>1, <2>2, LoopTurnKeeps
<1>5. ASSUME Wake PROVE AgentInv'
    <2>1. Awaiting /\ crashes' = crashes /\ LoopTurn(doc, base, baseTasks, inst, FALSE)
        BY <1>5 DEF Wake, budgets
    <2> QED BY <1>1, <1>2, <2>1, LoopTurnKeeps
<1>6. ASSUME CompleteBaseTask PROVE AgentInv'
    <2>1. PICK t \in baseTasks :
            LoopTurn(HandleBaseCompletion(t).doc, HandleBaseCompletion(t).base,
                     HandleBaseCompletion(t).tasks, inst, FALSE)
        BY <1>6 DEF CompleteBaseTask
    <2> DEFINE h == HandleBaseCompletion(t)
    <2>2. Awaiting /\ crashes' = crashes BY <1>6 DEF CompleteBaseTask, budgets
    <2>3. h.doc \in Docs /\ h.doc.tmpl = doc.tmpl /\ BaseOf(h.base, h.tasks)
        BY <1>1, BaseCompletionKeeps
    <2>4. LoopTurn(h.doc, h.base, h.tasks, inst, FALSE) BY <2>1
    <2> HIDE DEF h
    <2> QED BY <1>1, <1>2, <2>2, <2>3, <2>4, LoopTurnKeeps
<1>7. ASSUME NEW i \in Ids, NEW e, Lands(inst[i], e), Awaiting, crashes' = crashes,
             LoopTurn(doc, base, baseTasks, [inst EXCEPT ![i] = e], FALSE)
      PROVE AgentInv'
    <2> DEFINE cells == [inst EXCEPT ![i] = e]
    <2>1. e \in Cells BY <1>7 DEF Lands, CellInv
    <2>2. cells \in [Ids -> Cells] /\ \A j \in Ids : Lands(inst[j], cells[j]) BY <1>2, <1>7, <2>1
    <2>3. LoopTurn(doc, base, baseTasks, cells, FALSE) BY <1>7
    <2> HIDE DEF cells
    <2> QED BY <1>1, <1>2, <1>7, <2>2, <2>3, LoopTurnKeeps
<1>8. ASSUME NEW i \in Ids, Exec(i) PROVE AgentInv'
    <2>1. /\ Awaiting /\ crashes' = crashes /\ CanExec(inst[i])
          /\ LoopTurn(doc, base, baseTasks, [inst EXCEPT ![i] = StartExec(inst[i])], FALSE)
        BY <1>8 DEF Exec
    <2>2. Lands(inst[i], StartExec(inst[i])) BY <1>2, <2>1, StartExecLands
    <2> QED BY <1>7, <2>1, <2>2
<1>9. ASSUME NEW i \in Ids, NEW lane \in Lanes, CompleteTask(i, lane) PROVE AgentInv'
    <2>1. PICK t \in inst[i].tasks :
            LoopTurn(doc, base, baseTasks, [inst EXCEPT ![i] = Completed(inst[i], t, doc)], FALSE)
        BY <1>9 DEF CompleteTask
    <2>2. Awaiting /\ crashes' = crashes BY <1>9 DEF CompleteTask, budgets
    <2>3. Lands(inst[i], Completed(inst[i], t, doc)) BY <1>2, CompletedLands
    <2> QED BY <1>7, <2>1, <2>2, <2>3
<1> QED BY <1>3, <1>4, <1>5, <1>6, <1>8, <1>9

-----------------------------------------------------------------------------
(* Tasks. *)

\* A task of the base that ends leaves its result for the loop.
LEMMA FinishBaseTaskKeeps ==
    ASSUME AgentInv, FinishBaseTask PROVE AgentInv'
<1>1. PICK t \in baseTasks, res \in {"ok", "err"} :
        baseTasks' = (baseTasks \ {t}) \cup {[t EXCEPT !.res = res]}
    BY DEF FinishBaseTask
<1>2. UNCHANGED <<mode, pc, doc, saved, base, inst, disk, file, dir, vm, crashes>>
    BY DEF FinishBaseTask, world
<1> DEFINE u == [t EXCEPT !.res = res]
<1>3. BaseOf(base, baseTasks) BY DEF AgentInv, BaseInv
<1>4. t \in BaseTaskRecords BY <1>3 DEF BaseOf
<1>5. u \in BaseTaskRecords /\ u.id = t.id /\ u.kind = t.kind /\ u.gen = t.gen /\ u.key = t.key
    BY <1>4 DEF BaseTaskRecords
<1>6. baseTasks' = {u} BY <1>1, <1>3 DEF BaseOf, AtMostOne
<1> HIDE DEF u
<1>7. BaseOf(base, {u}) BY <1>3, <1>5 DEF BaseOf, AtMostOne
<1>8. BaseInv' BY <1>2, <1>6, <1>7 DEF BaseInv
<1>9. DocsInv' BY <1>2 DEF AgentInv, DocsInv
<1>10. CellsInv' BY <1>2 DEF AgentInv, CellsInv
<1>11. WorldInv' BY <1>2 DEF AgentInv, WorldInv
<1> QED BY <1>8, <1>9, <1>10, <1>11 DEF AgentInv

\* A task that ends changes the VM, the directory and its own result.
LEMMA FinishTaskKeeps ==
    ASSUME AgentInv, NEW i \in Ids, NEW lane \in Lanes, FinishTask(i, lane) PROVE AgentInv'
<1>1. PICK t, o :
        /\ t \in inst[i].tasks /\ o \in Outcomes(i, t)
        /\ inst' = [inst EXCEPT ![i].tasks = (@ \ {t}) \cup {[t EXCEPT !.res = o.res, !.pid = o.pid]}]
        /\ vm' = [vm EXCEPT ![i] = o.vm]
        /\ dir' = [dir EXCEPT ![i] = o.dir]
        /\ \/ t.kind = "removeFiles" /\ file' = [file EXCEPT ![i] = NoFile]
           \/ ~(t.kind = "removeFiles" /\ o.res = "ok") /\ UNCHANGED file
    BY DEF FinishTask
<1>2. UNCHANGED <<mode, pc, doc, saved, base, baseTasks, disk, crashes>> BY DEF FinishTask
<1>3. /\ inst \in [Ids -> Cells] /\ \A j \in Ids : CellInv(inst[j])
      /\ vm \in [Ids -> BOOLEAN] /\ dir \in [Ids -> BOOLEAN] /\ DOMAIN file = Ids /\ crashes \in Nat
    BY DEF AgentInv, DocsInv, CellsInv, WorldInv
<1>4. t \in Tasks BY <1>1, <1>3 DEF Cells
<1>5. o.vm \in BOOLEAN /\ Yields(t, Known(crashes, vm[i]), Known(crashes, o.vm), dir[i], o)
    BY <1>1, <1>3, <1>4, OutcomesYield
<1> DEFINE e == Ended(inst[i], t, o)
           g == file'[i]
<1>6. inst' = [inst EXCEPT ![i] = e] BY <1>1 DEF Ended
<1>7. /\ CellInv(e)
      /\ \A a : Bound(inst[i], a) => Bound(e, a)
      /\ Backed(inst[i], Known(crashes, vm[i])) => Backed(e, Known(crashes, o.vm))
      /\ \A f, h : /\ FileOf(f, InstanceDocs) /\ Fits(inst[i], f, dir[i], Known(crashes, vm[i]))
                   /\ h = f \/ h = NoFile
                   /\ t.kind = "removeFiles" /\ o.res = "ok" => h = NoFile
                   => Fits(e, h, o.dir, Known(crashes, o.vm))
    BY <1>1, <1>3, <1>5, EndedCell
<1>8. o.vm \in BOOLEAN /\ o.dir \in BOOLEAN BY <1>5 DEF Yields
<1>9. /\ DOMAIN file' = Ids /\ \A j \in Ids : j # i => file'[j] = file[j]
      /\ g = file[i] \/ g = NoFile
      /\ t.kind = "removeFiles" /\ o.res = "ok" => g = NoFile
    BY <1>1, <1>3
<1>10. e.st = inst[i].st /\ e \in Cells
    <2>1. inst[i] \in Cells BY <1>3
    <2> QED BY <1>7, <2>1 DEF CellInv, Ended, Cells
<1>11. mode = "Running"
    BY <1>1, <1>3, AbsentBound DEF AgentInv, DocsInv
<1>12. Fits(e, g, o.dir, Known(crashes, o.vm))
    BY <1>7, <1>9, <1>11 DEF AgentInv, WorldInv
<1> HIDE DEF e, g
<1>13. /\ inst' \in [Ids -> Cells] /\ inst'[i] = e /\ \A j \in Ids : j # i => inst'[j] = inst[j]
       /\ vm' \in [Ids -> BOOLEAN] /\ vm'[i] = o.vm /\ \A j \in Ids : j # i => vm'[j] = vm[j]
       /\ dir' \in [Ids -> BOOLEAN] /\ dir'[i] = o.dir /\ \A j \in Ids : j # i => dir'[j] = dir[j]
    BY <1>1, <1>3, <1>6, <1>8, <1>10
<1>14. DocsInv' BY <1>2, <1>10, <1>13 DEF AgentInv, DocsInv
<1>15. BaseInv' BY <1>2 DEF AgentInv, BaseInv
<1>16. CellsInv' BY <1>3, <1>7, <1>13 DEF CellsInv
<1>17. ASSUME NEW j \in Ids
       PROVE /\ FileOf(file'[j], InstanceDocs)
             /\ disk' = NoFile => file'[j] = NoFile
             /\ \A h \in file'[j].doc : /\ dir'[j]
                                        /\ \A x \in disk'.doc : AuthBindings[h.mtmpl] = AuthBindings[x.tmpl]
             /\ mode' = "Running" => Fits(inst'[j], file'[j], dir'[j], Known(crashes', vm'[j]))
             /\ Backed(inst'[j], Known(crashes', vm'[j]))
             /\ Bound(inst'[j], AuthBindings[doc'.tmpl])
    <2>1. CASE j # i BY <1>2, <1>9, <1>13, <1>17, <2>1 DEF AgentInv, WorldInv
    <2>2. CASE j = i
        <3>1. NoFile.doc = {} BY DEF NoFile
        <3>2. ASSUME NEW h \in g.doc
              PROVE /\ o.dir
                    /\ \A x \in disk.doc : AuthBindings[h.mtmpl] = AuthBindings[x.tmpl]
            <4>1. g = file[i] /\ h \in file[i].doc BY <1>9, <3>1, <3>2
            <4>2. dir[i] /\ \A x \in disk.doc : AuthBindings[h.mtmpl] = AuthBindings[x.tmpl]
                BY <4>1 DEF AgentInv, WorldInv
            <4>3. ~(t.kind = "removeFiles" /\ o.res = "ok") BY <1>9, <3>1, <3>2
            <4>4. o.dir BY <1>5, <4>2, <4>3 DEF Yields
            <4> QED BY <4>2, <4>4
        <3>3. FileOf(g, InstanceDocs) /\ (disk = NoFile => g = NoFile)
            BY <1>9 DEF AgentInv, WorldInv, FileOf
        <3>4. Backed(e, Known(crashes, o.vm)) BY <1>7 DEF AgentInv, WorldInv
        <3>5. Bound(e, AuthBindings[doc.tmpl]) BY <1>7 DEF AgentInv, WorldInv
        <3> QED BY <1>2, <1>12, <1>13, <2>2, <3>2, <3>3, <3>4, <3>5 DEF g
    <2> QED BY <2>1, <2>2
<1>18. WorldInv' BY <1>9, <1>13, <1>17 DEF WorldInv
<1> QED BY <1>14, <1>15, <1>16, <1>18 DEF AgentInv

\* A VM that dies takes nothing with it.
LEMMA VmDiesKeeps ==
    ASSUME AgentInv, NEW i \in Ids, VmDies(i) PROVE AgentInv'
<1>1. /\ vm' = [vm EXCEPT ![i] = FALSE]
      /\ UNCHANGED <<mode, pc, doc, saved, base, baseTasks, inst, disk, file, dir, crashes>>
    BY DEF VmDies, mem
<1>2. vm' \in [Ids -> BOOLEAN] /\ ~vm'[i] /\ \A j \in Ids : vm'[j] => vm[j] /\ vm'[j] = vm[j]
    BY <1>1 DEF AgentInv, WorldInv
<1>3. DocsInv' BY <1>1 DEF AgentInv, DocsInv
<1>4. BaseInv' BY <1>1 DEF AgentInv, BaseInv
<1>5. CellsInv' BY <1>1 DEF AgentInv, CellsInv
<1>6. ASSUME NEW j \in Ids, NEW f, NEW there
      PROVE /\ Fits(inst[j], f, there, Known(crashes, vm[j])) => Fits(inst[j], f, there, Known(crashes', vm'[j]))
            /\ Backed(inst[j], Known(crashes, vm[j])) => Backed(inst[j], Known(crashes', vm'[j]))
    BY <1>1, <1>2 DEF Fits, Backed, Known
<1>7. ASSUME NEW j \in Ids
      PROVE /\ FileOf(file'[j], InstanceDocs)
            /\ disk' = NoFile => file'[j] = NoFile
            /\ \A g \in file'[j].doc : /\ dir'[j]
                                       /\ \A e \in disk'.doc : AuthBindings[g.mtmpl] = AuthBindings[e.tmpl]
            /\ mode' = "Running" => Fits(inst'[j], file'[j], dir'[j], Known(crashes', vm'[j]))
            /\ Backed(inst'[j], Known(crashes', vm'[j]))
            /\ Bound(inst'[j], AuthBindings[doc'.tmpl])
    <2>1. /\ FileOf(file[j], InstanceDocs)
          /\ disk = NoFile => file[j] = NoFile
          /\ \A g \in file[j].doc : /\ dir[j]
                                    /\ \A e \in disk.doc : AuthBindings[g.mtmpl] = AuthBindings[e.tmpl]
          /\ mode = "Running" => Fits(inst[j], file[j], dir[j], Known(crashes, vm[j]))
          /\ Backed(inst[j], Known(crashes, vm[j]))
          /\ Bound(inst[j], AuthBindings[doc.tmpl])
        BY <1>7 DEF AgentInv, WorldInv
    <2>2. mode = "Running" => Fits(inst[j], file[j], dir[j], Known(crashes', vm'[j])) BY <1>6, <2>1
    <2>3. Backed(inst[j], Known(crashes', vm'[j])) BY <1>6, <2>1
    <2> QED BY <1>1, <2>1, <2>2, <2>3
<1>8. WorldInv'
    <2>1. dir' \in [Ids -> BOOLEAN] /\ DOMAIN file' = Ids BY <1>1 DEF AgentInv, WorldInv
    <2> QED BY <1>2, <1>7, <2>1 DEF WorldInv
<1> QED BY <1>3, <1>4, <1>5, <1>8 DEF AgentInv

-----------------------------------------------------------------------------
(* Commits. *)

\* A file is missing, torn, or holds one document.
LEMMA FileKinds ==
    /\ NoFile.doc = {} /\ TornFile.doc = {} /\ TornFile.torn /\ ~NoFile.torn /\ NoFile # TornFile
    /\ \A d : Holding(d).doc = {d} /\ ~Holding(d).torn /\ Holding(d) # NoFile /\ Holding(d) # TornFile
    /\ \A f, S : FileOf(f, S) /\ f.torn => f = TornFile
    /\ \A f, S : FileOf(f, S) /\ f # NoFile /\ ~f.torn => \E d \in S : f = Holding(d)
    /\ \A S : FileOf(NoFile, S) /\ FileOf(TornFile, S)
    /\ \A S : \A d \in S : FileOf(Holding(d), S)
<1>1. /\ NoFile.doc = {} /\ TornFile.doc = {} /\ TornFile.torn /\ ~NoFile.torn /\ NoFile # TornFile
    BY DEF NoFile, TornFile
<1>2. ASSUME NEW d
      PROVE Holding(d).doc = {d} /\ ~Holding(d).torn /\ Holding(d) # NoFile /\ Holding(d) # TornFile
    BY DEF Holding, NoFile, TornFile
<1>3. ASSUME NEW f, NEW S, FileOf(f, S), f.torn PROVE f = TornFile BY <1>1, <1>2, <1>3 DEF FileOf
<1>4. ASSUME NEW f, NEW S, FileOf(f, S), f # NoFile, ~f.torn PROVE \E d \in S : f = Holding(d)
    BY <1>1, <1>2, <1>4 DEF FileOf
<1>5. ASSUME NEW S PROVE FileOf(NoFile, S) /\ FileOf(TornFile, S) BY DEF FileOf
<1>6. ASSUME NEW S, NEW d \in S PROVE FileOf(Holding(d), S) BY <1>2 DEF FileOf
<1> QED BY <1>1, <1>2, <1>3, <1>4, <1>5, <1>6

\* persist_to, for the agent document: the file is the copy in memory.
LEMMA WriteAgentDocKeeps ==
    ASSUME AgentInv, WriteAgentDoc PROVE AgentInv'
<1>1. /\ mode = "Running" /\ disk' = Holding(doc) /\ saved' = {doc}
      /\ UNCHANGED <<mode, doc, base, baseTasks, inst, file, dir, vm, crashes>>
    BY DEF WriteAgentDoc, Committing, budgets
<1>2. pc' \in {"input", "commit"}
    BY DEF WriteAgentDoc, Proceed, Answer, Committing, AgentInv, DocsInv
<1>3. doc \in Docs BY DEF AgentInv, DocsInv
<1>4. disk'.doc = {doc} /\ disk' # NoFile /\ FileOf(disk', Docs) BY <1>1, <1>3, FileKinds
<1>5. DocsInv' BY <1>1, <1>2, <1>3, <1>4 DEF AgentInv, DocsInv
<1>6. BaseInv' BY <1>1 DEF AgentInv, BaseInv
<1>7. CellsInv' BY <1>1 DEF AgentInv, CellsInv
<1>8. ASSUME NEW i \in Ids, NEW g \in file[i].doc
      PROVE \A e \in disk'.doc : AuthBindings[g.mtmpl] = AuthBindings[e.tmpl]
    <2>1. file[i] # NoFile BY <1>8, FileKinds
    <2>2. Fits(inst[i], file[i], dir[i], Known(crashes, vm[i])) /\ Bound(inst[i], AuthBindings[doc.tmpl])
        BY <1>1, <1>8 DEF AgentInv, WorldInv
    <2> QED BY <1>4, <1>8, <2>1, <2>2 DEF Fits, Bound
<1>9. WorldInv' BY <1>1, <1>4, <1>8 DEF AgentInv, WorldInv
<1> QED BY <1>5, <1>6, <1>7, <1>9 DEF AgentInv

\* While an instance document is due, the agent document is on disk as it is in memory,
\* and nothing is removing the instance's directory.
LEMMA InstanceDueFacts ==
    ASSUME AgentInv, mode = "Running", NEW i \in Ids, InstanceDue(i)
    PROVE /\ disk # NoFile /\ \A e \in disk.doc : e = doc
          /\ IsRunning(inst[i])
          /\ \A t \in inst[i].tasks : t.kind # "removeFiles"
<1>1. ~doc.deleted /\ saved = {doc} /\ i \in DirtyIds(inst) BY DEF InstanceDue
<1>2. disk.torn \/ disk.doc = {doc} BY <1>1 DEF AgentInv, DocsInv
<1>3. FileOf(disk, Docs) BY DEF AgentInv, DocsInv
<1>4. IsRunning(inst[i]) /\ inst[i].saved # {inst[i].doc} BY <1>1 DEF DirtyIds, RunningIds
<1>5. CellInv(inst[i]) BY DEF AgentInv, CellsInv
<1>6. disk # NoFile BY <1>2, FileKinds
<1>7. \A e \in disk.doc : e = doc BY <1>2, <1>3, FileKinds
<1>8. \A t \in inst[i].tasks : t.kind # "removeFiles" BY <1>4, <1>5 DEF CellInv, CleanupInv
<1> QED BY <1>4, <1>6, <1>7, <1>8

\* persist_to, for an instance: a document is written only into a directory that exists.
LEMMA WriteInstanceDocKeeps ==
    ASSUME AgentInv, NEW i \in Ids, WriteInstanceDoc(i) PROVE AgentInv'
<1> DEFINE c == inst[i]
           e == [c EXCEPT !.saved = {c.doc}]
<1>1. /\ mode = "Running" /\ InstanceDue(i)
      /\ file' = [file EXCEPT ![i] = Holding(c.doc)]
      /\ dir' = [dir EXCEPT ![i] = TRUE]
      /\ inst' = [inst EXCEPT ![i] = e]
      /\ UNCHANGED <<mode, doc, saved, base, baseTasks, disk, vm, crashes>>
    BY DEF WriteInstanceDoc, Committing, budgets
<1>2. pc' \in {"input", "commit"}
    BY DEF WriteInstanceDoc, Proceed, Answer, Committing, AgentInv, DocsInv
<1>3. /\ disk # NoFile /\ \A x \in disk.doc : x = doc
      /\ IsRunning(c) /\ \A t \in c.tasks : t.kind # "removeFiles"
    BY <1>1, InstanceDueFacts
<1>4. /\ inst \in [Ids -> Cells] /\ CellInv(c) /\ dir \in [Ids -> BOOLEAN] /\ DOMAIN file = Ids
      /\ Fits(c, file[i], dir[i], Known(crashes, vm[i])) /\ Bound(c, AuthBindings[doc.tmpl])
      /\ Backed(c, Known(crashes, vm[i]))
    BY <1>1 DEF AgentInv, CellsInv, WorldInv
<1> HIDE DEF c
<1>5. /\ e \in Cells /\ e.st = c.st /\ e.work = c.work /\ e.secrets = c.secrets /\ e.host = c.host
      /\ e.session = c.session /\ e.saved = {c.doc} /\ e.tasks = c.tasks /\ e.doc = c.doc
      /\ c.doc \in InstanceDocs
    BY <1>4 DEF CellInv, Cells
<1> HIDE DEF e
<1>6. CellInv(e)
    <2>1. LedgerInv(e) /\ SlotInv(e) BY <1>4, <1>5 DEF CellInv, LedgerInv, SlotInv, IsRunning
    <2>2. CleanupInv(e) BY <1>4, <1>5 DEF CellInv, CleanupInv, AtMostOne, IsRunning
    <2> QED BY <1>5, <2>1, <2>2 DEF CellInv
<1>7. /\ inst' \in [Ids -> Cells] /\ inst'[i] = e /\ \A j \in Ids : j # i => inst'[j] = inst[j]
      /\ dir' \in [Ids -> BOOLEAN] /\ dir'[i] /\ \A j \in Ids : j # i => dir'[j] = dir[j]
      /\ DOMAIN file' = Ids /\ file'[i] = Holding(c.doc) /\ \A j \in Ids : j # i => file'[j] = file[j]
    BY <1>1, <1>4, <1>5
<1>8. DocsInv' BY <1>1, <1>2, <1>5, <1>7 DEF AgentInv, DocsInv, c
<1>9. BaseInv' BY <1>1 DEF AgentInv, BaseInv
<1>10. CellsInv' BY <1>6, <1>7 DEF AgentInv, CellsInv
<1>11. ASSUME NEW j \in Ids
       PROVE /\ FileOf(file'[j], InstanceDocs)
             /\ disk' = NoFile => file'[j] = NoFile
             /\ \A h \in file'[j].doc : /\ dir'[j]
                                        /\ \A x \in disk'.doc : AuthBindings[h.mtmpl] = AuthBindings[x.tmpl]
             /\ mode' = "Running" => Fits(inst'[j], file'[j], dir'[j], Known(crashes', vm'[j]))
             /\ Backed(inst'[j], Known(crashes', vm'[j]))
             /\ Bound(inst'[j], AuthBindings[doc'.tmpl])
    <2>1. CASE j # i BY <1>1, <1>7, <1>11, <2>1 DEF AgentInv, WorldInv
    <2>2. CASE j = i
        <3>1. FileOf(Holding(c.doc), InstanceDocs) /\ Holding(c.doc).doc = {c.doc} BY <1>5, FileKinds
        <3>2. \A x \in disk.doc : AuthBindings[c.doc.mtmpl] = AuthBindings[x.tmpl]
            BY <1>3, <1>4 DEF Fits, Bound
        <3>3. Fits(e, Holding(c.doc), dir'[i], Known(crashes, vm[i]))
            BY <1>3, <1>4, <1>5, <1>7, <3>1 DEF Fits, IsRunning
        <3>4. Backed(e, Known(crashes, vm[i])) BY <1>4, <1>5 DEF Backed, IsRunning
        <3>5. Bound(e, AuthBindings[doc.tmpl]) BY <1>4, <1>5 DEF Bound, IsRunning
        <3>6. /\ FileOf(file'[i], InstanceDocs) /\ disk' # NoFile
              /\ Fits(inst'[i], file'[i], dir'[i], Known(crashes', vm'[i]))
              /\ Backed(inst'[i], Known(crashes', vm'[i]))
              /\ Bound(inst'[i], AuthBindings[doc'.tmpl])
            BY <1>1, <1>3, <1>7, <3>1, <3>3, <3>4, <3>5
        <3>7. \A h \in file'[i].doc : /\ dir'[i]
                                      /\ \A x \in disk'.doc : AuthBindings[h.mtmpl] = AuthBindings[x.tmpl]
            BY <1>1, <1>7, <3>1, <3>2
        <3> QED BY <2>2, <3>6, <3>7
    <2> QED BY <2>1, <2>2
<1>12. WorldInv'
    <2>1. vm' \in [Ids -> BOOLEAN] BY <1>1 DEF AgentInv, WorldInv
    <2> QED BY <1>7, <1>11, <2>1 DEF WorldInv
<1> QED BY <1>8, <1>9, <1>10, <1>12 DEF AgentInv

\* A write that is cut short leaves a torn file of a document that was due.
LEMMA CutShortFacts ==
    ASSUME AgentInv, mode = "Running", WriteCutShort
    PROVE /\ disk' = disk \/ disk' = TornFile
          /\ DOMAIN file' = Ids
          /\ \A j \in Ids : file'[j] = file[j] \/
               /\ file'[j] = TornFile /\ disk' # NoFile /\ IsRunning(inst[j])
               /\ \A t \in inst[j].tasks : t.kind # "removeFiles"
<1>1. DOMAIN file = Ids BY DEF AgentInv, WorldInv
<1>2. CASE UNCHANGED <<disk, file>> BY <1>1, <1>2
<1>3. CASE disk' = TornFile /\ UNCHANGED file BY <1>1, <1>3
<1>4. ASSUME NEW i \in Ids, InstanceDue(i), file' = [file EXCEPT ![i] = TornFile], UNCHANGED disk
      PROVE /\ DOMAIN file' = Ids
            /\ \A j \in Ids : file'[j] = file[j] \/
                 /\ file'[j] = TornFile /\ disk' # NoFile /\ IsRunning(inst[j])
                 /\ \A t \in inst[j].tasks : t.kind # "removeFiles"
    <2>1. /\ disk # NoFile /\ IsRunning(inst[i]) /\ \A t \in inst[i].tasks : t.kind # "removeFiles"
        BY <1>4, InstanceDueFacts
    <2>2. DOMAIN file' = Ids /\ file'[i] = TornFile /\ \A j \in Ids : j # i => file'[j] = file[j]
        BY <1>1, <1>4
    <2> QED BY <1>4, <2>1, <2>2
<1> QED BY <1>2, <1>3, <1>4 DEF WriteCutShort

\* The files after a write that is cut short, whatever becomes of the loop.
LEMMA CutShortWorld ==
    ASSUME AgentInv, mode = "Running", WriteCutShort, NEW j \in Ids
    PROVE /\ FileOf(disk', Docs) /\ FileOf(file'[j], InstanceDocs)
          /\ disk' = NoFile => file'[j] = NoFile
          /\ \A g \in file'[j].doc : /\ dir[j]
                                     /\ \A e \in disk'.doc : AuthBindings[g.mtmpl] = AuthBindings[e.tmpl]
          /\ Fits(inst[j], file'[j], dir[j], Known(crashes, vm[j]))
<1>1. /\ disk' = disk \/ disk' = TornFile
      /\ file'[j] = file[j] \/
           /\ file'[j] = TornFile /\ disk' # NoFile /\ IsRunning(inst[j])
           /\ \A t \in inst[j].tasks : t.kind # "removeFiles"
    BY CutShortFacts
<1>2. /\ FileOf(disk, Docs) /\ FileOf(file[j], InstanceDocs)
      /\ disk = NoFile => file[j] = NoFile
      /\ \A g \in file[j].doc : /\ dir[j]
                                /\ \A e \in disk.doc : AuthBindings[g.mtmpl] = AuthBindings[e.tmpl]
      /\ Fits(inst[j], file[j], dir[j], Known(crashes, vm[j]))
    BY DEF AgentInv, DocsInv, WorldInv
<1>3. FileOf(disk', Docs) BY <1>1, <1>2, FileKinds
<1>4. FileOf(file'[j], InstanceDocs) /\ (disk' = NoFile => file'[j] = NoFile)
    BY <1>1, <1>2, FileKinds
<1>5. \A g \in file'[j].doc : /\ dir[j]
                              /\ \A e \in disk'.doc : AuthBindings[g.mtmpl] = AuthBindings[e.tmpl]
    BY <1>1, <1>2, FileKinds
<1>6. Fits(inst[j], file'[j], dir[j], Known(crashes, vm[j]))
    <2>1. CASE file'[j] = file[j] BY <1>2, <2>1
    <2>2. CASE file'[j] # file[j] BY <1>1, <1>2, <2>2, FileKinds DEF Fits
    <2> QED BY <2>1, <2>2
<1> QED BY <1>3, <1>4, <1>5, <1>6

\* A write that fails changes no file, and the copy in memory stays dirty.
LEMMA WriteFailsKeeps ==
    ASSUME AgentInv, WriteFails PROVE AgentInv'
<1>1. /\ mode = "Running" /\ WriteCutShort /\ pc' = "input"
      /\ UNCHANGED <<mode, doc, saved, base, baseTasks, inst, dir, vm, crashes>>
    BY DEF WriteFails, Committing, mem
<1>2. \A j \in Ids :
        /\ FileOf(disk', Docs) /\ FileOf(file'[j], InstanceDocs)
        /\ disk' = NoFile => file'[j] = NoFile
        /\ \A g \in file'[j].doc : /\ dir[j]
                                   /\ \A e \in disk'.doc : AuthBindings[g.mtmpl] = AuthBindings[e.tmpl]
        /\ Fits(inst[j], file'[j], dir[j], Known(crashes, vm[j]))
    BY <1>1, CutShortWorld
<1>3. disk' = disk \/ disk' = TornFile BY <1>1, CutShortFacts
<1>4. DOMAIN file' = Ids BY <1>1, CutShortFacts
<1>5. FileOf(disk', Docs) BY <1>3, FileKinds DEF AgentInv, DocsInv
<1>6. DocsInv' BY <1>1, <1>3, <1>5, FileKinds DEF AgentInv, DocsInv
<1>7. BaseInv' BY <1>1 DEF AgentInv, BaseInv
<1>8. CellsInv' BY <1>1 DEF AgentInv, CellsInv
<1>9. WorldInv' BY <1>1, <1>2, <1>4 DEF AgentInv, WorldInv
<1> QED BY <1>6, <1>7, <1>8, <1>9 DEF AgentInv

\* The directory of a deleted agent is removed when nothing in it is needed.
LEMMA RemoveAgentDirKeeps ==
    ASSUME AgentInv, RemoveAgentDir PROVE AgentInv'
<1>1. /\ mode = "Running" /\ doc.deleted /\ saved' = {doc} /\ pc' = "input"
      /\ UNCHANGED <<mode, doc, base, baseTasks, inst, vm, crashes>>
      /\ \/ disk' = NoFile /\ file' = [i \in Ids |-> NoFile] /\ dir' = [i \in Ids |-> FALSE]
         \/ UNCHANGED <<disk, file, dir>>
    BY DEF RemoveAgentDir, Committing, budgets
<1>2. \A i \in Ids : inst[i].st = "absent" BY <1>1 DEF AgentInv, DocsInv
<1>3. FileOf(disk', Docs) BY <1>1, FileKinds DEF AgentInv, DocsInv
<1>4. DocsInv' BY <1>1, <1>3 DEF AgentInv, DocsInv
<1>5. BaseInv' BY <1>1 DEF AgentInv, BaseInv
<1>6. CellsInv' BY <1>1 DEF AgentInv, CellsInv
<1>7. WorldInv'
    <2>1. CASE UNCHANGED <<disk, file, dir>> BY <1>1, <2>1 DEF AgentInv, WorldInv
    <2>2. CASE disk' = NoFile /\ file' = [i \in Ids |-> NoFile] /\ dir' = [i \in Ids |-> FALSE]
        <3>1. dir' \in [Ids -> BOOLEAN] /\ DOMAIN file' = Ids BY <2>2
        <3>2. ASSUME NEW i \in Ids PROVE Fits(inst[i], file'[i], dir'[i], Known(crashes, vm[i]))
            <4>1. file'[i] = NoFile /\ file'[i].doc = {} BY <2>2, FileKinds
            <4>2. inst[i].tasks = {} BY <1>2, AbsentBound DEF AgentInv, CellsInv
            <4> QED BY <1>2, <4>1, <4>2 DEF Fits, IsRunning
        <3>3. \A i \in Ids : /\ FileOf(file'[i], InstanceDocs) /\ file'[i] = NoFile
                             /\ file'[i].doc = {}
            BY <2>2, FileKinds
        <3> QED BY <1>1, <3>1, <3>2, <3>3 DEF AgentInv, WorldInv
    <2> QED BY <1>1, <2>1, <2>2
<1> QED BY <1>4, <1>5, <1>6, <1>7 DEF AgentInv

-----------------------------------------------------------------------------
(* Crashes and restarts. *)

\* A crash loses the memory and may tear the file that is being written.
LEMMA CrashKeeps ==
    ASSUME AgentInv, Crash PROVE AgentInv'
<1>1. /\ mode' = "Down" /\ pc' = "input" /\ crashes' = crashes + 1
      /\ doc' = NoAgentDoc /\ saved' = {} /\ base' = Base("Missing") /\ baseTasks' = {}
      /\ inst' = [i \in Ids |-> Absent]
      /\ UNCHANGED <<dir, vm>>
      /\ (mode = "Running" /\ WriteCutShort) \/ UNCHANGED <<disk, file>>
    BY DEF Crash, Committing
<1>2. crashes' \in Nat /\ crashes' > 0 BY <1>1 DEF AgentInv, DocsInv
<1>3. NoAgentDoc \in Docs /\ ~NoAgentDoc.deleted BY NoAgentDocs
<1>4. Absent \in Cells /\ CellInv(Absent) /\ Absent.st = "absent" /\ \A a : Bound(Absent, a)
    BY AbsentCell, AbsentBound DEF CellInv
<1>5. DOMAIN file' = Ids BY <1>1, CutShortFacts DEF AgentInv, WorldInv
<1>6. FileOf(disk', Docs)
    <2>1. FileOf(disk, Docs) BY DEF AgentInv, DocsInv
    <2>2. disk' = disk \/ disk' = TornFile BY <1>1, CutShortFacts
    <2> QED BY <2>1, <2>2, FileKinds
<1>7. ASSUME NEW j \in Ids
      PROVE /\ FileOf(file'[j], InstanceDocs)
            /\ disk' = NoFile => file'[j] = NoFile
            /\ \A g \in file'[j].doc : /\ dir[j]
                                       /\ \A e \in disk'.doc : AuthBindings[g.mtmpl] = AuthBindings[e.tmpl]
    <2>1. CASE mode = "Running" /\ WriteCutShort BY <1>7, <2>1, CutShortWorld
    <2>2. CASE UNCHANGED <<disk, file>> BY <1>7, <2>2 DEF AgentInv, WorldInv
    <2> QED BY <1>1, <2>1, <2>2
<1>8. inst' \in [Ids -> Cells] /\ \A i \in Ids : inst'[i] = Absent BY <1>1, <1>4
<1>9. DocsInv' BY <1>1, <1>2, <1>3, <1>4, <1>6, <1>8 DEF DocsInv
<1>10. BaseInv' BY <1>1, BaseRecords, IdleBase DEF BaseInv
<1>11. CellsInv' BY <1>4, <1>8 DEF CellsInv
<1>12. WorldInv'
    <2>1. dir' \in [Ids -> BOOLEAN] /\ vm' \in [Ids -> BOOLEAN] BY <1>1 DEF AgentInv, WorldInv
    <2>2. mode' # "Running" /\ crashes' # 0 BY <1>1, <1>2
    <2>3. \A i \in Ids : Bound(inst'[i], AuthBindings[doc'.tmpl]) BY <1>4, <1>8
    <2>4. \A i \in Ids : Backed(inst'[i], Known(crashes', vm'[i])) BY <2>2 DEF Backed, Known
    <2> QED BY <1>1, <1>5, <1>7, <2>1, <2>2, <2>3, <2>4 DEF WorldInv
<1> QED BY <1>9, <1>10, <1>11, <1>12 DEF AgentInv

\* An instance as its file describes it, without work.
LEMMA LoadedCell ==
    ASSUME NEW x \in InstanceDocs
    PROVE LET g == LoadedInstanceDoc(x)
              c == RunningCell(g, {g})
          IN  /\ CellInv(c) /\ IsRunning(c) /\ c.tasks = {}
              /\ c.doc.mtmpl = x.mtmpl /\ c.doc.phase = x.phase
<1> DEFINE g == LoadedInstanceDoc(x)
           c == RunningCell(g, {g})
<1>1. /\ g \in InstanceDocs /\ g.mtmpl = x.mtmpl /\ g.phase = x.phase /\ g.busy = FALSE /\ g.sessions = 0
    BY DEF LoadedInstanceDoc, InstanceDocs
<1> HIDE DEF g
<1>2. /\ c \in Cells /\ c.st = "running" /\ c.work = {} /\ c.secrets = {} /\ c.host = {}
      /\ c.session = {} /\ c.tasks = {} /\ c.saved = {g} /\ c.doc = g
    BY <1>1 DEF RunningCell, Absent, Cells
<1> HIDE DEF c
<1>3. LedgerInv(c) BY <1>2 DEF LedgerInv, Ledger, AtMostOne
<1>4. SlotInv(c) BY <1>2 DEF SlotInv, IsRunning
<1>5. CleanupInv(c) BY <1>1, <1>2 DEF CleanupInv, AtMostOne, IsRunning
<1> QED BY <1>1, <1>2, <1>3, <1>4, <1>5 DEF CellInv, IsRunning, c, g

\* Documents that can be read give cells that own nothing and fit what is left outside.
LEMMA LoadKeeps ==
    ASSUME AgentInv, mode = "Down", ~LoadRefused, disk # NoFile, LoadDocuments,
           UNCHANGED <<disk, file, dir, vm, crashes>>
    PROVE AgentInv'
<1> DEFINE d == CHOOSE x \in disk.doc : TRUE
           loaded(i) == LoadedInstanceDoc(CHOOSE x \in file[i].doc : TRUE)
           b == IF d.baseReady = None THEN Base("Missing") ELSE BaseReady(d.baseReady)
           cells == [i \in Ids |-> IF file[i].doc = {} THEN Absent ELSE RunningCell(loaded(i), {loaded(i)})]
<1>1. mode' = "Running" /\ saved' = {d} /\ Turn(d, b, {}, cells, FALSE)
    BY DEF LoadDocuments
<1>2. d \in Docs /\ disk = Holding(d) /\ disk.doc = {d}
    <2>1. FileOf(disk, Docs) /\ ~disk.torn BY DEF AgentInv, DocsInv, LoadRefused
    <2>2. PICK x \in Docs : disk = Holding(x) BY <2>1, FileKinds
    <2>3. disk.doc = {x} BY <2>2, FileKinds
    <2>4. d = x BY <2>3
    <2> QED BY <2>2, <2>3, <2>4
<1>3. BaseOf(b, {})
    <2>1. d.baseReady \in Keys BY <1>2 DEF Docs, AgentDocs
    <2> HIDE DEF d
    <2>2. /\ Base("Missing") \in BaseStates /\ Base("Missing").st = "Missing"
          /\ BaseReady(d.baseReady) \in BaseStates /\ BaseReady(d.baseReady).st = "Ready"
        BY <2>1, BaseRecords
    <2> QED BY <2>2, IdleBase
<1>4. crashes # 0 BY DEF AgentInv, DocsInv
<1>5. ASSUME NEW i \in Ids
      PROVE /\ CellInv(cells[i]) /\ Fits(cells[i], file[i], dir[i], Known(crashes, vm[i]))
            /\ Bound(cells[i], AuthBindings[d.tmpl])
    <2>1. FileOf(file[i], InstanceDocs) /\ ~file[i].torn
        BY <1>2, <1>5 DEF AgentInv, WorldInv, LoadRefused
    <2>2. CASE file[i] = NoFile
        <3>1. file[i].doc = {} /\ cells[i] = Absent BY <2>2, FileKinds
        <3>2. CellInv(Absent) /\ ~IsRunning(Absent) /\ Absent.tasks = {} /\ \A a : Bound(Absent, a)
            BY AbsentCell, AbsentBound DEF IsRunning
        <3>3. Fits(Absent, file[i], dir[i], Known(crashes, vm[i])) BY <2>2, <3>1, <3>2 DEF Fits
        <3> QED BY <3>1, <3>2, <3>3
    <2>3. CASE file[i] # NoFile
        <3>1. PICK x \in InstanceDocs : file[i] = Holding(x) BY <2>1, <2>3, FileKinds
        <3>2. file[i].doc = {x} BY <3>1, FileKinds
        <3> DEFINE g == LoadedInstanceDoc(x)
                   c == RunningCell(g, {g})
        <3>3. cells[i] = c BY <3>2
        <3>4. /\ CellInv(c) /\ IsRunning(c) /\ c.tasks = {}
              /\ c.doc.mtmpl = x.mtmpl /\ c.doc.phase = x.phase
            BY LoadedCell
        <3> HIDE DEF c
        <3>5. /\ dir[i]
              /\ AuthBindings[x.mtmpl] = AuthBindings[d.tmpl]
            <4>1. x \in file[i].doc BY <3>2
            <4>2. d \in disk.doc BY <1>2
            <4> HIDE DEF d
            <4> QED BY <1>5, <4>1, <4>2 DEF AgentInv, WorldInv
        <3> HIDE DEF d
        <3>6. Fits(c, file[i], dir[i], Known(crashes, vm[i])) BY <1>4, <3>2, <3>4, <3>5 DEF Fits, Known
        <3>7. Bound(c, AuthBindings[d.tmpl]) BY <3>4, <3>5 DEF Bound
        <3> QED BY <3>3, <3>4, <3>6, <3>7
    <2> QED BY <2>2, <2>3
<1>6. Placed(cells, d)
    <2>1. \A i \in Ids : cells[i] \in Cells BY <1>5 DEF CellInv
    <2>2. cells \in [Ids -> Cells] BY <2>1
    <2>3. \A i \in Ids : Backed(cells[i], Known(crashes, vm[i])) BY <1>4 DEF Backed, Known
    <2> HIDE DEF cells, d
    <2> QED BY <1>5, <2>2, <2>3 DEF Placed
<1> HIDE DEF cells, d, b
<1> QED BY <1>1, <1>2, <1>3, <1>6, TurnKeeps

\* A restart loads the documents, refuses them, or finds no agent.
LEMMA RestartKeeps ==
    ASSUME AgentInv, Restart PROVE AgentInv'
<1>1. mode = "Down" /\ UNCHANGED <<disk, file, dir, vm, crashes>> BY DEF Restart, world, budgets
<1>2. CASE ~LoadRefused /\ disk # NoFile /\ LoadDocuments BY <1>1, <1>2, LoadKeeps
<1>3. ASSUME mode' = "LoadFailed" \/ (disk = NoFile /\ mode' = "Starting"), UNCHANGED <<pc, mem>>
      PROVE AgentInv'
    <2>1. UNCHANGED <<pc, doc, saved, base, baseTasks, inst>> BY <1>3 DEF mem
    <2>2. DocsInv' BY <1>1, <1>3, <2>1 DEF AgentInv, DocsInv
    <2>3. BaseInv' BY <2>1 DEF AgentInv, BaseInv
    <2>4. CellsInv' BY <2>1 DEF AgentInv, CellsInv
    <2>5. mode' # "Running" BY <1>3
    <2>6. WorldInv' BY <1>1, <2>1, <2>5 DEF AgentInv, WorldInv
    <2> QED BY <2>2, <2>3, <2>4, <2>6 DEF AgentInv
<1> QED BY <1>2, <1>3 DEF Restart

-----------------------------------------------------------------------------

\* The invariant holds when the loop is spawned.
LEMMA AgentInit == Init => AgentInv
<1> SUFFICES ASSUME Init PROVE AgentInv OBVIOUS
<1>1. /\ mode = "Starting" /\ pc = "input" /\ doc = NoAgentDoc /\ saved = {}
      /\ base = Base("Missing") /\ baseTasks = {} /\ inst = [i \in Ids |-> Absent]
      /\ disk = NoFile /\ file = [i \in Ids |-> NoFile] /\ crashes = 0
      /\ dir = [i \in Ids |-> FALSE] /\ vm = [i \in Ids |-> FALSE]
    BY DEF Init
<1>2. NoAgentDoc \in Docs /\ ~NoAgentDoc.deleted BY NoAgentDocs
<1>3. /\ Absent \in Cells /\ CellInv(Absent) /\ Absent.st = "absent" /\ \A a : Bound(Absent, a)
    BY AbsentCell, AbsentBound DEF CellInv
<1>4. inst \in [Ids -> Cells] /\ \A i \in Ids : inst[i] = Absent BY <1>1, <1>3
<1>5. FileOf(NoFile, Docs) /\ FileOf(NoFile, InstanceDocs) /\ NoFile.doc = {} BY FileKinds
<1>6. DocsInv BY <1>1, <1>2, <1>3, <1>4, <1>5 DEF DocsInv
<1>7. BaseInv BY <1>1, BaseRecords, IdleBase DEF BaseInv
<1>8. CellsInv BY <1>3, <1>4 DEF CellsInv
<1>9. WorldInv
    <2>1. dir \in [Ids -> BOOLEAN] /\ vm \in [Ids -> BOOLEAN] /\ DOMAIN file = Ids BY <1>1
    <2>2. \A i \in Ids : file[i] = NoFile /\ ~vm[i] BY <1>1
    <2>3. \A i \in Ids : Backed(inst[i], Known(crashes, vm[i])) BY <2>2 DEF Backed, Known
    <2>4. \A i \in Ids : Bound(inst[i], AuthBindings[doc.tmpl]) BY <1>3, <1>4
    <2>5. mode # "Running" BY <1>1
    <2> QED BY <1>5, <2>1, <2>2, <2>3, <2>4, <2>5 DEF WorldInv
<1> QED BY <1>6, <1>7, <1>8, <1>9 DEF AgentInv

\* Every step of the controller and of the world around it keeps the invariant.
LEMMA AgentNext == AgentInv /\ [Next]_vars => AgentInv'
<1> SUFFICES ASSUME AgentInv, [Next]_vars PROVE AgentInv' OBVIOUS
<1>1. CASE Command
    <2>1. ASSUME NEW m \in Manifests, ApplyFirst(m) PROVE AgentInv' BY <2>1, ApplyFirstKeeps
    <2>2. ASSUME NEW m \in Manifests, NEW moved \in BOOLEAN, Apply(m, moved) PROVE AgentInv'
        BY <2>2, ApplyKeeps
    <2>3. CASE \/ \E n \in 0 .. MaxReplicas : Scale(n)
               \/ Delete
               \/ \E i \in Ids : Exec(i)
        BY <2>3, InputKeeps
    <2> QED BY <1>1, <2>1, <2>2, <2>3 DEF Command
<1>2. CASE Wake BY <1>2, InputKeeps
<1>3. CASE Completion BY <1>3, InputKeeps DEF Completion
<1>4. CASE TaskStep BY <1>4, FinishBaseTaskKeeps, FinishTaskKeeps, VmDiesKeeps DEF TaskStep
<1>5. CASE CommitStep
    BY <1>5, WriteAgentDocKeeps, WriteInstanceDocKeeps, WriteFailsKeeps, RemoveAgentDirKeeps DEF CommitStep
<1>6. CASE Crash BY <1>6, CrashKeeps
<1>7. CASE Restart BY <1>7, RestartKeeps
<1>8. CASE UNCHANGED vars
    <2>1. UNCHANGED <<mode, pc, doc, saved, base, baseTasks, inst, disk, file, dir, vm, crashes>>
        BY <1>8 DEF vars, mem, world, budgets
    <2>2. DocsInv' BY <2>1 DEF AgentInv, DocsInv
    <2>3. BaseInv' BY <2>1 DEF AgentInv, BaseInv
    <2>4. CellsInv' BY <2>1 DEF AgentInv, CellsInv
    <2>5. WorldInv' BY <2>1 DEF AgentInv, WorldInv
    <2> QED BY <2>2, <2>3, <2>4, <2>5 DEF AgentInv
<1> QED BY <1>1, <1>2, <1>3, <1>4, <1>5, <1>6, <1>7, <1>8 DEF Next

\* The documents, the base, the cells and the world outside stay consistent, for any
\* number of instances, generations, failures, crashes and sessions.  What is said of
\* machines is said until the first crash.
THEOREM ControllerInvariant == Spec => []AgentInv
<1>1. Init => AgentInv BY AgentInit
<1>2. AgentInv /\ [Next]_vars => AgentInv' BY AgentNext
<1> QED BY <1>1, <1>2, PTL DEF Spec

\* The invariant contains the types of all variables.
LEMMA TypesFollow == AgentInv => TypeOK
<1> SUFFICES ASSUME AgentInv PROVE TypeOK OBVIOUS
<1>1. /\ mode \in {"Down", "Starting", "Running", "LoadFailed"} /\ pc \in {"input", "commit"}
      /\ doc \in AgentDocs /\ base \in BaseStates
    BY DEF AgentInv, DocsInv, Docs, BaseInv, BaseOf
<1>2. \A d \in saved \cup disk.doc : d \in AgentDocs
    <2>1. saved \subseteq Docs /\ FileOf(disk, Docs) BY DEF AgentInv, DocsInv
    <2>2. disk.doc \subseteq Docs BY <2>1, FileKinds DEF FileOf
    <2> QED BY <2>1, <2>2 DEF Docs
<1>3. ASSUME NEW i \in Ids
      PROVE /\ inst[i].st \in {"absent", "starting", "running"}
            /\ \A d \in {inst[i].doc} \cup inst[i].saved \cup file[i].doc : d \in InstanceDocs
            /\ \A t \in inst[i].tasks : t \in Tasks
            /\ Cardinality(inst[i].work) <= 1
    <2>1. inst[i] \in Cells /\ LedgerInv(inst[i]) /\ FileOf(file[i], InstanceDocs)
        BY <1>3 DEF AgentInv, CellsInv, CellInv, WorldInv
    <2>2. file[i].doc \subseteq InstanceDocs BY <2>1, FileKinds DEF FileOf
    <2>3. Cardinality(inst[i].work) \in {0, 1} BY <2>1, AtMostOneCardinality DEF LedgerInv, Ledger
    <2>4. Cardinality(inst[i].work) <= 1 BY <2>3
    <2> QED BY <2>1, <2>2, <2>4 DEF Cells
<1> QED BY <1>1, <1>2, <1>3 DEF TypeOK

\* Every variable of the controller keeps its type, and no instance has two transitions
\* at a time.
THEOREM ControllerTypes == Spec => []TypeOK
BY ControllerInvariant, TypesFollow, PTL

\* No completion of a task is dropped and no slot waits for a task that does not exist:
\* the match of work id, kind and generation in the completion handlers never fails.
THEOREM EveryTaskIsOwned == Spec => []OwnedWork
<1>1. ASSUME AgentInv PROVE OwnedWork
    <2>1. ASSUME NEW i \in Ids
          PROVE /\ \A t \in inst[i].tasks : Owners(inst[i], t) # {}
                /\ \A t, u \in inst[i].tasks : t.id = u.id => t = u
                /\ {w.id : w \in inst[i].work} \cup inst[i].secrets \cup inst[i].host \cup inst[i].session
                     = {t.id : t \in inst[i].tasks}
        <3> DEFINE c == inst[i]
        <3>1. Ledger(c.work, c.secrets, c.host, c.session, c.tasks)
            BY <1>1, <2>1 DEF AgentInv, CellsInv, CellInv, LedgerInv
        <3> HIDE DEF c
        <3>2. \A t, u \in c.tasks : t.id = u.id => t = u BY <3>1 DEF Ledger
        <3>3. ASSUME NEW t \in c.tasks PROVE Owners(c, t) # {}
            <4>1. /\ Lane(t) = "work" => \E w \in c.work : Serves(t, w)
                  /\ Lane(t) = "secrets" => t.id \in c.secrets
                  /\ Lane(t) = "host" => t.id \in c.host
                  /\ Lane(t) = "session" => t.id \in c.session
                BY <3>1 DEF Ledger
            <4>2. CASE Lane(t) # "work" BY <4>1, <4>2 DEF Lane, Owners
            <4>3. CASE Lane(t) = "work"
                <5>1. PICK w \in c.work : Serves(t, w) BY <4>1, <4>3
                <5>2. Owners(c, t) = {v.id : v \in {v \in c.work : Serves(t, v)}}
                    BY <4>3 DEF Owners, Lane, Serves
                <5> QED BY <5>1, <5>2
            <4> QED BY <4>2, <4>3
        <3>4. {w.id : w \in c.work} \cup c.secrets \cup c.host \cup c.session = {t.id : t \in c.tasks}
            <4>1. ASSUME NEW t \in c.tasks
                  PROVE t.id \in {w.id : w \in c.work} \cup c.secrets \cup c.host \cup c.session
                <5>1. Lane(t) \in {"work", "secrets", "host", "session"} BY DEF Lane
                <5> QED BY <3>1, <5>1 DEF Ledger, Serves
            <4>2. ASSUME NEW w \in c.work PROVE w.id \in {t.id : t \in c.tasks}
                BY <3>1 DEF Ledger, Serves
            <4>3. ASSUME NEW k \in c.secrets \cup c.host \cup c.session PROVE k \in {t.id : t \in c.tasks}
                BY <3>1 DEF Ledger
            <4> QED BY <4>1, <4>2, <4>3
        <3> QED BY <3>2, <3>3, <3>4 DEF c
    <2>2. BaseOf(base, baseTasks) BY <1>1 DEF AgentInv, BaseInv
    <2>3. ASSUME NEW t \in baseTasks
          PROVE OwnsBase(t, {[prepare |-> "Preparing", build |-> "Building", stop |-> "Stopping"][t.kind]})
        <3>1. /\ t.kind \in {"prepare", "build", "stop"} /\ base.id = t.id
              /\ t.kind = "prepare" => base.st = "Preparing"
              /\ t.kind = "build" => base.st = "Building"
              /\ t.kind = "stop" => base.st = "Stopping"
            BY <2>2 DEF BaseOf, BaseTaskRecords
        <3> QED BY <3>1 DEF OwnsBase
    <2>4. Cardinality(baseTasks) = IF base.st \in {"Preparing", "Building", "Stopping"} THEN 1 ELSE 0
        <3>1. CASE base.st \in {"Preparing", "Building", "Stopping"}
            <4>1. PICK t \in baseTasks : TRUE BY <2>2, <3>1 DEF BaseOf
            <4>2. baseTasks = {t} BY <2>2 DEF BaseOf, AtMostOne
            <4> QED BY <3>1, <4>2, FS_Singleton
        <3>2. CASE base.st \notin {"Preparing", "Building", "Stopping"}
            <4>1. base \in BaseStates BY <2>2 DEF BaseOf
            <4>2. baseTasks = {} BY <2>2, <3>2, <4>1, IdleBase
            <4> QED BY <3>2, <4>2, FS_EmptySet
        <3> QED BY <3>1, <3>2
    <2> QED BY <2>1, <2>3, <2>4 DEF OwnedWork
<1> QED BY <1>1, ControllerInvariant, PTL

\* An open session keeps its instance's directory, and no cleanup runs beside it.
THEOREM SessionsHold == Spec => []SessionHoldsInstance
<1>1. ASSUME AgentInv PROVE SessionHoldsInstance
    <2>1. ASSUME NEW i \in Ids, inst[i].session # {}
          PROVE dir[i] /\ \A t \in inst[i].tasks : t.kind \notin {"stopForDelete", "removeFiles"}
        <3>1. CellInv(inst[i]) BY <1>1, <2>1 DEF AgentInv, CellsInv
        <3>2. IsRunning(inst[i]) BY <2>1, <3>1 DEF CellInv, SlotInv
        <3>3. inst[i].doc.phase # "Deleted" BY <2>1, <3>1, <3>2 DEF CellInv, CleanupInv
        <3>4. mode = "Running" BY <1>1, <2>1, <3>2 DEF AgentInv, DocsInv, IsRunning
        <3>5. dir[i] BY <1>1, <2>1, <3>2, <3>3, <3>4 DEF AgentInv, WorldInv, Fits
        <3>6. ASSUME NEW t \in inst[i].tasks, t.kind \in {"stopForDelete", "removeFiles"} PROVE FALSE
            <4>1. Lane(t) = "work" BY <3>6 DEF Lane
            <4>2. PICK w \in inst[i].work : Serves(t, w) /\ w.kind \in WorkKinds
                BY <3>1, <4>1, SlotOfTask
            <4>3. w.kind = "Deleting" BY <3>6, <4>2 DEF Serves, TasksFor, WorkKinds
            <4> QED BY <2>1, <3>1, <4>2, <4>3 DEF CellInv, SlotInv
        <3> QED BY <3>5, <3>6
    <2> QED BY <2>1 DEF SessionHoldsInstance
<1> QED BY <1>1, ControllerInvariant, PTL

\* A directory is removed behind a Deleted document on disk and, unless a crash may have
\* lost its pid, a VM that is off, and no file on disk is of an instance the loop has
\* forgotten.
THEOREM RemovalIsFinal == Spec => []RemovedForGood
<1>1. ASSUME AgentInv PROVE RemovedForGood
    <2>1. ASSUME NEW i \in Ids, NEW t \in inst[i].tasks, t.kind = "removeFiles"
          PROVE ~Known(crashes, vm[i]) /\ inst[i].doc.phase = "Deleted" /\ DirtyIds(inst) \cap {i} = {}
        <3>1. CellInv(inst[i]) BY <1>1, <2>1 DEF AgentInv, CellsInv
        <3>2. inst[i].doc.phase = "Deleted" /\ inst[i].saved = {inst[i].doc}
            BY <2>1, <3>1 DEF CellInv, CleanupInv
        <3>3. IsRunning(inst[i]) BY <2>1, <3>1, SlotOfTask
        <3>4. mode = "Running" BY <1>1, <2>1, <3>3 DEF AgentInv, DocsInv, IsRunning
        <3>5. ~Known(crashes, vm[i]) BY <1>1, <2>1, <3>2, <3>3, <3>4 DEF AgentInv, WorldInv, Fits
        <3> QED BY <3>2, <3>5 DEF DirtyIds
    <2>2. NoGhost BY <1>1 DEF NoGhost, AgentInv, WorldInv, Fits
    <2> QED BY <2>1, <2>2 DEF RemovedForGood, RemovalBarrier, Known
<1> QED BY <1>1, ControllerInvariant, PTL

\* Until the server crashes, a QEMU process no task works on is in the document of a
\* running instance.
THEOREM BackendsAreRecorded == Spec => []BackendRecorded
<1>1. ASSUME AgentInv PROVE BackendRecorded
    BY <1>1 DEF BackendRecorded, AgentInv, WorldInv, Backed, Known
<1> QED BY <1>1, ControllerInvariant, PTL

\* No instance runs under other mediated auth bindings than the agent's.
THEOREM BindingsAreFixed == Spec => []AuthBindingsFixed
<1>1. ASSUME AgentInv PROVE AuthBindingsFixed
    BY <1>1 DEF AuthBindingsFixed, AgentInv, WorldInv, Bound
<1> QED BY <1>1, ControllerInvariant, PTL

\* An agent that reports its deletion has neither VMs nor tasks.
THEOREM DeletionIsClean == Spec => []DeletedClean
<1>1. ASSUME AgentInv PROVE DeletedClean
    <2> SUFFICES ASSUME mode = "Running", doc.deleted, crashes = 0
                 PROVE /\ \A i \in Ids : ~vm[i] /\ inst[i].tasks = {}
                       /\ baseTasks = {}
        BY DEF DeletedClean
    <2>1. /\ \A i \in Ids : inst[i].st = "absent"
          /\ base.st \in {"Stopped", "Missing", "Failed"}
        BY <1>1 DEF AgentInv, DocsInv
    <2>2. \A i \in Ids : inst[i].tasks = {} BY <1>1, <2>1, AbsentBound DEF AgentInv, CellsInv
    <2>3. \A i \in Ids : ~vm[i] BY <1>1, <2>1 DEF AgentInv, WorldInv, Backed, Known, IsRunning
    <2>4. base \in BaseStates /\ BaseOf(base, baseTasks) BY <1>1 DEF AgentInv, BaseInv, BaseOf
    <2>5. baseTasks = {} BY <2>1, <2>4, IdleBase
    <2> QED BY <2>2, <2>3, <2>5
<1> QED BY <1>1, ControllerInvariant, PTL
=============================================================================
