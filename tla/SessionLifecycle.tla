-------------------------- MODULE SessionLifecycle --------------------------
(***************************************************************************)
(* The rows of local sessions (internal/session/sessionservice.go) and     *)
(* everything that writes them: requests (create, activate, archive,       *)
(* delete, repair), the setup goroutine, the hooks of terminal clients,    *)
(* the follower's events, the reconcile job and the start of the daemon.   *)
(*                                                                         *)
(* Nothing locks a row: every writer loads the whole row, works, and saves *)
(* the whole row back (SessionStore.Update).  A step here is the code      *)
(* between two of these points.  A call of the multiplexer service is one  *)
(* step (MuxService has its steps), and so is a setup up to its terminal   *)
(* (SetupExecution has its steps).                                         *)
(***************************************************************************)
EXTENDS Naturals, Sequences

CONSTANTS
  Sessions,      \* ids of session rows; an id is never used again
  Names,         \* names of terminal sessions and of session roots
  NameOf,        \* the name that each session is created with
  WorkspacesOf,  \* the workspaces that each session is created in
  Callers,       \* goroutines of requests, of client hooks and of setups
  Follower,      \* the goroutine that handles terminal events
  Job,           \* the goroutine of session.reconcile
  None,          \* no session
  MaxRequests    \* bound on the steps of the environment

Processes == Callers \cup {Follower, Job}

ASSUME ConstantsAssumption ==
  /\ NameOf \in [Sessions -> Names]
  /\ Follower # Job /\ Follower \notin Callers /\ Job \notin Callers
  /\ None \notin Sessions
  /\ MaxRequests \in Nat

VARIABLES
  row,         \* sessions: status, kind of status_error, is_attached, mux_session_id set
  record,      \* mux_sessions: status, and the session in UTENA_SESSION_ID of env
  terminals,   \* names of the terminal sessions that exist in tuios
  events,      \* terminal events that the follower has not handled
  roots,       \* names whose session root, with its worktrees, is on disk
  unhealthy,   \* sessions whose repository git finds broken
  op,          \* what every process is doing
  requests,    \* how many environment steps there have been
  stranded     \* history: rows known to have been left in status creating

mux  == <<record, terminals, events>>
disk == <<roots, unhealthy>>
vars == <<row, mux, disk, op, requests, stranded>>

Row(status, err, attached, linked) ==
  [status |-> status, err |-> err, attached |-> attached, linked |-> linked]

NoRow    == Row("none", "none", FALSE, FALSE)
Gone     == Row("gone", "none", FALSE, FALSE)
NoRecord == [status |-> "none", env |-> None]
Idle     == [at |-> "idle", id |-> None, name |-> None, row |-> NoRow, todo |-> {}]

Init ==
  /\ row = [s \in Sessions |-> NoRow]
  /\ record = [n \in Names |-> NoRecord]
  /\ terminals = {}
  /\ events = <<>>
  /\ roots = {}
  /\ unhealthy = {}
  /\ op = [p \in Processes |-> Idle]
  /\ requests = 0
  /\ stranded = {}

-----------------------------------------------------------------------------
(***************************************************************************)
(* The store.  Update fails for a row that is gone, and for one that       *)
(* claims a mux record that another row has (unique mux_session_id).       *)
(***************************************************************************)
Stored(s)  == row[s].status \notin {"none", "gone"}
LinkedTo(n) == {s \in Sessions : row[s].linked /\ NameOf[s] = n}

CanSave(s, r) == Stored(s) /\ (r.linked => LinkedTo(NameOf[s]) \subseteq {s})

Save(s, r) == row' = IF CanSave(s, r) THEN [row EXCEPT ![s] = r] ELSE row

(***************************************************************************)
(* The multiplexer service.                                                *)
(***************************************************************************)
Event(type, n) == [type |-> type, name |-> n]

\* SpawnForRecord and CreateSession: open the terminal unless it is there.
Open(n, env) ==
  /\ terminals' = terminals \cup {n}
  /\ events' = IF n \in terminals THEN events ELSE Append(events, Event("created", n))
  /\ record' = [record EXCEPT ![n] = [status |-> "active", env |-> env]]

\* KillSession; when the driver fails the terminal stays.
Kill(n) ==
  /\ record' = [record EXCEPT ![n].status = "inactive"]
  /\ \/ UNCHANGED <<terminals, events>>
     \/ /\ n \in terminals
        /\ terminals' = terminals \ {n}
        /\ events' = Append(events, Event("closed", n))

(***************************************************************************)
(* Processes.                                                              *)
(***************************************************************************)
Request == requests < MaxRequests /\ requests' = requests + 1

\* The process has loaded row s, keeps it as r, and goes on at step.
Load(p, step, s, r) ==
  op' = [op EXCEPT ![p] = [at |-> step, id |-> s, name |-> NameOf[s], row |-> r, todo |-> {}]]

Goto(p, step)  == op' = [op EXCEPT ![p].at = step]
Return(p)      == op' = [op EXCEPT ![p] = Idle]
Copy(p)        == op[p].row
Begin(c)       == op[c] = Idle /\ Request

-----------------------------------------------------------------------------
(***************************************************************************)
(* CreateSession.                                                          *)
(***************************************************************************)
\* No live session has the name in one of the workspaces (asked before the row is
\* added); MkdirAll.
CreateCheck(c, s) ==
  /\ Begin(c)
  /\ row[s] = NoRow /\ \A p \in Callers : op[p].id # s
  /\ \A t \in Sessions : NameOf[t] = NameOf[s] /\ WorkspacesOf[t] \cap WorkspacesOf[s] # {}
       => row[t].status \in {"none", "gone", "archived"}
  /\ roots' = roots \cup {NameOf[s]}
  /\ op' = [op EXCEPT ![c] = [Idle EXCEPT !.at = "adding", !.id = s, !.name = NameOf[s]]]
  /\ UNCHANGED <<row, mux, unhealthy, stranded>>

CreateAdd(c) ==
  LET s == op[c].id IN
  /\ op[c].at = "adding"
  /\ row' = [row EXCEPT ![s] = Row("creating", "none", FALSE, FALSE)]
  /\ Goto(c, "registering")
  /\ UNCHANGED <<mux, disk, requests, stranded>>

\* eagerCreateWorktree or RegisterPending fails: the row is deleted.
CreateFails(c) ==
  LET s == op[c].id IN
  /\ op[c].at = "registering"
  /\ row' = [row EXCEPT ![s] = Gone]
  /\ Return(c)
  /\ UNCHANGED <<mux, disk, requests, stranded>>

\* RegisterPending returns a record that exists as it is.
CreateRegister(c) ==
  LET s == op[c].id  n == NameOf[s] IN
  /\ op[c].at = "registering"
  /\ record' = IF record[n] = NoRecord
               THEN [record EXCEPT ![n] = [status |-> "pending", env |-> s]] ELSE record
  /\ Goto(c, "linking")
  /\ UNCHANGED <<row, terminals, events, disk, requests, stranded>>

\* The row is linked and setup is started in a goroutine (which takes the
\* caller's place).  When another row has the record the row stays creating.
CreateLink(c) ==
  LET s == op[c].id  r == Row("creating", "none", FALSE, TRUE) IN
  /\ op[c].at = "linking"
  /\ Save(s, r)
  /\ IF CanSave(s, r) THEN Goto(c, "starting") ELSE Return(c)
  /\ stranded' = IF Stored(s) /\ ~CanSave(s, r) THEN stranded \cup {s} ELSE stranded
  /\ UNCHANGED <<mux, disk, requests>>

-----------------------------------------------------------------------------
(***************************************************************************)
(* The setup goroutine (runSetup, completeSetup).                          *)
(***************************************************************************)
SetupLoad(c) ==
  LET s == op[c].id IN
  /\ op[c].at = "starting"
  /\ IF Stored(s) THEN Load(c, "running", s, row[s]) ELSE Return(c)
  /\ UNCHANGED <<row, mux, disk, requests, stranded>>

\* The worktrees, then setupMux: a row without a record takes the terminal that
\* is there, with its record if it has one, or makes one with an environment of its own.
SetupMux(c) ==
  LET s == op[c].id  n == NameOf[s] IN
  /\ op[c].at = "running"
  /\ roots' = roots \cup {n}
  /\ IF ~Copy(c).linked /\ n \in terminals THEN UNCHANGED mux
     ELSE Open(n, IF Copy(c).linked THEN record[n].env ELSE s)
  /\ op' = [op EXCEPT ![c].at = "ending", ![c].row.linked = @ \/ n \notin terminals \/ record[n] # NoRecord]
  /\ UNCHANGED <<row, unhealthy, requests, stranded>>

\* err: warnings were left in status_error.
SetupEnd(c, err) ==
  LET s == op[c].id IN
  /\ op[c].at = "ending"
  /\ Save(s, [Copy(c) EXCEPT !.status = "active", !.err = err])
  /\ Return(c)
  /\ UNCHANGED <<mux, disk, requests, stranded>>

\* A critical step fails, before or after the terminal, or the time is over.
SetupFails(c) ==
  LET s == op[c].id IN
  /\ op[c].at \in {"running", "ending"}
  /\ Save(s, [Copy(c) EXCEPT !.status = "broken", !.err = "other"])
  /\ Return(c)
  /\ UNCHANGED <<mux, disk, requests, stranded>>

-----------------------------------------------------------------------------
(***************************************************************************)
(* RepairSession: the row is creating again, and its setup runs again; a   *)
(* row without a record is left in creating.                               *)
(***************************************************************************)
RepairLoad(c, s) ==
  /\ Begin(c)
  /\ \/ row[s].status = "broken"
     \/ row[s].status = "active" /\ row[s].err # "none"
  /\ Load(c, "repairing", s, [row[s] EXCEPT !.status = "creating", !.err = "none"])
  /\ UNCHANGED <<row, mux, disk, stranded>>

RepairWrite(c) ==
  LET s == op[c].id  r == Copy(c) IN
  /\ op[c].at = "repairing"
  /\ Save(s, r)
  /\ IF CanSave(s, r) /\ r.linked THEN Goto(c, "starting") ELSE Return(c)
  /\ stranded' = IF CanSave(s, r) /\ ~r.linked THEN stranded \cup {s} ELSE stranded
  /\ UNCHANGED <<mux, disk, requests>>

-----------------------------------------------------------------------------
(***************************************************************************)
(* ActivateSession.  The worktrees are made again when they are missing.   *)
(***************************************************************************)
ActivateLoad(c, s) ==
  /\ Begin(c)
  /\ row[s].status \in {"active", "inactive", "archived"}
  /\ roots' = roots \cup {NameOf[s]}
  /\ Load(c, "activating", s, row[s])
  /\ UNCHANGED <<row, mux, unhealthy, stranded>>

Revived(r) == [r EXCEPT !.status = "active", !.err = "none", !.linked = TRUE]

\* A terminal is made unless there is one; a row that was attached when it was
\* loaded is not written.
ActivateMux(c) ==
  LET n == op[c].name
      r == IF n \in terminals THEN Copy(c) ELSE Revived(Copy(c)) IN
  /\ op[c].at = "activating"
  /\ IF n \in terminals THEN UNCHANGED mux ELSE Open(n, op[c].id)
  /\ IF r.attached THEN Return(c)
     ELSE op' = [op EXCEPT ![c].at = "clearing", ![c].row = [r EXCEPT !.attached = TRUE]]
  /\ UNCHANGED <<row, disk, requests, stranded>>

\* The terminal cannot be made.
ActivateFails(c) ==
  /\ op[c].at = "activating"
  /\ op[c].name \notin terminals
  /\ Return(c)
  /\ UNCHANGED <<row, mux, disk, requests, stranded>>

\* ClearAttachedExcept.
ActivateClear(c) ==
  /\ op[c].at = "clearing"
  /\ row' = [s \in Sessions |-> IF s = op[c].id THEN row[s] ELSE [row[s] EXCEPT !.attached = FALSE]]
  /\ Goto(c, "attaching")
  /\ UNCHANGED <<mux, disk, requests, stranded>>

ActivateWrite(c) ==
  /\ op[c].at = "attaching"
  /\ Save(op[c].id, Copy(c))
  /\ Return(c)
  /\ UNCHANGED <<mux, disk, requests, stranded>>

-----------------------------------------------------------------------------
(***************************************************************************)
(* ArchiveSession and DeleteSession.                                       *)
(***************************************************************************)
ArchiveLoad(c, s) ==
  /\ Begin(c)
  /\ row[s].status \in {"active", "inactive", "broken"}
  /\ Load(c, "archiving", s, row[s])
  /\ UNCHANGED <<row, mux, disk, stranded>>

ArchiveKill(c) ==
  /\ op[c].at = "archiving"
  /\ IF Copy(c).linked THEN Kill(op[c].name) ELSE UNCHANGED mux
  /\ op' = [op EXCEPT ![c].at = "unlinking", ![c].row = Row("archived", Copy(c).err, FALSE, FALSE)]
  /\ UNCHANGED <<row, disk, requests, stranded>>

ArchiveWrite(c) ==
  /\ op[c].at = "unlinking"
  /\ Save(op[c].id, Copy(c))
  /\ Return(c)
  /\ UNCHANGED <<mux, disk, requests, stranded>>

\* Only an archived session, unless the request forces it.
DeleteLoad(c, s, force) ==
  /\ Begin(c)
  /\ Stored(s) /\ ~row[s].attached
  /\ force \/ row[s].status = "archived"
  /\ Load(c, "deleting", s, row[s])
  /\ UNCHANGED <<row, mux, disk, stranded>>

DeleteKill(c) ==
  /\ op[c].at = "deleting"
  /\ IF Copy(c).linked THEN Kill(op[c].name) ELSE UNCHANGED mux
  /\ op' = [op EXCEPT ![c].at = "removing", ![c].row = Gone]
  /\ UNCHANGED <<row, disk, requests, stranded>>

\* RemoveWorktree and removeSessionRoot.
DeleteRoot(c) ==
  /\ op[c].at = "removing"
  /\ roots' = roots \ {op[c].name}
  /\ Goto(c, "dropping")
  /\ UNCHANGED <<row, mux, unhealthy, requests, stranded>>

HardDelete(c) ==
  /\ op[c].at = "dropping"
  /\ row' = [row EXCEPT ![op[c].id] = Gone]
  /\ Return(c)
  /\ UNCHANGED <<mux, disk, requests, stranded>>

-----------------------------------------------------------------------------
(***************************************************************************)
(* Hooks and reconciliation.                                               *)
(***************************************************************************)
\* A stale copy that says creating is written over a row that had left it.
WriteBack(s, r) ==
  /\ Save(s, r)
  /\ stranded' = IF CanSave(s, r) /\ r.status = "creating" /\ row[s].status # "creating"
                 THEN stranded \cup {s} ELSE stranded

\* What a hook makes of the row it finds: that of a client that attaches or
\* detaches, or of a terminal that closed.
Hooked(r, step) ==
  CASE step = "attached" -> [r EXCEPT !.attached = TRUE]
    [] step = "detached" -> [r EXCEPT !.attached = FALSE]
    [] step = "closed"   -> [r EXCEPT !.attached = FALSE, !.status = "broken"]
    [] OTHER             -> r

\* findSessionForHook.
Find(p, n, step) ==
  IF LinkedTo(n) = {} THEN Return(p)
  ELSE \E s \in LinkedTo(n) : Load(p, step, s, Hooked(row[s], step))

\* A terminal client attaches to or detaches from n.
ClientHook(c, n, step) ==
  /\ Begin(c)
  /\ LinkedTo(n) # {}
  /\ Find(c, n, step)
  /\ UNCHANGED <<row, mux, disk, stranded>>

\* A client switches to n: every attached row is listed and written first.
ClientChanged(c, n) ==
  /\ Begin(c)
  /\ op' = [op EXCEPT ![c] = [Idle EXCEPT !.at = "switching", !.name = n,
              !.todo = {[id |-> s, row |-> row[s]] : s \in {t \in Sessions : row[t].attached}}]]
  /\ UNCHANGED <<row, mux, disk, stranded>>

ChangedClear(c) ==
  /\ op[c].at = "switching"
  /\ \E entry \in op[c].todo :
       LET r == [entry.row EXCEPT !.attached = FALSE] IN
       /\ WriteBack(entry.id, r)
       /\ IF CanSave(entry.id, r) THEN op' = [op EXCEPT ![c].todo = @ \ {entry}] ELSE Return(c)
  /\ UNCHANGED <<mux, disk, requests>>

ChangedFind(c) ==
  /\ op[c].at = "switching"
  /\ op[c].todo = {}
  /\ Find(c, op[c].name, "attached")
  /\ UNCHANGED <<row, mux, disk, requests, stranded>>

HookWrite(p) ==
  /\ op[p].at \in {"attached", "detached", "closed"}
  /\ WriteBack(op[p].id, Copy(p))
  /\ Return(p)
  /\ UNCHANGED <<mux, disk, requests>>

\* Mutant of Reconciled: git is asked only when the terminal is gone.
ReconciledTerminalFirst(r, healthy, alive) ==
  LET recoverable == r.status = "broken" /\ r.err = "git" IN
  CASE alive /\ (r.status = "inactive" \/ recoverable)
         -> [r EXCEPT !.status = "active", !.err = "none"]
    [] ~alive /\ ~healthy -> [r EXCEPT !.status = "broken", !.err = "git"]
    [] ~alive /\ healthy /\ (r.status = "active" \/ recoverable)
         -> [r EXCEPT !.status = "inactive", !.err = "none"]
    [] OTHER -> r

Reconciled(r, healthy, alive) ==
  LET recoverable == r.status = "broken" /\ r.err = "git" IN
  CASE ~healthy -> [r EXCEPT !.status = "broken", !.err = "git"]
    [] healthy /\ ~alive /\ (r.status = "active" \/ recoverable)
         -> [r EXCEPT !.status = "inactive", !.err = "none"]
    [] healthy /\ alive /\ (r.status = "inactive" \/ recoverable)
         -> [r EXCEPT !.status = "active", !.err = "none"]
    [] OTHER -> r

Reconcilable(r) == r.status \in {"active", "inactive", "broken"}

Alive(s, r) == r.linked /\ record[NameOf[s]].status = "active"

\* reconcileLoadedSession looks at the record and at git, then writes.
Look(p) ==
  LET s == op[p].id  r == Reconciled(Copy(p), s \notin unhealthy, Alive(s, Copy(p))) IN
  /\ op[p].at = "looking"
  /\ IF ~Reconcilable(Copy(p)) \/ r = Copy(p) THEN Return(p)
     ELSE op' = [op EXCEPT ![p].at = "reconciling", ![p].row = r]
  /\ UNCHANGED <<row, mux, disk, requests, stranded>>

ReconcileWrite(p) ==
  /\ op[p].at = "reconciling"
  /\ WriteBack(op[p].id, Copy(p))
  /\ Return(p)
  /\ UNCHANGED <<mux, disk, requests>>

\* reconcileSyncTask comes to session s of its list.
JobVisit(s) ==
  /\ op[Job] = Idle
  /\ Reconcilable(row[s])
  /\ Load(Job, "looking", s, row[s])
  /\ UNCHANGED <<row, mux, disk, requests, stranded>>

\* The mux service brings its record up to date and publishes the event, unless
\* it is the close of a terminal whose record was not active.
HandleEvent ==
  LET event  == Head(events)
      n      == event.name
      status == IF event.type = "created" THEN "active" ELSE "inactive"
      hook   == IF event.type = "created" THEN "finding opened" ELSE "finding closed" IN
  /\ op[Follower] = Idle /\ events # <<>> /\ event.type \in {"created", "closed"}
  /\ events' = Tail(events)
  /\ record' = IF record[n] = NoRecord THEN record ELSE [record EXCEPT ![n].status = status]
  /\ op' = IF event.type = "created" \/ record[n].status \in {"none", "active"}
           THEN [op EXCEPT ![Follower] = [Idle EXCEPT !.at = hook, !.name = n]]
           ELSE op
  /\ UNCHANGED <<row, terminals, disk, requests, stranded>>

EventFind ==
  /\ \/ op[Follower].at = "finding opened" /\ Find(Follower, op[Follower].name, "looking")
     \/ op[Follower].at = "finding closed" /\ Find(Follower, op[Follower].name, "closed")
  /\ UNCHANGED <<row, mux, disk, requests, stranded>>

\* The events that were lost are made up for by a listing of the terminals.
Resync ==
  /\ op[Follower] = Idle /\ events # <<>> /\ Head(events).type = "resync"
  /\ events' = Tail(events)
  /\ record' = [n \in Names |->
       IF record[n].status \in {"active", "inactive"}
       THEN [record[n] EXCEPT !.status = IF n \in terminals THEN "active" ELSE "inactive"]
       ELSE record[n]]
  /\ UNCHANGED <<row, terminals, disk, op, requests, stranded>>

-----------------------------------------------------------------------------
(***************************************************************************)
(* Users, git and the daemon.                                              *)
(***************************************************************************)
UserOpens(n) ==
  /\ Request
  /\ n \notin terminals
  /\ terminals' = terminals \cup {n}
  /\ events' = Append(events, Event("created", n))
  /\ UNCHANGED <<row, record, disk, op, stranded>>

UserCloses(n) ==
  /\ Request
  /\ n \in terminals
  /\ terminals' = terminals \ {n}
  /\ events' = Append(events, Event("closed", n))
  /\ UNCHANGED <<row, record, disk, op, stranded>>

EventsLost ==
  /\ Request
  /\ events' = <<Event("resync", None)>>
  /\ UNCHANGED <<row, record, terminals, disk, op, stranded>>

\* The repository of session s breaks or is mended.
GitChanges(s) ==
  /\ Request
  /\ Stored(s)
  /\ unhealthy' = IF s \in unhealthy THEN unhealthy \ {s} ELSE unhealthy \cup {s}
  /\ UNCHANGED <<row, mux, roots, op, stranded>>

\* Mutant of Recovered: recoverStuckCreatingSessions is left out.
RecoveredUnlessCreating(s) ==
  IF Reconcilable(row[s]) THEN Reconciled(row[s], s \notin unhealthy, Alive(s, row[s])) ELSE row[s]

\* OnAppStart: recoverStuckCreatingSessions, then reconcileMuxState.
Recovered(s) ==
  LET r == IF row[s].status = "creating"
           THEN [row[s] EXCEPT !.status = "broken", !.err = "other"] ELSE row[s] IN
  IF Reconcilable(r) THEN Reconciled(r, s \notin unhealthy, Alive(s, r)) ELSE r

\* The daemon ends, with all its goroutines, and starts again.
Restart ==
  /\ Request
  /\ row' = [s \in Sessions |-> Recovered(s)]
  /\ op' = [p \in Processes |-> Idle]
  /\ events' = <<Event("resync", None)>>
  /\ stranded' = {}
  /\ UNCHANGED <<record, terminals, disk>>

-----------------------------------------------------------------------------
Environment ==
  \/ \E c \in Callers, s \in Sessions :
       \/ CreateCheck(c, s) \/ RepairLoad(c, s) \/ ActivateLoad(c, s) \/ ArchiveLoad(c, s)
       \/ \E force \in BOOLEAN : DeleteLoad(c, s, force)
  \/ \E c \in Callers, n \in Names :
       ClientHook(c, n, "attached") \/ ClientHook(c, n, "detached") \/ ClientChanged(c, n)
  \/ \E n \in Names : UserOpens(n) \/ UserCloses(n)
  \/ \E s \in Sessions : GitChanges(s)
  \/ EventsLost \/ Restart

Create(c)   == CreateAdd(c) \/ CreateFails(c) \/ CreateRegister(c) \/ CreateLink(c)
Setup(c)    == SetupLoad(c) \/ SetupMux(c) \/ SetupFails(c) \/ (\E err \in {"none", "other"} : SetupEnd(c, err))
Activate(c) == ActivateMux(c) \/ ActivateFails(c) \/ ActivateClear(c) \/ ActivateWrite(c)
Removal(c)   == ArchiveKill(c) \/ ArchiveWrite(c) \/ DeleteKill(c) \/ DeleteRoot(c) \/ HardDelete(c)
Change(c)   == ChangedClear(c) \/ ChangedFind(c)

Serve(c)     == Create(c) \/ Setup(c) \/ RepairWrite(c) \/ Activate(c) \/ Removal(c) \/ Change(c)
Reconcile(p) == Look(p) \/ ReconcileWrite(p)
Follow       == HandleEvent \/ EventFind \/ Resync \/ HookWrite(Follower) \/ Reconcile(Follower)

Next ==
  \/ Environment
  \/ \E c \in Callers : Serve(c) \/ HookWrite(c)
  \/ Follow
  \/ Reconcile(Job)
  \/ \E s \in Sessions : JobVisit(s)

\* Goroutines run; every run of the job comes to every session of its list.
Fairness ==
  /\ WF_vars(\E c \in Callers : Serve(c) \/ HookWrite(c))
  /\ WF_vars(Follow)
  /\ WF_vars(Reconcile(Job))
  /\ \A s \in Sessions : SF_vars(JobVisit(s))

Spec == Init /\ [][Next]_vars /\ Fairness
-----------------------------------------------------------------------------
(***************************************************************************)
(* Properties.                                                             *)
(***************************************************************************)
RowType ==
  [status : {"none", "creating", "active", "inactive", "broken", "archived", "gone"},
   err : {"none", "git", "other"}, attached : BOOLEAN, linked : BOOLEAN]

RecordType ==
  [status : {"none", "pending", "active", "inactive"}, env : Sessions \cup {None}]

EventType ==
  [type : {"created", "closed"}, name : Names] \cup [type : {"resync"}, name : {None}]

Steps ==
  {"idle", "adding", "registering", "linking", "starting", "running", "ending", "repairing",
   "activating", "clearing", "attaching", "archiving", "unlinking", "deleting", "removing",
   "dropping", "switching", "attached", "detached", "closed", "looking", "reconciling",
   "finding opened", "finding closed"}

OpType ==
  [at : Steps, id : Sessions \cup {None}, name : Names \cup {None}, row : RowType,
   todo : SUBSET [id : Sessions, row : RowType]]

\* Every variable has its type.
TypeOK ==
  /\ row \in [Sessions -> RowType]
  /\ record \in [Names -> RecordType]
  /\ terminals \subseteq Names
  /\ events \in Seq(EventType)
  /\ roots \subseteq Names
  /\ unhealthy \subseteq Sessions
  /\ op \in [Processes -> OpType]
  /\ requests \in 0 .. MaxRequests
  /\ stranded \subseteq Sessions

Working(c, s) ==
  op[c].id = s /\ op[c].at \in {"registering", "linking", "starting", "running", "ending"}

InProgress(s) == \E c \in Callers : Working(c, s)

\* A row in status creating is being created or set up, also after the daemon
\* was killed at any point, so it does not stay creating: in three cases only
\* it does (stranded: CreateLink lost its record to another row, RepairWrite
\* had no record, or a stale copy was written back).
CreatingIsInProgress ==
  \A s \in Sessions \ stranded : row[s].status = "creating" => InProgress(s)

Agrees(s) ==
  /\ row[s].status = "active" => Alive(s, row[s])
  /\ row[s].status = "inactive" => ~Alive(s, row[s])
  /\ Reconcilable(row[s]) =>
       (s \in unhealthy <=> row[s].status = "broken" /\ row[s].err = "git")

\* Once requests, users and git come to rest, every row of a session that is
\* not creating or archived comes to tell whether its terminal lives and its
\* repository is healthy, and stays so, whatever stale writes went before
\* (reconcileSyncTask).
StatusSettles == <>[](\A s \in Sessions : Agrees(s))

\* README.md:46: the panes of a session are attributed to the right session.
EnvIsOwner ==
  \A s \in Sessions :
    row[s].status = "active" /\ row[s].linked => record[NameOf[s]].env = s

RemovesRoot(c, s) == op[c].at = "removing" /\ op'[c].at = "dropping" /\ op[c].id = s

\* claudeartifacts_test.go:53: a live session may reuse the root of an archived
\* one; deleting the archived one keeps what is in the root.
RootKept ==
  [][\A c \in Callers, s, t \in Sessions :
       RemovesRoot(c, s) /\ t # s /\ row[t].status \in {"active", "inactive"}
         => NameOf[t] \in roots']_vars
=============================================================================
