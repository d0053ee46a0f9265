--------------------------- MODULE SetupExecution ---------------------------
(***************************************************************************)
(* The setup of one session: the executor of                               *)
(* internal/session/setupexecutor.go together with the parts of            *)
(* sessionservice.go that start it (CreateSession, RepairSession,          *)
(* AddWorkspace), that turn its result into the session's status           *)
(* (completeSetup) and that clean up after a restart of the daemon.        *)
(*                                                                         *)
(* An execution runs the steps of its plan in rounds: every step that is   *)
(* ready starts, the round ends when all its foreground steps have ended,  *)
(* and a background step runs on, beyond the end of the execution.  The    *)
(* executor decides on its own in-memory copy of the steps (status); the   *)
(* step rows of the database (rows) are shared by all executions of the    *)
(* session, and a background step writes only its row.                     *)
(***************************************************************************)
EXTENDS Naturals, Sequences, FiniteSets, SetupPlan

CONSTANTS
  MaxExecutions,    \* bound on the setups ever requested for the session
  SetupPlans,       \* plans runSetup may build (create and repair)
  AddPlans,         \* plans runAddWorkspace may build
  ForegroundSetup   \* SessionService.foregroundSetup: no step runs in the background

Plans == SetupPlans \cup AddPlans

ASSUME ExecutionsAssumption == MaxExecutions \in Nat \ {0}
ASSUME ForegroundAssumption == ForegroundSetup \in BOOLEAN
ASSUME PlansAssumption == \A plan \in Plans : WellFormedPlan(plan)

Executions   == 1 .. MaxExecutions
StepStatus   == {"pending", "running", "done", "failed"}
Terminal     == {"done", "failed"}
SetupStatus  == {"creating", "active", "inactive", "broken"}
Phases       == {"idle", "repairing", "queued", "adding", "resetting", "replacing",
                 "persisting", "ready", "round", "ending", "finished", "lost"}

VARIABLES
  session,   \* the session row: status, the messages of status_error, and the
             \* execution whose outcome they are (history; 0: somebody else's)
  spawned,   \* setup_mux has spawned the terminal session at least once
  rows,      \* the step rows that are not soft-deleted
  owner,     \* the execution that last prepared the rows (history)
  phase,     \* how far each execution is
  plan,      \* its step definitions
  ids,       \* the rows of its steps
  status,    \* the status of its steps in memory
  starting,  \* the steps of the current round that are still to be started
  warnings,  \* the steps that left a warning
  broken,    \* a step failed for good
  expired,   \* the deadline of its context has passed
  running,   \* its background steps that run
  failed,    \* its background steps whose error is still to be appended
  fell       \* history: its background steps that have failed

prepared   == <<plan, ids>>
progress   == <<status, starting, warnings, broken>>
background == <<running, failed, fell>>
vars == <<session, spawned, rows, owner, phase, prepared, progress, expired, background>>

\* A message of status_error: step p of execution e failed; p = 0 when the
\* execution itself failed.  The other ones belong to no execution.
Message(e, p)     == <<e, p>>
Interrupted       == Message(0, 0)
GitUnhealthyError == Message(0, 1)

Row(st, messages, e) == [status |-> st, error |-> messages, by |-> e]

Positions(e) == DOMAIN plan[e]
Kind(e, p)   == plan[e][p].kind

Background(e, p) == plan[e][p].background /\ ~ForegroundSetup

-----------------------------------------------------------------------------
(***************************************************************************)
(* The step rows.  A row is identified by the execution that created it    *)
(* (0: CreateSession) and its position.  The store's Update is gorm's      *)
(* Save: it also inserts, or un-deletes, a row that is no longer there.    *)
(***************************************************************************)
NewRows(gen, defs) ==
  {[gen |-> gen, pos |-> p, kind |-> defs[p].kind, status |-> "pending"] : p \in DOMAIN defs}

RowId(r) == [gen |-> r.gen, pos |-> r.pos]

Save(id, kind, st) ==
  {r \in rows : RowId(r) # id}
    \cup {[gen |-> id.gen, pos |-> id.pos, kind |-> kind, status |-> st]}

\* ListBySessionID: the rows ordered by position, older rows first.
Rank(r) ==
  Cardinality({x \in rows : x.pos < r.pos \/ (x.pos = r.pos /\ x.gen <= r.gen)})

StepsMatchDefs(defs) ==
  /\ Cardinality(rows) = Len(defs)
  /\ \A p \in DOMAIN defs : \E r \in rows : Rank(r) = p /\ r.kind = defs[p].kind

RowAt(p) == CHOOSE r \in rows : Rank(r) = p

-----------------------------------------------------------------------------
\* CreateSession has committed the session and its step rows and has queued
\* the first execution.
Init ==
  /\ session = Row("creating", {}, 0)
  /\ spawned = FALSE
  /\ \E defs \in SetupPlans : rows = NewRows(0, defs)
  /\ owner = 0
  /\ phase = [e \in Executions |-> IF e = 1 THEN "queued" ELSE "idle"]
  /\ plan = [e \in Executions |-> <<>>]
  /\ ids = [e \in Executions |-> <<>>]
  /\ status = [e \in Executions |-> <<>>]
  /\ starting = [e \in Executions |-> {}]
  /\ warnings = [e \in Executions |-> {}]
  /\ broken = [e \in Executions |-> FALSE]
  /\ expired = [e \in Executions |-> FALSE]
  /\ running = [e \in Executions |-> {}]
  /\ failed = [e \in Executions |-> {}]
  /\ fell = [e \in Executions |-> {}]

Move(e, from, to) ==
  /\ phase[e] = from
  /\ phase' = [phase EXCEPT ![e] = to]

(***************************************************************************)
(* Requests.  RepairSession checks the status it has read and only then    *)
(* writes "creating", so two requests can both pass the check.  A          *)
(* workspace can be added to a session in any of these statuses.           *)
(***************************************************************************)
NextUnused(e) == \A d \in Executions : d < e => phase[d] # "idle"

Repairable ==
  \/ session.status = "broken"
  \/ session.status = "active" /\ session.error # {}

RepairCheck(e) ==
  /\ NextUnused(e)
  /\ Repairable
  /\ Move(e, "idle", "repairing")
  /\ UNCHANGED <<session, spawned, rows, owner, prepared, progress, expired, background>>

RepairCommit(e) ==
  /\ Move(e, "repairing", "queued")
  /\ session' = Row("creating", {}, 0)
  /\ UNCHANGED <<spawned, rows, owner, prepared, progress, expired, background>>

AddWorkspace(e) ==
  /\ AddPlans # {}
  /\ NextUnused(e)
  /\ Move(e, "idle", "adding")
  /\ UNCHANGED <<session, spawned, rows, owner, prepared, progress, expired, background>>

-----------------------------------------------------------------------------
(***************************************************************************)
(* What happens to the session from outside.                               *)
(***************************************************************************)

\* reconcileLoadedSession: the status that the health of the worktrees and of
\* the terminal call for.  Only what it broke itself does it recover.
Reconciled(gitHealthy, muxAlive) ==
  LET canRecover == session.status = "broken" /\ session.error = {GitUnhealthyError} IN
  CASE ~gitHealthy -> Row("broken", {GitUnhealthyError}, 0)
    [] gitHealthy /\ ~muxAlive /\ (session.status = "active" \/ canRecover) ->
         Row("inactive", {}, 0)
    [] gitHealthy /\ muxAlive /\ (session.status = "inactive" \/ canRecover) ->
         Row("active", {}, 0)
    [] OTHER -> session

Reconcile(gitHealthy, muxAlive) ==
  /\ session.status # "creating"
  /\ muxAlive => spawned
  /\ session' = Reconciled(gitHealthy, muxAlive)
  /\ UNCHANGED <<spawned, rows, owner, phase, prepared, progress, expired, background>>

\* The terminal session ends: "broken" in every status, status_error as it was.
MuxSessionClosed ==
  /\ spawned
  /\ session.status # "broken"
  /\ session' = [session EXCEPT !.status = "broken"]
  /\ UNCHANGED <<spawned, rows, owner, phase, prepared, progress, expired, background>>

\* recoverStuckCreatingSessions
Recovered ==
  IF session.status = "creating"
  THEN Row("broken", {Interrupted}, 0)
  ELSE session

\* The daemon stops and starts again: all executions and background steps are
\* gone, and their rows stay as they are.
Restart ==
  /\ \E e \in Executions : phase[e] \notin {"idle", "lost"}
  /\ session' = Recovered
  /\ phase' = [e \in Executions |-> IF phase[e] = "idle" THEN "idle" ELSE "lost"]
  /\ plan' = [e \in Executions |-> <<>>]
  /\ ids' = [e \in Executions |-> <<>>]
  /\ status' = [e \in Executions |-> <<>>]
  /\ starting' = [e \in Executions |-> {}]
  /\ warnings' = [e \in Executions |-> {}]
  /\ broken' = [e \in Executions |-> FALSE]
  /\ expired' = [e \in Executions |-> FALSE]
  /\ running' = [e \in Executions |-> {}]
  /\ failed' = [e \in Executions |-> {}]
  /\ fell' = [e \in Executions |-> {}]
  /\ UNCHANGED <<spawned, rows, owner>>

-----------------------------------------------------------------------------
(***************************************************************************)
(* The start of runSetup and runAddWorkspace: build the plan and prepare   *)
(* the rows (ensureSetupSteps).  Listing, deleting and creating the rows   *)
(* are statements of their own: another execution may come in between.     *)
(***************************************************************************)
ListSteps(e, defs) ==
  /\ \/ phase[e] = "queued" /\ defs \in SetupPlans
     \/ phase[e] = "adding" /\ defs \in AddPlans
  /\ plan' = [plan EXCEPT ![e] = defs]
  /\ \/ /\ StepsMatchDefs(defs)
        /\ phase' = [phase EXCEPT ![e] = "resetting"]
        /\ ids' = [ids EXCEPT ![e] = [p \in DOMAIN defs |-> RowId(RowAt(p))]]
     \/ /\ ~StepsMatchDefs(defs)
        /\ phase' = [phase EXCEPT ![e] = "replacing"]
        /\ ids' = [ids EXCEPT ![e] = [p \in DOMAIN defs |-> [gen |-> e, pos |-> p]]]
  /\ status' = [status EXCEPT ![e] = [p \in DOMAIN defs |-> "pending"]]
  /\ UNCHANGED <<session, spawned, rows, owner, starting, warnings, broken, expired, background>>

ResetSteps(e) ==
  /\ Move(e, "resetting", "ready")
  /\ rows' = {[r EXCEPT !.status = "pending"] : r \in rows}
  /\ owner' = e
  /\ UNCHANGED <<session, spawned, prepared, progress, expired, background>>

DeleteSteps(e) ==
  /\ Move(e, "replacing", "persisting")
  /\ rows' = {}
  /\ UNCHANGED <<session, spawned, owner, prepared, progress, expired, background>>

PersistSteps(e) ==
  /\ Move(e, "persisting", "ready")
  /\ rows' = rows \cup NewRows(e, plan[e])
  /\ owner' = e
  /\ UNCHANGED <<session, spawned, prepared, progress, expired, background>>

\* Mutant of BeginFails: the early return does not mark the session broken.
BeginFailsSilently(e) ==
  /\ phase[e] \in {"queued", "adding"}
  /\ phase' = [phase EXCEPT ![e] = "finished"]
  /\ broken' = [broken EXCEPT ![e] = TRUE]
  /\ UNCHANGED <<session, spawned, rows, owner, prepared, status, starting, warnings, expired, background>>

\* A missing worktree, workspace or configuration ends the setup before it has steps.
BeginFails(e) ==
  /\ phase[e] \in {"queued", "adding"}
  /\ phase' = [phase EXCEPT ![e] = "finished"]
  /\ broken' = [broken EXCEPT ![e] = TRUE]
  /\ session' = Row("broken", {Message(e, 0)}, e)
  /\ UNCHANGED <<spawned, rows, owner, prepared, status, starting, warnings, expired, background>>

-----------------------------------------------------------------------------
(***************************************************************************)
(* Rounds.                                                                 *)
(***************************************************************************)
ForegroundWorkspaceStep(e, p) == plan[e][p].ws # NoWorkspace /\ ~Background(e, p)

\* Mutant of WorkspacesEnded: apply_claude does not wait for the workspaces.
WorkspacesNotAwaited(e) == TRUE

WorkspacesEnded(e) ==
  \A q \in Positions(e) : ForegroundWorkspaceStep(e, q) => status[e][q] \in Terminal

Ready(e, p) ==
  LET def == plan[e][p] IN
  /\ status[e][p] = "pending"
  /\ \/ def.kind = "create_session_dir"
     \/ def.kind = "apply_claude" /\ def.dep = NoDependency /\ WorkspacesEnded(e)
     \/ def.dep # NoDependency /\ status[e][def.dep] \in Terminal

ReadySteps(e) == {p \in Positions(e) : Ready(e, p)}

StartRound(e) ==
  /\ Move(e, "ready", "round")
  /\ ~expired[e]
  /\ ReadySteps(e) # {}
  /\ starting' = [starting EXCEPT ![e] = ReadySteps(e)]
  /\ UNCHANGED <<session, spawned, rows, owner, prepared, status, warnings, broken, expired, background>>

\* Mutant of StopRounds: run only returns when nothing is ready.
StopRoundsAtTheEnd(e) ==
  /\ Move(e, "ready", "ending")
  /\ ReadySteps(e) = {}
  /\ UNCHANGED <<session, spawned, rows, owner, prepared, progress, expired, background>>

\* run returns: nothing is ready, or the setup has run out of time.
StopRounds(e) ==
  /\ Move(e, "ready", "ending")
  /\ expired[e] \/ ReadySteps(e) = {}
  /\ UNCHANGED <<session, spawned, rows, owner, prepared, progress, expired, background>>

\* The steps of a round start in the order of their positions; the first ones
\* may have ended, or broken the setup, before the last one starts.
StartStep(e, p) ==
  /\ phase[e] = "round"
  /\ p \in starting[e]
  /\ \A q \in starting[e] : p <= q
  /\ starting' = [starting EXCEPT ![e] = @ \ {p}]
  /\ status' = [status EXCEPT ![e][p] = "running"]
  /\ rows' = Save(ids[e][p], Kind(e, p), "running")
  /\ running' = [running EXCEPT ![e] = IF Background(e, p) THEN @ \cup {p} ELSE @]
  /\ UNCHANGED <<session, spawned, owner, phase, prepared, warnings, broken, expired, failed, fell>>

\* Mutant of Fatal: the error is not treated as critical.
FatalUnnoticed == [status |-> "failed", warns |-> TRUE, critical |-> FALSE]

\* How a step may end: its status, whether it leaves a warning, whether it is fatal.
Succeeded == [status |-> "done",   warns |-> FALSE, critical |-> FALSE]
Warned    == [status |-> "done",   warns |-> TRUE,  critical |-> FALSE]
Failed    == [status |-> "failed", warns |-> TRUE,  critical |-> FALSE]
Fatal     == [status |-> "failed", warns |-> FALSE, critical |-> TRUE]

Outcomes(kind) ==
  CASE kind = "setup_worktree" -> {Succeeded, Warned, Fatal}
    [] kind = "copy_file"      -> {Succeeded, Failed, Fatal}
    [] kind = "install_deps"   -> {Succeeded, Failed}
    [] kind = "apply_claude"   -> {Succeeded, Warned, Fatal}
    [] OTHER                   -> {Succeeded, Fatal}

RunningForeground(e) ==
  {p \in Positions(e) : status[e][p] = "running" /\ ~Background(e, p)}

FinishStep(e, p, outcome) ==
  /\ phase[e] = "round"
  /\ p \in RunningForeground(e)
  /\ outcome \in Outcomes(Kind(e, p))
  /\ status' = [status EXCEPT ![e][p] = outcome.status]
  /\ rows' = Save(ids[e][p], Kind(e, p), outcome.status)
  /\ warnings' = [warnings EXCEPT ![e] = IF outcome.warns THEN @ \cup {p} ELSE @]
  /\ broken' = [broken EXCEPT ![e] = @ \/ outcome.critical]
  /\ spawned' = (spawned \/ (Kind(e, p) = "setup_mux" /\ outcome.status = "done"))
  /\ UNCHANGED <<session, owner, phase, prepared, starting, expired, background>>

EndRound(e) ==
  /\ Move(e, "round", IF broken[e] THEN "ending" ELSE "ready")
  /\ starting[e] = {}
  /\ RunningForeground(e) = {}
  /\ UNCHANGED <<session, spawned, rows, owner, prepared, progress, expired, background>>

\* The execution's context has reached its deadline (setupTimeout).  It is
\* looked at before a round and after the last one; a step that it cancels is a
\* step that fails.
Expire(e) ==
  /\ phase[e] \in {"ready", "ending"}
  /\ ~expired[e]
  /\ expired' = [expired EXCEPT ![e] = TRUE]
  /\ UNCHANGED <<session, spawned, rows, owner, phase, prepared, progress, background>>

SetUp(e) == ~broken[e] /\ ~expired[e]

\* completeSetup: write the outcome into the session row, then close finished.
Complete(e) ==
  /\ Move(e, "ending", "finished")
  /\ session' = IF SetUp(e)
                THEN Row("active", {Message(e, p) : p \in warnings[e]}, e)
                ELSE Row("broken", {Message(e, 0)}, e)
  /\ UNCHANGED <<spawned, rows, owner, prepared, progress, expired, background>>

-----------------------------------------------------------------------------
(***************************************************************************)
(* Background steps (runBackground).  A failed one waits until the         *)
(* execution has finished and then appends its error, but only to the      *)
(* status_error of an active session.                                      *)
(***************************************************************************)
BackgroundDone(e, p) ==
  /\ p \in running[e]
  /\ rows' = Save(ids[e][p], Kind(e, p), "done")
  /\ running' = [running EXCEPT ![e] = @ \ {p}]
  /\ UNCHANGED <<session, spawned, owner, phase, prepared, progress, expired, failed, fell>>

BackgroundFails(e, p) ==
  /\ p \in running[e]
  /\ rows' = Save(ids[e][p], Kind(e, p), "failed")
  /\ running' = [running EXCEPT ![e] = @ \ {p}]
  /\ failed' = [failed EXCEPT ![e] = @ \cup {p}]
  /\ fell' = [fell EXCEPT ![e] = @ \cup {p}]
  /\ UNCHANGED <<session, spawned, owner, phase, prepared, progress, expired>>

\* Mutants of AppendStatusError: it does not wait for finished; it waits for
\* the session to be active.
AppendAtOnce(e, p) ==
  /\ p \in failed[e]
  /\ session' = IF session.status = "active"
                THEN [session EXCEPT !.error = @ \cup {Message(e, p)}]
                ELSE session
  /\ failed' = [failed EXCEPT ![e] = @ \ {p}]
  /\ UNCHANGED <<spawned, rows, owner, phase, prepared, progress, expired, running, fell>>

AppendWhenActive(e, p) ==
  /\ p \in failed[e]
  /\ phase[e] = "finished"
  /\ session.status = "active"
  /\ session' = [session EXCEPT !.error = @ \cup {Message(e, p)}]
  /\ failed' = [failed EXCEPT ![e] = @ \ {p}]
  /\ UNCHANGED <<spawned, rows, owner, phase, prepared, progress, expired, running, fell>>

AppendStatusError(e, p) ==
  /\ p \in failed[e]
  /\ phase[e] = "finished"
  /\ session' = IF session.status = "active"
                THEN [session EXCEPT !.error = @ \cup {Message(e, p)}]
                ELSE session
  /\ failed' = [failed EXCEPT ![e] = @ \ {p}]
  /\ UNCHANGED <<spawned, rows, owner, phase, prepared, progress, expired, running, fell>>

-----------------------------------------------------------------------------
PrepareSteps(e) ==
  \/ \E defs \in Plans : ListSteps(e, defs)
  \/ ResetSteps(e)
  \/ DeleteSteps(e)
  \/ PersistSteps(e)
  \/ BeginFails(e)

RunRound(e) ==
  \/ StartRound(e)
  \/ StopRounds(e)
  \/ \E p \in Positions(e) : StartStep(e, p)
  \/ \E p \in Positions(e) : \E outcome \in Outcomes(Kind(e, p)) : FinishStep(e, p, outcome)
  \/ EndRound(e)

Reconciles == \E gitHealthy, muxAlive \in BOOLEAN : Reconcile(gitHealthy, muxAlive)

Execute(e) == PrepareSteps(e) \/ RunRound(e) \/ Complete(e)

RunBackground(e) ==
  \E p \in Positions(e) : BackgroundDone(e, p) \/ BackgroundFails(e, p) \/ AppendStatusError(e, p)

Next ==
  \/ \E e \in Executions :
       \/ RepairCheck(e) \/ RepairCommit(e) \/ AddWorkspace(e)
       \/ Execute(e) \/ Expire(e) \/ RunBackground(e)
  \/ Reconciles \/ MuxSessionClosed \/ Restart

\* Goroutines are scheduled and every step ends: its context is cancelled at
\* the latest when setupTimeout is over.  Nobody owes the session a request.
Fairness ==
  \A e \in Executions :
    /\ WF_vars(RepairCommit(e))
    /\ WF_vars(Execute(e))
    /\ WF_vars(RunBackground(e))

Spec == Init /\ [][Next]_vars /\ Fairness
-----------------------------------------------------------------------------
(***************************************************************************)
(* Properties.                                                             *)
(***************************************************************************)

SessionRows == [status : SetupStatus, error : SUBSET ((0 .. MaxExecutions) \X Nat),
                by : 0 .. MaxExecutions]

RowIds      == [gen : 0 .. MaxExecutions, pos : Nat]

\* Every variable has its type; ids and statuses are kept for exactly the steps of the plan.
TypeOK ==
  /\ session \in SessionRows
  /\ spawned \in BOOLEAN
  /\ rows \subseteq [gen : 0 .. MaxExecutions, pos : Nat, kind : StepKinds, status : StepStatus]
  /\ owner \in 0 .. MaxExecutions
  /\ phase \in [Executions -> Phases]
  /\ plan \in [Executions -> Plans \cup {<<>>}]
  /\ ids \in [Executions -> Seq(RowIds)]
  /\ status \in [Executions -> Seq(StepStatus)]
  /\ starting \in [Executions -> SUBSET Nat]
  /\ warnings \in [Executions -> SUBSET Nat]
  /\ broken \in [Executions -> BOOLEAN]
  /\ expired \in [Executions -> BOOLEAN]
  /\ running \in [Executions -> SUBSET Nat]
  /\ failed \in [Executions -> SUBSET Nat]
  /\ fell \in [Executions -> SUBSET Nat]
  /\ \A e \in Executions :
       /\ ids[e] \in [Positions(e) -> RowIds]
       /\ status[e] \in [Positions(e) -> StepStatus]
       /\ starting[e] \cup warnings[e] \cup running[e] \cup failed[e] \cup fell[e] \subseteq Positions(e)

\* The terminal session is spawned last: once setup_mux has started, every
\* foreground step of every workspace has ended and no worktree has failed.
\* Rests on the round barrier, on the rule for apply_claude in ready and on
\* run returning after a round that broke.
MuxAfterWorktrees ==
  \A e \in Executions : \A m \in Positions(e) :
    Kind(e, m) = "setup_mux" /\ status[e][m] # "pending" =>
      \A p \in Positions(e) :
        /\ ForegroundWorkspaceStep(e, p) => status[e][p] \in Terminal
        /\ Kind(e, p) = "setup_worktree" => status[e][p] = "done"

\* run returns as soon as no step is ready, and completeSetup then writes
\* "active": an execution that reports success has ended every foreground step
\* of its plan, its worktrees and its terminal successfully.
SuccessMeansSetUp ==
  \A e \in Executions :
    (phase[e] = "finished" /\ SetUp(e)) \/ (phase[e] = "ending" /\ ReadySteps(e) = {} /\ SetUp(e)) =>
      \A p \in Positions(e) :
        /\ ~Background(e, p) => status[e][p] \in Terminal
        /\ Kind(e, p) \in {"create_session_dir", "setup_worktree", "setup_mux"} =>
             status[e][p] = "done"

InProgress(e) == phase[e] \notin {"idle", "repairing", "finished", "lost"}

\* A session never stays in "creating" with nobody working on it: repairs that
\* overlap, additions, early failures, timeouts and restarts all end by writing
\* another status.
CreatingIsInProgress ==
  session.status = "creating" =>
    \E e \in Executions : InProgress(e)

\* No failure is lost: while the session row shows the outcome of an execution, every step
\* of that execution that has failed, in the foreground or the background, has its message
\* in status_error or still waits to append it; however many executions overlap, complete
\* and append in between.  The wait for finished in runBackground keeps completeSetup from
\* overwriting it.  The outcome of another execution, or what reconciliation finds,
\* replaces all messages, and a restart loses those that wait.
FailureIsReported ==
  \A e \in Executions :
    session.by = e /\ session.status = "active" =>
      \A p \in Positions(e) :
        status[e][p] = "failed" \/ p \in fell[e] =>
          p \in failed[e] \/ Message(e, p) \in session.error

\* After a round that broke the setup, run begins no other round.
NoRoundAfterBroken ==
  [][\A e \in Executions : broken[e] => starting'[e] \subseteq starting[e]]_vars

\* Every setup that was requested ends, unless the daemon does.
SetupEnds ==
  \A e \in Executions :
    []<>(phase[e] \in {"idle", "finished", "lost"})

\* A background step ends, with its failure appended or discarded.
BackgroundEnds ==
  \A e \in Executions : []<>(running[e] \cup failed[e] = {})

\* The session is only reported "active" when its terminal exists
\* (sessionservice_setupsteps_test.go:58-65 waits for "active" and requires
\* every step, setup_mux among them, to be done).
ActiveHasTerminal == session.status = "active" => spawned

\* Every step is carried out: once a setup succeeded and its background steps
\* have ended, every step row is terminal
\* (sessionservice_setupsteps_test.go:168-175 requires it of every install_deps step).
EveryStepRuns ==
  \A e \in Executions :
    (owner = e /\ phase[e] = "finished" /\ SetUp(e) /\ running[e] = {})
    => \A r \in rows : r.status \in Terminal
=============================================================================
