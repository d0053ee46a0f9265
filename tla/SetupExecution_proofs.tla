----------------------- MODULE SetupExecution_proofs -----------------------
(***************************************************************************)
(* Proofs about SetupExecution, for all plans that are well formed and any *)
(* number of executions.                                                   *)
(*                                                                         *)
(* The order of the steps rests on what a step that has started says about *)
(* the steps before it (StepOrder, MuxOrder) and on broken being noticed   *)
(* before the next round (BrokenEnds, WorktreeFailures).                   *)
(*                                                                         *)
(* That success is complete rests on run ending only when no step is ready *)
(* (OutcomeInv): of the foreground steps that have not ended the first one *)
(* would be ready, as a plan has a least such step and what it depends on  *)
(* has ended.  That failures are reported rests on a failed step being     *)
(* among what its execution is still to report, or in the session's error  *)
(* as long as the row shows that execution (ReportInv).                    *)
(***************************************************************************)
EXTENDS SetupExecution, FiniteSetTheorems, TLAPS

\* Before its steps are listed an execution has no plan.
Unplanned(e) == phase[e] \in {"idle", "repairing", "queued", "adding"} => plan[e] = <<>>

Started(e, p) == status[e][p] # "pending" \/ p \in starting[e]

\* A step that has started found its dependency ended.
StepOrder(e) ==
  \A p \in Positions(e) : Started(e, p) =>
    /\ plan[e][p].dep # NoDependency => status[e][plan[e][p].dep] \in Terminal
    /\ Kind(e, p) = "apply_claude" => WorkspacesEnded(e)

\* Steps are only waiting to be started within a round, and are pending.
StartingPending(e) ==
  \A p \in starting[e] : status[e][p] = "pending" /\ phase[e] = "round"

\* A broken setup has no round to come.
BrokenEnds(e) == broken[e] => phase[e] \in {"round", "ending", "finished"}

WorktreeFailures(e) ==
  \A p \in Positions(e) :
    Kind(e, p) = "setup_worktree" /\ status[e][p] = "failed" => broken[e]

MuxOrder(e) ==
  \A m, p \in Positions(e) :
    Kind(e, m) = "setup_mux" /\ Started(e, m) /\ Kind(e, p) = "setup_worktree"
      => status[e][p] = "done"

ExecutionInv(e) ==
  /\ Unplanned(e)
  /\ StepOrder(e)
  /\ StartingPending(e)
  /\ BrokenEnds(e)
  /\ WorktreeFailures(e)
  /\ MuxOrder(e)

Inv == TypeOK /\ \A e \in Executions : ExecutionInv(e)
-----------------------------------------------------------------------------
(***************************************************************************)
(* Plans.                                                                  *)
(***************************************************************************)

\* A plan of an execution is empty or well formed.
LEMMA PlanShape ==
  ASSUME TypeOK, NEW e \in Executions, NEW p \in Positions(e)
  PROVE  /\ plan[e] \in Plans
         /\ WellFormedPlan(plan[e])
         /\ p \in 1 .. Len(plan[e]) /\ p \in Nat
         /\ plan[e][p].dep \in 0 .. p - 1
         /\ plan[e][p].dep # NoDependency => plan[e][p].dep \in Positions(e)
         /\ Kind(e, p) \in StepKinds
         /\ plan[e][p].background \in BOOLEAN
<1>1. plan[e] \in Plans \cup {<<>>}
  BY DEF TypeOK
<1>2. plan[e] # <<>>
  BY DEF Positions
<1>3. WellFormedPlan(plan[e])
  BY <1>1, <1>2, PlansAssumption
<1>4. /\ Positions(e) = 1 .. Len(plan[e])
      /\ Len(plan[e]) \in Nat
      /\ WellFormedStep(plan[e], p)
  BY <1>3 DEF WellFormedPlan, Positions
<1>5. plan[e][p].dep \in 0 .. p - 1 /\ Kind(e, p) \in StepKinds /\ plan[e][p].background \in BOOLEAN
  BY <1>4 DEF WellFormedStep, Kind
<1> QED
  BY <1>1, <1>2, <1>3, <1>4, <1>5 DEF NoDependency

\* A plan is a sequence, and a function on its positions is one too.
LEMMA PlanLength ==
  ASSUME TypeOK, NEW e \in Executions
  PROVE  \E n \in Nat : Positions(e) = 1 .. n
<1>1. CASE plan[e] = <<>>
  <2>1. Positions(e) = 1 .. 0
    BY <1>1 DEF Positions
  <2> QED
    BY <2>1
<1>2. CASE plan[e] \in Plans
  BY <1>2, PlansAssumption DEF Positions, WellFormedPlan
<1> QED
  BY <1>1, <1>2 DEF TypeOK

LEMMA FunctionIsSequence ==
  \A S : \A n \in Nat : [1 .. n -> S] \subseteq Seq(S)
OBVIOUS

\* The row and the status of a step have their types.
LEMMA StepTypes ==
  ASSUME TypeOK, NEW e \in Executions, NEW p \in Positions(e)
  PROVE  /\ ids[e][p] \in RowIds
         /\ status[e][p] \in StepStatus
<1>1. ids[e] \in [Positions(e) -> RowIds] /\ status[e] \in [Positions(e) -> StepStatus]
  BY DEF TypeOK
<1> QED
  BY <1>1

\* An outcome is one of four.
LEMMA OutcomeTypes ==
  ASSUME NEW kind, NEW outcome \in Outcomes(kind)
  PROVE  /\ outcome.status \in StepStatus
         /\ outcome.status \in Terminal
         /\ outcome.critical \in BOOLEAN
         /\ kind = "setup_worktree" /\ outcome.status = "failed" => outcome.critical
<1>1. outcome \in {Succeeded, Warned, Failed, Fatal}
  BY DEF Outcomes
<1>2. kind = "setup_worktree" => outcome \in {Succeeded, Warned, Fatal}
  BY DEF Outcomes
<1>3. outcome.status \in StepStatus /\ outcome.status \in Terminal
  BY <1>1 DEF Succeeded, Warned, Failed, Fatal, StepStatus, Terminal
<1>4. outcome.critical \in BOOLEAN
  <2>1. Succeeded.critical = FALSE /\ Warned.critical = FALSE
    BY DEF Succeeded, Warned
  <2>2. Failed.critical = FALSE /\ Fatal.critical = TRUE
    BY DEF Failed, Fatal
  <2> QED
    BY <1>1, <2>1, <2>2, Zenon
<1>5. kind = "setup_worktree" /\ outcome.status = "failed" => outcome.critical
  BY <1>2 DEF Succeeded, Warned, Fatal
<1> QED
  BY <1>3, <1>4, <1>5

\* A step of the kinds without which there is no session can only fail fatally.
LEMMA CriticalOutcomes ==
  ASSUME NEW kind \in {"create_session_dir", "setup_worktree", "setup_mux"},
         NEW outcome \in Outcomes(kind), outcome.status = "failed"
  PROVE  outcome.critical
<1>1. outcome \in {Succeeded, Warned, Fatal}
  BY DEF Outcomes
<1> QED
  BY <1>1 DEF Succeeded, Warned, Fatal

\* A failure leaves a warning or is fatal.
LEMMA FailureIsNoticed ==
  ASSUME NEW kind, NEW outcome \in Outcomes(kind), outcome.status = "failed"
  PROVE  outcome.warns \/ outcome.critical
<1>1. outcome \in {Succeeded, Warned, Failed, Fatal}
  BY DEF Outcomes
<1>2. outcome = Failed \/ outcome = Fatal
  BY <1>1 DEF Succeeded, Warned, Failed, Fatal
<1> QED
  BY <1>2 DEF Failed, Fatal

\* What the executor relies on for the order of the terminal and the worktrees.
LEMMA MuxPlan ==
  ASSUME TypeOK, NEW e \in Executions, NEW m \in Positions(e), NEW p \in Positions(e)
  PROVE  /\ Kind(e, m) = "setup_mux" =>
              /\ plan[e][m].dep \in Positions(e)
              /\ plan[e][m].dep # NoDependency
              /\ Kind(e, plan[e][m].dep) = "apply_claude"
         /\ Kind(e, p) = "setup_worktree" => ForegroundWorkspaceStep(e, p)
         /\ Kind(e, p) = "apply_claude" => plan[e][p].dep = NoDependency
<1>1. WellFormedStep(plan[e], m) /\ WellFormedStep(plan[e], p)
  BY PlanShape DEF WellFormedPlan, Positions
<1>2. Kind(e, m) = "setup_mux" =>
        plan[e][m].dep # NoDependency /\ Kind(e, plan[e][m].dep) = "apply_claude"
  BY <1>1 DEF WellFormedStep, Kind
<1>3. Kind(e, p) = "setup_worktree" => ForegroundWorkspaceStep(e, p)
  BY <1>1 DEF WellFormedStep, Kind, WorkspaceKinds, ForegroundWorkspaceStep, Background
<1>4. Kind(e, p) = "apply_claude" => plan[e][p].dep = NoDependency
  BY <1>1 DEF WellFormedStep, Kind
<1> QED
  BY <1>2, <1>3, <1>4, PlanShape

-----------------------------------------------------------------------------
(***************************************************************************)
(* Types.                                                                  *)
(***************************************************************************)
LEMMA InitTypeOK == Init => TypeOK
<1> SUFFICES ASSUME Init PROVE TypeOK
  OBVIOUS
<1>1. rows \subseteq [gen : 0 .. MaxExecutions, pos : Nat, kind : StepKinds, status : StepStatus]
  <2>1. PICK defs \in SetupPlans : rows = NewRows(0, defs)
    BY DEF Init
  <2>2. /\ DOMAIN defs = 1 .. Len(defs) /\ Len(defs) \in Nat
        /\ \A p \in DOMAIN defs : defs[p].kind \in StepKinds
    BY PlansAssumption DEF Plans, WellFormedPlan, WellFormedStep
  <2> QED
    BY <2>1, <2>2, ExecutionsAssumption DEF NewRows, StepStatus
<1>2. session \in SessionRows
  BY ExecutionsAssumption DEF Init, Row, SessionRows, SetupStatus
<1>3. \A e \in Executions :
        /\ Positions(e) = {}
        /\ ids[e] \in [Positions(e) -> RowIds] /\ ids[e] \in Seq(RowIds)
        /\ status[e] \in [Positions(e) -> StepStatus] /\ status[e] \in Seq(StepStatus)
        /\ starting[e] \cup warnings[e] \cup running[e] \cup failed[e] \cup fell[e] \subseteq Positions(e)
  <2> SUFFICES ASSUME NEW e \in Executions
      PROVE /\ Positions(e) = {}
            /\ ids[e] \in [Positions(e) -> RowIds] /\ ids[e] \in Seq(RowIds)
            /\ status[e] \in [Positions(e) -> StepStatus] /\ status[e] \in Seq(StepStatus)
            /\ starting[e] \cup warnings[e] \cup running[e] \cup failed[e] \cup fell[e] \subseteq Positions(e)
    OBVIOUS
  <2>1. plan[e] = <<>> /\ ids[e] = <<>> /\ status[e] = <<>> /\ DOMAIN <<>> = {}
    BY DEF Init
  <2>2. \A S : <<>> \in [{} -> S]
    OBVIOUS
  <2>3. Positions(e) = {}
    BY <2>1 DEF Positions
  <2>4. \A S : <<>> \in Seq(S)
    OBVIOUS
  <2> QED
    BY <2>1, <2>2, <2>3, <2>4 DEF Init
<1>4. /\ ids \in [Executions -> Seq(RowIds)]
      /\ status \in [Executions -> Seq(StepStatus)]
      /\ starting \in [Executions -> SUBSET Nat]
      /\ warnings \in [Executions -> SUBSET Nat]
      /\ running \in [Executions -> SUBSET Nat]
      /\ failed \in [Executions -> SUBSET Nat]
      /\ fell \in [Executions -> SUBSET Nat]
  BY <1>3 DEF Init
<1>5. owner \in 0 .. MaxExecutions
  BY ExecutionsAssumption DEF Init
<1>9. spawned \in BOOLEAN
  BY DEF Init
<1>6. phase \in [Executions -> Phases]
  BY DEF Init, Phases
<1>7. plan \in [Executions -> Plans \cup {<<>>}]
  BY DEF Init
<1>8. broken \in [Executions -> BOOLEAN] /\ expired \in [Executions -> BOOLEAN]
  BY DEF Init
<1> QED
  BY <1>1, <1>2, <1>3, <1>4, <1>5, <1>6, <1>7, <1>8, <1>9 DEF TypeOK

\* Rows written by Save keep their type.
LEMMA SaveType ==
  ASSUME TypeOK, NEW id \in RowIds, NEW kind \in StepKinds, NEW st \in StepStatus
  PROVE  Save(id, kind, st)
           \subseteq [gen : 0 .. MaxExecutions, pos : Nat, kind : StepKinds, status : StepStatus]
BY DEF TypeOK, Save, RowIds

LEMMA RequestsTypeOK ==
  ASSUME TypeOK, NEW e \in Executions,
         RepairCheck(e) \/ RepairCommit(e) \/ AddWorkspace(e) \/ Expire(e)
  PROVE  TypeOK'
<1>1. CASE RepairCheck(e)
  BY <1>1 DEF TypeOK, RepairCheck, Move, Phases, prepared, progress, background, Positions
<1>2. CASE RepairCommit(e)
  <2>1. session' \in SessionRows
    BY <1>2, ExecutionsAssumption DEF RepairCommit, Row, SessionRows, SetupStatus
  <2> QED
    BY <1>2, <2>1 DEF TypeOK, RepairCommit, Move, Phases, prepared, progress, background, Positions
<1>3. CASE AddWorkspace(e)
  BY <1>3 DEF TypeOK, AddWorkspace, Move, Phases, prepared, progress, background, Positions
<1>4. CASE Expire(e)
  BY <1>4 DEF TypeOK, Expire, prepared, progress, background, Positions
<1> QED
  BY <1>1, <1>2, <1>3, <1>4

LEMMA OutsideTypeOK ==
  ASSUME TypeOK, Reconciles \/ MuxSessionClosed \/ Restart
  PROVE  TypeOK'
<1>1. CASE Reconciles
  <2>1. session' \in SessionRows
    BY <1>1, ExecutionsAssumption
       DEF TypeOK, Reconciles, Reconcile, Reconciled, GitUnhealthyError, Message, Row, SessionRows, SetupStatus
  <2> QED
    BY <1>1, <2>1 DEF TypeOK, Reconciles, Reconcile, prepared, progress, background, Positions
<1>2. CASE MuxSessionClosed
  BY <1>2 DEF TypeOK, MuxSessionClosed, SessionRows, SetupStatus, prepared, progress, background, Positions
<1>3. CASE Restart
  <2>1. session' \in SessionRows
    BY <1>3, ExecutionsAssumption DEF TypeOK, Restart, Recovered, Interrupted, Message, Row, SessionRows, SetupStatus
  <2>2. \A S : <<>> \in [{} -> S] /\ DOMAIN <<>> = {}
    OBVIOUS
  <2>3. \A S : <<>> \in Seq(S)
    OBVIOUS
  <2>4. /\ ids' \in [Executions -> Seq(RowIds)]
        /\ status' \in [Executions -> Seq(StepStatus)]
        /\ plan' \in [Executions -> Plans \cup {<<>>}]
    BY <1>3, <2>3 DEF Restart
  <2>5. phase' \in [Executions -> Phases]
    BY <1>3 DEF Restart, Phases
  <2>6. /\ starting' \in [Executions -> SUBSET Nat] /\ warnings' \in [Executions -> SUBSET Nat]
        /\ running' \in [Executions -> SUBSET Nat] /\ failed' \in [Executions -> SUBSET Nat]
        /\ fell' \in [Executions -> SUBSET Nat]
        /\ broken' \in [Executions -> BOOLEAN] /\ expired' \in [Executions -> BOOLEAN]
    BY <1>3 DEF Restart
  <2>7. ASSUME NEW e \in Executions
        PROVE  /\ ids'[e] \in [Positions(e)' -> RowIds]
               /\ status'[e] \in [Positions(e)' -> StepStatus]
               /\ (starting[e] \cup warnings[e] \cup running[e] \cup failed[e] \cup fell[e])' \subseteq Positions(e)'
    <3>1. plan'[e] = <<>> /\ ids'[e] = <<>> /\ status'[e] = <<>>
      BY <1>3 DEF Restart
    <3>2. Positions(e)' = {}
      BY <3>1, <2>2 DEF Positions
    <3> QED
      BY <1>3, <3>1, <3>2, <2>2 DEF Restart
  <2> QED
    BY <1>3, <2>1, <2>4, <2>5, <2>6, <2>7 DEF TypeOK, Restart
<1> QED
  BY <1>1, <1>2, <1>3

LEMMA PrepareTypeOK ==
  ASSUME TypeOK, NEW e \in Executions, Unplanned(e), PrepareSteps(e)
  PROVE  TypeOK'
<1>1. ASSUME NEW defs \in Plans, ListSteps(e, defs)
      PROVE  TypeOK'
  <2>1. Positions(e) = {}
    BY <1>1 DEF ListSteps, Unplanned, Positions
  <2>2. starting[e] \cup warnings[e] \cup running[e] \cup failed[e] \cup fell[e] = {}
    BY <2>1 DEF TypeOK
  <2>3. ids' = [ids EXCEPT ![e] = ids'[e]] /\ ids'[e] \in [DOMAIN defs -> RowIds]
    <3>1. DOMAIN defs = 1 .. Len(defs) /\ Len(defs) \in Nat
      BY PlansAssumption DEF WellFormedPlan
    <3>2. ASSUME NEW p \in DOMAIN defs, StepsMatchDefs(defs)
          PROVE  RowId(RowAt(p)) \in RowIds
      <4>1. PICK r \in rows : Rank(r) = p
        BY <3>2 DEF StepsMatchDefs
      <4>2. RowAt(p) \in rows
        BY <4>1 DEF RowAt
      <4> QED
        BY <4>2 DEF TypeOK, RowId, RowIds
    <3>3. ASSUME NEW p \in DOMAIN defs
          PROVE  [gen |-> e, pos |-> p] \in RowIds
      BY <3>1, ExecutionsAssumption DEF RowIds, Executions
    <3> QED
      BY <1>1, <3>2, <3>3 DEF ListSteps, TypeOK
  <2>4. \A S : [DOMAIN defs -> S] \subseteq Seq(S)
    <3>1. DOMAIN defs = 1 .. Len(defs) /\ Len(defs) \in Nat
      BY PlansAssumption DEF WellFormedPlan
    <3> QED
      BY <3>1, FunctionIsSequence
  <2>5. status'[e] \in [DOMAIN defs -> StepStatus]
    BY <1>1 DEF ListSteps, TypeOK, StepStatus
  <2>6. ids' \in [Executions -> Seq(RowIds)] /\ status' \in [Executions -> Seq(StepStatus)]
    BY <1>1, <2>3, <2>4, <2>5 DEF ListSteps, TypeOK
  <2>7. plan' \in [Executions -> Plans \cup {<<>>}] /\ plan'[e] = defs
    BY <1>1 DEF ListSteps, TypeOK
  <2>8. phase' \in [Executions -> Phases]
    BY <1>1 DEF ListSteps, TypeOK, Phases
  <2>9. ASSUME NEW d \in Executions
        PROVE  /\ ids'[d] \in [Positions(d)' -> RowIds]
               /\ status'[d] \in [Positions(d)' -> StepStatus]
               /\ (starting[d] \cup warnings[d] \cup running[d] \cup failed[d] \cup fell[d])' \subseteq Positions(d)'
    <3>1. CASE d = e
      BY <1>1, <2>2, <2>3, <2>5, <2>7, <3>1 DEF ListSteps, Positions, background
    <3>2. CASE d # e
      BY <1>1, <3>2 DEF ListSteps, Positions, background, TypeOK
    <3> QED
      BY <3>1, <3>2
  <2> QED
    BY <1>1, <2>6, <2>7, <2>8, <2>9 DEF ListSteps, TypeOK, background
<1>2. CASE ResetSteps(e)
  <2>1. rows' \subseteq [gen : 0 .. MaxExecutions, pos : Nat, kind : StepKinds, status : StepStatus]
    <3>1. ASSUME NEW r \in rows
          PROVE  [r EXCEPT !.status = "pending"]
                   \in [gen : 0 .. MaxExecutions, pos : Nat, kind : StepKinds, status : StepStatus]
      <4>1. r \in [gen : 0 .. MaxExecutions, pos : Nat, kind : StepKinds, status : StepStatus]
        BY DEF TypeOK
      <4> QED
        BY <4>1 DEF StepStatus
    <3> QED
      BY <1>2, <3>1 DEF ResetSteps
  <2> QED
    BY <1>2, <2>1 DEF TypeOK, ResetSteps, Move, Phases, Executions, prepared, progress, background, Positions
<1>3. CASE DeleteSteps(e)
  BY <1>3 DEF TypeOK, DeleteSteps, Move, Phases, prepared, progress, background, Positions
<1>4. CASE PersistSteps(e)
  <2>1. NewRows(e, plan[e])
          \subseteq [gen : 0 .. MaxExecutions, pos : Nat, kind : StepKinds, status : StepStatus]
    <3>1. ASSUME NEW p \in DOMAIN plan[e]
          PROVE  p \in Nat /\ plan[e][p].kind \in StepKinds
      BY PlanShape DEF Positions, Kind
    <3> QED
      BY <3>1, ExecutionsAssumption DEF NewRows, StepStatus, Executions
  <2> QED
    BY <1>4, <2>1 DEF TypeOK, PersistSteps, Move, Phases, Executions, prepared, progress, background, Positions
<1>5. CASE BeginFails(e)
  <2>1. session' \in SessionRows
    BY <1>5, ExecutionsAssumption DEF BeginFails, Message, Row, SessionRows, SetupStatus, Executions
  <2> QED
    BY <1>5, <2>1 DEF TypeOK, BeginFails, Phases, prepared, background, Positions
<1> QED
  BY <1>1, <1>2, <1>3, <1>4, <1>5 DEF PrepareSteps

LEMMA RoundTypeOK ==
  ASSUME TypeOK, NEW e \in Executions, RunRound(e)
  PROVE  TypeOK'
<1>1. CASE StartRound(e)
  <2>1. ReadySteps(e) \subseteq Positions(e) /\ ReadySteps(e) \subseteq Nat
    BY PlanShape DEF ReadySteps
  <2> QED
    BY <1>1, <2>1 DEF TypeOK, StartRound, Move, Phases, prepared, background, Positions
<1>2. CASE StopRounds(e)
  BY <1>2 DEF TypeOK, StopRounds, Move, Phases, prepared, progress, background, Positions
<1>3. ASSUME NEW p \in Positions(e), StartStep(e, p)
      PROVE  TypeOK'
  <2>1. ids[e][p] \in RowIds /\ Kind(e, p) \in StepKinds /\ p \in Nat
    BY PlanShape, StepTypes
  <2>5. "running" \in StepStatus
    BY DEF StepStatus
  <2>2. status'[e] = [status[e] EXCEPT ![p] = "running"]
        /\ status'[e] \in [Positions(e) -> StepStatus]
    BY <1>3, <2>5 DEF StartStep, TypeOK
  <2>3. status'[e] \in Seq(StepStatus)
    BY <2>2, PlanLength, FunctionIsSequence
  <2>4. rows' \subseteq [gen : 0 .. MaxExecutions, pos : Nat, kind : StepKinds, status : StepStatus]
    BY <1>3, <2>1, <2>5, SaveType DEF StartStep
  <2> QED
    BY <1>3, <2>1, <2>2, <2>3, <2>4 DEF TypeOK, StartStep, prepared, Positions
<1>4. ASSUME NEW p \in Positions(e), NEW outcome \in Outcomes(Kind(e, p)), FinishStep(e, p, outcome)
      PROVE  TypeOK'
  <2>1. ids[e][p] \in RowIds /\ Kind(e, p) \in StepKinds /\ p \in Nat
    BY PlanShape, StepTypes
  <2>2. outcome.status \in StepStatus /\ outcome.critical \in BOOLEAN
    BY OutcomeTypes
  <2>3. status'[e] \in [Positions(e) -> StepStatus]
    BY <1>4, <2>2 DEF FinishStep, TypeOK
  <2>4. status'[e] \in Seq(StepStatus)
    BY <2>3, PlanLength, FunctionIsSequence
  <2>5. rows' \subseteq [gen : 0 .. MaxExecutions, pos : Nat, kind : StepKinds, status : StepStatus]
    BY <1>4, <2>1, <2>2, SaveType DEF FinishStep
  <2>6. spawned' \in BOOLEAN /\ broken' \in [Executions -> BOOLEAN]
    BY <1>4, <2>2 DEF FinishStep, TypeOK
  <2> QED
    BY <1>4, <2>1, <2>3, <2>4, <2>5, <2>6 DEF TypeOK, FinishStep, prepared, background, Positions
<1>5. CASE EndRound(e)
  BY <1>5 DEF TypeOK, EndRound, Move, Phases, prepared, progress, background, Positions
<1> QED
  BY <1>1, <1>2, <1>3, <1>4, <1>5 DEF RunRound

LEMMA EndTypeOK ==
  ASSUME TypeOK, NEW e \in Executions, Complete(e) \/ RunBackground(e)
  PROVE  TypeOK'
<1>1. CASE Complete(e)
  <2>1. e \in 0 .. MaxExecutions /\ 0 \in 0 .. MaxExecutions
    BY ExecutionsAssumption DEF Executions
  <2>2. \A p \in Nat : Message(e, p) \in (0 .. MaxExecutions) \X Nat
    BY <2>1 DEF Message
  <2>3. {Message(e, 0)} \subseteq (0 .. MaxExecutions) \X Nat
    BY <2>2
  <2>4. {Message(e, p) : p \in warnings[e]} \subseteq (0 .. MaxExecutions) \X Nat
    BY <2>2 DEF TypeOK, Positions
  <2>5. \A messages \in SUBSET ((0 .. MaxExecutions) \X Nat) :
           /\ Row("active", messages, e) \in SessionRows
           /\ Row("broken", messages, e) \in SessionRows
    BY <2>1 DEF Row, SessionRows, SetupStatus
  <2>6. session' \in SessionRows
    BY <1>1, <2>3, <2>4, <2>5 DEF Complete
  <2> QED
    BY <1>1, <2>6 DEF TypeOK, Complete, Move, Phases, prepared, progress, background, Positions
<1>2. ASSUME NEW p \in Positions(e), BackgroundDone(e, p) \/ BackgroundFails(e, p)
      PROVE  TypeOK'
  <2>1. ids[e][p] \in RowIds /\ Kind(e, p) \in StepKinds /\ p \in Nat
    BY PlanShape, StepTypes
  <2>2. "done" \in StepStatus /\ "failed" \in StepStatus
    BY DEF StepStatus
  <2>3. rows' \subseteq [gen : 0 .. MaxExecutions, pos : Nat, kind : StepKinds, status : StepStatus]
    BY <1>2, <2>1, <2>2, SaveType DEF BackgroundDone, BackgroundFails
  <2>4. CASE BackgroundDone(e, p)
    BY <2>4, <2>3 DEF TypeOK, BackgroundDone, prepared, progress, Positions
  <2>5. CASE BackgroundFails(e, p)
    BY <2>5, <2>1, <2>3 DEF TypeOK, BackgroundFails, prepared, progress, Positions
  <2> QED
    BY <1>2, <2>4, <2>5
<1>3. ASSUME NEW p \in Positions(e), AppendStatusError(e, p)
      PROVE  TypeOK'
  <2>1. Message(e, p) \in (0 .. MaxExecutions) \X Nat
    BY PlanShape, ExecutionsAssumption DEF Message, Executions
  <2>2. CASE session.status = "active"
    <3>1. session' = [session EXCEPT !.error = session.error \cup {Message(e, p)}]
      BY <1>3, <2>2 DEF AppendStatusError
    <3>2. session' \in SessionRows
      BY <3>1, <2>1 DEF TypeOK, SessionRows
    <3> QED
      BY <1>3, <3>2 DEF TypeOK, AppendStatusError, prepared, progress, Positions
  <2>3. CASE session.status # "active"
    BY <1>3, <2>3 DEF TypeOK, AppendStatusError, prepared, progress, Positions
  <2> QED
    BY <2>2, <2>3
<1> QED
  BY <1>1, <1>2, <1>3 DEF RunBackground

LEMMA NextTypeOK ==
  ASSUME TypeOK, \A e \in Executions : Unplanned(e), [Next]_vars
  PROVE  TypeOK'
<1>1. CASE UNCHANGED vars
  BY <1>1 DEF TypeOK, vars, prepared, progress, background, Positions
<1>2. CASE Next
  <2>1. ASSUME NEW e \in Executions,
               RepairCheck(e) \/ RepairCommit(e) \/ AddWorkspace(e) \/ Expire(e)
        PROVE  TypeOK'
    BY <2>1, RequestsTypeOK
  <2>2. ASSUME NEW e \in Executions, Execute(e)
        PROVE  TypeOK'
    BY <2>2, PrepareTypeOK, RoundTypeOK, EndTypeOK DEF Execute
  <2>3. ASSUME NEW e \in Executions, RunBackground(e)
        PROVE  TypeOK'
    BY <2>3, EndTypeOK
  <2> QED
    BY <1>2, <2>1, <2>2, <2>3, OutsideTypeOK DEF Next
<1> QED
  BY <1>1, <1>2

-----------------------------------------------------------------------------
(***************************************************************************)
(* The order of the steps.                                                 *)
(***************************************************************************)
LEMMA InitInv == Init => Inv
<1> SUFFICES ASSUME Init PROVE Inv
  OBVIOUS
<1>1. TypeOK
  BY InitTypeOK
<1>2. ASSUME NEW e \in Executions
      PROVE  ExecutionInv(e)
  <2>1. plan[e] = <<>> /\ DOMAIN <<>> = {} /\ starting[e] = {} /\ broken[e] = FALSE
    BY DEF Init
  <2>2. Positions(e) = {}
    BY <2>1 DEF Positions
  <2> QED
    BY <2>1, <2>2
       DEF ExecutionInv, Unplanned, StepOrder, StartingPending, BrokenEnds, WorktreeFailures, MuxOrder
<1> QED
  BY <1>1, <1>2 DEF Inv

\* An execution keeps its part of the invariant when nothing of it changes.
LEMMA ExecutionUnchanged ==
  ASSUME NEW e \in Executions, ExecutionInv(e),
         phase'[e] = phase[e], plan'[e] = plan[e], status'[e] = status[e],
         starting'[e] = starting[e], broken'[e] = broken[e]
  PROVE  ExecutionInv(e)'
BY DEF ExecutionInv, Unplanned, StepOrder, StartingPending, BrokenEnds, WorktreeFailures,
       MuxOrder, Positions, Kind, Started, WorkspacesEnded, ForegroundWorkspaceStep, Background

\* ... or when it only moves to a phase that asks no more of it.
LEMMA ExecutionMoves ==
  ASSUME NEW e \in Executions, ExecutionInv(e),
         plan'[e] = plan[e], status'[e] = status[e],
         starting'[e] = starting[e], broken'[e] = broken[e],
         phase[e] = "round" => starting[e] = {},
         phase'[e] \in {"idle", "repairing", "queued", "adding"} => plan[e] = <<>>,
         broken[e] => phase'[e] \in {"ending", "finished"}
  PROVE  ExecutionInv(e)'
<1>1. starting[e] = {}
  BY DEF ExecutionInv, StartingPending
<1> QED
  BY <1>1
     DEF ExecutionInv, Unplanned, StepOrder, StartingPending, BrokenEnds, WorktreeFailures,
         MuxOrder, Positions, Kind, Started, WorkspacesEnded, ForegroundWorkspaceStep, Background

\* An execution without a plan satisfies its part trivially, unless it is broken.
LEMMA ExecutionEmpty ==
  ASSUME NEW e \in Executions, plan'[e] = <<>>, starting'[e] = {}, ~broken'[e]
  PROVE  ExecutionInv(e)'
<1>1. Positions(e)' = {}
  BY DEF Positions
<1> QED
  BY <1>1
     DEF ExecutionInv, Unplanned, StepOrder, StartingPending, BrokenEnds, WorktreeFailures, MuxOrder

\* The steps that StartRound picks are ready, and no worktree has failed.
LEMMA StartRoundInv ==
  ASSUME Inv, NEW e \in Executions, StartRound(e)
  PROVE  ExecutionInv(e)'
<1>1. TypeOK /\ ExecutionInv(e)
  BY DEF Inv
<1>2. /\ plan' = plan /\ status' = status /\ broken' = broken
      /\ phase[e] = "ready" /\ phase'[e] = "round" /\ starting'[e] = ReadySteps(e)
  BY <1>1 DEF StartRound, Move, prepared, TypeOK
<1>3. ~broken[e] /\ starting[e] = {}
  BY <1>1, <1>2 DEF ExecutionInv, BrokenEnds, StartingPending
<1>4. Unplanned(e)' /\ BrokenEnds(e)' /\ WorktreeFailures(e)'
  BY <1>1, <1>2 DEF ExecutionInv, Unplanned, BrokenEnds, WorktreeFailures, Positions, Kind
<1>5. StartingPending(e)'
  BY <1>2 DEF StartingPending, ReadySteps, Ready
<1>6. StepOrder(e)'
  <2> SUFFICES ASSUME NEW p \in Positions(e), Started(e, p)'
      PROVE  /\ plan[e][p].dep # NoDependency => status[e][plan[e][p].dep] \in Terminal
             /\ Kind(e, p) = "apply_claude" => WorkspacesEnded(e)
    BY <1>2 DEF StepOrder, Positions, Kind, WorkspacesEnded, ForegroundWorkspaceStep, Background
  <2>1. CASE status[e][p] # "pending"
    BY <1>1, <2>1 DEF ExecutionInv, StepOrder, Started
  <2>2. CASE p \in ReadySteps(e)
    <3>1. Kind(e, p) = "create_session_dir" => plan[e][p].dep = NoDependency
      BY <1>1, PlanShape DEF WellFormedPlan, WellFormedStep, Kind, Positions
    <3>2. Kind(e, p) = "apply_claude" => plan[e][p].dep = NoDependency
      BY <1>1, MuxPlan
    <3> QED
      BY <2>2, <3>1, <3>2 DEF ReadySteps, Ready, Kind
  <2> QED
    BY <1>2, <2>1, <2>2 DEF Started
<1>7. MuxOrder(e)'
  <2> SUFFICES ASSUME NEW m \in Positions(e), NEW p \in Positions(e),
                      Kind(e, m) = "setup_mux", Started(e, m)', Kind(e, p) = "setup_worktree"
      PROVE  status[e][p] = "done"
    BY <1>2 DEF MuxOrder, Positions, Kind
  <2> DEFINE c == plan[e][m].dep
  <2>1. c \in Positions(e) /\ c # NoDependency /\ Kind(e, c) = "apply_claude"
    BY <1>1, MuxPlan
  <2>2. status[e][c] \in Terminal
    BY <1>2, <1>6, <2>1 DEF StepOrder, Positions
  <2>3. WorkspacesEnded(e)
    BY <1>1, <2>1, <2>2 DEF ExecutionInv, StepOrder, Started, Terminal
  <2>4. status[e][p] \in Terminal
    BY <1>1, <2>3, MuxPlan DEF WorkspacesEnded
  <2> QED
    BY <1>1, <1>3, <2>4 DEF ExecutionInv, WorktreeFailures, Terminal
<1> QED
  BY <1>4, <1>5, <1>6, <1>7 DEF ExecutionInv

\* The order is kept when no step starts that was not starting already and no
\* ended step changes.
LEMMA OrderKept ==
  ASSUME TypeOK, NEW e \in Executions, ExecutionInv(e), plan' = plan,
         \A p \in Positions(e) : status[e][p] \in Terminal => status'[e][p] = status[e][p],
         \A p \in Positions(e) : Started(e, p)' => Started(e, p)
  PROVE  StepOrder(e)' /\ MuxOrder(e)'
<1>1. Positions(e)' = Positions(e)
  BY DEF Positions
<1>2. WorkspacesEnded(e) => WorkspacesEnded(e)'
  BY <1>1 DEF WorkspacesEnded, ForegroundWorkspaceStep, Background, Terminal
<1>3. StepOrder(e)'
  <2> SUFFICES ASSUME NEW p \in Positions(e), Started(e, p)
      PROVE  /\ plan[e][p].dep # NoDependency => status'[e][plan[e][p].dep] \in Terminal
             /\ Kind(e, p) = "apply_claude" => WorkspacesEnded(e)'
    BY <1>1 DEF StepOrder, Kind
  <2>1. /\ plan[e][p].dep # NoDependency => status[e][plan[e][p].dep] \in Terminal
        /\ Kind(e, p) = "apply_claude" => WorkspacesEnded(e)
    BY DEF ExecutionInv, StepOrder
  <2>2. plan[e][p].dep # NoDependency => plan[e][p].dep \in Positions(e)
    BY PlanShape
  <2> QED
    BY <1>2, <2>1, <2>2
<1>4. MuxOrder(e)'
  BY <1>1 DEF ExecutionInv, MuxOrder, Kind, Terminal
<1> QED
  BY <1>3, <1>4

\* A step that starts was in starting already, and no ended step changes.
LEMMA StartStepInv ==
  ASSUME Inv, NEW e \in Executions, NEW s \in Positions(e), StartStep(e, s)
  PROVE  ExecutionInv(e)'
<1>1. TypeOK /\ ExecutionInv(e)
  BY DEF Inv
<1>2. /\ plan' = plan /\ broken' = broken /\ phase' = phase
      /\ phase[e] = "round" /\ s \in starting[e]
      /\ starting'[e] = starting[e] \ {s}
      /\ status'[e] = [status[e] EXCEPT ![s] = "running"]
  BY <1>1 DEF StartStep, prepared, TypeOK
<1>3. status[e][s] = "pending"
  BY <1>1, <1>2 DEF ExecutionInv, StartingPending
<1>4. \A p \in Positions(e) : status'[e][p] = IF p = s THEN "running" ELSE status[e][p]
  BY <1>1, <1>2 DEF TypeOK
<1>5. \A p \in Positions(e) : status[e][p] \in Terminal => status'[e][p] = status[e][p]
  BY <1>3, <1>4 DEF Terminal
<1>6. \A p \in Positions(e) : Started(e, p)' => Started(e, p)
  BY <1>2, <1>4 DEF Started
<1>7. Positions(e)' = Positions(e)
  BY <1>2 DEF Positions
<1>8. Unplanned(e)' /\ BrokenEnds(e)'
  BY <1>1, <1>2 DEF ExecutionInv, Unplanned, BrokenEnds
<1>9. WorktreeFailures(e)'
  BY <1>1, <1>2, <1>4, <1>7 DEF ExecutionInv, WorktreeFailures, Kind
<1>10. StartingPending(e)'
  BY <1>1, <1>2, <1>4, <1>7 DEF ExecutionInv, StartingPending, TypeOK
<1>11. StepOrder(e)' /\ MuxOrder(e)'
  BY <1>1, <1>2, <1>5, <1>6, OrderKept
<1> QED
  BY <1>8, <1>9, <1>10, <1>11 DEF ExecutionInv

\* A step that ends was running; a worktree that fails breaks the setup.
LEMMA FinishStepInv ==
  ASSUME Inv, NEW e \in Executions, NEW s \in Positions(e),
         NEW outcome \in Outcomes(Kind(e, s)), FinishStep(e, s, outcome)
  PROVE  ExecutionInv(e)'
<1>1. TypeOK /\ ExecutionInv(e)
  BY DEF Inv
<1>2. /\ plan' = plan /\ phase' = phase /\ starting' = starting
      /\ phase[e] = "round" /\ status[e][s] = "running"
      /\ status'[e] = [status[e] EXCEPT ![s] = outcome.status]
      /\ broken'[e] = (broken[e] \/ outcome.critical)
  BY <1>1 DEF FinishStep, RunningForeground, prepared, TypeOK
<1>3. /\ outcome.status \in Terminal
      /\ Kind(e, s) = "setup_worktree" /\ outcome.status = "failed" => outcome.critical
  BY OutcomeTypes
<1>4. \A p \in Positions(e) : status'[e][p] = IF p = s THEN outcome.status ELSE status[e][p]
  BY <1>1, <1>2 DEF TypeOK
<1>5. \A p \in Positions(e) : status[e][p] \in Terminal => status'[e][p] = status[e][p]
  BY <1>2, <1>4 DEF Terminal
<1>6. \A p \in Positions(e) : Started(e, p)' => Started(e, p)
  BY <1>2, <1>4 DEF Started
<1>7. Positions(e)' = Positions(e)
  BY <1>2 DEF Positions
<1>8. Unplanned(e)' /\ BrokenEnds(e)'
  BY <1>1, <1>2 DEF ExecutionInv, Unplanned, BrokenEnds
<1>9. WorktreeFailures(e)'
  BY <1>1, <1>2, <1>3, <1>4, <1>7 DEF ExecutionInv, WorktreeFailures, Kind
<1>10. StartingPending(e)'
  BY <1>1, <1>2, <1>4, <1>7 DEF ExecutionInv, StartingPending, TypeOK
<1>11. StepOrder(e)' /\ MuxOrder(e)'
  BY <1>1, <1>2, <1>5, <1>6, OrderKept
<1> QED
  BY <1>8, <1>9, <1>10, <1>11 DEF ExecutionInv

LEMMA ListStepsInv ==
  ASSUME Inv, NEW e \in Executions, NEW defs \in Plans, ListSteps(e, defs)
  PROVE  ExecutionInv(e)'
<1>1. TypeOK /\ ExecutionInv(e)
  BY DEF Inv
<1>2. /\ phase[e] \in {"queued", "adding"} /\ phase'[e] \in {"resetting", "replacing"}
      /\ plan'[e] = defs /\ starting' = starting /\ broken' = broken
      /\ status'[e] = [p \in DOMAIN defs |-> "pending"]
  BY <1>1 DEF ListSteps, TypeOK
<1>3. starting[e] = {} /\ ~broken[e]
  BY <1>1, <1>2 DEF ExecutionInv, StartingPending, BrokenEnds
<1>4. \A p \in Positions(e)' : status'[e][p] = "pending"
  BY <1>2 DEF Positions
<1> QED
  BY <1>2, <1>3, <1>4
     DEF ExecutionInv, Unplanned, StepOrder, StartingPending, BrokenEnds, WorktreeFailures,
         MuxOrder, Started

\* A setup that fails before it has steps.
LEMMA BeginFailsInv ==
  ASSUME Inv, NEW e \in Executions, BeginFails(e)
  PROVE  ExecutionInv(e)'
<1>1. TypeOK /\ ExecutionInv(e)
  BY DEF Inv
<1>2. /\ phase[e] \in {"queued", "adding"} /\ phase'[e] = "finished"
      /\ plan' = plan /\ starting' = starting
  BY <1>1 DEF BeginFails, TypeOK, prepared
<1>3. starting[e] = {} /\ Positions(e)' = {}
  BY <1>1, <1>2 DEF ExecutionInv, StartingPending, Unplanned, Positions
<1> QED
  BY <1>2, <1>3
     DEF ExecutionInv, Unplanned, StepOrder, StartingPending, BrokenEnds, WorktreeFailures, MuxOrder

\* The steps of an execution leave the other ones alone.
LEMMA OwnSteps ==
  ASSUME TypeOK, NEW e \in Executions, NEW d \in Executions, d # e,
         \/ RepairCheck(e) \/ RepairCommit(e) \/ AddWorkspace(e) \/ Expire(e)
         \/ Execute(e) \/ RunBackground(e)
  PROVE  /\ phase'[d] = phase[d] /\ plan'[d] = plan[d] /\ status'[d] = status[d]
         /\ starting'[d] = starting[d] /\ broken'[d] = broken[d]
         /\ ids'[d] = ids[d] /\ warnings'[d] = warnings[d] /\ expired'[d] = expired[d]
         /\ running'[d] = running[d] /\ failed'[d] = failed[d] /\ fell'[d] = fell[d]
<1>1. CASE RepairCheck(e) \/ RepairCommit(e) \/ AddWorkspace(e) \/ Expire(e)
  BY <1>1 DEF RepairCheck, RepairCommit, AddWorkspace, Expire, Move, TypeOK, prepared, progress,
              background
<1>2. CASE PrepareSteps(e)
  BY <1>2 DEF PrepareSteps, ListSteps, ResetSteps, DeleteSteps, PersistSteps, BeginFails, Move,
              TypeOK, prepared, progress, background
<1>3. CASE RunRound(e)
  BY <1>3 DEF RunRound, StartRound, StopRounds, StartStep, FinishStep, EndRound, Move,
              TypeOK, prepared, progress, background
<1>4. CASE Complete(e) \/ RunBackground(e)
  BY <1>4 DEF Complete, RunBackground, BackgroundDone, BackgroundFails, AppendStatusError, Move,
              TypeOK, prepared, progress, background
<1> QED
  BY <1>1, <1>2, <1>3, <1>4 DEF Execute

LEMMA OwnInv ==
  ASSUME Inv, NEW e \in Executions,
         \/ RepairCheck(e) \/ RepairCommit(e) \/ AddWorkspace(e) \/ Expire(e)
         \/ Execute(e) \/ RunBackground(e)
  PROVE  ExecutionInv(e)'
<1>1. TypeOK /\ ExecutionInv(e)
  BY DEF Inv
<1>2. Unplanned(e) /\ BrokenEnds(e) /\ StartingPending(e)
  BY <1>1 DEF ExecutionInv
<1>3. CASE RepairCheck(e) \/ RepairCommit(e) \/ AddWorkspace(e)
  <2>1. /\ phase[e] \in {"idle", "repairing"}
        /\ phase'[e] \in {"repairing", "queued", "adding"}
        /\ plan' = plan /\ status' = status /\ starting' = starting /\ broken' = broken
    BY <1>1, <1>3 DEF RepairCheck, RepairCommit, AddWorkspace, Move, TypeOK, prepared, progress
  <2>2. plan[e] = <<>> /\ ~broken[e]
    BY <1>2, <2>1 DEF Unplanned, BrokenEnds
  <2> QED
    BY <1>1, <2>1, <2>2, ExecutionMoves
<1>4. CASE Expire(e)
  BY <1>1, <1>4, ExecutionUnchanged DEF Expire, prepared, progress
<1>5. CASE PrepareSteps(e)
  <2>1. CASE ResetSteps(e) \/ DeleteSteps(e) \/ PersistSteps(e)
    <3>1. /\ phase[e] \in {"resetting", "replacing", "persisting"}
          /\ phase'[e] \in {"persisting", "ready"}
          /\ plan' = plan /\ status' = status /\ starting' = starting /\ broken' = broken
      BY <1>1, <2>1 DEF ResetSteps, DeleteSteps, PersistSteps, Move, TypeOK, prepared, progress
    <3>2. ~broken[e]
      BY <1>2, <3>1 DEF BrokenEnds
    <3> QED
      BY <1>1, <3>1, <3>2, ExecutionMoves
  <2> QED
    BY <1>5, <2>1, ListStepsInv, BeginFailsInv DEF PrepareSteps
<1>6. CASE RunRound(e)
  <2>1. CASE StopRounds(e) \/ EndRound(e)
    <3>1. /\ phase[e] = "ready" \/ (phase[e] = "round" /\ starting[e] = {})
          /\ phase'[e] = "ending" \/ (phase'[e] = "ready" /\ ~broken[e])
          /\ plan' = plan /\ status' = status /\ starting' = starting /\ broken' = broken
      BY <1>1, <2>1 DEF StopRounds, EndRound, Move, TypeOK, prepared, progress
    <3> QED
      BY <1>1, <3>1, ExecutionMoves
  <2> QED
    BY <1>6, <2>1, StartRoundInv, StartStepInv, FinishStepInv DEF RunRound
<1>7. CASE Complete(e)
  <2>1. /\ phase[e] = "ending" /\ phase'[e] = "finished"
        /\ plan' = plan /\ status' = status /\ starting' = starting /\ broken' = broken
    BY <1>1, <1>7 DEF Complete, Move, TypeOK, prepared, progress
  <2> QED
    BY <1>1, <2>1, ExecutionMoves
<1>8. CASE RunBackground(e)
  BY <1>1, <1>8, ExecutionUnchanged
     DEF RunBackground, BackgroundDone, BackgroundFails, AppendStatusError, prepared, progress
<1> QED
  BY <1>3, <1>4, <1>5, <1>6, <1>7, <1>8 DEF Execute

LEMMA NextInv == Inv /\ [Next]_vars => Inv'
<1> SUFFICES ASSUME Inv, [Next]_vars PROVE Inv'
  OBVIOUS
<1>1. TypeOK'
  BY NextTypeOK DEF Inv, ExecutionInv
<1>2. ASSUME NEW d \in Executions
      PROVE  ExecutionInv(d)'
  <2>1. TypeOK /\ ExecutionInv(d)
    BY DEF Inv
  <2>2. CASE UNCHANGED vars \/ Reconciles \/ MuxSessionClosed
    BY <2>1, <2>2, ExecutionUnchanged
       DEF vars, Reconciles, Reconcile, MuxSessionClosed, prepared, progress, background
  <2>3. CASE Restart
    BY <2>3, ExecutionEmpty DEF Restart
  <2>4. ASSUME NEW e \in Executions,
               \/ RepairCheck(e) \/ RepairCommit(e) \/ AddWorkspace(e) \/ Expire(e)
               \/ Execute(e) \/ RunBackground(e)
        PROVE  ExecutionInv(d)'
    <3>1. CASE d = e
      BY <2>4, <3>1, OwnInv
    <3>2. CASE d # e
      BY <2>1, <2>4, <3>2, OwnSteps, ExecutionUnchanged
    <3> QED
      BY <3>1, <3>2
  <2> QED
    BY <2>2, <2>3, <2>4 DEF Next
<1> QED
  BY <1>1, <1>2 DEF Inv

LEMMA Invariance == Spec => []Inv
BY InitInv, NextInv, PTL DEF Spec

\* Every variable keeps its type.
THEOREM TypeCorrect == Spec => []TypeOK
<1>1. Inv => TypeOK
  BY DEF Inv
<1> QED
  BY <1>1, Invariance, PTL

LEMMA InvMuxAfterWorktrees == Inv => MuxAfterWorktrees
<1> SUFFICES ASSUME Inv, NEW e \in Executions, NEW m \in Positions(e),
                    Kind(e, m) = "setup_mux", status[e][m] # "pending", NEW p \in Positions(e)
    PROVE  /\ ForegroundWorkspaceStep(e, p) => status[e][p] \in Terminal
           /\ Kind(e, p) = "setup_worktree" => status[e][p] = "done"
  BY DEF MuxAfterWorktrees
<1> DEFINE c == plan[e][m].dep
<1>1. TypeOK /\ ExecutionInv(e)
  BY DEF Inv
<1>2. c \in Positions(e) /\ c # NoDependency /\ Kind(e, c) = "apply_claude"
  BY <1>1, MuxPlan
<1>3. status[e][c] \in Terminal
  BY <1>1, <1>2 DEF ExecutionInv, StepOrder, Started
<1>4. WorkspacesEnded(e)
  BY <1>1, <1>2, <1>3 DEF ExecutionInv, StepOrder, Started, Terminal
<1> QED
  BY <1>1, <1>4 DEF ExecutionInv, MuxOrder, Started, WorkspacesEnded

\* The terminal session is spawned only after every foreground workspace step
\* has ended and every worktree is set up, in every execution of every plan.
THEOREM MuxComesLast == Spec => []MuxAfterWorktrees
BY Invariance, InvMuxAfterWorktrees, PTL

\* After a round that broke the setup no other round begins.
THEOREM BrokenSetupStops == Spec => NoRoundAfterBroken
<1>1. Inv /\ [Next]_vars =>
        [\A e \in Executions : broken[e] => starting'[e] \subseteq starting[e]]_vars
  <2> SUFFICES ASSUME Inv, Next, NEW d \in Executions, broken[d]
      PROVE  starting'[d] \subseteq starting[d]
    OBVIOUS
  <2>1. TypeOK /\ ExecutionInv(d)
    BY DEF Inv
  <2>2. CASE Reconciles \/ MuxSessionClosed \/ Restart
    BY <2>2 DEF Reconciles, Reconcile, MuxSessionClosed, Restart, progress
  <2>3. ASSUME NEW e \in Executions,
               \/ RepairCheck(e) \/ RepairCommit(e) \/ AddWorkspace(e) \/ Expire(e)
               \/ Execute(e) \/ RunBackground(e)
        PROVE  starting'[d] \subseteq starting[d]
    <3>1. CASE d # e
      BY <2>1, <2>3, <3>1, OwnSteps
    <3>2. CASE d = e /\ StartRound(e)
      BY <2>1, <3>2 DEF StartRound, Move, ExecutionInv, BrokenEnds
    <3>3. CASE d = e /\ ~StartRound(e)
      BY <2>1, <2>3, <3>3
         DEF RepairCheck, RepairCommit, AddWorkspace, Expire, Execute, PrepareSteps, ListSteps,
             ResetSteps, DeleteSteps, PersistSteps, BeginFails, RunRound, StopRounds, StartStep,
             FinishStep, EndRound, Complete, RunBackground, BackgroundDone, BackgroundFails,
             AppendStatusError, TypeOK, progress
    <3> QED
      BY <3>1, <3>2, <3>3
  <2> QED
    BY <2>2, <2>3 DEF Next
<1> QED
  BY <1>1, Invariance, PTL DEF Spec, NoRoundAfterBroken

-----------------------------------------------------------------------------
(***************************************************************************)
(* "creating" means that somebody is working on it.                        *)
(***************************************************************************)
LEMMA CreatingStep ==
  ASSUME Inv, CreatingIsInProgress, [Next]_vars, session'.status = "creating"
  PROVE  \E e \in Executions : InProgress(e)'
<1>1. TypeOK
  BY DEF Inv
<1>2. CASE UNCHANGED vars
  BY <1>2 DEF CreatingIsInProgress, InProgress, vars
<1>3. CASE Reconciles \/ MuxSessionClosed \/ Restart
  <2>1. ASSUME NEW gitHealthy \in BOOLEAN, NEW muxAlive \in BOOLEAN,
               Reconcile(gitHealthy, muxAlive)
        PROVE  FALSE
    <3>1. Reconciled(gitHealthy, muxAlive)
            \in {Row("broken", {GitUnhealthyError}, 0), Row("inactive", {}, 0),
                 Row("active", {}, 0), session}
      BY DEF Reconciled
    <3>2. session'.status # "creating"
      BY <2>1, <3>1 DEF Reconcile, Row
    <3> QED
      BY <3>2
  <2>2. CASE MuxSessionClosed
    BY <1>1, <2>2 DEF MuxSessionClosed, SessionRows, TypeOK
  <2>3. CASE Restart
    BY <1>1, <2>3 DEF Restart, Recovered, Row, TypeOK
  <2> QED
    BY <1>3, <2>1, <2>2, <2>3 DEF Reconciles
<1>4. ASSUME NEW e \in Executions, RepairCommit(e)
      PROVE  InProgress(e)'
  BY <1>1, <1>4 DEF RepairCommit, Move, InProgress, TypeOK
<1>5. ASSUME NEW e \in Executions, BeginFails(e) \/ Complete(e)
      PROVE  FALSE
  BY <1>1, <1>5 DEF BeginFails, Complete, Row
<1>6. ASSUME NEW e \in Executions, NEW d \in Executions, InProgress(d),
             \/ RepairCheck(e) \/ AddWorkspace(e) \/ Expire(e)
             \/ RunRound(e) \/ RunBackground(e)
             \/ \E defs \in Plans : ListSteps(e, defs)
             \/ ResetSteps(e) \/ DeleteSteps(e) \/ PersistSteps(e)
      PROVE  InProgress(d)'
  <2>1. CASE RepairCheck(e) \/ AddWorkspace(e) \/ Expire(e)
    BY <1>1, <1>6, <2>1 DEF RepairCheck, AddWorkspace, Expire, Move, InProgress, TypeOK
  <2>2. CASE RunRound(e) \/ RunBackground(e)
    BY <1>1, <1>6, <2>2
       DEF RunRound, StartRound, StopRounds, StartStep, FinishStep, EndRound, RunBackground,
           BackgroundDone, BackgroundFails, AppendStatusError, Move, InProgress, TypeOK
  <2>3. CASE \/ \E defs \in Plans : ListSteps(e, defs)
             \/ ResetSteps(e) \/ DeleteSteps(e) \/ PersistSteps(e)
    BY <1>1, <1>6, <2>3
       DEF ListSteps, ResetSteps, DeleteSteps, PersistSteps, Move, InProgress, TypeOK
  <2> QED
    BY <1>6, <2>1, <2>2, <2>3
<1>7. ASSUME NEW e \in Executions,
             \/ RepairCheck(e) \/ AddWorkspace(e) \/ Expire(e)
             \/ RunRound(e) \/ RunBackground(e)
             \/ \E defs \in Plans : ListSteps(e, defs)
             \/ ResetSteps(e) \/ DeleteSteps(e) \/ PersistSteps(e)
      PROVE  session.status = "creating"
  <2>1. CASE RunBackground(e)
    <3>1. session \in SessionRows
      BY <1>1 DEF TypeOK
    <3> QED
      BY <3>1, <2>1
         DEF RunBackground, BackgroundDone, BackgroundFails, AppendStatusError, SessionRows
  <2>2. CASE ~RunBackground(e)
    BY <1>7, <2>2
       DEF RepairCheck, AddWorkspace, Expire, RunRound, StartRound, StopRounds, StartStep,
           FinishStep, EndRound, ListSteps, ResetSteps, DeleteSteps, PersistSteps
  <2> QED
    BY <2>1, <2>2
<1> QED
  BY <1>2, <1>3, <1>4, <1>5, <1>6, <1>7 DEF Next, Execute, PrepareSteps, CreatingIsInProgress

\* A session is only "creating" while an execution is at work: overlapping
\* repairs, additions, early failures, timeouts and restarts all leave it.
THEOREM CreatingEnds == Spec => []CreatingIsInProgress
<1>1. Init => CreatingIsInProgress
  <2> SUFFICES ASSUME Init PROVE \E e \in Executions : InProgress(e)
    BY DEF CreatingIsInProgress
  <2>1. 1 \in Executions
    BY ExecutionsAssumption DEF Executions
  <2>2. phase[1] = "queued"
    BY <2>1 DEF Init
  <2> QED
    BY <2>1, <2>2 DEF InProgress
<1>2. Inv /\ CreatingIsInProgress /\ [Next]_vars => CreatingIsInProgress'
  BY CreatingStep DEF CreatingIsInProgress
<1> QED
  BY <1>1, <1>2, Invariance, PTL DEF Spec

-----------------------------------------------------------------------------
(***************************************************************************)
(* Success means that everything is set up.                                *)
(*                                                                         *)
(* A round ends with its foreground steps, so between rounds none of them  *)
(* runs (RoundOver); a step that is critical and fails breaks the setup    *)
(* (CriticalFailures); and an execution that ends without being broken or  *)
(* out of time had nothing ready (NothingLeft).  With nothing running and  *)
(* nothing ready nothing is pending: the least pending step of a workspace *)
(* would find its dependency ended.                                        *)
(***************************************************************************)
CriticalKinds == {"create_session_dir", "setup_worktree", "setup_mux"}

RoundOver(e) == phase[e] # "round" => RunningForeground(e) = {}

CriticalFailures(e) ==
  \A p \in Positions(e) :
    Kind(e, p) \in CriticalKinds /\ status[e][p] = "failed" => broken[e]

NothingLeft(e) == phase[e] \in {"ending", "finished"} /\ SetUp(e) => ReadySteps(e) = {}

NotBegun(e) ==
  phase[e] \in {"resetting", "replacing", "persisting"} =>
    \A p \in Positions(e) : status[e][p] = "pending"

OutcomeInv(e) == RoundOver(e) /\ CriticalFailures(e) /\ NothingLeft(e) /\ NotBegun(e)

\* A non-empty set of positions has a least member: the one below which there
\* are the fewest numbers, and strict inclusion of finite sets is well founded.
LEMMA LeastMember ==
  ASSUME NEW T, T \subseteq Nat, T # {}
  PROVE  \E x \in T : \A y \in T : x <= y
<1> DEFINE Below(x) == 0 .. x
           F == {Below(x) : x \in T}
           R == StrictSubsetOrdering(Nat)
           D == FiniteSubsetsOf(Nat)
<1>1. IsWellFoundedOn(R, D)
  BY FS_StrictSubsetOrderingWellFounded
<1>2. F \subseteq D /\ F # {}
  <2>1. ASSUME NEW x \in T
        PROVE  Below(x) \in D
    <3>1. IsFiniteSet(0 .. x)
      BY FS_Interval
    <3> QED
      BY <3>1 DEF FiniteSubsetsOf
  <2> QED
    BY <2>1
<1> HIDE DEF R, D
<1>3. PICK f \in F : \A g \in F : ~ (<<g, f>> \in R)
  BY <1>1, <1>2, WFMin
<1>4. PICK x \in T : f = Below(x)
  OBVIOUS
<1>5. ASSUME NEW y \in T, y < x
      PROVE  FALSE
  <2>1. /\ Below(y) \subseteq Below(x) /\ Below(y) # Below(x)
        /\ Below(y) \in SUBSET Nat /\ Below(x) \in SUBSET Nat
    <3>1. x \in Below(x) /\ x \notin Below(y)
      BY <1>5
    <3> QED
      BY <1>5, <3>1
  <2>2. <<Below(y), Below(x)>> \in R
    BY <2>1 DEF R, StrictSubsetOrdering
  <2> QED
    BY <1>3, <1>4, <2>2
<1> QED
  BY <1>5

\* What the steps of a plan depend on: a step of a workspace that runs in the
\* foreground depends on another one, or on the session directory.
LEMMA PlanDependencies ==
  ASSUME TypeOK, NEW e \in Executions, NEW p \in Positions(e)
  PROVE  /\ Background(e, p) => Kind(e, p) = "install_deps"
         /\ Kind(e, p) \in {"setup_worktree", "copy_file", "install_deps", "setup_mux"} =>
              /\ plan[e][p].dep \in Positions(e) /\ plan[e][p].dep < p
              /\ plan[e][p].dep # NoDependency
         /\ Kind(e, p) = "setup_worktree" => Kind(e, plan[e][p].dep) = "create_session_dir"
         /\ Kind(e, p) \in {"copy_file", "install_deps"} /\ ~Background(e, p) =>
              ForegroundWorkspaceStep(e, plan[e][p].dep)
         /\ Kind(e, p) \in WorkspaceKinds <=> plan[e][p].ws # NoWorkspace
<1> DEFINE c == plan[e][p].dep
<1>1. WellFormedStep(plan[e], p) /\ p \in Nat
  BY PlanShape DEF WellFormedPlan, Positions
<1>2. c # NoDependency => c \in Positions(e)
  BY PlanShape
<1>3. Kind(e, p) \in {"setup_worktree", "copy_file", "install_deps", "setup_mux"} =>
        c \in Positions(e) /\ c < p /\ c # NoDependency
  BY <1>1, <1>2 DEF WellFormedStep, Kind, NoDependency
<1>4. Kind(e, p) \in WorkspaceKinds <=> plan[e][p].ws # NoWorkspace
  BY <1>1 DEF WellFormedStep, Kind
<1>5. ASSUME Kind(e, p) \in {"copy_file", "install_deps"}, ~Background(e, p)
      PROVE  ForegroundWorkspaceStep(e, c)
  <2>1. WellFormedStep(plan[e], c)
    BY <1>3, <1>5, PlanShape DEF WellFormedPlan, Positions
  <2>2. plan[e][c].ws = plan[e][p].ws /\ plan[e][p].ws # NoWorkspace
    BY <1>1, <1>4, <1>5 DEF WellFormedStep, Kind, WorkspaceKinds
  <2>3. CASE ForegroundSetup
    BY <2>2, <2>3 DEF ForegroundWorkspaceStep, Background
  <2>4. CASE ~ForegroundSetup
    <3>1. plan[e][p].kind = "copy_file"
      BY <1>1, <1>5, <2>4 DEF WellFormedStep, Kind, Background
    <3>2. plan[e][c].kind \in {"setup_worktree", "copy_file"}
      BY <1>1, <3>1 DEF WellFormedStep
    <3> QED
      BY <2>1, <2>2, <3>2 DEF WellFormedStep, ForegroundWorkspaceStep, Background
  <2> QED
    BY <2>3, <2>4
<1>6. Background(e, p) => Kind(e, p) = "install_deps"
  BY <1>1 DEF WellFormedStep, Kind, Background
<1>7. Kind(e, p) = "setup_worktree" => Kind(e, c) = "create_session_dir"
  BY <1>1 DEF WellFormedStep, Kind
<1> QED
  BY <1>3, <1>4, <1>5, <1>6, <1>7

\* With nothing ready and nothing running in the foreground, every foreground
\* step has ended.
LEMMA NothingPending ==
  ASSUME TypeOK, NEW e \in Executions, RunningForeground(e) = {}, ReadySteps(e) = {},
         NEW p \in Positions(e), ~Background(e, p)
  PROVE  status[e][p] \in Terminal
<1>1. ASSUME NEW q \in Positions(e), ~Background(e, q), status[e][q] \notin Terminal
      PROVE  status[e][q] = "pending" /\ ~Ready(e, q)
  <2>1. status[e][q] \in StepStatus
    BY StepTypes
  <2> QED
    BY <1>1, <2>1 DEF RunningForeground, ReadySteps, StepStatus, Terminal
<1>2. ASSUME NEW q \in Positions(e), Kind(e, q) = "create_session_dir"
      PROVE  status[e][q] \in Terminal
  <2>1. ~Background(e, q)
    BY <1>2, PlanDependencies
  <2> QED
    BY <1>1, <1>2, <2>1 DEF Ready, Kind
<1>3. ASSUME NEW q \in Positions(e), Kind(e, q) = "setup_worktree"
      PROVE  status[e][q] \in Terminal
  <2>1. /\ plan[e][q].dep \in Positions(e) /\ plan[e][q].dep # NoDependency
        /\ Kind(e, plan[e][q].dep) = "create_session_dir" /\ ~Background(e, q)
    BY <1>3, PlanDependencies
  <2>2. status[e][plan[e][q].dep] \in Terminal
    BY <1>2, <2>1
  <2> QED
    BY <1>1, <2>1, <2>2 DEF Ready
<1>4. WorkspacesEnded(e)
  <2> DEFINE T == {x \in Positions(e) : ForegroundWorkspaceStep(e, x) /\ status[e][x] \notin Terminal}
  <2>1. SUFFICES ASSUME T # {} PROVE FALSE
    BY DEF WorkspacesEnded
  <2>2. T \subseteq Nat
    BY PlanShape
  <2>3. PICK x \in T : \A y \in T : x <= y
    BY <2>1, <2>2, LeastMember
  <2> DEFINE c == plan[e][x].dep
  <2>4. ~Background(e, x) /\ Kind(e, x) \in WorkspaceKinds /\ Kind(e, x) # "setup_worktree"
    BY <1>3, PlanDependencies DEF ForegroundWorkspaceStep
  <2>5. c \in Positions(e) /\ c < x /\ c # NoDependency /\ ForegroundWorkspaceStep(e, c)
    BY <2>4, PlanDependencies DEF WorkspaceKinds
  <2>6. x \in Nat /\ c \in Nat
    BY <2>5, PlanShape
  <2>7. status[e][c] \in Terminal
    BY <2>3, <2>5, <2>6
  <2> QED
    BY <1>1, <2>4, <2>5, <2>7 DEF Ready
<1>6. ASSUME NEW q \in Positions(e), Kind(e, q) = "apply_claude"
      PROVE  status[e][q] \in Terminal
  <2>1. plan[e][q].dep = NoDependency /\ ~Background(e, q)
    BY <1>6, MuxPlan, PlanDependencies
  <2> QED
    BY <1>1, <1>4, <1>6, <2>1 DEF Ready, Kind
<1>7. CASE Kind(e, p) = "setup_mux"
  <2>1. /\ plan[e][p].dep \in Positions(e) /\ plan[e][p].dep # NoDependency
        /\ Kind(e, plan[e][p].dep) = "apply_claude"
    BY <1>7, MuxPlan
  <2>2. status[e][plan[e][p].dep] \in Terminal
    BY <1>6, <2>1
  <2> QED
    BY <1>1, <2>1, <2>2 DEF Ready
<1>8. CASE Kind(e, p) \in WorkspaceKinds
  <2>1. ForegroundWorkspaceStep(e, p)
    BY <1>8, PlanDependencies DEF ForegroundWorkspaceStep
  <2> QED
    BY <1>4, <2>1 DEF WorkspacesEnded
<1> QED
  BY <1>2, <1>6, <1>7, <1>8, PlanShape DEF StepKinds, WorkspaceKinds

\* An execution without steps satisfies its part trivially.
LEMMA OutcomeEmpty ==
  ASSUME NEW e \in Executions, Positions(e)' = {}
  PROVE  OutcomeInv(e)'
BY DEF OutcomeInv, RoundOver, CriticalFailures, NothingLeft, NotBegun, RunningForeground, ReadySteps

\* It is kept when nothing of it changes.
LEMMA OutcomeUnchanged ==
  ASSUME NEW e \in Executions, OutcomeInv(e),
         phase'[e] = phase[e], plan'[e] = plan[e], status'[e] = status[e],
         broken'[e] = broken[e], expired'[e] = expired[e]
  PROVE  OutcomeInv(e)'
BY DEF OutcomeInv, RoundOver, CriticalFailures, NothingLeft, NotBegun, RunningForeground,
       ReadySteps, Ready, SetUp, Positions, Kind, Background, WorkspacesEnded, ForegroundWorkspaceStep

\* A phase is entered with its steps as they were.
LEMMA OutcomeMoves ==
  ASSUME NEW e \in Executions, OutcomeInv(e),
         plan'[e] = plan[e], status'[e] = status[e],
         broken'[e] = broken[e], expired[e] => expired'[e],
         phase'[e] # "round" => RunningForeground(e) = {},
         phase'[e] \in {"resetting", "replacing", "persisting"} =>
           phase[e] \in {"resetting", "replacing", "persisting"},
         phase'[e] \in {"ending", "finished"} /\ SetUp(e)' => ReadySteps(e) = {}
  PROVE  OutcomeInv(e)'
<1>1. /\ Positions(e)' = Positions(e) /\ ReadySteps(e)' = ReadySteps(e)
      /\ RunningForeground(e)' = RunningForeground(e)
      /\ \A p \in Positions(e) : Kind(e, p)' = Kind(e, p)
  BY DEF Positions, ReadySteps, Ready, RunningForeground, Kind, Background, WorkspacesEnded,
         ForegroundWorkspaceStep
<1>2. CriticalFailures(e)' /\ NotBegun(e)'
  BY <1>1 DEF OutcomeInv, CriticalFailures, NotBegun
<1> QED
  BY <1>1, <1>2 DEF OutcomeInv, RoundOver, NothingLeft

\* A step starts or ends within a round; one that is critical and fails breaks the setup.
LEMMA OutcomeOfStep ==
  ASSUME TypeOK, NEW e \in Executions, OutcomeInv(e), NEW s \in Positions(e),
         \/ StartStep(e, s)
         \/ \E outcome \in Outcomes(Kind(e, s)) : FinishStep(e, s, outcome)
  PROVE  OutcomeInv(e)'
<1>1. /\ phase'[e] = "round" /\ Positions(e)' = Positions(e)
      /\ \A p \in Positions(e) : Kind(e, p)' = Kind(e, p)
  BY DEF StartStep, FinishStep, prepared, Positions, Kind
<1>2. ASSUME StartStep(e, s)
      PROVE  CriticalFailures(e)'
  <2>1. broken' = broken /\ \A p \in Positions(e) : status'[e][p] = "failed" => status[e][p] = "failed"
    BY <1>2 DEF StartStep, TypeOK
  <2> QED
    BY <1>1, <2>1 DEF OutcomeInv, CriticalFailures
<1>3. ASSUME NEW outcome \in Outcomes(Kind(e, s)), FinishStep(e, s, outcome)
      PROVE  CriticalFailures(e)'
  <2>1. /\ broken'[e] = (broken[e] \/ outcome.critical)
        /\ \A p \in Positions(e) : status'[e][p] = IF p = s THEN outcome.status ELSE status[e][p]
    BY <1>3 DEF FinishStep, TypeOK
  <2>2. Kind(e, s) \in CriticalKinds /\ outcome.status = "failed" => outcome.critical
    BY CriticalOutcomes DEF CriticalKinds
  <2> QED
    BY <1>1, <2>1, <2>2 DEF OutcomeInv, CriticalFailures
<1> QED
  BY <1>1, <1>2, <1>3 DEF OutcomeInv, RoundOver, NothingLeft, NotBegun

LEMMA OwnOutcome ==
  ASSUME Inv, NEW e \in Executions, OutcomeInv(e),
         \/ RepairCheck(e) \/ RepairCommit(e) \/ AddWorkspace(e) \/ Expire(e)
         \/ Execute(e) \/ RunBackground(e)
  PROVE  OutcomeInv(e)'
<1>1. TypeOK /\ Unplanned(e)
  BY DEF Inv, ExecutionInv
<1>2. CASE RepairCheck(e) \/ RepairCommit(e) \/ AddWorkspace(e) \/ BeginFails(e)
  <2>1. plan' = plan /\ phase[e] \in {"idle", "repairing", "queued", "adding"}
    BY <1>2 DEF RepairCheck, RepairCommit, AddWorkspace, BeginFails, Move, prepared
  <2> QED
    BY <1>1, <2>1, OutcomeEmpty DEF Unplanned, Positions
<1>3. CASE Expire(e)
  <2>1. /\ plan' = plan /\ status' = status /\ broken' = broken /\ phase' = phase
        /\ phase[e] \in {"ready", "ending"} /\ expired'[e]
    BY <1>1, <1>3 DEF Expire, prepared, progress, TypeOK
  <2> QED
    BY <2>1, OutcomeMoves DEF OutcomeInv, RoundOver, SetUp
<1>4. ASSUME NEW defs \in Plans, ListSteps(e, defs)
      PROVE  OutcomeInv(e)'
  <2>1. /\ phase'[e] \in {"resetting", "replacing"}
        /\ \A p \in Positions(e)' : status'[e][p] = "pending"
    BY <1>1, <1>4 DEF ListSteps, Positions, TypeOK
  <2> QED
    BY <2>1 DEF OutcomeInv, RoundOver, CriticalFailures, NothingLeft, NotBegun, RunningForeground
<1>5. CASE ResetSteps(e) \/ DeleteSteps(e) \/ PersistSteps(e)
  <2>1. /\ plan' = plan /\ status' = status /\ broken' = broken /\ expired' = expired
        /\ phase[e] \in {"resetting", "replacing", "persisting"}
        /\ phase'[e] \in {"persisting", "ready"}
    BY <1>1, <1>5 DEF ResetSteps, DeleteSteps, PersistSteps, Move, prepared, progress, TypeOK
  <2> QED
    BY <2>1, OutcomeMoves DEF OutcomeInv, RoundOver
<1>6. CASE StartRound(e) \/ StopRounds(e) \/ EndRound(e) \/ Complete(e)
  <2>1. /\ plan' = plan /\ status' = status /\ broken' = broken /\ expired' = expired
        /\ phase'[e] \in {"round", "ready", "ending", "finished"}
    BY <1>1, <1>6 DEF StartRound, StopRounds, EndRound, Complete, Move, prepared, progress, TypeOK
  <2>2. phase'[e] # "round" => RunningForeground(e) = {}
    BY <1>1, <1>6 DEF StartRound, StopRounds, EndRound, Complete, Move, TypeOK, OutcomeInv, RoundOver
  <2>3. phase'[e] \in {"ending", "finished"} /\ SetUp(e)' => ReadySteps(e) = {}
    BY <1>1, <1>6, <2>1
       DEF StartRound, StopRounds, EndRound, Complete, Move, TypeOK, OutcomeInv, NothingLeft, SetUp
  <2> QED
    BY <2>1, <2>2, <2>3, OutcomeMoves
<1>7. ASSUME NEW s \in Positions(e),
             \/ StartStep(e, s)
             \/ \E outcome \in Outcomes(Kind(e, s)) : FinishStep(e, s, outcome)
      PROVE  OutcomeInv(e)'
  BY <1>1, <1>7, OutcomeOfStep
<1>8. CASE RunBackground(e)
  BY <1>8, OutcomeUnchanged
     DEF RunBackground, BackgroundDone, BackgroundFails, AppendStatusError, prepared, progress
<1> QED
  BY <1>2, <1>3, <1>4, <1>5, <1>6, <1>7, <1>8 DEF Execute, PrepareSteps, RunRound

LEMMA NextOutcome ==
  ASSUME Inv, [Next]_vars, NEW d \in Executions, OutcomeInv(d)
  PROVE  OutcomeInv(d)'
<1>1. CASE UNCHANGED vars \/ Reconciles \/ MuxSessionClosed
  BY <1>1, OutcomeUnchanged
     DEF vars, Reconciles, Reconcile, MuxSessionClosed, prepared, progress, background
<1>2. CASE Restart
  <2>1. Positions(d)' = {}
    BY <1>2 DEF Restart, Positions
  <2> QED
    BY <2>1, OutcomeEmpty
<1>3. ASSUME NEW e \in Executions,
             \/ RepairCheck(e) \/ RepairCommit(e) \/ AddWorkspace(e) \/ Expire(e)
             \/ Execute(e) \/ RunBackground(e)
      PROVE  OutcomeInv(d)'
  <2>1. CASE d = e
    BY <1>3, <2>1, OwnOutcome
  <2>2. CASE d # e
    BY <1>3, <2>2, OwnSteps, OutcomeUnchanged DEF Inv
  <2> QED
    BY <2>1, <2>2
<1> QED
  BY <1>1, <1>2, <1>3 DEF Next

\* An execution that reports success has ended every foreground step of its
\* plan, and its session directory, its worktrees and its terminal are there:
\* for every well-formed plan, and however repairs, additions, time limits and
\* restarts interleave.
THEOREM SuccessIsComplete == Spec => []SuccessMeansSetUp
<1> DEFINE Outcome == \A e \in Executions : OutcomeInv(e)
<1>1. Init => Outcome
  <2> SUFFICES ASSUME Init, NEW e \in Executions PROVE OutcomeInv(e)
    OBVIOUS
  <2>1. Positions(e) = {}
    BY DEF Init, Positions
  <2> QED
    BY <2>1 DEF OutcomeInv, RoundOver, CriticalFailures, NothingLeft, NotBegun, RunningForeground,
                ReadySteps
<1>2. Inv /\ Outcome /\ [Next]_vars => Outcome'
  BY NextOutcome
<1>3. Inv /\ Outcome => SuccessMeansSetUp
  <2> SUFFICES ASSUME Inv, NEW e \in Executions, OutcomeInv(e), SetUp(e),
                      phase[e] = "finished" \/ (phase[e] = "ending" /\ ReadySteps(e) = {}),
                      NEW p \in Positions(e)
      PROVE  /\ ~Background(e, p) => status[e][p] \in Terminal
             /\ Kind(e, p) \in CriticalKinds => status[e][p] = "done"
    BY DEF SuccessMeansSetUp, CriticalKinds
  <2>1. TypeOK /\ ReadySteps(e) = {} /\ RunningForeground(e) = {}
    BY DEF Inv, OutcomeInv, NothingLeft, RoundOver
  <2>2. ~Background(e, p) => status[e][p] \in Terminal
    BY <2>1, NothingPending
  <2>3. ASSUME Kind(e, p) \in CriticalKinds
        PROVE  status[e][p] = "done"
    <3>1. ~Background(e, p)
      BY <2>1, <2>3, PlanDependencies DEF CriticalKinds
    <3> QED
      BY <2>2, <2>3, <3>1 DEF OutcomeInv, CriticalFailures, SetUp, Terminal
  <2> QED
    BY <2>2, <2>3
<1> HIDE DEF Outcome
<1> QED
  BY <1>1, <1>2, <1>3, Invariance, PTL DEF Spec

-----------------------------------------------------------------------------
(***************************************************************************)
(* No failure is lost.                                                     *)
(*                                                                         *)
(* A step of e that has failed is accounted for (Accounted): its error is  *)
(* still to be appended, or e has not finished and has it among its        *)
(* warnings or is broken, or the session row shows it as long as it shows  *)
(* the outcome of e.  Only Complete makes it do so, before any error is    *)
(* appended (OutcomeOfSession); what other executions do meanwhile does    *)
(* not matter.                                                             *)
(***************************************************************************)
Reporting(e) == session.by = e /\ session.status = "active"

HasFailed(e, p) == status[e][p] = "failed" \/ p \in fell[e]

Accounted(e, p) ==
  \/ p \in failed[e]
  \/ phase[e] # "finished" /\ (broken[e] \/ p \in warnings[e])
  \/ phase[e] = "finished" /\ (Reporting(e) => Message(e, p) \in session.error)

ReportsWhenFinished(e) ==
  session.by = e => phase[e] = "finished" \/ (phase[e] = "lost" /\ plan[e] = <<>>)

FailureKept(e) == \A p \in Positions(e) : HasFailed(e, p) => Accounted(e, p)

ReportInv(e) == ReportsWhenFinished(e) /\ FailureKept(e)

\* An execution's own step.
Acts(e) ==
  \/ RepairCheck(e) \/ RepairCommit(e) \/ AddWorkspace(e) \/ Expire(e)
  \/ Execute(e) \/ RunBackground(e)

\* Who writes the session row: unless e reports its own outcome, the row shows
\* it only as far as it did, and with no message less.
LEMMA OutcomeOfSession ==
  ASSUME TypeOK, [Next]_vars, NEW e \in Executions, session'.by = e, ~Complete(e), ~BeginFails(e)
  PROVE  /\ session.by = e
         /\ Reporting(e)' => Reporting(e) /\ session.error \subseteq session'.error
<1>1. e # 0 /\ session \in SessionRows
  BY ExecutionsAssumption DEF Executions, TypeOK
<1>2. CASE session' = session
  BY <1>2 DEF Reporting
<1>3. ASSUME NEW d \in Executions, RepairCommit(d)
      PROVE  FALSE
  BY <1>1, <1>3 DEF RepairCommit, Row
<1>4. ASSUME NEW d \in Executions, Complete(d) \/ BeginFails(d)
      PROVE  FALSE
  <2>1. session'.by = d
    BY <1>4 DEF Complete, BeginFails, Row
  <2> QED
    BY <1>4, <2>1
<1>5. ASSUME NEW gitHealthy \in BOOLEAN, NEW muxAlive \in BOOLEAN, Reconcile(gitHealthy, muxAlive)
      PROVE  session' = session
  <2>1. session' \in {Row("broken", {GitUnhealthyError}, 0), Row("inactive", {}, 0),
                      Row("active", {}, 0), session}
    BY <1>5 DEF Reconcile, Reconciled
  <2> QED
    BY <1>1, <2>1 DEF Row
<1>6. CASE MuxSessionClosed
  BY <1>1, <1>6 DEF MuxSessionClosed, SessionRows, Reporting
<1>7. CASE Restart
  BY <1>1, <1>2, <1>7 DEF Restart, Recovered, Row
<1>8. ASSUME NEW d \in Executions, NEW p \in Positions(d), AppendStatusError(d, p)
      PROVE  session.by = e /\ (Reporting(e)' => Reporting(e) /\ session.error \subseteq session'.error)
  BY <1>1, <1>2, <1>8 DEF AppendStatusError, SessionRows, Reporting
<1>9. ASSUME NEW d \in Executions,
             \/ RepairCheck(d) \/ AddWorkspace(d) \/ Expire(d) \/ RunRound(d)
             \/ \E defs \in Plans : ListSteps(d, defs)
             \/ ResetSteps(d) \/ DeleteSteps(d) \/ PersistSteps(d)
             \/ \E p \in Positions(d) : BackgroundDone(d, p) \/ BackgroundFails(d, p)
      PROVE  session' = session
  BY <1>9 DEF RepairCheck, AddWorkspace, Expire, RunRound, StartRound, StopRounds, StartStep,
              FinishStep, EndRound, ListSteps, ResetSteps, DeleteSteps, PersistSteps,
              BackgroundDone, BackgroundFails
<1> QED
  BY <1>2, <1>3, <1>4, <1>5, <1>6, <1>7, <1>8, <1>9
     DEF Next, Reconciles, Execute, PrepareSteps, RunBackground, vars

LEMMA ReportsKept ==
  ASSUME Inv, NEW e \in Executions, [Next]_vars, ReportInv(e)
  PROVE  ReportsWhenFinished(e)'
<1>1. TypeOK /\ Unplanned(e)
  BY DEF Inv, ExecutionInv
<1>2. CASE Restart
  <2>1. plan'[e] = <<>> /\ phase'[e] \in {"idle", "lost"}
    BY <1>2 DEF Restart
  <2>2. ASSUME session'.by = e
        PROVE  phase'[e] = "lost"
    <3>1. ~Complete(e) /\ ~BeginFails(e)
      BY <1>1, <2>1 DEF Complete, BeginFails, Move, TypeOK
    <3>2. phase[e] \in {"finished", "lost"}
      BY <1>1, <2>2, <3>1, OutcomeOfSession DEF ReportInv, ReportsWhenFinished
    <3> QED
      BY <1>2, <3>2 DEF Restart
  <2> QED
    BY <2>1, <2>2 DEF ReportsWhenFinished
<1>3. CASE UNCHANGED vars \/ Reconciles \/ MuxSessionClosed
  <2>1. phase' = phase /\ plan' = plan
    BY <1>3 DEF vars, Reconciles, Reconcile, MuxSessionClosed, prepared
  <2>2. ~Complete(e) /\ ~BeginFails(e)
    BY <1>1, <2>1 DEF Complete, BeginFails, Move, TypeOK
  <2>3. session'.by = e => session.by = e
    BY <1>1, <2>2, OutcomeOfSession
  <2> QED
    BY <2>1, <2>3 DEF ReportInv, ReportsWhenFinished
<1>4. ASSUME NEW d \in Executions, Acts(d), d # e
      PROVE  ReportsWhenFinished(e)'
  <2>1. phase'[e] = phase[e] /\ plan'[e] = plan[e]
    BY <1>1, <1>4, OwnSteps DEF Acts
  <2>2. ~Complete(e) /\ ~BeginFails(e)
    BY <1>1, <2>1 DEF Complete, BeginFails, Move, TypeOK
  <2>3. session'.by = e => session.by = e
    BY <1>1, <2>2, OutcomeOfSession
  <2> QED
    BY <2>1, <2>3 DEF ReportInv, ReportsWhenFinished
<1>5. CASE Acts(e)
  <2>1. CASE Complete(e) \/ BeginFails(e)
    BY <1>1, <2>1 DEF Complete, BeginFails, Move, TypeOK, ReportsWhenFinished
  <2>2. ASSUME ~Complete(e), ~BeginFails(e), session'.by = e
        PROVE  phase'[e] = "finished" \/ (phase'[e] = "lost" /\ plan'[e] = <<>>)
    <3>1. phase[e] = "finished" \/ (phase[e] = "lost" /\ plan[e] = <<>>)
      BY <1>1, <2>2, OutcomeOfSession DEF ReportInv, ReportsWhenFinished
    <3>2. ~RepairCheck(e) /\ ~RepairCommit(e) /\ ~AddWorkspace(e) /\ ~Expire(e)
      BY <3>1 DEF RepairCheck, RepairCommit, AddWorkspace, Expire, Move
    <3>3. ~PrepareSteps(e) /\ ~RunRound(e)
      BY <2>2, <3>1
         DEF PrepareSteps, ListSteps, ResetSteps, DeleteSteps, PersistSteps, RunRound,
             StartRound, StopRounds, StartStep, FinishStep, EndRound, Move
    <3>4. RunBackground(e)
      BY <1>5, <2>2, <3>2, <3>3 DEF Acts, Execute
    <3>5. phase' = phase /\ plan' = plan
      BY <3>4 DEF RunBackground, BackgroundDone, BackgroundFails, AppendStatusError, prepared
    <3> QED
      BY <3>1, <3>5
  <2> QED
    BY <2>1, <2>2 DEF ReportsWhenFinished
<1> QED
  BY <1>2, <1>3, <1>4, <1>5 DEF Next, Acts

\* What an execution accounts for stays accounted for as long as none of its steps fails
\* and the session row goes on showing its outcome.
LEMMA FailureStays ==
  ASSUME NEW e \in Executions, FailureKept(e),
         plan'[e] = plan[e], status'[e] = status[e], fell'[e] = fell[e],
         phase'[e] = phase[e] \/ (phase[e] # "finished" /\ phase'[e] # "finished"),
         warnings'[e] = warnings[e], broken'[e] = broken[e], failed'[e] = failed[e],
         Reporting(e)' => Reporting(e) /\ session.error \subseteq session'.error
  PROVE  FailureKept(e)'
<1>1. \A p : Accounted(e, p) => Accounted(e, p)'
  BY DEF Accounted, Message
<1>2. Positions(e)' = Positions(e) /\ \A p : HasFailed(e, p)' <=> HasFailed(e, p)
  BY DEF Positions, HasFailed
<1> QED
  BY <1>1, <1>2 DEF FailureKept

\* The steps of e within its rounds: a failure leaves a warning or breaks the setup.
LEMMA RoundKeepsFailures ==
  ASSUME TypeOK, NEW e \in Executions, FailureKept(e), NEW s \in Positions(e),
         \/ StartStep(e, s)
         \/ \E outcome \in Outcomes(Kind(e, s)) : FinishStep(e, s, outcome)
  PROVE  FailureKept(e)'
<1>1. /\ plan' = plan /\ phase' = phase /\ phase[e] = "round"
      /\ failed' = failed /\ fell' = fell /\ Positions(e)' = Positions(e)
  BY DEF StartStep, FinishStep, prepared, background, Positions
<1>2. SUFFICES ASSUME NEW p \in Positions(e), HasFailed(e, p)'
               PROVE  Accounted(e, p)'
  BY <1>1 DEF FailureKept
<1>3. HasFailed(e, p) => p \in failed[e] \/ broken[e] \/ p \in warnings[e]
  BY <1>1, <1>2 DEF FailureKept, Accounted
<1>4. CASE StartStep(e, s)
  <2>1. /\ status'[e] = [status[e] EXCEPT ![s] = "running"]
        /\ warnings' = warnings /\ broken' = broken
    BY <1>4 DEF StartStep, TypeOK
  <2>2. HasFailed(e, p)
    BY <1>1, <1>2, <2>1 DEF HasFailed, TypeOK
  <2> QED
    BY <1>1, <1>3, <2>1, <2>2 DEF Accounted
<1>5. ASSUME NEW outcome \in Outcomes(Kind(e, s)), FinishStep(e, s, outcome)
      PROVE  Accounted(e, p)'
  <2>1. /\ status'[e] = [status[e] EXCEPT ![s] = outcome.status]
        /\ broken'[e] = (broken[e] \/ outcome.critical)
        /\ warnings'[e] = IF outcome.warns THEN warnings[e] \cup {s} ELSE warnings[e]
    BY <1>5 DEF FinishStep, TypeOK
  <2>2. HasFailed(e, p) \/ (p = s /\ outcome.status = "failed")
    BY <1>1, <1>2, <2>1 DEF HasFailed, TypeOK
  <2>3. outcome.status = "failed" => outcome.warns \/ outcome.critical
    BY FailureIsNoticed
  <2>4. p \in failed[e] \/ broken'[e] \/ p \in warnings'[e]
    BY <1>3, <2>1, <2>2, <2>3
  <2> QED
    BY <1>1, <2>4 DEF Accounted
<1> QED
  BY <1>4, <1>5

\* The end of an execution: its warnings become the messages of the session.
LEMMA CompleteKeepsFailures ==
  ASSUME TypeOK, NEW e \in Executions, FailureKept(e), Complete(e)
  PROVE  FailureKept(e)'
<1>1. /\ plan' = plan /\ status' = status /\ warnings' = warnings /\ fell' = fell
      /\ broken' = broken /\ failed' = failed /\ phase[e] = "ending" /\ phase'[e] = "finished"
  BY DEF Complete, Move, TypeOK, prepared, progress, background
<1>2. SUFFICES ASSUME NEW p \in Positions(e), HasFailed(e, p)
               PROVE  Accounted(e, p)'
  BY <1>1 DEF FailureKept, Positions, HasFailed
<1>3. p \in failed[e] \/ broken[e] \/ p \in warnings[e]
  BY <1>1, <1>2 DEF FailureKept, Accounted
<1>4. CASE SetUp(e)
  <2>1. session' = Row("active", {Message(e, x) : x \in warnings[e]}, e) /\ ~broken[e]
    BY <1>4 DEF Complete, SetUp
  <2> QED
    BY <1>1, <1>3, <2>1 DEF Accounted, Row, Message
<1>5. CASE ~SetUp(e)
  <2>1. session'.status = "broken"
    BY <1>5 DEF Complete, Row
  <2> QED
    BY <1>1, <2>1 DEF Accounted, Reporting
<1> QED
  BY <1>4, <1>5

\* A background step that fails waits to append its error, and then appends it
\* if the session is active.
LEMMA BackgroundKeepsFailures ==
  ASSUME TypeOK, NEW e \in Executions, FailureKept(e), NEW s \in Positions(e),
         BackgroundDone(e, s) \/ BackgroundFails(e, s) \/ AppendStatusError(e, s)
  PROVE  FailureKept(e)'
<1>1. /\ plan' = plan /\ status' = status /\ phase' = phase /\ warnings' = warnings
      /\ broken' = broken /\ Positions(e)' = Positions(e)
  BY DEF BackgroundDone, BackgroundFails, AppendStatusError, prepared, progress, Positions
<1>2. SUFFICES ASSUME NEW p \in Positions(e), HasFailed(e, p)'
               PROVE  Accounted(e, p)'
  BY <1>1 DEF FailureKept
<1>3. HasFailed(e, p) => Accounted(e, p)
  BY <1>2 DEF FailureKept
<1>4. CASE BackgroundDone(e, s)
  <2>1. session' = session /\ failed' = failed /\ fell' = fell
    BY <1>4 DEF BackgroundDone
  <2> QED
    BY <1>1, <1>2, <1>3, <2>1 DEF HasFailed, Accounted, Reporting
<1>5. CASE BackgroundFails(e, s)
  <2>1. /\ session' = session /\ failed'[e] = failed[e] \cup {s}
        /\ fell'[e] = fell[e] \cup {s}
    BY <1>5 DEF BackgroundFails, TypeOK
  <2> QED
    BY <1>1, <1>2, <1>3, <2>1 DEF HasFailed, Accounted, Reporting
<1>6. CASE AppendStatusError(e, s)
  <2>1. /\ fell' = fell /\ phase[e] = "finished" /\ failed'[e] = failed[e] \ {s}
        /\ session' = IF session.status = "active"
                      THEN [session EXCEPT !.error = session.error \cup {Message(e, s)}]
                      ELSE session
    BY <1>6 DEF AppendStatusError, TypeOK
  <2>2. Accounted(e, p)
    BY <1>1, <1>2, <1>3, <2>1 DEF HasFailed
  <2>3. Reporting(e)' => Reporting(e) /\ session'.error = session.error \cup {Message(e, s)}
    BY <2>1 DEF Reporting, TypeOK, SessionRows
  <2> QED
    BY <1>1, <2>1, <2>2, <2>3 DEF Accounted, Message
<1> QED
  BY <1>4, <1>5, <1>6

LEMMA FailuresKept ==
  ASSUME Inv, NEW e \in Executions, [Next]_vars, ReportInv(e)
  PROVE  FailureKept(e)'
<1>1. TypeOK /\ Unplanned(e) /\ FailureKept(e)
  BY DEF Inv, ExecutionInv, ReportInv
<1>2. ~Complete(e) /\ ~BeginFails(e) =>
        (Reporting(e)' => Reporting(e) /\ session.error \subseteq session'.error)
  BY <1>1, OutcomeOfSession DEF Reporting
<1>3. CASE Restart
  <2>1. plan'[e] = <<>>
    BY <1>3 DEF Restart
  <2> QED
    BY <2>1 DEF FailureKept, Positions
<1>4. CASE UNCHANGED vars \/ Reconciles \/ MuxSessionClosed
  <2>1. /\ phase' = phase /\ plan' = plan /\ status' = status /\ warnings' = warnings
        /\ broken' = broken /\ failed' = failed /\ fell' = fell
    BY <1>4 DEF vars, Reconciles, Reconcile, MuxSessionClosed, prepared, progress, background
  <2>2. ~Complete(e) /\ ~BeginFails(e)
    BY <1>1, <2>1 DEF Complete, BeginFails, Move, TypeOK
  <2> QED
    BY <1>1, <1>2, <2>1, <2>2, FailureStays
<1>5. ASSUME NEW d \in Executions, d # e, Acts(d)
      PROVE  FailureKept(e)'
  <2>1. /\ phase'[e] = phase[e] /\ plan'[e] = plan[e] /\ status'[e] = status[e]
        /\ warnings'[e] = warnings[e] /\ broken'[e] = broken[e] /\ failed'[e] = failed[e]
        /\ fell'[e] = fell[e]
    BY <1>1, <1>5, OwnSteps DEF Acts
  <2>2. ~Complete(e) /\ ~BeginFails(e)
    BY <1>1, <2>1 DEF Complete, BeginFails, Move, TypeOK
  <2> QED
    BY <1>1, <1>2, <2>1, <2>2, FailureStays
<1>6. CASE Acts(e)
  <2>1. ASSUME NEW defs \in Plans, ListSteps(e, defs)
        PROVE  FailureKept(e)'
    <3>1. Positions(e) = {} /\ fell[e] = {}
      BY <1>1, <2>1 DEF ListSteps, Unplanned, Positions, TypeOK
    <3>2. /\ plan'[e] = defs /\ fell' = fell
          /\ status'[e] = [p \in DOMAIN defs |-> "pending"]
      BY <1>1, <2>1 DEF ListSteps, TypeOK, background
    <3> QED
      BY <3>1, <3>2 DEF FailureKept, Positions, HasFailed
  <2>2. CASE BeginFails(e)
    <3>1. plan'[e] = <<>>
      BY <1>1, <2>2 DEF BeginFails, Unplanned, prepared
    <3> QED
      BY <3>1 DEF FailureKept, Positions
  <2>3. CASE Complete(e)
    BY <1>1, <2>3, CompleteKeepsFailures
  <2>4. CASE RepairCheck(e) \/ RepairCommit(e) \/ AddWorkspace(e) \/ Expire(e)
    <3>1. /\ plan' = plan /\ status' = status /\ warnings' = warnings
          /\ broken' = broken /\ failed' = failed /\ fell' = fell
      BY <2>4 DEF RepairCheck, RepairCommit, AddWorkspace, Expire, prepared, progress, background
    <3>2. phase'[e] = phase[e] \/ (phase[e] # "finished" /\ phase'[e] # "finished")
      BY <1>1, <2>4 DEF RepairCheck, RepairCommit, AddWorkspace, Expire, Move, TypeOK
    <3>3. ~Complete(e) /\ ~BeginFails(e)
      BY <1>1, <2>4, <3>1, <3>2 DEF RepairCheck, RepairCommit, AddWorkspace, Expire, Complete, BeginFails, Move, TypeOK
    <3> QED
      BY <1>1, <1>2, <3>1, <3>2, <3>3, FailureStays
  <2>5. CASE ResetSteps(e) \/ DeleteSteps(e) \/ PersistSteps(e) \/ StartRound(e) \/ StopRounds(e) \/ EndRound(e)
    <3>1. /\ plan' = plan /\ status' = status /\ warnings' = warnings
          /\ broken' = broken /\ failed' = failed /\ fell' = fell /\ session' = session
      BY <2>5 DEF ResetSteps, DeleteSteps, PersistSteps, StartRound, StopRounds, EndRound,
                  prepared, progress, background
    <3>2. phase[e] # "finished" /\ phase'[e] # "finished"
      BY <1>1, <2>5 DEF ResetSteps, DeleteSteps, PersistSteps, StartRound, StopRounds, EndRound, Move, TypeOK
    <3> QED
      BY <1>1, <3>1, <3>2, FailureStays DEF Reporting
  <2>6. CASE \E s \in Positions(e) :
               \/ StartStep(e, s)
               \/ \E outcome \in Outcomes(Kind(e, s)) : FinishStep(e, s, outcome)
    BY <1>1, <2>6, RoundKeepsFailures
  <2>7. CASE RunBackground(e)
    BY <1>1, <2>7, BackgroundKeepsFailures DEF RunBackground
  <2> QED
    BY <1>6, <2>1, <2>2, <2>3, <2>4, <2>5, <2>6, <2>7 DEF Acts, Execute, PrepareSteps, RunRound
<1> QED
  BY <1>3, <1>4, <1>5, <1>6 DEF Next, Acts

\* However many executions overlap, while the session row shows the outcome of one of them,
\* every step of it that has failed, also in the background and after the end, has its
\* message there or still waits to append it.
THEOREM FailuresAreReported == Spec => []FailureIsReported
<1> DEFINE Report == \A e \in Executions : ReportInv(e)
<1>1. Init => Report
  <2> SUFFICES ASSUME Init, NEW e \in Executions PROVE ReportInv(e)
    OBVIOUS
  <2>1. Positions(e) = {} /\ session.by = 0 /\ e # 0
    BY ExecutionsAssumption DEF Init, Positions, Row, Executions
  <2> QED
    BY <2>1 DEF ReportInv, ReportsWhenFinished, FailureKept
<1>2. Inv /\ Report /\ [Next]_vars => Report'
  BY ReportsKept, FailuresKept DEF ReportInv
<1>3. Inv /\ Report => FailureIsReported
  <2> SUFFICES ASSUME NEW e \in Executions, ReportInv(e), session.by = e, session.status = "active",
                      NEW p \in Positions(e), HasFailed(e, p)
      PROVE  p \in failed[e] \/ Message(e, p) \in session.error
    BY DEF FailureIsReported, HasFailed
  <2>1. phase[e] = "finished" /\ Reporting(e)
    BY DEF ReportInv, ReportsWhenFinished, Positions, Reporting
  <2> QED
    BY <2>1 DEF ReportInv, FailureKept, Accounted
<1> HIDE DEF Report
<1> QED
  BY <1>1, <1>2, <1>3, Invariance, PTL DEF Spec

=============================================================================
