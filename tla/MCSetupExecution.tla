-------------------------- MODULE MCSetupExecution --------------------------
(***************************************************************************)
(* Instances of SetupExecution: plans built by SetupPlan from small        *)
(* configurations.                                                         *)
(***************************************************************************)
EXTENDS SetupExecution

\* Two workspaces, the first with its actions in the order opposite to the plan's.
TwoWorkspacePlans ==
  {BuildSetupSteps(<<"web", "api">>, [web |-> <<"install_deps", "copy_file">>, api |-> <<>>])}

\* One workspace: with one background step, with two, without any action.
InstallPlans    == {BuildSetupSteps(<<"web">>, [web |-> <<"install_deps">>])}
TwoInstallPlans == {BuildSetupSteps(<<"web">>, [web |-> <<"install_deps", "install_deps">>])}
PlainPlans      == {BuildSetupSteps(<<"web">>, [web |-> <<>>])}

\* A workspace added later.
AddedPlans == {BuildWorkspaceSetupSteps(<<"docs">>, [docs |-> <<>>])}

NoPlans == {}

\* Overlapping executions.  Bound: the deadline passes in the second one only; that of a
\* first setup is in the run of all outcomes.
OverlapSpec == Init /\ [][Next /\ ~expired'[1]]_vars

\* No session is being set up: for runs in which other parts move.
NoSetup ==
  /\ session = Row("inactive", {}, 0)
  /\ spawned = FALSE
  /\ rows = {}
  /\ owner = 0
  /\ phase = [e \in Executions |-> "idle"]
  /\ plan = [e \in Executions |-> <<>>] /\ ids = plan /\ status = plan
  /\ starting = [e \in Executions |-> {}] /\ warnings = starting
  /\ running = starting /\ failed = starting /\ fell = starting
  /\ broken = [e \in Executions |-> FALSE] /\ expired = broken

(***************************************************************************)
(* Every plan of up to three workspaces with up to two actions each is   *)
(* well formed: SetupExecution's assumption on its plans is what the       *)
(* builder delivers.                                                       *)
(***************************************************************************)
SmallActions == UNION {[1 .. n -> {"copy_file", "install_deps"}] : n \in 0 .. 2}

ASSUME BuilderAssumption ==
  \A workspaces \in {<<"web">>, <<"web", "api">>, <<"web", "api", "docs">>} :
    \A configs \in [{workspaces[i] : i \in DOMAIN workspaces} -> SmallActions] :
      /\ WellFormedPlan(BuildSetupSteps(workspaces, configs))
      /\ WellFormedPlan(BuildWorkspaceSetupSteps(workspaces, configs))
=============================================================================
