------------------------------ MODULE SetupPlan ------------------------------
(***************************************************************************)
(* The plan of a session setup: the sequence of step definitions that      *)
(* internal/session/setupstepdefinition.go derives from a session's        *)
(* workspaces and from the setup_actions of their .utena/config.json.      *)
(* Pure operators, without state.                                          *)
(*                                                                         *)
(* Positions count from 1 here and from 0 in the code; NoDependency stands *)
(* for a nil DependsOnPos and NoWorkspace for a nil WorkspaceID.  Labels,  *)
(* file names and package managers are left out.                           *)
(***************************************************************************)
EXTENDS Naturals, Sequences, SequencesExt

NoDependency == 0
NoWorkspace  == "none"

StepKinds == {"create_session_dir", "setup_worktree", "copy_file",
              "install_deps", "apply_claude", "setup_mux"}

WorkspaceKinds == {"setup_worktree", "copy_file", "install_deps"}

StepDef(kind, ws, dep, background) ==
  [kind |-> kind, ws |-> ws, dep |-> dep, background |-> background]

CountOf(type, actions) == Len(SelectSeq(actions, LAMBDA a : a = type))

\* All copy_file actions of the workspace, then all its install_deps actions,
\* each one depending on the step just before it; installs run in the background.
AppendActionSteps(defs, ws, actions) ==
  LET copies   == CountOf("copy_file", actions)
      installs == CountOf("install_deps", actions)
  IN  defs \o [i \in 1 .. copies + installs |->
                 StepDef(IF i <= copies THEN "copy_file" ELSE "install_deps",
                         ws, Len(defs) + i - 1, i > copies)]

BuildWorkspaceSetupSteps(workspaces, configs) ==
  LET sessionDir == <<StepDef("create_session_dir", NoWorkspace, NoDependency, FALSE)>>
      addWorkspace(defs, ws) ==
        AppendActionSteps(Append(defs, StepDef("setup_worktree", ws, 1, FALSE)),
                          ws, configs[ws])
  IN  Append(FoldLeft(addWorkspace, sessionDir, workspaces),
             StepDef("apply_claude", NoWorkspace, NoDependency, FALSE))

BuildSetupSteps(workspaces, configs) ==
  LET defs == BuildWorkspaceSetupSteps(workspaces, configs)
  IN  Append(defs, StepDef("setup_mux", NoWorkspace, Len(defs), FALSE))

(***************************************************************************)
(* What the executor relies on in a plan.                                  *)
(***************************************************************************)
WellFormedStep(plan, p) ==
  LET d == plan[p] IN
  /\ d.kind \in StepKinds
  /\ d.background \in BOOLEAN
  /\ d.background <=> d.kind = "install_deps"
  /\ d.kind \in WorkspaceKinds <=> d.ws # NoWorkspace
  /\ d.dep \in 0 .. p - 1
  /\ d.dep = NoDependency <=> d.kind \in {"create_session_dir", "apply_claude"}
  /\ d.kind = "setup_mux" => plan[d.dep].kind = "apply_claude"
  /\ d.kind = "setup_worktree" => plan[d.dep].kind = "create_session_dir"
  /\ d.kind = "copy_file" => plan[d.dep].kind \in {"setup_worktree", "copy_file"}
  /\ d.kind \in {"copy_file", "install_deps"} =>
       plan[d.dep].ws = d.ws

WellFormedPlan(plan) ==
  /\ DOMAIN plan = 1 .. Len(plan)
  /\ Len(plan) \in Nat
  /\ \A p \in DOMAIN plan : WellFormedStep(plan, p)
=============================================================================
