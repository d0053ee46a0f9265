--------------------------- MODULE MCBrowserWindows ---------------------------
(***************************************************************************)
(* The windows of the sessions, the driver that scripts Chrome, the list   *)
(* of sessions in the picker and its panel that shows the tabs, in one     *)
(* run.  They share no state here: a behavior is one of a single part, the *)
(* others stay as they began.                                              *)
(*                                                                         *)
(* What the user, the requests, the messages to the panel, Chrome and the  *)
(* surroundings do costs one unit of a budget, and so does every call that *)
(* fails.  The other steps are not bounded.  The list has no budget.       *)
(***************************************************************************)
EXTENDS BrowserWindows, DetailPanel, ScriptDriver, SessionPicker

CONSTANTS Budget, PanelBudget, ScriptBudget

ASSUME BudgetsAreNatural == {Budget, PanelBudget, ScriptBudget} \subseteq Nat

VARIABLES
  part,    \* the part that moves
  budget

BudgetOf == [windows |-> Budget, panel |-> PanelBudget, script |-> ScriptBudget, picker |-> 0]

MCInit ==
  /\ part \in DOMAIN BudgetOf
  /\ budget = BudgetOf[part]
  /\ BrowserInit /\ PanelInit /\ ScriptInit /\ PickerInit
  /\ IF part = "windows" THEN client = 0 \/ shown # << >> ELSE client = 0 /\ shown = << >>
  /\ part # "script" => ~chrome.up

WindowsMove ==
  \/ /\ budget > 0
     /\ budget' = budget - 1
     /\ Windows \/ SessionEvents \/ Asking \/ Environment
  \/ /\ Browser \/ Loops \/ EventsAndTimers \/ Requests
     /\ faults' <= faults + budget
     /\ budget' = budget - (faults' - faults)

PanelMoves ==
  \/ budget > 0 /\ budget' = budget - 1 /\ (PanelMessages \/ PanelKeys)
  \/ PanelAnswers /\ UNCHANGED budget

ScriptMoves ==
  \/ budget > 0 /\ budget' = budget - 1 /\ ChromeActs
  \/ (ChromeGoes \/ Follow) /\ UNCHANGED budget

MCNext ==
  \/ part = "windows" /\ WindowsMove /\ UNCHANGED <<part, panelVars, scriptVars, pickerVars>>
  \/ part = "panel" /\ PanelMoves /\ UNCHANGED <<part, browserVars, scriptVars, pickerVars>>
  \/ part = "script" /\ ScriptMoves /\ UNCHANGED <<part, browserVars, panelVars, pickerVars>>
  \/ part = "picker" /\ PickerNext /\ UNCHANGED <<part, budget, browserVars, panelVars, scriptVars>>

MCSpec == MCInit /\ [][MCNext]_<<browserVars, panelVars, scriptVars, pickerVars, part, budget>>

\* Sessions and addresses of the windows are interchangeable.
Symmetric == Permutations(Sessions) \cup Permutations(Pages)
=============================================================================
