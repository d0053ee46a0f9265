------------------------------ MODULE MCRecords ------------------------------
(***************************************************************************)
(* What the daemon keeps in its database about something outside it, and   *)
(* what the form for a new session shows of it, in one run: the rows of    *)
(* the sessions, a pull request, the workspaces, and the form.             *)
(* The parts share no state here: a behavior is one of a single part, the  *)
(* others stay as they began.                                              *)
(*                                                                         *)
(* What comes from outside a part, what the user does, and a job that the  *)
(* scheduler starts, spends one unit of a budget (the sessions count their *)
(* own requests); the steps that follow are not bounded.                   *)
(***************************************************************************)
EXTENDS MCSessionLifecycle, PRActivity, Workspaces, SessionForm

CONSTANTS
  s1, s2,  \* the sessions
  PRBudget, SpaceBudget, FormBudget

\* One comment is the user's own.
OwnComment == {<<"comment", 2>>}

ASSUME BudgetsAssumption ==
  Sessions = {s1, s2} /\ {PRBudget, SpaceBudget, FormBudget} \subseteq Nat

VARIABLES
  part,    \* the part that moves
  budget   \* what its surroundings may still do

recordVars == <<vars, prVars, spaceVars, formVars, part, budget>>

BudgetOf == [sessions |-> 0, pr |-> PRBudget, space |-> SpaceBudget, form |-> FormBudget]

\* The parts that do not move start in one state each.
RecordsInit ==
  /\ part \in DOMAIN BudgetOf
  /\ budget = BudgetOf[part]
  /\ Init /\ PRInit /\ SpaceInit /\ FormInit
  /\ part # "pr" => hub.state = "open" /\ ~hub.assigned /\ hub.head = CHOOSE h \in Heads : TRUE
  /\ part # "space" => \A f \in Folders : work[f] = 0

\* The sessions are interchangeable: s1 is the first that is made.
Untouched == row = [s \in Sessions |-> NoRow] /\ roots = {} /\ record[alpha] = NoRecord
InOrder   == Untouched => \A c \in Callers : op'[c].id # s2

Only(p)     == part = p /\ UNCHANGED part
Spends      == budget > 0 /\ budget' = budget - 1
NotSessions == UNCHANGED <<prVars, spaceVars, formVars>>
NotPR       == UNCHANGED <<vars, spaceVars, formVars>>
NotSpace    == UNCHANGED <<vars, prVars, formVars>>
NotForm     == UNCHANGED <<vars, prVars, spaceVars>>

Surroundings ==
  \/ Only("pr") /\ Spends /\ OnGitHub /\ NotPR
  \/ Only("space") /\ Spends /\ SpaceRequests /\ NotSpace
  \/ Only("form") /\ Spends /\ FormUser /\ NotForm

SessionMoves == Only("sessions") /\ UNCHANGED budget /\ Next /\ InOrder /\ NotSessions
PRMoves      == Only("pr") /\ UNCHANGED budget /\ PRJobs /\ NotPR
SpaceMoves   == Only("space") /\ UNCHANGED budget /\ SpaceWork /\ NotSpace
FormMoves    == Only("form") /\ UNCHANGED budget /\ FormAnswers /\ NotForm

RecordsNext == Surroundings \/ SessionMoves \/ PRMoves \/ SpaceMoves \/ FormMoves

\* The fairness of the sessions is that of their specification.
SessionFairness ==
  /\ WF_vars(part = "sessions" /\ \E c \in Callers : Serve(c) \/ HookWrite(c))
  /\ WF_vars(part = "sessions" /\ Follow)
  /\ WF_vars(part = "sessions" /\ Reconcile(Job))
  /\ \A s \in Sessions : SF_vars(part = "sessions" /\ JobVisit(s))

RecordsSpec == RecordsInit /\ [][RecordsNext]_recordVars /\ SessionFairness
=============================================================================
