------------------------------ MODULE MCProgress ------------------------------
(***************************************************************************)
(* What has to come to an end, in one run: a setup with its background     *)
(* steps, the recording of the branches of a repository, the polling of    *)
(* the lists, and the calls and events of the multiplexer service.         *)
(* The parts share no state here: a behavior is one of a single part, the  *)
(* others stay as they began.                                              *)
(*                                                                         *)
(* What comes from outside a part, what the user does, and a job that the  *)
(* scheduler starts, spends one unit of a budget; the steps that follow    *)
(* are not bounded.                                                        *)
(***************************************************************************)
EXTENDS MCSetupExecution, GitRecords, ListPolling, MuxService

CONSTANTS GitBudget, PollBudget, MuxBudget

ASSUME BudgetsAreNatural == {GitBudget, PollBudget, MuxBudget} \subseteq Nat

VARIABLES
  part,    \* the part that moves
  budget   \* what its surroundings may still do

progressVars == <<vars, gitVars, pollVars, muxVars, part, budget>>

BudgetOf == [setup |-> 0, git |-> GitBudget, polling |-> PollBudget, mux |-> MuxBudget]

\* The parts that do not move start in one state each.
ProgressInit ==
  /\ part \in DOMAIN BudgetOf
  /\ budget = BudgetOf[part]
  /\ IF part = "setup" THEN Init ELSE NoSetup
  /\ GitInit /\ PollInit /\ MuxInit
  /\ part # "polling" => made.session = "active" /\ shownList["sessions"] = "settled"

Only(p)  == part = p /\ UNCHANGED part
Spends   == budget > 0 /\ budget' = budget - 1
NotSetup == UNCHANGED <<gitVars, pollVars, muxVars>>
NotGit   == UNCHANGED <<vars, pollVars, muxVars>>
NotPolls == UNCHANGED <<vars, gitVars, muxVars>>
NotMux   == UNCHANGED <<vars, gitVars, pollVars>>

Surroundings ==
  \/ Only("git") /\ Spends /\ (GitUsers \/ GitJobsStart) /\ NotGit
  \/ Only("polling") /\ Spends /\ PollUsers /\ NotPolls
  \/ Only("mux") /\ Spends /\ Environment /\ NotMux

SetupMoves == Only("setup") /\ UNCHANGED budget /\ Next /\ NotSetup
GitMoves   == Only("git") /\ UNCHANGED budget /\ GitDaemon /\ NotGit
PollMoves  == Only("polling") /\ UNCHANGED budget /\ PollSteps /\ NotPolls
MuxMoves   == Only("mux") /\ UNCHANGED budget /\ System /\ NotMux

ProgressNext == Surroundings \/ SetupMoves \/ GitMoves \/ PollMoves \/ MuxMoves

\* The fairness of the setup is that of its own specification.
SetupFairness ==
  \A e \in Executions :
    /\ WF_vars(part = "setup" /\ RepairCommit(e))
    /\ WF_vars(part = "setup" /\ Execute(e))
    /\ WF_vars(part = "setup" /\ RunBackground(e))

\* The daemon answers, ticks come, and messages are handled.  The daemon need not finish
\* what it makes.
PollFairness ==
  /\ \A l \in Lists : WF_pollVars(part = "polling" /\ ListTick(l))
  /\ WF_pollVars(part = "polling" /\ FetchSessions)
  /\ WF_pollVars(part = "polling" /\ FetchWorkspaces)
  /\ WF_pollVars(part = "polling" /\ SessionsLoaded)
  /\ WF_pollVars(part = "polling" /\ WorkspacesLoaded)
  /\ WF_pollVars(part = "polling" /\ AnswerPoll)
  /\ WF_pollVars(part = "polling" /\ ProgressTick)
  /\ WF_pollVars(part = "polling" /\ \E o \in Views : ProgressPolled(o))

\* The fairness of the multiplexer service is that of its own specification, too.
ServiceFairness ==
  /\ \A c \in Callers : SF_muxVars(part = "mux" /\ Drive(c)) /\ WF_muxVars(part = "mux" /\ Return(c))
  /\ WF_muxVars(part = "mux" /\ Follow)
  /\ SF_muxVars(part = "mux" /\ HandleEvent)

ProgressSpec ==
  ProgressInit /\ [][ProgressNext]_progressVars /\ SetupFairness /\ PollFairness /\ ServiceFairness
=============================================================================
