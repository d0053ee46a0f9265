----------------------------- MODULE ListPolling -----------------------------
(***************************************************************************)
(* How the picker follows what takes the daemon minutes: the chains of     *)
(* ticks by which the providers load the lists of sessions and workspaces  *)
(* again (sessionsprovider.go, workspacesprovider.go), and the view of a   *)
(* session's creation or repair, which polls that session                  *)
(* (sessionprogress/model.go).                                             *)
(*                                                                         *)
(* A command runs in a goroutine of its own: requests overtake each other  *)
(* on the way to the daemon, and their answers on the way back.  Messages  *)
(* of a view that is not shown are lost (router.go).                       *)
(*                                                                         *)
(* There is one session; "warned" is an active one with an error, and      *)
(* "inactive" stands for every status that is neither creating, active nor *)
(* broken, archived included: list and view treat them alike.              *)
(***************************************************************************)
EXTENDS Naturals

CONSTANTS
  MaxLoads,  \* bound: requests for one list under way
  MaxPolls   \* bound: requests for the session under way

Lists == {"sessions", "workspaces"}
SessionStates == {"creating", "active", "warned", "broken", "inactive"}
CloneStates   == {"creating", "ready"}   \* whether a workspace is being cloned

\* What a list tells its provider: something is being made, or the session can be repaired.
Contents == {"busy", "broken", "settled"}
ListOf(s) == IF s = "creating" THEN "busy" ELSE IF s = "broken" THEN "broken" ELSE "settled"

\* What a status tells the view of the progress: to wait, or that it is done, with an
\* error or a warning or without.
Views == {"wait", "failed", "done"}
ViewOf(s) ==
  IF s \in {"creating", "inactive"} THEN "wait" ELSE IF s = "active" THEN "done" ELSE "failed"

VARIABLES
  made,      \* the daemon: the session, and whether a workspace is being cloned
  shownList, \* the lists the providers hold: the session in one, a workspace in the other
  polling,   \* polling of each provider
  ticks,     \* ticks of each provider that are still to come
  asked,     \* requests for each list that the daemon has not answered
  answers,   \* answers under way
  view,      \* "list" or "progress"
  follow,    \* the view of the progress: done, with an error or a warning, and its ticks
  polls,     \* requests for the session that the daemon has not answered
  polled,    \* answers to them
  repairs    \* requests to repair the session under way

pollVars == <<made, shownList, polling, ticks, asked, answers, view, follow, polls, polled, repairs>>

Truth(l) == ListOf(IF l = "sessions" THEN made.session ELSE made.clone)

\* The list is as it was loaded last, when the session may have been broken.
PollInit ==
  /\ made \in [session : SessionStates \ {"creating"}, clone : {"ready"}]
  /\ shownList \in {[sessions |-> c, workspaces |-> "settled"] : c \in {ListOf(made.session), "broken"}}
  /\ polling = [l \in Lists |-> FALSE]
  /\ ticks = [l \in Lists |-> 0]
  /\ asked = [l \in Lists |-> 0]
  /\ answers = [l \in Lists |-> [content \in Contents |-> 0]]
  /\ view = "list"
  /\ follow = [done |-> TRUE, retry |-> FALSE, ticks |-> 0]
  /\ polls = 0
  /\ polled = [o \in Views |-> 0]
  /\ repairs = 0

UnderWay(l)   == asked[l] + answers[l]["busy"] + answers[l]["broken"] + answers[l]["settled"]
PollsUnderWay == polls + polled["wait"] + polled["failed"] + polled["done"]

-----------------------------------------------------------------------------
(***************************************************************************)
(* The daemon.                                                             *)
(***************************************************************************)
Settles(l) ==
  /\ Truth(l) = "busy"
  /\ made' \in (IF l = "sessions" THEN {[made EXCEPT !.session = s] : s \in {"active", "warned", "broken"}}
                ELSE {[made EXCEPT !.clone = "ready"]})
  /\ UNCHANGED <<shownList, polling, ticks, asked, answers, view, follow, polls, polled, repairs>>

AnswerList(l) ==
  /\ asked[l] > 0
  /\ asked' = [asked EXCEPT ![l] = @ - 1]
  /\ answers' = [answers EXCEPT ![l][Truth(l)] = @ + 1]
  /\ UNCHANGED <<made, shownList, polling, ticks, view, follow, polls, polled, repairs>>

FetchSessions   == AnswerList("sessions")
FetchWorkspaces == AnswerList("workspaces")

\* getSession.
AnswerPoll ==
  /\ polls > 0
  /\ polls' = polls - 1
  /\ polled' = [polled EXCEPT ![ViewOf(made.session)] = @ + 1]
  /\ UNCHANGED <<made, shownList, polling, ticks, asked, answers, view, follow, repairs>>

\* A request fails: the chain of its list or view goes on.
RequestFails ==
  /\ \/ \E l \in Lists : asked[l] > 0 /\ asked' = [asked EXCEPT ![l] = @ - 1] /\ UNCHANGED polls
     \/ polls > 0 /\ polls' = polls - 1 /\ UNCHANGED asked
  /\ UNCHANGED <<made, shownList, polling, ticks, answers, view, follow, polled, repairs>>

\* Only a broken session, or an active one with an error, is repaired; the list is loaded
\* when the answer comes.  The request may be refused, and it may fail once the row is
\* written; then no list is loaded.
RepairHandled ==
  /\ repairs > 0 /\ UnderWay("sessions") < MaxLoads
  /\ repairs' = repairs - 1
  /\ \/ /\ made.session \in {"broken", "warned"}
        /\ made' = [made EXCEPT !.session = "creating"]
        /\ asked' \in {asked, [asked EXCEPT !["sessions"] = @ + 1]}
     \/ UNCHANGED <<made, asked>>
  /\ UNCHANGED <<shownList, polling, ticks, answers, view, follow, polls, polled>>

\* What else changes the session, without the picker: reconciliation, which leaves one
\* that is being made alone, an archiving, a step in the background that fails.
Turns ==
  /\ made.session # "creating"
  /\ \E s \in {"active", "warned", "broken", "inactive"} \ {made.session} :
       /\ s = "active" => made.session # "warned"
       /\ s = "warned" => made.session = "active"
       /\ made' = [made EXCEPT !.session = s]
  /\ UNCHANGED <<shownList, polling, ticks, asked, answers, view, follow, polls, polled, repairs>>

-----------------------------------------------------------------------------
(***************************************************************************)
(* The providers.                                                          *)
(***************************************************************************)
Load(l) == UnderWay(l) < MaxLoads /\ asked' = [asked EXCEPT ![l] = @ + 1]

\* sessionsLoadedMsg and workspacesLoadedMsg: something busy starts a chain of ticks.
ListLoaded(l, content) ==
  /\ answers[l][content] > 0
  /\ answers' = [answers EXCEPT ![l][content] = @ - 1]
  /\ shownList' = [shownList EXCEPT ![l] = content]
  /\ polling' = [polling EXCEPT ![l] = (content = "busy")]
  /\ ticks' = [ticks EXCEPT ![l] = IF content = "busy" /\ ~polling[l] THEN @ + 1 ELSE @]
  /\ UNCHANGED <<made, asked, view, follow, polls, polled, repairs>>

SessionsLoaded   == \E content \in Contents : ListLoaded("sessions", content)
WorkspacesLoaded == \E content \in Contents : ListLoaded("workspaces", content)

\* Mutant of ListTick: the list is loaded, but the next tick is left to the answer.
ListTickOnce(l) ==
  /\ ticks[l] > 0
  /\ ticks' = [ticks EXCEPT ![l] = @ - 1]
  /\ IF polling[l] THEN Load(l) ELSE UNCHANGED asked
  /\ UNCHANGED <<made, shownList, polling, answers, view, follow, polls, polled, repairs>>

\* pollSessionsTickMsg and pollWorkspacesTickMsg.
ListTick(l) ==
  /\ ticks[l] > 0
  /\ IF polling[l] THEN Load(l) /\ UNCHANGED ticks
     ELSE ticks' = [ticks EXCEPT ![l] = @ - 1] /\ UNCHANGED asked
  /\ UNCHANGED <<made, shownList, polling, answers, view, follow, polls, polled, repairs>>

\* The picker gets the focus, or is asked for its list; or another client begins something
\* and the list hears of it.
Refresh(l) ==
  /\ Load(l)
  /\ UNCHANGED <<made, shownList, polling, ticks, answers, view, follow, polls, polled, repairs>>

SomethingBegins ==
  /\ made' \in {[made EXCEPT !.clone = "creating"], [made EXCEPT !.session = "creating"]} \ {made}
  /\ UNCHANGED <<shownList, polling, ticks, asked, answers, view, follow, polls, polled, repairs>>

-----------------------------------------------------------------------------
(***************************************************************************)
(* The view of the progress.                                               *)
(***************************************************************************)
\* NavigateTo and StartMsg.  A session was made, or a workspace added to it; or a repair
\* was asked for in the list, which sends the request, or in the panel, which does not,
\* because the session is broken as the list shows it.
StartProgress ==
  /\ view = "list" /\ PollsUnderWay < MaxPolls
  /\ view' = "progress"
  /\ follow' = [done |-> FALSE, retry |-> FALSE, ticks |-> follow.ticks + 1]
  /\ polls' = polls + 1
  /\ \/ made' \in {made, [made EXCEPT !.session = "creating"]} /\ Load("sessions") /\ UNCHANGED repairs
     \/ shownList["sessions"] = "broken" /\ repairs' \in {repairs, repairs + 1} /\ UNCHANGED <<made, asked>>
  /\ UNCHANGED <<shownList, polling, ticks, answers, polled>>

\* tickMsg; lost when the view is not shown.
ProgressTick ==
  /\ follow.ticks > 0
  /\ IF view = "progress" /\ ~follow.done
     THEN /\ PollsUnderWay < MaxPolls
          /\ polls' = polls + 1
          /\ UNCHANGED follow
     ELSE follow' = [follow EXCEPT !.ticks = @ - 1] /\ UNCHANGED polls
  /\ UNCHANGED <<made, shownList, polling, ticks, asked, answers, view, polled, repairs>>

\* SessionPolledMsg: the view is done when the session is active or broken, and waits on
\* whatever else it is.
ProgressPolled(o) ==
  /\ polled[o] > 0
  /\ polled' = [polled EXCEPT ![o] = @ - 1]
  /\ follow' = [follow EXCEPT !.done = @ \/ (view = "progress" /\ o # "wait"),
                              !.retry = @ \/ (view = "progress" /\ o = "failed")]
  /\ UNCHANGED <<made, shownList, polling, ticks, asked, answers, view, polls, repairs>>

\* The key r, once the view has an error or a warning.
PressRetry ==
  /\ view = "progress" /\ follow.done /\ follow.retry /\ PollsUnderWay < MaxPolls
  /\ follow' = [done |-> FALSE, retry |-> FALSE, ticks |-> follow.ticks + 1]
  /\ polls' = polls + 1
  /\ repairs' = repairs + 1
  /\ UNCHANGED <<made, shownList, polling, ticks, asked, answers, view, polled>>

\* Back when the view is done, to the list or to the form it was opened from, or the
\* picker is parked and shows its list again; the list is loaded.
LeaveProgress ==
  /\ view = "progress"
  /\ view' = "list"
  /\ Load("sessions") \/ (follow.done /\ UNCHANGED asked)
  /\ UNCHANGED <<made, shownList, polling, ticks, answers, follow, polls, polled, repairs>>

-----------------------------------------------------------------------------
PollUsers ==
  \/ \E l \in Lists : Refresh(l)
  \/ SomethingBegins \/ Turns \/ RequestFails
  \/ StartProgress \/ PressRetry \/ LeaveProgress

PollSteps ==
  \/ \E l \in Lists : Settles(l) \/ ListTick(l)
  \/ FetchSessions \/ FetchWorkspaces \/ SessionsLoaded \/ WorkspacesLoaded
  \/ AnswerPoll \/ RepairHandled \/ ProgressTick
  \/ \E o \in Views : ProgressPolled(o)

-----------------------------------------------------------------------------
(***************************************************************************)
(* Properties.                                                             *)
(***************************************************************************)
\* A list that shows something as being made does not stay that way when the daemon is
\* done with it, and the view of a progress does not wait on for a session that is active
\* or broken, although answers come out of order, requests fail, chains of ticks end,
\* start again and double, and ticks are lost with the view.  It is not claimed of a
\* session that is inactive or archived: the view waits for it, and the keys of the view
\* do nothing until it is active or broken again or the picker is parked
\* (sessionprogress/model.go:126-141, 145).
StaleBusy(l)  == shownList[l] = "busy" /\ Truth(l) # "busy"
StaleProgress == view = "progress" /\ ~follow.done /\ ViewOf(made.session) # "wait"
SettledIsShown ==
  /\ \A l \in Lists : []<>~StaleBusy(l)
  /\ []<>~StaleProgress
=============================================================================
