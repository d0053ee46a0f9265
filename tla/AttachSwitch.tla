---------------------------- MODULE AttachSwitch ----------------------------
(***************************************************************************)
(* How a terminal that runs `utena attach` follows the sessions activated  *)
(* in the TUI: the loop of cmd/tui/attach.go, the long poll it holds       *)
(* (mux/controller.go HandleNextActivation), the waiters of the            *)
(* multiplexer service (mux/service.go WaitForActivation and               *)
(* handleSessionActivated), and the attached flags of the sessions, which  *)
(* an activation and the two hooks of the loop write.                      *)
(*                                                                         *)
(* Publications are numbered; what a poll or a loop holds is the pair of   *)
(* the session and that number, which only the properties look at.         *)
(***************************************************************************)
EXTENDS Naturals, FiniteSets

CONSTANTS
  Terminals,   \* terminals that run the loop
  Sessions,    \* sessions that can be attached
  PollIds,     \* slots for requests of the long poll
  Nothing      \* no session, no terminal

ASSUME NothingIsNoSession == Nothing \notin Sessions \cup Terminals

VARIABLES
  attached,     \* sessions whose row says is_attached
  published,    \* number of activations published so far
  activating,   \* sessions whose activation has cleared the flags of the others
  publishing,   \* sessions activated in the rows and not yet published
  waiters,      \* activationWaiters: polls that are registered
  poll,         \* every request of the long poll: its terminal, place and channel
  loop,         \* every terminal: place, target and the channel `switched`
  due,          \* history: the activation sent to a poll of the terminal last, unless it was lost
  since         \* history: the number published when the terminal began this round

attachVars == <<attached, activating, published, publishing, waiters, poll, loop, due, since>>

NoTarget == [session |-> Nothing, no |-> 0]
Target   == [session : Sessions \cup {Nothing}, no : Nat]
NoPoll   == [by |-> Nothing, at |-> "free", box |-> NoTarget]
Out      == [at |-> "out", target |-> NoTarget, switched |-> NoTarget]

AttachInit ==
  /\ attached = {}
  /\ published = 0
  /\ activating = {}
  /\ publishing = {}
  /\ waiters = {}
  /\ poll = [p \in PollIds |-> NoPoll]
  /\ loop = [t \in Terminals |-> Out]
  /\ due = [t \in Terminals |-> NoTarget]
  /\ since = [t \in Terminals |-> 0]

-----------------------------------------------------------------------------
(***************************************************************************)
(* The session service and the waiters.                                    *)
(***************************************************************************)
\* ActivateSession: a session that is attached already is left alone; for another one
\* the flags of the others are cleared, and then its own is set.
ActivateSession(s) ==
  /\ s \notin attached
  /\ attached' = {}
  /\ activating' = activating \cup {s}
  /\ UNCHANGED <<published, publishing, waiters, poll, loop, due, since>>

RaiseFlag(s) ==
  /\ s \in activating
  /\ activating' = activating \ {s}
  /\ attached' = attached \cup {s}
  /\ publishing' = publishing \cup {s}
  /\ UNCHANGED <<published, waiters, poll, loop, due, since>>

Published(s) == [session |-> s, no |-> published + 1]
Sent(target) == [t \in Terminals |-> IF \E p \in waiters : poll[p].by = t THEN target ELSE due[t]]

\* Mutant of HandleSessionActivated: only the request that waits longest is answered.
PublishToOne(s) ==
  /\ s \in publishing
  /\ publishing' = publishing \ {s}
  /\ published' = published + 1
  /\ poll' = [p \in PollIds |-> IF p \in waiters /\ p = (CHOOSE q \in waiters : TRUE)
                              THEN [poll[p] EXCEPT !.box = Published(s)] ELSE poll[p]]
  /\ due' = Sent(Published(s))
  /\ waiters' = {}
  /\ UNCHANGED <<attached, activating, loop, since>>

\* Mutant of HandleSessionActivated: the list of waiters is kept.
PublishAndKeep(s) ==
  /\ s \in publishing
  /\ publishing' = publishing \ {s}
  /\ published' = published + 1
  /\ poll' = [p \in PollIds |-> IF p \in waiters THEN [poll[p] EXCEPT !.box = Published(s)] ELSE poll[p]]
  /\ due' = Sent(Published(s))
  /\ UNCHANGED <<attached, activating, waiters, loop, since>>

\* The event is sent to every waiter, and the list is emptied.
HandleSessionActivated(s) ==
  /\ s \in publishing
  /\ publishing' = publishing \ {s}
  /\ published' = published + 1
  /\ poll' = [p \in PollIds |-> IF p \in waiters THEN [poll[p] EXCEPT !.box = Published(s)] ELSE poll[p]]
  /\ due' = Sent(Published(s))
  /\ waiters' = {}
  /\ UNCHANGED <<attached, activating, loop, since>>

\* WaitForActivation registers a channel.
WaitForActivation(p) ==
  /\ poll[p].at = "asked"
  /\ poll' = [poll EXCEPT ![p].at = "waiting"]
  /\ waiters' = waiters \cup {p}
  /\ UNCHANGED <<attached, activating, published, publishing, loop, due, since>>

\* The channel holds an activation, and select takes it.
WakeUp(p) ==
  /\ poll[p].at = "waiting"
  /\ poll[p].box # NoTarget
  /\ poll' = [poll EXCEPT ![p].at = "answered"]
  /\ UNCHANGED <<attached, activating, published, publishing, waiters, loop, due, since>>

\* 50 s are over, or the client has gone: select may take this although the
\* channel holds an activation, which is then lost.
GiveUp(p) ==
  /\ poll[p].at = "waiting"
  /\ waiters' = waiters \ {p}
  /\ poll' = [poll EXCEPT ![p].at = "answered", ![p].box = NoTarget]
  /\ due' = [t \in Terminals |-> IF t = poll[p].by /\ poll[p].box # NoTarget THEN NoTarget ELSE due[t]]
  /\ UNCHANGED <<attached, activating, published, publishing, loop, since>>

\* A request whose client has gone ends without an answer.
Abandoned(p) ==
  /\ poll[p].at = "answered"
  /\ poll[p].by = Nothing
  /\ poll' = [poll EXCEPT ![p] = NoPoll]
  /\ UNCHANGED <<attached, activating, published, publishing, waiters, loop, due, since>>

\* The daemon restarts: requests fail, the rows stay.
DaemonRestarts ==
  /\ poll' = [p \in PollIds |-> NoPoll]
  /\ waiters' = {}
  /\ activating' = {}
  /\ publishing' = {}
  /\ due' = [t \in Terminals |-> IF \E p \in PollIds : poll[p].by = t THEN NoTarget ELSE due[t]]
  /\ UNCHANGED <<attached, activating, published, loop, since>>

-----------------------------------------------------------------------------
(***************************************************************************)
(* The loop.                                                               *)
(***************************************************************************)
Place(t, at) == loop' = [loop EXCEPT ![t].at = at]

\* `utena attach s`, or without a session.
Attach(t, s) ==
  /\ loop[t] = Out
  /\ loop' = [loop EXCEPT ![t] = [Out EXCEPT !.at = "started", !.target.session = s]]
  /\ due' = [due EXCEPT ![t] = NoTarget]
  /\ since' = [since EXCEPT ![t] = published]
  /\ UNCHANGED <<attached, activating, published, publishing, waiters, poll>>

\* The child runs; the hook client-session-changed is handled, or fails within
\* two seconds and is ignored.  The goroutine that polls starts after it.
PostChanged(t) ==
  /\ loop[t].at = "started"
  /\ attached' \in {attached} \cup
       (IF loop[t].target.session = Nothing THEN {} ELSE {{loop[t].target.session}})
  /\ Place(t, "running")
  /\ UNCHANGED <<activating, published, publishing, waiters, poll, due, since>>

\* nextActivation: one request at a time, and none after an activation was received.
NextActivation(t, p) ==
  /\ loop[t].at = "running"
  /\ loop[t].switched = NoTarget
  /\ \A q \in PollIds : poll[q].by # t
  /\ poll[p] = NoPoll
  /\ poll' = [poll EXCEPT ![p] = [by |-> t, at |-> "asked", box |-> NoTarget]]
  /\ UNCHANGED <<attached, activating, published, publishing, waiters, loop, due, since>>

\* The answer arrives before the final select; with an activation the child is told to end.
ReceiveActivation(t, p) ==
  /\ poll[p].by = t
  /\ poll[p].at = "answered"
  /\ loop' = [loop EXCEPT ![t].switched = poll[p].box]
  /\ poll' = [poll EXCEPT ![p] = NoPoll]
  /\ UNCHANGED <<attached, activating, published, publishing, waiters, due, since>>

\* The child ends: the user detaches, the session ends, or it was told to.
ChildEnds(t) ==
  /\ loop[t].at = "running"
  /\ Place(t, "ended")
  /\ UNCHANGED <<attached, activating, published, publishing, waiters, poll, due, since>>

\* The hook client-detached of the session that was shown, handled or lost.
PostDetached(t) ==
  /\ loop[t].at = "ended"
  /\ attached' \in {attached, attached \ {loop[t].target.session}}
  /\ Place(t, "leaving")
  /\ UNCHANGED <<activating, published, publishing, waiters, poll, due, since>>

\* Mutant of Leave: the request of the earlier round is not cancelled.
LeavePolling(t) ==
  /\ loop[t].at = "leaving"
  /\ loop' = [loop EXCEPT ![t] =
                IF @.switched = NoTarget THEN Out
                ELSE [at |-> "started", target |-> @.switched, switched |-> NoTarget]]
  /\ poll' = [p \in PollIds |-> IF poll[p].by = t /\ poll[p].at = "asked"
                                THEN [poll[p] EXCEPT !.by = Nothing] ELSE poll[p]]
  /\ since' = [since EXCEPT ![t] = published]
  /\ UNCHANGED <<attached, activating, published, publishing, waiters, due>>

\* The request under way was cancelled; the loop turns to the activation, or ends.
Leave(t) ==
  /\ loop[t].at = "leaving"
  /\ loop' = [loop EXCEPT ![t] =
                IF @.switched = NoTarget THEN Out
                ELSE [at |-> "started", target |-> @.switched, switched |-> NoTarget]]
  /\ poll' = [p \in PollIds |-> IF poll[p].by = t THEN [poll[p] EXCEPT !.by = Nothing] ELSE poll[p]]
  /\ since' = [since EXCEPT ![t] = published]
  /\ UNCHANGED <<attached, activating, published, publishing, waiters, due>>

-----------------------------------------------------------------------------
People ==
  \/ \E s \in Sessions : ActivateSession(s)
  \/ \E t \in Terminals : ChildEnds(t) \/ \E s \in Sessions \cup {Nothing} : Attach(t, s)
  \/ DaemonRestarts

Service ==
  \/ \E s \in activating : RaiseFlag(s)
  \/ \E s \in publishing : HandleSessionActivated(s)
  \/ \E p \in PollIds : WaitForActivation(p) \/ WakeUp(p) \/ GiveUp(p) \/ Abandoned(p)

Loop(t) ==
  \/ PostChanged(t) \/ PostDetached(t) \/ Leave(t)
  \/ \E p \in PollIds : NextActivation(t, p) \/ ReceiveActivation(t, p)
  \/ loop[t].switched # NoTarget /\ ChildEnds(t)

AttachNext == People \/ Service \/ \E t \in Terminals : Loop(t)

AttachSpec == AttachInit /\ [][AttachNext]_attachVars

-----------------------------------------------------------------------------
(***************************************************************************)
(* Properties.                                                             *)
(***************************************************************************)
\* The type of every variable.
AttachTypeOK ==
  /\ attached \subseteq Sessions
  /\ published \in Nat
  /\ activating \subseteq Sessions
  /\ publishing \subseteq Sessions
  /\ waiters \subseteq PollIds
  /\ poll \in [PollIds -> [by : Terminals \cup {Nothing},
                           at : {"free", "asked", "waiting", "answered"}, box : Target]]
  /\ loop \in [Terminals -> [at : {"out", "started", "running", "ended", "leaving"},
                             target : Target, switched : Target]]
  /\ due \in [Terminals -> Target]
  /\ since \in [Terminals -> Nat]

\* handleSessionActivated sends to channels of one under the lock of the
\* waiters: it never blocks, because a registered channel is always empty and
\* its poll still there (mux/service.go:141).
NeverBlocks == \A p \in waiters : poll[p].at = "waiting" /\ poll[p].box = NoTarget

\* A terminal turns only to a session that was activated after it began to show
\* the one it shows: the answer of a poll of an earlier round never moves it
\* (attach.go:77, the poll of an earlier round answers late).
TurnsOnlyToNews ==
  \A t \in Terminals :
    loop[t].switched # NoTarget => loop[t].switched.no > since[t]

\* Nothing is under way: every loop shows its target and waits for an activation.
Quiet ==
  /\ activating = {} /\ publishing = {}
  /\ \A t \in Terminals :
       /\ loop[t].at = "running"
       /\ loop[t].switched = NoTarget
       /\ \E p \in waiters : poll[p].by = t

\* attach.go:20: the loop follows session switches made from the TUI.  When all is quiet
\* a terminal shows the session of the last activation that was sent to a poll of its own;
\* one that is published between two polls, or taken by a timeout, it never hears of.
FollowsSwitches == Quiet => \A t \in Terminals : due[t] # NoTarget => loop[t].target.session = due[t].session
=============================================================================
