--------------------------- MODULE BrowserWindows ---------------------------
(***************************************************************************)
(* The browser windows of the sessions: internal/browser, without the      *)
(* placement of windows on workspaces of the window manager.  The service  *)
(* keeps a row for every window it gives to a session.  Requests, the      *)
(* events of the driver, the loops of placement and of the sessions' ends, *)
(* and its timers all take one mutex, which they hold while they talk to   *)
(* the browser.  So each is one step here; what happens before the mutex   *)
(* is taken is a step of its own.                                          *)
(*                                                                         *)
(* A window is the set of the web pages it shows, a row the set of pages   *)
(* it has saved and of links that wait.  Within one step the browser       *)
(* changes only by the calls of the service, and any of them may fail, or  *)
(* time out and be carried out all the same.  Database errors are left     *)
(* out.  Which of several rows was focused last is left open.              *)
(*                                                                         *)
(* No code of the program sets restoreWindow, so restoring() is false: the *)
(* late reattachment and the deferred adoption, which wait for it, are     *)
(* left out.                                                               *)
(***************************************************************************)
EXTENDS Naturals, Sequences, FiniteSets, FiniteSetsExt, RestoreMatch

CONSTANTS
  Sessions,       \* session ids; 0 stands for none
  RowIds,         \* rows the store may hold
  WindowIds,      \* window ids the browser may use, again in another run
  Pages,          \* addresses; 0 stands for none
  MaxRestored,    \* bound on the windows with which the browser starts
  MaxFaults,      \* bound on calls of the driver that fail while it is connected
  LoadTakesFocus  \* the driver cannot load a page without taking the focus

ASSUME BrowserIds == RowIds \cup WindowIds \subseteq Nat \ {0} /\ 0 \notin Sessions \cup Pages
ASSUME BrowserFinite == IsFiniteSet(RowIds) /\ IsFiniteSet(WindowIds) /\ IsFiniteSet(Pages) /\ WindowIds # {}
ASSUME BrowserBounds == MaxRestored \in Nat /\ MaxFaults \in Nat /\ LoadTakesFocus \in BOOLEAN

VARIABLES
  running,  \* the browser runs; when it quits its windows are gone at once
  shown,    \* its windows
  focus,    \* the window that has its focus, or 0
  newRun,   \* its run is not the one the store has recorded
  link,     \* the driver is connected
  fresh,    \* the service has not been told of this connection
  channel,  \* events of this connection the service has not handled
  client,   \* the attached session, or 0
  deleted,  \* sessions that are deleted
  rows,     \* the table browser_windows of this driver
  svc,      \* what the service keeps in memory
  request,  \* the request between its checks and its end
  faults,   \* history: calls that failed
  history   \* history: what befell windows and sessions, see NoHistory

browserVars == <<running, shown, focus, newRun, link, fresh, channel, client, deleted,
                 rows, svc, request, faults, history>>
worldVars   == <<running, newRun, link, fresh>>
sessionVars == <<client, deleted>>

NoRow == [state |-> "none", session |-> 0, window |-> 0, tabs |-> {}, waiting |-> {}]

NoOp == [session |-> 0, deleted |-> FALSE]

FreshService ==
  [connected |-> FALSE, attached |-> 0, last |-> 0, prev |-> 0,
   unowned |-> {}, closing |-> {}, pendingClose |-> {}, removals |-> {}, snapshots |-> {},
   ensured |-> 0, placed |-> 0, stale |-> FALSE, swap |-> FALSE, queue |-> <<>>, op |-> NoOp]

NoRequest == [kind |-> "none", at |-> "none", session |-> 0, page |-> 0, window |-> 0, focus |-> FALSE]

\* In this run of the browser: windows that were a session's, that the user closed,
\* that were ejected, whose close was carried out late, that a named case left behind.
\* And sessions whose deletion overtook a request, or was dropped.
NoHistory == [made |-> {}, byHand |-> {}, ejected |-> {}, late |-> {}, strays |-> {},
              overtaken |-> {}, dropped |-> {}]
\* Windows that are created have no history.
Anew(h, ws) == [h EXCEPT !.made = @ \ ws, !.byHand = @ \ ws, !.ejected = @ \ ws, !.late = @ \ ws, !.strays = @ \ ws]

Events == [type : {"created", "removed", "tabs", "focus"}, window : WindowIds]
Event(type, w) == [type |-> type, window |-> w]

Live == DOMAIN shown
\* Ids nobody remembers: within a run the browser uses none twice.
Unused == WindowIds \ (Live \cup {rows[r].window : r \in RowIds} \cup {channel[i].window : i \in DOMAIN channel}
                         \cup svc.unowned \cup svc.closing \cup svc.removals \cup svc.snapshots
                         \cup {svc.last, svc.prev, request.window} \cup {p.window : p \in svc.pendingClose})
Gives(f, w, pages) == [x \in DOMAIN f \cup {w} |-> IF x = w THEN pages ELSE f[x]]
Together(f, g)     == [x \in DOMAIN f \cup DOMAIN g |-> IF x \in DOMAIN f THEN f[x] ELSE g[x]]
Without(f, ws)     == [x \in DOMAIN f \ ws |-> f[x]]
Emits(events)      == channel' = IF link THEN channel \o events ELSE channel

-----------------------------------------------------------------------------
(***************************************************************************)
(* The store.  t is the table.                                             *)
(***************************************************************************)
InState(t, states) == {r \in RowIds : t[r].state \in states}
OpenRows(t)        == InState(t, {"open"})
RowsOf(t, w)       == {r \in OpenRows(t) : t[r].window = w}
Owned(t)           == {t[r].window : r \in OpenRows(t)}
OpenOf(t, s)       == {r \in OpenRows(t) : t[r].session = s}
Restorable(t, s)   == {r \in InState(t, {"missing", "snapshotted"}) : t[r].session = s}
Missing(t)         == InState(t, {"missing"})

\* Ids are not used again while a window to be closed refers to them.
FreeRows(t) == InState(t, {"none"}) \ {p.row : p \in svc.pendingClose}
Room        == FreeRows(rows) # {}

\* Add, MarkMissing..., MarkSnapshotted, Reopen, Delete.
AddRow(t, row) == LET r == Min(FreeRows(t)) IN [t EXCEPT ![r] = row]
OpenRow(s, w, tabs) == [NoRow EXCEPT !.state = "open", !.session = s, !.window = w, !.tabs = tabs]
Lost(row)           == [row EXCEPT !.state = "missing", !.window = 0]
MarkMissing(t, ws)  == [r \in RowIds |-> IF r \in OpenRows(t) /\ t[r].window \in ws THEN Lost(t[r]) ELSE t[r]]
Saved(row)          == [row EXCEPT !.state = "snapshotted", !.window = 0]
Reopened(row, w)    == [row EXCEPT !.state = "open", !.window = w]
Delete(t, rs)       == [r \in RowIds |-> IF r \in rs THEN NoRow ELSE t[r]]

\* mergeTabs: pages of a window replace the saved ones, links that are not among them stay.
Merged(row, pages) ==
  IF pages = {} THEN row ELSE [row EXCEPT !.tabs = pages, !.waiting = @ \ pages]
\* saveTabs of the windows ws.
SaveTabs(t, ws) ==
  [r \in RowIds |-> IF r \in OpenRows(t) /\ t[r].window \in ws \cap Live
                    THEN Merged(t[r], shown[t[r].window]) ELSE t[r]]

-----------------------------------------------------------------------------
(***************************************************************************)
(* The browser and its user.  Events of windows reach the service only     *)
(* through a connection; those not handled when it breaks are discarded.   *)
(***************************************************************************)
UserOpens(pages) ==
  /\ running
  /\ Unused # {}
  /\ LET w == Min(Unused) IN
     /\ shown' = Gives(shown, w, pages)
     /\ focus' = w
     /\ \E events \in {<<Event("created", w), Event("focus", w)>>, <<Event("focus", w), Event("created", w)>>} :
          Emits(events)
     /\ history' = Anew(history, {w})
  /\ UNCHANGED <<worldVars, sessionVars, rows, svc, request, faults>>

UserCloses(w) ==
  /\ w \in Live
  /\ shown' = Without(shown, {w})
  /\ focus' = IF focus = w THEN 0 ELSE focus
  /\ Emits(<<Event("removed", w)>>)
  /\ history' = [history EXCEPT !.byHand = @ \cup {w}]
  /\ UNCHANGED <<worldVars, sessionVars, rows, svc, request, faults>>

UserFocuses(w) ==
  /\ w \in Live
  /\ focus # w
  /\ focus' = w
  /\ Emits(<<Event("focus", w)>>)
  /\ UNCHANGED <<worldVars, shown, sessionVars, rows, svc, request, faults, history>>

UserBrowses(w, pages) ==
  /\ w \in Live
  /\ shown[w] # pages
  /\ shown' = [shown EXCEPT ![w] = pages]
  /\ Emits(<<Event("tabs", w)>>)
  /\ UNCHANGED <<worldVars, focus, sessionVars, rows, svc, request, faults, history>>

\* Every window is removed, then the connection breaks.
BrowserQuits ==
  /\ running
  /\ running' = FALSE
  /\ shown' = << >>
  /\ focus' = 0
  /\ Emits(SetToSeq({Event("removed", w) : w \in Live}))
  /\ UNCHANGED <<newRun, link, fresh, sessionVars, rows, svc, request, faults, history>>

\* It starts with any windows, those it restores among them, under any ids.  That takes
\* longer than the service needs to see that the connection is gone.
BrowserStarts ==
  /\ ~running /\ ~link /\ ~svc.connected
  /\ running' = TRUE
  /\ newRun' = TRUE
  /\ \E ws \in SUBSET WindowIds :
       /\ Cardinality(ws) <= MaxRestored
       /\ shown' \in [ws -> {{p} : p \in Pages}]
       /\ focus' \in ws \cup {0}
  /\ history' = Anew(history, WindowIds)
  /\ UNCHANGED <<link, fresh, channel, sessionVars, rows, svc, request, faults>>

LinkBreaks ==
  /\ link
  /\ link' = FALSE
  /\ fresh' = FALSE
  /\ channel' = <<>>
  /\ UNCHANGED <<running, newRun, shown, focus, sessionVars, rows, svc, request, faults, history>>

LinkComes ==
  /\ running /\ ~link
  /\ link' = TRUE
  /\ fresh' = TRUE
  /\ UNCHANGED <<running, newRun, shown, focus, channel, sessionVars, rows, svc, request, faults, history>>

\* The daemon stops and starts; OnAppEnd leaves nothing that a crash would not.
DaemonRestarts ==
  /\ svc' = FreshService
  /\ request' = NoRequest
  /\ link' = FALSE
  /\ fresh' = FALSE
  /\ channel' = <<>>
  /\ history' = [history EXCEPT
       !.strays = @ \cup {p.window : p \in svc.pendingClose},
       !.dropped = @ \cup {svc.queue[i].session : i \in DOMAIN svc.queue} \cup {svc.op.session}]
  /\ UNCHANGED <<running, newRun, shown, focus, sessionVars, rows, faults>>

\* One more call fails although the driver is connected.
Fault == faults < MaxFaults /\ faults' = faults + 1

-----------------------------------------------------------------------------
(***************************************************************************)
(* Sessions.  Attaching, archiving and deleting a session reach the        *)
(* service through the event bus.                                          *)
(***************************************************************************)
Attached(s) == [svc EXCEPT !.attached = s, !.swap = TRUE]

\* The user switches to s: the bus calls SetAttached.
SwitchTo(s) ==
  /\ s \notin deleted /\ client # s
  /\ client' = s
  /\ svc' = Attached(s)
  /\ UNCHANGED <<worldVars, shown, focus, channel, deleted, rows, request, faults, history>>

\* QueueArchive; the mux closes the session.
SessionArchived(s) ==
  /\ s \notin deleted
  /\ client' = IF client = s THEN 0 ELSE client
  /\ svc' = [svc EXCEPT !.queue = Append(@, [session |-> s, deleted |-> FALSE])]
  /\ UNCHANGED <<worldVars, shown, focus, channel, deleted, rows, request, faults, history>>

\* QueueDelete.
SessionDeleted(s) ==
  /\ s \notin deleted
  /\ deleted' = deleted \cup {s}
  /\ client' = IF client = s THEN 0 ELSE client
  /\ svc' = [svc EXCEPT !.queue = Append(@, [session |-> s, deleted |-> TRUE])]
  /\ history' = [history EXCEPT !.overtaken = @ \cup ({s} \cap {request.session})]
  /\ UNCHANGED <<worldVars, shown, focus, channel, rows, request, faults>>

-----------------------------------------------------------------------------
(***************************************************************************)
(* Archive and Delete, run by the loop of the sessions' ends.              *)
(***************************************************************************)
\* A request that is in the middle of its step holds the mutex.
Free     == request.at \notin {"placing", "focusing", "creating"}
Op       == svc.op
Ends     == Free /\ Op # NoOp
Ended(v) == [v EXCEPT !.op = NoOp]

\* The next end of a session is taken; an archive is skipped when the session is attached again.
TakeOp ==
  LET next == Head(svc.queue) IN
  /\ Op = NoOp
  /\ svc.queue # <<>>
  /\ svc' = [svc EXCEPT !.queue = Tail(@), !.op = IF next.deleted \/ client # next.session THEN next ELSE NoOp]
  /\ UNCHANGED <<worldVars, shown, focus, channel, sessionVars, rows, request, faults, history>>

\* Mutant of Released: the session stays the attached one.
ReleasedAttached(v, s) == v

\* releaseSessionLocked: the session is attached no more.
Released(v, s) == [v EXCEPT !.attached = IF @ = s THEN 0 ELSE @]

\* The windows cannot be listed: the operation is given up.
EndFails ==
  /\ svc.connected
  /\ IF link THEN Fault ELSE UNCHANGED faults
  /\ svc' = Ended(Released(svc, Op.session))
  /\ history' = [history EXCEPT !.dropped = @ \cup {Op.session}]
  /\ UNCHANGED <<worldVars, shown, focus, channel, sessionVars, rows, request>>

\* closeWindow of the windows `asked`, of which those in `closed` were reported closed.
Closes(v, asked, closed) == [v EXCEPT !.snapshots = @ \ asked, !.closing = (@ \ asked) \cup closed]
Closed(closed) ==
  /\ shown' = Without(shown, closed)
  /\ focus' = IF focus \in closed THEN 0 ELSE focus
  /\ Emits(SetToSeq({Event("removed", w) : w \in closed}))

\* The row after Archive: saved, unless its window was just removed or does not close.
ArchivedRow(row, failed) ==
  IF row.window \in svc.removals THEN row
  ELSE IF row.window \in failed THEN Merged(row, shown[row.window])
  ELSE IF row.window \in Live THEN Saved(Merged(row, shown[row.window]))
  ELSE Saved(row)

ArchiveLive ==
  LET s == Op.session
      windows == {rows[r].window : r \in OpenOf(rows, s)} \cap Live IN
  /\ ~Op.deleted
  /\ svc.connected /\ link
  /\ \E failed \in SUBSET (windows \ svc.removals) : \E late \in SUBSET failed :
       /\ faults + Cardinality(failed) <= MaxFaults
       /\ faults' = faults + Cardinality(failed)
       /\ rows' = [r \in RowIds |->
                     IF r \in OpenOf(rows, s) THEN ArchivedRow(rows[r], failed)
                     ELSE IF r \in Restorable(rows, s) THEN Saved(rows[r]) ELSE rows[r]]
       /\ Closed(late \cup (windows \ (failed \cup svc.removals)))
       /\ svc' = Ended(Closes(Released(svc, s), windows \ svc.removals, windows \ (failed \cup svc.removals)))
       /\ history' = [history EXCEPT !.late = @ \cup late]
  /\ UNCHANGED <<worldVars, sessionVars, request>>

\* Mutant of Postponed: the windows are not remembered.
PostponedNothing(s, isDeleted) == {}

\* The windows to be closed when the browser connects again.
Postponed(s, isDeleted) ==
  {[window |-> rows[r].window, row |-> r, deleted |-> isDeleted] : r \in OpenOf(rows, s)}

\* Without a connection the rows are saved as they are.
ArchiveOffline ==
  LET s == Op.session
      open == {r \in OpenOf(rows, s) : rows[r].window \notin svc.removals} IN
  /\ ~Op.deleted
  /\ ~svc.connected
  /\ rows' = [r \in RowIds |-> IF r \in open \cup Restorable(rows, s) THEN Saved(rows[r]) ELSE rows[r]]
  /\ svc' = Ended([Released(svc, s) EXCEPT
       !.pendingClose = {p \in @ : \A q \in Postponed(s, FALSE) : q.window # p.window} \cup Postponed(s, FALSE)])
  /\ UNCHANGED <<worldVars, shown, focus, channel, sessionVars, request, faults, history>>

DeleteLive ==
  LET s == Op.session
      windows == {rows[r].window : r \in OpenOf(rows, s)} \cap Live IN
  /\ Op.deleted
  /\ svc.connected /\ link
  /\ \E failed \in SUBSET windows : \E late \in SUBSET failed :
       /\ faults + Cardinality(failed) <= MaxFaults
       /\ faults' = faults + Cardinality(failed)
       /\ Closed(late \cup (windows \ failed))
       /\ svc' = Ended(Closes(Released(svc, s), windows, windows \ failed))
       /\ history' = [history EXCEPT !.strays = @ \cup (failed \ late)]
  /\ rows' = Delete(rows, {r \in RowIds : rows[r].session = s})
  /\ UNCHANGED <<worldVars, sessionVars, request>>

DeleteOffline ==
  LET s == Op.session IN
  /\ Op.deleted
  /\ ~svc.connected
  /\ svc' = Ended([Released(svc, s) EXCEPT
       !.pendingClose = {p \in @ : \A q \in Postponed(s, TRUE) : q.window # p.window} \cup Postponed(s, TRUE)])
  /\ rows' = Delete(rows, {r \in RowIds : rows[r].session = s})
  /\ UNCHANGED <<worldVars, shown, focus, channel, sessionVars, request, faults, history>>

-----------------------------------------------------------------------------
(***************************************************************************)
(* Connected and Disconnected.                                             *)
(***************************************************************************)
\* flushRemovals: the browser may have quit, so windows removed a moment ago are missing.
Flushed(t) == MarkMissing(t, svc.removals)

HandleDisconnected ==
  /\ Free
  /\ svc.connected /\ ~link
  /\ rows' = Flushed(rows)
  /\ svc' = [svc EXCEPT !.connected = FALSE, !.removals = {},
                        !.snapshots = {}, !.closing = {}]
  /\ UNCHANGED <<worldVars, shown, focus, channel, sessionVars, request, faults, history>>

\* trackRun: in another run no window of the store is trusted.
Trusted(t) == IF newRun THEN MarkMissing(t, WindowIds) ELSE t
Pending    == IF newRun THEN {} ELSE svc.pendingClose

\* snapshotClosing: the row of a window about to be closed is saved with its pages.
SavedClosing(t) ==
  [r \in RowIds |->
     LET closing == {p \in Pending : p.row = r /\ ~p.deleted /\ p.window \in Live /\ shown[p.window] # {}} IN
     IF t[r].state # "none" /\ closing # {}
     THEN Saved(Merged(t[r], shown[(CHOOSE p \in closing : TRUE).window])) ELSE t[r]]

\* reattach: after a restart, missing rows get the windows that show their pages.
Reattached(t) ==
  LET matches == MatchRestored([r \in Missing(t) |-> t[r].tabs],
                               [w \in Live \ Owned(t) |-> shown[w]]) IN
  [r \in RowIds |-> IF \E m \in matches : m.row = r
                    THEN Reopened(t[r], (CHOOSE m \in matches : m.row = r).window) ELSE t[r]]

\* resync: windows to be closed are closed, rows of windows that are gone become missing.
Resynced(t) ==
  LET gone == MarkMissing(SavedClosing(t), WindowIds \ Live)
      attached == IF newRun THEN Reattached(gone) ELSE gone IN
  SaveTabs(attached, Live)

Joined(v) == [v EXCEPT !.connected = TRUE, !.removals = {}, !.swap = TRUE,
                       !.ensured = IF newRun THEN 0 ELSE @, !.pendingClose = Pending]

HandleConnected ==
  LET windows == {p.window : p \in Pending} \cap Live
      before  == Trusted(Flushed(rows)) IN
  /\ Free
  /\ link /\ fresh
  /\ fresh' = FALSE
  /\ newRun' = FALSE
  /\ \E failed \in SUBSET windows : \E late \in SUBSET failed :
       /\ faults + Cardinality(failed) <= MaxFaults
       /\ faults' = faults + Cardinality(failed)
       /\ Closed(late \cup (windows \ failed))
       /\ svc' = [Closes(Joined(svc), windows, windows \ failed) EXCEPT
                    !.pendingClose = {}, !.unowned = {}, !.last = focus, !.prev = 0,
                    !.attached = IF @ = 0 THEN client ELSE @]
       /\ history' = [history EXCEPT !.made = @ \cup Owned(Resynced(before)),
                        !.strays = @ \cup (failed \ late) \cup (Owned(before) \ Owned(SavedClosing(before)))]
  /\ rows' = Resynced(before)
  /\ UNCHANGED <<running, link, sessionVars, request>>

\* The windows cannot be listed: nothing is done beyond the run.
HandleConnectedFails ==
  /\ Free
  /\ link /\ fresh
  /\ fresh' = FALSE
  /\ newRun' = FALSE
  /\ Fault
  /\ rows' = Trusted(Flushed(rows))
  /\ svc' = Joined(svc)
  /\ UNCHANGED <<running, shown, focus, link, channel, sessionVars, request, history>>

-----------------------------------------------------------------------------
(***************************************************************************)
(* The events of windows.                                                  *)
(***************************************************************************)
Arrived(type) ==
  /\ Free
  /\ svc.connected /\ link /\ ~fresh
  /\ Head(channel).type = type

Handles(type) == Arrived(type) /\ channel' = Tail(channel)

Subject == Head(channel).window

\* parentSession: the session of the window that had the focus when w was opened.
Parent(w) ==
  LET opener == IF svc.last = w THEN svc.prev ELSE svc.last IN
  IF opener # 0 /\ RowsOf(rows, opener) # {}
  THEN rows[CHOOSE r \in RowsOf(rows, opener) : TRUE].session ELSE 0

\* Mutant of Adopted: a window that has an owner is given to another session.
AdoptedAgain(w) ==
  IF w \in svc.unowned \/ Parent(w) = 0 THEN rows
  ELSE SaveTabs(AddRow(rows, OpenRow(Parent(w), w, {})), {w})

\* adopt: a new window belongs to the session of its opener, unless it has an owner
\* or the service itself created it without one.
Adopted(w) ==
  IF w \in svc.unowned \/ RowsOf(rows, w) # {} \/ Parent(w) = 0 THEN rows
  ELSE SaveTabs(AddRow(rows, OpenRow(Parent(w), w, {})), {w})

HandleCreated ==
  LET w == Subject IN
  /\ Handles("created")
  /\ Room
  /\ rows' = Adopted(w)
  /\ svc' = [svc EXCEPT !.unowned = @ \ {w}, !.swap = @ \/ rows' # rows]
  /\ history' = [history EXCEPT !.made = @ \cup (Owned(rows') \cap Live)]
  /\ UNCHANGED <<worldVars, shown, focus, sessionVars, request, faults>>

\* The windows cannot be listed: the window is not adopted.
HandleCreatedFails ==
  /\ Handles("created")
  /\ Subject \notin svc.unowned /\ RowsOf(rows, Subject) = {}
  /\ Fault
  /\ UNCHANGED <<worldVars, shown, focus, sessionVars, rows, svc, request, history>>

\* Mutant of HandleRemoved: the row is forgotten at once.
HandleRemovedAtOnce ==
  LET w == Subject IN
  /\ Handles("removed")
  /\ rows' = IF w \in svc.closing THEN rows ELSE Delete(rows, RowsOf(rows, w))
  /\ svc' = [svc EXCEPT !.snapshots = @ \ {w}, !.closing = @ \ {w}]
  /\ UNCHANGED <<worldVars, shown, focus, sessionVars, request, faults, history>>

\* windowRemoved: unless the service closed it, the row of w is forgotten after a grace.
HandleRemoved ==
  LET w == Subject IN
  /\ Handles("removed")
  /\ svc' = [svc EXCEPT
       !.snapshots = @ \ {w}, !.closing = @ \ {w},
       !.removals = IF w \notin svc.closing /\ RowsOf(rows, w) # {} THEN @ \cup {w} ELSE @]
  /\ UNCHANGED <<worldVars, shown, focus, sessionVars, rows, request, faults, history>>

\* The grace is over and no disconnect came; a browser that quits disconnects in time.
RemovalExpires(w) ==
  /\ Free
  /\ running /\ ~newRun
  /\ svc' = [svc EXCEPT !.removals = @ \ {w}]
  /\ rows' = IF svc.connected THEN Delete(rows, RowsOf(rows, w)) ELSE rows
  /\ UNCHANGED <<worldVars, shown, focus, channel, sessionVars, request, faults, history>>

\* tabsChanged: the pages of an owned window are saved a little later.
HandleTabs ==
  LET w == Subject IN
  /\ Handles("tabs")
  /\ svc' = [svc EXCEPT !.snapshots = IF RowsOf(rows, w) # {} THEN @ \cup {w} ELSE @]
  /\ UNCHANGED <<worldVars, shown, focus, sessionVars, rows, request, faults, history>>

\* The snapshot; a window that is not linked to the window manager asks for a placement.
SnapshotFires(w) ==
  /\ Free
  /\ svc' = [svc EXCEPT !.snapshots = @ \ {w}, !.swap = TRUE]
  /\ rows' = IF link THEN SaveTabs(rows, {w}) ELSE rows
  /\ UNCHANGED <<worldVars, shown, focus, channel, sessionVars, request, faults, history>>

\* The focus moves, and the links that wait for this window are loaded, or not.
HandleFocus ==
  LET w == Subject
      waiting == UNION {rows[r].waiting : r \in RowsOf(rows, w)} IN
  /\ Arrived("focus")
  /\ svc' = IF svc.last = w THEN svc ELSE [svc EXCEPT !.prev = svc.last, !.last = w]
  /\ \E loaded \in SUBSET (IF w \in Live THEN waiting ELSE {}) :
       LET failed == IF w \in Live THEN waiting \ loaded ELSE {}
           pages  == IF w \in Live THEN shown[w] \cup loaded ELSE {} IN
       /\ faults + Cardinality(failed) <= MaxFaults
       /\ faults' = faults + Cardinality(failed)
       /\ shown' = IF loaded = {} THEN shown ELSE [shown EXCEPT ![w] = pages]
       /\ channel' = Tail(channel) \o (IF loaded = {} THEN <<>> ELSE <<Event("tabs", w)>>)
       /\ rows' = [r \in RowIds |-> IF r \in RowsOf(rows, w) /\ waiting # {}
                                    THEN Merged(rows[r], pages) ELSE rows[r]]
  /\ UNCHANGED <<worldVars, focus, sessionVars, request, history>>

-----------------------------------------------------------------------------
(***************************************************************************)
(* Restoring saved rows, and the placement loop, which gives the attached  *)
(* session a window.                                                       *)
(***************************************************************************)
HasWindow(s) == \E r \in OpenOf(rows, s) : rows[r].window \in Live

\* The windows that restoring rows may create, the next unused one for every row at most.
NextUnused(n) == CHOOSE w \in Unused : Cardinality({v \in Unused : v < w}) = n
Creations(wanted) ==
  {[r \in made |-> NextUnused(Cardinality({q \in made : q < r}))] :
     made \in {m \in SUBSET wanted : Cardinality(m) <= Cardinality(Unused)}}

\* Windows appear by calls of which `failures` did not return in time; those in
\* `owned` become a session's, the one in `focused` takes the focus.
Appear(new, owned, focused, failures) ==
  /\ faults + failures <= MaxFaults
  /\ faults' = faults + failures
  /\ shown' = Together(new, shown)
  /\ focus' = IF focused = {} THEN focus ELSE CHOOSE w \in focused : TRUE
  /\ Emits(SetToSeq({Event("created", w) : w \in DOMAIN new}) \o SetToSeq({Event("focus", w) : w \in focused}))
  /\ history' = [Anew(history, DOMAIN new) EXCEPT !.made = @ \cup owned]

\* restoreLocked: rows without a page are dropped; of the others the windows `f` are
\* created, but only for the rows in `kept` the call returns in time.
Content(r) == rows[r].tabs \cup rows[r].waiting
Kept(s)    == {r \in Restorable(rows, s) : Content(r) # {}}
Copies(f)  == [w \in {f[r] : r \in DOMAIN f} |-> Content(CHOOSE r \in DOMAIN f : f[r] = w)]
RestoredRows(s, f, kept) ==
  [r \in RowIds |-> IF r \in kept THEN Merged(Reopened(rows[r], f[r]), Content(r))
                    ELSE IF r \in Restorable(rows, s) \ Kept(s) THEN NoRow ELSE rows[r]]
Restored(s, f, kept) ==
  /\ Appear(Copies(f), {f[r] : r \in kept}, {}, Cardinality(Kept(s) \ kept))
  /\ rows' = RestoredRows(s, f, kept)

\* After that no row was restored, a window of s is created with `pages`.  The call
\* returns, fails, or times out although the window is created.
Outcomes == {"ok", "failed", "late"}
CreatedFor(s, pages, focused) ==
  \E f \in Creations(Kept(s)) : \E outcome \in Outcomes :
    LET w   == NextUnused(Cardinality(DOMAIN f))
        new == IF outcome = "failed" THEN << >> ELSE Gives(<< >>, w, pages)
        own == IF outcome = "ok" THEN {w} ELSE {} IN
    /\ Cardinality(Unused) > Cardinality(DOMAIN f)
    /\ Appear(Together(new, Copies(f)), own, IF focused THEN DOMAIN new ELSE {},
              Cardinality(Kept(s)) + (IF outcome = "ok" THEN 0 ELSE 1))
    /\ rows' = IF own # {} THEN AddRow(RestoredRows(s, f, {}), OpenRow(s, w, pages))
               ELSE RestoredRows(s, f, {})

\* The placement is the loop's, after a signal, or that of a request before it focuses.
Places == request.at = "placing" \/ (Free /\ svc.swap)
Begun  == IF request.at = "placing" THEN svc ELSE [svc EXCEPT !.swap = FALSE]
Goes   == request' = IF request.at = "placing" THEN [request EXCEPT !.at = "focusing"] ELSE request
Done(v) == [v EXCEPT !.ensured = svc.attached, !.placed = svc.attached, !.stale = FALSE]

\* The service is not connected, or the windows cannot be listed.
PlaceFails ==
  /\ IF svc.connected /\ link THEN Fault ELSE UNCHANGED faults
  /\ svc' = Begun
  /\ Goes
  /\ UNCHANGED <<worldVars, shown, focus, channel, sessionVars, rows, history>>

\* No session is attached, or it has a window.
PlaceNothing ==
  /\ svc.connected /\ link
  /\ svc.attached = 0 \/ HasWindow(svc.attached)
  /\ svc' = IF svc.attached = 0 THEN [Begun EXCEPT !.placed = 0, !.stale = FALSE] ELSE Done(Begun)
  /\ Goes
  /\ UNCHANGED <<worldVars, shown, focus, channel, sessionVars, rows, faults, history>>

NeedsWindow ==
  /\ svc.connected /\ link
  /\ svc.attached # 0 /\ ~HasWindow(svc.attached)

\* Its saved windows come back, and the loop is signalled again.
PlaceRestores ==
  /\ NeedsWindow
  /\ \E f \in Creations(Kept(svc.attached)) : \E kept \in (SUBSET DOMAIN f) \ {{}} :
       Restored(svc.attached, f, kept)
  /\ svc' = [Done(Begun) EXCEPT !.swap = TRUE]
  /\ Goes
  /\ UNCHANGED <<worldVars, sessionVars>>

\* Nothing came back, and the session had its turn: it gets no other window.
PlaceFindsNone ==
  /\ NeedsWindow
  /\ svc.ensured = svc.attached
  /\ \E f \in Creations(Kept(svc.attached)) : Restored(svc.attached, f, {})
  /\ svc' = Done(Begun)
  /\ Goes
  /\ UNCHANGED <<worldVars, sessionVars>>

\* Nothing came back: an empty window is created.
PlaceCreates ==
  /\ NeedsWindow
  /\ svc.ensured # svc.attached
  /\ Room
  /\ CreatedFor(svc.attached, {}, FALSE)
  /\ svc' = Done(Begun)
  /\ Goes
  /\ UNCHANGED <<worldVars, sessionVars>>

-----------------------------------------------------------------------------
(***************************************************************************)
(* Open.  The session is looked up before the mutex is taken.              *)
(***************************************************************************)
Asks(kind, s, page, w, focused) ==
  request' = [kind |-> kind, at |-> kind, session |-> s, page |-> page, window |-> w, focus |-> focused]
Answers(v) == request' = NoRequest /\ svc' = v
Unowned(w) == w \in Live \ Owned(rows)
HasPage(w, page) == w \in Live /\ page \in shown[w]

\* claimAttached: the session whose window gets the focus counts as attached.
Claimed(s) == IF svc.attached = s THEN svc ELSE Attached(s)

OpenAsked(asked, page, activate) ==
  LET s       == IF asked \in deleted THEN 0 ELSE asked
      switch  == s # 0 /\ activate /\ client # s
      focused == s = 0 \/ switch \/ client = s IN
  /\ request = NoRequest
  /\ IF ~focused /\ LoadTakesFocus
     THEN Asks("hold", s, page, 0, FALSE) /\ UNCHANGED <<client, svc>>
     ELSE /\ svc.connected
          /\ Asks("open", s, page, 0, focused)
          /\ client' = IF switch THEN s ELSE client
          /\ svc' = IF switch THEN Attached(s) ELSE IF focused /\ s # 0 THEN Claimed(s) ELSE svc
  /\ UNCHANGED <<worldVars, shown, focus, channel, deleted, rows, faults, history>>

\* A request finds the service disconnected, the windows cannot be listed, or what it
\* asked for is gone.
RequestFails ==
  /\ Free
  /\ request.at \in {"open", "move", "focus"}
  /\ \/ Fault
     \/ /\ \/ ~svc.connected \/ ~link
           \/ request.at # "open" /\ (~HasPage(request.window, request.page) \/ RowsOf(rows, request.window) = {})
        /\ UNCHANGED faults
  /\ request' = NoRequest
  /\ UNCHANGED <<worldVars, shown, focus, channel, sessionVars, rows, svc, history>>

Locked(at) == Free /\ request.at = at /\ svc.connected /\ link

\* The window is known; a request that focuses places the windows first if need be.
Found(w, v) ==
  /\ request' = [request EXCEPT !.window = w,
       !.at = IF request.focus /\ (v.stale \/ v.placed # v.attached) THEN "placing" ELSE "focusing"]
  /\ svc' = v

\* targetWindow.
Targets ==
  IF request.session # 0 THEN {rows[r].window : r \in OpenOf(rows, request.session)} \cap Live
  ELSE IF Unowned(svc.last) THEN {svc.last} ELSE {w \in Live : Unowned(w)}

OpenFinds ==
  /\ Locked("open")
  /\ \E w \in Targets : Found(w, svc)
  /\ UNCHANGED <<worldVars, shown, focus, channel, sessionVars, rows, faults, history>>

\* The saved windows come back; one of them gets the page.
OpenRestores ==
  /\ Locked("open")
  /\ request.session # 0 /\ Targets = {}
  /\ \E f \in Creations(Kept(request.session)) : \E kept \in (SUBSET DOMAIN f) \ {{}} :
       /\ Restored(request.session, f, kept)
       /\ \E r \in kept : Found(f[r], [svc EXCEPT !.swap = TRUE, !.stale = TRUE])
  /\ UNCHANGED <<worldVars, sessionVars>>

OpenCreates ==
  /\ Locked("open")
  /\ request.session # 0 /\ Targets = {}
  /\ Room
  /\ CreatedFor(request.session, {request.page}, request.focus)
  /\ Answers(IF rows' # rows THEN [svc EXCEPT !.swap = TRUE] ELSE svc)
  /\ UNCHANGED <<worldVars, sessionVars>>

\* A link of no session gets a window that stays without an owner.
OpenCreatesUnowned ==
  /\ Locked("open")
  /\ request.session = 0 /\ Targets = {}
  /\ Unused # {}
  /\ \E outcome \in Outcomes :
       LET w   == NextUnused(0)
           new == IF outcome = "failed" THEN << >> ELSE Gives(<< >>, w, {request.page}) IN
       /\ Appear(new, {}, DOMAIN new, IF outcome = "ok" THEN 0 ELSE 1)
       /\ Answers(IF outcome = "ok" THEN [svc EXCEPT !.unowned = @ \cup {w}] ELSE svc)
  /\ UNCHANGED <<worldVars, sessionVars, rows>>

\* The page is activated or opened in the window, and the window focused.
Opens(w, page) ==
  /\ shown' = [shown EXCEPT ![w] = @ \cup {page}]
  /\ focus' = IF request.focus THEN w ELSE focus
  /\ Emits(<<Event("tabs", w)>> \o (IF request.focus THEN <<Event("focus", w)>> ELSE <<>>))

Finish ==
  /\ request.at = "focusing"
  /\ IF link /\ request.window \in Live
     THEN \/ Opens(request.window, request.page) /\ UNCHANGED faults
          \/ Fault /\ UNCHANGED <<shown, focus, channel>>
     ELSE UNCHANGED <<shown, focus, channel, faults>>
  /\ request' = NoRequest
  /\ UNCHANGED <<worldVars, sessionVars, rows, svc, history>>

\* holdTarget: an open row of the session, else a saved one.
HoldTargets ==
  IF OpenOf(rows, request.session) # {} THEN OpenOf(rows, request.session)
  ELSE Restorable(rows, request.session)

\* activateHeld: the page is there already, or the window has the focus anyway.
Reaches(r) ==
  /\ rows[r].state = "open" /\ svc.connected
  /\ rows[r].window \in Live
  /\ request.page \in shown[rows[r].window] \/ focus = rows[r].window

HoldOpens ==
  /\ Free
  /\ request.at = "hold"
  /\ link
  /\ \E r \in HoldTargets : Reaches(r) /\ Opens(rows[r].window, request.page)
  /\ request' = NoRequest
  /\ UNCHANGED <<worldVars, sessionVars, rows, svc, faults, history>>

HoldFails ==
  /\ Free
  /\ request.at = "hold"
  /\ svc.connected
  /\ \E r \in HoldTargets : rows[r].state = "open"
  /\ IF link THEN Fault ELSE UNCHANGED faults
  /\ request' = NoRequest
  /\ UNCHANGED <<worldVars, shown, focus, channel, sessionVars, rows, svc, history>>

\* hold: the link waits in a row, which may be a new one.
HoldWaits ==
  /\ Free
  /\ request.at = "hold"
  /\ Room
  /\ IF HoldTargets = {}
     THEN rows' = AddRow(rows, [NoRow EXCEPT !.state = "snapshotted", !.session = request.session, !.waiting = {request.page}])
     ELSE \E r \in HoldTargets :
            /\ ~(Reaches(r) /\ link) /\ (rows[r].state = "open" /\ svc.connected => link)
            /\ rows' = [rows EXCEPT ![r].waiting = IF request.page \in Content(r) THEN @ ELSE @ \cup {request.page}]
  /\ request' = NoRequest
  /\ UNCHANGED <<worldVars, shown, focus, channel, sessionVars, svc, faults, history>>

-----------------------------------------------------------------------------
(***************************************************************************)
(* FocusTab, MoveTab and Eject.                                            *)
(***************************************************************************)
SessionOf(w) == rows[CHOOSE r \in RowsOf(rows, w) : TRUE].session

\* FocusTab switches to the session before it takes the mutex.
FocusAsked(w, page) ==
  LET s == SessionOf(w) IN
  /\ request = NoRequest
  /\ svc.connected /\ link
  /\ HasPage(w, page) /\ RowsOf(rows, w) # {}
  /\ s \notin deleted
  /\ client' = s
  /\ svc' = IF client = s THEN Claimed(s) ELSE Attached(s)
  /\ Asks("focus", s, page, w, TRUE)
  /\ UNCHANGED <<worldVars, shown, focus, channel, deleted, rows, faults, history>>

FocusFinds ==
  /\ Locked("focus")
  /\ HasPage(request.window, request.page)
  /\ \E r \in RowsOf(rows, request.window) : rows[r].session = request.session
  /\ Found(request.window, svc)
  /\ UNCHANGED <<worldVars, shown, focus, channel, sessionVars, rows, faults, history>>

MoveAsked(w, page, s) ==
  /\ request = NoRequest
  /\ svc.connected
  /\ RowsOf(rows, w) # {} /\ SessionOf(w) # s
  /\ s \notin deleted
  /\ Asks("move", s, page, w, FALSE)
  /\ UNCHANGED <<worldVars, shown, focus, channel, sessionVars, rows, svc, faults, history>>

\* The page leaves window w for window v; a window without a tab closes.
Moved(w, v, page) ==
  LET left == shown[w] \ {page}
      kept == IF left = {} THEN Without(shown, {w}) ELSE [shown EXCEPT ![w] = left] IN
  /\ shown' = Gives(kept, v, (IF v \in Live THEN shown[v] ELSE {}) \cup {page})
  /\ focus' = IF left = {} /\ focus = w THEN 0 ELSE focus
  /\ Emits((IF v \in Live THEN <<>> ELSE <<Event("created", v)>>)
           \o <<Event(IF left = {} THEN "removed" ELSE "tabs", w), Event("tabs", v)>>)

MoveInto ==
  LET w == request.window IN
  /\ Locked("move")
  /\ HasPage(w, request.page) /\ RowsOf(rows, w) # {}
  /\ \E v \in Targets \ {w} : Moved(w, v, request.page)
  /\ history' = [history EXCEPT !.byHand = IF w \in DOMAIN shown' THEN @ ELSE @ \cup {w}]
  /\ request' = NoRequest
  /\ UNCHANGED <<worldVars, sessionVars, rows, svc, faults>>

\* The target has no window: the tab is detached into a new one.
MoveDetaches ==
  LET w == request.window IN
  /\ Locked("move")
  /\ HasPage(w, request.page) /\ RowsOf(rows, w) # {}
  /\ Targets = {}
  /\ Room
  /\ Unused # {}
  /\ \E late \in BOOLEAN :
       LET v   == NextUnused(0)
           own == IF late THEN {} ELSE {v} IN
       /\ IF late THEN Fault ELSE UNCHANGED faults
       /\ Moved(w, v, request.page)
       /\ rows' = IF late THEN rows ELSE AddRow(rows, OpenRow(request.session, v, {request.page}))
       /\ svc' = IF late THEN svc ELSE [svc EXCEPT !.swap = TRUE]
       /\ history' = [Anew(history, {v}) EXCEPT !.made = @ \cup own,
                        !.byHand = IF w \in DOMAIN shown' THEN @ ELSE @ \cup {w}]
  /\ request' = NoRequest
  /\ UNCHANGED <<worldVars, sessionVars>>

\* Eject: the row and the timers of the window are dropped, the window stays.
Eject(w) ==
  /\ Free
  /\ svc.connected /\ link
  /\ w \in Live /\ RowsOf(rows, w) # {}
  /\ rows' = Delete(rows, RowsOf(rows, w))
  /\ svc' = [svc EXCEPT !.snapshots = @ \ {w}, !.removals = @ \ {w}]
  /\ history' = [history EXCEPT !.ejected = @ \cup {w}]
  /\ UNCHANGED <<worldVars, shown, focus, channel, sessionVars, request, faults>>

-----------------------------------------------------------------------------
\* The start of the daemon: there is no window, or one that a session has.
BrowserInit ==
  /\ running = TRUE
  /\ focus = 0
  /\ newRun = FALSE
  /\ link = TRUE /\ fresh = TRUE
  /\ channel = <<>>
  /\ client \in Sessions \cup {0}
  /\ deleted = {}
  /\ LET none == [r \in RowIds |-> NoRow]
         w    == Min(WindowIds) IN
     \/ shown = << >> /\ rows = none
     \/ \E s \in Sessions, p \in Pages :
          /\ shown = Gives(<< >>, w, {p})
          /\ rows = [none EXCEPT ![Min(RowIds)] = OpenRow(s, w, {p})]
  /\ svc = FreshService
  /\ request = NoRequest
  /\ faults = 0
  /\ history = NoHistory

Windows ==
  \/ \E p \in Pages : UserOpens({p})
  \/ \E w \in Live : UserCloses(w) \/ UserFocuses(w)
  \/ \E w \in Live, pages \in SUBSET Pages : UserBrowses(w, pages)

SessionEvents == \E s \in Sessions : SwitchTo(s) \/ SessionArchived(s) \/ SessionDeleted(s)

Asking ==
  \/ \E s \in Sessions \cup {0}, p \in Pages, activate \in BOOLEAN : OpenAsked(s, p, activate)
  \/ \E w \in Live, p \in Pages : FocusAsked(w, p)
  \/ \E w \in Live, p \in Pages, s \in Sessions : MoveAsked(w, p, s)
  \/ \E w \in Live : Eject(w)

Environment == BrowserQuits \/ LinkBreaks \/ DaemonRestarts

\* What the browser restores and the extension connects by itself.
Browser == LinkComes \/ BrowserStarts

Loops ==
  \/ TakeOp
  \/ Ends /\ (EndFails \/ ArchiveLive \/ ArchiveOffline \/ DeleteLive \/ DeleteOffline)
  \/ Places /\ (PlaceFails \/ PlaceNothing \/ PlaceRestores \/ PlaceFindsNone \/ PlaceCreates)

EventsAndTimers ==
  \/ HandleConnected \/ HandleConnectedFails \/ HandleDisconnected
  \/ channel # <<>> /\ (HandleCreated \/ HandleCreatedFails \/ HandleRemoved \/ HandleTabs \/ HandleFocus)
  \/ \E w \in svc.removals : RemovalExpires(w)
  \/ \E w \in svc.snapshots : SnapshotFires(w)

Requests ==
  /\ request # NoRequest
  /\ \/ RequestFails \/ OpenFinds \/ OpenRestores \/ OpenCreates \/ OpenCreatesUnowned \/ Finish
     \/ HoldOpens \/ HoldFails \/ HoldWaits
     \/ FocusFinds \/ MoveInto \/ MoveDetaches

BrowserNext == Windows \/ SessionEvents \/ Asking \/ Environment \/ Browser \/ Loops \/ EventsAndTimers \/ Requests

BrowserSpec == BrowserInit /\ [][BrowserNext]_browserVars
-----------------------------------------------------------------------------
(***************************************************************************)
(* Properties.                                                             *)
(***************************************************************************)

\* A window belongs to one session at most, though the events of a window that the
\* service created, restored or matched arrive when it has its row already.
OneOwner ==
  \A q, r \in OpenRows(rows) : q # r => rows[q].window # rows[r].window

\* Saved pages are forgotten only because the user closed or ejected their window or
\* deleted the session, whatever the browser, its connection and the daemon did; but
\* for a window whose close the daemon believed to have failed.
OnlyUserForgets ==
  [][\A r \in RowIds :
       rows[r].state # "none" /\ rows[r].tabs # {} /\ rows'[r].state = "none" =>
         \/ rows[r].session \in deleted
         \/ rows[r].window \in history.byHand \cup history'.ejected \cup history.late]_browserVars

\* When the end of a session has been dealt with no row of it is left or comes back,
\* unless a request for it was past its checks, or the operation was given up.
DeletedAreForgotten ==
  \A r \in RowIds :
    rows[r].session \in deleted =>
      \/ rows[r].session \in history.overtaken \cup history.dropped
      \/ Op = [session |-> rows[r].session, deleted |-> TRUE]
      \/ \E i \in DOMAIN svc.queue : svc.queue[i] = [session |-> rows[r].session, deleted |-> TRUE]

\* A window that was a session's does not stay open without an owner, through archives,
\* deletions, lost connections and restarts: it is owned, ejected, or will be closed at
\* the next connection, but for closes that failed and rows that were overwritten.
NoOrphan ==
  svc.connected /\ link /\ ~fresh =>
    history.made \cap Live \subseteq
      Owned(rows) \cup history.ejected \cup history.strays \cup {p.window : p \in svc.pendingClose}
=============================================================================
