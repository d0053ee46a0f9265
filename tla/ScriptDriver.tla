----------------------------- MODULE ScriptDriver -----------------------------
(***************************************************************************)
(* The driver of Chrome through AppleScript:                               *)
(* internal/chromescript/driver.go.  Chrome tells it nothing: Subscribe    *)
(* reads all windows every 1.5 seconds and tells the browser service what  *)
(* differs from the time before.  Chrome closes its windows one by one     *)
(* when it quits, so a window that is missing is reported one poll later,  *)
(* and never if Chrome has gone or is another process by then.             *)
(*                                                                         *)
(* A window is its tabs and the one it shows.  Named bounds on Chrome,     *)
(* which the code relies on: a window's number is not used again by the    *)
(* same process, and no second poll sees a Chrome that is quitting.        *)
(***************************************************************************)
EXTENDS Naturals, FiniteSets

CONSTANTS ChromeWindows, ChromeTabs, NoWindow, MaxPollErrors

ASSUME NoWindowIsNone == NoWindow \notin ChromeWindows
ASSUME PollErrorsArePositive == MaxPollErrors \in Nat \ {0}

VARIABLES
  chrome,     \* the process: is it up, which run is it, is it quitting (and seen to)
  place,      \* the window of every tab
  active,      \* the active tab of every window
  frontmost,  \* the window that has the focus, if Chrome is the frontmost application
  allowed,    \* the user lets utena control Chrome
  warning,    \* d.warning is set
  watch,      \* the goroutine of Subscribe
  checked,    \* a CreateWindow or DetachTab that has found Chrome running
  known,      \* what the service knows: the windows and their tabs
  focused,    \* and the window that was focused last
  byHand,     \* history: windows of this run that somebody closed
  mistold,    \* history: windows the service was told are closed, and nobody closed
  quiet       \* history: polls of Subscribe since Chrome's windows last changed

chromeVars == <<chrome, place, active, frontmost, byHand>>
serviceVars == <<known, focused, mistold>>
scriptVars == <<chromeVars, allowed, warning, watch, checked, serviceVars, quiet>>

NoWindows == [w \in {} |-> NoWindow]
Unwatched == [at |-> "waiting", prev |-> [windows |-> NoWindows, focused |-> NoWindow],
         cur |-> [windows |-> NoWindows, focused |-> NoWindow], removed |-> {}, failures |-> 0,
         run |-> 0, listed |-> FALSE, apart |-> {}]

TabsOf(at, w) == {t \in ChromeTabs : at[t] = w}
Open(at)      == {w \in ChromeWindows : TabsOf(at, w) # {}}
OpenNow       == Open(place)
FreeNumbers   == ChromeWindows \ (OpenNow \cup byHand)

\* The daemon starts; Chrome may have been started before.
ScriptInit ==
  /\ \E up \in BOOLEAN :
       /\ chrome = [up |-> up, run |-> IF up THEN 1 ELSE 0, quitting |-> FALSE, seen |-> FALSE]
       /\ place \in [ChromeTabs -> ChromeWindows \cup {NoWindow}]
       /\ up = (OpenNow # {})
  /\ active = [w \in ChromeWindows |-> IF w \in OpenNow THEN CHOOSE t \in ChromeTabs : place[t] = w ELSE NoWindow]
  /\ frontmost = NoWindow
  /\ allowed = TRUE
  /\ warning = FALSE
  /\ watch = Unwatched
  /\ checked = "no"
  /\ known = NoWindows
  /\ focused = NoWindow
  /\ byHand = {}
  /\ mistold = {}
  /\ quiet = 0

-----------------------------------------------------------------------------
(***************************************************************************)
(* Chrome and its user.                                                    *)
(***************************************************************************)
\* The tabs come to be at these places; a window that shows a tab it has no
\* longer shows another one; one that has lost its last tab is closed.
Arrange(at) ==
  /\ place' = at
  /\ active' = [w \in ChromeWindows |-> IF w \notin Open(at) THEN NoWindow
                 ELSE IF active[w] \in TabsOf(at, w) THEN active[w] ELSE CHOOSE t \in TabsOf(at, w) : TRUE]
  /\ frontmost' = IF frontmost \in Open(at) THEN frontmost ELSE NoWindow
  /\ quiet' = 0

Launch ==
  /\ ~chrome.up
  /\ chrome' = [up |-> TRUE, run |-> chrome.run + 1, quitting |-> FALSE, seen |-> FALSE]
  /\ byHand' = {}
  /\ \E at \in [ChromeTabs -> ChromeWindows \cup {NoWindow}] : Open(at) # {} /\ Arrange(at)

StartChrome == Launch /\ UNCHANGED <<allowed, warning, watch, checked, serviceVars>>

\* The user, or a script, moves a tab, opens or closes one.
Rearrange(at) ==
  /\ Arrange(at)
  /\ byHand' = byHand \cup (OpenNow \ Open(at))
  /\ UNCHANGED chrome

Show(w, t) ==
  /\ place[t] = w
  /\ active[w] # t
  /\ active' = [active EXCEPT ![w] = t]
  /\ quiet' = 0
  /\ UNCHANGED <<chrome, place, frontmost, byHand>>

Raise(w) ==
  /\ frontmost # w
  /\ frontmost' = w
  /\ quiet' = 0
  /\ UNCHANGED <<chrome, place, active, byHand>>

Browse ==
  /\ chrome.up /\ ~chrome.quitting
  /\ \/ \E t \in ChromeTabs, w \in OpenNow \cup FreeNumbers \cup {NoWindow} :
          place[t] # w /\ Rearrange([place EXCEPT ![t] = w])
     \/ \E w \in OpenNow, t \in ChromeTabs : Show(w, t)
     \/ \E w \in OpenNow \cup {NoWindow} : Raise(w)
  /\ UNCHANGED <<allowed, warning, watch, checked, serviceVars>>

\* Chrome is told to quit; its windows go one after the other, then the process.
QuitChrome ==
  /\ chrome.up /\ ~chrome.quitting
  /\ chrome' = [chrome EXCEPT !.quitting = TRUE]
  /\ UNCHANGED <<place, active, frontmost, byHand, allowed, warning, watch, checked, serviceVars, quiet>>

Quitting ==
  /\ chrome.quitting
  /\ \/ /\ \E w \in OpenNow : Arrange([t \in ChromeTabs |-> IF place[t] = w THEN NoWindow ELSE place[t]])
        /\ UNCHANGED chrome
     \/ /\ Arrange([t \in ChromeTabs |-> NoWindow])
        /\ chrome' = [chrome EXCEPT !.up = FALSE, !.quitting = FALSE, !.seen = FALSE]
  /\ UNCHANGED <<byHand, allowed, warning, watch, checked, serviceVars>>

Permit ==
  /\ allowed' = ~allowed
  /\ UNCHANGED <<chromeVars, warning, watch, checked, serviceVars, quiet>>

-----------------------------------------------------------------------------
(***************************************************************************)
(* osascript and the calls of the service.  A script that addresses a      *)
(* Chrome that is not running starts it.  Only CreateWindow and DetachTab  *)
(* look before, and what they saw may be over when their script runs.      *)
(***************************************************************************)
SetWarning(denied) == warning' = denied

Script(Effect) ==
  /\ \/ chrome.up /\ ~chrome.quitting /\ allowed /\ Effect /\ SetWarning(FALSE)
     \/ chrome.up /\ ~allowed /\ SetWarning(TRUE) /\ UNCHANGED <<chromeVars, quiet>>
     \/ Launch /\ UNCHANGED warning
  /\ UNCHANGED <<allowed, watch, serviceVars>>

OpenTab(w, t)     == w \in OpenNow /\ place[t] = NoWindow /\ Rearrange([place EXCEPT ![t] = w])
ActivateTab(w, t) == Show(w, t)
FocusWindow(w)    == w \in OpenNow /\ Raise(w)
CloseWindow(w)    == w \in OpenNow /\ Rearrange([t \in ChromeTabs |-> IF place[t] = w THEN NoWindow ELSE place[t]])
DragTab(t, w)     == {place[t], w} \subseteq OpenNow /\ place[t] # w /\ Rearrange([place EXCEPT ![t] = w])
CreateWindow(t)   == place[t] = NoWindow /\ \E w \in FreeNumbers : Rearrange([place EXCEPT ![t] = w])
DetachTab(t)      == place[t] \in OpenNow /\ \E w \in FreeNumbers : Rearrange([place EXCEPT ![t] = w])

Call ==
  \/ /\ \E w \in ChromeWindows, t \in ChromeTabs :
          Script(OpenTab(w, t) \/ ActivateTab(w, t) \/ FocusWindow(w) \/ CloseWindow(w) \/ DragTab(t, w))
     /\ UNCHANGED checked
  \/ /\ checked = "no"
     /\ chrome.up /\ allowed
     /\ checked' \in {"create", "detach"}
     /\ SetWarning(FALSE)
     /\ UNCHANGED <<chromeVars, allowed, watch, serviceVars, quiet>>

Make ==
  /\ \/ checked = "create" /\ \E t \in ChromeTabs : Script(CreateWindow(t))
     \/ checked = "detach" /\ \E t \in ChromeTabs : Script(DetachTab(t))
  /\ checked' = "no"

-----------------------------------------------------------------------------
(***************************************************************************)
(* poll and diff.                                                          *)
(***************************************************************************)
WindowsNow == [w \in OpenNow |-> [tabs |-> TabsOf(place, w), shown |-> active[w]]]
Taken == [windows |-> WindowsNow, focused |-> frontmost]

Created(prev, cur) == DOMAIN cur.windows \ DOMAIN prev.windows
Removed(prev, cur) == DOMAIN prev.windows \ DOMAIN cur.windows
Changed(prev, cur) == {w \in DOMAIN prev.windows \cap DOMAIN cur.windows : prev.windows[w] # cur.windows[w]}
\* The windows that two polls see differently.
Apart(prev, cur) ==
  Created(prev, cur) \cup Removed(prev, cur) \cup Changed(prev, cur)
    \cup (IF prev.focused = cur.focused THEN {} ELSE {prev.focused, cur.focused})
FocusMoved(prev, cur) == cur.focused \notin {NoWindow, prev.focused}

WatchIs(state) == watch.at = state

\* A poll that is answered: Chrome is asked only when it is running.
Polls ==
  /\ ~chrome.up \/ allowed
  /\ ~(chrome.quitting /\ chrome.seen)
  /\ chrome' = [chrome EXCEPT !.seen = chrome.quitting]
  /\ SetWarning(FALSE)

\* One that fails: refused, no answer in time, an answer that cannot be read.
PollFails ==
  /\ watch.at \in {"waiting", "sleeping"}
  /\ watch' = IF watch.failures + 1 >= MaxPollErrors THEN [Unwatched EXCEPT !.at = "retrying"]
              ELSE [watch EXCEPT !.failures = @ + 1]
  /\ warning' = (warning \/ (chrome.up /\ ~allowed))
  /\ UNCHANGED <<chromeVars, allowed, checked, serviceVars, quiet>>

WaitRunning ==
  /\ WatchIs("waiting")
  /\ Polls
  /\ watch' = IF chrome.up THEN [watch EXCEPT !.at = "naming", !.prev = Taken]
              ELSE [watch EXCEPT !.failures = 0]
  /\ UNCHANGED <<place, active, frontmost, byHand, allowed, checked, serviceVars, quiet>>

-----------------------------------------------------------------------------
(***************************************************************************)
(* Subscribe.  The service lists the windows itself when it is told of a   *)
(* connection, which may fail.                                             *)
(***************************************************************************)
\* pgrep: 0 stands for the empty answer of a pgrep that failed or found nothing.
RunID == {0, IF chrome.up THEN chrome.run ELSE 0}

NameRun ==
  /\ WatchIs("naming")
  /\ \E id \in RunID : watch' = [watch EXCEPT !.at = "connecting", !.run = id]
  /\ UNCHANGED <<chromeVars, allowed, warning, checked, serviceVars, quiet>>

Connected ==
  /\ WatchIs("connecting")
  /\ \/ /\ chrome.up /\ allowed
        /\ watch' = [watch EXCEPT !.at = "sleeping", !.failures = 0, !.listed = TRUE,
                                  !.apart = Apart(watch.prev, Taken)]
        /\ known' = WindowsNow
        /\ focused' = frontmost
     \/ /\ watch' = [watch EXCEPT !.at = "sleeping", !.failures = 0]
        /\ UNCHANGED <<known, focused>>
  /\ mistold' = {}
  /\ quiet' = 0
  /\ UNCHANGED <<chromeVars, allowed, warning, checked>>

PollAgain ==
  /\ WatchIs("sleeping")
  /\ Polls
  /\ watch' = IF chrome.up THEN [watch EXCEPT !.at = "checking", !.cur = Taken, !.failures = 0]
              ELSE [Unwatched EXCEPT !.at = "retrying"]
  /\ quiet' = IF quiet < 2 THEN quiet + 1 ELSE quiet
  /\ UNCHANGED <<place, active, frontmost, byHand, allowed, checked, serviceVars>>

OtherRun ==
  /\ WatchIs("checking")
  /\ watch.run # 0
  /\ RunID # {watch.run}
  /\ watch' = [Unwatched EXCEPT !.at = "retrying"]
  /\ UNCHANGED <<chromeVars, allowed, warning, checked, serviceVars, quiet>>

\* Events of one poll: the removals held back, then what is new.
TellOf(gone, prev, cur) ==
  LET told == Created(prev, cur) \cup Changed(prev, cur) IN
  /\ known' = [w \in (DOMAIN known \ gone) \cup told |->
                IF w \in told THEN cur.windows[w] ELSE known[w]]
  /\ focused' = IF FocusMoved(prev, cur) THEN cur.focused ELSE focused
  /\ mistold' = mistold \cup ((gone \cap DOMAIN known) \ byHand)

\* Mutants of Tell: what is missing is told at once; it is forgotten.
TellAtOnce ==
  /\ WatchIs("checking")
  /\ watch.run \in RunID \cup {0}
  /\ TellOf(Removed(watch.prev, watch.cur), watch.prev, watch.cur)
  /\ watch' = [watch EXCEPT !.at = "sleeping", !.prev = watch.cur, !.cur = Unwatched.cur]
  /\ UNCHANGED <<chromeVars, allowed, warning, checked, quiet>>

TellNothingGone ==
  /\ WatchIs("checking")
  /\ watch.run \in RunID \cup {0}
  /\ TellOf({}, watch.prev, watch.cur)
  /\ watch' = [watch EXCEPT !.at = "sleeping", !.prev = watch.cur, !.cur = Unwatched.cur]
  /\ UNCHANGED <<chromeVars, allowed, warning, checked, quiet>>

Tell ==
  /\ WatchIs("checking")
  /\ watch.run \in RunID \cup {0}
  /\ TellOf(watch.removed, watch.prev, watch.cur)
  /\ watch' = [watch EXCEPT !.at = "sleeping", !.prev = watch.cur, !.cur = Unwatched.cur,
                            !.removed = Removed(watch.prev, watch.cur)]
  /\ UNCHANGED <<chromeVars, allowed, warning, checked, quiet>>

\* followEvents: two seconds later.
Retry ==
  /\ WatchIs("retrying")
  /\ watch' = Unwatched
  /\ UNCHANGED <<chromeVars, allowed, warning, checked, serviceVars, quiet>>

-----------------------------------------------------------------------------
ChromeActs == StartChrome \/ Browse \/ QuitChrome \/ Permit \/ Call
ChromeGoes == Quitting \/ Make
Follow     == PollFails \/ WaitRunning \/ NameRun \/ Connected \/ PollAgain \/ OtherRun \/ Tell \/ Retry

ScriptSpec == ScriptInit /\ [][ChromeActs \/ ChromeGoes \/ Follow]_scriptVars

-----------------------------------------------------------------------------
(***************************************************************************)
(* Properties.                                                             *)
(***************************************************************************)
\* Chrome that quits, or is started again between two polls, is never told as
\* its windows being closed, which would take them from their sessions: as long
\* as Subscribe has learned which process it watches, and the service could list
\* the windows of that process when the connection began.
QuitIsNotClosing ==
  (watch.at = "sleeping" /\ watch.run # 0 /\ watch.listed) => mistold = {}

\* After two polls that follow the last change the service has been told of all
\* of it: it knows the windows there are, their tabs and the focus, no more and no
\* fewer.  The exception: what has changed between the first poll and the listing
\* of the service, and back before the second poll, is never noticed.
SettledIsTold ==
  (watch.at = "sleeping" /\ watch.listed /\ quiet = 2) =>
    /\ \A w \in ChromeWindows \ watch.apart :
         /\ w \in DOMAIN known <=> w \in OpenNow
         /\ w \in OpenNow => known[w] = WindowsNow[w]
    /\ frontmost \notin watch.apart \cup {NoWindow} => focused = frontmost
=============================================================================
