---------------------------- MODULE SessionPicker ----------------------------
(***************************************************************************)
(* The list of sessions in the picker, and the detail panel beside it      *)
(* (sessionlist.go, sessiondetail/model.go).  Archiving, repairing and     *)
(* deleting ask for the same key twice; between the two presses the list   *)
(* may be refreshed, sorted anew and lose or gain sessions.                *)
(*                                                                         *)
(* Messages are handled one at a time.  What a refresh brings is anything  *)
(* the daemon could answer: pollers, other clients and answers that        *)
(* overtake each other are all in that.                                    *)
(***************************************************************************)
EXTENDS Naturals, SequencesExt

CONSTANTS
  Shelf,   \* the sessions
  NoOne    \* no session

\* "active" stands for inactive and completed too, "attached" for active and attached.
Conditions == {"creating", "active", "attached", "broken", "pending", "archived"}
Hidden     == {"broken", "archived"}

VARIABLES
  listed,      \* the sessions of the last refresh in the order they are shown
  filtered,    \* those of them that are shown
  cond,        \* their conditions
  showHidden,
  cursor,      \* 1 for the first row
  armed,       \* what a second press of the key would do, and to which session
  panel,       \* the detail panel: its session, focus, overlay and armed deletion
  picked,      \* the session an overlay was open for whose answer is under way
  sent,        \* the command that the last message led to
  prompt       \* history: what the user was asked last, unless it is no longer in sight

pickerVars == <<listed, filtered, cond, showHidden, cursor, armed, panel, picked, sent, prompt>>

Disarmed  == [k \in {"archive", "delete", "repair"} |-> NoOne]
Blank     == [sess |-> NoOne, focused |-> FALSE, overlay |-> FALSE, armed |-> NoOne]
Nothing   == [what |-> "none", id |-> NoOne, confirmed |-> FALSE]
Ask(where, what, id) == [where |-> where, what |-> what, id |-> id]
NoPrompt  == Ask("none", "none", NoOne)

\* The requests of the picker; a failure is only shown.  The confirmed ones tell whether
\* the prompt for just that was in sight.
Request(what, s)          == [what |-> what, id |-> s, confirmed |-> FALSE]
Confirmed(where, what, s) == [what |-> what, id |-> s, confirmed |-> prompt = Ask(where, what, s)]
ActivateSession(s)  == Request("activate", s)
DismissSession(s)   == Request("dismiss", s)
ArchiveAtOnce(s)    == Request("archive at once", s)
DeleteFromPanel(s)  == Confirmed("panel", "delete", s)

\* ListVisible.
Visible(list, conditions, all) == SelectSeq(list, LAMBDA s : all \/ conditions[s] \notin Hidden)

At(rows, i) == IF i \in DOMAIN rows THEN rows[i] ELSE NoOne
Selected    == At(filtered, cursor)

PickerInit ==
  /\ listed = <<>> /\ filtered = <<>>
  /\ cond = [s \in Shelf |-> "active"]
  /\ showHidden = FALSE
  /\ cursor = 1
  /\ armed = Disarmed
  /\ panel = Blank
  /\ picked = NoOne
  /\ sent = Nothing
  /\ prompt = NoPrompt

-----------------------------------------------------------------------------
(***************************************************************************)
(* The selection.  rebuildFiltered keeps the cursor on its session, or in  *)
(* the list; the panel follows (detail.Select) and forgets what it was     *)
(* asked when it shows another session.                                    *)
(***************************************************************************)
Rebuilt(rows) ==
  IF Selected # NoOne /\ Contains(rows, Selected)
  THEN CHOOSE i \in DOMAIN rows : rows[i] = Selected
  ELSE IF cursor > Len(rows) THEN (IF rows = <<>> THEN 1 ELSE Len(rows)) ELSE cursor

PanelShows(p, s) == IF p.sess = s /\ s # NoOne THEN p ELSE [Blank EXCEPT !.sess = s]

\* A question is in sight as long as its session stays selected.
StillAsked(s) == prompt' = IF s = Selected THEN prompt ELSE NoPrompt

\* Mutant of Forgets: a refresh leaves the armed commands alone, each has its session's id.
ForgetsNothing(s) == armed' = armed

Forgets(s) == armed' = IF s = NoOne \/ s # Selected THEN Disarmed ELSE armed

\* SessionsStateUpdatedMsg.
SessionsUpdated(order, conditions) ==
  LET rows == Visible(order, conditions, showHidden)
      at   == Rebuilt(rows)
  IN /\ listed' = order
     /\ cond' = [s \in Shelf |-> IF Contains(order, s) THEN conditions[s] ELSE "active"]
     /\ filtered' = rows /\ cursor' = at
     /\ Forgets(At(rows, at))
     /\ panel' = PanelShows(panel, At(rows, at))
     /\ StillAsked(At(rows, at))
     /\ sent' = Nothing
     /\ UNCHANGED <<showHidden, picked>>

-----------------------------------------------------------------------------
(***************************************************************************)
(* Keys of the list, when the panel is not focused.                        *)
(***************************************************************************)
InList == ~panel.focused

\* Up and Down: what was asked is forgotten when the selection moves.
Moves(to) ==
  /\ InList
  /\ to \in {cursor - 1, cursor + 1} /\ to \in DOMAIN filtered
  /\ cursor' = to
  /\ armed' = Disarmed /\ prompt' = NoPrompt
  /\ panel' = PanelShows(panel, filtered[to])
  /\ sent' = Nothing
  /\ UNCHANGED <<listed, filtered, cond, showHidden, picked>>

ToggleHidden ==
  LET rows == Visible(listed, cond, ~showHidden)
      at   == Rebuilt(rows)
  IN /\ InList
     /\ showHidden' = ~showHidden
     /\ filtered' = rows /\ cursor' = at
     /\ armed' = Disarmed /\ prompt' = NoPrompt
     /\ panel' = PanelShows(panel, At(rows, at))
     /\ sent' = Nothing
     /\ UNCHANGED <<listed, cond, picked>>

\* Every other key that opens a view, a link or the panel.
OtherListKey ==
  /\ InList
  /\ armed' = Disarmed /\ prompt' = NoPrompt
  /\ sent' = Nothing
  /\ \/ UNCHANGED panel
     \/ Selected # NoOne /\ panel' = [panel EXCEPT !.focused = TRUE]
  /\ UNCHANGED <<listed, filtered, cond, showHidden, cursor, picked>>

\* A press of the key of one command: the other ones are no longer armed.
Press(what) ==
  /\ InList /\ Selected # NoOne
  /\ UNCHANGED <<listed, filtered, cond, showHidden, cursor, panel, picked>>

Only1(what, id) == [Disarmed EXCEPT ![what] = id]

\* A key that is refused, or carried out at once, leaves the command armed.
Refuses(what) ==
  /\ armed' = Only1(what, armed[what])
  /\ prompt' = IF prompt.what = what THEN prompt ELSE NoPrompt

KeyAnswered(what) ==
  /\ sent' = Nothing
  /\ Refuses(what)

\* confirmTwoPress, and the same for a repair.
TwoPress(what) ==
  IF armed[what] = Selected
  THEN /\ armed' = Disarmed
       /\ sent' = Confirmed("list", what, Selected)
       /\ prompt' = NoPrompt
  ELSE /\ armed' = Only1(what, Selected)
       /\ sent' = Nothing
       /\ prompt' = Ask("list", what, Selected)

PressArchive ==
  /\ Press("archive")
  /\ IF cond[Selected] \in {"attached", "archived"} THEN KeyAnswered("archive") ELSE TwoPress("archive")

\* A pending session holds nothing and is dismissed at once.
PressDelete ==
  /\ Press("delete")
  /\ CASE cond[Selected] = "attached" -> KeyAnswered("delete")
       [] cond[Selected] = "pending" ->
            /\ sent' = DismissSession(Selected)
            /\ Refuses("delete")
       [] OTHER -> TwoPress("delete")

\* Enter.
PressSelect ==
  /\ Press("repair")
  /\ CASE cond[Selected] \in {"attached", "creating"} -> KeyAnswered("repair")
       [] cond[Selected] = "broken" -> TwoPress("repair")
       [] OTHER -> /\ sent' = ActivateSession(Selected)
                   /\ Refuses("repair")

-----------------------------------------------------------------------------
(***************************************************************************)
(* Keys of the panel, when it is focused and no overlay is open.  Each one *)
(* disarms the deletion; Blur gives the keys back to the list.             *)
(***************************************************************************)
InPanel == panel.focused /\ ~panel.overlay
Blurred == [Blank EXCEPT !.sess = panel.sess]

PanelKey(to, command) ==
  /\ panel' = to
  /\ sent' = command
  /\ UNCHANGED <<listed, filtered, cond, showHidden, cursor, armed, picked>>

\* Leaving the panel, moving in it and whatever opens a view or a link; a repair opens the
\* view of the progress.  Attention, archiving takes one press here.
PanelCommand ==
  /\ InPanel
  /\ \/ PanelKey(Blurred, Nothing)
     \/ PanelKey([panel EXCEPT !.armed = NoOne], Nothing)
     \/ PanelKey([panel EXCEPT !.armed = NoOne, !.overlay = TRUE], Nothing)
     \/ /\ cond[panel.sess] # "attached"
        /\ PanelKey([panel EXCEPT !.armed = NoOne], ActivateSession(panel.sess))
     \/ /\ cond[panel.sess] \in {"active", "attached", "broken"}
        /\ PanelKey(Blurred, ArchiveAtOnce(panel.sess))
  /\ prompt' = NoPrompt

\* Only an archived session, or one that is being created, can be deleted here.
PanelDelete ==
  LET s == panel.sess
  IN /\ InPanel
     /\ IF cond[s] \notin {"archived", "creating"}
        THEN PanelKey([panel EXCEPT !.armed = NoOne], Nothing) /\ prompt' = NoPrompt
        ELSE IF panel.armed = s
        THEN /\ PanelKey(Blurred, DeleteFromPanel(s))
             /\ prompt' = NoPrompt
        ELSE PanelKey([panel EXCEPT !.armed = s], Nothing) /\ prompt' = Ask("panel", "delete", s)

\* The answer of an overlay is a message of its own and is for the session shown by then.
OverlayKey ==
  /\ panel.focused /\ panel.overlay /\ picked = NoOne
  /\ picked' = panel.sess
  /\ sent' = Nothing
  /\ UNCHANGED <<listed, filtered, cond, showHidden, cursor, armed, panel, prompt>>

OverlayAnswer ==
  /\ picked # NoOne
  /\ picked' = NoOne
  /\ panel' = [panel EXCEPT !.overlay = FALSE]
  /\ sent' \in {Nothing} \cup {Request("overlay", s) : s \in {panel.sess} \ {NoOne}}
  /\ UNCHANGED <<listed, filtered, cond, showHidden, cursor, armed, prompt>>

-----------------------------------------------------------------------------
Orders == UNION {SetToSeqs(shown) : shown \in SUBSET Shelf}

\* sortSessions: the order depends on attention and use, but hidden sessions come last.
Refreshes ==
  {list \in [order : Orders, cond : UNION {[shown -> Conditions] : shown \in SUBSET Shelf}] :
     /\ DOMAIN list.cond = ToSet(list.order)
     /\ \A i, j \in DOMAIN list.order :
          list.cond[list.order[i]] \in Hidden /\ i < j => list.cond[list.order[j]] \in Hidden}

PickerNext ==
  \/ \E list \in Refreshes : SessionsUpdated(list.order, list.cond)
  \/ \E to \in {cursor - 1, cursor + 1} : Moves(to)
  \/ ToggleHidden \/ OtherListKey \/ PressArchive \/ PressDelete \/ PressSelect
  \/ PanelCommand \/ PanelDelete \/ OverlayKey \/ OverlayAnswer

PickerSpec == PickerInit /\ [][PickerNext]_pickerVars

-----------------------------------------------------------------------------
(***************************************************************************)
(* Properties.                                                             *)
(***************************************************************************)
\* The list archives, deletes or repairs a session, and the panel deletes one, only when
\* the user was asked about just that session in just that place, the session has been
\* selected ever since, and no other key was pressed; whatever refreshes came between.
OnlyConfirmed == sent.what \in {"archive", "delete", "repair"} => sent.confirmed
=============================================================================
