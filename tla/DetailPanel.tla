----------------------------- MODULE DetailPanel -----------------------------
(***************************************************************************)
(* What can be chosen in the detail panel of the picker, and the two       *)
(* overlays it opens (sessiondetail/model.go, bundlepicker.go,             *)
(* sessionpicker/model.go).  SessionPicker has the commands about whole    *)
(* sessions; this module has the cursor over the open blockers, the tabs   *)
(* and the pull requests of the session that is shown.                     *)
(*                                                                         *)
(* A session's row and the browser's state arrive in messages of their     *)
(* own, at any time, with any content.  The answer of an overlay is one    *)
(* more message: others may be handled between the key and the answer.     *)
(***************************************************************************)
EXTENDS Naturals, SequencesExt

CONSTANTS
  Owners,       \* the sessions of the list
  Nobody,       \* no session
  Blockers, Tabs, Links,  \* bounds: how many blockers, tabs and pull requests a session has
  BundleNames,  \* the bundles a session can have
  MaxAnswers    \* bound: answers of overlays under way

ASSUME NobodyIsNoOwner == Nobody \notin Owners
ASSUME PanelBounds     == {Blockers, Tabs, Links} \subseteq Nat

VARIABLES
  detail,    \* the session shown: its row, the cursor, the focus
  views,     \* browserState: the tabs of each session
  doubt,     \* the blocker that a second press deletes
  overlay,   \* the open one, its session, the ticked bundles; the tab that is to be moved
  catalog,   \* the bundles of the configuration, once they are loaded
  inbox,   \* answers of overlays under way, handled in any order
  asks    \* the request that the last message led to

panelVars == <<detail, views, doubt, overlay, catalog, inbox, asks>>

NoData   == [blockers |-> {}, prs |-> {}, bundles |-> {}, gone |-> FALSE]
NoItem   == [kind |-> "none", of |-> Nobody, no |-> 0]
Unfocused(s, row) == [sess |-> s, row |-> row, cursor |-> 0, focused |-> FALSE]
NoOverlay == [kind |-> "none", for |-> Nobody, tab |-> NoItem, ticked |-> {}]
OverlayShut(o) == [NoOverlay EXCEPT !.tab = o.tab]
AsksNothing == [what |-> "none", sess |-> Nobody, item |-> NoItem, asked |-> TRUE]

-----------------------------------------------------------------------------
(***************************************************************************)
(* The items, in the order of the panel; the cursor counts from 1, and is  *)
(* 0 when there are none.                                                  *)
(***************************************************************************)
\* The items of a kind with the numbers in `nos`, the least one first.
Ordered(kind, s, nos) ==
  [i \in 1 .. Cardinality(nos) |->
     [kind |-> kind, of |-> s, no |-> CHOOSE n \in nos : Cardinality({m \in nos : m <= n}) = i]]

ItemsIn(s, row, tabs) ==
  IF s = Nobody THEN <<>>
  ELSE Ordered("blocker", s, row.blockers) \o Ordered("tab", s, tabs[s]) \o Ordered("pr", s, row.prs)

Chosen(items, i) == IF i \in DOMAIN items THEN items[i] ELSE NoItem
ItemsHere  == ItemsIn(detail.sess, detail.row, views)
ChosenHere == Chosen(ItemsHere, detail.cursor)

\* clampCursor.
Clamp(items, i) == IF i > Len(items) THEN Len(items) ELSE IF i = 0 /\ items # <<>> THEN 1 ELSE i

\* The places of the items of a kind.
PlacesOf(items, kind) == {i \in DOMAIN items : items[i].kind = kind}

\* currentSelection and restoreSelection: the same item; or one of its kind, as far down
\* among them as it was; or the same number.
RestoreSelection(old, i, items) ==
  LET it   == Chosen(old, i)
      same == {j \in DOMAIN items : items[j] = it}
      kin  == PlacesOf(items, it.kind)
      rank == Cardinality({j \in PlacesOf(old, it.kind) : j <= i})
      at   == IF rank <= Cardinality(kin) THEN rank ELSE Cardinality(kin)
  IN IF same # {} THEN CHOOSE j \in same : TRUE
     ELSE IF kin # {} THEN CHOOSE j \in kin : Cardinality({k \in kin : k <= j}) = at
     ELSE Clamp(items, i)

PanelInit ==
  /\ detail = Unfocused(Nobody, NoData)
  /\ views = [s \in Owners |-> {}]
  /\ doubt = NoItem
  /\ overlay = NoOverlay
  /\ catalog = {}
  /\ inbox = <<>>
  /\ asks = AsksNothing

-----------------------------------------------------------------------------
(***************************************************************************)
(* Messages from the daemon.                                               *)
(***************************************************************************)
\* Mutant of ResetPanel: the overlay stays.
ResetKeepsOverlay(s, row, tabs) ==
  /\ detail' = [Unfocused(s, row) EXCEPT !.cursor = Clamp(ItemsIn(s, row, tabs), 0)]
  /\ doubt' = NoItem
  /\ UNCHANGED overlay

\* reset: what was begun for another session is forgotten.
ResetPanel(s, row, tabs) ==
  /\ detail' = [Unfocused(s, row) EXCEPT !.cursor = Clamp(ItemsIn(s, row, tabs), 0)]
  /\ doubt' = NoItem
  /\ overlay' = OverlayShut(overlay)

\* History: these answers come for another session than the one that is shown by then.
Overtaken == [i \in DOMAIN inbox |-> [inbox[i] EXCEPT !.overtaken = TRUE]]

\* A refresh of the list selects another session, or none: Select.
SelectAnother(s, row) ==
  /\ s # detail.sess
  /\ ResetPanel(s, row, views)
  /\ inbox' = Overtaken
  /\ asks' = AsksNothing
  /\ UNCHANGED <<views, catalog>>

\* Or the same one again; the overlay of a session that is being deleted is closed.
SelectAgain(row) ==
  /\ detail.sess # Nobody
  /\ detail' = [detail EXCEPT !.row = row,
                  !.cursor = RestoreSelection(ItemsHere, @, ItemsIn(detail.sess, row, views))]
  /\ overlay' = IF row.gone THEN OverlayShut(overlay) ELSE overlay
  /\ asks' = AsksNothing
  /\ UNCHANGED <<views, doubt, catalog, inbox>>

BrowserStateUpdated(tabs) ==
  /\ views' = tabs
  /\ detail' = IF detail.sess = Nobody THEN detail
               ELSE [detail EXCEPT !.cursor = RestoreSelection(ItemsHere, @, ItemsIn(detail.sess, detail.row, tabs))]
  /\ asks' = AsksNothing
  /\ UNCHANGED <<doubt, overlay, catalog, inbox>>

FetchBundles ==
  /\ catalog = {}
  /\ catalog' \in SUBSET BundleNames
  /\ asks' = AsksNothing
  /\ UNCHANGED <<detail, views, doubt, overlay, inbox>>

-----------------------------------------------------------------------------
(***************************************************************************)
(* Keys of the panel.  Each one withdraws what a first press began.        *)
(***************************************************************************)
PanelHasKeys == detail.focused /\ overlay.kind = "none"

\* Focus, from the list; FocusPR puts the cursor on the first pull request that is open.
FocusPanel ==
  LET prs == {i \in DOMAIN ItemsHere : ItemsHere[i].kind = "pr"}
  IN /\ detail.sess # Nobody /\ ~detail.focused
     /\ \E at \in {detail.cursor} \cup prs :
          detail' = [detail EXCEPT !.focused = TRUE, !.cursor = Clamp(ItemsHere, at)]
     /\ asks' = AsksNothing
     /\ UNCHANGED <<views, doubt, overlay, catalog, inbox>>

BlurPanel ==
  /\ PanelHasKeys
  /\ detail' = [detail EXCEPT !.focused = FALSE]
  /\ doubt' = NoItem
  /\ asks' = AsksNothing
  /\ UNCHANGED <<views, overlay, catalog, inbox>>

\* Up and Down, and jumpSection to the first item of the next kind or of an earlier one.
Starts    == {i \in DOMAIN ItemsHere : i = 1 \/ ItemsHere[i].kind # ItemsHere[i - 1].kind}
NextStart == {i \in Starts : i > detail.cursor /\ \A j \in Starts : j > detail.cursor => i <= j}
PrevStart == {i \in Starts : i < detail.cursor /\ \A j \in Starts : j < detail.cursor => j <= i}

MoveCursor ==
  /\ PanelHasKeys
  /\ \E to \in ({detail.cursor - 1, detail.cursor + 1} \cup NextStart \cup PrevStart) \cap DOMAIN ItemsHere :
       detail' = [detail EXCEPT !.cursor = to]
  /\ doubt' = NoItem
  /\ asks' = AsksNothing
  /\ UNCHANGED <<views, overlay, catalog, inbox>>

\* The requests about an item of the session that is shown.
AsksFor(what, it)  == [what |-> what, sess |-> detail.sess, item |-> it, asked |-> TRUE]
ResolveBlocker(it) == AsksFor("resolve", it)
DeleteBlocker(it)  == AsksFor("delete", it)
FocusTab(it)       == AsksFor("focus", it)
EjectWindow(it)    == AsksFor("eject", it)
OpenURL(it)        == AsksFor("open", it)

\* A key whose command is for the item under the cursor, or does nothing.
ItemCommand(kind, command) ==
  /\ PanelHasKeys
  /\ asks' = IF ChosenHere.kind = kind THEN command ELSE AsksNothing
  /\ doubt' = NoItem
  /\ UNCHANGED <<detail, views, overlay, catalog, inbox>>

PressResolve == ItemCommand("blocker", ResolveBlocker(ChosenHere))
PressTab     == ItemCommand("tab", FocusTab(ChosenHere))
PressOpen    == ItemCommand("pr", OpenURL(ChosenHere))
PressEject   == ItemCommand("tab", EjectWindow(ChosenHere))

\* The same key twice, with the same blocker under the cursor.
PressRemove ==
  /\ PanelHasKeys /\ ChosenHere.kind = "blocker"
  /\ doubt' = IF doubt = ChosenHere THEN NoItem ELSE ChosenHere
  /\ asks' = IF doubt = ChosenHere THEN DeleteBlocker(ChosenHere) ELSE AsksNothing
  /\ UNCHANGED <<detail, views, overlay, catalog, inbox>>

OpenOverlayOf(kind, tab, ticked) ==
  /\ overlay' = [kind |-> kind, for |-> detail.sess, tab |-> tab, ticked |-> ticked]
  /\ doubt' = NoItem
  /\ asks' = AsksNothing
  /\ UNCHANGED <<detail, views, catalog, inbox>>

PressMove    == PanelHasKeys /\ ChosenHere.kind = "tab" /\ OpenOverlayOf("sessions", ChosenHere, {})
PressBundles == PanelHasKeys /\ ~detail.row.gone /\ OpenOverlayOf("bundles", overlay.tab, detail.row.bundles)

-----------------------------------------------------------------------------
(***************************************************************************)
(* Keys of an overlay, and the messages they lead to.                      *)
(***************************************************************************)
InOverlay(kind) == detail.focused /\ overlay.kind = kind

\* A bundle that is ticked is listed even when the configuration has no such bundle.
Entries == catalog \cup overlay.ticked

ToggleBundle(b) ==
  /\ InOverlay("bundles") /\ b \in Entries
  /\ overlay' = [overlay EXCEPT !.ticked = IF b \in @ THEN @ \ {b} ELSE @ \cup {b}]
  /\ asks' = AsksNothing
  /\ UNCHANGED <<detail, views, doubt, catalog, inbox>>

\* The answer does not carry the session; `picked` are the bundles that are listed and ticked.
SendAnswer(what) ==
  LET picked == overlay.ticked \cap Entries
  IN /\ Len(inbox) < MaxAnswers
     /\ inbox' = Append(inbox, [what |-> what, for |-> overlay.for,
                                 whole |-> picked = overlay.ticked, overtaken |-> FALSE])
     /\ asks' = AsksNothing
     /\ UNCHANGED <<detail, views, doubt, overlay, catalog>>

PickEntries  == InOverlay("bundles") /\ SendAnswer("bundles")
PickTarget   == InOverlay("sessions") /\ SendAnswer("move")
LeaveOverlay == overlay.kind # "none" /\ detail.focused /\ SendAnswer("close")

\* The requests are for the session that is shown now.
SetSessionBundles(a) ==
  [what |-> "bundles", sess |-> detail.sess, item |-> NoItem,
   asked |-> a.whole /\ (a.for = detail.sess \/ a.overtaken)]
MoveTab(a) ==
  [what |-> "move", sess |-> detail.sess, item |-> overlay.tab,
   asked |-> overlay.tab.of = detail.sess \/ a.overtaken]

AnswerHandled(i) ==
  LET a == inbox[i]
  IN /\ inbox' = RemoveAt(inbox, i)
     /\ overlay' = OverlayShut(overlay)
     /\ asks' = IF detail.sess = Nobody \/ a.what = "close" THEN AsksNothing
                ELSE IF a.what = "bundles" THEN SetSessionBundles(a) ELSE MoveTab(a)
     /\ UNCHANGED <<detail, views, doubt, catalog>>

-----------------------------------------------------------------------------
Data == [blockers : SUBSET (1 .. Blockers), prs : SUBSET (1 .. Links), bundles : SUBSET BundleNames, gone : BOOLEAN]

PanelMessages ==
  \/ \E s \in Owners, row \in Data : SelectAnother(s, row)
  \/ SelectAnother(Nobody, NoData)
  \/ \E row \in Data : SelectAgain(row)
  \/ \E tabs \in [Owners -> SUBSET (1 .. Tabs)] : BrowserStateUpdated(tabs)
  \/ FetchBundles

PanelKeys ==
  \/ FocusPanel \/ BlurPanel \/ MoveCursor
  \/ PressResolve \/ PressTab \/ PressOpen \/ PressEject \/ PressRemove
  \/ PressMove \/ PressBundles
  \/ \E b \in BundleNames : ToggleBundle(b)
  \/ PickEntries \/ PickTarget \/ LeaveOverlay

PanelAnswers == \E i \in DOMAIN inbox : AnswerHandled(i)

PanelNext == PanelMessages \/ PanelKeys \/ PanelAnswers
PanelSpec == PanelInit /\ [][PanelNext]_panelVars

-----------------------------------------------------------------------------
(***************************************************************************)
(* Properties.                                                             *)
(***************************************************************************)
\* A message about the session that is shown leaves the cursor on its item as long as the
\* item is there, and on an item as long as there is one.
CursorKept ==
  detail'.sess = detail.sess /\ detail'.focused = detail.focused /\ <<detail.row, views>> # <<detail.row, views>>' =>
    /\ ChosenHere \in ToSet(ItemsHere') => ChosenHere' = ChosenHere
    /\ ItemsHere' # <<>> => ChosenHere' # NoItem

\* Whatever messages come between the user's keys: the cursor stays where the user put it; a
\* tab is moved, and bundles are set, for the session the overlay was opened for, and bundles
\* that the configuration does not know are kept.  An answer that a change of the session overtook
\* is left out: it goes to the session that is shown by then (sessiondetail/model.go:399).
PanelFollowsUser == [][asks'.asked /\ CursorKept]_panelVars
=============================================================================
