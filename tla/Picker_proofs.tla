---------------------------- MODULE Picker_proofs ----------------------------
(***************************************************************************)
(* Proofs about the views of the picker for any sessions, workspaces and   *)
(* names, and for messages that come in any order.                         *)
(*                                                                         *)
(* The list (SessionPicker): that a command was confirmed follows from     *)
(* what an armed command stands for.  While a command is armed the prompt  *)
(* for just it is in sight (PromptInv); the panel is armed only when it    *)
(* has the keys, and then the list is not; and the panel always shows the  *)
(* session under the cursor, or the refresh that moves the cursor would    *)
(* leave the panel armed for a session nobody sees.                        *)
(*                                                                         *)
(* The form (SessionForm): a branch the user settled on is marked as such  *)
(* in its field, which answers leave alone (SettledStays), and the default *)
(* bundles were asked for the workspaces that are picked (DefaultsFit).    *)
(*                                                                         *)
(* The detail panel (DetailPanel): the cursor comes back to its item, or   *)
(* to another one of its kind (SelectionRestored), and an overlay, its tab *)
(* and its answers are of the session that is shown (FollowInv).           *)
(***************************************************************************)
EXTENDS SessionPicker, SessionForm, DetailPanel, FiniteSetTheorems, SequenceTheorems, TLAPS

Commands == {"archive", "delete", "repair"}

-----------------------------------------------------------------------------
(***************************************************************************)
(* The list of sessions.                                                   *)
(***************************************************************************)
IsPanel(p) == p \in [sess : {p.sess}, focused : {p.focused}, overlay : {p.overlay}, armed : {p.armed}]

PickerShape ==
  /\ armed = [k \in Commands |-> armed[k]]
  /\ IsPanel(panel)
  /\ panel.focused \in BOOLEAN

\* The panel shows the session under the cursor, and has the keys only when there is one.
PanelInv ==
  /\ panel.sess = Selected
  /\ panel.focused => Selected # NoOne
  /\ ~panel.focused => panel.armed = NoOne

\* What is armed is what the user was asked.
PromptInv ==
  /\ \A k \in Commands : armed[k] # NoOne => ~panel.focused /\ prompt = Ask("list", k, armed[k])
  /\ panel.armed # NoOne => prompt = Ask("panel", "delete", panel.armed) /\ panel.armed = panel.sess

PickerInv == PickerShape /\ PanelInv /\ PromptInv /\ OnlyConfirmed

\* The panels that the keys lead to.
LEMMA PanelUpdates ==
  ASSUME NEW p, IsPanel(p), NEW s, NEW b
  PROVE  /\ [p EXCEPT !.armed = s] = [sess |-> p.sess, focused |-> p.focused, overlay |-> p.overlay, armed |-> s]
         /\ [p EXCEPT !.focused = b] = [sess |-> p.sess, focused |-> b, overlay |-> p.overlay, armed |-> p.armed]
         /\ [p EXCEPT !.overlay = b] = [sess |-> p.sess, focused |-> p.focused, overlay |-> b, armed |-> p.armed]
         /\ [p EXCEPT !.sess = s] = [sess |-> s, focused |-> p.focused, overlay |-> p.overlay, armed |-> p.armed]
BY DEF IsPanel

LEMMA PanelLiteral ==
  ASSUME NEW s, NEW f, NEW o, NEW a
  PROVE  IsPanel([sess |-> s, focused |-> f, overlay |-> o, armed |-> a])
BY DEF IsPanel

LEMMA Blanked ==
  ASSUME NEW s
  PROVE  /\ [Blank EXCEPT !.sess = s] = [sess |-> s, focused |-> FALSE, overlay |-> FALSE, armed |-> NoOne]
         /\ IsPanel([Blank EXCEPT !.sess = s])
         /\ [Blank EXCEPT !.sess = s].focused = FALSE
<1>1. PICK no \in BOOLEAN : no = FALSE
  OBVIOUS
<1> DEFINE blank == [sess |-> NoOne, focused |-> no, overlay |-> no, armed |-> NoOne]
<1>2. Blank = blank
  BY <1>1 DEF Blank
<1>3. [blank EXCEPT !.sess = s] = [sess |-> s, focused |-> no, overlay |-> no, armed |-> NoOne]
  OBVIOUS
<1>4. IsPanel([sess |-> s, focused |-> no, overlay |-> no, armed |-> NoOne])
  BY PanelLiteral
<1>5. [sess |-> s, focused |-> no, overlay |-> no, armed |-> NoOne].focused = no
  OBVIOUS
<1> HIDE DEF blank
<1> QED
  BY <1>1, <1>2, <1>3, <1>4, <1>5

\* A panel that shows a session is left alone by it, or starts anew.
LEMMA PanelShown ==
  ASSUME NEW s, PickerShape
  PROVE  /\ IsPanel(PanelShows(panel, s))
         /\ PanelShows(panel, s).focused \in BOOLEAN
         /\ \/ PanelShows(panel, s) = panel /\ panel.sess = s /\ s # NoOne
            \/ /\ PanelShows(panel, s) = [sess |-> s, focused |-> FALSE, overlay |-> FALSE, armed |-> NoOne]
               /\ ~(panel.sess = s /\ s # NoOne)
<1> DEFINE new == [Blank EXCEPT !.sess = s]
<1>1. IsPanel(new) /\ new.focused = FALSE
      /\ new = [sess |-> s, focused |-> FALSE, overlay |-> FALSE, armed |-> NoOne]
  BY Blanked
<1>2. PanelShows(panel, s) = IF panel.sess = s /\ s # NoOne THEN panel ELSE new
  BY DEF PanelShows
<1> HIDE DEF new
<1> QED
  BY <1>1, <1>2 DEF PickerShape

LEMMA PickerInitInv == PickerInit => PickerInv
<1> SUFFICES ASSUME PickerInit PROVE PickerInv
  OBVIOUS
<1>1. Selected = NoOne
  BY DEF PickerInit, Selected, At
<1>2. IsPanel(panel)
  BY PanelLiteral DEF PickerInit, Blank
<1> QED
  BY <1>1, <1>2 DEF PickerInit, PickerInv, PickerShape, PanelInv, PromptInv, OnlyConfirmed, Disarmed, Blank, Nothing, Commands

\* A message that shows the session s, or another one, and forgets what was asked about it.
LEMMA SelectStep ==
  ASSUME PickerInv, NEW s, Selected' = s, panel' = PanelShows(panel, s), sent' = Nothing,
         \/ armed' = Disarmed /\ prompt' = NoPrompt /\ (panel.focused => s # Selected)
         \/ Forgets(s) /\ StillAsked(s)
  PROVE  PickerInv'
<1> USE DEF PickerInv, Commands
<1>1. PickerShape'
  <2>1. panel'.focused \in BOOLEAN
    BY PanelShown DEF PickerShape
  <2>2. IsPanel(panel')
    BY PanelShown
  <2> QED
    BY <2>1, <2>2 DEF PickerShape, Forgets, Disarmed
<1>2. PanelInv'
  BY PanelShown DEF PanelInv, PickerShape
<1>3. PromptInv'
  <2>1. \A k \in Commands : armed'[k] # NoOne =>
            /\ s = Selected /\ s # NoOne /\ ~panel.focused /\ armed'[k] = armed[k] /\ prompt' = prompt
    <3>1. CASE armed' = Disarmed
      BY <3>1 DEF Disarmed
    <3>2. CASE armed' # Disarmed
      BY <3>2 DEF Forgets, StillAsked, PromptInv
    <3> QED
      BY <3>1, <3>2
  <2>2. \A k \in Commands : armed'[k] # NoOne => ~panel'.focused /\ prompt' = Ask("list", k, armed'[k])
    BY <2>1, PanelShown DEF PromptInv
  <2>3. panel'.armed # NoOne => panel' = panel /\ panel.sess = s /\ panel.focused /\ s = Selected
    BY PanelShown DEF PanelInv
  <2>4. panel'.armed # NoOne => prompt' = prompt
    BY <2>3 DEF StillAsked
  <2> QED
    BY <2>2, <2>3, <2>4 DEF PromptInv
<1> QED
  BY <1>1, <1>2, <1>3 DEF OnlyConfirmed, Nothing

\* What the keys of the panel that disarm it lead to.
Calm(p) == IsPanel(p) /\ p.sess = panel.sess /\ p.armed = NoOne /\ p.focused \in BOOLEAN /\ (p.focused => panel.focused)

LEMMA CalmPanels ==
  ASSUME PickerShape
  PROVE  /\ Calm(Blurred)
         /\ Calm([panel EXCEPT !.armed = NoOne])
         /\ Calm([panel EXCEPT !.armed = NoOne, !.overlay = TRUE])
<1>1. Calm(Blurred)
  <2> DEFINE new == [Blank EXCEPT !.sess = panel.sess]
  <2>1. IsPanel(new) /\ new.focused = FALSE
        /\ new = [sess |-> panel.sess, focused |-> FALSE, overlay |-> FALSE, armed |-> NoOne]
    BY Blanked
  <2>2. Blurred = new
    BY DEF Blurred
  <2> HIDE DEF new
  <2> QED
    BY <2>1, <2>2 DEF Calm
<1> DEFINE disarmed == [panel EXCEPT !.armed = NoOne]
           covered  == [disarmed EXCEPT !.overlay = TRUE]
<1>2. disarmed = [sess |-> panel.sess, focused |-> panel.focused, overlay |-> panel.overlay, armed |-> NoOne]
  BY PanelUpdates DEF PickerShape
<1>3. IsPanel(disarmed)
  BY <1>2, PanelLiteral
<1>4. [panel EXCEPT !.armed = NoOne, !.overlay = TRUE] = covered
  OBVIOUS
<1>5. covered = [sess |-> disarmed.sess, focused |-> disarmed.focused, overlay |-> TRUE, armed |-> disarmed.armed]
  BY <1>3, PanelUpdates
<1>6. IsPanel(covered)
  BY <1>5, PanelLiteral
<1> HIDE DEF disarmed, covered
<1>7. Calm(disarmed)
  BY <1>2, <1>3 DEF Calm, PickerShape
<1>8. Calm(covered)
  BY <1>2, <1>5, <1>6 DEF Calm, PickerShape
<1> QED
  BY <1>1, <1>4, <1>7, <1>8 DEF disarmed

\* The requests that ask for nothing to be confirmed.
LEMMA PlainRequests ==
  /\ Nothing.what \notin Commands
  /\ \A s, w : w \notin Commands => Request(w, s).what \notin Commands
  /\ \A s, w, k : Confirmed(w, k, s).confirmed <=> prompt = Ask(w, k, s)
BY DEF Nothing, Request, Commands, Confirmed

\* A key of the panel, or the answer of an overlay: the list keeps the selection.
LEMMA PanelKeyStep ==
  ASSUME PickerInv, UNCHANGED <<filtered, cursor, armed>>, OnlyConfirmed',
         IsPanel(panel'), panel'.sess = panel.sess,
         panel'.focused \in BOOLEAN, panel'.focused => panel.focused,
         panel.focused \/ prompt' = prompt,
         panel'.armed # NoOne => /\ panel'.focused /\ panel'.armed = panel.sess
                                 /\ prompt' = Ask("panel", "delete", panel.sess)
  PROVE  PickerInv'
<1> USE DEF PickerInv
<1>1. Selected' = Selected
  BY DEF Selected, At
<1>2. PickerShape' /\ PanelInv'
  BY <1>1 DEF PickerShape, PanelInv
<1>3. PromptInv'
  BY <1>1 DEF PickerShape, PanelInv, PromptInv
<1> QED
  BY <1>2, <1>3

\* A key of the list: the panel keeps what it shows and has no keys of its own.
LEMMA ListKeyStep ==
  ASSUME PickerInv, InList, NEW what \in Commands,
         UNCHANGED <<filtered, cursor, panel>>, Selected # NoOne,
         KeyAnswered(what) \/ TwoPress(what) \/ (sent'.what \notin Commands /\ Refuses(what))
  PROVE  PickerInv'
<1> USE DEF PickerInv, Commands
<1>1. Selected' = Selected
  BY DEF Selected, At
<1>2. PickerShape' /\ PanelInv'
  BY <1>1 DEF PickerShape, PanelInv, KeyAnswered, TwoPress, Refuses, Only1, Disarmed
<1>3. PromptInv'
  BY <1>1 DEF PickerShape, PanelInv, PromptInv, KeyAnswered, TwoPress, Refuses, Only1, Disarmed, InList, Ask
<1>4. OnlyConfirmed'
  <2>1. \A a : Confirmed("list", what, a).confirmed <=> prompt = Ask("list", what, a)
    BY DEF Confirmed
  <2>2. Nothing.what \notin Commands
    BY DEF Nothing
  <2> QED
    BY <2>1, <2>2 DEF PromptInv, OnlyConfirmed, KeyAnswered, TwoPress
<1> QED
  BY <1>2, <1>3, <1>4

LEMMA PickerStep ==
  ASSUME PickerInv, [PickerNext]_pickerVars
  PROVE  PickerInv'
<1> USE DEF PickerInv, Commands
<1>1. CASE \E list \in Refreshes : SessionsUpdated(list.order, list.cond)
  <2>1. PICK list \in Refreshes : SessionsUpdated(list.order, list.cond)
    BY <1>1
  <2> DEFINE rows == Visible(list.order, list.cond, showHidden)
             s    == At(rows, Rebuilt(rows))
  <2>2. Selected' = s /\ panel' = PanelShows(panel, s) /\ sent' = Nothing /\ Forgets(s) /\ StillAsked(s)
    BY <2>1 DEF SessionsUpdated, Selected
  <2> HIDE DEF s
  <2> QED
    BY <2>2, SelectStep
<1>2. ASSUME NEW to, Moves(to) PROVE PickerInv'
  <2>1. Selected' = filtered[to]
    BY <1>2 DEF Moves, Selected, At
  <2> QED
    BY <1>2, <2>1, SelectStep DEF Moves, InList
<1>3. CASE ToggleHidden
  <2> DEFINE rows == Visible(listed, cond, ~showHidden)
             s    == At(rows, Rebuilt(rows))
  <2>1. Selected' = s /\ panel' = PanelShows(panel, s) /\ sent' = Nothing
    BY <1>3 DEF ToggleHidden, Selected
  <2> HIDE DEF s
  <2> QED
    BY <1>3, <2>1, SelectStep DEF ToggleHidden, InList
<1>4. CASE OtherListKey
  <2>1. Selected' = Selected
    BY <1>4 DEF OtherListKey, Selected, At
  <2>2. \/ panel' = panel
        \/ panel' = [sess |-> panel.sess, focused |-> TRUE, overlay |-> panel.overlay, armed |-> panel.armed] /\ Selected # NoOne
    BY <1>4, PanelUpdates DEF OtherListKey, PickerShape
  <2>3. PickerShape'
    <3>1. IsPanel(panel') /\ panel'.focused \in BOOLEAN
      <4>1. PICK yes \in BOOLEAN : yes = TRUE
        OBVIOUS
      <4> DEFINE focused == [sess |-> panel.sess, focused |-> yes, overlay |-> panel.overlay, armed |-> panel.armed]
      <4>2. IsPanel(focused) /\ focused.focused = yes
        BY PanelLiteral
      <4>3. panel' = panel \/ panel' = focused
        BY <2>2, <4>1
      <4> HIDE DEF focused
      <4> QED
        BY <4>1, <4>2, <4>3 DEF PickerShape
    <3> QED
      BY <1>4, <3>1 DEF PickerShape, OtherListKey, Disarmed
  <2>4. armed' = Disarmed /\ prompt' = NoPrompt /\ sent' = Nothing /\ ~panel.focused
    BY <1>4 DEF OtherListKey, InList
  <2> QED
    BY <2>1, <2>2, <2>3, <2>4 DEF PanelInv, PromptInv, OnlyConfirmed, Disarmed, Nothing
<1>5. CASE PressArchive
  BY <1>5, ListKeyStep DEF PressArchive, Press
<1>6. CASE PressDelete
  BY <1>6, ListKeyStep DEF PressDelete, Press, DismissSession, Request
<1>7. CASE PressSelect
  BY <1>7, ListKeyStep DEF PressSelect, Press, ActivateSession, Request
<1>8. CASE PanelCommand
  <2>1. /\ panel.focused /\ prompt' = NoPrompt
        /\ UNCHANGED <<filtered, cursor, armed>>
    BY <1>8 DEF PanelCommand, PanelKey, InPanel
  <2>2. sent'.what \notin Commands
    <3>1. ActivateSession(panel.sess).what \notin Commands /\ ArchiveAtOnce(panel.sess).what \notin Commands
      BY PlainRequests DEF ActivateSession, ArchiveAtOnce
    <3>2. sent' \in {Nothing, ActivateSession(panel.sess), ArchiveAtOnce(panel.sess)}
      BY <1>8, Zenon DEF PanelCommand, PanelKey
    <3> QED
      BY <3>1, <3>2, PlainRequests
  <2>3. \/ panel' = Blurred
        \/ panel' = [panel EXCEPT !.armed = NoOne]
        \/ panel' = [panel EXCEPT !.armed = NoOne, !.overlay = TRUE]
    BY <1>8, Zenon DEF PanelCommand, PanelKey
  <2>4. Calm(panel')
    BY <2>3, CalmPanels, Zenon
  <2>5. OnlyConfirmed'
    BY <2>2 DEF OnlyConfirmed
  <2> QED
    BY <2>1, <2>4, <2>5, PanelKeyStep DEF Calm
<1>9. CASE PanelDelete
  <2> DEFINE s == panel.sess
  <2>1. panel.focused /\ s # NoOne /\ UNCHANGED <<filtered, cursor, armed>>
    BY <1>9 DEF PanelDelete, PanelKey, InPanel, PanelInv
  <2>2. CASE panel' = [panel EXCEPT !.armed = s] /\ sent' = Nothing /\ prompt' = Ask("panel", "delete", s)
    <3>1. panel' = [sess |-> s, focused |-> panel.focused, overlay |-> panel.overlay, armed |-> s]
      BY <2>2, PanelUpdates DEF PickerShape
    <3>2. IsPanel(panel')
      BY <3>1, PanelLiteral
    <3>3. OnlyConfirmed'
      BY <2>2, PlainRequests DEF OnlyConfirmed
    <3> QED
      BY <2>1, <2>2, <3>1, <3>2, <3>3, PanelKeyStep DEF PickerShape
  <2>3. CASE /\ Calm(panel')
             /\ sent' = Nothing \/ (panel.armed = s /\ sent' = DeleteFromPanel(s))
    <3>1. OnlyConfirmed'
      <4>1. CASE sent' = Nothing
        BY <4>1, PlainRequests DEF OnlyConfirmed
      <4>2. CASE panel.armed = s /\ sent' = DeleteFromPanel(s)
        BY <2>1, <4>2, PlainRequests DEF OnlyConfirmed, DeleteFromPanel, PromptInv
      <4> QED
        BY <2>3, <4>1, <4>2
    <3> QED
      BY <2>1, <2>3, <3>1, PanelKeyStep DEF Calm
  <2> QED
    BY <1>9, <2>2, <2>3, CalmPanels, Zenon DEF PanelDelete, PanelKey
<1>10. CASE OverlayKey \/ UNCHANGED pickerVars
  <2>1. UNCHANGED <<filtered, cursor, armed, panel, prompt>> /\ sent' \in {sent, Nothing}
    BY <1>10 DEF OverlayKey, pickerVars
  <2>2. Selected' = Selected
    BY <2>1 DEF Selected, At
  <2> QED
    BY <2>1, <2>2 DEF PickerShape, PanelInv, PromptInv, OnlyConfirmed, Nothing
<1>11. CASE OverlayAnswer
  <2>1. panel' = [sess |-> panel.sess, focused |-> panel.focused, overlay |-> FALSE, armed |-> panel.armed]
    BY <1>11, PanelUpdates DEF OverlayAnswer, PickerShape
  <2>2. sent'.what \notin Commands
    BY <1>11, PlainRequests DEF OverlayAnswer
  <2>3. UNCHANGED <<filtered, cursor, armed, prompt>>
    BY <1>11 DEF OverlayAnswer
  <2>4. IsPanel(panel') /\ panel'.sess = panel.sess /\ panel'.armed = panel.armed /\ panel'.focused = panel.focused
    BY <2>1, PanelLiteral
  <2>5. OnlyConfirmed'
    BY <2>2 DEF OnlyConfirmed
  <2> QED
    BY <2>3, <2>4, <2>5, PanelKeyStep DEF PickerShape, PanelInv, PromptInv
<1> QED
  BY <1>1, <1>2, <1>3, <1>4, <1>5, <1>6, <1>7, <1>8, <1>9, <1>10, <1>11 DEF PickerNext

\* The list archives, deletes or repairs a session, and the panel deletes one, only when the
\* user was asked about just that and nothing came between that the user could not see: for
\* any sessions, any refreshes and any keys (sessionlist.go confirmTwoPress, Update;
\* sessiondetail/model.go Select).
THEOREM CommandsAreConfirmed == PickerSpec => []OnlyConfirmed
<1>1. PickerInv => OnlyConfirmed
  BY DEF PickerInv
<1> QED
  BY <1>1, PickerInitInv, PickerStep, PTL DEF PickerSpec

-----------------------------------------------------------------------------
(***************************************************************************)
(* The form for a new session.                                             *)
(***************************************************************************)
FieldType == [branch : BranchNames \cup {Unknown}, picked : BOOLEAN, loading : BOOLEAN,
              editing : BOOLEAN, checking : BranchNames \cup {Unknown}]

FormTypes ==
  /\ field \in [Places -> FieldType]
  /\ choice \in [Places -> BranchNames \cup {Unknown}]
  /\ ToSet(picks) \subseteq Places

\* A branch the user settled on is marked as picked, which is what keeps it.
SettledStays == \A p \in Places : choice[p] # Unknown => field[p].branch = choice[p] /\ field[p].picked

\* Default bundles are shown for the picks of now, or not at all.
DefaultsFit == ~ownBundles /\ defaults # Unknown => defaults = picks

FormInv == FormTypes /\ SettledStays /\ DefaultsFit

LEMMA NewRowType == NewRow \in FieldType
<1>1. PICK no \in BOOLEAN, yes \in BOOLEAN : no = FALSE /\ yes = TRUE
  OBVIOUS
<1> QED
  BY <1>1 DEF NewRow, FieldType

LEMMA PicksArePlaces ==
  ASSUME NEW list \in PickLists
  PROVE  ToSet(list) \subseteq Places
BY DEF PickLists, ToSet, SetToSeqs

LEMMA FormInitInv == FormInit => FormInv
<1>1. ToSet(<<>>) = {}
  BY DEF ToSet
<1> QED
  BY <1>1, NewRowType DEF FormInit, FormInv, FormTypes, SettledStays, DefaultsFit, Undecided

\* One field of one row is set: what becomes of the rows.
WithBranch(rows, p, x) == [rows EXCEPT ![p].branch = x]
WithPicked(rows, p, x) == [rows EXCEPT ![p].picked = x]
WithLoading(rows, p, x) == [rows EXCEPT ![p].loading = x]
WithEditing(rows, p, x) == [rows EXCEPT ![p].editing = x]
WithChecking(rows, p, x) == [rows EXCEPT ![p].checking = x]

OnlyRow(rows, old, p) == rows \in [Places -> FieldType] /\ \A q \in Places : q # p => rows[q] = old[q]

LEMMA BranchSet ==
  ASSUME NEW rows \in [Places -> FieldType], NEW p \in Places, NEW x \in BranchNames \cup {Unknown}
  PROVE  /\ OnlyRow(WithBranch(rows, p, x), rows, p)
         /\ WithBranch(rows, p, x)[p].branch = x
         /\ WithBranch(rows, p, x)[p].picked = rows[p].picked
BY DEF WithBranch, OnlyRow, FieldType

LEMMA PickedSet ==
  ASSUME NEW rows \in [Places -> FieldType], NEW p \in Places, NEW x \in BOOLEAN
  PROVE  /\ OnlyRow(WithPicked(rows, p, x), rows, p)
         /\ WithPicked(rows, p, x)[p].branch = rows[p].branch
         /\ WithPicked(rows, p, x)[p].picked = x
BY DEF WithPicked, OnlyRow, FieldType

LEMMA LoadingSet ==
  ASSUME NEW rows \in [Places -> FieldType], NEW p \in Places, NEW x \in BOOLEAN
  PROVE  /\ OnlyRow(WithLoading(rows, p, x), rows, p)
         /\ WithLoading(rows, p, x)[p].branch = rows[p].branch
         /\ WithLoading(rows, p, x)[p].picked = rows[p].picked
BY DEF WithLoading, OnlyRow, FieldType

LEMMA EditingSet ==
  ASSUME NEW rows \in [Places -> FieldType], NEW p \in Places, NEW x \in BOOLEAN
  PROVE  /\ OnlyRow(WithEditing(rows, p, x), rows, p)
         /\ WithEditing(rows, p, x)[p].branch = rows[p].branch
         /\ WithEditing(rows, p, x)[p].picked = rows[p].picked
BY DEF WithEditing, OnlyRow, FieldType

LEMMA CheckingSet ==
  ASSUME NEW rows \in [Places -> FieldType], NEW p \in Places, NEW x \in BranchNames \cup {Unknown}
  PROVE  /\ OnlyRow(WithChecking(rows, p, x), rows, p)
         /\ WithChecking(rows, p, x)[p].branch = rows[p].branch
         /\ WithChecking(rows, p, x)[p].picked = rows[p].picked
BY DEF WithChecking, OnlyRow, FieldType

\* A step that touches the row of one workspace.
LEMMA RowStep ==
  ASSUME FormInv, UNCHANGED <<picks, defaults, ownBundles>>, NEW p \in Places,
         OnlyRow(field', field, p), choice' \in [Places -> BranchNames \cup {Unknown}],
         \A q \in Places : q # p => choice'[q] = choice[q],
         choice'[p] # Unknown => field'[p].branch = choice'[p] /\ field'[p].picked
  PROVE  FormInv'
BY DEF FormInv, FormTypes, SettledStays, DefaultsFit, OnlyRow

LEMMA FormStep ==
  ASSUME FormInv, [FormNext]_formVars
  PROVE  FormInv'
<1> USE DEF FormInv
<1>1. CASE OpenForm
  <2>1. ToSet(<<>>) = {}
    BY DEF ToSet
  <2> QED
    BY <1>1, <2>1, NewRowType DEF OpenForm, FormTypes, SettledStays, DefaultsFit, Undecided
<1>2. CASE \/ Cancel \/ CloseOverlay \/ SubmitForm \/ SessionCreated \/ SomethingFails
           \/ (\E o \in {"workspaces", "branch", "bundles"} : OpenOverlay(o)) \/ UNCHANGED formVars
  BY <1>2 DEF Cancel, CloseOverlay, SubmitForm, SessionCreated, SomethingFails, OpenOverlay, formVars,
              FormTypes, SettledStays, DefaultsFit
<1>3. CASE PickBundles
  <2>1. (ownBundles' = ownBundles \/ ownBundles' = TRUE) /\ UNCHANGED <<picks, field, defaults, choice>>
    BY <1>3 DEF PickBundles
  <2>2. DefaultsFit'
    BY <2>1, Zenon DEF DefaultsFit
  <2> QED
    BY <2>1, <2>2 DEF FormTypes, SettledStays
<1>4. ASSUME NEW list \in PickLists, PickWorkspaces(list) PROVE FormInv'
  <2> DEFINE kept == ToSet(picks) \cap ToSet(list)
  <2>1. /\ picks' = list
        /\ field' = [p \in Places |-> IF p \in kept THEN field[p] ELSE NewRow]
        /\ choice' = [p \in Places |-> IF p \in kept THEN choice[p] ELSE Unknown]
        /\ defaults' = IF ownBundles THEN defaults ELSE Unknown
        /\ ownBundles' = ownBundles
    BY <1>4 DEF PickWorkspaces
  <2> HIDE DEF kept
  <2>2. FormTypes'
    BY <2>1, PicksArePlaces, NewRowType DEF FormTypes
  <2>3. SettledStays'
    BY <2>1 DEF SettledStays
  <2> QED
    BY <2>1, <2>2, <2>3 DEF DefaultsFit
<1>5. ASSUME NEW p \in Places, NEW name \in BranchNames, PickBranch(p, name) PROVE FormInv'
  <2> DEFINE named == WithBranch(field, p, name)
  <2>1. OnlyRow(named, field, p) /\ named[p].branch = name
    BY BranchSet DEF FormTypes
  <2>2. field' = WithPicked(named, p, TRUE)
    BY <1>5, Zenon DEF PickBranch, WithPicked, WithBranch
  <2>3. choice' = [choice EXCEPT ![p] = name] /\ UNCHANGED <<picks, defaults, ownBundles>>
    BY <1>5 DEF PickBranch
  <2> HIDE DEF named
  <2>4. OnlyRow(field', field, p) /\ field'[p].branch = name /\ field'[p].picked
    <3>1. PICK yes \in BOOLEAN : yes = TRUE
      OBVIOUS
    <3>2. field' = WithPicked(named, p, yes)
      BY <2>2, <3>1
    <3>3. OnlyRow(field', named, p) /\ field'[p].branch = name /\ field'[p].picked = yes
      BY <2>1, <3>2, PickedSet DEF OnlyRow
    <3>4. field'[p].picked
      BY <3>1, <3>3
    <3> QED
      BY <2>1, <3>3, <3>4 DEF OnlyRow
  <2> QED
    BY <2>3, <2>4, RowStep DEF FormTypes
<1>6. ASSUME NEW p \in Places, StartManual(p) \/ LeaveManual(p) PROVE FormInv'
  <2>1. UNCHANGED <<picks, choice, defaults, ownBundles>>
    BY <1>6 DEF StartManual, LeaveManual
  <2>2. CASE StartManual(p)
    <3>1. field' = WithEditing(field, p, TRUE)
      BY <2>2 DEF StartManual, WithEditing
    <3> QED
      BY <2>1, <3>1, RowStep, EditingSet DEF FormTypes, SettledStays
  <2>3. CASE LeaveManual(p)
    <3> DEFINE left == WithEditing(field, p, FALSE)
    <3>1. field' = WithChecking(left, p, Unknown)
      BY <2>3, Zenon DEF LeaveManual, WithEditing, WithChecking
    <3>2. OnlyRow(left, field, p) /\ left[p].branch = field[p].branch /\ left[p].picked = field[p].picked
      BY EditingSet DEF FormTypes
    <3> HIDE DEF left
    <3>3. OnlyRow(field', field, p) /\ field'[p].branch = field[p].branch /\ field'[p].picked = field[p].picked
      BY <3>1, <3>2, CheckingSet DEF OnlyRow
    <3> QED
      BY <2>1, <3>3, RowStep DEF FormTypes, SettledStays
  <2> QED
    BY <1>6, <2>2, <2>3
<1>7. ASSUME NEW p \in Places, NEW name \in BranchNames, EnterName(p, name) PROVE FormInv'
  <2>1. field' = WithChecking(field, p, name) /\ UNCHANGED <<picks, choice, defaults, ownBundles>>
    BY <1>7 DEF EnterName, WithChecking
  <2> QED
    BY <2>1, RowStep, CheckingSet DEF FormTypes, SettledStays
<1>8. ASSUME NEW p \in Places, NEW name \in BranchNames, BranchesLoaded(p, name) PROVE FormInv'
  <2> DEFINE told  == IF field[p].picked THEN field[p].branch ELSE name
             ready == WithLoading(field, p, FALSE)
  <2>1. told \in BranchNames \cup {Unknown} /\ (field[p].picked => told = field[p].branch)
    BY DEF FormTypes, FieldType
  <2>2. /\ OnlyRow(ready, field, p)
        /\ ready[p].branch = field[p].branch /\ ready[p].picked = field[p].picked
    BY LoadingSet DEF FormTypes
  <2>3. \/ field' = field
        \/ field' = WithBranch(ready, p, told)
    <3>1. ready[p].branch = field[p].branch
      BY <2>2
    <3> QED
      BY <1>8, <3>1, Zenon DEF BranchesLoaded, WithBranch, WithLoading
  <2>4. UNCHANGED <<picks, choice, defaults, ownBundles>>
    BY <1>8 DEF BranchesLoaded
  <2> HIDE DEF told, ready
  <2>5. CASE field' = field
    BY <2>4, <2>5, RowStep DEF FormTypes, SettledStays, OnlyRow
  <2>6. CASE field' = WithBranch(ready, p, told)
    <3>1. OnlyRow(field', field, p) /\ field'[p].branch = told /\ field'[p].picked = field[p].picked
      BY <2>1, <2>2, <2>6, BranchSet DEF OnlyRow
    <3> QED
      BY <2>1, <2>4, <3>1, RowStep DEF FormTypes, SettledStays
  <2> QED
    BY <2>3, <2>5, <2>6
<1>9. ASSUME NEW p \in Places, NEW name \in BranchNames, BranchChecked(p, name) PROVE FormInv'
  <2>1. UNCHANGED <<picks, defaults, ownBundles>>
    BY <1>9 DEF BranchChecked
  <2>2. CASE field[p].checking = name /\ Settle(p, name) /\ choice' = [choice EXCEPT ![p] = name]
    <3>1. PICK no \in BOOLEAN, yes \in BOOLEAN : no = FALSE /\ yes = TRUE
      OBVIOUS
    <3> DEFINE old  == field[p]
               new1 == [old EXCEPT !.branch = name]
               new2 == [new1 EXCEPT !.picked = yes]
               new3 == [new2 EXCEPT !.editing = no]
               new  == [new3 EXCEPT !.checking = Unknown]
    <3>2. field' = [field EXCEPT ![p] = new]
      <4>1. [old EXCEPT !.branch = name, !.picked = yes, !.editing = no, !.checking = Unknown] = new
        BY Zenon
      <4> HIDE DEF new
      <4> QED
        BY <2>2, <3>1, <4>1 DEF Settle
    <3>3. old \in FieldType
      BY DEF FormTypes
    <3>4. new \in FieldType /\ new.branch = name /\ new.picked = yes
      <4> HIDE DEF old
      <4>1. new1 \in FieldType /\ new1.branch = name
        BY <3>3 DEF FieldType
      <4> HIDE DEF new1
      <4>2. new2 \in FieldType /\ new2.branch = name /\ new2.picked = yes
        BY <4>1 DEF FieldType
      <4> HIDE DEF new2
      <4>3. new3 \in FieldType /\ new3.branch = name /\ new3.picked = yes
        BY <4>2 DEF FieldType
      <4> HIDE DEF new3
      <4> QED
        BY <4>3 DEF FieldType
    <3> HIDE DEF new
    <3>5. OnlyRow(field', field, p) /\ field'[p] = new
      BY <3>2, <3>4 DEF FormTypes, OnlyRow
    <3> QED
      BY <2>1, <2>2, <3>1, <3>4, <3>5, RowStep DEF FormTypes
  <2>3. CASE field' = [field EXCEPT ![p].checking = Unknown] /\ UNCHANGED choice
    <3>1. field' = WithChecking(field, p, Unknown)
      BY <2>3 DEF WithChecking
    <3>2. OnlyRow(field', field, p) /\ field'[p].branch = field[p].branch /\ field'[p].picked = field[p].picked
      BY <3>1, CheckingSet DEF FormTypes
    <3>3. UNCHANGED choice
      BY <2>3
    <3> QED
      BY <2>1, <3>2, <3>3, RowStep DEF FormTypes, SettledStays
  <2>4. CASE UNCHANGED <<field, choice>>
    BY <2>1, <2>4, RowStep DEF FormTypes, SettledStays, OnlyRow
  <2> QED
    BY <1>9, <2>2, <2>3, <2>4, Zenon DEF BranchChecked, Awaits
<1>10. ASSUME NEW list \in PickLists, DefaultsLoaded(list) PROVE FormInv'
  BY <1>10 DEF DefaultsLoaded, FormTypes, SettledStays, DefaultsFit
<1> QED
  BY <1>1, <1>2, <1>3, <1>4, <1>5, <1>6, <1>7, <1>8, <1>9, <1>10 DEF FormNext, FormUser, FormAnswers

\* What the form would send is what the user sees and chose last, whichever answers to earlier
\* picks, entries and forms still come: for any workspaces, names of branches and creations
\* under way (sessionform.go setRows, branchfield.go).
THEOREM FormSendsWhatIsSeen == FormSpec => []FormFollowsUser
<1>1. FormInv => FormFollowsUser
  BY DEF FormInv, FormTypes, SettledStays, DefaultsFit, FormFollowsUser
<1> QED
  BY <1>1, FormInitInv, FormStep, PTL DEF FormSpec
-----------------------------------------------------------------------------
(***************************************************************************)
(* The detail panel.                                                       *)
(***************************************************************************)
\* A finite set of numbers has a largest one.
LEMMA LargestNumber ==
  ASSUME NEW X, IsFiniteSet(X), X \subseteq Nat, X # {}
  PROVE  \E x \in X : \A y \in X : y <= x
<1> DEFINE Above(x) == {y \in X : x < y}
           F == {Above(x) : x \in X}
           R == StrictSubsetOrdering(X)
           D == FiniteSubsetsOf(X)
<1>1. IsWellFoundedOn(R, D)
  BY FS_StrictSubsetOrderingWellFounded
<1>2. F \subseteq D /\ F # {}
  <2>1. ASSUME NEW x \in X PROVE Above(x) \in D
    <3>1. Above(x) \in SUBSET X
      OBVIOUS
    <3> HIDE DEF Above
    <3> QED
      BY <3>1, FS_Subset DEF FiniteSubsetsOf
  <2> QED
    BY <2>1
<1> HIDE DEF R, D
<1>3. PICK f \in F : \A g \in F : ~ (<<g, f>> \in R)
  BY <1>1, <1>2, WFMin
<1>4. PICK x \in X : f = Above(x)
  OBVIOUS
<1> HIDE DEF F
<1>5. ASSUME NEW y \in X, x < y
      PROVE  FALSE
  <2>1. Above(y) \subseteq Above(x) /\ y \in Above(x) /\ y \notin Above(y) /\ Above(x) \subseteq X
    <3>1. \A z \in X : z \in Nat
      OBVIOUS
    <3>2. \A z \in X : z \in Above(x) <=> x < z
      OBVIOUS
    <3>3. \A z \in X : z \in Above(y) <=> y < z
      OBVIOUS
    <3>4. Above(y) \subseteq X /\ Above(x) \subseteq X
      OBVIOUS
    <3> HIDE DEF Above
    <3>5. ~ (y < y) /\ \A z \in X : y < z => x < z
      BY <1>5, <3>1
    <3>6. y \in Above(x) /\ y \notin Above(y)
      BY <1>5, <3>2, <3>3, <3>5
    <3>7. Above(y) \subseteq Above(x)
      BY <3>2, <3>3, <3>4, <3>5
    <3> QED
      BY <3>4, <3>6, <3>7
  <2>2. <<Above(y), Above(x)>> \in R
    <3> HIDE DEF Above
    <3> QED
      BY <2>1 DEF R, StrictSubsetOrdering
  <2> QED
    BY <1>3, <1>4, <2>2 DEF F
<1>6. \A y \in X : y \in Nat
  OBVIOUS
<1> QED
  BY <1>5, <1>6

Upto(S, n) == Cardinality({k \in S : k <= n})

\* A finite set of numbers has a member at each place.
LEMMA NumbersHavePlaces ==
  ASSUME NEW S, IsFiniteSet(S), S \subseteq Nat \ {0}, NEW at \in 1 .. Cardinality(S)
  PROVE  \E j \in S : Upto(S, j) = at
<1> DEFINE F == {X \in SUBSET S : Cardinality(X) >= at /\ \A k \in X, m \in S : m < k => m \in X}
           R == StrictSubsetOrdering(S)
           D == FiniteSubsetsOf(S)
<1>1. IsWellFoundedOn(R, D)
  BY FS_StrictSubsetOrderingWellFounded
<1>2. \A X \in SUBSET S : IsFiniteSet(X) /\ Cardinality(X) \in Nat
  BY FS_Subset, FS_CardinalityType
<1>3. F \subseteq D
  BY <1>2 DEF FiniteSubsetsOf
<1>4. S \in F
  BY <1>2
<1> HIDE DEF R, D
<1>5. PICK X \in F : \A Y \in F : ~ (<<Y, X>> \in R)
  <2> HIDE DEF F
  <2> QED
    BY <1>1, <1>3, <1>4, WFMin
<1>6. IsFiniteSet(X) /\ Cardinality(X) \in Nat /\ X \subseteq S
  BY <1>2
<1>7. X # {}
  <2>1. Cardinality({}) = 0
    BY FS_EmptySet
  <2> QED
    BY <2>1
<1>8. PICK x \in X : \A y \in X : y <= x
  BY <1>6, <1>7, LargestNumber
<1>9. /\ IsFiniteSet(X \ {x}) /\ Cardinality(X \ {x}) = Cardinality(X) - 1
  BY <1>6, FS_RemoveElement
<1>10. X \ {x} \notin F
  <2>1. <<X \ {x}, X>> \in R
    BY <1>6 DEF R, StrictSubsetOrdering
  <2> QED
    BY <1>5, <2>1
<1>11. \A k \in X \ {x}, m \in S : m < k => m \in X \ {x}
  BY <1>6, <1>8
<1>12. Cardinality(X) = at
  BY <1>6, <1>9, <1>10, <1>11
<1>13. {k \in S : k <= x} = X
  <2>1. \A k \in X, m \in S : m < k => m \in X
    OBVIOUS
  <2>2. \A k \in S : k \in Nat
    OBVIOUS
  <2> HIDE DEF F
  <2>3. ASSUME NEW k \in S PROVE k <= x <=> k \in X
    BY <1>6, <1>8, <2>1, <2>2
  <2> QED
    BY <1>6, <2>3
<1> HIDE DEF F
<1>14. Upto(S, x) = at
  BY <1>12, <1>13 DEF Upto
<1> QED
  BY <1>6, <1>14

\* The items of a session.
ItemKinds == {"blocker", "tab", "pr"}
Items(s)  == [kind : ItemKinds, of : {s}, no : Nat]

LEMMA OrderedItems ==
  ASSUME NEW kind \in ItemKinds, NEW s, NEW last \in Nat, NEW nos \in SUBSET (1 .. last)
  PROVE  Ordered(kind, s, nos) \in Seq(Items(s))
<1> DEFINE number(i) == CHOOSE n \in nos : Cardinality({m \in nos : m <= n}) = i
<1>1. IsFiniteSet(nos) /\ Cardinality(nos) \in Nat /\ nos \subseteq Nat \ {0}
  <2>1. IsFiniteSet(1 .. last)
    BY FS_Interval
  <2>2. IsFiniteSet(nos)
    BY <2>1, FS_Subset
  <2>3. nos \subseteq Nat \ {0}
    OBVIOUS
  <2> QED
    BY <2>2, <2>3, FS_CardinalityType
<1>2. ASSUME NEW i \in 1 .. Cardinality(nos) PROVE number(i) \in Nat
  <2>1. \E n \in nos : Cardinality({m \in nos : m <= n}) = i
    BY <1>1, NumbersHavePlaces DEF Upto
  <2>2. number(i) \in nos
    BY <2>1
  <2> QED
    BY <1>1, <2>2
<1>3. Ordered(kind, s, nos) = [i \in 1 .. Cardinality(nos) |-> [kind |-> kind, of |-> s, no |-> number(i)]]
  BY DEF Ordered
<1> HIDE DEF number
<1>4. \A i \in 1 .. Cardinality(nos) : [kind |-> kind, of |-> s, no |-> number(i)] \in Items(s)
  BY <1>2 DEF Items
<1> QED
  BY <1>1, <1>3, <1>4

Views == [Owners -> SUBSET (1 .. Tabs)]

LEMMA ItemsTyped ==
  ASSUME NEW s \in Owners \cup {Nobody}, NEW row \in Data, NEW tabs \in Views
  PROVE  ItemsIn(s, row, tabs) \in Seq(Items(s))
<1>1. CASE s = Nobody
  BY <1>1 DEF ItemsIn
<1>2. CASE s # Nobody
  <2>1. Blockers \in Nat /\ Tabs \in Nat /\ Links \in Nat
    BY PanelBounds
  <2>2. row.blockers \in SUBSET (1 .. Blockers) /\ tabs[s] \in SUBSET (1 .. Tabs) /\ row.prs \in SUBSET (1 .. Links)
    BY <1>2 DEF Data, Views
  <2>3. Ordered("blocker", s, row.blockers) \in Seq(Items(s))
    BY <2>1, <2>2, OrderedItems DEF ItemKinds
  <2>4. Ordered("tab", s, tabs[s]) \in Seq(Items(s))
    BY <2>1, <2>2, OrderedItems DEF ItemKinds
  <2>5. Ordered("pr", s, row.prs) \in Seq(Items(s))
    BY <2>1, <2>2, OrderedItems DEF ItemKinds
  <2> DEFINE a == Ordered("blocker", s, row.blockers)
             b == Ordered("tab", s, tabs[s])
             c == Ordered("pr", s, row.prs)
             T == Items(s)
  <2>6. a \in Seq(T) /\ b \in Seq(T) /\ c \in Seq(T)
    BY <2>3, <2>4, <2>5
  <2>7. ItemsIn(s, row, tabs) = a \o b \o c
    BY <1>2 DEF ItemsIn
  <2> HIDE DEF a, b, c, T
  <2>8. a \o b \o c \in Seq(T)
    BY <2>6
  <2> QED
    BY <2>7, <2>8 DEF T
<1> QED
  BY <1>1, <1>2

\* clampCursor finds an item when there is one.
LEMMA Clamps ==
  ASSUME NEW T, NEW items \in Seq(T), NEW i \in Nat
  PROVE  Clamp(items, i) \in Nat /\ (items # <<>> => Clamp(items, i) \in DOMAIN items)
<1>1. Len(items) \in Nat /\ DOMAIN items = 1 .. Len(items) /\ (items # <<>> => Len(items) > 0)
  BY EmptySeq
<1> QED
  BY <1>1 DEF Clamp

\* The cursor comes to the same item, and to an item when there is one.
LEMMA SelectionRestored ==
  ASSUME NEW q, NEW s, NEW old \in Seq(Items(q)), NEW items \in Seq(Items(s)), NEW i \in Nat
  PROVE  /\ RestoreSelection(old, i, items) \in Nat
         /\ Chosen(old, i) \in ToSet(items) => Chosen(items, RestoreSelection(old, i, items)) = Chosen(old, i)
         /\ items # <<>> => Chosen(items, RestoreSelection(old, i, items)) # NoItem
<1> DEFINE it   == Chosen(old, i)
           same == {j \in DOMAIN items : items[j] = it}
           kin  == PlacesOf(items, it.kind)
           rank == Cardinality({j \in PlacesOf(old, it.kind) : j <= i})
           at   == IF rank <= Cardinality(kin) THEN rank ELSE Cardinality(kin)
           new  == RestoreSelection(old, i, items)
<1>1. new = IF same # {} THEN CHOOSE j \in same : TRUE
            ELSE IF kin # {} THEN CHOOSE j \in kin : Cardinality({k \in kin : k <= j}) = at
            ELSE Clamp(items, i)
  BY DEF RestoreSelection
<1>2. /\ DOMAIN items = 1 .. Len(items) /\ Len(items) \in Nat
      /\ DOMAIN old = 1 .. Len(old) /\ Len(old) \in Nat
  OBVIOUS
<1>3. \A j \in DOMAIN items : items[j].kind # "none"
  <2>1. \A member \in Items(s) : member.kind # "none"
    BY DEF Items, ItemKinds
  <2> DEFINE T == Items(s)
  <2>2. items \in Seq(T)
    OBVIOUS
  <2> HIDE DEF T, it, same, kin, rank, at, new
  <2>3. \A j \in DOMAIN items : items[j] \in T
    BY <2>2
  <2> QED
    BY <2>1, <2>3 DEF T
<1>4. it \in ToSet(items) <=> same # {}
  <2> HIDE DEF it
  <2> QED
    BY DEF ToSet
<1>5. IsFiniteSet(kin) /\ kin \subseteq Nat \ {0} /\ Cardinality(kin) \in Nat /\ kin \subseteq DOMAIN items
  <2>1. kin \in SUBSET (1 .. Len(items))
    BY <1>2 DEF PlacesOf
  <2>2. IsFiniteSet(1 .. Len(items))
    BY <1>2, FS_Interval
  <2> HIDE DEF kin
  <2>3. IsFiniteSet(kin)
    BY <2>1, <2>2, FS_Subset
  <2>4. Cardinality(kin) \in Nat
    BY <2>3, FS_CardinalityType
  <2>5. kin \subseteq Nat \ {0} /\ kin \subseteq DOMAIN items
    BY <1>2, <2>1
  <2> QED
    BY <2>3, <2>4, <2>5
<1>6. kin # {} => at \in 1 .. Cardinality(kin)
  <2> SUFFICES ASSUME kin # {} PROVE at \in 1 .. Cardinality(kin)
    OBVIOUS
  <2> DEFINE up == {j \in PlacesOf(old, it.kind) : j <= i}
  <2>1. i \in DOMAIN old
    <3>1. CASE i \notin DOMAIN old
      <4>1. it.kind = "none"
        BY <3>1 DEF Chosen, NoItem
      <4> QED
        BY <1>3, <4>1 DEF PlacesOf
    <3> QED
      BY <3>1
  <2>2. i \in up
    BY <2>1 DEF PlacesOf, Chosen
  <2>3. IsFiniteSet(up)
    <3>1. up \in SUBSET (1 .. Len(old))
      BY <1>2 DEF PlacesOf
    <3>2. IsFiniteSet(1 .. Len(old))
      BY <1>2, FS_Interval
    <3> HIDE DEF up
    <3> QED
      BY <3>1, <3>2, FS_Subset
  <2>4. rank = Cardinality(up)
    OBVIOUS
  <2> HIDE DEF up, rank, kin
  <2>5. rank \in Nat /\ rank # 0
    BY <2>2, <2>3, <2>4, FS_CardinalityType, FS_EmptySet
  <2>6. Cardinality(kin) # 0
    BY <1>5, FS_EmptySet
  <2> QED
    BY <1>5, <2>5, <2>6
<1> HIDE DEF it, at, kin
<1>7. CASE same # {}
  <2>1. new \in same
    BY <1>1, <1>7
  <2> QED
    BY <1>2, <1>3, <2>1 DEF Chosen, NoItem, it
<1>8. CASE same = {} /\ kin # {}
  <2>1. \E j \in kin : Cardinality({k \in kin : k <= j}) = at
    <3>1. at \in 1 .. Cardinality(kin) /\ IsFiniteSet(kin) /\ kin \subseteq Nat \ {0}
      BY <1>5, <1>6, <1>8
    <3>2. \E j \in kin : Upto(kin, j) = at
      BY <3>1, NumbersHavePlaces
    <3> QED
      BY <3>2 DEF Upto
  <2>2. new \in kin
    BY <1>1, <1>8, <2>1
  <2>3. new \in DOMAIN items /\ new \in Nat
    BY <1>5, <2>2
  <2> QED
    BY <1>3, <1>4, <1>8, <2>3 DEF Chosen, NoItem, it
<1>9. CASE same = {} /\ kin = {}
  <2>1. new \in Nat /\ (items # <<>> => new \in DOMAIN items)
    BY <1>1, <1>9, Clamps
  <2> QED
    BY <1>3, <1>4, <1>9, <2>1 DEF Chosen, NoItem, it
<1> QED
  BY <1>7, <1>8, <1>9

\* What an answer that no change of the session overtook is for.
Answers == [what : {"bundles", "move", "close"}, for : Owners \cup {Nobody},
            whole : {TRUE}, overtaken : BOOLEAN]

FitsPanel(a) ==
  ~ a.overtaken => /\ a.for = detail.sess
                   /\ a.what = "move" => overlay.tab.of = detail.sess

DetailTyped == detail \in [sess : Owners \cup {Nobody}, row : Data, cursor : Nat, focused : BOOLEAN]

\* The overlay and the tab it keeps are those of the session that is shown.
OverlayFits ==
  /\ DOMAIN overlay = {"kind", "for", "tab", "ticked"}
  /\ overlay.kind # "none" => overlay.for = detail.sess
  /\ overlay.kind = "sessions" => overlay.tab.of = detail.sess

AnswersFit ==
  /\ inbox \in Seq(Answers)
  /\ \A i \in DOMAIN inbox : FitsPanel(inbox[i])

FollowInv ==
  /\ DetailTyped
  /\ views \in Views
  /\ OverlayFits
  /\ AnswersFit

FollowStep == asks'.asked /\ CursorKept

LEMMA NoDataTyped == NoData \in Data
  BY DEF NoData, Data

LEMMA FollowInit == PanelInit => FollowInv
<1> SUFFICES ASSUME PanelInit PROVE FollowInv
  OBVIOUS
<1>1. DetailTyped
  BY NoDataTyped DEF PanelInit, Unfocused, DetailTyped
<1>2. views \in Views
  BY DEF PanelInit, Views
<1>3. OverlayFits
  BY DEF PanelInit, NoOverlay, OverlayFits
<1>4. AnswersFit
  BY DEF PanelInit, AnswersFit
<1> QED
  BY <1>1, <1>2, <1>3, <1>4 DEF FollowInv

\* What is under the cursor is of the session that is shown, or nothing.
LEMMA ChosenTyped ==
  ASSUME FollowInv
  PROVE  /\ ItemsHere \in Seq(Items(detail.sess))
         /\ ChosenHere \in Items(detail.sess) \/ ChosenHere = NoItem
<1>1. /\ detail.sess \in Owners \cup {Nobody} /\ detail.row \in Data /\ views \in Views
  BY DEF FollowInv, DetailTyped
<1>2. ItemsHere \in Seq(Items(detail.sess))
  BY <1>1, ItemsTyped DEF ItemsHere
<1> DEFINE T == Items(detail.sess)
           items == ItemsHere
<1>3. items \in Seq(T)
  BY <1>2
<1>4. ChosenHere = IF detail.cursor \in DOMAIN items THEN items[detail.cursor] ELSE NoItem
  BY DEF ChosenHere, Chosen
<1> HIDE DEF T, items
<1>5. ChosenHere \in T \/ ChosenHere = NoItem
  BY <1>3, <1>4
<1> QED
  BY <1>2, <1>5 DEF T

\* A message that leaves the row and the tabs alone leaves the answers and the cursor alone.
LEMMA SameRowKeepsCursor ==
  ASSUME detail'.row = detail.row, views' = views
  PROVE  CursorKept
  BY DEF CursorKept

LEMMA OverlayShutFits ==
  ASSUME OverlayFits
  PROVE  /\ DOMAIN OverlayShut(overlay) = {"kind", "for", "tab", "ticked"}
         /\ OverlayShut(overlay).kind = "none"
         /\ OverlayShut(overlay).tab = overlay.tab
  BY DEF OverlayShut, NoOverlay

\* The panel is given another session, or none.
LEMMA AnotherSession ==
  ASSUME FollowInv, NEW s \in Owners \cup {Nobody}, NEW row \in Data, SelectAnother(s, row)
  PROVE  FollowInv' /\ FollowStep
<1> DEFINE cur == Clamp(ItemsIn(s, row, views), 0)
<1>1. cur \in Nat
  <2>1. ItemsIn(s, row, views) \in Seq(Items(s))
    BY ItemsTyped DEF FollowInv
  <2> DEFINE items == ItemsIn(s, row, views)
             T == Items(s)
  <2>2. items \in Seq(T)
    BY <2>1
  <2> HIDE DEF items, T
  <2>3. Clamp(items, 0) \in Nat
    BY <2>2, Clamps
  <2> QED
    BY <2>3 DEF items
<1>2. detail' = [sess |-> s, row |-> row, cursor |-> cur, focused |-> FALSE]
  BY DEF SelectAnother, ResetPanel, Unfocused
<1>3. /\ overlay' = OverlayShut(overlay) /\ inbox' = Overtaken
      /\ views' = views /\ asks' = AsksNothing /\ s # detail.sess
  BY DEF SelectAnother, ResetPanel
<1> HIDE DEF cur
<1>4. DetailTyped'
  BY <1>1, <1>2 DEF DetailTyped
<1>5. OverlayFits'
  BY <1>3, OverlayShutFits DEF FollowInv, OverlayFits
<1>6. AnswersFit'
  <2>1. inbox \in Seq(Answers)
    BY DEF FollowInv, AnswersFit
  <2>2. \A a \in Answers : [a EXCEPT !.overtaken = TRUE] \in Answers /\ [a EXCEPT !.overtaken = TRUE].overtaken
    BY DEF Answers
  <2>3. inbox' = [i \in 1 .. Len(inbox) |-> [inbox[i] EXCEPT !.overtaken = TRUE]]
    BY <1>3, <2>1 DEF Overtaken
  <2>4. Len(inbox) \in Nat /\ \A i \in 1 .. Len(inbox) : inbox[i] \in Answers
    BY <2>1
  <2>5. DOMAIN inbox' = 1 .. Len(inbox) /\ \A i \in 1 .. Len(inbox) : inbox'[i] \in Answers /\ inbox'[i].overtaken
    BY <2>2, <2>3, <2>4
  <2>6. inbox' \in Seq(Answers)
    <3> DEFINE late(i) == [inbox[i] EXCEPT !.overtaken = TRUE]
    <3>1. inbox' = [i \in 1 .. Len(inbox) |-> late(i)] /\ Len(inbox) \in Nat
      BY <2>3, <2>4
    <3>2. \A i \in 1 .. Len(inbox) : late(i) \in Answers
      BY <2>2, <2>4
    <3> HIDE DEF late
    <3> QED
      BY <3>1, <3>2
  <2>7. (\A i \in DOMAIN inbox : FitsPanel(inbox[i]))'
    BY <2>5 DEF FitsPanel
  <2> QED
    BY <2>6, <2>7 DEF AnswersFit
<1>7. FollowStep
  BY <1>2, <1>3 DEF FollowStep, CursorKept, AsksNothing
<1> QED
  BY <1>3, <1>4, <1>5, <1>6, <1>7 DEF FollowInv

\* A message about the session that is shown: the cursor follows its item.
LEMMA SelectionFollows ==
  ASSUME FollowInv, NEW row \in Data, NEW tabs \in Views,
         NEW cur, cur = RestoreSelection(ItemsHere, detail.cursor, ItemsIn(detail.sess, row, tabs)),
         detail' = [detail EXCEPT !.row = row, !.cursor = cur],
         views' = tabs
  PROVE  DetailTyped' /\ views' \in Views /\ CursorKept
<1>1. /\ DOMAIN detail = {"sess", "row", "cursor", "focused"}
      /\ detail.sess \in Owners \cup {Nobody} /\ detail.row \in Data /\ views \in Views
      /\ detail.cursor \in Nat /\ detail.focused \in BOOLEAN
  BY DEF FollowInv, DetailTyped
<1>2. ItemsHere \in Seq(Items(detail.sess))
  BY ChosenTyped
<1>3. ItemsIn(detail.sess, row, tabs) \in Seq(Items(detail.sess))
  BY <1>1, ItemsTyped
<1> DEFINE old == ItemsHere
           items == ItemsIn(detail.sess, row, tabs)
           s == detail.sess
<1>4. old \in Seq(Items(s)) /\ items \in Seq(Items(s)) /\ detail.cursor \in Nat /\ cur = RestoreSelection(old, detail.cursor, items)
  BY <1>1, <1>2, <1>3
<1> HIDE DEF old, items, s
<1>5. /\ cur \in Nat
      /\ Chosen(old, detail.cursor) \in ToSet(items) => Chosen(items, cur) = Chosen(old, detail.cursor)
      /\ items # <<>> => Chosen(items, cur) # NoItem
  BY <1>4, SelectionRestored
<1>6. detail'.sess = detail.sess /\ detail'.row = row /\ detail'.cursor = cur
  BY <1>1
<1>7. ItemsHere' = items /\ ChosenHere' = Chosen(items, cur) /\ ChosenHere = Chosen(old, detail.cursor)
  BY <1>6 DEF ItemsHere, ChosenHere, items, old
<1>8. CursorKept
  BY <1>5, <1>7 DEF CursorKept
<1>9. DetailTyped'
  BY <1>1, <1>5 DEF DetailTyped
<1> QED
  BY <1>8, <1>9

\* The answers and the overlay fit whenever neither of them, nor the session, changes.
LEMMA SameSessionFits ==
  ASSUME FollowInv, detail'.sess = detail.sess, inbox' = inbox,
         overlay' = overlay \/ overlay' = OverlayShut(overlay)
  PROVE  OverlayFits' /\ AnswersFit'
<1>1. overlay'.tab = overlay.tab
  BY OverlayShutFits DEF FollowInv
<1>2. OverlayFits'
  BY OverlayShutFits DEF FollowInv, OverlayFits
<1>3. AnswersFit'
  BY <1>1 DEF FollowInv, AnswersFit, FitsPanel
<1> QED
  BY <1>2, <1>3

LEMMA SameSession ==
  ASSUME FollowInv, NEW row \in Data, SelectAgain(row)
  PROVE  FollowInv' /\ FollowStep
<1> DEFINE cur == RestoreSelection(ItemsHere, detail.cursor, ItemsIn(detail.sess, row, views))
<1>1. DOMAIN detail = {"sess", "row", "cursor", "focused"} /\ views \in Views
  BY DEF FollowInv, DetailTyped
<1>2. /\ detail' = [detail EXCEPT !.row = row, !.cursor = cur]
      /\ views' = views /\ inbox' = inbox /\ asks' = AsksNothing
      /\ overlay' = overlay \/ overlay' = OverlayShut(overlay)
  BY DEF SelectAgain
<1>3. PICK c : c = cur
  OBVIOUS
<1>4. DetailTyped' /\ views' \in Views /\ CursorKept
  BY <1>1, <1>2, SelectionFollows
<1>5. detail'.sess = detail.sess
  BY <1>1, <1>2
<1>6. OverlayFits' /\ AnswersFit'
  BY <1>2, <1>5, SameSessionFits
<1>7. asks'.asked
  BY <1>2 DEF AsksNothing
<1> QED
  BY <1>4, <1>6, <1>7 DEF FollowInv, FollowStep

LEMMA BrowserNews ==
  ASSUME FollowInv, NEW tabs \in Views, BrowserStateUpdated(tabs)
  PROVE  FollowInv' /\ FollowStep
<1> DEFINE cur == RestoreSelection(ItemsHere, detail.cursor, ItemsIn(detail.sess, detail.row, tabs))
<1>1. DOMAIN detail = {"sess", "row", "cursor", "focused"} /\ detail.row \in Data
  BY DEF FollowInv, DetailTyped
<1>2. /\ views' = tabs /\ inbox' = inbox /\ asks' = AsksNothing /\ overlay' = overlay
      /\ detail' = IF detail.sess = Nobody THEN detail ELSE [detail EXCEPT !.cursor = cur]
  BY DEF BrowserStateUpdated
<1>3. DetailTyped' /\ views' \in Views /\ CursorKept
  <2>1. CASE detail.sess = Nobody
    <3>1. ItemsHere' = <<>> /\ ItemsHere = <<>>
      BY <1>2, <2>1 DEF ItemsHere, ItemsIn
    <3>2. CursorKept
      BY <3>1 DEF CursorKept, ToSet
    <3> QED
      BY <1>2, <2>1, <3>2 DEF FollowInv, DetailTyped
  <2>2. CASE detail.sess # Nobody
    <3>1. detail' = [detail EXCEPT !.row = detail.row, !.cursor = cur]
      BY <1>1, <1>2, <2>2
    <3> QED
      BY <1>1, <1>2, <3>1, SelectionFollows
  <2> QED
    BY <2>1, <2>2
<1>4. detail'.sess = detail.sess
  BY <1>1, <1>2
<1>5. OverlayFits' /\ AnswersFit'
  BY <1>2, <1>4, SameSessionFits
<1>6. asks'.asked
  BY <1>2 DEF AsksNothing
<1> QED
  BY <1>3, <1>5, <1>6 DEF FollowInv, FollowStep

\* A step that leaves the panel's session, its row and the tabs alone, and neither the
\* overlay nor an answer in a state that does not fit.
LEMMA QuietStep ==
  ASSUME FollowInv, DetailTyped', detail'.sess = detail.sess, detail'.row = detail.row, views' = views,
         overlay' = overlay, inbox' = inbox, asks'.asked
  PROVE  FollowInv' /\ FollowStep
<1>1. OverlayFits' /\ AnswersFit'
  BY SameSessionFits
<1>2. CursorKept
  BY SameRowKeepsCursor
<1> QED
  BY <1>1, <1>2 DEF FollowInv, FollowStep

LEMMA FocusKeys ==
  ASSUME FollowInv, FocusPanel \/ BlurPanel \/ MoveCursor
  PROVE  FollowInv' /\ FollowStep
<1>1. /\ DOMAIN detail = {"sess", "row", "cursor", "focused"} /\ detail.cursor \in Nat
      /\ detail \in [sess : Owners \cup {Nobody}, row : Data, cursor : Nat, focused : BOOLEAN]
  BY DEF FollowInv, DetailTyped
<1>2. /\ ItemsHere \in Seq(Items(detail.sess))
      /\ DOMAIN ItemsHere = 1 .. Len(ItemsHere) /\ Len(ItemsHere) \in Nat
  BY ChosenTyped
<1>3. \E cur \in Nat, focused \in BOOLEAN : detail' = [detail EXCEPT !.cursor = cur, !.focused = focused]
  <2>1. CASE FocusPanel
    <3>1. PICK at \in {detail.cursor} \cup DOMAIN ItemsHere :
            detail' = [detail EXCEPT !.focused = TRUE, !.cursor = Clamp(ItemsHere, at)]
      BY <2>1 DEF FocusPanel
    <3>2. at \in Nat
      BY <1>1, <1>2
    <3>3. Clamp(ItemsHere, at) \in Nat
      BY <1>2, <3>2, Clamps
    <3> QED
      BY <1>1, <3>1, <3>3
  <2>2. CASE BlurPanel
    BY <1>1, <2>2 DEF BlurPanel
  <2>3. CASE MoveCursor
    <3>1. PICK to \in DOMAIN ItemsHere : detail' = [detail EXCEPT !.cursor = to]
      BY <2>3 DEF MoveCursor
    <3>2. to \in Nat
      BY <1>2
    <3> QED
      BY <1>1, <3>1, <3>2
  <2> QED
    BY <2>1, <2>2, <2>3
<1>4. DetailTyped' /\ detail'.sess = detail.sess /\ detail'.row = detail.row
  <2>1. PICK cur \in Nat, focused \in BOOLEAN : detail' = [detail EXCEPT !.cursor = cur, !.focused = focused]
    BY <1>3
  <2>2. /\ detail'.sess = detail.sess /\ detail'.row = detail.row
        /\ detail' \in [sess : Owners \cup {Nobody}, row : Data, cursor : Nat, focused : BOOLEAN]
    BY <1>1, <2>1
  <2> QED
    BY <2>2 DEF DetailTyped
<1>5. views' = views /\ overlay' = overlay /\ inbox' = inbox /\ asks'.asked
  <2>1. AsksNothing.asked
    BY DEF AsksNothing
  <2>2. views' = views /\ overlay' = overlay /\ inbox' = inbox /\ asks' = AsksNothing
    BY DEF FocusPanel, BlurPanel, MoveCursor
  <2> QED
    BY <2>1, <2>2
<1> QED
  BY <1>4, <1>5, QuietStep

LEMMA ItemKeys ==
  ASSUME FollowInv, PressResolve \/ PressTab \/ PressOpen \/ PressEject \/ PressRemove
  PROVE  FollowInv' /\ FollowStep
<1>1. detail' = detail /\ views' = views /\ overlay' = overlay /\ inbox' = inbox
  BY DEF PressResolve, PressTab, PressOpen, PressEject, PressRemove, ItemCommand
<1>2. asks'.asked
  <2>1. AsksNothing.asked /\ \A what, it : AsksFor(what, it).asked
    BY DEF AsksNothing, AsksFor
  <2> QED
    BY <2>1 DEF PressResolve, PressTab, PressOpen, PressEject, PressRemove, ItemCommand,
                ResolveBlocker, DeleteBlocker, FocusTab, EjectWindow, OpenURL
<1>3. DetailTyped'
  BY <1>1 DEF FollowInv, DetailTyped
<1> QED
  BY <1>1, <1>2, <1>3, QuietStep

\* An overlay opens for the session that is shown, with a tab of it.
LEMMA OverlayOpens ==
  ASSUME FollowInv, PressMove \/ PressBundles
  PROVE  FollowInv' /\ FollowStep
<1>1. PICK kind, tab, ticked :
        /\ kind \in {"sessions", "bundles"}
        /\ OpenOverlayOf(kind, tab, ticked)
        /\ kind = "sessions" => tab = ChosenHere /\ ChosenHere.kind = "tab"
        /\ kind = "bundles" => tab = overlay.tab
  BY DEF PressMove, PressBundles
<1>2. /\ overlay' = [kind |-> kind, for |-> detail.sess, tab |-> tab, ticked |-> ticked]
      /\ detail' = detail /\ views' = views /\ inbox' = inbox /\ asks' = AsksNothing
  BY <1>1 DEF OpenOverlayOf
<1>3. kind = "sessions" => tab.of = detail.sess
  <2>1. \A member \in Items(detail.sess) : member.of = detail.sess
    BY DEF Items
  <2>2. NoItem.kind # "tab"
    BY DEF NoItem
  <2> QED
    BY <1>1, <2>1, <2>2, ChosenTyped
<1>4. OverlayFits'
  BY <1>2, <1>3 DEF OverlayFits
<1>5. AnswersFit'
  <2>1. kind = "bundles" => overlay'.tab = overlay.tab
    BY <1>1, <1>2
  <2>2. kind = "sessions" => overlay'.tab.of = detail.sess
    BY <1>2, <1>3
  <2> QED
    BY <1>1, <1>2, <2>1, <2>2 DEF FollowInv, AnswersFit, FitsPanel
<1>6. DetailTyped' /\ views' \in Views
  BY <1>2 DEF FollowInv, DetailTyped
<1>7. FollowStep
  BY <1>2, SameRowKeepsCursor DEF FollowStep, AsksNothing
<1> QED
  BY <1>4, <1>5, <1>6, <1>7 DEF FollowInv

LEMMA BundleTicked ==
  ASSUME FollowInv, NEW b \in BundleNames, ToggleBundle(b)
  PROVE  FollowInv' /\ FollowStep
<1>1. /\ DOMAIN overlay' = DOMAIN overlay
      /\ overlay'.kind = overlay.kind /\ overlay'.for = overlay.for /\ overlay'.tab = overlay.tab
      /\ detail' = detail /\ views' = views /\ inbox' = inbox /\ asks' = AsksNothing
  BY DEF FollowInv, OverlayFits, ToggleBundle
<1>2. OverlayFits'
  BY <1>1 DEF FollowInv, OverlayFits
<1>3. AnswersFit'
  BY <1>1 DEF FollowInv, AnswersFit, FitsPanel
<1>4. DetailTyped' /\ views' \in Views
  BY <1>1 DEF FollowInv, DetailTyped
<1>5. FollowStep
  BY <1>1, SameRowKeepsCursor DEF FollowStep, AsksNothing
<1> QED
  BY <1>2, <1>3, <1>4, <1>5 DEF FollowInv

\* An answer is for the session of its overlay; all the bundles that are ticked are listed.
LEMMA AnswerSent ==
  ASSUME FollowInv, PickEntries \/ PickTarget \/ LeaveOverlay
  PROVE  FollowInv' /\ FollowStep
<1>1. PICK what \in {"bundles", "move", "close"} :
        /\ SendAnswer(what) /\ overlay.kind # "none"
        /\ what = "move" => overlay.kind = "sessions"
  BY DEF PickEntries, PickTarget, LeaveOverlay, InOverlay
<1> DEFINE a == [what |-> what, for |-> overlay.for,
                 whole |-> overlay.ticked \cap Entries = overlay.ticked, overtaken |-> FALSE]
<1>2. /\ inbox' = Append(inbox, a) /\ asks' = AsksNothing
      /\ detail' = detail /\ views' = views /\ overlay' = overlay
  BY <1>1 DEF SendAnswer
<1>3. overlay.ticked \cap Entries = overlay.ticked
  BY DEF Entries
<1>4. a \in Answers /\ FitsPanel(a)
  BY <1>1, <1>3 DEF FollowInv, DetailTyped, OverlayFits, Answers, FitsPanel
<1> HIDE DEF a
<1>5. AnswersFit'
  <2>1. inbox \in Seq(Answers) /\ \A i \in DOMAIN inbox : FitsPanel(inbox[i])
    BY DEF FollowInv, AnswersFit
  <2>2. inbox' \in Seq(Answers) /\ \A i \in DOMAIN inbox' : FitsPanel(inbox'[i])
    <3>1. inbox' \in Seq(Answers)
      BY <1>2, <1>4, <2>1
    <3>2. \A i \in DOMAIN inbox' : inbox'[i] = a \/ (i \in DOMAIN inbox /\ inbox'[i] = inbox[i])
      BY <1>2, <1>4, <2>1
    <3>3. ASSUME NEW i \in DOMAIN inbox' PROVE FitsPanel(inbox'[i])
      BY <1>4, <2>1, <3>2
    <3> QED
      BY <3>1, <3>3
  <2> QED
    BY <1>2, <2>2 DEF AnswersFit, FitsPanel
<1>6. OverlayFits' /\ DetailTyped' /\ views' \in Views
  BY <1>2 DEF FollowInv, OverlayFits, DetailTyped
<1>7. FollowStep
  BY <1>2, SameRowKeepsCursor DEF FollowStep, AsksNothing
<1> QED
  BY <1>5, <1>6, <1>7 DEF FollowInv

LEMMA RemovedAt ==
  ASSUME NEW T, NEW seq \in Seq(T), NEW i \in DOMAIN seq
  PROVE  /\ RemoveAt(seq, i) \in Seq(T)
         /\ \A j \in DOMAIN RemoveAt(seq, i) : \E k \in DOMAIN seq : RemoveAt(seq, i)[j] = seq[k]
<1> DEFINE a == SubSeq(seq, 1, i - 1)
           b == SubSeq(seq, i + 1, Len(seq))
<1>1. Len(seq) \in Nat /\ i \in 1 .. Len(seq) /\ DOMAIN seq = 1 .. Len(seq)
  OBVIOUS
<1>2. RemoveAt(seq, i) = a \o b
  BY DEF RemoveAt
<1>3. a \in Seq(T) /\ Len(a) = i - 1 /\ \A j \in 1 .. Len(a) : a[j] = seq[j]
  BY <1>1
<1>4. b \in Seq(T) /\ Len(b) = Len(seq) - i /\ \A j \in 1 .. Len(b) : b[j] = seq[i + j]
  BY <1>1
<1> HIDE DEF a, b
<1>5. /\ a \o b \in Seq(T) /\ Len(a \o b) = Len(a) + Len(b)
      /\ \A j \in 1 .. Len(a) + Len(b) : (a \o b)[j] = IF j <= Len(a) THEN a[j] ELSE b[j - Len(a)]
  BY <1>3, <1>4
<1>6. ASSUME NEW j \in 1 .. Len(a) + Len(b) PROVE \E k \in DOMAIN seq : (a \o b)[j] = seq[k]
  <2>1. CASE j <= Len(a)
    <3>1. (a \o b)[j] = seq[j] /\ j \in DOMAIN seq
      BY <1>1, <1>3, <1>4, <1>5, <2>1
    <3> QED
      BY <3>1
  <2>2. CASE ~ (j <= Len(a))
    <3>1. j - Len(a) \in 1 .. Len(b)
      BY <1>1, <1>3, <1>4, <2>2
    <3> DEFINE k == j - Len(a)
    <3>2. (a \o b)[j] = b[k]
      BY <1>5, <2>2
    <3>3. k \in 1 .. Len(b) /\ i + k \in DOMAIN seq
      BY <1>1, <1>4, <3>1
    <3> HIDE DEF k
    <3>4. (a \o b)[j] = seq[i + k]
      BY <1>4, <3>2, <3>3
    <3> QED
      BY <3>3, <3>4
  <2> QED
    BY <2>1, <2>2
<1> DEFINE rest == a \o b
<1>7. rest \in Seq(T) /\ DOMAIN rest = 1 .. Len(a) + Len(b)
  BY <1>3, <1>4, <1>5
<1>8. \A j \in DOMAIN rest : \E k \in DOMAIN seq : rest[j] = seq[k]
  BY <1>6, <1>7
<1> HIDE DEF rest
<1>9. RemoveAt(seq, i) = rest
  BY <1>2 DEF rest
<1> QED
  BY <1>7, <1>8, <1>9

LEMMA AnswerArrives ==
  ASSUME FollowInv, NEW i \in DOMAIN inbox, AnswerHandled(i)
  PROVE  FollowInv' /\ FollowStep
<1> DEFINE a == inbox[i]
<1>1. /\ inbox' = RemoveAt(inbox, i) /\ overlay' = OverlayShut(overlay)
      /\ asks' = IF detail.sess = Nobody \/ a.what = "close" THEN AsksNothing
                 ELSE IF a.what = "bundles" THEN SetSessionBundles(a) ELSE MoveTab(a)
      /\ detail' = detail /\ views' = views
  BY DEF AnswerHandled
<1>2. inbox \in Seq(Answers) /\ \A k \in DOMAIN inbox : FitsPanel(inbox[k])
  BY DEF FollowInv, AnswersFit
<1>3. a \in Answers /\ FitsPanel(a)
  BY <1>2
<1> HIDE DEF a
<1>4. asks'.asked
  BY <1>1, <1>3 DEF Answers, FitsPanel, AsksNothing, SetSessionBundles, MoveTab
<1>5. OverlayFits' /\ overlay'.tab = overlay.tab
  BY <1>1, OverlayShutFits DEF FollowInv, OverlayFits
<1>6. AnswersFit'
  <2>1. /\ inbox' \in Seq(Answers)
        /\ \A j \in DOMAIN inbox' : \E k \in DOMAIN inbox : inbox'[j] = inbox[k]
    BY <1>1, <1>2, RemovedAt
  <2>2. \A j \in DOMAIN inbox' : FitsPanel(inbox'[j])
    BY <1>2, <2>1
  <2> QED
    BY <1>1, <1>5, <2>1, <2>2 DEF AnswersFit, FitsPanel
<1>7. DetailTyped' /\ views' \in Views
  BY <1>1 DEF FollowInv, DetailTyped
<1>8. CursorKept
  BY <1>1, SameRowKeepsCursor
<1> QED
  BY <1>4, <1>5, <1>6, <1>7, <1>8 DEF FollowInv, FollowStep

LEMMA FollowNext ==
  ASSUME FollowInv, PanelNext
  PROVE  FollowInv' /\ FollowStep
<1>1. CASE PanelMessages
  <2>1. ASSUME NEW s \in Owners, NEW row \in Data, SelectAnother(s, row) PROVE FollowInv' /\ FollowStep
    BY <2>1, AnotherSession
  <2>2. ASSUME SelectAnother(Nobody, NoData) PROVE FollowInv' /\ FollowStep
    BY <2>2, AnotherSession, NoDataTyped
  <2>3. ASSUME NEW row \in Data, SelectAgain(row) PROVE FollowInv' /\ FollowStep
    BY <2>3, SameSession
  <2>4. ASSUME NEW tabs \in Views, BrowserStateUpdated(tabs) PROVE FollowInv' /\ FollowStep
    BY <2>4, BrowserNews
  <2>5. ASSUME FetchBundles PROVE FollowInv' /\ FollowStep
    <3>1. detail' = detail /\ views' = views /\ overlay' = overlay /\ inbox' = inbox /\ asks'.asked
      BY <2>5 DEF FetchBundles, AsksNothing
    <3>2. DetailTyped'
      BY <3>1 DEF FollowInv, DetailTyped
    <3> QED
      BY <3>1, <3>2, QuietStep
  <2> QED
    BY <1>1, <2>1, <2>2, <2>3, <2>4, <2>5 DEF PanelMessages, Views
<1>2. CASE PanelKeys
  <2>1. ASSUME FocusPanel \/ BlurPanel \/ MoveCursor PROVE FollowInv' /\ FollowStep
    BY <2>1, FocusKeys
  <2>2. ASSUME PressResolve \/ PressTab \/ PressOpen \/ PressEject \/ PressRemove PROVE FollowInv' /\ FollowStep
    BY <2>2, ItemKeys
  <2>3. ASSUME PressMove \/ PressBundles PROVE FollowInv' /\ FollowStep
    BY <2>3, OverlayOpens
  <2>4. ASSUME NEW b \in BundleNames, ToggleBundle(b) PROVE FollowInv' /\ FollowStep
    BY <2>4, BundleTicked
  <2>5. ASSUME PickEntries \/ PickTarget \/ LeaveOverlay PROVE FollowInv' /\ FollowStep
    BY <2>5, AnswerSent
  <2> QED
    BY <1>2, <2>1, <2>2, <2>3, <2>4, <2>5 DEF PanelKeys
<1>3. CASE PanelAnswers
  BY <1>3, AnswerArrives DEF PanelAnswers
<1> QED
  BY <1>1, <1>2, <1>3 DEF PanelNext

LEMMA FollowStutter == FollowInv /\ UNCHANGED panelVars => FollowInv'
  BY DEF FollowInv, panelVars, DetailTyped, OverlayFits, AnswersFit, FitsPanel

\* Whatever messages come between the user's keys, for any number of sessions, blockers, tabs,
\* pull requests and answers under way: the cursor of the detail panel stays on the item where
\* the user put it, and what an overlay answers is asked for the session it was opened for,
\* unless a change of the session overtook the answer.
THEOREM PanelFollows == PanelSpec => PanelFollowsUser
<1>1. PanelInit => FollowInv
  BY FollowInit
<1>2. FollowInv /\ [PanelNext]_panelVars => FollowInv'
  BY FollowNext, FollowStutter
<1>3. FollowInv /\ [PanelNext]_panelVars => [asks'.asked /\ CursorKept]_panelVars
  BY FollowNext DEF FollowStep
<1> QED
  BY <1>1, <1>2, <1>3, PTL DEF PanelSpec, PanelFollowsUser
=============================================================================
