----------------------------- MODULE SessionForm -----------------------------
(***************************************************************************)
(* The form for a new session (sessionform.go, branchfield.go).  It asks   *)
(* the daemon for the branches of the workspaces that were picked, for     *)
(* their default bundles, and whether a branch that was typed exists.      *)
(* The answers come in any order, after the rows have changed or the form  *)
(* was closed and opened again; they are lost while it is closed.          *)
(***************************************************************************)
EXTENDS Naturals, SequencesExt

CONSTANTS
  Places,     \* workspaces
  BranchNames,      \* names of branches
  Unknown,    \* no branch, no name, no bundles
  MaxCreates  \* bound: creations under way

VARIABLES
  open,        \* the form is the active view
  cover,       \* the overlay: "none", "workspaces", "branch" or "bundles"
  picks,       \* the workspaces of the rows, in order
  field,       \* the row of each of them
  defaults,    \* the workspaces whose default bundles are shown
  ownBundles,  \* the user has chosen bundles
  submitting,
  replies,     \* answers under way: default bundles, branches, checks
  creates,     \* creations under way
  choice       \* history: the branch the user settled on for a row

formVars == <<open, cover, picks, field, defaults, ownBundles, submitting, replies, creates, choice>>

NewRow    == [branch |-> Unknown, picked |-> FALSE, loading |-> TRUE, editing |-> FALSE, checking |-> Unknown]
NoReplies == [bundles |-> {}, branches |-> {}, checks |-> {}]
Undecided == [p \in Places |-> Unknown]

FormInit ==
  /\ open = FALSE
  /\ cover = "none"
  /\ picks = <<>>
  /\ field = [p \in Places |-> NewRow]
  /\ defaults = Unknown
  /\ ownBundles = FALSE
  /\ submitting = FALSE
  /\ replies = NoReplies
  /\ creates = 0
  /\ choice = Undecided

InRows(p)   == Contains(picks, p)
Editing     == \E p \in ToSet(picks) : field[p].editing
BusyRow(p)  == field[p].loading \/ field[p].editing \/ field[p].checking # Unknown

-----------------------------------------------------------------------------
(***************************************************************************)
(* The user.                                                               *)
(***************************************************************************)
\* Init.
OpenForm ==
  /\ ~open
  /\ open' = TRUE
  /\ cover' = "workspaces"
  /\ picks' = <<>> /\ field' = [p \in Places |-> NewRow] /\ choice' = Undecided
  /\ defaults' = Unknown /\ ownBundles' = FALSE /\ submitting' = FALSE
  /\ UNCHANGED <<replies, creates>>

OnPage == open /\ cover = "none" /\ ~Editing

Cancel ==
  /\ OnPage
  /\ open' = FALSE
  /\ UNCHANGED <<cover, picks, field, defaults, ownBundles, submitting, replies, creates, choice>>

\* The branches need a row to be picked for.
OpenOverlay(o) ==
  /\ OnPage /\ (o = "branch" => picks # <<>>)
  /\ cover' = o
  /\ UNCHANGED <<open, picks, field, defaults, ownBundles, submitting, replies, creates, choice>>

CloseOverlay ==
  /\ open /\ cover # "none"
  /\ cover' = "none"
  /\ UNCHANGED <<open, picks, field, defaults, ownBundles, submitting, replies, creates, choice>>

\* setRows: rows that were there stay as they are.
PickWorkspaces(list) ==
  LET added == {p \in ToSet(list) : ~InRows(p)}
  IN /\ open /\ cover = "workspaces"
     /\ cover' = "none"
     /\ picks' = list
     /\ field' = [p \in Places |-> IF p \in ToSet(picks) \cap ToSet(list) THEN field[p] ELSE NewRow]
     /\ choice' = [p \in Places |-> IF p \in ToSet(picks) \cap ToSet(list) THEN choice[p] ELSE Unknown]
     /\ defaults' = IF ownBundles THEN defaults ELSE Unknown
     /\ replies' = [replies EXCEPT !.branches = @ \cup added,
                                   !.bundles = IF ownBundles THEN @ ELSE @ \cup {list}]
     /\ UNCHANGED <<open, ownBundles, submitting, creates>>

Settle(p, name) ==
  /\ field' = [field EXCEPT ![p] = [@ EXCEPT !.branch = name, !.picked = TRUE, !.editing = FALSE, !.checking = Unknown]]

PickBranch(p, name) ==
  /\ open /\ cover = "branch" /\ InRows(p)
  /\ cover' = "none"
  /\ field' = [field EXCEPT ![p].branch = name, ![p].picked = TRUE]
  /\ choice' = [choice EXCEPT ![p] = name]
  /\ UNCHANGED <<open, picks, defaults, ownBundles, submitting, replies, creates>>

StartManual(p) ==
  /\ open /\ cover = "branch" /\ InRows(p)
  /\ cover' = "none"
  /\ field' = [field EXCEPT ![p].editing = TRUE]
  /\ UNCHANGED <<open, picks, defaults, ownBundles, submitting, replies, creates, choice>>

\* Enter, in a row that is edited; it may be typed over and entered again.
EnterName(p, name) ==
  /\ open /\ cover = "none" /\ InRows(p) /\ field[p].editing
  /\ field' = [field EXCEPT ![p].checking = name]
  /\ replies' = [replies EXCEPT !.checks = @ \cup {<<p, name>>}]
  /\ UNCHANGED <<open, cover, picks, defaults, ownBundles, submitting, creates, choice>>

LeaveManual(p) ==
  /\ open /\ cover = "none" /\ InRows(p) /\ field[p].editing
  /\ field' = [field EXCEPT ![p].editing = FALSE, ![p].checking = Unknown]
  /\ UNCHANGED <<open, cover, picks, defaults, ownBundles, submitting, replies, creates, choice>>

\* Leaving the overlay with the bundles it was opened with changes nothing.
PickBundles ==
  /\ open /\ cover = "bundles"
  /\ cover' = "none"
  /\ ownBundles' \in {ownBundles, TRUE}
  /\ UNCHANGED <<open, picks, field, defaults, submitting, replies, creates, choice>>

SubmitForm ==
  /\ OnPage /\ ~submitting
  /\ picks # <<>> /\ \A p \in ToSet(picks) : ~BusyRow(p)
  /\ creates < MaxCreates
  /\ submitting' = TRUE
  /\ creates' = creates + 1
  /\ UNCHANGED <<open, cover, picks, field, defaults, ownBundles, replies, choice>>

-----------------------------------------------------------------------------
(***************************************************************************)
(* Answers.  Each request brings one, perhaps of an error; one that comes  *)
(* while the form is closed is lost.                                       *)
(***************************************************************************)
FetchBranches(p) ==
  /\ p \in replies.branches
  /\ replies' = [replies EXCEPT !.branches = @ \ {p}]

CheckBranchExists(p, name) ==
  /\ <<p, name>> \in replies.checks
  /\ replies' = [replies EXCEPT !.checks = @ \ {<<p, name>>}]

FetchDefaultBundles(list) ==
  /\ list \in replies.bundles
  /\ replies' = [replies EXCEPT !.bundles = @ \ {list}]

AnswerCreate ==
  /\ creates > 0
  /\ creates' = creates - 1

\* Loaded: a branch the user picked stays, otherwise it is the default one.
BranchesLoaded(p, name) ==
  /\ FetchBranches(p)
  /\ field' = IF open /\ InRows(p)
              THEN [field EXCEPT ![p].loading = FALSE, ![p].branch = IF field[p].picked THEN @ ELSE name]
              ELSE field
  /\ UNCHANGED <<open, cover, picks, defaults, ownBundles, submitting, creates, choice>>

\* Mutant of Awaits: any answer about the branch of a row that waits for one.
AwaitsAny(p, name) == InRows(p) /\ field[p].checking # Unknown

Awaits(p, name) == InRows(p) /\ field[p].checking = name

\* Checked: the branch exists, or it does not, or the request failed.
BranchChecked(p, name) ==
  /\ CheckBranchExists(p, name)
  /\ IF open /\ Awaits(p, name)
     THEN \/ Settle(p, name) /\ choice' = [choice EXCEPT ![p] = field[p].checking]
          \/ field' = [field EXCEPT ![p].checking = Unknown] /\ UNCHANGED choice
     ELSE UNCHANGED <<field, choice>>
  /\ UNCHANGED <<open, cover, picks, defaults, ownBundles, submitting, creates>>

\* DefaultBundlesLoadedMsg; it may bring an error.
DefaultsLoaded(list) ==
  /\ FetchDefaultBundles(list)
  /\ defaults' \in {defaults} \cup (IF open /\ ~ownBundles /\ list = picks THEN {list} ELSE {})
  /\ UNCHANGED <<open, cover, picks, field, ownBundles, submitting, creates, choice>>

\* SessionCreatedMsg leads to another view, whichever form asked for the session.
SessionCreated ==
  /\ AnswerCreate
  /\ open' = FALSE
  /\ submitting' = IF open THEN FALSE ELSE submitting
  /\ UNCHANGED <<cover, picks, field, defaults, ownBundles, replies, choice>>

\* ErrMsg, of the creation or of any other request of the picker.
SomethingFails ==
  /\ open
  /\ submitting' = FALSE
  /\ AnswerCreate \/ UNCHANGED creates
  /\ UNCHANGED <<open, cover, picks, field, defaults, ownBundles, replies, choice>>

-----------------------------------------------------------------------------
PickLists == UNION {SetToSeqs(chosen) : chosen \in SUBSET Places} \ {<<>>}

FormUser ==
  \/ OpenForm \/ Cancel \/ CloseOverlay \/ PickBundles \/ SubmitForm
  \/ \E o \in {"workspaces", "branch", "bundles"} : OpenOverlay(o)
  \/ \E list \in PickLists : PickWorkspaces(list)
  \/ \E p \in Places : StartManual(p) \/ LeaveManual(p)
  \/ \E p \in Places, name \in BranchNames : PickBranch(p, name) \/ EnterName(p, name)

FormAnswers ==
  \/ \E p \in Places, name \in BranchNames : BranchesLoaded(p, name) \/ BranchChecked(p, name)
  \/ \E list \in PickLists : DefaultsLoaded(list)
  \/ SessionCreated \/ SomethingFails

FormNext == FormUser \/ FormAnswers
FormSpec == FormInit /\ [][FormNext]_formVars

-----------------------------------------------------------------------------
(***************************************************************************)
(* Properties.                                                             *)
(***************************************************************************)
\* What the form would send is what the user sees and chose last: the default bundles are
\* those of the workspaces that are picked now, in their order, and a branch the user
\* settled on, by picking it or by entering a name, stays, whichever answers to earlier
\* picks, entries and forms still come.
FormFollowsUser ==
  open =>
    /\ ~ownBundles /\ defaults # Unknown => defaults = picks
    /\ \A p \in ToSet(picks) : choice[p] # Unknown => field[p].branch = choice[p]
=============================================================================
