----------------------------- MODULE GitRecords -----------------------------
(***************************************************************************)
(* The rows about the branches and worktrees of a repository, beside the   *)
(* repository itself: gitservice.go, worktreestore.go, branchstore.go and, *)
(* for the branches a session has worked on, sessionbranchsync.go.         *)
(*                                                                         *)
(* People check branches out, rename and delete them with git; a hook      *)
(* reports a checkout, or not.  The jobs git.branches and session.branches,*)
(* the hook, activations and deletions read rows, look at the repository   *)
(* and write whole rows later, without a lock.                             *)
(*                                                                         *)
(* A session has one worktree; its directory is named by the session, and  *)
(* a session that is made again gets the same directory.                   *)
(***************************************************************************)
EXTENDS Naturals, FiniteSets

CONSTANTS
  GitSessions,  \* names of sessions, and of the directories of their worktrees
  Branches,     \* names of branches
  Main,         \* the default branch
  NoTree,       \* there is no directory
  Detached,     \* a directory on no branch
  MaxRows       \* bound: rows of worktrees that are ever added

ASSUME MainIsABranch == Main \in Branches
ASSUME NotBranches   == {NoTree, Detached} \cap Branches = {} /\ NoTree # Detached

RowNumbers == 1 .. MaxRows
Visitors   == {"job", "hook", "activate", "delete"}

VARIABLES
  refs,     \* the branches of the repository
  trees,    \* what is checked out in each directory
  known,    \* the branches that have a row
  wtRow,    \* the rows of the worktrees
  added,    \* the number given last to a row
  link,     \* session_worktrees: the row of each session, 0 when there is no session
  stage,    \* of each session: "none", "creating" or "ready"
  past,     \* session_branches
  mixed,    \* history: the sessions whose row was there before them, or was taken from them
  visit,    \* who visits sessions: its place, the rows loaded, the one at hand, the branch seen
  sync      \* the job git.branches: what is left of its list, the branch and the row it read

gitVars == <<refs, trees, known, wtRow, added, link, stage, past, mixed, visit, sync>>

NoWorktree == [path |-> NoTree, branch |-> NoTree, status |-> "none"]
NoneLoaded == [session |-> NoTree, row |-> 0, copy |-> NoWorktree]
Away       == [at |-> "idle", todo |-> {}, cur |-> NoneLoaded, name |-> NoTree]
NoSync     == [at |-> "idle", todo |-> {}, branch |-> NoTree, local |-> FALSE, row |-> 0, copy |-> NoWorktree]

GitInit ==
  /\ refs = {Main}
  /\ trees = [s \in GitSessions |-> NoTree]
  /\ known = {Main}
  /\ wtRow = [w \in RowNumbers |-> NoWorktree]
  /\ added = 0
  /\ link = [s \in GitSessions |-> 0]
  /\ stage = [s \in GitSessions |-> "none"]
  /\ past = [s \in GitSessions |-> {}]
  /\ mixed = {}
  /\ visit = [p \in Visitors |-> Away]
  /\ sync = NoSync

-----------------------------------------------------------------------------
(***************************************************************************)
(* The stores.  Paths and branches are unique among the rows; SaveRow writes *)
(* a whole row and adds it again when it is gone.                          *)
(***************************************************************************)
Used(rows)      == {w \in RowNumbers : rows[w].status # "none"}
RowsOf(rows, b) == {w \in Used(rows) : rows[w].branch = b}
RowOf(rows, b)  == CHOOSE w \in RowsOf(rows, b) : TRUE
Unique(rows, w, row) ==
  \A v \in Used(rows) \ {w} : rows[v].path # row.path /\ rows[v].branch # row.branch

SaveRow(rows, w, row) == IF Unique(rows, w, row) THEN [rows EXCEPT ![w] = row] ELSE rows
FindOrCreateBranch(b) == known \cup {b}
UpdateBranchID(w, b) ==
  IF w \in Used(wtRow) /\ RowsOf(wtRow, b) \subseteq {w} THEN [wtRow EXCEPT ![w].branch = b] ELSE wtRow

\* ensureWorktreeRecord: its errors are only logged.  A number is not used again, an
\* added row that is refused uses none.
EnsureRecord(rows, b, path) ==
  LET row == [path |-> path, branch |-> b, status |-> "present"]
      new == RowsOf(rows, b) = {}
      w   == IF new THEN added + 1 ELSE RowOf(rows, b)
  IN /\ w \in RowNumbers
     /\ wtRow' = SaveRow(rows, w, row)
     /\ added' = IF new /\ Unique(rows, w, row) THEN w ELSE added

-----------------------------------------------------------------------------
(***************************************************************************)
(* git.                                                                    *)
(***************************************************************************)
CheckedOut(b) == \E s \in GitSessions : trees[s] = b
Present(path) == path \in GitSessions /\ trees[path] # NoTree
HasBranch(b)  == b \in refs
CurrentBranch(path) == IF Present(path) THEN trees[path] ELSE Detached
DefaultBranch == Main
IsDefault(b)  == b = DefaultBranch
\* fetch of a branch that is not here.
Fetched(b)    == refs \cup {b}

\* git worktree add of a new branch, and of one that is there, which git refuses when the
\* branch is checked out elsewhere.
CreateWorktree(b, path) ==
  /\ ~HasBranch(b)
  /\ trees' = [trees EXCEPT ![path] = b]
  /\ refs' = refs \cup {b}
CheckoutWorktree(b, path) ==
  /\ ~CheckedOut(b)
  /\ trees' = [trees EXCEPT ![path] = b]
  /\ refs' = Fetched(b)

\* git worktree remove and git branch -D, each of which may fail; git keeps a branch that is
\* checked out.
RemoveWorktree(path) ==
  trees' \in (IF path \in GitSessions THEN {trees, [trees EXCEPT ![path] = NoTree]} ELSE {trees})
DeleteBranches(doomed) ==
  \E gone \in SUBSET {b \in doomed : \A x \in GitSessions : trees'[x] # b} : refs' = refs \ gone

\* A hook that is free takes the report; or it is lost.
Reported(path, b) ==
  \/ UNCHANGED visit
  \/ visit["hook"].at = "idle" /\ visit' = [visit EXCEPT !["hook"] =
       [Away EXCEPT !.at = "called", !.cur.session = path, !.name = b]]

\* A branch, a new one or no branch is checked out in a worktree.
UserCheckout(s, b) ==
  /\ trees[s] \notin {NoTree, b} /\ ~CheckedOut(b)
  /\ trees' = [trees EXCEPT ![s] = b]
  /\ refs' = IF b = Detached THEN refs ELSE refs \cup {b}
  /\ IF b = Detached THEN UNCHANGED visit ELSE Reported(s, b)
  /\ UNCHANGED <<added, mixed, known, wtRow, link, stage, past, sync>>

\* git branch -m: no hook runs.
UserRenames(b, c) ==
  /\ b \in refs \ {Main} /\ c \notin refs
  /\ refs' = (refs \ {b}) \cup {c}
  /\ trees' = [s \in GitSessions |-> IF trees[s] = b THEN c ELSE trees[s]]
  /\ UNCHANGED <<added, mixed, known, wtRow, link, stage, past, visit, sync>>

UserDeletesBranch(b) ==
  /\ b \in refs \ {Main} /\ ~CheckedOut(b)
  /\ refs' = refs \ {b}
  /\ UNCHANGED <<added, mixed, trees, known, wtRow, link, stage, past, visit, sync>>

UserRemovesTree(s) ==
  /\ trees[s] # NoTree
  /\ trees' = [trees EXCEPT ![s] = NoTree]
  /\ UNCHANGED <<added, mixed, refs, known, wtRow, link, stage, past, visit, sync>>

-----------------------------------------------------------------------------
(***************************************************************************)
(* Sessions are made.                                                      *)
(***************************************************************************)
\* RegisterPendingWorktree: the row of the branch is taken, whoever has it, and gets the
\* path; without one a pending row is added.
PendingNumber(b)   == IF RowsOf(wtRow, b) # {} THEN RowOf(wtRow, b) ELSE added + 1
PendingRow(b, path) ==
  IF RowsOf(wtRow, b) # {} THEN [wtRow[RowOf(wtRow, b)] EXCEPT !.path = path]
  ELSE [path |-> path, branch |-> b, status |-> "pending"]

\* eagerCreateWorktree: FindOrCreateBranch, the row and the link.  When the path is taken
\* the session is given up.
EagerCreateWorktree(s, b) ==
  LET taken == RowsOf(wtRow, b) # {}
      w     == PendingNumber(b)
      row   == PendingRow(b, s)
  IN /\ stage[s] = "none"
     /\ w \in RowNumbers
     /\ known' = FindOrCreateBranch(b)
     /\ IF Unique(wtRow, w, row)
        THEN /\ wtRow' = [wtRow EXCEPT ![w] = row]
             /\ added' = IF taken THEN added ELSE w
             /\ link' = [link EXCEPT ![s] = w]
             /\ stage' = [stage EXCEPT ![s] = "creating"]
             /\ past' = [past EXCEPT ![s] = {}]
             /\ mixed' = IF taken THEN mixed \cup {s} \cup {x \in GitSessions : link[x] = w} ELSE mixed \ {s}
        ELSE UNCHANGED <<wtRow, added, link, stage, past, mixed>>
     /\ UNCHANGED <<refs, trees, visit, sync>>

\* SetupWorktreeAt of a branch that must be new, or that is there or is fetched: an existing
\* directory is taken as it is; any call of git may fail, and then only what was written
\* before is changed.
WorktreeAt(rows, b, path, new) ==
  \/ /\ wtRow' = rows /\ UNCHANGED <<trees, added>>
     /\ refs' \in (IF new \/ Present(path) THEN {refs} ELSE {refs, Fetched(b)})
  \/ /\ Present(path) /\ (new => ~HasBranch(b))
     /\ EnsureRecord(rows, b, path)
     /\ refs' = (IF new THEN refs ELSE Fetched(b)) /\ UNCHANGED trees
  \/ /\ ~Present(path)
     /\ IF new THEN CreateWorktree(b, path) ELSE CheckoutWorktree(b, path)
     /\ EnsureRecord(rows, b, path)

\* The setup ends; it worked with the row its session is linked to.
SetupWorktree(s) ==
  LET row == wtRow[link[s]]
  IN /\ stage[s] = "creating"
     /\ IF link[s] \in Used(wtRow) THEN \E new \in BOOLEAN : WorktreeAt(wtRow, row.branch, row.path, new)
        ELSE UNCHANGED <<refs, trees, wtRow, added>>
     /\ stage' = [stage EXCEPT ![s] = "ready"]
     /\ UNCHANGED <<known, link, past, mixed, visit, sync>>

-----------------------------------------------------------------------------
(***************************************************************************)
(* Visits: each loads the rows of its sessions, and for each one that has  *)
(* moved to another branch it records both branches and repoints the row.  *)
(***************************************************************************)
Linked(s) == stage[s] # "none" /\ link[s] \in Used(wtRow)
Loaded(s) == [session |-> s, row |-> link[s], copy |-> wtRow[link[s]]]

Begin(p, place, sessions) ==
  /\ visit[p].at = "idle"
  /\ sessions # {}
  /\ visit' = [visit EXCEPT ![p] = [Away EXCEPT !.at = place, !.todo = {Loaded(s) : s \in sessions}]]
  /\ UNCHANGED <<added, mixed, refs, trees, known, wtRow, link, stage, past, sync>>

StartSessionBranches == Begin("job", "look", {s \in GitSessions : stage[s] = "ready" /\ Linked(s)})
StartActivation(s)   == stage[s] = "ready" /\ Linked(s) /\ Begin("activate", "ensure", {s})
StartDeletion(s)     == stage[s] = "ready" /\ Linked(s) /\ Begin("delete", "look", {s})

\* RecordWorktreeBranch: a session whose worktree has that path.
HookFind ==
  LET report == visit["hook"]
      found  == {s \in GitSessions : Linked(s) /\ wtRow[link[s]].path = report.cur.session}
      moved(s) == report.name # wtRow[link[s]].branch /\ ~IsDefault(report.name)
  IN /\ report.at = "called"
     /\ visit' = [visit EXCEPT !["hook"] =
          IF found = {} THEN Away
          ELSE LET s == CHOOSE x \in found : TRUE
               IN IF moved(s) THEN [report EXCEPT !.at = "record", !.cur = Loaded(s)] ELSE Away]
     /\ UNCHANGED <<added, mixed, refs, trees, known, wtRow, link, stage, past, sync>>

MarkWorktree(copy) == [copy EXCEPT !.status = IF Present(copy.path) THEN "present" ELSE "missing"]

\* ensureSessionWorktrees: the row is marked present, or marked missing and the worktree
\* made again; the copy in memory keeps its mark.
EnsureWorktree ==
  /\ visit["activate"].at = "ensure"
  /\ \E l \in visit["activate"].todo :
       LET marked == MarkWorktree(l.copy)
           rows   == IF marked = l.copy THEN wtRow ELSE SaveRow(wtRow, l.row, marked)
       IN /\ visit' = [visit EXCEPT !["activate"].at = "look", !["activate"].todo = {[l EXCEPT !.copy = marked]}]
          /\ IF marked.status = "present" THEN wtRow' = rows /\ UNCHANGED <<refs, trees, added>>
             ELSE WorktreeAt(rows, l.copy.branch, l.copy.path, FALSE)
  /\ UNCHANGED <<known, link, stage, past, mixed, sync>>

\* The next session of the visit: nothing is done unless its row was present and its
\* directory is on another branch than the row, which is not the default one.
LookAtWorktree(p) ==
  /\ visit[p].at = "look"
  /\ \E l \in visit[p].todo :
       LET name  == CurrentBranch(l.copy.path)
           moved == l.copy.status = "present" /\ name \notin {Detached, l.copy.branch} /\ ~IsDefault(name)
       IN visit' = [visit EXCEPT ![p] =
            [@ EXCEPT !.todo = visit[p].todo \ {l}, !.cur = l, !.name = name,
                      !.at = IF moved THEN "record" ELSE "next"]]
  /\ UNCHANGED <<added, mixed, refs, trees, known, wtRow, link, stage, past, sync>>

NextVisit(p) ==
  /\ visit[p].at = "next"
  /\ visit' = [visit EXCEPT ![p] = IF @.todo # {} THEN [@ EXCEPT !.at = "look"]
                                   ELSE IF p = "delete" THEN [@ EXCEPT !.at = "clean"] ELSE Away]
  /\ UNCHANGED <<added, mixed, refs, trees, known, wtRow, link, stage, past, sync>>

\* Mutant of ToRecord: only the branch the worktree is on now.
NewOnly(l, name) == {name}

\* recordBranch: FindOrCreateBranch, then both branches into session_branches, which needs
\* the session.
ToRecord(l, name) == {b \in {l.copy.branch, name} : ~IsDefault(b)}

AddPast(s, branches) == [past EXCEPT ![s] = @ \cup branches]

RecordBranch(p) ==
  LET v == visit[p]
      s == v.cur.session
  IN /\ v.at = "record"
     /\ known' = FindOrCreateBranch(v.name)
     /\ past' = IF stage[s] = "none" THEN past ELSE AddPast(s, ToRecord(v.cur, v.name))
     /\ visit' = [visit EXCEPT ![p].at = IF stage[s] = "none" THEN "next" ELSE "repoint"]
     /\ UNCHANGED <<added, mixed, refs, trees, wtRow, link, stage, sync>>

\* RepointWorktree: a branch that has another row stays where it is.
RepointWorktree(p) ==
  /\ visit[p].at = "repoint"
  /\ wtRow' = UpdateBranchID(visit[p].cur.row, visit[p].name)
  /\ visit' = [visit EXCEPT ![p].at = "next"]
  /\ UNCHANGED <<added, mixed, refs, trees, known, link, stage, past, sync>>

\* cleanupSessionResources and HardDelete: the directory, the branch of the row and those
\* past branches that are pushed or merged; then the session.
PastDeletable(s) == {b \in past[s] : HasBranch(b) /\ ~IsDefault(b)}

CleanupSession ==
  LET s == visit["delete"].cur.session
      row == wtRow[link[s]]
  IN /\ visit["delete"].at = "clean"
     /\ RemoveWorktree(row.path)
     /\ DeleteBranches({row.branch} \cup PastDeletable(s))
     /\ stage' = [stage EXCEPT ![s] = "none"]
     /\ past' = [past EXCEPT ![s] = {}]
     /\ visit' = [visit EXCEPT !["delete"] = [Away EXCEPT !.at = "row", !.cur.row = link[s]]]
     /\ link' = [link EXCEPT ![s] = 0]
     /\ UNCHANGED <<added, mixed, known, wtRow, sync>>

\* A row that another session is linked to cannot be deleted.
DeleteWorktree ==
  LET w == visit["delete"].cur.row
  IN /\ visit["delete"].at = "row"
     /\ wtRow' = IF \E s \in GitSessions : link[s] = w THEN wtRow ELSE [wtRow EXCEPT ![w] = NoWorktree]
     /\ visit' = [visit EXCEPT !["delete"] = Away]
     /\ UNCHANGED <<added, mixed, refs, trees, known, link, stage, past, sync>>

-----------------------------------------------------------------------------
(***************************************************************************)
(* The job git.branches.                                                   *)
(***************************************************************************)
SyncBranches ==
  /\ sync.at = "idle"
  /\ sync' = [NoSync EXCEPT !.at = "list", !.todo = known]
  /\ UNCHANGED <<added, mixed, refs, trees, known, wtRow, link, stage, past, visit>>

\* SyncBranch asks git for the branch, here and on the remote.
SyncLook ==
  /\ sync.at = "list"
  /\ IF sync.todo = {} THEN sync' = NoSync
     ELSE \E b \in sync.todo :
       sync' = [sync EXCEPT !.at = "look", !.todo = @ \ {b}, !.branch = b, !.local = HasBranch(b)]
  /\ UNCHANGED <<added, mixed, refs, trees, known, wtRow, link, stage, past, visit>>

\* With the answers it reads the row of the branch and looks for the directory.  A branch
\* without a row is looked for at its default path, which is no session's directory.
SyncRead ==
  LET found == RowsOf(wtRow, sync.branch)
      w     == RowOf(wtRow, sync.branch)
      seen  == IF sync.local /\ Present(wtRow[w].path) THEN "present" ELSE "missing"
  IN /\ sync.at = "look"
     /\ sync' = IF found = {} \/ wtRow[w].status = seen THEN [sync EXCEPT !.at = "list"]
                ELSE [sync EXCEPT !.at = "write", !.row = w, !.copy = [wtRow[w] EXCEPT !.status = seen]]
     /\ UNCHANGED <<added, mixed, refs, trees, known, wtRow, link, stage, past, visit>>

SyncWrite ==
  /\ sync.at = "write"
  /\ wtRow' = SaveRow(wtRow, sync.row, sync.copy)
  /\ sync' = [sync EXCEPT !.at = "list"]
  /\ UNCHANGED <<added, mixed, refs, trees, known, link, stage, past, visit>>

-----------------------------------------------------------------------------
\* The daemon stops and starts; a session that was being made or deleted is as it was.
RestartGit ==
  /\ sync.at # "idle" \/ \E p \in Visitors : visit[p].at # "idle"
  /\ visit' = [p \in Visitors |-> Away]
  /\ sync' = NoSync
  /\ UNCHANGED <<added, mixed, refs, trees, known, wtRow, link, stage, past>>

GitUsers ==
  \/ \E s \in GitSessions, b \in Branches \cup {Detached} : UserCheckout(s, b)
  \/ \E b, c \in Branches : UserRenames(b, c)
  \/ \E b \in Branches : UserDeletesBranch(b)
  \/ \E s \in GitSessions : UserRemovesTree(s)
  \/ \E s \in GitSessions, b \in Branches : EagerCreateWorktree(s, b)
  \/ \E s \in GitSessions : StartActivation(s) \/ StartDeletion(s)
  \/ RestartGit

\* The scheduler starts a job.
GitJobsStart == StartSessionBranches \/ SyncBranches

GitDaemon ==
  \/ \E s \in GitSessions : SetupWorktree(s)
  \/ HookFind \/ EnsureWorktree \/ CleanupSession \/ DeleteWorktree
  \/ \E p \in Visitors : LookAtWorktree(p) \/ NextVisit(p) \/ RecordBranch(p) \/ RepointWorktree(p)
  \/ SyncLook \/ SyncRead \/ SyncWrite

GitNext == GitUsers \/ GitJobsStart \/ GitDaemon
GitSpec == GitInit /\ [][GitNext]_gitVars

-----------------------------------------------------------------------------
(***************************************************************************)
(* Properties.                                                             *)
(***************************************************************************)
\* The row of a session's worktree leaves a branch, whoever writes it and from however old
\* a copy, only when the branch is among the past branches of the session: its pull
\* requests are still shown, and it is deleted with the session.  Sessions made on a
\* row that was there, and the one it belonged to, are left out: the hook records a checkout
\* for one of them only.
LeavesUnremembered(s) ==
  LET w == link[s]
  IN /\ w \in Used(wtRow) /\ link'[s] = w /\ s \notin mixed
     /\ wtRow'[w].status # "none"
     /\ wtRow'[w].branch # wtRow[w].branch
     /\ wtRow[w].branch \notin past'[s] \cup {Main}
BranchesAreRemembered == [][\A s \in GitSessions : ~LeavesUnremembered(s)]_gitVars
=============================================================================
