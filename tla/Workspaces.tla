----------------------------- MODULE Workspaces -----------------------------
(***************************************************************************)
(* Workspaces: their rows, their directories, and the two operations that  *)
(* run for minutes in the background, cloning a repository and migrating   *)
(* one to a bare clone (workspaceservice.go, workspacestore.go,            *)
(* baremigration.go, gitcli.go).                                           *)
(*                                                                         *)
(* A request starts an operation in a slot; it loads the row when it ends  *)
(* and writes it whole.  So do Touch, LinkExistingToLeader and the job     *)
(* workspace.repos: the writer of this module.                             *)
(***************************************************************************)
EXTENDS Naturals, FiniteSets, SequencesExt

CONSTANTS
  Folders,    \* directories under the configured root
  Slots,      \* operations that run at the same time
  MaxSpaces   \* bound: workspaces that are ever added

ASSUME FoldersAreFinite == IsFiniteSet(Folders) /\ "none" \notin Folders
ASSUME MaxSpacesIsNatural == MaxSpaces \in Nat

Spaces == 1 .. MaxSpaces
Busy   == {"cloning", "migrating"}

VARIABLES
  space,     \* the rows of the workspaces
  spaces,    \* the number given last to a row
  dirs,      \* the directories: "none", "tree", "partial" or "bare"
  backup,    \* the directories a migration moves its tree to
  task,      \* the operation in each slot: its kind, place, row and directory
  lines,     \* the rows with a line of progress in memory
  writer,    \* a handler that has loaded a row and will write it
  deserted,  \* history: rows that a handler's old copy made busy again
  work,      \* history: trees with the user's work that each directory and its backup should hold
  late       \* history: directories that were filled while a clone into them was under way

keptVars  == <<work, late>>
spaceVars == <<space, spaces, dirs, backup, task, lines, writer, deserted, keptVars>>

NoSpace == [path |-> "none", status |-> "none", git |-> FALSE, bare |-> FALSE]
NoOp    == [kind |-> "none", at |-> "none", id |-> 0, path |-> "none"]
NoCopy  == [id |-> 0, copy |-> NoSpace]

Trees(f) == (IF dirs[f] = "tree" THEN 1 ELSE 0) + (IF backup[f] = "tree" THEN 1 ELSE 0)

SpaceInit ==
  /\ space = [i \in Spaces |-> NoSpace]
  /\ spaces = 0
  /\ dirs \in [Folders -> {"none", "tree"}]
  /\ backup = [f \in Folders |-> "none"]
  /\ task = [o \in Slots |-> NoOp]
  /\ lines = {}
  /\ writer = NoCopy
  /\ deserted = {}
  /\ work = [f \in Folders |-> Trees(f)]
  /\ late = {}

-----------------------------------------------------------------------------
(***************************************************************************)
(* The store: paths are unique, and a row that is gone is not written.     *)
(***************************************************************************)
Rows      == {i \in Spaces : space[i].status # "none"}
RowAtPath(f) == {i \in Rows : space[i].path = f}

AddSpace(row) ==
  /\ RowAtPath(row.path) = {} /\ spaces + 1 \in Spaces
  /\ spaces' = spaces + 1
  /\ space' = [space EXCEPT ![spaces + 1] = row]

\* Any write that is not of an old copy ends what an old copy did.
UpdateSpace(i, row) ==
  /\ space' = [space EXCEPT ![i] = row]
  /\ deserted' = deserted \ {i}

AtWork(i) == \E o \in Slots : task[o].id = i

-----------------------------------------------------------------------------
(***************************************************************************)
(* Requests.                                                               *)
(***************************************************************************)
\* detectRepoKind.
IsGit(f)  == dirs[f] \in {"tree", "bare"}
IsBare(f) == dirs[f] = "bare"

\* AddWorkspace of a directory; one that is no repository is taken back.
AddWorkspaceAt(f) ==
  /\ IsGit(f)
  /\ AddSpace([path |-> f, status |-> "ready", git |-> TRUE, bare |-> IsBare(f)])
  /\ UNCHANGED <<dirs, backup, task, lines, writer, deserted, keptVars>>

\* AddWorkspaceRoot: every directory without a row gets one.
Untracked == SetToSeq({f \in Folders : dirs[f] # "none" /\ RowAtPath(f) = {}})
Found(f)  == [path |-> f, status |-> "ready", git |-> IsGit(f), bare |-> IsBare(f)]

AddWorkspaceRoot ==
  /\ Untracked # <<>> /\ spaces + Len(Untracked) \in Spaces
  /\ spaces' = spaces + Len(Untracked)
  /\ space' = [i \in Spaces |-> IF i \in spaces + 1 .. spaces' THEN Found(Untracked[i - spaces]) ELSE space[i]]
  /\ UNCHANGED <<dirs, backup, task, lines, writer, deserted, keptVars>>

DeleteWorkspace(i) ==
  /\ i \in Rows
  /\ space' = [space EXCEPT ![i] = NoSpace]
  /\ UNCHANGED <<spaces, dirs, backup, task, lines, writer, deserted, keptVars>>

\* Mutant of StartClone: the target is looked up among the rows only.
StartCloneAnyway(o, f) ==
  /\ task[o] = NoOp
  /\ AddSpace([path |-> f, status |-> "cloning", git |-> FALSE, bare |-> FALSE])
  /\ task' = [task EXCEPT ![o] = [kind |-> "clone", at |-> "start", id |-> spaces', path |-> f]]
  /\ UNCHANGED <<dirs, backup, lines, writer, deserted, keptVars>>

\* StartClone: the target must not exist, in the file system and among the rows.
StartClone(o, f) ==
  /\ task[o] = NoOp
  /\ dirs[f] = "none"
  /\ AddSpace([path |-> f, status |-> "cloning", git |-> FALSE, bare |-> FALSE])
  /\ task' = [task EXCEPT ![o] = [kind |-> "clone", at |-> "start", id |-> spaces', path |-> f]]
  /\ UNCHANGED <<dirs, backup, lines, writer, deserted, keptVars>>

\* The handler of a migration looks at the row, and only then BeginMigration loads and
\* writes it; nothing keeps two of them apart.
AskMigration(o, i) ==
  /\ task[o] = NoOp
  /\ i \in Rows /\ space[i].git /\ ~space[i].bare
  /\ task' = [task EXCEPT ![o] = [kind |-> "migrate", at |-> "begin", id |-> i, path |-> space[i].path]]
  /\ UNCHANGED <<space, spaces, dirs, backup, lines, writer, deserted, keptVars>>

BeginMigration(o) ==
  LET i == task[o].id
  IN /\ task[o].at = "begin"
     /\ IF i \in Rows
        THEN /\ UpdateSpace(i, [space[i] EXCEPT !.status = "migrating"])
             /\ task' = [task EXCEPT ![o].at = "start"]
        ELSE task' = [task EXCEPT ![o] = NoOp] /\ UNCHANGED <<space, deserted>>
     /\ UNCHANGED <<spaces, dirs, backup, lines, writer, keptVars>>

\* A clone into f that has yet to look at the directory, or to remove it.
ClonedInto(f) ==
  \E o \in Slots : task[o].kind = "clone" /\ task[o].path = f /\ task[o].at \in {"start", "running", "remove"}

\* The user, or a program of the user's, puts a tree where no directory is: also where
\* StartClone has just found none.
UserFills(f) ==
  /\ dirs[f] = "none"
  /\ dirs' = [dirs EXCEPT ![f] = "tree"]
  /\ work' = [work EXCEPT ![f] = Trees(f) + 1]
  /\ late' = IF ClonedInto(f) THEN late \cup {f} ELSE late \ {f}
  /\ UNCHANGED <<space, spaces, backup, task, lines, writer, deserted>>

-----------------------------------------------------------------------------
(***************************************************************************)
(* The background.  An operation that fails or runs out of time goes on to *)
(* "failed", one that succeeds to "finalize".                              *)
(***************************************************************************)
Goes(o, place) == task' = [task EXCEPT ![o].at = place]

\* cloneBareWorkspace makes the directory and clones into it; it refuses one that has
\* got files since StartClone looked.
CloneBegins(o) ==
  LET f == task[o].path
  IN /\ task[o].kind = "clone" /\ task[o].at = "start"
     /\ IF dirs[f] = "none"
        THEN Goes(o, "running") /\ dirs' = [dirs EXCEPT ![f] = "partial"]
        ELSE Goes(o, "remove") /\ UNCHANGED dirs
     /\ UNCHANGED <<space, spaces, backup, lines, writer, deserted, keptVars>>

\* A line of progress.
Progresses(o) ==
  /\ task[o].at = "running"
  /\ lines' = lines \cup {task[o].id}
  /\ UNCHANGED <<space, spaces, dirs, backup, task, writer, deserted, keptVars>>

CloneEnds(o) ==
  LET f == task[o].path
  IN /\ task[o].kind = "clone" /\ task[o].at = "running"
     /\ \/ dirs[f] = "partial" /\ Goes(o, "finalize") /\ dirs' = [dirs EXCEPT ![f] = "bare"]
        \/ Goes(o, "remove") /\ dirs' = [dirs EXCEPT ![f] = "none"]
     /\ UNCHANGED <<space, spaces, backup, lines, writer, deserted, keptVars>>

\* StartClone removes the target of a clone that failed once more, and that of one that
\* was refused, with the files for which it was.
CloneRemoves(o) ==
  /\ task[o].at = "remove"
  /\ dirs' = [dirs EXCEPT ![task[o].path] = "none"]
  /\ Goes(o, "failed")
  /\ UNCHANGED <<space, spaces, backup, lines, writer, deserted, keptVars>>

\* Mutant of MigrationMoves: a backup that is there is replaced.
MigrationMovesAnyway(o) ==
  LET f == task[o].path
  IN /\ task[o].kind = "migrate" /\ task[o].at = "start"
     /\ dirs[f] # "none"
     /\ backup' = [backup EXCEPT ![f] = dirs[f]]
     /\ dirs' = [dirs EXCEPT ![f] = "partial"]
     /\ Goes(o, "running")
     /\ UNCHANGED <<space, spaces, lines, writer, deserted, keptVars>>

\* The records of the worktrees are deleted and the tree is moved aside, unless there is
\* a backup already, or no tree, or a call fails.
MigrationMoves(o) ==
  LET f == task[o].path
  IN /\ task[o].kind = "migrate" /\ task[o].at = "start"
     /\ backup[f] = "none" /\ dirs[f] = "tree"
     /\ backup' = [backup EXCEPT ![f] = dirs[f]]
     /\ dirs' = [dirs EXCEPT ![f] = "partial"]
     /\ Goes(o, "running")
     /\ UNCHANGED <<space, spaces, lines, writer, deserted, keptVars>>

MigrationEnds(o) ==
  LET f == task[o].path
  IN /\ task[o].kind = "migrate" /\ task[o].at = "running"
     /\ dirs[f] = "partial"
     /\ dirs' = [dirs EXCEPT ![f] = "bare"]
     /\ Goes(o, "finalize")
     /\ UNCHANGED <<space, spaces, backup, lines, writer, deserted, keptVars>>

\* A migration that fails leaves everything where it is.
MigrationFails(o) ==
  /\ task[o].kind = "migrate" /\ task[o].at \in {"start", "running"}
  /\ Goes(o, "failed")
  /\ UNCHANGED <<space, spaces, dirs, backup, lines, writer, deserted, keptVars>>

\* Mutant of FinalizeFails: the error is not passed on.
FinalizeGivesUp(o) ==
  /\ task[o].at = "finalize"
  /\ lines' = lines \ {task[o].id}
  /\ task' = [task EXCEPT ![o] = NoOp]
  /\ UNCHANGED <<space, spaces, dirs, backup, writer, deserted, keptVars>>

\* FinalizeBareWorkspace: the row is loaded and, after the repository was looked up, written;
\* a row that is gone, or deleted meanwhile, is an error.
FinalizeBareWorkspace(o) ==
  LET i == task[o].id
  IN /\ task[o].at = "finalize"
     /\ lines' = lines \ {i}
     /\ IF i \in Rows
        THEN /\ UpdateSpace(i, [space[i] EXCEPT !.status = "ready", !.git = TRUE, !.bare = TRUE])
             /\ task' = [task EXCEPT ![o] = NoOp]
        ELSE Goes(o, "failed") /\ UNCHANGED <<space, deserted>>
     /\ UNCHANGED <<spaces, dirs, backup, writer, keptVars>>

FinalizeFails(o) ==
  /\ task[o].at = "finalize"
  /\ lines' = lines \ {task[o].id}
  /\ Goes(o, "failed")
  /\ UNCHANGED <<space, spaces, dirs, backup, writer, deserted, keptVars>>

FailBareOperation(o) ==
  LET i == task[o].id
  IN /\ task[o].at = "failed"
     /\ lines' = lines \ {i}
     /\ IF i \in Rows THEN UpdateSpace(i, [space[i] EXCEPT !.status = "failed"])
        ELSE UNCHANGED <<space, deserted>>
     /\ task' = [task EXCEPT ![o] = NoOp]
     /\ UNCHANGED <<spaces, dirs, backup, writer, keptVars>>

-----------------------------------------------------------------------------
(***************************************************************************)
(* Whole rows from old copies, and restarts.                               *)
(***************************************************************************)
TouchLoad(i) ==
  /\ writer = NoCopy
  /\ i \in Rows
  /\ writer' = [id |-> i, copy |-> space[i]]
  /\ UNCHANGED <<space, spaces, dirs, backup, task, lines, deserted, keptVars>>

TouchWrite ==
  LET i == writer.id
  IN /\ writer # NoCopy
     /\ space' = IF i \in Rows THEN [space EXCEPT ![i] = writer.copy] ELSE space
     /\ deserted' = IF i \in Rows /\ writer.copy.status \in Busy /\ ~AtWork(i)
                    THEN deserted \cup {i} ELSE deserted
     /\ writer' = NoCopy
     /\ UNCHANGED <<spaces, dirs, backup, task, lines, keptVars>>

\* OnAppStart of the store, then of the service: the directories of the root are looked at
\* again, with or without a row; rows that are busy have lost their operation.  What
\* trees are left where one came late counts from then on.
Rediscovered(row) ==
  IF dirs[row.path] # "none" THEN [row EXCEPT !.git = IsGit(row.path), !.bare = IsBare(row.path)] ELSE row
CutShort(row) == IF row.status \in Busy THEN [row EXCEPT !.status = "failed"] ELSE row

RestartSpaces ==
  /\ spaces + Len(Untracked) \in 0 .. MaxSpaces
  /\ spaces' = spaces + Len(Untracked)
  /\ space' = [i \in Spaces |->
       IF i \in Rows THEN CutShort(Rediscovered(space[i]))
       ELSE IF i \in spaces + 1 .. spaces' THEN Found(Untracked[i - spaces]) ELSE NoSpace]
  /\ task' = [o \in Slots |-> NoOp]
  /\ lines' = {}
  /\ writer' = NoCopy
  /\ deserted' = {}
  /\ work' = [f \in Folders |-> IF f \in late THEN Trees(f) ELSE work[f]]
  /\ late' = {}
  /\ UNCHANGED <<dirs, backup>>

-----------------------------------------------------------------------------
SpaceRequests ==
  \/ \E f \in Folders : AddWorkspaceAt(f) \/ UserFills(f)
  \/ \E i \in Spaces : DeleteWorkspace(i) \/ TouchLoad(i)
  \/ \E o \in Slots, f \in Folders : StartClone(o, f)
  \/ \E o \in Slots, i \in Spaces : AskMigration(o, i)
  \/ AddWorkspaceRoot \/ RestartSpaces

SpaceWork ==
  \/ \E o \in Slots :
       \/ BeginMigration(o) \/ CloneBegins(o) \/ Progresses(o) \/ CloneEnds(o) \/ CloneRemoves(o)
       \/ MigrationMoves(o) \/ MigrationEnds(o) \/ MigrationFails(o)
       \/ FinalizeBareWorkspace(o) \/ FinalizeFails(o) \/ FailBareOperation(o)
  \/ TouchWrite

SpaceNext == SpaceRequests \/ SpaceWork
SpaceSpec == SpaceInit /\ [][SpaceNext]_spaceVars

-----------------------------------------------------------------------------
(***************************************************************************)
(* Properties.                                                             *)
(***************************************************************************)
\* A workspace that is shown as being cloned or migrated, or with a line of progress, has
\* an operation that is still to settle it, through restarts, deletions and second requests
\* for the same workspace; unless a handler wrote an old copy of its row back.
BusyIsAtWork ==
  /\ \A i \in Rows : space[i].status \in Busy => AtWork(i) \/ i \in deserted
  /\ \A i \in lines : AtWork(i)

\* A tree with the user's work is never removed: it stays, or lies in the backup, whatever
\* clones and migrations of its directory fail, overlap, are interrupted or asked for
\* again.  Excepted is a tree that came while a clone into its directory was under way:
\* StartClone looked too early to see it (workspaceservice.go:221), the clone is refused
\* because of it or fails, and :255 removes it, which CloneKeepsFiles is about.
WorkIsKept == \A f \in Folders \ late : Trees(f) >= work[f]

\* "rejected clone must not delete user files" (gitcli_test.go:391): so cloneBareWorkspace
\* does, but StartClone, which it returns to, removes the target (workspaceservice.go:255).
CloneKeepsFiles == \A f \in Folders : Trees(f) >= work[f]
=============================================================================
