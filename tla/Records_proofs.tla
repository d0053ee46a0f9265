--------------------------- MODULE Records_proofs ---------------------------
(***************************************************************************)
(* Proofs about Workspaces for any directories, operations and number of   *)
(* workspaces, about PRActivity for any items, heads and check runs, about *)
(* BundleFiles for any catalog and any number of writers, and about        *)
(* GitRecords for any branches and sessions.                               *)
(*                                                                         *)
(* Both properties of the workspaces need a strengthening that says what   *)
(* an operation under way still has to do: it removes the line of progress *)
(* it wrote (LinesOwned), and no clone is under way in a directory that    *)
(* holds the user's tree (Kept).                                           *)
(*                                                                         *)
(* That news are told once needs three places to agree: the marks of the   *)
(* row, those of the job's copy of it, and what the job noted in between   *)
(* (CopyInv, NewsInv, ToldInv).  Everything below the marks of the row was *)
(* told or is about to be, everything between the two marks is noted, and  *)
(* a mark is the number of an item that was listed.                        *)
(*                                                                         *)
(* That the files of a session follow its row needs what a writer knows    *)
(* that nobody has met (Undisturbed): how much of its work is done, and    *)
(* that what it has noted is still what its file should become.            *)
(*                                                                         *)
(* That a session's row leaves no branch unnoted is about the old copies   *)
(* of rows that the jobs, the hook and the activations write back.  They   *)
(* do no harm because of a copy's branch: it is the one the row still has, *)
(* or it and the row's are both noted by then (Recalls).  Every step keeps *)
(* that (Steady): a row's number is not used again, and only a row that    *)
(* one session has to itself is spoken of.                                 *)
(***************************************************************************)
EXTENDS Workspaces, PRActivity, BundleFiles, GitRecords, FiniteSetTheorems, TLAPS

Contents  == {"none", "tree", "partial", "bare"}
OpType    == [kind : {"none", "clone", "migrate"},
              at : {"none", "start", "begin", "running", "remove", "finalize", "failed"},
              id : Nat, path : Folders \cup {"none"}]
SpaceType == [path : Folders \cup {"none"}, status : Busy \cup {"none", "ready", "failed"},
              git : BOOLEAN, bare : BOOLEAN]

RowsOK == space \in [Spaces -> SpaceType] /\ spaces \in 0 .. MaxSpaces
OpsOK  == task \in [Slots -> OpType] /\ lines \subseteq Nat
DiskOK == dirs \in [Folders -> Contents] /\ backup \in [Folders -> Contents] /\ work \in [Folders -> Nat]
CopyOK == writer \in [id : Nat, copy : SpaceType] /\ deserted \subseteq Nat

TypeInv == RowsOK /\ OpsOK /\ DiskOK /\ CopyOK
-----------------------------------------------------------------------------
(***************************************************************************)
(* The directories without a row, as a sequence.                           *)
(***************************************************************************)
LEMMA SetToSeqOf ==
  ASSUME NEW S, IsFiniteSet(S)
  PROVE  SetToSeq(S) \in Seq(S)
<1>1. PICK n \in Nat : ExistsBijection(1 .. n, S)
  BY FS_NatBijection
<1>2. Cardinality(S) = n
  BY <1>1, FS_CountingElements
<1>3. PICK f \in Bijection(1 .. n, S) : TRUE
  BY <1>1 DEF ExistsBijection
<1>4. f \in [1 .. n -> S] /\ IsInjective(f)
  BY <1>3 DEF Bijection, Injection, IsInjective
<1>5. SetToSeq(S) \in [1 .. n -> S]
  BY <1>2, <1>4 DEF SetToSeq
<1> QED
  BY <1>5

LEMMA UntrackedOK == Untracked \in Seq(Folders)
<1> DEFINE S == {f \in Folders : dirs[f] # "none" /\ RowAtPath(f) = {}}
<1>1. IsFiniteSet(S)
  BY FS_Subset, FoldersAreFinite
<1>2. SetToSeq(S) \in Seq(S)
  BY <1>1, SetToSeqOf
<1> QED
  BY <1>2 DEF Untracked

LEMMA FoundOK ==
  ASSUME NEW f \in Folders
  PROVE  Found(f) \in SpaceType /\ Found(f).status = "ready"
BY DEF Found, SpaceType, IsGit, IsBare
-----------------------------------------------------------------------------
(***************************************************************************)
(* Types.                                                                  *)
(***************************************************************************)
LEMMA TypeInit == SpaceInit => TypeInv
BY MaxSpacesIsNatural DEF SpaceInit, TypeInv, RowsOK, OpsOK, DiskOK, CopyOK, NoSpace, NoOp, NoCopy, SpaceType,
   OpType, Contents, Spaces, Busy, Trees

LEMMA RequestTypes ==
  ASSUME TypeInv, SpaceRequests
  PROVE  TypeInv'
<1> USE DEF TypeInv, RowsOK, OpsOK, DiskOK, CopyOK
<1>1. ASSUME NEW f \in Folders, AddWorkspaceAt(f) PROVE TypeInv'
  BY <1>1 DEF AddWorkspaceAt, AddSpace, IsBare, SpaceType, Spaces, keptVars
<1>2. ASSUME NEW i \in Spaces, DeleteWorkspace(i) PROVE TypeInv'
  BY <1>2 DEF DeleteWorkspace, NoSpace, SpaceType, keptVars
<1>3. ASSUME NEW i \in Spaces, TouchLoad(i) PROVE TypeInv'
  BY <1>3 DEF TouchLoad, Spaces, keptVars
<1>4. ASSUME NEW o \in Slots, NEW f \in Folders, StartClone(o, f) PROVE TypeInv'
  BY <1>4 DEF StartClone, AddSpace, SpaceType, OpType, Spaces, Busy, keptVars
<1>5. ASSUME NEW o \in Slots, NEW i \in Spaces, AskMigration(o, i) PROVE TypeInv'
  <2>1. space[i].path \in Folders \cup {"none"}
    BY DEF SpaceType
  <2> QED
    BY <1>5, <2>1 DEF AskMigration, OpType, Spaces, keptVars
<1>6. ASSUME AddWorkspaceRoot PROVE TypeInv'
  <2>1. spaces' \in 0 .. MaxSpaces /\ UNCHANGED <<dirs, backup, task, lines, writer, deserted, work>>
    BY <1>6 DEF AddWorkspaceRoot, Spaces, keptVars
  <2>2. ASSUME NEW i \in spaces + 1 .. spaces' PROVE Found(Untracked[i - spaces]) \in SpaceType
    <3>1. i - spaces \in 1 .. Len(Untracked)
      BY <1>6, <2>1, UntrackedOK DEF AddWorkspaceRoot
    <3> QED
      BY <3>1, UntrackedOK, FoundOK
  <2> QED
    BY <1>6, <2>1, <2>2 DEF AddWorkspaceRoot
<1>7. ASSUME RestartSpaces PROVE TypeInv'
  <2>1. spaces' \in 0 .. MaxSpaces /\ UNCHANGED <<dirs, backup>> /\ work' \in [Folders -> Nat]
    BY <1>7 DEF RestartSpaces, Trees
  <2>2. ASSUME NEW i \in spaces + 1 .. spaces' PROVE Found(Untracked[i - spaces]) \in SpaceType
    <3>1. i - spaces \in 1 .. Len(Untracked)
      BY <1>7, <2>1, UntrackedOK DEF RestartSpaces
    <3> QED
      BY <3>1, UntrackedOK, FoundOK
  <2>3. ASSUME NEW r \in SpaceType PROVE CutShort(Rediscovered(r)) \in SpaceType
    <3>1. Rediscovered(r) \in SpaceType
      <4>1. ASSUME NEW git \in BOOLEAN, NEW bare \in BOOLEAN
            PROVE  [r EXCEPT !.git = git, !.bare = bare] \in SpaceType
        BY DEF SpaceType
      <4> QED
        <5>1. IsGit(r.path) \in BOOLEAN /\ IsBare(r.path) \in BOOLEAN
          BY DEF IsGit, IsBare
        <5> QED
          BY <4>1, <5>1 DEF Rediscovered
    <3>2. ASSUME NEW q \in SpaceType PROVE CutShort(q) \in SpaceType
      BY DEF CutShort, SpaceType
    <3> QED
      BY <3>1, <3>2
  <2>4. space' \in [Spaces -> SpaceType]
    BY <1>7, <2>2, <2>3 DEF RestartSpaces, NoSpace, SpaceType
  <2>5. task' \in [Slots -> OpType] /\ lines' \subseteq Nat /\ deserted' \subseteq Nat
    BY <1>7 DEF RestartSpaces, NoOp, OpType
  <2>6. writer' \in [id : Nat, copy : SpaceType]
    BY <1>7 DEF RestartSpaces, NoCopy, NoSpace, SpaceType
  <2> QED
    BY <2>1, <2>4, <2>5, <2>6
<1>8. ASSUME NEW f \in Folders, UserFills(f) PROVE TypeInv'
  BY <1>8 DEF UserFills, Trees, Contents
<1> QED
  BY <1>1, <1>2, <1>3, <1>4, <1>5, <1>6, <1>7, <1>8 DEF SpaceRequests

LEMMA WorkTypes ==
  ASSUME TypeInv, SpaceWork
  PROVE  TypeInv'
<1> USE DEF TypeInv, RowsOK, OpsOK, DiskOK, CopyOK
<1>1. CASE TouchWrite
  BY <1>1 DEF TouchWrite, NoCopy, NoSpace, SpaceType, Rows, keptVars
<1>2. ASSUME NEW o \in Slots, NEW place \in {"start", "running", "remove", "finalize", "failed"}
      PROVE  [task EXCEPT ![o].at = place] \in [Slots -> OpType]
  BY DEF OpType
<1>3. [i \in Slots |-> NoOp] \in [Slots -> OpType]
  BY DEF OpType, NoOp
<1>4. ASSUME NEW i \in Spaces, NEW status \in Busy \cup {"failed"}
      PROVE  [space[i] EXCEPT !.status = status] \in SpaceType
  BY DEF SpaceType
<1>5. ASSUME NEW o \in Slots PROVE [task EXCEPT ![o] = NoOp] \in [Slots -> OpType]
  BY DEF OpType, NoOp
<1>6. Rows \subseteq Spaces
  BY DEF Rows
<1>7. ASSUME NEW i \in Spaces
      PROVE  [space[i] EXCEPT !.status = "ready", !.git = TRUE, !.bare = TRUE] \in SpaceType
  BY DEF SpaceType
<1>8. ASSUME NEW i \in Rows, NEW new \in SpaceType, UpdateSpace(i, new)
      PROVE  space' \in [Spaces -> SpaceType] /\ deserted' \subseteq Nat
  BY <1>6, <1>8 DEF UpdateSpace
<1>9. ASSUME NEW o \in Slots,
             \/ BeginMigration(o) \/ FinalizeBareWorkspace(o) \/ FinalizeFails(o) \/ FailBareOperation(o)
      PROVE  TypeInv'
  <2>1. /\ spaces' = spaces /\ dirs' = dirs /\ backup' = backup /\ writer' = writer /\ work' = work
        /\ lines' \subseteq Nat
    BY <1>9 DEF BeginMigration, FinalizeBareWorkspace, FinalizeFails, FailBareOperation, keptVars
  <2>2. task' \in [Slots -> OpType]
    <3>1. \/ task' = [task EXCEPT ![o] = NoOp]
          \/ \E place \in {"start", "failed"} : task' = [task EXCEPT ![o].at = place]
      <4>1. CASE BeginMigration(o)
        BY <4>1 DEF BeginMigration
      <4>2. CASE ~BeginMigration(o)
        <5>1. task' = [task EXCEPT ![o] = NoOp] \/ Goes(o, "failed")
          BY <1>9, <4>2 DEF FinalizeBareWorkspace, FinalizeFails, FailBareOperation
        <5> QED
          BY <5>1 DEF Goes
      <4> QED
        BY <4>1, <4>2
    <3>2. ASSUME NEW place \in {"start", "failed"}, task' = [task EXCEPT ![o].at = place]
          PROVE  task' \in [Slots -> OpType]
      BY <3>2, <1>2
    <3>3. CASE task' = [task EXCEPT ![o] = NoOp]
      BY <3>3, <1>5
    <3> QED
      BY <3>1, <3>2, <3>3
  <2>3. space' \in [Spaces -> SpaceType] /\ deserted' \subseteq Nat
    <3>1. CASE BeginMigration(o)
      BY <3>1, <1>4, <1>6, <1>8 DEF BeginMigration, Busy
    <3>2. CASE FinalizeBareWorkspace(o)
      BY <3>2, <1>6, <1>7, <1>8 DEF FinalizeBareWorkspace
    <3>3. CASE FinalizeFails(o)
      BY <3>3 DEF FinalizeFails
    <3>4. CASE FailBareOperation(o)
      BY <3>4, <1>4, <1>6, <1>8 DEF FailBareOperation
    <3> QED
      BY <1>9, <3>1, <3>2, <3>3, <3>4
  <2> QED
    BY <2>1, <2>2, <2>3
<1>10. ASSUME NEW o \in Slots,
             \/ CloneBegins(o) \/ Progresses(o) \/ CloneEnds(o) \/ CloneRemoves(o)
             \/ MigrationMoves(o) \/ MigrationEnds(o) \/ MigrationFails(o)
      PROVE  TypeInv'
  <2>1. CASE Progresses(o)
    BY <2>1 DEF Progresses, OpType, keptVars
  <2>2. UNCHANGED <<space, spaces, writer, deserted, work>>
    BY <1>10 DEF CloneBegins, Progresses, CloneEnds, CloneRemoves, MigrationMoves, MigrationEnds, MigrationFails,
       keptVars
  <2>3. dirs' \in [Folders -> Contents] /\ backup' \in [Folders -> Contents]
    BY <1>10 DEF CloneBegins, Progresses, CloneEnds, CloneRemoves, MigrationMoves, MigrationEnds, MigrationFails,
       Contents
  <2>4. ~Progresses(o) => task' \in [Slots -> OpType] /\ lines' = lines
    BY <1>10, <1>2 DEF CloneBegins, CloneEnds, CloneRemoves, MigrationMoves, MigrationEnds, MigrationFails, Goes
  <2> QED
    BY <2>1, <2>2, <2>3, <2>4
<1> QED
  BY <1>1, <1>9, <1>10 DEF SpaceWork

LEMMA TypeStep == TypeInv /\ [SpaceNext]_spaceVars => TypeInv'
<1>1. TypeInv /\ UNCHANGED spaceVars => TypeInv'
  BY DEF spaceVars, keptVars, TypeInv, RowsOK, OpsOK, DiskOK, CopyOK
<1> QED
  BY <1>1, RequestTypes, WorkTypes DEF SpaceNext
-----------------------------------------------------------------------------
(***************************************************************************)
(* Rows that are busy and lines of progress.                               *)
(***************************************************************************)
RowsOwned == \A i \in Rows : space[i].status \in Busy => AtWork(i) \/ i \in deserted

\* The operation that writes a line is past its beginning and removes the line at its end.
Ending     == {"running", "remove", "finalize", "failed"}
LinesOwned == \A i \in lines : \E o \in Slots : task[o].id = i /\ task[o].at \in Ending

LEMMA RequestsOwned ==
  ASSUME TypeInv, RowsOwned, LinesOwned, SpaceRequests
  PROVE  RowsOwned' /\ LinesOwned'
<1> USE DEF TypeInv, RowsOK, OpsOK, CopyOK
<1>0. \A i \in Spaces : i # 0
  BY DEF Spaces
<1>1. ASSUME NEW f \in Folders, AddWorkspaceAt(f) PROVE RowsOwned' /\ LinesOwned'
  BY <1>1 DEF AddWorkspaceAt, AddSpace, RowsOwned, LinesOwned, Rows, AtWork, Busy
<1>2. ASSUME NEW i \in Spaces, DeleteWorkspace(i) PROVE RowsOwned' /\ LinesOwned'
  BY <1>2 DEF DeleteWorkspace, NoSpace, RowsOwned, LinesOwned, Rows, AtWork, Busy
<1>3. ASSUME NEW i \in Spaces, TouchLoad(i) PROVE RowsOwned' /\ LinesOwned'
  BY <1>3 DEF TouchLoad, RowsOwned, LinesOwned, Rows, AtWork
<1>4. ASSUME NEW o \in Slots, NEW f \in Folders, StartClone(o, f) PROVE RowsOwned' /\ LinesOwned'
  <2>1. task'[o].id = spaces' /\ task[o].id = 0 /\ task[o].at = "none"
    BY <1>4 DEF StartClone, AddSpace, NoOp
  <2>2. \A v \in Slots \ {o} : task'[v] = task[v]
    BY <1>4 DEF StartClone
  <2>3. \A i \in Spaces \ {spaces'} : space'[i] = space[i] /\ deserted' = deserted /\ lines' = lines
    BY <1>4 DEF StartClone, AddSpace
  <2>4. RowsOwned'
    <3> SUFFICES ASSUME NEW i \in Spaces, space'[i].status \in Busy, i # spaces'
                 PROVE  (\E v \in Slots : task'[v].id = i) \/ i \in deserted'
      BY <2>1 DEF RowsOwned, Rows, AtWork
    <3>1. i \in Rows /\ space[i].status \in Busy
      BY <2>3 DEF Rows, Busy
    <3> QED
      BY <1>0, <2>1, <2>2, <2>3, <3>1 DEF RowsOwned, AtWork
  <2>5. LinesOwned'
    BY <1>4, <2>1, <2>2 DEF StartClone, LinesOwned, Ending
  <2> QED
    BY <2>4, <2>5
<1>5. ASSUME NEW o \in Slots, NEW i \in Spaces, AskMigration(o, i) PROVE RowsOwned' /\ LinesOwned'
  <2>1. task[o].id = 0 /\ task[o].at = "none" /\ \A v \in Slots \ {o} : task'[v] = task[v]
    BY <1>5 DEF AskMigration, NoOp
  <2> QED
    BY <1>0, <1>5, <2>1 DEF AskMigration, RowsOwned, LinesOwned, Rows, AtWork, Ending
<1>6. ASSUME AddWorkspaceRoot PROVE RowsOwned' /\ LinesOwned'
  <2>1. ASSUME NEW i \in spaces + 1 .. spaces' PROVE Found(Untracked[i - spaces]).status = "ready"
    BY DEF Found
  <2>2. \A i \in Spaces : space'[i] = space[i] \/ space'[i].status = "ready"
    BY <1>6, <2>1 DEF AddWorkspaceRoot
  <2> QED
    BY <1>6, <2>2 DEF AddWorkspaceRoot, RowsOwned, LinesOwned, Rows, AtWork, Busy
<1>7. ASSUME RestartSpaces PROVE RowsOwned' /\ LinesOwned'
  <2>1. ASSUME NEW r \in SpaceType PROVE CutShort(Rediscovered(r)).status \notin Busy
    BY DEF CutShort, Rediscovered, SpaceType, Busy
  <2>2. \A i \in Spaces : space'[i].status \notin Busy
    BY <1>7, <2>1 DEF RestartSpaces, Found, NoSpace, Busy
  <2> QED
    BY <1>7, <2>2 DEF RestartSpaces, RowsOwned, LinesOwned, Rows
<1>8. ASSUME NEW f \in Folders, UserFills(f) PROVE RowsOwned' /\ LinesOwned'
  BY <1>8 DEF UserFills, RowsOwned, LinesOwned, Rows, AtWork
<1> QED
  BY <1>1, <1>2, <1>3, <1>4, <1>5, <1>6, <1>7, <1>8 DEF SpaceRequests

\* A step of an operation that goes on and writes no row.
LEMMA GoingOn ==
  ASSUME TypeInv, RowsOwned, LinesOwned, NEW o \in Slots, NEW place \in Ending,
         Goes(o, place), space' = space, deserted' = deserted, lines' \subseteq lines
  PROVE  RowsOwned' /\ LinesOwned'
<1>1. \A v \in Slots : task'[v].id = task[v].id /\ (task'[v].at = task[v].at \/ task'[v].at \in Ending)
  BY DEF Goes, TypeInv, OpsOK, OpType
<1> QED
  BY <1>1 DEF RowsOwned, LinesOwned, Rows, AtWork

\* A step that ends an operation and settles its row and its line.
LEMMA Settling ==
  ASSUME TypeInv, RowsOwned, LinesOwned, NEW o \in Slots, task' = [task EXCEPT ![o] = NoOp],
         \A i \in Spaces : i # task[o].id => space'[i] = space[i] /\ (i \in deserted => i \in deserted'),
         task[o].id \in Spaces => space'[task[o].id].status \notin Busy,
         task[o].at \in Ending => task[o].id \notin lines',
         lines' \subseteq lines
  PROVE  RowsOwned' /\ LinesOwned'
<1>1. \A v \in Slots \ {o} : task'[v] = task[v]
  BY DEF TypeInv, OpsOK
<1> QED
  BY <1>1 DEF RowsOwned, LinesOwned, Rows, AtWork, TypeInv, OpsOK

LEMMA WorkOwned ==
  ASSUME TypeInv, RowsOwned, LinesOwned, SpaceWork
  PROVE  RowsOwned' /\ LinesOwned'
<1> USE DEF TypeInv, RowsOK, OpsOK, CopyOK
<1>1. CASE TouchWrite
  BY <1>1 DEF TouchWrite, RowsOwned, LinesOwned, Rows, AtWork, Busy
<1>2. ASSUME NEW o \in Slots, BeginMigration(o) PROVE RowsOwned' /\ LinesOwned'
  <2>1. CASE task[o].id \in Rows
    <3>1. \A v \in Slots : task'[v].id = task[v].id
      BY <1>2, <2>1 DEF BeginMigration, OpType
    <3>2. \A v \in Slots : task[v].at \in Ending => task'[v].at \in Ending
      BY <1>2, <2>1 DEF BeginMigration, Ending
    <3>3. \A i \in Spaces : i # task[o].id => space'[i] = space[i] /\ (i \in deserted => i \in deserted')
      BY <1>2, <2>1 DEF BeginMigration, UpdateSpace
    <3> QED
      BY <1>2, <3>1, <3>2, <3>3 DEF BeginMigration, RowsOwned, LinesOwned, Rows, AtWork
  <2>2. CASE task[o].id \notin Rows
    <3>1. task[o].id \in Spaces => space[task[o].id].status = "none"
      BY <2>2 DEF Rows
    <3> QED
      BY <1>2, <2>2, <3>1, Settling DEF BeginMigration, Ending, Busy
  <2> QED
    BY <2>1, <2>2
<1>3. ASSUME NEW o \in Slots, Progresses(o) PROVE RowsOwned' /\ LinesOwned'
  BY <1>3 DEF Progresses, RowsOwned, LinesOwned, Rows, AtWork, Ending
<1>4. ASSUME NEW o \in Slots,
             \/ CloneBegins(o) \/ CloneEnds(o) \/ CloneRemoves(o)
             \/ MigrationMoves(o) \/ MigrationEnds(o) \/ MigrationFails(o) \/ FinalizeFails(o)
      PROVE  RowsOwned' /\ LinesOwned'
  <2>1. PICK place \in Ending : Goes(o, place)
    BY <1>4 DEF CloneBegins, CloneEnds, CloneRemoves, MigrationMoves, MigrationEnds, MigrationFails,
       FinalizeFails, Ending
  <2>2. space' = space /\ deserted' = deserted /\ lines' \subseteq lines
    BY <1>4 DEF CloneBegins, CloneEnds, CloneRemoves, MigrationMoves, MigrationEnds, MigrationFails,
       FinalizeFails
  <2> QED
    BY <2>1, <2>2, GoingOn
<1>5. ASSUME NEW o \in Slots, FinalizeBareWorkspace(o) PROVE RowsOwned' /\ LinesOwned'
  <2>1. CASE task[o].id \in Rows
    <3>1. space'[task[o].id].status = "ready"
      <4> DEFINE i == task[o].id
      <4>1. i \in Spaces /\ space' = [space EXCEPT ![i] = [space[i] EXCEPT !.status = "ready", !.git = TRUE, !.bare = TRUE]]
        BY <1>5, <2>1 DEF FinalizeBareWorkspace, UpdateSpace, Rows
      <4>2. [space[i] EXCEPT !.status = "ready", !.git = TRUE, !.bare = TRUE].status = "ready"
        BY <4>1 DEF SpaceType
      <4> QED
        BY <4>1, <4>2
    <3>2. \A i \in Spaces : i # task[o].id => space'[i] = space[i] /\ (i \in deserted => i \in deserted')
      BY <1>5, <2>1 DEF FinalizeBareWorkspace, UpdateSpace
    <3>3. task' = [task EXCEPT ![o] = NoOp] /\ lines' = lines \ {task[o].id}
      BY <1>5, <2>1 DEF FinalizeBareWorkspace
    <3> QED
      BY <3>1, <3>2, <3>3, Settling DEF Busy
  <2>2. CASE task[o].id \notin Rows
    <3>1. Goes(o, "failed") /\ space' = space /\ deserted' = deserted /\ lines' \subseteq lines
      BY <1>5, <2>2 DEF FinalizeBareWorkspace
    <3> QED
      BY <3>1, GoingOn DEF Ending
  <2> QED
    BY <2>1, <2>2
<1>6. ASSUME NEW o \in Slots, FailBareOperation(o) PROVE RowsOwned' /\ LinesOwned'
  <2>1. task[o].id \in Spaces => space'[task[o].id].status \notin Busy
    BY <1>6 DEF FailBareOperation, UpdateSpace, Rows, SpaceType, Busy
  <2>2. \A i \in Spaces : i # task[o].id => space'[i] = space[i] /\ (i \in deserted => i \in deserted')
    BY <1>6 DEF FailBareOperation, UpdateSpace
  <2>3. task' = [task EXCEPT ![o] = NoOp] /\ lines' = lines \ {task[o].id}
    BY <1>6 DEF FailBareOperation
  <2> QED
    BY <2>1, <2>2, <2>3, Settling
<1> QED
  BY <1>1, <1>2, <1>3, <1>4, <1>5, <1>6 DEF SpaceWork

OwnedInv == TypeInv /\ RowsOwned /\ LinesOwned

\* For any number of workspaces, operations and directories, a row that says "cloning" or
\* "migrating", and a line of progress, belong to an operation that is still to settle them.
THEOREM BusyRowsAreOwned == SpaceSpec => []BusyIsAtWork
<1>1. SpaceInit => OwnedInv
  BY TypeInit DEF SpaceInit, OwnedInv, RowsOwned, LinesOwned, Rows, NoSpace
<1>2. OwnedInv /\ [SpaceNext]_spaceVars => OwnedInv'
  <2> SUFFICES ASSUME OwnedInv, [SpaceNext]_spaceVars PROVE OwnedInv'
    OBVIOUS
  <2>1. TypeInv'
    BY TypeStep DEF OwnedInv
  <2>2. CASE UNCHANGED spaceVars
    BY <2>1, <2>2 DEF OwnedInv, spaceVars, RowsOwned, LinesOwned, Rows, AtWork
  <2> QED
    BY <2>1, <2>2, RequestsOwned, WorkOwned DEF OwnedInv, SpaceNext
<1>3. OwnedInv => BusyIsAtWork
  BY DEF OwnedInv, RowsOwned, LinesOwned, BusyIsAtWork, AtWork
<1> QED
  BY <1>1, <1>2, <1>3, PTL DEF SpaceSpec
-----------------------------------------------------------------------------
(***************************************************************************)
(* The user's work.                                                        *)
(***************************************************************************)
\* Only clones remove what is at their target.
OnlyClonesRemove ==
  \A o \in Slots : /\ task[o].at = "remove" => task[o].kind = "clone"
                   /\ task[o].at = "begin" => task[o].kind # "clone"

Into(o, f) == task[o].kind = "clone" /\ task[o].path = f /\ task[o].at \in {"start", "running", "remove"}

\* A clone that may still remove its target has a tree there only if the tree came late.
Spared == \A f \in Folders \ late : dirs[f] = "tree" => \A o \in Slots : ~Into(o, f)

KeepInv == OnlyClonesRemove /\ Spared /\ WorkIsKept

LEMMA RemoverClones ==
  ASSUME KeepInv, NEW o \in Slots, task[o].at = "remove"
  PROVE  task[o].kind = "clone"
BY DEF KeepInv, OnlyClonesRemove

\* A step that leaves the directories alone and brings no clone to a tree.
LEMMA DisksUntouched ==
  ASSUME KeepInv, UNCHANGED <<dirs, backup, work, late>>, OnlyClonesRemove',
         \A o \in Slots : \A f \in Folders : Into(o, f)' => Into(o, f) \/ dirs[f] # "tree"
  PROVE  KeepInv'
<1> USE DEF KeepInv
<1>2. Spared'
  BY DEF Spared
<1>3. \A f \in Folders : Trees(f)' = Trees(f)
  BY DEF Trees
<1>4. WorkIsKept'
  BY <1>3 DEF WorkIsKept
<1> QED
  BY <1>2, <1>4

LEMMA RequestsKeep ==
  ASSUME TypeInv, KeepInv, SpaceRequests
  PROVE  KeepInv'
<1> USE DEF TypeInv, OpsOK, DiskOK
<1>1. ASSUME NEW f \in Folders, UserFills(f) PROVE KeepInv'
  <2>1. task' = task /\ \A g \in Folders : g # f => dirs'[g] = dirs[g] /\ work'[g] = work[g] /\ (g \in late' <=> g \in late)
    BY <1>1 DEF UserFills
  <2>2. \A g \in Folders : g # f => Trees(g)' = Trees(g)
    BY <1>1, <2>1 DEF UserFills, Trees
  <2>3. Trees(f)' = Trees(f) + 1 /\ work'[f] = Trees(f) + 1 /\ Trees(f) \in Nat
    BY <1>1 DEF UserFills, Trees, Contents
  <2>4. f \in Folders \ late' => \A o \in Slots : ~Into(o, f)
    BY <1>1 DEF UserFills, ClonedInto, Into
  <2>5. \A g \in Folders, o \in Slots : Into(o, g)' <=> Into(o, g)
    BY <2>1 DEF Into
  <2>6. Spared'
    BY <2>1, <2>4, <2>5 DEF KeepInv, Spared
  <2>7. WorkIsKept'
    BY <2>1, <2>2, <2>3 DEF KeepInv, WorkIsKept
  <2> QED
    BY <2>1, <2>6, <2>7 DEF KeepInv, OnlyClonesRemove
<1>2. CASE RestartSpaces
  <2>1. /\ UNCHANGED <<dirs, backup>> /\ late' = {} /\ task' = [o \in Slots |-> NoOp]
        /\ \A f \in Folders : work'[f] = IF f \in late THEN Trees(f) ELSE work[f]
    BY <1>2 DEF RestartSpaces
  <2>2. \A f \in Folders : Trees(f)' = Trees(f) /\ Trees(f) \in Nat
    BY <2>1 DEF Trees
  <2>3. WorkIsKept'
    BY <2>1, <2>2 DEF KeepInv, WorkIsKept
  <2> QED
    BY <2>1, <2>3 DEF KeepInv, OnlyClonesRemove, Spared, Into, NoOp
<1>3. CASE ~RestartSpaces /\ ~\E f \in Folders : UserFills(f)
  <2>1. UNCHANGED <<dirs, backup, work, late>>
    BY <1>3 DEF SpaceRequests, AddWorkspaceAt, DeleteWorkspace, TouchLoad, StartClone, AskMigration,
       AddWorkspaceRoot, keptVars
  <2>2. \/ task' = task
        \/ \E o \in Slots, f \in Folders :
             dirs[f] = "none" /\ task' = [task EXCEPT ![o] = [kind |-> "clone", at |-> "start", id |-> spaces', path |-> f]]
        \/ \E o \in Slots, i \in Spaces :
             task' = [task EXCEPT ![o] = [kind |-> "migrate", at |-> "begin", id |-> i, path |-> space[i].path]]
    BY <1>3 DEF SpaceRequests, AddWorkspaceAt, DeleteWorkspace, TouchLoad, StartClone, AskMigration, AddWorkspaceRoot
  <2>3. \A o \in Slots : \/ task'[o] = task[o]
                         \/ /\ task'[o].at # "remove" /\ (task'[o].at = "begin" => task'[o].kind # "clone")
                            /\ task'[o].kind = "clone" => dirs[task'[o].path] = "none"
    BY <2>2
  <2>4. OnlyClonesRemove'
    BY <2>3 DEF KeepInv, OnlyClonesRemove
  <2>5. \A o \in Slots : \A f \in Folders : Into(o, f)' => Into(o, f) \/ dirs[f] # "tree"
    BY <2>1, <2>3 DEF Into
  <2> QED
    BY <2>1, <2>4, <2>5, DisksUntouched
<1> QED
  BY <1>1, <1>2, <1>3

LEMMA WorkKeeps ==
  ASSUME TypeInv, KeepInv, SpaceWork
  PROVE  KeepInv'
<1> USE DEF TypeInv, OpsOK, DiskOK
<1>1. CASE TouchWrite
  <2>1. UNCHANGED <<dirs, backup, work, late, task>>
    BY <1>1 DEF TouchWrite, keptVars
  <2> QED
    BY <2>1, DisksUntouched DEF Into, KeepInv, OnlyClonesRemove
<1>2. ASSUME NEW o \in Slots,
             \/ BeginMigration(o) \/ Progresses(o) \/ FinalizeBareWorkspace(o) \/ FinalizeFails(o)
             \/ FailBareOperation(o) \/ MigrationFails(o)
      PROVE  KeepInv'
  <2>1. UNCHANGED <<dirs, backup, work, late>>
    BY <1>2 DEF BeginMigration, Progresses, FinalizeBareWorkspace, FinalizeFails, FailBareOperation,
       MigrationFails, keptVars
  <2>2. task' = task \/ task' = [task EXCEPT ![o] = NoOp] \/ (task' = [task EXCEPT ![o].at = "start"] /\ task[o].at = "begin")
        \/ task' = [task EXCEPT ![o].at = "failed"]
    BY <1>2 DEF BeginMigration, Progresses, FinalizeBareWorkspace, FinalizeFails, FailBareOperation,
       MigrationFails, Goes
  <2>3. \A v \in Slots : \/ task'[v] = task[v]
                         \/ task'[v].at \notin {"remove", "begin"} /\ (task'[v].at \in {"start", "running"} => task'[v].kind # "clone")
    BY <2>2 DEF OpType, NoOp, KeepInv, OnlyClonesRemove
  <2>4. OnlyClonesRemove'
    BY <2>3 DEF KeepInv, OnlyClonesRemove
  <2>5. \A v \in Slots : \A f \in Folders : Into(v, f)' => Into(v, f)
    BY <2>3 DEF Into
  <2> QED
    BY <2>1, <2>4, <2>5, DisksUntouched
<1>3. ASSUME NEW o \in Slots, CloneBegins(o) \/ CloneEnds(o) \/ CloneRemoves(o)
      PROVE  KeepInv'
  <2> DEFINE f == task[o].path
  <2>1. /\ UNCHANGED <<backup, work, late>>
        /\ task[o].kind = "clone" /\ task[o].at \in {"start", "running", "remove"}
    <3>1. CASE CloneBegins(o)
      BY <3>1 DEF CloneBegins, keptVars
    <3>2. CASE CloneEnds(o)
      BY <3>2 DEF CloneEnds, keptVars
    <3>3. CASE CloneRemoves(o)
      <4>1. task[o].at = "remove" /\ UNCHANGED <<backup, work, late>>
        BY <3>3 DEF CloneRemoves, keptVars
      <4> QED
        BY <4>1, RemoverClones
    <3> QED
      BY <1>3, <3>1, <3>2, <3>3
  <2>2. \A g \in Folders : dirs'[g] = dirs[g] \/ (g = f /\ dirs'[g] # "tree")
    BY <1>3 DEF CloneBegins, CloneEnds, CloneRemoves
  <2>3. \A v \in Slots : /\ task'[v].kind = task[v].kind /\ task'[v].path = task[v].path
                         /\ task'[v].at = task[v].at \/ (v = o /\ task'[v].at # "begin")
    BY <1>3 DEF CloneBegins, CloneEnds, CloneRemoves, Goes, OpType
  <2>4. OnlyClonesRemove'
    BY <2>1, <2>3 DEF KeepInv, OnlyClonesRemove
  <2>5. \A v \in Slots, g \in Folders : Into(v, g)' => Into(v, g)
    BY <2>1, <2>3 DEF Into
  <2>6. Spared'
    BY <2>1, <2>2, <2>5 DEF KeepInv, Spared
  <2>7. \A g \in Folders \ late : dirs[g] = "tree" => dirs'[g] = "tree"
    BY <2>1, <2>2 DEF KeepInv, Spared, Into
  <2>8. \A g \in Folders \ late : Trees(g)' = Trees(g)
    BY <2>1, <2>2, <2>7 DEF Trees
  <2>9. WorkIsKept'
    BY <2>1, <2>8 DEF KeepInv, WorkIsKept
  <2> QED
    BY <2>4, <2>6, <2>9 DEF KeepInv
<1>4. ASSUME NEW o \in Slots, MigrationMoves(o) \/ MigrationEnds(o)
      PROVE  KeepInv'
  <2>1. UNCHANGED <<work, late>> /\ \A g \in Folders : dirs'[g] = "tree" => dirs[g] = "tree"
    BY <1>4 DEF MigrationMoves, MigrationEnds, keptVars
  <2>2. \A g \in Folders : Trees(g)' = Trees(g)
    BY <1>4 DEF MigrationMoves, MigrationEnds, Trees
  <2>3. \A v \in Slots : \/ task'[v] = task[v]
                         \/ task'[v].kind # "clone" /\ task'[v].at # "remove"
    BY <1>4 DEF MigrationMoves, MigrationEnds, Goes, OpType
  <2>4. OnlyClonesRemove'
    BY <2>3 DEF KeepInv, OnlyClonesRemove
  <2>5. \A v \in Slots, g \in Folders : Into(v, g)' => Into(v, g)
    BY <2>3 DEF Into
  <2>6. Spared'
    BY <2>1, <2>5 DEF KeepInv, Spared
  <2>7. WorkIsKept'
    BY <2>1, <2>2 DEF KeepInv, WorkIsKept
  <2> QED
    BY <2>4, <2>6, <2>7 DEF KeepInv
<1> QED
  BY <1>1, <1>2, <1>3, <1>4 DEF SpaceWork

KeptInv == TypeInv /\ KeepInv

\* For any number of workspaces, operations and directories, no interleaving of clones,
\* migrations, failures and restarts removes a tree that holds the user's work, unless it
\* came into a directory while a clone into that was under way.
THEOREM UserWorkIsKept == SpaceSpec => []WorkIsKept
<1>1. SpaceInit => KeptInv
  <2> SUFFICES ASSUME SpaceInit PROVE KeptInv
    OBVIOUS
  <2>1. WorkIsKept
    BY DEF SpaceInit, WorkIsKept, Trees
  <2> QED
    BY <2>1, TypeInit DEF SpaceInit, KeptInv, KeepInv, OnlyClonesRemove, Spared, Into, NoOp
<1>2. KeptInv /\ [SpaceNext]_spaceVars => KeptInv'
  <2> SUFFICES ASSUME KeptInv, [SpaceNext]_spaceVars PROVE KeptInv'
    OBVIOUS
  <2>1. TypeInv'
    BY TypeStep DEF KeptInv
  <2>2. CASE UNCHANGED spaceVars
    <3>1. UNCHANGED <<dirs, backup, work, late, task>>
      BY <2>2 DEF spaceVars, keptVars
    <3>2. KeepInv'
      BY <3>1, DisksUntouched DEF KeptInv, KeepInv, OnlyClonesRemove, Into
    <3> QED
      BY <2>1, <3>2 DEF KeptInv
  <2> QED
    BY <2>1, <2>2, RequestsKeep, WorkKeeps DEF KeptInv, SpaceNext
<1>3. KeptInv => WorkIsKept
  BY DEF KeptInv, KeepInv
<1> QED
  BY <1>1, <1>2, <1>3, PTL DEF SpaceSpec

-----------------------------------------------------------------------------
(***************************************************************************)
(* Pull requests.                                                          *)
(***************************************************************************)
\* The lists that the job has read, from the list of the kind k on.
KindRead(k) == act.at \in (IF k = "review" THEN {"comment", "checks", "persist"} ELSE {"checks", "persist"})
Looking == {"review", "comment", "checks", "persist"}

\* A mark is the number of an item that was listed.
MarksInv == \A k \in Kinds : prRow.marks[k] = 0 \/ <<k, prRow.marks[k]>> \in hub.seen

\* The job's copy of the row: what nobody else writes is as in the row until the job changes it.
CopyInv ==
  act.at \in Looking =>
    /\ \A k \in Kinds : ~KindRead(k) => act.pr.marks[k] = prRow.marks[k]
    /\ \A k \in Kinds : KindRead(k) => /\ prRow.marks[k] <= act.pr.marks[k]
                                       /\ (act.pr.marks[k] = prRow.marks[k] \/ <<k, act.pr.marks[k]>> \in hub.seen)
    /\ act.at # "persist" => act.pr.baselined = prRow.baselined /\ act.pr.checks = prRow.checks /\ act.pr.checksHead = prRow.checksHead

\* The news are what lies between the marks of the row and those of the copy.
Fresh(i) == prRow.baselined /\ prRow.marks[i[1]] < i[2] /\ i[2] <= act.pr.marks[i[1]] /\ KindRead(i[1])
NewsInv ==
  act.at \in Looking =>
    /\ \A i \in act.news : i \in hub.seen \ OwnItems /\ Fresh(i)
    /\ \A i \in hub.seen \ (OwnItems \cup missed) : Fresh(i) => i \in act.news

\* Below the marks of the row everything is told or about to be; above them nothing is.
ToldInv ==
  /\ \A i \in Items : told[i] \in {0, 1} /\ (told[i] = 1 => i \in hub.seen /\ Looked(i))
  /\ act.at = "tell" => \A i \in act.news : told[i] = 0 /\ i \in hub.seen /\ Looked(i)
  /\ \A i \in hub.seen \ (OwnItems \cup before \cup missed) :
       Looked(i) => told[i] = 1 \/ (act.at = "tell" /\ i \in act.news)

HeadInv ==
  /\ prSync.at = "listed" => prSync.head \in Heads
  /\ prRow.known => prRow.head \in Heads
  /\ act.at \in Looking => act.pr.head \in Heads
  /\ act.at = "persist" => act.pr.checksHead = act.pr.head

\* The rollup told last is the one in the row, unless another one is about to be told.
RollupInv ==
  /\ ~again
  /\ act.at # "persist" /\ act.at # "tell" => act.event = "none"
  /\ act.at # "tell" \/ act.event = "none" => rollup \in {"none", prRow.checks}
  /\ act.at = "tell" /\ act.event # "none" => prRow.checks = act.event /\ rollup # act.event
  /\ act.at = "persist" =>
       /\ act.event # "none" => act.pr.checks = act.event /\ (prRow.checksHead = act.pr.checksHead => prRow.checks # act.event)
       /\ act.event = "none" /\ prRow.checksHead = act.pr.checksHead /\ Final(prRow.checks) => act.pr.checks = prRow.checks

\* Items have numbers, and only so many of them can be listed.
ListedInv == \E b \in Nat : \A i \in hub.seen : i[2] <= b

PRInv == PRTypeOK /\ ListedInv /\ MarksInv /\ CopyInv /\ NewsInv /\ ToldInv /\ HeadInv /\ RollupInv

-----------------------------------------------------------------------------
\* A non-empty set of naturals has a least member; one that is bounded has a greatest one.
LEMMA LeastNumber ==
  ASSUME NEW T, T \subseteq Nat, T # {}
  PROVE  \E x \in T : \A y \in T : x <= y
<1> DEFINE Below(x) == 0 .. x
           F == {Below(x) : x \in T}
           R == StrictSubsetOrdering(Nat)
           D == FiniteSubsetsOf(Nat)
<1>1. IsWellFoundedOn(R, D)
  BY FS_StrictSubsetOrderingWellFounded
<1>2. F \subseteq D /\ F # {}
  <2>1. ASSUME NEW x \in T
        PROVE  Below(x) \in D
    <3>1. IsFiniteSet(0 .. x)
      BY FS_Interval
    <3> QED
      BY <3>1 DEF FiniteSubsetsOf
  <2> QED
    BY <2>1
<1> HIDE DEF R, D
<1>3. PICK f \in F : \A g \in F : ~ (<<g, f>> \in R)
  BY <1>1, <1>2, WFMin
<1>4. PICK x \in T : f = Below(x)
  OBVIOUS
<1>5. ASSUME NEW y \in T, y < x
      PROVE  FALSE
  <2>1. /\ Below(y) \subseteq Below(x) /\ Below(y) # Below(x)
        /\ Below(y) \in SUBSET Nat /\ Below(x) \in SUBSET Nat
    <3>1. x \in Below(x) /\ x \notin Below(y)
      BY <1>5
    <3> QED
      BY <1>5, <3>1
  <2>2. <<Below(y), Below(x)>> \in R
    BY <2>1 DEF R, StrictSubsetOrdering
  <2> QED
    BY <1>3, <1>4, <2>2
<1> QED
  BY <1>5

LEMMA HighestOfBounded ==
  ASSUME NEW T, T \subseteq Nat, T # {}, NEW b \in Nat, \A x \in T : x <= b
  PROVE  Highest(T) \in T /\ \A x \in T : x <= Highest(T)
<1> DEFINE U == {u \in Nat : \A x \in T : x <= u}
<1>1. PICK u \in U : \A v \in U : u <= v
  <2>1. U \subseteq Nat /\ b \in U
    OBVIOUS
  <2> HIDE DEF U
  <2> QED
    BY <2>1, LeastNumber
<1>2. u \in T
  <2>1. SUFFICES ASSUME u \notin T PROVE FALSE
    OBVIOUS
  <2>2. \A x \in T : x < u
    BY <2>1
  <2>3. u > 0
    <3>1. PICK x \in T : TRUE
      OBVIOUS
    <3>2. x \in Nat /\ x < u
      BY <2>2, <3>1
    <3> QED
      BY <3>2
  <2>4. u - 1 \in U
    BY <2>2, <2>3
  <2> QED
    BY <1>1, <2>4
<1>3. \E n \in T : \A m \in T : m <= n
  BY <1>1, <1>2
<1> QED
  BY <1>3, Zenon DEF Highest

LEMMA NumbersOfItems ==
  ASSUME NEW i \in Items
  PROVE  i[1] \in Kinds /\ i[2] \in ItemIds /\ i[2] \in Nat /\ i[2] > 0 /\ i = <<i[1], i[2]>>
<1>1. PICK k \in Kinds, n \in ItemIds : i = <<k, n>>
  BY DEF Items
<1> QED
  BY <1>1, GitHubAssumption

LEMMA WatermarkReached ==
  ASSUME PRTypeOK, ListedInv, NEW k \in Kinds
  PROVE  /\ Watermark(k) \in Nat /\ act.pr.marks[k] <= Watermark(k)
         /\ Watermark(k) = act.pr.marks[k] \/ <<k, Watermark(k)>> \in hub.seen
         /\ \A i \in hub.seen : i[1] = k => i[2] <= Watermark(k)
<1> DEFINE T == IdsOf(k) \cup {act.pr.marks[k]}
<1>1. act.pr.marks[k] \in Nat
  BY DEF PRTypeOK, ActType, PRRowType
<1>2. \A i \in hub.seen : i \in Items
  BY DEF PRTypeOK
<1>3. \A x \in IdsOf(k) : x \in Nat /\ <<k, x>> \in hub.seen
  BY <1>2, NumbersOfItems DEF IdsOf
<1>4. \A i \in hub.seen : i[1] = k => i[2] \in IdsOf(k)
  BY DEF IdsOf
<1>5. PICK b \in Nat : \A i \in hub.seen : i[2] <= b
  BY DEF ListedInv
<1>6. \A x \in IdsOf(k) : x <= b
  BY <1>5 DEF IdsOf
<1>7. PICK c \in Nat : b <= c /\ act.pr.marks[k] <= c
  BY <1>1
<1>8. T \subseteq Nat /\ T # {} /\ \A x \in T : x <= c
  <2>1. \A x \in IdsOf(k) : x \in Nat /\ x <= c
    <3> TAKE x \in IdsOf(k)
    <3>1. x \in Nat /\ x <= b
      BY <1>3, <1>6
    <3> QED
      BY <1>7, <3>1
  <2> QED
    BY <1>1, <1>7, <2>1
<1>9. Highest(T) \in T /\ \A x \in T : x <= Highest(T)
  <2> HIDE DEF T
  <2> QED
    BY <1>8, HighestOfBounded
<1> QED
  BY <1>1, <1>3, <1>4, <1>9 DEF Watermark

-----------------------------------------------------------------------------
(***************************************************************************)
(* What the steps of the job make of its copy.                             *)
(***************************************************************************)
LEMMA RowTypes == NoPRRow \in PRRowType /\ NoPRRow.marks = [k \in Kinds |-> 0]
<1>1. PICK no \in BOOLEAN : no = FALSE
  OBVIOUS
<1> DEFINE r == [known |-> no, state |-> "open", assigned |-> no, head |-> NoHead,
                 marks |-> [k \in Kinds |-> 0], baselined |-> no, checks |-> "none", checksHead |-> NoHead]
<1>2. NoPRRow = r
  BY <1>1 DEF NoPRRow
<1>3. r \in PRRowType /\ r.marks = [k \in Kinds |-> 0]
  BY DEF PRRowType, PRs, Kinds
<1> QED
  BY <1>2, <1>3

LEMMA RestType == Rest \in ActType /\ Rest.at = "idle" /\ Rest.event = "none" /\ Rest.news = {}
BY RowTypes DEF Rest, ActType

LEMMA FetchedItems ==
  ASSUME PRTypeOK, ListedInv, NEW k \in Kinds, NEW next \in {"comment", "checks"}, FetchItems(k, next)
  PROVE  /\ act' \in ActType
         /\ act'.at = next /\ act'.event = act.event /\ act'.news = act.news \cup NewItems(k)
         /\ act'.pr \in PRRowType
         /\ act'.pr.marks[k] = Watermark(k)
         /\ \A j \in Kinds : j # k => act'.pr.marks[j] = act.pr.marks[j]
         /\ act'.pr.baselined = act.pr.baselined /\ act'.pr.checks = act.pr.checks
         /\ act'.pr.checksHead = act.pr.checksHead /\ act'.pr.head = act.pr.head
<1> DEFINE W == Watermark(k)
           N == NewItems(k)
           marks == [act.pr.marks EXCEPT ![k] = W]
           pr == [act.pr EXCEPT !.marks = marks]
           a1 == [act EXCEPT !.at = next]
           a2 == [a1 EXCEPT !.news = act.news \cup N]
           a3 == [a2 EXCEPT !.pr = pr]
<1>1. W \in Nat /\ N \subseteq Items
  BY WatermarkReached DEF NewItems, PRTypeOK
<1>2. act \in ActType /\ act.pr \in PRRowType /\ act.pr.marks \in [Kinds -> Nat]
  BY DEF PRTypeOK, ActType, PRRowType
<1> HIDE DEF W, N
<1>3. marks \in [Kinds -> Nat] /\ marks[k] = W /\ \A j \in Kinds : j # k => marks[j] = act.pr.marks[j]
  BY <1>1, <1>2
<1>4. /\ pr \in PRRowType /\ pr.marks = marks
      /\ pr.baselined = act.pr.baselined /\ pr.checks = act.pr.checks
      /\ pr.checksHead = act.pr.checksHead /\ pr.head = act.pr.head
  <2> HIDE DEF marks
  <2> QED
    BY <1>2, <1>3 DEF PRRowType
<1>5. a1 \in ActType /\ a1.at = next /\ a1.event = act.event /\ a1.news = act.news /\ a1.pr = act.pr
  BY <1>2 DEF ActType
<1>6. a2 \in ActType /\ a2.at = next /\ a2.event = act.event /\ a2.news = act.news \cup N /\ a2.pr = act.pr
  <2> HIDE DEF a1
  <2>1. act.news \cup N \subseteq Items
    BY <1>1, <1>2 DEF ActType
  <2> QED
    BY <1>5, <2>1 DEF ActType
<1>7. act' = [a2 EXCEPT !.pr = [a2.pr EXCEPT !.marks = [a2.pr.marks EXCEPT ![k] = W]]]
  BY Zenon DEF FetchItems, N, W
<1> HIDE DEF a2
<1>8. act' = [a2 EXCEPT !.pr = pr]
  BY <1>6, <1>7
<1> HIDE DEF pr
<1>9. /\ act' \in ActType /\ act'.at = next /\ act'.event = act.event /\ act'.news = act.news \cup N
      /\ act'.pr = pr
  BY <1>4, <1>6, <1>8 DEF ActType
<1> HIDE DEF marks
<1> QED
  BY <1>3, <1>4, <1>9 DEF W, N

CheckStates == {"none", "pending", "failing", "passed", "failed"}

LEMMA ChecksTypes ==
  ASSUME act.pr \in PRRowType
  PROVE  ChecksKept \in CheckStates /\ ChecksToTell \in {"none", "passed", "failed"}
<1>1. Rollup(act.pr.head) \in CheckStates
  BY DEF Rollup, CheckStates
<1>2. ChecksBefore \in CheckStates
  BY DEF ChecksBefore, PRRowType, CheckStates
<1> QED
  BY <1>1, <1>2 DEF ChecksKept, ChecksToTell, Final

LEMMA FetchedChecks ==
  ASSUME PRTypeOK, FetchChecks
  PROVE  /\ act' \in ActType
         /\ act'.at = "persist" /\ act'.news = act.news /\ act'.event = ChecksToTell
         /\ act'.pr \in PRRowType /\ act'.pr.marks = act.pr.marks /\ act'.pr.head = act.pr.head
         /\ act'.pr.checks = ChecksKept /\ act'.pr.checksHead = act.pr.head
<1>1. PICK yes \in BOOLEAN : yes = TRUE
  OBVIOUS
<1> DEFINE K == ChecksKept
           E == ChecksToTell
           p1 == [act.pr EXCEPT !.baselined = yes]
           p2 == [p1 EXCEPT !.checks = K]
           p3 == [p2 EXCEPT !.checksHead = act.pr.head]
           a1 == [act EXCEPT !.at = "persist"]
           a2 == [a1 EXCEPT !.event = E]
           b1 == [a2 EXCEPT !.pr = p1]
           b2 == [b1 EXCEPT !.pr = p2]
           b3 == [b2 EXCEPT !.pr = p3]
<1>2. act \in ActType /\ act.pr \in PRRowType /\ act.pr.head \in Heads \cup {NoHead}
  BY DEF PRTypeOK, ActType, PRRowType
<1>3. K \in CheckStates /\ E \in {"none", "passed", "failed"}
  BY <1>2, ChecksTypes
<1>4. act' = [[[a2 EXCEPT !.pr.baselined = yes] EXCEPT !.pr.checks = K] EXCEPT !.pr.checksHead = act.pr.head]
  BY <1>1, Zenon DEF FetchChecks, ChecksKept, ChecksToTell, ChecksBefore
<1> HIDE DEF K, E
<1>5. p1 \in PRRowType /\ p1.marks = act.pr.marks /\ p1.head = act.pr.head
  BY <1>2 DEF PRRowType
<1>6. p2 \in PRRowType /\ p2.marks = act.pr.marks /\ p2.head = act.pr.head /\ p2.checks = K
  <2> HIDE DEF p1
  <2> QED
    BY <1>3, <1>5 DEF PRRowType, CheckStates
<1>7. p3 \in PRRowType /\ p3.marks = act.pr.marks /\ p3.head = act.pr.head /\ p3.checks = K /\ p3.checksHead = act.pr.head
  <2> HIDE DEF p2
  <2> QED
    BY <1>2, <1>6 DEF PRRowType
<1>8. a1 \in ActType /\ a1.at = "persist" /\ a1.news = act.news /\ a1.pr = act.pr
  BY <1>2 DEF ActType
<1>9. a2 \in ActType /\ a2.at = "persist" /\ a2.news = act.news /\ a2.pr = act.pr /\ a2.event = E
  <2> HIDE DEF a1
  <2> QED
    BY <1>3, <1>8 DEF ActType
<1> HIDE DEF a2
<1>10. [a2 EXCEPT !.pr.baselined = yes] = b1
  BY <1>9
<1>11. b1 \in ActType /\ b1.at = "persist" /\ b1.news = act.news /\ b1.pr = p1 /\ b1.event = E
  <2> HIDE DEF p1
  <2> QED
    BY <1>5, <1>9 DEF ActType
<1> HIDE DEF b1, p1
<1>12. [b1 EXCEPT !.pr.checks = K] = b2
  BY <1>11
<1>13. b2 \in ActType /\ b2.at = "persist" /\ b2.news = act.news /\ b2.pr = p2 /\ b2.event = E
  <2> HIDE DEF p2
  <2> QED
    BY <1>6, <1>11 DEF ActType
<1> HIDE DEF b2, p2
<1>14. [b2 EXCEPT !.pr.checksHead = act.pr.head] = b3
  BY <1>13
<1>15. b3 \in ActType /\ b3.at = "persist" /\ b3.news = act.news /\ b3.pr = p3 /\ b3.event = E
  <2> HIDE DEF p3
  <2> QED
    BY <1>7, <1>13 DEF ActType
<1>16. act' = b3
  BY <1>4, <1>10, <1>12, <1>14
<1> HIDE DEF b3, p3
<1> QED
  BY <1>7, <1>15, <1>16 DEF K, E

LEMMA ActivityStarted ==
  ASSUME PRTypeOK, StartActivity
  PROVE  /\ act' \in ActType /\ act'.at = "review" /\ act'.pr = prRow /\ act'.news = {} /\ act'.event = "none"
<1> DEFINE a1 == [Rest EXCEPT !.at = "review"]
<1>1. a1 \in ActType /\ a1.at = "review" /\ a1.news = {} /\ a1.event = "none"
  <2>1. Rest \in ActType /\ Rest.event = "none" /\ Rest.news = {}
    BY RestType
  <2> QED
    BY <2>1 DEF ActType
<1>2. act' = [a1 EXCEPT !.pr = prRow]
  BY Zenon DEF StartActivity
<1> HIDE DEF a1
<1> QED
  BY <1>1, <1>2 DEF ActType, PRTypeOK

LEMMA RowUpdated ==
  ASSUME PRTypeOK, UpdateActivity
  PROVE  /\ prRow' \in PRRowType /\ prRow'.marks = act.pr.marks /\ prRow'.baselined /\ prRow'.checks = act.pr.checks
         /\ prRow'.checksHead = act.pr.checksHead /\ prRow'.head = prRow.head /\ prRow'.known = prRow.known
         /\ act' \in ActType /\ act'.at = "tell" /\ act'.news = act.news /\ act'.event = act.event
<1>1. PICK yes \in BOOLEAN : yes = TRUE
  OBVIOUS
<1> DEFINE r1 == [prRow EXCEPT !.marks = act.pr.marks]
           r2 == [r1 EXCEPT !.baselined = yes]
           r3 == [r2 EXCEPT !.checks = act.pr.checks]
<1>2. act \in ActType /\ prRow \in PRRowType /\ act.pr \in PRRowType
  BY DEF PRTypeOK, ActType
<1>3. /\ act.pr.marks \in [Kinds -> Nat] /\ act.pr.checks \in CheckStates
      /\ act.pr.checksHead \in Heads \cup {NoHead}
  BY <1>2 DEF PRRowType, CheckStates
<1>4. prRow' = [r3 EXCEPT !.checksHead = act.pr.checksHead]
  BY <1>1, Zenon DEF UpdateActivity
<1>5. r1 \in PRRowType /\ r1.marks = act.pr.marks /\ r1.head = prRow.head /\ r1.known = prRow.known
  BY <1>2, <1>3 DEF PRRowType
<1> HIDE DEF r1
<1>6. r2 \in PRRowType /\ r2.marks = act.pr.marks /\ r2.head = prRow.head /\ r2.known = prRow.known /\ r2.baselined = yes
  BY <1>5 DEF PRRowType
<1> HIDE DEF r2
<1>7. /\ r3 \in PRRowType /\ r3.marks = act.pr.marks /\ r3.head = prRow.head /\ r3.known = prRow.known /\ r3.baselined = yes
      /\ r3.checks = act.pr.checks
  BY <1>3, <1>6 DEF PRRowType, CheckStates
<1> HIDE DEF r3
<1>8. /\ prRow' \in PRRowType /\ prRow'.marks = act.pr.marks /\ prRow'.head = prRow.head /\ prRow'.known = prRow.known
      /\ prRow'.baselined = yes /\ prRow'.checks = act.pr.checks /\ prRow'.checksHead = act.pr.checksHead
  BY <1>3, <1>4, <1>7 DEF PRRowType
<1>9. act' \in ActType /\ act'.at = "tell" /\ act'.news = act.news /\ act'.event = act.event
  BY <1>2 DEF UpdateActivity, ActType
<1>10. prRow'.baselined
  BY <1>1, <1>8
<1> QED
  BY <1>8, <1>9, <1>10

\* The other job writes nothing of what this one does.
LEMMA RowSynced ==
  ASSUME PRTypeOK, HeadInv, SyncGitHubPR
  PROVE  /\ prRow' \in PRRowType /\ prRow'.marks = prRow.marks /\ prRow'.baselined = prRow.baselined
         /\ prRow'.checks = prRow.checks /\ prRow'.checksHead = prRow.checksHead /\ prRow'.head \in Heads
<1>1. PICK yes \in BOOLEAN : yes = TRUE
  OBVIOUS
<1> DEFINE r1 == [prRow EXCEPT !.known = yes]
           r2 == [r1 EXCEPT !.state = prSync.state]
           r3 == [r2 EXCEPT !.assigned = prSync.assigned]
           Same(r) == /\ r \in PRRowType /\ r.marks = prRow.marks /\ r.baselined = prRow.baselined
                      /\ r.checks = prRow.checks /\ r.checksHead = prRow.checksHead
<1>2. prRow \in PRRowType
  BY DEF PRTypeOK
<1>3. prSync.state \in PRs /\ prSync.assigned \in BOOLEAN /\ prSync.head \in Heads
  BY DEF PRTypeOK, HeadInv, SyncGitHubPR
<1>4. prRow' = [r3 EXCEPT !.head = prSync.head]
  BY <1>1, Zenon DEF SyncGitHubPR, Update, Synced
<1>5. Same(r1)
  BY <1>2 DEF PRRowType
<1> HIDE DEF r1
<1>6. Same(r2)
  BY <1>3, <1>5 DEF PRRowType
<1> HIDE DEF r2
<1>7. Same(r3)
  BY <1>3, <1>6 DEF PRRowType
<1> HIDE DEF r3
<1> QED
  BY <1>3, <1>4, <1>7 DEF PRRowType

-----------------------------------------------------------------------------
(***************************************************************************)
(* The steps.                                                              *)
(***************************************************************************)
LEMMA PRTypes ==
  PRTypeOK => /\ act \in ActType /\ act.pr \in PRRowType /\ prRow \in PRRowType
              /\ prRow.marks \in [Kinds -> Nat] /\ act.pr.marks \in [Kinds -> Nat]
              /\ hub.seen \subseteq Items /\ act.news \subseteq Items
              /\ told \in [Items -> Nat] /\ prRow.baselined \in BOOLEAN
BY DEF PRTypeOK, ActType, PRRowType

\* An item that becomes visible below a mark came out of order.
LEMMA SubmitStep ==
  ASSUME PRInv, NEW i \in Items, Submit(i)
  PROVE  PRInv'
<1>1. PRTypeOK'
  BY DEF PRInv, PRTypeOK, Submit
<1>2. /\ hub'.seen = hub.seen \cup {i} /\ i \notin hub.seen
      /\ missed' = IF \E j \in hub.seen : j[1] = i[1] /\ j[2] > i[2] THEN missed \cup {i} ELSE missed
      /\ UNCHANGED <<prRow, prSync, act, told, before, rollup, again>>
  BY DEF PRInv, PRTypeOK, Submit
<1>3. i[1] \in Kinds /\ i[2] \in Nat /\ i[2] > 0 /\ i = <<i[1], i[2]>>
  BY NumbersOfItems
<1>4. ListedInv'
  <2>1. PICK b \in Nat : \A j \in hub.seen : j[2] <= b
    BY DEF PRInv, ListedInv
  <2>2. \A j \in hub.seen : j[2] \in Nat
    BY NumbersOfItems, PRTypes DEF PRInv
  <2>3. b + i[2] \in Nat /\ \A j \in hub'.seen : j[2] <= b + i[2]
    BY <1>2, <1>3, <2>1, <2>2
  <2> QED
    BY <2>3 DEF ListedInv
<1>5. \A n \in Nat : i[2] <= n /\ <<i[1], n>> \in hub.seen => i \in missed'
  <2> TAKE n \in Nat
  <2> HAVE i[2] <= n /\ <<i[1], n>> \in hub.seen
  <2>1. n # i[2]
    BY <1>2, <1>3
  <2>2. <<i[1], n>>[1] = i[1] /\ <<i[1], n>>[2] > i[2]
    BY <1>3, <2>1
  <2> QED
    BY <1>2, <2>2
<1> DEFINE old == prRow.marks[i[1]]
           new == act.pr.marks[i[1]]
<1>6. old \in Nat /\ new \in Nat
  BY <1>3, PRTypes DEF PRInv
<1>7. Looked(i) => i \in missed'
  <2> SUFFICES ASSUME Looked(i) PROVE i \in missed'
    OBVIOUS
  <2>1. i[2] <= old
    BY DEF Looked
  <2>2. old = 0 \/ <<i[1], old>> \in hub.seen
    BY <1>3 DEF PRInv, MarksInv
  <2> HIDE DEF old
  <2> QED
    BY <1>3, <1>5, <1>6, <2>1, <2>2
<1>8. act.at \in Looking /\ Fresh(i) => i \in missed'
  <2> SUFFICES ASSUME act.at \in Looking, Fresh(i) PROVE i \in missed'
    OBVIOUS
  <2>1. old < i[2] /\ i[2] <= new /\ KindRead(i[1])
    BY DEF Fresh
  <2>2. new = old \/ <<i[1], new>> \in hub.seen
    BY <1>3, <2>1 DEF PRInv, CopyInv
  <2> HIDE DEF old, new
  <2> QED
    BY <1>3, <1>5, <1>6, <2>1, <2>2
<1>9. MarksInv' /\ CopyInv' /\ HeadInv' /\ RollupInv'
  BY <1>2 DEF PRInv, MarksInv, CopyInv, KindRead, HeadInv, RollupInv
<1>10. NewsInv'
  BY <1>2, <1>8 DEF PRInv, NewsInv, Fresh, KindRead
<1>11. ToldInv'
  BY <1>2, <1>7 DEF PRInv, ToldInv, Looked
<1> QED
  BY <1>1, <1>4, <1>9, <1>10, <1>11 DEF PRInv

\* What GitHub, the users and the listing of the other job change is nothing to this one.
LEMMA QuietStep ==
  ASSUME PRInv, \/ \E h \in Heads, r \in Runs, result \in Results : RunChanges(h, r, result)
                \/ PRChanges \/ SessionChanges \/ ListRepoPRs \/ UNCHANGED prVars
  PROVE  PRInv'
<1>1. hub'.seen = hub.seen /\ UNCHANGED <<prRow, act, told, before, missed, rollup, again>>
  BY DEF PRInv, PRTypeOK, RunChanges, PRChanges, SessionChanges, ListRepoPRs, prVars
<1>2. PRTypeOK'
  <2>1. CASE \E h \in Heads, r \in Runs, result \in Results : RunChanges(h, r, result)
    <3>1. PICK h \in Heads, r \in Runs, result \in Results : RunChanges(h, r, result)
      BY <2>1
    <3> DEFINE now == [hub.runs EXCEPT ![h] = [hub.runs[h] EXCEPT ![r] = result]]
    <3>2. now \in [Heads -> [Runs -> Results]]
      BY DEF PRInv, PRTypeOK
    <3>3. hub' = [hub EXCEPT !.runs = now]
      BY <3>1, Zenon DEF RunChanges
    <3> HIDE DEF now
    <3>4. hub' \in [seen : SUBSET Items, state : PRs, assigned : BOOLEAN, head : Heads, runs : [Heads -> [Runs -> Results]]]
      BY <3>2, <3>3 DEF PRInv, PRTypeOK
    <3> QED
      BY <3>1, <3>4 DEF PRInv, PRTypeOK, RunChanges
  <2>2. CASE PRChanges
    BY <2>2 DEF PRInv, PRTypeOK, PRChanges
  <2>3. CASE SessionChanges
    BY <2>3 DEF PRInv, PRTypeOK, SessionChanges
  <2>4. CASE ListRepoPRs
    BY <2>4 DEF PRInv, PRTypeOK, ListRepoPRs
  <2>5. CASE UNCHANGED prVars
    BY <2>5 DEF PRInv, PRTypeOK, prVars
  <2> QED
    BY <2>1, <2>2, <2>3, <2>4, <2>5
<1>3. prSync'.at = "listed" => prSync'.head \in Heads
  BY DEF PRInv, PRTypeOK, HeadInv, RunChanges, PRChanges, SessionChanges, ListRepoPRs, prVars
<1> QED
  BY <1>1, <1>2, <1>3
     DEF PRInv, ListedInv, MarksInv, CopyInv, KindRead, NewsInv, Fresh, ToldInv, Looked, HeadInv, RollupInv

LEMMA SyncStep ==
  ASSUME PRInv, SyncGitHubPR
  PROVE  PRInv'
<1>1. /\ prRow' \in PRRowType /\ prRow'.marks = prRow.marks /\ prRow'.baselined = prRow.baselined
      /\ prRow'.checks = prRow.checks /\ prRow'.checksHead = prRow.checksHead /\ prRow'.head \in Heads
  BY RowSynced DEF PRInv
<1>2. UNCHANGED <<hub, act, told, before, missed, rollup, again>> /\ prSync'.at = "idle"
  BY DEF SyncGitHubPR, Asleep
<1>3. PRTypeOK'
  <2>1. Asleep \in [at : {"idle", "listed"}, state : PRs, assigned : BOOLEAN, head : Heads \cup {NoHead}]
    <3>1. PICK no \in BOOLEAN : no = FALSE
      OBVIOUS
    <3> QED
      BY <3>1 DEF Asleep, PRs
  <2> QED
    BY <1>1, <2>1 DEF PRInv, PRTypeOK, SyncGitHubPR
<1> QED
  BY <1>1, <1>2, <1>3
     DEF PRInv, ListedInv, MarksInv, CopyInv, KindRead, NewsInv, Fresh, ToldInv, Looked, HeadInv, RollupInv

LEMMA StartStep ==
  ASSUME PRInv, StartActivity
  PROVE  PRInv'
<1>1. act' \in ActType /\ act'.at = "review" /\ act'.pr = prRow /\ act'.news = {} /\ act'.event = "none"
  BY ActivityStarted DEF PRInv
<1>2. act.at = "idle" /\ prRow.known /\ UNCHANGED <<hub, prRow, prSync, sess, told, before, missed, rollup, again>>
  BY DEF StartActivity
<1>3. PRTypeOK'
  BY <1>1, <1>2 DEF PRInv, PRTypeOK
<1> QED
  BY <1>1, <1>2, <1>3, PRTypes
     DEF PRInv, ListedInv, MarksInv, CopyInv, KindRead, NewsInv, Fresh, ToldInv, Looked, HeadInv, RollupInv, Looking, Kinds

LEMMA FailStep ==
  ASSUME PRInv, ActivityFails
  PROVE  PRInv'
<1>1. act' = Rest /\ act'.at = "idle" /\ act'.event = "none" /\ act' \in ActType
  BY RestType DEF ActivityFails
<1>2. act.at \in Looking /\ UNCHANGED <<hub, prRow, prSync, sess, told, before, missed, rollup, again>>
  BY DEF ActivityFails, Looking
<1>3. PRTypeOK'
  BY <1>1, <1>2 DEF PRInv, PRTypeOK
<1> QED
  BY <1>1, <1>2, <1>3
     DEF PRInv, ListedInv, MarksInv, CopyInv, KindRead, NewsInv, Fresh, ToldInv, Looked, HeadInv, RollupInv, Looking

\* A list that is read: what lies above the old mark and is seen is news, up to the new mark.
LEMMA FetchStep ==
  ASSUME PRInv, NEW k \in Kinds, NEW next \in {"comment", "checks"}, FetchItems(k, next),
         k = "review" <=> next = "comment"
  PROVE  PRInv'
<1> DEFINE W == Watermark(k)
<1>1. /\ act' \in ActType
      /\ act'.at = next /\ act'.event = act.event /\ act'.news = act.news \cup NewItems(k)
      /\ act'.pr \in PRRowType
      /\ act'.pr.marks[k] = W
      /\ \A j \in Kinds : j # k => act'.pr.marks[j] = act.pr.marks[j]
      /\ act'.pr.baselined = act.pr.baselined /\ act'.pr.checks = act.pr.checks
      /\ act'.pr.checksHead = act.pr.checksHead /\ act'.pr.head = act.pr.head
  BY FetchedItems DEF PRInv
<1>2. act.at = k /\ UNCHANGED <<hub, prRow, prSync, sess, told, before, missed, rollup, again>>
  BY DEF FetchItems
<1>3. /\ W \in Nat /\ act.pr.marks[k] <= W
      /\ W = act.pr.marks[k] \/ <<k, W>> \in hub.seen
      /\ \A i \in hub.seen : i[1] = k => i[2] <= W
  BY WatermarkReached DEF PRInv
<1> HIDE DEF W
<1>4. /\ k = "review" => next = "comment"
      /\ k = "comment" => next = "checks"
  BY DEF Kinds
<1>5. /\ act.at \in Looking /\ act'.at \in Looking /\ act'.at # "persist" /\ act'.at # "tell"
      /\ ~KindRead(k)
      /\ \A j \in Kinds : KindRead(j)' <=> (j = k \/ KindRead(j))
  BY <1>1, <1>2, <1>4 DEF Kinds, KindRead, Looking
<1>6. act.pr.marks[k] = prRow.marks[k] /\ act.pr.baselined = prRow.baselined
  BY <1>2, <1>5 DEF PRInv, CopyInv, Kinds
<1>7. PRTypeOK'
  BY <1>1, <1>2 DEF PRInv, PRTypeOK
<1>8. CopyInv'
  <2>1. act.at # "persist"
    BY <1>2 DEF Kinds
  <2> QED
    BY <1>1, <1>2, <1>3, <1>5, <1>6, <2>1, PRTypes DEF PRInv, CopyInv
<1>9. NewsInv'
  <2>1. ASSUME NEW i \in act'.news PROVE i \in hub.seen \ OwnItems /\ Fresh(i)'
    <3>1. i \in Items
      BY <1>1, PRTypes DEF PRInv, NewItems
    <3>2. i[1] \in Kinds
      BY <3>1, NumbersOfItems
    <3>3. CASE i \in act.news
      <4>1. i \in hub.seen \ OwnItems /\ Fresh(i)
        BY <1>5, <3>3 DEF PRInv, NewsInv
      <4>2. i[1] # k
        BY <1>5, <4>1 DEF Fresh
      <4> QED
        BY <1>1, <1>2, <1>5, <3>2, <4>1, <4>2 DEF Fresh
    <3>4. CASE i \in NewItems(k)
      <4>1. i \in hub.seen \ OwnItems /\ i[1] = k /\ prRow.baselined /\ i[2] > prRow.marks[k]
        BY <1>6, <3>4 DEF NewItems
      <4>2. i[2] <= W
        BY <1>3, <4>1
      <4> QED
        BY <1>1, <1>2, <1>5, <4>1, <4>2, <3>1, NumbersOfItems, PRTypes DEF Fresh, PRInv
    <3> QED
      BY <1>1, <3>3, <3>4
  <2>2. ASSUME NEW i \in hub.seen \ (OwnItems \cup missed), Fresh(i)' PROVE i \in act'.news
    <3>1. i \in Items /\ i[1] \in Kinds
      BY PRTypes, NumbersOfItems DEF PRInv
    <3>2. CASE i[1] = k
      <4>1. act.pr.baselined /\ i[2] > act.pr.marks[k]
        BY <1>2, <1>6, <2>2, <3>1, <3>2, NumbersOfItems, PRTypes DEF Fresh, PRInv
      <4> QED
        BY <1>1, <3>2, <4>1 DEF NewItems
    <3>3. CASE i[1] # k
      <4>1. Fresh(i)
        BY <1>1, <1>2, <1>5, <2>2, <3>1, <3>3 DEF Fresh
      <4> QED
        BY <1>1, <1>5, <4>1 DEF PRInv, NewsInv
    <3> QED
      BY <3>2, <3>3
  <2> QED
    BY <1>2, <2>1, <2>2 DEF NewsInv
<1>10. MarksInv' /\ ListedInv' /\ ToldInv' /\ HeadInv'
  BY <1>1, <1>2, <1>5 DEF PRInv, ListedInv, MarksInv, ToldInv, Looked, HeadInv, Kinds
<1>11. RollupInv'
  BY <1>1, <1>2, <1>5 DEF PRInv, RollupInv, Kinds
<1> QED
  BY <1>7, <1>8, <1>9, <1>10, <1>11 DEF PRInv

\* A final rollup is told unless it is the one of the row, and a final one of the row stays
\* until there is another.
LEMMA ChecksStep ==
  ASSUME PRInv, FetchChecks
  PROVE  PRInv'
<1>1. /\ act' \in ActType
      /\ act'.at = "persist" /\ act'.news = act.news /\ act'.event = ChecksToTell
      /\ act'.pr \in PRRowType /\ act'.pr.marks = act.pr.marks /\ act'.pr.head = act.pr.head
      /\ act'.pr.checks = ChecksKept /\ act'.pr.checksHead = act.pr.head
  BY FetchedChecks DEF PRInv
<1>2. act.at = "checks" /\ UNCHANGED <<hub, prRow, prSync, sess, told, before, missed, rollup, again>>
  BY DEF FetchChecks
<1>3. PRTypeOK'
  BY <1>1, <1>2 DEF PRInv, PRTypeOK
<1>4. /\ act.at \in Looking /\ act'.at \in Looking
      /\ \A j \in Kinds : KindRead(j)' /\ KindRead(j)
  BY <1>1, <1>2 DEF Looking, Kinds, KindRead
<1>5. CopyInv'
  BY <1>1, <1>2, <1>4 DEF PRInv, CopyInv
<1>6. NewsInv'
  <2>1. \A i \in Items : i[1] \in Kinds
    BY NumbersOfItems
  <2>2. \A i \in Items : Fresh(i)' <=> Fresh(i)
    BY <1>1, <1>2, <1>4, <2>1 DEF Fresh
  <2> QED
    BY <1>1, <1>2, <1>4, <2>2, PRTypes DEF PRInv, NewsInv
<1>7. act.pr.checks = prRow.checks /\ act.pr.checksHead = prRow.checksHead /\ act.pr.head \in Heads /\ act.pr.head # NoHead
  BY <1>2, <1>4, GitHubAssumption DEF PRInv, CopyInv, HeadInv
<1>8. RollupInv'
  <2>1. ~again /\ rollup \in {"none", prRow.checks}
    BY <1>2 DEF PRInv, RollupInv
  <2>2. ChecksToTell # "none" => /\ ChecksKept = ChecksToTell
                                 /\ prRow.checksHead = act.pr.head => prRow.checks # ChecksToTell
    BY <1>7 DEF ChecksToTell, ChecksKept, ChecksBefore
  <2>3. ChecksToTell = "none" /\ prRow.checksHead = act.pr.head /\ Final(prRow.checks) => ChecksKept = prRow.checks
    BY <1>7 DEF ChecksToTell, ChecksKept, ChecksBefore, Final
  <2> QED
    BY <1>1, <1>2, <2>1, <2>2, <2>3 DEF RollupInv
<1>9. MarksInv' /\ ListedInv' /\ ToldInv' /\ HeadInv'
  BY <1>1, <1>2, <1>4 DEF PRInv, ListedInv, MarksInv, ToldInv, Looked, HeadInv
<1> QED
  BY <1>3, <1>5, <1>6, <1>8, <1>9 DEF PRInv

\* The marks of the row move, and what they pass is news, is known to be old, or was missed.
LEMMA WriteStep ==
  ASSUME PRInv, UpdateActivity
  PROVE  PRInv'
<1>1. /\ prRow' \in PRRowType /\ prRow'.marks = act.pr.marks /\ prRow'.baselined /\ prRow'.checks = act.pr.checks
      /\ prRow'.checksHead = act.pr.checksHead /\ prRow'.head = prRow.head /\ prRow'.known = prRow.known
      /\ act' \in ActType /\ act'.at = "tell" /\ act'.news = act.news /\ act'.event = act.event
  BY RowUpdated DEF PRInv
<1>2. /\ act.at = "persist" /\ act.at \in Looking /\ act'.at \notin Looking /\ \A k \in Kinds : KindRead(k)
      /\ UNCHANGED <<hub, prSync, sess, told, missed, again>>
      /\ before' = IF prRow.baselined THEN before ELSE {i \in hub.seen : i[2] <= act.pr.marks[i[1]]}
      /\ rollup' = IF prRow.checksHead = act.pr.checksHead THEN rollup ELSE "none"
  BY <1>1 DEF UpdateActivity, Looking, KindRead, Kinds
<1>3. PRTypeOK'
  BY <1>1, <1>2 DEF PRInv, PRTypeOK
<1>4. \A k \in Kinds : /\ prRow.marks[k] \in Nat /\ act.pr.marks[k] \in Nat /\ prRow.marks[k] <= act.pr.marks[k]
                       /\ (act.pr.marks[k] = prRow.marks[k] \/ <<k, act.pr.marks[k]>> \in hub.seen)
  BY <1>2, PRTypes DEF PRInv, CopyInv
<1>5. MarksInv'
  BY <1>1, <1>2, <1>4 DEF PRInv, MarksInv
<1>6. \A i \in Items : i[1] \in Kinds /\ i[2] \in Nat
  BY NumbersOfItems
<1>7. ASSUME NEW i \in Items
      PROVE  /\ Looked(i) => Looked(i)'
             /\ Fresh(i) => ~Looked(i) /\ Looked(i)'
             /\ prRow.baselined /\ ~Looked(i) /\ i[2] <= act.pr.marks[i[1]] => Fresh(i)
  <2> DEFINE old == prRow.marks[i[1]]
             new == act.pr.marks[i[1]]
  <2>1. old \in Nat /\ new \in Nat /\ old <= new /\ i[2] \in Nat
    BY <1>4, <1>6
  <2>2. /\ Looked(i) <=> prRow.baselined /\ i[2] <= old
        /\ Looked(i)' <=> i[2] <= new
        /\ Fresh(i) <=> prRow.baselined /\ old < i[2] /\ i[2] <= new
    BY <1>1, <1>2, <1>6 DEF Looked, Fresh
  <2> HIDE DEF old
  <2>3. Looked(i) => Looked(i)'
    BY <2>1, <2>2
  <2>4. Fresh(i) => ~Looked(i) /\ Looked(i)'
    BY <2>1, <2>2
  <2>5. prRow.baselined /\ ~Looked(i) /\ i[2] <= new => Fresh(i)
    BY <2>1, <2>2
  <2> QED
    BY <2>3, <2>4, <2>5
<1>8. ToldInv'
  <2>1. \A i \in Items : told'[i] \in {0, 1} /\ (told'[i] = 1 => i \in hub'.seen /\ Looked(i)')
    BY <1>2, <1>7 DEF PRInv, ToldInv
  <2>2. ASSUME NEW i \in act'.news PROVE told'[i] = 0 /\ i \in hub'.seen /\ Looked(i)'
    <3>1. i \in hub.seen \ OwnItems /\ Fresh(i) /\ i \in Items
      BY <1>1, <1>2, PRTypes DEF PRInv, NewsInv
    <3>2. ~Looked(i)
      BY <1>7, <3>1
    <3>3. Looked(i)'
      BY <1>7, <3>1
    <3> QED
      BY <1>2, <3>1, <3>2, <3>3 DEF PRInv, ToldInv
  <2>3. ASSUME NEW i \in hub'.seen \ (OwnItems \cup before' \cup missed'), Looked(i)'
        PROVE  told'[i] = 1 \/ i \in act'.news
    <3>1. i \in Items /\ i \in hub.seen \ (OwnItems \cup missed) /\ i[1] \in Kinds /\ i[2] \in Nat
      BY <1>2, <1>6, PRTypes DEF PRInv
    <3>2. i[2] <= act.pr.marks[i[1]]
      BY <1>1, <2>3 DEF Looked
    <3>3. prRow.baselined /\ i \notin before
      BY <1>2, <2>3, <3>1, <3>2
    <3>4. CASE Looked(i)
      BY <1>2, <3>1, <3>3, <3>4 DEF PRInv, ToldInv
    <3>5. CASE ~Looked(i)
      <4>1. Fresh(i)
        BY <1>7, <3>1, <3>2, <3>3, <3>5
      <4> QED
        BY <1>1, <1>2, <3>1, <4>1 DEF PRInv, NewsInv
    <3> QED
      BY <3>4, <3>5
  <2> QED
    BY <1>1, <2>1, <2>2, <2>3 DEF ToldInv
<1>9. RollupInv'
  <2>1. /\ ~again /\ rollup \in {"none", prRow.checks}
        /\ act.event # "none" => act.pr.checks = act.event /\ (prRow.checksHead = act.pr.checksHead => prRow.checks # act.event)
        /\ act.event = "none" /\ prRow.checksHead = act.pr.checksHead /\ Final(prRow.checks) => act.pr.checks = prRow.checks
    BY <1>2 DEF PRInv, RollupInv
  <2>2. rollup \in {"none", "passed", "failed"}
    BY DEF PRInv, PRTypeOK
  <2> QED
    BY <1>1, <1>2, <2>1, <2>2 DEF RollupInv, Final
<1>10. CopyInv' /\ NewsInv' /\ ListedInv' /\ HeadInv'
  BY <1>1, <1>2 DEF PRInv, CopyInv, NewsInv, ListedInv, HeadInv
<1> QED
  BY <1>3, <1>5, <1>8, <1>9, <1>10 DEF PRInv

\* Everything that is news is told once, and what is not told is lost by a stop.
LEMMA TellStep ==
  ASSUME PRInv, PublishNews \/ RestartJobs
  PROVE  PRInv'
<1>1. act' = Rest /\ act' \in ActType /\ act'.at = "idle" /\ act'.event = "none" /\ UNCHANGED <<hub, prRow, before>>
  BY RestType DEF PublishNews, RestartJobs
<1>2. Asleep \in [at : {"idle", "listed"}, state : PRs, assigned : BOOLEAN, head : Heads \cup {NoHead}] /\ Asleep.at = "idle"
  <2>1. PICK no \in BOOLEAN : no = FALSE
    OBVIOUS
  <2> QED
    BY <2>1 DEF Asleep, PRs
<1>3. CopyInv' /\ NewsInv' /\ MarksInv' /\ ListedInv' /\ HeadInv'
  BY <1>1, <1>2 DEF PRInv, CopyInv, NewsInv, MarksInv, ListedInv, HeadInv, Looking, PublishNews, RestartJobs
<1>4. CASE PublishNews
  <2>1. /\ act.at = "tell"
        /\ told' = [i \in Items |-> IF i \in act.news THEN told[i] + 1 ELSE told[i]]
        /\ rollup' = IF act.event = "none" THEN rollup ELSE act.event
        /\ again' = (again \/ (act.event # "none" /\ act.event = rollup))
        /\ UNCHANGED <<prSync, sess, missed>>
    BY <1>4 DEF PublishNews
  <2>2. PRTypeOK'
    <3>1. act.event \in {"none", "passed", "failed"}
      BY PRTypes DEF PRInv, ActType
    <3>2. told' \in [Items -> Nat]
      BY <2>1, PRTypes DEF PRInv
    <3> QED
      BY <1>1, <2>1, <3>1, <3>2 DEF PRInv, PRTypeOK
  <2>3. ToldInv'
    <3>1. \A i \in Items : i \in act.news => told[i] = 0 /\ told'[i] = 1 /\ i \in hub.seen /\ Looked(i)
      BY <2>1 DEF PRInv, ToldInv
    <3>2. \A i \in Items : i \notin act.news => told'[i] = told[i]
      BY <2>1
    <3>3. \A i \in Items : Looked(i)' <=> Looked(i)
      BY <1>1 DEF Looked
    <3> QED
      BY <1>1, <2>1, <3>1, <3>2, <3>3, PRTypes DEF PRInv, ToldInv
  <2>4. RollupInv'
    <3>1. ~again /\ (act.event # "none" => prRow.checks = act.event /\ rollup # act.event)
          /\ (act.event = "none" => rollup \in {"none", prRow.checks})
      BY <2>1 DEF PRInv, RollupInv
    <3>2. ~again'
      BY <2>1, <3>1, Zenon
    <3> QED
      BY <1>1, <2>1, <3>1, <3>2 DEF RollupInv
  <2> QED
    BY <1>3, <2>2, <2>3, <2>4 DEF PRInv
<1>5. CASE RestartJobs
  <2>1. /\ missed' = IF act.at = "tell" THEN missed \cup act.news ELSE missed
        /\ rollup' = IF act.at = "tell" /\ act.event # "none" THEN act.event ELSE rollup
        /\ prSync' = Asleep /\ UNCHANGED <<sess, told, again>>
    BY <1>5 DEF RestartJobs
  <2>2. PRTypeOK'
    <3>1. act.event \in {"none", "passed", "failed"} /\ act.news \subseteq Items
      BY PRTypes DEF PRInv, ActType
    <3> QED
      BY <1>1, <1>2, <2>1, <3>1 DEF PRInv, PRTypeOK
  <2>3. ToldInv'
    <3>1. \A i : Looked(i)' <=> Looked(i)
      BY <1>1 DEF Looked
    <3> QED
      BY <1>1, <2>1, <3>1 DEF PRInv, ToldInv
  <2>4. RollupInv'
    BY <1>1, <2>1 DEF PRInv, RollupInv
  <2> QED
    BY <1>3, <2>2, <2>3, <2>4 DEF PRInv
<1> QED
  BY <1>4, <1>5

LEMMA PRInitInv == PRInit => PRInv
<1> SUFFICES ASSUME PRInit PROVE PRInv
  OBVIOUS
<1>1. PICK no \in BOOLEAN : no = FALSE
  OBVIOUS
<1>2. PRTypeOK
  <2>1. Asleep \in [at : {"idle", "listed"}, state : PRs, assigned : BOOLEAN, head : Heads \cup {NoHead}]
    BY <1>1 DEF Asleep, PRs
  <2>2. hub \in [seen : SUBSET Items, state : PRs, assigned : BOOLEAN, head : Heads, runs : [Heads -> [Runs -> Results]]]
    <3>1. [h \in Heads |-> [r \in Runs |-> "absent"]] \in [Heads -> [Runs -> Results]]
      BY DEF Results
    <3>2. hub \in [seen : {{}}, state : {"draft", "open"}, assigned : BOOLEAN, head : Heads,
                   runs : {[h \in Heads |-> [r \in Runs |-> "absent"]]}]
      BY DEF PRInit
    <3> QED
      BY <3>1, <3>2 DEF PRs
  <2> QED
    BY <2>1, <2>2, RowTypes, RestType DEF PRInit, PRTypeOK
<1>3. hub.seen = {}
  BY DEF PRInit
<1>4. ~NoPRRow.known
  BY DEF NoPRRow
<1>5. Asleep.at = "idle"
  BY DEF Asleep
<1>6. Rest.at = "idle" /\ Rest.event = "none"
  BY RestType
<1>7. ToldInv
  BY <1>3, <1>6 DEF PRInit, ToldInv
<1> QED
  BY <1>2, <1>3, <1>4, <1>5, <1>6, <1>7, RowTypes
     DEF PRInit, PRInv, ListedInv, MarksInv, CopyInv, NewsInv, HeadInv, RollupInv, Looking

LEMMA PRStep ==
  ASSUME PRInv, [PRNext]_prVars
  PROVE  PRInv'
<1>1. CASE FetchReviews
  BY <1>1, FetchStep DEF FetchReviews, Kinds
<1>2. CASE FetchComments
  BY <1>2, FetchStep DEF FetchComments, Kinds
<1> QED
  BY <1>1, <1>2, SubmitStep, QuietStep, SyncStep, StartStep, FailStep, ChecksStep, WriteStep, TellStep
     DEF PRNext, OnGitHub, PRJobs

\* A review or comment is told at most once and none is skipped, and a rollup of the checks is
\* told again only after it was different: for any items, heads and check runs, through failing
\* calls, restarts and the other job's writes of the row (practivity.go SyncPRActivity,
\* sessionservice.go SyncPRActivity, gitservice.go syncGitHubPR).
THEOREM NewsAreToldOnce == PRSpec => []EachIsToldOnce
<1>1. PRInv => EachIsToldOnce
  BY DEF PRInv, ToldInv, RollupInv, EachIsToldOnce, NothingToldTwice, NothingSkipped, RollupsAreNews
<1> QED
  BY <1>1, PRInitInv, PRStep, PTL DEF PRSpec

-----------------------------------------------------------------------------
(***************************************************************************)
(* BundleFiles: the row and the two files.                                 *)
(***************************************************************************)
All == Plugins \cup Servers \cup Others

McpType   == [ok : BOOLEAN, servers : SUBSET All]
RulesType == [ok : BOOLEAN, plugins : SUBSET All, approved : SUBSET All, sandbox : BOOLEAN]
Places    == {"idle", "mcp", "mcpWrite", "settings", "settingsWrite", "done", "merged", "root", "rootWrite", "reread"}
ScribeType == [at : Places, bundles : SUBSET Bundles, failed : BOOLEAN, mcp : McpType, settings : RulesType]

FilesTypes ==
  /\ DOMAIN catalog \subseteq Bundles
  /\ \A b \in DOMAIN catalog : catalog[b].plugins \subseteq Plugins /\ catalog[b].servers \subseteq Servers
  /\ defined \subseteq Servers
  /\ selected \subseteq Bundles
  /\ mcp \in McpType
  /\ settings \in RulesType
  /\ scribe \in [Writers -> ScribeType]
  /\ own \in [servers : SUBSET All, plugins : SUBSET All, approved : SUBSET All]
  /\ disturbed \subseteq Writing
  /\ clean \in BOOLEAN

\* The file of the servers, and that of the plugins, agrees with the row.
McpFollows      == mcp.servers \cap Managed.servers = SelectedServers(selected)
SettingsFollows == /\ settings.approved \cap Managed.servers = SelectedServers(selected)
                   /\ settings.plugins \cap Managed.plugins = ResolveBundles(selected).plugins

\* The entries of others are as their owners left them.
OthersKept == /\ mcp.servers \cap Others = own.servers
              /\ settings.plugins \cap Others = own.plugins
              /\ settings.approved \cap Others = own.approved

\* How far a writer has come whom nobody has interfered with.
Undisturbed(w) ==
  w \notin disturbed =>
    /\ scribe[w].at \in {"mcp", "mcpWrite", "settings", "settingsWrite", "done"} => scribe[w].bundles = selected
    /\ scribe[w].at = "mcpWrite" => scribe[w].mcp = WithServers(mcp, selected)
    /\ scribe[w].at = "settingsWrite" => scribe[w].settings = WithPlugins(settings, selected, ~scribe[w].failed)
    /\ scribe[w].at \in {"settings", "settingsWrite", "done"} /\ ~scribe[w].failed => McpFollows
    /\ scribe[w].at = "done" /\ ~scribe[w].failed => SettingsFollows

\* Only .mcp.json and the plugins can fail a writer.
NoErrorYet(w) == scribe[w].at \in {"mcp", "mcpWrite", "merged", "root", "rootWrite", "reread"} => ~scribe[w].failed

FilesInv ==
  /\ FilesTypes
  /\ OthersKept
  /\ \A w \in Writers : Undisturbed(w) /\ NoErrorYet(w)
  /\ clean => Writing = {} /\ McpFollows /\ SettingsFollows

-----------------------------------------------------------------------------
\* What the files select is of the catalog, and of the catalog only.
LEMMA Selections ==
  ASSUME FilesTypes, NEW names
  PROVE  /\ Managed.servers \subseteq Servers /\ Managed.plugins \subseteq Plugins
         /\ SelectedServers(names) \subseteq Managed.servers
         /\ ResolveBundles(names).plugins \subseteq Managed.plugins
         /\ Managed.servers \cap Others = {} /\ Managed.plugins \cap Others = {}
BY OthersAreNotInCatalog DEF FilesTypes, Managed, SelectedServers, ResolveBundles

LEMMA ServersWritten ==
  ASSUME FilesTypes, NEW file \in McpType, NEW names
  PROVE  /\ WithServers(file, names) \in McpType
         /\ WithServers(file, names).servers \cap Managed.servers = SelectedServers(names)
         /\ WithServers(file, names).servers \cap Others = file.servers \cap Others
<1>1. PICK yes \in BOOLEAN : yes = TRUE
  OBVIOUS
<1> DEFINE kept == ReplaceManaged(file.servers, Managed.servers, SelectedServers(names))
<1>2. /\ kept \cap Managed.servers = SelectedServers(names)
      /\ kept \cap Others = file.servers \cap Others
      /\ kept \subseteq All
  <2>1. file.servers \subseteq All
    BY DEF McpType
  <2> QED
    BY <2>1, Selections DEF ReplaceManaged, All
<1> HIDE DEF kept
<1>3. WithServers(file, names) = [ok |-> yes, servers |-> kept]
  BY <1>1 DEF WithServers, kept
<1> QED
  BY <1>2, <1>3 DEF McpType

LEMMA PluginsWritten ==
  ASSUME FilesTypes, NEW file \in RulesType, NEW names, NEW written \in BOOLEAN
  PROVE  /\ WithPlugins(file, names, written) \in RulesType
         /\ WithPlugins(file, names, written).plugins \cap Managed.plugins = ResolveBundles(names).plugins
         /\ written => WithPlugins(file, names, written).approved \cap Managed.servers = SelectedServers(names)
         /\ WithPlugins(file, names, written).plugins \cap Others = file.plugins \cap Others
         /\ WithPlugins(file, names, written).approved \cap Others = file.approved \cap Others
<1> DEFINE plugins == ReplaceManaged(file.plugins, Managed.plugins, ResolveBundles(names).plugins)
           approved == IF written THEN ReplaceApprovals(file.approved, Managed.servers, SelectedServers(names)) ELSE file.approved
           one == [file EXCEPT !.plugins = plugins]
<1>1. file.plugins \subseteq All /\ file.approved \subseteq All
  BY DEF RulesType
<1>2. /\ plugins \cap Managed.plugins = ResolveBundles(names).plugins
      /\ plugins \cap Others = file.plugins \cap Others
      /\ plugins \subseteq All
  BY <1>1, Selections DEF ReplaceManaged, All
<1>3. /\ written => approved \cap Managed.servers = SelectedServers(names)
      /\ approved \cap Others = file.approved \cap Others
      /\ approved \subseteq All
  BY <1>1, Selections DEF ReplaceApprovals, All
<1>4. WithPlugins(file, names, written) = [one EXCEPT !.approved = approved]
  <2>1. one.approved = file.approved
    BY DEF RulesType
  <2> QED
    BY <2>1, Zenon DEF WithPlugins, one
<1> HIDE DEF plugins, approved
<1>5. one \in RulesType /\ one.plugins = plugins /\ one.approved = file.approved
  BY <1>2 DEF RulesType
<1> HIDE DEF one
<1>6. [one EXCEPT !.approved = approved] \in RulesType
      /\ [one EXCEPT !.approved = approved].plugins = plugins
      /\ [one EXCEPT !.approved = approved].approved = approved
  BY <1>3, <1>5 DEF RulesType
<1> QED
  BY <1>2, <1>3, <1>4, <1>6

\* A writer does something, the others do not.
LEMMA OneMoves ==
  ASSUME FilesTypes, NEW w \in Writers, NEW s \in ScribeType, scribe' = [scribe EXCEPT ![w] = s]
  PROVE  /\ scribe' \in [Writers -> ScribeType] /\ scribe'[w] = s
         /\ \A v \in Writers \ {w} : scribe'[v] = scribe[v]
         /\ Writing' = IF s.at = "idle" THEN Writing \ {w} ELSE Writing \cup {w}
BY DEF FilesTypes, Writing, Is

LEMMA At ==
  ASSUME NEW s \in ScribeType, NEW at \in Places
  PROVE  /\ [s EXCEPT !.at = at] \in ScribeType
         /\ [s EXCEPT !.at = at].at = at
         /\ [s EXCEPT !.at = at].bundles = s.bundles /\ [s EXCEPT !.at = at].failed = s.failed
         /\ [s EXCEPT !.at = at].mcp = s.mcp /\ [s EXCEPT !.at = at].settings = s.settings
BY DEF ScribeType

\* It takes names; it fails; it notes a file.
LEMMA Taken ==
  ASSUME FilesTypes, NEW w \in Writers, NEW names \in SUBSET Bundles, NEW at \in Places, Takes(w, names, at)
  PROVE  /\ scribe' = [scribe EXCEPT ![w] = scribe'[w]]
         /\ scribe'[w] \in ScribeType /\ scribe'[w].at = at /\ scribe'[w].bundles = names /\ ~scribe'[w].failed
         /\ ~clean' /\ clean' \in BOOLEAN
<1>1. PICK no \in BOOLEAN, yes \in BOOLEAN : no = FALSE /\ yes = TRUE
  OBVIOUS
<1> DEFINE file == [ok |-> yes, servers |-> {}]
           rules == [ok |-> yes, plugins |-> {}, approved |-> {}, sandbox |-> no]
           rest == [at |-> "idle", bundles |-> {}, failed |-> no, mcp |-> file, settings |-> rules]
           one == [rest EXCEPT !.at = at]
           two == [one EXCEPT !.bundles = names]
<1>2. file \in McpType /\ rules \in RulesType
  BY DEF McpType, RulesType
<1>3. rest = Resting
  BY <1>1 DEF Resting, NoFile, NoRules
<1> HIDE DEF file, rules
<1>4. rest \in ScribeType /\ rest.failed = no
  BY <1>2 DEF ScribeType, Places
<1> HIDE DEF rest
<1>5. one \in ScribeType /\ one.failed = no /\ one.at = at
  BY <1>4 DEF ScribeType
<1> HIDE DEF one
<1>6. two \in ScribeType /\ two.failed = no /\ two.at = at /\ two.bundles = names
  BY <1>5 DEF ScribeType
<1>7. scribe' = [scribe EXCEPT ![w] = two]
  BY <1>3, Zenon DEF Takes, two, one
<1> HIDE DEF two
<1>8. scribe'[w] = two
  BY <1>7 DEF FilesTypes
<1> QED
  BY <1>1, <1>6, <1>7, <1>8 DEF Takes

LEMMA Failed ==
  ASSUME FilesTypes, NEW w \in Writers, NEW at \in Places, Fails(w, at)
  PROVE  /\ scribe' = [scribe EXCEPT ![w] = scribe'[w]]
         /\ scribe'[w] \in ScribeType /\ scribe'[w].at = at /\ scribe'[w].failed
         /\ scribe'[w].bundles = scribe[w].bundles
<1>1. PICK yes \in BOOLEAN : yes = TRUE
  OBVIOUS
<1> DEFINE one == [scribe[w] EXCEPT !.at = at]
           two == [one EXCEPT !.failed = yes]
<1>2. scribe[w] \in ScribeType
  BY DEF FilesTypes
<1>3. one \in ScribeType /\ one.at = at /\ one.bundles = scribe[w].bundles
  BY <1>2, At
<1>4. scribe' = [scribe EXCEPT ![w] = two]
  BY <1>1, Zenon DEF Fails
<1> HIDE DEF one
<1>5. two \in ScribeType /\ two.at = at /\ two.failed = yes /\ two.bundles = scribe[w].bundles
  BY <1>3 DEF ScribeType
<1> HIDE DEF two
<1>6. scribe'[w] = two
  BY <1>4 DEF FilesTypes
<1> QED
  BY <1>1, <1>4, <1>5, <1>6

LEMMA NotedMcp ==
  ASSUME FilesTypes, NEW w \in Writers, NEW at \in Places, NEW file \in McpType,
         scribe' = [scribe EXCEPT ![w].at = at, ![w].mcp = file]
  PROVE  /\ scribe' = [scribe EXCEPT ![w] = scribe'[w]]
         /\ scribe'[w] \in ScribeType /\ scribe'[w].at = at /\ scribe'[w].mcp = file
         /\ scribe'[w].bundles = scribe[w].bundles /\ scribe'[w].failed = scribe[w].failed
<1> DEFINE one == [scribe[w] EXCEPT !.at = at]
           two == [one EXCEPT !.mcp = file]
<1>2. scribe[w] \in ScribeType
  BY DEF FilesTypes
<1>3. one \in ScribeType /\ one.at = at /\ one.bundles = scribe[w].bundles /\ one.failed = scribe[w].failed
  BY <1>2, At
<1>4. scribe' = [scribe EXCEPT ![w] = two]
  BY Zenon
<1> HIDE DEF one
<1>5. /\ two \in ScribeType /\ two.at = at /\ two.mcp = file
      /\ two.bundles = scribe[w].bundles /\ two.failed = scribe[w].failed
  BY <1>3 DEF ScribeType
<1> HIDE DEF two
<1>6. scribe'[w] = two
  BY <1>4 DEF FilesTypes
<1> QED
  BY <1>4, <1>5, <1>6

LEMMA NotedSettings ==
  ASSUME FilesTypes, NEW w \in Writers, NEW at \in Places, NEW file \in RulesType,
         scribe' = [scribe EXCEPT ![w].settings = file, ![w].at = at]
  PROVE  /\ scribe' = [scribe EXCEPT ![w] = scribe'[w]]
         /\ scribe'[w] \in ScribeType /\ scribe'[w].at = at /\ scribe'[w].settings = file
         /\ scribe'[w].bundles = scribe[w].bundles /\ scribe'[w].failed = scribe[w].failed
<1> DEFINE one == [scribe[w] EXCEPT !.settings = file]
           two == [one EXCEPT !.at = at]
<1>2. scribe[w] \in ScribeType
  BY DEF FilesTypes
<1>3. /\ one \in ScribeType /\ one.settings = file /\ one.bundles = scribe[w].bundles
      /\ one.failed = scribe[w].failed
  BY <1>2 DEF ScribeType
<1>4. scribe' = [scribe EXCEPT ![w] = two]
  BY Zenon
<1> HIDE DEF one
<1>5. /\ two \in ScribeType /\ two.at = at /\ two.settings = file
      /\ two.bundles = scribe[w].bundles /\ two.failed = scribe[w].failed
  BY <1>3, At
<1> HIDE DEF two
<1>6. scribe'[w] = two
  BY <1>4 DEF FilesTypes
<1> QED
  BY <1>4, <1>5, <1>6

LEMMA Moved ==
  ASSUME FilesTypes, NEW w \in Writers, NEW at \in Places, scribe' = [scribe EXCEPT ![w].at = at]
  PROVE  /\ scribe' = [scribe EXCEPT ![w] = scribe'[w]]
         /\ scribe'[w] \in ScribeType /\ scribe'[w].at = at
         /\ scribe'[w].bundles = scribe[w].bundles /\ scribe'[w].failed = scribe[w].failed
<1> DEFINE one == [scribe[w] EXCEPT !.at = at]
<1>2. scribe[w] \in ScribeType
  BY DEF FilesTypes
<1>3. one \in ScribeType /\ one.at = at /\ one.bundles = scribe[w].bundles /\ one.failed = scribe[w].failed
  BY <1>2, At
<1>4. scribe' = [scribe EXCEPT ![w] = one]
  BY Zenon
<1> HIDE DEF one
<1>5. scribe'[w] = one
  BY <1>4 DEF FilesTypes
<1> QED
  BY <1>3, <1>4, <1>5

\* What w does to the names or the files disturbs all others.
LEMMA OthersGoOn ==
  ASSUME FilesInv, NEW w \in Writers, scribe' = [scribe EXCEPT ![w] = scribe'[w]],
         UNCHANGED <<catalog, defined>>, disturbed \ {w} \subseteq disturbed',
         UNCHANGED <<selected, mcp, settings>> \/ OthersWriting(w) \subseteq disturbed',
         NEW v \in Writers \ {w}
  PROVE  Undisturbed(v)' /\ NoErrorYet(v)'
<1>1. scribe'[v] = scribe[v]
  BY DEF FilesInv, FilesTypes
<1>2. CASE UNCHANGED <<selected, mcp, settings>>
  <2>1. McpFollows' <=> McpFollows
    BY <1>2 DEF McpFollows, Managed, SelectedServers, ResolveBundles
  <2>2. SettingsFollows' <=> SettingsFollows
    BY <1>2 DEF SettingsFollows, Managed, SelectedServers, ResolveBundles
  <2>7. UNCHANGED <<Managed, SelectedServers(selected), ResolveBundles(selected)>>
    BY <1>2 DEF Managed, SelectedServers, ResolveBundles
  <2>3. WithServers(mcp, selected)' = WithServers(mcp, selected)
    BY <1>2, <2>7 DEF WithServers
  <2>4. WithPlugins(settings, selected, ~scribe[v].failed)' = WithPlugins(settings, selected, ~scribe[v].failed)
    BY <1>1, <1>2, <2>7 DEF WithPlugins
  <2>5. Undisturbed(v) /\ (v \notin disturbed' => v \notin disturbed)
    BY DEF FilesInv
  <2>6. Undisturbed(v)'
    BY <1>1, <1>2, <2>1, <2>2, <2>3, <2>4, <2>5 DEF Undisturbed
  <2> QED
    BY <1>1, <2>6 DEF FilesInv, Is, NoErrorYet
<1>3. CASE OthersWriting(w) \subseteq disturbed'
  <2>1. scribe[v].at = "idle" \/ v \in disturbed'
    BY <1>3 DEF OthersWriting, Writing, Is
  <2>2. Undisturbed(v)'
    BY <1>1, <2>1 DEF Undisturbed
  <2> QED
    BY <1>1, <2>2 DEF FilesInv, Is, NoErrorYet
<1> QED
  BY <1>2, <1>3

LEMMA TakeStep ==
  ASSUME FilesInv, NEW w \in Writers, NEW names \in SUBSET Bundles,
         SetBundles(w, names) \/ ApplyClaudeBundles(w) \/ RunSetup(w) \/ AddDefaults(w, names)
  PROVE  FilesInv'
<1>1. /\ scribe[w].at = "idle" /\ UNCHANGED <<catalog, defined, mcp, settings, own>>
      /\ w \notin disturbed
  BY DEF FilesInv, FilesTypes, Writing, Is, SetBundles, ApplyClaudeBundles, RunSetup, AddDefaults
<1>2. PICK set \in SUBSET Bundles, at \in {"mcp", "root", "merged"} :
        /\ Takes(w, set, at) /\ (at = "mcp" => set = selected')
        /\ selected' \subseteq Bundles
        /\ \/ selected' = selected /\ disturbed' = disturbed
           \/ disturbed' = disturbed \cup OthersWriting(w)
  <2>1. CASE SetBundles(w, names)
    BY <1>1, <2>1 DEF SetBundles
  <2>2. CASE ApplyClaudeBundles(w)
    BY <1>1, <2>2 DEF ApplyClaudeBundles, FilesInv, FilesTypes
  <2>3. CASE RunSetup(w)
    BY <1>1, <2>3 DEF RunSetup, FilesInv, FilesTypes
  <2>4. CASE AddDefaults(w, names)
    BY <1>1, <2>4 DEF AddDefaults, FilesInv, FilesTypes
  <2> QED
    BY <2>1, <2>2, <2>3, <2>4
<1>3. /\ scribe' = [scribe EXCEPT ![w] = scribe'[w]] /\ scribe'[w] \in ScribeType
      /\ scribe'[w].at = at /\ scribe'[w].bundles = set /\ ~scribe'[w].failed /\ ~clean' /\ clean' \in BOOLEAN
  BY <1>2, Taken DEF FilesInv, Places
<1>4. scribe' \in [Writers -> ScribeType] /\ Writing' = Writing \cup {w}
  BY <1>3, OneMoves DEF FilesInv
<1>5. disturbed' \subseteq Writing'
  BY <1>2, <1>4 DEF FilesInv, FilesTypes, OthersWriting
<1>6. FilesTypes'
  BY <1>1, <1>2, <1>3, <1>4, <1>5 DEF FilesInv, FilesTypes
<1>7. OthersKept'
  BY <1>1 DEF FilesInv, OthersKept
<1>8. Undisturbed(w)'
  BY <1>2, <1>3 DEF Undisturbed
<1>9. \A v \in Writers \ {w} : Undisturbed(v)' /\ NoErrorYet(v)'
  BY <1>1, <1>2, <1>3, OthersGoOn
<1> QED
  BY <1>3, <1>6, <1>7, <1>8, <1>9 DEF FilesInv, Is, NoErrorYet

\* A step of w leaves the invariant true if it does for w and for the files.
LEMMA WriterStep ==
  ASSUME FilesInv, NEW w \in Writers, scribe' = [scribe EXCEPT ![w] = scribe'[w]], scribe'[w] \in ScribeType,
         UNCHANGED <<catalog, defined>>, selected' \subseteq Bundles, mcp' \in McpType, settings' \in RulesType,
         own' \in [servers : SUBSET All, plugins : SUBSET All, approved : SUBSET All],
         disturbed \ {w} \subseteq disturbed', disturbed' \subseteq disturbed \cup OthersWriting(w),
         scribe'[w].at = "idle" => w \notin disturbed',
         UNCHANGED <<selected, mcp, settings>> \/ OthersWriting(w) \subseteq disturbed',
         OthersKept', Undisturbed(w)', NoErrorYet(w)',
         clean' \in BOOLEAN,
         clean' => OthersWriting(w) = {} /\ scribe'[w].at = "idle" /\ McpFollows' /\ SettingsFollows'
  PROVE  FilesInv'
<1>1. /\ scribe' \in [Writers -> ScribeType]
      /\ Writing' = IF scribe'[w].at = "idle" THEN Writing \ {w} ELSE Writing \cup {w}
  BY OneMoves DEF FilesInv
<1>2. disturbed' \subseteq Writing'
  BY <1>1 DEF FilesInv, FilesTypes, OthersWriting
<1>3. FilesTypes'
  BY <1>1, <1>2 DEF FilesInv, FilesTypes
<1>4. \A v \in Writers \ {w} : Undisturbed(v)' /\ NoErrorYet(v)'
  BY OthersGoOn
<1>5. clean' => Writing' = {}
  BY <1>1 DEF OthersWriting
<1> QED
  BY <1>3, <1>4, <1>5 DEF FilesInv, Is, NoErrorYet

\* Who is writing knows that the last writer has not ended.
LEMMA NotClean ==
  ASSUME FilesInv, NEW w \in Writers, scribe[w].at # "idle"
  PROVE  clean = FALSE /\ scribe[w] \in ScribeType /\ w \notin OthersWriting(w)
BY DEF FilesInv, FilesTypes, Writing, Is, OthersWriting

LEMMA NamesStep ==
  ASSUME FilesInv, NEW w \in Writers, UpdateBundles(w) \/ GetBundles(w)
  PROVE  FilesInv'
<1>1. CASE UpdateBundles(w)
  <2>1. scribe' = [scribe EXCEPT ![w] = scribe'[w]] /\ scribe'[w] \in ScribeType /\ scribe'[w].at = "root"
    BY <1>1, Moved DEF UpdateBundles, FilesInv, Places
  <2>2. Undisturbed(w)'
    BY <2>1 DEF Undisturbed
  <2>3. clean' = FALSE /\ scribe[w] \in ScribeType
    BY <1>1, NotClean DEF UpdateBundles, Is
  <2>4. selected' \subseteq Bundles
    BY <1>1, <2>3 DEF UpdateBundles, ScribeType
  <2>5. OthersKept'
    BY <1>1 DEF UpdateBundles, FilesInv, OthersKept
  <2>6. NoErrorYet(w)'
    BY <1>1, <2>1, Moved DEF UpdateBundles, FilesInv, NoErrorYet, Is, Places
  <2> QED
    BY <1>1, <2>1, <2>2, <2>3, <2>4, <2>5, <2>6, WriterStep DEF UpdateBundles, FilesInv, FilesTypes
<1>2. CASE GetBundles(w)
  <2> DEFINE one == [scribe[w] EXCEPT !.at = "mcp"]
             two == [one EXCEPT !.bundles = selected]
  <2>1. clean' = FALSE /\ scribe[w] \in ScribeType
    BY <1>2, NotClean DEF GetBundles, Is
  <2>2. one \in ScribeType /\ one.at = "mcp" /\ one.failed = scribe[w].failed
    BY <2>1, At DEF Places
  <2>3. scribe' = [scribe EXCEPT ![w] = two]
    BY <1>2, Zenon DEF GetBundles
  <2> HIDE DEF one
  <2>4. two \in ScribeType /\ two.at = "mcp" /\ two.bundles = selected /\ two.failed = scribe[w].failed
    BY <2>2 DEF ScribeType, FilesInv, FilesTypes
  <2> HIDE DEF two
  <2>5. scribe'[w] = two
    BY <2>3 DEF FilesInv, FilesTypes
  <2>6. Undisturbed(w)'
    BY <1>2, <2>4, <2>5 DEF Undisturbed, GetBundles
  <2>7. NoErrorYet(w)'
    BY <1>2, <2>4, <2>5 DEF GetBundles, FilesInv, NoErrorYet, Is
  <2>8. UNCHANGED <<catalog, defined, selected, mcp, settings, own>> /\ OthersKept'
    BY <1>2 DEF GetBundles, FilesInv, OthersKept
  <2> QED
    BY <1>2, <2>1, <2>3, <2>4, <2>5, <2>6, <2>7, <2>8, WriterStep DEF GetBundles, FilesInv, FilesTypes
<1> QED
  BY <1>1, <1>2

LEMMA McpStep ==
  ASSUME FilesInv, NEW w \in Writers, ReadMcp(w) \/ WriteMcp(w)
  PROVE  FilesInv'
<1>1. /\ clean' = FALSE /\ scribe[w] \in ScribeType /\ w \notin OthersWriting(w)
      /\ UNCHANGED <<catalog, defined, selected, settings>> /\ ~scribe[w].failed
  BY NotClean DEF ReadMcp, WriteMcp, Is, FilesInv, NoErrorYet
<1>2. UNCHANGED <<Managed, SelectedServers(selected)>>
  BY <1>1 DEF Managed, SelectedServers, ResolveBundles
<1>3. ASSUME NEW next \in {"settings", "done"}, Fails(w, next), UNCHANGED <<mcp, own, disturbed>>
      PROVE  FilesInv'
  <2>1. /\ scribe' = [scribe EXCEPT ![w] = scribe'[w]] /\ scribe'[w] \in ScribeType
        /\ scribe'[w].at = next /\ scribe'[w].failed /\ scribe'[w].bundles = scribe[w].bundles
    BY <1>3, Failed DEF FilesInv, Places
  <2>2. NoErrorYet(w)' /\ OthersKept'
    BY <1>1, <1>3, <2>1 DEF NoErrorYet, OthersKept, FilesInv
  <2>3. Undisturbed(w)'
    BY <1>1, <1>3, <2>1 DEF Undisturbed, ReadMcp, WriteMcp, Is, FilesInv
  <2> QED
    BY <1>1, <1>3, <2>1, <2>2, <2>3, WriterStep DEF FilesInv, FilesTypes
<1>4. CASE ReadMcp(w) /\ mcp.ok /\ ~Fails(w, "settings") /\ ~Fails(w, "done")
  <2> DEFINE new == WithServers(mcp, scribe[w].bundles)
             at == IF new = mcp THEN "settings" ELSE "mcpWrite"
  <2>1. new \in McpType /\ new.servers \cap Managed.servers = SelectedServers(scribe[w].bundles)
    BY ServersWritten DEF FilesInv, FilesTypes
  <2>2. scribe' = [scribe EXCEPT ![w].at = at, ![w].mcp = new]
    BY <1>4 DEF ReadMcp
  <2> HIDE DEF new
  <2>3. /\ scribe' = [scribe EXCEPT ![w] = scribe'[w]] /\ scribe'[w] \in ScribeType /\ scribe'[w].at = at
        /\ scribe'[w].mcp = new /\ scribe'[w].bundles = scribe[w].bundles /\ scribe'[w].failed = scribe[w].failed
    BY <2>1, <2>2, NotedMcp DEF FilesInv, Places
  <2>4. NoErrorYet(w)' /\ OthersKept' /\ UNCHANGED <<mcp, own, disturbed>>
    BY <1>1, <1>4, <2>3 DEF NoErrorYet, OthersKept, FilesInv, ReadMcp
  <2>5. w \notin disturbed => scribe[w].bundles = selected
    BY <1>4 DEF FilesInv, Undisturbed, ReadMcp, Is
  <2>6. WithServers(mcp, selected)' = WithServers(mcp, selected)
    BY <1>2, <2>4, <1>1 DEF WithServers
  <2>7. w \notin disturbed /\ at = "settings" => McpFollows'
    BY <1>1, <1>2, <2>1, <2>4, <2>5 DEF McpFollows
  <2>8. Undisturbed(w)'
    BY <1>1, <2>3, <2>4, <2>5, <2>6, <2>7 DEF Undisturbed, new
  <2> QED
    BY <1>1, <2>3, <2>4, <2>8, WriterStep DEF FilesInv, FilesTypes
<1>5. CASE WriteMcp(w) /\ ~(Fails(w, "settings") /\ UNCHANGED <<mcp, own, disturbed>>)
  <2>1. /\ mcp' = scribe[w].mcp /\ scribe' = [scribe EXCEPT ![w].at = "settings"]
        /\ own' = IF w \in disturbed THEN [own EXCEPT !.servers = mcp'.servers \cap Others] ELSE own
        /\ disturbed' = disturbed \cup OthersWriting(w) /\ Is(w, "mcpWrite")
    BY <1>5 DEF WriteMcp
  <2>2. /\ scribe' = [scribe EXCEPT ![w] = scribe'[w]] /\ scribe'[w] \in ScribeType /\ scribe'[w].at = "settings"
        /\ scribe'[w].bundles = scribe[w].bundles /\ scribe'[w].failed = scribe[w].failed
    BY <2>1, Moved DEF FilesInv, Places
  <2>3. mcp' \in McpType
    BY <1>1, <2>1 DEF ScribeType
  <2>4. w \notin disturbed => mcp' = WithServers(mcp, selected) /\ scribe[w].bundles = selected
    BY <2>1 DEF FilesInv, Undisturbed, Is
  <2>5. w \notin disturbed => McpFollows' /\ mcp'.servers \cap Others = mcp.servers \cap Others
    BY <1>1, <1>2, <2>4, ServersWritten DEF McpFollows, FilesInv, FilesTypes
  <2>6. own' \in [servers : SUBSET All, plugins : SUBSET All, approved : SUBSET All] /\ OthersKept'
    <3>1. CASE w \in disturbed
      BY <1>1, <2>1, <2>3, <3>1 DEF FilesInv, FilesTypes, OthersKept, McpType
    <3>2. CASE w \notin disturbed
      BY <1>1, <2>1, <2>5, <3>2 DEF FilesInv, FilesTypes, OthersKept
    <3> QED
      BY <3>1, <3>2
  <2>7. NoErrorYet(w)' /\ Undisturbed(w)'
    BY <1>1, <2>1, <2>2, <2>4, <2>5 DEF NoErrorYet, Undisturbed
  <2> QED
    BY <1>1, <2>1, <2>2, <2>3, <2>6, <2>7, WriterStep DEF FilesInv, FilesTypes
<1> QED
  BY <1>3, <1>4, <1>5 DEF ReadMcp, WriteMcp

LEMMA RulesKept ==
  ASSUME NEW file \in RulesType
  PROVE  /\ MergeAllowWrite(file) \in RulesType
         /\ MergeAllowWrite(file).plugins = file.plugins /\ MergeAllowWrite(file).approved = file.approved
<1>1. PICK yes \in BOOLEAN : yes = TRUE
  OBVIOUS
<1>2. MergeAllowWrite(file) = [file EXCEPT !.sandbox = yes]
  BY <1>1, Zenon DEF MergeAllowWrite
<1> QED
  BY <1>2 DEF RulesType

\* The root of a session: nothing is said of the names.
LEMMA RootStep ==
  ASSUME FilesInv, NEW w \in Writers,
         (ReadSettings(w) /\ Is(w, "root")) \/ (WriteSettings(w) /\ Is(w, "rootWrite"))
  PROVE  FilesInv'
<1>1. /\ clean' = FALSE /\ scribe[w] \in ScribeType /\ w \notin OthersWriting(w)
      /\ UNCHANGED <<catalog, defined, selected, mcp>> /\ ~scribe[w].failed
  BY NotClean DEF ReadSettings, WriteSettings, Is, FilesInv, NoErrorYet
<1>2. \E at \in {"rootWrite", "reread"} :
        \/ scribe' = [scribe EXCEPT ![w].at = at]
        \/ /\ settings.ok /\ UNCHANGED settings
           /\ scribe' = [scribe EXCEPT ![w].settings = MergeAllowWrite(settings), ![w].at = at]
  <2>1. CASE ReadSettings(w) /\ Is(w, "root")
    BY <2>1 DEF ReadSettings
  <2>2. CASE WriteSettings(w) /\ Is(w, "rootWrite")
    BY <2>2 DEF WriteSettings, Is
  <2> QED
    BY <2>1, <2>2
<1>3. PICK at \in {"rootWrite", "reread"} :
        /\ scribe' = [scribe EXCEPT ![w] = scribe'[w]] /\ scribe'[w] \in ScribeType
        /\ scribe'[w].at = at /\ scribe'[w].failed = scribe[w].failed
  BY <1>2, Moved, NotedSettings, RulesKept DEF FilesInv, FilesTypes, Places
<1>4. NoErrorYet(w)' /\ Undisturbed(w)'
  BY <1>1, <1>3 DEF NoErrorYet, Undisturbed
<1>5. CASE UNCHANGED <<settings, own, disturbed>>
  BY <1>1, <1>3, <1>4, <1>5, WriterStep DEF FilesInv, FilesTypes, OthersKept
<1>6. CASE ~UNCHANGED <<settings, own, disturbed>>
  <2>1. /\ settings' = scribe[w].settings /\ disturbed' = disturbed \cup OthersWriting(w)
        /\ own' = [own EXCEPT !.plugins = settings'.plugins \cap Others,
                              !.approved = settings'.approved \cap Others]
    BY <1>6 DEF ReadSettings, WriteSettings
  <2>2. settings' \in RulesType
    BY <1>1, <2>1 DEF ScribeType
  <2>3. own' \in [servers : SUBSET All, plugins : SUBSET All, approved : SUBSET All] /\ OthersKept'
    BY <1>1, <2>1, <2>2 DEF FilesInv, FilesTypes, OthersKept, RulesType
  <2> QED
    BY <1>1, <1>3, <1>4, <2>1, <2>2, <2>3, WriterStep DEF FilesInv, FilesTypes
<1> QED
  BY <1>5, <1>6

LEMMA SettingsStep ==
  ASSUME FilesInv, NEW w \in Writers,
         (ReadSettings(w) /\ Is(w, "settings")) \/ (WriteSettings(w) /\ Is(w, "settingsWrite"))
  PROVE  FilesInv'
<1>1. /\ clean' = FALSE /\ scribe[w] \in ScribeType /\ w \notin OthersWriting(w)
      /\ UNCHANGED <<catalog, defined, selected, mcp>> /\ ~Is(w, "root") /\ ~Is(w, "rootWrite")
  BY NotClean DEF ReadSettings, WriteSettings, Is, FilesInv
<1>2. UNCHANGED <<Managed, SelectedServers(selected), ResolveBundles(selected)>>
  BY <1>1 DEF Managed, SelectedServers, ResolveBundles
<1>3. w \notin disturbed => scribe[w].bundles = selected /\ (~scribe[w].failed => McpFollows')
  BY <1>1, <1>2 DEF FilesInv, Undisturbed, Is, McpFollows
<1>4. CASE Fails(w, "done") /\ UNCHANGED <<settings, own, disturbed>>
  <2>1. /\ scribe' = [scribe EXCEPT ![w] = scribe'[w]] /\ scribe'[w] \in ScribeType
        /\ scribe'[w].at = "done" /\ scribe'[w].failed /\ scribe'[w].bundles = scribe[w].bundles
    BY <1>4, Failed DEF FilesInv, Places
  <2>2. NoErrorYet(w)' /\ Undisturbed(w)' /\ OthersKept'
    BY <1>1, <1>3, <1>4, <2>1 DEF NoErrorYet, Undisturbed, OthersKept, FilesInv
  <2> QED
    BY <1>1, <1>4, <2>1, <2>2, WriterStep DEF FilesInv, FilesTypes
<1>5. CASE ReadSettings(w) /\ Is(w, "settings") /\ ~Fails(w, "done")
  <2> DEFINE new == WithPlugins(settings, scribe[w].bundles, ~scribe[w].failed)
             at == IF new = settings THEN "done" ELSE "settingsWrite"
  <2>1. /\ new \in RulesType
        /\ new.plugins \cap Managed.plugins = ResolveBundles(scribe[w].bundles).plugins
        /\ ~scribe[w].failed => new.approved \cap Managed.servers = SelectedServers(scribe[w].bundles)
    <3>1. PICK written \in BOOLEAN : written = ~scribe[w].failed
      OBVIOUS
    <3> QED
      BY <3>1, PluginsWritten DEF FilesInv, FilesTypes
  <2>2. scribe' = [scribe EXCEPT ![w].settings = new, ![w].at = at] /\ UNCHANGED <<settings, own, disturbed>>
    BY <1>1, <1>5 DEF ReadSettings
  <2> HIDE DEF new
  <2>3. /\ scribe' = [scribe EXCEPT ![w] = scribe'[w]] /\ scribe'[w] \in ScribeType /\ scribe'[w].at = at
        /\ scribe'[w].settings = new /\ scribe'[w].bundles = scribe[w].bundles
        /\ scribe'[w].failed = scribe[w].failed
    BY <2>1, <2>2, NotedSettings DEF FilesInv, Places
  <2>4. NoErrorYet(w)' /\ OthersKept'
    BY <1>1, <2>2, <2>3 DEF NoErrorYet, OthersKept, FilesInv
  <2>5. w \notin disturbed /\ at = "done" /\ ~scribe[w].failed => SettingsFollows'
    BY <1>2, <1>3, <2>1, <2>2 DEF SettingsFollows
  <2>6. w \notin disturbed => new = WithPlugins(settings, selected, ~scribe[w].failed)'
    <3>1. new = WithPlugins(settings, scribe[w].bundles, ~scribe[w].failed)
      BY DEF new
    <3>2. WithPlugins(settings, selected, ~scribe[w].failed)' = WithPlugins(settings, selected, ~scribe[w].failed)
      BY <1>1, <1>2, <2>2, <2>3 DEF WithPlugins
    <3> QED
      BY <1>3, <3>1, <3>2
  <2>7. Undisturbed(w)'
    BY <1>1, <1>3, <2>2, <2>3, <2>5, <2>6 DEF Undisturbed
  <2>8. scribe'[w].at # "idle"
    BY <2>3
  <2>9. /\ scribe' = [scribe EXCEPT ![w] = scribe'[w]] /\ scribe'[w] \in ScribeType
        /\ UNCHANGED <<settings, own, disturbed>>
    BY <2>2, <2>3
  <2> QED
    BY <1>1, <2>4, <2>7, <2>8, <2>9, WriterStep DEF FilesInv, FilesTypes
<1>6. CASE WriteSettings(w) /\ Is(w, "settingsWrite") /\ ~(Fails(w, "done") /\ UNCHANGED <<settings, own, disturbed>>)
  <2>1. /\ settings' = scribe[w].settings /\ scribe' = [scribe EXCEPT ![w].at = "done"]
        /\ own' = IF w \in disturbed
                  THEN [own EXCEPT !.plugins = settings'.plugins \cap Others,
                                   !.approved = settings'.approved \cap Others] ELSE own
        /\ disturbed' = disturbed \cup OthersWriting(w)
    BY <1>1, <1>6 DEF WriteSettings
  <2>2. /\ scribe' = [scribe EXCEPT ![w] = scribe'[w]] /\ scribe'[w] \in ScribeType /\ scribe'[w].at = "done"
        /\ scribe'[w].bundles = scribe[w].bundles /\ scribe'[w].failed = scribe[w].failed
    BY <2>1, Moved DEF FilesInv, Places
  <2>3. settings' \in RulesType
    BY <1>1, <2>1 DEF ScribeType
  <2>4. w \notin disturbed =>
          /\ settings'.plugins \cap Managed.plugins = ResolveBundles(selected).plugins
          /\ ~scribe[w].failed => settings'.approved \cap Managed.servers = SelectedServers(selected)
          /\ settings'.plugins \cap Others = settings.plugins \cap Others
          /\ settings'.approved \cap Others = settings.approved \cap Others
    <3>1. PICK written \in BOOLEAN : written = ~scribe[w].failed
      OBVIOUS
    <3>2. w \notin disturbed => settings' = WithPlugins(settings, selected, written)
      BY <1>6, <2>1, <3>1 DEF FilesInv, Undisturbed, Is
    <3> DEFINE new == WithPlugins(settings, selected, written)
    <3>3. /\ new.plugins \cap Managed.plugins = ResolveBundles(selected).plugins
          /\ written => new.approved \cap Managed.servers = SelectedServers(selected)
          /\ new.plugins \cap Others = settings.plugins \cap Others
          /\ new.approved \cap Others = settings.approved \cap Others
      BY PluginsWritten DEF FilesInv, FilesTypes
    <3> HIDE DEF new
    <3> QED
      BY <3>1, <3>2, <3>3 DEF new
  <2>5. w \notin disturbed /\ ~scribe[w].failed => SettingsFollows'
    BY <1>2, <2>4 DEF SettingsFollows
  <2>6. own' \in [servers : SUBSET All, plugins : SUBSET All, approved : SUBSET All] /\ OthersKept'
    <3>1. CASE w \in disturbed
      BY <1>1, <2>1, <2>3, <3>1 DEF FilesInv, FilesTypes, OthersKept, RulesType
    <3>2. CASE w \notin disturbed
      BY <1>1, <2>1, <2>4, <3>2 DEF FilesInv, FilesTypes, OthersKept
    <3> QED
      BY <3>1, <3>2
  <2>7. NoErrorYet(w)' /\ Undisturbed(w)'
    BY <1>1, <1>3, <2>1, <2>2, <2>5 DEF NoErrorYet, Undisturbed
  <2> QED
    BY <1>1, <2>1, <2>2, <2>3, <2>6, <2>7, WriterStep DEF FilesInv, FilesTypes
<1> QED
  BY <1>1, <1>4, <1>5, <1>6 DEF ReadSettings, WriteSettings

LEMMA AtRest == Resting \in ScribeType /\ Resting.at = "idle"
<1>1. PICK no \in BOOLEAN, yes \in BOOLEAN : no = FALSE /\ yes = TRUE
  OBVIOUS
<1> DEFINE file == [ok |-> yes, servers |-> {}]
           rules == [ok |-> yes, plugins |-> {}, approved |-> {}, sandbox |-> no]
<1>2. file \in McpType /\ rules \in RulesType
  BY DEF McpType, RulesType
<1>3. Resting = [at |-> "idle", bundles |-> {}, failed |-> no, mcp |-> file, settings |-> rules]
  BY <1>1 DEF Resting, NoFile, NoRules
<1> HIDE DEF file, rules
<1> QED
  BY <1>2, <1>3 DEF ScribeType, Places

LEMMA EndStep ==
  ASSUME FilesInv, NEW w \in Writers, WriterEnds(w)
  PROVE  FilesInv'
<1>1. /\ UNCHANGED <<catalog, defined, selected, mcp, settings, own>> /\ disturbed' = disturbed \ {w}
      /\ scribe' = [scribe EXCEPT ![w] = Resting] /\ scribe[w].at = "done"
  BY DEF WriterEnds, Is
<1>2. scribe'[w] = Resting
  BY <1>1 DEF FilesInv, FilesTypes
<1>3. /\ scribe' = [scribe EXCEPT ![w] = scribe'[w]] /\ scribe'[w] \in ScribeType
      /\ scribe'[w].at = "idle"
  BY <1>1, <1>2, AtRest
<1>4. clean' \in BOOLEAN /\ (clean' => w \notin disturbed /\ ~scribe[w].failed /\ OthersWriting(w) = {})
  BY DEF WriterEnds
<1>5. w \notin disturbed /\ ~scribe[w].failed => McpFollows' /\ SettingsFollows'
  <2>1. w \notin disturbed /\ ~scribe[w].failed => McpFollows /\ SettingsFollows
    BY <1>1 DEF FilesInv, Undisturbed
  <2>2. UNCHANGED <<Managed, SelectedServers(selected), ResolveBundles(selected)>>
    BY <1>1 DEF Managed, SelectedServers, ResolveBundles
  <2> QED
    BY <1>1, <2>1, <2>2 DEF McpFollows, SettingsFollows
<1>6. NoErrorYet(w)' /\ Undisturbed(w)' /\ OthersKept'
  BY <1>1, <1>3 DEF NoErrorYet, Undisturbed, OthersKept, FilesInv
<1> QED
  BY <1>1, <1>3, <1>4, <1>5, <1>6, WriterStep DEF FilesInv, FilesTypes

\* Who edits a file changes what is not of the catalog, and disturbs its holders.
LEMMA EditKept ==
  ASSUME FilesInv, UNCHANGED <<catalog, defined, selected, scribe, clean>>,
         mcp' \in McpType, settings' \in RulesType,
         own' \in [servers : SUBSET All, plugins : SUBSET All, approved : SUBSET All], OthersKept',
         mcp'.servers \cap Managed.servers = mcp.servers \cap Managed.servers,
         settings'.plugins \cap Managed.plugins = settings.plugins \cap Managed.plugins,
         settings'.approved \cap Managed.servers = settings.approved \cap Managed.servers,
         disturbed \subseteq disturbed', disturbed' \subseteq Writing,
         mcp' = mcp \/ Holding({"mcpWrite"}) \subseteq disturbed',
         settings' = settings \/ Holding({"settingsWrite"}) \subseteq disturbed'
  PROVE  FilesInv'
<1>1. UNCHANGED <<Managed, SelectedServers(selected), ResolveBundles(selected), Writing>>
  BY DEF Managed, SelectedServers, ResolveBundles, Writing, Is
<1>2. FilesTypes'
  BY <1>1 DEF FilesInv, FilesTypes
<1>3. (McpFollows' <=> McpFollows) /\ (SettingsFollows' <=> SettingsFollows)
  BY <1>1 DEF McpFollows, SettingsFollows
<1>4. ASSUME NEW v \in Writers
      PROVE  Undisturbed(v)' /\ NoErrorYet(v)'
  <2>1. Undisturbed(v) /\ NoErrorYet(v)
    BY DEF FilesInv
  <2>2. v \notin disturbed' =>
          /\ scribe[v].at = "mcpWrite" => mcp' = mcp
          /\ scribe[v].at = "settingsWrite" => settings' = settings
    BY DEF Holding
  <2>3. mcp' = mcp => WithServers(mcp, selected)' = WithServers(mcp, selected)
    BY <1>1 DEF WithServers
  <2>4. settings' = settings =>
          WithPlugins(settings, selected, ~scribe[v].failed)' = WithPlugins(settings, selected, ~scribe[v].failed)
    BY <1>1 DEF WithPlugins
  <2>5. scribe'[v] = scribe[v] /\ selected' = selected /\ (v \notin disturbed' => v \notin disturbed)
    OBVIOUS
  <2>6. ASSUME v \notin disturbed', scribe[v].at = "settingsWrite"
        PROVE  scribe'[v].settings = WithPlugins(settings, selected, ~scribe[v].failed)'
    <3>1. scribe[v].settings = WithPlugins(settings, selected, ~scribe[v].failed)
      BY <2>1, <2>5, <2>6 DEF Undisturbed
    <3> QED
      BY <2>2, <2>4, <2>5, <2>6, <3>1, Zenon
  <2>7. ASSUME v \notin disturbed', scribe[v].at = "mcpWrite"
        PROVE  scribe'[v].mcp = WithServers(mcp, selected)'
    <3>1. scribe[v].mcp = WithServers(mcp, selected)
      BY <2>1, <2>5, <2>7 DEF Undisturbed
    <3>2. mcp' = mcp
      BY <2>2, <2>7
    <3> QED
      BY <2>3, <2>5, <3>1, <3>2, Zenon
  <2>8. Undisturbed(v)'
    BY <1>3, <2>1, <2>5, <2>6, <2>7 DEF Undisturbed
  <2> QED
    BY <2>1, <2>5, <2>8 DEF NoErrorYet
<1> QED
  BY <1>1, <1>2, <1>3, <1>4 DEF FilesInv

LEMMA EditMcpStep ==
  ASSUME FilesInv, EditMcp
  PROVE  FilesInv'
<1>1. /\ UNCHANGED <<catalog, defined, selected, settings, scribe, clean>>
      /\ disturbed' = disturbed \cup Holding({"mcpWrite"})
      /\ disturbed' \subseteq Writing
  BY DEF EditMcp, Holding, Writing, Is, FilesInv, FilesTypes
<1>2. mcp' \in McpType /\ mcp'.servers \cap Managed.servers = mcp.servers \cap Managed.servers
  <2>1. CASE mcp' = [mcp EXCEPT !.ok = ~@]
    BY <2>1 DEF FilesInv, FilesTypes, McpType
  <2>2. ASSUME NEW e \in Others,
               mcp' = [ok |-> TRUE, servers |-> IF e \in mcp.servers THEN mcp.servers \ {e} ELSE mcp.servers \cup {e}]
        PROVE  mcp' \in McpType /\ mcp'.servers \cap Managed.servers = mcp.servers \cap Managed.servers
    <3> DEFINE servers == IF e \in mcp.servers THEN mcp.servers \ {e} ELSE mcp.servers \cup {e}
    <3>1. PICK yes \in BOOLEAN : yes = TRUE
      OBVIOUS
    <3>2. servers \in SUBSET All /\ servers \cap Managed.servers = mcp.servers \cap Managed.servers
      BY Selections DEF FilesInv, FilesTypes, McpType, All
    <3> HIDE DEF servers
    <3>3. mcp' = [ok |-> yes, servers |-> servers]
      BY <2>2, <3>1 DEF servers
    <3> QED
      BY <3>2, <3>3 DEF McpType
  <2> QED
    BY <2>1, <2>2 DEF EditMcp
<1>3. own' \in [servers : SUBSET All, plugins : SUBSET All, approved : SUBSET All] /\ OthersKept'
  <2>1. CASE mcp' = [mcp EXCEPT !.ok = ~@] /\ UNCHANGED own
    BY <1>1, <2>1 DEF FilesInv, FilesTypes, McpType, OthersKept
  <2>2. CASE own' = [own EXCEPT !.servers = mcp'.servers \cap Others]
    BY <1>1, <1>2, <2>2 DEF FilesInv, FilesTypes, McpType, OthersKept
  <2> QED
    BY <2>1, <2>2 DEF EditMcp
<1> QED
  BY <1>1, <1>2, <1>3, EditKept DEF FilesInv, FilesTypes

LEMMA EditSettingsStep ==
  ASSUME FilesInv, EditSettings
  PROVE  FilesInv'
<1>1. /\ UNCHANGED <<catalog, defined, selected, mcp, scribe, clean>>
      /\ Holding({"settingsWrite"}) \subseteq disturbed'
      /\ disturbed \subseteq disturbed' /\ disturbed' \subseteq Writing
  BY DEF EditSettings, Holding, Writing, Is, FilesInv, FilesTypes
<1> DEFINE Fits == /\ settings' \in RulesType
                   /\ settings'.plugins \cap Managed.plugins = settings.plugins \cap Managed.plugins
                   /\ settings'.approved \cap Managed.servers = settings.approved \cap Managed.servers
<1>2. Fits
  <2>1. CASE settings' = [settings EXCEPT !.ok = ~@]
    BY <2>1 DEF FilesInv, FilesTypes, RulesType
  <2>2. ASSUME NEW e \in Others,
               settings' = IF e \in settings.plugins
                           THEN [settings EXCEPT !.ok = TRUE, !.plugins = @ \ {e}, !.approved = @ \ {e}]
                           ELSE [settings EXCEPT !.ok = TRUE, !.plugins = @ \cup {e}, !.approved = @ \cup {e}]
        PROVE  Fits
    <3> DEFINE Change(of) == IF e \in settings.plugins THEN of \ {e} ELSE of \cup {e}
    <3>1. PICK yes \in BOOLEAN : yes = TRUE
      OBVIOUS
    <3> DEFINE plugins == Change(settings.plugins)
               approved == Change(settings.approved)
               one == [settings EXCEPT !.ok = yes]
               two == [one EXCEPT !.plugins = plugins]
               three == [two EXCEPT !.approved = approved]
    <3>2. /\ plugins \in SUBSET All /\ approved \in SUBSET All
          /\ plugins \cap Managed.plugins = settings.plugins \cap Managed.plugins
          /\ approved \cap Managed.servers = settings.approved \cap Managed.servers
      BY Selections DEF FilesInv, FilesTypes, RulesType, All
    <3>3. one \in RulesType /\ one.plugins = settings.plugins /\ one.approved = settings.approved
      BY DEF FilesInv, FilesTypes, RulesType
    <3>4. settings' = [[[settings EXCEPT !.ok = yes] EXCEPT !.plugins = plugins] EXCEPT !.approved = approved]
      BY <2>2, <3>1, <3>3
    <3> HIDE DEF plugins, approved
    <3>5. settings' = three
      BY <3>4
    <3> HIDE DEF one
    <3>6. two \in RulesType /\ two.plugins = plugins /\ two.approved = settings.approved
      BY <3>2, <3>3 DEF RulesType
    <3> HIDE DEF two
    <3>7. three \in RulesType /\ three.plugins = plugins /\ three.approved = approved
      BY <3>2, <3>6 DEF RulesType
    <3> QED
      BY <3>2, <3>5, <3>7
  <2> QED
    BY <2>1, <2>2 DEF EditSettings
<1>3. own' \in [servers : SUBSET All, plugins : SUBSET All, approved : SUBSET All] /\ OthersKept'
  <2>1. CASE settings' = [settings EXCEPT !.ok = ~@] /\ UNCHANGED own
    BY <1>1, <2>1 DEF FilesInv, FilesTypes, RulesType, OthersKept
  <2>2. CASE own' = [own EXCEPT !.plugins = settings'.plugins \cap Others,
                                !.approved = settings'.approved \cap Others]
    BY <1>1, <1>2, <2>2 DEF FilesInv, FilesTypes, RulesType, OthersKept
  <2> QED
    BY <2>1, <2>2 DEF EditSettings
<1> QED
  BY <1>1, <1>2, <1>3, EditKept DEF FilesInv, FilesTypes

-----------------------------------------------------------------------------
LEMMA FilesBegin == FilesInit => FilesInv
<1> SUFFICES ASSUME FilesInit
             PROVE  FilesInv
  OBVIOUS
<1>1. PICK no \in BOOLEAN, yes \in BOOLEAN : no = FALSE /\ yes = TRUE
  OBVIOUS
<1>2. PICK names \in SUBSET Bundles : catalog \in [names -> [plugins : SUBSET Plugins, servers : SUBSET Servers]]
  BY DEF FilesInit
<1>3. mcp = [ok |-> yes, servers |-> {}]
  BY <1>1 DEF FilesInit, NoFile
<1>4. settings = [ok |-> yes, plugins |-> {}, approved |-> {}, sandbox |-> no]
  BY <1>1 DEF FilesInit, NoRules
<1>5. mcp \in McpType /\ settings \in RulesType
  BY <1>3, <1>4 DEF McpType, RulesType
<1>6. /\ own = [servers |-> {}, plugins |-> {}, approved |-> {}]
      /\ own \in [servers : SUBSET All, plugins : SUBSET All, approved : SUBSET All]
  BY DEF FilesInit, NoEntries
<1>7. scribe \in [Writers -> ScribeType] /\ \A w \in Writers : scribe[w].at = "idle"
  BY AtRest DEF FilesInit
<1>8. FilesTypes /\ Writing = {}
  BY <1>2, <1>5, <1>6, <1>7 DEF FilesInit, FilesTypes, Writing, Is
<1>9. OthersKept
  BY <1>3, <1>4, <1>6 DEF OthersKept
<1>10. McpFollows /\ SettingsFollows
  <2>1. SelectedServers(selected) = {} /\ ResolveBundles(selected).plugins = {}
    BY DEF SelectedServers, ResolveBundles, FilesInit
  <2> QED
    BY <1>3, <1>4, <2>1 DEF McpFollows, SettingsFollows
<1>11. \A w \in Writers : Undisturbed(w) /\ NoErrorYet(w)
  BY <1>7 DEF Undisturbed, NoErrorYet
<1> QED
  BY <1>8, <1>9, <1>10, <1>11 DEF FilesInv

LEMMA FilesStay == FilesInv /\ [FileRequests \/ FileSteps]_fileVars => FilesInv'
<1> SUFFICES ASSUME FilesInv, [FileRequests \/ FileSteps]_fileVars
             PROVE  FilesInv'
  OBVIOUS
<1>1. CASE FileRequests
  BY <1>1, TakeStep, EditMcpStep, EditSettingsStep DEF FileRequests
<1>2. CASE FileSteps
  <2>1. PICK w \in Writers : \/ UpdateBundles(w) \/ GetBundles(w) \/ ReadMcp(w) \/ WriteMcp(w)
                            \/ ReadSettings(w) \/ WriteSettings(w) \/ WriterEnds(w)
    BY <1>2 DEF FileSteps
  <2>2. ReadSettings(w) => Is(w, "root") \/ Is(w, "settings")
    BY DEF ReadSettings
  <2>3. WriteSettings(w) => Is(w, "rootWrite") \/ Is(w, "settingsWrite")
    BY DEF WriteSettings
  <2> QED
    BY <2>1, <2>2, <2>3, NamesStep, McpStep, RootStep, SettingsStep, EndStep
<1>3. CASE UNCHANGED fileVars
  <2>1. OthersKept'
    BY <1>3 DEF fileVars, FilesInv, OthersKept
  <2> QED
    BY <1>3, <2>1, EditKept DEF fileVars, FilesInv, FilesTypes
<1> QED
  BY <1>1, <1>2, <1>3

\* When the last writer of the bundles has met nobody and no error, the row, .mcp.json
\* and settings.local.json agree, and what others wrote into the files is still there.
THEOREM FilesStayInLine == FilesSpec => []FilesFollowRow
<1>1. FilesInv => FilesFollowRow
  <2> SUFFICES ASSUME FilesInv, clean
               PROVE  /\ McpFollows /\ SettingsFollows
                      /\ [servers |-> mcp.servers \cap Others, plugins |-> settings.plugins \cap Others,
                          approved |-> settings.approved \cap Others] = own
    BY DEF FilesFollowRow, McpFollows, SettingsFollows
  <2> QED
    BY DEF FilesInv, FilesTypes, OthersKept
<1> QED
  BY FilesBegin, FilesStay, <1>1, PTL DEF FilesSpec

-----------------------------------------------------------------------------
(***************************************************************************)
(* Branches of sessions.  Fields of the records, for EXCEPT.               *)
(***************************************************************************)
RowFields   == {"path", "branch", "status"}
EntryFields == {"session", "row", "copy"}
VisitFields == {"at", "todo", "cur", "name"}
SyncFields  == {"at", "todo", "branch", "local", "row", "copy"}

\* What the rows are written with, as one value.
Books == [rows |-> wtRow, link |-> link, past |-> past, mixed |-> mixed, added |-> added]

\* The session of row r is now on the branch of the copy, or both branches are noted.
Recalls(r, name, bk) ==
  \A s \in GitSessions \ bk.mixed :
    bk.link[s] = r => \/ name = bk.rows[r].branch
                      \/ {name, bk.rows[r].branch} \subseteq bk.past[s] \cup {Main}

CopyHeld(r, copy, bk) ==
  /\ r \in RowNumbers /\ r <= bk.added
  /\ DOMAIN copy = RowFields /\ copy.status # "none"
  /\ Recalls(r, copy.branch, bk)

Entry(l, bk) ==
  /\ DOMAIN l = EntryFields /\ l.session \in GitSessions
  /\ CopyHeld(l.row, l.copy, bk)
  /\ \A s \in GitSessions \ bk.mixed : bk.link[s] = l.row => l.session = s

Noted(l, name, bk) ==
  \A s \in GitSessions \ bk.mixed :
    bk.link[s] = l.row => {l.copy.branch, name} \subseteq bk.past[s] \cup {Main}

VisitKept(v, bk) ==
  /\ DOMAIN v = VisitFields
  /\ \A l \in v.todo : Entry(l, bk)
  /\ v.at \in {"record", "repoint"} => Entry(v.cur, bk)
  /\ v.at = "repoint" => Noted(v.cur, v.name, bk)

SyncKept(job, bk) ==
  /\ DOMAIN job = SyncFields
  /\ job.at = "write" => CopyHeld(job.row, job.copy, bk)

RowsShape(rows) == DOMAIN rows = RowNumbers /\ \A w \in RowNumbers : DOMAIN rows[w] = RowFields

BooksInv ==
  /\ RowsShape(wtRow)
  /\ DOMAIN link = GitSessions /\ DOMAIN stage = GitSessions /\ DOMAIN past = GitSessions
  /\ added \in Nat
  /\ \A w \in Used(wtRow) : w <= added
  /\ \A s \in GitSessions : link[s] \in Used(wtRow) \cup {0}
  /\ \A s \in GitSessions \ mixed, x \in GitSessions : link[s] # 0 /\ link[x] = link[s] => x = s

VisitsInv == DOMAIN visit = Visitors /\ \A p \in Visitors : VisitKept(visit[p], Books)
SyncInv   == SyncKept(sync, Books)
GitInv    == BooksInv /\ VisitsInv /\ SyncInv

Remembers == \A s \in GitSessions : ~LeavesUnremembered(s)

\* A step after which what was known of a row still is.
Steady ==
  /\ added \in Nat /\ added' \in Nat /\ added <= added'
  /\ \A s \in GitSessions \ mixed' : link'[s] # 0 /\ link'[s] <= added =>
       /\ s \notin mixed /\ link[s] = link'[s]
       /\ past[s] \subseteq past'[s]
       /\ \/ wtRow'[link[s]].branch = wtRow[link[s]].branch
          \/ {wtRow[link[s]].branch, wtRow'[link[s]].branch} \subseteq past'[s] \cup {Main}

\* The rows after one of them was written from a copy.
Written(rows) ==
  /\ RowsShape(rows)
  /\ Used(wtRow) \subseteq Used(rows)
  /\ \A w \in Used(rows) : w <= added
  /\ \A s \in GitSessions \ mixed : link[s] # 0 =>
       \/ rows[link[s]].branch = wtRow[link[s]].branch
       \/ {wtRow[link[s]].branch, rows[link[s]].branch} \subseteq past[s] \cup {Main}

\* Rows are only added to these.
Extended(rows) ==
  /\ RowsShape(wtRow')
  /\ added' \in Nat /\ added <= added'
  /\ \A w \in Used(rows) : w \in Used(wtRow') /\ wtRow'[w].branch = rows[w].branch
  /\ \A w \in Used(wtRow') : w <= added'

-----------------------------------------------------------------------------
LEMMA KeptStays ==
  ASSUME Steady
  PROVE  \A r, copy : CopyHeld(r, copy, Books) => CopyHeld(r, copy, Books')
<1> SUFFICES ASSUME NEW r, NEW copy, CopyHeld(r, copy, Books) PROVE CopyHeld(r, copy, Books')
  OBVIOUS
<1>1. r \in RowNumbers /\ r <= added /\ r <= added' /\ r # 0
  BY DEF CopyHeld, Books, Steady, RowNumbers
<1>2. Recalls(r, copy.branch, Books')
  <2> SUFFICES ASSUME NEW s \in GitSessions \ mixed', link'[s] = r
               PROVE  \/ copy.branch = wtRow'[r].branch
                      \/ {copy.branch, wtRow'[r].branch} \subseteq past'[s] \cup {Main}
    BY DEF Recalls, Books
  <2>1. /\ s \notin mixed /\ link[s] = r
        /\ past[s] \subseteq past'[s]
        /\ \/ wtRow'[r].branch = wtRow[r].branch
           \/ {wtRow[r].branch, wtRow'[r].branch} \subseteq past'[s] \cup {Main}
    BY <1>1 DEF Steady
  <2>2. \/ copy.branch = wtRow[r].branch
        \/ {copy.branch, wtRow[r].branch} \subseteq past[s] \cup {Main}
    BY <2>1 DEF CopyHeld, Recalls, Books
  <2> QED
    BY <2>1, <2>2
<1> QED
  BY <1>1, <1>2 DEF CopyHeld, Books

LEMMA EntryStays ==
  ASSUME Steady
  PROVE  \A l : Entry(l, Books) => Entry(l, Books')
<1> SUFFICES ASSUME NEW l, Entry(l, Books) PROVE Entry(l, Books')
  OBVIOUS
<1>1. CopyHeld(l.row, l.copy, Books')
  BY KeptStays DEF Entry
<1>2. l.row <= added /\ l.row # 0
  BY DEF Entry, CopyHeld, Books, RowNumbers
<1>3. ASSUME NEW s \in GitSessions \ mixed', link'[s] = l.row PROVE l.session = s
  BY <1>2, <1>3 DEF Steady, Entry, Books
<1> QED
  BY <1>1, <1>3 DEF Entry, Books

LEMMA VisitStays ==
  ASSUME Steady
  PROVE  \A v : VisitKept(v, Books) => VisitKept(v, Books')
<1> SUFFICES ASSUME NEW v, VisitKept(v, Books) PROVE VisitKept(v, Books')
  OBVIOUS
<1>1. ASSUME v.at = "repoint" PROVE Noted(v.cur, v.name, Books')
  <2>1. Entry(v.cur, Books) /\ Noted(v.cur, v.name, Books)
    BY <1>1 DEF VisitKept
  <2>2. v.cur.row <= added /\ v.cur.row # 0
    BY <2>1 DEF Entry, CopyHeld, Books, RowNumbers
  <2>3. ASSUME NEW s \in GitSessions \ mixed', link'[s] = v.cur.row
        PROVE  {v.cur.copy.branch, v.name} \subseteq past'[s] \cup {Main}
    BY <2>1, <2>2, <2>3 DEF Steady, Noted, Books
  <2> QED
    BY <2>3 DEF Noted, Books
<1> QED
  BY <1>1, EntryStays DEF VisitKept

LEMMA SyncStays ==
  ASSUME Steady, SyncInv, UNCHANGED sync
  PROVE  SyncInv'
BY KeptStays DEF SyncInv, SyncKept

LEMMA VisitsStay ==
  ASSUME Steady, VisitsInv, DOMAIN visit' = Visitors,
         \A p \in Visitors : visit'[p] = visit[p] \/ VisitKept(visit'[p], Books')
  PROVE  VisitsInv'
BY VisitStays DEF VisitsInv

\* No row of a session leaves its branch unnoted.
LEMMA SteadyRemembers ==
  ASSUME BooksInv, Steady, mixed' \subseteq mixed
  PROVE  Remembers
<1> SUFFICES ASSUME NEW s \in GitSessions, LeavesUnremembered(s) PROVE FALSE
  BY DEF Remembers
<1>1. link[s] # 0 /\ link[s] <= added /\ link'[s] = link[s] /\ s \notin mixed'
  BY DEF LeavesUnremembered, BooksInv, Used, RowNumbers
<1> QED
  BY <1>1 DEF LeavesUnremembered, Steady
  
LEMMA WriteSteady ==
  ASSUME BooksInv, NEW rows, Written(rows), Extended(rows),
         UNCHANGED <<link, mixed>>, DOMAIN stage' = GitSessions, DOMAIN past' = GitSessions,
         \A s \in GitSessions : past[s] \subseteq past'[s]
  PROVE  Steady /\ BooksInv' /\ Remembers
<1>1. \A s \in GitSessions : link[s] # 0 => link[s] \in Used(rows)
  BY DEF BooksInv, Written
<1>2. BooksInv'
  BY <1>1 DEF BooksInv, Extended
<1>3. Steady
  <2>1. \A s \in GitSessions : link[s] # 0 => wtRow'[link[s]].branch = rows[link[s]].branch
    BY <1>1 DEF Extended
  <2> QED
    BY <2>1 DEF Steady, Written, Extended, BooksInv
<1> QED
  BY <1>2, <1>3, SteadyRemembers

LEMMA SameRows == BooksInv => Written(wtRow)
BY DEF BooksInv, Written

LEMMA SameExtended ==
  ASSUME NEW rows, Written(rows), BooksInv, wtRow' = rows, added' = added
  PROVE  Extended(rows)
BY DEF Written, Extended, BooksInv

\* What only reads the rows.
LEMMA QuietSteady ==
  ASSUME BooksInv, UNCHANGED <<wtRow, added, link, mixed>>,
         DOMAIN stage' = GitSessions, DOMAIN past' = GitSessions,
         \A s \in GitSessions : past[s] \subseteq past'[s]
  PROVE  Steady /\ BooksInv' /\ Remembers
<1>1. Written(wtRow) /\ Extended(wtRow)
  BY SameRows, SameExtended
<1> QED
  BY <1>1, WriteSteady

LEMMA SavedRows ==
  ASSUME BooksInv, NEW r, NEW copy, CopyHeld(r, copy, Books)
  PROVE  Written(SaveRow(wtRow, r, copy))
<1> DEFINE rows == [wtRow EXCEPT ![r] = copy]
<1>1. CASE SaveRow(wtRow, r, copy) = wtRow
  BY <1>1, SameRows
<1>2. CASE SaveRow(wtRow, r, copy) = rows
  <2>1. r \in RowNumbers /\ r <= added /\ DOMAIN copy = RowFields /\ copy.status # "none"
    BY DEF CopyHeld, Books
  <2>2. DOMAIN rows = RowNumbers /\ rows[r] = copy /\ \A w \in RowNumbers \ {r} : rows[w] = wtRow[w]
    BY <2>1 DEF BooksInv, RowsShape
  <2> HIDE DEF rows
  <2>3. RowsShape(rows) /\ Used(rows) = Used(wtRow) \cup {r}
    BY <2>1, <2>2 DEF RowsShape, BooksInv, Used
  <2>4. ASSUME NEW s \in GitSessions \ mixed, link[s] # 0
        PROVE  \/ rows[link[s]].branch = wtRow[link[s]].branch
               \/ {wtRow[link[s]].branch, rows[link[s]].branch} \subseteq past[s] \cup {Main}
    <3>1. CASE link[s] = r
      BY <3>1, <2>2 DEF CopyHeld, Recalls, Books
    <3>2. CASE link[s] # r
      BY <3>2, <2>4, <2>2 DEF BooksInv, Used
    <3> QED
      BY <3>1, <3>2
  <2>5. Written(rows)
    BY <2>1, <2>3, <2>4 DEF Written, BooksInv
  <2> QED
    BY <1>2, <2>5
<1> QED
  BY <1>1, <1>2 DEF SaveRow

\* A row that is added, or written again with its own branch.
LEMMA RecordEnsured ==
  ASSUME NEW rows, RowsShape(rows), added \in Nat, \A w \in Used(rows) : w <= added,
         NEW name, NEW path, EnsureRecord(rows, name, path)
  PROVE  Extended(rows)
<1> DEFINE record == [path |-> path, branch |-> name, status |-> "present"]
           fresh == RowsOf(rows, name) = {}
           w == IF fresh THEN added + 1 ELSE RowOf(rows, name)
<1>1. /\ w \in RowNumbers /\ wtRow' = SaveRow(rows, w, record)
      /\ added' = IF fresh /\ Unique(rows, w, record) THEN w ELSE added
  BY Zenon DEF EnsureRecord
<1>2. DOMAIN record = RowFields /\ record.status = "present" /\ record.branch = name
  BY DEF RowFields
<1>3. IF fresh THEN w = added + 1 /\ w \notin Used(rows)
      ELSE w \in Used(rows) /\ rows[w].branch = name
  BY DEF RowOf, RowsOf
<1>4. w \in RowNumbers => w \in Nat
  BY DEF RowNumbers
<1> HIDE DEF record, fresh, w
<1>5. CASE ~Unique(rows, w, record)
  BY <1>1, <1>5 DEF SaveRow, Extended
<1>6. CASE Unique(rows, w, record)
  <2>1. wtRow' = [rows EXCEPT ![w] = record] /\ added' = IF fresh THEN w ELSE added
    BY <1>1, <1>6 DEF SaveRow
  <2>2. DOMAIN wtRow' = RowNumbers /\ wtRow'[w] = record /\ \A x \in RowNumbers \ {w} : wtRow'[x] = rows[x]
    BY <1>1, <2>1 DEF RowsShape
  <2>3. RowsShape(wtRow') /\ Used(wtRow') = Used(rows) \cup {w}
    BY <1>1, <1>2, <2>2 DEF RowsShape, Used
  <2>4. ASSUME NEW x \in Used(rows) PROVE wtRow'[x].branch = rows[x].branch
    BY <1>2, <1>3, <2>2 DEF Used
  <2>5. \A x \in Used(rows) : x \in Nat /\ x <= added
    BY DEF Used, RowNumbers
  <2>6. added' \in Nat /\ added <= added' /\ w <= added'
    BY <1>1, <1>3, <1>4, <2>1, <2>5
  <2>7. \A x \in Used(wtRow') : x <= added'
    BY <2>3, <2>5, <2>6
  <2> QED
    BY <2>3, <2>4, <2>6, <2>7 DEF Extended
<1> QED
  BY <1>5, <1>6

LEMMA TreeMade ==
  ASSUME NEW rows, Written(rows), BooksInv, NEW name, NEW path, NEW new,
         WorktreeAt(rows, name, path, new)
  PROVE  Extended(rows)
<1>1. added \in Nat /\ RowsShape(rows) /\ \A w \in Used(rows) : w <= added
  BY DEF Written, BooksInv
<1>2. (wtRow' = rows /\ added' = added) \/ EnsureRecord(rows, name, path)
  BY DEF WorktreeAt
<1> QED
  BY <1>1, <1>2, SameExtended, RecordEnsured

-----------------------------------------------------------------------------
\* The literals that visits start from.
LEMMA AwayKept == \A bk : VisitKept(Away, bk)
BY SMT DEF VisitKept, Away, VisitFields

LEMMA NoSyncKept == \A bk : SyncKept(NoSync, bk)
<1>1. DOMAIN NoSync = SyncFields
  BY DEF NoSync, SyncFields
<1>2. NoSync.at = "idle"
  BY DEF NoSync
<1> QED
  BY <1>1, <1>2 DEF SyncKept

\* A session's row as it is loaded.
LEMMA LoadedEntry ==
  ASSUME BooksInv, NEW s \in GitSessions, Linked(s)
  PROVE  Entry(Loaded(s), Books)
<1>1. link[s] \in RowNumbers /\ link[s] <= added /\ link[s] # 0
      /\ DOMAIN wtRow[link[s]] = RowFields /\ wtRow[link[s]].status # "none"
  BY DEF BooksInv, Linked, Used, RowsShape, RowNumbers
<1>2. DOMAIN Loaded(s) = EntryFields
      /\ Loaded(s).session = s /\ Loaded(s).row = link[s] /\ Loaded(s).copy = wtRow[link[s]]
  BY DEF Loaded, EntryFields
<1>3. Recalls(link[s], wtRow[link[s]].branch, Books)
  BY DEF Recalls, Books
<1>4. \A x \in GitSessions \ mixed : link[x] = link[s] => s = x
  BY <1>1 DEF BooksInv
<1> QED
  BY <1>1, <1>2, <1>3, <1>4 DEF Entry, CopyHeld, Books

\* What git and its users do, and the job's looks, leave all the rows alone.
LEMMA BeginStep ==
  ASSUME GitInv, NEW p \in Visitors, NEW place, place \notin {"record", "repoint"},
         NEW sessions, sessions \subseteq GitSessions, \A s \in sessions : Linked(s),
         Begin(p, place, sessions)
  PROVE  GitInv' /\ Remembers
<1> DEFINE todo == {Loaded(s) : s \in sessions}
           v == [Away EXCEPT !.at = place, !.todo = todo]
<1>1. UNCHANGED <<added, mixed, wtRow, link, stage, past, sync>> /\ visit' = [visit EXCEPT ![p] = v]
  BY DEF Begin
<1>2. Steady /\ BooksInv' /\ Remembers
  BY <1>1, QuietSteady DEF GitInv, BooksInv
<1>3. \A l \in todo : Entry(l, Books)
  BY LoadedEntry DEF GitInv
<1> HIDE DEF todo
<1>4. DOMAIN v = VisitFields /\ v.at = place /\ v.todo = todo
  BY DEF Away, VisitFields
<1> HIDE DEF v
<1>5. VisitKept(v, Books)
  BY <1>3, <1>4 DEF VisitKept
<1>6. VisitsInv'
  BY <1>1, <1>2, <1>5, VisitStays, VisitsStay DEF GitInv, VisitsInv
<1> QED
  BY <1>1, <1>2, <1>6, SyncStays DEF GitInv

\* The hook's report names a directory and a branch, and holds no row.
LEMMA ReportStep ==
  ASSUME GitInv, UNCHANGED <<added, mixed, wtRow, link, stage, past, sync>>,
         UNCHANGED visit \/ \E path, b : Reported(path, b)
  PROVE  GitInv' /\ Remembers
<1>1. Steady /\ BooksInv' /\ Remembers
  BY QuietSteady DEF GitInv, BooksInv
<1>2. CASE UNCHANGED visit
  BY <1>1, <1>2, VisitsStay, SyncStays DEF GitInv, VisitsInv
<1>3. CASE ~UNCHANGED visit
  <2>1. PICK path, b : Reported(path, b)
    BY <1>3
  <2> DEFINE v == [Away EXCEPT !.at = "called", !.cur.session = path, !.name = b]
  <2>2. visit' = [visit EXCEPT !["hook"] = v]
    BY <1>3, <2>1 DEF Reported
  <2>3. DOMAIN v = VisitFields /\ v.at = "called" /\ v.todo = {}
    BY DEF Away, VisitFields
  <2> HIDE DEF v
  <2>4. VisitKept(v, Books')
    BY <2>3 DEF VisitKept
  <2>5. VisitsInv'
    BY <1>1, <2>2, <2>4, VisitsStay DEF GitInv, VisitsInv
  <2> QED
    BY <1>1, <2>5, SyncStays DEF GitInv
<1> QED
  BY <1>2, <1>3

\* One visit moves, and only it.
LEMMA VisitMoves ==
  ASSUME GitInv, Steady, BooksInv', UNCHANGED sync, NEW p \in Visitors, NEW v,
         visit' = [visit EXCEPT ![p] = v], VisitKept(v, Books')
  PROVE  GitInv'
<1>1. VisitsInv'
  BY VisitsStay DEF GitInv, VisitsInv
<1> QED
  BY <1>1, SyncStays DEF GitInv

LEMMA HookStep ==
  ASSUME GitInv, HookFind
  PROVE  GitInv' /\ Remembers
<1> DEFINE report == visit["hook"]
           found  == {s \in GitSessions : Linked(s) /\ wtRow[link[s]].path = report.cur.session}
           s == CHOOSE x \in found : TRUE
           held == [report EXCEPT !.at = "record", !.cur = Loaded(s)]
<1>1. /\ report.at = "called" /\ UNCHANGED <<added, mixed, wtRow, link, stage, past, sync>>
      /\ \/ visit' = [visit EXCEPT !["hook"] = Away]
         \/ found # {} /\ visit' = [visit EXCEPT !["hook"] = held]
  BY DEF HookFind
<1>2. Steady /\ BooksInv' /\ Remembers
  BY <1>1, QuietSteady DEF GitInv, BooksInv
<1>3. VisitKept(report, Books)
  BY DEF GitInv, VisitsInv, Visitors
<1>4. found # {} => Entry(Loaded(s), Books)
  BY LoadedEntry DEF GitInv
<1> DEFINE l == Loaded(s)
<1> HIDE DEF report, found, s, l
<1>5. DOMAIN held = VisitFields /\ held.at = "record" /\ held.cur = l /\ held.todo = report.todo
  BY <1>3 DEF VisitKept, VisitFields, l
<1> HIDE DEF held
<1>6. found # {} => VisitKept(held, Books)
  BY <1>3, <1>4, <1>5 DEF VisitKept, l
<1>7. VisitKept(Away, Books') /\ (found # {} => VisitKept(held, Books'))
  BY <1>2, <1>6, AwayKept, VisitStays
<1> QED
  BY <1>1, <1>2, <1>7, VisitMoves DEF Visitors

LEMMA LookStep ==
  ASSUME GitInv, NEW p \in Visitors, LookAtWorktree(p)
  PROVE  GitInv' /\ Remembers
<1>1. PICK l \in visit[p].todo : \E name : \E place \in {"record", "next"} :
        visit' = [visit EXCEPT ![p] =
          [visit[p] EXCEPT !.todo = visit[p].todo \ {l}, !.cur = l, !.name = name, !.at = place]]
  BY Zenon DEF LookAtWorktree
<1>2. PICK name : \E place \in {"record", "next"} :
        visit' = [visit EXCEPT ![p] =
          [visit[p] EXCEPT !.todo = visit[p].todo \ {l}, !.cur = l, !.name = name, !.at = place]]
  BY <1>1
<1>3. PICK place \in {"record", "next"} :
        visit' = [visit EXCEPT ![p] =
          [visit[p] EXCEPT !.todo = visit[p].todo \ {l}, !.cur = l, !.name = name, !.at = place]]
  BY <1>2
<1> DEFINE old == visit[p]
           v == [old EXCEPT !.todo = old.todo \ {l}, !.cur = l, !.name = name, !.at = place]
<1>4. UNCHANGED <<added, mixed, wtRow, link, stage, past, sync>> /\ visit' = [visit EXCEPT ![p] = v]
  BY <1>3 DEF LookAtWorktree
<1>5. Steady /\ BooksInv' /\ Remembers
  BY <1>4, QuietSteady DEF GitInv, BooksInv
<1>6. VisitKept(old, Books) /\ Entry(l, Books)
  BY <1>1 DEF GitInv, VisitsInv, VisitKept
<1> HIDE DEF old
<1>7. DOMAIN v = VisitFields /\ v.at = place /\ v.cur = l /\ v.todo = old.todo \ {l}
  BY <1>6 DEF VisitKept, VisitFields
<1> HIDE DEF v
<1>8. VisitKept(v, Books)
  BY <1>1, <1>6, <1>7 DEF VisitKept
<1> QED
  BY <1>4, <1>5, <1>8, VisitStays, VisitMoves

LEMMA NextStep ==
  ASSUME GitInv, NEW p \in Visitors, NextVisit(p)
  PROVE  GitInv' /\ Remembers
<1> DEFINE old == visit[p]
<1>1. /\ UNCHANGED <<added, mixed, wtRow, link, stage, past, sync>>
      /\ \E v \in {[old EXCEPT !.at = "look"], [old EXCEPT !.at = "clean"], Away} :
           visit' = [visit EXCEPT ![p] = v]
  BY DEF NextVisit
<1>2. Steady /\ BooksInv' /\ Remembers
  BY <1>1, QuietSteady DEF GitInv, BooksInv
<1>3. VisitKept(old, Books)
  BY DEF GitInv, VisitsInv
<1> HIDE DEF old
<1>4. ASSUME NEW place \in {"look", "clean"} PROVE VisitKept([old EXCEPT !.at = place], Books)
  <2> DEFINE v == [old EXCEPT !.at = place]
  <2>1. DOMAIN v = VisitFields /\ v.at = place /\ v.todo = old.todo
    BY <1>3 DEF VisitKept, VisitFields
  <2> HIDE DEF v
  <2>2. VisitKept(v, Books)
    BY <1>3, <2>1 DEF VisitKept
  <2> QED
    BY <2>2 DEF v
<1> QED
  BY <1>1, <1>2, <1>4, AwayKept, VisitStays, VisitMoves

\* The visited session's row, if it is its own, has both branches noted.
LEMMA RecordStep ==
  ASSUME GitInv, NEW p \in Visitors, RecordBranch(p)
  PROVE  GitInv' /\ Remembers
<1> DEFINE old == visit[p]
           s == old.cur.session
           next == [old EXCEPT !.at = "next"]
           goes == [old EXCEPT !.at = "repoint"]
<1>1. /\ old.at = "record"
      /\ UNCHANGED <<added, mixed, wtRow, link, stage, sync>>
      /\ past' = IF stage[s] = "none" THEN past ELSE [past EXCEPT ![s] = @ \cup ToRecord(old.cur, old.name)]
      /\ visit' = [visit EXCEPT ![p] = IF stage[s] = "none" THEN next ELSE goes]
  BY DEF RecordBranch, AddPast
<1>2. VisitKept(old, Books) /\ Entry(old.cur, Books) /\ s \in GitSessions
  BY <1>1 DEF GitInv, VisitsInv, VisitKept, Entry
<1> DEFINE branches == ToRecord(old.cur, old.name)
<1>3. DOMAIN past' = GitSessions /\ \A x \in GitSessions : past[x] \subseteq past'[x]
  <2> HIDE DEF branches
  <2> QED
    BY <1>1, <1>2 DEF GitInv, BooksInv, branches
<1>4. Steady /\ BooksInv' /\ Remembers
  BY <1>1, <1>3, QuietSteady DEF GitInv, BooksInv
<1>5. stage[s] # "none" => Noted(old.cur, old.name, Books')
  <2> SUFFICES ASSUME stage[s] # "none", NEW x \in GitSessions \ mixed', link'[x] = old.cur.row
               PROVE  {old.cur.copy.branch, old.name} \subseteq past'[x] \cup {Main}
    BY DEF Noted, Books
  <2>1. x = s
    BY <1>1, <1>2 DEF Entry, Books
  <2>2. past'[s] = past[s] \cup branches
    BY <1>1, <1>2 DEF GitInv, BooksInv
  <2>3. {old.cur.copy.branch, old.name} \subseteq branches \cup {Main}
    BY DEF ToRecord, IsDefault, DefaultBranch
  <2> QED
    BY <2>1, <2>2, <2>3
<1> HIDE DEF old, s
<1>6. /\ DOMAIN next = VisitFields /\ next.at = "next" /\ next.todo = old.todo
      /\ DOMAIN goes = VisitFields /\ goes.at = "repoint" /\ goes.todo = old.todo
      /\ goes.cur = old.cur /\ goes.name = old.name
  BY <1>2 DEF VisitKept, VisitFields
<1> HIDE DEF next, goes
<1>7. VisitKept(next, Books')
  BY <1>2, <1>4, <1>6, EntryStays DEF VisitKept
<1>8. stage[s] # "none" => VisitKept(goes, Books')
  BY <1>2, <1>4, <1>5, <1>6, EntryStays DEF VisitKept
<1> QED
  BY <1>1, <1>4, <1>7, <1>8, VisitMoves

-----------------------------------------------------------------------------
\* A row is put on a branch when both branches are noted.
LEMMA RepointStep ==
  ASSUME GitInv, NEW p \in Visitors, RepointWorktree(p)
  PROVE  GitInv' /\ Remembers
<1> DEFINE old == visit[p]
           r == old.cur.row
           name == old.name
           rows == [wtRow EXCEPT ![r].branch = name]
           v == [old EXCEPT !.at = "next"]
<1>1. /\ old.at = "repoint" /\ UNCHANGED <<added, mixed, link, stage, past, sync>>
      /\ wtRow' = wtRow \/ (r \in Used(wtRow) /\ wtRow' = rows)
      /\ visit' = [visit EXCEPT ![p] = v]
  BY DEF RepointWorktree, UpdateBranchID
<1>2. VisitKept(old, Books) /\ Entry(old.cur, Books) /\ Noted(old.cur, name, Books)
  BY <1>1 DEF GitInv, VisitsInv, VisitKept
<1>3. ASSUME wtRow' = wtRow PROVE Steady /\ BooksInv' /\ Remembers
  BY <1>1, <1>3, QuietSteady DEF GitInv, BooksInv
<1>4. ASSUME r \in Used(wtRow) PROVE Written(rows)
  <2>1. r \in RowNumbers /\ DOMAIN wtRow[r] = RowFields /\ wtRow[r].status # "none"
    BY <1>4 DEF GitInv, BooksInv, RowsShape, Used
  <2> DEFINE record == [wtRow[r] EXCEPT !.branch = name]
  <2>2. DOMAIN record = RowFields /\ record.branch = name /\ record.status = wtRow[r].status
    BY <2>1 DEF RowFields
  <2> HIDE DEF record
  <2>3. rows = [wtRow EXCEPT ![r] = record]
    BY DEF record
  <2> HIDE DEF r, name, rows
  <2>4. DOMAIN rows = RowNumbers /\ rows[r] = record /\ \A w \in RowNumbers \ {r} : rows[w] = wtRow[w]
    BY <2>1, <2>3 DEF GitInv, BooksInv, RowsShape
  <2>5. RowsShape(rows) /\ Used(rows) = Used(wtRow)
    BY <1>4, <2>1, <2>2, <2>4 DEF GitInv, BooksInv, RowsShape, Used
  <2>6. ASSUME NEW s \in GitSessions \ mixed, link[s] = r
        PROVE  {wtRow[r].branch, name} \subseteq past[s] \cup {Main}
    BY <1>2, <2>6 DEF Entry, CopyHeld, Recalls, Noted, Books, r
  <2>7. ASSUME NEW s \in GitSessions \ mixed, link[s] # 0
        PROVE  \/ rows[link[s]].branch = wtRow[link[s]].branch
               \/ {wtRow[link[s]].branch, rows[link[s]].branch} \subseteq past[s] \cup {Main}
    <3>1. CASE link[s] = r
      BY <3>1, <2>2, <2>4, <2>6
    <3>2. CASE link[s] # r
      BY <3>2, <2>4, <2>7 DEF GitInv, BooksInv, Used
    <3> QED
      BY <3>1, <3>2
  <2> QED
    BY <2>5, <2>7 DEF Written, GitInv, BooksInv
<1>5. ASSUME r \in Used(wtRow), wtRow' = rows PROVE Steady /\ BooksInv' /\ Remembers
  <2> HIDE DEF rows, r, name, old
  <2>1. Written(rows) /\ Extended(rows)
    BY <1>1, <1>4, <1>5, SameExtended DEF GitInv
  <2> QED
    BY <1>1, <2>1, WriteSteady DEF GitInv, BooksInv
<1>6. Steady /\ BooksInv' /\ Remembers
  BY <1>1, <1>3, <1>5
<1> HIDE DEF old, r, name, rows
<1>7. DOMAIN v = VisitFields /\ v.at = "next" /\ v.todo = old.todo
  BY <1>2 DEF VisitKept, VisitFields
<1> HIDE DEF v
<1>8. VisitKept(v, Books')
  BY <1>2, <1>6, <1>7, EntryStays DEF VisitKept
<1> QED
  BY <1>1, <1>6, <1>8, VisitMoves

\* The setup of a session's worktree.
LEMMA SetupStep ==
  ASSUME GitInv, NEW s \in GitSessions, SetupWorktree(s)
  PROVE  GitInv' /\ Remembers
<1>1. /\ UNCHANGED <<known, link, past, mixed, visit, sync>>
      /\ stage' = [stage EXCEPT ![s] = "ready"]
      /\ \/ wtRow' = wtRow /\ added' = added
         \/ \E name, path, new : WorktreeAt(wtRow, name, path, new)
  BY DEF SetupWorktree
<1>2. Written(wtRow) /\ Extended(wtRow)
  BY <1>1, SameRows, SameExtended, TreeMade DEF GitInv
<1>3. Steady /\ BooksInv' /\ Remembers
  BY <1>1, <1>2, WriteSteady DEF GitInv, BooksInv
<1> QED
  BY <1>1, <1>3, VisitsStay, SyncStays DEF GitInv, VisitsInv

\* An activation writes its copy back with a mark, and may make the worktree again.
LEMMA EnsureStep ==
  ASSUME GitInv, EnsureWorktree
  PROVE  GitInv' /\ Remembers
<1> DEFINE old == visit["activate"]
<1>1. PICK l \in old.todo :
        LET marked == MarkWorktree(l.copy)
            rows   == IF marked = l.copy THEN wtRow ELSE SaveRow(wtRow, l.row, marked)
        IN /\ visit' = [visit EXCEPT !["activate"].at = "look", !["activate"].todo = {[l EXCEPT !.copy = marked]}]
           /\ IF marked.status = "present" THEN wtRow' = rows /\ UNCHANGED <<refs, trees, added>>
              ELSE WorktreeAt(rows, l.copy.branch, l.copy.path, FALSE)
  BY Zenon DEF EnsureWorktree
<1> DEFINE copy   == l.copy
           marked == MarkWorktree(copy)
           rows   == IF marked = copy THEN wtRow ELSE SaveRow(wtRow, l.row, marked)
           entry  == [l EXCEPT !.copy = marked]
           v      == [old EXCEPT !.at = "look", !.todo = {entry}]
<1>2. /\ UNCHANGED <<known, link, stage, past, mixed, sync>>
      /\ visit' = [visit EXCEPT !["activate"] = v]
      /\ \/ wtRow' = rows /\ added' = added
         \/ WorktreeAt(rows, copy.branch, copy.path, FALSE)
  BY <1>1 DEF EnsureWorktree
<1>3. VisitKept(old, Books) /\ Entry(l, Books)
  BY DEF GitInv, VisitsInv, VisitKept, Visitors
<1>4. DOMAIN marked = RowFields /\ marked.status # "none" /\ marked.branch = copy.branch
  <2> HIDE DEF copy
  <2>1. DOMAIN copy = RowFields
    BY <1>3 DEF Entry, CopyHeld, copy
  <2> QED
    BY <2>1 DEF MarkWorktree, RowFields
<1> HIDE DEF marked
<1>5. CopyHeld(l.row, marked, Books)
  BY <1>3, <1>4 DEF Entry, CopyHeld
<1>6. Written(rows)
  BY <1>5, SavedRows, SameRows DEF GitInv
<1> HIDE DEF rows
<1>7. Extended(rows)
  BY <1>2, <1>6, SameExtended, TreeMade DEF GitInv
<1>8. Steady /\ BooksInv' /\ Remembers
  BY <1>2, <1>6, <1>7, WriteSteady DEF GitInv, BooksInv
<1>9. Entry(entry, Books)
  <2>1. DOMAIN entry = EntryFields /\ entry.session = l.session /\ entry.row = l.row /\ entry.copy = marked
    BY <1>3 DEF Entry, EntryFields
  <2> HIDE DEF entry
  <2> QED
    BY <1>3, <1>5, <2>1 DEF Entry
<1> HIDE DEF entry, old
<1>10. DOMAIN v = VisitFields /\ v.at = "look" /\ v.todo = {entry}
  BY <1>3 DEF VisitKept, VisitFields
<1> HIDE DEF v
<1>11. VisitKept(v, Books')
  BY <1>8, <1>9, <1>10, EntryStays DEF VisitKept
<1> QED
  BY <1>2, <1>8, <1>11, VisitMoves DEF Visitors

\* The job writes the copy it read.
LEMMA SyncWriteStep ==
  ASSUME GitInv, SyncWrite
  PROVE  GitInv' /\ Remembers
<1> DEFINE rows == SaveRow(wtRow, sync.row, sync.copy)
<1>1. /\ sync.at = "write" /\ wtRow' = rows /\ sync' = [sync EXCEPT !.at = "list"]
      /\ UNCHANGED <<added, mixed, link, stage, past, visit>>
  BY DEF SyncWrite
<1>2. Written(rows)
  BY <1>1, SavedRows DEF GitInv, SyncInv, SyncKept
<1> HIDE DEF rows
<1>3. Extended(rows)
  BY <1>1, <1>2, SameExtended DEF GitInv
<1>4. Steady /\ BooksInv' /\ Remembers
  BY <1>1, <1>2, <1>3, WriteSteady DEF GitInv, BooksInv
<1>5. SyncInv'
  BY <1>1 DEF GitInv, SyncInv, SyncKept, SyncFields
<1> QED
  BY <1>1, <1>4, <1>5, VisitsStay DEF GitInv, VisitsInv

\* The job lists the branches, asks git and reads the row.
LEMMA SyncReadStep ==
  ASSUME GitInv, SyncBranches \/ SyncLook \/ SyncRead
  PROVE  GitInv' /\ Remembers
<1>1. UNCHANGED <<added, mixed, wtRow, link, stage, past, visit>>
  BY DEF SyncBranches, SyncLook, SyncRead
<1>2. Steady /\ BooksInv' /\ Remembers
  BY <1>1, QuietSteady DEF GitInv, BooksInv
<1>3. DOMAIN sync = SyncFields /\ DOMAIN NoSync = SyncFields /\ NoSync.at = "idle"
  <2>1. NoSync.at = "idle"
    BY DEF NoSync
  <2>2. DOMAIN NoSync = SyncFields
    BY DEF NoSync, SyncFields
  <2> QED
    BY <2>1, <2>2 DEF GitInv, SyncInv, SyncKept
<1>4. ASSUME SyncBranches PROVE SyncInv'
  <2> DEFINE job == [NoSync EXCEPT !.at = "list", !.todo = known]
  <2> HIDE DEF job
  <2>1. DOMAIN job = SyncFields /\ job.at = "list"
    BY <1>3 DEF job, SyncFields
  <2>2. sync' = job
    BY <1>4 DEF SyncBranches, job
  <2> QED
    BY <2>1, <2>2 DEF SyncInv, SyncKept
<1>5. ASSUME SyncLook PROVE SyncInv'
  <2>1. sync' = NoSync \/ \E todo, b, there :
          sync' = [sync EXCEPT !.at = "look", !.todo = todo, !.branch = b, !.local = there]
    BY <1>5 DEF SyncLook
  <2>2. DOMAIN sync' = SyncFields /\ sync'.at # "write"
    BY <1>3, <2>1 DEF SyncFields
  <2> QED
    BY <2>2 DEF SyncInv, SyncKept
<1>6. ASSUME SyncRead PROVE SyncInv'
  <2> DEFINE w == RowOf(wtRow, sync.branch)
             seen == IF sync.local /\ Present(wtRow[w].path) THEN "present" ELSE "missing"
             copy == [wtRow[w] EXCEPT !.status = seen]
             done == [sync EXCEPT !.at = "list"]
             job == [sync EXCEPT !.at = "write", !.row = w, !.copy = copy]
  <2>1. sync' = done \/ (RowsOf(wtRow, sync.branch) # {} /\ sync' = job)
    BY <1>6 DEF SyncRead
  <2>2. RowsOf(wtRow, sync.branch) # {} => w \in Used(wtRow)
    BY DEF RowOf, RowsOf
  <2>3. seen # "none"
    OBVIOUS
  <2> HIDE DEF w, seen
  <2>4. w \in Used(wtRow) => w \in RowNumbers /\ w <= added /\ DOMAIN wtRow[w] = RowFields
    BY DEF GitInv, BooksInv, Used, RowsShape
  <2>5. w \in Used(wtRow) =>
          DOMAIN copy = RowFields /\ copy.branch = wtRow[w].branch /\ copy.status # "none"
    BY <2>3, <2>4 DEF RowFields
  <2> HIDE DEF copy
  <2>6. w \in Used(wtRow) => CopyHeld(w, copy, Books)
    BY <2>4, <2>5 DEF CopyHeld, Recalls, Books
  <2>7. DOMAIN done = SyncFields /\ done.at = "list"
        /\ DOMAIN job = SyncFields /\ job.at = "write" /\ job.row = w /\ job.copy = copy
    BY <1>3 DEF SyncFields
  <2> HIDE DEF done, job
  <2>8. SyncKept(done, Books') /\ (w \in Used(wtRow) => SyncKept(job, Books'))
    BY <1>2, <2>6, <2>7, KeptStays DEF SyncKept
  <2> QED
    BY <2>1, <2>2, <2>8 DEF SyncInv
<1> QED
  BY <1>1, <1>2, <1>4, <1>5, <1>6, VisitsStay DEF GitInv, VisitsInv

-----------------------------------------------------------------------------
\* A session is made on a row of its own, or on one that is there: then it and the session
\* it was taken from are mixed.
LEMMA CreateStep ==
  ASSUME GitInv, NEW s \in GitSessions, NEW name, EagerCreateWorktree(s, name)
  PROVE  GitInv' /\ Remembers
<1> DEFINE taken == RowsOf(wtRow, name) # {}
           w     == PendingNumber(name)
           record   == PendingRow(name, s)
<1>1. UNCHANGED <<visit, sync>> /\ w \in RowNumbers
  BY DEF EagerCreateWorktree
<1>2. CASE ~Unique(wtRow, w, record)
  <2>1. UNCHANGED <<wtRow, added, link, stage, past, mixed>>
    BY <1>2 DEF EagerCreateWorktree
  <2>2. Steady /\ BooksInv' /\ Remembers
    BY <2>1, QuietSteady DEF GitInv, BooksInv
  <2> QED
    BY <1>1, <2>2, VisitsStay, SyncStays DEF GitInv, VisitsInv
<1>3. CASE Unique(wtRow, w, record)
  <2>1. /\ wtRow' = [wtRow EXCEPT ![w] = record]
        /\ added' = (IF taken THEN added ELSE w)
        /\ link' = [link EXCEPT ![s] = w]
        /\ stage' = [stage EXCEPT ![s] = "creating"]
        /\ past' = [past EXCEPT ![s] = {}]
        /\ mixed' = IF taken THEN mixed \cup {s} \cup {x \in GitSessions : link[x] = w} ELSE mixed \ {s}
    BY <1>3 DEF EagerCreateWorktree
  <2>2. DOMAIN record = RowFields /\ record.status # "none"
        /\ IF taken THEN w \in Used(wtRow) /\ record.branch = wtRow[w].branch
           ELSE w = added + 1 /\ w \notin Used(wtRow)
    <3>1. CASE taken
      <4> DEFINE old == wtRow[w]
      <4>1. w = RowOf(wtRow, name) /\ record = [wtRow[RowOf(wtRow, name)] EXCEPT !.path = s]
        BY <3>1 DEF PendingNumber, PendingRow
      <4>2. w \in Used(wtRow) /\ record = [old EXCEPT !.path = s]
        BY <3>1, <4>1 DEF RowOf, RowsOf
      <4>3. DOMAIN old = RowFields /\ old.status # "none"
        BY <4>2 DEF GitInv, BooksInv, RowsShape, Used
      <4> HIDE DEF old
      <4>4. DOMAIN record = RowFields /\ record.branch = old.branch /\ record.status = old.status
        BY <4>2, <4>3 DEF RowFields
      <4> QED
        BY <3>1, <4>2, <4>3, <4>4 DEF old
    <3>2. CASE ~taken
      <4>1. w = added + 1 /\ record = [path |-> s, branch |-> name, status |-> "pending"]
        BY <3>2 DEF PendingNumber, PendingRow
      <4>2. added + 1 \notin Used(wtRow)
        BY DEF GitInv, BooksInv
      <4> QED
        BY <3>2, <4>1, <4>2 DEF RowFields
    <3> QED
      BY <3>1, <3>2
  <2> HIDE DEF record, taken, w
  <2>3. added \in Nat /\ w \in Nat /\ w # 0 /\ (taken => w <= added)
    BY <1>1, <2>2 DEF GitInv, BooksInv, RowNumbers
  <2>4. DOMAIN wtRow' = RowNumbers /\ wtRow'[w] = record /\ \A x \in RowNumbers \ {w} : wtRow'[x] = wtRow[x]
    BY <1>1, <2>1 DEF GitInv, BooksInv, RowsShape
  <2>5. RowsShape(wtRow') /\ Used(wtRow') = Used(wtRow) \cup {w}
    BY <1>1, <2>2, <2>4 DEF GitInv, BooksInv, RowsShape, Used
  <2>6. \A x \in Used(wtRow) : wtRow'[x].branch = wtRow[x].branch
    BY <2>2, <2>4 DEF Used
  <2>7. /\ DOMAIN link' = GitSessions /\ link'[s] = w
        /\ \A x \in GitSessions \ {s} : link'[x] = link[x] /\ past'[x] = past[x]
        /\ DOMAIN stage' = GitSessions /\ DOMAIN past' = GitSessions
    BY <2>1 DEF GitInv, BooksInv
  <2>8. \A x \in GitSessions : link[x] # 0 => link[x] \in Used(wtRow) /\ link[x] \in Nat /\ link[x] <= added
    BY DEF GitInv, BooksInv, Used, RowNumbers
  <2>9. added' \in Nat /\ added <= added' /\ w <= added'
    BY <2>1, <2>2, <2>3
  <2>10. ASSUME NEW x \in GitSessions \ mixed', link'[x] # 0, link'[x] <= added
         PROVE  x # s /\ x \notin mixed /\ link'[x] = link[x]
    <3>1. x # s
      BY <2>1, <2>2, <2>3, <2>7, <2>10
    <3> QED
      BY <3>1, <2>1, <2>7, <2>10
  <2>11. Steady
    BY <2>6, <2>7, <2>8, <2>9, <2>10 DEF Steady, GitInv, BooksInv
  <2>12. \A x \in GitSessions \ mixed', y \in GitSessions : link'[x] # 0 /\ link'[y] = link'[x] => y = x
    <3> SUFFICES ASSUME NEW x \in GitSessions \ mixed', NEW y \in GitSessions,
                        link'[x] # 0, link'[y] = link'[x], y # x
                 PROVE  FALSE
      OBVIOUS
    <3>1. CASE taken
      <4>1. x # s /\ x \notin mixed /\ link[x] # w
        BY <3>1, <2>1
      <4>2. y # s /\ link[y] = link[x]
        BY <4>1, <2>7
      <4> QED
        BY <4>1, <4>2, <2>7 DEF GitInv, BooksInv
    <3>2. CASE ~taken
      <4>1. x # s => link'[x] = link[x] /\ link[x] <= added /\ link[x] # 0
        BY <2>7, <2>8
      <4>2. y # s => link'[y] = link[y] /\ (link[y] # 0 => link[y] <= added)
        BY <2>7, <2>8
      <4>3. w > added
        BY <3>2, <2>2, <2>3
      <4>4. x # s /\ y # s
        BY <4>1, <4>2, <4>3, <2>3, <2>7, <2>8
      <4>5. x \notin mixed
        BY <3>2, <4>4, <2>1
      <4> QED
        BY <4>1, <4>2, <4>4, <4>5 DEF GitInv, BooksInv
    <3> QED
      BY <3>1, <3>2
  <2>13. \A x \in GitSessions : link'[x] \in Used(wtRow') \cup {0}
    BY <2>5, <2>7, <2>8
  <2>14. \A x \in Used(wtRow') : x <= added'
    <3>1. \A x \in Used(wtRow) : x \in Nat /\ x <= added
      BY DEF GitInv, BooksInv, Used, RowNumbers
    <3> QED
      BY <3>1, <2>3, <2>5, <2>9
  <2>15. BooksInv'
    BY <2>5, <2>7, <2>9, <2>12, <2>13, <2>14 DEF BooksInv
  <2>16. Remembers
    BY <2>6, <2>8 DEF Remembers, LeavesUnremembered
  <2> QED
    BY <1>1, <2>11, <2>15, <2>16, VisitsStay, SyncStays DEF GitInv, VisitsInv
<1> QED
  BY <1>2, <1>3

\* A session is deleted: its link goes, its row stays.
LEMMA CleanupStep ==
  ASSUME GitInv, CleanupSession
  PROVE  GitInv' /\ Remembers
<1> DEFINE s == visit["delete"].cur.session
           v == [Away EXCEPT !.at = "row", !.cur.row = link[s]]
<1>1. /\ UNCHANGED <<added, mixed, wtRow, sync>>
      /\ stage' = [stage EXCEPT ![s] = "none"]
      /\ past' = [past EXCEPT ![s] = {}]
      /\ link' = [link EXCEPT ![s] = 0]
      /\ visit' = [visit EXCEPT !["delete"] = v]
  BY DEF CleanupSession
<1>2. DOMAIN v = VisitFields /\ v.at = "row" /\ v.todo = {}
  BY DEF Away, VisitFields
<1> HIDE DEF s, v
<1>3. /\ DOMAIN link' = GitSessions /\ DOMAIN stage' = GitSessions /\ DOMAIN past' = GitSessions
      /\ \A x \in GitSessions : link'[x] = 0 \/ (link'[x] = link[x] /\ past'[x] = past[x])
  BY <1>1 DEF GitInv, BooksInv
<1>4. BooksInv'
  BY <1>1, <1>3 DEF GitInv, BooksInv
<1>5. Steady
  BY <1>1, <1>3 DEF Steady, GitInv, BooksInv
<1>6. Remembers
  BY <1>1, <1>5, SteadyRemembers DEF GitInv
<1>7. VisitKept(v, Books')
  BY <1>2 DEF VisitKept
<1> QED
  BY <1>1, <1>4, <1>5, <1>6, <1>7, VisitMoves DEF Visitors

\* A row goes when no session is linked to it.
LEMMA DeleteStep ==
  ASSUME GitInv, DeleteWorktree
  PROVE  GitInv' /\ Remembers
<1> DEFINE w == visit["delete"].cur.row
<1>1. /\ UNCHANGED <<added, mixed, link, stage, past, sync>>
      /\ visit' = [visit EXCEPT !["delete"] = Away]
      /\ wtRow' = wtRow \/ ((\A s \in GitSessions : link[s] # w) /\ wtRow' = [wtRow EXCEPT ![w] = NoWorktree])
  BY DEF DeleteWorktree
<1>2. DOMAIN NoWorktree = RowFields /\ NoWorktree.status = "none"
  BY DEF NoWorktree, RowFields
<1> HIDE DEF w
<1>3. /\ RowsShape(wtRow') /\ Used(wtRow') \subseteq Used(wtRow)
      /\ \A s \in GitSessions : link[s] # 0 => link[s] \in Used(wtRow') /\ wtRow'[link[s]] = wtRow[link[s]]
  <2>1. CASE wtRow' = wtRow
    BY <2>1 DEF GitInv, BooksInv
  <2>2. CASE (\A s \in GitSessions : link[s] # w) /\ wtRow' = [wtRow EXCEPT ![w] = NoWorktree]
    <3>1. DOMAIN wtRow' = RowNumbers
          /\ \A x \in RowNumbers : wtRow'[x] = IF x = w THEN NoWorktree ELSE wtRow[x]
      BY <2>2 DEF GitInv, BooksInv, RowsShape
    <3> QED
      BY <1>2, <2>2, <3>1 DEF GitInv, BooksInv, RowsShape, Used
  <2> QED
    BY <1>1, <2>1, <2>2
<1>4. BooksInv'
  BY <1>1, <1>3 DEF GitInv, BooksInv
<1>5. Steady
  BY <1>1, <1>3 DEF Steady, GitInv, BooksInv
<1>6. Remembers
  BY <1>1, <1>5, SteadyRemembers DEF GitInv
<1> QED
  BY <1>1, <1>4, <1>5, <1>6, AwayKept, VisitMoves DEF GitInv, Visitors

LEMMA RestartStep ==
  ASSUME GitInv, RestartGit
  PROVE  GitInv' /\ Remembers
<1>1. /\ UNCHANGED <<added, mixed, wtRow, link, stage, past>>
      /\ visit' = [p \in Visitors |-> Away] /\ sync' = NoSync
  BY DEF RestartGit
<1>2. BooksInv' /\ Remembers
  BY <1>1, QuietSteady DEF GitInv, BooksInv
<1> QED
  BY <1>1, <1>2, AwayKept, NoSyncKept DEF GitInv, VisitsInv, SyncInv

LEMMA GitBegins == GitInit => GitInv
<1> SUFFICES ASSUME GitInit PROVE GitInv
  OBVIOUS
<1>1. DOMAIN NoWorktree = RowFields /\ NoWorktree.status = "none"
  BY DEF NoWorktree, RowFields
<1>2. RowsShape(wtRow) /\ Used(wtRow) = {}
  BY <1>1 DEF GitInit, RowsShape, Used
<1>3. BooksInv
  BY <1>2 DEF GitInit, BooksInv
<1> QED
  BY <1>3, AwayKept, NoSyncKept DEF GitInit, GitInv, VisitsInv, SyncInv

LEMMA GitStays == GitInv /\ [GitNext]_gitVars => GitInv' /\ Remembers
<1> SUFFICES ASSUME GitInv, [GitNext]_gitVars PROVE GitInv' /\ Remembers
  OBVIOUS
<1>1. CASE GitUsers
  <2>1. ASSUME NEW s \in GitSessions, NEW b \in Branches \cup {Detached}, UserCheckout(s, b)
        PROVE  GitInv' /\ Remembers
    BY <2>1, ReportStep DEF UserCheckout
  <2>2. ASSUME NEW b \in Branches, NEW c \in Branches, UserRenames(b, c) PROVE GitInv' /\ Remembers
    BY <2>2, ReportStep DEF UserRenames
  <2>3. ASSUME NEW b \in Branches, UserDeletesBranch(b) PROVE GitInv' /\ Remembers
    BY <2>3, ReportStep DEF UserDeletesBranch
  <2>4. ASSUME NEW s \in GitSessions, UserRemovesTree(s) PROVE GitInv' /\ Remembers
    BY <2>4, ReportStep DEF UserRemovesTree
  <2>5. ASSUME NEW s \in GitSessions, StartActivation(s) \/ StartDeletion(s) PROVE GitInv' /\ Remembers
    <3>1. CASE StartActivation(s)
      BY <3>1, BeginStep DEF StartActivation, Visitors
    <3>2. CASE StartDeletion(s)
      BY <3>2, BeginStep DEF StartDeletion, Visitors
    <3> QED
      BY <2>5, <3>1, <3>2
  <2> QED
    BY <1>1, <2>1, <2>2, <2>3, <2>4, <2>5, CreateStep, RestartStep DEF GitUsers
<1>2. CASE GitJobsStart
  <2>1. CASE StartSessionBranches
    BY <2>1, BeginStep DEF StartSessionBranches, Visitors
  <2> QED
    BY <1>2, <2>1, SyncReadStep DEF GitJobsStart
<1>3. CASE GitDaemon
  BY <1>3, SetupStep, HookStep, EnsureStep, CleanupStep, DeleteStep, LookStep, NextStep,
     RecordStep, RepointStep, SyncReadStep, SyncWriteStep DEF GitDaemon
<1>4. CASE UNCHANGED gitVars
  BY <1>4, ReportStep DEF gitVars
<1> QED
  BY <1>1, <1>2, <1>3, <1>4 DEF GitNext

\* BranchesAreRemembered: the row of a session leaves a branch only when the branch is
\* among the past branches of the session.
THEOREM LeftBranchesAreKnown == GitSpec => BranchesAreRemembered
<1>1. [GitNext]_gitVars /\ GitInv => [\A s \in GitSessions : ~LeavesUnremembered(s)]_gitVars
  BY GitStays DEF Remembers
<1> QED
  BY <1>1, GitBegins, GitStays, PTL DEF GitSpec, BranchesAreRemembered
=============================================================================
