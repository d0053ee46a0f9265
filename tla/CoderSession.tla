---------------------------- MODULE CoderSession ----------------------------
(***************************************************************************)
(* A session whose work is done in a remote workspace: its row in the      *)
(* leader's database (session/remotebackend.go, session/sessionstore.go),  *)
(* the goroutines that create, activate, archive and delete it             *)
(* (coder/service.go), the hooks that write the row as they read it        *)
(* earlier (session/sessionservice.go), the poll that mirrors the          *)
(* follower, and the start of the daemon, which resumes what a stop        *)
(* interrupted.                                                            *)
(*                                                                         *)
(* One session and its workspace; the connection is CoderConn's, here any  *)
(* call may fail.  The follower keeps the session service's own promise:   *)
(* CreateSession answers with the live session of the same name.           *)
(***************************************************************************)
EXTENDS Naturals, FiniteSets

CONSTANTS
  Workers,   \* goroutines that are at work for the session
  Ids,       \* numbers of the follower's sessions
  NoWorker   \* nobody

ASSUME NoWorkerIsNone == NoWorker \notin Workers
ASSUME IdsArePositive == Ids \subseteq Nat \ {0}

VARIABLES
  row,        \* the row of the session
  workspace,  \* the remote workspace
  follower,   \* the sessions of the follower, which live in the workspace
  worker,     \* every goroutine
  holder,     \* who holds the lock of the workspace
  polled,     \* a status read from the follower and not yet applied
  stale,      \* history: a row read earlier was written over a newer one, and left in progress
  overtaken   \* history: the workspace was erased before a creation of the session reached it

coderVars == <<row, workspace, follower, worker, holder, polled, stale, overtaken>>

Statuses == {"none", "creating", "active", "inactive", "broken", "archived", "deleted"}
Row      == [status : Statuses, attached : BOOLEAN, remote : Ids \cup {0}, create : BOOLEAN]
NoRow    == [status |-> "none", attached |-> FALSE, remote |-> 0, create |-> FALSE]
Idle     == [does |-> "nothing", at |-> "none", resume |-> FALSE, read |-> NoRow, made |-> 0]

Mirrored   == {"active", "inactive", "broken"}   \* MirroredStatuses; "completed" needs pull requests
CanArchive == Mirrored
Live       == {"creating", "active", "broken"}   \* a follower session its CreateSession would answer with

CoderInit ==
  /\ row = NoRow
  /\ workspace = "none"
  /\ follower = [i \in Ids |-> "none"]
  /\ worker = [w \in Workers |-> Idle]
  /\ holder = NoWorker
  /\ polled = "none"
  /\ stale = FALSE
  /\ overtaken = FALSE

Exists      == row.status # "none"
Stands(w, does, at) == worker[w].does = does /\ worker[w].at = at
Turns(w, at) == worker' = [worker EXCEPT ![w].at = at]
Ends(w)     == worker' = [worker EXCEPT ![w] = Idle]
Starts(w, does, at, resume) ==
  /\ worker[w] = Idle
  /\ worker' = [worker EXCEPT ![w] = [Idle EXCEPT !.does = does, !.at = at, !.resume = resume,
                                                  !.read = row]]
History == UNCHANGED <<polled, stale, overtaken>>
World   == UNCHANGED <<workspace, follower>>

-----------------------------------------------------------------------------
(***************************************************************************)
(* What requests and hooks write.  Save writes the whole row as it was     *)
(* read, but for the number of the follower's session; UpdateStatusWhere   *)
(* compares the status in the database.                                    *)
(***************************************************************************)
UpdateStatusWhere(from, to) ==
  row' = IF row.status = from THEN [row EXCEPT !.status = to] ELSE row

Save(read, status, attached) ==
  /\ row' = IF Exists THEN [row EXCEPT !.status = status, !.attached = attached, !.create = read.create]
            ELSE row
  /\ stale' = (stale \/ (row'.status \in {"creating", "deleted"} /\ row'.status # row.status
                         /\ read.status = row'.status))

\* createCoderSession adds the row and starts the goroutine.  The row has a
\* number of its own: what is at work for an earlier one never writes it.
CreateCoderSession(w) ==
  /\ ~Exists /\ polled = "none"
  /\ \A v \in Workers : worker[v] = Idle
  /\ row' = [NoRow EXCEPT !.status = "creating", !.create = TRUE]
  /\ worker' = [worker EXCEPT ![w] = [Idle EXCEPT !.does = "create", !.at = "waits", !.read = row']]
  /\ UNCHANGED <<holder>> /\ World /\ History

\* activateCoderSession: an archived session is claimed by its status.
ActivateCoderSession(w) ==
  /\ row.status \in {"active", "inactive", "archived"}
  /\ row.status # "archived" => ~row.attached
  /\ UpdateStatusWhere("archived", "creating")
  /\ Starts(w, "activate", IF row.remote = 0 THEN "failed" ELSE "waits", row.status = "archived")
  /\ UNCHANGED holder /\ World /\ History

\* ArchiveSession and DeleteSession read the row; one that is not archived is deleted by force.
ReadToArchive(w) ==
  /\ row.status \in CanArchive
  /\ Starts(w, "archive", "read", FALSE)
  /\ UNCHANGED <<row, holder>> /\ World /\ History

ReadToDelete(w) ==
  /\ Exists /\ ~row.attached
  /\ Starts(w, "delete", "read", FALSE)
  /\ UNCHANGED <<row, holder>> /\ World /\ History

SaveArchived(w) ==
  /\ Stands(w, "archive", "read")
  /\ Save(worker[w].read, "archived", FALSE)
  /\ IF Exists THEN Turns(w, "waits") ELSE Ends(w)
  /\ UNCHANGED <<holder, polled, overtaken>> /\ World

SaveDeleted(w) ==
  /\ Stands(w, "delete", "read")
  /\ Save(worker[w].read, "deleted", FALSE)
  /\ IF Exists THEN Turns(w, "waits") ELSE Ends(w)
  /\ UNCHANGED <<holder, polled, overtaken>> /\ World

\* The hooks of the multiplexer: attached, detached, switched away or closed.
ReadForHook(w) ==
  /\ Exists
  /\ Starts(w, "hook", "read", FALSE)
  /\ UNCHANGED <<row, holder>> /\ World /\ History

SaveFromHook(w) ==
  LET read == worker[w].read IN
  /\ Stands(w, "hook", "read")
  /\ \/ Save(read, "broken", FALSE)
     \/ \E attached \in BOOLEAN : Save(read, read.status, attached)
  /\ Ends(w)
  /\ UNCHANGED <<holder, polled, overtaken>> /\ World

-----------------------------------------------------------------------------
(***************************************************************************)
(* The lock of the workspace (coder/service.go:68) is held by one worker   *)
(* for the whole of Create, Activate, Archive or Delete.                   *)
(***************************************************************************)
First(does) ==
  CASE does = "create" -> "build" [] does = "activate" -> "reach"
    [] does = "archive" -> "stop" [] does = "delete" -> "erase"

LockWorkspace(w) ==
  /\ worker[w].at = "waits"
  /\ holder = NoWorker
  /\ holder' = w
  /\ Turns(w, First(worker[w].does))
  /\ UNCHANGED row /\ World /\ History

\* The call returns and the lock is free; what follows is the caller's.
Returns(w, at) == holder' = NoWorker /\ Turns(w, at)

-----------------------------------------------------------------------------
(***************************************************************************)
(* Create.                                                                 *)
(***************************************************************************)
\* workspaceID: the workspace is in the list of the user's workspaces.
InList == workspace # "none"

\* A command reaches the workspace over ssh, which starts a stopped one.
Reached == InList /\ workspace' = "running"

\* A resumed creation finds its workspace built.
FindBuilt(w) ==
  /\ Stands(w, "create", "build")
  /\ worker[w].resume /\ InList
  /\ Turns(w, "agent")
  /\ UNCHANGED <<row, holder>> /\ World /\ History

Build(w) ==
  /\ Stands(w, "create", "build")
  /\ ~InList
  /\ workspace' = "running"
  /\ Turns(w, "agent")
  /\ UNCHANGED <<row, holder, follower>> /\ History

\* The name is taken, the lookup fails, or the build does and leaves what it built.
BuildFails(w) ==
  /\ Stands(w, "create", "build")
  /\ workspace' \in {workspace} \cup (IF workspace = "none" THEN {"stopped"} ELSE {})
  /\ Returns(w, "failed")
  /\ UNCHANGED <<row, follower>> /\ History

WaitForAgent(w) ==
  /\ Stands(w, "create", "agent")
  /\ Reached
  /\ Turns(w, "token")
  /\ UNCHANGED <<row, holder, follower>> /\ History

\* The token is of the workspace's number and written to its disk; a resumed
\* creation removes the one of its first attempt.
InstallKeepaliveToken(w) ==
  /\ Stands(w, "create", "token")
  /\ Reached
  /\ Turns(w, "link")
  /\ UNCHANGED <<row, holder, follower>> /\ History

\* The connection stands and the follower knows the repository.
LinkWorkspace(w) ==
  /\ Stands(w, "create", "link")
  /\ Reached
  /\ Turns(w, "session")
  /\ UNCHANGED <<row, holder, follower>> /\ History

PrepareFails(w) ==
  /\ \E at \in {"agent", "token", "link"} : Stands(w, "create", at)
  /\ Returns(w, "failed")
  /\ UNCHANGED row /\ World /\ History

\* The creation that is resumed knows its follower session.
KnownSession(w) ==
  /\ Stands(w, "create", "session")
  /\ worker[w].read.remote # 0
  /\ worker' = [worker EXCEPT ![w].at = "follow", ![w].made = worker[w].read.remote]
  /\ UNCHANGED <<row, holder>> /\ World /\ History

\* Mutant of Answered: the follower does not look for the name.
AnsweredAnew(i) == follower[i] = "none"

\* The live session of the name, or a new one.
Answered(i) == follower[i] \in Live \/ (follower[i] = "none" /\ \A j \in Ids : follower[j] \notin Live)

\* CreateSession on the follower; the answer may be lost.
CreateFollower(w) ==
  /\ Stands(w, "create", "session")
  /\ worker[w].read.remote = 0
  /\ workspace = "running"
  /\ \E i \in Ids :
       /\ Answered(i)
       /\ follower' = [follower EXCEPT ![i] = IF @ = "none" THEN "creating" ELSE @]
       /\ \/ worker' = [worker EXCEPT ![w].at = "record", ![w].made = i] /\ UNCHANGED holder
          \/ Returns(w, "failed")
  /\ UNCHANGED <<row, workspace>> /\ History

CreateFollowerFails(w) ==
  /\ Stands(w, "create", "session")
  /\ worker[w].read.remote = 0
  /\ Returns(w, "failed")
  /\ UNCHANGED row /\ World /\ History

SetRemoteSessionID(w) ==
  /\ Stands(w, "create", "record")
  /\ row' = IF Exists THEN [row EXCEPT !.remote = worker[w].made] ELSE row
  /\ Turns(w, "follow")
  /\ UNCHANGED holder /\ World /\ History

\* apply: the status of the follower replaces one that mirrors it.
Applied(status) ==
  row' = IF row.status \in Mirrored /\ status \in Mirrored THEN [row EXCEPT !.status = status] ELSE row

\* waitFollowerActive: active, broken, gone, unreachable, or 20 minutes are over.
FollowerActive(w) ==
  /\ Stands(w, "create", "follow")
  /\ workspace = "running"
  /\ follower[worker[w].made] = "active"
  /\ Applied("active")
  /\ Returns(w, "done")
  /\ World /\ History

FollowFails(w) ==
  /\ Stands(w, "create", "follow")
  /\ Returns(w, "failed")
  /\ UNCHANGED row /\ World /\ History

\* Mutant of FinishCreate: only a success is written.
FinishCreateIfDone(w) ==
  /\ worker[w].does = "create" /\ worker[w].at \in {"done", "failed"}
  /\ row' = IF row.status = "creating" /\ worker[w].at = "done"
            THEN [row EXCEPT !.status = "active", !.create = FALSE] ELSE row
  /\ Ends(w)
  /\ UNCHANGED holder /\ World /\ History

\* FinishRemoteCreate.
FinishCreate(w) ==
  /\ worker[w].does = "create" /\ worker[w].at \in {"done", "failed"}
  /\ row' = IF row.status = "creating"
            THEN [row EXCEPT !.status = IF worker[w].at = "done" THEN "active" ELSE "broken",
                             !.create = FALSE] ELSE row
  /\ Ends(w)
  /\ UNCHANGED holder /\ World /\ History

-----------------------------------------------------------------------------
(***************************************************************************)
(* Activate, Archive, Delete.                                              *)
(***************************************************************************)
\* The workspace is started, by a resumption or when it does not answer.
Reach(w) ==
  /\ Stands(w, "activate", "reach")
  /\ Reached
  /\ Turns(w, "revive")
  /\ UNCHANGED <<row, holder, follower>> /\ History

ReachFails(w) ==
  /\ Stands(w, "activate", "reach")
  /\ workspace' \in {workspace} \cup (IF workspace = "none" THEN {} ELSE {"running"})
  /\ Returns(w, "failed")
  /\ UNCHANGED <<row, follower>> /\ History

\* ActivateSession on the follower, which refuses a creating or broken session.
Revive(w) ==
  LET i == worker[w].read.remote IN
  /\ Stands(w, "activate", "revive")
  /\ workspace = "running"
  /\ follower[i] \in {"active", "archived"}
  /\ follower' = [follower EXCEPT ![i] = "active"]
  /\ Applied("active") \/ UNCHANGED row
  /\ Returns(w, "done")
  /\ UNCHANGED workspace /\ History

ReviveFails(w) ==
  /\ Stands(w, "activate", "revive")
  /\ Returns(w, "failed")
  /\ UNCHANGED row /\ World /\ History

SettleActivated(w) ==
  /\ Stands(w, "activate", "done")
  /\ IF worker[w].resume THEN UpdateStatusWhere("creating", "active") ELSE UNCHANGED row
  /\ Turns(w, "attach")
  /\ UNCHANGED holder /\ World /\ History

\* ClearAttachedExcept and MarkAttached, whatever became of the row.
MarkAttached(w) ==
  /\ Stands(w, "activate", "attach")
  /\ row' = IF Exists THEN [row EXCEPT !.attached = TRUE] ELSE row
  /\ Ends(w)
  /\ UNCHANGED holder /\ World /\ History

ActivateFailed(w) ==
  /\ Stands(w, "activate", "failed")
  /\ IF worker[w].resume THEN UpdateStatusWhere("creating", "archived") ELSE UNCHANGED row
  /\ Ends(w)
  /\ UNCHANGED holder /\ World /\ History

\* Archive: the follower's session is archived if it can be, the workspace stopped if it can be.
Stop(w) ==
  LET i == worker[w].read.remote IN
  /\ Stands(w, "archive", "stop")
  /\ follower' \in {follower} \cup
       (IF i # 0 /\ workspace = "running" /\ follower[i] \in {"active", "broken"}
        THEN {[follower EXCEPT ![i] = "archived"]} ELSE {})
  /\ workspace' \in {workspace} \cup (IF workspace = "none" THEN {} ELSE {"stopped"})
  /\ holder' = NoWorker
  /\ Ends(w)
  /\ UNCHANGED row /\ History

\* Delete: a workspace that is not found counts as deleted.
Erase(w) ==
  /\ Stands(w, "delete", "erase")
  /\ workspace' = "none"
  /\ follower' = [i \in Ids |-> "none"]
  /\ Returns(w, "done")
  /\ overtaken' = (overtaken \/ \E v \in Workers : worker[v].does = "create")
  /\ UNCHANGED <<row, polled, stale>>

EraseFails(w) ==
  LET i == worker[w].read.remote IN
  /\ Stands(w, "delete", "erase")
  /\ workspace # "none"
  /\ follower' \in {follower} \cup (IF i # 0 THEN {[follower EXCEPT ![i] = "none"]} ELSE {})
  /\ Returns(w, "failed")
  /\ UNCHANGED <<row, workspace>> /\ History

\* The row is removed whatever its status became.
HardDelete(w) ==
  /\ Stands(w, "delete", "done")
  /\ row' = NoRow
  /\ Ends(w)
  /\ UNCHANGED holder /\ World /\ History

\* Mutant of RestoreArchived: the row goes although the workspace stays.
RestoreNothing(w) ==
  /\ Stands(w, "delete", "failed")
  /\ row' = NoRow
  /\ Ends(w)
  /\ UNCHANGED holder /\ World /\ History

RestoreArchived(w) ==
  /\ Stands(w, "delete", "failed")
  /\ UpdateStatusWhere("deleted", "archived")
  /\ Ends(w)
  /\ UNCHANGED holder /\ World /\ History

-----------------------------------------------------------------------------
(***************************************************************************)
(* The poll, the follower, the workspace and the daemon.                   *)
(***************************************************************************)
Poll ==
  /\ polled = "none"
  /\ row.status \in Mirrored /\ row.remote # 0
  /\ workspace = "running"
  /\ polled' = follower[row.remote]
  /\ UNCHANGED <<row, worker, holder, stale, overtaken>> /\ World

\* A request reads the follower of a session in any status, over a connection
\* it makes if there is none.
Refresh ==
  /\ polled = "none"
  /\ row.remote # 0
  /\ Reached
  /\ follower[row.remote] # "none"
  /\ polled' = follower[row.remote]
  /\ UNCHANGED <<row, follower, worker, holder, stale, overtaken>>

ApplyRemoteState ==
  /\ polled # "none"
  /\ Applied(polled)
  /\ polled' = "none"
  /\ UNCHANGED <<worker, holder, stale, overtaken>> /\ World

FollowerSettles(i) ==
  /\ follower[i] = "creating" /\ workspace = "running"
  /\ \E status \in {"active", "broken"} : follower' = [follower EXCEPT ![i] = status]
  /\ UNCHANGED <<row, workspace, worker, holder>> /\ History

\* The workspace stops by itself.
WorkspaceStops ==
  /\ workspace = "running"
  /\ workspace' = "stopped"
  /\ UNCHANGED <<row, follower, worker, holder>> /\ History

Task(does, resume) == [Idle EXCEPT !.does = does, !.at = "waits", !.resume = resume, !.read = row]

\* Mutant of Resumed: deletions are not resumed.
ResumedCreates(w) ==
  IF row.status = "creating" /\ row.create
  THEN row' = row /\ worker' = [v \in Workers |-> IF v = w THEN Task("create", TRUE) ELSE Idle]
  ELSE /\ worker' = [v \in Workers |-> Idle]
       /\ row' = IF row.status # "creating" THEN row
                 ELSE [row EXCEPT !.status = IF row.remote # 0 THEN "archived" ELSE "broken"]

\* recoverCoderCreating and resumeCoderDeletes.
Resumed(w) ==
  IF row.status = "deleted" \/ (row.status = "creating" /\ row.create)
  THEN /\ row' = row
       /\ worker' = [v \in Workers |-> IF v # w THEN Idle
                       ELSE IF row.status = "deleted" THEN Task("delete", FALSE) ELSE Task("create", TRUE)]
  ELSE /\ worker' = [v \in Workers |-> Idle]
       /\ row' = IF row.status # "creating" THEN row
                 ELSE [row EXCEPT !.status = IF row.remote # 0 THEN "archived" ELSE "broken"]

\* The daemon stops at any moment and starts again.
Restart(w) ==
  /\ Resumed(w)
  /\ holder' = NoWorker
  /\ polled' = "none"
  /\ stale' = FALSE
  /\ UNCHANGED overtaken /\ World

-----------------------------------------------------------------------------
Requests ==
  \/ \E w \in Workers :
       \/ CreateCoderSession(w) \/ ActivateCoderSession(w)
       \/ ReadToArchive(w) \/ ReadToDelete(w) \/ ReadForHook(w)
       \/ Restart(w)
  \/ WorkspaceStops

Creating(w) ==
  /\ worker[w].does = "create"
  /\ \/ FindBuilt(w) \/ Build(w) \/ BuildFails(w) \/ WaitForAgent(w) \/ InstallKeepaliveToken(w)
     \/ LinkWorkspace(w) \/ PrepareFails(w)
     \/ KnownSession(w) \/ CreateFollower(w) \/ CreateFollowerFails(w) \/ SetRemoteSessionID(w)
     \/ FollowerActive(w) \/ FollowFails(w) \/ FinishCreate(w)

Activating(w) ==
  /\ worker[w].does = "activate"
  /\ \/ Reach(w) \/ ReachFails(w) \/ Revive(w) \/ ReviveFails(w)
     \/ SettleActivated(w) \/ MarkAttached(w) \/ ActivateFailed(w)

Removing(w) ==
  /\ worker[w].does \in {"archive", "delete"}
  /\ \/ SaveArchived(w) \/ Stop(w) \/ SaveDeleted(w) \/ Erase(w) \/ EraseFails(w)
     \/ HardDelete(w) \/ RestoreArchived(w)

Working ==
  \/ \E w \in {v \in Workers : worker[v] # Idle} :
       LockWorkspace(w) \/ Creating(w) \/ Activating(w) \/ Removing(w) \/ SaveFromHook(w)
  \/ \E i \in Ids : FollowerSettles(i)
  \/ ApplyRemoteState

CoderNext == Requests \/ Poll \/ Refresh \/ Working

\* A goroutine that can run does, in any order; every call of a worker ends,
\* by an answer or its timeout.
CoderFairness == WF_coderVars(Working)

CoderSpec == CoderInit /\ [][CoderNext]_coderVars /\ CoderFairness
-----------------------------------------------------------------------------
(***************************************************************************)
(* Properties.                                                             *)
(***************************************************************************)
\* The type of every variable.
CoderTypeOK ==
  /\ row \in Row
  /\ workspace \in {"none", "stopped", "running"}
  /\ follower \in [Ids -> {"none", "creating", "active", "broken", "archived"}]
  /\ worker \in [Workers -> [does : {"nothing", "create", "activate", "archive", "delete", "hook"},
                             at : {"none", "read", "waits", "build", "agent", "token", "link", "session", "record",
                                   "follow", "done", "failed", "reach", "revive", "attach", "stop",
                                   "erase"},
                             resume : BOOLEAN, read : Row, made : Ids \cup {0}]]
  /\ holder \in Workers \cup {NoWorker}
  /\ polled \in {"none", "creating", "active", "broken", "archived"}
  /\ stale \in BOOLEAN
  /\ overtaken \in BOOLEAN

\* A status that means "in progress" is somebody's: a creating row has a
\* creation or a resumption at work, a deleted one a deletion, across stops of
\* the daemon at any step, unless a hook wrote such a status back from a row it
\* had read earlier (sessionservice.go:1774), when only the next start settles it.
InProgressIsOwned ==
  ~stale =>
    /\ row.status = "creating" =>
         \E w \in Workers : \/ worker[w].does = "create"
                            \/ worker[w].does = "activate" /\ worker[w].resume
    /\ row.status = "deleted" =>
         \E w \in Workers : worker[w].does = "delete" /\ worker[w].at # "read"

\* However often a creation is interrupted and resumed, and wherever, at most
\* one live session is left on the follower (coder/service.go:259).
OneFollowerSession == Cardinality({i \in Ids : follower[i] \in Live}) <= 1

\* A session whose row is gone has no workspace left behind, unless a deletion
\* by force reached the workspace before its creation did (coder/service.go:385).
NoWorkspaceIsLost ==
  (~Exists /\ ~overtaken /\ \A w \in Workers : worker[w].does # "create") => workspace = "none"

\* A creation and a reactivation come to an end.
CreatingSettles == []<>(row.status # "creating" \/ stale)
=============================================================================
