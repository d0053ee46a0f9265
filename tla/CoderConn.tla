------------------------------ MODULE CoderConn ------------------------------
(***************************************************************************)
(* The connection to one remote workspace: internal/coder/conn.go.  A      *)
(* connection is an ssh process that forwards the follower's port and a    *)
(* host registered with the multiplexer.  ensure and Release hold the lock *)
(* of the workspace; a supervisor per process notices that it exited and   *)
(* connects anew until it succeeds, the connection was released, or the    *)
(* manager closes.  A supervisor tests whether its connection is current   *)
(* outside that lock.                                                      *)
(*                                                                         *)
(* Workspaces share nothing but the map's mutex, so one is enough.  Of     *)
(* Tick, the decision that a connection is idle is left to the caller.     *)
(***************************************************************************)
EXTENDS Naturals

CONSTANTS
  Forwards,   \* slots for ssh processes, each with the supervisor of its own
  Clients,    \* goroutines of the service, Close among them
  Attempts,   \* connectAttempts
  Nobody      \* no goroutine, no process

ASSUME NobodyIsNoOne == Nobody \notin Forwards \cup Clients
ASSUME ForwardsAreNotClients == Forwards \cap Clients = {}
ASSUME SomeAttempts == Attempts \in Nat \ {0}

VARIABLES
  conn,     \* the entry of m.conns, generation 0 when there is none
  host,     \* the host is registered with the multiplexer
  forward,  \* every ssh process
  sup,      \* the supervisor of every process, with its generation
  client,   \* what every client waits for
  work,     \* the holder of the workspace's lock and how far it has come
  closing,  \* m.ctx is cancelled
  restoring \* the start of the service has still to forget the host of this workspace

connVars == <<conn, host, forward, sup, client, work, closing, restoring>>

NoConn == [gen |-> 0, up |-> FALSE, proc |-> Nobody]
NoSup  == [at |-> "none", gen |-> 0]
NoWork == [by |-> Nobody, at |-> "none", added |-> FALSE, proc |-> Nobody, tries |-> 0]

ConnInit ==
  /\ conn = NoConn
  /\ host \in BOOLEAN
  /\ forward = [f \in Forwards |-> "free"]
  /\ sup = [f \in Forwards |-> NoSup]
  /\ client = [c \in Clients |-> "idle"]
  /\ work = NoWork
  /\ closing = FALSE
  /\ restoring \in BOOLEAN

Listed         == conn # NoConn
IsCurrent(f)   == Listed /\ conn.gen = sup[f].gen
Moves(f, at)   == sup' = [sup EXCEPT ![f].at = at]
Finished(f)    == sup' = [sup EXCEPT ![f] = NoSup]
Goes(at)       == work' = [work EXCEPT !.at = at]

-----------------------------------------------------------------------------
(***************************************************************************)
(* The lock of the workspace.                                              *)
(***************************************************************************)
Ask(c, what) ==
  /\ client[c] = "idle"
  /\ client' = [client EXCEPT ![c] = what]
  /\ UNCHANGED <<conn, host, forward, sup, work, closing, restoring>>

Lock(c) ==
  /\ work = NoWork
  /\ client[c] # "idle"
  /\ work' = [NoWork EXCEPT !.by = c, !.at = client[c]]
  /\ UNCHANGED <<conn, host, forward, sup, client, closing, restoring>>

LockRestart(f) ==
  /\ work = NoWork
  /\ sup[f].at = "asking"
  /\ work' = [NoWork EXCEPT !.by = f, !.at = "ensure"]
  /\ UNCHANGED <<conn, host, forward, sup, client, closing, restoring>>

\* The holder returns: a client goes on, a supervisor ends only when it succeeded.
Unlock(ok) ==
  /\ work' = NoWork
  /\ IF work.by \in Clients
     THEN client' = [client EXCEPT ![work.by] = "idle"] /\ UNCHANGED sup
     ELSE /\ sup' = [sup EXCEPT ![work.by] = IF ok THEN NoSup ELSE [@ EXCEPT !.at = "checking"]]
          /\ UNCHANGED client

-----------------------------------------------------------------------------
(***************************************************************************)
(* ensure.                                                                 *)
(***************************************************************************)
\* The manager is closed, or the connection is up.
EnsureReturns ==
  /\ work.at = "ensure"
  /\ closing \/ conn.up
  /\ Unlock(~closing)
  /\ UNCHANGED <<conn, host, forward, closing, restoring>>

\* The host is added unless there is a connection, which may be down.
AddHost ==
  /\ work.at = "ensure"
  /\ ~closing /\ ~conn.up
  /\ work' = [work EXCEPT !.at = "connect", !.added = ~Listed]
  /\ host' = (host \/ ~Listed)
  /\ UNCHANGED <<conn, forward, sup, client, closing, restoring>>

AddHostFails ==
  /\ work.at = "ensure"
  /\ ~closing /\ ~Listed
  /\ Unlock(FALSE)
  /\ UNCHANGED <<conn, host, forward, closing, restoring>>

\* connect starts a process and waits until the follower answers through it.
StartForward(f) ==
  /\ work.at = "connect"
  /\ work.proc = Nobody
  /\ forward[f] = "free"
  /\ sup[f] = NoSup
  /\ forward' = [forward EXCEPT ![f] = "running"]
  /\ work' = [work EXCEPT !.proc = f, !.tries = @ + 1]
  /\ UNCHANGED <<conn, host, sup, client, closing, restoring>>

\* The follower answered and was told the address of the leader.
Ready ==
  /\ work.at = "connect"
  /\ work.proc # Nobody
  /\ forward[work.proc] = "running"
  /\ Goes("connected")
  /\ UNCHANGED <<conn, host, forward, sup, client, closing, restoring>>

\* The process exited before the follower answered: another one is tried.
TryAgain ==
  /\ work.at = "connect"
  /\ work.proc # Nobody
  /\ forward[work.proc] = "exited"
  /\ work.tries < Attempts
  /\ forward' = [forward EXCEPT ![work.proc] = "free"]
  /\ work' = [work EXCEPT !.proc = Nobody]
  /\ UNCHANGED <<conn, host, sup, client, closing, restoring>>

\* No port, no process, no answer in time, or an attempt too many: what was
\* added is removed, the process is killed.
ConnectFails ==
  /\ work.at = "connect"
  /\ forward' = [f \in Forwards |-> IF f = work.proc THEN "free" ELSE forward[f]]
  /\ host' = (host /\ ~work.added)
  /\ Unlock(FALSE)
  /\ UNCHANGED <<conn, closing, restoring>>

\* The manager closed in the meantime.
ClosedMeanwhile ==
  /\ work.at = "connected"
  /\ closing
  /\ forward' = [forward EXCEPT ![work.proc] = "free"]
  /\ host' = FALSE
  /\ Unlock(FALSE)
  /\ UNCHANGED <<conn, closing, restoring>>

StillOpen ==
  /\ work.at = "connected"
  /\ ~closing
  /\ Goes("listing")
  /\ UNCHANGED <<conn, host, forward, sup, client, closing, restoring>>

\* The connection is entered, or becomes its next generation, and is supervised.
\* A supervisor that restarted it returns.
List ==
  LET gen == conn.gen + 1
      done == [sup EXCEPT ![work.proc] = [at |-> "waiting", gen |-> gen]] IN
  /\ work.at = "listing"
  /\ conn' = [gen |-> gen, up |-> TRUE, proc |-> work.proc]
  /\ work' = NoWork
  /\ IF work.by \in Clients
     THEN sup' = done /\ client' = [client EXCEPT ![work.by] = "idle"]
     ELSE sup' = [done EXCEPT ![work.by] = NoSup] /\ UNCHANGED client
  /\ UNCHANGED <<host, forward, closing, restoring>>

-----------------------------------------------------------------------------
(***************************************************************************)
(* Release, by Archive, Delete, Tick or Close.                             *)
(***************************************************************************)
Unlist ==
  /\ work.at = "release"
  /\ conn' = NoConn
  /\ work' = [work EXCEPT !.at = "killing", !.proc = conn.proc]
  /\ UNCHANGED <<host, forward, sup, client, closing, restoring>>

\* The process, which may have exited long ago, is killed and the host removed.
KillAndForget ==
  /\ work.at = "killing"
  /\ forward' = [f \in Forwards |-> IF f = work.proc /\ forward[f] = "running" THEN "exited"
                                    ELSE forward[f]]
  /\ host' = FALSE
  /\ Unlock(TRUE)
  /\ UNCHANGED <<conn, closing, restoring>>

-----------------------------------------------------------------------------
(***************************************************************************)
(* supervise.  The slot of a process is free again when it was waited for. *)
(***************************************************************************)
\* Mutant of Notice: the generation is not compared.
NoticeAny(f) ==
  /\ sup[f].at = "waiting"
  /\ forward[f] = "exited"
  /\ forward' = [forward EXCEPT ![f] = "free"]
  /\ conn' = IF Listed THEN [conn EXCEPT !.up = FALSE] ELSE conn
  /\ Moves(f, "checking")
  /\ UNCHANGED <<host, client, work, closing, restoring>>

Notice(f) ==
  /\ sup[f].at = "waiting"
  /\ forward[f] = "exited"
  /\ forward' = [forward EXCEPT ![f] = "free"]
  /\ conn' = IF IsCurrent(f) THEN [conn EXCEPT !.up = FALSE] ELSE conn
  /\ Moves(f, "checking")
  /\ UNCHANGED <<host, client, work, closing, restoring>>

Check(f) ==
  /\ sup[f].at = "checking"
  /\ IF ~closing /\ IsCurrent(f) THEN Moves(f, "sleeping") ELSE Finished(f)
  /\ UNCHANGED <<conn, host, forward, client, work, closing, restoring>>

\* Mutant of Wake: the supervisor gives up when others hold the lock.
WakeWhenFree(f) ==
  /\ sup[f].at = "sleeping"
  /\ IF ~closing /\ IsCurrent(f) /\ work = NoWork THEN Moves(f, "asking") ELSE Finished(f)
  /\ UNCHANGED <<conn, host, forward, client, work, closing, restoring>>

\* The backoff is over, or cut short by Close; the answer may be old when the
\* lock is taken.
Wake(f) ==
  /\ sup[f].at = "sleeping"
  /\ IF ~closing /\ IsCurrent(f) THEN Moves(f, "asking") ELSE Finished(f)
  /\ UNCHANGED <<conn, host, forward, client, work, closing, restoring>>

-----------------------------------------------------------------------------
\* The ssh process exits.
Exit(f) ==
  /\ forward[f] = "running"
  /\ forward' = [forward EXCEPT ![f] = "exited"]
  /\ UNCHANGED <<conn, host, sup, client, work, closing, restoring>>

\* Close cancels the context; its Release of what is listed is a client's.
Cancel ==
  /\ ~closing
  /\ closing' = TRUE
  /\ UNCHANGED <<conn, host, forward, sup, client, work, restoring>>

\* restoreConnections forgets the host of a session that is not attached,
\* without the lock of the workspace (service.go:574).
RestoreForgets ==
  /\ restoring
  /\ restoring' = FALSE
  /\ host' = FALSE
  /\ UNCHANGED <<conn, forward, sup, client, work, closing>>

-----------------------------------------------------------------------------
Events ==
  \/ \E c \in Clients : \E what \in {"ensure", "release"} : Ask(c, what)
  \/ \E f \in Forwards : Exit(f)
  \/ Cancel

Holder ==
  \/ EnsureReturns \/ AddHost \/ AddHostFails
  \/ \E f \in Forwards : StartForward(f)
  \/ Ready \/ TryAgain \/ ConnectFails \/ ClosedMeanwhile \/ StillOpen \/ List
  \/ Unlist \/ KillAndForget

Supervise(f) == Notice(f) \/ Check(f) \/ Wake(f)

Manager ==
  \/ Holder \/ RestoreForgets
  \/ \E c \in Clients : Lock(c)
  \/ \E f \in Forwards : LockRestart(f) \/ Supervise(f)

ConnNext == Events \/ Manager

\* A goroutine that can run does: some step of the manager is taken as long as
\* one can be, in any order.
ConnFairness == WF_connVars(Manager)

ConnSpec == ConnInit /\ [][ConnNext]_connVars /\ ConnFairness
-----------------------------------------------------------------------------
(***************************************************************************)
(* Properties.                                                             *)
(***************************************************************************)
\* The type of every variable.
ConnTypeOK ==
  /\ conn \in [gen : Nat, up : BOOLEAN, proc : Forwards \cup {Nobody}]
  /\ host \in BOOLEAN
  /\ forward \in [Forwards -> {"free", "running", "exited"}]
  /\ sup \in [Forwards -> [at : {"none", "waiting", "checking", "sleeping", "asking"}, gen : Nat]]
  /\ client \in [Clients -> {"idle", "ensure", "release"}]
  /\ work \in [by : Forwards \cup Clients \cup {Nobody},
               at : {"none", "ensure", "connect", "connected", "listing", "release", "killing"},
               added : BOOLEAN, proc : Forwards \cup {Nobody}, tries : Nat]
  /\ closing \in BOOLEAN
  /\ restoring \in BOOLEAN

\* Somebody will restart the connection: a supervisor of its generation that
\* has not ended, or the holder of the lock on its way to list it.
Restarting ==
  \/ \E f \in Forwards : IsCurrent(f) /\ sup[f].at \in {"checking", "sleeping", "asking"}
  \/ work.at \in {"connected", "listing"}

\* A connection the service believes in is watched: while it is up a supervisor
\* waits for its process, and while it is down somebody restarts it, however
\* releases, restarts and old supervisors interleave (conn.go:344).
ConnectionIsWatched ==
  (Listed /\ ~closing) =>
    IF conn.up THEN sup[conn.proc] = [at |-> "waiting", gen |-> conn.gen] ELSE Restarting

\* A connection does not stay down for good: it comes up or is tried again, unless
\* it is released or the manager closes (conn.go:353).
DownIsTriedAgain == []<>(conn.up \/ ~Listed \/ closing \/ work.at = "connect")
=============================================================================
