---------------------------- MODULE Coder_proofs ----------------------------
(***************************************************************************)
(* Proofs about the remote workspaces: the connection (CoderConn) and the  *)
(* session (CoderSession), for any number of goroutines, processes and     *)
(* sessions of the follower.                                               *)
(***************************************************************************)
EXTENDS CoderConn, CoderSession, FiniteSetTheorems, TLAPS

(***************************************************************************)
(* The connection.  What keeps it watched is the lock: the supervisor that *)
(* holds it asks for nothing else meanwhile, and the process that is being *)
(* started has no supervisor yet, so that listing it ends the one and      *)
(* begins the other.                                                       *)
(***************************************************************************)
Connecting == work.at \in {"connect", "connected", "listing"}

WorkInv ==
  /\ work.by \in Forwards => sup[work.by].at = "asking"
  /\ work.at \in {"release", "killing"} => work.by \in Clients
  /\ Connecting /\ work.proc # Nobody => sup[work.proc] = NoSup
  /\ work.at \in {"connected", "listing"} => work.proc # Nobody
  /\ work.at \in {"none", "ensure"} => work.proc = Nobody
  /\ conn.up => conn.proc # Nobody

ConnInv == ConnTypeOK /\ WorkInv /\ ConnectionIsWatched

\* Mentions of the record types.
ConnRecord == [gen : Nat, up : BOOLEAN, proc : Forwards \cup {Nobody}]
SupRecord  == [at : {"none", "waiting", "checking", "sleeping", "asking"}, gen : Nat]
WorkRecord == [by : Forwards \cup Clients \cup {Nobody},
               at : {"none", "ensure", "connect", "connected", "listing", "release", "killing"},
               added : BOOLEAN, proc : Forwards \cup {Nobody}, tries : Nat]

LEMMA ConnConstants ==
  /\ NoConn \in ConnRecord /\ NoConn.gen = 0 /\ NoConn.up = FALSE
  /\ NoSup \in SupRecord /\ NoSup.at = "none"
  /\ NoWork \in WorkRecord /\ NoWork.by = Nobody /\ NoWork.at = "none" /\ NoWork.proc = Nobody
BY DEF NoConn, NoSup, NoWork, ConnRecord, SupRecord, WorkRecord

LEMMA ConnTypes ==
  ConnTypeOK <=>
    /\ conn \in ConnRecord
    /\ host \in BOOLEAN
    /\ forward \in [Forwards -> {"free", "running", "exited"}]
    /\ sup \in [Forwards -> SupRecord]
    /\ client \in [Clients -> {"idle", "ensure", "release"}]
    /\ work \in WorkRecord
    /\ closing \in BOOLEAN
    /\ restoring \in BOOLEAN
BY DEF ConnTypeOK, ConnRecord, SupRecord, WorkRecord

\* What Unlock does to the supervisors and clients: only the holder's changes.
LEMMA Unlocked ==
  ASSUME ConnTypeOK, WorkInv, NEW ok \in BOOLEAN, Unlock(ok)
  PROVE  /\ work' = NoWork
         /\ sup' \in [Forwards -> SupRecord] /\ client' \in [Clients -> {"idle", "ensure", "release"}]
         /\ \A f \in Forwards : f # work.by => sup'[f] = sup[f]
         /\ work.by \in Forwards /\ ~ok => sup'[work.by] = [at |-> "checking", gen |-> sup[work.by].gen]
         /\ work.by \notin Forwards => sup' = sup
<1>1. sup \in [Forwards -> SupRecord] /\ work \in WorkRecord
      /\ client \in [Clients -> {"idle", "ensure", "release"}]
  BY ConnTypes
<1>2. CASE work.by \in Clients
  BY <1>1, <1>2, ForwardsAreNotClients DEF Unlock
<1>3. CASE work.by \notin Clients
  <2>1. /\ client' = client /\ work' = NoWork
        /\ sup' = [sup EXCEPT ![work.by] = IF ok THEN NoSup ELSE [sup[work.by] EXCEPT !.at = "checking"]]
    BY <1>3 DEF Unlock
  <2>2. CASE work.by \in Forwards
    <3>1. sup[work.by] \in SupRecord
      BY <1>1, <2>2
    <3>2. [sup[work.by] EXCEPT !.at = "checking"] = [at |-> "checking", gen |-> sup[work.by].gen]
          /\ [sup[work.by] EXCEPT !.at = "checking"] \in SupRecord
      BY <3>1 DEF SupRecord
    <3> QED
      BY <1>1, <2>1, <2>2, <3>2, ConnConstants
  <2>3. CASE work.by \notin Forwards
    BY <1>1, <2>1, <2>3
  <2> QED
    BY <2>2, <2>3
<1> QED
  BY <1>2, <1>3

\* The holder's steps that return without a new connection: the restart that
\* failed is checked again, and the connection stays what it was.
LEMMA UnlockKeepsWatch ==
  ASSUME ConnInv, NEW ok \in BOOLEAN, Unlock(ok), conn' = conn, closing' = closing,
         host' \in BOOLEAN, restoring' = restoring,
         forward' \in [Forwards -> {"free", "running", "exited"}],
         ok => conn.up \/ work.by \in Clients,
         work.at \in {"connected", "listing"} => closing
  PROVE  ConnInv'
<1>1. ConnTypeOK /\ WorkInv /\ ConnectionIsWatched
  BY DEF ConnInv
<1>2. ConnTypeOK'
  BY <1>1, ConnTypes, Unlocked, ConnConstants DEF ConnTypeOK, ConnRecord, SupRecord, WorkRecord
<1>3. WorkInv'
  BY <1>1, Unlocked, ConnConstants, NobodyIsNoOne DEF WorkInv, Connecting
<1>4. ConnectionIsWatched'
  <2> SUFFICES ASSUME Listed, ~closing
      PROVE IF conn.up THEN sup'[conn.proc] = [at |-> "waiting", gen |-> conn.gen] ELSE Restarting'
    BY DEF ConnectionIsWatched, Listed
  <2>1. CASE conn.up
    <3>1. sup[conn.proc] = [at |-> "waiting", gen |-> conn.gen]
      BY <1>1, <2>1 DEF ConnectionIsWatched
    <3>2. work.by \in Forwards => work.by # conn.proc
      BY <1>1, <3>1 DEF WorkInv
    <3>3. conn.proc \in Forwards
      BY <1>1, <2>1 DEF WorkInv, ConnTypeOK
    <3> QED
      BY <1>1, <2>1, <3>1, <3>2, <3>3, Unlocked
  <2>2. CASE ~conn.up
    <3>1. PICK f \in Forwards : IsCurrent(f) /\ sup[f].at \in {"checking", "sleeping", "asking"}
      BY <1>1, <2>2 DEF ConnectionIsWatched, Restarting
    <3>2. IsCurrent(f)' /\ sup'[f].at \in {"checking", "sleeping", "asking"}
      <4>1. CASE f = work.by
        BY <1>1, <2>2, <3>1, <4>1, Unlocked, ForwardsAreNotClients DEF IsCurrent, Listed
      <4>2. CASE f # work.by
        BY <1>1, <3>1, <4>2, Unlocked DEF IsCurrent, Listed
      <4> QED
        BY <4>1, <4>2
    <3> QED
      BY <2>2, <3>2 DEF Restarting
  <2> QED
    BY <2>1, <2>2
<1> QED
  BY <1>2, <1>3, <1>4 DEF ConnInv

\* What the supervisors and the holder are about is left alone.
LEMMA WatchUnchanged ==
  ASSUME ConnInv, conn' = conn, sup' = sup, work' = work, host' \in BOOLEAN,
         forward' \in [Forwards -> {"free", "running", "exited"}],
         client' \in [Clients -> {"idle", "ensure", "release"}],
         closing' = closing, restoring' \in BOOLEAN
  PROVE  ConnInv'
<1>1. ConnTypeOK /\ WorkInv /\ ConnectionIsWatched
  BY DEF ConnInv
<1>2. ConnTypeOK'
  BY <1>1 DEF ConnTypeOK
<1>3. WorkInv'
  BY <1>1 DEF WorkInv, Connecting
<1>4. ConnectionIsWatched'
  BY <1>1 DEF ConnectionIsWatched, Listed, Restarting, IsCurrent
<1> QED
  BY <1>2, <1>3, <1>4 DEF ConnInv

\* A holder that goes on, with a process that has no supervisor.
LEMMA HolderGoesOn ==
  ASSUME ConnInv, conn' = conn, sup' = sup, client' = client, closing' = closing,
         restoring' = restoring, host' \in BOOLEAN,
         forward' \in [Forwards -> {"free", "running", "exited"}],
         work' \in WorkRecord, work'.at \notin {"release", "killing"},
         work'.by \in Forwards => sup[work'.by].at = "asking",
         work'.proc # Nobody /\ Connecting' => sup[work'.proc] = NoSup,
         work'.at \in {"connected", "listing"} => work'.proc # Nobody,
         work'.at = "ensure" => work'.proc = Nobody, work'.at # "none",
         work.at \in {"connected", "listing"} => work'.at \in {"connected", "listing"}
  PROVE  ConnInv'
<1>1. ConnTypeOK /\ WorkInv /\ ConnectionIsWatched
  BY DEF ConnInv
<1>2. ConnTypeOK'
  BY <1>1, ConnTypes DEF ConnTypeOK, WorkRecord
<1>3. WorkInv'
  BY <1>1 DEF WorkInv
<1>4. ConnectionIsWatched'
  BY <1>1 DEF ConnectionIsWatched, Listed, Restarting, IsCurrent
<1> QED
  BY <1>2, <1>3, <1>4 DEF ConnInv

LEMMA EventsWatch ==
  ASSUME ConnInv, Events
  PROVE  ConnInv'
<1>1. ConnTypeOK
  BY DEF ConnInv
<1>2. ASSUME NEW c \in Clients, NEW what \in {"ensure", "release"}, Ask(c, what)
      PROVE  ConnInv'
  BY <1>1, <1>2, WatchUnchanged DEF Ask, ConnTypeOK
<1>3. ASSUME NEW f \in Forwards, Exit(f)
      PROVE  ConnInv'
  BY <1>1, <1>3, WatchUnchanged DEF Exit, ConnTypeOK
<1>4. CASE Cancel
  <2>1. ConnTypeOK' /\ WorkInv'
    BY <1>4 DEF ConnInv, Cancel, ConnTypeOK, WorkInv, Connecting
  <2> QED
    BY <1>4, <2>1 DEF ConnInv, Cancel, ConnectionIsWatched
<1> QED
  BY <1>2, <1>3, <1>4 DEF Events

LEMMA LocksWatch ==
  ASSUME ConnInv, (\E c \in Clients : Lock(c)) \/ (\E f \in Forwards : LockRestart(f)) \/ RestoreForgets
  PROVE  ConnInv'
<1>1. ConnTypeOK /\ WorkInv /\ ConnectionIsWatched
  BY DEF ConnInv
<1>2. ASSUME NEW c \in Clients, Lock(c)
      PROVE  ConnInv'
  <2>1. work' = [by |-> c, at |-> client[c], added |-> FALSE, proc |-> Nobody, tries |-> 0]
        /\ client[c] \in {"ensure", "release"} /\ work.at = "none"
    BY <1>1, <1>2, ConnConstants DEF Lock, ConnTypeOK, NoWork
  <2>2. ConnTypeOK'
    <3>1. work' \in WorkRecord
      BY <2>1 DEF WorkRecord
    <3> QED
      BY <1>1, <1>2, <3>1 DEF Lock, ConnTypeOK, WorkRecord
  <2>3. WorkInv'
    BY <1>1, <1>2, <2>1, ForwardsAreNotClients DEF Lock, WorkInv, Connecting
  <2>4. ConnectionIsWatched'
    BY <1>1, <1>2, <2>1 DEF Lock, ConnectionIsWatched, Listed, Restarting, IsCurrent
  <2> QED
    BY <2>2, <2>3, <2>4 DEF ConnInv
<1>3. ASSUME NEW f \in Forwards, LockRestart(f)
      PROVE  ConnInv'
  <2>1. work' = [by |-> f, at |-> "ensure", added |-> FALSE, proc |-> Nobody, tries |-> 0]
        /\ sup[f].at = "asking" /\ work.at = "none"
    BY <1>3, ConnConstants DEF LockRestart, NoWork
  <2>2. work' \in WorkRecord
    BY <2>1 DEF WorkRecord
  <2>3. /\ work'.at = "ensure" /\ work'.proc = Nobody /\ work'.by = f /\ work.at = "none"
        /\ sup[work'.by].at = "asking"
    BY <2>1
  <2>4. /\ UNCHANGED <<conn, sup, client, closing, restoring>> /\ host' \in BOOLEAN
        /\ forward' \in [Forwards -> {"free", "running", "exited"}]
    BY <1>1, <1>3 DEF LockRestart, ConnTypeOK
  <2> QED
    BY <1>1, <1>3, <2>2, <2>3, <2>4, HolderGoesOn
<1>4. CASE RestoreForgets
  BY <1>1, <1>4, WatchUnchanged DEF RestoreForgets, ConnTypeOK
<1> QED
  BY <1>2, <1>3, <1>4

LEMMA EnsureWatch ==
  ASSUME ConnInv,
         \/ EnsureReturns \/ AddHost \/ AddHostFails
         \/ \E f \in Forwards : StartForward(f)
         \/ Ready \/ TryAgain \/ ConnectFails \/ ClosedMeanwhile \/ StillOpen
  PROVE  ConnInv'
<1>1. ConnTypeOK /\ WorkInv /\ ConnectionIsWatched /\ work \in WorkRecord
  BY ConnTypes DEF ConnInv
<1>2. CASE EnsureReturns
  <2>1. work.at = "ensure"
    BY <1>2 DEF EnsureReturns
  <2>3. ~closing => conn.up
    BY <1>2 DEF EnsureReturns
  <2>4. CASE closing
    <3>1. Unlock(FALSE)
      BY <1>2, <2>4 DEF EnsureReturns, Unlock
    <3> QED
      BY <1>1, <1>2, <2>1, <3>1, UnlockKeepsWatch DEF EnsureReturns, ConnTypeOK
  <2>5. CASE ~closing
    <3>1. Unlock(TRUE)
      BY <1>2, <2>5 DEF EnsureReturns, Unlock
    <3> QED
      BY <1>1, <1>2, <2>1, <2>3, <2>5, <3>1, UnlockKeepsWatch DEF EnsureReturns, ConnTypeOK
  <2> QED
    BY <2>4, <2>5
<1>3. CASE AddHost
  <2>1. /\ work' = [by |-> work.by, at |-> "connect", added |-> ~Listed, proc |-> work.proc, tries |-> work.tries]
        /\ work.at = "ensure"
    BY <1>1, <1>3 DEF AddHost, WorkRecord
  <2>2. work' \in WorkRecord
    BY <1>1, <2>1 DEF WorkRecord, Listed
  <2>4. host' \in BOOLEAN /\ work.proc = Nobody
    BY <1>1, <1>3, <2>1 DEF AddHost, ConnTypeOK, Listed, WorkInv
  <2> QED
    BY <1>1, <1>3, <2>1, <2>2, <2>4, HolderGoesOn DEF AddHost, ConnTypeOK, WorkInv
<1>4. CASE AddHostFails
  BY <1>1, <1>4, UnlockKeepsWatch DEF AddHostFails, ConnTypeOK
<1>5. ASSUME NEW f \in Forwards, StartForward(f)
      PROVE  ConnInv'
  <2>1. /\ work' = [by |-> work.by, at |-> "connect", added |-> work.added, proc |-> f, tries |-> work.tries + 1]
        /\ work.at = "connect" /\ sup[f] = NoSup
    BY <1>1, <1>5 DEF StartForward, WorkRecord
  <2>2. work' \in WorkRecord
    BY <1>1, <2>1 DEF WorkRecord
  <2> QED
    BY <1>1, <1>5, <2>1, <2>2, HolderGoesOn DEF StartForward, ConnTypeOK, WorkInv
<1>6. CASE Ready \/ StillOpen
  <2>1. /\ work'.by = work.by /\ work'.proc = work.proc /\ work' \in WorkRecord
        /\ work'.at \in {"connected", "listing"} /\ work.at \in {"connect", "connected"}
        /\ work.proc # Nobody
    BY <1>1, <1>6 DEF Ready, StillOpen, Goes, WorkRecord, WorkInv
  <2>2. sup[work.proc] = NoSup /\ (work.by \in Forwards => sup[work.by].at = "asking")
    BY <1>1, <2>1 DEF WorkInv, Connecting
  <2> QED
    BY <1>1, <1>6, <2>1, <2>2, HolderGoesOn DEF Ready, StillOpen, ConnTypeOK
<1>7. CASE TryAgain
  <2>1. /\ work' = [by |-> work.by, at |-> "connect", added |-> work.added, proc |-> Nobody, tries |-> work.tries]
        /\ work.at = "connect"
    BY <1>1, <1>7 DEF TryAgain, WorkRecord
  <2>2. work' \in WorkRecord
    BY <1>1, <2>1 DEF WorkRecord
  <2> QED
    BY <1>1, <1>7, <2>1, <2>2, HolderGoesOn DEF TryAgain, ConnTypeOK, WorkInv
<1>8. CASE ConnectFails
  BY <1>1, <1>8, UnlockKeepsWatch DEF ConnectFails, ConnTypeOK
<1>9. CASE ClosedMeanwhile
  BY <1>1, <1>9, UnlockKeepsWatch DEF ClosedMeanwhile, ConnTypeOK
<1> QED
  BY <1>2, <1>3, <1>4, <1>5, <1>6, <1>7, <1>8, <1>9

\* The new generation is watched: the process it lists had no supervisor, so
\* it is not the one that ends.
LEMMA ListWatch ==
  ASSUME ConnInv, List
  PROVE  ConnInv'
<1> DEFINE watch == [at |-> "waiting", gen |-> conn.gen + 1]
           done == [sup EXCEPT ![work.proc] = watch]
<1>1. /\ ConnTypeOK /\ WorkInv /\ work \in WorkRecord /\ conn \in ConnRecord
      /\ sup \in [Forwards -> SupRecord]
  BY ConnTypes DEF ConnInv
<1>2. /\ work.at = "listing" /\ work.proc \in Forwards /\ sup[work.proc] = NoSup
      /\ work.by \in Forwards => work.by # work.proc
  <2>1. work.at = "listing"
    BY DEF List
  <2>2. work.proc \in Forwards /\ sup[work.proc] = NoSup
    BY <1>1, <2>1 DEF WorkInv, Connecting, WorkRecord
  <2> QED
    BY <1>1, <2>1, <2>2, ConnConstants DEF WorkInv
<1>3. /\ conn' = [gen |-> conn.gen + 1, up |-> TRUE, proc |-> work.proc] /\ work' = NoWork
      /\ host' = host /\ forward' = forward /\ closing' = closing /\ restoring' = restoring
  BY DEF List
<1>4. watch \in SupRecord /\ conn' \in ConnRecord
  BY <1>1, <1>2, <1>3 DEF SupRecord, ConnRecord
<1>5. sup' \in [Forwards -> SupRecord] /\ sup'[work.proc] = watch
      /\ client' \in [Clients -> {"idle", "ensure", "release"}]
  <2>1. CASE work.by \in Clients
    BY <1>1, <1>2, <1>4, <2>1 DEF List, ConnTypeOK
  <2>2. CASE work.by \notin Clients
    <3>1. sup' = [done EXCEPT ![work.by] = NoSup] /\ client' = client
      BY <2>2 DEF List
    <3>2. done \in [Forwards -> SupRecord] /\ done[work.proc] = watch
      BY <1>1, <1>2, <1>4
    <3> HIDE DEF done, watch
    <3>3. sup' \in [Forwards -> SupRecord]
      BY <3>1, <3>2, ConnConstants
    <3>4. sup'[work.proc] = watch
      <4>1. CASE work.by \in Forwards
        BY <1>2, <3>1, <3>2, <4>1
      <4>2. CASE work.by \notin Forwards
        BY <1>2, <3>1, <3>2, <4>2
      <4> QED
        BY <4>1, <4>2
    <3> QED
      BY <1>1, <3>1, <3>3, <3>4 DEF ConnTypeOK
  <2> QED
    BY <2>1, <2>2
<1>6. ConnTypeOK'
  BY <1>1, <1>3, <1>4, <1>5, ConnConstants DEF ConnTypeOK, ConnRecord, SupRecord, WorkRecord
<1>7. WorkInv'
  BY <1>2, <1>3, ConnConstants, NobodyIsNoOne DEF WorkInv, Connecting
<1>8. ConnectionIsWatched'
  BY <1>3, <1>5 DEF ConnectionIsWatched
<1> QED
  BY <1>6, <1>7, <1>8 DEF ConnInv

LEMMA ReleaseWatch ==
  ASSUME ConnInv, Unlist \/ KillAndForget
  PROVE  ConnInv'
<1>1. ConnTypeOK /\ WorkInv /\ ConnectionIsWatched /\ work \in WorkRecord /\ conn \in ConnRecord
  BY ConnTypes DEF ConnInv
<1>2. CASE Unlist
  <2>1. /\ work' = [by |-> work.by, at |-> "killing", added |-> work.added, proc |-> conn.proc, tries |-> work.tries]
        /\ work.at = "release" /\ conn' = NoConn
    BY <1>1, <1>2 DEF Unlist, WorkRecord
  <2>2. work' \in WorkRecord
    BY <1>1, <2>1 DEF WorkRecord, ConnRecord
  <2>3. ConnTypeOK'
    BY <1>1, <1>2, <2>1, <2>2, ConnConstants DEF Unlist, ConnTypeOK, ConnRecord, WorkRecord
  <2>4. WorkInv'
    BY <1>1, <1>2, <2>1, ConnConstants DEF Unlist, WorkInv, Connecting
  <2>5. ConnectionIsWatched'
    BY <2>1 DEF ConnectionIsWatched, Listed
  <2> QED
    BY <2>3, <2>4, <2>5 DEF ConnInv
<1>3. CASE KillAndForget
  BY <1>1, <1>3, UnlockKeepsWatch DEF KillAndForget, ConnTypeOK, WorkInv
<1> QED
  BY <1>2, <1>3

\* A supervisor only stops watching a connection that is up when its process
\* exited, and one that is down when it is no longer current.
LEMMA SuperviseWatch ==
  ASSUME ConnInv, NEW f \in Forwards, Supervise(f)
  PROVE  ConnInv'
<1>1. /\ ConnTypeOK /\ WorkInv /\ ConnectionIsWatched
      /\ conn \in ConnRecord /\ sup \in [Forwards -> SupRecord] /\ sup[f] \in SupRecord
  BY ConnTypes DEF ConnInv
<1>2. /\ work' = work /\ closing' = closing /\ host' = host /\ client' = client
      /\ restoring' = restoring
  BY DEF Supervise, Notice, Check, Wake
<1>3. sup[f].at \in {"waiting", "checking", "sleeping"}
  BY DEF Supervise, Notice, Check, Wake
<1>4. sup' \in [Forwards -> SupRecord] /\ \A g \in Forwards : g # f => sup'[g] = sup[g]
  <2>1. \A at \in {"checking", "sleeping", "asking"} : [sup[f] EXCEPT !.at = at] \in SupRecord
    BY <1>1 DEF SupRecord
  <2> QED
    BY <1>1, <2>1, ConnConstants DEF Supervise, Notice, Check, Wake, Moves, Finished
<1>5. /\ conn' = conn \/ (conn' = [conn EXCEPT !.up = FALSE] /\ IsCurrent(f))
      /\ forward' \in [Forwards -> {"free", "running", "exited"}]
  BY <1>1 DEF Supervise, Notice, Check, Wake, ConnTypeOK
<1>6. conn' \in ConnRecord /\ conn'.gen = conn.gen /\ conn'.proc = conn.proc /\ (conn'.up => conn.up)
  BY <1>1, <1>5 DEF ConnRecord
<1>7. ConnTypeOK'
  BY <1>1, <1>2, <1>4, <1>5, <1>6 DEF ConnTypeOK, ConnRecord, SupRecord
<1>8. WorkInv'
  <2>1. work.by \in Forwards => work.by # f
    BY <1>1, <1>3 DEF WorkInv
  <2>2. Connecting /\ work.proc # Nobody => work.proc # f /\ work.proc \in Forwards
    BY <1>1, <1>3, ConnConstants DEF WorkInv, ConnTypeOK
  <2> QED
    BY <1>1, <1>2, <1>4, <1>6, <2>1, <2>2 DEF WorkInv, Connecting
<1>9. ConnectionIsWatched'
  <2> SUFFICES ASSUME Listed', ~closing
      PROVE  IF conn'.up THEN sup'[conn'.proc] = [at |-> "waiting", gen |-> conn'.gen] ELSE Restarting'
    BY <1>2 DEF ConnectionIsWatched
  <2>1. Listed
    BY <1>5 DEF Listed, IsCurrent
  <2>2. CASE conn.up /\ f # conn.proc
    <3>1. sup[conn.proc] = [at |-> "waiting", gen |-> conn.gen] /\ conn.proc \in Forwards
      BY <1>1, <2>1, <2>2 DEF ConnectionIsWatched, WorkInv, ConnTypeOK
    <3>2. CASE conn'.up
      BY <1>4, <1>6, <2>2, <3>1, <3>2
    <3>3. CASE ~conn'.up
      <4>1. Notice(f) /\ IsCurrent(f)
        BY <1>1, <2>2, <3>3 DEF Supervise, Notice, Check, Wake
      <4>2. sup'[f] = [at |-> "checking", gen |-> sup[f].gen]
        BY <1>1, <4>1 DEF Notice, Moves, SupRecord
      <4> QED
        BY <1>6, <2>1, <3>3, <4>1, <4>2 DEF IsCurrent, Restarting, Listed
    <3> QED
      BY <3>2, <3>3
  <2>3. CASE conn.up /\ f = conn.proc
    <3>1. sup[f] = [at |-> "waiting", gen |-> conn.gen]
      BY <1>1, <2>1, <2>3 DEF ConnectionIsWatched
    <3>2. Notice(f) /\ IsCurrent(f)
      BY <2>1, <3>1 DEF Supervise, Check, Wake, IsCurrent
    <3>3. sup'[f] = [at |-> "checking", gen |-> conn.gen]
      BY <1>1, <3>1, <3>2 DEF Notice, Moves
    <3>4. conn' = [conn EXCEPT !.up = FALSE]
      BY <3>2 DEF Notice
    <3>5. ~conn'.up
      BY <1>1, <3>4 DEF ConnRecord
    <3> QED
      BY <1>6, <3>3, <3>5 DEF IsCurrent, Restarting
  <2>4. CASE ~conn.up
    <3>1. CASE work.at \in {"connected", "listing"}
      BY <1>2, <1>6, <2>4, <3>1 DEF Restarting
    <3>2. CASE work.at \notin {"connected", "listing"}
      <4>1. PICK g \in Forwards : IsCurrent(g) /\ sup[g].at \in {"checking", "sleeping", "asking"}
        BY <1>1, <2>1, <2>4, <3>2 DEF ConnectionIsWatched, Restarting
      <4>2. CASE g # f
        BY <1>4, <1>6, <2>4, <4>1, <4>2 DEF IsCurrent, Restarting
      <4>3. CASE g = f
        <5>1. sup'[f] = [at |-> sup'[f].at, gen |-> sup[f].gen] /\ sup'[f].at \in {"sleeping", "asking"}
          BY <1>1, <4>1, <4>3 DEF Supervise, Notice, Check, Wake, Moves, SupRecord
        <5> QED
          BY <1>6, <2>4, <4>1, <4>3, <5>1 DEF IsCurrent, Restarting
      <4> QED
        BY <4>2, <4>3
    <3> QED
      BY <3>1, <3>2
  <2> QED
    BY <2>2, <2>3, <2>4
<1> QED
  BY <1>7, <1>8, <1>9 DEF ConnInv

LEMMA ConnInvariance == ConnSpec => []ConnInv
<1>1. ConnInit => ConnInv
  <2> SUFFICES ASSUME ConnInit PROVE ConnInv
    OBVIOUS
  <2>1. ConnTypeOK
    BY ConnConstants DEF ConnInit, ConnTypeOK, ConnRecord, SupRecord, WorkRecord
  <2>2. WorkInv
    BY ConnConstants, NobodyIsNoOne DEF ConnInit, WorkInv, Connecting
  <2> QED
    BY <2>1, <2>2 DEF ConnInit, ConnInv, ConnectionIsWatched, Listed
<1>2. ConnInv /\ [ConnNext]_connVars => ConnInv'
  <2> SUFFICES ASSUME ConnInv, [ConnNext]_connVars PROVE ConnInv'
    OBVIOUS
  <2>1. CASE UNCHANGED connVars
    BY <2>1, WatchUnchanged DEF connVars, ConnInv, ConnTypeOK
  <2>2. CASE ConnNext
    BY <2>2, EventsWatch, LocksWatch, EnsureWatch, ListWatch, ReleaseWatch, SuperviseWatch
       DEF ConnNext, Manager, Holder
  <2> QED
    BY <2>1, <2>2
<1> QED
  BY <1>1, <1>2, PTL DEF ConnSpec

\* A connection the service believes in is watched: the supervisor of its
\* generation waits for its process while it is up, and somebody is restarting
\* it while it is down, for any number of clients and processes.
THEOREM ConnectionStaysWatched == ConnSpec => []ConnectionIsWatched
<1>1. ConnInv => ConnectionIsWatched
  BY DEF ConnInv
<1> QED
  BY <1>1, ConnInvariance, PTL

-----------------------------------------------------------------------------
(***************************************************************************)
(* The session.  Every step of a worker is summed up by what it may do to  *)
(* the row, to what is known of the follower and to the workspace; the     *)
(* three invariants below need no more of it.                              *)
(***************************************************************************)
Ats == {"none", "read", "waits", "build", "agent", "token", "link", "session", "record",
        "follow", "done", "failed", "reach", "revive", "attach", "stop", "erase"}
WorkerRecord == [does : {"nothing", "create", "activate", "archive", "delete", "hook"},
                 at : Ats, resume : BOOLEAN, read : Row, made : Ids \cup {0}]
FollowerStatuses == {"none", "creating", "active", "broken", "archived"}

\* Who answers for a creating row, and for a deleted one.
CreatingOwner(w) == \/ worker[w].does = "create"
                    \/ worker[w].does = "activate" /\ worker[w].resume /\ worker[w].at # "attach"
DeletingOwner(w) == worker[w].does = "delete" /\ worker[w].at # "read"

OwnedInv ==
  ~stale =>
    /\ row.status = "creating" => \E w \in Workers : CreatingOwner(w)
    /\ row.status = "deleted" => \E w \in Workers : DeletingOwner(w)

\* The number of a follower's session that the row, or a worker, has.
Knows(k) == row.remote = k \/ \E v \in Workers : worker[v].read.remote = k \/ worker[v].made = k

\* Where a creation has not asked the follower yet.
NotAsked == {"waits", "build", "agent", "token", "link", "session"}

RemoteInv ==
  /\ \A v, w \in Workers : worker[v].does = "create" /\ worker[w].does = "create" => v = w
  /\ \A w \in Workers :
       worker[w].does = "create" /\ worker[w].read.remote = 0 /\ worker[w].at \in NotAsked
         => \A k \in Ids : ~Knows(k)
  /\ \A j, k \in Ids : Knows(j) /\ Knows(k) => j = k
  /\ \A k, i \in Ids : Knows(k) /\ follower[i] \in Live => i = k
  /\ \A i, j \in Ids : follower[i] \in Live /\ follower[j] \in Live => i = j

LostInv ==
  ~overtaken /\ (~Exists \/ \E w \in Workers : Stands(w, "delete", "done"))
    => workspace = "none" /\ \A v \in Workers : worker[v].does # "create"

\* A hook has read a row that was there, and takes no lock.
HookInv == \A w \in Workers :
  /\ worker[w].does = "hook" => worker[w].read.status # "none"
  /\ worker[w].at = "waits" => worker[w].does \notin {"nothing", "hook"}

CoderInv == CoderTypeOK /\ HookInv /\ OwnedInv /\ RemoteInv /\ LostInv

\* What a step of worker w does to the workers: w goes on with what it does, or is idle.
WorkerStep(w) ==
  /\ worker' \in [Workers -> WorkerRecord]
  /\ \A v \in Workers : v # w => worker'[v] = worker[v]
  /\ \/ worker'[w] = Idle
     \/ /\ worker'[w].does = worker[w].does /\ worker'[w].resume = worker[w].resume
        /\ worker'[w].read = worker[w].read

\* No status in progress is left without the owner it has.
OwnedStep(w) ==
  /\ worker'[w].at = "waits" => worker'[w].does \notin {"nothing", "hook"}
  /\ stale => stale'
  /\ row'.status \in {"creating", "deleted"} /\ ~stale' =>
       row'.status = row.status \/ (row'.status = "deleted" /\ DeletingOwner(w)')
  /\ row'.status = "creating" /\ ~stale' /\ CreatingOwner(w) => CreatingOwner(w)'
  /\ row'.status = "deleted" /\ ~stale' /\ DeletingOwner(w) => DeletingOwner(w)'

\* Nothing new is known and no session of the follower comes to life but a known one.
RemoteStep(w) ==
  /\ worker'[w].made \in {0, worker[w].made, worker[w].read.remote}
  /\ row'.remote \in {0, row.remote, worker[w].made}
  /\ worker'[w].does = "create" /\ worker'[w].at \in NotAsked => worker[w].at \in NotAsked
  /\ \A i \in Ids : follower'[i] \in Live => follower[i] \in Live \/ i = worker[w].read.remote

\* Only a creation makes a workspace, and only a finished deletion removes the row.
LostStep(w) ==
  /\ overtaken' = overtaken
  /\ workspace = "none" /\ worker[w].does # "create" => workspace' = "none"
  /\ row'.status = "none" => row.status = "none" \/ Stands(w, "delete", "done")
  /\ Stands(w, "delete", "done")' => Stands(w, "delete", "done")

LEMMA CoderTypes ==
  CoderTypeOK <=>
    /\ row \in Row
    /\ workspace \in {"none", "stopped", "running"}
    /\ follower \in [Ids -> FollowerStatuses]
    /\ worker \in [Workers -> WorkerRecord]
    /\ holder \in Workers \cup {NoWorker}
    /\ polled \in FollowerStatuses
    /\ stale \in BOOLEAN
    /\ overtaken \in BOOLEAN
BY DEF CoderTypeOK, Ats, WorkerRecord, FollowerStatuses

LEMMA IdleWorker ==
  /\ NoRow \in Row /\ NoRow.status = "none" /\ NoRow.remote = 0
  /\ Idle \in WorkerRecord /\ Idle.does = "nothing" /\ Idle.at = "none" /\ Idle.read = NoRow
  /\ Idle.made = 0 /\ Idle.resume = FALSE
  /\ 0 \notin Ids
<1>1. NoRow \in Row /\ NoRow.status = "none" /\ NoRow.remote = 0
  BY DEF NoRow, Row, Statuses
<1> QED
  BY <1>1, IdsArePositive DEF Idle, WorkerRecord, Ats

\* What changes of the row, field by field.
LEMMA RowChanges ==
  ASSUME NEW r \in Row
  PROVE  /\ \A s \in Statuses : [r EXCEPT !.status = s] =
              [status |-> s, attached |-> r.attached, remote |-> r.remote, create |-> r.create]
         /\ \A s \in Statuses, b, c \in BOOLEAN :
              [r EXCEPT !.status = s, !.attached = b, !.create = c] =
                [status |-> s, attached |-> b, remote |-> r.remote, create |-> c]
         /\ \A s \in Statuses, c \in BOOLEAN : [r EXCEPT !.status = s, !.create = c] =
              [status |-> s, attached |-> r.attached, remote |-> r.remote, create |-> c]
         /\ \A b \in BOOLEAN : [r EXCEPT !.attached = b] =
              [status |-> r.status, attached |-> b, remote |-> r.remote, create |-> r.create]
         /\ \A k \in Ids \cup {0} : [r EXCEPT !.remote = k] =
              [status |-> r.status, attached |-> r.attached, remote |-> k, create |-> r.create]
<1>1. ASSUME NEW s \in Statuses
      PROVE  [r EXCEPT !.status = s] =
              [status |-> s, attached |-> r.attached, remote |-> r.remote, create |-> r.create]
  BY DEF Row
<1>2. ASSUME NEW s \in Statuses, NEW b \in BOOLEAN, NEW c \in BOOLEAN
      PROVE  [r EXCEPT !.status = s, !.attached = b, !.create = c] =
                [status |-> s, attached |-> b, remote |-> r.remote, create |-> c]
  <2> DEFINE p == [status |-> s, attached |-> r.attached, remote |-> r.remote, create |-> r.create]
             q == [status |-> s, attached |-> b, remote |-> r.remote, create |-> r.create]
  <2>1. [p EXCEPT !.attached = b] = q /\ [q EXCEPT !.create = c] =
          [status |-> s, attached |-> b, remote |-> r.remote, create |-> c]
    OBVIOUS
  <2> HIDE DEF p, q
  <2>2. [r EXCEPT !.status = s, !.attached = b, !.create = c] =
          [[p EXCEPT !.attached = b] EXCEPT !.create = c]
    BY <1>1 DEF p
  <2> QED
    BY <2>1, <2>2
<1>3. ASSUME NEW s \in Statuses, NEW c \in BOOLEAN
      PROVE  [r EXCEPT !.status = s, !.create = c] =
              [status |-> s, attached |-> r.attached, remote |-> r.remote, create |-> c]
  <2> DEFINE p == [status |-> s, attached |-> r.attached, remote |-> r.remote, create |-> r.create]
  <2>1. [p EXCEPT !.create = c] = [status |-> s, attached |-> r.attached, remote |-> r.remote, create |-> c]
    OBVIOUS
  <2>2. [r EXCEPT !.status = s, !.create = c] = [p EXCEPT !.create = c]
    BY <1>1
  <2> QED
    BY <2>1, <2>2
<1>4. ASSUME NEW b \in BOOLEAN
      PROVE  [r EXCEPT !.attached = b] =
              [status |-> r.status, attached |-> b, remote |-> r.remote, create |-> r.create]
  BY DEF Row
<1>5. ASSUME NEW k \in Ids \cup {0}
      PROVE  [r EXCEPT !.remote = k] =
              [status |-> r.status, attached |-> r.attached, remote |-> k, create |-> r.create]
  BY DEF Row
<1> QED
  BY <1>1, <1>2, <1>3, <1>4, <1>5

LEMMA TurnedWorker ==
  ASSUME worker \in [Workers -> WorkerRecord], NEW w \in Workers, NEW at \in Ats, Turns(w, at)
  PROVE  /\ WorkerStep(w)
         /\ worker'[w] = [does |-> worker[w].does, at |-> at, resume |-> worker[w].resume,
                          read |-> worker[w].read, made |-> worker[w].made]
<1>1. worker[w] \in WorkerRecord
  OBVIOUS
<1>2. [worker[w] EXCEPT !.at = at] = [does |-> worker[w].does, at |-> at, resume |-> worker[w].resume,
                          read |-> worker[w].read, made |-> worker[w].made]
  BY <1>1 DEF WorkerRecord
<1>3. [worker[w] EXCEPT !.at = at] \in WorkerRecord
  BY <1>1, <1>2 DEF WorkerRecord
<1>4. worker' = [worker EXCEPT ![w] = [worker[w] EXCEPT !.at = at]]
  BY DEF Turns
<1> QED
  BY <1>2, <1>3, <1>4 DEF WorkerStep

LEMMA EndedWorker ==
  ASSUME worker \in [Workers -> WorkerRecord], NEW w \in Workers, Ends(w)
  PROVE  WorkerStep(w) /\ worker'[w] = Idle
BY IdleWorker DEF Ends, WorkerStep

\* A worker that turns, and leaves the row and the follower alone.
LEMMA QuietTurn ==
  ASSUME CoderTypeOK, NEW w \in Workers, NEW at \in Ats, Turns(w, at),
         row' = row, follower' = follower, polled' = polled, stale' = stale, overtaken' = overtaken,
         workspace' \in {"none", "stopped", "running"}, holder' \in Workers \cup {NoWorker},
         workspace = "none" /\ worker[w].does # "create" => workspace' = "none",
         at # "waits", worker[w].does = "delete" => at \notin {"read", "done"},
         worker[w].does = "activate" => at # "attach",
         worker[w].does = "create" /\ at \in NotAsked => worker[w].at \in NotAsked
  PROVE  CoderTypeOK' /\ WorkerStep(w) /\ OwnedStep(w) /\ RemoteStep(w) /\ LostStep(w)
<1>1. /\ row \in Row /\ worker \in [Workers -> WorkerRecord] /\ follower \in [Ids -> FollowerStatuses]
      /\ polled \in FollowerStatuses /\ stale \in BOOLEAN /\ overtaken \in BOOLEAN
  BY CoderTypes
<1>2. /\ WorkerStep(w)
      /\ worker'[w] = [does |-> worker[w].does, at |-> at, resume |-> worker[w].resume,
                       read |-> worker[w].read, made |-> worker[w].made]
  BY <1>1, TurnedWorker
<1>3. CoderTypeOK'
  BY <1>1, <1>2, CoderTypes DEF WorkerStep, CoderTypeOK, WorkerRecord, Ats, FollowerStatuses
<1>4. OwnedStep(w)
  BY <1>2 DEF OwnedStep, CreatingOwner, DeletingOwner
<1>5. RemoteStep(w)
  BY <1>2 DEF RemoteStep
<1>6. LostStep(w)
  BY <1>2 DEF LostStep, Stands
<1> QED
  BY <1>2, <1>3, <1>4, <1>5, <1>6

LEMMA WorkerTypes ==
  ASSUME CoderTypeOK, NEW w \in Workers
  PROVE  /\ row \in Row /\ worker \in [Workers -> WorkerRecord] /\ worker[w] \in WorkerRecord
         /\ worker[w].read \in Row /\ worker[w].at \in Ats /\ worker[w].made \in Ids \cup {0}
         /\ row.remote \in Ids \cup {0} /\ worker[w].read.remote \in Ids \cup {0}
         /\ row.status \in Statuses /\ worker[w].read.status \in Statuses
         /\ row.attached \in BOOLEAN /\ worker[w].read.attached \in BOOLEAN
         /\ row.create \in BOOLEAN /\ worker[w].read.create \in BOOLEAN
         /\ follower \in [Ids -> FollowerStatuses]
<1>1. /\ row \in Row /\ worker \in [Workers -> WorkerRecord] /\ worker[w] \in WorkerRecord
      /\ follower \in [Ids -> FollowerStatuses]
  BY CoderTypes
<1>2. worker[w].read \in Row /\ worker[w].at \in Ats /\ worker[w].made \in Ids \cup {0}
  BY <1>1 DEF WorkerRecord
<1> QED
  BY <1>1, <1>2 DEF Row

\* The steps that wait, reach the workspace or fail.
LEMMA QuietSteps ==
  ASSUME CoderTypeOK, NEW w \in Workers,
         \/ LockWorkspace(w) /\ worker[w].does \in {"create", "activate", "archive", "delete"}
         \/ FindBuilt(w) \/ Build(w) \/ BuildFails(w) \/ WaitForAgent(w) \/ InstallKeepaliveToken(w)
         \/ LinkWorkspace(w) \/ PrepareFails(w) \/ CreateFollowerFails(w) \/ FollowFails(w)
         \/ Reach(w) \/ ReachFails(w) \/ ReviveFails(w)
  PROVE  CoderTypeOK' /\ WorkerStep(w) /\ OwnedStep(w) /\ RemoteStep(w) /\ LostStep(w)
<1>1. workspace \in {"none", "stopped", "running"} /\ holder \in Workers \cup {NoWorker}
  BY DEF CoderTypeOK
<1>2. CASE LockWorkspace(w) /\ worker[w].does \in {"create", "activate", "archive", "delete"}
  <2>1. First(worker[w].does) \in {"build", "reach", "stop", "erase"} \cap Ats
        /\ (worker[w].does = "create" => First(worker[w].does) = "build")
    BY <1>2 DEF First, Ats
  <2> QED
    BY <1>1, <1>2, <2>1, QuietTurn DEF LockWorkspace, World, History, NotAsked
<1>3. CASE FindBuilt(w) \/ Build(w) \/ BuildFails(w)
  <2>1. {"agent", "failed"} \subseteq Ats /\ NoWorker \in Workers \cup {NoWorker}
    BY DEF Ats
  <2>2. worker[w].does = "create" /\ worker[w].at = "build"
    BY <1>3 DEF FindBuilt, Build, BuildFails, Stands
  <2>3. \E at \in {"agent", "failed"} : Turns(w, at)
    BY <1>3 DEF FindBuilt, Build, BuildFails, Returns
  <2>4. row' = row /\ follower' = follower /\ polled' = polled /\ stale' = stale /\ overtaken' = overtaken
    BY <1>3 DEF FindBuilt, Build, BuildFails, World, History
  <2>5. workspace' \in {"none", "stopped", "running"} /\ holder' \in Workers \cup {NoWorker}
    BY <1>1, <1>3 DEF FindBuilt, Build, BuildFails, World, Returns
  <2> QED
    BY <2>1, <2>2, <2>3, <2>4, <2>5, QuietTurn DEF NotAsked
<1>4. CASE WaitForAgent(w) \/ InstallKeepaliveToken(w) \/ LinkWorkspace(w) \/ PrepareFails(w)
  <2>1. {"token", "link", "session", "failed"} \subseteq Ats
    BY DEF Ats
  <2>2. worker[w].does = "create" /\ worker[w].at \in {"agent", "token", "link"}
    BY <1>4 DEF WaitForAgent, InstallKeepaliveToken, LinkWorkspace, PrepareFails, Stands
  <2>3. \E at \in {"token", "link", "session", "failed"} : Turns(w, at)
    BY <1>4 DEF WaitForAgent, InstallKeepaliveToken, LinkWorkspace, PrepareFails, Returns
  <2>4. row' = row /\ follower' = follower /\ polled' = polled /\ stale' = stale /\ overtaken' = overtaken
    BY <1>4 DEF WaitForAgent, InstallKeepaliveToken, LinkWorkspace, PrepareFails, World, History
  <2>5. workspace' \in {"none", "stopped", "running"} /\ holder' \in Workers \cup {NoWorker}
    BY <1>1, <1>4 DEF WaitForAgent, InstallKeepaliveToken, LinkWorkspace, PrepareFails, World, Returns, Reached
  <2> QED
    BY <2>1, <2>2, <2>3, <2>4, <2>5, QuietTurn DEF NotAsked
<1>5. CASE CreateFollowerFails(w) \/ FollowFails(w) \/ ReviveFails(w)
  <2>1. "failed" \in Ats /\ "failed" \notin NotAsked
    BY DEF Ats, NotAsked
  <2>2. Turns(w, "failed") /\ holder' = NoWorker
    BY <1>5 DEF CreateFollowerFails, FollowFails, ReviveFails, Returns
  <2>4. row' = row /\ World /\ History
    BY <1>5 DEF CreateFollowerFails, FollowFails, ReviveFails
  <2> QED
    BY <1>1, <2>1, <2>2, <2>4, QuietTurn DEF World, History
<1>6. CASE Reach(w) \/ ReachFails(w)
  <2>1. {"revive", "failed"} \subseteq Ats
    BY DEF Ats
  <2>2. worker[w].does = "activate"
    BY <1>6 DEF Reach, ReachFails, Stands
  <2>3. \E at \in {"revive", "failed"} : Turns(w, at)
    BY <1>6 DEF Reach, ReachFails, Returns
  <2>4. row' = row /\ follower' = follower /\ polled' = polled /\ stale' = stale /\ overtaken' = overtaken
    BY <1>6 DEF Reach, ReachFails, History
  <2>5. workspace' \in {"none", "stopped", "running"} /\ holder' \in Workers \cup {NoWorker}
        /\ (workspace = "none" => workspace' = "none")
    BY <1>1, <1>6 DEF Reach, ReachFails, Returns, Reached, InList
  <2> QED
    BY <2>1, <2>2, <2>3, <2>4, <2>5, QuietTurn
<1> QED
  BY <1>2, <1>3, <1>4, <1>5, <1>6

\* What a step of a worker with given effects keeps of the type.
LEMMA StepTypes ==
  ASSUME CoderTypeOK, NEW w \in Workers, WorkerStep(w), row' \in Row,
         follower' \in [Ids -> FollowerStatuses], workspace' \in {"none", "stopped", "running"},
         holder' \in Workers \cup {NoWorker}, polled' = polled, stale' \in BOOLEAN, overtaken' \in BOOLEAN
  PROVE  CoderTypeOK'
BY DEF WorkerStep, CoderTypeOK, WorkerRecord, Ats, FollowerStatuses

LEMMA StatusOfRow ==
  ASSUME CoderTypeOK
  PROVE  /\ \A to \in Statuses, from \in Statuses : UpdateStatusWhere(from, to) =>
              /\ row' \in Row /\ row'.remote = row.remote
              /\ row'.status = IF row.status = from THEN to ELSE row.status
         /\ \A status \in FollowerStatuses : Applied(status) =>
              /\ row' \in Row /\ row'.remote = row.remote
              /\ row'.status = row.status \/ (row.status \in Mirrored /\ row'.status \in Mirrored)
<1>1. row \in Row
  BY DEF CoderTypeOK
<1>2. \A s \in Statuses : /\ [row EXCEPT !.status = s] \in Row /\ [row EXCEPT !.status = s].status = s
                          /\ [row EXCEPT !.status = s].remote = row.remote
  BY <1>1, RowChanges DEF Row
<1>3. Mirrored \subseteq Statuses
  BY DEF Mirrored, Statuses
<1>4. ASSUME NEW to \in Statuses, NEW from \in Statuses, UpdateStatusWhere(from, to)
      PROVE  /\ row' \in Row /\ row'.remote = row.remote
             /\ row'.status = IF row.status = from THEN to ELSE row.status
  BY <1>1, <1>2, <1>4 DEF UpdateStatusWhere
<1>5. ASSUME NEW status \in FollowerStatuses, Applied(status)
      PROVE  /\ row' \in Row /\ row'.remote = row.remote
             /\ row'.status = row.status \/ (row.status \in Mirrored /\ row'.status \in Mirrored)
  <2>1. CASE row.status \in Mirrored /\ status \in Mirrored
    BY <1>2, <1>3, <1>5, <2>1 DEF Applied
  <2>2. CASE ~(row.status \in Mirrored /\ status \in Mirrored)
    BY <1>1, <1>5, <2>2 DEF Applied
  <2> QED
    BY <2>1, <2>2
<1> QED
  BY <1>4, <1>5

\* The steps of a creation that write the row or learn of the session.
LEMMA CreateSteps ==
  ASSUME CoderTypeOK, NEW w \in Workers,
         KnownSession(w) \/ SetRemoteSessionID(w) \/ FollowerActive(w) \/ FinishCreate(w)
  PROVE  CoderTypeOK' /\ WorkerStep(w) /\ OwnedStep(w) /\ RemoteStep(w) /\ LostStep(w)
<1> USE WorkerTypes
<1>1. workspace \in {"none", "stopped", "running"} /\ holder \in Workers \cup {NoWorker}
      /\ stale \in BOOLEAN /\ overtaken \in BOOLEAN
  BY DEF CoderTypeOK
<1>2. CASE KnownSession(w)
  <2>1. worker'[w] = [does |-> "create", at |-> "follow", resume |-> worker[w].resume,
                      read |-> worker[w].read, made |-> worker[w].read.remote]
        /\ worker' \in [Workers -> WorkerRecord] /\ \A v \in Workers : v # w => worker'[v] = worker[v]
    <3> DEFINE p == [does |-> worker[w].does, at |-> "follow", resume |-> worker[w].resume,
                     read |-> worker[w].read, made |-> worker[w].made]
               q == [does |-> worker[w].does, at |-> "follow", resume |-> worker[w].resume,
                     read |-> worker[w].read, made |-> worker[w].read.remote]
    <3>1. [worker[w] EXCEPT !.at = "follow"] = p
      BY DEF WorkerRecord
    <3>2. [p EXCEPT !.made = worker[w].read.remote] = q /\ q \in WorkerRecord
      BY DEF WorkerRecord, Ats
    <3> HIDE DEF p
    <3>3. [worker[w] EXCEPT !.at = "follow", !.made = worker[w].read.remote] = q
      BY <3>1, <3>2
    <3> HIDE DEF q
    <3>4. worker' = [worker EXCEPT ![w] = q] /\ worker[w].does = "create"
      BY <1>2, <3>3 DEF KnownSession, Stands
    <3> QED
      BY <3>2, <3>4 DEF q
  <2>2. WorkerStep(w) /\ worker[w].does = "create" /\ row' = row /\ World /\ History /\ holder' = holder
    BY <1>2, <2>1 DEF KnownSession, Stands, WorkerStep
  <2> QED
    BY <1>1, <2>1, <2>2, StepTypes
       DEF OwnedStep, RemoteStep, LostStep, World, History, Stands, CreatingOwner, DeletingOwner, NotAsked
<1>3. CASE SetRemoteSessionID(w)
  <2>1. WorkerStep(w) /\ worker'[w] = [does |-> worker[w].does, at |-> "follow", resume |-> worker[w].resume,
                                       read |-> worker[w].read, made |-> worker[w].made]
    BY <1>3, TurnedWorker DEF SetRemoteSessionID, Ats
  <2>2. row' \in Row /\ row'.status = row.status /\ row'.remote \in {row.remote, worker[w].made}
    BY <1>3, RowChanges DEF SetRemoteSessionID, Row
  <2>3. worker[w].does = "create" /\ World /\ History /\ holder' = holder
    BY <1>3 DEF SetRemoteSessionID, Stands
  <2> QED
    BY <1>1, <2>1, <2>2, <2>3, StepTypes
       DEF OwnedStep, RemoteStep, LostStep, World, History, Stands, CreatingOwner, DeletingOwner, NotAsked
<1>4. CASE FollowerActive(w)
  <2>1. WorkerStep(w) /\ worker'[w] = [does |-> worker[w].does, at |-> "done", resume |-> worker[w].resume,
                                       read |-> worker[w].read, made |-> worker[w].made]
    BY <1>4, TurnedWorker DEF FollowerActive, Returns, Ats
  <2>2. row' \in Row /\ row'.remote = row.remote
        /\ (row'.status = row.status \/ (row.status \in Mirrored /\ row'.status \in Mirrored))
    BY <1>4, StatusOfRow DEF FollowerActive, FollowerStatuses
  <2>3. worker[w].does = "create" /\ World /\ History /\ holder' = NoWorker
    BY <1>4 DEF FollowerActive, Stands, Returns
  <2> QED
    BY <1>1, <2>1, <2>2, <2>3, StepTypes
       DEF OwnedStep, RemoteStep, LostStep, World, History, Stands, CreatingOwner, DeletingOwner, NotAsked, Mirrored
<1>5. CASE FinishCreate(w)
  <2>1. WorkerStep(w) /\ worker'[w] = Idle
    BY <1>5, EndedWorker DEF FinishCreate
  <2>2. row' \in Row /\ row'.remote = row.remote /\ row'.status # "creating"
        /\ (row.status # "creating" => row'.status = row.status) /\ (row'.status = "none" => row.status = "none")
        /\ (row'.status = "deleted" => row.status = "deleted")
    <3>1. CASE row.status = "creating"
      <4>1. PICK s \in {"active", "broken"} : row' = [row EXCEPT !.status = s, !.create = FALSE]
        BY <1>5, <3>1 DEF FinishCreate
      <4> QED
        BY <3>1, <4>1, RowChanges DEF Row, Statuses
    <3>2. CASE row.status # "creating"
      BY <1>5, <3>2 DEF FinishCreate
    <3> QED
      BY <3>1, <3>2
  <2>3. worker[w].does = "create" /\ World /\ History /\ holder' = holder
    BY <1>5 DEF FinishCreate
  <2> QED
    BY <1>1, <2>1, <2>2, <2>3, IdleWorker, StepTypes
       DEF OwnedStep, RemoteStep, LostStep, World, History, Stands, CreatingOwner, DeletingOwner, NotAsked
<1> QED
  BY <1>2, <1>3, <1>4, <1>5

\* The steps of an activation that write the row or the follower.
LEMMA ActivateSteps ==
  ASSUME CoderTypeOK, NEW w \in Workers,
         Revive(w) \/ SettleActivated(w) \/ MarkAttached(w) \/ ActivateFailed(w)
  PROVE  CoderTypeOK' /\ WorkerStep(w) /\ OwnedStep(w) /\ RemoteStep(w) /\ LostStep(w)
<1> USE WorkerTypes
<1>1. workspace \in {"none", "stopped", "running"} /\ holder \in Workers \cup {NoWorker}
      /\ stale \in BOOLEAN /\ overtaken \in BOOLEAN
      /\ {"creating", "active", "archived"} \subseteq Statuses /\ {"done", "attach"} \subseteq Ats
      /\ "active" \in FollowerStatuses
  BY DEF CoderTypeOK, Statuses, Ats, FollowerStatuses
<1>2. CASE Revive(w)
  <2>1. WorkerStep(w) /\ worker'[w] = [does |-> worker[w].does, at |-> "done", resume |-> worker[w].resume,
                                       read |-> worker[w].read, made |-> worker[w].made]
    BY <1>1, <1>2, TurnedWorker DEF Revive, Returns
  <2>2. row' \in Row /\ row'.remote = row.remote
        /\ (row'.status = row.status \/ (row.status \in Mirrored /\ row'.status \in Mirrored))
    BY <1>1, <1>2, StatusOfRow DEF Revive
  <2>3. /\ worker[w].does = "activate" /\ worker[w].at = "revive" /\ workspace' = workspace
        /\ History /\ holder' = NoWorker
    BY <1>2 DEF Revive, Stands, Returns
  <2>4. /\ follower' \in [Ids -> FollowerStatuses]
        /\ \A i \in Ids : i # worker[w].read.remote => follower'[i] = follower[i]
    BY <1>1, <1>2 DEF Revive
  <2> QED
    BY <1>1, <2>1, <2>2, <2>3, <2>4, StepTypes
       DEF OwnedStep, RemoteStep, LostStep, History, Stands, CreatingOwner, DeletingOwner, NotAsked, Mirrored
<1>3. CASE SettleActivated(w)
  <2>1. WorkerStep(w) /\ worker'[w] = [does |-> worker[w].does, at |-> "attach", resume |-> worker[w].resume,
                                       read |-> worker[w].read, made |-> worker[w].made]
    BY <1>1, <1>3, TurnedWorker DEF SettleActivated
  <2>2. /\ row' \in Row /\ row'.remote = row.remote
        /\ (worker[w].resume => row'.status = IF row.status = "creating" THEN "active" ELSE row.status)
        /\ (~worker[w].resume => row' = row)
    BY <1>1, <1>3, StatusOfRow DEF SettleActivated
  <2>3. worker[w].does = "activate" /\ World /\ History /\ holder' = holder
    BY <1>3 DEF SettleActivated, Stands
  <2> QED
    BY <1>1, <2>1, <2>2, <2>3, StepTypes
       DEF OwnedStep, RemoteStep, LostStep, World, History, Stands, CreatingOwner, DeletingOwner, NotAsked
<1>4. CASE MarkAttached(w)
  <2>1. WorkerStep(w) /\ worker'[w] = Idle
    BY <1>4, EndedWorker DEF MarkAttached
  <2>2. row' \in Row /\ row'.remote = row.remote /\ row'.status = row.status
    BY <1>4, RowChanges DEF MarkAttached, Row
  <2>3. worker[w].does = "activate" /\ worker[w].at = "attach" /\ World /\ History /\ holder' = holder
    BY <1>4 DEF MarkAttached, Stands
  <2> QED
    BY <1>1, <2>1, <2>2, <2>3, IdleWorker, StepTypes
       DEF OwnedStep, RemoteStep, LostStep, World, History, Stands, CreatingOwner, DeletingOwner, NotAsked
<1>5. CASE ActivateFailed(w)
  <2>1. WorkerStep(w) /\ worker'[w] = Idle
    BY <1>5, EndedWorker DEF ActivateFailed
  <2>2. /\ row' \in Row /\ row'.remote = row.remote
        /\ (worker[w].resume => row'.status = IF row.status = "creating" THEN "archived" ELSE row.status)
        /\ (~worker[w].resume => row' = row)
    BY <1>1, <1>5, StatusOfRow DEF ActivateFailed
  <2>3. worker[w].does = "activate" /\ World /\ History /\ holder' = holder
    BY <1>5 DEF ActivateFailed, Stands
  <2> QED
    BY <1>1, <2>1, <2>2, <2>3, IdleWorker, StepTypes
       DEF OwnedStep, RemoteStep, LostStep, World, History, Stands, CreatingOwner, DeletingOwner, NotAsked
<1> QED
  BY <1>2, <1>3, <1>4, <1>5

\* What a write of the row as it was read earlier leaves.
LEMMA SavedRow ==
  ASSUME CoderTypeOK, NEW read \in Row, NEW status \in Statuses \ {"none"}, NEW attached \in BOOLEAN,
         Save(read, status, attached)
  PROVE  /\ row' \in Row /\ row'.remote = row.remote /\ stale' \in BOOLEAN /\ (stale => stale')
         /\ row.status = "none" => row' = row
         /\ row.status # "none" => row'.status = status
         /\ ~stale' /\ row'.status \in {"creating", "deleted"} /\ row'.status # row.status
              => read.status # row'.status
<1>1. row \in Row /\ stale \in BOOLEAN /\ read.create \in BOOLEAN
  BY DEF CoderTypeOK, Row
<1>2. row' = IF row.status # "none"
             THEN [status |-> status, attached |-> attached, remote |-> row.remote, create |-> read.create]
             ELSE row
  <2>1. [row EXCEPT !.status = status, !.attached = attached, !.create = read.create] =
          [status |-> status, attached |-> attached, remote |-> row.remote, create |-> read.create]
    <3>1. status \in Statuses
      OBVIOUS
    <3>2. \A s \in Statuses, b, c \in BOOLEAN :
             [row EXCEPT !.status = s, !.attached = b, !.create = c] =
               [status |-> s, attached |-> b, remote |-> row.remote, create |-> c]
      BY <1>1, RowChanges
    <3> QED
      BY <1>1, <3>1, <3>2, Zenon
  <2>2. row' = IF row.status # "none"
               THEN [row EXCEPT !.status = status, !.attached = attached, !.create = read.create]
               ELSE row
    BY DEF Save, Exists
  <2> QED
    BY <2>1, <2>2
<1>3. row' \in Row
  BY <1>1, <1>2 DEF Row
<1>4. row'.remote = row.remote /\ (row.status = "none" => row' = row)
      /\ (row.status # "none" => row'.status = status)
  BY <1>2
<1>5. stale' = (stale \/ (row'.status \in {"creating", "deleted"} /\ row'.status # row.status
                         /\ read.status = row'.status))
  BY DEF Save
<1>6. stale' \in BOOLEAN /\ (stale => stale')
      /\ (~stale' /\ row'.status \in {"creating", "deleted"} /\ row'.status # row.status
            => read.status # row'.status)
  BY <1>1, <1>5
<1> QED
  BY <1>3, <1>4, <1>6

\* The steps of an archiving, of a deletion but for Erase, and of a hook.
LEMMA RemoveSteps ==
  ASSUME CoderTypeOK, HookInv, NEW w \in Workers,
         SaveArchived(w) \/ Stop(w) \/ SaveDeleted(w) \/ EraseFails(w)
         \/ HardDelete(w) \/ RestoreArchived(w) \/ SaveFromHook(w)
  PROVE  CoderTypeOK' /\ WorkerStep(w) /\ OwnedStep(w) /\ RemoteStep(w) /\ LostStep(w)
<1> USE WorkerTypes
<1>1. workspace \in {"none", "stopped", "running"} /\ holder \in Workers \cup {NoWorker}
      /\ stale \in BOOLEAN /\ overtaken \in BOOLEAN
      /\ {"deleted", "archived", "broken"} \subseteq Statuses \ {"none"}
      /\ {"failed", "waits"} \subseteq Ats
      /\ {"archived", "none"} \subseteq FollowerStatuses
  BY DEF CoderTypeOK, Statuses, Ats, FollowerStatuses
<1>2. CASE SaveArchived(w) \/ SaveDeleted(w)
  <2>1. PICK status \in {"archived", "deleted"} :
          /\ Save(worker[w].read, status, FALSE)
          /\ status = "archived" => Stands(w, "archive", "read")
          /\ status = "deleted" => Stands(w, "delete", "read")
    BY <1>2 DEF SaveArchived, SaveDeleted
  <2>2. /\ row' \in Row /\ row'.remote = row.remote /\ stale' \in BOOLEAN /\ (stale => stale')
        /\ row.status = "none" => row' = row
        /\ row.status # "none" => row'.status = status
    BY <1>1, <2>1, SavedRow
  <2>3. World /\ polled' = polled /\ overtaken' = overtaken /\ holder' = holder
    BY <1>2 DEF SaveArchived, SaveDeleted
  <2>4. CASE Exists
    <3>1. WorkerStep(w) /\ worker'[w] = [does |-> worker[w].does, at |-> "waits", resume |-> worker[w].resume,
                                         read |-> worker[w].read, made |-> worker[w].made]
      BY <1>1, <1>2, <2>4, TurnedWorker DEF SaveArchived, SaveDeleted
    <3> QED
      BY <1>1, <2>1, <2>2, <2>3, <2>4, <3>1, StepTypes
         DEF OwnedStep, RemoteStep, LostStep, World, Stands, CreatingOwner, DeletingOwner, NotAsked, Exists
  <2>5. CASE ~Exists
    <3>1. WorkerStep(w) /\ worker'[w] = Idle
      BY <1>2, <2>5, EndedWorker DEF SaveArchived, SaveDeleted
    <3> QED
      BY <1>1, <2>1, <2>2, <2>3, <2>5, <3>1, IdleWorker, StepTypes
         DEF OwnedStep, RemoteStep, LostStep, World, Stands, CreatingOwner, DeletingOwner, NotAsked, Exists
  <2> QED
    BY <2>4, <2>5
<1>3. CASE SaveFromHook(w)
  <2>1. WorkerStep(w) /\ worker'[w] = Idle /\ worker[w].does = "hook"
    BY <1>3, EndedWorker DEF SaveFromHook, Stands
  <2>2. World /\ polled' = polled /\ overtaken' = overtaken /\ holder' = holder
    BY <1>3 DEF SaveFromHook
  <2>3. /\ row' \in Row /\ row'.remote = row.remote /\ stale' \in BOOLEAN /\ (stale => stale')
        /\ ~stale' /\ row'.status \in {"creating", "deleted"} => row'.status = row.status
        /\ row'.status = "none" => row.status = "none"
    <3>1. CASE Save(worker[w].read, "broken", FALSE)
      BY <1>1, <3>1, SavedRow
    <3>2. ASSUME NEW attached \in BOOLEAN, Save(worker[w].read, worker[w].read.status, attached)
          PROVE  /\ row' \in Row /\ row'.remote = row.remote /\ stale' \in BOOLEAN /\ (stale => stale')
                 /\ ~stale' /\ row'.status \in {"creating", "deleted"} => row'.status = row.status
                 /\ row'.status = "none" => row.status = "none"
      BY <1>1, <2>1, <3>2, SavedRow DEF HookInv
    <3> QED
      BY <1>3, <3>1, <3>2 DEF SaveFromHook
  <2> QED
    BY <1>1, <2>1, <2>2, <2>3, IdleWorker, StepTypes
       DEF OwnedStep, RemoteStep, LostStep, World, Stands, CreatingOwner, DeletingOwner, NotAsked
<1>4. CASE Stop(w)
  <2>1. WorkerStep(w) /\ worker'[w] = Idle /\ worker[w].does = "archive"
    BY <1>4, EndedWorker DEF Stop, Stands
  <2>2. /\ row' = row /\ History /\ holder' = NoWorker /\ workspace' \in {"none", "stopped", "running"}
        /\ workspace = "none" => workspace' = "none"
    BY <1>1, <1>4 DEF Stop
  <2>3. /\ follower' \in [Ids -> FollowerStatuses]
        /\ \A i \in Ids : follower'[i] = follower[i] \/ follower'[i] = "archived"
    BY <1>1, <1>4 DEF Stop
  <2> QED
    BY <1>1, <2>1, <2>2, <2>3, IdleWorker, StepTypes
       DEF OwnedStep, RemoteStep, LostStep, History, Stands, CreatingOwner, DeletingOwner, NotAsked, Live
<1>5. CASE EraseFails(w)
  <2>1. WorkerStep(w) /\ worker'[w] = [does |-> worker[w].does, at |-> "failed", resume |-> worker[w].resume,
                                       read |-> worker[w].read, made |-> worker[w].made]
    BY <1>1, <1>5, TurnedWorker DEF EraseFails, Returns
  <2>2. /\ row' = row /\ workspace' = workspace /\ History /\ holder' = NoWorker
        /\ worker[w].does = "delete" /\ worker[w].at = "erase"
    BY <1>5 DEF EraseFails, Returns, Stands
  <2>3. /\ follower' \in [Ids -> FollowerStatuses]
        /\ \A i \in Ids : follower'[i] = follower[i] \/ follower'[i] = "none"
    BY <1>1, <1>5 DEF EraseFails
  <2> QED
    BY <1>1, <2>1, <2>2, <2>3, StepTypes
       DEF OwnedStep, RemoteStep, LostStep, History, Stands, CreatingOwner, DeletingOwner, NotAsked, Live
<1>6. CASE HardDelete(w) \/ RestoreArchived(w)
  <2>1. WorkerStep(w) /\ worker'[w] = Idle /\ worker[w].does = "delete"
    BY <1>6, EndedWorker DEF HardDelete, RestoreArchived, Stands
  <2>2. /\ row' \in Row /\ row'.remote \in {0, row.remote} /\ row'.status # "deleted"
        /\ row'.status = "creating" => row.status = "creating"
        /\ row'.status = "none" => row.status = "none" \/ Stands(w, "delete", "done")
    <3>1. CASE HardDelete(w)
      BY <3>1, IdleWorker DEF HardDelete
    <3>2. CASE RestoreArchived(w)
      BY <1>1, <3>2, StatusOfRow DEF RestoreArchived
    <3> QED
      BY <1>6, <3>1, <3>2
  <2>3. World /\ History /\ holder' = holder
    BY <1>6 DEF HardDelete, RestoreArchived
  <2> QED
    BY <1>1, <2>1, <2>2, <2>3, IdleWorker, StepTypes
       DEF OwnedStep, RemoteStep, LostStep, World, History, Stands, CreatingOwner, DeletingOwner, NotAsked
<1> QED
  BY <1>2, <1>3, <1>4, <1>5, <1>6

-----------------------------------------------------------------------------
(***************************************************************************)
(* What the summary of a step keeps.                                       *)
(***************************************************************************)
LEMMA OwnedKept ==
  ASSUME HookInv, OwnedInv, NEW w \in Workers, WorkerStep(w), OwnedStep(w)
  PROVE  HookInv' /\ OwnedInv'
<1>1. HookInv'
  BY IdleWorker DEF HookInv, WorkerStep, OwnedStep
<1>2. ASSUME ~stale', row'.status = "creating"
      PROVE  \E v \in Workers : CreatingOwner(v)'
  <2>1. PICK v \in Workers : CreatingOwner(v)
    BY <1>2 DEF OwnedStep, OwnedInv
  <2>2. CASE v = w
    BY <1>2, <2>1, <2>2 DEF OwnedStep
  <2>3. CASE v # w
    BY <2>1, <2>3 DEF WorkerStep, CreatingOwner
  <2> QED
    BY <2>2, <2>3
<1>3. ASSUME ~stale', row'.status = "deleted"
      PROVE  \E v \in Workers : DeletingOwner(v)'
  <2>1. CASE DeletingOwner(w)'
    BY <2>1
  <2>2. CASE ~DeletingOwner(w)'
    <3>1. PICK v \in Workers : DeletingOwner(v)
      BY <1>3, <2>2 DEF OwnedStep, OwnedInv
    <3>2. CASE v = w
      BY <1>3, <2>2, <3>1, <3>2 DEF OwnedStep
    <3>3. CASE v # w
      BY <3>1, <3>3 DEF WorkerStep, DeletingOwner
    <3> QED
      BY <3>2, <3>3
  <2> QED
    BY <2>1, <2>2
<1> QED
  BY <1>1, <1>2, <1>3 DEF OwnedInv

\* What is known after such a step was known before.
LEMMA KnownKept ==
  ASSUME CoderTypeOK, NEW w \in Workers, WorkerStep(w), RemoteStep(w), NEW k \in Ids, Knows(k)'
  PROVE  Knows(k)
<1>1. k # 0
  BY IdleWorker
<1>2. CASE row'.remote = k
  BY <1>1, <1>2 DEF RemoteStep, Knows
<1>3. ASSUME NEW v \in Workers, worker'[v].read.remote = k \/ worker'[v].made = k
      PROVE  Knows(k)
  <2>1. CASE v # w
    BY <1>3, <2>1 DEF WorkerStep, Knows
  <2>2. CASE v = w
    BY <1>1, <1>3, <2>2, IdleWorker DEF WorkerStep, RemoteStep, Knows
  <2> QED
    BY <2>1, <2>2
<1> QED
  BY <1>2, <1>3 DEF Knows

LEMMA RemoteKept ==
  ASSUME CoderTypeOK, RemoteInv, NEW w \in Workers, WorkerStep(w), RemoteStep(w)
  PROVE  RemoteInv'
<1>1. \A k \in Ids : Knows(k)' => Knows(k)
  BY KnownKept
<1>2. \A v \in Workers : worker'[v].does = "create" => worker[v].does = "create"
  BY IdleWorker DEF WorkerStep
<1>3. \A u, v \in Workers : worker'[u].does = "create" /\ worker'[v].does = "create" => u = v
  BY <1>2 DEF RemoteInv
<1>4. ASSUME NEW v \in Workers, worker'[v].does = "create", worker'[v].read.remote = 0,
             worker'[v].at \in NotAsked, NEW k \in Ids
      PROVE  ~Knows(k)'
  <2>1. worker[v].does = "create" /\ worker[v].read.remote = 0 /\ worker[v].at \in NotAsked
    BY <1>4, IdleWorker DEF WorkerStep, RemoteStep
  <2> QED
    BY <1>1, <2>1 DEF RemoteInv
<1>5. \A i \in Ids : follower'[i] \in Live => follower[i] \in Live \/ Knows(i)
  BY DEF RemoteStep, Knows
<1>6. \A j, k \in Ids : Knows(j)' /\ Knows(k)' => j = k
  BY <1>1 DEF RemoteInv
<1>7. \A k, i \in Ids : Knows(k)' /\ follower'[i] \in Live => i = k
  BY <1>1, <1>5 DEF RemoteInv
<1>8. \A i, j \in Ids : follower'[i] \in Live /\ follower'[j] \in Live => i = j
  BY <1>5 DEF RemoteInv
<1> QED
  BY <1>3, <1>4, <1>6, <1>7, <1>8 DEF RemoteInv

LEMMA LostKept ==
  ASSUME LostInv, NEW w \in Workers, WorkerStep(w), LostStep(w)
  PROVE  LostInv'
<1> SUFFICES ASSUME ~overtaken', ~Exists' \/ \E v \in Workers : Stands(v, "delete", "done")'
    PROVE  workspace' = "none" /\ \A v \in Workers : worker'[v].does # "create"
  BY DEF LostInv
<1>1. ~Exists \/ \E v \in Workers : Stands(v, "delete", "done")
  <2>1. CASE ~Exists'
    BY <2>1 DEF LostStep, Exists
  <2>2. ASSUME NEW v \in Workers, Stands(v, "delete", "done")'
        PROVE  Stands(v, "delete", "done")
    BY <2>2 DEF LostStep, WorkerStep, Stands
  <2> QED
    BY <2>1, <2>2
<1>2. ~overtaken /\ workspace = "none" /\ \A v \in Workers : worker[v].does # "create"
  BY <1>1 DEF LostInv, LostStep
<1>3. workspace' = "none"
  BY <1>2 DEF LostStep
<1>4. \A v \in Workers : worker'[v].does # "create"
  BY <1>2, IdleWorker DEF WorkerStep
<1> QED
  BY <1>3, <1>4

\* The steps of the workers that the summaries describe.
LEMMA WorkersKeep ==
  ASSUME CoderInv, NEW w \in Workers, CoderTypeOK', WorkerStep(w), OwnedStep(w), RemoteStep(w), LostStep(w)
  PROVE  CoderInv'
BY OwnedKept, RemoteKept, LostKept DEF CoderInv

\* The follower answers with its live session, or makes one when it has none:
\* nobody knows another.
LEMMA CreateFollowerKeeps ==
  ASSUME CoderInv, NEW w \in Workers, CreateFollower(w)
  PROVE  CoderInv'
<1> USE WorkerTypes
<1>1. CoderTypeOK /\ HookInv /\ OwnedInv /\ RemoteInv /\ LostInv
      /\ holder \in Workers \cup {NoWorker} /\ stale \in BOOLEAN /\ overtaken \in BOOLEAN
      /\ workspace \in {"none", "stopped", "running"}
  BY DEF CoderInv, CoderTypeOK
<1>2. PICK i \in Ids :
        /\ Answered(i)
        /\ follower' = [follower EXCEPT ![i] = IF @ = "none" THEN "creating" ELSE @]
        /\ \/ worker' = [worker EXCEPT ![w].at = "record", ![w].made = i] /\ UNCHANGED holder
           \/ Returns(w, "failed")
  BY DEF CreateFollower
<1>3. worker[w].does = "create" /\ worker[w].at = "session" /\ worker[w].read.remote = 0
      /\ row' = row /\ workspace' = workspace /\ History
  BY DEF CreateFollower, Stands
<1>4. /\ WorkerStep(w) /\ worker'[w].does = "create" /\ worker'[w].at \in {"record", "failed"}
      /\ worker'[w].made \in {i, worker[w].made} /\ worker'[w].read = worker[w].read
      /\ holder' \in Workers \cup {NoWorker}
  <2>1. CASE Returns(w, "failed")
    <3>1. WorkerStep(w) /\ worker'[w] = [does |-> worker[w].does, at |-> "failed", resume |-> worker[w].resume,
                                         read |-> worker[w].read, made |-> worker[w].made]
      BY <1>1, <2>1, TurnedWorker DEF Returns, Ats
    <3> QED
      BY <1>3, <2>1, <3>1 DEF Returns
  <2>2. CASE worker' = [worker EXCEPT ![w].at = "record", ![w].made = i] /\ UNCHANGED holder
    <3> DEFINE p == [does |-> worker[w].does, at |-> "record", resume |-> worker[w].resume,
                     read |-> worker[w].read, made |-> worker[w].made]
               q == [does |-> worker[w].does, at |-> "record", resume |-> worker[w].resume,
                     read |-> worker[w].read, made |-> i]
    <3>1. [worker[w] EXCEPT !.at = "record"] = p
      BY <1>1 DEF WorkerRecord
    <3>2. [p EXCEPT !.made = i] = q /\ q \in WorkerRecord
      BY <1>1 DEF WorkerRecord, Ats
    <3> HIDE DEF p
    <3>3. [worker[w] EXCEPT !.at = "record", !.made = i] = q
      BY <3>1, <3>2
    <3> HIDE DEF q
    <3>4. worker' = [worker EXCEPT ![w] = q]
      BY <2>2, <3>3
    <3>5. worker'[w] = q /\ worker' \in [Workers -> WorkerRecord]
          /\ \A v \in Workers : v # w => worker'[v] = worker[v]
      BY <1>1, <3>2, <3>4
    <3> QED
      BY <1>1, <1>3, <2>2, <3>5 DEF q, WorkerStep
  <2> QED
    BY <1>2, <2>1, <2>2
<1>5. /\ follower' \in [Ids -> FollowerStatuses]
      /\ \A j \in Ids : j # i => follower'[j] = follower[j] /\ follower[j] \notin Live
  <2>1. follower' \in [Ids -> FollowerStatuses] /\ \A j \in Ids : j # i => follower'[j] = follower[j]
    BY <1>1, <1>2 DEF FollowerStatuses
  <2>2. \A j \in Ids : j # i => follower[j] \notin Live
    BY <1>1, <1>2 DEF Answered, RemoteInv, Live
  <2> QED
    BY <2>1, <2>2
<1>6. \A k \in Ids : ~Knows(k)
  BY <1>1, <1>3 DEF RemoteInv, NotAsked
<1>7. CoderTypeOK'
  BY <1>1, <1>3, <1>4, <1>5, StepTypes DEF History
<1>8. OwnedStep(w) /\ LostStep(w)
  BY <1>3, <1>4 DEF OwnedStep, LostStep, History, Stands, CreatingOwner, DeletingOwner
<1>9. \A k \in Ids : Knows(k)' => k = i
  BY <1>3, <1>4, <1>6 DEF WorkerStep, Knows
<1>10. RemoteInv'
  <2>1. \A v \in Workers : worker'[v].does = "create" => v = w
    BY <1>1, <1>3, <1>4 DEF RemoteInv, WorkerStep
  <2>2. \A v \in Workers : worker'[v].does = "create" => worker'[v].at \notin NotAsked
    BY <1>4, <2>1 DEF NotAsked
  <2> QED
    BY <1>5, <1>9, <2>1, <2>2 DEF RemoteInv
<1> QED
  BY <1>1, <1>4, <1>7, <1>8, <1>10, OwnedKept, LostKept DEF CoderInv

\* The workspace goes, and with it the sessions of the follower.
LEMMA EraseKeeps ==
  ASSUME CoderInv, NEW w \in Workers, Erase(w)
  PROVE  CoderInv'
<1> USE WorkerTypes
<1>1. CoderTypeOK /\ HookInv /\ OwnedInv /\ RemoteInv /\ LostInv
      /\ stale \in BOOLEAN /\ overtaken \in BOOLEAN
  BY DEF CoderInv, CoderTypeOK
<1>2. WorkerStep(w) /\ worker'[w] = [does |-> worker[w].does, at |-> "done", resume |-> worker[w].resume,
                                     read |-> worker[w].read, made |-> worker[w].made]
  BY <1>1, TurnedWorker DEF Erase, Returns, Ats
<1>3. /\ worker[w].does = "delete" /\ worker[w].at = "erase" /\ workspace' = "none"
      /\ follower' = [i \in Ids |-> "none"] /\ holder' = NoWorker
      /\ overtaken' = (overtaken \/ \E v \in Workers : worker[v].does = "create")
      /\ row' = row /\ polled' = polled /\ stale' = stale
  BY DEF Erase, Returns, Stands
<1>4. CoderTypeOK'
  BY <1>1, <1>2, <1>3, StepTypes DEF FollowerStatuses
<1>5. OwnedStep(w)
  BY <1>2, <1>3 DEF OwnedStep, CreatingOwner, DeletingOwner
<1>6. RemoteStep(w)
  BY <1>2, <1>3 DEF RemoteStep, Live
<1>7. LostInv'
  <2>1. \A v \in Workers : worker'[v].does = worker[v].does
    BY <1>2 DEF WorkerStep
  <2>2. ~overtaken' => \A v \in Workers : worker[v].does # "create"
    BY <1>3
  <2> QED
    BY <1>3, <2>1, <2>2 DEF LostInv
<1> QED
  BY <1>1, <1>2, <1>4, <1>5, <1>6, <1>7, OwnedKept, RemoteKept DEF CoderInv

-----------------------------------------------------------------------------
(***************************************************************************)
(* The requests, which start a worker, and the steps of nobody.            *)
(***************************************************************************)
\* What a worker begins with, and the same as a record.
Begun(does, at, resume, read) == [Idle EXCEPT !.does = does, !.at = at, !.resume = resume, !.read = read]
Asks(does, at, read) == [Idle EXCEPT !.does = does, !.at = at, !.read = read]

LEMMA NewTask ==
  ASSUME NEW does \in {"create", "activate", "archive", "delete", "hook"}, NEW at \in Ats,
         NEW resume \in BOOLEAN, NEW read \in Row
  PROVE  /\ Asks(does, at, read) =
              [does |-> does, at |-> at, resume |-> FALSE, read |-> read, made |-> 0]
         /\ Begun(does, at, resume, read) =
              [does |-> does, at |-> at, resume |-> resume, read |-> read, made |-> 0]
         /\ [does |-> does, at |-> at, resume |-> resume, read |-> read, made |-> 0] \in WorkerRecord
<1>0. PICK no \in BOOLEAN : no = FALSE
  OBVIOUS
<1> DEFINE p == [does |-> does, at |-> "none", resume |-> no, read |-> NoRow, made |-> 0]
           q == [does |-> does, at |-> at, resume |-> no, read |-> NoRow, made |-> 0]
           r == [does |-> does, at |-> at, resume |-> resume, read |-> NoRow, made |-> 0]
           s == [does |-> does, at |-> at, resume |-> no, read |-> read, made |-> 0]
           t == [does |-> does, at |-> at, resume |-> resume, read |-> read, made |-> 0]
<1>1. /\ Idle = [does |-> "nothing", at |-> "none", resume |-> no, read |-> NoRow, made |-> 0]
      /\ Idle \in WorkerRecord
  BY <1>0, IdleWorker DEF Idle
<1>2. p \in WorkerRecord /\ q \in WorkerRecord /\ r \in WorkerRecord /\ s \in WorkerRecord /\ t \in WorkerRecord
  BY IdleWorker DEF WorkerRecord, Ats
<1>3. [Idle EXCEPT !.does = does] = p
  BY <1>1 DEF WorkerRecord
<1>4. [p EXCEPT !.at = at] = q
  BY <1>2 DEF WorkerRecord
<1>5. [q EXCEPT !.resume = resume] = r
  BY <1>2 DEF WorkerRecord
<1>6. [q EXCEPT !.read = read] = s
  BY <1>2 DEF WorkerRecord
<1>7. [r EXCEPT !.read = read] = t
  BY <1>2 DEF WorkerRecord
<1> HIDE DEF p, q, r, s, t
<1>8. [Idle EXCEPT !.does = does, !.at = at] = q
  BY <1>3, <1>4
<1>9. [Idle EXCEPT !.does = does, !.at = at, !.resume = resume] = r
  BY <1>5, <1>8
<1>10. [Idle EXCEPT !.does = does, !.at = at, !.read = read] = s
  BY <1>6, <1>8
<1>11. [Idle EXCEPT !.does = does, !.at = at, !.resume = resume, !.read = read] = t
  BY <1>7, <1>9
<1> QED
  BY <1>0, <1>2, <1>10, <1>11 DEF s, t, Asks, Begun

LEMMA StartedWorker ==
  ASSUME CoderTypeOK, NEW w \in Workers,
         NEW does \in {"activate", "archive", "delete", "hook"}, NEW at \in Ats, NEW resume \in BOOLEAN,
         Starts(w, does, at, resume)
  PROVE  /\ worker[w] = Idle
         /\ worker' \in [Workers -> WorkerRecord] /\ \A v \in Workers : v # w => worker'[v] = worker[v]
         /\ worker'[w] = [does |-> does, at |-> at, resume |-> resume, read |-> row, made |-> 0]
<1>1. row \in Row /\ worker \in [Workers -> WorkerRecord]
  BY CoderTypes
<1> DEFINE p == [does |-> does, at |-> at, resume |-> resume, read |-> row, made |-> 0]
<1>2. [Idle EXCEPT !.does = does, !.at = at, !.resume = resume, !.read = row] = p
  <2>1. does \in {"create", "activate", "archive", "delete", "hook"}
    OBVIOUS
  <2>2. Begun(does, at, resume, row) = p
    BY <1>1, <2>1, NewTask
  <2> QED
    BY <2>2 DEF Begun
<1>3. p \in WorkerRecord
  BY <1>1 DEF WorkerRecord
<1> HIDE DEF p
<1>4. worker[w] = Idle /\ worker' = [worker EXCEPT ![w] = p]
  BY <1>2 DEF Starts
<1>5. worker'[w] = p /\ worker' \in [Workers -> WorkerRecord]
      /\ \A v \in Workers : v # w => worker'[v] = worker[v]
  BY <1>1, <1>3, <1>4
<1> QED
  BY <1>4, <1>5 DEF p

\* A worker that has read the row knows what the row knows.
LEMMA StartKeeps ==
  ASSUME CoderInv, NEW w \in Workers,
         NEW does \in {"activate", "archive", "delete", "hook"}, NEW at \in Ats, NEW resume \in BOOLEAN,
         Starts(w, does, at, resume), row' \in Row, row'.remote = row.remote,
         row'.status = row.status \/ (row.status = "archived" /\ row'.status = "creating"),
         row'.status # row.status => does = "activate" /\ resume /\ at # "attach",
         does = "hook" => row.status # "none" /\ at # "waits", does = "delete" => at # "done",
         holder' = holder, World, History
  PROVE  CoderInv'
<1>1. CoderTypeOK /\ HookInv /\ OwnedInv /\ RemoteInv /\ LostInv
  BY DEF CoderInv
<1>2. /\ worker[w] = Idle
      /\ worker' \in [Workers -> WorkerRecord] /\ \A v \in Workers : v # w => worker'[v] = worker[v]
      /\ worker'[w] = [does |-> does, at |-> at, resume |-> resume, read |-> row, made |-> 0]
  BY <1>1, StartedWorker
<1>3. CoderTypeOK'
  BY <1>1, <1>2 DEF CoderTypeOK, WorkerRecord, Ats, World, History
<1>4. HookInv'
  BY <1>1, <1>2 DEF HookInv
<1>5. OwnedInv'
  <2>1. ASSUME ~stale', row'.status = "creating"
        PROVE  \E v \in Workers : CreatingOwner(v)'
    <3>1. CASE row.status = "creating"
      <4>1. PICK v \in Workers : CreatingOwner(v)
        BY <1>1, <2>1, <3>1 DEF OwnedInv, History
      <4>2. v # w
        BY <1>2, <4>1, IdleWorker DEF CreatingOwner
      <4> QED
        BY <1>2, <4>1, <4>2 DEF CreatingOwner
    <3>2. CASE row.status # "creating"
      BY <1>2, <2>1, <3>2 DEF CreatingOwner
    <3> QED
      BY <3>1, <3>2
  <2>2. ASSUME ~stale', row'.status = "deleted"
        PROVE  \E v \in Workers : DeletingOwner(v)'
    <3>1. PICK v \in Workers : DeletingOwner(v)
      BY <1>1, <2>2 DEF OwnedInv, History
    <3>2. v # w
      BY <1>2, <3>1, IdleWorker DEF DeletingOwner
    <3> QED
      BY <1>2, <3>1, <3>2 DEF DeletingOwner
  <2> QED
    BY <2>1, <2>2 DEF OwnedInv
<1>6. RemoteInv'
  <2>1. \A k \in Ids : Knows(k)' => Knows(k)
    BY <1>2, IdleWorker DEF Knows
  <2>2. \A v \in Workers : worker'[v].does = "create" => v # w /\ worker'[v] = worker[v]
    BY <1>2
  <2> QED
    BY <1>1, <2>1, <2>2 DEF RemoteInv, World
<1>7. LostInv'
  <2>1. \A v \in Workers : worker'[v].does = "create" => v # w /\ worker'[v] = worker[v]
    BY <1>2
  <2>2. \A v \in Workers : Stands(v, "delete", "done")' => Stands(v, "delete", "done")
    BY <1>2 DEF Stands
  <2>3. ~Exists' => ~Exists
    BY DEF Exists
  <2> QED
    BY <1>1, <2>1, <2>2, <2>3 DEF LostInv, World, History
<1> QED
  BY <1>3, <1>4, <1>5, <1>6, <1>7 DEF CoderInv

LEMMA RequestsKeep ==
  ASSUME CoderInv, NEW w \in Workers,
         ActivateCoderSession(w) \/ ReadToArchive(w) \/ ReadToDelete(w) \/ ReadForHook(w)
  PROVE  CoderInv'
<1>1. row \in Row /\ {"waits", "read", "failed"} \subseteq Ats /\ {"archived", "creating"} \subseteq Statuses
      /\ CoderTypeOK
  BY DEF CoderInv, CoderTypeOK, Ats, Statuses
<1>2. CASE ActivateCoderSession(w)
  <2>1. PICK at \in {"failed", "waits"} : Starts(w, "activate", at, row.status = "archived")
    BY <1>2 DEF ActivateCoderSession
  <2>2. row' \in Row /\ row'.remote = row.remote
        /\ row'.status = IF row.status = "archived" THEN "creating" ELSE row.status
    BY <1>1, <1>2, StatusOfRow DEF ActivateCoderSession
  <2>3. holder' = holder /\ World /\ History
    BY <1>2 DEF ActivateCoderSession
  <2>4. (row.status = "archived") \in BOOLEAN /\ at \in Ats /\ at # "attach"
    BY <1>1
  <2> QED
    BY <2>1, <2>2, <2>3, <2>4, StartKeeps
<1>3. CASE ReadToArchive(w)
  <2>1. Starts(w, "archive", "read", FALSE) /\ row' = row /\ holder' = holder /\ World /\ History
    BY <1>3 DEF ReadToArchive
  <2> QED
    BY <1>1, <2>1, StartKeeps
<1>4. CASE ReadToDelete(w)
  <2>1. Starts(w, "delete", "read", FALSE) /\ row' = row /\ holder' = holder /\ World /\ History
    BY <1>4 DEF ReadToDelete
  <2> QED
    BY <1>1, <2>1, StartKeeps
<1>5. CASE ReadForHook(w)
  <2>1. Starts(w, "hook", "read", FALSE) /\ row' = row /\ holder' = holder /\ World /\ History
        /\ row.status # "none"
    BY <1>5 DEF ReadForHook, Exists
  <2> QED
    BY <1>1, <2>1, StartKeeps
<1> QED
  BY <1>2, <1>3, <1>4, <1>5

\* The row of a new session knows nothing, and nobody else is at work.
LEMMA NewSessionKeeps ==
  ASSUME CoderInv, NEW w \in Workers, CreateCoderSession(w)
  PROVE  CoderInv'
<1>1. CoderTypeOK /\ RemoteInv
  BY DEF CoderInv
<1> DEFINE new == [status |-> "creating", attached |-> FALSE, remote |-> 0, create |-> TRUE]
           p == [does |-> "create", at |-> "waits", resume |-> FALSE, read |-> new, made |-> 0]
<1>2. [NoRow EXCEPT !.status = "creating", !.create = TRUE] = new /\ new \in Row
  <2>1. {"creating"} \subseteq Statuses /\ NoRow.attached = FALSE
    BY DEF Statuses, NoRow
  <2>2. \A s \in Statuses, c \in BOOLEAN : [NoRow EXCEPT !.status = s, !.create = c] =
          [status |-> s, attached |-> NoRow.attached, remote |-> NoRow.remote, create |-> c]
    BY IdleWorker, RowChanges
  <2>3. [NoRow EXCEPT !.status = "creating", !.create = TRUE] =
          [status |-> "creating", attached |-> NoRow.attached, remote |-> NoRow.remote, create |-> TRUE]
    BY <2>1, <2>2, Zenon
  <2>4. new \in Row
    BY DEF Row, Statuses
  <2> QED
    BY <2>1, <2>3, <2>4, IdleWorker
<1>3. [Idle EXCEPT !.does = "create", !.at = "waits", !.read = new] = p /\ p \in WorkerRecord
  <2>1. "waits" \in Ats
    BY DEF Ats
  <2> HIDE DEF new
  <2>2. p \in WorkerRecord
    BY <1>2, <2>1 DEF WorkerRecord
  <2>3. [Idle EXCEPT !.does = "create", !.at = "waits", !.read = new] = p
    <3>1. "create" \in {"create", "activate", "archive", "delete", "hook"} /\ FALSE \in BOOLEAN
      OBVIOUS
    <3>2. Asks("create", "waits", new) = p
      BY <1>2, <2>1, <3>1, NewTask
    <3> QED
      BY <3>2 DEF Asks
  <2> QED
    BY <2>2, <2>3
<1> HIDE DEF p
<1>4. row' = new /\ worker' = [worker EXCEPT ![w] = p] /\ \A v \in Workers : worker[v] = Idle
      /\ holder' = holder /\ World /\ History
  BY <1>2, <1>3 DEF CreateCoderSession
<1>5. worker' \in [Workers -> WorkerRecord] /\ worker'[w] = p /\ \A v \in Workers : v # w => worker'[v] = Idle
  BY <1>1, <1>3, <1>4, CoderTypes
<1>6. CoderTypeOK'
  BY <1>1, <1>2, <1>4, <1>5 DEF CoderTypeOK, WorkerRecord, Ats, World, History
<1>7. HookInv' /\ OwnedInv' /\ LostInv'
  BY <1>4, <1>5, IdleWorker DEF p, HookInv, OwnedInv, LostInv, CreatingOwner, DeletingOwner, Stands, Exists
<1>8. RemoteInv'
  <2>1. \A k \in Ids : ~Knows(k)'
    BY <1>4, <1>5, IdleWorker DEF p, Knows
  <2>2. \A v \in Workers : worker'[v].does = "create" => v = w
    BY <1>5, IdleWorker
  <2> QED
    BY <1>1, <1>4, <2>1, <2>2 DEF RemoteInv, World
<1> QED
  BY <1>6, <1>7, <1>8 DEF CoderInv

\* The start of the daemon takes up what the row says was under way.
LEMMA RestartKeeps ==
  ASSUME CoderInv, NEW w \in Workers, Restart(w)
  PROVE  CoderInv'
<1>1. CoderTypeOK /\ RemoteInv /\ LostInv /\ row \in Row
  BY DEF CoderInv, CoderTypeOK
<1>2. World /\ holder' = NoWorker /\ polled' = "none" /\ stale' = FALSE /\ overtaken' = overtaken /\ Resumed(w)
  BY DEF Restart
<1> DEFINE Did(does, resume) == [does |-> does, at |-> "waits", resume |-> resume, read |-> row, made |-> 0]
<1>3. \A does \in {"create", "delete"}, resume \in BOOLEAN :
        Task(does, resume) = Did(does, resume) /\ Did(does, resume) \in WorkerRecord
  <2>1. ASSUME NEW does \in {"create", "delete"}, NEW resume \in BOOLEAN
        PROVE  Task(does, resume) = Did(does, resume) /\ Did(does, resume) \in WorkerRecord
    <3>1. Task(does, resume) = Did(does, resume)
      <4>1. does \in {"create", "activate", "archive", "delete", "hook"} /\ "waits" \in Ats
        BY DEF Ats
      <4>2. Begun(does, "waits", resume, row) = Did(does, resume)
        BY <1>1, <4>1, NewTask
      <4> QED
        BY <4>2 DEF Begun, Task
    <3>2. Did(does, resume) \in WorkerRecord
      BY <1>1 DEF WorkerRecord, Ats
    <3> QED
      BY <3>1, <3>2
  <2> QED
    BY <2>1
<1>4. /\ \A v \in Workers : v # w => worker'[v] = Idle
      /\ worker' \in [Workers -> WorkerRecord]
      /\ \/ row' = row /\ row.status = "deleted" /\ worker'[w] = Did("delete", FALSE)
         \/ row' = row /\ row.status = "creating" /\ worker'[w] = Did("create", TRUE)
         \/ worker'[w] = Idle /\ row' \in Row /\ row'.remote = row.remote
            /\ row'.status \notin {"creating", "deleted"}
            /\ (row'.status = "none" <=> row.status = "none")
  <2>1. CASE row.status = "deleted"
    <3>1. row' = row /\ worker' = [v \in Workers |-> IF v # w THEN Idle ELSE Task("delete", FALSE)]
      BY <1>2, <2>1 DEF Resumed
    <3>2. Task("delete", FALSE) = Did("delete", FALSE) /\ Task("delete", FALSE) \in WorkerRecord
      BY <1>3
    <3> HIDE DEF Did
    <3> QED
      BY <2>1, <3>1, <3>2, IdleWorker
  <2>2. CASE row.status = "creating" /\ row.create
    <3>1. row' = row /\ worker' = [v \in Workers |-> IF v # w THEN Idle ELSE Task("create", TRUE)]
      BY <1>2, <2>2 DEF Resumed
    <3>2. Task("create", TRUE) = Did("create", TRUE) /\ Task("create", TRUE) \in WorkerRecord
      BY <1>3
    <3> HIDE DEF Did
    <3> QED
      BY <2>2, <3>1, <3>2, IdleWorker
  <2>3. CASE ~(row.status = "deleted" \/ (row.status = "creating" /\ row.create))
    <3>1. worker' = [v \in Workers |-> Idle]
          /\ row' = IF row.status # "creating" THEN row
                    ELSE [row EXCEPT !.status = IF row.remote # 0 THEN "archived" ELSE "broken"]
      BY <1>2, <2>3 DEF Resumed
    <3>2. \A s \in {"archived", "broken"} :
            /\ [row EXCEPT !.status = s] \in Row /\ [row EXCEPT !.status = s].remote = row.remote
            /\ [row EXCEPT !.status = s].status = s
      BY <1>1 DEF Row, Statuses
    <3> QED
      BY <1>1, <2>3, <3>1, <3>2, IdleWorker
  <2> QED
    BY <2>1, <2>2, <2>3
<1>5. CoderTypeOK'
  BY <1>1, <1>2, <1>4 DEF CoderTypeOK, WorkerRecord, Ats, World
<1>6. HookInv' /\ OwnedInv'
  BY <1>4, IdleWorker DEF HookInv, OwnedInv, CreatingOwner, DeletingOwner
<1>7. \A k \in Ids : Knows(k)' => row.remote = k
  BY <1>4, IdleWorker DEF Knows
<1>8. RemoteInv'
  <2>1. \A k \in Ids : Knows(k)' => Knows(k)
    BY <1>7 DEF Knows
  <2>2. \A v \in Workers : worker'[v].does = "create" => v = w /\ worker'[v].read.remote = row.remote
    BY <1>4, IdleWorker
  <2> QED
    BY <1>1, <1>2, <1>7, <2>1, <2>2, IdleWorker DEF RemoteInv, World
<1>9. LostInv'
  <2>1. \A v \in Workers : ~Stands(v, "delete", "done")'
    BY <1>4, IdleWorker DEF Stands
  <2>2. ~Exists' => ~Exists /\ \A v \in Workers : worker'[v].does # "create"
    BY <1>4, IdleWorker DEF Exists
  <2> QED
    BY <1>1, <1>2, <2>1, <2>2 DEF LostInv, World
<1> QED
  BY <1>5, <1>6, <1>8, <1>9 DEF CoderInv

\* The poll, the follower and the workspace write nothing in progress.
LEMMA OthersKeep ==
  ASSUME CoderInv,
         \/ Poll \/ Refresh \/ ApplyRemoteState \/ WorkspaceStops
         \/ \E i \in Ids : FollowerSettles(i)
         \/ UNCHANGED coderVars
  PROVE  CoderInv'
<1>1. CoderTypeOK /\ HookInv /\ OwnedInv /\ RemoteInv /\ LostInv
      /\ row \in Row /\ follower \in [Ids -> FollowerStatuses] /\ polled \in FollowerStatuses
  BY CoderTypes DEF CoderInv
<1>2. worker' = worker /\ holder' = holder /\ stale' = stale /\ overtaken' = overtaken
  BY DEF Poll, Refresh, ApplyRemoteState, WorkspaceStops, FollowerSettles, History, coderVars
<1>3. /\ row' \in Row /\ row'.remote = row.remote
      /\ row'.status = row.status \/ (row.status \in Mirrored /\ row'.status \in Mirrored)
  <2>1. CASE ApplyRemoteState
    BY <1>1, <2>1, StatusOfRow DEF ApplyRemoteState
  <2>2. CASE ~ApplyRemoteState
    BY <1>1, <2>2 DEF Poll, Refresh, WorkspaceStops, FollowerSettles, coderVars
  <2> QED
    BY <2>1, <2>2
<1>4. /\ follower' \in [Ids -> FollowerStatuses]
      /\ \A i \in Ids : follower'[i] \in Live => follower[i] \in Live
  <2>1. ASSUME NEW i \in Ids, FollowerSettles(i)
        PROVE  /\ follower' \in [Ids -> FollowerStatuses]
               /\ \A j \in Ids : follower'[j] \in Live => follower[j] \in Live
    BY <1>1, <2>1 DEF FollowerSettles, FollowerStatuses, Live
  <2>2. CASE ~\E i \in Ids : FollowerSettles(i)
    BY <1>1, <2>2 DEF Poll, Refresh, ApplyRemoteState, WorkspaceStops, World, coderVars
  <2> QED
    BY <2>1, <2>2
<1>5. /\ workspace' \in {"none", "stopped", "running"} /\ (workspace = "none" => workspace' = "none")
  BY <1>1 DEF CoderTypeOK, Poll, Refresh, ApplyRemoteState, WorkspaceStops, FollowerSettles, World, coderVars,
              Reached, InList
<1>6. polled' \in FollowerStatuses
  <2>1. CASE Poll \/ Refresh
    <3>1. row.remote \in Ids /\ polled' = follower[row.remote]
      BY <1>1, <2>1 DEF Poll, Refresh, Row
    <3> QED
      BY <1>1, <3>1
  <2>2. CASE ~(Poll \/ Refresh)
    BY <1>1, <2>2 DEF ApplyRemoteState, WorkspaceStops, FollowerSettles, History, coderVars, FollowerStatuses
  <2> QED
    BY <2>1, <2>2
<1>7. CoderTypeOK'
  BY <1>1, <1>2, <1>3, <1>4, <1>5, <1>6 DEF CoderTypeOK, FollowerStatuses
<1>8. HookInv' /\ OwnedInv'
  BY <1>1, <1>2, <1>3 DEF HookInv, OwnedInv, CreatingOwner, DeletingOwner, Mirrored
<1>9. RemoteInv'
  <2>1. \A k \in Ids : Knows(k)' <=> Knows(k)
    BY <1>2, <1>3 DEF Knows
  <2> QED
    BY <1>1, <1>2, <1>4, <2>1 DEF RemoteInv
<1>10. LostInv'
  BY <1>1, <1>2, <1>3, <1>5 DEF LostInv, Exists, Stands, Mirrored
<1> QED
  BY <1>7, <1>8, <1>9, <1>10 DEF CoderInv

LEMMA WorkingKeeps ==
  ASSUME CoderInv, NEW w \in Workers, worker[w] # Idle,
         LockWorkspace(w) \/ Creating(w) \/ Activating(w) \/ Removing(w) \/ SaveFromHook(w)
  PROVE  CoderInv'
<1>1. CoderTypeOK /\ HookInv
  BY DEF CoderInv
<1>2. CASE CreateFollower(w)
  BY <1>2, CreateFollowerKeeps
<1>3. CASE Erase(w)
  BY <1>3, EraseKeeps
<1>4. CASE ~CreateFollower(w) /\ ~Erase(w)
  <2>1. LockWorkspace(w) => worker[w].does \in {"create", "activate", "archive", "delete"}
    BY <1>1, CoderTypes DEF HookInv, LockWorkspace, WorkerRecord
  <2>2. CoderTypeOK' /\ WorkerStep(w) /\ OwnedStep(w) /\ RemoteStep(w) /\ LostStep(w)
    BY <1>1, <1>4, <2>1, QuietSteps, CreateSteps, ActivateSteps, RemoveSteps DEF Creating, Activating, Removing
  <2> QED
    BY <2>2, WorkersKeep
<1> QED
  BY <1>2, <1>3, <1>4

LEMMA CoderInvariance == CoderSpec => []CoderInv
<1>1. CoderInit => CoderInv
  <2> SUFFICES ASSUME CoderInit PROVE CoderInv
    OBVIOUS
  <2>1. CoderTypeOK
    BY IdleWorker DEF CoderInit, CoderTypeOK, WorkerRecord, Ats
  <2>2. HookInv /\ OwnedInv /\ LostInv
    BY IdleWorker DEF CoderInit, HookInv, OwnedInv, LostInv
  <2>3. \A k \in Ids : ~Knows(k)
    BY IdleWorker DEF CoderInit, Knows
  <2>4. RemoteInv
    BY <2>3, IdleWorker DEF CoderInit, RemoteInv, Live
  <2> QED
    BY <2>1, <2>2, <2>4 DEF CoderInv
<1>2. CoderInv /\ [CoderNext]_coderVars => CoderInv'
  <2> SUFFICES ASSUME CoderInv, [CoderNext]_coderVars PROVE CoderInv'
    OBVIOUS
  <2>1. ASSUME NEW w \in Workers, CreateCoderSession(w)
        PROVE  CoderInv'
    BY <2>1, NewSessionKeeps
  <2>2. ASSUME NEW w \in Workers,
               ActivateCoderSession(w) \/ ReadToArchive(w) \/ ReadToDelete(w) \/ ReadForHook(w)
        PROVE  CoderInv'
    BY <2>2, RequestsKeep
  <2>3. ASSUME NEW w \in Workers, Restart(w)
        PROVE  CoderInv'
    BY <2>3, RestartKeeps
  <2>4. ASSUME NEW w \in Workers, worker[w] # Idle,
               LockWorkspace(w) \/ Creating(w) \/ Activating(w) \/ Removing(w) \/ SaveFromHook(w)
        PROVE  CoderInv'
    BY <2>4, WorkingKeeps
  <2>5. CASE \/ Poll \/ Refresh \/ ApplyRemoteState \/ WorkspaceStops
             \/ \E i \in Ids : FollowerSettles(i)
             \/ UNCHANGED coderVars
    BY <2>5, OthersKeep
  <2> QED
    BY <2>1, <2>2, <2>3, <2>4, <2>5 DEF CoderNext, Requests, Working
<1> QED
  BY <1>1, <1>2, PTL DEF CoderSpec

\* A creating row has a creation or a resumption at work and a deleted one a
\* deletion, wherever the daemon is stopped, but for a status that a hook wrote
\* back from a row read earlier (session/sessionservice.go:1774), for any
\* number of goroutines.
THEOREM InProgressStaysOwned == CoderSpec => []InProgressIsOwned
<1>1. CoderInv => InProgressIsOwned
  BY DEF CoderInv, OwnedInv, CreatingOwner, DeletingOwner, InProgressIsOwned
<1> QED
  BY <1>1, CoderInvariance, PTL

\* However often and wherever a creation is interrupted and resumed, the
\* follower has at most one live session for it (coder/service.go:259).
THEOREM FollowerHasOneSession == CoderSpec => []OneFollowerSession
<1>1. CoderInv => OneFollowerSession
  <2> SUFFICES ASSUME CoderInv PROVE Cardinality({i \in Ids : follower[i] \in Live}) <= 1
    BY DEF OneFollowerSession
  <2> DEFINE live == {i \in Ids : follower[i] \in Live}
  <2>1. \A i, j \in live : i = j
    BY DEF CoderInv, RemoteInv
  <2>2. CASE live = {}
    BY <2>2, FS_EmptySet
  <2>3. CASE live # {}
    <3>1. PICK i : live = {i}
      BY <2>1, <2>3
    <3>2. Cardinality(live) = 1
      BY <3>1, FS_Singleton
    <3> QED
      BY <3>2
  <2> QED
    BY <2>2, <2>3
<1> QED
  BY <1>1, CoderInvariance, PTL

\* A session whose row is gone leaves no workspace behind, unless a deletion by
\* force reached the workspace before its creation did (coder/service.go:385).
THEOREM WorkspaceIsNotLost == CoderSpec => []NoWorkspaceIsLost
<1>1. CoderInv => NoWorkspaceIsLost
  BY DEF CoderInv, LostInv, NoWorkspaceIsLost
<1> QED
  BY <1>1, CoderInvariance, PTL
=============================================================================
