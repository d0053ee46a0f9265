----------------------------- MODULE MuxService -----------------------------
(***************************************************************************)
(* The multiplexer service of internal/mux/service.go: one record per name *)
(* of a terminal session, written by the calls of the session service      *)
(* under a lock per name (nameLocks), and by the follower that applies the *)
(* terminal daemon's event stream to the records.                          *)
(*                                                                         *)
(* The terminals live in the tuios daemon (internal/tuios/driver.go),      *)
(* which users operate too.  A terminal that opens or closes is announced  *)
(* on the stream; what the stream loses, because the connection breaks or  *)
(* the daemon drops events, is made up for by a resync event.              *)
(*                                                                         *)
(* A call is: read the row where the code does so before it takes the      *)
(* lock; take the lock and call the driver; write the whole row and        *)
(* release the lock.  Records are never deleted.  Window lists, resource   *)
(* samples and errors of the local database are left out.                  *)
(***************************************************************************)
EXTENDS Naturals, Sequences

CONSTANTS
  Callers,   \* goroutines of the session service that call this one
  Names,     \* names of terminal sessions
  Envs,      \* environments a record may be created with
  None       \* neither a name nor an environment

ASSUME NoneIsNoName == None \notin Names \cup Envs

VARIABLES
  terminals,   \* names of the terminal sessions that exist in tuios
  connected,   \* the subscription to the event stream is up
  stream,      \* events sent and not yet handled
  record,      \* mux_sessions: the row of every name
  call,        \* what every caller is doing
  follower,    \* what the goroutine of followEvents is doing
  unsure       \* history: names whose record no event or resync accounts for

muxVars == <<terminals, connected, stream, record, call, follower, unsure>>

NoRecord == [status |-> "none", env |-> None]
Resync   == [type |-> "resync", name |-> None, own |-> FALSE]
NoCall   == [op |-> "none", at |-> "idle", name |-> None, row |-> NoRecord]
Idle     == [at |-> "idle", names |-> {}, todo |-> {}, event |-> Resync]

MuxInit ==
  /\ terminals = {}
  /\ connected = FALSE
  /\ stream = <<>>
  /\ record = [n \in Names |-> NoRecord]
  /\ call = [c \in Callers |-> NoCall]
  /\ follower = Idle
  /\ unsure = {}

\* The stream after terminal n opened or closed; own: utena's own kill closed it.
Emit(type, n, own) ==
  IF connected THEN Append(stream, [type |-> type, name |-> n, own |-> own]) ELSE stream

Opened(n) == IF n \in terminals THEN stream ELSE Emit("created", n, FALSE)
Killed(n) == IF n \in terminals THEN Emit("closed", n, TRUE) ELSE stream

-----------------------------------------------------------------------------
(***************************************************************************)
(* Users and the tuios daemon.                                             *)
(***************************************************************************)
UserOpens(n) ==
  /\ n \notin terminals
  /\ terminals' = terminals \cup {n}
  /\ stream' = Emit("created", n, FALSE)
  /\ UNCHANGED <<connected, record, call, follower, unsure>>

UserCloses(n) ==
  /\ n \in terminals
  /\ terminals' = terminals \ {n}
  /\ stream' = Emit("closed", n, FALSE)
  /\ UNCHANGED <<connected, record, call, follower, unsure>>

\* The connection breaks: only the first sent events still arrive.
\* The daemon may have ended, and all its terminals with it.
ConnectionLost(sent) ==
  /\ connected
  /\ connected' = FALSE
  /\ stream' = SubSeq(stream, 1, sent)
  /\ terminals' \in {terminals, {}}
  /\ UNCHANGED <<record, call, follower, unsure>>

\* tuios drops events of a slow subscriber and sends a gap event in their place.
EventsDropped(sent) ==
  /\ connected
  /\ sent < Len(stream)
  /\ stream' = Append(SubSeq(stream, 1, sent), Resync)
  /\ UNCHANGED <<terminals, connected, record, call, follower, unsure>>

-----------------------------------------------------------------------------
(***************************************************************************)
(* The store.  Names are unique: a second row of a name is a conflict.     *)
(***************************************************************************)
Add(n, row)    == record' = IF record[n] = NoRecord THEN [record EXCEPT ![n] = row] ELSE record
Update(n, row) == record' = [record EXCEPT ![n] = row]

-----------------------------------------------------------------------------
(***************************************************************************)
(* Calls.  A caller holds the lock of its name from the driver call to the *)
(* write of the row.                                                       *)
(***************************************************************************)
Holds(c, n) == call[c].at = "writing" /\ call[c].name = n
Locked(n)   == \E c \in Callers : Holds(c, n)

BeginCall(c, op, n, row) ==
  /\ call[c] = NoCall
  /\ call' = [call EXCEPT ![c] = [op |-> op, at |-> "waiting", name |-> n, row |-> row]]
  /\ UNCHANGED <<terminals, connected, stream, record, follower, unsure>>

\* RegisterPending; a record that exists is returned as it is.
RegisterPending(n, env) ==
  /\ ~Locked(n)
  /\ record[n] = NoRecord
  /\ record' = [record EXCEPT ![n] = [status |-> "pending", env |-> env]]
  /\ UNCHANGED <<terminals, connected, stream, call, follower, unsure>>

\* SpawnForRecord and KillSession read the row by its id before they lock its name.
SpawnForRecord(c, n) ==
  /\ record[n] # NoRecord
  /\ BeginCall(c, "spawn", n, [record[n] EXCEPT !.status = "active"])

KillSession(c, n) ==
  /\ record[n] # NoRecord
  /\ BeginCall(c, "kill", n, [record[n] EXCEPT !.status = "inactive"])

CreateSession(c, n, env) ==
  BeginCall(c, "create", n, [status |-> "active", env |-> env])

\* The caller takes the lock.
Enter(c) ==
  /\ call[c].at = "waiting"
  /\ ~Locked(call[c].name)

\* The terminal exists, or is made.
OpenTerminal(c) ==
  LET n == call[c].name IN
  /\ Enter(c)
  /\ call[c].op \in {"spawn", "create"}
  /\ terminals' = terminals \cup {n}
  /\ stream' = Opened(n)
  /\ call' = [call EXCEPT ![c].at = "writing"]
  /\ UNCHANGED <<connected, record, follower, unsure>>

\* NewSession fails and the call returns its error; the terminal may have been
\* made all the same, when only the answer was lost.
OpenFails(c) ==
  LET n == call[c].name IN
  /\ Enter(c)
  /\ call[c].op \in {"spawn", "create"}
  /\ \/ UNCHANGED <<terminals, stream>>
     \/ terminals' = terminals \cup {n} /\ stream' = Opened(n)
  /\ call' = [call EXCEPT ![c] = NoCall]
  /\ UNCHANGED <<connected, record, follower, unsure>>

KillTerminal(c) ==
  LET n == call[c].name IN
  /\ Enter(c)
  /\ call[c].op = "kill"
  /\ terminals' = terminals \ {n}
  /\ stream' = Killed(n)
  /\ call' = [call EXCEPT ![c].at = "writing"]
  /\ UNCHANGED <<connected, record, follower, unsure>>

\* The record is marked inactive although the terminal lives.
KillFails(c) ==
  LET n == call[c].name IN
  /\ Enter(c)
  /\ call[c].op = "kill"
  /\ call' = [call EXCEPT ![c].at = "writing"]
  /\ unsure' = unsure \cup ({n} \cap terminals)
  /\ UNCHANGED <<terminals, connected, stream, record, follower>>

\* Mutant of WriteRow: it waits for the events of its terminal first.
WriteRowAfterEvents(c) ==
  /\ call[c].at = "writing"
  /\ stream = <<>>
  /\ Update(call[c].name, call[c].row)
  /\ call' = [call EXCEPT ![c] = NoCall]
  /\ UNCHANGED <<terminals, connected, stream, follower, unsure>>

\* The whole row is written and the lock released.
WriteRow(c) ==
  /\ call[c].at = "writing"
  /\ Update(call[c].name, call[c].row)
  /\ call' = [call EXCEPT ![c] = NoCall]
  /\ UNCHANGED <<terminals, connected, stream, follower, unsure>>

\* GetOrTrackSession, called for a terminal that HasSession has seen; no lock.
GetOrTrackSession(c, n, env) ==
  /\ call[c] = NoCall
  /\ n \in terminals
  /\ call' = [call EXCEPT ![c] = [op |-> "track", at |-> "tracking", name |-> n,
                                  row |-> [status |-> "active", env |-> env]]]
  /\ UNCHANGED <<terminals, connected, stream, record, follower, unsure>>

\* Mutant of Track: Add is retried while another call's row is there.
TrackRetries(c) ==
  LET n == call[c].name IN
  /\ call[c].at = "tracking"
  /\ record[n] = NoRecord
  /\ call' = [call EXCEPT ![c] = NoCall]
  /\ record' = [record EXCEPT ![n] = call[c].row]
  /\ unsure' = unsure \cup ({n} \ terminals)
  /\ UNCHANGED <<terminals, connected, stream, follower>>

Track(c) ==
  LET n == call[c].name IN
  /\ call[c].at = "tracking"
  /\ call' = [call EXCEPT ![c] = NoCall]
  /\ Add(n, call[c].row)
  /\ unsure' = unsure \cup ({n} \ terminals)
  /\ UNCHANGED <<terminals, connected, stream, follower>>

-----------------------------------------------------------------------------
(***************************************************************************)
(* The follower.                                                           *)
(***************************************************************************)
NextEvent(type) ==
  /\ follower = Idle
  /\ stream # <<>>
  /\ Head(stream).type = type
  /\ stream' = Tail(stream)

\* The driver's stream of events starts with a resync.
Subscribe == connected' = TRUE /\ stream' = <<Resync>>

\* followEvents subscribes again.
Reconnect ==
  /\ ~connected /\ stream = <<>> /\ follower = Idle
  /\ Subscribe
  /\ UNCHANGED <<terminals, record, call, follower, unsure>>

\* What status s promises of the terminal n.
Agrees(s, n) ==
  /\ s = "active" => n \in terminals
  /\ s = "inactive" => n \notin terminals

\* resync asks for the terminals without a lock: a call that is about to write
\* the opposite of what it finds is not accounted for.
ListTerminals ==
  /\ NextEvent("resync")
  /\ follower' = [Idle EXCEPT !.at = "listed", !.names = terminals]
  /\ unsure' = {n \in Names : \E c \in Callers : Holds(c, n) /\ ~Agrees(call[c].row.status, n)}
  /\ UNCHANGED <<terminals, connected, record, call>>

ListFails ==
  /\ NextEvent("resync")
  /\ unsure' = Names
  /\ UNCHANGED <<terminals, connected, record, call, follower>>

\* The rows that resync will write, copied from the records.
Found(n) == IF n \in follower.names THEN "active" ELSE "inactive"

Stale ==
  {[name |-> n, row |-> [record[n] EXCEPT !.status = Found(n)]] :
     n \in {m \in Names : record[m].status \in {"active", "inactive"} \ {Found(m)}}}

ListRecords ==
  /\ follower.at = "listed"
  /\ follower' = [Idle EXCEPT !.at = "updating", !.todo = Stale]
  /\ UNCHANGED <<terminals, connected, stream, record, call, unsure>>

UpdateRecord ==
  /\ follower.at = "updating"
  /\ \E entry \in follower.todo :
       /\ Update(entry.name, entry.row)
       /\ follower' = [follower EXCEPT !.todo = @ \ {entry}]
  /\ UNCHANGED <<terminals, connected, stream, call, unsure>>

ResyncDone ==
  /\ follower.at = "updating"
  /\ follower.todo = {}
  /\ follower' = Idle
  /\ UNCHANGED <<terminals, connected, stream, record, call, unsure>>

Publishing(event) == [Idle EXCEPT !.at = "publishing", !.event = event]

\* Mutant of SetStatus: the lock is not taken.
SetStatusUnlocked(n, s) ==
  record' = IF record[n] = NoRecord THEN record ELSE [record EXCEPT ![n].status = s]

SetStatus(n, s) ==
  /\ ~Locked(n)
  /\ record' = IF record[n] = NoRecord THEN record ELSE [record EXCEPT ![n].status = s]

HandleSessionCreated ==
  LET event == Head(stream) IN
  /\ NextEvent("created")
  /\ SetStatus(event.name, "active")
  /\ follower' = Publishing(event)
  /\ UNCHANGED <<terminals, connected, call, unsure>>

\* The close of a terminal whose record is not active is utena's own kill, and not published.
HandleSessionClosed ==
  LET event == Head(stream) IN
  /\ NextEvent("closed")
  /\ SetStatus(event.name, "inactive")
  /\ follower' = IF record[event.name].status \in {"none", "active"} THEN Publishing(event) ELSE Idle
  /\ UNCHANGED <<terminals, connected, call, unsure>>

\* The subscribers' handlers have returned (eventbus.Publish is synchronous).
Published ==
  /\ follower.at = "publishing"
  /\ follower' = Idle
  /\ UNCHANGED <<terminals, connected, stream, record, call, unsure>>

\* The daemon of utena ends and starts again: its calls, its locks and its
\* subscription are gone, the records and the terminals stay.
MuxRestart ==
  /\ connected' = FALSE
  /\ stream' = <<>>
  /\ call' = [c \in Callers |-> NoCall]
  /\ follower' = Idle
  /\ UNCHANGED <<terminals, record, unsure>>

-----------------------------------------------------------------------------
Terminals ==
  \/ \E n \in Names : UserOpens(n) \/ UserCloses(n)
  \/ \E sent \in 0 .. Len(stream) : ConnectionLost(sent) \/ EventsDropped(sent)

Requests ==
  \E c \in Callers, n \in Names :
    \/ SpawnForRecord(c, n) \/ KillSession(c, n)
    \/ \E env \in Envs : RegisterPending(n, env) \/ CreateSession(c, n, env) \/ GetOrTrackSession(c, n, env)

Drive(c)  == OpenTerminal(c) \/ OpenFails(c) \/ KillTerminal(c) \/ KillFails(c)
Return(c) == WriteRow(c) \/ Track(c)

Follow == ListTerminals \/ ListFails \/ ListRecords \/ UpdateRecord \/ ResyncDone \/ Published

HandleEvent == HandleSessionCreated \/ HandleSessionClosed

Environment == Terminals \/ Requests \/ MuxRestart

System == (\E c \in Callers : Drive(c) \/ Return(c)) \/ Reconnect \/ Follow \/ HandleEvent

MuxNext == Environment \/ System

\* Goroutines run, and a sync.Mutex hands itself over to the one that waits
\* longest.  Nothing makes the terminal daemon come back.
MuxFairness ==
  /\ \A c \in Callers : SF_muxVars(Drive(c)) /\ WF_muxVars(Return(c))
  /\ WF_muxVars(Follow)
  /\ SF_muxVars(HandleEvent)

MuxSpec == MuxInit /\ [][MuxNext]_muxVars /\ MuxFairness
-----------------------------------------------------------------------------
(***************************************************************************)
(* Properties.                                                             *)
(***************************************************************************)
Rows   == [status : {"none", "pending", "active", "inactive"}, env : Envs \cup {None}]
Events == [type : {"created", "closed"}, name : Names, own : BOOLEAN] \cup {Resync}

CallType ==
  [op : {"spawn", "create", "kill", "track"}, at : {"waiting", "writing", "tracking"},
   name : Names, row : Rows] \cup {NoCall}

FollowerType ==
  [at : {"idle", "listed", "updating", "publishing"}, names : SUBSET Names,
   todo : SUBSET [name : Names, row : Rows], event : Events]

\* Every variable has its type.
MuxTypeOK ==
  /\ terminals \subseteq Names
  /\ connected \in BOOLEAN
  /\ stream \in Seq(Events)
  /\ record \in [Names -> Rows]
  /\ call \in [Callers -> CallType]
  /\ follower \in FollowerType
  /\ unsure \subseteq Names

\* Nothing is under way: every event is handled and no call is running.
Settled ==
  /\ connected
  /\ stream = <<>>
  /\ follower.at \in {"idle", "publishing"}
  /\ call = [c \in Callers |-> NoCall]

\* Once everything has settled the records tell which terminals exist, however
\* calls, users, events, lost events, resyncs and restarts were interleaved.
\* The exceptions are kept in unsure: a kill that failed, a resync that could
\* not list or ran into a call, a terminal tracked after it had closed.
RecordsAgree ==
  Settled => \A n \in Names \ unsure : Agrees(record[n].status, n)

\* A call returns, whatever else wants the lock of its name.
CallsReturn == \A c \in Callers : []<>(call[c] = NoCall)

\* The follower handles what the stream holds (or loses it to a restart).
EventsAreHandled == []<>(stream = <<>> /\ follower = Idle)

\* The close of a terminal that utena killed itself does not surface as an
\* external close (docs/architecture.md:58; mux/service_test.go:200-221).
OwnKillUnpublished == follower.at = "publishing" => ~follower.event.own
=============================================================================
