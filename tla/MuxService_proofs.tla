-------------------------- MODULE MuxService_proofs --------------------------
(***************************************************************************)
(* Proof that the records of MuxService agree with the terminals once      *)
(* everything has settled, for any callers, names and environments.        *)
(*                                                                         *)
(* RecordsAgree speaks of settled states only.  The inductive invariant    *)
(* says what an unsettled state owes: an event that is still in the stream *)
(* tells the truth if it is the last one about its terminal (StreamTrue),  *)
(* and a name the stream is silent about is accounted for by its record,   *)
(* by the call that holds its lock or by the resync that is under way      *)
(* (Accounted).                                                            *)
(***************************************************************************)
EXTENDS MuxService, TLAPS

\* The status a call will write follows from its operation.
CallsWrite ==
  \A c \in Callers :
    /\ call[c].op \in {"spawn", "create", "track"} => call[c].row.status = "active"
    /\ call[c].at = "tracking" => call[c].row.status = "active"
    /\ call[c].op = "kill" => call[c].row.status = "inactive"

\* The lock of a name has one holder.
OneHolder == \A n \in Names : \A c, d \in Callers : Holds(c, n) /\ Holds(d, n) => c = d

TodoWhileUpdating == follower.at # "updating" => follower.todo = {}

\* No event after i is about the terminal of event i, nor a resync.
Latest(i) == \A j \in i + 1 .. Len(stream) : stream[j].name \notin {stream[i].name, None}

StreamTrue ==
  connected =>
    \A i \in 1 .. Len(stream) :
      stream[i] # Resync /\ Latest(i) => (stream[i].type = "created" <=> stream[i].name \in terminals)

\* The stream holds neither an event about n nor a resync.
Silent(n) == \A i \in 1 .. Len(stream) : stream[i].name \notin {n, None}

HolderAgrees(n)  == \A c \in Callers : Holds(c, n) => Agrees(call[c].row.status, n)
ListingAgrees(n) == follower.at = "listed" => (n \in follower.names <=> n \in terminals)
TodoAgrees(n)    == \A entry \in follower.todo : entry.name = n => Agrees(entry.row.status, n)
RecordAgrees(n)  ==
  \/ Agrees(record[n].status, n)
  \/ Locked(n)
  \/ follower.at = "listed"
  \/ \E entry \in follower.todo : entry.name = n

Accounted(n) ==
  connected /\ n \notin unsure /\ Silent(n) =>
    HolderAgrees(n) /\ ListingAgrees(n) /\ TodoAgrees(n) /\ RecordAgrees(n)

IInv ==
  /\ MuxTypeOK
  /\ CallsWrite
  /\ OneHolder
  /\ TodoWhileUpdating
  /\ StreamTrue
  /\ \A n \in Names : Accounted(n)
-----------------------------------------------------------------------------
(***************************************************************************)
(* Sequences.                                                              *)
(***************************************************************************)
LEMMA EmptySequence == \A S : <<>> \in Seq(S)
OBVIOUS

LEMMA AppendFacts ==
  \A S : \A s \in Seq(S) : \A x \in S :
    /\ Append(s, x) \in Seq(S)
    /\ Len(Append(s, x)) = Len(s) + 1
    /\ \A i \in 1 .. Len(s) : Append(s, x)[i] = s[i]
    /\ Append(s, x)[Len(s) + 1] = x
OBVIOUS

LEMMA TailFacts ==
  \A S : \A s \in Seq(S) : s # <<>> =>
    /\ Tail(s) \in Seq(S)
    /\ Len(s) \in Nat /\ Len(s) > 0
    /\ Len(Tail(s)) = Len(s) - 1
    /\ \A i \in 1 .. Len(s) - 1 : Tail(s)[i] = s[i + 1]
    /\ Head(s) = s[1]
    /\ Head(s) \in S
OBVIOUS

LEMMA PrefixFacts ==
  \A S : \A s \in Seq(S) : \A k \in 0 .. Len(s) :
    /\ SubSeq(s, 1, k) \in Seq(S)
    /\ Len(SubSeq(s, 1, k)) = k
    /\ \A i \in 1 .. k : SubSeq(s, 1, k)[i] = s[i]
OBVIOUS
-----------------------------------------------------------------------------
(***************************************************************************)
(* Types.                                                                  *)
(***************************************************************************)

\* A call that is under way is about a name and a row.
LEMMA CallShape ==
  ASSUME MuxTypeOK, NEW c \in Callers, call[c].at # "idle"
  PROVE  /\ call[c].op \in {"spawn", "create", "kill", "track"}
         /\ call[c].at \in {"waiting", "writing", "tracking"}
         /\ call[c].name \in Names
         /\ call[c].row \in Rows
         /\ call[c] \in [op : {"spawn", "create", "kill", "track"}, at : {"waiting", "writing", "tracking"},
                         name : Names, row : Rows]
         /\ [call EXCEPT ![c].at = "writing"] \in [Callers -> CallType]
<1>1. call[c] \in CallType /\ call \in [Callers -> CallType]
  BY DEF MuxTypeOK
<1>2. call[c] # NoCall
  BY DEF NoCall
<1>3. call[c] \in [op : {"spawn", "create", "kill", "track"}, at : {"waiting", "writing", "tracking"},
                   name : Names, row : Rows]
  BY <1>1, <1>2 DEF CallType
<1>4. [call[c] EXCEPT !.at = "writing"] \in CallType
  BY <1>3 DEF CallType
<1> QED
  BY <1>1, <1>3, <1>4

LEMMA EmitTypes ==
  ASSUME MuxTypeOK, NEW n \in Names
  PROVE  /\ \A type \in {"created", "closed"}, own \in BOOLEAN : Emit(type, n, own) \in Seq(Events)
         /\ Opened(n) \in Seq(Events)
         /\ Killed(n) \in Seq(Events)
<1>1. ASSUME NEW type \in {"created", "closed"}, NEW own \in BOOLEAN
      PROVE  Emit(type, n, own) \in Seq(Events)
  <2>1. [type |-> type, name |-> n, own |-> own] \in Events
    BY DEF Events
  <2> QED
    BY <2>1, AppendFacts DEF Emit, MuxTypeOK
<1> QED
  BY <1>1 DEF Opened, Killed, MuxTypeOK

LEMMA InitTypes ==
  ASSUME MuxInit
  PROVE  MuxTypeOK
<1>1. NoRecord \in Rows
  BY DEF NoRecord, Rows
<1>2. NoCall \in CallType
  BY DEF CallType
<1>3. Resync \in Events
  BY DEF Events
<1>4. follower \in FollowerType
  BY <1>3 DEF MuxInit, Idle, FollowerType
<1> QED
  BY <1>1, <1>2, <1>4, EmptySequence DEF MuxInit, MuxTypeOK

LEMMA StaleTypes ==
  ASSUME MuxTypeOK
  PROVE  Stale \subseteq [name : Names, row : Rows]
<1>1. ASSUME NEW n \in Names
      PROVE  [name |-> n, row |-> [record[n] EXCEPT !.status = Found(n)]] \in [name : Names, row : Rows]
  <2>1. record[n] \in Rows
    BY DEF MuxTypeOK
  <2>2. [record[n] EXCEPT !.status = Found(n)] \in Rows
    BY <2>1 DEF Rows, Found
  <2> QED
    BY <2>2
<1> QED
  BY <1>1 DEF Stale

LEMMA RequestTypes ==
  ASSUME MuxTypeOK, Requests
  PROVE  MuxTypeOK'
<1> PICK c \in Callers, n \in Names :
      \/ SpawnForRecord(c, n) \/ KillSession(c, n)
      \/ \E env \in Envs : RegisterPending(n, env) \/ CreateSession(c, n, env) \/ GetOrTrackSession(c, n, env)
  BY DEF Requests
<1>1. record[n] \in Rows
  BY DEF MuxTypeOK
<1>2. ASSUME NEW op \in {"spawn", "create", "kill", "track"}, NEW at \in {"waiting", "tracking"},
             NEW row \in Rows,
             call' = [call EXCEPT ![c] = [op |-> op, at |-> at, name |-> n, row |-> row]],
             UNCHANGED <<terminals, connected, stream, record, follower, unsure>>
      PROVE  MuxTypeOK'
  <2>1. [op |-> op, at |-> at, name |-> n, row |-> row] \in CallType
    BY <1>2 DEF CallType
  <2>2. call' \in [Callers -> CallType]
    BY <1>2, <2>1 DEF MuxTypeOK
  <2> QED
    BY <1>2, <2>2 DEF MuxTypeOK
<1>3. CASE SpawnForRecord(c, n)
  <2>1. [record[n] EXCEPT !.status = "active"] \in Rows
    BY <1>1 DEF Rows
  <2> QED
    BY <1>3, <1>2, <2>1 DEF SpawnForRecord, BeginCall
<1>4. CASE KillSession(c, n)
  <2>1. [record[n] EXCEPT !.status = "inactive"] \in Rows
    BY <1>1 DEF Rows
  <2> QED
    BY <1>4, <1>2, <2>1 DEF KillSession, BeginCall
<1>5. ASSUME NEW env \in Envs, RegisterPending(n, env)
      PROVE  MuxTypeOK'
  <2>1. [status |-> "pending", env |-> env] \in Rows
    BY DEF Rows
  <2>2. record' \in [Names -> Rows]
    BY <1>5, <2>1 DEF RegisterPending, MuxTypeOK
  <2> QED
    BY <1>5, <2>2 DEF RegisterPending, MuxTypeOK
<1>6. ASSUME NEW env \in Envs, CreateSession(c, n, env) \/ GetOrTrackSession(c, n, env)
      PROVE  MuxTypeOK'
  <2>1. [status |-> "active", env |-> env] \in Rows
    BY DEF Rows
  <2> QED
    BY <1>6, <1>2, <2>1 DEF CreateSession, GetOrTrackSession, BeginCall
<1> QED
  BY <1>3, <1>4, <1>5, <1>6

LEMMA DriveTypes ==
  ASSUME MuxTypeOK, NEW c \in Callers, Drive(c) \/ Return(c)
  PROVE  MuxTypeOK'
<1>1. call[c].at # "idle"
  BY DEF Drive, OpenTerminal, OpenFails, KillTerminal, KillFails, Enter, Return, WriteRow, Track, Update, Add
<1>2. /\ call[c].name \in Names /\ call[c].row \in Rows
      /\ [call EXCEPT ![c].at = "writing"] \in [Callers -> CallType]
  BY <1>1, CallShape
<1>3. [call EXCEPT ![c] = NoCall] \in [Callers -> CallType]
  BY DEF MuxTypeOK, CallType
<1>4. Opened(call[c].name) \in Seq(Events) /\ Killed(call[c].name) \in Seq(Events)
  BY <1>2, EmitTypes
<1>5. CASE OpenTerminal(c) \/ OpenFails(c)
  BY <1>2, <1>3, <1>4, <1>5 DEF OpenTerminal, OpenFails, MuxTypeOK
<1>6. CASE KillTerminal(c) \/ KillFails(c)
  BY <1>2, <1>3, <1>4, <1>6 DEF KillTerminal, KillFails, MuxTypeOK
<1>7. CASE WriteRow(c) \/ Track(c)
  <2>1. record' \in [Names -> Rows]
    BY <1>2, <1>7 DEF WriteRow, Track, MuxTypeOK, Update, Add
  <2> QED
    BY <1>2, <1>3, <1>7, <2>1 DEF WriteRow, Track, MuxTypeOK, Update, Add
<1> QED
  BY <1>5, <1>6, <1>7 DEF Drive, Return

LEMMA FollowTypes ==
  ASSUME MuxTypeOK, Follow \/ HandleEvent \/ Reconnect
  PROVE  MuxTypeOK'
<1>1. stream # <<>> => Tail(stream) \in Seq(Events) /\ Head(stream) \in Events
  BY TailFacts DEF MuxTypeOK
<1>2. follower \in FollowerType /\ Idle \in FollowerType
  <2>1. Resync \in Events
    BY DEF Events
  <2> QED
    BY <2>1 DEF MuxTypeOK, FollowerType, Idle
<1>3. CASE ListTerminals
  <2>1. follower' \in FollowerType
    BY <1>2, <1>3 DEF ListTerminals, MuxTypeOK, FollowerType, Idle
  <2> QED
    BY <1>1, <1>3, <2>1 DEF ListTerminals, NextEvent, MuxTypeOK
<1>4. CASE ListFails
  BY <1>1, <1>4 DEF ListFails, NextEvent, MuxTypeOK
<1>5. CASE ListRecords
  <2>1. follower' \in FollowerType
    BY <1>2, <1>5, StaleTypes DEF ListRecords, FollowerType, Idle
  <2> QED
    BY <1>5, <2>1 DEF ListRecords, MuxTypeOK
<1>6. CASE UpdateRecord
  <2>1. PICK entry \in follower.todo :
          /\ record' = [record EXCEPT ![entry.name] = entry.row]
          /\ follower' = [follower EXCEPT !.todo = @ \ {entry}]
    BY <1>6 DEF UpdateRecord, Update
  <2>2. entry.name \in Names /\ entry.row \in Rows
    BY <1>2 DEF FollowerType
  <2>3. follower' \in FollowerType
    BY <1>2, <2>1 DEF FollowerType
  <2> QED
    BY <1>6, <2>1, <2>2, <2>3 DEF UpdateRecord, MuxTypeOK, FollowerType, Update
<1>7. CASE ResyncDone \/ Published
  BY <1>2, <1>7 DEF ResyncDone, Published, MuxTypeOK, FollowerType
<1>8. CASE HandleSessionCreated \/ HandleSessionClosed
  <2>1. stream # <<>> /\ stream' = Tail(stream)
    BY <1>8 DEF HandleSessionCreated, HandleSessionClosed, NextEvent
  <2>2. Head(stream) \in Events /\ stream' \in Seq(Events)
    BY <1>1, <2>1
  <2>3. record' \in [Names -> Rows]
    BY <1>8 DEF HandleSessionCreated, HandleSessionClosed, SetStatus, MuxTypeOK, Rows
  <2>4. Publishing(Head(stream)) \in FollowerType
    BY <1>2, <2>2 DEF Publishing, FollowerType, Idle
  <2>5. follower' \in FollowerType
    BY <1>2, <1>8, <2>4 DEF HandleSessionCreated, HandleSessionClosed
  <2> QED
    BY <1>8, <2>2, <2>3, <2>5 DEF HandleSessionCreated, HandleSessionClosed, MuxTypeOK, FollowerType
<1>9. CASE Reconnect
  <2>1. <<Resync>> \in Seq(Events)
    BY DEF Events
  <2> QED
    BY <1>9, <2>1 DEF Reconnect, MuxTypeOK, Subscribe
<1> QED
  BY <1>3, <1>4, <1>5, <1>6, <1>7, <1>8, <1>9 DEF Follow, HandleEvent

LEMMA TerminalTypes ==
  ASSUME MuxTypeOK, Terminals \/ MuxRestart
  PROVE  MuxTypeOK'
<1>1. ASSUME NEW n \in Names, UserOpens(n) \/ UserCloses(n)
      PROVE  MuxTypeOK'
  BY <1>1, EmitTypes DEF UserOpens, UserCloses, MuxTypeOK
<1>2. ASSUME NEW sent \in 0 .. Len(stream), ConnectionLost(sent) \/ EventsDropped(sent)
      PROVE  MuxTypeOK'
  <2>1. SubSeq(stream, 1, sent) \in Seq(Events)
    BY PrefixFacts DEF MuxTypeOK
  <2>2. Append(SubSeq(stream, 1, sent), Resync) \in Seq(Events)
    BY <2>1, AppendFacts DEF Events
  <2> QED
    BY <1>2, <2>1, <2>2 DEF ConnectionLost, EventsDropped, MuxTypeOK
<1>3. CASE MuxRestart
  <2>1. Idle \in FollowerType /\ [c \in Callers |-> NoCall] \in [Callers -> CallType]
    BY DEF Idle, FollowerType, Events, CallType
  <2> QED
    BY <1>3, <2>1, EmptySequence DEF MuxRestart, MuxTypeOK
<1> QED
  BY <1>1, <1>2, <1>3 DEF Terminals

LEMMA TypeStep ==
  ASSUME MuxTypeOK, [MuxNext]_muxVars
  PROVE  MuxTypeOK'
<1>1. CASE UNCHANGED muxVars
  BY <1>1 DEF muxVars, MuxTypeOK
<1> QED
  BY <1>1, RequestTypes, DriveTypes, FollowTypes, TerminalTypes DEF MuxNext, Environment, System

\* Every variable of the service keeps its type.
THEOREM TypeCorrect == MuxSpec => []MuxTypeOK
<1>1. MuxInit => MuxTypeOK
  BY InitTypes
<1>2. MuxTypeOK /\ [MuxNext]_muxVars => MuxTypeOK'
  BY TypeStep
<1> QED
  BY <1>1, <1>2, PTL DEF MuxSpec
-----------------------------------------------------------------------------
(***************************************************************************)
(* Calls and locks.                                                        *)
(***************************************************************************)

\* What a step does to the calls and to the follower: at most one caller begins
\* to hold its name, which nobody held, and the follower drops its list.
LEMMA LockStep ==
  ASSUME MuxTypeOK, CallsWrite, OneHolder, TodoWhileUpdating, [MuxNext]_muxVars
  PROVE  CallsWrite' /\ OneHolder' /\ TodoWhileUpdating'
<1>1. ASSUME NEW c \in Callers, NEW new,
             call' = [call EXCEPT ![c] = new],
             new.at # "writing",
             new.op \in {"spawn", "create", "track"} => new.row.status = "active",
             new.at = "tracking" => new.row.status = "active",
             new.op = "kill" => new.row.status = "inactive"
      PROVE  CallsWrite' /\ OneHolder'
  <2>1. \A d \in Callers : call'[d] = IF d = c THEN new ELSE call[d]
    BY <1>1 DEF MuxTypeOK
  <2> QED
    BY <1>1, <2>1 DEF CallsWrite, OneHolder, Holds
<1>2. ASSUME NEW c \in Callers, Enter(c), call' = [call EXCEPT ![c].at = "writing"]
      PROVE  CallsWrite' /\ OneHolder'
  <2>1. \A d \in Callers : /\ d # c => call'[d] = call[d]
                          /\ call'[d].name = call[d].name
                          /\ call'[d].op = call[d].op /\ call'[d].row = call[d].row
    <3>1. call[c] \in [op : {"spawn", "create", "kill", "track"}, at : {"waiting", "writing", "tracking"},
                       name : Names, row : Rows]
      BY <1>2, CallShape DEF Enter
    <3> QED
      BY <1>2, <3>1 DEF MuxTypeOK
  <2> QED
    BY <1>2, <2>1 DEF CallsWrite, OneHolder, Holds, Enter, Locked
<1>3. ASSUME NEW c \in Callers, call' = [call EXCEPT ![c] = NoCall]
      PROVE  CallsWrite' /\ OneHolder'
  <2>1. NoCall.at = "idle" /\ NoCall.op = "none"
    BY DEF NoCall
  <2> QED
    BY <1>1, <1>3, <2>1
<1>4. ASSUME call' = call
      PROVE  CallsWrite' /\ OneHolder'
  BY <1>4 DEF CallsWrite, OneHolder, Holds
<1>5. ASSUME follower' = follower
      PROVE  TodoWhileUpdating'
  BY <1>5 DEF TodoWhileUpdating
<1>6. CASE Requests
  <2> PICK c \in Callers, n \in Names :
        \/ SpawnForRecord(c, n) \/ KillSession(c, n)
        \/ \E env \in Envs : RegisterPending(n, env) \/ CreateSession(c, n, env) \/ GetOrTrackSession(c, n, env)
    BY <1>6 DEF Requests
  <2>1. ASSUME NEW op, NEW at \in {"waiting", "tracking"}, NEW row,
               call' = [call EXCEPT ![c] = [op |-> op, at |-> at, name |-> n, row |-> row]],
               \/ op = "kill" /\ at = "waiting" /\ row.status = "inactive"
               \/ op # "kill" /\ row.status = "active"
        PROVE  CallsWrite' /\ OneHolder'
    <3> DEFINE new == [op |-> op, at |-> at, name |-> n, row |-> row]
    <3>1. new.at = at /\ new.op = op /\ new.row = row
      OBVIOUS
    <3> HIDE DEF new
    <3> QED
      BY <1>1, <2>1, <3>1 DEF new
  <2>2. record[n] \in Rows
    BY DEF MuxTypeOK
  <2>3. CASE SpawnForRecord(c, n)
    <3>1. PICK new : new = [op |-> "spawn", at |-> "waiting", name |-> n,
                            row |-> [record[n] EXCEPT !.status = "active"]]
      OBVIOUS
    <3>2. new.at = "waiting" /\ new.op = "spawn" /\ new.row.status = "active"
      BY <2>2, <3>1 DEF Rows
    <3>3. call' = [call EXCEPT ![c] = new] /\ follower' = follower
      BY <2>3, <3>1 DEF SpawnForRecord, BeginCall
    <3> QED
      BY <1>1, <1>5, <3>2, <3>3
  <2>4. CASE KillSession(c, n)
    <3>1. PICK new : new = [op |-> "kill", at |-> "waiting", name |-> n,
                            row |-> [record[n] EXCEPT !.status = "inactive"]]
      OBVIOUS
    <3>2. new.at = "waiting" /\ new.op = "kill" /\ new.row.status = "inactive"
      BY <2>2, <3>1 DEF Rows
    <3>3. call' = [call EXCEPT ![c] = new] /\ follower' = follower
      BY <2>4, <3>1 DEF KillSession, BeginCall
    <3> QED
      BY <1>1, <1>5, <3>2, <3>3
  <2>5. ASSUME NEW env \in Envs, RegisterPending(n, env)
        PROVE  CallsWrite' /\ OneHolder' /\ TodoWhileUpdating'
    BY <1>4, <1>5, <2>5 DEF RegisterPending
  <2>6. ASSUME NEW env \in Envs, CreateSession(c, n, env) \/ GetOrTrackSession(c, n, env)
        PROVE  CallsWrite' /\ OneHolder' /\ TodoWhileUpdating'
    <3> DEFINE row == [status |-> "active", env |-> env]
    <3>1. row.status = "active"
      OBVIOUS
    <3>2. follower' = follower
      BY <2>6 DEF CreateSession, BeginCall, GetOrTrackSession
    <3>3. \/ call' = [call EXCEPT ![c] = [op |-> "create", at |-> "waiting", name |-> n, row |-> row]]
          \/ call' = [call EXCEPT ![c] = [op |-> "track", at |-> "tracking", name |-> n, row |-> row]]
      BY <2>6 DEF CreateSession, BeginCall, GetOrTrackSession
    <3> HIDE DEF row
    <3> QED
      BY <1>5, <2>1, <3>1, <3>2, <3>3
  <2> QED
    BY <2>3, <2>4, <2>5, <2>6
<1>7. ASSUME NEW c \in Callers, Drive(c) \/ Return(c)
      PROVE  CallsWrite' /\ OneHolder' /\ TodoWhileUpdating'
  <2>1. CASE OpenTerminal(c)
    BY <1>2, <1>5, <2>1 DEF OpenTerminal
  <2>2. CASE KillTerminal(c)
    BY <1>2, <1>5, <2>2 DEF KillTerminal
  <2>3. CASE KillFails(c)
    BY <1>2, <1>5, <2>3 DEF KillFails
  <2>4. CASE OpenFails(c) \/ WriteRow(c) \/ Track(c)
    BY <1>3, <1>5, <2>4 DEF OpenFails, WriteRow, Track, Update, Add
  <2> QED
    BY <1>7, <2>1, <2>2, <2>3, <2>4 DEF Drive, Return
<1>8. CASE Follow \/ HandleEvent \/ Reconnect
  <2>1. call' = call
    BY <1>8 DEF Follow, HandleEvent, Reconnect, ListTerminals, ListFails, ListRecords, UpdateRecord,
       ResyncDone, Published, HandleSessionCreated, HandleSessionClosed, Update, Subscribe
  <2>2. TodoWhileUpdating'
    <3>1. CASE follower' = follower \/ follower' = Idle
      BY <3>1 DEF TodoWhileUpdating, Idle
    <3>2. CASE ListTerminals
      BY <3>2 DEF TodoWhileUpdating, ListTerminals, Idle
    <3>3. CASE ListRecords \/ UpdateRecord
      <4>1. follower'.at = "updating"
        BY <3>3 DEF ListRecords, UpdateRecord, Idle, MuxTypeOK, FollowerType, Update
      <4> QED
        BY <4>1 DEF TodoWhileUpdating
    <3>4. CASE HandleSessionCreated \/ HandleSessionClosed
      <4>1. \A event : Publishing(event).todo = {} /\ Idle.todo = {}
        BY DEF Publishing, Idle
      <4>2. follower' = Idle \/ follower' = Publishing(Head(stream))
        BY <3>4 DEF HandleSessionCreated, HandleSessionClosed
      <4> QED
        BY <4>1, <4>2 DEF TodoWhileUpdating
    <3> QED
      BY <1>8, <3>1, <3>2, <3>3, <3>4 DEF Follow, HandleEvent, Reconnect, ListFails, ResyncDone, Published, Subscribe
  <2> QED
    BY <1>4, <2>1, <2>2
<1>9. CASE Terminals
  BY <1>4, <1>5, <1>9 DEF Terminals, UserOpens, UserCloses, ConnectionLost, EventsDropped
<1>10. CASE MuxRestart
  BY <1>10 DEF MuxRestart, CallsWrite, OneHolder, Holds, TodoWhileUpdating, NoCall, Idle
<1>11. CASE UNCHANGED muxVars
  BY <1>4, <1>5, <1>11 DEF muxVars
<1> QED
  BY <1>6, <1>7, <1>8, <1>9, <1>10, <1>11 DEF MuxNext, Environment, System
-----------------------------------------------------------------------------
(***************************************************************************)
(* The stream.  Three things happen to it: an event about one terminal is  *)
(* added as the terminal opens or closes, its first event is taken, or it  *)
(* ends with a resync or the connection.                                   *)
(***************************************************************************)
LEMMA EmitKeepsStreamTrue ==
  ASSUME MuxTypeOK, StreamTrue, NEW n \in Names, NEW type \in {"created", "closed"}, NEW own \in BOOLEAN,
         stream' = Emit(type, n, own), connected' = connected,
         terminals' = IF type = "created" THEN terminals \cup {n} ELSE terminals \ {n}
  PROVE  /\ StreamTrue'
         /\ connected => ~Silent(n)'
         /\ \A m \in Names : connected /\ Silent(m)' => m # n /\ Silent(m)
<1> SUFFICES ASSUME connected
             PROVE  /\ StreamTrue' /\ ~Silent(n)'
                    /\ \A m \in Names : Silent(m)' => m # n /\ Silent(m)
  BY DEF StreamTrue
<1> DEFINE event == [type |-> type, name |-> n, own |-> own]
<1>1. event \in Events /\ stream \in Seq(Events) /\ Len(stream) \in Nat
  BY DEF Events, MuxTypeOK
<1>2. stream' = Append(stream, event)
  BY DEF Emit
<1>3. /\ Len(stream') = Len(stream) + 1
      /\ \A i \in 1 .. Len(stream) : stream'[i] = stream[i]
      /\ stream'[Len(stream) + 1] = event
  BY <1>1, <1>2, AppendFacts
<1>4. ~Silent(n)'
  <2>1. Len(stream) + 1 \in 1 .. Len(stream')
    BY <1>1, <1>3
  <2> QED
    BY <1>3, <2>1 DEF Silent
<1>5. ASSUME NEW m \in Names, Silent(m)'
      PROVE  m # n /\ Silent(m)
  BY <1>1, <1>3, <1>4, <1>5 DEF Silent
<1>6. ASSUME NEW i \in 1 .. Len(stream'), stream'[i] # Resync, Latest(i)'
      PROVE  stream'[i].type = "created" <=> stream'[i].name \in terminals'
  <2>1. CASE i = Len(stream) + 1
    BY <1>3, <2>1
  <2>2. CASE i # Len(stream) + 1
    <3>1. i \in 1 .. Len(stream) /\ stream'[i] = stream[i]
      BY <1>1, <1>3, <2>2
    <3>2. \A j \in i + 1 .. Len(stream) : j \in i + 1 .. Len(stream') /\ stream'[j] = stream[j]
      BY <1>1, <1>3, <3>1
    <3>3. Latest(i)
      BY <1>6, <3>1, <3>2 DEF Latest
    <3>4. stream[i].type = "created" <=> stream[i].name \in terminals
      BY <1>6, <3>1, <3>3 DEF StreamTrue
    <3>5. Len(stream) + 1 \in i + 1 .. Len(stream')
      BY <1>1, <1>3, <3>1
    <3>6. n # stream[i].name
      BY <1>3, <1>6, <3>1, <3>5 DEF Latest
    <3> QED
      BY <3>1, <3>4, <3>6
  <2> QED
    BY <2>1, <2>2
<1> QED
  BY <1>4, <1>5, <1>6 DEF StreamTrue

LEMMA TailKeepsStreamTrue ==
  ASSUME MuxTypeOK, StreamTrue, stream # <<>>, stream' = Tail(stream),
         UNCHANGED <<connected, terminals>>
  PROVE  /\ StreamTrue'
         /\ \A m \in Names : Silent(m)' /\ Head(stream).name \notin {m, None} => Silent(m)
         /\ \A m \in Names : connected /\ Head(stream) # Resync /\ Head(stream).name = m /\ Silent(m)' =>
              (Head(stream).type = "created" <=> m \in terminals)
<1>1. /\ stream' \in Seq(Events)
      /\ Len(stream) \in Nat /\ Len(stream) > 0
      /\ Len(stream') = Len(stream) - 1
      /\ \A i \in 1 .. Len(stream) - 1 : stream'[i] = stream[i + 1]
      /\ Head(stream) = stream[1]
  BY TailFacts DEF MuxTypeOK
<1>2. ASSUME NEW i \in 1 .. Len(stream'), stream'[i] # Resync, Latest(i)', connected
      PROVE  stream'[i].type = "created" <=> stream'[i].name \in terminals
  <2>1. i + 1 \in 1 .. Len(stream) /\ stream'[i] = stream[i + 1]
    BY <1>1
  <2>2. \A j \in (i + 1) + 1 .. Len(stream) : j - 1 \in i + 1 .. Len(stream') /\ stream'[j - 1] = stream[j]
    BY <1>1
  <2>3. Latest(i + 1)
    BY <1>2, <2>1, <2>2 DEF Latest
  <2> QED
    BY <1>2, <2>1, <2>3 DEF StreamTrue
<1>3. StreamTrue'
  BY <1>2 DEF StreamTrue
<1>4. \A j \in 2 .. Len(stream) : j - 1 \in 1 .. Len(stream') /\ stream'[j - 1] = stream[j]
  BY <1>1
<1>5. ASSUME NEW m \in Names, Silent(m)', Head(stream).name \notin {m, None}
      PROVE  Silent(m)
  <2> SUFFICES ASSUME NEW i \in 1 .. Len(stream)
               PROVE  stream[i].name \notin {m, None}
    BY DEF Silent
  <2>1. CASE i = 1
    BY <1>1, <1>5, <2>1
  <2>2. CASE i # 1
    <3>1. i \in 2 .. Len(stream)
      BY <1>1, <2>2
    <3> QED
      BY <1>4, <1>5, <3>1 DEF Silent
  <2> QED
    BY <2>1, <2>2
<1>6. ASSUME NEW m \in Names, connected, Head(stream) # Resync, Head(stream).name = m, Silent(m)'
      PROVE  Head(stream).type = "created" <=> m \in terminals
  <2>1. Latest(1)
    <3>1. \A j \in 1 + 1 .. Len(stream) : j - 1 \in 1 .. Len(stream') /\ stream'[j - 1] = stream[j]
      BY <1>1
    <3>2. stream[1].name = Head(stream).name
      BY <1>1
    <3>3. \A j \in 1 .. Len(stream') : stream'[j].name \notin {m, None}
      BY <1>6 DEF Silent
    <3> QED
      BY <1>6, <3>1, <3>2, <3>3 DEF Latest
  <2>2. 1 \in 1 .. Len(stream)
    BY <1>1
  <2> QED
    BY <1>1, <1>6, <2>1, <2>2 DEF StreamTrue
<1> QED
  BY <1>3, <1>5, <1>6

LEMMA ResyncKeepsStreamTrue ==
  ASSUME MuxTypeOK, NEW sent \in 0 .. Len(stream), stream' = Append(SubSeq(stream, 1, sent), Resync)
  PROVE  StreamTrue' /\ \A m \in Names : ~Silent(m)'
<1>1. SubSeq(stream, 1, sent) \in Seq(Events) /\ Len(SubSeq(stream, 1, sent)) = sent /\ sent \in Nat
  BY PrefixFacts DEF MuxTypeOK
<1>2. Len(stream') = sent + 1 /\ stream'[sent + 1] = Resync
  BY <1>1, AppendFacts DEF Events
<1>3. sent + 1 \in 1 .. Len(stream')
  BY <1>1, <1>2
<1>4. \A i \in 1 .. Len(stream') : i # sent + 1 => sent + 1 \in i + 1 .. Len(stream')
  BY <1>1, <1>2
<1>5. \A i \in 1 .. Len(stream') : Latest(i)' => i = sent + 1
  BY <1>2, <1>4 DEF Latest, Resync
<1> QED
  BY <1>2, <1>3, <1>5 DEF StreamTrue, Silent, Resync
-----------------------------------------------------------------------------
(***************************************************************************)
(* Every step leaves the stream true and every name accounted for.         *)
(***************************************************************************)
Kept == StreamTrue /\ \A n \in Names : Accounted(n)

\* A step leaves n accounted for if it lets nobody hold n who did not, and
\* leaves the record as it was or right.
LEMMA Undisturbed ==
  ASSUME NEW n \in Names, Accounted(n),
         connected' => connected, n \notin unsure' => n \notin unsure, Silent(n)' => Silent(n),
         n \in terminals' <=> n \in terminals,
         follower' = follower,
         \A c \in Callers : Holds(c, n)' => Holds(c, n) /\ call'[c].row = call[c].row,
         \/ record'[n] = record[n] /\ (Locked(n) => Locked(n)')
         \/ n \notin unsure' /\ HolderAgrees(n) => Agrees(record'[n].status, n)
  PROVE  Accounted(n)'
BY DEF Accounted, HolderAgrees, ListingAgrees, TodoAgrees, RecordAgrees, Agrees

LEMMA KeptByDisconnected ==
  ASSUME ~connected'
  PROVE  Kept'
BY DEF Kept, StreamTrue, Accounted

LEMMA KeptByUsers ==
  ASSUME IInv, Terminals \/ MuxRestart
  PROVE  Kept'
<1>1. ASSUME NEW m \in Names, UserOpens(m) \/ UserCloses(m)
      PROVE  Kept'
  <2>1. PICK type \in {"created", "closed"} :
          /\ stream' = Emit(type, m, FALSE)
          /\ terminals' = IF type = "created" THEN terminals \cup {m} ELSE terminals \ {m}
          /\ UNCHANGED <<connected, record, call, follower, unsure>>
    BY <1>1 DEF UserOpens, UserCloses
  <2>2. /\ StreamTrue'
        /\ \A n \in Names : connected /\ Silent(n)' => n # m /\ Silent(n)
    BY <2>1, EmitKeepsStreamTrue DEF IInv
  <2>3. ASSUME NEW n \in Names
        PROVE  Accounted(n)'
    <3>1. CASE connected /\ Silent(n)'
      <4>1. n # m /\ Silent(n)
        BY <2>2, <3>1
      <4>2. \A c \in Callers : Holds(c, n)' = Holds(c, n)
        BY <2>1 DEF Holds
      <4>3. Locked(n) => Locked(n)'
        BY <4>2 DEF Locked
      <4> QED
        BY <2>1, <4>1, <4>2, <4>3, Undisturbed DEF IInv
    <3>2. CASE ~(connected /\ Silent(n)')
      BY <2>1, <3>2 DEF Accounted
    <3> QED
      BY <3>1, <3>2
  <2> QED
    BY <2>2, <2>3 DEF Kept
<1>2. ASSUME NEW sent \in 0 .. Len(stream), EventsDropped(sent)
      PROVE  Kept'
  <2>1. StreamTrue' /\ \A m \in Names : ~Silent(m)'
    BY <1>2, ResyncKeepsStreamTrue DEF EventsDropped, IInv
  <2> QED
    BY <2>1 DEF Kept, Accounted
<1>3. ASSUME NEW sent \in 0 .. Len(stream), ConnectionLost(sent)
      PROVE  Kept'
  BY <1>3, KeptByDisconnected DEF ConnectionLost
<1>4. CASE MuxRestart
  BY <1>4, KeptByDisconnected DEF MuxRestart
<1> QED
  BY <1>1, <1>2, <1>3, <1>4 DEF Terminals

LEMMA KeptByRequests ==
  ASSUME IInv, Requests
  PROVE  Kept'
<1> PICK c \in Callers, m \in Names :
      \/ SpawnForRecord(c, m) \/ KillSession(c, m)
      \/ \E env \in Envs : RegisterPending(m, env) \/ CreateSession(c, m, env) \/ GetOrTrackSession(c, m, env)
  BY DEF Requests
<1>1. UNCHANGED <<terminals, connected, stream, follower, unsure>>
  BY DEF SpawnForRecord, KillSession, RegisterPending, CreateSession, GetOrTrackSession, BeginCall
<1>2. StreamTrue'
  BY <1>1 DEF IInv, StreamTrue, Latest
<1>3. \A d \in Callers : call'[d] = call[d] \/ (call[d] = NoCall /\ call'[d].at # "writing")
  <2>1. CASE call' = call
    BY <2>1
  <2>2. ASSUME NEW new, call[c] = NoCall, call' = [call EXCEPT ![c] = new], new.at # "writing"
        PROVE  \A d \in Callers : call'[d] = call[d] \/ (call[d] = NoCall /\ call'[d].at # "writing")
    BY <2>2 DEF IInv, MuxTypeOK
  <2>3. PICK row : row = IF SpawnForRecord(c, m) THEN [record[m] EXCEPT !.status = "active"]
                         ELSE [record[m] EXCEPT !.status = "inactive"]
    OBVIOUS
  <2>4. CASE SpawnForRecord(c, m)
    <3>1. PICK new : new = [op |-> "spawn", at |-> "waiting", name |-> m, row |-> row]
      OBVIOUS
    <3>2. new.at # "writing" /\ call[c] = NoCall /\ call' = [call EXCEPT ![c] = new]
      BY <2>3, <2>4, <3>1 DEF SpawnForRecord, BeginCall
    <3> QED
      BY <2>2, <3>2
  <2>5. CASE KillSession(c, m) /\ ~SpawnForRecord(c, m)
    <3>1. PICK new : new = [op |-> "kill", at |-> "waiting", name |-> m, row |-> row]
      OBVIOUS
    <3>2. new.at # "writing" /\ call[c] = NoCall /\ call' = [call EXCEPT ![c] = new]
      BY <2>3, <2>5, <3>1 DEF KillSession, BeginCall
    <3> QED
      BY <2>2, <3>2
  <2>6. ASSUME NEW env \in Envs, CreateSession(c, m, env) \/ GetOrTrackSession(c, m, env)
        PROVE  \A d \in Callers : call'[d] = call[d] \/ (call[d] = NoCall /\ call'[d].at # "writing")
    <3>1. PICK new : /\ new \in {[op |-> "create", at |-> "waiting", name |-> m,
                                  row |-> [status |-> "active", env |-> env]],
                                 [op |-> "track", at |-> "tracking", name |-> m,
                                  row |-> [status |-> "active", env |-> env]]}
                     /\ call[c] = NoCall /\ call' = [call EXCEPT ![c] = new]
      BY <2>6 DEF CreateSession, GetOrTrackSession, BeginCall
    <3>2. new.at # "writing"
      BY <3>1
    <3> QED
      BY <2>2, <3>1, <3>2
  <2> QED
    BY <2>1, <2>4, <2>5, <2>6 DEF RegisterPending
<1>4. ASSUME NEW n \in Names
      PROVE  Accounted(n)'
  <2>1. record'[n] = record[n] \/ record'[n].status = "pending"
    <3>1. CASE record' = record
      BY <3>1
    <3>2. ASSUME NEW env \in Envs, RegisterPending(m, env)
          PROVE  record'[n] = record[n] \/ record'[n].status = "pending"
      <4>1. record' = [record EXCEPT ![m] = [status |-> "pending", env |-> env]] /\ m \in DOMAIN record
        BY <3>2 DEF RegisterPending, IInv, MuxTypeOK
      <4>2. record'[n] = IF n = m THEN [status |-> "pending", env |-> env] ELSE record[n]
        BY <4>1 DEF IInv, MuxTypeOK
      <4> QED
        BY <4>2
    <3> QED
      BY <3>1, <3>2 DEF SpawnForRecord, KillSession, CreateSession, GetOrTrackSession, BeginCall
  <2>2. \A d \in Callers : (Holds(d, n)' <=> Holds(d, n)) /\ (Holds(d, n) => call'[d].row = call[d].row)
    BY <1>3 DEF Holds, NoCall
  <2>3. Locked(n) => Locked(n)'
    BY <2>2 DEF Locked
  <2>4. Silent(n)' => Silent(n)
    BY <1>1 DEF Silent
  <2> QED
    BY <1>1, <2>1, <2>2, <2>3, <2>4, Undisturbed DEF IInv, Agrees
<1> QED
  BY <1>2, <1>4 DEF Kept

LEMMA KeptByDrive ==
  ASSUME IInv, NEW c \in Callers, Drive(c)
  PROVE  Kept'
<1>0. call[c].at = "waiting"
  BY DEF Drive, OpenTerminal, OpenFails, KillTerminal, KillFails, Enter
<1>2. call[c].name \in Names /\ [call EXCEPT ![c].at = "writing"] \in [Callers -> CallType]
  BY <1>0, CallShape DEF IInv
<1> PICK m \in Names : m = call[c].name
  BY <1>2
<1>1. /\ Enter(c) /\ call[c].at = "waiting" /\ ~Locked(m)
      /\ call[c].op \in {"spawn", "create", "kill"}
      /\ UNCHANGED <<connected, record, follower>>
      /\ call' = [call EXCEPT ![c].at = "writing"] \/ call' = [call EXCEPT ![c] = NoCall]
  BY DEF Drive, OpenTerminal, OpenFails, KillTerminal, KillFails, Enter
<1>3. /\ \A d \in Callers : d # c => call'[d] = call[d]
      /\ call'[c].at = "writing" => call'[c].name = m /\ call'[c].row = call[c].row
  <2>1. call[c] \in [op : {"spawn", "create", "kill", "track"}, at : {"waiting", "writing", "tracking"},
                     name : Names, row : Rows]
    BY <1>1, CallShape DEF IInv
  <2>2. CASE call' = [call EXCEPT ![c].at = "writing"]
    BY <2>1, <2>2 DEF IInv, MuxTypeOK
  <2>3. CASE call' = [call EXCEPT ![c] = NoCall]
    BY <2>3 DEF IInv, MuxTypeOK, NoCall
  <2> QED
    BY <1>1, <2>2, <2>3
<1>4. \A n \in Names : \A d \in Callers :
        /\ Holds(d, n) => d # c
        /\ Holds(d, n)' => Holds(d, n) \/ (d = c /\ n = m)
        /\ Holds(d, n) => Holds(d, n)'
        /\ d # c => call'[d].row = call[d].row
  BY <1>1, <1>3 DEF Holds
<1>5. \A n \in Names : Locked(n) => Locked(n)'
  BY <1>4 DEF Locked
<1>6. ASSUME NEW n \in Names, n # m,
             unsure' \in {unsure, unsure \cup ({m} \cap terminals)},
             n \in terminals' <=> n \in terminals, connected => (Silent(n)' => Silent(n))
      PROVE  Accounted(n)'
  <2>1. CASE connected
    BY <1>1, <1>4, <1>5, <1>6, <2>1, Undisturbed DEF IInv
  <2>2. CASE ~connected
    BY <1>1, <2>2 DEF Accounted
  <2> QED
    BY <2>1, <2>2
\* The terminal opens or closes, and the stream says so.
<1>7. ASSUME NEW type \in {"created", "closed"}, NEW own \in BOOLEAN,
             stream' = Emit(type, m, own), unsure' = unsure,
             terminals' = IF type = "created" THEN terminals \cup {m} ELSE terminals \ {m}
      PROVE  Kept'
  <2>1. /\ StreamTrue'
        /\ connected => ~Silent(m)'
        /\ \A n \in Names : connected /\ Silent(n)' => n # m /\ Silent(n)
    BY <1>1, <1>2, <1>7, EmitKeepsStreamTrue DEF IInv
  <2>2. ASSUME NEW n \in Names
        PROVE  Accounted(n)'
    <3>1. CASE n = m
      BY <1>1, <2>1, <3>1 DEF Accounted
    <3>2. CASE n # m
      BY <1>6, <1>7, <2>1, <3>2
    <3> QED
      BY <3>1, <3>2
  <2> QED
    BY <2>1, <2>2 DEF Kept
\* The terminal stays as it is.
<1>8. ASSUME UNCHANGED <<terminals, stream>>, unsure' \in {unsure, unsure \cup ({m} \cap terminals)},
             call'[c].at = "writing" => m \in unsure' \/ Agrees(call[c].row.status, m)
      PROVE  Kept'
  <2>1. StreamTrue'
    BY <1>1, <1>8 DEF IInv, StreamTrue, Latest
  <2>2. ASSUME NEW n \in Names
        PROVE  Silent(n)' = Silent(n)
    BY <1>8 DEF Silent
  <2>3. Accounted(m)'
    <3> SUFFICES ASSUME connected', m \notin unsure', Silent(m)'
                 PROVE  HolderAgrees(m)' /\ ListingAgrees(m)' /\ TodoAgrees(m)' /\ RecordAgrees(m)'
      BY <1>1, <1>8 DEF Accounted, HolderAgrees, ListingAgrees, TodoAgrees, RecordAgrees, Holds, Agrees, Locked, Silent
    <3>1. HolderAgrees(m) /\ ListingAgrees(m) /\ TodoAgrees(m) /\ RecordAgrees(m)
      BY <1>1, <1>2, <1>8, <2>2 DEF IInv, Accounted
    <3>2. HolderAgrees(m)'
      <4> SUFFICES ASSUME NEW d \in Callers, Holds(d, m)'
                   PROVE  Agrees(call[d].row.status, m)'
        BY DEF HolderAgrees
      <4>1. d = c /\ call'[c].at = "writing" /\ call'[c].row = call[c].row
        BY <1>1, <1>3, <1>4 DEF Locked, Holds
      <4> QED
        BY <1>8, <4>1 DEF Agrees
    <3>3. ListingAgrees(m)' /\ TodoAgrees(m)'
      BY <1>1, <1>8, <3>1 DEF ListingAgrees, TodoAgrees, Agrees
    <3>4. RecordAgrees(m)'
      BY <1>1, <1>5, <1>8, <3>1 DEF RecordAgrees, Agrees
    <3> QED
      BY <3>2, <3>3, <3>4
  <2>4. ASSUME NEW n \in Names
        PROVE  Accounted(n)'
    BY <1>6, <1>8, <2>2, <2>3, <2>4
  <2> QED
    BY <2>1, <2>4 DEF Kept
<1>9. call[c].op \in {"spawn", "create"} => call[c].row.status = "active"
  BY DEF IInv, CallsWrite
<1>10. call[c].op = "kill" => call[c].row.status = "inactive"
  BY DEF IInv, CallsWrite
<1>11. CASE OpenTerminal(c)
  <2>1. CASE m \in terminals
    BY <1>8, <1>9, <1>11, <2>1 DEF OpenTerminal, Opened, Agrees
  <2>2. CASE m \notin terminals
    BY <1>7, <1>11, <2>2 DEF OpenTerminal, Opened
  <2> QED
    BY <2>1, <2>2
<1>12. CASE OpenFails(c)
  <2>1. call'[c].at # "writing"
    BY <1>12 DEF OpenFails, NoCall, IInv, MuxTypeOK
  <2>2. CASE UNCHANGED <<terminals, stream>> \/ m \in terminals
    BY <1>8, <1>12, <2>1, <2>2 DEF OpenFails, Opened
  <2>3. CASE m \notin terminals /\ terminals' = terminals \cup {m} /\ stream' = Opened(m)
    BY <1>7, <1>12, <2>3 DEF OpenFails, Opened
  <2> QED
    BY <1>12, <2>2, <2>3 DEF OpenFails
<1>13. CASE KillTerminal(c)
  <2>1. CASE m \in terminals
    BY <1>7, <1>13, <2>1 DEF KillTerminal, Killed
  <2>2. CASE m \notin terminals
    BY <1>8, <1>10, <1>13, <2>2 DEF KillTerminal, Killed, Agrees
  <2> QED
    BY <2>1, <2>2
<1>14. CASE KillFails(c)
  BY <1>8, <1>10, <1>14 DEF KillFails, Agrees
<1> QED
  BY <1>11, <1>12, <1>13, <1>14 DEF Drive

LEMMA KeptByReturn ==
  ASSUME IInv, NEW c \in Callers, Return(c)
  PROVE  Kept'
<1>1. call[c].at \in {"writing", "tracking"}
  BY DEF Return, WriteRow, Track, Update, Add
<1>2. call[c].name \in Names /\ call[c].row \in Rows
  BY <1>1, CallShape DEF IInv
<1> PICK m \in Names : m = call[c].name
  BY <1>2
<1>3. /\ UNCHANGED <<terminals, connected, stream, follower>>
      /\ call' = [call EXCEPT ![c] = NoCall]
      /\ record' = record \/ record' = [record EXCEPT ![m] = call[c].row]
      /\ unsure' = unsure \/ unsure' = unsure \cup ({m} \ terminals)
  BY DEF Return, WriteRow, Track, Update, Add
<1>4. StreamTrue'
  BY <1>3 DEF IInv, StreamTrue, Latest
<1>5. \A d \in Callers : call'[d] = IF d = c THEN NoCall ELSE call[d]
  BY <1>3 DEF IInv, MuxTypeOK
<1>6. \A n \in Names : \A d \in Callers : Holds(d, n)' <=> Holds(d, n) /\ d # c
  BY <1>5 DEF Holds, NoCall
<1>7. ASSUME NEW n \in Names
      PROVE  Accounted(n)'
  <2>1. Silent(n)' => Silent(n)
    BY <1>3 DEF Silent
  <2>2. \/ record'[n] = record[n] /\ (Locked(n) => Locked(n)')
        \/ n \notin unsure' /\ HolderAgrees(n) => Agrees(record'[n].status, n)
    <3>1. CASE n # m
      <4>1. record'[n] = record[n]
        BY <1>3, <3>1 DEF IInv, MuxTypeOK
      <4>2. Locked(n) => Locked(n)'
        BY <1>6, <3>1 DEF Locked, Holds
      <4> QED
        BY <4>1, <4>2
    <3>2. CASE n = m /\ WriteRow(c)
      <4>1. record'[n] = call[c].row
        BY <3>2 DEF WriteRow, IInv, MuxTypeOK, Update
      <4>2. Holds(c, n)
        BY <3>2 DEF Holds, WriteRow, Update
      <4> QED
        BY <4>1, <4>2 DEF HolderAgrees
    <3>3. CASE n = m /\ Track(c) /\ record[n] = NoRecord
      <4>1. record'[n] = call[c].row
        BY <3>3 DEF Track, IInv, MuxTypeOK, Add
      <4>2. n \notin unsure' => n \in terminals
        BY <3>3 DEF Track, Add
      <4>3. call[c].row.status = "active"
        BY <3>3 DEF Track, IInv, CallsWrite, Add
      <4> QED
        BY <4>1, <4>2, <4>3 DEF Agrees
    <3>4. CASE n = m /\ Track(c) /\ record[n] # NoRecord
      <4>1. record'[n] = record[n]
        BY <3>4 DEF Track, Add
      <4>2. Locked(n) => Locked(n)'
        BY <1>6, <3>4 DEF Locked, Holds, Track, Add
      <4> QED
        BY <4>1, <4>2
    <3> QED
      BY <3>1, <3>2, <3>3, <3>4 DEF Return
  <2>3. n \notin unsure' => n \notin unsure
    BY <1>3
  <2>4. Accounted(n)
    BY DEF IInv
  <2> QED
    BY <1>3, <1>5, <1>6, <2>1, <2>2, <2>3, <2>4, Undisturbed
<1> QED
  BY <1>4, <1>7 DEF Kept

LEMMA KeptByResync ==
  ASSUME IInv, Follow
  PROVE  Kept'
<1>1. UNCHANGED <<terminals, connected, call>>
  BY DEF Follow, ListTerminals, ListFails, ListRecords, UpdateRecord, ResyncDone, Published, Update
<1>2. \A n \in Names : (HolderAgrees(n)' <=> HolderAgrees(n)) /\ (Locked(n)' <=> Locked(n))
  BY <1>1 DEF HolderAgrees, Locked, Holds, Agrees
<1>3. CASE ListTerminals \/ ListFails
  <2>1. StreamTrue'
    BY <1>3, TailKeepsStreamTrue DEF ListTerminals, ListFails, NextEvent, IInv
  <2>2. CASE ListFails
    BY <2>1, <2>2 DEF Kept, Accounted, ListFails
  <2>3. ASSUME ListTerminals, NEW n \in Names
        PROVE  Accounted(n)'
    <3>1. follower'.at = "listed" /\ follower'.names = terminals /\ follower'.todo = {}
      BY <2>3 DEF ListTerminals, Idle
    <3>2. n \notin unsure' => HolderAgrees(n)
      BY <2>3 DEF ListTerminals, HolderAgrees
    <3> QED
      BY <1>1, <1>2, <3>1, <3>2 DEF Accounted, ListingAgrees, TodoAgrees, RecordAgrees
  <2> QED
    BY <1>3, <2>1, <2>2, <2>3 DEF Kept
<1>4. CASE ListRecords \/ UpdateRecord \/ ResyncDone \/ Published
  <2>1. UNCHANGED <<stream, unsure>>
    BY <1>4 DEF ListRecords, UpdateRecord, ResyncDone, Published, Update
  <2>2. StreamTrue'
    BY <1>1, <2>1 DEF IInv, StreamTrue, Latest
  <2>3. ASSUME NEW n \in Names, connected, n \notin unsure, Silent(n),
               HolderAgrees(n), ListingAgrees(n), TodoAgrees(n), RecordAgrees(n)
        PROVE  ListingAgrees(n)' /\ TodoAgrees(n)' /\ RecordAgrees(n)'
    <3>1. CASE ListRecords
      <4>1. follower'.at = "updating" /\ follower'.todo = Stale /\ record' = record /\ follower.at = "listed"
        BY <3>1 DEF ListRecords, Idle
      <4>2. Agrees(Found(n), n)
        BY <2>3, <4>1 DEF Found, Agrees, ListingAgrees
      <4>3. record[n] \in Rows
        BY DEF IInv, MuxTypeOK
      <4>4. ASSUME NEW entry \in Stale, entry.name = n
            PROVE  entry.row.status = Found(n)
        <5>1. PICK m \in Names : entry = [name |-> m, row |-> [record[m] EXCEPT !.status = Found(m)]]
          BY <4>4 DEF Stale
        <5>2. m = n
          BY <4>4, <5>1
        <5> QED
          BY <4>3, <5>1, <5>2 DEF Rows
      <4>5. TodoAgrees(n)'
        BY <1>1, <4>1, <4>2, <4>4 DEF TodoAgrees, Agrees
      <4>6. CASE record[n].status \in {"active", "inactive"} \ {Found(n)}
        <5>1. [name |-> n, row |-> [record[n] EXCEPT !.status = Found(n)]] \in Stale
          BY <4>6 DEF Stale
        <5>2. \E entry \in Stale : entry.name = n
          BY <5>1
        <5> QED
          BY <4>1, <4>5, <5>2 DEF ListingAgrees, RecordAgrees
      <4>7. CASE record[n].status \notin {"active", "inactive"} \ {Found(n)}
        BY <1>1, <4>1, <4>2, <4>5, <4>7 DEF ListingAgrees, RecordAgrees, Agrees
      <4> QED
        BY <4>6, <4>7
    <3>2. CASE UpdateRecord
      <4>1. PICK entry \in follower.todo :
              /\ record' = [record EXCEPT ![entry.name] = entry.row]
              /\ follower' = [follower EXCEPT !.todo = @ \ {entry}]
        BY <3>2 DEF UpdateRecord, Update
      <4>2. /\ entry.name \in Names
            /\ follower'.at = "updating" /\ follower'.todo = follower.todo \ {entry}
        BY <3>2, <4>1 DEF UpdateRecord, IInv, MuxTypeOK, FollowerType, Update
      <4>3. ListingAgrees(n)' /\ TodoAgrees(n)'
        BY <1>1, <2>3, <4>2 DEF ListingAgrees, TodoAgrees, Agrees
      <4>4. CASE entry.name = n
        <5>1. record'[n] = entry.row
          BY <4>1, <4>4 DEF IInv, MuxTypeOK
        <5> QED
          BY <1>1, <2>3, <4>3, <4>4, <5>1 DEF TodoAgrees, RecordAgrees, Agrees
      <4>5. CASE entry.name # n
        <5>1. record'[n] = record[n]
          BY <4>1, <4>5 DEF IInv, MuxTypeOK
        <5>2. follower.at # "listed"
          BY <3>2 DEF UpdateRecord, Update
        <5> QED
          BY <1>1, <1>2, <2>3, <4>2, <4>3, <4>5, <5>1, <5>2 DEF RecordAgrees, Agrees
      <4> QED
        BY <4>4, <4>5
    <3>3. CASE ResyncDone \/ Published
      <4>1. follower' = Idle /\ record' = record /\ follower.todo = {} /\ follower.at # "listed"
        BY <3>3 DEF ResyncDone, Published, IInv, TodoWhileUpdating
      <4>2. Idle.todo = {} /\ Idle.at = "idle"
        BY DEF Idle
      <4> QED
        BY <1>1, <1>2, <2>3, <4>1, <4>2 DEF ListingAgrees, TodoAgrees, RecordAgrees, Agrees
    <3> QED
      BY <1>4, <3>1, <3>2, <3>3
  <2>4. ASSUME NEW n \in Names
        PROVE  Accounted(n)'
    <3>1. Silent(n)' <=> Silent(n)
      BY <2>1 DEF Silent
    <3>2. Accounted(n)
      BY DEF IInv
    <3> QED
      BY <1>1, <1>2, <2>1, <2>3, <3>1, <3>2 DEF Accounted
  <2> QED
    BY <2>2, <2>4 DEF Kept
<1> QED
  BY <1>3, <1>4 DEF Follow

LEMMA KeptByReconnect ==
  ASSUME IInv, Reconnect
  PROVE  Kept'
<1>1. stream' = <<Resync>>
  BY DEF Reconnect, Subscribe
<1>2. Len(stream') = 1 /\ stream'[1] = Resync
  BY <1>1
<1> QED
  BY <1>2 DEF Kept, StreamTrue, Accounted, Silent, Resync

LEMMA KeptByEvents ==
  ASSUME IInv, HandleEvent
  PROVE  Kept'
<1>1. /\ follower = Idle /\ stream # <<>> /\ stream' = Tail(stream)
      /\ UNCHANGED <<terminals, connected, call, unsure>>
      /\ Head(stream).type \in {"created", "closed"}
  BY DEF HandleEvent, HandleSessionCreated, HandleSessionClosed, NextEvent
<1>2. Head(stream) \in Events
  BY <1>1, TailFacts DEF IInv, MuxTypeOK
<1>3. Head(stream) # Resync
  BY <1>1 DEF Resync
<1>4. PICK m \in Names : m = Head(stream).name
  BY <1>2, <1>3 DEF Events
<1>5. m # None
  BY NoneIsNoName
<1>6. PICK s \in {"active", "inactive"} :
        /\ s = "active" <=> Head(stream).type = "created"
        /\ SetStatus(m, s)
  BY <1>4 DEF HandleEvent, HandleSessionCreated, HandleSessionClosed, NextEvent
<1>7. /\ StreamTrue'
      /\ \A n \in Names : Silent(n)' /\ n # m => Silent(n)
      /\ connected /\ Silent(m)' => (Head(stream).type = "created" <=> m \in terminals)
  BY <1>1, <1>3, <1>4, <1>5, TailKeepsStreamTrue DEF IInv
<1>8. follower'.at \in {"idle", "publishing"} /\ follower'.todo = {}
  <2>1. \A event : /\ Publishing(event).at = "publishing" /\ Publishing(event).todo = {}
                   /\ Idle.at = "idle" /\ Idle.todo = {}
    BY DEF Publishing, Idle
  <2>2. follower' = Idle \/ follower' = Publishing(Head(stream))
    BY DEF HandleEvent, HandleSessionCreated, HandleSessionClosed
  <2> QED
    BY <2>1, <2>2
<1>9. follower.at = "idle" /\ follower.todo = {}
  BY <1>1 DEF Idle
<1>10. \A n \in Names : (HolderAgrees(n)' <=> HolderAgrees(n)) /\ (Locked(n)' <=> Locked(n))
  BY <1>1 DEF HolderAgrees, Locked, Holds, Agrees
<1>11. \A n \in Names : ListingAgrees(n)' /\ TodoAgrees(n)'
  BY <1>8 DEF ListingAgrees, TodoAgrees
<1>12. ASSUME NEW n \in Names, n # m
       PROVE  Accounted(n)'
  <2>1. record'[n] = record[n]
    BY <1>6, <1>12 DEF SetStatus, IInv, MuxTypeOK
  <2>2. Accounted(n)
    BY DEF IInv
  <2>3. HolderAgrees(n) /\ RecordAgrees(n) => HolderAgrees(n)' /\ RecordAgrees(n)'
    BY <1>1, <1>9, <1>10, <2>1 DEF RecordAgrees, Agrees
  <2> QED
    BY <1>1, <1>7, <1>11, <1>12, <2>2, <2>3 DEF Accounted
<1>13. Accounted(m)'
  <2> SUFFICES ASSUME connected, Silent(m)'
               PROVE  HolderAgrees(m)' /\ RecordAgrees(m)'
    BY <1>1, <1>11 DEF Accounted
  <2>1. s = "active" <=> m \in terminals
    BY <1>6, <1>7
  <2>2. record'[m].status \in {"none", s}
    BY <1>6 DEF SetStatus, IInv, MuxTypeOK, Rows, NoRecord
  <2>3. RecordAgrees(m)'
    BY <1>1, <2>1, <2>2 DEF RecordAgrees, Agrees
  <2>4. HolderAgrees(m)
    BY <1>6 DEF SetStatus, HolderAgrees, Locked
  <2> QED
    BY <1>10, <2>3, <2>4
<1> QED
  BY <1>7, <1>12, <1>13 DEF Kept

LEMMA InvariantStep ==
  ASSUME IInv, [MuxNext]_muxVars
  PROVE  IInv'
<1>1. MuxTypeOK'
  BY TypeStep DEF IInv
<1>2. CallsWrite' /\ OneHolder' /\ TodoWhileUpdating'
  BY LockStep DEF IInv
<1>3. Kept'
  <2>1. CASE UNCHANGED muxVars
    BY <2>1 DEF muxVars, IInv, Kept, StreamTrue, Latest, Accounted, Silent, HolderAgrees, ListingAgrees,
       TodoAgrees, RecordAgrees, Holds, Locked, Agrees
  <2> QED
    BY <2>1, KeptByUsers, KeptByRequests, KeptByDrive, KeptByReturn, KeptByResync, KeptByReconnect,
       KeptByEvents DEF MuxNext, Environment, System
<1> QED
  BY <1>1, <1>2, <1>3 DEF IInv, Kept

\* The records tell which terminals exist, once everything has settled and for
\* every name that unsure does not except: no interleaving of calls, user
\* actions, lost events, resyncs and restarts leaves a wrong record behind.
THEOREM RecordsCorrect == MuxSpec => []RecordsAgree
<1>1. MuxInit => IInv
  <2> SUFFICES ASSUME MuxInit PROVE IInv
    OBVIOUS
  <2>1. MuxTypeOK
    BY InitTypes
  <2>2. CallsWrite /\ OneHolder /\ TodoWhileUpdating
    BY DEF MuxInit, CallsWrite, OneHolder, TodoWhileUpdating, Holds, NoCall, Idle
  <2>3. ~connected
    BY DEF MuxInit
  <2> QED
    BY <2>1, <2>2, <2>3 DEF IInv, StreamTrue, Accounted
<1>2. IInv /\ [MuxNext]_muxVars => IInv'
  BY InvariantStep
<1>3. IInv => RecordsAgree
  <2> SUFFICES ASSUME IInv, Settled, NEW n \in Names, n \notin unsure
               PROVE  Agrees(record[n].status, n)
    BY DEF RecordsAgree
  <2>1. connected /\ Silent(n)
    BY DEF Settled, Silent
  <2>2. ~Locked(n) /\ follower.at # "listed" /\ follower.todo = {}
    BY DEF Settled, Locked, Holds, NoCall, IInv, TodoWhileUpdating
  <2> QED
    BY <2>1, <2>2 DEF IInv, Accounted, RecordAgrees
<1> QED
  BY <1>1, <1>2, <1>3, PTL DEF MuxSpec
=============================================================================
