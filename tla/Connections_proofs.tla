------------------------- MODULE Connections_proofs -------------------------
(***************************************************************************)
(* Proofs about AttachSwitch for any terminals, sessions and requests,     *)
(* about WebextDriver for any callers, websockets and windows, and about   *)
(* ScriptDriver for any windows and tabs of Chrome.                        *)
(*                                                                         *)
(* That a channel never blocks needs only that a request asks with an      *)
(* empty channel.  The other two properties of the terminals need what a   *)
(* request belongs to: a terminal has at most one, has none outside a      *)
(* round, and none once it has received an activation (PollsOfRound).  Then *)
(* what is in a channel is news for its terminal (News), and the activation *)
(* sent to it last is on its way: in the channel, received, or shown       *)
(* (Underway).                                                             *)
(*                                                                         *)
(* That the calls of the driver keep the promise of RemoteCalls rests on   *)
(* where a request may be: with its caller only, on the wire of one        *)
(* connection, or performed (CallInv).  That a change of tabs reaches the  *)
(* service rests on what a mark stands for, and on the generation the      *)
(* service knows while an event is handed over (EventInv).  That no signal *)
(* is lost is inductive with the types of the connections.                 *)
(*                                                                         *)
(* That Chrome's quitting is not told as the closing of its windows, and   *)
(* that a state of Chrome that stays is told, rest on what the driver      *)
(* knows while it is subscribed: the windows it remembers are open or were *)
(* closed by the user, the ones about to be told as closed were closed by  *)
(* him (GoneInv), and when two polls found the same the service has been   *)
(* told what is there (QuietInv).                                          *)
(***************************************************************************)
EXTENDS AttachSwitch, WebextDriver, ScriptDriver, SequenceTheorems, TLAPS

PollType == [by : Terminals \cup {Nothing}, at : {"free", "asked", "waiting", "answered"}, box : Target]
LoopType == [at : {"out", "started", "running", "ended", "leaving"}, target : Target, switched : Target]

LEMMA NoTargetType == NoTarget \in Target /\ NoPoll \in PollType /\ Out \in LoopType
BY DEF NoTarget, Target, NoPoll, Out, PollType, LoopType

LEMMA TypesOfAttach ==
  AttachTypeOK => /\ poll \in [PollIds -> PollType] /\ loop \in [Terminals -> LoopType]
                  /\ published \in Nat /\ since \in [Terminals -> Nat] /\ due \in [Terminals -> Target]
BY DEF AttachTypeOK, PollType, LoopType

LEMMA AttachInitTypes == AttachInit => AttachTypeOK
BY NoTargetType DEF AttachInit, AttachTypeOK, PollType, LoopType

LEMMA AttachTypeStep ==
  ASSUME AttachTypeOK, [AttachNext]_attachVars
  PROVE  AttachTypeOK'
<1> USE TypesOfAttach, NoTargetType
<1> USE DEF AttachTypeOK
<1>1. ASSUME NEW s \in Sessions, ActivateSession(s) PROVE AttachTypeOK'
  BY <1>1 DEF ActivateSession
<1>2. ASSUME NEW t \in Terminals, ChildEnds(t) PROVE AttachTypeOK'
  BY <1>2 DEF ChildEnds, Place
<1>3. ASSUME NEW t \in Terminals, NEW s \in Sessions \cup {Nothing}, Attach(t, s) PROVE AttachTypeOK'
  BY <1>3 DEF Attach, Out, Target, NoTarget
<1>4. CASE DaemonRestarts
  BY <1>4 DEF DaemonRestarts, PollType
<1>5. ASSUME NEW s \in activating, RaiseFlag(s) PROVE AttachTypeOK'
  BY <1>5 DEF RaiseFlag
<1>6. ASSUME NEW s \in publishing, HandleSessionActivated(s) PROVE AttachTypeOK'
  <2>1. Published(s) \in Target
    BY DEF Published, Target
  <2>2. poll' \in [PollIds -> PollType] /\ due' \in [Terminals -> Target]
    BY <1>6, <2>1 DEF HandleSessionActivated, Sent, PollType
  <2> QED
    BY <1>6, <2>2 DEF HandleSessionActivated, PollType
<1>7. ASSUME NEW p \in PollIds, WaitForActivation(p) \/ WakeUp(p) PROVE AttachTypeOK'
  BY <1>7 DEF WaitForActivation, WakeUp
<1>8. ASSUME NEW p \in PollIds, GiveUp(p) PROVE AttachTypeOK'
  <2>1. poll' \in [PollIds -> PollType]
    BY <1>8 DEF GiveUp, PollType
  <2>2. due' \in [Terminals -> Target]
    BY <1>8 DEF GiveUp
  <2> QED
    BY <1>8, <2>1, <2>2 DEF GiveUp, PollType
<1>9. ASSUME NEW p \in PollIds, Abandoned(p) PROVE AttachTypeOK'
  BY <1>9 DEF Abandoned, PollType
<1>10. ASSUME NEW t \in Terminals, PostChanged(t) PROVE AttachTypeOK'
  <2>1. attached' \subseteq Sessions
    BY <1>10 DEF PostChanged, Target
  <2> QED
    BY <1>10, <2>1 DEF PostChanged, Place
<1>11. ASSUME NEW t \in Terminals, PostDetached(t) PROVE AttachTypeOK'
  BY <1>11 DEF PostDetached, Place
<1>12. ASSUME NEW t \in Terminals, Leave(t) PROVE AttachTypeOK'
  <2>1. poll' \in [PollIds -> PollType]
    BY <1>12 DEF Leave, PollType
  <2>2. loop' \in [Terminals -> LoopType]
    BY <1>12 DEF Leave, LoopType
  <2> QED
    BY <1>12, <2>1, <2>2 DEF Leave, PollType, LoopType
<1>13. ASSUME NEW t \in Terminals, NEW p \in PollIds, NextActivation(t, p) PROVE AttachTypeOK'
  BY <1>13 DEF NextActivation
<1>14. ASSUME NEW t \in Terminals, NEW p \in PollIds, ReceiveActivation(t, p) PROVE AttachTypeOK'
  BY <1>14 DEF ReceiveActivation, PollType
<1>15. CASE UNCHANGED attachVars
  BY <1>15 DEF attachVars
<1> QED
  BY <1>1, <1>2, <1>3, <1>4, <1>5, <1>6, <1>7, <1>8, <1>9, <1>10, <1>11, <1>12, <1>13, <1>14, <1>15
  DEF AttachNext, People, Service, Loop
-----------------------------------------------------------------------------
(***************************************************************************)
(* The channels of the waiters.                                            *)
(***************************************************************************)
AskedEmpty == \A p \in PollIds : poll[p].at = "asked" => poll[p].box = NoTarget

ChannelInv == AttachTypeOK /\ AskedEmpty /\ NeverBlocks

LEMMA ChannelStep ==
  ASSUME ChannelInv, [AttachNext]_attachVars
  PROVE  ChannelInv'
<1> USE TypesOfAttach DEF ChannelInv, AskedEmpty, NeverBlocks
<1>0. AttachTypeOK'
  BY AttachTypeStep
<1>1. waiters \subseteq PollIds
  BY DEF AttachTypeOK
<1>2. CASE UNCHANGED <<poll, waiters>>
  BY <1>0, <1>2
<1>3. CASE DaemonRestarts
  BY <1>0, <1>3 DEF DaemonRestarts, NoPoll
<1>4. ASSUME NEW s \in publishing, HandleSessionActivated(s) PROVE ChannelInv'
  BY <1>0, <1>1, <1>4 DEF HandleSessionActivated, PollType
<1>5. ASSUME NEW p \in PollIds, WaitForActivation(p) \/ WakeUp(p) \/ GiveUp(p) \/ Abandoned(p)
      PROVE  ChannelInv'
  BY <1>0, <1>1, <1>5 DEF WaitForActivation, WakeUp, GiveUp, Abandoned, NoPoll, PollType
<1>6. ASSUME NEW t \in Terminals, Leave(t) PROVE ChannelInv'
  BY <1>0, <1>1, <1>6 DEF Leave, PollType
<1>7. ASSUME NEW t \in Terminals, NEW p \in PollIds, NextActivation(t, p) \/ ReceiveActivation(t, p)
      PROVE  ChannelInv'
  BY <1>0, <1>1, <1>7 DEF NextActivation, ReceiveActivation, NoPoll, PollType
<1> QED
  BY <1>2, <1>3, <1>4, <1>5, <1>6, <1>7 DEF AttachNext, People, Service, Loop, attachVars, ActivateSession,
     ChildEnds, Attach, RaiseFlag, PostChanged, PostDetached

\* For any terminals, sessions and requests, the handler of an activation finds the channel of
\* every registered waiter empty, so it never blocks under the lock.
THEOREM ChannelsNeverBlock == AttachSpec => []NeverBlocks
<1>1. AttachInit => ChannelInv
  BY AttachInitTypes DEF AttachInit, ChannelInv, AskedEmpty, NeverBlocks, NoPoll
<1>2. ChannelInv /\ [AttachNext]_attachVars => ChannelInv'
  BY ChannelStep
<1>3. ChannelInv => NeverBlocks
  BY DEF ChannelInv
<1> QED
  BY <1>1, <1>2, <1>3, PTL DEF AttachSpec
-----------------------------------------------------------------------------
(***************************************************************************)
(* What a request belongs to.                                              *)
(***************************************************************************)
PollsOfRound ==
  \A t \in Terminals, p \in PollIds :
    poll[p].by = t => /\ loop[t].at \in {"running", "ended", "leaving"}
                      /\ loop[t].switched = NoTarget
                      /\ \A q \in PollIds : poll[q].by = t => q = p

OutsideIsEmpty ==
  \A t \in Terminals : loop[t].at \in {"out", "started"} => loop[t].switched = NoTarget

News ==
  \A t \in Terminals :
    /\ since[t] <= published
    /\ loop[t].switched # NoTarget => loop[t].switched.no > since[t]
    /\ \A p \in PollIds : poll[p].by = t /\ poll[p].box # NoTarget => poll[p].box.no > since[t]

\* Shown, with nothing in the channel; received; or in the channel.
Underway ==
  \A t \in Terminals :
    due[t] # NoTarget /\ loop[t].at # "out" =>
      \/ loop[t].switched = due[t]
      \/ loop[t].target = due[t] /\ loop[t].switched = NoTarget
         /\ \A p \in PollIds : poll[p].by = t => poll[p].box = NoTarget
      \/ loop[t].switched = NoTarget /\ \E p \in PollIds : poll[p].by = t /\ poll[p].box = due[t]

RoundInv == ChannelInv /\ PollsOfRound /\ OutsideIsEmpty /\ News /\ Underway

\* A step that moves no request and only the place of a loop.
LEMMA PlaceStep ==
  ASSUME RoundInv, NEW t \in Terminals, NEW at \in {"running", "ended", "leaving"},
         loop[t].at # "out", Place(t, at), UNCHANGED <<poll, published, due, since>>
  PROVE  PollsOfRound' /\ OutsideIsEmpty' /\ News' /\ Underway'
<1> USE TypesOfAttach DEF RoundInv, ChannelInv
<1>1. /\ \A u \in Terminals : loop'[u].switched = loop[u].switched /\ loop'[u].target = loop[u].target
      /\ \A u \in Terminals : loop'[u].at \in {loop[u].at, at}
      /\ \A u \in Terminals : u # t => loop'[u] = loop[u]
  BY DEF Place, LoopType
<1>2. PollsOfRound' /\ OutsideIsEmpty' /\ News'
  BY <1>1 DEF PollsOfRound, OutsideIsEmpty, News
<1> QED
  BY <1>1, <1>2 DEF Underway

\* A step that changes nothing of the loops, their requests and what is sent to them.
LEMMA SameStep ==
  ASSUME RoundInv, UNCHANGED <<poll, loop, published, due, since>>
  PROVE  PollsOfRound' /\ OutsideIsEmpty' /\ News' /\ Underway'
BY DEF RoundInv, PollsOfRound, OutsideIsEmpty, News, Underway

\* A request goes on, and what is in its channel stays there.
LEMMA PollStep ==
  ASSUME RoundInv, NEW p \in PollIds, WaitForActivation(p) \/ WakeUp(p) \/ Abandoned(p)
  PROVE  PollsOfRound' /\ OutsideIsEmpty' /\ News' /\ Underway'
<1> USE TypesOfAttach DEF RoundInv, ChannelInv
<1>1. /\ loop' = loop /\ published' = published /\ due' = due /\ since' = since
      /\ \A q \in PollIds, t \in Terminals : poll'[q].by = t <=> poll[q].by = t
      /\ \A q \in PollIds, t \in Terminals : poll[q].by = t => poll'[q].box = poll[q].box
  BY NothingIsNoSession DEF WaitForActivation, WakeUp, Abandoned, NoPoll, PollType
<1> QED
  BY <1>1 DEF PollsOfRound, OutsideIsEmpty, News, Underway

LEMMA GiveUpStep ==
  ASSUME RoundInv, NEW p \in PollIds, GiveUp(p)
  PROVE  PollsOfRound' /\ OutsideIsEmpty' /\ News' /\ Underway'
<1> USE TypesOfAttach DEF RoundInv, ChannelInv
<1>1. /\ loop' = loop /\ published' = published /\ since' = since
      /\ \A q \in PollIds : poll'[q].by = poll[q].by
      /\ \A q \in PollIds : poll'[q].box = IF q = p THEN NoTarget ELSE poll[q].box
      /\ \A t \in Terminals : due'[t] = IF t = poll[p].by /\ poll[p].box # NoTarget THEN NoTarget ELSE due[t]
  BY DEF GiveUp, PollType
<1>2. PollsOfRound' /\ OutsideIsEmpty' /\ News'
  BY <1>1 DEF PollsOfRound, OutsideIsEmpty, News
<1>3. ASSUME NEW t \in Terminals, due'[t] # NoTarget, loop[t].at # "out"
      PROVE  \/ loop[t].switched = due[t]
             \/ loop[t].target = due[t] /\ loop[t].switched = NoTarget
                /\ \A q \in PollIds : poll[q].by = t => poll'[q].box = NoTarget
             \/ loop[t].switched = NoTarget /\ \E q \in PollIds : poll[q].by = t /\ poll'[q].box = due[t]
  <2>1. due[t] = due'[t] /\ due[t] # NoTarget
    BY <1>1, <1>3
  <2> QED
    BY <1>1, <1>3, <2>1 DEF Underway
<1>4. Underway'
  BY <1>1, <1>3 DEF Underway
<1> QED
  BY <1>2, <1>4

\* An activation reaches the channels of the waiters, which were empty.
LEMMA PublishStep ==
  ASSUME RoundInv, NEW s \in publishing, HandleSessionActivated(s)
  PROVE  PollsOfRound' /\ OutsideIsEmpty' /\ News' /\ Underway'
<1> USE TypesOfAttach DEF RoundInv, ChannelInv
<1>0. waiters \subseteq PollIds /\ Published(s).no = published + 1 /\ published' = published + 1
  BY DEF AttachTypeOK, Published, HandleSessionActivated
<1>1. /\ loop' = loop /\ since' = since
      /\ \A q \in PollIds : poll'[q].by = poll[q].by
      /\ \A q \in PollIds : poll'[q].box = IF q \in waiters THEN Published(s) ELSE poll[q].box
      /\ \A t \in Terminals : due'[t] = IF \E q \in waiters : poll[q].by = t THEN Published(s) ELSE due[t]
  BY DEF HandleSessionActivated, Sent, PollType
<1>2. PollsOfRound' /\ OutsideIsEmpty'
  BY <1>1 DEF PollsOfRound, OutsideIsEmpty
<1>3. News'
  BY <1>0, <1>1 DEF News
<1>4. ASSUME NEW t \in Terminals, due'[t] # NoTarget, loop[t].at # "out"
      PROVE  \/ loop[t].switched = due'[t]
             \/ loop[t].target = due'[t] /\ loop[t].switched = NoTarget
                /\ \A q \in PollIds : poll[q].by = t => poll'[q].box = NoTarget
             \/ loop[t].switched = NoTarget /\ \E q \in PollIds : poll[q].by = t /\ poll'[q].box = due'[t]
  <2>1. CASE \E q \in waiters : poll[q].by = t
    BY <1>0, <1>1, <2>1 DEF PollsOfRound
  <2>2. CASE ~\E q \in waiters : poll[q].by = t
    BY <1>1, <1>4, <2>2 DEF Underway
  <2> QED
    BY <2>1, <2>2
<1>5. Underway'
  BY <1>1, <1>4 DEF Underway
<1> QED
  BY <1>2, <1>3, <1>5

LEMMA RestartStep ==
  ASSUME RoundInv, DaemonRestarts
  PROVE  PollsOfRound' /\ OutsideIsEmpty' /\ News' /\ Underway'
<1> USE TypesOfAttach DEF RoundInv, ChannelInv
<1>1. /\ loop' = loop /\ published' = published /\ since' = since
      /\ \A q \in PollIds : poll'[q].by = Nothing
      /\ \A t \in Terminals : due'[t] = IF \E q \in PollIds : poll[q].by = t THEN NoTarget ELSE due[t]
  BY DEF DaemonRestarts, NoPoll
<1>2. \A t \in Terminals : t # Nothing
  BY NothingIsNoSession
<1> QED
  BY <1>1, <1>2 DEF PollsOfRound, OutsideIsEmpty, News, Underway

LEMMA RoundStep ==
  ASSUME RoundInv, NEW t \in Terminals,
         (\E s \in Sessions \cup {Nothing} : Attach(t, s)) \/ Leave(t)
  PROVE  PollsOfRound' /\ OutsideIsEmpty' /\ News' /\ Underway'
<1> USE TypesOfAttach DEF RoundInv, ChannelInv
<1>0. \A u \in Terminals : u # Nothing
  BY NothingIsNoSession
<1>1. CASE \E s \in Sessions \cup {Nothing} : Attach(t, s)
  <2>1. PICK s \in Sessions \cup {Nothing} : Attach(t, s)
    BY <1>1
  <2>2. /\ poll' = poll /\ published' = published
        /\ \A u \in Terminals : u # t => loop'[u] = loop[u] /\ due'[u] = due[u] /\ since'[u] = since[u]
        /\ due'[t] = NoTarget /\ since'[t] = published /\ loop[t].at = "out"
        /\ loop'[t].switched = NoTarget
    <3> DEFINE shows == [Out EXCEPT !.at = "started", !.target.session = s]
    <3>1. loop' = [loop EXCEPT ![t] = shows] /\ loop[t] = Out
      BY <2>1, Zenon DEF Attach
    <3>2. shows.switched = NoTarget
      BY DEF Out
    <3> HIDE DEF shows
    <3>3. /\ poll' = poll /\ published' = published
          /\ due' = [due EXCEPT ![t] = NoTarget] /\ since' = [since EXCEPT ![t] = published]
      BY <2>1 DEF Attach
    <3>4. loop[t].at = "out"
      BY <3>1 DEF Out
    <3> QED
      BY <3>1, <3>2, <3>3, <3>4 DEF AttachTypeOK
  <2>3. \A p \in PollIds : poll[p].by # t
    BY <2>2 DEF PollsOfRound
  <2> QED
    BY <2>2, <2>3 DEF PollsOfRound, OutsideIsEmpty, News, Underway
<1>2. CASE Leave(t)
  <2>1. /\ published' = published /\ due' = due /\ since'[t] = published
        /\ \A u \in Terminals : u # t => loop'[u] = loop[u] /\ since'[u] = since[u]
    BY <1>2 DEF Leave
  <2>2. \A p \in PollIds : /\ poll'[p].box = poll[p].box
                           /\ poll'[p].by = IF poll[p].by = t THEN Nothing ELSE poll[p].by
    BY <1>2 DEF Leave, PollType
  <2>3. loop'[t].switched = NoTarget
    BY <1>2 DEF Leave, Out
  <2>4. loop[t].at = "leaving" /\ (loop[t].switched = NoTarget => loop'[t].at = "out")
    BY <1>2 DEF Leave, Out
  <2>5. loop[t].switched # NoTarget => loop'[t].target = loop[t].switched
    BY <1>2 DEF Leave
  <2>0. \A u \in Terminals, p \in PollIds : poll'[p].by = u <=> u # t /\ poll[p].by = u
    BY <1>0, <2>2
  <2>6. PollsOfRound' /\ OutsideIsEmpty'
    BY <2>0, <2>1, <2>3 DEF PollsOfRound, OutsideIsEmpty
  <2>7. News'
    BY <2>0, <2>1, <2>2, <2>3 DEF News
  <2>8. ASSUME NEW u \in Terminals, due[u] # NoTarget, loop'[u].at # "out"
        PROVE  \/ loop'[u].target = due[u] /\ loop'[u].switched = NoTarget
                  /\ \A p \in PollIds : poll'[p].by = u => poll'[p].box = NoTarget
               \/ loop'[u].switched = due[u]
               \/ loop'[u].switched = NoTarget /\ \E p \in PollIds : poll'[p].by = u /\ poll'[p].box = due[u]
    <3>1. CASE u # t
      BY <2>0, <2>1, <2>2, <2>8, <3>1 DEF Underway
    <3>2. CASE u = t
      <4>1. loop[t].switched # NoTarget
        BY <2>4, <2>8, <3>2
      <4>2. loop[t].switched = due[t]
        BY <2>4, <2>8, <3>2, <4>1 DEF Underway
      <4> QED
        BY <2>0, <2>3, <2>5, <3>2, <4>1, <4>2
    <3> QED
      BY <3>1, <3>2
  <2>9. Underway'
    BY <2>1, <2>8 DEF Underway
  <2> QED
    BY <2>6, <2>7, <2>9
<1> QED
  BY <1>1, <1>2

LEMMA AskStep ==
  ASSUME RoundInv, NEW t \in Terminals, NEW p \in PollIds, NextActivation(t, p) \/ ReceiveActivation(t, p)
  PROVE  PollsOfRound' /\ OutsideIsEmpty' /\ News' /\ Underway'
<1> USE TypesOfAttach DEF RoundInv, ChannelInv
<1>0. t # Nothing /\ published' = published /\ due' = due /\ since' = since
  BY NothingIsNoSession DEF NextActivation, ReceiveActivation
<1>1. CASE NextActivation(t, p)
  <2>1. /\ loop' = loop /\ loop[t].at = "running" /\ loop[t].switched = NoTarget
        /\ poll'[p].by = t /\ poll'[p].box = NoTarget
        /\ \A q \in PollIds : q # p => poll'[q] = poll[q] /\ poll[q].by # t
        /\ poll[p].by = Nothing /\ poll[p].box = NoTarget
    BY <1>1 DEF NextActivation, NoPoll
  <2>2. \A q \in PollIds : poll'[q].box = poll[q].box
    BY <2>1
  <2>3. \A u \in Terminals, q \in PollIds : poll'[q].by = u <=> IF u = t THEN q = p ELSE poll[q].by = u
    BY <2>1, NothingIsNoSession
  <2>4. PollsOfRound'
    BY <2>1, <2>3 DEF PollsOfRound
  <2>5. OutsideIsEmpty'
    BY <2>1 DEF OutsideIsEmpty
  <2>6. News'
    BY <1>0, <2>1, <2>2, <2>3 DEF News
  <2>7. Underway'
    BY <1>0, <2>1, <2>2, <2>3 DEF Underway
  <2> QED
    BY <2>4, <2>5, <2>6, <2>7
<1>2. CASE ReceiveActivation(t, p)
  <2>1. /\ poll[p].by = t /\ poll'[p].by = Nothing /\ poll'[p].box = NoTarget
        /\ \A q \in PollIds : q # p => poll'[q] = poll[q]
        /\ \A u \in Terminals : u # t => loop'[u] = loop[u]
        /\ loop'[t].switched = poll[p].box /\ loop'[t].target = loop[t].target /\ loop'[t].at = loop[t].at
    BY <1>2 DEF ReceiveActivation, NoPoll, LoopType
  <2>2. \A q \in PollIds : q # p => poll[q].by # t
    BY <2>1 DEF PollsOfRound
  <2>3. loop[t].at \in {"running", "ended", "leaving"} /\ loop[t].switched = NoTarget
    BY <2>1 DEF PollsOfRound
  <2>4. \A u \in Terminals, q \in PollIds : poll'[q].by = u <=> u # t /\ poll[q].by = u
    BY <2>1, <2>2, NothingIsNoSession
  <2>5. \A u \in Terminals, q \in PollIds : poll'[q].by = u => poll'[q].box = poll[q].box
    BY <2>1, <2>4
  <2>6. PollsOfRound'
    BY <2>1, <2>4 DEF PollsOfRound
  <2>7. OutsideIsEmpty'
    BY <2>1, <2>3 DEF OutsideIsEmpty
  <2>8. News'
    BY <1>0, <2>1, <2>4, <2>5 DEF News
  <2>9. ASSUME NEW u \in Terminals, due[u] # NoTarget, loop'[u].at # "out"
        PROVE  \/ loop'[u].switched = due[u]
               \/ loop'[u].target = due[u] /\ loop'[u].switched = NoTarget
                  /\ \A q \in PollIds : poll'[q].by = u => poll'[q].box = NoTarget
               \/ loop'[u].switched = NoTarget /\ \E q \in PollIds : poll'[q].by = u /\ poll'[q].box = due[u]
    <3>1. CASE u # t
      BY <2>1, <2>4, <2>5, <2>9, <3>1 DEF Underway
    <3>2. CASE u = t
      BY <2>1, <2>2, <2>3, <2>4, <2>9, <3>2 DEF Underway
    <3> QED
      BY <3>1, <3>2
  <2>10. Underway'
    BY <1>0, <2>9 DEF Underway
  <2> QED
    BY <2>6, <2>7, <2>8, <2>10
<1> QED
  BY <1>1, <1>2

LEMMA RoundInvStep ==
  ASSUME RoundInv, [AttachNext]_attachVars
  PROVE  RoundInv'
<1>0. ChannelInv'
  BY ChannelStep DEF RoundInv
<1>1. CASE UNCHANGED <<poll, loop, published, due, since>>
  BY <1>0, <1>1, SameStep DEF RoundInv
<1>2. ASSUME NEW t \in Terminals, PostChanged(t) \/ ChildEnds(t) \/ PostDetached(t)
      PROVE  RoundInv'
  <2>1. loop[t].at # "out" /\ UNCHANGED <<poll, published, due, since>>
    BY <1>2 DEF PostChanged, ChildEnds, PostDetached
  <2>2. \E at \in {"running", "ended", "leaving"} : Place(t, at)
    BY <1>2 DEF PostChanged, ChildEnds, PostDetached
  <2> QED
    BY <1>0, <2>1, <2>2, PlaceStep DEF RoundInv
<1>3. CASE \E t \in Terminals : PostChanged(t) \/ ChildEnds(t) \/ PostDetached(t)
  BY <1>2, <1>3
<1>4. CASE \E p \in PollIds : WaitForActivation(p) \/ WakeUp(p) \/ Abandoned(p) \/ GiveUp(p)
  BY <1>0, <1>4, PollStep, GiveUpStep DEF RoundInv
<1>5. CASE (\E s \in publishing : HandleSessionActivated(s)) \/ DaemonRestarts
  BY <1>0, <1>5, PublishStep, RestartStep DEF RoundInv
<1>6. CASE \E t \in Terminals : \/ (\E s \in Sessions \cup {Nothing} : Attach(t, s)) \/ Leave(t)
                               \/ \E p \in PollIds : NextActivation(t, p) \/ ReceiveActivation(t, p)
  BY <1>0, <1>6, RoundStep, AskStep DEF RoundInv
<1>7. (\E s \in Sessions : ActivateSession(s)) \/ (\E s \in activating : RaiseFlag(s)) \/ UNCHANGED attachVars
      => UNCHANGED <<poll, loop, published, due, since>>
  BY DEF ActivateSession, RaiseFlag, attachVars
<1> QED
  BY <1>1, <1>3, <1>4, <1>5, <1>6, <1>7 DEF AttachNext, People, Service, Loop

LEMMA RoundInvInit == AttachInit => RoundInv
<1> SUFFICES ASSUME AttachInit PROVE RoundInv
  OBVIOUS
<1>1. ChannelInv
  BY AttachInitTypes DEF AttachInit, ChannelInv, AskedEmpty, NeverBlocks, NoPoll
<1> QED
  BY <1>1, NothingIsNoSession DEF AttachInit, RoundInv, PollsOfRound, OutsideIsEmpty, News, Underway, NoPoll, Out

\* For any terminals, sessions and requests, a terminal turns only to an activation that is
\* later than the beginning of its round, however late the answers of the polls come.
THEOREM TurnsToNews == AttachSpec => []TurnsOnlyToNews
<1>1. RoundInv => TurnsOnlyToNews
  BY DEF RoundInv, News, TurnsOnlyToNews
<1> QED
  BY <1>1, RoundInvInit, RoundInvStep, PTL DEF AttachSpec

\* For any terminals, sessions and requests, when nothing is under way every terminal shows
\* the session of the last activation that was sent to a poll of its own.
THEOREM SwitchesAreFollowed == AttachSpec => []FollowsSwitches
<1>1. RoundInv => FollowsSwitches
  <2> SUFFICES ASSUME RoundInv, Quiet, NEW t \in Terminals, due[t] # NoTarget
               PROVE  loop[t].target.session = due[t].session
    BY DEF FollowsSwitches
  <2>1. PICK p \in waiters : poll[p].by = t
    BY DEF Quiet
  <2>2. poll[p].box = NoTarget /\ p \in PollIds
    BY <2>1 DEF RoundInv, ChannelInv, NeverBlocks, AttachTypeOK
  <2>3. \A q \in PollIds : poll[q].by = t => poll[q].box = NoTarget
    BY <2>1, <2>2 DEF RoundInv, PollsOfRound
  <2>4. loop[t].at # "out" /\ loop[t].switched = NoTarget
    BY DEF Quiet
  <2>5. loop[t].target = due[t]
    BY <2>3, <2>4 DEF RoundInv, Underway
  <2> QED
    BY <2>5
<1> QED
  BY <1>1, RoundInvInit, RoundInvStep, PTL DEF AttachSpec

-----------------------------------------------------------------------------
CallType == [at : {"idle", "began", "registered", "waiting"},
             link : Links \cup {None}, id : Nat, box : {"empty", "answer", "closed"}]

\* The part of the types that the calls need.
CallTypes ==
  /\ call \in [Callers -> CallType]
  /\ lastId \in Nat
  /\ pending \in [Links -> SUBSET Nat]
  /\ requests \in [Links -> SUBSET (1 .. lastId)]
  /\ answers \in [Links -> SUBSET performed]
  /\ performed \subseteq 1 .. lastId

\* A request has one number, and its caller keeps it until it returns.
Numbered ==
  /\ \A c \in Callers : /\ call[c].id \in 0 .. lastId
                        /\ call[c].id # 0 <=> call[c].at \in {"registered", "waiting"}
                        /\ call[c].box = "answer" => call[c].id \in performed
  /\ \A c, d \in Callers : call[c].id = call[d].id /\ call[c].id # 0 => c = d

\* It is on the wire of one connection at most, not performed there, and not before it is written.
OnWire ==
  /\ \A k, j \in Links : \A r \in requests[k] : r \notin performed /\ (r \in requests[j] => k = j)
  /\ \A c \in Callers : call[c].at = "registered" =>
       call[c].id \notin performed /\ \A k \in Links : call[c].id \notin requests[k]

CallInv == CallTypes /\ Numbered /\ OnWire

\* A step of which the calls see nothing but what breaks and is lost.
LEMMA WireShrinks ==
  ASSUME CallInv, UNCHANGED <<call, lastId, performed, pending>>,
         requests' \in [Links -> SUBSET (1 .. lastId)], answers' \in [Links -> SUBSET performed],
         \A k \in Links : requests'[k] \subseteq requests[k]
  PROVE  CallInv'
BY DEF CallInv, CallTypes, Numbered, OnWire

LEMMA CallsUntouched ==
  ASSUME CallInv, UNCHANGED callVars
  PROVE  CallInv'
BY WireShrinks DEF callVars, CallInv, CallTypes

LEMMA BreakCalls ==
  ASSUME CallInv, NEW k \in Links, Break(k)
  PROVE  CallInv'
<1>1. /\ requests' \in [Links -> SUBSET (1 .. lastId)]
      /\ \A j \in Links : requests'[j] \subseteq requests[j]
  BY DEF Break, CallInv, CallTypes
<1>2. answers' \in [Links -> SUBSET performed]
  BY DEF Break, CallInv, CallTypes
<1> QED
  BY <1>1, <1>2, WireShrinks DEF Break

LEMMA FailPendingCalls ==
  ASSUME CallInv, NEW k \in Links, FailPending(k)
  PROVE  CallInv'
<1> USE DEF CallInv
<1>1. /\ lastId' = lastId /\ performed' = performed /\ requests' = requests /\ answers' = answers
      /\ call' \in [Callers -> CallType] /\ pending' \in [Links -> SUBSET Nat]
      /\ \A c \in Callers : /\ call'[c].id = call[c].id /\ call'[c].at = call[c].at
                            /\ call'[c].box \in {call[c].box, "closed"}
  BY DEF FailPending, CallTypes, CallType
<1> QED
  BY <1>1 DEF CallTypes, Numbered, OnWire

LEMMA BeginCalls ==
  ASSUME CallInv, NEW c \in Callers, Begin(c), current \in Links \cup {None}
  PROVE  CallInv' /\ call'[c].id = 0 /\ call[c].id = 0
<1> USE DEF CallInv
<1> DEFINE began == [NoCall EXCEPT !.at = "began", !.link = current]
<1>1. began \in CallType /\ began.at = "began" /\ began.id = 0 /\ began.box = "empty"
  BY DEF NoCall, CallType
<1>2. UNCHANGED <<lastId, performed, requests, answers, pending>> /\ call' = [call EXCEPT ![c] = began]
  BY DEF Begin
<1>3. call[c].id = 0
  BY DEF Begin, NoCall
<1> HIDE DEF began
<1>4. CallTypes'
  BY <1>1, <1>2 DEF CallTypes
<1>5. \A d \in Callers : call'[d] = IF d = c THEN began ELSE call[d]
  BY <1>2 DEF CallTypes
<1>6. Numbered'
  BY <1>1, <1>2, <1>5 DEF Numbered, CallTypes
<1>7. OnWire'
  BY <1>1, <1>2, <1>5 DEF OnWire
<1> QED
  BY <1>1, <1>3, <1>4, <1>5, <1>6, <1>7

LEMMA RegisterCalls ==
  ASSUME CallInv, NEW c \in Callers, Register(c)
  PROVE  CallInv'
<1> USE DEF CallInv
<1>1. /\ lastId' = lastId + 1 /\ lastId \in Nat /\ UNCHANGED <<performed, requests, answers>>
      /\ pending' \in [Links -> SUBSET Nat] /\ call' \in [Callers -> CallType]
      /\ \A d \in Callers \ {c} : call'[d] = call[d]
      /\ \/ call'[c] = NoCall
         \/ call'[c].at = "registered" /\ call'[c].id = lastId' /\ call'[c].box = call[c].box
      /\ call[c].at = "began"
  BY DEF Register, CallTypes, CallType, NoCall
<1>2. CallTypes'
  BY <1>1 DEF CallTypes
<1>3. Numbered'
  BY <1>1 DEF Numbered, NoCall, CallTypes
<1>4. OnWire'
  BY <1>1 DEF OnWire, NoCall, CallTypes
<1> QED
  BY <1>2, <1>3, <1>4

LEMMA ReturnCalls ==
  ASSUME CallInv, NEW c \in Callers, Return(c)
  PROVE  CallInv'
<1> USE DEF CallInv
<1>1. /\ UNCHANGED <<lastId, performed, requests, answers>>
      /\ pending' \in [Links -> SUBSET Nat]
      /\ call' = [call EXCEPT ![c] = [at |-> "idle", link |-> None, id |-> 0, box |-> "empty"]]
  BY DEF Return, NoCall, CallTypes
<1> QED
  BY <1>1 DEF CallTypes, CallType, Numbered, OnWire

LEMMA WriteCalls ==
  ASSUME CallInv, NEW c \in Callers, Write(c)
  PROVE  CallInv'
<1> USE DEF CallInv
<1>1. /\ UNCHANGED <<lastId, performed, answers, pending>>
      /\ call[c].at = "registered" /\ call' = [call EXCEPT ![c].at = "waiting"]
      /\ \A k \in Links : requests'[k] = requests[k] \/ requests'[k] = requests[k] \cup {call[c].id}
      /\ \A k \in Links : k # call[c].link => requests'[k] = requests[k]
  BY DEF Write, CallTypes
<1>2. call[c].id \in 1 .. lastId
  BY <1>1 DEF Numbered, CallTypes
<1>3. requests' \in [Links -> SUBSET (1 .. lastId)]
  BY <1>1, <1>2 DEF Write, CallTypes
<1>4. CallTypes'
  BY <1>1, <1>3 DEF CallTypes, CallType
<1>5. Numbered'
  BY <1>1 DEF Numbered, CallTypes, CallType
<1>6. \A d \in Callers : d # c => call'[d] = call[d]
  BY <1>1 DEF CallTypes
<1>7. call'[c].at = "waiting"
  BY <1>1 DEF CallTypes, CallType
<1>8. \A d \in Callers : d # c /\ call[d].at = "registered" => call[d].id # call[c].id
  BY <1>2 DEF Numbered, CallTypes
<1>9. OnWire'
  BY <1>1, <1>6, <1>7, <1>8 DEF OnWire
<1> QED
  BY <1>4, <1>5, <1>9

LEMMA PerformCalls ==
  ASSUME CallInv, NEW k \in Links, NEW r \in requests[k], Perform(k, r)
  PROVE  CallInv' /\ r \in 1 .. lastId /\ r \notin performed
<1> USE DEF CallInv
<1>1. r \in 1 .. lastId /\ r \notin performed
  BY DEF CallTypes, OnWire
<1>2. /\ UNCHANGED <<lastId, call, pending>> /\ performed' = performed \cup {r}
      /\ requests' = [requests EXCEPT ![k] = @ \ {r}]
      /\ answers' \in [Links -> SUBSET (performed \cup {r})]
  BY DEF Perform, CallTypes
<1>3. CallTypes'
  BY <1>1, <1>2 DEF CallTypes
<1>4. Numbered'
  BY <1>2 DEF Numbered
<1>5. OnWire'
  BY <1>2 DEF OnWire, CallTypes
<1> QED
  BY <1>1, <1>3, <1>4, <1>5

LEMMA ResolveCalls ==
  ASSUME CallInv, NEW k \in Links, NEW r \in answers[k], Resolve(k, r)
  PROVE  CallInv'
<1> USE DEF CallInv
<1>1. r \in performed
  BY DEF CallTypes
<1>2. /\ UNCHANGED <<lastId, performed, requests>>
      /\ pending' \in [Links -> SUBSET Nat] /\ answers' \in [Links -> SUBSET performed]
      /\ call' \in [Callers -> CallType]
      /\ \A c \in Callers : /\ call'[c].id = call[c].id /\ call'[c].at = call[c].at
                            /\ call'[c].box = call[c].box \/ call[c].id = r
  BY DEF Resolve, CallTypes, CallType
<1>3. CallTypes'
  BY <1>2 DEF CallTypes
<1>4. Numbered'
  BY <1>1, <1>2 DEF Numbered
<1>5. OnWire'
  BY <1>2 DEF OnWire
<1> QED
  BY <1>3, <1>4, <1>5
-----------------------------------------------------------------------------
(***************************************************************************)
(* The calls keep their promise.                                           *)
(***************************************************************************)
DriverStates ==
  /\ current \in Links \cup {None} /\ generation \in Nat
  /\ link \in [Links -> [at : LinkStates, gen : Nat]]

LEMMA DriverStatesStep ==
  ASSUME DriverStates, [DriverNext]_driverVars
  PROVE  DriverStates'
<1> USE DEF DriverStates
<1>1. ASSUME NEW k \in Links, NEW at \in LinkStates, Move(k, at)
      PROVE  link' \in [Links -> [at : LinkStates, gen : Nat]]
  BY <1>1 DEF Move
<1>2. ASSUME NEW k \in Links, Connect(k) \/ Opened(k) \/ Break(k) \/ CloseReplaced(k) \/ SignalState(k)
               \/ Drop(k) \/ FailPending(k) \/ SignalDropped(k)
      PROVE  DriverStates'
  <2>1. \E at \in LinkStates : Move(k, at)
    BY <1>2 DEF Connect, Opened, Break, CloseReplaced, SignalState, Drop, FailPending, SignalDropped,
       LinkStates, Alive
  <2>2. current' \in Links \cup {None} /\ generation' = generation
    BY <1>2 DEF Connect, Opened, Break, CloseReplaced, SignalState, Drop, FailPending, SignalDropped
  <2> QED
    BY <1>1, <2>1, <2>2
<1>3. ASSUME NEW k \in Links, Swap(k) PROVE DriverStates'
  BY <1>3 DEF Swap, LinkStates, Alive
<1>4. \/ UNCHANGED <<link, current, generation>>
      \/ \E k \in Links : \/ Connect(k) \/ Opened(k) \/ Break(k) \/ CloseReplaced(k) \/ SignalState(k)
                          \/ Drop(k) \/ FailPending(k) \/ SignalDropped(k) \/ Swap(k)
  BY DEF DriverNext, Outside, System, Extension, Serve, Caller, Subscribe, driverVars, callVars, eventVars,
     Emit, Begin, Closed, Perform, Resolve, Register, Return, Write, WriteFails, Receive, Timeout,
     TakeSignal, TakeEvent, Dequeue, SyncState, HandOver
<1> QED
  BY <1>2, <1>3, <1>4

\* Who takes part in a step: a caller, a connection, or neither.
LEMMA CallSteps ==
  ASSUME [DriverNext]_driverVars
  PROVE  \/ UNCHANGED callVars
         \/ \E c \in Callers : Begin(c)
         \/ \E c \in Callers : call[c] # NoCall /\ (Register(c) \/ Write(c) \/ WriteFails(c) \/ Receive(c) \/ Timeout(c))
         \/ \E k \in Links : \/ Break(k) \/ FailPending(k)
              \/ (\E r \in requests[k] : Perform(k, r)) \/ (\E r \in answers[k] : Resolve(k, r))
<1>1. ASSUME NEW k \in Links, \/ \E w \in Windows : Emit(k, w)
               \/ Connect(k) \/ Opened(k) \/ Closed(k) \/ Swap(k) \/ SignalState(k) \/ Drop(k) \/ SignalDropped(k)
      PROVE  UNCHANGED callVars
  BY <1>1 DEF Emit, Connect, Opened, Closed, Swap, SignalState, Drop, SignalDropped
<1>2. CASE Subscribe
  BY <1>2 DEF Subscribe, TakeSignal, TakeEvent, Dequeue, SyncState, HandOver
<1>3. CASE UNCHANGED driverVars
  BY <1>3 DEF driverVars, callVars
<1>4. CASE Outside
  <2>1. \/ \E k \in Links : Break(k)
        \/ \E k \in Links : \E w \in Windows : Emit(k, w)
        \/ \E c \in Callers : Begin(c)
    BY <1>4 DEF Outside
  <2> QED
    BY <1>1, <2>1
<1>5. CASE Extension
  BY <1>1, <1>5 DEF Extension
<1>6. ASSUME NEW k \in Links, Serve(k)
      PROVE  UNCHANGED callVars \/ Break(k) \/ FailPending(k) \/ \E r \in answers[k] : Resolve(k, r)
  BY <1>1, <1>6 DEF Serve, CloseReplaced
<1>7. ASSUME NEW c \in Callers, Caller(c)
      PROVE  call[c] # NoCall /\ (Register(c) \/ Write(c) \/ WriteFails(c) \/ Receive(c) \/ Timeout(c))
  BY <1>7 DEF Caller
<1> QED
  BY <1>2, <1>3, <1>4, <1>5, <1>6, <1>7 DEF DriverNext, System

LEMMA CallInvStep ==
  ASSUME CallInv, DriverStates, [DriverNext]_driverVars
  PROVE  CallInv'
<1>1. ASSUME NEW c \in Callers, Begin(c) \/ Register(c) \/ Write(c) \/ WriteFails(c) \/ Receive(c) \/ Timeout(c)
      PROVE  CallInv'
  <2>1. WriteFails(c) \/ Receive(c) \/ Timeout(c) => Return(c)
    BY DEF WriteFails, Receive, Timeout
  <2> QED
    BY <1>1, <2>1, BeginCalls, RegisterCalls, WriteCalls, ReturnCalls DEF DriverStates
<1>2. ASSUME NEW k \in Links, \/ Break(k) \/ FailPending(k)
               \/ (\E r \in requests[k] : Perform(k, r)) \/ (\E r \in answers[k] : Resolve(k, r))
      PROVE  CallInv'
  BY <1>2, BreakCalls, FailPendingCalls, PerformCalls, ResolveCalls
<1> QED
  BY <1>1, <1>2, CallSteps, CallsUntouched

\* What a step of the driver is for the specification of the calls.
LEMMA RefinesStep ==
  ASSUME CallInv, DriverStates, [DriverNext]_driverVars
  PROVE  [Calls!Next]_Calls!vars
<1> DEFINE ids == [c \in Callers |-> call[c].id]
<1>1. CASE UNCHANGED callVars
  BY <1>1 DEF callVars, Calls!vars
<1>3. ASSUME NEW c \in Callers, Begin(c) PROVE UNCHANGED Calls!vars
  <2>1. UNCHANGED <<lastId, performed, answered>>
    BY <1>3 DEF Begin
  <2>2. call \in [Callers -> CallType] /\ call'[c].id = call[c].id
    BY <1>3, BeginCalls DEF CallInv, CallTypes, DriverStates
  <2>3. \A d \in Callers : call'[d].id = call[d].id
    BY <1>3, <2>2 DEF Begin
  <2> QED
    BY <2>1, <2>3 DEF Calls!vars
<1>4. ASSUME NEW c \in Callers, Register(c) PROVE Calls!Next
  <2>1. call[c].id = 0 /\ lastId' = lastId + 1 /\ UNCHANGED <<performed, answered>>
    BY <1>4 DEF Register, CallInv, Numbered
  <2>2. CASE call' = [call EXCEPT ![c] = NoCall]
    <3>1. \A d \in Callers : call'[d].id = call[d].id
      BY <2>1, <2>2 DEF NoCall, CallInv, CallTypes
    <3>2. Calls!Refuse
      BY <2>1, <3>1 DEF Calls!Refuse
    <3> QED
      BY <3>2 DEF Calls!Next
  <2>3. CASE call' = [call EXCEPT ![c].at = "registered", ![c].id = lastId']
    <3>1. ids' = [ids EXCEPT ![c] = lastId']
      BY <2>3 DEF CallInv, CallTypes, CallType
    <3>2. Calls!Ask(c)
      BY <2>1, <3>1 DEF Calls!Ask
    <3> QED
      BY <3>2 DEF Calls!Next
  <2> QED
    BY <1>4, <2>2, <2>3 DEF Register
<1>5. ASSUME NEW c \in Callers, Write(c) PROVE UNCHANGED Calls!vars
  <2>1. \A d \in Callers : call'[d].id = call[d].id
    BY <1>5 DEF Write, CallInv, CallTypes, CallType
  <2> QED
    BY <1>5, <2>1 DEF Write, Calls!vars
<1>6. ASSUME NEW c \in Callers, WriteFails(c) \/ Receive(c) \/ Timeout(c) PROVE Calls!Next
  <2>1. Return(c) /\ call[c].id # 0
    BY <1>6 DEF WriteFails, Receive, Timeout, CallInv, Numbered
  <2>2. ids' = [ids EXCEPT ![c] = 0] /\ UNCHANGED <<lastId, performed>>
    BY <2>1 DEF Return, NoCall, CallInv, CallTypes
  <2>3. CASE answered' = answered
    BY <2>1, <2>2, <2>3 DEF Calls!Next, Calls!Fail
  <2>4. CASE call[c].box = "answer" /\ answered' = answered \cup {call[c].id}
    <3>1. call[c].id \in performed
      BY <2>4 DEF CallInv, Numbered
    <3> QED
      BY <2>1, <2>2, <2>4, <3>1 DEF Calls!Next, Calls!Answer
  <2> QED
    BY <1>6, <2>3, <2>4 DEF WriteFails, Receive, Timeout
<1>7. ASSUME NEW k \in Links, Break(k) \/ FailPending(k) \/ (\E r \in answers[k] : Resolve(k, r))
      PROVE  UNCHANGED Calls!vars
  <2>1. UNCHANGED <<lastId, performed, answered>>
    BY <1>7 DEF Break, FailPending, Resolve
  <2>2. \A c \in Callers : call'[c].id = call[c].id
    BY <1>7 DEF Break, FailPending, Resolve, CallInv, CallTypes, CallType
  <2> QED
    BY <2>1, <2>2 DEF Calls!vars
<1>8. ASSUME NEW k \in Links, NEW r \in requests[k], Perform(k, r) PROVE Calls!Next
  <2>1. r \in 1 .. lastId /\ r \notin performed
    BY <1>8, PerformCalls
  <2>2. UNCHANGED <<lastId, call, answered>> /\ performed' = performed \cup {r}
    BY <1>8 DEF Perform
  <2> QED
    BY <2>1, <2>2 DEF Calls!Next, Calls!Perform
<1> QED
  BY <1>1, <1>3, <1>4, <1>5, <1>6, <1>7, <1>8, CallSteps

LEMMA CallInvInit == DriverInit => CallInv /\ DriverStates /\ Calls!Init
<1> SUFFICES ASSUME DriverInit PROVE CallInv /\ DriverStates /\ Calls!Init
  OBVIOUS
<1>1. NoCall \in CallType /\ NoCall.id = 0 /\ NoCall.at = "idle" /\ NoCall.box = "empty"
  BY DEF NoCall, CallType
<1>2. CallInv
  BY <1>1 DEF DriverInit, CallInv, CallTypes, Numbered, OnWire
<1>3. DriverStates
  BY DEF DriverInit, DriverStates, Fresh, LinkStates
<1>4. Calls!Init
  BY <1>1 DEF DriverInit, Calls!Init
<1> QED
  BY <1>2, <1>3, <1>4

\* For any callers, websockets and windows, the driver keeps the promise of RemoteCalls: a
\* request is performed once at most, and a call that returns without an error had its own
\* request performed, through connections that break and replace each other.
THEOREM DriverKeepsPromise == DriverSpec => KeepsPromise
<1>1. DriverInit => CallInv /\ DriverStates /\ Calls!Init
  BY CallInvInit
<1>2. CallInv /\ DriverStates /\ [DriverNext]_driverVars => (CallInv /\ DriverStates)'
  BY CallInvStep, DriverStatesStep
<1>3. CallInv /\ DriverStates /\ [DriverNext]_driverVars => [Calls!Next]_Calls!vars
  BY RefinesStep
<1> QED
  BY <1>1, <1>2, <1>3, PTL DEF DriverSpec, KeepsPromise, Calls!Spec
-----------------------------------------------------------------------------
(***************************************************************************)
(* The signal of the state of the connection.                              *)
(***************************************************************************)
SubscribeTypes ==
  /\ generation \in Nat
  /\ events \in Seq(Event)
  /\ sub \in [at : {"select", "dequeuing", "syncing", "handing"}, gen : Nat,
              connected : BOOLEAN, event : Event \cup {NoEvent}]

\* Who takes part in a step, as the goroutine of Subscribe sees it.
LEMMA EventSteps ==
  ASSUME [DriverNext]_driverVars
  PROVE  \/ UNCHANGED <<link, current, generation, signal, eventVars>>
         \/ \E k \in Links : \/ Connect(k) \/ Opened(k) \/ Break(k) \/ Swap(k) \/ SignalState(k) \/ Drop(k)
                             \/ FailPending(k) \/ SignalDropped(k) \/ (\E w \in Windows : Emit(k, w))
         \/ Subscribe
<1>1. ASSUME NEW c \in Callers, Begin(c) \/ Caller(c)
      PROVE  UNCHANGED <<link, current, generation, signal, eventVars>>
  BY <1>1 DEF Begin, Caller, Register, Write, WriteFails, Receive, Timeout, Return
<1>2. ASSUME NEW k \in Links, Closed(k)
      PROVE  UNCHANGED <<link, current, generation, signal, eventVars>>
  BY <1>2 DEF Closed
<1>3. ASSUME NEW k \in Links, NEW r, Perform(k, r) \/ Resolve(k, r)
      PROVE  UNCHANGED <<link, current, generation, signal, eventVars>>
  BY <1>3 DEF Perform, Resolve
<1>4. CASE UNCHANGED driverVars
  BY <1>4 DEF driverVars
<1>5. CASE Outside
  <2>1. \/ \E k \in Links : Break(k)
        \/ \E k \in Links : \E w \in Windows : Emit(k, w)
        \/ \E c \in Callers : Begin(c)
    BY <1>5 DEF Outside
  <2> QED
    BY <1>1, <2>1
<1>6. CASE Extension
  BY <1>2, <1>3, <1>6 DEF Extension
<1>7. ASSUME NEW k \in Links, Serve(k)
      PROVE  \/ UNCHANGED <<link, current, generation, signal, eventVars>>
             \/ Break(k) \/ Swap(k) \/ SignalState(k) \/ Drop(k) \/ FailPending(k) \/ SignalDropped(k)
  BY <1>3, <1>7 DEF Serve, CloseReplaced
<1>8. CASE System
  BY <1>1, <1>6, <1>7, <1>8 DEF System
<1> QED
  BY <1>4, <1>5, <1>8 DEF DriverNext

LEMMA SubscribeTypesStep ==
  ASSUME SubscribeTypes, DriverStates, [DriverNext]_driverVars
  PROVE  SubscribeTypes'
<1> USE DEF SubscribeTypes
<1>1. CASE UNCHANGED <<link, current, generation, signal, sub, events>>
  BY <1>1
<1>2. ASSUME NEW k \in Links, Connect(k) \/ Opened(k) \/ Break(k) \/ Swap(k) \/ SignalState(k) \/ Drop(k)
               \/ FailPending(k) \/ SignalDropped(k)
      PROVE  SubscribeTypes'
  <2>1. UNCHANGED <<sub, events>>
    BY <1>2 DEF Connect, Opened, Break, Swap, SignalState, Drop, FailPending, SignalDropped, eventVars
  <2>2. generation' \in Nat
    BY <1>2 DEF Connect, Opened, Break, Swap, SignalState, Drop, FailPending, SignalDropped
  <2> QED
    BY <2>1, <2>2
<1>3. ASSUME NEW k \in Links, NEW w \in Windows, Emit(k, w)
      PROVE  SubscribeTypes'
  <2> DEFINE e == [gen |-> link[k].gen, window |-> w]
  <2>1. e \in Event
    BY DEF DriverStates, Event
  <2>2. events' = events \/ events' = Append(events, e)
    BY <1>3 DEF Emit
  <2>3. events' \in Seq(Event)
    BY <2>1, <2>2, AppendProperties
  <2> QED
    BY <1>3, <2>3 DEF Emit
<1>4. CASE TakeEvent
  <2>1. Head(events) \in Event /\ Tail(events) \in Seq(Event)
    BY <1>4, HeadTailProperties DEF TakeEvent
  <2> QED
    BY <1>4, <2>1 DEF TakeEvent
<1>5. CASE TakeSignal \/ Dequeue \/ SyncState \/ HandOver
  BY <1>5 DEF TakeSignal, Dequeue, SyncState, HandOver
<1> QED
  BY <1>1, <1>2, <1>3, <1>4, <1>5, EventSteps DEF Subscribe, eventVars

LEMMA SignalStep ==
  ASSUME DriverStates, SubscribeTypes, NoLostSignal, [DriverNext]_driverVars
  PROVE  NoLostSignal'
<1> USE DEF DriverStates, SubscribeTypes
<1> DEFINE moving == {"swapped", "swappedBroken", "dropped", "signalling"}
<1>1. CASE UNCHANGED <<link, current, generation, signal, sub>>
  BY <1>1 DEF NoLostSignal, Told, At
<1>2. ASSUME NEW k \in Links, Move(k, "broken") \/ Move(k, "connecting") \/ Move(k, "open") \/ Move(k, "gone"),
             ~At(k, moving), UNCHANGED <<current, generation, signal, sub>>
      PROVE  NoLostSignal'
  BY <1>2 DEF NoLostSignal, Told, At, Move
<1>3. ASSUME NEW k \in Links, link'[k].at \in moving
      PROVE  NoLostSignal'
  BY <1>3 DEF NoLostSignal, At
<1>4. ASSUME signal' \/ sub'.at \in {"dequeuing", "syncing"}
      PROVE  NoLostSignal'
  BY <1>4 DEF NoLostSignal
<1>5. ASSUME NEW k \in Links, Connect(k) \/ Opened(k)
      PROVE  NoLostSignal'
  BY <1>2, <1>5 DEF Connect, Opened, eventVars, At
<1>6. ASSUME NEW k \in Links, Break(k)
      PROVE  NoLostSignal'
  <2>1. CASE At(k, {"swapped"})
    BY <1>3, <1>6, <2>1 DEF Break, Move, At
  <2>2. CASE ~At(k, {"swapped"})
    BY <1>2, <1>6, <2>2 DEF Break, eventVars, At, Alive
  <2> QED
    BY <2>1, <2>2
<1>7. ASSUME NEW k \in Links, Swap(k)
      PROVE  NoLostSignal'
  BY <1>3, <1>7 DEF Swap
<1>8. ASSUME NEW k \in Links, SignalState(k) \/ SignalDropped(k)
      PROVE  NoLostSignal'
  BY <1>4, <1>8 DEF SignalState, SignalDropped
<1>9. ASSUME NEW k \in Links, Drop(k)
      PROVE  NoLostSignal'
  <2>1. CASE current = k
    BY <1>3, <1>9, <2>1 DEF Drop, Move
  <2>2. CASE current # k
    <3>1. /\ UNCHANGED <<current, generation, signal, sub>> /\ link[k].at = "broken"
          /\ \A j \in Links : j # k => link'[j] = link[j]
      BY <1>9, <2>2 DEF Drop, Move, At, eventVars
    <3> QED
      BY <3>1 DEF NoLostSignal, Told, At
  <2> QED
    BY <2>1, <2>2
<1>10. ASSUME NEW k \in Links, FailPending(k)
      PROVE  NoLostSignal'
  <2>1. CASE At(k, {"dropped"})
    BY <1>3, <1>10, <2>1 DEF FailPending, Move
  <2>2. CASE ~At(k, {"dropped"})
    BY <1>2, <1>10, <2>2 DEF FailPending, eventVars, At
  <2> QED
    BY <2>1, <2>2
<1>11. CASE Subscribe
  <2>1. CASE TakeSignal \/ TakeEvent \/ Dequeue
    <3>1. TakeSignal \/ Dequeue => sub' = [sub EXCEPT !.at = "syncing"]
      BY DEF TakeSignal, Dequeue
    <3> QED
      BY <1>4, <2>1, <3>1 DEF TakeEvent
  <2>2. CASE SyncState
    <3>1. UNCHANGED <<current, generation>>
          /\ sub'.connected = (current # None)
          /\ (current # None => sub'.gen = generation)
      BY <2>2 DEF SyncState
    <3> QED
      BY <3>1 DEF NoLostSignal, Told
  <2>3. CASE HandOver
    <3>1. UNCHANGED <<link, current, generation, signal>>
          /\ sub'.connected = sub.connected /\ sub'.gen = sub.gen /\ sub.at = "handing"
      BY <2>3 DEF HandOver
    <3> QED
      BY <3>1 DEF NoLostSignal, Told, At
  <2> QED
    BY <1>11, <2>1, <2>2, <2>3 DEF Subscribe
<1>12. ASSUME NEW k \in Links, NEW w \in Windows, Emit(k, w)
       PROVE  UNCHANGED <<link, current, generation, signal, sub>>
  BY <1>12 DEF Emit
<1> QED
  BY <1>1, <1>5, <1>6, <1>7, <1>8, <1>9, <1>10, <1>11, <1>12, EventSteps DEF eventVars

\* For any websockets and any order of coming, breaking and replacing: the service is told of
\* every change of the connection, or will be, although the signal drops what does not fit.
THEOREM NoSignalIsLost == DriverSpec => []NoLostSignal
<1>1. DriverInit => DriverStates /\ SubscribeTypes /\ NoLostSignal
  <2> SUFFICES ASSUME DriverInit PROVE DriverStates /\ SubscribeTypes /\ NoLostSignal
    OBVIOUS
  <2>1. DriverStates
    BY CallInvInit
  <2>2. events \in Seq(Event) /\ SubscribeTypes
    BY EmptySeq DEF DriverInit, SubscribeTypes, NoEvent
  <2>3. NoLostSignal
    BY DEF DriverInit, NoLostSignal, Told
  <2> QED
    BY <2>1, <2>2, <2>3
<1>2. DriverStates /\ SubscribeTypes /\ NoLostSignal /\ [DriverNext]_driverVars
        => (DriverStates /\ SubscribeTypes /\ NoLostSignal)'
  BY DriverStatesStep, SubscribeTypesStep, SignalStep
<1> QED
  BY <1>1, <1>2, PTL DEF DriverSpec
-----------------------------------------------------------------------------
(***************************************************************************)
(* The events.                                                             *)
(***************************************************************************)
Queued(e) == \E i \in DOMAIN events : events[i] = e

\* A mark stands for an event in the channel, or for the one just taken out.
MarkedIsQueued == \A e \in marked : Queued(e) \/ (sub.at = "dequeuing" /\ sub.event = e)

\* Nothing is of a generation to come.
Generations ==
  /\ \A k \in Links : link[k].gen <= generation
  /\ \A e \in unseen : e.gen <= generation
  /\ \A i \in DOMAIN events : events[i].gen <= generation
  /\ sub.event.gen <= generation

\* An event of the connection in use is handed over under its generation.
HandsInTime ==
  sub.at = "handing" /\ current # None /\ sub.event.gen = generation
    => sub.connected /\ sub.gen = generation

EventInv ==
  /\ SubscribeTypes /\ unseen \subseteq Event
  /\ sub.at = "select" => sub.event = NoEvent
  /\ MarkedIsQueued /\ Generations /\ HandsInTime /\ ChangeReachesService

\* The connection changes, and with it at most the generation, which grows.
LEMMA EventsOfLinks ==
  ASSUME DriverStates, EventInv, SubscribeTypes', UNCHANGED eventVars,
         \/ generation' = generation /\ current' \in {current, None}
              /\ \A k \in Links : link'[k].gen = link[k].gen
         \/ generation' = generation + 1 /\ \A k \in Links : link'[k].gen \in {link[k].gen, generation'}
  PROVE  EventInv'
<1> USE DEF EventInv, eventVars
<1>1. Generations'
  <2>1. generation' \in Nat /\ generation <= generation' /\ \A k \in Links : link[k].gen \in Nat
    BY DEF SubscribeTypes, DriverStates
  <2>2. \A k \in Links : link'[k].gen <= generation'
    BY <2>1 DEF Generations, SubscribeTypes
  <2>3. \A e \in Event : e.gen \in Nat
    BY DEF Event
  <2>4. sub.event.gen \in Nat /\ \A i \in DOMAIN events : events[i].gen \in Nat
    BY <2>3, ElementOfSeq DEF SubscribeTypes, NoEvent
  <2> QED
    BY <2>1, <2>2, <2>3, <2>4 DEF Generations, SubscribeTypes
<1>2. CASE generation' = generation /\ current' \in {current, None}
  BY <1>1, <1>2 DEF MarkedIsQueued, Queued, HandsInTime, ChangeReachesService
<1>3. CASE generation' = generation + 1
  <2>1. sub.event.gen # generation' /\ \A e \in unseen : e.gen # generation'
    BY <1>3 DEF Generations, SubscribeTypes, Event, NoEvent
  <2> QED
    BY <1>1, <2>1 DEF MarkedIsQueued, Queued, HandsInTime, ChangeReachesService
<1> QED
  BY <1>2, <1>3

LEMMA EmitEvents ==
  ASSUME DriverStates, EventInv, SubscribeTypes', NEW k \in Links, NEW w \in Windows, Emit(k, w)
  PROVE  EventInv'
<1> USE DEF EventInv
<1> DEFINE e == [gen |-> link[k].gen, window |-> w]
<1>1. e \in Event /\ e.gen <= generation
  BY DEF DriverStates, Event, Generations
<1>2. UNCHANGED <<link, current, generation, sub>> /\ unseen' \subseteq unseen \cup {e}
  BY DEF Emit
<1>3. \/ UNCHANGED <<marked, events>> /\ (e \in unseen' => e \in marked)
      \/ marked' = marked \cup {e} /\ events' = Append(events, e)
  BY DEF Emit
<1> HIDE DEF e
<1>4. CASE UNCHANGED <<marked, events>> /\ (e \in unseen' => e \in marked)
  BY <1>1, <1>2, <1>4 DEF MarkedIsQueued, Queued, Generations, HandsInTime, ChangeReachesService
<1>5. CASE marked' = marked \cup {e} /\ events' = Append(events, e)
  <2>1. /\ Len(events) \in Nat /\ DOMAIN events = 1 .. Len(events)
        /\ DOMAIN events' = 1 .. (Len(events) + 1) /\ events'[Len(events) + 1] = e
        /\ \A i \in DOMAIN events : events'[i] = events[i]
    BY <1>1, <1>5, AppendProperties, LenProperties DEF SubscribeTypes
  <2>2. /\ DOMAIN events \subseteq DOMAIN events' /\ Len(events) + 1 \in DOMAIN events'
        /\ \A i \in DOMAIN events' : i \in DOMAIN events \/ i = Len(events) + 1
    BY <2>1
  <2>3. \A x : Queued(x)' <=> Queued(x) \/ x = e
    BY <2>1, <2>2 DEF Queued
  <2>4. \A i \in DOMAIN events' : events'[i].gen <= generation
    BY <1>1, <2>1, <2>2 DEF Generations
  <2>5. MarkedIsQueued'
    BY <1>2, <1>5, <2>3 DEF MarkedIsQueued
  <2>6. Generations' /\ HandsInTime'
    BY <1>1, <1>2, <2>4 DEF Generations, HandsInTime
  <2>7. ChangeReachesService'
    BY <1>2, <2>3 DEF ChangeReachesService, Queued
  <2> QED
    BY <1>1, <1>2, <2>5, <2>6, <2>7
<1> QED
  BY <1>3, <1>4, <1>5

LEMMA TakeEvents ==
  ASSUME EventInv, SubscribeTypes', TakeEvent
  PROVE  EventInv'
<1> USE DEF EventInv
<1>1. /\ sub.at = "select" /\ sub'.at = "dequeuing" /\ sub'.event = Head(events)
      /\ events' = Tail(events) /\ events # <<>>
      /\ UNCHANGED <<link, current, generation, marked, unseen>>
  BY DEF TakeEvent, SubscribeTypes
<1>2. \A e : Queued(e) <=> Queued(e)' \/ e = Head(events)
  <2>1. /\ Len(events) \in Nat \ {0} /\ DOMAIN events = 1 .. Len(events) /\ Head(events) = events[1]
        /\ DOMAIN events' = 1 .. (Len(events) - 1)
        /\ \A i \in DOMAIN events' : events'[i] = events[i + 1]
    BY <1>1, HeadTailProperties, LenProperties DEF SubscribeTypes
  <2>2. \A i \in DOMAIN events : i = 1 \/ (i - 1 \in DOMAIN events' /\ events'[i - 1] = events[i])
    BY <2>1
  <2>3. \A i \in DOMAIN events' : i + 1 \in DOMAIN events
    BY <2>1
  <2>4. 1 \in DOMAIN events
    BY <2>1
  <2> QED
    BY <2>1, <2>2, <2>3, <2>4 DEF Queued
<1>3. MarkedIsQueued'
  BY <1>1, <1>2 DEF MarkedIsQueued
<1>4. Generations' /\ HandsInTime'
  <2>1. \A e : Queued(e) => e.gen <= generation
    BY DEF Queued, Generations
  <2>2. \A e : Queued(e)' => e.gen <= generation
    BY <1>2, <2>1
  <2>3. Head(events).gen <= generation
    BY <1>2, <2>1
  <2>4. \A i \in DOMAIN events' : events'[i].gen <= generation
    BY <2>2 DEF Queued
  <2> QED
    BY <1>1, <2>3, <2>4 DEF Generations, HandsInTime
<1>5. ChangeReachesService'
  <2>1. \A e \in unseen : e # NoEvent
    BY NoneIsNoLink DEF Event, NoEvent
  <2> QED
    BY <1>1, <1>2, <2>1 DEF ChangeReachesService, Queued
<1> QED
  BY <1>1, <1>3, <1>4, <1>5

LEMMA SubscribeEvents ==
  ASSUME EventInv, SubscribeTypes', TakeSignal \/ Dequeue \/ SyncState \/ HandOver
  PROVE  EventInv'
<1> USE DEF EventInv, SubscribeTypes
<1>1. /\ UNCHANGED <<link, current, generation, events>> /\ unseen' \subseteq unseen /\ marked' \subseteq marked
      /\ sub'.event \in {sub.event, NoEvent}
  BY DEF TakeSignal, Dequeue, SyncState, HandOver
<1>2. Generations'
  BY <1>1 DEF Generations, NoEvent
<1>3. MarkedIsQueued'
  BY DEF TakeSignal, Dequeue, SyncState, HandOver, MarkedIsQueued, Queued
<1>4. HandsInTime' /\ (sub'.at = "select" => sub'.event = NoEvent)
  <2>1. CASE TakeSignal \/ Dequeue
    BY <2>1 DEF TakeSignal, Dequeue, HandsInTime
  <2>2. CASE SyncState
    <3>1. /\ sub'.connected = (current # None) /\ (current # None => sub'.gen = generation)
          /\ sub'.event = sub.event /\ (sub'.at = "select" => sub.event = NoEvent)
      BY <2>2 DEF SyncState
    <3> QED
      BY <1>1, <3>1 DEF HandsInTime
  <2>3. CASE HandOver
    <3>1. sub'.at = "select" /\ sub'.event = NoEvent
      BY <2>3 DEF HandOver
    <3> QED
      BY <3>1 DEF HandsInTime
  <2> QED
    BY <2>1, <2>2, <2>3
<1>5. ChangeReachesService'
  <2>1. CASE sub'.event = sub.event
    BY <1>1, <2>1 DEF ChangeReachesService
  <2>2. CASE HandOver
    <3>1. sub.connected /\ sub.event.gen = sub.gen => sub.event \notin unseen'
      BY <2>2 DEF HandOver
    <3>2. sub.at = "handing"
      BY <2>2 DEF HandOver
    <3> QED
      BY <1>1, <3>1, <3>2 DEF ChangeReachesService, HandsInTime
  <2> QED
    BY <2>1, <2>2 DEF TakeSignal, Dequeue, SyncState
<1> QED
  BY <1>1, <1>2, <1>3, <1>4, <1>5

LEMMA EventInvStep ==
  ASSUME DriverStates, EventInv, [DriverNext]_driverVars
  PROVE  EventInv'
<1>1. SubscribeTypes'
  BY SubscribeTypesStep DEF EventInv
<1>2. ASSUME NEW k \in Links, Connect(k) \/ Opened(k) \/ Break(k) \/ Swap(k) \/ SignalState(k) \/ Drop(k)
               \/ FailPending(k) \/ SignalDropped(k)
      PROVE  EventInv'
  <2>1. CASE Swap(k)
    <3>1. UNCHANGED eventVars /\ generation' = generation + 1
      BY <2>1 DEF Swap
    <3>2. \A j \in Links : link'[j].gen \in {link[j].gen, generation'}
      BY <2>1 DEF Swap, DriverStates
    <3> QED
      BY <1>1, <3>1, <3>2, EventsOfLinks
  <2>2. CASE ~Swap(k)
    <3>1. UNCHANGED eventVars /\ generation' = generation /\ current' \in {current, None}
      BY <1>2, <2>2 DEF Connect, Opened, Break, SignalState, Drop, FailPending, SignalDropped
    <3>2. \E at \in LinkStates : Move(k, at)
      BY <1>2, <2>2 DEF Connect, Opened, Break, SignalState, Drop, FailPending, SignalDropped,
         LinkStates, Alive
    <3>3. \A j \in Links : link'[j].gen = link[j].gen
      BY <3>2 DEF Move, DriverStates
    <3> QED
      BY <1>1, <3>1, <3>3, EventsOfLinks
  <2> QED
    BY <2>1, <2>2
<1>3. CASE UNCHANGED <<link, current, generation, signal, eventVars>>
  BY <1>3 DEF eventVars, EventInv, SubscribeTypes, MarkedIsQueued, Queued, Generations,
     HandsInTime, ChangeReachesService
<1> QED
  BY <1>1, <1>2, <1>3, EmitEvents, TakeEvents, SubscribeEvents, EventSteps DEF Subscribe

\* For any websockets, windows and capacity of the channel: a change of tabs that was not dropped
\* for want of room is in the channel or in the hands of Subscribe until the service has been
\* handed it, or its connection is over; coalescing loses none.
THEOREM ChangesReachService == DriverSpec => []ChangeReachesService
<1>1. DriverInit => DriverStates /\ EventInv
  <2> SUFFICES ASSUME DriverInit PROVE DriverStates /\ EventInv
    OBVIOUS
  <2>1. DriverStates
    BY CallInvInit
  <2>2. SubscribeTypes
    BY EmptySeq DEF DriverInit, SubscribeTypes, NoEvent
  <2>3. Generations
    BY DEF DriverInit, Generations, Fresh, NoEvent
  <2> QED
    BY <2>1, <2>2, <2>3 DEF DriverInit, EventInv, MarkedIsQueued, HandsInTime, ChangeReachesService
<1>2. DriverStates /\ EventInv /\ [DriverNext]_driverVars => (DriverStates /\ EventInv)'
  BY DriverStatesStep, EventInvStep
<1>3. EventInv => ChangeReachesService
  BY DEF EventInv
<1> QED
  BY <1>1, <1>2, <1>3, PTL DEF DriverSpec

-----------------------------------------------------------------------------
\* The Chrome script driver.
WindowType == [tabs : SUBSET ChromeTabs, shown : ChromeTabs \cup {NoWindow}]
WindowMaps == UNION {[ws -> WindowType] : ws \in SUBSET ChromeWindows}
Snapshot   == [windows : WindowMaps, focused : ChromeWindows \cup {NoWindow}]
WatchType  == [at : {"waiting", "naming", "connecting", "sleeping", "checking", "retrying"},
               prev : Snapshot, cur : Snapshot, removed : SUBSET ChromeWindows, failures : Nat,
               run : Nat, listed : BOOLEAN, apart : SUBSET (ChromeWindows \cup {NoWindow})]
ChromeType == [up : BOOLEAN, run : Nat, quitting : BOOLEAN, seen : BOOLEAN]

ChromeTypes ==
  /\ chrome \in ChromeType
  /\ place \in [ChromeTabs -> ChromeWindows \cup {NoWindow}]
  /\ active \in [ChromeWindows -> ChromeTabs \cup {NoWindow}]
  /\ frontmost \in ChromeWindows \cup {NoWindow}
  /\ byHand \subseteq ChromeWindows
WatchTypes ==
  /\ watch \in WatchType
  /\ known \in WindowMaps
  /\ focused \in ChromeWindows \cup {NoWindow}
  /\ quiet \in 0 .. 2

\* Subscribe has told the service of a connection, and the service knew the windows then.
Listening == watch.at \in {"sleeping", "checking"} /\ watch.listed
\* Chrome is still the process that Subscribe watches.
SameRun == chrome.up /\ watch.run = chrome.run

RunInv ==
  /\ watch.run <= chrome.run
  /\ chrome.seen => chrome.quitting
  /\ watch.at \in {"waiting", "naming", "connecting"} => watch.removed = {} /\ ~watch.listed

\* What is about to be told as closed was closed by somebody.
GoneInv ==
  Listening =>
    /\ watch.run # 0 => mistold = {}
    /\ SameRun /\ ~chrome.quitting => DOMAIN known \subseteq OpenNow \cup byHand
    /\ SameRun /\ (watch.at = "checking" \/ ~chrome.seen) => watch.removed \cap DOMAIN known \subseteq byHand
    /\ SameRun /\ watch.at = "checking" =>
         /\ ~chrome.quitting => DOMAIN watch.cur.windows \subseteq OpenNow \cup byHand
         /\ ~chrome.seen => DOMAIN known \ DOMAIN watch.cur.windows \subseteq byHand

\* The service knows what the last poll saw, and what that poll missed.
ToldInv ==
  Listening =>
    /\ watch.removed \cap DOMAIN watch.prev.windows = {}
    /\ \A w \in ChromeWindows \ watch.apart :
         /\ w \in DOMAIN known <=> w \in DOMAIN watch.prev.windows \cup watch.removed
         /\ w \in DOMAIN watch.prev.windows => known[w] = watch.prev.windows[w]
    /\ watch.prev.focused \notin watch.apart \cup {NoWindow} => focused = watch.prev.focused

\* What the polls since the last change have seen.
QuietInv ==
  /\ watch.at = "sleeping" => /\ quiet > 0 => watch.prev = Taken
                              /\ quiet = 2 => watch.removed = {}
  /\ watch.at = "checking" => /\ quiet > 0 => watch.cur = Taken
                              /\ quiet = 2 => watch.prev = Taken

ScriptInv == ChromeTypes /\ WatchTypes /\ RunInv /\ GoneInv /\ ToldInv /\ QuietInv

-----------------------------------------------------------------------------
\* Tabs are arranged.
Arrangements == [ChromeTabs -> ChromeWindows \cup {NoWindow}]

LEMMA Arranged ==
  ASSUME ChromeTypes, NEW at \in Arrangements, Arrange(at)
  PROVE  /\ place' \in Arrangements /\ active' \in [ChromeWindows -> ChromeTabs \cup {NoWindow}]
         /\ frontmost' \in ChromeWindows \cup {NoWindow}
         /\ OpenNow' = Open(at) /\ OpenNow' \subseteq ChromeWindows /\ quiet' = 0
<1>1. \A w \in Open(at) : (CHOOSE t \in TabsOf(at, w) : TRUE) \in ChromeTabs
  BY DEF Open, TabsOf
<1>2. active' \in [ChromeWindows -> ChromeTabs \cup {NoWindow}]
  BY <1>1 DEF Arrange, ChromeTypes
<1>3. Open(at) \subseteq ChromeWindows
  BY DEF Open
<1>4. OpenNow' = Open(at)
  BY DEF Arrange, OpenNow, Open, TabsOf
<1> QED
  BY <1>2, <1>3, <1>4 DEF Arrange, ChromeTypes

\* The same process goes on: what is gone from its windows was closed by somebody, unless it quits.
GoesOn ==
  /\ chrome'.run = chrome.run
  /\ chrome'.seen => chrome'.quitting
  /\ chrome'.up => /\ chrome.up /\ (chrome.seen => chrome'.seen)
                   /\ byHand \subseteq byHand'
                   /\ ~chrome'.quitting => ~chrome.quitting /\ OpenNow \cup byHand \subseteq OpenNow' \cup byHand'
StartsAnew == chrome'.run = chrome.run + 1 /\ ~chrome'.seen

\* A step of Chrome, its user or a script, which Subscribe does not see.
Unseen ==
  /\ ChromeTypes' /\ (GoesOn \/ StartsAnew)
  /\ \/ quiet' = 0
     \/ quiet' = quiet /\ Taken' = Taken

LEMMA Launched ==
  ASSUME ChromeTypes, Launch
  PROVE  Unseen
<1>1. PICK no \in BOOLEAN, yes \in BOOLEAN : no = FALSE /\ yes = TRUE
  OBVIOUS
<1>2. chrome' = [up |-> yes, run |-> chrome.run + 1, quitting |-> no, seen |-> no] /\ byHand' = {}
  BY <1>1 DEF Launch
<1>3. chrome' \in ChromeType /\ StartsAnew
  BY <1>1, <1>2 DEF ChromeTypes, ChromeType, StartsAnew
<1>4. PICK at \in Arrangements : Arrange(at)
  BY DEF Launch, Arrangements
<1> QED
  BY <1>2, <1>3, <1>4, Arranged DEF Unseen, ChromeTypes, Arrangements

LEMMA Rearranged ==
  ASSUME ChromeTypes, ~chrome.seen \/ chrome.quitting, NEW at \in Arrangements, Rearrange(at)
  PROVE  Unseen
<1>1. /\ byHand' = byHand \cup (OpenNow \ Open(at)) /\ chrome' = chrome
      /\ OpenNow' = Open(at) /\ OpenNow \subseteq ChromeWindows
  BY Arranged DEF Rearrange, OpenNow, Open
<1>2. ChromeTypes' /\ quiet' = 0
  BY <1>1, Arranged DEF Rearrange, ChromeTypes, Arrangements
<1>3. GoesOn
  BY <1>1 DEF GoesOn
<1> QED
  BY <1>2, <1>3 DEF Unseen

LEMMA ShownOrRaised ==
  ASSUME ChromeTypes, ~chrome.seen \/ chrome.quitting, NEW w \in OpenNow \cup {NoWindow}, NEW t \in ChromeTabs,
         (w \in OpenNow /\ Show(w, t)) \/ Raise(w)
  PROVE  Unseen
<1>1. OpenNow \subseteq ChromeWindows
  BY DEF OpenNow, Open
<1>2. chrome' = chrome /\ place' = place /\ byHand' = byHand /\ quiet' = 0 /\ OpenNow' = OpenNow
  BY DEF Show, Raise, OpenNow, Open, TabsOf
<1>3. ChromeTypes'
  BY <1>1, <1>2 DEF Show, Raise, ChromeTypes
<1>4. GoesOn
  BY <1>2 DEF GoesOn
<1> QED
  BY <1>2, <1>3, <1>4 DEF Unseen

LEMMA NothingHappens ==
  ASSUME ChromeTypes, ~chrome.seen \/ chrome.quitting, UNCHANGED <<chromeVars, quiet>>
  PROVE  Unseen
<1>1. OpenNow' = OpenNow /\ Taken' = Taken
  BY DEF chromeVars, OpenNow, Open, TabsOf, Taken, WindowsNow
<1> QED
  BY <1>1 DEF Unseen, GoesOn, chromeVars, ChromeTypes

\* The script of a call: Chrome is started, refuses, or does what it is told.
LEMMA Scripted ==
  ASSUME ChromeTypes, ~chrome.seen \/ chrome.quitting,
         NEW w, NEW t \in ChromeTabs,
         \/ /\ w \in ChromeWindows
            /\ Script(OpenTab(w, t) \/ ActivateTab(w, t) \/ FocusWindow(w) \/ CloseWindow(w) \/ DragTab(t, w))
         \/ Script(CreateWindow(t)) \/ Script(DetachTab(t))
  PROVE  Unseen /\ UNCHANGED <<watch, known, focused, mistold>>
<1>1. UNCHANGED <<watch, known, focused, mistold>>
  BY DEF Script, serviceVars
<1>2. CASE Launch
  BY <1>1, <1>2, Launched
<1>3. CASE UNCHANGED <<chromeVars, quiet>>
  BY <1>1, <1>3, NothingHappens
<1>4. CASE ~Launch /\ ~UNCHANGED <<chromeVars, quiet>>
  <2>1. \/ /\ w \in ChromeWindows
           /\ OpenTab(w, t) \/ ActivateTab(w, t) \/ FocusWindow(w) \/ CloseWindow(w) \/ DragTab(t, w)
        \/ CreateWindow(t) \/ DetachTab(t)
    BY <1>4 DEF Script
  <2>2. CASE w \in ChromeWindows /\ (ActivateTab(w, t) \/ FocusWindow(w))
    <3>1. w \in OpenNow
      BY <2>2 DEF ActivateTab, FocusWindow, Show, OpenNow, Open, TabsOf
    <3> QED
      BY <1>1, <2>2, <3>1, ShownOrRaised DEF ActivateTab, FocusWindow
  <2>3. CASE OpenTab(w, t) \/ CloseWindow(w) \/ DragTab(t, w) \/ CreateWindow(t) \/ DetachTab(t)
    <3>1. \A v \in ChromeWindows : [place EXCEPT ![t] = v] \in Arrangements
      BY DEF ChromeTypes, Arrangements
    <3>2. [x \in ChromeTabs |-> IF place[x] = w THEN NoWindow ELSE place[x]] \in Arrangements
      BY DEF ChromeTypes, Arrangements
    <3>3. FreeNumbers \subseteq ChromeWindows /\ OpenNow \subseteq ChromeWindows
      BY DEF FreeNumbers, OpenNow, Open
    <3>4. \E at \in Arrangements : Rearrange(at)
      BY <2>3, <3>1, <3>2, <3>3 DEF OpenTab, CloseWindow, DragTab, CreateWindow, DetachTab
    <3> QED
      BY <1>1, <3>4, Rearranged
  <2> QED
    BY <2>1, <2>2, <2>3
<1> QED
  BY <1>2, <1>3, <1>4

LEMMA UnseenSteps ==
  ASSUME ChromeTypes, RunInv, ChromeActs \/ ChromeGoes
  PROVE  Unseen /\ UNCHANGED <<watch, known, focused, mistold>>
<1>1. ~chrome.seen \/ chrome.quitting
  BY DEF RunInv
<1>2. CASE StartChrome
  BY <1>2, Launched DEF StartChrome, serviceVars
<1>3. CASE Browse
  <2>1. UNCHANGED <<watch, known, focused, mistold>>
    BY <1>3 DEF Browse, serviceVars
  <2>2. OpenNow \cup FreeNumbers \cup {NoWindow} \subseteq ChromeWindows \cup {NoWindow}
    BY DEF OpenNow, Open, FreeNumbers
  <2>3. CASE \E t \in ChromeTabs, w \in OpenNow \cup FreeNumbers \cup {NoWindow} : Rearrange([place EXCEPT ![t] = w])
    <3>1. \A t \in ChromeTabs, w \in ChromeWindows \cup {NoWindow} : [place EXCEPT ![t] = w] \in Arrangements
      BY DEF ChromeTypes, Arrangements
    <3> QED
      BY <1>1, <2>1, <2>2, <2>3, <3>1, Rearranged
  <2>4. CASE \E w \in OpenNow, t \in ChromeTabs : Show(w, t)
    BY <1>1, <2>1, <2>4, ShownOrRaised
  <2>5. CASE \E w \in OpenNow \cup {NoWindow} : Raise(w)
    <3>1. PICK w \in OpenNow \cup {NoWindow} : Raise(w)
      BY <2>5
    <3>2. chrome' = chrome /\ place' = place /\ byHand' = byHand /\ quiet' = 0 /\ OpenNow' = OpenNow
      BY <3>1 DEF Raise, OpenNow, Open, TabsOf
    <3>3. ChromeTypes'
      BY <2>2, <3>1, <3>2 DEF Raise, ChromeTypes
    <3> QED
      BY <1>1, <2>1, <3>2, <3>3 DEF Unseen, GoesOn
  <2> QED
    BY <1>3, <2>3, <2>4, <2>5 DEF Browse
<1>4. CASE QuitChrome
  <2>1. PICK yes \in BOOLEAN : yes = TRUE
    OBVIOUS
  <2>2. chrome' = [chrome EXCEPT !.quitting = yes]
    BY <1>4, <2>1 DEF QuitChrome
  <2>3. UNCHANGED <<place, active, frontmost, byHand, quiet, watch, known, focused, mistold>>
    BY <1>4 DEF QuitChrome, serviceVars
  <2>4. OpenNow' = OpenNow /\ Taken' = Taken
    BY <2>3 DEF OpenNow, Open, TabsOf, Taken, WindowsNow
  <2> QED
    BY <2>1, <2>2, <2>3, <2>4 DEF Unseen, GoesOn, ChromeTypes, ChromeType
<1>5. CASE Permit
  BY <1>1, <1>5, NothingHappens DEF Permit, serviceVars
<1>6. CASE Call
  <2>1. CASE UNCHANGED <<chromeVars, quiet>> /\ UNCHANGED <<watch, known, focused, mistold>>
    BY <1>1, <2>1, NothingHappens
  <2>2. CASE \E w \in ChromeWindows, t \in ChromeTabs :
               Script(OpenTab(w, t) \/ ActivateTab(w, t) \/ FocusWindow(w) \/ CloseWindow(w) \/ DragTab(t, w))
    BY <1>1, <2>2, Scripted
  <2> QED
    BY <1>6, <2>1, <2>2 DEF Call, serviceVars
<1>7. CASE Make
  BY <1>1, <1>7, Scripted DEF Make
<1>8. CASE Quitting
  <2>1. UNCHANGED <<byHand, watch, known, focused, mistold>> /\ chrome.quitting
    BY <1>8 DEF Quitting, serviceVars
  <2>2. CASE UNCHANGED chrome /\ \E w \in OpenNow : Arrange([t \in ChromeTabs |-> IF place[t] = w THEN NoWindow ELSE place[t]])
    <3>1. \A w : [t \in ChromeTabs |-> IF place[t] = w THEN NoWindow ELSE place[t]] \in Arrangements
      BY DEF ChromeTypes, Arrangements
    <3>2. ChromeTypes' /\ quiet' = 0
      BY <2>1, <2>2, <3>1, Arranged DEF ChromeTypes, Arrangements
    <3> QED
      BY <2>1, <2>2, <3>2 DEF Unseen, GoesOn
  <2>3. CASE Arrange([t \in ChromeTabs |-> NoWindow]) /\ chrome' = [chrome EXCEPT !.up = FALSE, !.quitting = FALSE, !.seen = FALSE]
    <3>1. PICK no \in BOOLEAN : no = FALSE
      OBVIOUS
    <3>2. chrome' = [[[chrome EXCEPT !.up = no] EXCEPT !.quitting = no] EXCEPT !.seen = no]
      BY <2>3, <3>1
    <3>3. chrome' \in ChromeType /\ ~chrome'.up /\ ~chrome'.seen /\ chrome'.run = chrome.run
      BY <3>1, <3>2 DEF ChromeTypes, ChromeType
    <3>4. [t \in ChromeTabs |-> NoWindow] \in Arrangements
      BY DEF Arrangements
    <3>5. ChromeTypes' /\ quiet' = 0
      BY <2>1, <2>3, <3>3, <3>4, Arranged DEF ChromeTypes, Arrangements
    <3> QED
      BY <2>1, <3>3, <3>5 DEF Unseen, GoesOn
  <2> QED
    BY <1>8, <2>2, <2>3 DEF Quitting
<1> QED
  BY <1>2, <1>3, <1>4, <1>5, <1>6, <1>7, <1>8 DEF ChromeActs, ChromeGoes

LEMMA UnseenKeeps ==
  ASSUME ScriptInv, Unseen, UNCHANGED <<watch, known, focused, mistold>>
  PROVE  ScriptInv'
<1>1. ChromeTypes' /\ WatchTypes'
  BY DEF Unseen, ScriptInv, WatchTypes
<1>2. chrome.run \in Nat /\ watch.run \in Nat /\ watch \in WatchType
  BY DEF ScriptInv, ChromeTypes, ChromeType, WatchTypes, WatchType
<1>3. RunInv'
  BY <1>2 DEF Unseen, ScriptInv, RunInv, GoesOn, StartsAnew, ChromeTypes, ChromeType
<1>4. SameRun' => SameRun /\ GoesOn
  BY <1>2 DEF Unseen, ScriptInv, RunInv, GoesOn, StartsAnew, SameRun
<1>5. GoneInv'
  <2>1. SameRun' => /\ byHand \subseteq byHand' /\ (chrome.seen => chrome'.seen)
                    /\ ~chrome'.quitting => ~chrome.quitting /\ OpenNow \cup byHand \subseteq OpenNow' \cup byHand'
    BY <1>4 DEF GoesOn, SameRun
  <2>2. ASSUME Listening'
        PROVE  Listening /\ (watch'.run # 0 => mistold' = {})
    BY <2>2 DEF Listening, ScriptInv, GoneInv
  <2>3. ASSUME Listening', SameRun'
        PROVE  /\ ~chrome'.quitting => DOMAIN known' \subseteq OpenNow' \cup byHand'
               /\ watch'.at = "checking" \/ ~chrome'.seen => watch'.removed \cap DOMAIN known' \subseteq byHand'
               /\ watch'.at = "checking" /\ ~chrome'.quitting => DOMAIN watch'.cur.windows \subseteq OpenNow' \cup byHand'
               /\ watch'.at = "checking" /\ ~chrome'.seen => DOMAIN known' \ DOMAIN watch'.cur.windows \subseteq byHand'
    BY <1>4, <2>1, <2>2, <2>3 DEF ScriptInv, GoneInv
  <2> QED
    BY <2>2, <2>3 DEF GoneInv
<1>6. ToldInv'
  BY DEF ScriptInv, ToldInv, Listening
<1>7. QuietInv'
  BY DEF ScriptInv, QuietInv, Unseen
<1> QED
  BY <1>1, <1>3, <1>5, <1>6, <1>7 DEF ScriptInv

-----------------------------------------------------------------------------
\* What Subscribe sees and knows.
Ats == {"waiting", "naming", "connecting", "sleeping", "checking", "retrying"}

LEMMA TakenType ==
  ASSUME ChromeTypes
  PROVE  /\ WindowsNow \in WindowMaps /\ Taken \in Snapshot
         /\ DOMAIN WindowsNow = OpenNow /\ OpenNow \subseteq ChromeWindows
         /\ Taken.windows = WindowsNow /\ Taken.focused = frontmost
<1>1. OpenNow \in SUBSET ChromeWindows
  BY DEF OpenNow, Open
<1>2. \A w \in OpenNow : [tabs |-> TabsOf(place, w), shown |-> active[w]] \in WindowType
  BY <1>1 DEF TabsOf, ChromeTypes, WindowType
<1>3. WindowsNow \in [OpenNow -> WindowType]
  BY <1>2 DEF WindowsNow
<1> QED
  BY <1>1, <1>3 DEF WindowMaps, Taken, Snapshot, ChromeTypes

LEMMA Unwatching ==
  ASSUME NEW at \in Ats
  PROVE  /\ [Unwatched EXCEPT !.at = at] \in WatchType
         /\ [Unwatched EXCEPT !.at = at].at = at /\ [Unwatched EXCEPT !.at = at].run = 0
         /\ [Unwatched EXCEPT !.at = at].removed = {} /\ ~[Unwatched EXCEPT !.at = at].listed
         /\ Unwatched \in WatchType /\ Unwatched.at = "waiting" /\ Unwatched.run = 0 /\ Unwatched.removed = {}
         /\ ~Unwatched.listed /\ Unwatched.cur \in Snapshot
<1>1. PICK no \in BOOLEAN : no = FALSE
  OBVIOUS
<1> DEFINE none == [windows |-> NoWindows, focused |-> NoWindow]
<1>2. NoWindows \in [{} -> WindowType]
  BY DEF NoWindows
<1>3. none \in Snapshot
  BY <1>2 DEF Snapshot, WindowMaps
<1>4. Unwatched = [at |-> "waiting", prev |-> none, cur |-> none, removed |-> {}, failures |-> 0,
                   run |-> 0, listed |-> no, apart |-> {}]
  BY <1>1 DEF Unwatched
<1> HIDE DEF none
<1> QED
  BY <1>1, <1>3, <1>4 DEF WatchType, Ats

\* Subscribe is not listening, or has only counted a failure.
LEMMA PollFailsStep ==
  ASSUME ScriptInv, PollFails \/ OtherRun \/ Retry
  PROVE  ScriptInv'
<1>1. UNCHANGED <<chromeVars, known, focused, mistold, quiet>>
  BY DEF PollFails, OtherRun, Retry, serviceVars
<1>2. OpenNow' = OpenNow /\ Taken' = Taken /\ ChromeTypes' /\ chrome' = chrome /\ byHand' = byHand
  BY <1>1 DEF chromeVars, OpenNow, Open, TabsOf, Taken, WindowsNow, ScriptInv, ChromeTypes
<1>3. watch \in WatchType
  BY DEF ScriptInv, WatchTypes
<1>4. CASE watch' \in {Unwatched, [Unwatched EXCEPT !.at = "retrying"]}
  <2>1. watch' \in WatchType /\ watch'.at \in {"waiting", "retrying"} /\ watch'.run = 0
        /\ watch'.removed = {} /\ ~watch'.listed
    BY <1>4, Unwatching DEF Ats
  <2>2. WatchTypes'
    BY <1>1, <2>1 DEF ScriptInv, WatchTypes
  <2>3. RunInv'
    BY <1>2, <2>1 DEF ScriptInv, RunInv, ChromeTypes, ChromeType
  <2> QED
    BY <1>2, <2>1, <2>2, <2>3 DEF ScriptInv, GoneInv, ToldInv, QuietInv, Listening
<1>5. CASE watch' = [watch EXCEPT !.failures = @ + 1]
  <2>1. /\ watch' \in WatchType /\ watch'.at = watch.at /\ watch'.run = watch.run
        /\ watch'.removed = watch.removed /\ watch'.listed = watch.listed /\ watch'.apart = watch.apart
        /\ watch'.prev = watch.prev /\ watch'.cur = watch.cur
    BY <1>3, <1>5 DEF WatchType
  <2>2. WatchTypes'
    BY <1>1, <2>1 DEF ScriptInv, WatchTypes
  <2>3. RunInv' /\ GoneInv'
    BY <1>1, <1>2, <2>1 DEF ScriptInv, RunInv, GoneInv, SameRun, Listening
  <2>4. ToldInv' /\ QuietInv'
    BY <1>1, <1>2, <2>1 DEF ScriptInv, ToldInv, QuietInv, Listening
  <2> QED
    BY <1>2, <2>2, <2>3, <2>4 DEF ScriptInv
<1> QED
  BY <1>4, <1>5 DEF PollFails, OtherRun, Retry

LEMMA Polling ==
  ASSUME ScriptInv, Polls
  PROVE  /\ chrome' \in ChromeType /\ chrome'.up = chrome.up /\ chrome'.run = chrome.run
         /\ chrome'.quitting = chrome.quitting /\ chrome'.seen = chrome.quitting /\ ~chrome.seen
<1>1. PICK quitting \in BOOLEAN : quitting = chrome.quitting
  BY DEF ScriptInv, ChromeTypes, ChromeType
<1>2. chrome' = [chrome EXCEPT !.seen = quitting]
  BY <1>1 DEF Polls
<1>3. ~chrome.seen
  BY DEF Polls, ScriptInv, RunInv
<1> QED
  BY <1>1, <1>2, <1>3 DEF ScriptInv, ChromeTypes, ChromeType

LEMMA WaitStep ==
  ASSUME ScriptInv, WaitRunning \/ NameRun
  PROVE  ScriptInv'
<1>1. /\ watch \in WatchType /\ watch.removed = {} /\ ~watch.listed /\ chrome.run \in Nat
      /\ UNCHANGED <<place, active, frontmost, byHand, known, focused, mistold, quiet>>
  BY DEF WaitRunning, NameRun, WatchIs, ScriptInv, WatchTypes, RunInv, chromeVars, serviceVars, ChromeTypes, ChromeType
<1>2. chrome' \in ChromeType /\ chrome'.run = chrome.run /\ (chrome'.seen => chrome'.quitting)
  BY Polling DEF WaitRunning, NameRun, chromeVars, ScriptInv, RunInv, ChromeTypes
<1>3. /\ watch' \in WatchType /\ watch'.at \in {"waiting", "naming", "connecting"} /\ watch'.run <= chrome.run
      /\ watch'.removed = {} /\ ~watch'.listed
  <2>1. CASE WaitRunning /\ chrome.up
    <3> DEFINE one == [watch EXCEPT !.at = "naming"]
    <3>1. one \in WatchType /\ one.at = "naming" /\ one.run = watch.run /\ one.removed = watch.removed
          /\ one.listed = watch.listed
      BY <1>1 DEF WatchType
    <3>2. watch' = [one EXCEPT !.prev = Taken]
      BY <2>1, Zenon DEF WaitRunning
    <3> HIDE DEF one
    <3> QED
      BY <1>1, <3>1, <3>2, TakenType DEF WatchType, ScriptInv, RunInv
  <2>2. CASE WaitRunning /\ ~chrome.up
    <3>1. watch' = [watch EXCEPT !.failures = 0] /\ watch.at = "waiting"
      BY <2>2 DEF WaitRunning, WatchIs
    <3> QED
      BY <1>1, <3>1 DEF WatchType, ScriptInv, RunInv
  <2>3. CASE NameRun
    <3> DEFINE one == [watch EXCEPT !.at = "connecting"]
    <3>1. one \in WatchType /\ one.at = "connecting" /\ one.run = watch.run /\ one.removed = watch.removed
          /\ one.listed = watch.listed
      BY <1>1 DEF WatchType
    <3>2. PICK id \in RunID : watch' = [one EXCEPT !.run = id]
      BY <2>3, Zenon DEF NameRun
    <3>3. id \in Nat /\ id <= chrome.run
      BY <1>1, <3>2 DEF RunID
    <3> HIDE DEF one
    <3> QED
      BY <1>1, <3>1, <3>2, <3>3 DEF WatchType
  <2> QED
    BY <2>1, <2>2, <2>3
<1>4. ChromeTypes' /\ WatchTypes'
  BY <1>1, <1>2, <1>3 DEF ScriptInv, ChromeTypes, WatchTypes
<1> QED
  BY <1>2, <1>3, <1>4 DEF ScriptInv, RunInv, GoneInv, ToldInv, QuietInv, Listening

\* What differs between the snapshot before the connection and the listing is set apart.
LEMMA ListedApart ==
  ASSUME NEW prev \in Snapshot, NEW cur \in Snapshot
  PROVE  /\ Apart(prev, cur) \subseteq ChromeWindows \cup {NoWindow}
         /\ \A w \in ChromeWindows \ Apart(prev, cur) :
              /\ w \in DOMAIN cur.windows <=> w \in DOMAIN prev.windows
              /\ w \in DOMAIN prev.windows => cur.windows[w] = prev.windows[w]
         /\ prev.focused \notin Apart(prev, cur) => cur.focused = prev.focused
<1>1. DOMAIN prev.windows \subseteq ChromeWindows /\ DOMAIN cur.windows \subseteq ChromeWindows
  BY DEF Snapshot, WindowMaps
<1>2. prev.focused \in ChromeWindows \cup {NoWindow} /\ cur.focused \in ChromeWindows \cup {NoWindow}
  BY DEF Snapshot
<1> QED
  BY <1>1, <1>2 DEF Apart, Created, Removed, Changed

LEMMA ConnectedStep ==
  ASSUME ScriptInv, Connected
  PROVE  ScriptInv'
<1>1. /\ watch \in WatchType /\ watch.removed = {} /\ ~watch.listed
      /\ UNCHANGED chromeVars /\ mistold' = {} /\ quiet' = 0
  BY DEF Connected, WatchIs, ScriptInv, WatchTypes, RunInv
<1>2. OpenNow' = OpenNow /\ ChromeTypes' /\ chrome' = chrome /\ byHand' = byHand
  BY <1>1 DEF chromeVars, OpenNow, Open, TabsOf, ScriptInv, ChromeTypes
<1> DEFINE one == [watch EXCEPT !.at = "sleeping"]
           two == [one EXCEPT !.failures = 0]
<1>3. /\ one \in WatchType /\ one.at = "sleeping" /\ one.run = watch.run /\ one.removed = {} /\ ~one.listed
      /\ one.prev = watch.prev
  BY <1>1 DEF WatchType
<1>4. /\ two \in WatchType /\ two.at = "sleeping" /\ two.run = watch.run /\ two.removed = {} /\ ~two.listed
      /\ two.prev = watch.prev
  BY <1>3 DEF WatchType, one
<1>5. CASE watch' = [watch EXCEPT !.at = "sleeping", !.failures = 0] /\ UNCHANGED <<known, focused>>
  <2>1. watch' = two
    BY <1>5, Zenon
  <2> HIDE DEF one, two
  <2>2. WatchTypes' /\ RunInv'
    BY <1>1, <1>2, <1>4, <1>5, <2>1 DEF ScriptInv, WatchTypes, RunInv
  <2> QED
    BY <1>1, <1>2, <1>4, <2>1, <2>2 DEF ScriptInv, GoneInv, ToldInv, QuietInv, Listening
<1>6. CASE /\ watch' = [watch EXCEPT !.at = "sleeping", !.failures = 0, !.listed = TRUE,
                                     !.apart = Apart(watch.prev, Taken)]
           /\ known' = WindowsNow /\ focused' = frontmost
  <2>1. PICK yes \in BOOLEAN : yes = TRUE
    OBVIOUS
  <2>2. Taken \in Snapshot /\ watch.prev \in Snapshot
    BY <1>1, TakenType DEF WatchType, ScriptInv
  <2> DEFINE apart == Apart(watch.prev, Taken)
             three == [two EXCEPT !.listed = yes]
  <2>3. watch' = [three EXCEPT !.apart = apart]
    BY <1>6, <2>1, Zenon
  <2> HIDE DEF one, two
  <2>4. /\ three \in WatchType /\ three.at = "sleeping" /\ three.run = watch.run /\ three.removed = {}
        /\ three.listed = yes /\ three.prev = watch.prev
    BY <1>4, <2>1 DEF WatchType
  <2> HIDE DEF three
  <2>5. apart \subseteq ChromeWindows \cup {NoWindow}
    BY <2>2, ListedApart
  <2> HIDE DEF apart
  <2>6. /\ watch' \in WatchType /\ watch'.at = "sleeping" /\ watch'.run = watch.run /\ watch'.removed = {}
        /\ watch'.prev = watch.prev /\ watch'.apart = apart
    BY <2>3, <2>4, <2>5 DEF WatchType
  <2>7. WatchTypes' /\ RunInv'
    BY <1>1, <1>2, <1>6, <2>6, TakenType DEF ScriptInv, WatchTypes, RunInv, ChromeTypes
  <2>8. GoneInv'
    BY <1>1, <1>2, <1>6, <2>6, TakenType DEF ScriptInv, GoneInv
  <2>9. ToldInv'
    <3>1. /\ \A w \in ChromeWindows \ apart :
               /\ w \in DOMAIN WindowsNow <=> w \in DOMAIN watch.prev.windows
               /\ w \in DOMAIN watch.prev.windows => WindowsNow[w] = watch.prev.windows[w]
          /\ watch.prev.focused \notin apart => frontmost = watch.prev.focused
      BY <2>2, ListedApart, TakenType DEF ScriptInv, apart
    <3> QED
      BY <1>6, <2>6, <3>1 DEF ToldInv
  <2>10. QuietInv'
    BY <1>1, <2>6 DEF QuietInv
  <2> QED
    BY <1>2, <2>7, <2>8, <2>9, <2>10 DEF ScriptInv
<1> QED
  BY <1>5, <1>6 DEF Connected

LEMMA PollAgainStep ==
  ASSUME ScriptInv, PollAgain
  PROVE  ScriptInv'
<1>1. /\ watch \in WatchType /\ watch.at = "sleeping" /\ watch.run <= chrome.run
      /\ UNCHANGED <<place, active, frontmost, byHand, known, focused, mistold>>
  BY DEF PollAgain, WatchIs, ScriptInv, WatchTypes, RunInv, serviceVars
<1>2. /\ chrome' \in ChromeType /\ chrome'.up = chrome.up /\ chrome'.run = chrome.run
      /\ chrome'.quitting = chrome.quitting /\ chrome'.seen = chrome.quitting /\ ~chrome.seen
  BY Polling DEF PollAgain
<1>3. /\ OpenNow' = OpenNow /\ Taken' = Taken /\ ChromeTypes'
  BY <1>1, <1>2 DEF OpenNow, Open, TabsOf, Taken, WindowsNow, ScriptInv, ChromeTypes
<1>4. quiet' \in 0 .. 2 /\ (quiet' = 2 => quiet > 0)
  BY DEF PollAgain, ScriptInv, WatchTypes
<1>5. CASE ~chrome.up
  <2>1. watch' = [Unwatched EXCEPT !.at = "retrying"]
    BY <1>5 DEF PollAgain
  <2>2. watch' \in WatchType /\ watch'.at = "retrying" /\ watch'.run = 0
    BY <2>1, Unwatching DEF Ats
  <2>3. WatchTypes' /\ RunInv'
    BY <1>1, <1>2, <1>4, <2>2 DEF ScriptInv, WatchTypes, RunInv, ChromeType
  <2> QED
    BY <1>3, <2>2, <2>3 DEF ScriptInv, GoneInv, ToldInv, QuietInv, Listening
<1>6. CASE chrome.up
  <2> DEFINE one == [watch EXCEPT !.at = "checking"]
             two == [one EXCEPT !.cur = Taken]
  <2>1. watch' = [two EXCEPT !.failures = 0]
    BY <1>6, Zenon DEF PollAgain
  <2>2. /\ one \in WatchType /\ one.at = "checking" /\ one.run = watch.run /\ one.removed = watch.removed
        /\ one.listed = watch.listed /\ one.prev = watch.prev /\ one.apart = watch.apart
    BY <1>1 DEF WatchType
  <2> HIDE DEF one
  <2>3. /\ two \in WatchType /\ two.at = "checking" /\ two.run = watch.run /\ two.removed = watch.removed
        /\ two.listed = watch.listed /\ two.prev = watch.prev /\ two.apart = watch.apart /\ two.cur = Taken
    BY <2>2, TakenType DEF WatchType, ScriptInv
  <2> HIDE DEF two
  <2>4. /\ watch' \in WatchType /\ watch'.at = "checking" /\ watch'.run = watch.run
        /\ watch'.removed = watch.removed /\ watch'.listed = watch.listed /\ watch'.prev = watch.prev
        /\ watch'.apart = watch.apart /\ watch'.cur = Taken
    BY <2>1, <2>3 DEF WatchType
  <2>5. WatchTypes' /\ RunInv'
    BY <1>1, <1>2, <1>4, <2>4 DEF ScriptInv, WatchTypes, RunInv
  <2>6. GoneInv'
    BY <1>1, <1>2, <1>3, <2>4, TakenType DEF ScriptInv, GoneInv, SameRun, Listening
  <2>7. ToldInv'
    BY <1>1, <2>4 DEF ScriptInv, ToldInv, Listening
  <2>8. QuietInv'
    BY <1>1, <1>3, <1>4, <2>4 DEF ScriptInv, QuietInv
  <2> QED
    BY <1>3, <2>5, <2>6, <2>7, <2>8 DEF ScriptInv
<1> QED
  BY <1>5, <1>6

\* What the service knows after it was told: the last snapshot, and what is held back.
LEMMA Telling ==
  ASSUME ScriptInv, Tell
  PROVE  LET prev == watch.prev  cur == watch.cur
             told == Created(prev, cur) \cup Changed(prev, cur) IN
         /\ watch.at = "checking" /\ prev \in Snapshot /\ cur \in Snapshot
         /\ told \subseteq DOMAIN cur.windows
         /\ DOMAIN known' = (DOMAIN known \ watch.removed) \cup told
         /\ \A w \in DOMAIN known' : known'[w] = IF w \in told THEN cur.windows[w] ELSE known[w]
         /\ known' \in WindowMaps
         /\ mistold' = mistold \cup ((watch.removed \cap DOMAIN known) \ byHand)
         /\ focused' = IF FocusMoved(prev, cur) THEN cur.focused ELSE focused
<1> DEFINE prev == watch.prev
           cur == watch.cur
           told == Created(prev, cur) \cup Changed(prev, cur)
           next == (DOMAIN known \ watch.removed) \cup told
<1>1. watch.at = "checking" /\ prev \in Snapshot /\ cur \in Snapshot
  BY DEF Tell, WatchIs, ScriptInv, WatchTypes, WatchType
<1>2. told \subseteq DOMAIN cur.windows /\ cur.windows \in WindowMaps
  BY <1>1 DEF Created, Changed, Snapshot
<1>3. /\ known' = [w \in next |-> IF w \in told THEN cur.windows[w] ELSE known[w]]
      /\ mistold' = mistold \cup ((watch.removed \cap DOMAIN known) \ byHand)
      /\ focused' = IF FocusMoved(prev, cur) THEN cur.focused ELSE focused
  BY DEF Tell, TellOf
<1> HIDE DEF told
<1>4. next \subseteq ChromeWindows
  BY <1>2 DEF WindowMaps, ScriptInv, WatchTypes
<1>5. \A w \in next : (IF w \in told THEN cur.windows[w] ELSE known[w]) \in WindowType
  BY <1>2 DEF WindowMaps, ScriptInv, WatchTypes
<1>6. known' \in [next -> WindowType] /\ next \in SUBSET ChromeWindows
  BY <1>3, <1>4, <1>5
<1>7. known' \in WindowMaps
  BY <1>6 DEF WindowMaps
<1> QED
  BY <1>1, <1>2, <1>3, <1>7 DEF told

LEMMA TellStep ==
  ASSUME ScriptInv, Tell
  PROVE  ScriptInv'
<1> DEFINE prev == watch.prev
           cur == watch.cur
           told == Created(prev, cur) \cup Changed(prev, cur)
<1>1. /\ watch \in WatchType /\ watch.at = "checking" /\ watch.run \in RunID \cup {0}
      /\ UNCHANGED <<chromeVars, quiet>>
  BY DEF Tell, WatchIs, ScriptInv, WatchTypes
<1>2. /\ OpenNow' = OpenNow /\ Taken' = Taken /\ ChromeTypes' /\ chrome' = chrome /\ byHand' = byHand
  BY <1>1 DEF chromeVars, OpenNow, Open, TabsOf, Taken, WindowsNow, ScriptInv, ChromeTypes
<1>3. /\ prev \in Snapshot /\ cur \in Snapshot /\ told \subseteq DOMAIN cur.windows
      /\ DOMAIN known' = (DOMAIN known \ watch.removed) \cup told
      /\ \A w \in DOMAIN known' : known'[w] = IF w \in told THEN cur.windows[w] ELSE known[w]
      /\ known' \in WindowMaps
      /\ mistold' = mistold \cup ((watch.removed \cap DOMAIN known) \ byHand)
      /\ focused' = IF FocusMoved(prev, cur) THEN cur.focused ELSE focused
  BY Telling
<1>4. /\ watch' \in WatchType /\ watch'.at = "sleeping" /\ watch'.run = watch.run
      /\ watch'.removed = Removed(prev, cur) /\ watch'.listed = watch.listed /\ watch'.prev = cur
      /\ watch'.apart = watch.apart
  <2> DEFINE one == [watch EXCEPT !.at = "sleeping"]
             two == [one EXCEPT !.prev = watch.cur]
             none == Unwatched.cur
             three == [two EXCEPT !.cur = none]
             gone == Removed(watch.prev, watch.cur)
  <2>1. watch' = [three EXCEPT !.removed = gone]
    BY Zenon DEF Tell
  <2>2. none \in Snapshot /\ gone \subseteq ChromeWindows
    BY <1>3, Unwatching DEF Ats, Removed, Snapshot, WindowMaps
  <2> HIDE DEF none, gone
  <2>3. /\ one \in WatchType /\ one.at = "sleeping" /\ one.run = watch.run
        /\ one.listed = watch.listed /\ one.apart = watch.apart
    BY <1>1 DEF WatchType
  <2> HIDE DEF one
  <2>4. /\ two \in WatchType /\ two.at = "sleeping" /\ two.run = watch.run
        /\ two.listed = watch.listed /\ two.apart = watch.apart /\ two.prev = watch.cur
    BY <1>3, <2>3 DEF WatchType
  <2> HIDE DEF two
  <2>5. /\ three \in WatchType /\ three.at = "sleeping" /\ three.run = watch.run
        /\ three.listed = watch.listed /\ three.apart = watch.apart /\ three.prev = watch.cur
    BY <2>2, <2>4 DEF WatchType
  <2> HIDE DEF three
  <2>6. /\ watch' \in WatchType /\ watch'.at = "sleeping" /\ watch'.run = watch.run
        /\ watch'.listed = watch.listed /\ watch'.apart = watch.apart /\ watch'.prev = watch.cur
        /\ watch'.removed = gone
    BY <2>1, <2>2, <2>5 DEF WatchType
  <2> QED
    BY <2>6 DEF gone
<1>5. focused' \in ChromeWindows \cup {NoWindow}
  BY <1>3 DEF Snapshot, ScriptInv, WatchTypes
<1>6. WatchTypes' /\ RunInv'
  BY <1>1, <1>2, <1>3, <1>4, <1>5 DEF ScriptInv, WatchTypes, RunInv
<1>7. GoneInv'
  <2> SUFFICES ASSUME Listening'
               PROVE  /\ watch'.run # 0 => mistold' = {}
                      /\ SameRun' => /\ ~chrome.quitting => DOMAIN known' \subseteq OpenNow \cup byHand
                                     /\ ~chrome.seen => watch'.removed \cap DOMAIN known' \subseteq byHand
    BY <1>2, <1>4 DEF GoneInv
  <2>1. Listening /\ (watch.run # 0 => SameRun)
    BY <1>1, <1>4 DEF Listening, RunID, SameRun
  <2>2. watch.run # 0 => mistold' = {}
    BY <1>1, <1>3, <2>1 DEF ScriptInv, GoneInv
  <2>3. SameRun' => SameRun
    BY <1>2, <1>4 DEF SameRun
  <2>4. SameRun /\ ~chrome.quitting => DOMAIN known' \subseteq OpenNow \cup byHand
    BY <1>1, <1>3, <2>1 DEF ScriptInv, GoneInv
  <2>5. SameRun /\ ~chrome.seen => watch'.removed \cap DOMAIN known' \subseteq byHand
    <3>1. Removed(prev, cur) \cap DOMAIN cur.windows = {}
      BY DEF Removed
    <3> QED
      BY <1>1, <1>3, <1>4, <2>1, <3>1 DEF ScriptInv, GoneInv
  <2> QED
    BY <1>4, <2>2, <2>3, <2>4, <2>5
<1>8. ToldInv'
  <2> SUFFICES ASSUME Listening'
               PROVE  /\ Removed(prev, cur) \cap DOMAIN cur.windows = {}
                      /\ \A w \in ChromeWindows \ watch.apart :
                           /\ w \in DOMAIN known' <=> w \in DOMAIN cur.windows \cup Removed(prev, cur)
                           /\ w \in DOMAIN cur.windows => known'[w] = cur.windows[w]
                      /\ cur.focused \notin watch.apart \cup {NoWindow} => focused' = cur.focused
    BY <1>4 DEF ToldInv
  <2>1. /\ watch.removed \cap DOMAIN prev.windows = {}
        /\ \A w \in ChromeWindows \ watch.apart :
             /\ w \in DOMAIN known <=> w \in DOMAIN prev.windows \cup watch.removed
             /\ w \in DOMAIN prev.windows => known[w] = prev.windows[w]
        /\ prev.focused \notin watch.apart \cup {NoWindow} => focused = prev.focused
    BY <1>1, <1>4 DEF Listening, ScriptInv, ToldInv
  <2>2. Removed(prev, cur) \cap DOMAIN cur.windows = {}
    BY DEF Removed
  <2>3. ASSUME NEW w \in ChromeWindows \ watch.apart
        PROVE  /\ w \in DOMAIN known' <=> w \in DOMAIN cur.windows \cup Removed(prev, cur)
               /\ w \in DOMAIN cur.windows => known'[w] = cur.windows[w]
    BY <1>3, <2>1 DEF Created, Changed, Removed
  <2>4. cur.focused \notin watch.apart \cup {NoWindow} => focused' = cur.focused
    BY <1>3, <2>1 DEF FocusMoved
  <2> QED
    BY <2>2, <2>3, <2>4
<1>9. QuietInv'
  <2>1. quiet = 2 => Removed(prev, cur) = {}
    BY <1>1 DEF ScriptInv, QuietInv, Removed
  <2> QED
    BY <1>1, <1>2, <1>4, <2>1 DEF ScriptInv, QuietInv
<1> QED
  BY <1>2, <1>6, <1>7, <1>8, <1>9 DEF ScriptInv

LEMMA ScriptBegins == ScriptInit => ScriptInv
<1> SUFFICES ASSUME ScriptInit
             PROVE  ScriptInv
  OBVIOUS
<1>1. PICK up \in BOOLEAN, no \in BOOLEAN :
        no = FALSE /\ chrome = [up |-> up, run |-> IF up THEN 1 ELSE 0, quitting |-> no, seen |-> no]
  BY DEF ScriptInit
<1>2. chrome \in ChromeType /\ ~chrome.seen /\ chrome.run \in Nat
  BY <1>1 DEF ChromeType
<1>3. \A w \in OpenNow : (CHOOSE t \in ChromeTabs : place[t] = w) \in ChromeTabs
  BY DEF OpenNow, Open, TabsOf
<1>4. ChromeTypes
  BY <1>2, <1>3 DEF ScriptInit, ChromeTypes
<1>5. /\ watch \in WatchType /\ watch.at = "waiting" /\ watch.run = 0 /\ watch.removed = {} /\ ~watch.listed
  BY Unwatching DEF ScriptInit, Ats
<1>6. known \in WindowMaps
  <2>1. NoWindows \in [{} -> WindowType]
    BY DEF NoWindows
  <2> QED
    BY <2>1 DEF WindowMaps, ScriptInit
<1> QED
  BY <1>2, <1>4, <1>5, <1>6 DEF ScriptInit, ScriptInv, WatchTypes, RunInv, GoneInv, ToldInv, QuietInv, Listening

LEMMA ScriptStays == ScriptInv /\ [ChromeActs \/ ChromeGoes \/ Follow]_scriptVars => ScriptInv'
<1> SUFFICES ASSUME ScriptInv, [ChromeActs \/ ChromeGoes \/ Follow]_scriptVars
             PROVE  ScriptInv'
  OBVIOUS
<1>1. CASE ChromeActs \/ ChromeGoes
  BY <1>1, UnseenSteps, UnseenKeeps DEF ScriptInv
<1>2. CASE Follow
  BY <1>2, PollFailsStep, WaitStep, ConnectedStep, PollAgainStep, TellStep DEF Follow
<1>3. CASE UNCHANGED scriptVars
  <2>1. Unseen /\ UNCHANGED <<watch, known, focused, mistold>>
    BY <1>3, NothingHappens DEF scriptVars, serviceVars, ScriptInv, RunInv
  <2> QED
    BY <2>1, UnseenKeeps
<1> QED
  BY <1>1, <1>2, <1>3

\* Chrome that quits, or is started again between two polls, is never told as its windows
\* being closed, for any windows, tabs and scripts: the poll that would tell it runs in the
\* process Subscribe watches, and no second poll sees a Chrome that is quitting.
THEOREM QuittingIsNotTold == ScriptSpec => []QuitIsNotClosing
<1>1. ScriptInv => QuitIsNotClosing
  BY DEF ScriptInv, GoneInv, Listening, QuitIsNotClosing
<1> QED
  BY ScriptBegins, ScriptStays, <1>1, PTL DEF ScriptSpec

\* After two polls that follow the last change the service knows the windows, their tabs and
\* the focus, whatever happened between the polls before, but for what changed between the
\* first poll and the listing.
THEOREM SettledChangesAreTold == ScriptSpec => []SettledIsTold
<1>1. ScriptInv => SettledIsTold
  <2> SUFFICES ASSUME ScriptInv, watch.at = "sleeping", watch.listed, quiet = 2
               PROVE  /\ \A w \in ChromeWindows \ watch.apart :
                           /\ w \in DOMAIN known <=> w \in OpenNow
                           /\ w \in OpenNow => known[w] = WindowsNow[w]
                      /\ frontmost \notin watch.apart \cup {NoWindow} => focused = frontmost
    BY DEF SettledIsTold
  <2>1. watch.prev = Taken /\ watch.removed = {}
    BY DEF ScriptInv, QuietInv
  <2> QED
    BY <2>1, TakenType DEF ScriptInv, ToldInv, Listening
<1> QED
  BY ScriptBegins, ScriptStays, <1>1, PTL DEF ScriptSpec
=============================================================================
