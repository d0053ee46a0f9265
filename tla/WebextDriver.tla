---------------------------- MODULE WebextDriver ----------------------------
(***************************************************************************)
(* The driver of a browser that is reached through its extension:          *)
(* internal/webext/driver.go with the extension, extension/background.js.  *)
(* The extension keeps one websocket to the daemon.  The driver serves     *)
(* every connection in a goroutine of its own (serve), the newest one      *)
(* replaces the one before it (swap), callers send requests and wait for   *)
(* the answer of the same number (call, resolve, failPending), and the     *)
(* goroutine of Subscribe hands the state of the connection and the events *)
(* of the extension to the browser service.                                *)
(*                                                                         *)
(* The hello of a connection is taken as accepted: connections of another  *)
(* origin, browser or protocol never reach swap.  Of the events, the       *)
(* "tabs.changed" of a window are modelled, the only ones that coalesce.   *)
(***************************************************************************)
EXTENDS Naturals, Sequences, FiniteSets

CONSTANTS
  Callers,  \* goroutines of the browser service
  Links,    \* websockets the extension may open
  Windows,  \* windows of the browser
  Buffer,   \* capacity of the channel of events (256)
  None      \* no connection

ASSUME NoneIsNoLink == None \notin Links \cup Windows
ASSUME BufferHoldsOne == Buffer \in Nat \ {0}

VARIABLES
  socket,      \* the websocket the extension uses
  link,        \* every websocket: how far its serve has come, and its generation
  current,     \* d.conn
  generation,  \* d.generation
  pending,     \* c.pending of every connection: requests without an answer
  lastId,      \* d.nextID
  call,        \* what every caller is doing
  requests,    \* requests on the wire
  answers,     \* answers on the wire
  performed,   \* requests the extension has carried out
  answered,    \* history: requests whose caller returned without an error
  signal,      \* the channel stateChanged holds a signal
  events,      \* the channel of events
  marked,      \* queuedTabs
  sub,         \* the goroutine of Subscribe
  unseen       \* history: changes whose event the service has not been handed

callVars  == <<pending, lastId, call, requests, answers, performed, answered>>
eventVars == <<events, marked, sub, unseen>>
driverVars == <<socket, link, current, generation, callVars, signal, eventVars>>

NoCall  == [at |-> "idle", link |-> None, id |-> 0, box |-> "empty"]
Fresh   == [at |-> "none", gen |-> 0]
Event   == [gen : Nat, window : Windows]
NoEvent == [gen |-> 0, window |-> None]

DriverInit ==
  /\ socket = None
  /\ link = [k \in Links |-> Fresh]
  /\ current = None
  /\ generation = 0
  /\ pending = [k \in Links |-> {}]
  /\ lastId = 0
  /\ call = [c \in Callers |-> NoCall]
  /\ requests = [k \in Links |-> {}]
  /\ answers = [k \in Links |-> {}]
  /\ performed = {}
  /\ answered = {}
  /\ signal = FALSE
  /\ events = <<>>
  /\ marked = {}
  /\ sub = [at |-> "select", gen |-> 0, connected |-> FALSE, event |-> NoEvent]
  /\ unseen = {}

-----------------------------------------------------------------------------
(***************************************************************************)
(* The extension and the network.  A websocket is connecting, open (the    *)
(* hello is under way), then as far as the driver's serve brings it; it    *)
(* may break at any time.                                                  *)
(***************************************************************************)
At(k, states) == link[k].at \in states
Move(k, at)   == link' = [link EXCEPT ![k].at = at]
Alive         == {"connecting", "open", "swapped", "serving"}

\* connect: by the retry timer, the alarm or the start of the browser.
Connect(k) ==
  /\ socket = None
  /\ At(k, {"none"})
  /\ socket' = k
  /\ Move(k, "connecting")
  /\ UNCHANGED <<current, generation, callVars, signal, eventVars>>

\* onopen: the hello is sent.
Opened(k) ==
  /\ socket = k
  /\ At(k, {"connecting"})
  /\ Move(k, "open")
  /\ UNCHANGED <<socket, current, generation, callVars, signal, eventVars>>

\* The connection breaks, or the extension abandons a websocket that does not open.
\* A connection the driver never took on leaves nothing behind; of the requests
\* on the wire the extension still carries out those it has read, and answers them
\* on the connection that comes next.
Break(k) ==
  /\ At(k, Alive)
  /\ Move(k, IF At(k, {"connecting", "open"}) THEN "gone"
             ELSE IF At(k, {"swapped"}) THEN "swappedBroken" ELSE "broken")
  /\ \E read \in SUBSET requests[k] : requests' = [requests EXCEPT ![k] = read]
  /\ answers' = [answers EXCEPT ![k] = {}]
  /\ UNCHANGED <<socket, current, generation, pending, lastId, call, performed, answered,
                 signal, eventVars>>

\* onclose, which may come long before the driver notices, or after it.
Closed(k) ==
  /\ socket = k
  /\ ~At(k, Alive)
  /\ socket' = None
  /\ UNCHANGED <<link, current, generation, callVars, signal, eventVars>>

-----------------------------------------------------------------------------
(***************************************************************************)
(* serve: swap, the reader, drop.  The signal of stateChanged is sent      *)
(* after the mutex is released; it is lost when one is there already.      *)
(***************************************************************************)
Swap(k) ==
  /\ At(k, {"open"})
  /\ current' = k
  /\ generation' = generation + 1
  /\ link' = [link EXCEPT ![k] = [at |-> "swapped", gen |-> generation']]
  /\ UNCHANGED <<socket, callVars, signal, eventVars>>

SignalState(k) ==
  /\ At(k, {"swapped", "swappedBroken"})
  /\ signal' = TRUE
  /\ Move(k, IF At(k, {"swapped"}) THEN "serving" ELSE "broken")
  /\ UNCHANGED <<socket, current, generation, callVars, eventVars>>

\* The connection that replaced this one closes it ("replaced").
CloseReplaced(k) ==
  /\ At(k, {"serving"})
  /\ current # k
  /\ Break(k)

\* Mutant of Drop: the connection in use is forgotten although another replaced it.
DropAny(k) ==
  /\ At(k, {"broken"})
  /\ current' = None
  /\ Move(k, IF current = k THEN "dropped" ELSE "failing")
  /\ UNCHANGED <<socket, generation, callVars, signal, eventVars>>

\* drop, under the mutex of the driver, when the reader has noticed the end.
Drop(k) ==
  /\ At(k, {"broken"})
  /\ current' = IF current = k THEN None ELSE current
  /\ Move(k, IF current = k THEN "dropped" ELSE "failing")
  /\ UNCHANGED <<socket, generation, callVars, signal, eventVars>>

\* failPending closes the channels of the calls that still wait.
FailPending(k) ==
  /\ At(k, {"dropped", "failing"})
  /\ call' = [c \in Callers |-> IF call[c].id \in pending[k]
                                THEN [call[c] EXCEPT !.box = "closed"] ELSE call[c]]
  /\ pending' = [pending EXCEPT ![k] = {}]
  /\ Move(k, IF At(k, {"dropped"}) THEN "signalling" ELSE "gone")
  /\ UNCHANGED <<socket, current, generation, lastId, requests, answers, performed, answered,
                 signal, eventVars>>

SignalDropped(k) ==
  /\ At(k, {"signalling"})
  /\ signal' = TRUE
  /\ Move(k, "gone")
  /\ UNCHANGED <<socket, current, generation, callVars, eventVars>>

-----------------------------------------------------------------------------
(***************************************************************************)
(* call.  A caller holds the connection it began with; the answer comes    *)
(* through a channel of its own.                                           *)
(***************************************************************************)
Begin(c) ==
  /\ call[c] = NoCall
  /\ current # None
  /\ call' = [call EXCEPT ![c] = [NoCall EXCEPT !.at = "began", !.link = current]]
  /\ UNCHANGED <<socket, link, current, generation, pending, lastId, requests, answers,
                 performed, answered, signal, eventVars>>

\* The number is taken and the channel registered, unless failPending has run.
Register(c) ==
  LET k == call[c].link IN
  /\ call[c].at = "began"
  /\ lastId' = lastId + 1
  /\ IF At(k, {"signalling", "gone"})
     THEN call' = [call EXCEPT ![c] = NoCall] /\ UNCHANGED pending
     ELSE /\ call' = [call EXCEPT ![c].at = "registered", ![c].id = lastId']
          /\ pending' = [pending EXCEPT ![k] = @ \cup {lastId'}]
  /\ UNCHANGED <<socket, link, current, generation, requests, answers, performed, answered,
                 signal, eventVars>>

\* The caller returns; its channel is taken out of pending.
Return(c) ==
  /\ call' = [call EXCEPT ![c] = NoCall]
  /\ pending' = [pending EXCEPT ![call[c].link] = @ \ {call[c].id}]
  /\ UNCHANGED <<socket, link, current, generation, lastId, requests, answers, performed,
                 signal, eventVars>>

\* The request is written; what is written to a broken connection is lost.
Write(c) ==
  LET k == call[c].link IN
  /\ call[c].at = "registered"
  /\ call' = [call EXCEPT ![c].at = "waiting"]
  /\ requests' = [requests EXCEPT ![k] =
                    IF At(k, {"swapped", "serving"}) THEN @ \cup {call[c].id} ELSE @]
  /\ UNCHANGED <<socket, link, current, generation, pending, lastId, answers, performed,
                 answered, signal, eventVars>>

WriteFails(c) ==
  /\ call[c].at = "registered"
  /\ ~At(call[c].link, {"swapped", "serving"})
  /\ Return(c)
  /\ UNCHANGED answered

\* The extension handles requests concurrently and answers each once (handle): on
\* the websocket it uses when the answer is ready, whichever the request came by
\* (send), and not at all while it has none whose hello is sent.
Perform(k, r) ==
  /\ r \in requests[k]
  /\ requests' = [requests EXCEPT ![k] = @ \ {r}]
  /\ answers' = IF socket # None /\ At(socket, {"open", "swapped", "serving"})
                THEN [answers EXCEPT ![socket] = @ \cup {r}] ELSE answers
  /\ performed' = performed \cup {r}
  /\ UNCHANGED <<socket, link, current, generation, pending, lastId, call, answered,
                 signal, eventVars>>

\* Mutant of Resolve: an answer goes to whoever waits on the connection.
ResolveAny(k, r) ==
  /\ At(k, {"serving"})
  /\ r \in answers[k]
  /\ answers' = [answers EXCEPT ![k] = @ \ {r}]
  /\ pending' = pending
  /\ call' = [c \in Callers |-> IF call[c].link = k /\ call[c].at = "waiting"
                                THEN [call[c] EXCEPT !.box = "answer"] ELSE call[c]]
  /\ UNCHANGED <<socket, link, current, generation, lastId, requests, performed, answered,
                 signal, eventVars>>

\* The reader hands an answer to the channel registered under its number on this
\* connection, if any: an answer to a request of an earlier one finds none.
Resolve(k, r) ==
  /\ At(k, {"serving"})
  /\ r \in answers[k]
  /\ answers' = [answers EXCEPT ![k] = @ \ {r}]
  /\ pending' = [pending EXCEPT ![k] = @ \ {r}]
  /\ call' = [c \in Callers |-> IF r \in pending[k] /\ call[c].id = r
                                THEN [call[c] EXCEPT !.box = "answer"] ELSE call[c]]
  /\ UNCHANGED <<socket, link, current, generation, lastId, requests, performed, answered,
                 signal, eventVars>>

Receive(c) ==
  /\ call[c].at = "waiting"
  /\ call[c].box # "empty"
  /\ answered' = IF call[c].box = "answer" THEN answered \cup {call[c].id} ELSE answered
  /\ Return(c)

\* The 5 s of the driver, or the caller's own deadline; select may take it
\* although the answer is there.
Timeout(c) ==
  /\ call[c].at = "waiting"
  /\ Return(c)
  /\ UNCHANGED answered

-----------------------------------------------------------------------------
(***************************************************************************)
(* Events.  emit and the goroutine of Subscribe.                           *)
(***************************************************************************)
\* Mutant of Emit: the mark stays when the channel is full.
EmitMarked(k, w) ==
  LET e == [gen |-> link[k].gen, window |-> w] IN
  /\ At(k, {"serving"})
  /\ marked' = marked \cup {e}
  /\ IF e \notin marked /\ Len(events) < Buffer
     THEN events' = Append(events, e) ELSE UNCHANGED events
  /\ unseen' = IF e \in marked \/ Len(events) < Buffer THEN unseen \cup {e} ELSE unseen \ {e}
  /\ UNCHANGED <<socket, link, current, generation, callVars, signal, sub>>

\* The tabs of w changed and the reader emits the event: dropped when one is
\* queued already, or when the channel is full.
Emit(k, w) ==
  LET e == [gen |-> link[k].gen, window |-> w]
      full == Len(events) >= Buffer IN
  /\ At(k, {"serving"})
  /\ IF e \in marked THEN UNCHANGED <<marked, events>>
     ELSE IF full THEN UNCHANGED <<marked, events>>
     ELSE marked' = marked \cup {e} /\ events' = Append(events, e)
  /\ unseen' = IF e \in marked \/ ~full THEN unseen \cup {e} ELSE unseen \ {e}
  /\ UNCHANGED <<socket, link, current, generation, callVars, signal, sub>>

TakeSignal ==
  /\ sub.at = "select"
  /\ signal
  /\ signal' = FALSE
  /\ sub' = [sub EXCEPT !.at = "syncing"]
  /\ UNCHANGED <<socket, link, current, generation, callVars, events, marked, unseen>>

TakeEvent ==
  /\ sub.at = "select"
  /\ events # <<>>
  /\ events' = Tail(events)
  /\ sub' = [sub EXCEPT !.at = "dequeuing", !.event = Head(events)]
  /\ UNCHANGED <<socket, link, current, generation, callVars, signal, marked, unseen>>

\* The mark of the event is taken off, and a signal that is there is drained.
Dequeue ==
  /\ sub.at = "dequeuing"
  /\ marked' = marked \ {sub.event}
  /\ signal' = FALSE
  /\ sub' = [sub EXCEPT !.at = "syncing"]
  /\ UNCHANGED <<socket, link, current, generation, callVars, events, unseen>>

\* syncState: the service is told of a connection it has not been told of, or of the end.
SyncState ==
  /\ sub.at = "syncing"
  /\ sub' = [sub EXCEPT !.at = IF sub.event = NoEvent THEN "select" ELSE "handing",
                        !.connected = current # None,
                        !.gen = IF current # None THEN generation ELSE @]
  /\ UNCHANGED <<socket, link, current, generation, callVars, signal, events, marked, unseen>>

\* The event is handed over if it is of the connection the service knows.
HandOver ==
  /\ sub.at = "handing"
  /\ unseen' = IF sub.connected /\ sub.event.gen = sub.gen THEN unseen \ {sub.event} ELSE unseen
  /\ sub' = [sub EXCEPT !.at = "select", !.event = NoEvent]
  /\ UNCHANGED <<socket, link, current, generation, callVars, signal, events, marked>>

-----------------------------------------------------------------------------
Outside ==
  \/ \E k \in Links : Break(k) \/ \E w \in Windows : Emit(k, w)
  \/ \E c \in Callers : Begin(c)

Extension ==
  \/ \E k \in Links : Connect(k) \/ Opened(k) \/ Closed(k)
  \/ \E k \in Links : \E r \in requests[k] : Perform(k, r)

Serve(k) ==
  \/ Swap(k) \/ SignalState(k) \/ CloseReplaced(k)
  \/ Drop(k) \/ FailPending(k) \/ SignalDropped(k)
  \/ \E r \in answers[k] : Resolve(k, r)

Caller(c) ==
  /\ call[c] # NoCall
  /\ Register(c) \/ Write(c) \/ WriteFails(c) \/ Receive(c) \/ Timeout(c)

Subscribe == TakeSignal \/ TakeEvent \/ Dequeue \/ SyncState \/ HandOver

System ==
  \/ Extension
  \/ \E k \in Links : Serve(k)
  \/ \E c \in Callers : Caller(c)
  \/ Subscribe

DriverNext == Outside \/ System

\* A goroutine that can run does, in any order; the extension retries by a timer and an alarm.
DriverFairness == WF_driverVars(System)

DriverSpec == DriverInit /\ [][DriverNext]_driverVars /\ DriverFairness
-----------------------------------------------------------------------------
(***************************************************************************)
(* Properties.                                                             *)
(***************************************************************************)
LinkStates == Alive \cup {"none", "swappedBroken", "broken", "dropped", "failing", "signalling", "gone"}

\* The type of every variable.
DriverTypeOK ==
  /\ socket \in Links \cup {None}
  /\ link \in [Links -> [at : LinkStates, gen : Nat]]
  /\ current \in Links \cup {None}
  /\ generation \in Nat
  /\ pending \in [Links -> SUBSET Nat]
  /\ lastId \in Nat
  /\ call \in [Callers -> [at : {"idle", "began", "registered", "waiting"},
                          link : Links \cup {None}, id : Nat, box : {"empty", "answer", "closed"}]]
  /\ requests \in [Links -> SUBSET Nat]
  /\ answers \in [Links -> SUBSET Nat]
  /\ performed \subseteq Nat
  /\ answered \subseteq Nat
  /\ signal \in BOOLEAN
  /\ events \in Seq(Event)
  /\ marked \subseteq Event
  /\ sub \in [at : {"select", "dequeuing", "syncing", "handing"}, gen : Nat,
              connected : BOOLEAN, event : Event \cup {NoEvent}]
  /\ unseen \subseteq Event

\* What the service has been told is what the driver knows.
Told == IF current = None THEN ~sub.connected ELSE sub.connected /\ sub.gen = generation

\* The service always learns of a connection that came, was replaced or went,
\* although the signal is a channel of one that drops what does not fit: while
\* the service has been told something else, a signal is there, is about to be
\* sent, or the state is about to be read (driver.go:179, 430).
NoLostSignal ==
  \/ Told
  \/ signal
  \/ sub.at \in {"dequeuing", "syncing"}
  \/ \E k \in Links : At(k, {"swapped", "swappedBroken", "dropped", "signalling"})

\* A change of tabs that was not dropped for want of room is still to be handed
\* to the service as long as its connection lasts: coalescing (driver.go:212)
\* never swallows a change that came after the event it was merged with.
ChangeReachesService ==
  \A e \in unseen :
    (current # None /\ e.gen = generation) =>
      (e = sub.event \/ \E i \in DOMAIN events : events[i] = e)

\* The calls keep the promise of RemoteCalls: no answer is given to another
\* caller, to a request that was not carried out, or twice, although an answer to
\* a request of an earlier connection arrives on the one that replaced it
\* (driver.go:117-124, 254-273; background.js:87, 123-140).
Calls == INSTANCE RemoteCalls WITH asked <- lastId, request <- [c \in Callers |-> call[c].id]
KeepsPromise == Calls!Spec
=============================================================================
