----------------------------- MODULE RemoteCalls -----------------------------
(***************************************************************************)
(* What the browser service is promised by a driver whose browser answers  *)
(* over a connection (internal/browser/driver.go, implemented by           *)
(* internal/webext/driver.go): a call is asked once, its request is        *)
(* performed at most once, a call that returns without an error has had    *)
(* its own request performed, and a call that failed may have had it       *)
(* performed all the same, even afterwards.                                *)
(***************************************************************************)
EXTENDS Naturals

CONSTANT Callers   \* goroutines that call the browser

VARIABLES
  asked,      \* number of requests made so far; a request is its number
  request,    \* the request of every caller, 0 when it is not calling
  performed,  \* the requests the browser has performed
  answered    \* the requests whose caller returned without an error

vars == <<asked, request, performed, answered>>

Init ==
  /\ asked = 0
  /\ request = [c \in Callers |-> 0]
  /\ performed = {}
  /\ answered = {}

Ask(c) ==
  /\ request[c] = 0
  /\ asked' = asked + 1
  /\ request' = [request EXCEPT ![c] = asked']
  /\ UNCHANGED <<performed, answered>>

\* The connection ends before the request is made.
Refuse == asked' = asked + 1 /\ UNCHANGED <<request, performed, answered>>

Perform(r) ==
  /\ r \in 1..asked
  /\ r \notin performed
  /\ performed' = performed \cup {r}
  /\ UNCHANGED <<asked, request, answered>>

Answer(c) ==
  /\ request[c] \in performed
  /\ answered' = answered \cup {request[c]}
  /\ request' = [request EXCEPT ![c] = 0]
  /\ UNCHANGED <<asked, performed>>

Fail(c) ==
  /\ request[c] # 0
  /\ request' = [request EXCEPT ![c] = 0]
  /\ UNCHANGED <<asked, performed, answered>>

Next ==
  \/ \E c \in Callers : Ask(c) \/ Answer(c) \/ Fail(c)
  \/ Refuse
  \/ \E r \in 1..asked : Perform(r)

Spec == Init /\ [][Next]_vars
=============================================================================
