---------------------------- MODULE MCConnections ----------------------------
(***************************************************************************)
(* The parts of utena that share a connection or a file with somebody      *)
(* else, in one run: the websocket driver of the browser, the loop of `utena    *)
(* attach`, the connection to a remote workspace, a session of such a      *)
(* workspace, the offers of a restarted browser, and the files that turn   *)
(* a session's bundles on for Claude.  They share no state here: a         *)
(* behavior is one of a single part, the others stay as they began.        *)
(*                                                                         *)
(* What comes from outside a part spends one unit of a budget; the steps   *)
(* of the part itself are not bounded.                                     *)
(***************************************************************************)
EXTENDS WebextDriver, AttachSwitch, CoderConn, CoderSession, RestoreOffers, BundleFiles

CONSTANTS DriverBudget, AttachBudget, ConnBudget, SessionBudget, FileBudget

ASSUME BudgetsAreNatural ==
  {DriverBudget, AttachBudget, ConnBudget, SessionBudget, FileBudget} \subseteq Nat

VARIABLES
  part,    \* the part that moves
  budget   \* what its surroundings may still do

allVars == <<driverVars, attachVars, connVars, coderVars, offerVars, fileVars, part, budget>>

BudgetOf == [driver |-> DriverBudget, attach |-> AttachBudget, conn |-> ConnBudget,
             session |-> SessionBudget,
             files |-> FileBudget, offers |-> 0]

MCInit ==
  /\ part \in DOMAIN BudgetOf
  /\ budget = BudgetOf[part]
  /\ DriverInit /\ AttachInit /\ ConnInit /\ CoderInit /\ FilesInit
  /\ part # "conn" => ~host /\ ~restoring
  /\ part # "files" => DOMAIN catalog = {} /\ defined = {}
  /\ IF part = "offers" THEN OfferInit ELSE NoOffer

Only(p)  == part = p /\ UNCHANGED part
Spends   == budget > 0 /\ budget' = budget - 1
NotDriver  == UNCHANGED <<attachVars, connVars, coderVars, offerVars, fileVars>>
NotAttach  == UNCHANGED <<driverVars, connVars, coderVars, offerVars, fileVars>>
NotConn    == UNCHANGED <<driverVars, attachVars, coderVars, offerVars, fileVars>>
NotSession == UNCHANGED <<driverVars, attachVars, connVars, offerVars, fileVars>>
NotOffers  == UNCHANGED <<driverVars, attachVars, connVars, coderVars, fileVars>>
NotFiles   == UNCHANGED <<driverVars, attachVars, connVars, coderVars, offerVars>>

Surroundings ==
  \/ Only("driver") /\ Spends /\ Outside /\ NotDriver
  \/ Only("attach") /\ Spends /\ People /\ NotAttach
  \/ Only("conn") /\ Spends /\ Events /\ NotConn
  \/ Only("session") /\ Spends /\ (Requests \/ Poll \/ Refresh) /\ NotSession
  \/ Only("files") /\ Spends /\ FileRequests /\ NotFiles

DriverMoves  == Only("driver") /\ UNCHANGED budget /\ System /\ NotDriver
AttachMoves  == Only("attach") /\ UNCHANGED budget /\ (Service \/ \E t \in Terminals : Loop(t)) /\ NotAttach
ConnMoves    == Only("conn") /\ UNCHANGED budget /\ Manager /\ NotConn
SessionMoves == Only("session") /\ UNCHANGED budget /\ Working /\ NotSession
OfferMoves   == Only("offers") /\ UNCHANGED budget /\ Reattach /\ NotOffers
FileMoves    == Only("files") /\ UNCHANGED budget /\ FileSteps /\ NotFiles

MCNext == Surroundings \/ DriverMoves \/ AttachMoves \/ ConnMoves \/ SessionMoves \/ OfferMoves \/ FileMoves

\* The fairness of the parts that a liveness property is about.
MCSpec == MCInit /\ [][MCNext]_allVars /\ WF_connVars(part = "conn" /\ Manager) /\ WF_coderVars(part = "session" /\ Working)
=============================================================================
