---------------------------- MODULE RestoreOffers ----------------------------
(***************************************************************************)
(* RestoreMatch on every small offer: rows that are missing, windows that  *)
(* a restarted browser shows, and the pairs reattach makes of them         *)
(* (internal/browser/service.go reattach).                                 *)
(***************************************************************************)
EXTENDS RestoreMatch

CONSTANTS
  OfferRows,     \* ids of missing rows
  OfferWindows,  \* ids of windows nobody owns
  Addresses,     \* normalized addresses
  MaxAddresses   \* bound on the addresses of a row or a window

ASSUME FiniteOffers == IsFiniteSet(OfferRows) /\ IsFiniteSet(OfferWindows)
ASSUME OfferIds == OfferRows \cup OfferWindows \subseteq Nat /\ MaxAddresses \in Nat \ {0}

VARIABLES
  saved,    \* the addresses of every row
  showing,  \* the addresses of every window
  matches,  \* the pairs that belong together
  settled   \* the offer has been settled

offerVars == <<saved, showing, matches, settled>>

Contents == {a \in SUBSET Addresses : IsFiniteSet(a) /\ Cardinality(a) \in 1..MaxAddresses}

NoOffer ==
  /\ saved = << >>
  /\ showing = << >>
  /\ matches = {}
  /\ settled = FALSE

OfferInit ==
  /\ saved \in [OfferRows -> Contents]
  /\ showing \in [OfferWindows -> Contents]
  /\ matches = {}
  /\ settled = FALSE

\* reattach.
Reattach ==
  /\ ~settled
  /\ matches' = MatchRestored(saved, showing)
  /\ settled' = TRUE
  /\ UNCHANGED <<saved, showing>>

OfferSpec == OfferInit /\ [][Reattach]_offerVars

-----------------------------------------------------------------------------
\* A row and a window that are each other's only best candidate always find each
\* other: no tie of other rows and windows keeps them apart (reattach.go:84).
MutualBestIsMatched ==
  settled => LET all == Candidates(saved, showing) IN
             \A c \in all : MutualBest(c, all) => c \in matches

\* docs/superpowers/plans/2026-10-15-browser-lifecycle.md:132: when the best score of a
\* row or of a window is shared by two pairs, neither is matched; a pair that has a
\* better one on its other side does not count (reattach_test.go:95).
TiesStayUnmatched ==
  settled => LET all == Candidates(saved, showing) IN
             \A c \in matches : \A d \in all \ {c} :
               Touches(c, d) /\ Equals(c.score, d.score) =>
                 \E e \in all : Touches(e, d) /\ Above(e.score, d.score)
=============================================================================
