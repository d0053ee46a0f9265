---------------------------- MODULE RestoreMatch ----------------------------
(***************************************************************************)
(* Which saved rows the windows of a restarted browser belong to:          *)
(* internal/browser/reattach.go.  A row or window is the set of its pages' *)
(* normalized addresses; row and window ids are numbers, as the candidates *)
(* are ordered by them.                                                    *)
(***************************************************************************)
EXTENDS Naturals, FiniteSets, SequencesExt

\* jaccard as a fraction, and its order.
Score(a, b)  == [shared |-> Cardinality(a \cap b), all |-> Cardinality(a \cup b)]
Above(s, t)  == s.shared * t.all > t.shared * s.all
Equals(s, t) == s.shared * t.all = t.shared * s.all

\* Pairs of a row and a window that reach the threshold; saved and live map ids to pages.
Candidates(saved, live) ==
  {c \in [row : DOMAIN saved, window : DOMAIN live, score : {Score(saved[r], live[w]) : r \in DOMAIN saved, w \in DOMAIN live}] :
     /\ c.score = Score(saved[c.row], live[c.window])
     /\ c.score.shared > 0
     /\ 2 * c.score.shared >= c.score.all}

\* The order of the candidates: best first, then by row and by window.
Before(c, d) ==
  \/ Above(c.score, d.score)
  \/ Equals(c.score, d.score) /\ c.row < d.row
  \/ Equals(c.score, d.score) /\ c.row = d.row /\ c.window < d.window

Touches(c, d) == c.row = d.row \/ c.window = d.window

\* Mutant of Rivals: any candidate that shares the row or the window is a rival.
RivalsOfAnyScore(c, all, done) ==
  {o \in all \ {c} : Touches(o, c) /\ o.row \notin done.rows /\ o.window \notin done.windows}

\* Equal candidates for the same row or window that are still free.
Rivals(c, all, done) ==
  {o \in all \ {c} : /\ Equals(o.score, c.score)
                     /\ Touches(o, c)
                     /\ o.row \notin done.rows /\ o.window \notin done.windows}

\* One candidate is settled: matched when it has no rival, else nobody gets it.
Settle(done, c, all) ==
  IF c.row \in done.rows \/ c.window \in done.windows THEN done
  ELSE LET rivals == Rivals(c, all, done) IN
       [rows    |-> done.rows \cup {o.row : o \in rivals \cup {c}},
        windows |-> done.windows \cup {o.window : o \in rivals \cup {c}},
        matches |-> IF rivals = {} THEN done.matches \cup {c} ELSE done.matches]

\* The candidate that n others come before.
Nth(all, n) == CHOOSE c \in all : Cardinality({d \in all : Before(d, c)}) = n

\* What is done when the first n candidates have been settled.
Untouched == [rows |-> {}, windows |-> {}, matches |-> {}]
Settlement(all) ==
  LET done[n \in 0 .. Cardinality(all)] ==
        IF n = 0 THEN Untouched ELSE Settle(done[n - 1], Nth(all, n - 1), all)
  IN done

\* matchRestored: the pairs of a row and a window that belong together.
MatchRestored(saved, live) ==
  LET all == Candidates(saved, live) IN Settlement(all)[Cardinality(all)].matches

-----------------------------------------------------------------------------
\* c is the only best candidate both of its row and of its window.
MutualBest(c, all) == \A d \in all \ {c} : Touches(c, d) => Above(c.score, d.score)
=============================================================================
