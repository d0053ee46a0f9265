---------------------------- MODULE Browser_proofs ----------------------------
(***************************************************************************)
(* Proofs about BrowserWindows and RestoreOffers for any sessions, rows,   *)
(* windows, pages and faults.                                              *)
(*                                                                         *)
(* That a deleted session is forgotten needs every place from which the    *)
(* service takes a session: a row, the attached session, the session of a  *)
(* request and of the user's switch.  Wherever a deleted one is found, its *)
(* end is noted (DeletedInv): it is in the queue, under way, was given up, *)
(* or a request was past its checks.  The operations on the table bring in *)
(* no session that was not in a row (From), but for the row they add.      *)
(*                                                                         *)
(* What the matching of rows and windows finds needs that the candidates   *)
(* have an order without ties, so that everyone has a place of its own     *)
(* (EveryPlaceTaken); then it is an induction over the places.  A pair     *)
(* that is only best stays free until its turn and has no rival then, and  *)
(* no row or window is matched twice.                                      *)
(*                                                                         *)
(* That a window has one owner rests on that: the operations on the table  *)
(* narrow its open rows (Narrows), add one for a window without an owner,  *)
(* or open rows for unused windows, each another, or for matched ones.     *)
(*                                                                         *)
(* That no window is left without an owner and no pages are forgotten says *)
(* where the windows of the rows are (WindowInv): an open row with pages   *)
(* is of a window that is there, unless others than the service closed it, *)
(* and a window that lost its row is still to be closed or a named case.   *)
(***************************************************************************)
EXTENDS BrowserWindows, RestoreOffers, FiniteSetTheorems, TLAPS

\* The end of a deleted session is noted: a request was past its checks or the deletion
\* was given up; or it is under way or still to come.
Deletion(s) == [session |-> s, deleted |-> TRUE]
IsNoted(s)  == \/ s \in history.overtaken \cup history.dropped
               \/ svc.op = Deletion(s)
               \/ \E i \in DOMAIN svc.queue : svc.queue[i] = Deletion(s)

RowFields     == {"state", "session", "window", "tabs", "waiting"}
SvcFields     == {"connected", "attached", "last", "prev", "unowned", "closing", "pendingClose", "removals",
                  "snapshots", "ensured", "placed", "stale", "swap", "queue", "op"}
RequestFields == {"kind", "at", "session", "page", "window", "focus"}
HistoryFields == {"made", "byHand", "ejected", "late", "strays", "overtaken", "dropped"}
EndType       == [session : Sessions \cup {0}, deleted : BOOLEAN]

RowsLike(t) == DOMAIN t = RowIds /\ \A r \in RowIds : DOMAIN t[r] = RowFields
Shapes ==
  /\ RowsLike(rows) /\ DOMAIN svc = SvcFields /\ DOMAIN request = RequestFields /\ DOMAIN history = HistoryFields
  /\ svc.queue \in Seq(EndType) /\ svc.op \in EndType
  /\ deleted \subseteq Sessions

\* Wherever the service may take a session from, a deleted one is noted.
DeletedInv ==
  /\ Shapes
  /\ \A r \in RowIds : rows[r].session \in deleted => IsNoted(rows[r].session)
  /\ svc.attached \in deleted => IsNoted(svc.attached)
  /\ request.session \in deleted => request.session \in history.overtaken
  /\ client \notin deleted

-----------------------------------------------------------------------------
\* The table: no operation on it brings in a session but that of the row it adds.
LEMMA RowOperators ==
  ASSUME NEW row, DOMAIN row = RowFields, NEW w, NEW pages
  PROVE  /\ DOMAIN Lost(row) = RowFields /\ Lost(row).session = row.session
         /\ DOMAIN Saved(row) = RowFields /\ Saved(row).session = row.session
         /\ DOMAIN Reopened(row, w) = RowFields /\ Reopened(row, w).session = row.session
         /\ DOMAIN Merged(row, pages) = RowFields /\ Merged(row, pages).session = row.session
BY DEF Lost, Saved, Reopened, Merged, RowFields

LEMMA NewRows ==
  /\ DOMAIN NoRow = RowFields /\ NoRow.session = 0
  /\ \A s, w, pages : DOMAIN OpenRow(s, w, pages) = RowFields /\ OpenRow(s, w, pages).session = s
BY DEF NoRow, OpenRow, RowFields

\* t comes from the table u, and has no other sessions.
From(t, u) == RowsLike(t) /\ \A r \in RowIds : t[r].session \in {u[r].session, 0}

LEMMA TableOperators ==
  ASSUME NEW t, NEW u, From(t, u), NEW ws, NEW rs
  PROVE  From(MarkMissing(t, ws), u) /\ From(Delete(t, rs), u) /\ From(SaveTabs(t, ws), u)
<1>1. From(MarkMissing(t, ws), u)
  BY RowOperators DEF From, RowsLike, MarkMissing
<1>2. From(Delete(t, rs), u)
  BY NewRows DEF From, RowsLike, Delete
<1>3. From(SaveTabs(t, ws), u)
  BY RowOperators DEF From, RowsLike, SaveTabs
<1> QED
  BY <1>1, <1>2, <1>3

LEMMA ConnectionOperators ==
  ASSUME NEW t, NEW u, From(t, u)
  PROVE  From(Flushed(t), u) /\ From(Trusted(t), u) /\ From(Resynced(t), u)
<1>1. From(Flushed(t), u) /\ From(Trusted(t), u)
  BY TableOperators DEF Flushed, Trusted
<1>2. From(SavedClosing(t), u)
  <2>1. /\ DOMAIN SavedClosing(t) = RowIds
        /\ \A r \in RowIds : \/ SavedClosing(t)[r] = t[r]
                             \/ \E pages : SavedClosing(t)[r] = Saved(Merged(t[r], pages))
    BY DEF SavedClosing
  <2>2. ASSUME NEW r \in RowIds
        PROVE  DOMAIN SavedClosing(t)[r] = RowFields /\ SavedClosing(t)[r].session \in {u[r].session, 0}
    <3>1. DOMAIN t[r] = RowFields /\ t[r].session \in {u[r].session, 0}
      BY DEF From, RowsLike
    <3>2. CASE SavedClosing(t)[r] = t[r]
      BY <3>1, <3>2
    <3>3. ASSUME NEW pages, SavedClosing(t)[r] = Saved(Merged(t[r], pages))
          PROVE  DOMAIN SavedClosing(t)[r] = RowFields /\ SavedClosing(t)[r].session \in {u[r].session, 0}
      <4>1. DOMAIN Merged(t[r], pages) = RowFields /\ Merged(t[r], pages).session = t[r].session
        BY <3>1, RowOperators
      <4>2. /\ DOMAIN Saved(Merged(t[r], pages)) = RowFields
            /\ Saved(Merged(t[r], pages)).session = Merged(t[r], pages).session
        BY <4>1, RowOperators
      <4> QED
        BY <3>1, <3>3, <4>1, <4>2
    <3> QED
      BY <2>1, <3>2, <3>3
  <2> QED
    BY <2>1, <2>2 DEF From, RowsLike
<1>3. ASSUME NEW v, From(v, u)
      PROVE  From(Reattached(v), u)
  <2> DEFINE pairs == MatchRestored([r \in Missing(v) |-> v[r].tabs], [w \in Live \ Owned(v) |-> shown[w]])
             given(r) == (CHOOSE m \in pairs : m.row = r).window
  <2>1. Reattached(v) = [r \in RowIds |-> IF \E m \in pairs : m.row = r THEN Reopened(v[r], given(r)) ELSE v[r]]
    BY DEF Reattached
  <2> HIDE DEF pairs, given
  <2>2. ASSUME NEW r \in RowIds
        PROVE  DOMAIN Reattached(v)[r] = RowFields /\ Reattached(v)[r].session \in {u[r].session, 0}
    <3>1. DOMAIN v[r] = RowFields /\ v[r].session \in {u[r].session, 0}
      BY <1>3 DEF From, RowsLike
    <3>2. DOMAIN Reopened(v[r], given(r)) = RowFields /\ Reopened(v[r], given(r)).session = v[r].session
      BY <3>1, RowOperators
    <3>3. Reattached(v)[r] = Reopened(v[r], given(r)) \/ Reattached(v)[r] = v[r]
      BY <2>1
    <3> QED
      BY <3>1, <3>2, <3>3
  <2>3. DOMAIN Reattached(v) = RowIds
    BY <2>1
  <2> QED
    BY <2>2, <2>3 DEF From, RowsLike
<1>4. From(Resynced(t), u)
  <2> DEFINE gone == MarkMissing(SavedClosing(t), WindowIds \ Live)
             attached == IF newRun THEN Reattached(gone) ELSE gone
  <2>1. From(gone, u)
    BY <1>2, TableOperators
  <2>2. From(Reattached(gone), u)
    <3> HIDE DEF gone
    <3> QED
      BY <1>3, <2>1
  <2>3. CASE newRun
    <3>1. Resynced(t) = SaveTabs(Reattached(gone), Live)
      BY <2>3 DEF Resynced
    <3> QED
      BY <2>2, <3>1, TableOperators
  <2>4. CASE ~newRun
    <3>1. Resynced(t) = SaveTabs(gone, Live)
      BY <2>4 DEF Resynced
    <3> QED
      BY <2>1, <3>1, TableOperators
  <2> QED
    BY <2>3, <2>4
<1> QED
  BY <1>1, <1>4

LEMMA AddedRow ==
  ASSUME NEW t, RowsLike(t), NEW row, DOMAIN row = RowFields
  PROVE  /\ RowsLike(AddRow(t, row))
         /\ \A r \in RowIds : AddRow(t, row)[r].session \in {t[r].session, row.session}
BY DEF AddRow, RowsLike

LEMMA RestoredTable ==
  ASSUME RowsLike(rows), NEW s, NEW f, NEW kept
  PROVE  From(RestoredRows(s, f, kept), rows)
<1>1. /\ DOMAIN RestoredRows(s, f, kept) = RowIds
      /\ \A r \in RowIds : \/ \E w, pages : RestoredRows(s, f, kept)[r] = Merged(Reopened(rows[r], w), pages)
                          \/ RestoredRows(s, f, kept)[r] \in {NoRow, rows[r]}
  BY DEF RestoredRows
<1>2. ASSUME NEW r \in RowIds, NEW w, NEW pages
      PROVE  /\ DOMAIN Merged(Reopened(rows[r], w), pages) = RowFields
             /\ Merged(Reopened(rows[r], w), pages).session = rows[r].session
  <2>1. DOMAIN rows[r] = RowFields
    BY DEF RowsLike
  <2>2. DOMAIN Reopened(rows[r], w) = RowFields /\ Reopened(rows[r], w).session = rows[r].session
    BY <2>1, RowOperators
  <2>3. /\ DOMAIN Merged(Reopened(rows[r], w), pages) = RowFields
        /\ Merged(Reopened(rows[r], w), pages).session = Reopened(rows[r], w).session
    BY <2>2, RowOperators
  <2> QED
    BY <2>2, <2>3
<1> QED
  BY <1>1, <1>2, NewRows DEF From, RowsLike

-----------------------------------------------------------------------------
\* A step that ends no session and takes sessions only from where they are.
HistoryGrows ==
  /\ DOMAIN history' = HistoryFields
  /\ history.overtaken \subseteq history'.overtaken /\ history.dropped \subseteq history'.dropped

SameEnds == DOMAIN svc' = SvcFields /\ svc'.op = svc.op /\ svc'.queue = svc.queue

\* A table whose deleted sessions are noted; the three ways to come to one.
Noted(t) == RowsLike(t) /\ \A r \in RowIds : t[r].session \in deleted => IsNoted(t[r].session)

LEMMA NotedTables ==
  ASSUME DeletedInv
  PROVE  /\ Noted(rows)
         /\ \A t : From(t, rows) => Noted(t)
         /\ \A t, row : /\ Noted(t) /\ DOMAIN row = RowFields
                        /\ row.session \in deleted => IsNoted(row.session)
                        => Noted(AddRow(t, row))
<1>1. Noted(rows)
  BY DEF DeletedInv, Shapes, Noted
<1>2. ASSUME NEW t, From(t, rows)
      PROVE  Noted(t)
  <2>1. 0 \notin deleted
    BY BrowserIds DEF DeletedInv, Shapes
  <2> QED
    BY <1>1, <1>2, <2>1 DEF Noted, From
<1>3. ASSUME NEW t, NEW row, Noted(t), DOMAIN row = RowFields, row.session \in deleted => IsNoted(row.session)
      PROVE  Noted(AddRow(t, row))
  <2>1. /\ RowsLike(AddRow(t, row))
        /\ \A r \in RowIds : AddRow(t, row)[r].session \in {t[r].session, row.session}
    BY <1>3, AddedRow DEF Noted
  <2> QED
    BY <1>3, <2>1 DEF Noted
<1> QED
  BY <1>1, <1>2, <1>3

LEMMA Keeps ==
  ASSUME DeletedInv, deleted' = deleted, client' \notin deleted, HistoryGrows, SameEnds, Noted(rows'),
         svc'.attached = svc.attached \/ svc'.attached \notin deleted,
         DOMAIN request' = RequestFields,
         request'.session = request.session \/ request'.session \notin deleted
  PROVE  DeletedInv'
<1>1. 0 \notin deleted
  BY BrowserIds DEF DeletedInv, Shapes
<1>2. \A s : IsNoted(s) =>
        \/ s \in history'.overtaken \cup history'.dropped
        \/ svc'.op = Deletion(s)
        \/ \E i \in DOMAIN svc'.queue : svc'.queue[i] = Deletion(s)
  BY DEF IsNoted, HistoryGrows, SameEnds
<1>3. Shapes'
  BY DEF DeletedInv, Shapes, HistoryGrows, SameEnds, Noted
<1>4. (\A r \in RowIds : rows[r].session \in deleted => IsNoted(rows[r].session))'
  <2> SUFFICES ASSUME NEW r \in RowIds, rows'[r].session \in deleted'
               PROVE  IsNoted(rows[r].session)'
    OBVIOUS
  <2>1. IsNoted(rows'[r].session)
    BY DEF Noted
  <2> DEFINE old == rows'[r].session
  <2> HIDE DEF old
  <2> QED
    BY <2>1, <1>2 DEF IsNoted, old
<1>5. (svc.attached \in deleted => IsNoted(svc.attached))'
  <2> SUFFICES ASSUME svc'.attached \in deleted'
               PROVE  IsNoted(svc.attached)'
    OBVIOUS
  <2>1. svc'.attached = svc.attached /\ IsNoted(svc.attached)
    BY DEF DeletedInv
  <2> QED
    BY <2>1, <1>2 DEF IsNoted
<1>6. request'.session \in deleted' => request'.session \in history'.overtaken
  BY DEF DeletedInv, HistoryGrows
<1> QED
  BY <1>3, <1>4, <1>5, <1>6 DEF DeletedInv

\* The browser and its user.
LEMMA OutsideStep ==
  ASSUME DeletedInv, Windows \/ BrowserQuits \/ BrowserStarts \/ LinkBreaks \/ LinkComes
  PROVE  DeletedInv'
<1>1. UNCHANGED <<rows, svc, request, deleted, client>>
  BY DEF Windows, BrowserQuits, BrowserStarts, LinkBreaks, LinkComes, UserOpens, UserCloses, UserFocuses, UserBrowses,
     sessionVars
<1>2. HistoryGrows
  <2>1. \A ws : /\ DOMAIN Anew(history, ws) = HistoryFields
                /\ Anew(history, ws).overtaken = history.overtaken /\ Anew(history, ws).dropped = history.dropped
    BY DEF DeletedInv, Shapes, HistoryFields, Anew
  <2>2. \A w : LET h == [history EXCEPT !.byHand = @ \cup {w}] IN
               DOMAIN h = HistoryFields /\ h.overtaken = history.overtaken /\ h.dropped = history.dropped
    BY DEF DeletedInv, Shapes, HistoryFields
  <2>3. \/ history' = history
        \/ \E ws : history' = Anew(history, ws)
        \/ \E w : history' = [history EXCEPT !.byHand = @ \cup {w}]
    BY DEF Windows, BrowserQuits, BrowserStarts, LinkBreaks, LinkComes, UserOpens, UserCloses, UserFocuses, UserBrowses
  <2> QED
    BY <2>1, <2>2, <2>3 DEF HistoryGrows, DeletedInv, Shapes
<1> QED
  BY <1>1, <1>2, NotedTables, Keeps DEF DeletedInv, Shapes, SameEnds

\* Steps that change neither the history nor the ends of sessions.
LEMMA SameHistory ==
  ASSUME DeletedInv, history' = history
  PROVE  HistoryGrows
BY DEF DeletedInv, Shapes, HistoryGrows

\* A session is switched to or asked for: it is not a deleted one.
LEMMA SwitchStep ==
  ASSUME DeletedInv, NEW s, SwitchTo(s)
  PROVE  DeletedInv'
<1>1. DOMAIN svc' = SvcFields /\ svc'.attached = s /\ svc'.op = svc.op /\ svc'.queue = svc.queue
  BY DEF DeletedInv, Shapes, SwitchTo, Attached, SvcFields
<1>2. /\ UNCHANGED <<rows, request, deleted, history>> /\ client' = s /\ s \notin deleted
  BY DEF SwitchTo
<1> QED
  BY <1>1, <1>2, NotedTables, SameHistory, Keeps DEF DeletedInv, Shapes, SameEnds

LEMMA AskedShape ==
  ASSUME NEW kind, NEW s, NEW page, NEW w, NEW takes, Asks(kind, s, page, w, takes)
  PROVE  DOMAIN request' = RequestFields /\ request'.session = s
BY DEF Asks, RequestFields

LEMMA AttachedShape ==
  ASSUME DeletedInv, NEW s, NEW v, v \in {svc, Attached(s), Claimed(s)}
  PROVE  DOMAIN v = SvcFields /\ v.attached \in {svc.attached, s} /\ v.op = svc.op /\ v.queue = svc.queue
BY DEF DeletedInv, Shapes, Attached, Claimed, SvcFields

LEMMA AskingStep ==
  ASSUME DeletedInv, Asking
  PROVE  DeletedInv'
<1>1. 0 \notin deleted
  BY BrowserIds DEF DeletedInv, Shapes
<1>2. ASSUME NEW asked, NEW page, NEW activate, OpenAsked(asked, page, activate)
      PROVE  DeletedInv'
  <2> DEFINE s == IF asked \in deleted THEN 0 ELSE asked
  <2>1. s \notin deleted
    BY <1>1
  <2>2. UNCHANGED <<rows, deleted, history>> /\ client' \in {client, s}
    BY <1>2 DEF OpenAsked
  <2>3. DOMAIN request' = RequestFields /\ request'.session = s
    <3> DEFINE switch  == s # 0 /\ activate /\ client # s
               takes == s = 0 \/ switch \/ client = s
    <3>1. Asks("hold", s, page, 0, FALSE) \/ Asks("open", s, page, 0, takes)
      BY <1>2 DEF OpenAsked
    <3> HIDE DEF s, takes
    <3> QED
      BY <3>1, AskedShape
  <2>4. svc' \in {svc, Attached(s), Claimed(s)}
    BY <1>2 DEF OpenAsked
  <2>5. DOMAIN svc' = SvcFields /\ svc'.attached \in {svc.attached, s} /\ svc'.op = svc.op /\ svc'.queue = svc.queue
    BY <2>4, AttachedShape
  <2> HIDE DEF s
  <2> QED
    BY <2>1, <2>2, <2>3, <2>5, NotedTables, SameHistory, Keeps DEF DeletedInv, SameEnds
<1>3. ASSUME NEW w, NEW page, FocusAsked(w, page)
      PROVE  DeletedInv'
  <2> DEFINE s == SessionOf(w)
  <2>1. s \notin deleted /\ UNCHANGED <<rows, deleted, history>> /\ client' = s
    BY <1>3 DEF FocusAsked
  <2>2. DOMAIN request' = RequestFields /\ request'.session = s
    BY <1>3, AskedShape DEF FocusAsked
  <2>3. svc' \in {svc, Attached(s), Claimed(s)}
    BY <1>3 DEF FocusAsked
  <2>4. DOMAIN svc' = SvcFields /\ svc'.attached \in {svc.attached, s} /\ svc'.op = svc.op /\ svc'.queue = svc.queue
    BY <2>3, AttachedShape
  <2> HIDE DEF s
  <2> QED
    BY <2>1, <2>2, <2>4, NotedTables, SameHistory, Keeps DEF SameEnds
<1>4. ASSUME NEW w, NEW page, NEW s, MoveAsked(w, page, s)
      PROVE  DeletedInv'
  <2>1. s \notin deleted /\ UNCHANGED <<rows, svc, client, deleted, history>>
    BY <1>4 DEF MoveAsked, sessionVars
  <2>2. DOMAIN request' = RequestFields /\ request'.session = s
    BY <1>4, AskedShape DEF MoveAsked
  <2> QED
    BY <2>1, <2>2, NotedTables, SameHistory, Keeps DEF DeletedInv, Shapes, SameEnds
<1>5. ASSUME NEW w, Eject(w)
      PROVE  DeletedInv'
  <2>1. /\ UNCHANGED <<client, deleted, request>> /\ rows' = Delete(rows, RowsOf(rows, w))
        /\ svc' = [svc EXCEPT !.snapshots = @ \ {w}, !.removals = @ \ {w}]
        /\ history' = [history EXCEPT !.ejected = @ \cup {w}]
    BY <1>5 DEF Eject, sessionVars
  <2>2. From(rows', rows)
    BY <2>1, TableOperators DEF DeletedInv, Shapes, From
  <2>3. DOMAIN svc' = SvcFields /\ svc'.attached = svc.attached /\ svc'.op = svc.op /\ svc'.queue = svc.queue
    BY <2>1 DEF DeletedInv, Shapes, SvcFields
  <2>4. HistoryGrows
    BY <2>1 DEF DeletedInv, Shapes, HistoryFields, HistoryGrows
  <2> QED
    BY <2>1, <2>2, <2>3, <2>4, NotedTables, Keeps DEF DeletedInv, Shapes, SameEnds
<1> QED
  BY <1>2, <1>3, <1>4, <1>5 DEF Asking

-----------------------------------------------------------------------------
\* The ends of sessions: they are asked for, wait in the queue, and are carried out.
LEMMA EndTypes == NoOp \in EndType /\ \A s : NoOp # Deletion(s)
BY DEF NoOp, EndType, Deletion

\* Whoever is noted stays so; a session is deleted only with a note.
LEMMA Renoted ==
  ASSUME DeletedInv, NEW gone, gone \subseteq Sessions, deleted' = deleted \cup gone,
         \A s : s \in gone \/ IsNoted(s) =>
                  \/ s \in history'.overtaken \cup history'.dropped
                  \/ svc'.op = Deletion(s)
                  \/ \E i \in DOMAIN svc'.queue : svc'.queue[i] = Deletion(s),
         request.session \in gone => request.session \in history'.overtaken,
         client' \notin deleted', HistoryGrows, DOMAIN svc' = SvcFields,
         svc'.queue \in Seq(EndType), svc'.op \in EndType,
         rows' = rows, request' = request, svc'.attached = svc.attached
  PROVE  DeletedInv'
<1>1. Shapes'
  BY DEF DeletedInv, Shapes, HistoryGrows
<1>2. (\A r \in RowIds : rows[r].session \in deleted => IsNoted(rows[r].session))'
  <2> SUFFICES ASSUME NEW r \in RowIds, rows'[r].session \in deleted'
               PROVE  IsNoted(rows[r].session)'
    OBVIOUS
  <2> DEFINE s == rows[r].session
  <2>1. s \in gone \/ IsNoted(s)
    BY DEF DeletedInv
  <2> HIDE DEF s
  <2>2. /\ s = rows'[r].session
        /\ \/ s \in history'.overtaken \cup history'.dropped
           \/ svc'.op = Deletion(s)
           \/ \E i \in DOMAIN svc'.queue : svc'.queue[i] = Deletion(s)
    BY <2>1 DEF s
  <2> QED
    BY <2>2 DEF IsNoted
<1>3. (svc.attached \in deleted => IsNoted(svc.attached))'
  <2> SUFFICES ASSUME svc'.attached \in deleted'
               PROVE  IsNoted(svc.attached)'
    OBVIOUS
  <2> DEFINE s == svc.attached
  <2>1. s \in gone \/ IsNoted(s)
    BY DEF DeletedInv
  <2> HIDE DEF s
  <2>2. /\ s = svc'.attached
        /\ \/ s \in history'.overtaken \cup history'.dropped
           \/ svc'.op = Deletion(s)
           \/ \E i \in DOMAIN svc'.queue : svc'.queue[i] = Deletion(s)
    BY <2>1 DEF s
  <2> QED
    BY <2>2 DEF IsNoted
<1>4. request'.session \in deleted' => request'.session \in history'.overtaken
  BY DEF DeletedInv, HistoryGrows
<1> QED
  BY <1>1, <1>2, <1>3, <1>4 DEF DeletedInv

LEMMA Queued ==
  ASSUME DeletedInv, NEW e \in EndType
  PROVE  /\ Append(svc.queue, e) \in Seq(EndType)
         /\ \E i \in DOMAIN Append(svc.queue, e) : Append(svc.queue, e)[i] = e
         /\ \A i \in DOMAIN svc.queue :
              i \in DOMAIN Append(svc.queue, e) /\ Append(svc.queue, e)[i] = svc.queue[i]
<1>1. svc.queue \in Seq(EndType)
  BY DEF DeletedInv, Shapes
<1>2. Len(svc.queue) + 1 \in DOMAIN Append(svc.queue, e) /\ Append(svc.queue, e)[Len(svc.queue) + 1] = e
  BY <1>1
<1> QED
  BY <1>1, <1>2

LEMMA ArchivedStep ==
  ASSUME DeletedInv, NEW s \in Sessions, SessionArchived(s)
  PROVE  DeletedInv'
<1> DEFINE e == [session |-> s, deleted |-> FALSE]
<1>1. e \in EndType
  BY DEF EndType
<1>2. /\ svc' = [svc EXCEPT !.queue = Append(@, e)]
      /\ client' = IF client = s THEN 0 ELSE client
      /\ UNCHANGED <<deleted, rows, request, history>>
  BY DEF SessionArchived
<1> HIDE DEF e
<1>3. /\ DOMAIN svc' = SvcFields /\ svc'.attached = svc.attached /\ svc'.op = svc.op
      /\ svc'.queue = Append(svc.queue, e)
  BY <1>2 DEF DeletedInv, Shapes, SvcFields
<1>4. \A x : IsNoted(x) =>
        \/ x \in history'.overtaken \cup history'.dropped
        \/ svc'.op = Deletion(x)
        \/ \E i \in DOMAIN svc'.queue : svc'.queue[i] = Deletion(x)
  BY <1>1, <1>2, <1>3, Queued DEF IsNoted
<1>5. client' \notin deleted
  BY <1>2, BrowserIds DEF DeletedInv, Shapes
<1>6. svc'.queue \in Seq(EndType) /\ svc'.op \in EndType
  BY <1>1, <1>3, Queued DEF DeletedInv, Shapes
<1> DEFINE gone == {}
<1>7. /\ gone \subseteq Sessions /\ deleted' = deleted \cup gone /\ HistoryGrows /\ client' \notin deleted'
      /\ request.session \notin gone
      /\ \A x : x \in gone \/ IsNoted(x) =>
           \/ x \in history'.overtaken \cup history'.dropped
           \/ svc'.op = Deletion(x)
           \/ \E i \in DOMAIN svc'.queue : svc'.queue[i] = Deletion(x)
  BY <1>2, <1>4, <1>5, SameHistory
<1> HIDE DEF gone
<1> QED
  BY <1>2, <1>3, <1>6, <1>7, Renoted

LEMMA DeletedStep ==
  ASSUME DeletedInv, NEW s \in Sessions, SessionDeleted(s)
  PROVE  DeletedInv'
<1>1. Deletion(s) \in EndType
  BY DEF EndType, Deletion
<1>2. /\ svc' = [svc EXCEPT !.queue = Append(@, Deletion(s))]
      /\ client' = IF client = s THEN 0 ELSE client
      /\ deleted' = deleted \cup {s}
      /\ history' = [history EXCEPT !.overtaken = @ \cup ({s} \cap {request.session})]
      /\ UNCHANGED <<rows, request>>
  BY DEF SessionDeleted, Deletion
<1>3. /\ DOMAIN svc' = SvcFields /\ svc'.attached = svc.attached /\ svc'.op = svc.op
      /\ svc'.queue = Append(svc.queue, Deletion(s))
  BY <1>2 DEF DeletedInv, Shapes, SvcFields
<1>4. /\ DOMAIN history' = HistoryFields /\ history'.dropped = history.dropped
      /\ history'.overtaken = history.overtaken \cup ({s} \cap {request.session})
  BY <1>2 DEF DeletedInv, Shapes, HistoryFields
<1>5. \A x : x \in {s} \/ IsNoted(x) =>
        \/ x \in history'.overtaken \cup history'.dropped
        \/ svc'.op = Deletion(x)
        \/ \E i \in DOMAIN svc'.queue : svc'.queue[i] = Deletion(x)
  BY <1>1, <1>3, <1>4, Queued DEF IsNoted
<1>6. client' \notin deleted'
  BY <1>2, BrowserIds DEF DeletedInv, Shapes
<1>7. svc'.queue \in Seq(EndType) /\ svc'.op \in EndType
  BY <1>1, <1>3, Queued DEF DeletedInv, Shapes
<1> QED
  BY <1>2, <1>3, <1>4, <1>5, <1>6, <1>7, Renoted DEF HistoryGrows

LEMMA TakeStep ==
  ASSUME DeletedInv, TakeOp
  PROVE  DeletedInv'
<1> DEFINE next == Head(svc.queue)
           taken == IF next.deleted \/ client # next.session THEN next ELSE NoOp
<1>1. svc.queue \in Seq(EndType) /\ svc.queue # <<>>
  BY DEF DeletedInv, Shapes, TakeOp
<1>2. /\ next \in EndType /\ Tail(svc.queue) \in Seq(EndType)
      /\ \A i \in DOMAIN svc.queue :
           \/ svc.queue[i] = next
           \/ i - 1 \in DOMAIN Tail(svc.queue) /\ Tail(svc.queue)[i - 1] = svc.queue[i]
  BY <1>1
<1>3. /\ svc' = [svc EXCEPT !.queue = Tail(@), !.op = taken] /\ svc.op = NoOp
      /\ UNCHANGED <<client, deleted, rows, request, history>>
  BY DEF TakeOp, sessionVars, Op
<1>4. taken \in EndType
  BY <1>2, EndTypes
<1>5. \A x : next = Deletion(x) => taken = next
  BY DEF Deletion
<1> HIDE DEF taken, next
<1>6. /\ DOMAIN svc' = SvcFields /\ svc'.attached = svc.attached /\ svc'.op = taken
      /\ svc'.queue = Tail(svc.queue)
  BY <1>3 DEF DeletedInv, Shapes, SvcFields
<1>7. \A x : IsNoted(x) =>
        \/ x \in history'.overtaken \cup history'.dropped
        \/ svc'.op = Deletion(x)
        \/ \E i \in DOMAIN svc'.queue : svc'.queue[i] = Deletion(x)
  BY <1>2, <1>3, <1>5, <1>6, EndTypes DEF IsNoted
<1> DEFINE gone == {}
<1>8. /\ gone \subseteq Sessions /\ deleted' = deleted \cup gone /\ HistoryGrows /\ client' \notin deleted'
      /\ request.session \notin gone
      /\ \A x : x \in gone \/ IsNoted(x) =>
           \/ x \in history'.overtaken \cup history'.dropped
           \/ svc'.op = Deletion(x)
           \/ \E i \in DOMAIN svc'.queue : svc'.queue[i] = Deletion(x)
  BY <1>3, <1>7, SameHistory DEF DeletedInv
<1> HIDE DEF gone
<1> QED
  BY <1>2, <1>3, <1>4, <1>6, <1>8, Renoted

\* The service after an end of session s: s is attached no more, and nothing is under way.
Settled(v, s) ==
  /\ DOMAIN v = SvcFields /\ v.op = NoOp /\ v.queue = svc.queue
  /\ v.attached \in {0, svc.attached} /\ (v.attached = s => s = 0)

LEMMA SettledShapes ==
  ASSUME DeletedInv, NEW s, NEW asked, NEW closed, NEW pending
  PROVE  /\ Settled(Ended(Released(svc, s)), s)
         /\ Settled(Ended(Closes(Released(svc, s), asked, closed)), s)
         /\ Settled(Ended([Released(svc, s) EXCEPT !.pendingClose = pending]), s)
BY DEF DeletedInv, Shapes, SvcFields, Settled, Ended, Released, Closes

\* An operation that ends drops its session, or leaves no row of it.
LEMMA EndKeeps ==
  ASSUME DeletedInv, UNCHANGED <<client, deleted, request>>, HistoryGrows, Settled(svc', Op.session), Noted(rows'),
         \/ Op.session = 0 \/ \A x : Op # Deletion(x)
         \/ Op.session \in history'.dropped
         \/ \A r \in RowIds : rows'[r].session # Op.session
  PROVE  DeletedInv'
<1>1. 0 \notin deleted
  BY BrowserIds DEF DeletedInv, Shapes
<1>2. \A x : IsNoted(x) =>
        \/ x \in history'.overtaken \cup history'.dropped
        \/ \E i \in DOMAIN svc'.queue : svc'.queue[i] = Deletion(x)
        \/ x = Op.session /\ Op = Deletion(x)
  <2>1. \A x : Op = Deletion(x) => Op.session = x
    BY DEF Deletion
  <2> QED
    BY <2>1 DEF IsNoted, HistoryGrows, Settled, Op
<1>3. Shapes'
  BY EndTypes DEF DeletedInv, Shapes, HistoryGrows, Settled, Noted
<1>4. (\A r \in RowIds : rows[r].session \in deleted => IsNoted(rows[r].session))'
  <2> SUFFICES ASSUME NEW r \in RowIds, rows'[r].session \in deleted'
               PROVE  IsNoted(rows[r].session)'
    OBVIOUS
  <2>1. IsNoted(rows'[r].session)
    BY DEF Noted
  <2> QED
    BY <2>1, <1>1, <1>2 DEF IsNoted
<1>5. (svc.attached \in deleted => IsNoted(svc.attached))'
  <2> SUFFICES ASSUME svc'.attached \in deleted'
               PROVE  IsNoted(svc.attached)'
    OBVIOUS
  <2>1. svc'.attached = svc.attached /\ svc.attached # Op.session /\ IsNoted(svc.attached)
    BY <1>1 DEF DeletedInv, Settled
  <2> QED
    BY <2>1, <1>2 DEF IsNoted
<1>6. request'.session \in deleted' => request'.session \in history'.overtaken
  BY DEF DeletedInv, HistoryGrows
<1> QED
  BY <1>3, <1>4, <1>5, <1>6 DEF DeletedInv

LEMMA NotDeletion ==
  ASSUME ~Op.deleted
  PROVE  \A x : Op # Deletion(x)
<1>1. \A x : Deletion(x).deleted
  BY DEF Deletion
<1> QED
  BY <1>1

LEMMA EndFailsStep ==
  ASSUME DeletedInv, EndFails
  PROVE  DeletedInv'
<1>1. /\ svc' = Ended(Released(svc, Op.session)) /\ history' = [history EXCEPT !.dropped = @ \cup {Op.session}]
      /\ UNCHANGED <<client, deleted, request, rows>>
  BY DEF EndFails, sessionVars
<1>2. HistoryGrows /\ Op.session \in history'.dropped
  BY <1>1 DEF DeletedInv, Shapes, HistoryFields, HistoryGrows
<1> QED
  BY <1>1, <1>2, SettledShapes, NotedTables, EndKeeps

LEMMA ArchiveLiveStep ==
  ASSUME DeletedInv, ArchiveLive
  PROVE  DeletedInv'
<1> DEFINE s == Op.session
           windows == {rows[r].window : r \in OpenOf(rows, s)} \cap Live
<1>1. PICK failed, late :
        /\ rows' = [r \in RowIds |->
                      IF r \in OpenOf(rows, s) THEN ArchivedRow(rows[r], failed)
                      ELSE IF r \in Restorable(rows, s) THEN Saved(rows[r]) ELSE rows[r]]
        /\ svc' = Ended(Closes(Released(svc, s), windows \ svc.removals, windows \ (failed \cup svc.removals)))
        /\ history' = [history EXCEPT !.late = @ \cup late]
  BY DEF ArchiveLive
<1>2. UNCHANGED <<client, deleted, request>> /\ \A x : Op # Deletion(x)
  BY NotDeletion DEF ArchiveLive, sessionVars
<1> HIDE DEF windows
<1>3. HistoryGrows
  BY <1>1 DEF DeletedInv, Shapes, HistoryFields, HistoryGrows
<1>4. Settled(svc', s)
  BY <1>1, SettledShapes
<1>5. From(rows', rows)
  <2>1. ASSUME NEW r \in RowIds
        PROVE  DOMAIN rows'[r] = RowFields /\ rows'[r].session = rows[r].session
    <3>1. DOMAIN rows[r] = RowFields
      BY DEF DeletedInv, Shapes, RowsLike
    <3>2. \A pages : /\ DOMAIN Merged(rows[r], pages) = RowFields
                     /\ Merged(rows[r], pages).session = rows[r].session
      BY <3>1, RowOperators
    <3>3. \A pages : /\ DOMAIN Saved(Merged(rows[r], pages)) = RowFields
                     /\ Saved(Merged(rows[r], pages)).session = rows[r].session
      BY <3>2, RowOperators
    <3>4. DOMAIN Saved(rows[r]) = RowFields /\ Saved(rows[r]).session = rows[r].session
      BY <3>1, RowOperators
    <3>5. \/ rows'[r] \in {rows[r], Saved(rows[r])}
          \/ \E pages : rows'[r] \in {Merged(rows[r], pages), Saved(Merged(rows[r], pages))}
      BY <1>1 DEF ArchivedRow
    <3> QED
      BY <3>1, <3>2, <3>3, <3>4, <3>5
  <2> QED
    BY <1>1, <2>1 DEF From, RowsLike
<1> QED
  BY <1>2, <1>3, <1>4, <1>5, NotedTables, EndKeeps

LEMMA ArchiveOfflineStep ==
  ASSUME DeletedInv, ArchiveOffline
  PROVE  DeletedInv'
<1> DEFINE s == Op.session
           open == {r \in OpenOf(rows, s) : rows[r].window \notin svc.removals}
           stored == open \cup Restorable(rows, s)
           pending == {p \in svc.pendingClose : \A q \in Postponed(s, FALSE) : q.window # p.window}
                         \cup Postponed(s, FALSE)
<1>1. rows' = [r \in RowIds |-> IF r \in stored THEN Saved(rows[r]) ELSE rows[r]]
  BY DEF ArchiveOffline
<1>2. svc' = Ended([Released(svc, s) EXCEPT !.pendingClose = pending])
  <2>1. Released(svc, s).pendingClose = svc.pendingClose
    BY DEF DeletedInv, Shapes, SvcFields, Released
  <2> QED
    BY <2>1 DEF ArchiveOffline
<1>3. UNCHANGED <<client, deleted, request, history>> /\ \A x : Op # Deletion(x)
  BY NotDeletion DEF ArchiveOffline, sessionVars
<1> HIDE DEF stored, pending
<1>4. From(rows', rows)
  BY <1>1, RowOperators DEF DeletedInv, Shapes, From, RowsLike
<1>5. Settled(svc', s)
  BY <1>2, SettledShapes
<1> QED
  BY <1>3, <1>4, <1>5, SameHistory, NotedTables, EndKeeps

LEMMA DeleteSteps ==
  ASSUME DeletedInv, DeleteLive \/ DeleteOffline
  PROVE  DeletedInv'
<1> DEFINE s == Op.session
<1>1. /\ rows' = Delete(rows, {r \in RowIds : rows[r].session = s}) /\ UNCHANGED <<client, deleted, request>>
      /\ history' = history \/ \E ws : history' = [history EXCEPT !.strays = @ \cup ws]
  BY DEF DeleteLive, DeleteOffline, sessionVars
<1>2. \/ \E asked, closed : svc' = Ended(Closes(Released(svc, s), asked, closed))
      \/ \E pending : svc' = Ended([Released(svc, s) EXCEPT !.pendingClose = pending])
  <2>1. CASE DeleteLive
    BY <2>1 DEF DeleteLive
  <2>2. CASE DeleteOffline
    BY <2>2 DEF DeleteOffline
  <2> QED
    BY <2>1, <2>2
<1>3. Settled(svc', s)
  BY <1>2, SettledShapes
<1>4. HistoryGrows
  BY <1>1 DEF DeletedInv, Shapes, HistoryFields, HistoryGrows
<1>5. From(rows', rows)
  BY <1>1, TableOperators DEF DeletedInv, Shapes, From
<1>6. s = 0 \/ \A r \in RowIds : rows'[r].session # s
  BY <1>1, NewRows DEF Delete
<1> QED
  BY <1>1, <1>3, <1>4, <1>5, <1>6, NotedTables, EndKeeps

LEMMA RestartStep ==
  ASSUME DeletedInv, DaemonRestarts
  PROVE  DeletedInv'
<1> DEFINE ws == {p.window : p \in svc.pendingClose}
           ended == {svc.queue[i].session : i \in DOMAIN svc.queue}
<1>1. /\ svc' = FreshService /\ request' = NoRequest
      /\ UNCHANGED <<client, deleted, rows>>
      /\ history' = [history EXCEPT !.strays = @ \cup ws, !.dropped = @ \cup ended \cup {svc.op.session}]
  BY DEF DaemonRestarts, sessionVars
<1>2. /\ DOMAIN svc' = SvcFields /\ svc'.attached = 0 /\ svc'.op = NoOp /\ svc'.queue = <<>>
  BY <1>1 DEF FreshService, SvcFields
<1>3. DOMAIN request' = RequestFields /\ request'.session = 0
  BY <1>1 DEF NoRequest, RequestFields
<1>4. HistoryGrows
  BY <1>1 DEF DeletedInv, Shapes, HistoryFields, HistoryGrows
<1>5. \A x : IsNoted(x) => x \in history'.overtaken \cup history'.dropped
  <2>1. \A x : Deletion(x).session = x
    BY DEF Deletion
  <2>2. /\ svc.op.session \in history'.dropped
        /\ \A i \in DOMAIN svc.queue : svc.queue[i].session \in history'.dropped
    BY <1>1 DEF DeletedInv, Shapes, HistoryFields
  <2> QED
    BY <1>4, <2>1, <2>2 DEF IsNoted, HistoryGrows
<1>6. 0 \notin deleted
  BY BrowserIds DEF DeletedInv, Shapes
<1>7. Shapes'
  BY <1>1, <1>2, <1>3, <1>4, EndTypes DEF DeletedInv, Shapes, HistoryGrows
<1>8. (\A r \in RowIds : rows[r].session \in deleted => IsNoted(rows[r].session))'
  BY <1>1, <1>5 DEF DeletedInv, IsNoted
<1>9. client' \notin deleted'
  BY <1>1 DEF DeletedInv
<1> QED
  BY <1>1, <1>2, <1>3, <1>6, <1>7, <1>8, <1>9 DEF DeletedInv

LEMMA EndsStep ==
  ASSUME DeletedInv, Ends, EndFails \/ ArchiveLive \/ ArchiveOffline \/ DeleteLive \/ DeleteOffline
  PROVE  DeletedInv'
BY EndFailsStep, ArchiveLiveStep, ArchiveOfflineStep, DeleteSteps

LEMMA SessionStep ==
  ASSUME DeletedInv, SessionEvents
  PROVE  DeletedInv'
BY SwitchStep, ArchivedStep, DeletedStep DEF SessionEvents

-----------------------------------------------------------------------------
\* The browser connects and disconnects; its events; the timers.
LEMMA TrustedTable == DeletedInv => From(Trusted(Flushed(rows)), rows)
BY ConnectionOperators DEF DeletedInv, Shapes, From

LEMMA JoinedShape ==
  ASSUME DeletedInv
  PROVE  /\ DOMAIN Joined(svc) = SvcFields /\ Joined(svc).attached = svc.attached
         /\ Joined(svc).op = svc.op /\ Joined(svc).queue = svc.queue
BY DEF DeletedInv, Shapes, SvcFields, Joined

LEMMA ConnectionStep ==
  ASSUME DeletedInv, HandleConnected \/ HandleConnectedFails \/ HandleDisconnected
  PROVE  DeletedInv'
<1>1. CASE HandleConnected
  <2> DEFINE before  == Trusted(Flushed(rows))
             windows == {p.window : p \in Pending} \cap Live
             made    == Owned(Resynced(before))
  <2>1. PICK failed, late :
          /\ svc' = [Closes(Joined(svc), windows, windows \ failed) EXCEPT
                       !.pendingClose = {}, !.unowned = {}, !.last = focus, !.prev = 0,
                       !.attached = IF @ = 0 THEN client ELSE @]
          /\ history' = [history EXCEPT !.made = @ \cup made,
                                         !.strays = @ \cup (failed \ late) \cup (Owned(before) \ Owned(SavedClosing(before)))]
    BY <1>1 DEF HandleConnected
  <2>2. rows' = Resynced(before) /\ UNCHANGED <<client, deleted, request>>
    BY <1>1 DEF HandleConnected, sessionVars
  <2>3. From(rows', rows)
    <3>1. From(before, rows)
      BY TrustedTable
    <3> HIDE DEF before
    <3> QED
      BY <2>2, <3>1, ConnectionOperators
  <2> HIDE DEF windows
  <2>4. DOMAIN svc' = SvcFields /\ svc'.attached \in {svc.attached, client} /\ svc'.op = svc.op /\ svc'.queue = svc.queue
    BY <2>1, JoinedShape DEF Closes, SvcFields
  <2>5. HistoryGrows
    BY <2>1 DEF DeletedInv, Shapes, HistoryFields, HistoryGrows
  <2> QED
    BY <2>2, <2>3, <2>4, <2>5, NotedTables, Keeps DEF DeletedInv, Shapes, SameEnds
<1>2. CASE HandleConnectedFails
  <2>1. rows' = Trusted(Flushed(rows)) /\ svc' = Joined(svc) /\ UNCHANGED <<client, deleted, request, history>>
    BY <1>2 DEF HandleConnectedFails, sessionVars
  <2> QED
    BY <2>1, TrustedTable, JoinedShape, SameHistory, NotedTables, Keeps DEF DeletedInv, Shapes, SameEnds
<1>3. CASE HandleDisconnected
  <2>1. /\ rows' = Flushed(rows) /\ UNCHANGED <<client, deleted, request, history>>
        /\ svc' = [svc EXCEPT !.connected = FALSE, !.removals = {}, !.snapshots = {}, !.closing = {}]
    BY <1>3 DEF HandleDisconnected, sessionVars
  <2>2. From(rows', rows)
    BY <2>1, ConnectionOperators DEF DeletedInv, Shapes, From
  <2>3. DOMAIN svc' = SvcFields /\ svc'.attached = svc.attached /\ svc'.op = svc.op /\ svc'.queue = svc.queue
    BY <2>1 DEF DeletedInv, Shapes, SvcFields
  <2> QED
    BY <2>1, <2>2, <2>3, SameHistory, NotedTables, Keeps DEF DeletedInv, Shapes, SameEnds
<1> QED
  BY <1>1, <1>2, <1>3

LEMMA AdoptedTable ==
  ASSUME DeletedInv, NEW w
  PROVE  Noted(Adopted(w))
<1>1. CASE RowsOf(rows, w) # {} \/ w \in svc.unowned \/ Parent(w) = 0
  BY <1>1, NotedTables DEF Adopted
<1>2. CASE ~(RowsOf(rows, w) # {} \/ w \in svc.unowned \/ Parent(w) = 0)
  <2> DEFINE row == OpenRow(Parent(w), w, {})
             t   == AddRow(rows, row)
  <2>1. Adopted(w) = SaveTabs(t, {w})
    BY <1>2 DEF Adopted
  <2>2. \E r \in RowIds : Parent(w) = rows[r].session
    <3> DEFINE opener == IF svc.last = w THEN svc.prev ELSE svc.last
    <3>1. Parent(w) = rows[CHOOSE r \in RowsOf(rows, opener) : TRUE].session /\ RowsOf(rows, opener) # {}
      BY <1>2 DEF Parent
    <3>2. RowsOf(rows, opener) \subseteq RowIds
      BY DEF RowsOf, OpenRows, InState
    <3> HIDE DEF opener
    <3> QED
      BY <3>1, <3>2
  <2>3. DOMAIN row = RowFields /\ row.session = Parent(w)
    BY NewRows
  <2> HIDE DEF row
  <2>4. Noted(t)
    BY <2>2, <2>3, NotedTables DEF DeletedInv
  <2> HIDE DEF t
  <2>5. From(SaveTabs(t, {w}), t)
    BY <2>4, TableOperators DEF From, Noted
  <2>6. 0 \notin deleted
    BY BrowserIds DEF DeletedInv, Shapes
  <2> QED
    BY <2>1, <2>4, <2>5, <2>6 DEF From, Noted
<1> QED
  BY <1>1, <1>2

\* Steps that leave the service's sessions, the client and the request alone.
LEMMA TableStep ==
  ASSUME DeletedInv, UNCHANGED <<client, deleted, request>>, HistoryGrows, SameEnds, Noted(rows'),
         svc'.attached = svc.attached
  PROVE  DeletedInv'
BY Keeps DEF DeletedInv, Shapes

LEMMA EventsStep ==
  ASSUME DeletedInv, HandleCreated \/ HandleCreatedFails \/ HandleRemoved \/ HandleTabs \/ HandleFocus
  PROVE  DeletedInv'
<1> DEFINE w == Subject
<1>1. CASE HandleCreated
  <2>1. /\ rows' = Adopted(w) /\ UNCHANGED <<client, deleted, request>>
        /\ svc' = [svc EXCEPT !.unowned = @ \ {w}, !.swap = @ \/ rows' # rows]
        /\ history' = [history EXCEPT !.made = @ \cup (Owned(rows') \cap Live)]
    BY <1>1 DEF HandleCreated, sessionVars
  <2> HIDE DEF w
  <2>2. DOMAIN svc' = SvcFields /\ svc'.attached = svc.attached /\ svc'.op = svc.op /\ svc'.queue = svc.queue
    BY <2>1 DEF DeletedInv, Shapes, SvcFields
  <2>3. HistoryGrows
    BY <2>1 DEF DeletedInv, Shapes, HistoryFields, HistoryGrows
  <2>4. Noted(rows')
    BY <2>1, AdoptedTable
  <2> QED
    BY <2>1, <2>2, <2>3, <2>4, TableStep DEF SameEnds
<1>2. CASE HandleCreatedFails
  <2>1. UNCHANGED <<client, deleted, request, rows, svc, history>>
    BY <1>2 DEF HandleCreatedFails, sessionVars
  <2> QED
    BY <2>1, NotedTables, SameHistory, TableStep DEF SameEnds, DeletedInv, Shapes
<1>3. CASE HandleRemoved
  <2>1. /\ UNCHANGED <<client, deleted, request, rows, history>>
        /\ svc' = [svc EXCEPT
             !.snapshots = @ \ {w}, !.closing = @ \ {w},
             !.removals = IF w \notin svc.closing /\ RowsOf(rows, w) # {} THEN @ \cup {w} ELSE @]
    BY <1>3 DEF HandleRemoved, sessionVars
  <2> HIDE DEF w
  <2>2. DOMAIN svc' = SvcFields /\ svc'.attached = svc.attached /\ svc'.op = svc.op /\ svc'.queue = svc.queue
    BY <2>1 DEF DeletedInv, Shapes, SvcFields
  <2> QED
    BY <2>1, <2>2, NotedTables, SameHistory, TableStep DEF SameEnds
<1>4. CASE HandleTabs
  <2>1. /\ UNCHANGED <<client, deleted, request, rows, history>>
        /\ svc' = [svc EXCEPT !.snapshots = IF RowsOf(rows, w) # {} THEN @ \cup {w} ELSE @]
    BY <1>4 DEF HandleTabs, sessionVars
  <2> HIDE DEF w
  <2>2. DOMAIN svc' = SvcFields /\ svc'.attached = svc.attached /\ svc'.op = svc.op /\ svc'.queue = svc.queue
    BY <2>1 DEF DeletedInv, Shapes, SvcFields
  <2> QED
    BY <2>1, <2>2, NotedTables, SameHistory, TableStep DEF SameEnds
<1>5. CASE HandleFocus
  <2> DEFINE waiting == UNION {rows[r].waiting : r \in RowsOf(rows, w)}
             pages(loaded) == IF w \in Live THEN shown[w] \cup loaded ELSE {}
  <2>1. /\ UNCHANGED <<client, deleted, request, history>>
        /\ svc' = IF svc.last = w THEN svc ELSE [svc EXCEPT !.prev = svc.last, !.last = w]
    BY <1>5 DEF HandleFocus, sessionVars
  <2>2. PICK loaded : rows' = [r \in RowIds |-> IF r \in RowsOf(rows, w) /\ waiting # {}
                                                THEN Merged(rows[r], pages(loaded)) ELSE rows[r]]
    BY <1>5 DEF HandleFocus
  <2> HIDE DEF w, waiting, pages
  <2>3. DOMAIN svc' = SvcFields /\ svc'.attached = svc.attached /\ svc'.op = svc.op /\ svc'.queue = svc.queue
    BY <2>1 DEF DeletedInv, Shapes, SvcFields
  <2>4. From(rows', rows)
    BY <2>2, RowOperators DEF DeletedInv, Shapes, From, RowsLike
  <2> QED
    BY <2>1, <2>3, <2>4, NotedTables, SameHistory, TableStep DEF SameEnds
<1> QED
  BY <1>1, <1>2, <1>3, <1>4, <1>5

LEMMA TimersStep ==
  ASSUME DeletedInv, NEW w, RemovalExpires(w) \/ SnapshotFires(w)
  PROVE  DeletedInv'
<1>1. /\ UNCHANGED <<client, deleted, request, history>>
      /\ rows' \in {rows, Delete(rows, RowsOf(rows, w)), SaveTabs(rows, {w})}
      /\ \/ svc' = [svc EXCEPT !.removals = @ \ {w}]
         \/ svc' = [svc EXCEPT !.snapshots = @ \ {w}, !.swap = TRUE]
  <2>1. CASE RemovalExpires(w)
    BY <2>1 DEF RemovalExpires, sessionVars
  <2>2. CASE SnapshotFires(w)
    BY <2>2 DEF SnapshotFires, sessionVars
  <2> QED
    BY <2>1, <2>2
<1>2. From(rows', rows)
  <2>1. From(rows, rows)
    BY DEF DeletedInv, Shapes, From
  <2>2. From(Delete(rows, RowsOf(rows, w)), rows) /\ From(SaveTabs(rows, {w}), rows)
    BY <2>1, TableOperators
  <2> QED
    BY <1>1, <2>1, <2>2
<1>3. DOMAIN svc' = SvcFields /\ svc'.attached = svc.attached /\ svc'.op = svc.op /\ svc'.queue = svc.queue
  BY <1>1 DEF DeletedInv, Shapes, SvcFields
<1> QED
  BY <1>1, <1>2, <1>3, NotedTables, SameHistory, TableStep DEF SameEnds

-----------------------------------------------------------------------------
\* The placement of the attached session, and the requests past their checks: the rows
\* and windows they make are those sessions'.
\* The tables a restoration or creation for session s leaves.
For(t, s) == RowsLike(t) /\ \A r \in RowIds : t[r].session \in {0, s, rows[r].session}

LEMMA NotedFor ==
  ASSUME DeletedInv, NEW t, NEW s, For(t, s), s \in deleted => IsNoted(s)
  PROVE  Noted(t)
<1>1. 0 \notin deleted
  BY BrowserIds DEF DeletedInv, Shapes
<1> QED
  BY <1>1 DEF For, Noted, DeletedInv

LEMMA AppearGrows ==
  ASSUME DeletedInv, NEW new, NEW owned, NEW takes, NEW failures, Appear(new, owned, takes, failures)
  PROVE  HistoryGrows
<1> DEFINE ws == DOMAIN new
<1>1. history' = [Anew(history, ws) EXCEPT !.made = @ \cup owned]
  BY DEF Appear
<1> HIDE DEF ws
<1> QED
  BY <1>1 DEF DeletedInv, Shapes, HistoryFields, HistoryGrows, Anew

LEMMA RestoredStep ==
  ASSUME DeletedInv, NEW s, NEW f, NEW kept, Restored(s, f, kept)
  PROVE  HistoryGrows /\ For(rows', s)
<1>1. HistoryGrows
  BY AppearGrows DEF Restored
<1>2. From(rows', rows)
  BY RestoredTable DEF Restored, DeletedInv, Shapes
<1> QED
  BY <1>1, <1>2 DEF From, For

LEMMA CreatedStep ==
  ASSUME DeletedInv, NEW s, NEW pages, NEW takes, CreatedFor(s, pages, takes)
  PROVE  HistoryGrows /\ For(rows', s)
<1>1. PICK f, outcome :
        LET w   == NextUnused(Cardinality(DOMAIN f))
            new == IF outcome = "failed" THEN << >> ELSE Gives(<< >>, w, pages)
            own == IF outcome = "ok" THEN {w} ELSE {} IN
        /\ Appear(Together(new, Copies(f)), own, IF takes THEN DOMAIN new ELSE {},
                  Cardinality(Kept(s)) + (IF outcome = "ok" THEN 0 ELSE 1))
        /\ rows' = IF own # {} THEN AddRow(RestoredRows(s, f, {}), OpenRow(s, w, pages))
                   ELSE RestoredRows(s, f, {})
  BY DEF CreatedFor
<1>2. HistoryGrows
  BY <1>1, AppearGrows
<1> DEFINE t == RestoredRows(s, f, {})
           row == OpenRow(s, NextUnused(Cardinality(DOMAIN f)), pages)
<1>3. From(t, rows)
  BY RestoredTable DEF DeletedInv, Shapes
<1>4. rows' \in {t, AddRow(t, row)}
  BY <1>1
<1>5. DOMAIN row = RowFields /\ row.session = s
  BY NewRows
<1> HIDE DEF t, row
<1>6. /\ RowsLike(AddRow(t, row))
      /\ \A r \in RowIds : AddRow(t, row)[r].session \in {t[r].session, s}
  BY <1>3, <1>5, AddedRow DEF From
<1> QED
  BY <1>2, <1>3, <1>4, <1>6 DEF From, For

\* What such a step does with the service and the request.
SameRequest == DOMAIN request' = RequestFields /\ request'.session \in {0, request.session}

LEMMA StepFor ==
  ASSUME DeletedInv, UNCHANGED <<client, deleted>>, HistoryGrows, SameEnds, SameRequest, svc'.attached = svc.attached,
         NEW s \in {svc.attached, request.session}, For(rows', s)
  PROVE  DeletedInv'
<1>1. 0 \notin deleted
  BY BrowserIds DEF DeletedInv, Shapes
<1>2. s \in deleted => IsNoted(s)
  BY DEF DeletedInv, IsNoted
<1>3. Noted(rows')
  BY <1>2, NotedFor
<1> QED
  BY <1>1, <1>3, Keeps DEF DeletedInv, SameRequest

LEMMA RowsStay ==
  ASSUME DeletedInv
  PROVE  For(rows, request.session)
BY DEF DeletedInv, Shapes, For

Remains(v) == DOMAIN v = SvcFields /\ v.op = svc.op /\ v.queue = svc.queue /\ v.attached = svc.attached

LEMMA RemainingShapes ==
  ASSUME DeletedInv
  PROVE  /\ Remains(svc) /\ Remains(Begun) /\ Remains([Begun EXCEPT !.placed = 0, !.stale = FALSE])
         /\ Remains(Done(Begun)) /\ Remains([Done(Begun) EXCEPT !.swap = TRUE])
         /\ Remains([svc EXCEPT !.swap = TRUE]) /\ Remains([svc EXCEPT !.swap = TRUE, !.stale = TRUE])
         /\ \A w : Remains([svc EXCEPT !.unowned = @ \cup {w}])
<1>1. Remains(svc) /\ Remains(Begun)
  BY DEF DeletedInv, Shapes, SvcFields, Remains, Begun
<1>2. Remains([Begun EXCEPT !.placed = 0, !.stale = FALSE])
  BY <1>1 DEF SvcFields, Remains
<1>3. Remains(Done(Begun))
  BY <1>1 DEF SvcFields, Remains, Done
<1>4. Remains([Done(Begun) EXCEPT !.swap = TRUE])
  BY <1>3 DEF SvcFields, Remains
<1>5. Remains([svc EXCEPT !.swap = TRUE]) /\ Remains([svc EXCEPT !.swap = TRUE, !.stale = TRUE])
  BY <1>1 DEF SvcFields, Remains
<1>6. \A w : Remains([svc EXCEPT !.unowned = @ \cup {w}])
  BY <1>1 DEF SvcFields, Remains
<1> QED
  BY <1>1, <1>2, <1>3, <1>4, <1>5, <1>6

LEMMA RequestShapes ==
  ASSUME DeletedInv, Goes \/ request' = NoRequest \/ \E w, v : Found(w, v)
  PROVE  SameRequest
<1>1. CASE Goes
  BY <1>1 DEF DeletedInv, Shapes, RequestFields, SameRequest, Goes
<1>2. CASE request' = NoRequest
  BY <1>2 DEF NoRequest, RequestFields, SameRequest
<1>3. ASSUME NEW w, NEW v, Found(w, v)
      PROVE  SameRequest
  BY <1>3 DEF DeletedInv, Shapes, RequestFields, SameRequest, Found
<1> QED
  BY <1>1, <1>2, <1>3

LEMMA PlacesStep ==
  ASSUME DeletedInv, PlaceFails \/ PlaceNothing \/ PlaceRestores \/ PlaceFindsNone \/ PlaceCreates
  PROVE  DeletedInv'
<1>1. Goes /\ UNCHANGED <<client, deleted>>
  BY DEF PlaceFails, PlaceNothing, PlaceRestores, PlaceFindsNone, PlaceCreates, sessionVars
<1>2. SameRequest
  BY <1>1, RequestShapes
<1>3. Remains(svc')
  BY RemainingShapes DEF PlaceFails, PlaceNothing, PlaceRestores, PlaceFindsNone, PlaceCreates
<1>4. CASE PlaceFails \/ PlaceNothing
  <2>1. UNCHANGED <<rows, history>>
    BY <1>4 DEF PlaceFails, PlaceNothing
  <2> QED
    BY <1>1, <1>2, <1>3, <2>1, RowsStay, SameHistory, StepFor DEF Remains, SameEnds
<1>5. CASE PlaceRestores \/ PlaceFindsNone \/ PlaceCreates
  <2>1. HistoryGrows /\ For(rows', svc.attached)
    BY <1>5, RestoredStep, CreatedStep DEF PlaceRestores, PlaceFindsNone, PlaceCreates
  <2> QED
    BY <1>1, <1>2, <1>3, <2>1, StepFor DEF Remains, SameEnds
<1> QED
  BY <1>4, <1>5

LEMMA RequestsStep ==
  ASSUME DeletedInv, Requests
  PROVE  DeletedInv'
<1>1. CASE RequestFails \/ OpenFinds \/ Finish \/ HoldOpens \/ HoldFails \/ FocusFinds
  <2>1. UNCHANGED <<client, deleted, rows, svc, history>>
    BY <1>1 DEF RequestFails, OpenFinds, Finish, HoldOpens, HoldFails, FocusFinds, Found, sessionVars
  <2>2. request' = NoRequest \/ \E w, v : Found(w, v)
    BY <1>1 DEF RequestFails, OpenFinds, Finish, HoldOpens, HoldFails, FocusFinds
  <2> QED
    BY <2>1, <2>2, RequestShapes, RowsStay, SameHistory, RemainingShapes, StepFor DEF Remains, SameEnds
<1>2. CASE OpenRestores
  <2>1. PICK f, kept, w : /\ Restored(request.session, f, kept)
                          /\ Found(w, [svc EXCEPT !.swap = TRUE, !.stale = TRUE])
    BY <1>2 DEF OpenRestores
  <2>2. UNCHANGED <<client, deleted>>
    BY <1>2 DEF OpenRestores, sessionVars
  <2>3. HistoryGrows /\ For(rows', request.session)
    BY <2>1, RestoredStep
  <2>4. SameRequest
    BY <2>1, RequestShapes
  <2>5. Remains(svc')
    BY <2>1, RemainingShapes DEF Found
  <2> QED
    BY <2>2, <2>3, <2>4, <2>5, StepFor DEF Remains, SameEnds
<1>3. CASE OpenCreates
  <2>1. CreatedFor(request.session, {request.page}, request.focus) /\ request' = NoRequest /\ UNCHANGED <<client, deleted>>
    BY <1>3 DEF OpenCreates, Answers, sessionVars
  <2>2. Remains(svc')
    BY <1>3, RemainingShapes DEF OpenCreates, Answers
  <2> QED
    BY <2>1, <2>2, RequestShapes, CreatedStep, StepFor DEF Remains, SameEnds
<1>4. CASE OpenCreatesUnowned
  <2>1. /\ UNCHANGED <<client, deleted, rows>> /\ request' = NoRequest
        /\ svc' = svc \/ \E w : svc' = [svc EXCEPT !.unowned = @ \cup {w}]
        /\ \E new, n : Appear(new, {}, DOMAIN new, n)
    BY <1>4 DEF OpenCreatesUnowned, Answers, sessionVars
  <2>2. HistoryGrows
    BY <2>1, AppearGrows
  <2>3. Remains(svc')
    BY <2>1, RemainingShapes
  <2> QED
    BY <2>1, <2>2, <2>3, RequestShapes, RowsStay, StepFor DEF Remains, SameEnds
<1>5. CASE HoldWaits
  <2>1. UNCHANGED <<client, deleted, svc, history>> /\ request' = NoRequest
    BY <1>5 DEF HoldWaits, sessionVars
  <2> DEFINE row == [NoRow EXCEPT !.state = "snapshotted", !.session = request.session, !.waiting = {request.page}]
  <2>2. DOMAIN row = RowFields /\ row.session = request.session
    BY DEF NoRow, RowFields
  <2>3. \/ rows' = AddRow(rows, row)
        \/ \E r, ps : rows' = [rows EXCEPT ![r].waiting = ps]
    BY <1>5 DEF HoldWaits
  <2> HIDE DEF row
  <2>4. /\ RowsLike(AddRow(rows, row))
        /\ \A r \in RowIds : AddRow(rows, row)[r].session \in {rows[r].session, request.session}
    BY <2>2, AddedRow DEF DeletedInv, Shapes
  <2>5. For(rows', request.session)
    <3>1. CASE rows' = AddRow(rows, row)
      BY <3>1, <2>4 DEF For
    <3>2. ASSUME NEW r, NEW ps, rows' = [rows EXCEPT ![r].waiting = ps]
          PROVE  For(rows', request.session)
      BY <3>2 DEF For, DeletedInv, Shapes, RowsLike, RowFields
    <3> QED
      BY <2>3, <3>1, <3>2
  <2> QED
    BY <2>1, <2>5, RequestShapes, SameHistory, RemainingShapes, StepFor DEF Remains, SameEnds
<1>6. CASE MoveInto
  <2>1. /\ UNCHANGED <<client, deleted, rows, svc>> /\ request' = NoRequest
        /\ \E ws : history' = [history EXCEPT !.byHand = ws]
    BY <1>6 DEF MoveInto, sessionVars
  <2>2. HistoryGrows
    BY <2>1 DEF DeletedInv, Shapes, HistoryFields, HistoryGrows
  <2> QED
    BY <2>1, <2>2, RequestShapes, RowsStay, RemainingShapes, StepFor DEF Remains, SameEnds
<1>7. CASE MoveDetaches
  <2>1. /\ UNCHANGED <<client, deleted>> /\ request' = NoRequest
    BY <1>7 DEF MoveDetaches, sessionVars
  <2>2. HistoryGrows
    <3>1. PICK late \in BOOLEAN :
            LET v   == NextUnused(0)
                own == IF late THEN {} ELSE {v} IN
            history' = [Anew(history, {v}) EXCEPT !.made = @ \cup own,
                          !.byHand = IF request.window \in DOMAIN shown' THEN @ ELSE @ \cup {request.window}]
      BY <1>7 DEF MoveDetaches
    <3> QED
      BY <3>1 DEF DeletedInv, Shapes, HistoryFields, HistoryGrows, Anew
  <2>3. /\ rows' = rows \/ \E v, pages : rows' = AddRow(rows, OpenRow(request.session, v, pages))
        /\ svc' \in {svc, [svc EXCEPT !.swap = TRUE]}
    BY <1>7 DEF MoveDetaches
  <2>4. \A row : DOMAIN row = RowFields /\ row.session = request.session => For(AddRow(rows, row), request.session)
    BY AddedRow DEF For, DeletedInv, Shapes
  <2>5. For(rows', request.session)
    BY <2>3, <2>4, RowsStay, NewRows
  <2>6. Remains(svc')
    BY <2>3, RemainingShapes
  <2> QED
    BY <2>1, <2>2, <2>5, <2>6, RequestShapes, StepFor DEF Remains, SameEnds
<1> QED
  BY <1>1, <1>2, <1>3, <1>4, <1>5, <1>6, <1>7 DEF Requests

-----------------------------------------------------------------------------
LEMMA DeletedInit == BrowserInit => DeletedInv
<1> SUFFICES ASSUME BrowserInit
             PROVE  DeletedInv
  OBVIOUS
<1>1. /\ DOMAIN svc = SvcFields /\ svc.attached = 0 /\ svc.op = NoOp /\ svc.queue = <<>>
  BY DEF BrowserInit, FreshService, SvcFields
<1>2. DOMAIN request = RequestFields /\ request.session = 0
  BY DEF BrowserInit, NoRequest, RequestFields
<1>3. DOMAIN history = HistoryFields
  BY DEF BrowserInit, NoHistory, HistoryFields
<1>4. RowsLike(rows)
  <2> DEFINE none == [r \in RowIds |-> NoRow]
  <2>1. RowsLike(none)
    BY NewRows DEF RowsLike
  <2>2. rows = none \/ \E s, w, p : rows = [none EXCEPT ![Min(RowIds)] = OpenRow(s, w, {p})]
    BY DEF BrowserInit
  <2> HIDE DEF none
  <2>3. ASSUME NEW i, NEW row, DOMAIN row = RowFields
        PROVE  RowsLike([none EXCEPT ![i] = row])
    BY <2>1, <2>3 DEF RowsLike
  <2>4. CASE rows = none
    BY <2>1, <2>4
  <2>5. ASSUME NEW s, NEW w, NEW p, rows = [none EXCEPT ![Min(RowIds)] = OpenRow(s, w, {p})]
        PROVE  RowsLike(rows)
    <3> DEFINE i == Min(RowIds)
               row == OpenRow(s, w, {p})
    <3>1. DOMAIN row = RowFields /\ rows = [none EXCEPT ![i] = row]
      BY <2>5, NewRows
    <3> HIDE DEF i, row
    <3> QED
      BY <2>3, <3>1
  <2> QED
    BY <2>2, <2>4, <2>5
<1>5. deleted = {}
  BY DEF BrowserInit
<1> QED
  BY <1>1, <1>2, <1>3, <1>4, <1>5, EndTypes DEF DeletedInv, Shapes

LEMMA DeletedNext == DeletedInv /\ [BrowserNext]_browserVars => DeletedInv'
<1> SUFFICES ASSUME DeletedInv, [BrowserNext]_browserVars
             PROVE  DeletedInv'
  OBVIOUS
<1>1. CASE Windows \/ Browser \/ BrowserQuits \/ LinkBreaks
  BY <1>1, OutsideStep DEF Browser
<1>2. CASE SessionEvents
  BY <1>2, SessionStep
<1>3. CASE Asking
  BY <1>3, AskingStep
<1>4. CASE DaemonRestarts
  BY <1>4, RestartStep
<1>5. CASE Loops
  BY <1>5, TakeStep, EndsStep, PlacesStep DEF Loops
<1>6. CASE EventsAndTimers
  BY <1>6, ConnectionStep, EventsStep, TimersStep DEF EventsAndTimers
<1>7. CASE Requests
  BY <1>7, RequestsStep
<1>8. CASE UNCHANGED browserVars
  BY <1>8 DEF browserVars, DeletedInv, Shapes, IsNoted
<1> QED
  BY <1>1, <1>2, <1>3, <1>4, <1>5, <1>6, <1>7, <1>8 DEF BrowserNext, Environment

\* Once a session is deleted and its end is dealt with the store keeps no row of it and
\* no request, placement, reconnection or restart brings one back (Delete, releaseSessionLocked
\* and the checks of Open, FocusTab and MoveTab in internal/browser/service.go), but for
\* a request that was past its checks and an end that was given up.
THEOREM DeletionsHold == BrowserSpec => []DeletedAreForgotten
<1>1. DeletedInv => DeletedAreForgotten
  BY DEF DeletedInv, IsNoted, Deletion, DeletedAreForgotten, Op
<1> QED
  BY DeletedInit, DeletedNext, <1>1, PTL DEF BrowserSpec

-----------------------------------------------------------------------------
(***************************************************************************)
(* Numbers: the least of a set, and induction up to a bound.  The          *)
(* induction theorems of the library take operators; these take sets.      *)
(***************************************************************************)
LEMMA LeastNumber ==
  ASSUME NEW T, T \subseteq Nat, T # {}
  PROVE  \E x \in T : \A y \in T : x <= y
<1> DEFINE Below(x) == 0 .. x
           F == {Below(x) : x \in T}
           R == StrictSubsetOrdering(Nat)
           D == FiniteSubsetsOf(Nat)
<1>1. IsWellFoundedOn(R, D)
  BY FS_StrictSubsetOrderingWellFounded
<1>2. F \subseteq D /\ F # {}
  <2>1. ASSUME NEW x \in T
        PROVE  Below(x) \in D
    <3>1. IsFiniteSet(0 .. x)
      BY FS_Interval
    <3> QED
      BY <3>1 DEF FiniteSubsetsOf
  <2> QED
    BY <2>1
<1> HIDE DEF R, D
<1>3. PICK f \in F : \A g \in F : ~ (<<g, f>> \in R)
  BY <1>1, <1>2, WFMin
<1>4. PICK x \in T : f = Below(x)
  OBVIOUS
<1>5. ASSUME NEW y \in T, y < x
      PROVE  FALSE
  <2>1. /\ Below(y) \subseteq Below(x) /\ Below(y) # Below(x)
        /\ Below(y) \in SUBSET Nat /\ Below(x) \in SUBSET Nat
    <3>1. x \in Below(x) /\ x \notin Below(y)
      BY <1>5
    <3> QED
      BY <1>5, <3>1
  <2>2. <<Below(y), Below(x)>> \in R
    BY <2>1 DEF R, StrictSubsetOrdering
  <2> QED
    BY <1>3, <1>4, <2>2
<1> QED
  BY <1>5

\* Induction up to a bound.
LEMMA Climbing ==
  ASSUME NEW k \in Nat, NEW T, 0 \in T, \A n \in 0 .. k - 1 : n \in T => n + 1 \in T
  PROVE  0 .. k \subseteq T
<1> DEFINE left == {n \in 0 .. k : n \notin T}
<1>1. CASE left = {}
  BY <1>1
<1>2. ASSUME left # {} PROVE FALSE
  <2>1. left \subseteq Nat
    OBVIOUS
  <2>2. PICK x \in left : \A y \in left : x <= y
    <3> HIDE DEF left
    <3> QED
      BY <1>2, <2>1, LeastNumber
  <2>3. x \in Nat /\ x # 0 /\ x - 1 \in 0 .. k - 1 /\ x - 1 \notin left
    BY <2>2
  <2>4. x - 1 \in T
    BY <2>3
  <2> QED
    BY <2>3, <2>4, <2>2
<1> QED
  BY <1>1, <1>2

-----------------------------------------------------------------------------
(***************************************************************************)
(* The places of the members of an ordered set.                            *)
(***************************************************************************)
Rank(S, R, c) == Cardinality({d \in S : <<d, c>> \in R})
Ranked(S, R) ==
  /\ \A c \in S : Rank(S, R, c) \in 0 .. Cardinality(S) - 1
  /\ \A c, d \in S : <<d, c>> \in R => Rank(S, R, d) < Rank(S, R, c)
  /\ \A n \in 0 .. Cardinality(S) - 1 : \E c \in S : Rank(S, R, c) = n

LEMMA EveryPlaceTaken ==
  ASSUME NEW S, IsFiniteSet(S), NEW R,
         \A c \in S : <<c, c>> \notin R,
         \A c, d, e \in S : <<c, d>> \in R /\ <<d, e>> \in R => <<c, e>> \in R,
         \A c, d \in S : c = d \/ <<c, d>> \in R \/ <<d, c>> \in R
  PROVE  Ranked(S, R)
<1> DEFINE Under(c) == {d \in S : <<d, c>> \in R}
           N == Cardinality(S)
           place == [c \in S |-> Cardinality(Under(c))]
<1>1. N \in Nat
  BY FS_CardinalityType
<1>2. ASSUME NEW c \in S
      PROVE  IsFiniteSet(Under(c)) /\ Cardinality(Under(c)) \in Nat /\ Cardinality(Under(c)) < N
  <2>1. Under(c) \in SUBSET S /\ Under(c) # S
    OBVIOUS
  <2> HIDE DEF Under
  <2>2. IsFiniteSet(Under(c)) /\ Cardinality(Under(c)) <= N /\ (N = Cardinality(Under(c)) => S = Under(c))
    BY <2>1, FS_Subset
  <2>3. Cardinality(Under(c)) \in Nat
    BY <2>2, FS_CardinalityType
  <2> QED
    BY <1>1, <2>1, <2>2, <2>3
<1>3. ASSUME NEW c \in S, NEW d \in S, <<d, c>> \in R
      PROVE  Cardinality(Under(d)) < Cardinality(Under(c))
  <2>1. Under(d) \in SUBSET Under(c) /\ d \in Under(c) /\ d \notin Under(d)
    BY <1>3
  <2>2. IsFiniteSet(Under(c)) /\ Cardinality(Under(c)) \in Nat /\ Cardinality(Under(d)) \in Nat
    BY <1>2
  <2> HIDE DEF Under
  <2>3. Cardinality(Under(d)) <= Cardinality(Under(c))
        /\ (Cardinality(Under(c)) = Cardinality(Under(d)) => Under(c) = Under(d))
    BY <2>1, <2>2, FS_Subset
  <2> QED
    BY <2>1, <2>2, <2>3
<1> HIDE DEF Under
<1>0. place \in [S -> 0 .. N - 1] /\ \A c \in S : place[c] = Cardinality(Under(c))
  BY <1>1, <1>2
<1>4. place \in Injection(S, 0 .. N - 1)
  <2> HIDE DEF place
  <2>2. ASSUME NEW c \in S, NEW d \in S, place[c] = place[d] PROVE c = d
    <3>1. Cardinality(Under(c)) \in Nat /\ Cardinality(Under(d)) \in Nat
          /\ Cardinality(Under(c)) = Cardinality(Under(d))
      BY <1>0, <1>2, <2>2
    <3>2. <<c, d>> \notin R /\ <<d, c>> \notin R
      BY <1>3, <3>1
    <3> QED
      BY <3>2
  <2> QED
    BY <1>0, <2>2 DEF Injection, IsInjective
<1>5. IsFiniteSet(0 .. N - 1) /\ Cardinality(0 .. N - 1) = N
  <2>1. 0 \in Int /\ N - 1 \in Int
    BY <1>1
  <2> QED
    BY <1>1, <2>1, FS_Interval
<1>6. place \in Surjection(S, 0 .. N - 1)
  <2> HIDE DEF place
  <2> QED
    BY <1>4, <1>5, FS_Injection
<1>7. \A n \in 0 .. N - 1 : \E c \in S : place[c] = n
  <2> HIDE DEF place
  <2> QED
    BY <1>6 DEF Surjection
<1>8. \A c \in S : Cardinality(Under(c)) \in 0 .. N - 1
  BY <1>1, <1>2
<1>9. \A c, d \in S : <<d, c>> \in R => Cardinality(Under(d)) < Cardinality(Under(c))
  BY <1>3
<1>10. \A n \in 0 .. N - 1 : \E c \in S : Cardinality(Under(c)) = n
  BY <1>0, <1>7
<1> QED
  BY <1>8, <1>9, <1>10 DEF Under, Rank, Ranked

-----------------------------------------------------------------------------
(***************************************************************************)
(* The recursive function that settles the candidates.                     *)
(***************************************************************************)
LEMMA SettlementSteps ==
  ASSUME NEW all, Cardinality(all) \in Nat
  PROVE  /\ Settlement(all)[0] = Untouched
         /\ \A n \in 0 .. Cardinality(all) - 1 :
              Settlement(all)[n + 1] = Settle(Settlement(all)[n], Nth(all, n), all)
<1> DEFINE N == Cardinality(all)
           Next(n, done) == Settle(done, Nth(all, n), all)
           Solves(g, m) == g = [n \in 0 .. m |-> IF n = 0 THEN Untouched ELSE Next(n - 1, g[n - 1])]
           T == {m \in 0 .. N : \E g : Solves(g, m)}
<1>1. 0 \in T
  <2> DEFINE g == [n \in 0 .. 0 |-> Untouched]
  <2>1. Solves(g, 0)
    OBVIOUS
  <2> HIDE DEF g, Solves
  <2> QED
    BY <2>1
<1>2. ASSUME NEW m \in 0 .. N - 1, m \in T PROVE m + 1 \in T
  <2>1. PICK g : Solves(g, m)
    BY <1>2
  <2> HIDE DEF Next
  <2> DEFINE h == [n \in 0 .. m + 1 |-> IF n <= m THEN g[n] ELSE Next(m, g[m])]
  <2>2. \A n \in 0 .. m + 1 : h[n] = IF n = 0 THEN Untouched ELSE Next(n - 1, h[n - 1])
    <3> SUFFICES ASSUME NEW n \in 0 .. m + 1 PROVE h[n] = IF n = 0 THEN Untouched ELSE Next(n - 1, h[n - 1])
      OBVIOUS
    <3>1. CASE n = 0
      BY <3>1, <2>1
    <3>2. CASE n # 0 /\ n <= m
      <4>1. h[n] = g[n] /\ h[n - 1] = g[n - 1] /\ g[n] = Next(n - 1, g[n - 1])
        BY <3>2, <2>1
      <4> QED
        BY <3>2, <4>1
    <3>3. CASE n = m + 1
      <4>1. h[n] = Next(m, g[m]) /\ h[n - 1] = g[m] /\ n - 1 = m /\ n # 0
        BY <3>3
      <4> QED
        BY <4>1
    <3> QED
      BY <3>1, <3>2, <3>3
  <2>3. Solves(h, m + 1)
    <3>1. h = [n \in 0 .. m + 1 |-> h[n]]
      OBVIOUS
    <3> HIDE DEF h
    <3> QED
      BY <2>2, <3>1
  <2>4. m + 1 \in 0 .. N
    OBVIOUS
  <2> HIDE DEF Solves, h
  <2> QED
    BY <2>3, <2>4
<1>3. PICK g : Solves(g, N)
  <2> HIDE DEF Solves
  <2>1. \A n \in 0 .. N - 1 : n \in T => n + 1 \in T
    BY <1>2
  <2> HIDE DEF T
  <2>2. N \in T
    BY <1>1, <2>1, Climbing
  <2> QED
    BY <2>2 DEF T
<1>4. Solves(Settlement(all), N)
  <2>1. Settlement(all) = CHOOSE f : Solves(f, N)
    BY DEF Settlement
  <2> HIDE DEF Solves
  <2> QED
    BY <1>3, <2>1
<1> DEFINE f == Settlement(all)
<1>5. ASSUME NEW n \in 0 .. N - 1 PROVE f[n + 1] = Next(n, f[n])
  <2> HIDE DEF f, Next
  <2>1. n + 1 \in 0 .. N /\ n + 1 # 0 /\ (n + 1) - 1 = n
    OBVIOUS
  <2>2. f = [i \in 0 .. N |-> IF i = 0 THEN Untouched ELSE Next(i - 1, f[i - 1])]
    BY <1>4 DEF f
  <2> QED
    BY <2>1, <2>2
<1>6. f[0] = Untouched
  BY <1>4
<1> QED
  BY <1>5, <1>6

-----------------------------------------------------------------------------
(***************************************************************************)
(* The order of the candidates.                                            *)
(***************************************************************************)
\* Rows and windows with finitely many addresses.
IsOffer(rs, ws) ==
  /\ DOMAIN rs \subseteq Nat /\ IsFiniteSet(DOMAIN rs) /\ \A r \in DOMAIN rs : IsFiniteSet(rs[r])
  /\ DOMAIN ws \subseteq Nat /\ IsFiniteSet(DOMAIN ws) /\ \A w \in DOMAIN ws : IsFiniteSet(ws[w])

LEMMA Scores ==
  ASSUME NEW a, NEW b, IsFiniteSet(a), IsFiniteSet(b)
  PROVE  /\ Score(a, b).shared \in Nat /\ Score(a, b).all \in Nat
         /\ Score(a, b).shared > 0 => Score(a, b).all > 0
<1>1. IsFiniteSet(a \cup b) /\ a \cap b \in SUBSET (a \cup b)
  BY FS_Union
<1>2. IsFiniteSet(a \cap b) /\ Cardinality(a \cap b) <= Cardinality(a \cup b)
  BY <1>1, FS_Subset
<1>3. Cardinality(a \cap b) \in Nat /\ Cardinality(a \cup b) \in Nat
  BY <1>1, <1>2, FS_CardinalityType
<1>4. Score(a, b).shared = Cardinality(a \cap b) /\ Score(a, b).all = Cardinality(a \cup b)
  BY DEF Score
<1> QED
  BY <1>2, <1>3, <1>4

LEMMA CandidateTypes ==
  ASSUME NEW rs, NEW ws, IsOffer(rs, ws)
  PROVE  /\ \A c \in Candidates(rs, ws) :
              /\ c.row \in DOMAIN rs /\ c.window \in DOMAIN ws /\ c.row \in Nat /\ c.window \in Nat
              /\ c.score.shared \in Nat /\ c.score.all \in Nat /\ c.score.all > 0
         /\ \A c, d \in Candidates(rs, ws) : c.row = d.row /\ c.window = d.window => c = d
         /\ IsFiniteSet(Candidates(rs, ws))
<1> DEFINE all == Candidates(rs, ws)
<1>1. ASSUME NEW c \in all
      PROVE  /\ c.row \in DOMAIN rs /\ c.window \in DOMAIN ws /\ c.score = Score(rs[c.row], ws[c.window])
             /\ c.score.shared > 0
             /\ c = [row |-> c.row, window |-> c.window, score |-> c.score]
  BY DEF Candidates
<1>2. ASSUME NEW c \in all
      PROVE  c.score.shared \in Nat /\ c.score.all \in Nat /\ c.score.all > 0
  <2>1. IsFiniteSet(rs[c.row]) /\ IsFiniteSet(ws[c.window])
    BY <1>1 DEF IsOffer
  <2> QED
    BY <1>1, <2>1, Scores
<1>3. ASSUME NEW c \in all, NEW d \in all, c.row = d.row, c.window = d.window PROVE c = d
  <2>1. c.score = d.score
    BY <1>1, <1>3
  <2> QED
    BY <1>1, <1>3, <2>1
<1> HIDE DEF all
<1>4. IsFiniteSet(all)
  <2> DEFINE D == DOMAIN rs
             W == DOMAIN ws
             pairs == D \X W
             pair  == [c \in all |-> <<c.row, c.window>>]
  <2>0. IsFiniteSet(D) /\ IsFiniteSet(W) /\ \A c \in all : c.row \in D /\ c.window \in W
    BY <1>1 DEF IsOffer
  <2> HIDE DEF D, W
  <2>1. IsFiniteSet(pairs)
    BY <2>0, FS_Product
  <2>2. pair \in [all -> pairs] /\ \A c \in all : pair[c] = <<c.row, c.window>>
    BY <2>0
  <2>3. \A c, d \in all : pair[c] = pair[d] => c = d
    BY <1>3, <2>2
  <2> HIDE DEF pair, pairs
  <2>4. pair \in Injection(all, pairs)
    BY <2>2, <2>3 DEF Injection, IsInjective
  <2> QED
    BY <2>1, <2>4, FS_Injection
<1> QED
  BY <1>1, <1>2, <1>3, <1>4 DEF IsOffer, all

\* Fractions are ordered by the products of numerators and denominators.
LEMMA Fractions ==
  ASSUME NEW a \in Nat, NEW b \in Nat, NEW c \in Nat, NEW d \in Nat, NEW e \in Nat, NEW f \in Nat,
         b > 0, d > 0, f > 0, a * d >= c * b, c * f >= e * d
  PROVE  /\ a * f >= e * b
         /\ a * d > c * b \/ c * f > e * d => a * f > e * b
<1> DEFINE x == a * d
           y == c * b
           u == c * f
           v == e * d
<1>1. x \in Nat /\ y \in Nat /\ u \in Nat /\ v \in Nat /\ x >= y /\ u >= v
  OBVIOUS
<1>2. x * f = d * (a * f) /\ y * f = u * b /\ v * b = d * (e * b)
  BY SMT
<1>3. /\ x * f >= y * f /\ u * b >= v * b
      /\ x > y => x * f > y * f
      /\ u > v => u * b > v * b
  <2> HIDE DEF x, y, u, v
  <2>1. \A i, j, k \in Nat : i >= j => i * k >= j * k
    BY SMT
  <2>2. \A i, j, k \in Nat : i > j /\ k > 0 => i * k > j * k
    BY SMT
  <2> QED
    BY <1>1, <2>1, <2>2
<1> DEFINE m == a * f
           n == e * b
<1>4. m \in Nat /\ n \in Nat
  OBVIOUS
<1>5. /\ d * m >= d * n
      /\ x > y \/ u > v => d * m > d * n
  BY <1>2, <1>3, <1>1
<1>6. \A i, j, k \in Nat : k > 0 /\ k * i >= k * j => i >= j
  BY SMT
<1>7. \A i, j, k \in Nat : k > 0 /\ k * i > k * j => i > j
  BY SMT
<1> HIDE DEF m, n
<1>8. m >= n /\ (x > y \/ u > v => m > n)
  BY <1>4, <1>5, <1>6, <1>7
<1> QED
  BY <1>8 DEF m, n, x, y, u, v

\* The scores of the candidates are ordered: comparable, and an equal score may take the place of another.
AtLeast(s, t) == Above(s, t) \/ Equals(s, t)

LEMMA ScoreOrder ==
  ASSUME NEW rs, NEW ws, IsOffer(rs, ws)
  PROVE  LET all == Candidates(rs, ws) IN
         /\ \A c, d \in all :
              /\ Above(c.score, d.score) => ~Above(d.score, c.score) /\ ~Equals(c.score, d.score)
              /\ Above(c.score, d.score) \/ Above(d.score, c.score) \/ Equals(c.score, d.score)
              /\ Equals(c.score, d.score) <=> Equals(d.score, c.score)
         /\ \A c, d, e \in all :
              AtLeast(c.score, d.score) /\ AtLeast(d.score, e.score) =>
                /\ AtLeast(c.score, e.score)
                /\ Above(c.score, d.score) \/ Above(d.score, e.score) => Above(c.score, e.score)
<1> DEFINE all == Candidates(rs, ws)
<1>1. \A c \in all : c.score.shared \in Nat /\ c.score.all \in Nat /\ c.score.all > 0
  BY CandidateTypes
<1> HIDE DEF all
<1>2. ASSUME NEW c \in all, NEW d \in all
      PROVE  /\ Above(c.score, d.score) => ~Above(d.score, c.score) /\ ~Equals(c.score, d.score)
             /\ Above(c.score, d.score) \/ Above(d.score, c.score) \/ Equals(c.score, d.score)
             /\ Equals(c.score, d.score) <=> Equals(d.score, c.score)
             /\ AtLeast(c.score, d.score) <=> c.score.shared * d.score.all >= d.score.shared * c.score.all
  <2> DEFINE x == c.score.shared * d.score.all
             y == d.score.shared * c.score.all
  <2>1. x \in Nat /\ y \in Nat
    BY <1>1
  <2>2. /\ Above(c.score, d.score) <=> x > y
        /\ Above(d.score, c.score) <=> y > x
        /\ Equals(c.score, d.score) <=> x = y
        /\ Equals(d.score, c.score) <=> y = x
    BY DEF Above, Equals
  <2> HIDE DEF x, y
  <2>3. /\ Above(c.score, d.score) => ~Above(d.score, c.score) /\ ~Equals(c.score, d.score)
        /\ Above(c.score, d.score) \/ Above(d.score, c.score) \/ Equals(c.score, d.score)
        /\ Equals(c.score, d.score) <=> Equals(d.score, c.score)
        /\ AtLeast(c.score, d.score) <=> x >= y
    BY <2>1, <2>2 DEF AtLeast
  <2> QED
    BY <2>3 DEF x, y
<1>3. ASSUME NEW c \in all, NEW d \in all, NEW e \in all,
             AtLeast(c.score, d.score), AtLeast(d.score, e.score)
      PROVE  /\ AtLeast(c.score, e.score)
             /\ Above(c.score, d.score) \/ Above(d.score, e.score) => Above(c.score, e.score)
  <2> DEFINE cs == c.score.shared
             ca == c.score.all
             ds == d.score.shared
             da == d.score.all
             es == e.score.shared
             ea == e.score.all
  <2>1. /\ cs \in Nat /\ ca \in Nat /\ ds \in Nat /\ da \in Nat /\ es \in Nat /\ ea \in Nat
        /\ ca > 0 /\ da > 0 /\ ea > 0
    BY <1>1
  <2>2. cs * da >= ds * ca /\ ds * ea >= es * da
    BY <1>2, <1>3
  <2>3. /\ AtLeast(c.score, e.score) <=> cs * ea >= es * ca
        /\ Above(c.score, d.score) <=> cs * da > ds * ca
        /\ Above(d.score, e.score) <=> ds * ea > es * da
        /\ Above(c.score, e.score) <=> cs * ea > es * ca
    BY <1>2 DEF Above
  <2> HIDE DEF cs, ca, ds, da, es, ea
  <2>4. cs * ea >= es * ca /\ (cs * da > ds * ca \/ ds * ea > es * da => cs * ea > es * ca)
    BY <2>1, <2>2, Fractions
  <2> QED
    BY <2>3, <2>4
<1> QED
  BY <1>2, <1>3 DEF all

\* The candidates in the order of the loop: none before itself, no circles, no ties.
LEMMA BeforeIsAnOrder ==
  ASSUME NEW rs, NEW ws, IsOffer(rs, ws)
  PROVE  LET all == Candidates(rs, ws) IN
         /\ \A c \in all : ~Before(c, c)
         /\ \A c, d, e \in all : Before(c, d) /\ Before(d, e) => Before(c, e)
         /\ \A c, d \in all : c = d \/ Before(c, d) \/ Before(d, c)
<1> DEFINE all == Candidates(rs, ws)
<1>1. \A c \in all : c.row \in Nat /\ c.window \in Nat
  BY CandidateTypes
<1>2. \A c, d \in all : c.row = d.row /\ c.window = d.window => c = d
  BY CandidateTypes
<1>3. \A c, d \in all :
        /\ Above(c.score, d.score) => ~Above(d.score, c.score) /\ ~Equals(c.score, d.score)
        /\ Above(c.score, d.score) \/ Above(d.score, c.score) \/ Equals(c.score, d.score)
        /\ Equals(c.score, d.score) <=> Equals(d.score, c.score)
  BY ScoreOrder
<1>4. \A c, d, e \in all :
        AtLeast(c.score, d.score) /\ AtLeast(d.score, e.score) =>
          /\ AtLeast(c.score, e.score)
          /\ Above(c.score, d.score) \/ Above(d.score, e.score) => Above(c.score, e.score)
  BY ScoreOrder
<1> HIDE DEF all
<1>5. ASSUME NEW c \in all PROVE ~Before(c, c)
  BY <1>1, <1>3 DEF Before
<1>6. ASSUME NEW c \in all, NEW d \in all PROVE c = d \/ Before(c, d) \/ Before(d, c)
  BY <1>1, <1>2, <1>3 DEF Before
<1>7. ASSUME NEW c \in all, NEW d \in all, NEW e \in all, Before(c, d), Before(d, e) PROVE Before(c, e)
  <2>1. AtLeast(c.score, d.score) /\ AtLeast(d.score, e.score)
    BY <1>7 DEF Before, AtLeast
  <2>2. CASE Above(c.score, d.score) \/ Above(d.score, e.score)
    BY <2>1, <2>2, <1>4 DEF Before
  <2>3. CASE Equals(c.score, d.score) /\ Equals(d.score, e.score)
    <3>1. AtLeast(c.score, e.score) /\ AtLeast(e.score, c.score)
      BY <2>3, <1>3, <1>4 DEF AtLeast
    <3>2. Equals(c.score, e.score)
      BY <3>1, <1>3 DEF AtLeast
    <3>3. ~Above(c.score, d.score) /\ ~Above(d.score, e.score)
      BY <2>3, <1>3
    <3> QED
      BY <1>1, <1>7, <3>2, <3>3 DEF Before
  <2> QED
    BY <2>2, <2>3, <1>7 DEF Before
<1> QED
  BY <1>5, <1>6, <1>7 DEF all

Place(all, c) == Cardinality({d \in all : Before(d, c)})

LEMMA CandidatePlaces ==
  ASSUME NEW rs, NEW ws, IsOffer(rs, ws)
  PROVE  LET all == Candidates(rs, ws) IN
         /\ Cardinality(all) \in Nat
         /\ \A c \in all : Place(all, c) \in 0 .. Cardinality(all) - 1 /\ Nth(all, Place(all, c)) = c
         /\ \A c, d \in all : Before(d, c) <=> Place(all, d) < Place(all, c)
         /\ \A n \in 0 .. Cardinality(all) - 1 : Nth(all, n) \in all /\ Place(all, Nth(all, n)) = n
<1> DEFINE all == Candidates(rs, ws)
           R == {p \in all \X all : Before(p[1], p[2])}
           N == Cardinality(all)
<1>1. IsFiniteSet(all)
  BY CandidateTypes
<1>2. /\ \A c \in all : ~Before(c, c)
      /\ \A c, d, e \in all : Before(c, d) /\ Before(d, e) => Before(c, e)
      /\ \A c, d \in all : c = d \/ Before(c, d) \/ Before(d, c)
  BY BeforeIsAnOrder
<1> HIDE DEF all
<1>3. \A c, d \in all : <<c, d>> \in R <=> Before(c, d)
  OBVIOUS
<1> HIDE DEF R
<1>4. /\ \A c \in all : <<c, c>> \notin R
      /\ \A c, d, e \in all : <<c, d>> \in R /\ <<d, e>> \in R => <<c, e>> \in R
      /\ \A c, d \in all : c = d \/ <<c, d>> \in R \/ <<d, c>> \in R
  BY <1>2, <1>3
<1>5. /\ \A c \in all : Rank(all, R, c) \in 0 .. N - 1
      /\ \A c, d \in all : <<d, c>> \in R => Rank(all, R, d) < Rank(all, R, c)
      /\ \A n \in 0 .. N - 1 : \E c \in all : Rank(all, R, c) = n
  <2>1. Ranked(all, R)
    BY <1>1, <1>4, EveryPlaceTaken
  <2> QED
    BY <2>1 DEF Ranked
<1>6. \A c \in all : Rank(all, R, c) = Place(all, c)
  <2> TAKE c \in all
  <2>1. {d \in all : <<d, c>> \in R} = {d \in all : Before(d, c)}
    BY <1>3
  <2> QED
    BY <2>1 DEF Place, Rank
<1>8. N \in Nat
  BY <1>1, FS_CardinalityType
<1>9. \A c \in all : Place(all, c) \in 0 .. N - 1
  BY <1>5, <1>6
<1>10. ASSUME NEW c \in all, NEW d \in all, Before(d, c) PROVE Place(all, d) < Place(all, c)
  BY <1>3, <1>5, <1>6, <1>10
<1>11. \A n \in 0 .. N - 1 : \E c \in all : Place(all, c) = n
  <2> TAKE n \in 0 .. N - 1
  <2>1. PICK c \in all : Rank(all, R, c) = n
    BY <1>5
  <2> QED
    BY <1>6, <2>1
<1>12. ASSUME NEW n \in 0 .. N - 1 PROVE Nth(all, n) \in all /\ Place(all, Nth(all, n)) = n
  <2>1. Nth(all, n) = CHOOSE c \in all : Place(all, c) = n
    BY DEF Nth, Place
  <2> QED
    BY <1>11, <2>1
<1> HIDE DEF N
<1>13. ASSUME NEW c \in all, NEW d \in all, Place(all, c) = Place(all, d) PROVE c = d
  <2>1. Place(all, c) \in Nat /\ Place(all, d) \in Nat
    BY <1>8, <1>9
  <2> QED
    BY <1>2, <1>10, <1>13, <2>1
<1>14. \A c \in all : Nth(all, Place(all, c)) = c
  BY <1>9, <1>12, <1>13
<1>15. ASSUME NEW c \in all, NEW d \in all, Place(all, d) < Place(all, c) PROVE Before(d, c)
  <2>1. Place(all, c) \in Nat /\ Place(all, d) \in Nat
    BY <1>8, <1>9
  <2>2. d # c /\ ~Before(c, d)
    BY <1>10, <1>15, <2>1
  <2> QED
    BY <1>2, <2>2
<1> QED
  BY <1>8, <1>9, <1>10, <1>12, <1>14, <1>15 DEF all, N

-----------------------------------------------------------------------------
(***************************************************************************)
(* What the settled candidates have.                                       *)
(***************************************************************************)
LEMMA Settling ==
  ASSUME NEW done, NEW c, NEW all
  PROVE  LET free == ~(c.row \in done.rows \/ c.window \in done.windows)
             rivals == Rivals(c, all, done)
             after == Settle(done, c, all)
         IN /\ ~free => after = done
            /\ free => /\ after.rows = done.rows \cup {o.row : o \in rivals \cup {c}}
                       /\ after.windows = done.windows \cup {o.window : o \in rivals \cup {c}}
                       /\ after.matches = IF rivals = {} THEN done.matches \cup {c} ELSE done.matches
BY DEF Settle

\* The row and the window of a match are settled, and no other match has one of them.
OneToOne(done, all) ==
  /\ done.matches \subseteq all
  /\ \A c \in done.matches : c.row \in done.rows /\ c.window \in done.windows
  /\ \A c, d \in done.matches : Touches(c, d) => c = d

LEMMA SettleOneToOne ==
  ASSUME NEW all, NEW done, OneToOne(done, all), NEW c \in all
  PROVE  OneToOne(Settle(done, c, all), all) /\ done.matches \subseteq Settle(done, c, all).matches
<1> DEFINE free == ~(c.row \in done.rows \/ c.window \in done.windows)
           rivals == Rivals(c, all, done)
           after == Settle(done, c, all)
<1>1. /\ ~free => after = done
      /\ free => /\ after.rows = done.rows \cup {o.row : o \in rivals \cup {c}}
                 /\ after.windows = done.windows \cup {o.window : o \in rivals \cup {c}}
                 /\ after.matches = IF rivals = {} THEN done.matches \cup {c} ELSE done.matches
  BY Settling
<1> HIDE DEF after, rivals
<1>2. CASE ~free
  BY <1>1, <1>2 DEF after
<1>3. CASE free
  <2>1. /\ done.rows \subseteq after.rows /\ done.windows \subseteq after.windows
        /\ c.row \in after.rows /\ c.window \in after.windows
    BY <1>1, <1>3
  <2>2. done.matches \subseteq after.matches /\ after.matches \subseteq done.matches \cup {c}
    BY <1>1, <1>3
  <2>3. \A d \in done.matches : ~Touches(c, d) /\ ~Touches(d, c)
    BY <1>3 DEF OneToOne, Touches
  <2>4. OneToOne(after, all)
    BY <2>1, <2>2, <2>3 DEF OneToOne
  <2> QED
    BY <2>2, <2>4 DEF after
<1> QED
  BY <1>2, <1>3

\* A pair that is only best is still free when its turn comes, and has no rival then.
LEMMA BestStaysFree ==
  ASSUME NEW rs, NEW ws, IsOffer(rs, ws), NEW c \in Candidates(rs, ws),
         MutualBest(c, Candidates(rs, ws))
  PROVE  LET all == Candidates(rs, ws) IN
         /\ \A done : Rivals(c, all, done) = {}
         /\ \A done : \A d \in all : Before(d, c) /\ c.row \notin done.rows /\ c.window \notin done.windows =>
              c.row \notin Settle(done, d, all).rows /\ c.window \notin Settle(done, d, all).windows
<1> DEFINE all == Candidates(rs, ws)
<1>1. \A d \in all \ {c} : Touches(c, d) => Above(c.score, d.score)
  BY DEF MutualBest
<1>2. /\ \A d \in all :
           /\ Above(c.score, d.score) => ~Above(d.score, c.score) /\ ~Equals(c.score, d.score)
           /\ Equals(c.score, d.score) <=> Equals(d.score, c.score)
      /\ \A d, e \in all :
           AtLeast(c.score, d.score) /\ AtLeast(d.score, e.score) /\ Above(c.score, d.score) =>
             Above(c.score, e.score)
  BY ScoreOrder
<1>3. \A d \in all : ~Before(d, d)
  BY BeforeIsAnOrder
<1> HIDE DEF all
<1>4. c \in all
  BY DEF all
<1>5. ASSUME NEW done PROVE Rivals(c, all, done) = {}
  <2> SUFFICES ASSUME NEW o \in Rivals(c, all, done) PROVE FALSE
    OBVIOUS
  <2>1. o \in all \ {c} /\ Equals(o.score, c.score) /\ Touches(o, c)
    BY DEF Rivals
  <2>2. Touches(c, o)
    BY <2>1 DEF Touches
  <2> QED
    BY <1>1, <1>2, <2>1, <2>2
<1>6. ASSUME NEW d \in all, NEW done, Before(d, c), c.row \notin done.rows, c.window \notin done.windows
      PROVE  c.row \notin Settle(done, d, all).rows /\ c.window \notin Settle(done, d, all).windows
  <2> DEFINE rivals == Rivals(d, all, done)
             after == Settle(done, d, all)
  <2>1. d # c /\ ~Above(c.score, d.score)
    BY <1>2, <1>3, <1>4, <1>6 DEF Before
  <2>2. ~Touches(c, d)
    BY <1>1, <2>1
  <2>3. c \notin rivals
    BY <2>2 DEF Rivals, Touches
  <2>4. ASSUME NEW o \in rivals PROVE ~Touches(c, o)
    <3>1. o \in all /\ o # c /\ Equals(o.score, d.score)
      BY <2>3 DEF Rivals
    <3>2. Above(c.score, o.score) => Above(c.score, d.score)
      BY <1>2, <3>1 DEF AtLeast
    <3> QED
      BY <1>1, <2>1, <3>1, <3>2
  <2>5. after.rows \subseteq done.rows \cup {o.row : o \in rivals \cup {d}}
        /\ after.windows \subseteq done.windows \cup {o.window : o \in rivals \cup {d}}
    <3>1. LET free == ~(d.row \in done.rows \/ d.window \in done.windows)
          IN /\ ~free => after = done
             /\ free => /\ after.rows = done.rows \cup {o.row : o \in rivals \cup {d}}
                        /\ after.windows = done.windows \cup {o.window : o \in rivals \cup {d}}
      BY Settling
    <3> HIDE DEF after, rivals
    <3> QED
      BY <3>1
  <2> HIDE DEF after, rivals
  <2>6. c.row \notin after.rows /\ c.window \notin after.windows
    BY <1>6, <2>2, <2>4, <2>5 DEF Touches
  <2> QED
    BY <2>6 DEF after
<1> QED
  BY <1>5, <1>6 DEF all

LEMMA SettledOneToOne ==
  ASSUME NEW rs, NEW ws, IsOffer(rs, ws)
  PROVE  LET all == Candidates(rs, ws) IN
         /\ \A n \in 0 .. Cardinality(all) : OneToOne(Settlement(all)[n], all)
         /\ \A n \in 0 .. Cardinality(all) - 1 : Settlement(all)[n].matches \subseteq Settlement(all)[n + 1].matches
<1> DEFINE all == Candidates(rs, ws)
           N == Cardinality(all)
           S == Settlement(all)
           T == {n \in 0 .. N : OneToOne(S[n], all)}
<1>1. N \in Nat /\ \A n \in 0 .. N - 1 : Nth(all, n) \in all
  BY CandidatePlaces
<1>2. S[0] = Untouched /\ \A n \in 0 .. N - 1 : S[n + 1] = Settle(S[n], Nth(all, n), all)
  <2> HIDE DEF all
  <2> QED
    BY <1>1, SettlementSteps
<1> HIDE DEF S, all, N
<1>3. 0 \in T
  BY <1>1, <1>2 DEF OneToOne, Untouched
<1>4. ASSUME NEW n \in 0 .. N - 1, OneToOne(S[n], all)
      PROVE  OneToOne(S[n + 1], all) /\ S[n].matches \subseteq S[n + 1].matches
  BY <1>1, <1>2, <1>4, SettleOneToOne
<1>5. \A n \in 0 .. N - 1 : n \in T => n + 1 \in T
  BY <1>1, <1>4
<1>6. 0 .. N \subseteq T
  <2> HIDE DEF T
  <2> QED
    BY <1>1, <1>3, <1>5, Climbing
<1>7. \A n \in 0 .. N : OneToOne(S[n], all)
  BY <1>6
<1>8. \A n \in 0 .. N - 1 : S[n].matches \subseteq S[n + 1].matches
  BY <1>1, <1>4, <1>7
<1> QED
  BY <1>7, <1>8 DEF S, all, N

\* No row and no window is matched twice.
LEMMA MatchesOneToOne ==
  ASSUME NEW rs, NEW ws, IsOffer(rs, ws)
  PROVE  /\ MatchRestored(rs, ws) \subseteq Candidates(rs, ws)
         /\ \A c, d \in MatchRestored(rs, ws) : Touches(c, d) => c = d
<1> DEFINE all == Candidates(rs, ws)
           N == Cardinality(all)
<1>1. N \in Nat /\ \A n \in 0 .. N : OneToOne(Settlement(all)[n], all)
  BY SettledOneToOne, CandidatePlaces
<1>2. OneToOne(Settlement(all)[N], all)
  <2> HIDE DEF all, N
  <2> QED
    BY <1>1
<1>3. MatchRestored(rs, ws) = Settlement(all)[N].matches
  BY DEF MatchRestored
<1> HIDE DEF all, N
<1>4. /\ MatchRestored(rs, ws) \subseteq all
      /\ \A c, d \in MatchRestored(rs, ws) : Touches(c, d) => c = d
  BY <1>2, <1>3 DEF OneToOne
<1> QED
  BY <1>4 DEF all

LEMMA BestIsMatched ==
  ASSUME NEW rs, NEW ws, IsOffer(rs, ws), NEW c \in Candidates(rs, ws),
         MutualBest(c, Candidates(rs, ws))
  PROVE  c \in MatchRestored(rs, ws)
<1> DEFINE all == Candidates(rs, ws)
           N == Cardinality(all)
           S == Settlement(all)
           i == Place(all, c)
           IsFree(n) == c.row \notin S[n].rows /\ c.window \notin S[n].windows
<1>1. /\ N \in Nat
      /\ i \in 0 .. N - 1 /\ Nth(all, i) = c
      /\ \A d \in all : Place(all, d) < i => Before(d, c)
      /\ \A n \in 0 .. N - 1 : Nth(all, n) \in all /\ Place(all, Nth(all, n)) = n
  BY CandidatePlaces
<1>2. /\ \A done : Rivals(c, all, done) = {}
      /\ \A done : \A d \in all : Before(d, c) /\ c.row \notin done.rows /\ c.window \notin done.windows =>
           c.row \notin Settle(done, d, all).rows /\ c.window \notin Settle(done, d, all).windows
  BY BestStaysFree
<1>3. S[0] = Untouched /\ \A n \in 0 .. N - 1 : S[n + 1] = Settle(S[n], Nth(all, n), all)
  <2> HIDE DEF all
  <2> QED
    BY <1>1, SettlementSteps
<1>4. \A n \in 0 .. N - 1 : S[n].matches \subseteq S[n + 1].matches
  BY SettledOneToOne
<1>5. MatchRestored(rs, ws) = S[N].matches
  BY DEF MatchRestored
<1> HIDE DEF all, N, S, i
<1>6. IsFree(i)
  <2> DEFINE T == {n \in 0 .. i : IsFree(n)}
  <2>1. 0 \in T
    BY <1>1, <1>3 DEF Untouched
  <2>2. ASSUME NEW n \in 0 .. i - 1, IsFree(n) PROVE IsFree(n + 1)
    <3>1. n \in 0 .. N - 1 /\ n < i
      BY <1>1
    <3>2. Before(Nth(all, n), c) /\ Nth(all, n) \in all
      BY <1>1, <3>1
    <3> QED
      BY <1>2, <1>3, <2>2, <3>1, <3>2
  <2>3. \A n \in 0 .. i - 1 : n \in T => n + 1 \in T
    BY <1>1, <2>2
  <2>4. i \in Nat
    BY <1>1
  <2> HIDE DEF T
  <2>5. i \in T
    BY <2>1, <2>3, <2>4, Climbing
  <2> QED
    BY <2>5 DEF T
<1>7. c \in S[i + 1].matches
  <2>1. S[i + 1] = Settle(S[i], c, all)
    BY <1>1, <1>3
  <2>2. Settle(S[i], c, all).matches = S[i].matches \cup {c}
    <3>1. Rivals(c, all, S[i]) = {}
      BY <1>2
    <3>2. Settle(S[i], c, all) = [rows    |-> S[i].rows \cup {o.row : o \in {} \cup {c}},
                                  windows |-> S[i].windows \cup {o.window : o \in {} \cup {c}},
                                  matches |-> S[i].matches \cup {c}]
      BY <1>6, <3>1 DEF Settle
    <3> QED
      BY <3>2
  <2> QED
    BY <2>1, <2>2
<1>8. c \in S[N].matches
  <2> DEFINE T == {k \in 0 .. N - (i + 1) : c \in S[(i + 1) + k].matches}
             m == N - (i + 1)
  <2>1. 0 \in T
    BY <1>1, <1>7
  <2>2. ASSUME NEW k \in 0 .. m - 1, k \in T PROVE k + 1 \in T
    <3>1. (i + 1) + k \in 0 .. N - 1 /\ (i + 1) + (k + 1) = ((i + 1) + k) + 1 /\ k + 1 \in 0 .. m
      BY <1>1
    <3> QED
      BY <1>4, <2>2, <3>1
  <2>3. m \in Nat /\ (i + 1) + m = N
    BY <1>1
  <2> HIDE DEF T, m
  <2>4. m \in T
    BY <2>1, <2>2, <2>3, Climbing
  <2> QED
    BY <2>3, <2>4 DEF T, m
<1> QED
  BY <1>5, <1>8

-----------------------------------------------------------------------------
(***************************************************************************)
(* The offers of a restarted browser.                                      *)
(***************************************************************************)
OfferInv ==
  /\ saved \in [OfferRows -> Contents]
  /\ showing \in [OfferWindows -> Contents]
  /\ settled \in BOOLEAN
  /\ settled => matches = MatchRestored(saved, showing)

\* A row and a window that are each other's only best candidate always find each other
\* (internal/browser/reattach.go, matchRestored): for any finite numbers of rows and
\* windows and any addresses, whatever ties other rows and windows have among them.
THEOREM BestPairsFindEachOther == OfferSpec => []MutualBestIsMatched
<1>1. OfferInit => OfferInv
  BY DEF OfferInit, OfferInv
<1>2. OfferInv /\ [Reattach]_offerVars => OfferInv'
  <2>1. ASSUME OfferInv, Reattach PROVE OfferInv'
    BY <2>1 DEF OfferInv, Reattach
  <2>2. ASSUME OfferInv, UNCHANGED offerVars PROVE OfferInv'
    BY <2>2 DEF OfferInv, offerVars
  <2> QED
    BY <2>1, <2>2
<1>3. OfferInv => MutualBestIsMatched
  <2> SUFFICES ASSUME OfferInv, settled, NEW c \in Candidates(saved, showing),
                      MutualBest(c, Candidates(saved, showing))
               PROVE  c \in matches
    BY DEF MutualBestIsMatched
  <2>1. IsOffer(saved, showing)
    <3>1. \A a \in Contents : IsFiniteSet(a)
      BY DEF Contents
    <3> QED
      BY <3>1, FiniteOffers, OfferIds DEF OfferInv, IsOffer
  <2>2. c \in MatchRestored(saved, showing)
    BY <2>1, BestIsMatched
  <2> QED
    BY <2>2 DEF OfferInv
<1> QED
  BY <1>1, <1>2, <1>3, PTL DEF OfferSpec

-----------------------------------------------------------------------------
(***************************************************************************)
(* The owners of the windows.                                              *)
(***************************************************************************)
AnyPage  == Pages \cup {0}
Paged(row) == DOMAIN row = RowFields /\ row.tabs \subseteq AnyPage /\ row.waiting \subseteq AnyPage
Tabled(t)  == DOMAIN t = RowIds /\ \A r \in RowIds : Paged(t[r])
Distinct(t) == \A q, r \in OpenRows(t) : q # r => t[q].window # t[r].window
IsShown(f) == DOMAIN f \subseteq WindowIds /\ \A w \in DOMAIN f : f[w] \subseteq AnyPage

\* The open rows of t are open in u, with the same windows.
Narrows(t, u) == \A r \in OpenRows(t) : r \in OpenRows(u) /\ t[r].window = u[r].window

OwnerInv ==
  /\ Tabled(rows)
  /\ Distinct(rows)
  /\ IsShown(shown)
  /\ DOMAIN request = RequestFields
  /\ request.page \in AnyPage

-----------------------------------------------------------------------------
LEMMA NarrowTables ==
  ASSUME NEW t, NEW u, Narrows(t, u)
  PROVE  /\ Distinct(u) => Distinct(t)
         /\ Owned(t) \subseteq Owned(u)
         /\ \A v : Narrows(u, v) => Narrows(t, v)
BY DEF Narrows, Distinct, Owned

LEMMA PagedRows ==
  /\ Paged(NoRow) /\ NoRow.state = "none"
  /\ \A s, w : \A pages \in SUBSET AnyPage :
       Paged(OpenRow(s, w, pages)) /\ OpenRow(s, w, pages).window = w /\ OpenRow(s, w, pages).state = "open"
  /\ \A row : Paged(row) =>
       /\ Paged(Lost(row)) /\ Lost(row).state = "missing"
       /\ Paged(Saved(row)) /\ Saved(row).state = "snapshotted"
  /\ \A row, w : Paged(row) =>
       Paged(Reopened(row, w)) /\ Reopened(row, w).window = w /\ Reopened(row, w).state = "open"
  /\ \A row, pages : Paged(row) /\ pages \in SUBSET AnyPage =>
       /\ Paged(Merged(row, pages))
       /\ Merged(row, pages).state = row.state /\ Merged(row, pages).window = row.window
<1>1. Paged(NoRow) /\ NoRow.state = "none"
  BY DEF Paged, NoRow, RowFields
<1>2. ASSUME NEW s, NEW w, NEW pages \in SUBSET AnyPage
      PROVE  Paged(OpenRow(s, w, pages)) /\ OpenRow(s, w, pages).window = w /\ OpenRow(s, w, pages).state = "open"
  BY DEF Paged, OpenRow, NoRow, RowFields
<1>3. ASSUME NEW row, Paged(row)
      PROVE  /\ Paged(Lost(row)) /\ Lost(row).state = "missing"
             /\ Paged(Saved(row)) /\ Saved(row).state = "snapshotted"
  BY <1>3 DEF Paged, Lost, Saved, RowFields
<1>4. ASSUME NEW row, NEW w, Paged(row)
      PROVE  Paged(Reopened(row, w)) /\ Reopened(row, w).window = w /\ Reopened(row, w).state = "open"
  BY <1>4 DEF Paged, Reopened, RowFields
<1>5. ASSUME NEW row, NEW pages, Paged(row), pages \in SUBSET AnyPage
      PROVE  /\ Paged(Merged(row, pages))
             /\ Merged(row, pages).state = row.state /\ Merged(row, pages).window = row.window
  <2>1. CASE pages = {}
    BY <1>5, <2>1 DEF Merged
  <2>2. CASE pages # {}
    BY <1>5, <2>2 DEF Merged, Paged, RowFields
  <2> QED
    BY <2>1, <2>2
<1> QED
  BY <1>1, <1>2, <1>3, <1>4, <1>5

\* What the operations do to a table, whose rows are open in u.
LEMMA TableKeeps ==
  ASSUME IsShown(shown), NEW t, NEW u, Tabled(t), Narrows(t, u), NEW ws, NEW rs
  PROVE  /\ Tabled(MarkMissing(t, ws)) /\ Narrows(MarkMissing(t, ws), u)
         /\ Tabled(Delete(t, rs)) /\ Narrows(Delete(t, rs), u)
         /\ Tabled(SaveTabs(t, ws)) /\ Narrows(SaveTabs(t, ws), u)
         /\ Tabled(Flushed(t)) /\ Narrows(Flushed(t), u)
         /\ Tabled(Trusted(t)) /\ Narrows(Trusted(t), u)
<1>0. \A r \in RowIds : Paged(t[r])
  BY DEF Tabled
<1>1. ASSUME NEW xs PROVE Tabled(MarkMissing(t, xs)) /\ Narrows(MarkMissing(t, xs), u)
  <2> DEFINE m == MarkMissing(t, xs)
  <2>1. DOMAIN m = RowIds /\ \A r \in RowIds : m[r] = t[r] \/ m[r] = Lost(t[r])
    BY DEF MarkMissing
  <2> HIDE DEF m
  <2>2. \A r \in RowIds : Paged(m[r]) /\ (m[r] = t[r] \/ m[r].state = "missing")
    <3> TAKE r \in RowIds
    <3>1. Paged(Lost(t[r])) /\ Lost(t[r]).state = "missing"
      BY <1>0, PagedRows
    <3> QED
      BY <1>0, <2>1, <3>1
  <2>3. Tabled(m) /\ Narrows(m, u)
    BY <2>1, <2>2 DEF Tabled, Narrows, OpenRows, InState
  <2> QED
    BY <2>3 DEF m
<1>2. Tabled(Delete(t, rs)) /\ Narrows(Delete(t, rs), u)
  <2> DEFINE m == Delete(t, rs)
  <2>1. DOMAIN m = RowIds /\ \A r \in RowIds : m[r] = t[r] \/ m[r] = NoRow
    BY DEF Delete
  <2> HIDE DEF m
  <2>2. \A r \in RowIds : Paged(m[r]) /\ (m[r] = t[r] \/ m[r].state = "none")
    BY <1>0, <2>1, PagedRows
  <2>3. Tabled(m) /\ Narrows(m, u)
    BY <2>1, <2>2 DEF Tabled, Narrows, OpenRows, InState
  <2> QED
    BY <2>3 DEF m
<1>3. Tabled(SaveTabs(t, ws)) /\ Narrows(SaveTabs(t, ws), u)
  <2> DEFINE m == SaveTabs(t, ws)
  <2>1. /\ DOMAIN m = RowIds
        /\ \A r \in RowIds : m[r] = t[r] \/ (t[r].window \in Live /\ m[r] = Merged(t[r], shown[t[r].window]))
    BY DEF SaveTabs
  <2> HIDE DEF m
  <2>2. \A w \in Live : shown[w] \in SUBSET AnyPage
    BY DEF IsShown, Live
  <2>3. \A r \in RowIds : Paged(m[r]) /\ m[r].state = t[r].state /\ m[r].window = t[r].window
    <3> TAKE r \in RowIds
    <3>1. ASSUME t[r].window \in Live
          PROVE  LET row == Merged(t[r], shown[t[r].window]) IN
                 Paged(row) /\ row.state = t[r].state /\ row.window = t[r].window
      <4> DEFINE pages == shown[t[r].window]
      <4>1. pages \in SUBSET AnyPage
        BY <2>2, <3>1
      <4> HIDE DEF pages
      <4>2. LET row == Merged(t[r], pages) IN
            Paged(row) /\ row.state = t[r].state /\ row.window = t[r].window
        BY <1>0, <4>1, PagedRows
      <4> QED
        BY <4>2 DEF pages
    <3> QED
      BY <1>0, <2>1, <3>1
  <2>4. Tabled(m) /\ Narrows(m, u)
    BY <2>1, <2>3 DEF Tabled, Narrows, OpenRows, InState
  <2> QED
    BY <2>4 DEF m
<1>4. Tabled(Flushed(t)) /\ Narrows(Flushed(t), u) /\ Tabled(Trusted(t)) /\ Narrows(Trusted(t), u)
  BY <1>1 DEF Flushed, Trusted
<1> QED
  BY <1>1, <1>2, <1>3, <1>4

\* A row is added for a window that has no owner.
LEMMA AddedOwner ==
  ASSUME NEW t, Tabled(t), Distinct(t), NEW row, Paged(row),
         row.state = "open" => row.window \notin Owned(t)
  PROVE  Tabled(AddRow(t, row)) /\ Distinct(AddRow(t, row))
<1> DEFINE i == Min(FreeRows(t))
           m == AddRow(t, row)
<1>1. m = [t EXCEPT ![i] = row]
  BY DEF AddRow
<1> HIDE DEF i, m
<1>2. DOMAIN m = RowIds /\ \A r \in RowIds : m[r] = IF r = i THEN row ELSE t[r]
  BY <1>1 DEF Tabled
<1>3. Tabled(m)
  BY <1>2 DEF Tabled
<1>4. ASSUME NEW q \in OpenRows(m), NEW r \in OpenRows(m), q # r PROVE m[q].window # m[r].window
  <2>1. /\ q \in RowIds /\ r \in RowIds /\ m[q].state = "open" /\ m[r].state = "open"
    BY DEF OpenRows, InState
  <2>2. CASE q = i
    <3>1. m[q] = row /\ m[r] = t[r] /\ r \in OpenRows(t)
      BY <1>2, <1>4, <2>1, <2>2 DEF OpenRows, InState
    <3>2. t[r].window \in Owned(t)
      BY <3>1 DEF Owned
    <3> QED
      BY <2>1, <3>1, <3>2
  <2>3. CASE r = i
    <3>1. m[r] = row /\ m[q] = t[q] /\ q \in OpenRows(t)
      BY <1>2, <1>4, <2>1, <2>3 DEF OpenRows, InState
    <3>2. t[q].window \in Owned(t)
      BY <3>1 DEF Owned
    <3> QED
      BY <2>1, <3>1, <3>2
  <2>4. CASE q # i /\ r # i
    BY <1>2, <1>4, <2>1, <2>4 DEF Distinct, OpenRows, InState
  <2> QED
    BY <2>2, <2>3, <2>4
<1> QED
  BY <1>3, <1>4 DEF m, Distinct

-----------------------------------------------------------------------------
\* The members of a finite set of numbers, counted from the least one.
Behind(S, c) == Cardinality({d \in S : d < c})

LEMMA NumberPlaces ==
  ASSUME NEW S, S \subseteq Nat, IsFiniteSet(S)
  PROVE  /\ Cardinality(S) \in Nat
         /\ \A c \in S : Behind(S, c) \in 0 .. Cardinality(S) - 1
         /\ \A c, d \in S : d < c => Behind(S, d) < Behind(S, c)
         /\ \A n \in 0 .. Cardinality(S) - 1 : \E c \in S : Behind(S, c) = n
<1> DEFINE R == {p \in S \X S : p[1] < p[2]}
<1>1. \A c, d \in S : <<c, d>> \in R <=> c < d
  OBVIOUS
<1> HIDE DEF R
<1>2. /\ \A c \in S : <<c, c>> \notin R
      /\ \A c, d, e \in S : <<c, d>> \in R /\ <<d, e>> \in R => <<c, e>> \in R
      /\ \A c, d \in S : c = d \/ <<c, d>> \in R \/ <<d, c>> \in R
  BY <1>1
<1>3. Ranked(S, R)
  BY <1>2, EveryPlaceTaken
<1>4. \A c \in S : Rank(S, R, c) = Behind(S, c)
  <2> TAKE c \in S
  <2>1. {d \in S : <<d, c>> \in R} = {d \in S : d < c}
    BY <1>1
  <2> QED
    BY <2>1 DEF Behind, Rank
<1>5. Cardinality(S) \in Nat
  BY FS_CardinalityType
<1>6. \A c \in S : Behind(S, c) \in 0 .. Cardinality(S) - 1
  BY <1>3, <1>4 DEF Ranked
<1>7. \A c, d \in S : d < c => Behind(S, d) < Behind(S, c)
  <2>1. \A c, d \in S : <<d, c>> \in R => Rank(S, R, d) < Rank(S, R, c)
    BY <1>3 DEF Ranked
  <2> QED
    BY <1>1, <1>4, <2>1
<1>8. \A n \in 0 .. Cardinality(S) - 1 : \E c \in S : Behind(S, c) = n
  BY <1>3, <1>4 DEF Ranked
<1> QED
  BY <1>5, <1>6, <1>7, <1>8

\* The next window ids are unused ones, each another.
LEMMA UnusedIds ==
  /\ Unused \subseteq WindowIds /\ IsFiniteSet(Unused) /\ Cardinality(Unused) \in Nat
  /\ \A w \in Unused : w \notin Owned(rows)
  /\ \A n \in 0 .. Cardinality(Unused) - 1 : NextUnused(n) \in Unused
  /\ \A m, n \in 0 .. Cardinality(Unused) - 1 : NextUnused(m) = NextUnused(n) => m = n
<1>1. Unused \subseteq WindowIds /\ Unused \subseteq Nat /\ IsFiniteSet(Unused)
  <2>1. Unused \in SUBSET WindowIds
    BY DEF Unused
  <2> QED
    BY <2>1, BrowserIds, BrowserFinite, FS_Subset
<1>2. \A w \in Unused : w \notin Owned(rows)
  BY DEF Unused, Owned, OpenRows, InState
<1> DEFINE S == Unused
           At(c) == Behind(S, c)
<1>3. /\ Cardinality(S) \in Nat
      /\ \A n \in 0 .. Cardinality(S) - 1 : \E c \in S : At(c) = n
  <2> HIDE DEF S
  <2> QED
    BY <1>1, NumberPlaces DEF S
<1>4. \A n \in 0 .. Cardinality(S) - 1 : NextUnused(n) \in S /\ At(NextUnused(n)) = n
  <2> TAKE n \in 0 .. Cardinality(S) - 1
  <2>1. NextUnused(n) = CHOOSE c \in S : At(c) = n
    BY DEF NextUnused, Behind
  <2> HIDE DEF S, At
  <2> QED
    BY <1>3, <2>1
<1>5. \A m, n \in 0 .. Cardinality(S) - 1 : NextUnused(m) = NextUnused(n) => m = n
  <2> HIDE DEF S, At
  <2> QED
    BY <1>4
<1> QED
  BY <1>1, <1>2, <1>3, <1>4, <1>5

\* The rows that come back get an unused window each.
LEMMA CreationIds ==
  ASSUME NEW wanted, wanted \subseteq RowIds, NEW f \in Creations(wanted)
  PROVE  /\ DOMAIN f \subseteq wanted /\ Cardinality(DOMAIN f) \in Nat
         /\ \A r \in DOMAIN f : f[r] \in Unused
         /\ \A q, r \in DOMAIN f : f[q] = f[r] => q = r
<1> DEFINE K == Cardinality(Unused)
<1>1. PICK made \in SUBSET wanted :
        Cardinality(made) <= K /\ f = [r \in made |-> NextUnused(Behind(made, r))]
  BY DEF Creations, Behind
<1>2. made \subseteq Nat /\ IsFiniteSet(made)
  BY BrowserIds, BrowserFinite, FS_Subset
<1> DEFINE At(r) == Behind(made, r)
<1>3. /\ Cardinality(made) \in Nat
      /\ \A r \in made : At(r) \in 0 .. Cardinality(made) - 1
      /\ \A q, r \in made : q < r => At(q) < At(r)
  BY <1>2, NumberPlaces
<1>4. /\ K \in Nat
      /\ \A n \in 0 .. K - 1 : NextUnused(n) \in Unused
      /\ \A m, n \in 0 .. K - 1 : NextUnused(m) = NextUnused(n) => m = n
  BY UnusedIds
<1>5. DOMAIN f = made /\ \A r \in made : f[r] = NextUnused(At(r))
  BY <1>1
<1> HIDE DEF K, At
<1>6. \A r \in made : At(r) \in 0 .. K - 1
  BY <1>1, <1>3, <1>4
<1>7. ASSUME NEW q \in made, NEW r \in made, f[q] = f[r] PROVE q = r
  <2>1. At(q) = At(r)
    BY <1>4, <1>5, <1>6, <1>7
  <2>2. ~(q < r) /\ ~(r < q) /\ q \in Nat /\ r \in Nat
    BY <1>2, <1>3, <1>6, <2>1
  <2> QED
    BY <2>2
<1>8. \A r \in DOMAIN f : f[r] \in Unused
  BY <1>4, <1>5, <1>6
<1> QED
  BY <1>3, <1>5, <1>7, <1>8

LEMMA RestoredOwners ==
  ASSUME OwnerInv, NEW s, NEW f \in Creations(Kept(s)), NEW kept, kept \subseteq DOMAIN f
  PROVE  /\ Tabled(RestoredRows(s, f, kept)) /\ Distinct(RestoredRows(s, f, kept))
         /\ kept = {} => Narrows(RestoredRows(s, f, kept), rows)
<1> DEFINE m == RestoredRows(s, f, kept)
           back(r) == Merged(Reopened(rows[r], f[r]), Content(r))
<1>1. /\ DOMAIN m = RowIds
      /\ \A r \in RowIds : IF r \in kept THEN m[r] = back(r) ELSE m[r] = NoRow \/ m[r] = rows[r]
  BY DEF RestoredRows
<1>2. /\ DOMAIN f \subseteq RowIds
      /\ \A r \in DOMAIN f : f[r] \in Unused
      /\ \A q, r \in DOMAIN f : f[q] = f[r] => q = r
  <2>1. Kept(s) \subseteq RowIds
    BY DEF Kept, Restorable, InState
  <2> QED
    BY <2>1, CreationIds
<1>3. \A r \in RowIds : Paged(rows[r])
  BY DEF OwnerInv, Tabled
<1>4. \A r \in RowIds : Paged(back(r)) /\ back(r).state = "open" /\ back(r).window = f[r]
  <2> TAKE r \in RowIds
  <2> DEFINE row == Reopened(rows[r], f[r])
  <2>1. Paged(row) /\ row.state = "open" /\ row.window = f[r]
    BY <1>3, PagedRows
  <2>2. Content(r) \in SUBSET AnyPage
    BY <1>3 DEF Content, Paged
  <2> HIDE DEF row
  <2>3. LET new == Merged(row, Content(r)) IN
        Paged(new) /\ new.state = row.state /\ new.window = row.window
    BY <2>1, <2>2, PagedRows
  <2> QED
    BY <2>1, <2>3 DEF row
<1> HIDE DEF m, back
<1>5. Tabled(m)
  BY <1>1, <1>3, <1>4, PagedRows DEF Tabled
<1>6. \A r \in OpenRows(m) : /\ r \in RowIds
                             /\ \/ r \in kept /\ m[r].window = f[r] /\ f[r] \in Unused
                                \/ r \in OpenRows(rows) /\ m[r].window = rows[r].window
  <2> TAKE r \in OpenRows(m)
  <2>1. r \in RowIds /\ m[r].state = "open"
    BY DEF OpenRows, InState
  <2>2. CASE r \in kept
    BY <1>1, <1>2, <1>4, <2>1, <2>2
  <2>3. CASE r \notin kept
    BY <1>1, <2>1, <2>3, PagedRows DEF OpenRows, InState
  <2> QED
    BY <2>2, <2>3
<1>7. ASSUME NEW q \in OpenRows(m), NEW r \in OpenRows(m), q # r PROVE m[q].window # m[r].window
  <2>1. \A i \in OpenRows(rows) : rows[i].window \notin Unused
    BY UnusedIds DEF Owned
  <2> QED
    BY <1>2, <1>6, <1>7, <2>1 DEF OwnerInv, Distinct
<1>8. kept = {} => Narrows(m, rows)
  BY <1>6 DEF Narrows
<1> QED
  BY <1>5, <1>7, <1>8 DEF m, Distinct

LEMMA CopiesShown ==
  ASSUME OwnerInv, NEW s, NEW f \in Creations(Kept(s))
  PROVE  IsShown(Copies(f))
<1>1. Kept(s) \subseteq RowIds
  BY DEF Kept, Restorable, InState
<1>2. DOMAIN f \subseteq RowIds /\ \A r \in DOMAIN f : f[r] \in WindowIds
  BY <1>1, CreationIds, UnusedIds
<1>3. \A r \in RowIds : Content(r) \subseteq AnyPage
  BY DEF OwnerInv, Tabled, Paged, Content
<1>4. DOMAIN Copies(f) \subseteq WindowIds
  BY <1>2 DEF Copies
<1>5. ASSUME NEW w \in DOMAIN Copies(f) PROVE Copies(f)[w] \subseteq AnyPage
  <2> DEFINE r == CHOOSE i \in DOMAIN f : f[i] = w
  <2>1. Copies(f)[w] = Content(r) /\ \E i \in DOMAIN f : f[i] = w
    BY <1>5 DEF Copies
  <2>2. r \in DOMAIN f
    BY <2>1
  <2> HIDE DEF r
  <2> QED
    BY <1>2, <1>3, <2>1, <2>2
<1> QED
  BY <1>4, <1>5 DEF IsShown

LEMMA ShownTogether ==
  ASSUME NEW f, NEW g, IsShown(f), IsShown(g)
  PROVE  IsShown(Together(f, g))
BY DEF IsShown, Together

LEMMA GivenShown ==
  ASSUME NEW f, IsShown(f), NEW w \in WindowIds, NEW pages \in SUBSET AnyPage
  PROVE  IsShown(Gives(f, w, pages))
BY DEF IsShown, Gives

LEMMA NothingShown == IsShown(<< >>)
<1>1. DOMAIN << >> = {}
  OBVIOUS
<1> QED
  BY <1>1 DEF IsShown

-----------------------------------------------------------------------------
\* The connection: the rows of windows to be closed are saved, missing rows get windows.
LEMMA SavedClosingKeeps ==
  ASSUME IsShown(shown), NEW t, Tabled(t)
  PROVE  Tabled(SavedClosing(t)) /\ Narrows(SavedClosing(t), t)
<1> DEFINE m == SavedClosing(t)
<1>1. /\ DOMAIN m = RowIds
      /\ \A r \in RowIds : m[r] = t[r] \/ \E w \in Live : m[r] = Saved(Merged(t[r], shown[w]))
  <2>1. DOMAIN m = RowIds
    BY DEF SavedClosing
  <2>2. ASSUME NEW r \in RowIds
        PROVE  m[r] = t[r] \/ \E w \in Live : m[r] = Saved(Merged(t[r], shown[w]))
    <3> DEFINE closing == {p \in Pending : p.row = r /\ ~p.deleted /\ p.window \in Live /\ shown[p.window] # {}}
               p == CHOOSE x \in closing : TRUE
    <3>1. m[r] = IF t[r].state # "none" /\ closing # {} THEN Saved(Merged(t[r], shown[p.window])) ELSE t[r]
      BY DEF SavedClosing
    <3>2. closing # {} => p \in closing /\ p.window \in Live
      OBVIOUS
    <3> HIDE DEF p, closing, m
    <3> QED
      BY <3>1, <3>2
  <2> QED
    BY <2>1, <2>2
<1> HIDE DEF m
<1>2. ASSUME NEW r \in RowIds
      PROVE  Paged(m[r]) /\ (m[r] = t[r] \/ m[r].state = "snapshotted")
  <2>1. Paged(t[r])
    BY DEF Tabled
  <2>2. ASSUME NEW w \in Live
        PROVE  Paged(Saved(Merged(t[r], shown[w]))) /\ Saved(Merged(t[r], shown[w])).state = "snapshotted"
    <3> DEFINE pages == shown[w]
               row == Merged(t[r], pages)
    <3>1. pages \in SUBSET AnyPage
      BY <2>2 DEF IsShown, Live
    <3> HIDE DEF pages
    <3>2. Paged(row)
      BY <2>1, <3>1, PagedRows
    <3> HIDE DEF row
    <3>3. Paged(Saved(row)) /\ Saved(row).state = "snapshotted"
      BY <3>2, PagedRows
    <3> QED
      BY <3>3 DEF row, pages
  <2> QED
    BY <1>1, <2>1, <2>2
<1>3. Tabled(m) /\ Narrows(m, t)
  BY <1>1, <1>2 DEF Tabled, Narrows, OpenRows, InState
<1> QED
  BY <1>3 DEF m

LEMMA ReattachedOwners ==
  ASSUME IsShown(shown), NEW t, Tabled(t), Distinct(t)
  PROVE  /\ Tabled(Reattached(t)) /\ Distinct(Reattached(t))
         /\ \A r \in RowIds : \/ Reattached(t)[r] = t[r]
                              \/ /\ r \in Missing(t)
                                 /\ Reattached(t)[r].state = "open" /\ Reattached(t)[r].window \in Live
<1> DEFINE rs == [r \in Missing(t) |-> t[r].tabs]
           ws == [w \in Live \ Owned(t) |-> shown[w]]
           pairs == MatchRestored(rs, ws)
           at(r) == CHOOSE m \in pairs : m.row = r
           new == Reattached(t)
<1>1. /\ DOMAIN new = RowIds
      /\ \A r \in RowIds : new[r] = IF \E m \in pairs : m.row = r THEN Reopened(t[r], at(r).window) ELSE t[r]
  BY DEF Reattached
<1>2. IsOffer(rs, ws)
  <2>1. IsFiniteSet(AnyPage)
    <3>1. IsFiniteSet({0})
      BY FS_Singleton
    <3> QED
      BY <3>1, BrowserFinite, FS_Union DEF AnyPage
  <2>2. Missing(t) \in SUBSET RowIds /\ Live \ Owned(t) \in SUBSET WindowIds
    BY DEF Missing, InState, Live, IsShown
  <2>3. IsFiniteSet(Missing(t)) /\ IsFiniteSet(Live \ Owned(t))
    BY <2>2, BrowserFinite, FS_Subset
  <2>4. \A r \in Missing(t) : t[r].tabs \in SUBSET AnyPage
    BY <2>2 DEF Tabled, Paged
  <2>5. \A w \in Live \ Owned(t) : shown[w] \in SUBSET AnyPage
    BY DEF IsShown, Live
  <2>6. /\ DOMAIN rs = Missing(t) /\ \A r \in Missing(t) : IsFiniteSet(rs[r])
        /\ DOMAIN ws = Live \ Owned(t) /\ \A w \in Live \ Owned(t) : IsFiniteSet(ws[w])
    BY <2>1, <2>4, <2>5, FS_Subset
  <2> HIDE DEF rs, ws
  <2> QED
    BY <2>2, <2>3, <2>6, BrowserIds DEF IsOffer
<1>3. /\ \A m \in pairs : m.row \in Missing(t) /\ m.window \in Live \ Owned(t)
      /\ \A c, d \in pairs : Touches(c, d) => c = d
  <2>1. /\ pairs \subseteq Candidates(rs, ws)
        /\ \A c, d \in pairs : Touches(c, d) => c = d
    <3> HIDE DEF rs, ws
    <3> QED
      BY <1>2, MatchesOneToOne
  <2>2. \A c \in Candidates(rs, ws) : c.row \in DOMAIN rs /\ c.window \in DOMAIN ws
    <3> HIDE DEF rs, ws
    <3> QED
      BY <1>2, CandidateTypes
  <2>3. DOMAIN rs = Missing(t) /\ DOMAIN ws = Live \ Owned(t)
    OBVIOUS
  <2> HIDE DEF rs, ws, pairs
  <2> QED
    BY <2>1, <2>2, <2>3
<1> HIDE DEF pairs, new
<1>4. ASSUME NEW r \in RowIds, \E m \in pairs : m.row = r
      PROVE  at(r) \in pairs /\ at(r).row = r
  BY <1>4
<1> HIDE DEF at
<1>5. ASSUME NEW r \in RowIds
      PROVE  \/ new[r] = t[r]
             \/ /\ at(r) \in pairs /\ at(r).row = r
                /\ new[r] = Reopened(t[r], at(r).window) /\ Paged(new[r])
                /\ new[r].window = at(r).window /\ new[r].state = "open"
  <2>1. CASE \E m \in pairs : m.row = r
    <3>1. Paged(t[r])
      BY DEF Tabled
    <3>2. LET row == Reopened(t[r], at(r).window) IN Paged(row) /\ row.window = at(r).window /\ row.state = "open"
      BY <3>1, PagedRows
    <3> QED
      BY <1>1, <1>4, <2>1, <3>2
  <2>2. CASE ~(\E m \in pairs : m.row = r)
    BY <1>1, <2>2
  <2> QED
    BY <2>1, <2>2
<1>6. Tabled(new)
  BY <1>1, <1>5 DEF Tabled
<1>7. ASSUME NEW q \in OpenRows(new), NEW r \in OpenRows(new), q # r PROVE new[q].window # new[r].window
  <2>1. \A i \in OpenRows(new) :
          \/ i \in OpenRows(t) /\ new[i].window = t[i].window /\ t[i].window \in Owned(t)
          \/ at(i) \in pairs /\ at(i).row = i /\ new[i].window = at(i).window /\ at(i).window \notin Owned(t)
    <3> TAKE i \in OpenRows(new)
    <3>1. i \in RowIds /\ new[i].state = "open"
      BY DEF OpenRows, InState
    <3> QED
      BY <1>3, <1>5, <3>1 DEF OpenRows, InState, Owned
  <2>2. CASE q \in OpenRows(t) /\ new[q].window = t[q].window /\ t[q].window \in Owned(t)
    BY <1>7, <2>1, <2>2 DEF Distinct
  <2>3. CASE at(q) \in pairs /\ at(q).row = q /\ new[q].window = at(q).window /\ at(q).window \notin Owned(t)
    <3>1. CASE r \in OpenRows(t) /\ new[r].window = t[r].window /\ t[r].window \in Owned(t)
      BY <2>3, <3>1
    <3>2. CASE at(r) \in pairs /\ at(r).row = r /\ new[r].window = at(r).window
      BY <1>3, <1>7, <2>3, <3>2 DEF Touches
    <3> QED
      BY <2>1, <3>1, <3>2
  <2> QED
    BY <2>1, <2>2, <2>3
<1>8. \A r \in RowIds : new[r] = t[r] \/ (r \in Missing(t) /\ new[r].state = "open" /\ new[r].window \in Live)
  BY <1>3, <1>5
<1> QED
  BY <1>6, <1>7, <1>8 DEF new, Distinct

LEMMA ResyncedOwners ==
  ASSUME IsShown(shown), NEW t, Tabled(t), Distinct(t)
  PROVE  Tabled(Resynced(t)) /\ Distinct(Resynced(t))
<1> DEFINE gone == MarkMissing(SavedClosing(t), WindowIds \ Live)
           attached == IF newRun THEN Reattached(gone) ELSE gone
<1>1. Tabled(gone) /\ Narrows(gone, t)
  BY SavedClosingKeeps, TableKeeps
<1>2. Resynced(t) = SaveTabs(attached, Live)
  BY DEF Resynced
<1>3. Tabled(gone) /\ Distinct(gone)
  <2> HIDE DEF gone
  <2> QED
    BY <1>1, NarrowTables
<1> HIDE DEF gone
<1>4. Tabled(attached) /\ Distinct(attached)
  BY <1>3, ReattachedOwners
<1> HIDE DEF attached
<1>5. Narrows(attached, attached)
  BY DEF Narrows
<1>6. Tabled(SaveTabs(attached, Live)) /\ Narrows(SaveTabs(attached, Live), attached)
  BY <1>4, <1>5, TableKeeps
<1> DEFINE m == SaveTabs(attached, Live)
<1> HIDE DEF m
<1>7. Distinct(m)
  BY <1>4, <1>6, NarrowTables DEF m
<1> QED
  BY <1>2, <1>6, <1>7 DEF m

-----------------------------------------------------------------------------
LEMMA ShownKeeps ==
  ASSUME NEW f, IsShown(f), NEW ws, NEW w, NEW pages \in SUBSET AnyPage
  PROVE  IsShown(Without(f, ws)) /\ IsShown([f EXCEPT ![w] = pages])
<1>1. IsShown(Without(f, ws))
  BY DEF IsShown, Without
<1>2. IsShown([f EXCEPT ![w] = pages])
  BY DEF IsShown
<1> QED
  BY <1>1, <1>2

LEMMA LeastUnused ==
  Unused # {} => Min(Unused) \in Unused /\ Min(Unused) \in WindowIds /\ NextUnused(0) \in Unused
<1> SUFFICES ASSUME Unused # {} PROVE Min(Unused) \in Unused /\ Min(Unused) \in WindowIds /\ NextUnused(0) \in Unused
  OBVIOUS
<1>1. /\ Unused \subseteq WindowIds /\ IsFiniteSet(Unused) /\ Cardinality(Unused) \in Nat
      /\ \A n \in 0 .. Cardinality(Unused) - 1 : NextUnused(n) \in Unused
  BY UnusedIds
<1>2. Min(Unused) \in Unused
  <2> DEFINE S == Unused
  <2>1. S \subseteq Nat /\ S # {}
    BY <1>1, BrowserIds
  <2> HIDE DEF S
  <2>2. \E x \in S : \A y \in S : x <= y
    BY <2>1, LeastNumber
  <2>3. Min(S) \in S
    BY <2>2 DEF Min
  <2> QED
    BY <2>3 DEF S
<1>3. Cardinality(Unused) # 0
  BY <1>1, FS_EmptySet
<1>4. 0 \in 0 .. Cardinality(Unused) - 1
  BY <1>1, <1>3
<1> QED
  BY <1>1, <1>2, <1>4

\* The request keeps its page, ends, or is a new one.
Asked(q) == DOMAIN q = RequestFields /\ q.page \in AnyPage

LEMMA AskedRequests ==
  /\ Asked(NoRequest)
  /\ OwnerInv => Asked(request)
  /\ OwnerInv /\ Goes => Asked(request')
  /\ \A kind, s, w, takes : \A page \in Pages : Asks(kind, s, page, w, takes) => Asked(request')
  /\ \A w, v : OwnerInv /\ Found(w, v) => Asked(request')
<1>1. Asked(NoRequest)
  BY DEF Asked, NoRequest, RequestFields, AnyPage
<1>2. OwnerInv => Asked(request)
  BY DEF OwnerInv, Asked
<1>3. OwnerInv /\ Goes => Asked(request')
  BY DEF OwnerInv, Asked, Goes, RequestFields
<1>4. ASSUME NEW kind, NEW s, NEW w, NEW takes, NEW page \in Pages, Asks(kind, s, page, w, takes)
      PROVE  Asked(request')
  BY <1>4 DEF Asks, Asked, RequestFields, AnyPage
<1>5. ASSUME NEW w, NEW v, OwnerInv, Found(w, v)
      PROVE  Asked(request')
  BY <1>5 DEF OwnerInv, Found, Asked, RequestFields
<1> QED
  BY <1>1, <1>2, <1>3, <1>4, <1>5

\* The tables that a step may leave.
LEMMA OwnerKept ==
  ASSUME OwnerInv, IsShown(shown'), Asked(request'),
         rows' = rows \/ (Tabled(rows') /\ (Narrows(rows', rows) \/ Distinct(rows')))
  PROVE  OwnerInv'
<1>1. Tabled(rows') /\ Distinct(rows')
  BY NarrowTables DEF OwnerInv
<1> QED
  BY <1>1 DEF OwnerInv, Asked

LEMMA OutsideOwners ==
  ASSUME OwnerInv, Windows \/ Browser \/ Environment \/ SessionEvents
  PROVE  OwnerInv'
<1>0. IsShown(shown) /\ Asked(request) /\ Asked(NoRequest) /\ IsShown(<< >>)
  BY AskedRequests, NothingShown DEF OwnerInv
<1>1. ASSUME NEW p \in Pages, UserOpens({p}) PROVE OwnerInv'
  <2>1. Min(Unused) \in WindowIds /\ {p} \in SUBSET AnyPage
    BY <1>1, LeastUnused DEF UserOpens, AnyPage
  <2>2. IsShown(Gives(shown, Min(Unused), {p}))
    BY <1>0, <2>1, GivenShown
  <2>3. IsShown(shown') /\ rows' = rows /\ request' = request
    BY <1>1, <2>2 DEF UserOpens
  <2> QED
    BY <1>0, <2>3, OwnerKept
<1>2. ASSUME NEW w, UserCloses(w) PROVE OwnerInv'
  <2>1. IsShown(Without(shown, {w}))
    BY <1>0, ShownKeeps
  <2>2. IsShown(shown') /\ rows' = rows /\ request' = request
    BY <1>2, <2>1 DEF UserCloses
  <2> QED
    BY <1>0, <2>2, OwnerKept
<1>3. ASSUME NEW w, NEW pages \in SUBSET Pages, UserBrowses(w, pages) PROVE OwnerInv'
  <2>1. IsShown([shown EXCEPT ![w] = pages])
    BY <1>0, ShownKeeps DEF AnyPage
  <2>2. IsShown(shown') /\ rows' = rows /\ request' = request
    BY <1>3, <2>1 DEF UserBrowses
  <2> QED
    BY <1>0, <2>2, OwnerKept
<1>4. ASSUME BrowserStarts PROVE OwnerInv'
  <2>1. PICK ws \in SUBSET WindowIds : shown' \in [ws -> {{p} : p \in Pages}]
    BY <1>4 DEF BrowserStarts
  <2>2. IsShown(shown') /\ rows' = rows /\ request' = request
    BY <1>4, <2>1 DEF BrowserStarts, IsShown, AnyPage
  <2> QED
    BY <1>0, <2>2, OwnerKept
<1>5. ASSUME BrowserQuits PROVE OwnerInv'
  <2>1. IsShown(shown') /\ rows' = rows /\ request' = request
    BY <1>0, <1>5 DEF BrowserQuits
  <2> QED
    BY <1>0, <2>1, OwnerKept
<1>6. ASSUME \/ \E w \in Live : UserFocuses(w)
             \/ LinkBreaks \/ LinkComes \/ DaemonRestarts \/ SessionEvents
      PROVE  OwnerInv'
  <2>1. shown' = shown /\ rows' = rows /\ request' \in {request, NoRequest}
    BY <1>6 DEF UserFocuses, LinkBreaks, LinkComes, DaemonRestarts, SessionEvents, SwitchTo, SessionArchived, SessionDeleted
  <2> QED
    BY <1>0, <2>1, OwnerKept
<1> QED
  BY <1>1, <1>2, <1>3, <1>4, <1>5, <1>6 DEF Windows, Browser, Environment

\* Windows are closed.
LEMMA ClosedShown == \A ws : OwnerInv /\ Closed(ws) => IsShown(shown')
BY ShownKeeps DEF OwnerInv, Closed

LEMMA EndOwners ==
  ASSUME OwnerInv, TakeOp \/ EndFails \/ ArchiveLive \/ ArchiveOffline \/ DeleteLive \/ DeleteOffline
  PROVE  OwnerInv'
<1>0. IsShown(shown) /\ Asked(request) /\ Tabled(rows) /\ Narrows(rows, rows) /\ \A r \in RowIds : Paged(rows[r])
  BY AskedRequests DEF OwnerInv, Tabled, Narrows
<1>1. ASSUME TakeOp \/ EndFails PROVE OwnerInv'
  <2>1. shown' = shown /\ rows' = rows /\ request' = request
    BY <1>1 DEF TakeOp, EndFails
  <2> QED
    BY <1>0, <2>1, OwnerKept
<1>2. ASSUME ArchiveLive PROVE OwnerInv'
  <2> DEFINE windows == {rows[r].window : r \in OpenOf(rows, Op.session)} \cap Live
  <2>1. PICK failed \in SUBSET (windows \ svc.removals) : \E late \in SUBSET failed :
          /\ rows' = [r \in RowIds |->
                        IF r \in OpenOf(rows, Op.session) THEN ArchivedRow(rows[r], failed)
                        ELSE IF r \in Restorable(rows, Op.session) THEN Saved(rows[r]) ELSE rows[r]]
          /\ Closed(late \cup (windows \ (failed \cup svc.removals)))
    BY <1>2 DEF ArchiveLive
  <2>2. failed \subseteq Live /\ IsShown(shown') /\ request' = request
    BY <1>2, <2>1, ClosedShown DEF ArchiveLive
  <2>3. ASSUME NEW r \in RowIds
        PROVE  /\ Paged(ArchivedRow(rows[r], failed))
               /\ \/ ArchivedRow(rows[r], failed).state = "snapshotted"
                  \/ /\ ArchivedRow(rows[r], failed).state = rows[r].state
                     /\ ArchivedRow(rows[r], failed).window = rows[r].window
    <3> DEFINE row == rows[r]
               pages == shown[row.window]
               merged == Merged(row, pages)
    <3>1. row.window \in Live => Paged(merged) /\ merged.state = row.state /\ merged.window = row.window
      <4> SUFFICES ASSUME row.window \in Live
                   PROVE  Paged(merged) /\ merged.state = row.state /\ merged.window = row.window
        OBVIOUS
      <4>1. pages \in SUBSET AnyPage
        BY <1>0 DEF IsShown, Live
      <4> HIDE DEF pages
      <4> QED
        BY <1>0, <4>1, PagedRows
    <3>2. Paged(row)
      BY <1>0
    <3>3. ArchivedRow(row, failed) \in {row, Saved(row)} \/ (row.window \in Live /\ ArchivedRow(row, failed) \in {merged, Saved(merged)})
      BY <2>2 DEF ArchivedRow
    <3> HIDE DEF row, merged
    <3>4. /\ Paged(Saved(row)) /\ Saved(row).state = "snapshotted"
          /\ row.window \in Live => Paged(Saved(merged)) /\ Saved(merged).state = "snapshotted"
      BY <3>1, <3>2, PagedRows
    <3>5. /\ Paged(ArchivedRow(row, failed))
          /\ \/ ArchivedRow(row, failed).state = "snapshotted"
             \/ /\ ArchivedRow(row, failed).state = row.state
                /\ ArchivedRow(row, failed).window = row.window
      BY <3>1, <3>2, <3>3, <3>4
    <3> QED
      BY <3>5 DEF row
  <2>4. \A r \in RowIds : Paged(Saved(rows[r])) /\ Saved(rows[r]).state = "snapshotted"
    <3> TAKE r \in RowIds
    <3> QED
      BY <1>0, PagedRows
  <2>5. Tabled(rows')
    BY <1>0, <2>1, <2>3, <2>4 DEF Tabled
  <2>6. Narrows(rows', rows)
    BY <1>0, <2>1, <2>3, <2>4 DEF Narrows, OpenRows, InState
  <2> QED
    BY <1>0, <2>2, <2>5, <2>6, OwnerKept
<1>3. ASSUME ArchiveOffline PROVE OwnerInv'
  <2>1. PICK rs : rows' = [r \in RowIds |-> IF r \in rs THEN Saved(rows[r]) ELSE rows[r]]
    BY <1>3 DEF ArchiveOffline
  <2>2. shown' = shown /\ request' = request
    BY <1>3 DEF ArchiveOffline
  <2>3. \A r \in RowIds : Paged(Saved(rows[r])) /\ Saved(rows[r]).state = "snapshotted"
    <3> TAKE r \in RowIds
    <3> QED
      BY <1>0, PagedRows
  <2>4. Tabled(rows') /\ Narrows(rows', rows)
    BY <1>0, <2>1, <2>3 DEF Tabled, Narrows, OpenRows, InState
  <2> QED
    BY <1>0, <2>2, <2>4, OwnerKept
<1>4. ASSUME DeleteLive \/ DeleteOffline PROVE OwnerInv'
  <2>1. rows' = Delete(rows, {r \in RowIds : rows[r].session = Op.session}) /\ request' = request
    BY <1>4 DEF DeleteLive, DeleteOffline
  <2>2. Tabled(rows') /\ Narrows(rows', rows)
    BY <1>0, <2>1, TableKeeps
  <2>3. shown' = shown \/ \E ws : Closed(ws)
    BY <1>4 DEF DeleteLive, DeleteOffline
  <2>4. IsShown(shown')
    BY <1>0, <2>3, ClosedShown
  <2> QED
    BY <1>0, <2>1, <2>2, <2>4, OwnerKept
<1> QED
  BY <1>1, <1>2, <1>3, <1>4

LEMMA ConnectionOwners ==
  ASSUME OwnerInv, HandleConnected \/ HandleConnectedFails \/ HandleDisconnected
  PROVE  OwnerInv'
<1> DEFINE before == Trusted(Flushed(rows))
<1>1. IsShown(shown) /\ Asked(request) /\ Tabled(rows) /\ Distinct(rows) /\ Narrows(rows, rows)
  BY AskedRequests DEF OwnerInv, Narrows
<1>2. Tabled(Flushed(rows)) /\ Narrows(Flushed(rows), rows)
  BY <1>1, TableKeeps
<1>3. Tabled(before) /\ Narrows(before, rows)
  <2> DEFINE m == Flushed(rows)
  <2> HIDE DEF m
  <2>1. Tabled(Trusted(m)) /\ Narrows(Trusted(m), rows)
    BY <1>1, <1>2, TableKeeps DEF m
  <2> QED
    BY <2>1 DEF m
<1> HIDE DEF before
<1>4. Distinct(before)
  BY <1>1, <1>3, NarrowTables
<1>5. ASSUME HandleConnected PROVE OwnerInv'
  <2>1. Tabled(Resynced(before)) /\ Distinct(Resynced(before))
    BY <1>1, <1>3, <1>4, ResyncedOwners
  <2>2. rows' = Resynced(before) /\ request' = request /\ \E ws : Closed(ws)
    BY <1>5 DEF HandleConnected, before
  <2>3. IsShown(shown')
    BY <2>2, ClosedShown
  <2> QED
    BY <1>1, <2>1, <2>2, <2>3, OwnerKept
<1>6. ASSUME HandleConnectedFails PROVE OwnerInv'
  <2>1. rows' = before /\ request' = request /\ shown' = shown
    BY <1>6 DEF HandleConnectedFails, before
  <2> QED
    BY <1>1, <1>3, <2>1, OwnerKept
<1>7. ASSUME HandleDisconnected PROVE OwnerInv'
  <2>1. rows' = Flushed(rows) /\ request' = request /\ shown' = shown
    BY <1>7 DEF HandleDisconnected
  <2> QED
    BY <1>1, <1>2, <2>1, OwnerKept
<1> QED
  BY <1>5, <1>6, <1>7

LEMMA EventOwners ==
  ASSUME OwnerInv, HandleCreated \/ HandleCreatedFails \/ HandleRemoved \/ HandleTabs \/ HandleFocus
  PROVE  OwnerInv'
<1>1. IsShown(shown) /\ Asked(request) /\ Tabled(rows) /\ Distinct(rows) /\ Narrows(rows, rows)
      /\ \A r \in RowIds : Paged(rows[r])
  BY AskedRequests DEF OwnerInv, Narrows, Tabled
<1>2. ASSUME HandleCreatedFails \/ HandleRemoved \/ HandleTabs PROVE OwnerInv'
  <2>1. rows' = rows /\ request' = request /\ shown' = shown
    BY <1>2 DEF HandleCreatedFails, HandleRemoved, HandleTabs
  <2> QED
    BY <1>1, <2>1, OwnerKept
<1>3. ASSUME HandleCreated PROVE OwnerInv'
  <2> DEFINE w == Subject
             row == OpenRow(Parent(w), w, {})
             added == AddRow(rows, row)
  <2>1. rows' = Adopted(w) /\ request' = request /\ shown' = shown
    BY <1>3 DEF HandleCreated
  <2>2. CASE rows' = rows
    BY <1>1, <2>1, <2>2, OwnerKept
  <2>3. ASSUME rows' # rows PROVE OwnerInv'
    <3>1. RowsOf(rows, w) = {} /\ rows' = SaveTabs(added, {w})
      BY <2>1, <2>3 DEF Adopted
    <3>2. w \notin Owned(rows)
      BY <3>1 DEF RowsOf, Owned
    <3>3. Paged(row) /\ row.window = w
      BY PagedRows
    <3> HIDE DEF w, row
    <3>4. Tabled(added) /\ Distinct(added)
      BY <1>1, <3>2, <3>3, AddedOwner
    <3> HIDE DEF added
    <3>5. Narrows(added, added)
      BY DEF Narrows
    <3> DEFINE m == SaveTabs(added, {w})
    <3>6. Tabled(m) /\ Narrows(m, added)
      BY <1>1, <3>4, <3>5, TableKeeps
    <3> HIDE DEF m
    <3>7. Distinct(m)
      BY <3>4, <3>6, NarrowTables
    <3>8. rows' = m
      BY <3>1 DEF m
    <3> QED
      BY <1>1, <2>1, <3>6, <3>7, <3>8, OwnerKept
  <2> QED
    BY <2>2, <2>3
<1>4. ASSUME HandleFocus PROVE OwnerInv'
  <2> DEFINE w == Subject
             waits == UNION {rows[r].waiting : r \in RowsOf(rows, w)}
  <2>1. PICK loaded \in SUBSET (IF w \in Live THEN waits ELSE {}) :
          LET pages == IF w \in Live THEN shown[w] \cup loaded ELSE {} IN
          /\ shown' = IF loaded = {} THEN shown ELSE [shown EXCEPT ![w] = pages]
          /\ rows' = [r \in RowIds |-> IF r \in RowsOf(rows, w) /\ waits # {}
                                       THEN Merged(rows[r], pages) ELSE rows[r]]
    BY <1>4 DEF HandleFocus
  <2> DEFINE pages == IF w \in Live THEN shown[w] \cup loaded ELSE {}
  <2>2. waits \subseteq AnyPage
    BY <1>1 DEF RowsOf, OpenRows, InState, Paged
  <2>3. pages \in SUBSET AnyPage
    BY <1>1, <2>2 DEF IsShown, Live
  <2>4. /\ shown' = shown \/ shown' = [shown EXCEPT ![w] = pages]
        /\ DOMAIN rows' = RowIds
        /\ \A r \in RowIds : rows'[r] = rows[r] \/ rows'[r] = Merged(rows[r], pages)
    BY <2>1
  <2> HIDE DEF pages, w
  <2>5. IsShown(shown')
    <3>1. IsShown([shown EXCEPT ![w] = pages])
      BY <1>1, <2>3, ShownKeeps
    <3> QED
      BY <1>1, <2>4, <3>1
  <2>6. \A r \in RowIds : LET row == Merged(rows[r], pages) IN
                          Paged(row) /\ row.state = rows[r].state /\ row.window = rows[r].window
    <3> TAKE r \in RowIds
    <3> QED
      BY <1>1, <2>3, PagedRows
  <2>7. Tabled(rows') /\ Narrows(rows', rows)
    BY <1>1, <2>4, <2>6 DEF Tabled, Narrows, OpenRows, InState
  <2>8. request' = request
    BY <1>4 DEF HandleFocus
  <2> QED
    BY <1>1, <2>5, <2>7, <2>8, OwnerKept
<1> QED
  BY <1>2, <1>3, <1>4

LEMMA TimerOwners ==
  ASSUME OwnerInv, NEW w, RemovalExpires(w) \/ SnapshotFires(w) \/ Eject(w)
  PROVE  OwnerInv'
<1>1. IsShown(shown) /\ Asked(request) /\ Tabled(rows) /\ Narrows(rows, rows)
  BY AskedRequests DEF OwnerInv, Narrows
<1>2. rows' \in {rows, Delete(rows, RowsOf(rows, w)), SaveTabs(rows, {w})} /\ request' = request /\ shown' = shown
  BY DEF RemovalExpires, SnapshotFires, Eject
<1>3. Tabled(rows') /\ Narrows(rows', rows)
  BY <1>1, <1>2, TableKeeps
<1> QED
  BY <1>1, <1>2, <1>3, OwnerKept

LEMMA AppearShown ==
  ASSUME OwnerInv, NEW new, IsShown(new), NEW owned, NEW takes, NEW failures, Appear(new, owned, takes, failures)
  PROVE  IsShown(shown')
BY ShownTogether DEF Appear, OwnerInv

\* Saved rows come back.
LEMMA ComingBack ==
  ASSUME OwnerInv, NEW s, NEW f \in Creations(Kept(s)), NEW kept, kept \subseteq DOMAIN f, Restored(s, f, kept)
  PROVE  IsShown(shown') /\ Tabled(rows') /\ Distinct(rows')
<1>1. IsShown(shown')
  BY CopiesShown, AppearShown DEF Restored
<1>2. Tabled(rows') /\ Distinct(rows')
  BY RestoredOwners DEF Restored
<1> QED
  BY <1>1, <1>2

\* A window is created for a session.
LEMMA CreatingOwners ==
  ASSUME OwnerInv, NEW s, NEW pages \in SUBSET AnyPage, NEW takes, CreatedFor(s, pages, takes)
  PROVE  IsShown(shown') /\ Tabled(rows') /\ Distinct(rows')
<1>1. PICK f \in Creations(Kept(s)) : \E outcome \in Outcomes :
        LET w   == NextUnused(Cardinality(DOMAIN f))
            new == IF outcome = "failed" THEN << >> ELSE Gives(<< >>, w, pages)
            own == IF outcome = "ok" THEN {w} ELSE {} IN
        /\ Cardinality(Unused) > Cardinality(DOMAIN f)
        /\ Appear(Together(new, Copies(f)), own, IF takes THEN DOMAIN new ELSE {},
                  Cardinality(Kept(s)) + (IF outcome = "ok" THEN 0 ELSE 1))
        /\ rows' = IF own # {} THEN AddRow(RestoredRows(s, f, {}), OpenRow(s, w, pages))
                   ELSE RestoredRows(s, f, {})
  BY DEF CreatedFor
<1> DEFINE w == NextUnused(Cardinality(DOMAIN f))
           t == RestoredRows(s, f, {})
           row == OpenRow(s, w, pages)
<1>2. w \in Unused /\ w \in WindowIds /\ w \notin Owned(rows)
  <2>1. Kept(s) \subseteq RowIds
    BY DEF Kept, Restorable, InState
  <2>2. Cardinality(DOMAIN f) \in Nat /\ Cardinality(Unused) \in Nat
    BY <2>1, CreationIds, UnusedIds
  <2>3. Cardinality(DOMAIN f) \in 0 .. Cardinality(Unused) - 1
    BY <1>1, <2>2
  <2> QED
    BY <2>3, UnusedIds
<1>3. Tabled(t) /\ Distinct(t) /\ Narrows(t, rows)
  BY RestoredOwners
<1>4. w \notin Owned(t)
  BY <1>2, <1>3, NarrowTables
<1>5. IsShown(Gives(<< >>, w, pages)) /\ IsShown(<< >>)
  <2> HIDE DEF w
  <2> QED
    BY <1>2, NothingShown, GivenShown
<1>6. IsShown(Copies(f))
  BY CopiesShown
<1>7. IsShown(Together(<< >>, Copies(f))) /\ IsShown(Together(Gives(<< >>, w, pages), Copies(f)))
  <2> HIDE DEF w
  <2> QED
    BY <1>5, <1>6, ShownTogether
<1>8. Paged(row) /\ row.window = w
  <2> HIDE DEF w
  <2> QED
    BY PagedRows
<1>9. \E new, owned, x, failures :
        /\ new \in {Together(<< >>, Copies(f)), Together(Gives(<< >>, w, pages), Copies(f))}
        /\ Appear(new, owned, x, failures)
  BY <1>1
<1>10. rows' \in {t, AddRow(t, row)}
  BY <1>1
<1> HIDE DEF w, t, row
<1>11. IsShown(shown')
  BY <1>7, <1>9, AppearShown
<1>12. Tabled(AddRow(t, row)) /\ Distinct(AddRow(t, row))
  BY <1>3, <1>4, <1>8, AddedOwner
<1> QED
  BY <1>3, <1>10, <1>11, <1>12

LEMMA PlacementOwners ==
  ASSUME OwnerInv, PlaceFails \/ PlaceNothing \/ PlaceRestores \/ PlaceFindsNone \/ PlaceCreates
  PROVE  OwnerInv'
<1>0. IsShown(shown)
  BY DEF OwnerInv
<1>1. Asked(request')
  BY AskedRequests DEF PlaceFails, PlaceNothing, PlaceRestores, PlaceFindsNone, PlaceCreates
<1>2. ASSUME PlaceFails \/ PlaceNothing PROVE OwnerInv'
  <2>1. rows' = rows /\ shown' = shown
    BY <1>2 DEF PlaceFails, PlaceNothing
  <2> QED
    BY <1>0, <1>1, <2>1, OwnerKept
<1>3. ASSUME PlaceRestores \/ PlaceFindsNone PROVE OwnerInv'
  <2>1. PICK f \in Creations(Kept(svc.attached)) : \E kept \in SUBSET DOMAIN f : Restored(svc.attached, f, kept)
    BY <1>3 DEF PlaceRestores, PlaceFindsNone
  <2>2. IsShown(shown') /\ Tabled(rows') /\ Distinct(rows')
    BY <2>1, ComingBack
  <2> QED
    BY <1>1, <2>2, OwnerKept
<1>4. ASSUME PlaceCreates PROVE OwnerInv'
  <2>1. CreatedFor(svc.attached, {}, FALSE) /\ {} \in SUBSET AnyPage
    BY <1>4 DEF PlaceCreates
  <2>2. IsShown(shown') /\ Tabled(rows') /\ Distinct(rows')
    BY <2>1, CreatingOwners
  <2> QED
    BY <1>1, <2>2, OwnerKept
<1> QED
  BY <1>2, <1>3, <1>4

LEMMA AskingOwners ==
  ASSUME OwnerInv, Asking
  PROVE  OwnerInv'
<1>0. IsShown(shown)
  BY DEF OwnerInv
<1>1. ASSUME NEW w, Eject(w) PROVE OwnerInv'
  BY <1>1, TimerOwners
<1>2. ASSUME NEW s, NEW p \in Pages, NEW activate, OpenAsked(s, p, activate) PROVE OwnerInv'
  <2>1. rows' = rows /\ shown' = shown /\ \E kind, t, w, takes : Asks(kind, t, p, w, takes)
    BY <1>2 DEF OpenAsked
  <2> QED
    BY <1>0, <2>1, AskedRequests, OwnerKept
<1>3. ASSUME NEW w, NEW p \in Pages, FocusAsked(w, p) PROVE OwnerInv'
  <2>1. rows' = rows /\ shown' = shown /\ \E kind, t, v, takes : Asks(kind, t, p, v, takes)
    BY <1>3 DEF FocusAsked
  <2> QED
    BY <1>0, <2>1, AskedRequests, OwnerKept
<1>4. ASSUME NEW w, NEW p \in Pages, NEW s, MoveAsked(w, p, s) PROVE OwnerInv'
  <2>1. rows' = rows /\ shown' = shown /\ \E kind, t, v, takes : Asks(kind, t, p, v, takes)
    BY <1>4 DEF MoveAsked
  <2> QED
    BY <1>0, <2>1, AskedRequests, OwnerKept
<1> QED
  BY <1>1, <1>2, <1>3, <1>4 DEF Asking

\* The windows a request may use are shown.
LEMMA TargetsShown == Targets \subseteq Live
BY DEF Targets, Unowned

LEMMA MovedShown ==
  ASSUME OwnerInv, NEW w \in Live, NEW v \in WindowIds, NEW page \in AnyPage, Moved(w, v, page)
  PROVE  IsShown(shown')
<1> DEFINE left == shown[w] \ {page}
           kept == IF left = {} THEN Without(shown, {w}) ELSE [shown EXCEPT ![w] = left]
           now == (IF v \in Live THEN shown[v] ELSE {}) \cup {page}
<1>1. IsShown(shown)
  BY DEF OwnerInv
<1>2. left \in SUBSET AnyPage /\ now \in SUBSET AnyPage
  BY <1>1 DEF IsShown, Live
<1>3. shown' = Gives(kept, v, now)
  BY DEF Moved
<1> HIDE DEF left, now
<1>4. IsShown(kept)
  BY <1>1, <1>2, ShownKeeps
<1> HIDE DEF kept
<1> QED
  BY <1>2, <1>3, <1>4, GivenShown

LEMMA OpenOwners ==
  ASSUME OwnerInv, OpenFinds \/ OpenRestores \/ OpenCreates \/ OpenCreatesUnowned
  PROVE  OwnerInv'
<1>0. IsShown(shown) /\ Asked(NoRequest) /\ request.page \in AnyPage
  BY AskedRequests DEF OwnerInv
<1>1. ASSUME OpenFinds PROVE OwnerInv'
  <2>1. rows' = rows /\ shown' = shown /\ \E w, v : Found(w, v)
    BY <1>1 DEF OpenFinds
  <2> QED
    BY <1>0, <2>1, AskedRequests, OwnerKept
<1>2. ASSUME OpenRestores PROVE OwnerInv'
  <2>1. PICK f \in Creations(Kept(request.session)) : \E kept \in SUBSET DOMAIN f :
          Restored(request.session, f, kept) /\ \E w, v : Found(w, v)
    BY <1>2 DEF OpenRestores
  <2>2. IsShown(shown') /\ Tabled(rows') /\ Distinct(rows')
    BY <2>1, ComingBack
  <2>3. Asked(request')
    BY <2>1, AskedRequests
  <2> QED
    BY <2>2, <2>3, OwnerKept
<1>3. ASSUME OpenCreates PROVE OwnerInv'
  <2>1. CreatedFor(request.session, {request.page}, request.focus) /\ request' = NoRequest
    BY <1>3 DEF OpenCreates, Answers
  <2>2. {request.page} \in SUBSET AnyPage
    BY <1>0
  <2>3. IsShown(shown') /\ Tabled(rows') /\ Distinct(rows')
    BY <2>1, <2>2, CreatingOwners
  <2> QED
    BY <1>0, <2>1, <2>3, OwnerKept
<1>4. ASSUME OpenCreatesUnowned PROVE OwnerInv'
  <2> DEFINE w == NextUnused(0)
             one == Gives(<< >>, w, {request.page})
  <2>1. /\ Unused # {} /\ rows' = rows /\ request' = NoRequest
        /\ \E new, x, failures : new \in {<< >>, one} /\ Appear(new, {}, x, failures)
    BY <1>4 DEF OpenCreatesUnowned, Answers
  <2>2. w \in WindowIds /\ {request.page} \in SUBSET AnyPage
    BY <1>0, <2>1, LeastUnused, UnusedIds
  <2> HIDE DEF w
  <2>3. IsShown(one) /\ IsShown(<< >>)
    BY <2>2, NothingShown, GivenShown
  <2> HIDE DEF one
  <2>4. IsShown(shown')
    BY <2>1, <2>3, AppearShown
  <2> QED
    BY <1>0, <2>1, <2>4, OwnerKept
<1> QED
  BY <1>1, <1>2, <1>3, <1>4

LEMMA RequestOwners ==
  ASSUME OwnerInv, RequestFails \/ Finish \/ HoldOpens \/ HoldFails \/ FocusFinds
  PROVE  OwnerInv'
<1>0. IsShown(shown) /\ Asked(NoRequest) /\ request.page \in AnyPage
  BY AskedRequests DEF OwnerInv
<1>1. rows' = rows
  BY DEF RequestFails, Finish, HoldOpens, HoldFails, FocusFinds
<1>2. Asked(request')
  BY <1>0, AskedRequests DEF RequestFails, Finish, HoldOpens, HoldFails, FocusFinds
<1>3. shown' = shown \/ \E w : Opens(w, request.page)
  BY DEF RequestFails, Finish, HoldOpens, HoldFails, FocusFinds
<1>4. ASSUME NEW w, Opens(w, request.page) PROVE IsShown(shown')
  BY <1>0, <1>4 DEF Opens, IsShown
<1> QED
  BY <1>0, <1>1, <1>2, <1>3, <1>4, OwnerKept

LEMMA HoldOwners ==
  ASSUME OwnerInv, HoldWaits
  PROVE  OwnerInv'
<1>0. IsShown(shown) /\ Asked(NoRequest) /\ request.page \in AnyPage /\ Tabled(rows) /\ Distinct(rows)
  BY AskedRequests DEF OwnerInv
<1> DEFINE row == [NoRow EXCEPT !.state = "snapshotted", !.session = request.session, !.waiting = {request.page}]
<1>1. request' = NoRequest /\ shown' = shown
  BY DEF HoldWaits
<1>2. CASE rows' = AddRow(rows, row)
  <2>1. Paged(row) /\ row.state = "snapshotted"
    BY <1>0 DEF NoRow, Paged, RowFields
  <2> HIDE DEF row
  <2>2. Tabled(AddRow(rows, row)) /\ Distinct(AddRow(rows, row))
    BY <1>0, <2>1, AddedOwner
  <2> QED
    BY <1>0, <1>1, <1>2, <2>2, OwnerKept
<1>3. ASSUME NEW r \in RowIds,
             rows' = [rows EXCEPT ![r].waiting = IF request.page \in Content(r) THEN @ ELSE @ \cup {request.page}]
      PROVE  OwnerInv'
  <2>1. Tabled(rows')
    BY <1>0, <1>3 DEF Tabled, Paged, RowFields
  <2>2. Narrows(rows', rows)
    BY <1>0, <1>3 DEF Tabled, Paged, RowFields, Narrows, OpenRows, InState
  <2> QED
    BY <1>0, <1>1, <2>1, <2>2, OwnerKept
<1>4. HoldTargets \subseteq RowIds
  BY DEF HoldTargets, OpenOf, OpenRows, Restorable, InState
<1> QED
  BY <1>2, <1>3, <1>4 DEF HoldWaits

LEMMA MoveOwners ==
  ASSUME OwnerInv, MoveInto \/ MoveDetaches
  PROVE  OwnerInv'
<1>0. IsShown(shown) /\ Asked(NoRequest) /\ request.page \in AnyPage /\ Tabled(rows) /\ Distinct(rows)
  BY AskedRequests DEF OwnerInv
<1>1. ASSUME MoveInto PROVE OwnerInv'
  <2>1. PICK v \in Targets : Moved(request.window, v, request.page)
    BY <1>1 DEF MoveInto
  <2>2. request.window \in Live /\ v \in WindowIds
    BY <1>0, <1>1, TargetsShown DEF MoveInto, HasPage, IsShown, Live
  <2>3. IsShown(shown')
    BY <1>0, <2>1, <2>2, MovedShown
  <2>4. rows' = rows /\ request' = NoRequest
    BY <1>1 DEF MoveInto
  <2> QED
    BY <1>0, <2>3, <2>4, OwnerKept
<1>2. ASSUME MoveDetaches PROVE OwnerInv'
  <2> DEFINE v == NextUnused(0)
             row == OpenRow(request.session, v, {request.page})
  <2>1. /\ Unused # {} /\ request.window \in Live /\ request' = NoRequest
        /\ Moved(request.window, v, request.page)
        /\ rows' \in {rows, AddRow(rows, row)}
    BY <1>2 DEF MoveDetaches, HasPage
  <2>2. v \in WindowIds /\ v \notin Owned(rows)
    BY <2>1, LeastUnused, UnusedIds
  <2>3. IsShown(shown')
    BY <1>0, <2>1, <2>2, MovedShown
  <2>4. Paged(row) /\ row.window = v
    BY <1>0, PagedRows
  <2> HIDE DEF row, v
  <2>5. Tabled(AddRow(rows, row)) /\ Distinct(AddRow(rows, row))
    BY <1>0, <2>2, <2>4, AddedOwner
  <2> QED
    BY <1>0, <2>1, <2>3, <2>5, OwnerKept
<1> QED
  BY <1>1, <1>2

LEMMA OwnerBegins == BrowserInit => OwnerInv
<1> SUFFICES ASSUME BrowserInit PROVE OwnerInv
  OBVIOUS
<1> DEFINE none == [r \in RowIds |-> NoRow]
           w == Min(WindowIds)
           i == Min(RowIds)
<1>1. Tabled(none) /\ OpenRows(none) = {}
  BY PagedRows DEF Tabled, OpenRows, InState
<1>2. w \in WindowIds
  <2>1. PICK x \in WindowIds : \A y \in WindowIds : x <= y
    BY BrowserIds, BrowserFinite, LeastNumber
  <2> QED
    BY <2>1 DEF Min
<1>3. DOMAIN request = RequestFields /\ request.page \in AnyPage
  BY DEF BrowserInit, NoRequest, RequestFields, AnyPage
<1>4. \/ shown = << >> /\ rows = none
      \/ \E s \in Sessions, p \in Pages : shown = Gives(<< >>, w, {p}) /\ rows = [none EXCEPT ![i] = OpenRow(s, w, {p})]
  BY DEF BrowserInit
<1> HIDE DEF none, w, i
<1>5. CASE shown = << >> /\ rows = none
  BY <1>1, <1>3, <1>5, NothingShown DEF OwnerInv, Distinct
<1>6. ASSUME NEW s \in Sessions, NEW p \in Pages,
             shown = Gives(<< >>, w, {p}), rows = [none EXCEPT ![i] = OpenRow(s, w, {p})]
      PROVE  OwnerInv
  <2>1. {p} \in SUBSET AnyPage
    BY DEF AnyPage
  <2>2. IsShown(shown)
    BY <1>2, <1>6, <2>1, NothingShown, GivenShown
  <2> DEFINE row == OpenRow(s, w, {p})
  <2>3. Paged(row)
    BY <2>1, PagedRows
  <2>4. rows = [none EXCEPT ![i] = row]
    BY <1>6
  <2> HIDE DEF row
  <2>5. DOMAIN rows = RowIds /\ \A r \in RowIds : rows[r] = IF r = i THEN row ELSE none[r]
    BY <1>1, <2>4 DEF Tabled
  <2>6. Tabled(rows)
    BY <1>1, <2>3, <2>5 DEF Tabled
  <2>7. \A r \in OpenRows(rows) : r = i
    BY <1>1, <2>5 DEF OpenRows, InState
  <2> QED
    BY <1>3, <2>2, <2>6, <2>7 DEF OwnerInv, Distinct
<1> QED
  BY <1>4, <1>5, <1>6

LEMMA OwnerStays == OwnerInv /\ [BrowserNext]_browserVars => OwnerInv'
<1> SUFFICES ASSUME OwnerInv, [BrowserNext]_browserVars PROVE OwnerInv'
  OBVIOUS
<1>1. CASE Windows \/ Browser \/ Environment \/ SessionEvents
  BY <1>1, OutsideOwners
<1>2. CASE Asking
  BY <1>2, AskingOwners
<1>3. CASE Loops
  BY <1>3, EndOwners, PlacementOwners DEF Loops
<1>4. CASE EventsAndTimers
  BY <1>4, ConnectionOwners, EventOwners, TimerOwners DEF EventsAndTimers
<1>5. CASE Requests
  BY <1>5, OpenOwners, RequestOwners, HoldOwners, MoveOwners DEF Requests
<1>6. CASE UNCHANGED browserVars
  BY <1>6 DEF browserVars, OwnerInv
<1> QED
  BY <1>1, <1>2, <1>3, <1>4, <1>5, <1>6 DEF BrowserNext

\* No window is given to two rows, and so to two sessions: not by adopting, restoring,
\* creating, detaching or holding one, nor by matching the windows of a restarted browser
\* (internal/browser/service.go and reattach.go), in whatever order the events of a window
\* and the calls that made it arrive, for any sessions, rows, windows, pages and faults.
THEOREM WindowsHaveOneOwner == BrowserSpec => []OneOwner
<1>1. OwnerInv => OneOwner
  BY DEF OwnerInv, Distinct, OneOwner
<1> QED
  BY OwnerBegins, OwnerStays, <1>1, PTL DEF BrowserSpec

-----------------------------------------------------------------------------
\* The windows of the events of a type that wait in the channel.
Told(type) == {channel[i].window : i \in {j \in DOMAIN channel : channel[j].type = type}}
\* Windows that are closed at the next connection, that were left to the user, that
\* others than the service closed.
Awaiting      == {p.window : p \in svc.pendingClose}
LeftAlone     == history.ejected \cup history.strays
ClosedOutside == history.byHand \cup history.late

\* Where the windows of the rows are, and who owns the windows that were a session's.
WindowInv ==
  /\ channel \in Seq(Events) /\ (~link => channel = <<>>)
  /\ Owned(rows) \subseteq WindowIds
  /\ newRun => ~svc.connected /\ history.made \cap WindowIds = {}
  /\ ~svc.connected => svc.removals = {} /\ Told("created") \cap Owned(rows) = {}
  /\ Awaiting \cap (Owned(rows) \cup Told("created")) = {}
  /\ (svc.removals \cup Told("removed")) \cap Live = {}
  /\ running /\ ~newRun =>
       \A r \in OpenRows(rows) : rows[r].tabs # {} => rows[r].window \in Live \cup ClosedOutside
  /\ history.made \cap Live \subseteq Owned(rows) \cup LeftAlone \cup Awaiting

\* The step forgets saved pages for one of the reasons that OnlyUserForgets names.
Forgets ==
  \A r \in RowIds :
    rows[r].state # "none" /\ rows[r].tabs # {} /\ rows'[r].state = "none" =>
      \/ rows[r].session \in deleted
      \/ rows[r].window \in history.byHand \cup history'.ejected \cup history.late

-----------------------------------------------------------------------------
\* What a step may do: the windows `new` appear, those in `gone` close, and the channel
\* carries no other events of that kind.
Carries(new, gone) ==
  /\ channel' \in Seq(Events) /\ (~link => channel' = <<>>)
  /\ Told("created")' \subseteq Told("created") \cup new
  /\ Told("removed")' \subseteq Told("removed") \cup gone
Appearing(new, gone) ==
  /\ new \subseteq Unused /\ gone \subseteq Live
  /\ Live' = (Live \ gone) \cup new
  /\ Carries(new, gone)

\* Rows are open for the windows they were open for, or for some in ws; they get pages
\* only of windows that are there, or are closed outside the service just then.
Turning(ws) ==
  /\ Owned(rows)' \subseteq Owned(rows) \cup ws
  /\ ws # {} => svc.connected
  /\ \A r \in OpenRows(rows)' :
       \/ rows'[r].tabs = {} \/ rows'[r].window \in Live' \cup ClosedOutside'
       \/ r \in OpenRows(rows) /\ rows'[r].window = rows[r].window /\ rows[r].tabs # {}

\* What is remembered of the windows.
Recorded(new, gone) ==
  /\ ClosedOutside \subseteq ClosedOutside' \cup new
  /\ LeftAlone \subseteq LeftAlone' \cup new
  /\ running' => gone \cap Owned(rows)' \subseteq ClosedOutside'
  /\ history'.made \cap Live' \subseteq (history.made \ new) \cup Owned(rows)'
  /\ svc.connected \/ history'.made \subseteq history.made
  /\ Owned(rows) \cap Live' \subseteq Owned(rows)' \cup LeftAlone' \cup Awaiting'

\* What the service keeps in memory.
Keeping ==
  /\ svc'.connected = svc.connected
  /\ svc'.removals \subseteq svc.removals \cup Told("removed")
  /\ svc.connected \/ svc'.removals = {}
  /\ Awaiting' \subseteq Awaiting \cup (Owned(rows) \ Owned(rows)')
  /\ svc.connected => Awaiting' \subseteq Awaiting
  /\ Awaiting \subseteq Awaiting' \cup LeftAlone'

SameWorld == newRun' = newRun /\ link' = link /\ (running' => running)

LEMMA UnusedAreNew ==
  ASSUME NEW w \in Unused
  PROVE  /\ w \in WindowIds /\ w \notin Live /\ w \notin Awaiting /\ w \notin svc.removals
         /\ \A type : w \notin Told(type)
         /\ w \notin Owned(rows)
BY DEF Unused, Live, Awaiting, Told, Owned, OpenRows, InState

LEMMA WindowKept ==
  ASSUME WindowInv, NEW new, NEW gone, NEW ws, ws \subseteq new \cup Told("created"),
         SameWorld, Appearing(new, gone), Turning(ws), Recorded(new, gone), Keeping
  PROVE  WindowInv'
<1>0. /\ \A w \in new : /\ w \notin Live /\ w \notin Awaiting /\ w \notin svc.removals /\ w \notin Owned(rows)
                        /\ w \notin Told("created") /\ w \notin Told("removed")
      /\ new \cap gone = {}
  BY UnusedAreNew DEF Appearing
<1>1. (channel \in Seq(Events) /\ (~link => channel = <<>>))'
  BY DEF Appearing, Carries, SameWorld
<1>8. (Owned(rows) \subseteq WindowIds)'
  <2>1. Told("created") \subseteq WindowIds
    <3>1. \A i \in DOMAIN channel : channel[i] \in Events
      BY DEF WindowInv
    <3>2. \A e \in Events : e.window \in WindowIds
      BY DEF Events
    <3> QED
      BY <3>1, <3>2 DEF Told
  <2>2. new \subseteq WindowIds
    BY DEF Appearing, Unused
  <2> QED
    BY <2>1, <2>2 DEF WindowInv, Turning
<1>2. (newRun => ~svc.connected /\ history.made \cap WindowIds = {})'
  BY DEF WindowInv, SameWorld, Recorded, Keeping
<1>3. (~svc.connected => svc.removals = {} /\ Told("created") \cap Owned(rows) = {})'
  BY <1>0 DEF WindowInv, Appearing, Carries, Turning, Keeping
<1>4. (Awaiting \cap (Owned(rows) \cup Told("created")) = {})'
  BY <1>0 DEF WindowInv, Appearing, Carries, Turning, Keeping
<1>5. ((svc.removals \cup Told("removed")) \cap Live = {})'
  BY <1>0 DEF WindowInv, Appearing, Carries, Keeping
<1>6. (running /\ ~newRun =>
         \A r \in OpenRows(rows) : rows[r].tabs # {} => rows[r].window \in Live \cup ClosedOutside)'
  <2> SUFFICES ASSUME running', ~newRun', NEW r \in OpenRows(rows)', rows'[r].tabs # {}
               PROVE  rows'[r].window \in Live' \cup ClosedOutside'
    OBVIOUS
  <2>1. CASE rows'[r].window \in Live' \cup ClosedOutside'
    BY <2>1
  <2>2. CASE r \in OpenRows(rows) /\ rows'[r].window = rows[r].window /\ rows[r].tabs # {}
    <3>1. rows[r].window \in Live \cup ClosedOutside
      BY <2>2 DEF WindowInv, SameWorld
    <3>2. rows'[r].window \in Owned(rows)'
      BY DEF Owned
    <3> DEFINE w == rows'[r].window
    <3>3. w \in Live \cup ClosedOutside /\ w \in Owned(rows)'
      BY <2>2, <3>1, <3>2
    <3> HIDE DEF w
    <3>4. w \in Live' \cup ClosedOutside'
      BY <3>3 DEF Appearing, Recorded
    <3> QED
      BY <3>4 DEF w
  <2> QED
    BY <2>1, <2>2 DEF Turning
<1>7. (history.made \cap Live \subseteq Owned(rows) \cup LeftAlone \cup Awaiting)'
  <2> SUFFICES ASSUME NEW w \in history'.made \cap Live'
               PROVE  w \in Owned(rows)' \cup LeftAlone' \cup Awaiting'
    OBVIOUS
  <2>1. CASE w \in Owned(rows)'
    BY <2>1
  <2>2. CASE w \in history.made \ new
    <3>1. w \in Live
      BY <2>2 DEF Appearing
    <3>2. w \in Owned(rows) \cup LeftAlone \cup Awaiting
      BY <2>2, <3>1 DEF WindowInv
    <3> QED
      BY <2>2, <3>2 DEF Recorded, Keeping
  <2> QED
    BY <2>1, <2>2 DEF Recorded
<1> QED
  BY <1>1, <1>2, <1>3, <1>4, <1>5, <1>6, <1>7, <1>8 DEF WindowInv

-----------------------------------------------------------------------------
\* Events that tell of the windows `new` as created and of those in `gone` as removed.
Tells(events, new, gone) ==
  /\ events \in Seq(Events)
  /\ \A i \in DOMAIN events : /\ events[i].type = "created" => events[i].window \in new
                              /\ events[i].type = "removed" => events[i].window \in gone

LEMMA EventFields ==
  ASSUME NEW type \in {"created", "removed", "tabs", "focus"}, NEW w \in WindowIds
  PROVE  Event(type, w) \in Events /\ Event(type, w).type = type /\ Event(type, w).window = w
BY DEF Event, Events

LEMMA TellsOf ==
  ASSUME NEW new, NEW gone
  PROVE  /\ Tells(<< >>, new, gone)
         /\ \A e \in Events : /\ e.type = "created" => e.window \in new
                              /\ e.type = "removed" => e.window \in gone
                             => Tells(<<e>>, new, gone)
         /\ \A a, b : Tells(a, new, gone) /\ Tells(b, new, gone) => Tells(a \o b, new, gone)
<1>1. Tells(<< >>, new, gone)
  BY DEF Tells
<1>2. ASSUME NEW e \in Events, e.type = "created" => e.window \in new, e.type = "removed" => e.window \in gone
      PROVE  Tells(<<e>>, new, gone)
  BY <1>2 DEF Tells
<1>3. ASSUME NEW a, NEW b, Tells(a, new, gone), Tells(b, new, gone)
      PROVE  Tells(a \o b, new, gone)
  <2>1. a \in Seq(Events) /\ b \in Seq(Events) /\ a \o b \in Seq(Events)
    BY <1>3 DEF Tells
  <2>2. \A i \in DOMAIN (a \o b) : \/ i \in DOMAIN a /\ (a \o b)[i] = a[i]
                                   \/ i - Len(a) \in DOMAIN b /\ (a \o b)[i] = b[i - Len(a)]
    BY <2>1
  <2> DEFINE c == a \o b
  <2> HIDE DEF c
  <2>3. ASSUME NEW i \in DOMAIN c
        PROVE  /\ c[i].type = "created" => c[i].window \in new
               /\ c[i].type = "removed" => c[i].window \in gone
    BY <1>3, <2>2 DEF Tells, c
  <2> QED
    BY <2>1, <2>3 DEF Tells, c
<1> QED
  BY <1>1, <1>2, <1>3

LEMMA SequenceOf ==
  ASSUME NEW S, IsFiniteSet(S)
  PROVE  SetToSeq(S) \in Seq(S)
<1>1. PICK n \in Nat : ExistsBijection(1 .. n, S)
  BY FS_NatBijection
<1>2. Cardinality(S) = n
  BY <1>1, FS_CountingElements
<1>3. PICK f \in Bijection(1 .. n, S) : TRUE
  BY <1>1 DEF ExistsBijection
<1>4. f \in [1 .. n -> S] /\ IsInjective(f)
  BY <1>3 DEF Bijection, Injection, IsInjective
<1>5. SetToSeq(S) \in [1 .. n -> S]
  BY <1>2, <1>4 DEF SetToSeq
<1> QED
  BY <1>5

LEMMA TellsOfAll ==
  ASSUME NEW type \in {"created", "removed", "tabs", "focus"}, NEW ws, ws \subseteq WindowIds, NEW new, NEW gone,
         type = "created" => ws \subseteq new, type = "removed" => ws \subseteq gone
  PROVE  Tells(SetToSeq({Event(type, w) : w \in ws}), new, gone)
<1> DEFINE S == {Event(type, w) : w \in ws}
           q == SetToSeq(S)
           f == [w \in ws |-> Event(type, w)]
<1>1. S \subseteq Events /\ \A e \in S : e.type = type /\ e.window \in ws
  BY EventFields
<1>2. IsFiniteSet(ws) 
  BY BrowserFinite, FS_Subset
<1>3. f \in Surjection(ws, S)
  BY DEF Surjection
<1>4. IsFiniteSet(S)
  BY <1>2, <1>3, FS_Surjection
<1> HIDE DEF S, f
<1>5. q \in Seq(S)
  BY <1>4, SequenceOf
<1> HIDE DEF q
<1>6. q \in Seq(Events) /\ \A i \in DOMAIN q : q[i] \in S
  BY <1>1, <1>5
<1>7. Tells(q, new, gone)
  BY <1>1, <1>6 DEF Tells
<1> QED
  BY <1>7 DEF q, S

LEMMA Emitted ==
  ASSUME WindowInv, NEW events, NEW new, NEW gone, Tells(events, new, gone), Emits(events)
  PROVE  Carries(new, gone)
<1>1. channel \in Seq(Events) /\ events \in Seq(Events) /\ (~link => channel = <<>>)
  BY DEF WindowInv, Tells
<1>2. CASE ~link
  BY <1>1, <1>2 DEF Emits, Carries, Told
<1>3. CASE link
  <2> DEFINE c == channel \o events
  <2>1. channel' = c /\ c \in Seq(Events)
    BY <1>1, <1>3 DEF Emits
  <2>2. \A i \in DOMAIN c : \/ i \in DOMAIN channel /\ c[i] = channel[i]
                            \/ i - Len(channel) \in DOMAIN events /\ c[i] = events[i - Len(channel)]
    BY <1>1
  <2> HIDE DEF c
  <2>3. \A i \in DOMAIN c : /\ c[i].type = "created" => c[i].window \in Told("created") \cup new
                            /\ c[i].type = "removed" => c[i].window \in Told("removed") \cup gone
    <3> TAKE i \in DOMAIN c
    <3>1. CASE i \in DOMAIN channel /\ c[i] = channel[i]
      BY <3>1 DEF Told
    <3>2. CASE i - Len(channel) \in DOMAIN events /\ c[i] = events[i - Len(channel)]
      BY <3>2 DEF Tells
    <3> QED
      BY <2>2, <3>1, <3>2
  <2> QED
    BY <1>3, <2>1, <2>3 DEF Carries, Told
<1> QED
  BY <1>2, <1>3

LEMMA Handled ==
  ASSUME WindowInv, channel # <<>>, link
  PROVE  /\ channel' = Tail(channel) => Carries({}, {})
         /\ \A events : Tells(events, {}, {}) /\ channel' = Tail(channel) \o events => Carries({}, {})
         /\ UNCHANGED channel => Carries({}, {})
         /\ Head(channel) \in Events /\ Head(channel).window \in Told(Head(channel).type)
<1>1. channel \in Seq(Events)
  BY DEF WindowInv
<1> DEFINE t == Tail(channel)
<1>2. t \in Seq(Events) /\ \A i \in DOMAIN t : i + 1 \in DOMAIN channel /\ t[i] = channel[i + 1]
  BY <1>1
<1> HIDE DEF t
<1>3. \A i \in DOMAIN t : t[i].window \in Told(t[i].type)
  BY <1>2 DEF Told
<1>4. ASSUME channel' = t PROVE Carries({}, {})
  BY <1>2, <1>3, <1>4 DEF Carries, Told
<1>5. ASSUME NEW events, Tells(events, {}, {}), channel' = t \o events PROVE Carries({}, {})
  <2> DEFINE c == t \o events
  <2>1. events \in Seq(Events) /\ channel' = c /\ c \in Seq(Events)
    BY <1>2, <1>5 DEF Tells
  <2>2. \A i \in DOMAIN c : \/ i \in DOMAIN t /\ c[i] = t[i]
                            \/ i - Len(t) \in DOMAIN events /\ c[i] = events[i - Len(t)]
    BY <1>2, <2>1
  <2> HIDE DEF c
  <2>3. \A i \in DOMAIN c : c[i].type \in {"created", "removed"} => c[i].window \in Told(c[i].type)
    <3> TAKE i \in DOMAIN c
    <3>1. CASE i \in DOMAIN t /\ c[i] = t[i]
      BY <1>3, <3>1
    <3>2. CASE i - Len(t) \in DOMAIN events /\ c[i] = events[i - Len(t)]
      BY <1>5, <3>2 DEF Tells
    <3> QED
      BY <2>2, <3>1, <3>2
  <2> QED
    BY <2>1, <2>3 DEF Carries, Told
<1>6. UNCHANGED channel => Carries({}, {})
  BY <1>1 DEF Carries, Told
<1>7. Head(channel) \in Events /\ Head(channel).window \in Told(Head(channel).type)
  <2>1. 1 \in DOMAIN channel /\ Head(channel) = channel[1]
    BY <1>1
  <2> QED
    BY <1>1, <2>1 DEF Told
<1> QED
  BY <1>4, <1>5, <1>6, <1>7 DEF t

-----------------------------------------------------------------------------
\* Steps that leave the rows alone.
SameRecord ==
  /\ history'.made = history.made /\ history'.byHand = history.byHand /\ history'.ejected = history.ejected
  /\ history'.late = history.late /\ history'.strays = history.strays
SameMemory ==
  svc'.connected = svc.connected /\ svc'.removals = svc.removals /\ svc'.pendingClose = svc.pendingClose

LEMMA SameRows ==
  ASSUME rows' = rows
  PROVE  /\ Turning({}) /\ Forgets /\ Owned(rows)' = Owned(rows) /\ OpenRows(rows)' = OpenRows(rows)
BY DEF Turning, Forgets, Owned, OpenRows, InState

LEMMA MemoryKept ==
  ASSUME WindowInv, SameMemory
  PROVE  Keeping
BY DEF Keeping, SameMemory, Awaiting, WindowInv

LEMMA QuietStep ==
  ASSUME WindowInv, SameWorld, rows' = rows, Live' = Live, Carries({}, {}), SameMemory, SameRecord
  PROVE  WindowInv' /\ Forgets
<1>1. Appearing({}, {})
  BY DEF Appearing
<1>2. Turning({}) /\ Forgets /\ Owned(rows)' = Owned(rows)
  BY SameRows
<1>3. Recorded({}, {})
  BY <1>2 DEF Recorded, SameRecord, LeftAlone, ClosedOutside
<1> QED
  BY <1>1, <1>2, <1>3, MemoryKept, WindowKept

LEMMA AnewRecord ==
  ASSUME DOMAIN history = HistoryFields, NEW ws
  PROVE  LET h == Anew(history, ws) IN
         /\ DOMAIN h = HistoryFields
         /\ h.made = history.made \ ws /\ h.byHand = history.byHand \ ws /\ h.ejected = history.ejected \ ws
         /\ h.late = history.late \ ws /\ h.strays = history.strays \ ws
BY DEF Anew, HistoryFields

LEMMA SameTells ==
  ASSUME WindowInv, UNCHANGED channel, UNCHANGED link
  PROVE  \A new, gone : Carries(new, gone)
BY DEF Carries, Told, WindowInv

\* The browser and its user.
LEMMA UserWindows ==
  ASSUME DeletedInv, OwnerInv, WindowInv, Windows
  PROVE  WindowInv' /\ Forgets
<1>0. DOMAIN history = HistoryFields /\ Live \subseteq WindowIds
  BY DEF DeletedInv, Shapes, OwnerInv, IsShown, Live
<1>1. ASSUME NEW p, UserOpens({p}) PROVE WindowInv' /\ Forgets
  <2> DEFINE w == Min(Unused)
             a == <<Event("created", w), Event("focus", w)>>
             b == <<Event("focus", w), Event("created", w)>>
  <2>1. w \in Unused /\ w \in WindowIds
    BY <1>1, LeastUnused DEF UserOpens
  <2>2. /\ rows' = rows /\ SameMemory /\ SameWorld
        /\ shown' = Gives(shown, w, {p}) /\ history' = Anew(history, {w})
        /\ \E events \in {a, b} : Emits(events)
    BY <1>1 DEF UserOpens, SameMemory, SameWorld, worldVars
  <2> HIDE DEF w
  <2>3. Tells(a, {w}, {}) /\ Tells(b, {w}, {})
    <3>1. Tells(<<Event("created", w)>>, {w}, {}) /\ Tells(<<Event("focus", w)>>, {w}, {})
      BY <2>1, EventFields, TellsOf
    <3>2. /\ Tells(<<Event("created", w)>> \o <<Event("focus", w)>>, {w}, {})
          /\ Tells(<<Event("focus", w)>> \o <<Event("created", w)>>, {w}, {})
      BY <3>1, TellsOf
    <3>3. a = <<Event("created", w)>> \o <<Event("focus", w)>> /\ b = <<Event("focus", w)>> \o <<Event("created", w)>>
      OBVIOUS
    <3> QED
      BY <3>2, <3>3
  <2> HIDE DEF a, b
  <2>4. Carries({w}, {})
    BY <2>2, <2>3, Emitted
  <2>5. Appearing({w}, {})
    BY <2>1, <2>2, <2>4 DEF Appearing, Live, Gives
  <2>6. Turning({}) /\ Forgets /\ Owned(rows)' = Owned(rows)
    BY <2>2, SameRows
  <2>7. Recorded({w}, {})
    BY <1>0, <2>2, <2>6, AnewRecord DEF Recorded, ClosedOutside, LeftAlone
  <2> QED
    BY <2>2, <2>5, <2>6, <2>7, MemoryKept, WindowKept
<1>2. ASSUME NEW w \in Live, UserCloses(w) PROVE WindowInv' /\ Forgets
  <2>1. /\ rows' = rows /\ SameMemory /\ SameWorld
        /\ shown' = Without(shown, {w}) /\ history' = [history EXCEPT !.byHand = @ \cup {w}]
        /\ Emits(<<Event("removed", w)>>)
    BY <1>2 DEF UserCloses, SameMemory, SameWorld, worldVars
  <2>2. Tells(<<Event("removed", w)>>, {}, {w})
    BY <1>0, EventFields, TellsOf
  <2>3. Appearing({}, {w})
    BY <2>1, <2>2, Emitted DEF Appearing, Live, Without
  <2>4. Turning({}) /\ Forgets /\ Owned(rows)' = Owned(rows)
    BY <2>1, SameRows
  <2>5. Recorded({}, {w})
    BY <1>0, <2>1, <2>4 DEF Recorded, ClosedOutside, LeftAlone, HistoryFields
  <2> QED
    BY <2>1, <2>3, <2>4, <2>5, MemoryKept, WindowKept
<1>3. ASSUME NEW w \in Live, NEW pages, UserFocuses(w) \/ UserBrowses(w, pages) PROVE WindowInv' /\ Forgets
  <2>1. /\ rows' = rows /\ SameMemory /\ SameWorld /\ SameRecord /\ Live' = Live
        /\ \E type \in {"focus", "tabs"} : Emits(<<Event(type, w)>>)
    BY <1>3 DEF UserFocuses, UserBrowses, SameMemory, SameRecord, SameWorld, worldVars, Live
  <2>2. \A type \in {"focus", "tabs"} : Tells(<<Event(type, w)>>, {}, {})
    BY <1>0, EventFields, TellsOf
  <2>3. Carries({}, {})
    BY <2>1, <2>2, Emitted
  <2> QED
    BY <2>1, <2>3, QuietStep
<1> QED
  BY <1>1, <1>2, <1>3 DEF Windows

LEMMA OutsideWindows ==
  ASSUME DeletedInv, OwnerInv, WindowInv, Browser \/ Environment
  PROVE  WindowInv' /\ Forgets
<1>0. DOMAIN history = HistoryFields /\ Live \subseteq WindowIds /\ DOMAIN svc = SvcFields
  BY DEF DeletedInv, Shapes, OwnerInv, IsShown, Live
<1>1. ASSUME BrowserQuits PROVE WindowInv' /\ Forgets
  <2> DEFINE events == SetToSeq({Event("removed", w) : w \in Live})
  <2>1. /\ rows' = rows /\ SameMemory /\ SameWorld /\ SameRecord /\ ~running'
        /\ shown' = << >> /\ Emits(events)
    BY <1>1 DEF BrowserQuits, SameMemory, SameRecord, SameWorld
  <2>2. Tells(events, {}, Live)
    <3> DEFINE ws == Live
    <3> HIDE DEF ws
    <3>1. ws \subseteq WindowIds
      BY <1>0 DEF ws
    <3>2. Tells(SetToSeq({Event("removed", w) : w \in ws}), {}, ws)
      BY <3>1, TellsOfAll
    <3> QED
      BY <3>2 DEF ws
  <2> HIDE DEF events
  <2>3. Live' = {}
    BY <2>1 DEF Live
  <2>4. Appearing({}, Live)
    BY <2>1, <2>2, <2>3, Emitted DEF Appearing
  <2>5. Turning({}) /\ Forgets /\ Owned(rows)' = Owned(rows)
    BY <2>1, SameRows
  <2>6. Recorded({}, Live)
    BY <2>1, <2>3, <2>5 DEF Recorded, SameRecord, LeftAlone, ClosedOutside
  <2> QED
    BY <2>1, <2>4, <2>5, <2>6, MemoryKept, WindowKept
<1>2. ASSUME BrowserStarts PROVE WindowInv' /\ Forgets
  <2>1. /\ rows' = rows /\ svc' = svc /\ link' = link /\ channel' = channel /\ ~link /\ ~svc.connected
        /\ newRun' /\ history' = Anew(history, WindowIds)
    BY <1>2 DEF BrowserStarts
  <2>2. history'.made = history.made \ WindowIds
    BY <1>0, <2>1, AnewRecord
  <2>3. Live' \subseteq WindowIds
    BY <1>2 DEF BrowserStarts, Live
  <2>4. channel = <<>> /\ svc.removals = {}
    BY <2>1 DEF WindowInv
  <2>5. Told("created")' = {} /\ Told("removed")' = {} /\ Owned(rows)' = Owned(rows) /\ Awaiting' = Awaiting /\ Forgets
    BY <2>1, <2>4, SameRows DEF Told, Awaiting
  <2>6. (Awaiting \cap (Owned(rows) \cup Told("created")) = {})'
    BY <2>5 DEF WindowInv
  <2>7. history'.made \cap Live' = {} /\ history'.made \cap WindowIds = {}
    BY <2>2, <2>3
  <2> QED
    BY <2>1, <2>4, <2>5, <2>6, <2>7 DEF WindowInv
<1>3. ASSUME LinkBreaks \/ LinkComes PROVE WindowInv' /\ Forgets
  <2>1. /\ rows' = rows /\ svc' = svc /\ history' = history /\ shown' = shown /\ running' = running /\ newRun' = newRun
        /\ channel' = <<>> \/ (channel' = channel /\ link')
    BY <1>3 DEF LinkBreaks, LinkComes
  <2>2. Told("created")' \subseteq Told("created") /\ Told("removed")' \subseteq Told("removed")
    BY <2>1 DEF Told
  <2>3. /\ Owned(rows)' = Owned(rows) /\ OpenRows(rows)' = OpenRows(rows) /\ Forgets
        /\ Awaiting' = Awaiting /\ LeftAlone' = LeftAlone /\ ClosedOutside' = ClosedOutside /\ Live' = Live
    BY <2>1, SameRows DEF Awaiting, LeftAlone, ClosedOutside, Live
  <2>4. (channel \in Seq(Events) /\ (~link => channel = <<>>))'
    <3>1. <<>> \in Seq(Events) /\ channel \in Seq(Events)
      BY DEF WindowInv
    <3>2. channel' \in Seq(Events)
      BY <2>1, <3>1
    <3> QED
      BY <2>1, <3>2
  <2> QED
    BY <2>1, <2>2, <2>3, <2>4 DEF WindowInv
<1>4. ASSUME DaemonRestarts PROVE WindowInv' /\ Forgets
  <2>1. /\ rows' = rows /\ svc' = FreshService /\ shown' = shown /\ running' = running /\ newRun' = newRun /\ channel' = <<>>
        /\ history'.made = history.made /\ history'.byHand = history.byHand /\ history'.ejected = history.ejected
        /\ history'.late = history.late /\ history'.strays = history.strays \cup Awaiting
    BY <1>0, <1>4 DEF DaemonRestarts, HistoryFields, Awaiting
  <2>2. Told("created")' = {} /\ Told("removed")' = {} /\ channel' \in Seq(Events)
    BY <2>1 DEF Told
  <2>3. Awaiting' = {} /\ svc'.removals = {} /\ ~svc'.connected
    BY <2>1 DEF Awaiting, FreshService
  <2>4. /\ Owned(rows)' = Owned(rows) /\ OpenRows(rows)' = OpenRows(rows) /\ Forgets
        /\ LeftAlone' = LeftAlone \cup Awaiting /\ ClosedOutside' = ClosedOutside /\ Live' = Live
    BY <2>1, SameRows DEF LeftAlone, ClosedOutside, Live
  <2> QED
    BY <2>1, <2>2, <2>3, <2>4 DEF WindowInv
<1> QED
  BY <1>1, <1>2, <1>3, <1>4 DEF Browser, Environment

\* Steps that change neither the windows nor the rows.
Remembering(v) ==
  /\ DOMAIN v = SvcFields
  /\ v.connected = svc.connected /\ v.removals = svc.removals /\ v.pendingClose = svc.pendingClose

LEMMA MemoryOf ==
  ASSUME DOMAIN svc = SvcFields
  PROVE  /\ Remembering(svc) /\ Remembering(Begun)
         /\ \A s : Remembering(Attached(s)) /\ Remembering(Claimed(s))
         /\ \A v : Remembering(v) => Remembering(Done(v)) /\ Remembering(Ended(v))
         /\ \A v, s : Remembering(v) => Remembering(Released(v, s))
         /\ \A v, a, c : Remembering(v) => Remembering(Closes(v, a, c))
         /\ Remembering(svc') => SameMemory
<1>1. Remembering(svc) /\ Remembering(Begun)
  BY DEF Remembering, SvcFields, Begun
<1>2. \A s : Remembering(Attached(s)) /\ Remembering(Claimed(s))
  BY DEF Remembering, SvcFields, Attached, Claimed
<1>3. \A v : Remembering(v) => Remembering(Done(v)) /\ Remembering(Ended(v))
  BY DEF Remembering, SvcFields, Done, Ended
<1>4. \A v, s : Remembering(v) => Remembering(Released(v, s))
  BY DEF Remembering, SvcFields, Released
<1>5. Remembering(svc') => SameMemory
  BY DEF Remembering, SameMemory
<1>6. \A v, a, c : Remembering(v) => Remembering(Closes(v, a, c))
  BY DEF Remembering, SvcFields, Closes
<1> QED
  BY <1>1, <1>2, <1>3, <1>4, <1>5, <1>6

LEMMA SessionWindows ==
  ASSUME DeletedInv, OwnerInv, WindowInv, SessionEvents \/ TakeOp \/ EndFails
  PROVE  WindowInv' /\ Forgets
<1>1. DOMAIN history = HistoryFields /\ DOMAIN svc = SvcFields
  BY DEF DeletedInv, Shapes
<1>2. /\ rows' = rows /\ Live' = Live /\ UNCHANGED channel /\ UNCHANGED link /\ SameWorld /\ SameRecord
  <2>1. CASE SessionEvents
    BY <1>1, <2>1 DEF SessionEvents, SwitchTo, SessionArchived, SessionDeleted, worldVars, SameWorld, SameRecord, Live, HistoryFields
  <2>2. CASE TakeOp
    BY <2>2 DEF TakeOp, worldVars, SameWorld, SameRecord, Live
  <2>3. CASE EndFails
    <3>1. UNCHANGED <<worldVars, shown, channel, rows>> /\ history' = [history EXCEPT !.dropped = @ \cup {Op.session}]
      BY <2>3 DEF EndFails
    <3> QED
      BY <1>1, <3>1 DEF worldVars, SameWorld, SameRecord, Live, HistoryFields
  <2> QED
    BY <2>1, <2>2, <2>3
<1>3. SameMemory
  <2>1. CASE SessionEvents \/ TakeOp
    BY <1>1, <2>1 DEF SessionEvents, SwitchTo, SessionArchived, SessionDeleted, TakeOp, Attached, SameMemory, SvcFields
  <2>2. CASE EndFails
    BY <1>1, <2>2, MemoryOf DEF EndFails
  <2> QED
    BY <2>1, <2>2
<1> QED
  BY <1>2, <1>3, SameTells, QuietStep

LEMMA AskingWindows ==
  ASSUME DeletedInv, OwnerInv, WindowInv, Asking
  PROVE  WindowInv' /\ Forgets
<1>1. DOMAIN history = HistoryFields /\ DOMAIN svc = SvcFields
  BY DEF DeletedInv, Shapes
<1>2. ASSUME NEW s, NEW p, NEW activate, OpenAsked(s, p, activate) PROVE WindowInv' /\ Forgets
  <2>1. /\ rows' = rows /\ Live' = Live /\ UNCHANGED channel /\ UNCHANGED link /\ SameWorld /\ SameRecord
    BY <1>2 DEF OpenAsked, worldVars, SameWorld, SameRecord, Live
  <2>2. \/ svc' = svc
        \/ \E t : svc' = Attached(t) \/ svc' = Claimed(t)
    BY <1>2 DEF OpenAsked
  <2>3. SameMemory
    BY <1>1, <2>2, MemoryOf
  <2> QED
    BY <2>1, <2>3, SameTells, QuietStep
<1>3. ASSUME NEW w, NEW p, FocusAsked(w, p) PROVE WindowInv' /\ Forgets
  <2>1. /\ rows' = rows /\ Live' = Live /\ UNCHANGED channel /\ UNCHANGED link /\ SameWorld /\ SameRecord
        /\ \E t : svc' = Attached(t) \/ svc' = Claimed(t)
    BY <1>3 DEF FocusAsked, worldVars, SameWorld, SameRecord, Live
  <2>2. SameMemory
    BY <1>1, <2>1, MemoryOf
  <2> QED
    BY <2>1, <2>2, SameTells, QuietStep
<1>4. ASSUME NEW w, NEW p, NEW s, MoveAsked(w, p, s) PROVE WindowInv' /\ Forgets
  <2>1. /\ rows' = rows /\ Live' = Live /\ UNCHANGED channel /\ UNCHANGED link /\ SameWorld /\ SameRecord /\ SameMemory
    BY <1>4 DEF MoveAsked, worldVars, SameWorld, SameRecord, Live, SameMemory
  <2> QED
    BY <2>1, SameTells, QuietStep
<1>5. ASSUME NEW w \in Live, Eject(w) PROVE WindowInv' /\ Forgets
  <2>1. /\ rows' = Delete(rows, RowsOf(rows, w)) /\ Live' = Live /\ UNCHANGED channel /\ UNCHANGED link /\ SameWorld
        /\ svc'.connected = svc.connected /\ svc'.removals = svc.removals \ {w} /\ svc'.pendingClose = svc.pendingClose
        /\ DOMAIN history' = HistoryFields
        /\ history'.made = history.made /\ history'.byHand = history.byHand /\ history'.ejected = history.ejected \cup {w}
        /\ history'.late = history.late /\ history'.strays = history.strays
    BY <1>1, <1>5 DEF Eject, worldVars, SameWorld, Live, SvcFields, HistoryFields
  <2>2. \A r \in RowIds : rows'[r] = IF r \in RowsOf(rows, w) THEN NoRow ELSE rows[r]
    BY <2>1 DEF Delete
  <2>3. /\ OpenRows(rows)' \subseteq OpenRows(rows)
        /\ \A r \in OpenRows(rows)' : rows'[r] = rows[r]
    BY <2>2 DEF OpenRows, InState, NoRow
  <2>4. Owned(rows)' \subseteq Owned(rows) /\ Owned(rows) \subseteq Owned(rows)' \cup {w}
    <3>1. \A r \in OpenRows(rows) : rows[r].window = w \/ (r \in OpenRows(rows)' /\ rows'[r].window = rows[r].window)
      BY <2>2 DEF OpenRows, InState, RowsOf
    <3> QED
      BY <2>3, <3>1 DEF Owned
  <2>5. Appearing({}, {})
    BY <2>1, SameTells DEF Appearing
  <2>6. Turning({})
    BY <2>3, <2>4 DEF Turning
  <2>7. Recorded({}, {})
    BY <2>1, <2>4 DEF Recorded, LeftAlone, ClosedOutside
  <2>8. Keeping
    BY <2>1 DEF Keeping, Awaiting, WindowInv
  <2>9. Forgets
    BY <2>1, <2>2 DEF Forgets, RowsOf
  <2> QED
    BY <2>1, <2>5, <2>6, <2>7, <2>8, <2>9, WindowKept
<1> QED
  BY <1>2, <1>3, <1>4, <1>5 DEF Asking

-----------------------------------------------------------------------------
\* The ends of sessions.
EndsInv ==
  \A e \in {svc.op} \cup {svc.queue[i] : i \in DOMAIN svc.queue} : e.deleted => e.session \in deleted

LEMMA ClosedWindows ==
  ASSUME OwnerInv, WindowInv, NEW ws, ws \subseteq Live, Closed(ws)
  PROVE  Appearing({}, ws)
<1>1. ws \subseteq WindowIds
  BY DEF OwnerInv, IsShown, Live
<1>2. Tells(SetToSeq({Event("removed", w) : w \in ws}), {}, ws)
  BY <1>1, TellsOfAll
<1>3. Carries({}, ws)
  BY <1>2, Emitted DEF Closed
<1>4. Live' = Live \ ws
  BY DEF Closed, Live, Without
<1> QED
  BY <1>3, <1>4 DEF Appearing

LEMMA ArchivedRows ==
  ASSUME OwnerInv, NEW r \in RowIds, rows[r].state = "open", NEW failed, failed \subseteq Live
  PROVE  LET row == ArchivedRow(rows[r], failed) IN
         /\ row.state # "none"
         /\ row.state = "open" =>
              /\ row.window = rows[r].window
              /\ (row = rows[r] /\ row.window \in svc.removals) \/ row.window \in failed
         /\ rows[r].window \in svc.removals \cup failed => row.state = "open"
<1> DEFINE row == rows[r]
           pages == shown[row.window]
           merged == Merged(row, pages)
<1>1. Paged(row) /\ IsShown(shown)
  BY DEF OwnerInv, Tabled
<1>2. row.window \in Live => Paged(merged) /\ merged.state = row.state /\ merged.window = row.window
  <2> SUFFICES ASSUME row.window \in Live
               PROVE  Paged(merged) /\ merged.state = row.state /\ merged.window = row.window
    OBVIOUS
  <2>1. pages \in SUBSET AnyPage
    BY <1>1 DEF IsShown, Live
  <2> HIDE DEF pages, row
  <2> QED
    BY <1>1, <2>1, PagedRows
<1>3. row.state = "open"
  OBVIOUS
<1> HIDE DEF row, merged
<1>4. /\ Saved(row).state = "snapshotted"
      /\ row.window \in Live => Saved(merged).state = "snapshotted"
  BY <1>1, <1>2, PagedRows
<1>5. ArchivedRow(row, failed) = IF row.window \in svc.removals THEN row
                                 ELSE IF row.window \in failed THEN merged
                                 ELSE IF row.window \in Live THEN Saved(merged)
                                 ELSE Saved(row)
  BY DEF ArchivedRow, merged
<1> DEFINE new == ArchivedRow(row, failed)
<1>6. /\ new.state # "none"
      /\ new.state = "open" => /\ new.window = row.window
                               /\ (new = row /\ new.window \in svc.removals) \/ new.window \in failed
      /\ row.window \in svc.removals \cup failed => new.state = "open"
  <2> HIDE DEF new
  <2>1. CASE row.window \in svc.removals
    BY <1>3, <1>5, <2>1 DEF new
  <2>2. CASE row.window \notin svc.removals /\ row.window \in failed
    BY <1>2, <1>3, <1>5, <2>2 DEF new
  <2>3. CASE row.window \notin svc.removals /\ row.window \notin failed
    <3>1. new.state = "snapshotted"
      BY <1>4, <1>5, <2>3 DEF new
    <3> QED
      BY <2>3, <3>1
  <2> QED
    BY <2>1, <2>2, <2>3
<1> QED
  BY <1>6 DEF row

LEMMA ArchiveLiveWindows ==
  ASSUME DeletedInv, OwnerInv, WindowInv, ArchiveLive
  PROVE  WindowInv' /\ Forgets
<1> DEFINE s == Op.session
           windows == {rows[r].window : r \in OpenOf(rows, s)} \cap Live
<1>1. PICK failed \in SUBSET (windows \ svc.removals) : \E late \in SUBSET failed :
        /\ rows' = [r \in RowIds |->
                      IF r \in OpenOf(rows, s) THEN ArchivedRow(rows[r], failed)
                      ELSE IF r \in Restorable(rows, s) THEN Saved(rows[r]) ELSE rows[r]]
        /\ Closed(late \cup (windows \ (failed \cup svc.removals)))
        /\ svc' = Ended(Closes(Released(svc, s), windows \ svc.removals, windows \ (failed \cup svc.removals)))
        /\ history' = [history EXCEPT !.late = @ \cup late]
  BY DEF ArchiveLive
<1>2. PICK late \in SUBSET failed :
        /\ rows' = [r \in RowIds |->
                      IF r \in OpenOf(rows, s) THEN ArchivedRow(rows[r], failed)
                      ELSE IF r \in Restorable(rows, s) THEN Saved(rows[r]) ELSE rows[r]]
        /\ Closed(late \cup (windows \ (failed \cup svc.removals)))
        /\ svc' = Ended(Closes(Released(svc, s), windows \ svc.removals, windows \ (failed \cup svc.removals)))
        /\ history' = [history EXCEPT !.late = @ \cup late]
  BY <1>1
<1> DEFINE closed == late \cup (windows \ (failed \cup svc.removals))
<1>3. closed \subseteq Live /\ failed \subseteq Live
  OBVIOUS
<1>4. Appearing({}, closed)
  BY <1>2, <1>3, ClosedWindows
<1>5. SameMemory /\ SameWorld
  <2>1. DOMAIN svc = SvcFields
    BY DEF DeletedInv, Shapes
  <2>2. Remembering(svc')
    BY <1>2, <2>1, MemoryOf
  <2> QED
    BY <2>1, <2>2, MemoryOf DEF ArchiveLive, worldVars, SameWorld
<1>6. /\ history'.made = history.made /\ history'.byHand = history.byHand /\ history'.ejected = history.ejected
      /\ history'.late = history.late \cup late /\ history'.strays = history.strays
  <2>1. DOMAIN history = HistoryFields
    BY DEF DeletedInv, Shapes
  <2> QED
    BY <1>2, <2>1 DEF HistoryFields
<1>7. \A r \in RowIds : Saved(rows[r]).state = "snapshotted"
  <2> TAKE r \in RowIds
  <2>1. Paged(rows[r])
    BY DEF OwnerInv, Tabled
  <2> QED
    BY <2>1, PagedRows
<1>8. \A r \in RowIds : rows[r].state # "none" => rows'[r].state # "none"
  BY <1>2, <1>3, <1>7, ArchivedRows DEF OpenOf, OpenRows, InState
<1>9. \A r \in OpenRows(rows)' :
        /\ r \in OpenRows(rows) /\ rows'[r].window = rows[r].window
        /\ rows'[r] = rows[r] \/ rows'[r].window \in failed
        /\ r \in OpenOf(rows, s) => rows'[r].window \in svc.removals \cup failed
  <2> TAKE r \in OpenRows(rows)'
  <2>1. r \in RowIds /\ rows'[r].state = "open"
    BY DEF OpenRows, InState
  <2>2. CASE r \in OpenOf(rows, s)
    <3>1. rows[r].state = "open" /\ rows'[r] = ArchivedRow(rows[r], failed)
      BY <1>2, <2>1, <2>2 DEF OpenOf, OpenRows, InState
    <3> QED
      BY <1>3, <2>1, <3>1, ArchivedRows DEF OpenRows, InState
  <2>3. CASE r \notin OpenOf(rows, s)
    <3>1. rows'[r] = rows[r]
      BY <1>2, <1>7, <2>1, <2>3
    <3> QED
      BY <2>1, <2>3, <3>1 DEF OpenRows, InState
  <2> QED
    BY <2>2, <2>3
<1>10. \A w \in Owned(rows) \cap Live' : w \in Owned(rows)'
  <2> TAKE w \in Owned(rows) \cap Live'
  <2>1. PICK r \in OpenRows(rows) : rows[r].window = w
    BY DEF Owned
  <2>2. r \in RowIds /\ rows[r].state = "open" /\ w \in Live /\ w \notin closed
    BY <1>4, <2>1 DEF OpenRows, InState, Appearing
  <2>3. CASE r \in OpenOf(rows, s)
    <3>1. w \in svc.removals \cup failed
      BY <2>1, <2>2, <2>3
    <3>2. rows'[r] = ArchivedRow(rows[r], failed)
      BY <1>2, <2>2, <2>3
    <3>3. rows'[r].state = "open" /\ rows'[r].window = w
      BY <1>3, <2>1, <2>2, <3>1, <3>2, ArchivedRows
    <3> QED
      BY <2>2, <3>3 DEF Owned, OpenRows, InState
  <2>4. CASE r \notin OpenOf(rows, s)
    <3>1. rows'[r] = rows[r]
      BY <1>2, <2>2, <2>4 DEF Restorable, InState
    <3> QED
      BY <2>1, <2>2, <3>1 DEF Owned, OpenRows, InState
  <2> QED
    BY <2>3, <2>4
<1>11. closed \cap Owned(rows)' \subseteq late
  <2> SUFFICES ASSUME NEW w \in closed, w \in Owned(rows)', w \notin late PROVE FALSE
    OBVIOUS
  <2>1. PICK r \in OpenRows(rows)' : rows'[r].window = w
    BY DEF Owned
  <2>2. r \in OpenRows(rows) /\ rows[r].window = w
    BY <1>9, <2>1
  <2>3. PICK q \in OpenOf(rows, s) : rows[q].window = w
    OBVIOUS
  <2>4. q = r
    BY <2>2, <2>3 DEF OwnerInv, Distinct, OpenOf
  <2> QED
    BY <1>9, <2>1, <2>3, <2>4
<1> HIDE DEF closed, windows, s
<1>12. Turning({})
  <2>1. Owned(rows)' \subseteq Owned(rows)
    BY <1>9 DEF Owned
  <2>2. failed \subseteq Live' \cup ClosedOutside'
    <3>1. \A w \in failed : w \in Live' \/ w \in late
      BY <1>3, <1>4 DEF Appearing, closed
    <3> QED
      BY <1>6, <3>1 DEF ClosedOutside
  <2> QED
    BY <1>9, <2>1, <2>2 DEF Turning
<1>13. Recorded({}, closed)
  BY <1>6, <1>10, <1>11 DEF Recorded, LeftAlone, ClosedOutside
<1>14. Forgets
  BY <1>8 DEF Forgets
<1> QED
  BY <1>4, <1>5, <1>12, <1>13, <1>14, MemoryKept, WindowKept

\* Without a connection the windows are closed later.
LEMMA PostponedWindows ==
  ASSUME OwnerInv, WindowInv, SameWorld, ~svc.connected,
         UNCHANGED shown, UNCHANGED channel, UNCHANGED history, NEW s, NEW isDeleted,
         svc'.connected = svc.connected, svc'.removals = svc.removals,
         svc'.pendingClose = {p \in svc.pendingClose : \A q \in Postponed(s, isDeleted) : q.window # p.window}
                               \cup Postponed(s, isDeleted),
         \A r \in RowIds : rows'[r].state = "open" => r \notin OpenOf(rows, s) /\ rows'[r] = rows[r],
         \A r \in OpenRows(rows) : r \in OpenOf(rows, s) \/ rows'[r] = rows[r]
  PROVE  WindowInv'
<1> DEFINE postponed == {rows[r].window : r \in OpenOf(rows, s)}
<1>1. postponed = {q.window : q \in Postponed(s, isDeleted)}
  <2>1. \A q \in Postponed(s, isDeleted) : q.window \in postponed
    BY DEF Postponed
  <2>2. \A w \in postponed : \E q \in Postponed(s, isDeleted) : q.window = w
    <3> TAKE w \in postponed
    <3>1. PICK r \in OpenOf(rows, s) : rows[r].window = w
      OBVIOUS
    <3> DEFINE q == [window |-> rows[r].window, row |-> r, deleted |-> isDeleted]
    <3>2. q \in Postponed(s, isDeleted) /\ q.window = w
      BY <3>1 DEF Postponed
    <3> QED
      BY <3>2
  <2> QED
    BY <2>1, <2>2
<1>2. Awaiting' = Awaiting \cup postponed
  <2> HIDE DEF postponed
  <2>1. \A w \in Awaiting' : w \in Awaiting \cup postponed
    BY <1>1 DEF Awaiting
  <2>2. \A w \in Awaiting \cup postponed : w \in Awaiting'
    BY <1>1 DEF Awaiting
  <2> QED
    BY <2>1, <2>2
<1>3. postponed \subseteq Owned(rows) /\ postponed \cap Owned(rows)' = {}
  <2>1. postponed \subseteq Owned(rows)
    BY DEF OpenOf, Owned
  <2>2. ASSUME NEW w \in postponed, w \in Owned(rows)' PROVE FALSE
    <3>1. PICK q \in OpenOf(rows, s) : rows[q].window = w
      BY <2>2
    <3>2. PICK r \in OpenRows(rows)' : rows'[r].window = w
      BY <2>2 DEF Owned
    <3>3. r \in OpenRows(rows) /\ r \notin OpenOf(rows, s) /\ rows[r].window = w
      BY <3>2 DEF OpenRows, InState
    <3> QED
      BY <3>1, <3>3 DEF OwnerInv, Distinct, OpenOf
  <2> QED
    BY <2>1, <2>2
<1>4. /\ \A r \in OpenRows(rows)' : r \in OpenRows(rows) /\ rows'[r] = rows[r]
      /\ Owned(rows)' \subseteq Owned(rows)
  <2>1. \A r \in OpenRows(rows)' : r \in OpenRows(rows) /\ rows'[r] = rows[r]
    BY DEF OpenRows, InState
  <2> QED
    BY <2>1 DEF Owned
<1>5. \A w \in Owned(rows) : w \in Owned(rows)' \cup postponed
  <2> TAKE w \in Owned(rows)
  <2>1. PICK r \in OpenRows(rows) : rows[r].window = w
    BY DEF Owned
  <2>2. CASE r \in OpenOf(rows, s)
    BY <2>1, <2>2
  <2>3. CASE rows'[r] = rows[r]
    BY <2>1, <2>3 DEF Owned, OpenRows, InState
  <2> QED
    BY <2>2, <2>3
<1> HIDE DEF postponed
<1>6. Appearing({}, {})
  BY SameTells DEF Appearing, Live, SameWorld
<1>7. Turning({})
  BY <1>4 DEF Turning
<1>8. Recorded({}, {})
  BY <1>2, <1>5 DEF Recorded, LeftAlone, ClosedOutside
<1>9. Keeping
  BY <1>2, <1>3 DEF Keeping, WindowInv
<1> QED
  BY <1>6, <1>7, <1>8, <1>9, WindowKept

LEMMA OfflineWindows ==
  ASSUME DeletedInv, OwnerInv, WindowInv, EndsInv, ArchiveOffline \/ DeleteOffline
  PROVE  WindowInv' /\ Forgets
<1> DEFINE s == Op.session
<1>0. DOMAIN svc = SvcFields /\ svc.removals = {} /\ ~svc.connected
  BY DEF DeletedInv, Shapes, ArchiveOffline, DeleteOffline, WindowInv
<1>1. SameWorld /\ UNCHANGED shown /\ UNCHANGED channel /\ UNCHANGED history
  BY DEF ArchiveOffline, DeleteOffline, SameWorld, worldVars
<1>2. \A b : LET v == Ended([Released(svc, s) EXCEPT
                        !.pendingClose = {p \in @ : \A q \in Postponed(s, b) : q.window # p.window} \cup Postponed(s, b)]) IN
             /\ v.connected = svc.connected /\ v.removals = svc.removals
             /\ v.pendingClose = {p \in svc.pendingClose : \A q \in Postponed(s, b) : q.window # p.window} \cup Postponed(s, b)
  BY <1>0 DEF Ended, Released, SvcFields
<1>3. CASE ArchiveOffline
  <2>1. \A r \in RowIds : rows'[r] = IF r \in OpenOf(rows, s) \cup Restorable(rows, s) THEN Saved(rows[r]) ELSE rows[r]
    <3>1. {r \in OpenOf(rows, s) : rows[r].window \notin svc.removals} = OpenOf(rows, s)
      BY <1>0
    <3> QED
      BY <1>3, <3>1 DEF ArchiveOffline
  <2>2. \A r \in RowIds : Saved(rows[r]).state = "snapshotted"
    <3> TAKE r \in RowIds
    <3>1. Paged(rows[r])
      BY DEF OwnerInv, Tabled
    <3> QED
      BY <3>1, PagedRows
  <2>3. \A r \in RowIds : rows'[r].state = "open" => r \notin OpenOf(rows, s) /\ rows'[r] = rows[r]
    BY <2>1, <2>2
  <2>4. \A r \in OpenRows(rows) : r \in OpenOf(rows, s) \/ rows'[r] = rows[r]
    BY <2>1 DEF OpenRows, InState, Restorable
  <2>5. Forgets
    BY <2>1, <2>2 DEF Forgets
  <2>6. /\ svc'.connected = svc.connected /\ svc'.removals = svc.removals
        /\ svc'.pendingClose = {p \in svc.pendingClose : \A q \in Postponed(s, FALSE) : q.window # p.window}
                                 \cup Postponed(s, FALSE)
    BY <1>2, <1>3 DEF ArchiveOffline
  <2> HIDE DEF s
  <2> QED
    BY <1>0, <1>1, <2>3, <2>4, <2>5, <2>6, PostponedWindows
<1>4. CASE DeleteOffline
  <2>1. s \in deleted
    BY <1>4 DEF DeleteOffline, EndsInv, Op
  <2>2. \A r \in RowIds : rows'[r] = IF rows[r].session = s THEN NoRow ELSE rows[r]
    BY <1>4 DEF DeleteOffline, Delete
  <2>3. \A r \in RowIds : rows'[r].state = "open" => r \notin OpenOf(rows, s) /\ rows'[r] = rows[r]
    BY <2>2 DEF OpenOf, NoRow
  <2>4. \A r \in OpenRows(rows) : r \in OpenOf(rows, s) \/ rows'[r] = rows[r]
    BY <2>2 DEF OpenRows, InState, OpenOf
  <2>5. Forgets
    BY <2>1, <2>2 DEF Forgets
  <2>6. /\ svc'.connected = svc.connected /\ svc'.removals = svc.removals
        /\ svc'.pendingClose = {p \in svc.pendingClose : \A q \in Postponed(s, TRUE) : q.window # p.window}
                                 \cup Postponed(s, TRUE)
    BY <1>2, <1>4 DEF DeleteOffline
  <2> HIDE DEF s
  <2> QED
    BY <1>0, <1>1, <2>3, <2>4, <2>5, <2>6, PostponedWindows
<1> QED
  BY <1>3, <1>4

LEMMA DeleteLiveWindows ==
  ASSUME DeletedInv, OwnerInv, WindowInv, EndsInv, DeleteLive
  PROVE  WindowInv' /\ Forgets
<1> DEFINE s == Op.session
           windows == {rows[r].window : r \in OpenOf(rows, s)} \cap Live
<1>1. PICK failed \in SUBSET windows : \E late \in SUBSET failed :
        /\ Closed(late \cup (windows \ failed))
        /\ svc' = Ended(Closes(Released(svc, s), windows, windows \ failed))
        /\ history' = [history EXCEPT !.strays = @ \cup (failed \ late)]
  BY DEF DeleteLive
<1>2. PICK late \in SUBSET failed :
        /\ Closed(late \cup (windows \ failed))
        /\ svc' = Ended(Closes(Released(svc, s), windows, windows \ failed))
        /\ history' = [history EXCEPT !.strays = @ \cup (failed \ late)]
  BY <1>1
<1> DEFINE closed == late \cup (windows \ failed)
<1>3. closed \subseteq Live
  OBVIOUS
<1>4. Appearing({}, closed)
  BY <1>2, <1>3, ClosedWindows
<1>5. SameMemory /\ SameWorld
  <2>1. DOMAIN svc = SvcFields
    BY DEF DeletedInv, Shapes
  <2>2. Remembering(svc')
    BY <1>2, <2>1, MemoryOf
  <2> QED
    BY <2>1, <2>2, MemoryOf DEF DeleteLive, worldVars, SameWorld
<1>6. /\ history'.made = history.made /\ history'.byHand = history.byHand /\ history'.ejected = history.ejected
      /\ history'.late = history.late /\ history'.strays = history.strays \cup (failed \ late)
  <2>1. DOMAIN history = HistoryFields
    BY DEF DeletedInv, Shapes
  <2> QED
    BY <1>2, <2>1 DEF HistoryFields
<1>7. \A r \in RowIds : rows'[r] = IF rows[r].session = s THEN NoRow ELSE rows[r]
  BY DEF DeleteLive, Delete
<1>8. Forgets
  <2>1. s \in deleted
    BY DEF DeleteLive, EndsInv, Op
  <2> QED
    BY <1>7, <2>1 DEF Forgets
<1>9. \A r \in OpenRows(rows)' : r \in OpenRows(rows) /\ r \notin OpenOf(rows, s) /\ rows'[r] = rows[r]
  BY <1>7 DEF OpenRows, InState, OpenOf, NoRow
<1>10. \A w \in Owned(rows) \cap Live' : w \in Owned(rows)' \cup history'.strays
  <2> TAKE w \in Owned(rows) \cap Live'
  <2>1. PICK r \in OpenRows(rows) : rows[r].window = w
    BY DEF Owned
  <2>2. w \in Live /\ w \notin closed
    BY <1>4 DEF Appearing
  <2>3. CASE r \in OpenOf(rows, s)
    <3>1. w \in failed \ late
      BY <2>1, <2>2, <2>3
    <3> QED
      BY <1>6, <3>1
  <2>4. CASE r \notin OpenOf(rows, s)
    <3>1. rows'[r] = rows[r]
      BY <1>7, <2>1, <2>4 DEF OpenOf, OpenRows, InState
    <3> QED
      BY <2>1, <3>1 DEF Owned, OpenRows, InState
  <2> QED
    BY <2>3, <2>4
<1>11. closed \cap Owned(rows)' = {}
  <2> SUFFICES ASSUME NEW w \in closed, w \in Owned(rows)' PROVE FALSE
    OBVIOUS
  <2>1. PICK r \in OpenRows(rows)' : rows'[r].window = w
    BY DEF Owned
  <2>2. r \in OpenRows(rows) /\ r \notin OpenOf(rows, s) /\ rows[r].window = w
    BY <1>9, <2>1
  <2>3. PICK q \in OpenOf(rows, s) : rows[q].window = w
    OBVIOUS
  <2> QED
    BY <2>2, <2>3 DEF OwnerInv, Distinct, OpenOf
<1> HIDE DEF closed, windows, s
<1>12. Turning({})
  <2>1. Owned(rows)' \subseteq Owned(rows)
    BY <1>9 DEF Owned
  <2> QED
    BY <1>9, <2>1 DEF Turning
<1>13. Recorded({}, closed)
  BY <1>6, <1>10, <1>11 DEF Recorded, LeftAlone, ClosedOutside
<1> QED
  BY <1>4, <1>5, <1>8, <1>12, <1>13, MemoryKept, WindowKept
-----------------------------------------------------------------------------
\* What the operations of a connection do to the rows.
LEMMA MarkedRows ==
  ASSUME NEW t, Tabled(t), NEW ws
  PROVE  LET m == MarkMissing(t, ws) IN
         /\ \A r \in OpenRows(m) : r \in OpenRows(t) /\ m[r] = t[r] /\ t[r].window \notin ws
         /\ \A r \in OpenRows(t) : t[r].window \notin ws => r \in OpenRows(m) /\ m[r] = t[r]
         /\ \A r \in RowIds : t[r].state # "none" => m[r].state # "none"
<1> DEFINE m == MarkMissing(t, ws)
<1>1. \A r \in RowIds : m[r] = IF r \in OpenRows(t) /\ t[r].window \in ws THEN Lost(t[r]) ELSE t[r]
  BY DEF MarkMissing
<1>2. \A r \in RowIds : Lost(t[r]).state = "missing"
  <2> TAKE r \in RowIds
  <2>1. Paged(t[r])
    BY DEF Tabled
  <2> QED
    BY <2>1, PagedRows
<1> HIDE DEF m
<1>3. /\ \A r \in OpenRows(m) : r \in OpenRows(t) /\ m[r] = t[r] /\ t[r].window \notin ws
      /\ \A r \in OpenRows(t) : t[r].window \notin ws => r \in OpenRows(m) /\ m[r] = t[r]
      /\ \A r \in RowIds : t[r].state # "none" => m[r].state # "none"
  BY <1>1, <1>2 DEF OpenRows, InState
<1> QED
  BY <1>3 DEF m

LEMMA SavedRows ==
  ASSUME IsShown(shown), NEW t, Tabled(t), NEW ws
  PROVE  LET m == SaveTabs(t, ws) IN
         /\ \A r \in RowIds : /\ m[r].state = t[r].state /\ m[r].window = t[r].window
                              /\ m[r] = t[r] \/ t[r].window \in ws \cap Live
         /\ OpenRows(m) = OpenRows(t) /\ Owned(m) = Owned(t)
<1> DEFINE m == SaveTabs(t, ws)
<1>1. \A r \in RowIds : m[r] = t[r] \/ (t[r].window \in ws \cap Live /\ m[r] = Merged(t[r], shown[t[r].window]))
  BY DEF SaveTabs
<1>2. \A r \in RowIds : t[r].window \in Live =>
        LET row == Merged(t[r], shown[t[r].window]) IN row.state = t[r].state /\ row.window = t[r].window
  <2> SUFFICES ASSUME NEW r \in RowIds, t[r].window \in Live
               PROVE  LET row == Merged(t[r], shown[t[r].window]) IN row.state = t[r].state /\ row.window = t[r].window
    OBVIOUS
  <2> DEFINE pages == shown[t[r].window]
  <2>1. pages \in SUBSET AnyPage /\ Paged(t[r])
    BY DEF IsShown, Live, Tabled
  <2> HIDE DEF pages
  <2>2. LET row == Merged(t[r], pages) IN row.state = t[r].state /\ row.window = t[r].window
    BY <2>1, PagedRows
  <2> QED
    BY <2>2 DEF pages
<1> HIDE DEF m
<1>3. \A r \in RowIds : /\ m[r].state = t[r].state /\ m[r].window = t[r].window
                        /\ m[r] = t[r] \/ t[r].window \in ws \cap Live
  BY <1>1, <1>2
<1>4. OpenRows(m) = OpenRows(t)
  BY <1>3 DEF OpenRows, InState
<1>5. Owned(m) = Owned(t)
  <2>1. \A r \in OpenRows(t) : r \in RowIds
    BY DEF OpenRows, InState
  <2>2. \A w : w \in Owned(m) <=> w \in Owned(t)
    BY <1>3, <1>4, <2>1 DEF Owned
  <2> QED
    BY <2>2
<1> QED
  BY <1>3, <1>4, <1>5 DEF m

LEMMA ClosingRows ==
  ASSUME IsShown(shown), NEW t, Tabled(t)
  PROVE  \A r \in RowIds : \/ SavedClosing(t)[r] = t[r]
                           \/ SavedClosing(t)[r].state = "snapshotted" /\ t[r].state # "none"
<1> TAKE r \in RowIds
<1> DEFINE closing == {p \in Pending : p.row = r /\ ~p.deleted /\ p.window \in Live /\ shown[p.window] # {}}
           w == (CHOOSE p \in closing : TRUE).window
<1>1. SavedClosing(t)[r] = IF t[r].state # "none" /\ closing # {} THEN Saved(Merged(t[r], shown[w])) ELSE t[r]
  BY DEF SavedClosing
<1>2. CASE t[r].state # "none" /\ closing # {}
  <2>1. w \in Live
    BY <1>2
  <2> DEFINE pages == shown[w]
             merged == Merged(t[r], pages)
  <2>2. pages \in SUBSET AnyPage /\ Paged(t[r])
    BY <2>1 DEF IsShown, Live, Tabled
  <2> HIDE DEF pages
  <2>3. Paged(merged)
    BY <2>2, PagedRows
  <2> HIDE DEF merged
  <2>4. Saved(merged).state = "snapshotted"
    BY <2>3, PagedRows
  <2>5. SavedClosing(t)[r] = Saved(merged)
    BY <1>1, <1>2 DEF merged, pages
  <2> QED
    BY <1>2, <2>4, <2>5
<1>3. CASE ~(t[r].state # "none" /\ closing # {})
  BY <1>1, <1>3
<1> QED
  BY <1>2, <1>3

LEMMA ResyncedRows ==
  ASSUME IsShown(shown), NEW t, Tabled(t), Distinct(t), Owned(t) \subseteq WindowIds
  PROVE  LET m == Resynced(t) IN
         /\ Owned(m) \subseteq Live
         /\ ~newRun => Owned(m) \subseteq Owned(t)
         /\ Owned(SavedClosing(t)) \cap Live \subseteq Owned(m)
         /\ \A r \in RowIds : t[r].state # "none" => m[r].state # "none"
<1> DEFINE saved_ == SavedClosing(t)
           gone == MarkMissing(saved_, WindowIds \ Live)
           attached == IF newRun THEN Reattached(gone) ELSE gone
           m == SaveTabs(attached, Live)
<1>0. Resynced(t) = m
  BY DEF Resynced
<1>1. Tabled(saved_) /\ Narrows(saved_, t)
  BY SavedClosingKeeps
<1>2. \A r \in RowIds : t[r].state # "none" => saved_[r].state # "none"
  BY ClosingRows
<1> HIDE DEF saved_
<1>3. Tabled(gone) /\ Narrows(gone, t)
  BY <1>1, TableKeeps
<1>4. /\ \A r \in OpenRows(gone) : r \in OpenRows(saved_) /\ gone[r] = saved_[r] /\ saved_[r].window \notin WindowIds \ Live
      /\ \A r \in OpenRows(saved_) : saved_[r].window \notin WindowIds \ Live => r \in OpenRows(gone) /\ gone[r] = saved_[r]
      /\ \A r \in RowIds : saved_[r].state # "none" => gone[r].state # "none"
  BY <1>1, MarkedRows
<1> HIDE DEF gone
<1>5. Owned(saved_) \subseteq Owned(t) /\ Owned(gone) \subseteq Owned(t) /\ Distinct(gone)
  BY <1>1, <1>3, NarrowTables
<1>6. Owned(gone) \subseteq Live
  <2>1. \A r \in OpenRows(gone) : gone[r].window \in WindowIds
    BY <1>5 DEF Owned
  <2> QED
    BY <1>4, <2>1 DEF Owned
<1>7. Owned(saved_) \cap Live \subseteq Owned(gone)
  BY <1>4 DEF Owned
<1>8. /\ Tabled(Reattached(gone)) /\ Distinct(Reattached(gone))
      /\ \A r \in RowIds : \/ Reattached(gone)[r] = gone[r]
                           \/ /\ r \in Missing(gone)
                              /\ Reattached(gone)[r].state = "open" /\ Reattached(gone)[r].window \in Live
  BY <1>3, <1>5, ReattachedOwners
<1>9. /\ Tabled(attached)
      /\ \A r \in RowIds : \/ attached[r] = gone[r]
                           \/ r \in Missing(gone) /\ attached[r].state = "open" /\ attached[r].window \in Live
      /\ ~newRun => attached = gone
  BY <1>3, <1>8
<1> HIDE DEF attached
<1>10. Owned(gone) \subseteq Owned(attached)
  <2>1. \A r \in OpenRows(gone) : r \in OpenRows(attached) /\ attached[r] = gone[r]
    BY <1>9 DEF OpenRows, Missing, InState
  <2> QED
    BY <2>1 DEF Owned
<1>11. Owned(attached) \subseteq Live
  <2>1. \A r \in OpenRows(attached) : attached[r].window \in Live
    <3> TAKE r \in OpenRows(attached)
    <3>1. r \in RowIds /\ attached[r].state = "open"
      BY DEF OpenRows, InState
    <3>2. CASE attached[r] = gone[r]
      BY <1>6, <3>1, <3>2 DEF Owned, OpenRows, InState
    <3> QED
      BY <1>9, <3>1, <3>2
  <2> QED
    BY <2>1 DEF Owned
<1>12. /\ Owned(m) = Owned(attached)
       /\ \A r \in RowIds : m[r].state = attached[r].state
  BY <1>9, SavedRows
<1>13. \A r \in RowIds : t[r].state # "none" => m[r].state # "none"
  BY <1>2, <1>4, <1>9, <1>12
<1> HIDE DEF m
<1>14. ~newRun => Owned(m) \subseteq Owned(t)
  BY <1>5, <1>9, <1>12
<1> QED
  BY <1>0, <1>7, <1>10, <1>11, <1>12, <1>13, <1>14 DEF saved_

\* The rows that a connection finds: those of windows removed a moment ago are missing,
\* in another run all of them.
LEMMA FoundRows ==
  ASSUME OwnerInv, WindowInv
  PROVE  LET m == Flushed(rows)
             before == Trusted(m) IN
         /\ Tabled(m) /\ Tabled(before) /\ Distinct(before)
         /\ \A r \in OpenRows(m) : r \in OpenRows(rows) /\ m[r] = rows[r]
         /\ \A r \in OpenRows(before) : r \in OpenRows(rows) /\ before[r] = rows[r]
         /\ Owned(m) \subseteq Owned(rows) /\ Owned(before) \subseteq Owned(rows)
         /\ Owned(rows) \cap Live \subseteq Owned(m)
         /\ IF newRun THEN Owned(before) = {} ELSE before = m
         /\ \A r \in RowIds : rows[r].state # "none" => m[r].state # "none" /\ before[r].state # "none"
<1> DEFINE m == Flushed(rows)
           before == Trusted(m)
<1>1. Tabled(rows) /\ Distinct(rows) /\ IsShown(shown) /\ Narrows(rows, rows)
  BY DEF OwnerInv, Narrows
<1>2. Tabled(m) /\ Narrows(m, rows)
  BY <1>1, TableKeeps
<1>3. /\ \A r \in OpenRows(m) : r \in OpenRows(rows) /\ m[r] = rows[r]
      /\ \A r \in OpenRows(rows) : rows[r].window \notin svc.removals => r \in OpenRows(m) /\ m[r] = rows[r]
      /\ \A r \in RowIds : rows[r].state # "none" => m[r].state # "none"
  BY <1>1, MarkedRows DEF Flushed
<1> HIDE DEF m
<1>4. Tabled(before) /\ Narrows(before, rows)
  BY <1>1, <1>2, TableKeeps
<1>5. newRun => /\ \A r \in OpenRows(before) : r \in OpenRows(m) /\ before[r] = m[r] /\ m[r].window \notin WindowIds
                /\ \A r \in RowIds : m[r].state # "none" => before[r].state # "none"
  <2> SUFFICES ASSUME newRun
               PROVE  /\ \A r \in OpenRows(before) : r \in OpenRows(m) /\ before[r] = m[r] /\ m[r].window \notin WindowIds
                      /\ \A r \in RowIds : m[r].state # "none" => before[r].state # "none"
    OBVIOUS
  <2>1. before = MarkMissing(m, WindowIds)
    BY DEF Trusted
  <2> QED
    BY <1>2, <2>1, MarkedRows
<1>6. ~newRun => before = m
  BY DEF Trusted
<1> HIDE DEF before
<1>7. Owned(m) \subseteq Owned(rows) /\ Owned(before) \subseteq Owned(rows) /\ Distinct(before)
  BY <1>1, <1>2, <1>4, NarrowTables
<1>8. newRun => Owned(before) = {}
  <2> SUFFICES ASSUME newRun, NEW r \in OpenRows(before) PROVE FALSE
    BY DEF Owned
  <2>1. r \in OpenRows(m) /\ m[r].window \notin WindowIds
    BY <1>5
  <2>2. m[r].window \in Owned(m)
    BY <2>1 DEF Owned
  <2> QED
    BY <1>7, <2>1, <2>2 DEF WindowInv
<1>9. Owned(rows) \cap Live \subseteq Owned(m)
  <2>1. \A w \in Live : w \notin svc.removals
    BY DEF WindowInv
  <2>2. \A r \in OpenRows(rows) : rows[r].window \in Live => rows[r].window \in Owned(m)
    BY <1>3, <2>1 DEF Owned
  <2> QED
    BY <2>2 DEF Owned
<1>10. \A r \in OpenRows(before) : r \in OpenRows(rows) /\ before[r] = rows[r]
  BY <1>3, <1>5, <1>6
<1>11. \A r \in RowIds : rows[r].state # "none" => m[r].state # "none" /\ before[r].state # "none"
  BY <1>3, <1>5, <1>6
<1> QED
  BY <1>2, <1>3, <1>4, <1>6, <1>7, <1>8, <1>9, <1>10, <1>11 DEF before, m

LEMMA JoinedFields ==
  ASSUME DOMAIN svc = SvcFields
  PROVE  /\ DOMAIN Joined(svc) = SvcFields
         /\ Joined(svc).connected /\ Joined(svc).removals = {} /\ Joined(svc).pendingClose = Pending
BY DEF Joined, SvcFields

LEMMA UnconnectedWindows ==
  ASSUME DeletedInv, OwnerInv, WindowInv, HandleDisconnected \/ HandleConnectedFails
  PROVE  WindowInv' /\ Forgets
<1> DEFINE m == Flushed(rows)
           before == Trusted(m)
<1>1. DOMAIN svc = SvcFields /\ Live \subseteq WindowIds
  BY DEF DeletedInv, Shapes, OwnerInv, IsShown, Live
<1>2. /\ \A r \in OpenRows(m) : r \in OpenRows(rows) /\ m[r] = rows[r]
      /\ \A r \in OpenRows(before) : r \in OpenRows(rows) /\ before[r] = rows[r]
      /\ Owned(m) \subseteq Owned(rows) /\ Owned(before) \subseteq Owned(rows)
      /\ Owned(rows) \cap Live \subseteq Owned(m)
      /\ IF newRun THEN Owned(before) = {} ELSE before = m
      /\ \A r \in RowIds : rows[r].state # "none" => m[r].state # "none" /\ before[r].state # "none"
  BY FoundRows
<1> HIDE DEF m, before
<1>3. /\ shown' = shown /\ history' = history /\ channel' = channel /\ link' = link /\ running' = running
      /\ svc'.removals = {}
      /\ \/ rows' = m /\ ~svc'.connected /\ ~link /\ svc.connected /\ newRun' = newRun /\ svc'.pendingClose = svc.pendingClose
         \/ rows' = before /\ svc'.connected /\ link /\ ~newRun' /\ svc'.pendingClose = Pending
  <2>1. CASE HandleDisconnected
    BY <1>1, <2>1 DEF HandleDisconnected, m, worldVars, SvcFields
  <2>2. CASE HandleConnectedFails
    <3>1. svc' = Joined(svc)
      BY <2>2 DEF HandleConnectedFails
    <3> QED
      BY <1>1, <2>2, <3>1, JoinedFields DEF HandleConnectedFails, m, before
  <2> QED
    BY <2>1, <2>2
<1>4. /\ Live' = Live /\ LeftAlone' = LeftAlone /\ ClosedOutside' = ClosedOutside
      /\ Told("created")' = Told("created") /\ Told("removed")' = Told("removed")
  BY <1>3 DEF Live, LeftAlone, ClosedOutside, Told
<1>5. /\ Owned(rows)' \subseteq Owned(rows)
      /\ \A r \in OpenRows(rows)' : r \in OpenRows(rows) /\ rows'[r] = rows[r]
  BY <1>2, <1>3
<1>6. Awaiting' \subseteq Awaiting /\ (~newRun => Awaiting' = Awaiting /\ Owned(rows) \cap Live \subseteq Owned(rows)')
  BY <1>2, <1>3 DEF Awaiting, Pending
<1>7. (channel \in Seq(Events) /\ (~link => channel = <<>>))'
  BY <1>3 DEF WindowInv
<1>8. (newRun => ~svc.connected /\ history.made \cap WindowIds = {})'
  BY <1>3 DEF WindowInv
<1>9. (~svc.connected => svc.removals = {} /\ Told("created") \cap Owned(rows) = {})'
  <2>1. ~link => Told("created") = {}
    BY DEF WindowInv, Told
  <2> QED
    BY <1>3, <1>4, <2>1
<1>10. (running /\ ~newRun =>
          \A r \in OpenRows(rows) : rows[r].tabs # {} => rows[r].window \in Live \cup ClosedOutside)'
  <2>1. CASE newRun
    <3>1. ~newRun' => Owned(rows)' = {}
      BY <1>2, <1>3, <2>1
    <3> QED
      BY <3>1 DEF Owned
  <2>2. CASE ~newRun
    BY <1>3, <1>4, <1>5, <2>2 DEF WindowInv
  <2> QED
    BY <2>1, <2>2
<1>11. (history.made \cap Live \subseteq Owned(rows) \cup LeftAlone \cup Awaiting)'
  <2>1. newRun => history.made \cap Live = {}
    BY <1>1 DEF WindowInv
  <2>2. history.made \cap Live \subseteq Owned(rows) \cup LeftAlone \cup Awaiting
    BY DEF WindowInv
  <2> QED
    BY <1>3, <1>4, <1>6, <2>1, <2>2
<1>12. WindowInv'
  <2>1. Owned(rows) \subseteq WindowIds /\ Awaiting \cap (Owned(rows) \cup Told("created")) = {}
        /\ Told("removed") \cap Live = {}
    BY DEF WindowInv
  <2>2. (Owned(rows) \subseteq WindowIds)' /\ (Awaiting \cap (Owned(rows) \cup Told("created")) = {})'
        /\ ((svc.removals \cup Told("removed")) \cap Live = {})'
    BY <1>3, <1>4, <1>5, <1>6, <2>1
  <2> QED
    BY <1>7, <1>8, <1>9, <1>10, <1>11, <2>2 DEF WindowInv
<1>13. Forgets
  BY <1>2, <1>3 DEF Forgets
<1> QED
  BY <1>12, <1>13

LEMMA ConnectedWindows ==
  ASSUME DeletedInv, OwnerInv, WindowInv, HandleConnected
  PROVE  WindowInv' /\ Forgets
<1> DEFINE m == Flushed(rows)
           before == Trusted(m)
           windows == {p.window : p \in Pending} \cap Live
<1>1. DOMAIN svc = SvcFields /\ DOMAIN history = HistoryFields /\ Live \subseteq WindowIds /\ IsShown(shown)
  BY DEF DeletedInv, Shapes, OwnerInv, IsShown, Live
<1>2. PICK failed \in SUBSET windows : \E late \in SUBSET failed :
        /\ Closed(late \cup (windows \ failed))
        /\ svc' = [Closes(Joined(svc), windows, windows \ failed) EXCEPT
                    !.pendingClose = {}, !.unowned = {}, !.last = focus, !.prev = 0,
                    !.attached = IF @ = 0 THEN client ELSE @]
        /\ history' = [history EXCEPT !.made = @ \cup Owned(Resynced(before)),
                        !.strays = @ \cup (failed \ late) \cup (Owned(before) \ Owned(SavedClosing(before)))]
  BY DEF HandleConnected
<1>3. PICK late \in SUBSET failed :
        /\ Closed(late \cup (windows \ failed))
        /\ svc' = [Closes(Joined(svc), windows, windows \ failed) EXCEPT
                    !.pendingClose = {}, !.unowned = {}, !.last = focus, !.prev = 0,
                    !.attached = IF @ = 0 THEN client ELSE @]
        /\ history' = [history EXCEPT !.made = @ \cup Owned(Resynced(before)),
                        !.strays = @ \cup (failed \ late) \cup (Owned(before) \ Owned(SavedClosing(before)))]
  BY <1>2
<1>4. link' = link /\ link /\ running' = running /\ ~newRun' /\ rows' = Resynced(before)
  BY DEF HandleConnected
<1>5. /\ Tabled(before) /\ Distinct(before)
      /\ Owned(m) \subseteq Owned(rows) /\ Owned(before) \subseteq Owned(rows)
      /\ Owned(rows) \cap Live \subseteq Owned(m)
      /\ IF newRun THEN Owned(before) = {} ELSE before = m
      /\ \A r \in RowIds : rows[r].state # "none" => before[r].state # "none"
  BY FoundRows
<1> HIDE DEF m, before
<1>6. /\ Owned(rows)' \subseteq Live
      /\ ~newRun => Owned(rows)' \subseteq Owned(before)
      /\ Owned(SavedClosing(before)) \cap Live \subseteq Owned(rows)'
      /\ \A r \in RowIds : before[r].state # "none" => rows'[r].state # "none"
  <2>1. Owned(before) \subseteq WindowIds
    BY <1>5 DEF WindowInv
  <2> QED
    BY <1>1, <1>4, <1>5, <2>1, ResyncedRows
<1> DEFINE closed == late \cup (windows \ failed)
<1>7. /\ Appearing({}, closed) /\ closed \subseteq windows /\ windows \subseteq Live
      /\ windows \subseteq closed \cup (failed \ late)
  <2>1. closed \subseteq Live
    OBVIOUS
  <2> QED
    BY <1>3, <2>1, ClosedWindows
<1>8. IF newRun THEN windows = {} ELSE windows = Awaiting \cap Live
  BY DEF Pending, Awaiting
<1>9. svc'.connected /\ svc'.removals = {} /\ svc'.pendingClose = {}
  <2> DEFINE v == Joined(svc)
  <2>1. DOMAIN v = SvcFields /\ v.connected /\ v.removals = {}
    BY <1>1, JoinedFields
  <2> HIDE DEF v
  <2>2. \A a, c : DOMAIN Closes(v, a, c) = SvcFields /\ Closes(v, a, c).connected /\ Closes(v, a, c).removals = {}
    BY <2>1 DEF Closes, SvcFields
  <2> DEFINE u == Closes(v, windows, windows \ failed)
  <2>3. DOMAIN u = SvcFields /\ u.connected /\ u.removals = {}
    BY <2>2
  <2>4. svc' = [u EXCEPT !.pendingClose = {}, !.unowned = {}, !.last = focus, !.prev = 0,
                         !.attached = IF @ = 0 THEN client ELSE @]
    BY <1>3 DEF v
  <2> HIDE DEF u
  <2> QED
    BY <2>3, <2>4 DEF SvcFields
<1>10. /\ history'.made = history.made \cup Owned(rows)'
       /\ history'.ejected = history.ejected
       /\ history'.strays = history.strays \cup (failed \ late) \cup (Owned(before) \ Owned(SavedClosing(before)))
  BY <1>1, <1>3, <1>4 DEF HistoryFields
<1> HIDE DEF closed, windows
<1>11. closed \cap Owned(rows)' = {}
  <2>1. Awaiting \cap Owned(rows) = {}
    BY DEF WindowInv
  <2> QED
    BY <1>5, <1>6, <1>7, <1>8, <2>1
<1>12. Live' = Live \ closed /\ Awaiting' = {}
  BY <1>7, <1>9 DEF Appearing, Awaiting
<1>13. (running /\ ~newRun =>
          \A r \in OpenRows(rows) : rows[r].tabs # {} => rows[r].window \in Live \cup ClosedOutside)'
  BY <1>6, <1>11, <1>12 DEF Owned
<1>14. (history.made \cap Live \subseteq Owned(rows) \cup LeftAlone \cup Awaiting)'
  <2> SUFFICES ASSUME NEW w \in history'.made \cap Live', w \notin Owned(rows)'
               PROVE  w \in LeftAlone'
    OBVIOUS
  <2>1. w \in history.made /\ w \in Live /\ w \notin closed
    BY <1>10, <1>12
  <2>2. ~newRun
    BY <1>1, <2>1 DEF WindowInv
  <2>3. w \in Owned(rows) \cup LeftAlone \cup Awaiting
    BY <2>1 DEF WindowInv
  <2>4. CASE w \in LeftAlone
    BY <1>10, <2>4 DEF LeftAlone
  <2>5. CASE w \in Awaiting
    <3>1. w \in failed \ late
      BY <1>7, <1>8, <2>1, <2>2, <2>5
    <3> QED
      BY <1>10, <3>1 DEF LeftAlone
  <2>6. CASE w \in Owned(rows)
    <3>1. w \in Owned(before)
      BY <1>5, <2>1, <2>2, <2>6
    <3>2. w \notin Owned(SavedClosing(before))
      BY <1>6, <2>1
    <3> QED
      BY <1>10, <3>1, <3>2 DEF LeftAlone
  <2> QED
    BY <2>3, <2>4, <2>5, <2>6
<1>15. WindowInv'
  <2>1. Told("removed") \cap Live = {} /\ Carries({}, closed)
    BY <1>7 DEF WindowInv, Appearing
  <2>2. ((svc.removals \cup Told("removed")) \cap Live = {})'
    BY <1>9, <1>12, <2>1 DEF Carries
  <2>3. (Owned(rows) \subseteq WindowIds)' /\ (Awaiting \cap (Owned(rows) \cup Told("created")) = {})'
    BY <1>1, <1>6, <1>12
  <2>4. (channel \in Seq(Events) /\ (~link => channel = <<>>))'
    BY <1>4, <2>1 DEF Carries
  <2> QED
    BY <1>4, <1>9, <1>13, <1>14, <2>2, <2>3, <2>4 DEF WindowInv
<1>16. Forgets
  BY <1>5, <1>6 DEF Forgets
<1> QED
  BY <1>15, <1>16

-----------------------------------------------------------------------------
\* A row is added where there was none.
LEMMA AddedRows ==
  ASSUME NEW t, Tabled(t), FreeRows(t) # {}, NEW row
  PROVE  \E i \in RowIds : /\ t[i].state = "none" /\ AddRow(t, row)[i] = row
                           /\ \A r \in RowIds : r # i => AddRow(t, row)[r] = t[r]
<1> DEFINE S == FreeRows(t)
           i == Min(S)
<1>1. S \subseteq Nat /\ S \subseteq RowIds /\ \A r \in S : t[r].state = "none"
  BY BrowserIds DEF FreeRows, InState
<1>2. i \in S
  <2> HIDE DEF S
  <2>1. \E x \in S : \A y \in S : x <= y
    BY <1>1, LeastNumber DEF S
  <2> QED
    BY <2>1 DEF Min
<1>3. AddRow(t, row) = [t EXCEPT ![i] = row]
  BY DEF AddRow
<1> HIDE DEF S, i
<1> QED
  BY <1>1, <1>2, <1>3 DEF Tabled

LEMMA CreatedWindows ==
  ASSUME DeletedInv, OwnerInv, WindowInv, channel # <<>>, HandleCreated
  PROVE  WindowInv' /\ Forgets
<1> DEFINE w == Subject
           row == OpenRow(Parent(w), w, {})
           added == AddRow(rows, row)
           saved_ == SaveTabs(added, {w})
<1>0. /\ DOMAIN svc = SvcFields /\ DOMAIN history = HistoryFields
      /\ Tabled(rows) /\ Distinct(rows) /\ IsShown(shown) /\ svc.connected /\ link
  BY DEF DeletedInv, Shapes, OwnerInv, HandleCreated, Handles, Arrived
<1>1. Carries({}, {}) /\ w \in Told("created")
  <2>1. channel' = Tail(channel) /\ Head(channel).type = "created"
    BY DEF HandleCreated, Handles, Arrived
  <2> QED
    BY <1>0, <2>1, Handled DEF Subject
<1>2. /\ SameMemory /\ SameWorld /\ shown' = shown
      /\ history'.made = history.made \cup (Owned(rows') \cap Live)
      /\ history'.byHand = history.byHand /\ history'.ejected = history.ejected
      /\ history'.late = history.late /\ history'.strays = history.strays
  BY <1>0 DEF HandleCreated, SameMemory, SameWorld, worldVars, SvcFields, HistoryFields
<1>3. /\ \A r \in RowIds : rows[r].state # "none" => rows'[r].state = rows[r].state /\ rows'[r].window = rows[r].window
      /\ \A r \in OpenRows(rows)' :
           \/ r \in OpenRows(rows) /\ rows'[r] = rows[r]
           \/ rows'[r].window = w /\ (w \in Live \/ rows'[r].tabs = {})
           \/ r \in OpenRows(rows) /\ rows'[r].window = rows[r].window /\ rows[r].window \in Live
  <2>1. CASE rows' = rows
    BY <2>1
  <2>2. CASE rows' # rows
    <3>1. rows' = saved_
      BY <2>2 DEF HandleCreated, Adopted
    <3>2. FreeRows(rows) # {}
      BY DEF HandleCreated, Room
    <3>3. row.state = "open" /\ row.window = w /\ row.tabs = {} /\ Paged(row)
      <4>1. {} \in SUBSET AnyPage
        OBVIOUS
      <4>2. row.tabs = {}
        BY DEF OpenRow, NoRow
      <4> QED
        BY <4>1, <4>2, PagedRows
    <3> HIDE DEF row, w
    <3>4. PICK i \in RowIds : /\ rows[i].state = "none" /\ added[i] = row
                              /\ \A r \in RowIds : r # i => added[r] = rows[r]
      BY <1>0, <3>2, AddedRows
    <3>5. Tabled(added)
      <4>1. DOMAIN added = RowIds
        BY <1>0 DEF AddRow, Tabled
      <4> QED
        BY <1>0, <3>3, <3>4, <4>1 DEF Tabled
    <3> HIDE DEF added
    <3>6. \A r \in RowIds : /\ saved_[r].state = added[r].state /\ saved_[r].window = added[r].window
                            /\ saved_[r] = added[r] \/ added[r].window \in {w} \cap Live
      BY <1>0, <3>5, SavedRows
    <3> HIDE DEF saved_
    <3>7. \A r \in RowIds : rows[r].state # "none" => rows'[r].state = rows[r].state /\ rows'[r].window = rows[r].window
      BY <3>1, <3>4, <3>6
    <3>8. ASSUME NEW r \in OpenRows(rows)'
          PROVE  \/ r \in OpenRows(rows) /\ rows'[r] = rows[r]
                 \/ rows'[r].window = w /\ (w \in Live \/ rows'[r].tabs = {})
                 \/ r \in OpenRows(rows) /\ rows'[r].window = rows[r].window /\ rows[r].window \in Live
      <4>1. r \in RowIds /\ rows'[r].state = "open"
        BY <3>8 DEF OpenRows, InState
      <4>2. CASE r = i
        BY <3>1, <3>3, <3>4, <3>6, <4>1, <4>2
      <4>3. CASE r # i
        BY <3>1, <3>4, <3>6, <4>1, <4>3 DEF OpenRows, InState
      <4> QED
        BY <4>2, <4>3
    <3> QED
      BY <3>7, <3>8
  <2> QED
    BY <2>1, <2>2
<1> HIDE DEF w, row, added, saved_
<1>4. Owned(rows) \subseteq Owned(rows)' /\ Owned(rows)' \subseteq Owned(rows) \cup {w}
  <2>1. \A r \in OpenRows(rows) : r \in OpenRows(rows)' /\ rows'[r].window = rows[r].window
    BY <1>3 DEF OpenRows, InState
  <2>2. Owned(rows) \subseteq Owned(rows)'
    BY <2>1 DEF Owned
  <2>3. Owned(rows)' \subseteq Owned(rows) \cup {w}
    BY <1>3 DEF Owned
  <2> QED
    BY <2>2, <2>3
<1>5. Appearing({}, {})
  BY <1>1, <1>2 DEF Appearing, Live
<1>6. Live' = Live
  BY <1>5 DEF Appearing
<1>7. Turning({w})
  BY <1>0, <1>3, <1>4, <1>6 DEF Turning
<1>8. Recorded({}, {})
  BY <1>0, <1>2, <1>4, <1>6 DEF Recorded, LeftAlone, ClosedOutside
<1>9. Forgets
  BY <1>3 DEF Forgets
<1> QED
  BY <1>1, <1>2, <1>5, <1>7, <1>8, <1>9, MemoryKept, WindowKept

LEMMA EventWindows ==
  ASSUME DeletedInv, OwnerInv, WindowInv, channel # <<>>, HandleCreatedFails \/ HandleRemoved \/ HandleTabs
  PROVE  WindowInv' /\ Forgets
<1>1. /\ DOMAIN svc = SvcFields /\ svc.connected /\ link
      /\ Carries({}, {}) /\ Head(channel).window \in Told(Head(channel).type)
  BY Handled DEF DeletedInv, Shapes, HandleCreatedFails, HandleRemoved, HandleTabs, Handles, Arrived
<1>2. rows' = rows /\ Live' = Live /\ SameWorld /\ history' = history
  BY DEF HandleCreatedFails, HandleRemoved, HandleTabs, worldVars, SameWorld, Live
<1>3. SameRecord
  BY <1>2 DEF SameRecord
<1>4. CASE HandleCreatedFails \/ HandleTabs
  <2>1. SameMemory
    BY <1>1, <1>4 DEF HandleCreatedFails, HandleTabs, SameMemory, SvcFields
  <2> QED
    BY <1>1, <1>2, <1>3, <2>1, QuietStep
<1>5. CASE HandleRemoved
  <2>1. /\ svc'.connected = svc.connected /\ svc'.pendingClose = svc.pendingClose
        /\ svc'.removals \subseteq svc.removals \cup {Head(channel).window} /\ Head(channel).type = "removed"
    BY <1>1, <1>5 DEF HandleRemoved, Handles, Arrived, Subject, SvcFields
  <2>2. Keeping
    BY <1>1, <2>1 DEF Keeping, Awaiting
  <2>3. Turning({}) /\ Forgets /\ Owned(rows)' = Owned(rows)
    BY <1>2, SameRows
  <2>4. Appearing({}, {})
    BY <1>1, <1>2 DEF Appearing
  <2>5. Recorded({}, {})
    BY <1>3, <2>3 DEF Recorded, SameRecord, LeftAlone, ClosedOutside
  <2> QED
    BY <1>2, <2>2, <2>3, <2>4, <2>5, WindowKept
<1> QED
  BY <1>4, <1>5

\* Rows that only get the pages of a window that is there.
LEMMA PagesSaved ==
  ASSUME WindowInv, SameWorld, Live' = Live, Carries({}, {}), SameMemory, SameRecord,
         \A r \in RowIds : /\ rows'[r].state = rows[r].state /\ rows'[r].window = rows[r].window
                           /\ rows'[r] = rows[r] \/ rows[r].window \in Live
  PROVE  WindowInv' /\ Forgets
<1>1. OpenRows(rows)' = OpenRows(rows)
  BY DEF OpenRows, InState
<1>2. Owned(rows)' = Owned(rows)
  <2>1. \A r \in OpenRows(rows) : rows'[r].window = rows[r].window
    BY DEF OpenRows, InState
  <2>2. \A w : w \in Owned(rows)' <=> w \in Owned(rows)
    BY <1>1, <2>1 DEF Owned
  <2> QED
    BY <2>2
<1>3. Turning({})
  <2>1. \A r \in OpenRows(rows) : r \in RowIds
    BY DEF OpenRows, InState
  <2> QED
    BY <1>1, <1>2, <2>1 DEF Turning
<1>4. Appearing({}, {})
  BY DEF Appearing
<1>5. Recorded({}, {})
  BY <1>2 DEF Recorded, SameRecord, LeftAlone, ClosedOutside
<1>6. Forgets
  BY DEF Forgets
<1> QED
  BY <1>3, <1>4, <1>5, <1>6, MemoryKept, WindowKept

LEMMA FocusWindows ==
  ASSUME DeletedInv, OwnerInv, WindowInv, channel # <<>>, HandleFocus
  PROVE  WindowInv' /\ Forgets
<1> DEFINE w == Subject
           waits == UNION {rows[r].waiting : r \in RowsOf(rows, w)}
<1>0. /\ DOMAIN svc = SvcFields /\ \A r \in RowIds : Paged(rows[r])
      /\ IsShown(shown) /\ link
  BY DEF DeletedInv, Shapes, OwnerInv, Tabled, HandleFocus, Arrived
<1>1. PICK loaded \in SUBSET (IF w \in Live THEN waits ELSE {}) :
        LET pages == IF w \in Live THEN shown[w] \cup loaded ELSE {} IN
        /\ shown' = IF loaded = {} THEN shown ELSE [shown EXCEPT ![w] = pages]
        /\ channel' = Tail(channel) \o (IF loaded = {} THEN <<>> ELSE <<Event("tabs", w)>>)
        /\ rows' = [r \in RowIds |-> IF r \in RowsOf(rows, w) /\ waits # {}
                                     THEN Merged(rows[r], pages) ELSE rows[r]]
  BY DEF HandleFocus
<1> DEFINE pages == IF w \in Live THEN shown[w] \cup loaded ELSE {}
           events == IF loaded = {} THEN <<>> ELSE <<Event("tabs", w)>>
<1>2. SameWorld /\ SameRecord /\ SameMemory
  BY <1>0 DEF HandleFocus, worldVars, SameWorld, SameRecord, SameMemory, SvcFields
<1>3. Live' = Live
  BY <1>1 DEF Live
<1>4. Carries({}, {})
  <2>1. w \in WindowIds
    <3>1. Head(channel) \in Events
      BY <1>0, Handled
    <3> QED
      BY <3>1 DEF Events, Subject
  <2>2. Tells(events, {}, {})
    BY <2>1, EventFields, TellsOf
  <2>3. channel' = Tail(channel) \o events
    BY <1>1
  <2> HIDE DEF events
  <2> QED
    BY <1>0, <2>2, <2>3, Handled
<1>5. \A r \in RowIds : \/ rows'[r] = rows[r]
                        \/ rows[r].window = w /\ rows'[r] = Merged(rows[r], pages)
  BY <1>1 DEF RowsOf
<1>6. waits \subseteq AnyPage
  BY <1>0 DEF RowsOf, OpenRows, InState, Paged
<1>7. pages \in SUBSET AnyPage
  BY <1>0, <1>6 DEF IsShown, Live
<1>8. w \notin Live => pages = {}
  OBVIOUS
<1> HIDE DEF pages, w
<1>9. \A r \in RowIds : LET row == Merged(rows[r], pages) IN
                        row.state = rows[r].state /\ row.window = rows[r].window /\ (pages = {} => row = rows[r])
  <2> TAKE r \in RowIds
  <2>1. LET row == Merged(rows[r], pages) IN row.state = rows[r].state /\ row.window = rows[r].window
    BY <1>0, <1>7, PagedRows
  <2>2. pages = {} => Merged(rows[r], pages) = rows[r]
    BY DEF Merged
  <2> QED
    BY <2>1, <2>2
<1>10. \A r \in RowIds : /\ rows'[r].state = rows[r].state /\ rows'[r].window = rows[r].window
                         /\ rows'[r] = rows[r] \/ rows[r].window \in Live
  <2> TAKE r \in RowIds
  <2>1. CASE rows'[r] = rows[r]
    BY <2>1
  <2>2. CASE rows[r].window = w /\ rows'[r] = Merged(rows[r], pages)
    BY <1>8, <1>9, <2>2
  <2> QED
    BY <1>5, <2>1, <2>2
<1> QED
  BY <1>2, <1>3, <1>4, <1>10, PagesSaved

LEMMA TimerWindows ==
  ASSUME DeletedInv, OwnerInv, WindowInv, NEW w, SnapshotFires(w) \/ (w \in svc.removals /\ RemovalExpires(w))
  PROVE  WindowInv' /\ Forgets
<1>0. DOMAIN svc = SvcFields /\ Tabled(rows) /\ IsShown(shown)
  BY DEF DeletedInv, Shapes, OwnerInv
<1>1. SameWorld /\ SameRecord /\ Live' = Live /\ Carries({}, {})
  <2>1. UNCHANGED channel /\ UNCHANGED link
    BY DEF SnapshotFires, RemovalExpires, worldVars
  <2> QED
    BY <2>1, SameTells DEF SnapshotFires, RemovalExpires, worldVars, SameWorld, SameRecord, Live
<1>2. ASSUME SnapshotFires(w) PROVE WindowInv' /\ Forgets
  <2>1. SameMemory
    BY <1>0, <1>2 DEF SnapshotFires, SameMemory, SvcFields
  <2>2. CASE rows' = rows
    BY <1>1, <2>1, <2>2, QuietStep
  <2>3. CASE rows' = SaveTabs(rows, {w})
    <3>1. \A r \in RowIds : /\ rows'[r].state = rows[r].state /\ rows'[r].window = rows[r].window
                            /\ rows'[r] = rows[r] \/ rows[r].window \in Live
      BY <1>0, <2>3, SavedRows
    <3> QED
      BY <1>1, <2>1, <3>1, PagesSaved
  <2> QED
    BY <1>2, <2>2, <2>3 DEF SnapshotFires
<1>3. ASSUME w \in svc.removals, RemovalExpires(w) PROVE WindowInv' /\ Forgets
  <2>1. /\ svc'.connected = svc.connected /\ svc'.removals = svc.removals \ {w} /\ svc'.pendingClose = svc.pendingClose
        /\ running /\ ~newRun
        /\ rows' = rows \/ rows' = Delete(rows, RowsOf(rows, w))
    BY <1>0, <1>3 DEF RemovalExpires, SvcFields
  <2>2. \A r \in RowIds : \/ rows'[r] = rows[r]
                          \/ r \in OpenRows(rows) /\ rows[r].window = w /\ rows'[r] = NoRow
    BY <2>1 DEF Delete, RowsOf
  <2>3. w \notin Live
    BY <1>3 DEF WindowInv
  <2>4. Forgets
    <3> SUFFICES ASSUME NEW r \in RowIds, rows[r].state # "none", rows[r].tabs # {}, rows'[r].state = "none"
                 PROVE  rows[r].window \in history.byHand \cup history'.ejected \cup history.late
      BY DEF Forgets
    <3>1. r \in OpenRows(rows) /\ rows[r].window = w
      BY <2>2
    <3>2. rows[r].window \in Live \cup ClosedOutside
      BY <2>1, <3>1 DEF WindowInv
    <3> QED
      BY <2>3, <3>1, <3>2 DEF ClosedOutside
  <2>5. /\ \A r \in OpenRows(rows)' : r \in OpenRows(rows) /\ rows'[r] = rows[r]
        /\ \A r \in OpenRows(rows) : rows[r].window # w => r \in OpenRows(rows)' /\ rows'[r] = rows[r]
    BY <2>2 DEF OpenRows, InState, NoRow
  <2>6. Owned(rows)' \subseteq Owned(rows) /\ Owned(rows) \subseteq Owned(rows)' \cup {w}
    <3>1. Owned(rows)' \subseteq Owned(rows)
      BY <2>5 DEF Owned
    <3>2. Owned(rows) \subseteq Owned(rows)' \cup {w}
      BY <2>5 DEF Owned
    <3> QED
      BY <3>1, <3>2
  <2>7. Turning({})
    BY <2>5, <2>6 DEF Turning
  <2>8. Appearing({}, {})
    BY <1>1 DEF Appearing
  <2>9. Recorded({}, {})
    BY <1>1, <2>3, <2>6 DEF Recorded, SameRecord, LeftAlone, ClosedOutside
  <2>10. Keeping
    BY <2>1 DEF Keeping, Awaiting, WindowInv
  <2> QED
    BY <1>1, <2>4, <2>7, <2>8, <2>9, <2>10, WindowKept
<1> QED
  BY <1>2, <1>3

-----------------------------------------------------------------------------
\* Steps of the placement and of requests that change no row and no window.
LEMMA AnsweringWindows ==
  ASSUME DeletedInv, OwnerInv, WindowInv,
         PlaceFails \/ PlaceNothing \/ RequestFails \/ OpenFinds \/ FocusFinds \/ HoldFails
  PROVE  WindowInv' /\ Forgets
<1>1. DOMAIN svc = SvcFields
  BY DEF DeletedInv, Shapes
<1>2. rows' = rows /\ Live' = Live /\ SameWorld /\ SameRecord /\ UNCHANGED channel /\ UNCHANGED link
  BY DEF PlaceFails, PlaceNothing, RequestFails, OpenFinds, FocusFinds, HoldFails, worldVars, SameWorld, SameRecord, Live
<1>3. SameMemory
  <2>1. svc' \in {svc, Begun, Done(Begun), [Begun EXCEPT !.placed = 0, !.stale = FALSE]}
    BY DEF PlaceFails, PlaceNothing, RequestFails, OpenFinds, FocusFinds, HoldFails, Found
  <2>2. Remembering(svc) /\ Remembering(Begun) /\ Remembering(Done(Begun))
    BY <1>1, MemoryOf
  <2> DEFINE v == Begun
  <2> HIDE DEF v
  <2>3. Remembering(v) => Remembering([v EXCEPT !.placed = 0, !.stale = FALSE])
    BY DEF Remembering, SvcFields
  <2>4. Remembering(svc')
    BY <2>1, <2>2, <2>3 DEF v
  <2> QED
    BY <1>1, <2>4, MemoryOf
<1> QED
  BY <1>2, <1>3, SameTells, QuietStep

\* Steps that open the page in a window that is there.
LEMMA OpeningWindows ==
  ASSUME DeletedInv, OwnerInv, WindowInv, Finish \/ HoldOpens
  PROVE  WindowInv' /\ Forgets
<1>1. rows' = rows /\ SameWorld /\ SameRecord /\ SameMemory /\ UNCHANGED link
  BY DEF Finish, HoldOpens, worldVars, SameWorld, SameRecord, SameMemory
<1>2. \/ UNCHANGED <<shown, channel>>
      \/ \E w \in Live : Opens(w, request.page)
  BY DEF Finish, HoldOpens, Reaches
<1>3. ASSUME UNCHANGED <<shown, channel>> PROVE Live' = Live /\ Carries({}, {})
  BY <1>1, <1>3, SameTells DEF Live
<1>4. ASSUME NEW w \in Live, Opens(w, request.page) PROVE Live' = Live /\ Carries({}, {})
  <2> DEFINE events == <<Event("tabs", w)>> \o (IF request.focus THEN <<Event("focus", w)>> ELSE <<>>)
  <2>1. Emits(events) /\ Live' = Live
    BY <1>4 DEF Opens, Live
  <2>2. w \in WindowIds
    BY DEF OwnerInv, IsShown, Live
  <2>3. Tells(<<Event("tabs", w)>>, {}, {}) /\ Tells(<<Event("focus", w)>>, {}, {}) /\ Tells(<<>>, {}, {})
    BY <2>2, EventFields, TellsOf
  <2>4. Tells(events, {}, {})
    BY <2>3, TellsOf
  <2> HIDE DEF events
  <2> QED
    BY <2>1, <2>4, Emitted
<1> QED
  BY <1>1, <1>2, <1>3, <1>4, QuietStep

\* Windows appear; those in `owned` become a session's.
LEMMA AppearWindows ==
  ASSUME DeletedInv, OwnerInv, WindowInv, svc.connected, SameMemory, SameWorld,
         NEW new, NEW owned, NEW takes, NEW failures, Appear(new, owned, takes, failures),
         DOMAIN new \subseteq Unused, owned \subseteq DOMAIN new, takes \subseteq WindowIds,
         Owned(rows) \cup owned \subseteq Owned(rows)', Owned(rows)' \subseteq Owned(rows) \cup owned,
         \A r \in OpenRows(rows)' : rows'[r].window \in owned \/ (r \in OpenRows(rows) /\ rows'[r] = rows[r])
  PROVE  WindowInv'
<1> DEFINE ws == DOMAIN new
           events == SetToSeq({Event("created", w) : w \in ws}) \o SetToSeq({Event("focus", w) : w \in takes})
<1>1. /\ shown' = Together(new, shown) /\ Emits(events)
      /\ history' = [Anew(history, ws) EXCEPT !.made = @ \cup owned]
  BY DEF Appear
<1>2. Live' = Live \cup ws
  BY <1>1 DEF Together, Live
<1> HIDE DEF ws
<1>3. ws \subseteq Unused /\ ws \subseteq WindowIds /\ owned \subseteq ws
  BY UnusedIds DEF ws
<1>4. Carries(ws, {})
  <2>1. Tells(SetToSeq({Event("created", w) : w \in ws}), ws, {})
    BY <1>3, TellsOfAll
  <2>2. Tells(SetToSeq({Event("focus", w) : w \in takes}), ws, {})
    BY TellsOfAll
  <2>3. Tells(events, ws, {})
    BY <2>1, <2>2, TellsOf
  <2> HIDE DEF events
  <2> QED
    BY <1>1, <2>3, Emitted
<1>5. /\ history'.made = (history.made \ ws) \cup owned
      /\ history'.byHand = history.byHand \ ws /\ history'.ejected = history.ejected \ ws
      /\ history'.late = history.late \ ws /\ history'.strays = history.strays \ ws
  <2> DEFINE h == Anew(history, ws)
  <2>1. DOMAIN history = HistoryFields
    BY DEF DeletedInv, Shapes
  <2>2. /\ DOMAIN h = HistoryFields
        /\ h.made = history.made \ ws /\ h.byHand = history.byHand \ ws /\ h.ejected = history.ejected \ ws
        /\ h.late = history.late \ ws /\ h.strays = history.strays \ ws
    BY <2>1, AnewRecord
  <2>3. history' = [h EXCEPT !.made = @ \cup owned]
    BY <1>1
  <2> HIDE DEF h
  <2> QED
    BY <2>2, <2>3 DEF HistoryFields
<1>6. Appearing(ws, {})
  BY <1>2, <1>3, <1>4 DEF Appearing
<1>7. Turning(owned)
  <2>1. owned \subseteq Live'
    BY <1>2, <1>3
  <2> QED
    BY <2>1 DEF Turning
<1>8. Recorded(ws, {})
  BY <1>5 DEF Recorded, LeftAlone, ClosedOutside
<1> QED
  BY <1>3, <1>6, <1>7, <1>8, MemoryKept, WindowKept

\* In the table m the rows in `kept` came back with windows of f.
CameBack(m, f, kept) ==
  /\ \A r \in kept : r \in OpenRows(m) /\ m[r].window = f[r]
  /\ \A r \in OpenRows(rows) : r \in OpenRows(m) /\ m[r] = rows[r]
  /\ \A r \in OpenRows(m) : r \in kept \/ r \in OpenRows(rows)
  /\ \A r \in RowIds : rows[r].state # "none" /\ m[r].state = "none" => rows[r].tabs = {}
  /\ \A r \in RowIds : rows[r].state = "none" => m[r].state = "none"
  /\ {f[r] : r \in DOMAIN f} \subseteq Unused
  /\ DOMAIN Copies(f) = {f[r] : r \in DOMAIN f}

LEMMA ComingRows ==
  ASSUME OwnerInv, NEW s, NEW f \in Creations(Kept(s)), NEW kept, kept \subseteq DOMAIN f
  PROVE  CameBack(RestoredRows(s, f, kept), f, kept)
<1> DEFINE m == RestoredRows(s, f, kept)
           back(r) == Merged(Reopened(rows[r], f[r]), Content(r))
<1>1. \A r \in RowIds : m[r] = IF r \in kept THEN back(r)
                               ELSE IF r \in Restorable(rows, s) \ Kept(s) THEN NoRow ELSE rows[r]
  BY DEF RestoredRows
<1>2. DOMAIN f \subseteq Kept(s) /\ DOMAIN f \subseteq RowIds /\ \A r \in DOMAIN f : f[r] \in Unused
  <2>1. Kept(s) \subseteq RowIds
    BY DEF Kept, Restorable, InState
  <2> QED
    BY <2>1, CreationIds
<1>3. \A r \in RowIds : Paged(rows[r])
  BY DEF OwnerInv, Tabled
<1>4. \A r \in RowIds : back(r).state = "open" /\ back(r).window = f[r]
  <2> TAKE r \in RowIds
  <2> DEFINE row == Reopened(rows[r], f[r])
  <2>1. Paged(row) /\ row.state = "open" /\ row.window = f[r]
    BY <1>3, PagedRows
  <2>2. Content(r) \in SUBSET AnyPage
    BY <1>3 DEF Content, Paged
  <2> HIDE DEF row
  <2>3. LET new == Merged(row, Content(r)) IN new.state = row.state /\ new.window = row.window
    BY <2>1, <2>2, PagedRows
  <2> QED
    BY <2>1, <2>3 DEF row
<1> HIDE DEF m, back
<1>5. \A r \in kept : r \in OpenRows(m) /\ m[r].window = f[r]
  BY <1>1, <1>2, <1>4 DEF OpenRows, InState
<1>6. Kept(s) \subseteq Restorable(rows, s) /\ \A r \in Restorable(rows, s) : rows[r].state \in {"missing", "snapshotted"}
  BY DEF Kept, Restorable, InState
<1>7. \A r \in OpenRows(rows) : r \in OpenRows(m) /\ m[r] = rows[r]
  BY <1>1, <1>2, <1>6 DEF OpenRows, InState
<1>8. \A r \in OpenRows(m) : r \in kept \/ r \in OpenRows(rows)
  BY <1>1, PagedRows DEF OpenRows, InState
<1>9. \A r \in RowIds : rows[r].state # "none" /\ m[r].state = "none" => rows[r].tabs = {}
  BY <1>1, <1>4 DEF Kept, Content
<1>10. \A r \in RowIds : rows[r].state = "none" => m[r].state = "none"
  BY <1>1, <1>2, <1>6
<1>11. {f[r] : r \in DOMAIN f} \subseteq Unused /\ DOMAIN Copies(f) = {f[r] : r \in DOMAIN f}
  BY <1>2 DEF Copies
<1> QED
  BY <1>5, <1>7, <1>8, <1>9, <1>10, <1>11 DEF m, CameBack

LEMMA RestoringWindows ==
  ASSUME DeletedInv, OwnerInv, WindowInv, svc.connected, SameMemory, SameWorld,
         NEW s, NEW f \in Creations(Kept(s)), NEW kept, kept \subseteq DOMAIN f, Restored(s, f, kept)
  PROVE  WindowInv' /\ Forgets
<1> DEFINE owned == {f[r] : r \in kept}
           new == Copies(f)
<1>1. \E failures : Appear(new, owned, {}, failures)
  BY DEF Restored
<1>2. /\ \A r \in kept : r \in OpenRows(rows)' /\ rows'[r].window = f[r]
      /\ \A r \in OpenRows(rows) : r \in OpenRows(rows)' /\ rows'[r] = rows[r]
      /\ \A r \in OpenRows(rows)' : r \in kept \/ r \in OpenRows(rows)
      /\ \A r \in RowIds : rows[r].state # "none" /\ rows'[r].state = "none" => rows[r].tabs = {}
      /\ DOMAIN new \subseteq Unused /\ owned \subseteq DOMAIN new
  <2> DEFINE m == RestoredRows(s, f, kept)
  <2>1. rows' = m
    BY DEF Restored
  <2>2. CameBack(m, f, kept)
    BY ComingRows
  <2> HIDE DEF m, new
  <2> QED
    BY <2>1, <2>2 DEF CameBack, new
<1>3. Owned(rows) \cup owned \subseteq Owned(rows)' /\ Owned(rows)' \subseteq Owned(rows) \cup owned
  <2>1. \A w \in owned : w \in Owned(rows)'
    BY <1>2 DEF Owned
  <2>2. Owned(rows) \subseteq Owned(rows)'
    BY <1>2 DEF Owned
  <2>3. \A r \in OpenRows(rows)' : rows'[r].window \in Owned(rows) \cup owned
    BY <1>2 DEF Owned
  <2>4. Owned(rows)' \subseteq Owned(rows) \cup owned
    BY <2>3 DEF Owned
  <2> QED
    BY <2>1, <2>2, <2>4
<1>4. \A r \in OpenRows(rows)' : rows'[r].window \in owned \/ (r \in OpenRows(rows) /\ rows'[r] = rows[r])
  BY <1>2
<1> HIDE DEF owned, new
<1>5. WindowInv'
  BY <1>1, <1>2, <1>3, <1>4, AppearWindows
<1> QED
  BY <1>2, <1>5 DEF Forgets

LEMMA CreatingWindows ==
  ASSUME DeletedInv, OwnerInv, WindowInv, svc.connected, SameMemory, SameWorld, Room,
         NEW s, NEW pages \in SUBSET AnyPage, NEW focused, CreatedFor(s, pages, focused)
  PROVE  WindowInv' /\ Forgets
<1>1. PICK f \in Creations(Kept(s)) : \E outcome \in Outcomes :
        LET w   == NextUnused(Cardinality(DOMAIN f))
            new == IF outcome = "failed" THEN << >> ELSE Gives(<< >>, w, pages)
            own == IF outcome = "ok" THEN {w} ELSE {} IN
        /\ Cardinality(Unused) > Cardinality(DOMAIN f)
        /\ Appear(Together(new, Copies(f)), own, IF focused THEN DOMAIN new ELSE {},
                  Cardinality(Kept(s)) + (IF outcome = "ok" THEN 0 ELSE 1))
        /\ rows' = IF own # {} THEN AddRow(RestoredRows(s, f, {}), OpenRow(s, w, pages))
                   ELSE RestoredRows(s, f, {})
  BY DEF CreatedFor
<1> DEFINE w == NextUnused(Cardinality(DOMAIN f))
           t == RestoredRows(s, f, {})
           row == OpenRow(s, w, pages)
           one == Gives(<< >>, w, pages)
<1>2. w \in Unused /\ w \in WindowIds
  <2>1. Kept(s) \subseteq RowIds
    BY DEF Kept, Restorable, InState
  <2>2. Cardinality(DOMAIN f) \in Nat /\ Cardinality(Unused) \in Nat
    BY <2>1, CreationIds, UnusedIds
  <2>3. Cardinality(DOMAIN f) \in 0 .. Cardinality(Unused) - 1
    BY <1>1, <2>2
  <2> QED
    BY <2>3, UnusedIds
<1>3. PICK new, own, takes, failures :
        /\ Appear(Together(new, Copies(f)), own, takes, failures)
        /\ \/ new = one /\ own = {w} /\ rows' = AddRow(t, row)
           \/ new \in {one, << >>} /\ own = {} /\ rows' = t
        /\ takes \subseteq DOMAIN new
  BY <1>1
<1> HIDE DEF w
<1>4. /\ \A r \in OpenRows(rows) : r \in OpenRows(t) /\ t[r] = rows[r]
      /\ \A r \in OpenRows(t) : r \in OpenRows(rows)
      /\ \A r \in RowIds : rows[r].state # "none" /\ t[r].state = "none" => rows[r].tabs = {}
      /\ \A r \in RowIds : rows[r].state = "none" => t[r].state = "none"
      /\ DOMAIN Copies(f) \subseteq Unused
      /\ Tabled(t)
  <2>1. CameBack(t, f, {})
    BY ComingRows
  <2>2. Tabled(t)
    BY RestoredOwners
  <2> HIDE DEF t
  <2> QED
    BY <2>1, <2>2 DEF CameBack
<1> HIDE DEF t
<1>5. /\ DOMAIN Together(new, Copies(f)) \subseteq Unused
      /\ own \subseteq DOMAIN Together(new, Copies(f)) /\ takes \subseteq WindowIds
  <2>1. DOMAIN one = {w} /\ DOMAIN << >> = {}
    BY DEF Gives
  <2>2. DOMAIN Together(new, Copies(f)) = DOMAIN new \cup DOMAIN Copies(f)
    BY DEF Together
  <2> HIDE DEF one
  <2> QED
    BY <1>2, <1>3, <1>4, <2>1, <2>2
<1>6. /\ \A r \in OpenRows(rows) : r \in OpenRows(rows)' /\ rows'[r] = rows[r]
      /\ \A r \in OpenRows(rows)' : rows'[r].window \in own \/ (r \in OpenRows(rows) /\ rows'[r] = rows[r])
      /\ own \subseteq Owned(rows)'
      /\ \A r \in RowIds : rows[r].state # "none" /\ rows'[r].state = "none" => rows[r].tabs = {}
  <2>1. CASE own = {} /\ rows' = t
    BY <1>4, <2>1
  <2>2. CASE own = {w} /\ rows' = AddRow(t, row)
    <3>1. row.window = w /\ row.state = "open"
      BY PagedRows
    <3>2. FreeRows(t) # {}
      BY <1>4 DEF Room, FreeRows, InState
    <3> HIDE DEF row
    <3>3. PICK i \in RowIds : /\ t[i].state = "none" /\ AddRow(t, row)[i] = row
                              /\ \A r \in RowIds : r # i => AddRow(t, row)[r] = t[r]
      BY <1>4, <3>2, AddedRows
    <3>4. \A r \in OpenRows(rows) : r \in OpenRows(rows)' /\ rows'[r] = rows[r]
      BY <1>4, <2>2, <3>3 DEF OpenRows, InState
    <3>5. \A r \in OpenRows(rows)' : rows'[r].window = w \/ (r \in OpenRows(rows) /\ rows'[r] = rows[r])
      BY <1>4, <2>2, <3>1, <3>3 DEF OpenRows, InState
    <3>6. w \in Owned(rows)'
      BY <2>2, <3>1, <3>3 DEF Owned, OpenRows, InState
    <3>7. \A r \in RowIds : rows[r].state # "none" /\ rows'[r].state = "none" => rows[r].tabs = {}
      BY <1>4, <2>2, <3>1, <3>3
    <3> QED
      BY <2>2, <3>4, <3>5, <3>6, <3>7
  <2> QED
    BY <1>3, <2>1, <2>2
<1>7. Owned(rows) \cup own \subseteq Owned(rows)' /\ Owned(rows)' \subseteq Owned(rows) \cup own
  <2>1. Owned(rows) \subseteq Owned(rows)'
    BY <1>6 DEF Owned
  <2>2. Owned(rows)' \subseteq Owned(rows) \cup own
    BY <1>6 DEF Owned
  <2> QED
    BY <1>6, <2>1, <2>2
<1> DEFINE all == Together(new, Copies(f))
<1> HIDE DEF one, row
<1>8. WindowInv'
  <2>1. Appear(all, own, takes, failures)
    BY <1>3
  <2> HIDE DEF all
  <2> QED
    BY <2>1, <1>5, <1>6, <1>7, AppearWindows DEF all
<1> QED
  BY <1>6, <1>8 DEF Forgets

LEMMA PlacedWindows ==
  ASSUME DeletedInv, OwnerInv, WindowInv, PlaceRestores \/ PlaceFindsNone \/ PlaceCreates
  PROVE  WindowInv' /\ Forgets
<1>1. SameWorld /\ svc.connected
  <2>1. CASE PlaceRestores
    BY <2>1 DEF PlaceRestores, NeedsWindow, worldVars, SameWorld
  <2>2. CASE PlaceFindsNone
    BY <2>2 DEF PlaceFindsNone, NeedsWindow, worldVars, SameWorld
  <2>3. CASE PlaceCreates
    BY <2>3 DEF PlaceCreates, NeedsWindow, worldVars, SameWorld
  <2> QED
    BY <2>1, <2>2, <2>3
<1>2. SameMemory
  <2>1. DOMAIN svc = SvcFields
    BY DEF DeletedInv, Shapes
  <2> DEFINE v == Done(Begun)
  <2>2. svc' \in {v, [v EXCEPT !.swap = TRUE]}
    BY DEF PlaceRestores, PlaceFindsNone, PlaceCreates
  <2>3. Remembering(v)
    BY <2>1, MemoryOf
  <2> HIDE DEF v
  <2>4. Remembering([v EXCEPT !.swap = TRUE])
    BY <2>3 DEF Remembering, SvcFields
  <2>5. Remembering(svc')
    BY <2>2, <2>3, <2>4
  <2> QED
    BY <2>1, <2>5, MemoryOf
<1>3. ASSUME PlaceRestores \/ PlaceFindsNone PROVE WindowInv' /\ Forgets
  <2>1. PICK f \in Creations(Kept(svc.attached)) : \E kept \in SUBSET DOMAIN f : Restored(svc.attached, f, kept)
    BY <1>3 DEF PlaceRestores, PlaceFindsNone
  <2> QED
    BY <1>1, <1>2, <2>1, RestoringWindows
<1>4. ASSUME PlaceCreates PROVE WindowInv' /\ Forgets
  <2>1. CreatedFor(svc.attached, {}, FALSE) /\ Room /\ {} \in SUBSET AnyPage
    BY <1>4 DEF PlaceCreates
  <2> QED
    BY <1>1, <1>2, <2>1, CreatingWindows
<1> QED
  BY <1>3, <1>4

LEMMA OpenedWindows ==
  ASSUME DeletedInv, OwnerInv, WindowInv, OpenRestores \/ OpenCreates \/ OpenCreatesUnowned
  PROVE  WindowInv' /\ Forgets
<1>1. SameWorld /\ svc.connected /\ request.page \in AnyPage /\ DOMAIN svc = SvcFields
  BY DEF OpenRestores, OpenCreates, OpenCreatesUnowned, Locked, worldVars, SameWorld, OwnerInv, DeletedInv, Shapes
<1>2. SameMemory
  BY <1>1 DEF OpenRestores, OpenCreates, OpenCreatesUnowned, Found, Answers, SameMemory, SvcFields
<1>3. ASSUME OpenRestores PROVE WindowInv' /\ Forgets
  <2>1. PICK f \in Creations(Kept(request.session)) : \E kept \in SUBSET DOMAIN f : Restored(request.session, f, kept)
    BY <1>3 DEF OpenRestores
  <2> QED
    BY <1>1, <1>2, <2>1, RestoringWindows
<1>4. ASSUME OpenCreates PROVE WindowInv' /\ Forgets
  <2>1. CreatedFor(request.session, {request.page}, request.focus) /\ Room
    BY <1>4 DEF OpenCreates
  <2>2. {request.page} \in SUBSET AnyPage
    BY <1>1
  <2> QED
    BY <1>1, <1>2, <2>1, <2>2, CreatingWindows
<1>5. ASSUME OpenCreatesUnowned PROVE WindowInv' /\ Forgets
  <2> DEFINE w == NextUnused(0)
             one == Gives(<< >>, w, {request.page})
  <2>1. /\ Unused # {} /\ rows' = rows
        /\ \E new, failures : new \in {<< >>, one} /\ Appear(new, {}, DOMAIN new, failures)
    BY <1>5 DEF OpenCreatesUnowned
  <2>2. w \in Unused /\ w \in WindowIds
    BY <2>1, LeastUnused, UnusedIds
  <2>3. DOMAIN one = {w} /\ DOMAIN << >> = {}
    BY DEF Gives
  <2> HIDE DEF w, one
  <2>4. PICK new, failures : new \in {<< >>, one} /\ Appear(new, {}, DOMAIN new, failures)
    BY <2>1
  <2>5. DOMAIN new \subseteq Unused /\ DOMAIN new \subseteq WindowIds
    BY <2>2, <2>3, <2>4
  <2>6. Owned(rows)' = Owned(rows) /\ OpenRows(rows)' = OpenRows(rows) /\ Forgets
    BY <2>1, SameRows
  <2>7. WindowInv'
    <3>1. \A r \in OpenRows(rows)' : r \in OpenRows(rows) /\ rows'[r] = rows[r]
      BY <2>1, <2>6
    <3>2. {} \subseteq DOMAIN new /\ Owned(rows) \cup {} \subseteq Owned(rows)' /\ Owned(rows)' \subseteq Owned(rows) \cup {}
      BY <2>6
    <3> QED
      BY <1>1, <1>2, <2>4, <2>5, <3>1, <3>2, AppearWindows
  <2> QED
    BY <2>6, <2>7
<1> QED
  BY <1>3, <1>4, <1>5

LEMMA HoldingWindows ==
  ASSUME DeletedInv, OwnerInv, WindowInv, HoldWaits
  PROVE  WindowInv' /\ Forgets
<1> DEFINE row == [NoRow EXCEPT !.state = "snapshotted", !.session = request.session, !.waiting = {request.page}]
<1>1. Tabled(rows) /\ Live' = Live /\ SameWorld /\ SameRecord /\ SameMemory /\ Carries({}, {})
  <2>1. UNCHANGED channel /\ UNCHANGED link
    BY DEF HoldWaits, worldVars
  <2> QED
    BY <2>1, SameTells DEF HoldWaits, OwnerInv, worldVars, Live, SameWorld, SameRecord, SameMemory
<1>2. /\ \A r \in RowIds : rows[r].state # "none" => /\ rows'[r].state = rows[r].state
                                                     /\ rows'[r].window = rows[r].window
                                                     /\ rows'[r].tabs = rows[r].tabs
      /\ \A r \in RowIds : rows[r].state = "none" => rows'[r].state # "open"
  <2>1. CASE rows' = AddRow(rows, row)
    <3>1. FreeRows(rows) # {}
      BY DEF HoldWaits, Room
    <3>2. row.state = "snapshotted"
      BY DEF NoRow
    <3> HIDE DEF row
    <3>3. PICK i \in RowIds : /\ rows[i].state = "none" /\ AddRow(rows, row)[i] = row
                              /\ \A r \in RowIds : r # i => AddRow(rows, row)[r] = rows[r]
      BY <1>1, <3>1, AddedRows
    <3> QED
      BY <2>1, <3>2, <3>3
  <2>2. ASSUME NEW q \in RowIds,
               rows' = [rows EXCEPT ![q].waiting = IF request.page \in Content(q) THEN @ ELSE @ \cup {request.page}]
        PROVE  \A r \in RowIds : /\ rows'[r].state = rows[r].state
                                 /\ rows'[r].window = rows[r].window
                                 /\ rows'[r].tabs = rows[r].tabs
    BY <1>1, <2>2 DEF Tabled, Paged, RowFields
  <2>3. HoldTargets \subseteq RowIds
    BY DEF HoldTargets, OpenOf, OpenRows, Restorable, InState
  <2> HIDE DEF row
  <2> QED
    BY <2>1, <2>2, <2>3 DEF HoldWaits, row
<1>3. OpenRows(rows)' = OpenRows(rows)
  BY <1>2 DEF OpenRows, InState
<1>4. \A r \in OpenRows(rows) : rows'[r].window = rows[r].window /\ rows'[r].tabs = rows[r].tabs
  BY <1>2 DEF OpenRows, InState
<1>5. Owned(rows)' = Owned(rows)
  <2>1. \A w : w \in Owned(rows)' <=> w \in Owned(rows)
    BY <1>3, <1>4 DEF Owned
  <2> QED
    BY <2>1
<1>6. Turning({})
  BY <1>3, <1>4, <1>5 DEF Turning
<1>7. Appearing({}, {})
  BY <1>1 DEF Appearing
<1>8. Recorded({}, {})
  BY <1>1, <1>5 DEF Recorded, SameRecord, LeftAlone, ClosedOutside
<1>9. Forgets
  BY <1>2 DEF Forgets
<1> QED
  BY <1>1, <1>6, <1>7, <1>8, <1>9, MemoryKept, WindowKept

\* A page leaves window w for window v.
LEMMA MovedWindows ==
  ASSUME OwnerInv, WindowInv, NEW w \in Live, NEW v \in WindowIds, v # w, NEW page, Moved(w, v, page)
  PROVE  LET gone == IF w \in DOMAIN shown' THEN {} ELSE {w}
             new  == {v} \ Live IN
         Live' = (Live \ gone) \cup new /\ Carries(new, gone)
<1> DEFINE left == shown[w] \ {page}
           moved == IF left = {} THEN Without(shown, {w}) ELSE [shown EXCEPT ![w] = left]
           now == (IF v \in Live THEN shown[v] ELSE {}) \cup {page}
           gone == IF left = {} THEN {w} ELSE {}
           new == {v} \ Live
           a == IF v \in Live THEN <<>> ELSE <<Event("created", v)>>
           e == Event(IF left = {} THEN "removed" ELSE "tabs", w)
           b == <<e, Event("tabs", v)>>
<1>1. shown' = Gives(moved, v, now) /\ Emits(a \o b)
  BY DEF Moved
<1>2. DOMAIN moved = Live \ gone
  BY DEF Without, Live
<1>3. Live' = (Live \ gone) \cup {v}
  <2> HIDE DEF moved, now
  <2> QED
    BY <1>1, <1>2 DEF Gives, Live
<1>4. gone = IF w \in DOMAIN shown' THEN {} ELSE {w}
  BY <1>3 DEF Live
<1>5. w \in WindowIds
  BY DEF OwnerInv, IsShown, Live
<1>6. e \in Events /\ (e.type = "removed" => e.window \in gone) /\ e.type # "created"
  BY <1>5, EventFields
<1>7. Tells(<<e>>, new, gone) /\ Tells(<<Event("tabs", v)>>, new, gone) /\ Tells(a, new, gone)
  <2> HIDE DEF e, gone
  <2>1. Tells(<<e>>, new, gone)
    BY <1>6, TellsOf
  <2>2. Tells(<<Event("tabs", v)>>, new, gone)
    BY EventFields, TellsOf
  <2>3. Tells(a, new, gone)
    <3>1. CASE v \in Live
      BY <3>1, TellsOf
    <3>2. CASE v \notin Live
      <4>1. v \in new
        BY <3>2
      <4> DEFINE c == Event("created", v)
      <4>2. c \in Events /\ c.type = "created" /\ c.window = v
        BY EventFields
      <4>3. a = <<c>>
        BY <3>2
      <4> HIDE DEF c, new
      <4>4. Tells(<<c>>, new, gone)
        BY <4>1, <4>2, TellsOf
      <4> QED
        BY <4>3, <4>4
    <3> QED
      BY <3>1, <3>2
  <2> QED
    BY <2>1, <2>2, <2>3
<1> HIDE DEF a, e, gone, new
<1>8. Tells(a \o b, new, gone)
  <2>1. b = <<e>> \o <<Event("tabs", v)>>
    OBVIOUS
  <2>2. Tells(b, new, gone)
    BY <1>7, <2>1, TellsOf
  <2> HIDE DEF b
  <2> QED
    BY <1>7, <2>2, TellsOf
<1>9. Carries(new, gone)
  <2> DEFINE events == a \o b
  <2>1. Emits(events) /\ Tells(events, new, gone)
    BY <1>1, <1>8
  <2> HIDE DEF events
  <2> QED
    BY <2>1, Emitted
<1>10. Live' = (Live \ gone) \cup new
  BY <1>3 DEF new, gone
<1> QED
  BY <1>4, <1>9, <1>10 DEF new

LEMMA MovingWindows ==
  ASSUME DeletedInv, OwnerInv, WindowInv, MoveInto \/ MoveDetaches
  PROVE  WindowInv' /\ Forgets
<1> DEFINE w == request.window
           gone == IF w \in DOMAIN shown' THEN {} ELSE {w}
<1>0. /\ DOMAIN svc = SvcFields /\ DOMAIN history = HistoryFields /\ svc.connected /\ SameWorld
      /\ w \in Live /\ IsShown(shown) /\ Tabled(rows)
  <2>1. CASE MoveInto
    BY <2>1 DEF MoveInto, Locked, HasPage, worldVars, SameWorld, DeletedInv, Shapes, OwnerInv
  <2>2. CASE MoveDetaches
    BY <2>2 DEF MoveDetaches, Locked, HasPage, worldVars, SameWorld, DeletedInv, Shapes, OwnerInv
  <2> QED
    BY <2>1, <2>2
<1>1. ASSUME MoveInto PROVE WindowInv' /\ Forgets
  <2>1. PICK v \in Targets \ {w} : Moved(w, v, request.page)
    BY <1>1 DEF MoveInto
  <2>2. v \in Live /\ v \in WindowIds
    BY <1>0, TargetsShown DEF IsShown, Live
  <2>3. {v} \ Live = {}
    BY <2>2
  <2>4. Live' = (Live \ gone) \cup {} /\ Carries({}, gone)
    <3>1. Live' = (Live \ gone) \cup ({v} \ Live) /\ Carries({v} \ Live, gone)
      BY <1>0, <2>1, <2>2, MovedWindows
    <3> HIDE DEF gone
    <3> QED
      BY <2>3, <3>1
  <2>5. /\ history'.made = history.made /\ history'.byHand = history.byHand \cup gone
        /\ history'.ejected = history.ejected
        /\ history'.late = history.late /\ history'.strays = history.strays
    BY <1>0, <1>1 DEF MoveInto, HistoryFields
  <2>6. gone \subseteq Live
    BY <1>0
  <2> HIDE DEF gone
  <2>7. SameMemory /\ rows' = rows
    BY <1>1 DEF MoveInto, SameMemory
  <2>8. Turning({}) /\ Forgets /\ Owned(rows)' = Owned(rows)
    BY <2>7, SameRows
  <2>9. Appearing({}, gone)
    BY <2>4, <2>6 DEF Appearing
  <2>10. Recorded({}, gone)
    BY <2>5, <2>8 DEF Recorded, LeftAlone, ClosedOutside
  <2> QED
    BY <1>0, <2>7, <2>8, <2>9, <2>10, MemoryKept, WindowKept
<1>2. ASSUME MoveDetaches PROVE WindowInv' /\ Forgets
  <2> DEFINE v == NextUnused(0)
             row == OpenRow(request.session, v, {request.page})
  <2>1. PICK late \in BOOLEAN :
          LET own == IF late THEN {} ELSE {v} IN
          /\ Moved(w, v, request.page)
          /\ rows' = IF late THEN rows ELSE AddRow(rows, row)
          /\ svc' = IF late THEN svc ELSE [svc EXCEPT !.swap = TRUE]
          /\ history' = [Anew(history, {v}) EXCEPT !.made = @ \cup own,
                           !.byHand = IF w \in DOMAIN shown' THEN @ ELSE @ \cup {w}]
    BY <1>2 DEF MoveDetaches
  <2> DEFINE own == IF late THEN {} ELSE {v}
  <2>2. v \in Unused /\ v \in WindowIds /\ v \notin Live
    BY <1>2, LeastUnused, UnusedIds, UnusedAreNew DEF MoveDetaches
  <2>3. row.window = v /\ row.state = "open"
    <3>1. {request.page} \in SUBSET AnyPage
      BY DEF OwnerInv
    <3> QED
      BY <3>1, PagedRows
  <2>4. SameMemory
    BY <1>0, <2>1 DEF SameMemory, SvcFields
  <2> HIDE DEF v, row
  <2>5. Live' = (Live \ gone) \cup {v} /\ Carries({v}, gone)
    <3>1. {v} \ Live = {v} /\ v # w
      BY <1>0, <2>2
    <3> QED
      BY <1>0, <2>1, <2>2, <3>1, MovedWindows
  <2>6. /\ history'.made = (history.made \ {v}) \cup own
        /\ history'.byHand = (history.byHand \ {v}) \cup gone
        /\ history'.ejected = history.ejected \ {v}
        /\ history'.late = history.late \ {v} /\ history'.strays = history.strays \ {v}
    <3> DEFINE h == Anew(history, {v})
    <3>1. /\ DOMAIN h = HistoryFields
          /\ h.made = history.made \ {v} /\ h.byHand = history.byHand \ {v} /\ h.ejected = history.ejected \ {v}
          /\ h.late = history.late \ {v} /\ h.strays = history.strays \ {v}
      BY <1>0, AnewRecord
    <3>2. history' = [h EXCEPT !.made = @ \cup own, !.byHand = IF w \in DOMAIN shown' THEN @ ELSE @ \cup {w}]
      BY <2>1
    <3> HIDE DEF h, own
    <3> QED
      BY <3>1, <3>2 DEF HistoryFields
  <2>7. gone \subseteq Live
    BY <1>0
  <2> HIDE DEF gone
  <2>8. /\ \A r \in OpenRows(rows) : r \in OpenRows(rows)' /\ rows'[r] = rows[r]
        /\ \A r \in OpenRows(rows)' : rows'[r].window \in own \/ (r \in OpenRows(rows) /\ rows'[r] = rows[r])
        /\ own \subseteq Owned(rows)'
        /\ \A r \in RowIds : rows[r].state # "none" => rows'[r].state # "none"
    <3>1. CASE late
      <4>1. rows' = rows /\ own = {}
        BY <2>1, <3>1
      <4>2. OpenRows(rows)' = OpenRows(rows)
        BY <4>1, SameRows
      <4> QED
        BY <4>1, <4>2
    <3>2. CASE ~late
      <4>1. FreeRows(rows) # {} /\ rows' = AddRow(rows, row) /\ own = {v}
        BY <1>2, <2>1, <3>2 DEF MoveDetaches, Room
      <4>2. PICK i \in RowIds : /\ rows[i].state = "none" /\ rows'[i] = row
                                /\ \A r \in RowIds : r # i => rows'[r] = rows[r]
        BY <1>0, <4>1, AddedRows
      <4>3. \A r \in OpenRows(rows) : r \in OpenRows(rows)' /\ rows'[r] = rows[r]
        BY <4>2 DEF OpenRows, InState
      <4>4. \A r \in OpenRows(rows)' : rows'[r].window \in own \/ (r \in OpenRows(rows) /\ rows'[r] = rows[r])
        BY <2>3, <4>1, <4>2 DEF OpenRows, InState
      <4>5. v \in Owned(rows)'
        BY <2>3, <4>2 DEF Owned, OpenRows, InState
      <4>6. \A r \in RowIds : rows[r].state # "none" => rows'[r].state # "none"
        BY <4>2
      <4> QED
        BY <4>1, <4>3, <4>4, <4>5, <4>6
    <3> QED
      BY <3>1, <3>2
  <2>9. Owned(rows) \subseteq Owned(rows)' /\ Owned(rows)' \subseteq Owned(rows) \cup own
    <3>1. Owned(rows) \subseteq Owned(rows)'
      BY <2>8 DEF Owned
    <3>2. Owned(rows)' \subseteq Owned(rows) \cup own
      BY <2>8 DEF Owned
    <3> QED
      BY <3>1, <3>2
  <2>10. own \subseteq {v}
    OBVIOUS
  <2> HIDE DEF own
  <2>11. Appearing({v}, gone)
    BY <2>2, <2>5, <2>7 DEF Appearing
  <2>12. Turning(own)
    <3>1. own \subseteq Live'
      BY <2>5, <2>10
    <3> QED
      BY <1>0, <2>8, <2>9, <3>1 DEF Turning
  <2>13. Recorded({v}, gone)
    <3>1. gone \cap {v} = {}
      BY <2>2, <2>7
    <3> QED
      BY <1>0, <2>6, <2>8, <2>9, <3>1 DEF Recorded, LeftAlone, ClosedOutside
  <2>14. Forgets
    BY <2>8 DEF Forgets
  <2> QED
    BY <1>0, <2>4, <2>10, <2>11, <2>12, <2>13, <2>14, MemoryKept, WindowKept
<1> QED
  BY <1>1, <1>2

-----------------------------------------------------------------------------
\* A deletion that waits or is under way is of a deleted session.
LEMMA EndsKept ==
  ASSUME EndsInv, deleted \subseteq deleted', svc'.op \in {svc.op, NoOp}, svc'.queue = svc.queue
  PROVE  EndsInv'
<1>1. ~NoOp.deleted
  BY DEF NoOp
<1> QED
  BY <1>1 DEF EndsInv

LEMMA EndsQueued ==
  ASSUME DeletedInv, EndsInv, NEW e \in EndType, deleted \subseteq deleted', e.deleted => e.session \in deleted',
         svc' = [svc EXCEPT !.queue = Append(@, e)]
  PROVE  EndsInv'
<1> DEFINE q == Append(svc.queue, e)
<1>1. svc'.op = svc.op /\ svc'.queue = q
  BY DEF DeletedInv, Shapes, SvcFields
<1>2. \A i \in DOMAIN q : q[i] = e \/ \E j \in DOMAIN svc.queue : q[i] = svc.queue[j]
  BY DEF DeletedInv, Shapes
<1> HIDE DEF q
<1> QED
  BY <1>1, <1>2 DEF EndsInv

LEMMA EndsOfSessions ==
  ASSUME DeletedInv, EndsInv, SessionEvents \/ Asking
  PROVE  EndsInv'
<1>1. ASSUME NEW s, SwitchTo(s) PROVE EndsInv'
  BY <1>1, AttachedShape, EndsKept DEF SwitchTo
<1>2. ASSUME NEW s \in Sessions, SessionArchived(s) PROVE EndsInv'
  <2> DEFINE e == [session |-> s, deleted |-> FALSE]
  <2>1. e \in EndType /\ ~e.deleted /\ svc' = [svc EXCEPT !.queue = Append(@, e)] /\ deleted' = deleted
    BY <1>2 DEF SessionArchived, EndType
  <2> HIDE DEF e
  <2> QED
    BY <2>1, EndsQueued
<1>3. ASSUME NEW s \in Sessions, SessionDeleted(s) PROVE EndsInv'
  <2> DEFINE e == [session |-> s, deleted |-> TRUE]
  <2>1. /\ e \in EndType /\ e.session = s /\ svc' = [svc EXCEPT !.queue = Append(@, e)]
        /\ deleted' = deleted \cup {s}
    BY <1>3 DEF SessionDeleted, EndType
  <2> HIDE DEF e
  <2> QED
    BY <2>1, EndsQueued
<1>4. ASSUME Asking PROVE EndsInv'
  <2>1. deleted' = deleted
    BY <1>4 DEF Asking, OpenAsked, FocusAsked, MoveAsked, Eject, sessionVars
  <2>2. svc'.op = svc.op /\ svc'.queue = svc.queue
    <3>1. ASSUME NEW s, NEW p, NEW activate, OpenAsked(s, p, activate)
          PROVE  svc'.op = svc.op /\ svc'.queue = svc.queue
      <4>1. \E t : svc' \in {svc, Attached(t), Claimed(t)}
        BY <3>1 DEF OpenAsked
      <4> QED
        BY <4>1, AttachedShape
    <3>2. ASSUME NEW w, NEW p, FocusAsked(w, p)
          PROVE  svc'.op = svc.op /\ svc'.queue = svc.queue
      <4>1. \E t : svc' \in {svc, Attached(t), Claimed(t)}
        BY <3>2 DEF FocusAsked
      <4> QED
        BY <4>1, AttachedShape
    <3>3. ASSUME NEW w, NEW p, NEW s, MoveAsked(w, p, s)
          PROVE  svc'.op = svc.op /\ svc'.queue = svc.queue
      BY <3>3 DEF MoveAsked
    <3>4. ASSUME NEW w, Eject(w)
          PROVE  svc'.op = svc.op /\ svc'.queue = svc.queue
      BY <3>4 DEF Eject, DeletedInv, Shapes, SvcFields
    <3> QED
      BY <1>4, <3>1, <3>2, <3>3, <3>4 DEF Asking
  <2> QED
    BY <2>1, <2>2, EndsKept
<1> QED
  BY <1>1, <1>2, <1>3, <1>4 DEF SessionEvents

LEMMA EndsOfLoops ==
  ASSUME DeletedInv, EndsInv, Loops
  PROVE  EndsInv'
<1>1. CASE TakeOp
  <2> DEFINE next == Head(svc.queue)
             taken == IF next.deleted \/ client # next.session THEN next ELSE NoOp
  <2>1. svc.queue \in Seq(EndType) /\ svc.queue # <<>>
    BY <1>1 DEF DeletedInv, Shapes, TakeOp
  <2>2. /\ \E j \in DOMAIN svc.queue : next = svc.queue[j]
        /\ \A i \in DOMAIN Tail(svc.queue) : \E j \in DOMAIN svc.queue : Tail(svc.queue)[i] = svc.queue[j]
    <3>1. 1 \in DOMAIN svc.queue /\ next = svc.queue[1]
      BY <2>1
    <3>2. \A i \in DOMAIN Tail(svc.queue) : i + 1 \in DOMAIN svc.queue /\ Tail(svc.queue)[i] = svc.queue[i + 1]
      BY <2>1
    <3> QED
      BY <3>1, <3>2
  <2>3. svc' = [svc EXCEPT !.queue = Tail(@), !.op = taken] /\ deleted' = deleted
    BY <1>1 DEF TakeOp, sessionVars
  <2>4. taken \in {next, NoOp} /\ ~NoOp.deleted
    BY DEF NoOp
  <2> HIDE DEF taken, next
  <2>5. svc'.op = taken /\ svc'.queue = Tail(svc.queue)
    BY <2>3 DEF DeletedInv, Shapes, SvcFields
  <2> QED
    BY <2>2, <2>3, <2>4, <2>5 DEF EndsInv
<1>2. CASE EndFails \/ ArchiveLive \/ ArchiveOffline \/ DeleteLive \/ DeleteOffline
  <2> DEFINE s == Op.session
  <2>1. deleted' = deleted
    BY <1>2 DEF EndFails, ArchiveLive, ArchiveOffline, DeleteLive, DeleteOffline, sessionVars
  <2>2. \/ svc' = Ended(Released(svc, s))
        \/ \E asked, closed : svc' = Ended(Closes(Released(svc, s), asked, closed))
        \/ \E v, pending : v = Released(svc, s) /\ svc' = Ended([v EXCEPT !.pendingClose = pending])
    <3>1. CASE EndFails
      BY <3>1 DEF EndFails
    <3>2. CASE ArchiveLive
      BY <3>2 DEF ArchiveLive
    <3>3. CASE ArchiveOffline
      BY <3>3 DEF ArchiveOffline
    <3>4. CASE DeleteLive
      BY <3>4 DEF DeleteLive
    <3>5. CASE DeleteOffline
      BY <3>5 DEF DeleteOffline
    <3> QED
      BY <1>2, <3>1, <3>2, <3>3, <3>4, <3>5
  <2>3. Settled(svc', s)
    BY <2>2, SettledShapes
  <2> QED
    BY <2>1, <2>3, EndsKept DEF Settled
<1>3. CASE PlaceFails \/ PlaceNothing \/ PlaceRestores \/ PlaceFindsNone \/ PlaceCreates
  <2>1. deleted' = deleted
    BY <1>3 DEF PlaceFails, PlaceNothing, PlaceRestores, PlaceFindsNone, PlaceCreates, sessionVars
  <2>2. Remains(svc')
    BY <1>3, RemainingShapes DEF PlaceFails, PlaceNothing, PlaceRestores, PlaceFindsNone, PlaceCreates
  <2> QED
    BY <2>1, <2>2, EndsKept DEF Remains
<1> QED
  BY <1>1, <1>2, <1>3 DEF Loops

LEMMA EndsOfEvents ==
  ASSUME DeletedInv, EndsInv, EventsAndTimers
  PROVE  EndsInv'
<1>1. CASE HandleConnected
  <2> DEFINE windows == {p.window : p \in Pending} \cap Live
  <2>1. PICK failed : svc' = [Closes(Joined(svc), windows, windows \ failed) EXCEPT
                                !.pendingClose = {}, !.unowned = {}, !.last = focus, !.prev = 0,
                                !.attached = IF @ = 0 THEN client ELSE @]
    BY <1>1 DEF HandleConnected
  <2>2. deleted' = deleted
    BY <1>1 DEF HandleConnected, sessionVars
  <2> HIDE DEF windows
  <2>3. svc'.op = svc.op /\ svc'.queue = svc.queue
    BY <2>1, JoinedShape DEF Closes, SvcFields
  <2> QED
    BY <2>2, <2>3, EndsKept
<1>2. CASE HandleConnectedFails
  BY <1>2, JoinedShape, EndsKept DEF HandleConnectedFails, sessionVars
<1>3. CASE ~HandleConnected /\ ~HandleConnectedFails
  <2>1. deleted' = deleted
    BY <1>3 DEF EventsAndTimers, HandleDisconnected, HandleCreated, HandleCreatedFails, HandleRemoved, HandleTabs, HandleFocus,
                RemovalExpires, SnapshotFires, sessionVars
  <2>2. \/ svc' = svc
        \/ svc' = [svc EXCEPT !.connected = FALSE, !.removals = {}, !.snapshots = {}, !.closing = {}]
        \/ \E x, y : svc' = [svc EXCEPT !.unowned = x, !.swap = y]
        \/ \E x, y, z : svc' = [svc EXCEPT !.snapshots = x, !.closing = y, !.removals = z]
        \/ \E x : svc' = [svc EXCEPT !.snapshots = x]
        \/ \E x, y : svc' = [svc EXCEPT !.prev = x, !.last = y]
        \/ \E x : svc' = [svc EXCEPT !.removals = x]
        \/ \E x : svc' = [svc EXCEPT !.snapshots = x, !.swap = TRUE]
    <3>1. CASE HandleDisconnected
      BY <3>1 DEF HandleDisconnected
    <3>2. CASE HandleCreated \/ HandleCreatedFails
      BY <3>2 DEF HandleCreated, HandleCreatedFails
    <3>3. CASE HandleRemoved
      BY <3>3 DEF HandleRemoved
    <3>4. CASE HandleTabs
      BY <3>4 DEF HandleTabs
    <3>5. CASE HandleFocus
      BY <3>5 DEF HandleFocus
    <3>6. ASSUME NEW w, RemovalExpires(w) PROVE \E x : svc' = [svc EXCEPT !.removals = x]
      BY <3>6 DEF RemovalExpires
    <3>7. ASSUME NEW w, SnapshotFires(w) PROVE \E x : svc' = [svc EXCEPT !.snapshots = x, !.swap = TRUE]
      BY <3>7 DEF SnapshotFires
    <3> QED
      BY <1>3, <3>1, <3>2, <3>3, <3>4, <3>5, <3>6, <3>7 DEF EventsAndTimers
  <2>3. svc'.op = svc.op /\ svc'.queue = svc.queue
    BY <2>2 DEF DeletedInv, Shapes, SvcFields
  <2> QED
    BY <2>1, <2>3, EndsKept
<1> QED
  BY <1>1, <1>2, <1>3

LEMMA EndsOfRequests ==
  ASSUME DeletedInv, EndsInv, Requests
  PROVE  EndsInv'
<1>1. deleted' = deleted
  BY DEF Requests, RequestFails, OpenFinds, OpenRestores, OpenCreates, OpenCreatesUnowned, Finish, HoldOpens, HoldFails,
         HoldWaits, FocusFinds, MoveInto, MoveDetaches, sessionVars
<1>2. \/ svc' \in {svc, [svc EXCEPT !.swap = TRUE], [svc EXCEPT !.swap = TRUE, !.stale = TRUE]}
      \/ \E w : svc' = [svc EXCEPT !.unowned = @ \cup {w}]
  <2>1. CASE RequestFails \/ OpenFinds \/ Finish \/ HoldOpens \/ HoldFails \/ HoldWaits \/ FocusFinds \/ MoveInto
    BY <2>1 DEF RequestFails, OpenFinds, Finish, HoldOpens, HoldFails, HoldWaits, FocusFinds, MoveInto, Found
  <2>2. CASE OpenRestores
    BY <2>2 DEF OpenRestores, Found
  <2>3. CASE OpenCreates
    BY <2>3 DEF OpenCreates, Answers
  <2>4. CASE OpenCreatesUnowned
    BY <2>4 DEF OpenCreatesUnowned, Answers
  <2>5. CASE MoveDetaches
    BY <2>5 DEF MoveDetaches
  <2> QED
    BY <2>1, <2>2, <2>3, <2>4, <2>5 DEF Requests
<1>3. Remains(svc')
  BY <1>2, RemainingShapes
<1> QED
  BY <1>1, <1>3, EndsKept DEF Remains

LEMMA EndsStay ==
  ASSUME DeletedInv, EndsInv, [BrowserNext]_browserVars
  PROVE  EndsInv'
<1>1. CASE Windows \/ Browser \/ BrowserQuits \/ LinkBreaks
  <2>1. UNCHANGED <<svc, deleted>>
    BY <1>1 DEF Windows, Browser, BrowserQuits, BrowserStarts, LinkBreaks, LinkComes, UserOpens, UserCloses, UserFocuses,
                UserBrowses, sessionVars
  <2> QED
    BY <2>1, EndsKept
<1>2. CASE DaemonRestarts
  <2>1. svc'.op = NoOp /\ svc'.queue = <<>> /\ ~NoOp.deleted
    BY <1>2 DEF DaemonRestarts, FreshService, NoOp
  <2> QED
    BY <2>1 DEF EndsInv
<1>3. CASE UNCHANGED browserVars
  BY <1>3, EndsKept DEF browserVars
<1> QED
  BY <1>1, <1>2, <1>3, EndsOfSessions, EndsOfLoops, EndsOfEvents, EndsOfRequests DEF BrowserNext, Environment

-----------------------------------------------------------------------------
\* The invariant of the windows begins and stays, and no step forgets pages for another reason.
TraceInv == DeletedInv /\ OwnerInv /\ WindowInv /\ EndsInv

LEMMA TraceBegins == BrowserInit => TraceInv
<1> SUFFICES ASSUME BrowserInit PROVE TraceInv
  OBVIOUS
<1>1. DeletedInv /\ OwnerInv
  BY DeletedInit, OwnerBegins
<1>2. /\ svc.connected = FALSE /\ svc.removals = {} /\ svc.pendingClose = {} /\ svc.op = NoOp /\ svc.queue = <<>>
      /\ history.made = {} /\ channel = <<>> /\ ~newRun
  BY DEF BrowserInit, FreshService, NoHistory
<1>3. EndsInv
  BY <1>2 DEF EndsInv, NoOp
<1>4. \A r \in OpenRows(rows) : rows[r].window \in Live
  <2> DEFINE none == [r \in RowIds |-> NoRow]
             w == Min(WindowIds)
             i == Min(RowIds)
  <2>1. CASE shown = << >> /\ rows = none
    BY <2>1 DEF OpenRows, InState, NoRow
  <2>2. ASSUME NEW s, NEW p, shown = Gives(<< >>, w, {p}), rows = [none EXCEPT ![i] = OpenRow(s, w, {p})]
        PROVE  \A r \in OpenRows(rows) : rows[r].window \in Live
    <3> DEFINE row == OpenRow(s, w, {p})
    <3>1. row.window = w
      BY DEF OpenRow, NoRow
    <3>2. rows = [none EXCEPT ![i] = row]
      BY <2>2
    <3>3. w \in Live
      BY <2>2 DEF Live, Gives
    <3> HIDE DEF row, w, i
    <3>4. \A r \in RowIds : rows[r] = row \/ rows[r] = NoRow
      BY <3>2
    <3> QED
      BY <3>1, <3>3, <3>4 DEF OpenRows, InState, NoRow
  <2> QED
    BY <2>1, <2>2 DEF BrowserInit
<1>5. Live \subseteq WindowIds
  BY <1>1 DEF OwnerInv, IsShown, Live
<1> QED
  BY <1>1, <1>2, <1>3, <1>4, <1>5 DEF TraceInv, WindowInv, Told, Awaiting, Owned

LEMMA TraceSteps ==
  ASSUME TraceInv, BrowserNext
  PROVE  WindowInv' /\ Forgets
<1>1. DeletedInv /\ OwnerInv /\ WindowInv /\ EndsInv
  BY DEF TraceInv
<1>2. CASE Windows \/ Browser \/ Environment
  BY <1>1, <1>2, UserWindows, OutsideWindows
<1>3. CASE SessionEvents \/ Asking
  BY <1>1, <1>3, SessionWindows, AskingWindows
<1>4. CASE Loops
  <2>1. CASE TakeOp \/ EndFails
    BY <1>1, <2>1, SessionWindows
  <2>2. CASE ArchiveLive
    BY <1>1, <2>2, ArchiveLiveWindows
  <2>3. CASE ArchiveOffline \/ DeleteOffline
    BY <1>1, <2>3, OfflineWindows
  <2>4. CASE DeleteLive
    BY <1>1, <2>4, DeleteLiveWindows
  <2>5. CASE PlaceFails \/ PlaceNothing
    BY <1>1, <2>5, AnsweringWindows
  <2>6. CASE PlaceRestores \/ PlaceFindsNone \/ PlaceCreates
    BY <1>1, <2>6, PlacedWindows
  <2> QED
    BY <1>4, <2>1, <2>2, <2>3, <2>4, <2>5, <2>6 DEF Loops
<1>5. CASE EventsAndTimers
  <2>1. CASE HandleConnected
    BY <1>1, <2>1, ConnectedWindows
  <2>2. CASE HandleConnectedFails \/ HandleDisconnected
    BY <1>1, <2>2, UnconnectedWindows
  <2>3. CASE channel # <<>> /\ HandleCreated
    BY <1>1, <2>3, CreatedWindows
  <2>4. CASE channel # <<>> /\ (HandleCreatedFails \/ HandleRemoved \/ HandleTabs)
    BY <1>1, <2>4, EventWindows
  <2>5. CASE channel # <<>> /\ HandleFocus
    BY <1>1, <2>5, FocusWindows
  <2>6. ASSUME NEW w, SnapshotFires(w) \/ (w \in svc.removals /\ RemovalExpires(w)) PROVE WindowInv' /\ Forgets
    BY <1>1, <2>6, TimerWindows
  <2> QED
    BY <1>5, <2>1, <2>2, <2>3, <2>4, <2>5, <2>6 DEF EventsAndTimers
<1>6. CASE Requests
  <2>1. CASE RequestFails \/ OpenFinds \/ FocusFinds \/ HoldFails
    BY <1>1, <2>1, AnsweringWindows
  <2>2. CASE Finish \/ HoldOpens
    BY <1>1, <2>2, OpeningWindows
  <2>3. CASE OpenRestores \/ OpenCreates \/ OpenCreatesUnowned
    BY <1>1, <2>3, OpenedWindows
  <2>4. CASE HoldWaits
    BY <1>1, <2>4, HoldingWindows
  <2>5. CASE MoveInto \/ MoveDetaches
    BY <1>1, <2>5, MovingWindows
  <2> QED
    BY <1>6, <2>1, <2>2, <2>3, <2>4, <2>5 DEF Requests
<1> QED
  BY <1>2, <1>3, <1>4, <1>5, <1>6 DEF BrowserNext

LEMMA TraceStays == TraceInv /\ [BrowserNext]_browserVars => TraceInv'
<1> SUFFICES ASSUME TraceInv, [BrowserNext]_browserVars PROVE TraceInv'
  OBVIOUS
<1>1. DeletedInv' /\ OwnerInv'
  BY DeletedNext, OwnerStays DEF TraceInv
<1>2. EndsInv'
  BY EndsStay DEF TraceInv
<1>3. WindowInv'
  <2>1. CASE BrowserNext
    BY <2>1, TraceSteps
  <2>2. CASE UNCHANGED browserVars
    <3>1. /\ rows' = rows /\ UNCHANGED channel /\ UNCHANGED link /\ Live' = Live /\ svc' = svc /\ history' = history
          /\ running' = running /\ newRun' = newRun
      BY <2>2 DEF browserVars, worldVars, Live
    <3>2. Carries({}, {})
      BY <3>1, SameTells DEF TraceInv
    <3> QED
      BY <3>1, <3>2, QuietStep DEF TraceInv, SameWorld, SameMemory, SameRecord
  <2> QED
    BY <2>1, <2>2
<1> QED
  BY <1>1, <1>2, <1>3 DEF TraceInv

\* No window that was a session's stays open without an owner through archives, deletions,
\* lost connections and restarts of the browser or the daemon (Archive, Delete, Connected,
\* resync and the timers in internal/browser/service.go): it is owned, or was ejected, or is
\* closed at the next connection, but for the closes that failed and the named cases, for any
\* sessions, rows, windows, pages and faults.
THEOREM NoWindowIsOrphaned == BrowserSpec => []NoOrphan
<1>1. TraceInv => NoOrphan
  BY DEF TraceInv, WindowInv, LeftAlone, Awaiting, NoOrphan
<1> QED
  BY TraceBegins, TraceStays, <1>1, PTL DEF BrowserSpec

\* The store forgets saved pages only because the user closed or ejected their window or
\* deleted their session (remove, Delete, Eject, resync and reattach in
\* internal/browser/service.go), whatever the browser, its connection and the daemon do and
\* in whatever order events, timers and requests come; but for a window whose close the
\* service believed to have failed.
THEOREM PagesAreKept == BrowserSpec => OnlyUserForgets
<1>1. TraceInv /\ [BrowserNext]_browserVars => [Forgets]_browserVars
  BY TraceSteps
<1> QED
  BY TraceBegins, TraceStays, <1>1, PTL DEF BrowserSpec, OnlyUserForgets, Forgets
=============================================================================
