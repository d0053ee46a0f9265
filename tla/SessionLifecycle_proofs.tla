----------------------- MODULE SessionLifecycle_proofs -----------------------
(***************************************************************************)
(* Proofs about SessionLifecycle for any sessions, names, callers and      *)
(* number of requests.                                                     *)
(*                                                                         *)
(* The types are proved variable by variable: what Save, Goto, Load and    *)
(* Return do to row and op are lemmas, and every action is one of them and *)
(* what it does to the multiplexer's records and to the disk.              *)
(***************************************************************************)
EXTENDS SessionLifecycle, TLAPS

RowSteps == Steps \ {"idle", "switching", "finding opened", "finding closed"}

\* A process that works on a row knows the id and the name of a session.
Bound(o) == o.at \in RowSteps => o.id \in Sessions /\ o.name = NameOf[o.id]

RowsOK   == row \in [Sessions -> RowType]
MuxOK    == record \in [Names -> RecordType] /\ terminals \subseteq Names /\ events \in Seq(EventType)
DiskOK   == roots \subseteq Names /\ unhealthy \subseteq Sessions
OpsOK    == op \in [Processes -> OpType] /\ \A p \in Processes : Bound(op[p])
CountsOK == requests \in 0 .. MaxRequests /\ stranded \subseteq Sessions

TypeInv == RowsOK /\ MuxOK /\ DiskOK /\ OpsOK /\ CountsOK

LEMMA TypeInvImplies == TypeInv => TypeOK
BY DEF TypeInv, TypeOK, RowsOK, MuxOK, DiskOK, OpsOK, CountsOK
-----------------------------------------------------------------------------
(***************************************************************************)
(* Rows.                                                                   *)
(***************************************************************************)
LEMMA Constructors ==
  /\ \A status \in {"none", "creating", "active", "inactive", "broken", "archived", "gone"},
        err \in {"none", "git", "other"}, attached \in BOOLEAN, linked \in BOOLEAN :
        Row(status, err, attached, linked) \in RowType
  /\ NoRow \in RowType
  /\ Gone \in RowType
BY DEF Row, NoRow, Gone, RowType

LEMMA RowFields ==
  ASSUME NEW r \in RowType
  PROVE  /\ r.status \in {"none", "creating", "active", "inactive", "broken", "archived", "gone"}
         /\ r.err \in {"none", "git", "other"}
         /\ r.attached \in BOOLEAN /\ r.linked \in BOOLEAN
BY DEF RowType

LEMMA ReconciledType ==
  ASSUME NEW r \in RowType, NEW healthy \in BOOLEAN, NEW alive \in BOOLEAN
  PROVE  Reconciled(r, healthy, alive) \in RowType
         /\ Reconciled(r, healthy, alive).linked = r.linked
BY DEF RowType, Reconciled

LEMMA HookedType ==
  ASSUME NEW r \in RowType, NEW step
  PROVE  Hooked(r, step) \in RowType
BY DEF RowType, Hooked

LEMMA SaveType ==
  ASSUME RowsOK, NEW s, NEW r \in RowType, Save(s, r)
  PROVE  RowsOK'
BY DEF RowsOK, Save

\* A process that is set to o.
LEMMA SetOp ==
  ASSUME OpsOK, NEW p \in Processes, NEW o \in OpType, Bound(o), op' = [op EXCEPT ![p] = o]
  PROVE  OpsOK'
BY DEF OpsOK

LEMMA OpFields ==
  ASSUME OpsOK, NEW p \in Processes
  PROVE  /\ op[p] \in OpType
         /\ op[p].at \in Steps /\ op[p].row \in RowType
         /\ op[p].at \in RowSteps =>
              op[p].id \in Sessions /\ op[p].name = NameOf[op[p].id] /\ op[p].name \in Names
BY ConstantsAssumption DEF OpsOK, Bound, OpType

LEMMA IdleType == Idle \in OpType /\ Bound(Idle)
BY Constructors DEF Idle, OpType, Steps, Bound, RowSteps

LEMMA ReturnType ==
  ASSUME OpsOK, NEW p \in Processes, Return(p)
  PROVE  OpsOK'
BY IdleType, SetOp DEF Return

LEMMA GotoType ==
  ASSUME OpsOK, NEW p \in Processes, NEW step \in Steps, op[p].at \in RowSteps, Goto(p, step)
  PROVE  OpsOK'
<1> DEFINE o == [op[p] EXCEPT !.at = step]
<1>1. o \in OpType /\ Bound(o)
  BY OpFields DEF OpType, Bound, RowSteps
<1>2. op' = [op EXCEPT ![p] = o]
  BY DEF Goto
<1> QED
  BY <1>1, <1>2, SetOp

\* The process keeps its session and goes on at step with row r.
LEMMA KeepType ==
  ASSUME OpsOK, NEW p \in Processes, NEW step \in Steps, NEW r \in RowType, op[p].at \in RowSteps,
         op' = [op EXCEPT ![p].at = step, ![p].row = r]
  PROVE  OpsOK'
<1> DEFINE o == [op[p] EXCEPT !.at = step, !.row = r]
<1>1. o \in OpType /\ Bound(o)
  BY OpFields DEF OpType, Bound, RowSteps
<1>2. op' = [op EXCEPT ![p] = o]
  BY DEF OpsOK
<1> QED
  BY <1>1, <1>2, SetOp

LEMMA LoadType ==
  ASSUME OpsOK, NEW p \in Processes, NEW step \in Steps, NEW s \in Sessions, NEW r \in RowType,
         Load(p, step, s, r)
  PROVE  OpsOK'
<1> DEFINE o == [at |-> step, id |-> s, name |-> NameOf[s], row |-> r, todo |-> {}]
<1>1. o \in OpType /\ Bound(o)
  BY ConstantsAssumption DEF OpType, Bound
<1> QED
  BY <1>1, SetOp DEF Load

LEMMA FindType ==
  ASSUME RowsOK, OpsOK, NEW p \in Processes, NEW n, NEW step \in Steps, Find(p, n, step)
  PROVE  OpsOK'
<1>1. CASE LinkedTo(n) = {}
  BY <1>1, ReturnType DEF Find
<1>2. CASE LinkedTo(n) # {}
  <2>1. PICK s \in LinkedTo(n) : Load(p, step, s, Hooked(row[s], step))
    BY <1>2 DEF Find
  <2>2. s \in Sessions /\ row[s] \in RowType
    BY DEF LinkedTo, RowsOK
  <2> QED
    BY <2>1, <2>2, HookedType, LoadType
<1> QED
  BY <1>1, <1>2
-----------------------------------------------------------------------------
(***************************************************************************)
(* The multiplexer service and the bookkeeping.                            *)
(***************************************************************************)
LEMMA EventTypes ==
  /\ \A n \in Names : Event("created", n) \in EventType /\ Event("closed", n) \in EventType
  /\ Event("resync", None) \in EventType
BY DEF Event, EventType

LEMMA OpenType ==
  ASSUME MuxOK, NEW n \in Names, NEW env \in Sessions \cup {None}, Open(n, env)
  PROVE  MuxOK'
BY EventTypes DEF MuxOK, Open, RecordType

LEMMA KillType ==
  ASSUME MuxOK, NEW n \in Names, Kill(n)
  PROVE  MuxOK'
<1>1. record' \in [Names -> RecordType]
  BY DEF Kill, MuxOK, RecordType
<1>2. Event("closed", n) \in EventType
  BY EventTypes
<1>3. terminals' \subseteq Names /\ events' \in Seq(EventType)
  BY <1>2 DEF Kill, MuxOK, mux
<1> QED
  BY <1>1, <1>3 DEF MuxOK

LEMMA RequestType ==
  ASSUME CountsOK, Request, stranded' = stranded
  PROVE  CountsOK'
BY ConstantsAssumption DEF CountsOK, Request

LEMMA WriteBackType ==
  ASSUME RowsOK, CountsOK, NEW s \in Sessions, NEW r \in RowType, WriteBack(s, r), requests' = requests
  PROVE  RowsOK' /\ CountsOK'
BY SaveType DEF WriteBack, CountsOK

LEMMA Unchanged ==
  /\ RowsOK /\ row' = row => RowsOK'
  /\ MuxOK /\ UNCHANGED mux => MuxOK'
  /\ DiskOK /\ UNCHANGED disk => DiskOK'
  /\ OpsOK /\ op' = op => OpsOK'
  /\ CountsOK /\ requests' = requests /\ stranded' = stranded => CountsOK'
BY DEF RowsOK, MuxOK, mux, DiskOK, disk, OpsOK, CountsOK
-----------------------------------------------------------------------------
(***************************************************************************)
(* Every action keeps the types.                                           *)
(***************************************************************************)
LEMMA CreateTypes ==
  ASSUME TypeInv, NEW c \in Callers, Create(c)
  PROVE  TypeInv'
<1> USE DEF TypeInv
<1>p. c \in Processes
  BY DEF Processes
<1>s. op[c].at \in {"adding", "registering", "linking"} =>
        op[c].at \in RowSteps /\ op[c].id \in Sessions /\ NameOf[op[c].id] \in Names
  BY <1>p, OpFields, ConstantsAssumption DEF RowSteps, Steps
<1>r. \A linked \in BOOLEAN : Row("creating", "none", FALSE, linked) \in RowType
  BY Constructors
<1>1. CASE CreateAdd(c)
  <2>1. RowsOK'
    BY <1>1, <1>r DEF CreateAdd, RowsOK
  <2>2. OpsOK'
    BY <1>1, <1>p, <1>s, GotoType DEF CreateAdd, Steps
  <2> QED
    BY <1>1, <2>1, <2>2, Unchanged DEF CreateAdd
<1>2. CASE CreateFails(c)
  <2>1. RowsOK'
    BY <1>2, Constructors DEF CreateFails, RowsOK
  <2> QED
    BY <1>2, <1>p, <2>1, ReturnType, Unchanged DEF CreateFails
<1>3. CASE CreateRegister(c)
  <2>1. MuxOK'
    BY <1>3, <1>s DEF CreateRegister, MuxOK, RecordType
  <2>2. OpsOK'
    BY <1>3, <1>p, <1>s, GotoType DEF CreateRegister, Steps
  <2> QED
    BY <1>3, <2>1, <2>2, Unchanged DEF CreateRegister
<1>4. CASE CreateLink(c)
  <2>1. RowsOK'
    BY <1>4, <1>r, SaveType DEF CreateLink
  <2>2. OpsOK'
    BY <1>4, <1>p, <1>s, GotoType, ReturnType DEF CreateLink, Steps
  <2>3. CountsOK'
    BY <1>4, <1>s DEF CreateLink, CountsOK
  <2> QED
    BY <1>4, <2>1, <2>2, <2>3, Unchanged DEF CreateLink
<1> QED
  BY <1>1, <1>2, <1>3, <1>4 DEF Create

LEMMA SetupTypes ==
  ASSUME TypeInv, NEW c \in Callers, Setup(c) \/ RepairWrite(c)
  PROVE  TypeInv'
<1> USE DEF TypeInv
<1>p. c \in Processes
  BY DEF Processes
<1>s. op[c].at \in {"starting", "running", "ending", "repairing"} =>
        op[c].at \in RowSteps /\ op[c].id \in Sessions /\ NameOf[op[c].id] \in Names
  BY <1>p, OpFields, ConstantsAssumption DEF RowSteps, Steps
<1>c. op[c].row \in RowType
  BY <1>p, OpFields
<1>1. CASE SetupLoad(c)
  <2>1. op[c].id \in Sessions /\ row[op[c].id] \in RowType
    BY <1>1, <1>s DEF SetupLoad, RowsOK
  <2>2. OpsOK'
    BY <1>1, <1>p, <2>1, LoadType, ReturnType DEF SetupLoad, Steps
  <2> QED
    BY <1>1, <2>2, Unchanged DEF SetupLoad
<1>2. CASE SetupMux(c)
  <2> DEFINE n == NameOf[op[c].id]
             l == op[c].row.linked \/ n \notin terminals \/ record[n] # NoRecord
  <2>1. record[n].env \in Sessions \cup {None}
    BY <1>2, <1>s DEF SetupMux, MuxOK, RecordType
  <2>2. MuxOK'
    BY <1>2, <1>s, <2>1, OpenType, Unchanged DEF SetupMux
  <2>3. DiskOK'
    BY <1>2, <1>s DEF SetupMux, DiskOK
  <2>4. l \in BOOLEAN /\ [op[c].row EXCEPT !.linked = l] \in RowType
    <3>1. l \in BOOLEAN
      BY <1>c DEF RowType
    <3> HIDE DEF l
    <3> QED
      BY <3>1, <1>c DEF RowType
  <2>5. op' = [op EXCEPT ![c].at = "ending", ![c].row = [op[c].row EXCEPT !.linked = l]]
    <3>1. op' = [op EXCEPT ![c].at = "ending", ![c].row.linked = l]
      BY <1>2 DEF SetupMux, Copy
    <3> HIDE DEF l
    <3> QED
      BY <3>1, <1>p, <1>c DEF OpsOK, OpType, RowType
  <2> HIDE DEF l
  <2>6. OpsOK'
    BY <1>2, <1>p, <1>s, <2>4, <2>5, KeepType DEF SetupMux, Steps
  <2> QED
    BY <1>2, <2>2, <2>3, <2>6, Unchanged DEF SetupMux
<1>3. ASSUME NEW err \in {"none", "other"}, SetupEnd(c, err)
      PROVE  TypeInv'
  <2>1. [op[c].row EXCEPT !.status = "active", !.err = err] \in RowType
    BY <1>c DEF RowType
  <2> QED
    BY <1>3, <1>p, <2>1, SaveType, ReturnType, Unchanged DEF SetupEnd, Copy
<1>4. CASE SetupFails(c)
  <2>1. [op[c].row EXCEPT !.status = "broken", !.err = "other"] \in RowType
    BY <1>c DEF RowType
  <2> QED
    BY <1>4, <1>p, <2>1, SaveType, ReturnType, Unchanged DEF SetupFails, Copy
<1>5. CASE RepairWrite(c)
  <2>1. RowsOK'
    BY <1>5, <1>c, SaveType DEF RepairWrite, Copy
  <2>2. OpsOK'
    BY <1>5, <1>p, <1>s, GotoType, ReturnType DEF RepairWrite, Steps
  <2>3. CountsOK'
    BY <1>5, <1>s DEF RepairWrite, CountsOK
  <2> QED
    BY <1>5, <2>1, <2>2, <2>3, Unchanged DEF RepairWrite
<1> QED
  BY <1>1, <1>2, <1>3, <1>4, <1>5 DEF Setup

LEMMA ActivateTypes ==
  ASSUME TypeInv, NEW c \in Callers, Activate(c)
  PROVE  TypeInv'
<1> USE DEF TypeInv
<1>p. c \in Processes
  BY DEF Processes
<1>s. op[c].at \in {"activating", "clearing", "attaching"} =>
        op[c].at \in RowSteps /\ op[c].id \in Sessions /\ op[c].name \in Names
  BY <1>p, OpFields DEF RowSteps, Steps
<1>c. op[c].row \in RowType
  BY <1>p, OpFields
<1>1. CASE ActivateMux(c)
  <2> DEFINE r == IF op[c].name \in terminals THEN Copy(c) ELSE Revived(Copy(c))
  <2>1. [r EXCEPT !.attached = TRUE] \in RowType
    BY <1>c DEF Revived, RowType, Copy
  <2>2. MuxOK'
    BY <1>1, <1>s, OpenType, Unchanged DEF ActivateMux
  <2>3. OpsOK'
    <3>1. CASE r.attached
      BY <1>1, <3>1, <1>p, ReturnType DEF ActivateMux
    <3>2. CASE ~r.attached
      <4>1. op' = [op EXCEPT ![c].at = "clearing", ![c].row = [r EXCEPT !.attached = TRUE]]
        BY <1>1, <3>2 DEF ActivateMux
      <4> HIDE DEF r
      <4> QED
        BY <1>1, <1>p, <1>s, <2>1, <4>1, KeepType DEF ActivateMux, Steps
    <3> QED
      BY <3>1, <3>2
  <2> QED
    BY <1>1, <2>2, <2>3, Unchanged DEF ActivateMux
<1>2. CASE ActivateFails(c)
  BY <1>2, <1>p, ReturnType, Unchanged DEF ActivateFails
<1>3. CASE ActivateClear(c)
  <2>1. RowsOK'
    BY <1>3 DEF ActivateClear, RowsOK, RowType
  <2>2. OpsOK'
    BY <1>3, <1>p, <1>s, GotoType DEF ActivateClear, Steps
  <2> QED
    BY <1>3, <2>1, <2>2, Unchanged DEF ActivateClear
<1>4. CASE ActivateWrite(c)
  BY <1>4, <1>p, <1>c, SaveType, ReturnType, Unchanged DEF ActivateWrite, Copy
<1> QED
  BY <1>1, <1>2, <1>3, <1>4 DEF Activate

LEMMA RemoveTypes ==
  ASSUME TypeInv, NEW c \in Callers, Removal(c)
  PROVE  TypeInv'
<1> USE DEF TypeInv
<1>p. c \in Processes
  BY DEF Processes
<1>s. op[c].at \in {"archiving", "unlinking", "deleting", "removing", "dropping"} =>
        op[c].at \in RowSteps /\ op[c].name \in Names
  BY <1>p, OpFields DEF RowSteps, Steps
<1>c. op[c].row \in RowType
  BY <1>p, OpFields
<1>1. CASE ArchiveKill(c)
  <2>1. MuxOK'
    BY <1>1, <1>s, KillType, Unchanged DEF ArchiveKill
  <2>2. Row("archived", Copy(c).err, FALSE, FALSE) \in RowType
    BY <1>c, Constructors, RowFields DEF Copy
  <2>3. OpsOK'
    BY <1>1, <1>p, <1>s, <2>2, KeepType DEF ArchiveKill, Steps
  <2> QED
    BY <1>1, <2>1, <2>3, Unchanged DEF ArchiveKill
<1>2. CASE ArchiveWrite(c)
  BY <1>2, <1>p, <1>c, SaveType, ReturnType, Unchanged DEF ArchiveWrite, Copy
<1>3. CASE DeleteKill(c)
  <2>1. MuxOK'
    BY <1>3, <1>s, KillType, Unchanged DEF DeleteKill
  <2>2. OpsOK'
    BY <1>3, <1>p, <1>s, Constructors, KeepType DEF DeleteKill, Steps
  <2> QED
    BY <1>3, <2>1, <2>2, Unchanged DEF DeleteKill
<1>4. CASE DeleteRoot(c)
  <2>1. OpsOK'
    BY <1>4, <1>p, <1>s, GotoType DEF DeleteRoot, Steps
  <2>2. DiskOK'
    BY <1>4 DEF DeleteRoot, DiskOK
  <2> QED
    BY <1>4, <2>1, <2>2, Unchanged DEF DeleteRoot
<1>5. CASE HardDelete(c)
  <2>1. RowsOK'
    BY <1>5, Constructors DEF HardDelete, RowsOK
  <2> QED
    BY <1>5, <1>p, <2>1, ReturnType, Unchanged DEF HardDelete
<1> QED
  BY <1>1, <1>2, <1>3, <1>4, <1>5 DEF Removal

LEMMA ChangeTypes ==
  ASSUME TypeInv, NEW c \in Callers, Change(c)
  PROVE  TypeInv'
<1> USE DEF TypeInv
<1>p. c \in Processes
  BY DEF Processes
<1>1. CASE ChangedClear(c)
  <2>1. PICK entry \in op[c].todo :
          /\ WriteBack(entry.id, [entry.row EXCEPT !.attached = FALSE])
          /\ IF CanSave(entry.id, [entry.row EXCEPT !.attached = FALSE])
             THEN op' = [op EXCEPT ![c].todo = @ \ {entry}] ELSE Return(c)
    BY <1>1 DEF ChangedClear
  <2>2. entry.id \in Sessions /\ [entry.row EXCEPT !.attached = FALSE] \in RowType
    <3>1. op[c].todo \subseteq [id : Sessions, row : RowType]
      BY <1>p, OpFields DEF OpType
    <3>2. entry.id \in Sessions /\ entry.row \in RowType
      BY <3>1
    <3> QED
      BY <3>2 DEF RowType
  <2>3. RowsOK' /\ CountsOK'
    BY <1>1, <2>1, <2>2, WriteBackType DEF ChangedClear
  <2>4. ASSUME op' = [op EXCEPT ![c].todo = @ \ {entry}]
        PROVE  OpsOK'
    <3> DEFINE o == [op[c] EXCEPT !.todo = @ \ {entry}]
    <3>1. o \in OpType /\ Bound(o)
      BY <1>p, OpFields DEF OpType, Bound
    <3>2. op' = [op EXCEPT ![c] = o]
      BY <2>4 DEF OpsOK
    <3> QED
      BY <1>p, <3>1, <3>2, SetOp
  <2> QED
    BY <1>1, <1>p, <2>1, <2>3, <2>4, ReturnType, Unchanged DEF ChangedClear
<1>2. CASE ChangedFind(c)
  <2>1. OpsOK'
    BY <1>2, <1>p, FindType DEF ChangedFind, Steps
  <2> QED
    BY <1>2, <2>1, Unchanged DEF ChangedFind
<1> QED
  BY <1>1, <1>2 DEF Change

LEMMA HookTypes ==
  ASSUME TypeInv, NEW p \in Processes, HookWrite(p) \/ Reconcile(p)
  PROVE  TypeInv'
<1> USE DEF TypeInv
<1>s. op[p].at \in {"attached", "detached", "closed", "looking", "reconciling"} =>
        op[p].at \in RowSteps /\ op[p].id \in Sessions
  BY OpFields DEF RowSteps, Steps
<1>c. op[p].row \in RowType
  BY OpFields
<1>1. CASE HookWrite(p)
  <2>1. op[p].id \in Sessions
    BY <1>1, <1>s DEF HookWrite
  <2>2. RowsOK' /\ CountsOK'
    BY <1>1, <1>c, <2>1, WriteBackType DEF HookWrite, Copy
  <2> QED
    BY <1>1, <2>2, ReturnType, Unchanged DEF HookWrite
<1>2. CASE Look(p)
  <2> DEFINE r == Reconciled(Copy(p), op[p].id \notin unhealthy, Alive(op[p].id, Copy(p)))
  <2>1. Alive(op[p].id, Copy(p)) \in BOOLEAN
    BY <1>c, RowFields DEF Alive, Copy
  <2>2. r \in RowType
    BY <1>c, <2>1, ReconciledType DEF Copy
  <2> HIDE DEF r
  <2>3. Return(p) \/ op' = [op EXCEPT ![p].at = "reconciling", ![p].row = r]
    BY <1>2 DEF Look, r
  <2>4. OpsOK'
    BY <1>2, <1>s, <2>2, <2>3, ReturnType, KeepType DEF Look, Steps
  <2> QED
    BY <1>2, <2>4, Unchanged DEF Look
<1>3. CASE ReconcileWrite(p)
  <2>1. op[p].id \in Sessions
    BY <1>3, <1>s DEF ReconcileWrite
  <2>2. RowsOK' /\ CountsOK'
    BY <1>3, <1>c, <2>1, WriteBackType DEF ReconcileWrite, Copy
  <2> QED
    BY <1>3, <2>2, ReturnType, Unchanged DEF ReconcileWrite
<1> QED
  BY <1>1, <1>2, <1>3 DEF Reconcile

LEMMA EventHandlingTypes ==
  ASSUME TypeInv, HandleEvent \/ EventFind \/ Resync
  PROVE  TypeInv'
<1> USE DEF TypeInv
<1>p. Follower \in Processes
  BY DEF Processes
<1>1. CASE HandleEvent
  <2> DEFINE event == Head(events)
             hook  == IF event.type = "created" THEN "finding opened" ELSE "finding closed"
             o     == [Idle EXCEPT !.at = hook, !.name = event.name]
  <2>1. event \in EventType /\ Tail(events) \in Seq(EventType)
    BY <1>1 DEF HandleEvent, MuxOK
  <2>2. event.name \in Names
    BY <1>1, <2>1 DEF HandleEvent, EventType
  <2>3. MuxOK'
    BY <1>1, <2>1, <2>2 DEF HandleEvent, MuxOK, RecordType
  <2>4. o \in OpType /\ Bound(o)
    BY <2>2, Constructors DEF OpType, Bound, RowSteps, Steps, Idle
  <2>5. op' = [op EXCEPT ![Follower] = o] \/ op' = op
    BY <1>1 DEF HandleEvent
  <2> HIDE DEF o
  <2>6. OpsOK'
    BY <1>p, <2>4, <2>5, SetOp, Unchanged
  <2> QED
    BY <1>1, <2>3, <2>6, Unchanged DEF HandleEvent
<1>2. CASE EventFind
  <2>1. OpsOK'
    BY <1>2, <1>p, FindType DEF EventFind, Steps
  <2> QED
    BY <1>2, <2>1, Unchanged DEF EventFind
<1>3. CASE Resync
  <2>1. Tail(events) \in Seq(EventType)
    BY <1>3 DEF Resync, MuxOK
  <2>2. MuxOK'
    BY <1>3, <2>1 DEF Resync, MuxOK, RecordType
  <2> QED
    BY <1>3, <2>2, Unchanged DEF Resync
<1> QED
  BY <1>1, <1>2, <1>3

LEMMA RequestTypes ==
  ASSUME TypeInv, NEW c \in Callers, NEW s \in Sessions,
         \/ CreateCheck(c, s) \/ RepairLoad(c, s) \/ ActivateLoad(c, s) \/ ArchiveLoad(c, s)
         \/ \E force \in BOOLEAN : DeleteLoad(c, s, force)
  PROVE  TypeInv'
<1> USE DEF TypeInv
<1>p. c \in Processes /\ NameOf[s] \in Names /\ row[s] \in RowType
  BY ConstantsAssumption DEF Processes, RowsOK
<1>1. CASE CreateCheck(c, s)
  <2> DEFINE o == [Idle EXCEPT !.at = "adding", !.id = s, !.name = NameOf[s]]
  <2>1. o \in OpType /\ Bound(o)
    BY <1>p, Constructors DEF OpType, Bound, Steps, Idle
  <2>2. op' = [op EXCEPT ![c] = o]
    BY <1>1 DEF CreateCheck
  <2> HIDE DEF o
  <2>3. OpsOK'
    BY <1>p, <2>1, <2>2, SetOp
  <2>4. DiskOK' /\ CountsOK'
    BY <1>1, <1>p, RequestType DEF CreateCheck, Begin, DiskOK
  <2> QED
    BY <1>1, <2>3, <2>4, Unchanged DEF CreateCheck
<1>2. CASE RepairLoad(c, s)
  <2>1. [row[s] EXCEPT !.status = "creating", !.err = "none"] \in RowType
    BY <1>p DEF RowType
  <2>2. OpsOK'
    BY <1>2, <1>p, <2>1, LoadType DEF RepairLoad, Steps
  <2> QED
    BY <1>2, <2>2, RequestType, Unchanged DEF RepairLoad, Begin
<1>3. CASE ActivateLoad(c, s)
  <2>1. OpsOK'
    BY <1>3, <1>p, LoadType DEF ActivateLoad, Steps
  <2>2. DiskOK'
    BY <1>3, <1>p DEF ActivateLoad, DiskOK
  <2> QED
    BY <1>3, <2>1, <2>2, RequestType, Unchanged DEF ActivateLoad, Begin
<1>4. CASE ArchiveLoad(c, s)
  <2>1. OpsOK'
    BY <1>4, <1>p, LoadType DEF ArchiveLoad, Steps
  <2> QED
    BY <1>4, <2>1, RequestType, Unchanged DEF ArchiveLoad, Begin
<1>5. ASSUME NEW force \in BOOLEAN, DeleteLoad(c, s, force)
      PROVE  TypeInv'
  <2>1. OpsOK'
    BY <1>5, <1>p, LoadType DEF DeleteLoad, Steps
  <2> QED
    BY <1>5, <2>1, RequestType, Unchanged DEF DeleteLoad, Begin
<1> QED
  BY <1>1, <1>2, <1>3, <1>4, <1>5

LEMMA ClientTypes ==
  ASSUME TypeInv, NEW c \in Callers, NEW n \in Names,
         ClientHook(c, n, "attached") \/ ClientHook(c, n, "detached") \/ ClientChanged(c, n)
  PROVE  TypeInv'
<1> USE DEF TypeInv
<1>p. c \in Processes
  BY DEF Processes
<1>1. ASSUME NEW step \in {"attached", "detached"}, ClientHook(c, n, step)
      PROVE  TypeInv'
  <2>1. OpsOK'
    BY <1>1, <1>p, FindType DEF ClientHook, Steps
  <2> QED
    BY <1>1, <2>1, RequestType, Unchanged DEF ClientHook, Begin
<1>2. CASE ClientChanged(c, n)
  <2> DEFINE todo == {[id |-> s, row |-> row[s]] : s \in {t \in Sessions : row[t].attached}}
             o    == [Idle EXCEPT !.at = "switching", !.name = n, !.todo = todo]
  <2>1. todo \subseteq [id : Sessions, row : RowType]
    BY DEF RowsOK
  <2> HIDE DEF todo
  <2>2. o \in OpType /\ Bound(o)
    BY <2>1, Constructors DEF OpType, Bound, RowSteps, Steps, Idle
  <2>3. op' = [op EXCEPT ![c] = o]
    BY <1>2 DEF ClientChanged, todo
  <2> HIDE DEF o
  <2>4. OpsOK'
    BY <1>p, <2>2, <2>3, SetOp
  <2> QED
    BY <1>2, <2>4, RequestType, Unchanged DEF ClientChanged, Begin
<1> QED
  BY <1>1, <1>2

LEMMA OutsideTypes ==
  ASSUME TypeInv,
         \/ \E n \in Names : UserOpens(n) \/ UserCloses(n)
         \/ \E s \in Sessions : GitChanges(s)
         \/ EventsLost \/ Restart
  PROVE  TypeInv'
<1> USE DEF TypeInv
<1>1. ASSUME NEW n \in Names, UserOpens(n) \/ UserCloses(n)
      PROVE  TypeInv'
  <2>1. Event("created", n) \in EventType /\ Event("closed", n) \in EventType
    BY EventTypes
  <2>2. MuxOK'
    BY <1>1, <2>1 DEF UserOpens, UserCloses, MuxOK
  <2> QED
    BY <1>1, <2>2, RequestType, Unchanged DEF UserOpens, UserCloses
<1>2. ASSUME NEW s \in Sessions, GitChanges(s)
      PROVE  TypeInv'
  <2>1. DiskOK'
    BY <1>2 DEF GitChanges, DiskOK
  <2> QED
    BY <1>2, <2>1, RequestType, Unchanged DEF GitChanges
<1>3. <<Event("resync", None)>> \in Seq(EventType)
  BY EventTypes
<1>4. CASE EventsLost
  <2>1. MuxOK'
    BY <1>3, <1>4 DEF EventsLost, MuxOK
  <2> QED
    BY <1>4, <2>1, RequestType, Unchanged DEF EventsLost
<1>5. CASE Restart
  <2>1. ASSUME NEW s \in Sessions
        PROVE  Recovered(s) \in RowType
    <3> DEFINE r == IF row[s].status = "creating"
                    THEN [row[s] EXCEPT !.status = "broken", !.err = "other"] ELSE row[s]
    <3>1. r \in RowType
      BY DEF RowsOK, RowType
    <3>2. Alive(s, r) \in BOOLEAN
      BY <3>1, RowFields DEF Alive
    <3> HIDE DEF r
    <3>3. Reconciled(r, s \notin unhealthy, Alive(s, r)) \in RowType
      BY <3>1, <3>2, ReconciledType
    <3>4. Recovered(s) = IF Reconcilable(r) THEN Reconciled(r, s \notin unhealthy, Alive(s, r)) ELSE r
      BY DEF Recovered, r
    <3> QED
      BY <3>1, <3>3, <3>4
  <2>2. RowsOK'
    BY <1>5, <2>1 DEF Restart, RowsOK
  <2>3. MuxOK'
    BY <1>3, <1>5 DEF Restart, MuxOK
  <2>4. OpsOK'
    BY <1>5, IdleType DEF Restart, OpsOK
  <2>5. CountsOK'
    BY <1>5, ConstantsAssumption DEF Restart, Request, CountsOK
  <2> QED
    BY <1>5, <2>2, <2>3, <2>4, <2>5, Unchanged DEF Restart
<1> QED
  BY <1>1, <1>2, <1>4, <1>5

LEMMA TypeStep == TypeInv /\ [Next]_vars => TypeInv'
<1> SUFFICES ASSUME TypeInv, [Next]_vars
             PROVE  TypeInv'
  OBVIOUS
<1>1. CASE Environment
  BY <1>1, RequestTypes, ClientTypes, OutsideTypes DEF Environment
<1>2. ASSUME NEW c \in Callers, Serve(c) \/ HookWrite(c)
      PROVE  TypeInv'
  <2>1. c \in Processes
    BY DEF Processes
  <2> QED
    BY <1>2, <2>1, CreateTypes, SetupTypes, ActivateTypes, RemoveTypes, ChangeTypes, HookTypes DEF Serve
<1>3. ASSUME Follow \/ Reconcile(Job)
      PROVE  TypeInv'
  <2>1. Follower \in Processes /\ Job \in Processes
    BY DEF Processes
  <2> QED
    BY <1>3, <2>1, EventHandlingTypes, HookTypes DEF Follow
<1>4. ASSUME NEW s \in Sessions, JobVisit(s)
      PROVE  TypeInv'
  <2>1. Job \in Processes /\ row[s] \in RowType
    BY DEF Processes, TypeInv, RowsOK
  <2>2. OpsOK'
    BY <1>4, <2>1, LoadType DEF JobVisit, Steps, TypeInv
  <2> QED
    BY <1>4, <2>2, Unchanged DEF JobVisit, TypeInv
<1>5. CASE UNCHANGED vars
  BY <1>5, Unchanged DEF vars, TypeInv
<1> QED
  BY <1>1, <1>2, <1>3, <1>4, <1>5 DEF Next

LEMMA TypeInit == Init => TypeInv
<1> SUFFICES ASSUME Init
             PROVE  TypeInv
  OBVIOUS
<1>1. RowsOK
  BY Constructors DEF Init, RowsOK
<1>2. MuxOK
  BY DEF Init, MuxOK, NoRecord, RecordType
<1>3. OpsOK
  BY IdleType DEF Init, OpsOK
<1> QED
  BY <1>1, <1>2, <1>3, ConstantsAssumption DEF Init, TypeInv, DiskOK, CountsOK

\* Every variable keeps its type, whatever the sessions, names and callers.
THEOREM TypeCorrect == Spec => []TypeOK
<1>1. Spec => []TypeInv
  BY TypeInit, TypeStep, PTL DEF Spec
<1> QED
  BY <1>1, TypeInvImplies, PTL
-----------------------------------------------------------------------------
(***************************************************************************)
(* The rows that claim a mux record: the database refuses a second one, so *)
(* a step saves one row under CanSave, or links none that was not linked.  *)
(***************************************************************************)
OneRowPerRecord ==
  \A s, t \in Sessions :
    s # t /\ NameOf[s] = NameOf[t] => ~(row[s].linked /\ row[t].linked)

LEMMA SaveKeepsLinks ==
  ASSUME RowsOK, OneRowPerRecord, NEW s, NEW r \in RowType, Save(s, r)
  PROVE  OneRowPerRecord'
<1>1. CASE ~CanSave(s, r)
  BY <1>1 DEF Save, OneRowPerRecord
<1>2. ASSUME CanSave(s, r), NEW t \in Sessions, NEW u \in Sessions,
             t # u, NameOf[t] = NameOf[u], row'[t].linked, row'[u].linked
      PROVE  FALSE
  <2>1. row' = [row EXCEPT ![s] = r]
    BY <1>2 DEF Save
  <2>2. ASSUME NEW x \in Sessions, NEW y \in Sessions, x # y, x = s, NameOf[x] = NameOf[y],
               row'[x].linked, row'[y].linked
        PROVE  FALSE
    <3>1. r.linked /\ row[y].linked
      BY <2>1, <2>2 DEF RowsOK
    <3> QED
      BY <1>2, <2>2, <3>1 DEF CanSave, LinkedTo
  <2>3. t # s /\ u # s
    BY <1>2, <2>2
  <2> QED
    BY <1>2, <2>1, <2>3 DEF OneRowPerRecord, RowsOK
<1> QED
  BY <1>1, <1>2 DEF OneRowPerRecord

LEMMA UnlinkingKeepsLinks ==
  ASSUME OneRowPerRecord, \A s \in Sessions : row'[s].linked => row[s].linked
  PROVE  OneRowPerRecord'
BY DEF OneRowPerRecord

LEMMA RecoveredLinks ==
  ASSUME RowsOK, NEW s \in Sessions, Recovered(s).linked
  PROVE  row[s].linked
<1> DEFINE r == IF row[s].status = "creating"
                THEN [row[s] EXCEPT !.status = "broken", !.err = "other"] ELSE row[s]
<1>1. r \in RowType /\ r.linked = row[s].linked
  BY DEF RowsOK, RowType
<1>2. Alive(s, r) \in BOOLEAN
  BY <1>1, RowFields DEF Alive
<1>3. Recovered(s) = IF Reconcilable(r) THEN Reconciled(r, s \notin unhealthy, Alive(s, r)) ELSE r
  BY DEF Recovered
<1> HIDE DEF r
<1>4. Reconciled(r, s \notin unhealthy, Alive(s, r)).linked = r.linked
  BY <1>1, <1>2, ReconciledType
<1> QED
  BY <1>1, <1>3, <1>4

LEMMA ServeKeepsLinks ==
  ASSUME TypeInv, OneRowPerRecord, NEW c \in Callers, Serve(c)
  PROVE  OneRowPerRecord'
<1>c. c \in Processes /\ op[c].row \in RowType /\ RowsOK
  BY OpFields DEF Processes, TypeInv
<1>1. CASE Create(c)
  <2>1. CASE CreateAdd(c) \/ CreateFails(c)
    BY <1>c, <2>1, UnlinkingKeepsLinks DEF CreateAdd, CreateFails, RowsOK, Row, Gone
  <2>2. CASE CreateRegister(c)
    BY <2>2 DEF CreateRegister, OneRowPerRecord
  <2>3. CASE CreateLink(c)
    BY <1>c, <2>3, Constructors, SaveKeepsLinks DEF CreateLink
  <2> QED
    BY <1>1, <2>1, <2>2, <2>3 DEF Create
<1>2. CASE Setup(c)
  <2>1. CASE SetupLoad(c) \/ SetupMux(c)
    BY <2>1 DEF SetupLoad, SetupMux, OneRowPerRecord
  <2>2. CASE SetupFails(c)
    <3>1. [op[c].row EXCEPT !.status = "broken", !.err = "other"] \in RowType
      BY <1>c DEF RowType
    <3> QED
      BY <1>c, <2>2, <3>1, SaveKeepsLinks DEF SetupFails, Copy
  <2>3. ASSUME NEW err \in {"none", "other"}, SetupEnd(c, err)
        PROVE  OneRowPerRecord'
    <3>1. [op[c].row EXCEPT !.status = "active", !.err = err] \in RowType
      BY <1>c DEF RowType
    <3> QED
      BY <1>c, <2>3, <3>1, SaveKeepsLinks DEF SetupEnd, Copy
  <2> QED
    BY <1>2, <2>1, <2>2, <2>3 DEF Setup
<1>3. CASE RepairWrite(c) \/ ActivateWrite(c) \/ ArchiveWrite(c)
  BY <1>c, <1>3, SaveKeepsLinks DEF RepairWrite, ActivateWrite, ArchiveWrite, Copy
<1>4. CASE ActivateMux(c) \/ ActivateFails(c) \/ ArchiveKill(c) \/ DeleteKill(c) \/ DeleteRoot(c)
  BY <1>4 DEF ActivateMux, ActivateFails, ArchiveKill, DeleteKill, DeleteRoot, OneRowPerRecord
<1>5. CASE ActivateClear(c)
  BY <1>c, <1>5, UnlinkingKeepsLinks DEF ActivateClear, RowsOK, RowType
<1>6. CASE HardDelete(c)
  BY <1>c, <1>6, UnlinkingKeepsLinks DEF HardDelete, RowsOK, Row, Gone
<1>7. CASE ChangedClear(c)
  <2>1. PICK entry \in op[c].todo : WriteBack(entry.id, [entry.row EXCEPT !.attached = FALSE])
    BY <1>7 DEF ChangedClear
  <2>2. op[c].todo \subseteq [id : Sessions, row : RowType]
    BY <1>c, OpFields DEF OpType, TypeInv
  <2>3. entry.row \in RowType
    BY <2>1, <2>2
  <2>4. [entry.row EXCEPT !.attached = FALSE] \in RowType
    BY <2>3 DEF RowType
  <2> QED
    BY <1>c, <2>1, <2>4, SaveKeepsLinks DEF WriteBack
<1>8. CASE ChangedFind(c)
  BY <1>8 DEF ChangedFind, OneRowPerRecord
<1> QED
  BY <1>1, <1>2, <1>3, <1>4, <1>5, <1>6, <1>7, <1>8 DEF Serve, Activate, Removal, Change

LEMMA HooksKeepLinks ==
  ASSUME TypeInv, OneRowPerRecord, NEW p \in Processes, HookWrite(p) \/ Reconcile(p)
  PROVE  OneRowPerRecord'
<1>1. op[p].row \in RowType /\ RowsOK
  BY OpFields DEF TypeInv
<1>2. CASE HookWrite(p) \/ ReconcileWrite(p)
  BY <1>1, <1>2, SaveKeepsLinks DEF HookWrite, ReconcileWrite, WriteBack, Copy
<1>3. CASE Look(p)
  BY <1>3 DEF Look, OneRowPerRecord
<1> QED
  BY <1>2, <1>3 DEF Reconcile

LEMMA LinksStep == TypeInv /\ OneRowPerRecord /\ [Next]_vars => OneRowPerRecord'
<1> SUFFICES ASSUME TypeInv, OneRowPerRecord, [Next]_vars
             PROVE  OneRowPerRecord'
  OBVIOUS
<1>1. CASE Restart
  BY <1>1, RecoveredLinks, UnlinkingKeepsLinks DEF Restart, TypeInv
<1>2. CASE row' = row
  BY <1>2 DEF OneRowPerRecord
<1>3. ASSUME NEW c \in Callers, Serve(c) \/ HookWrite(c)
      PROVE  OneRowPerRecord'
  BY <1>3, ServeKeepsLinks, HooksKeepLinks DEF Processes
<1>4. CASE Follow \/ Reconcile(Job)
  <2>1. Follower \in Processes /\ Job \in Processes
    BY DEF Processes
  <2>2. HandleEvent \/ EventFind \/ Resync => row' = row
    BY DEF HandleEvent, EventFind, Resync
  <2> QED
    BY <1>2, <1>4, <2>1, <2>2, HooksKeepLinks DEF Follow
<1>5. Environment => row' = row \/ Restart
  BY DEF Environment, CreateCheck, RepairLoad, ActivateLoad, ArchiveLoad, DeleteLoad, ClientHook,
         ClientChanged, UserOpens, UserCloses, GitChanges, EventsLost
<1>6. (\E s \in Sessions : JobVisit(s)) \/ UNCHANGED vars => row' = row
  BY DEF JobVisit, vars
<1> QED
  BY <1>1, <1>2, <1>3, <1>4, <1>5, <1>6 DEF Next

-----------------------------------------------------------------------------
(***************************************************************************)
(* A row that is creating is in progress.                                  *)
(*                                                                         *)
(* Stale copies are what makes this hard: a copy that says creating must   *)
(* not be written back unnoticed.  A new row is known to its creator only, *)
(* until it is linked (Unborn, Newborn); a row that is creating and not    *)
(* linked is still its creator's (UnlinkedIsOwned); and so a copy that     *)
(* says creating was made of a linked row, or of a stranded one (CopyOK).  *)
(***************************************************************************)
NewSteps    == {"adding", "registering", "linking"}
DeleteSteps == {"deleting", "removing", "dropping"}

Good(r) == r.status \notin {"none", "gone"}

RowShape(s) == ~Stored(s) => ~row[s].linked /\ ~row[s].attached

Unborn(s) ==
  row[s] = NoRow =>
    \A p \in Processes :
      /\ op[p].id = s => op[p].at = "adding"
      /\ \A entry \in op[p].todo : entry.id # s

Creator(c, s) == op[c].id = s /\ op[c].at \in NewSteps

Newborn(s) ==
  \A c \in Callers : Creator(c, s) =>
    /\ op[c].at = "adding" => row[s] = NoRow
    /\ op[c].at # "adding" => row[s] \in {Row("creating", "none", FALSE, FALSE), Gone}
    /\ \A p \in Processes \ {c} : op[p].id = s => op[p].at \in DeleteSteps
    /\ \A p \in Processes : \A entry \in op[p].todo : entry.id # s

CopyOK(o) ==
  /\ o.at = "repairing" => o.row.status = "creating"
  /\ o.at \in {"activating", "clearing", "attaching"} => o.row.status \in {"active", "inactive", "archived"}
  /\ o.at = "unlinking" => o.row.status = "archived"
  /\ o.at = "reconciling" => Reconcilable(o.row)
  /\ o.at \in {"attached", "detached", "closed"} => o.row.linked /\ Good(o.row)

\* The rows that ClientChanged has listed.
Listed(o, names) ==
  \A entry \in o.todo :
    /\ Good(entry.row)
    /\ entry.row.status = "creating" /\ ~entry.row.linked => entry.id \in names

Unlinked(s) == row[s].status = "creating" /\ ~row[s].linked

UnlinkedIsOwned(s) ==
  Unlinked(s) /\ s \notin stranded =>
    \E c \in Callers : op[c].id = s /\ op[c].at \in {"registering", "linking"}

LifeInv ==
  /\ \A s \in Sessions : RowShape(s) /\ Unborn(s) /\ Newborn(s) /\ UnlinkedIsOwned(s)
  /\ \A p \in Processes : CopyOK(op[p]) /\ Listed(op[p], stranded)
  /\ \A p \in Processes \ Callers : op[p].at \notin NewSteps

IInv == TypeInv /\ OneRowPerRecord /\ LifeInv /\ CreatingIsInProgress

\* Row s is not there, or is still known to its creator only, which is not p.
NewTo(p, s) == row[s] = NoRow \/ \E c \in Callers \ {p} : Creator(c, s)

OnlyActs(p) == \A q \in Processes \ {p} : op'[q] = op[q]

\* What a step of p is, but for the first steps of CreateSession.
Ordinary(p) ==
  /\ OnlyActs(p)
  /\ op'[p].at \notin NewSteps
  /\ op'[p].id \in Sessions =>
       \/ ~NewTo(p, op'[p].id)
       \/ op'[p].at \in DeleteSteps /\ row[op'[p].id] # NoRow
  /\ \A entry \in op'[p].todo : ~NewTo(p, entry.id)

OrdinaryRows(p) ==
  \A s \in Sessions :
    \/ row'[s] = row[s]
    \/ row[s] # NoRow /\ row'[s] = Gone
    \/ ~NewTo(p, s) /\ Good(row'[s])

Stranding(p) ==
  /\ stranded \subseteq stranded'
  /\ CopyOK(op'[p]) /\ Listed(op'[p], stranded')

\* A row that is creating after the step was so before, and p does not leave
\* it without another one that works on it; or p works on it.
Progress(p) ==
  \A s \in Sessions : row'[s].status = "creating" /\ s \notin stranded' =>
    \/ Working(p, s)' /\ p \in Callers
    \/ /\ row[s].status = "creating"
       /\ Working(p, s) => \E c \in Callers \ {p} : Working(c, s)

Linking(p) ==
  \A s \in Sessions : Unlinked(s)' /\ s \notin stranded' =>
    Unlinked(s) /\ ~(op[p].id = s /\ op[p].at \in {"registering", "linking"})

Step(p) == Ordinary(p) /\ OrdinaryRows(p) /\ Stranding(p) /\ Progress(p) /\ Linking(p)

LEMMA OrdinaryStep ==
  ASSUME IInv, TypeInv', NEW p \in Processes, Step(p)
  PROVE  LifeInv' /\ CreatingIsInProgress'
<1> USE DEF IInv, Step
<1>1. \A s \in Sessions : RowShape(s)'
  BY DEF OrdinaryRows, RowShape, LifeInv, Good, Stored, Gone, Row
<1>2. \A s \in Sessions : row'[s] = NoRow => row[s] = NoRow
  BY DEF OrdinaryRows, Good, Gone, NoRow, Row
<1>3. \A s \in Sessions : Unborn(s)'
  BY <1>2 DEF Unborn, LifeInv, Ordinary, OnlyActs, NewTo
<1>4. ASSUME NEW s \in Sessions, NEW c \in Callers, Creator(c, s)'
      PROVE  /\ op'[c].at = "adding" => row'[s] = NoRow
             /\ op'[c].at # "adding" => row'[s] \in {Row("creating", "none", FALSE, FALSE), Gone}
             /\ \A q \in Processes \ {c} : op'[q].id = s => op'[q].at \in DeleteSteps
             /\ \A q \in Processes : \A entry \in op'[q].todo : entry.id # s
  <2>1. c # p /\ c \in Processes /\ op'[c] = op[c]
    BY <1>4 DEF Ordinary, OnlyActs, Creator, Processes
  <2>2. Creator(c, s) /\ NewTo(p, s) /\ Newborn(s)
    BY <1>4, <2>1 DEF Creator, NewTo, LifeInv
  <2>3. row'[s] = row[s] \/ (row[s] # NoRow /\ row'[s] = Gone)
    BY <2>2 DEF OrdinaryRows
  <2>4. op'[p].id = s => op'[p].at \in DeleteSteps
    BY <2>2 DEF Ordinary
  <2>5. \A entry \in op'[p].todo : entry.id # s
    BY <2>2 DEF Ordinary
  <2> QED
    BY <2>1, <2>2, <2>3, <2>4, <2>5 DEF Newborn, Ordinary, OnlyActs
<1>5. \A s \in Sessions : Newborn(s)'
  BY <1>4 DEF Newborn
<1>6. \A s \in Sessions : UnlinkedIsOwned(s)'
  BY DEF UnlinkedIsOwned, LifeInv, Linking, Stranding, Ordinary, OnlyActs, Processes
<1>7. \A q \in Processes : CopyOK(op[q])' /\ Listed(op[q], stranded)'
  BY DEF Stranding, LifeInv, Ordinary, OnlyActs, Listed, CopyOK, Reconcilable, Good
<1>8. \A q \in Processes \ Callers : op'[q].at \notin NewSteps
  BY DEF LifeInv, Ordinary, OnlyActs
<1>9. CreatingIsInProgress'
  BY DEF CreatingIsInProgress, InProgress, Progress, Stranding, Ordinary, OnlyActs, Working, Processes
<1> QED
  BY <1>1, <1>3, <1>5, <1>6, <1>7, <1>8, <1>9 DEF LifeInv

(***************************************************************************)
(* Which rows are not new to a process.                                    *)
(***************************************************************************)
LEMMA NotNew ==
  ASSUME LifeInv, NEW p \in Processes, NEW s \in Sessions, op[p].id = s,
         op[p].at \notin DeleteSteps \cup {"adding"}
  PROVE  ~NewTo(p, s)
BY DEF LifeInv, NewTo, Unborn, Newborn

LEMMA OldRow ==
  ASSUME LifeInv, NEW p \in Processes, NEW s \in Sessions, Stored(s),
         row[s] # Row("creating", "none", FALSE, FALSE)
  PROVE  ~NewTo(p, s)
<1>1. row[s] # NoRow /\ row[s] # Gone
  BY DEF Stored, NoRow, Gone, Row
<1> QED
  BY <1>1 DEF LifeInv, NewTo, Newborn

LEMMA OldStatus ==
  ASSUME LifeInv, NEW p \in Processes, NEW s \in Sessions,
         row[s].status \in {"active", "inactive", "broken", "archived"}
  PROVE  ~NewTo(p, s)
BY OldRow DEF Stored, Row

LEMMA OldFlags ==
  ASSUME LifeInv, NEW p \in Processes, NEW s \in Sessions, row[s].linked \/ row[s].attached
  PROVE  ~NewTo(p, s) /\ Good(row[s]) /\ Stored(s)
<1>1. Stored(s)
  BY DEF LifeInv, RowShape
<1>2. row[s] # Row("creating", "none", FALSE, FALSE)
  BY DEF Row
<1> QED
  BY <1>1, <1>2, OldRow DEF Good, Stored

LEMMA OldEntry ==
  ASSUME TypeInv, LifeInv, NEW p \in Processes, NEW entry \in op[p].todo
  PROVE  entry.id \in Sessions /\ entry.row \in RowType /\ ~NewTo(p, entry.id)
<1>1. op[p].todo \subseteq [id : Sessions, row : RowType]
  BY OpFields DEF TypeInv, OpType
<1>2. entry.id \in Sessions /\ entry.row \in RowType
  BY <1>1
<1> QED
  BY <1>2 DEF LifeInv, NewTo, Unborn, Newborn
-----------------------------------------------------------------------------
(***************************************************************************)
(* What the steps of a process make of op, row and stranded.               *)
(***************************************************************************)
LEMMA IdleFields ==
  /\ Idle.at = "idle" /\ Idle.id \notin Sessions /\ Idle.todo = {}
  /\ CopyOK(Idle) /\ \A names : Listed(Idle, names)
BY ConstantsAssumption DEF Idle, CopyOK, Listed

LEMMA ReturnStep ==
  ASSUME TypeInv, NEW p \in Processes, Return(p)
  PROVE  Ordinary(p) /\ CopyOK(op'[p]) /\ Listed(op'[p], stranded')
<1>1. op'[p] = Idle /\ OnlyActs(p)
  BY DEF Return, TypeInv, OpsOK, OnlyActs
<1> QED
  BY <1>1, IdleFields DEF Ordinary, NewSteps

LEMMA StayStep ==
  ASSUME TypeInv, LifeInv, NEW p \in Processes, OnlyActs(p), stranded \subseteq stranded',
         op[p].at # "adding", op'[p].id = op[p].id, op'[p].at \notin NewSteps,
         op[p].at \in DeleteSteps => op'[p].at \in DeleteSteps,
         op'[p].todo \subseteq op[p].todo
  PROVE  Ordinary(p) /\ Listed(op'[p], stranded')
<1>1. ASSUME op[p].id \in Sessions
      PROVE  \/ ~NewTo(p, op[p].id)
             \/ op'[p].at \in DeleteSteps /\ row[op[p].id] # NoRow
  <2>1. CASE op[p].at \in DeleteSteps
    BY <1>1, <2>1 DEF LifeInv, Unborn
  <2>2. CASE op[p].at \notin DeleteSteps
    BY <1>1, <2>2, NotNew
  <2> QED
    BY <2>1, <2>2
<1>2. \A entry \in op'[p].todo : ~NewTo(p, entry.id)
  BY OldEntry
<1>3. Listed(op'[p], stranded')
  BY DEF LifeInv, Listed
<1> QED
  BY <1>1, <1>2, <1>3 DEF Ordinary

LEMMA LoadStep ==
  ASSUME TypeInv, NEW p \in Processes, NEW step, NEW s \in Sessions, NEW r, Load(p, step, s, r),
         step \notin NewSteps,
         ~NewTo(p, s) \/ (step \in DeleteSteps /\ row[s] # NoRow)
  PROVE  /\ Ordinary(p) /\ Listed(op'[p], stranded')
         /\ op'[p].at = step /\ op'[p].id = s /\ op'[p].row = r
<1>1. op'[p] = [at |-> step, id |-> s, name |-> NameOf[s], row |-> r, todo |-> {}] /\ OnlyActs(p)
  BY DEF Load, TypeInv, OpsOK, OnlyActs
<1> QED
  BY <1>1 DEF Ordinary, Listed

LEMMA SaveStep ==
  ASSUME RowsOK, NEW p \in Processes, NEW s \in Sessions, NEW r \in RowType, Save(s, r),
         ~NewTo(p, s), Good(r)
  PROVE  OrdinaryRows(p)
BY DEF OrdinaryRows, Save, RowsOK

\* A process that does not work on a row in creating.
LEMMA ProgressStep ==
  ASSUME NEW p \in Processes, \A s \in Sessions : ~Working(p, s),
         \A s \in Sessions : row'[s].status = "creating" /\ s \notin stranded' =>
           row[s].status = "creating" /\ (row[s].linked => row'[s].linked)
  PROVE  Progress(p) /\ Linking(p)
BY DEF Progress, Linking, Unlinked, Working
-----------------------------------------------------------------------------
(***************************************************************************)
(* Every action but the first ones of CreateSession is such a step.        *)
(***************************************************************************)
LEMMA SaveProgress ==
  ASSUME TypeInv, NEW p \in Processes, \A t \in Sessions : ~Working(p, t),
         NEW s \in Sessions, NEW r \in RowType, Save(s, r), r.status # "creating"
  PROVE  Progress(p) /\ Linking(p)
<1>1. \A t \in Sessions : row'[t].status = "creating" => row'[t] = row[t]
  BY DEF Save, TypeInv, RowsOK
<1> QED
  BY <1>1, ProgressStep

LEMMA FindStep ==
  ASSUME IInv, NEW p \in Processes, NEW n, NEW step \in {"attached", "detached", "closed", "looking"},
         Find(p, n, step), \A s \in Sessions : ~Working(p, s), UNCHANGED <<row, stranded>>
  PROVE  Step(p)
<1> USE DEF IInv
<1>1. OrdinaryRows(p) /\ Progress(p) /\ Linking(p)
  BY ProgressStep DEF OrdinaryRows
<1>2. CASE LinkedTo(n) = {}
  BY <1>1, <1>2, ReturnStep DEF Find, Step, Stranding
<1>3. CASE LinkedTo(n) # {}
  <2>1. PICK s \in LinkedTo(n) : Load(p, step, s, Hooked(row[s], step))
    BY <1>3 DEF Find
  <2>2. s \in Sessions /\ row[s].linked /\ row[s] \in RowType
    BY <2>1 DEF LinkedTo, TypeInv, RowsOK
  <2>3. ~NewTo(p, s) /\ Good(row[s])
    BY <2>2, OldFlags
  <2>4. Ordinary(p) /\ Listed(op'[p], stranded') /\ op'[p].at = step /\ op'[p].row = Hooked(row[s], step)
    BY <2>1, <2>2, <2>3, LoadStep DEF NewSteps
  <2>5. Hooked(row[s], step).linked /\ Good(Hooked(row[s], step))
    BY <2>2, <2>3 DEF Hooked, RowType, Good
  <2>6. CopyOK(op'[p])
    BY <2>4, <2>5 DEF CopyOK
  <2> QED
    BY <1>1, <2>4, <2>6 DEF Step, Stranding
<1> QED
  BY <1>2, <1>3

\* CreateSession once its row is added.
LEMMA CreateSteps ==
  ASSUME IInv, NEW c \in Callers, CreateFails(c) \/ CreateLink(c)
  PROVE  Step(c)
<1> DEFINE s == op[c].id
<1> USE DEF IInv
<1>c. c \in Processes /\ s \in Sessions
  BY OpFields DEF Processes, TypeInv, RowSteps, Steps, CreateFails, CreateLink
<1>w. \A t \in Sessions : t # s => ~Working(c, t)
  BY DEF Working
<1>1. CASE CreateFails(c)
  <2>1. op[c].at = "registering" /\ row' = [row EXCEPT ![s] = Gone] /\ Return(c) /\ stranded' = stranded
    BY <1>1 DEF CreateFails
  <2>2. row[s] # NoRow
    BY <1>c, <2>1 DEF LifeInv, Unborn
  <2>3. OrdinaryRows(c)
    BY <1>c, <2>1, <2>2 DEF OrdinaryRows, TypeInv, RowsOK
  <2>4. Progress(c) /\ Linking(c)
    BY <1>c, <1>w, <2>1 DEF Progress, Linking, Unlinked, TypeInv, RowsOK, Gone, Row
  <2> QED
    BY <1>c, <2>1, <2>3, <2>4, ReturnStep DEF Step, Stranding
<1>2. CASE CreateLink(c)
  <2> DEFINE r == Row("creating", "none", FALSE, TRUE)
  <2>1. /\ op[c].at = "linking" /\ Save(s, r)
        /\ IF CanSave(s, r) THEN Goto(c, "starting") ELSE Return(c)
        /\ stranded' = IF Stored(s) /\ ~CanSave(s, r) THEN stranded \cup {s} ELSE stranded
    BY <1>2 DEF CreateLink
  <2>2. r \in RowType /\ r.status = "creating" /\ r.linked
    BY DEF Row, RowType
  <2>3. ~NewTo(c, s)
    BY <1>c, <2>1, NotNew DEF DeleteSteps
  <2> HIDE DEF r
  <2>4. OrdinaryRows(c)
    BY <1>c, <2>1, <2>2, <2>3, SaveStep DEF TypeInv, Good
  <2>5. CASE CanSave(s, r)
    <3>1. /\ op'[c] = [op[c] EXCEPT !.at = "starting"] /\ OnlyActs(c)
          /\ row' = [row EXCEPT ![s] = r] /\ stranded' = stranded
      BY <1>c, <2>1, <2>5 DEF Goto, Save, OnlyActs, TypeInv, OpsOK
    <3>2. op'[c].at = "starting" /\ op'[c].id = s /\ op'[c].todo = op[c].todo
      BY <1>c, <3>1, OpFields DEF OpType, TypeInv
    <3>3. Ordinary(c) /\ Listed(op'[c], stranded') /\ CopyOK(op'[c])
      BY <1>c, <2>1, <3>1, <3>2, StayStep DEF NewSteps, DeleteSteps, CopyOK
    <3>4. Progress(c) /\ Linking(c)
      BY <1>c, <1>w, <2>2, <3>1, <3>2 DEF Progress, Linking, Unlinked, Working, TypeInv, RowsOK
    <3> QED
      BY <2>4, <3>1, <3>3, <3>4 DEF Step, Stranding
  <2>6. CASE ~CanSave(s, r)
    <3>1. row' = row /\ stranded \subseteq stranded' /\ (row[s].status = "creating" => s \in stranded')
      BY <2>1, <2>6 DEF Save, Stored
    <3>2. Progress(c) /\ Linking(c)
      BY <1>c, <1>w, <3>1 DEF Progress, Linking, Unlinked
    <3> QED
      BY <1>c, <2>1, <2>4, <2>6, <3>1, <3>2, ReturnStep DEF Step, Stranding
  <2> QED
    BY <2>5, <2>6
<1> QED
  BY <1>1, <1>2

\* The end of a setup: when the save is refused, another session has the record,
\* and the row, which is not linked, is its creator's.
LEMMA EndOfSetup ==
  ASSUME IInv, NEW c \in Callers, op[c].at \in {"running", "ending"}, op[c].id \in Sessions,
         NEW r \in RowType, r.status \notin {"none", "gone", "creating"}, Save(op[c].id, r), Return(c),
         stranded' = stranded
  PROVE  Step(c)
<1> DEFINE s == op[c].id
<1> USE DEF IInv
<1>c. c \in Processes /\ ~NewTo(c, s)
  BY NotNew DEF Processes, DeleteSteps
<1>1. OrdinaryRows(c)
  BY <1>c, SaveStep DEF TypeInv, Good
<1>2. ASSUME NEW t \in Sessions, row'[t].status = "creating", t \notin stranded'
      PROVE  /\ row'[t] = row[t]
             /\ Working(c, t) => \E d \in Callers \ {c} : Working(d, t)
  <2>1. row'[t] = row[t]
    BY <1>2 DEF Save, TypeInv, RowsOK
  <2>2. ASSUME Working(c, t)
        PROVE  \E d \in Callers \ {c} : Working(d, t)
    <3>1. t = s /\ ~CanSave(s, r)
      BY <1>2, <2>2 DEF Working, Save, TypeInv, RowsOK
    <3>2. Stored(s)
      BY <1>2, <2>1, <3>1 DEF Stored
    <3>3. PICK u \in Sessions : u # s /\ row[u].linked /\ NameOf[u] = NameOf[s]
      BY <3>1, <3>2 DEF CanSave, LinkedTo
    <3>4. ~row[s].linked
      BY <3>3 DEF OneRowPerRecord
    <3> QED
      BY <1>2, <2>1, <3>1, <3>4 DEF LifeInv, UnlinkedIsOwned, Unlinked, Working
  <2> QED
    BY <2>1, <2>2
<1>3. Progress(c) /\ Linking(c)
  BY <1>2 DEF Progress, Linking, Unlinked
<1> QED
  BY <1>c, <1>1, <1>3, ReturnStep DEF Step, Stranding

LEMMA SetupSteps ==
  ASSUME IInv, NEW c \in Callers, Setup(c)
  PROVE  Step(c)
<1> DEFINE s == op[c].id
<1> USE DEF IInv
<1>c. c \in Processes /\ op[c].row \in RowType
  BY OpFields DEF Processes, TypeInv
<1>s. op[c].at \in {"starting", "running", "ending"} => s \in Sessions /\ ~NewTo(c, s)
  BY <1>c, OpFields, NotNew DEF TypeInv, RowSteps, Steps, DeleteSteps
<1>w. \A t \in Sessions : t # s => ~Working(c, t)
  BY DEF Working
<1>1. CASE SetupLoad(c)
  <2>1. op[c].at = "starting" /\ row' = row /\ stranded' = stranded /\ s \in Sessions /\ ~NewTo(c, s)
    BY <1>1, <1>s DEF SetupLoad
  <2>2. OrdinaryRows(c)
    BY <2>1 DEF OrdinaryRows
  <2>3. CASE Stored(s)
    <3>1. Load(c, "running", s, row[s])
      BY <1>1, <2>3 DEF SetupLoad
    <3>2. Ordinary(c) /\ Listed(op'[c], stranded') /\ op'[c].at = "running" /\ op'[c].id = s
      <4>1. "running" \notin NewSteps
        BY DEF NewSteps
      <4> HIDE DEF s
      <4> QED
        BY <1>c, <2>1, <3>1, <4>1, LoadStep
    <3>3. CopyOK(op'[c])
      BY <3>2 DEF CopyOK
    <3> HIDE DEF s
    <3> QED
      BY <1>w, <2>1, <2>2, <3>2, <3>3 DEF Step, Stranding, Progress, Linking, Unlinked, Working
  <2>4. CASE ~Stored(s)
    <3>1. Return(c) /\ row[s].status # "creating"
      BY <1>1, <2>4 DEF SetupLoad, Stored
    <3> QED
      BY <1>c, <1>w, <2>1, <2>2, <3>1, ReturnStep DEF Step, Stranding, Progress, Linking, Unlinked
  <2> QED
    BY <2>3, <2>4
<1>2. CASE SetupMux(c)
  <2>1. op[c].at = "running" /\ row' = row /\ stranded' = stranded /\ s \in Sessions
    BY <1>2, <1>s DEF SetupMux
  <2>2. OnlyActs(c) /\ op'[c].at = "ending" /\ op'[c].id = s /\ op'[c].todo = op[c].todo
    BY <1>2, <1>c DEF SetupMux, OnlyActs, TypeInv, OpsOK, OpType
  <2>3. Ordinary(c) /\ Listed(op'[c], stranded')
    BY <1>c, <2>1, <2>2, StayStep DEF NewSteps, DeleteSteps
  <2>4. CopyOK(op'[c])
    BY <2>2 DEF CopyOK
  <2>5. Progress(c) /\ Linking(c)
    BY <1>w, <2>1, <2>2 DEF Progress, Linking, Unlinked, Working
  <2> QED
    BY <2>1, <2>3, <2>4, <2>5 DEF Step, Stranding, OrdinaryRows
<1>3. ASSUME NEW err \in {"none", "other"}, SetupEnd(c, err)
      PROVE  Step(c)
  <2> DEFINE r == [op[c].row EXCEPT !.status = "active", !.err = err]
  <2>1. r \in RowType /\ r.status = "active"
    BY <1>c DEF RowType
  <2>2. op[c].at = "ending" /\ Save(s, r) /\ Return(c) /\ stranded' = stranded
    BY <1>3 DEF SetupEnd, Copy
  <2> HIDE DEF r
  <2> QED
    BY <1>s, <2>1, <2>2, EndOfSetup
<1>4. CASE SetupFails(c)
  <2> DEFINE r == [op[c].row EXCEPT !.status = "broken", !.err = "other"]
  <2>1. r \in RowType /\ r.status = "broken"
    BY <1>c DEF RowType
  <2>2. op[c].at \in {"running", "ending"} /\ Save(s, r) /\ Return(c) /\ stranded' = stranded
    BY <1>4 DEF SetupFails, Copy
  <2> HIDE DEF r
  <2> QED
    BY <1>s, <2>1, <2>2, EndOfSetup
<1> QED
  BY <1>1, <1>2, <1>3, <1>4 DEF Setup

LEMMA RepairSteps ==
  ASSUME IInv, NEW c \in Callers, RepairWrite(c)
  PROVE  Step(c)
<1> DEFINE s == op[c].id
           r == op[c].row
<1> USE DEF IInv
<1>1. /\ op[c].at = "repairing" /\ Save(s, r)
      /\ IF CanSave(s, r) /\ r.linked THEN Goto(c, "starting") ELSE Return(c)
      /\ stranded' = IF CanSave(s, r) /\ ~r.linked THEN stranded \cup {s} ELSE stranded
  BY DEF RepairWrite, Copy
<1>2. c \in Processes /\ s \in Sessions /\ r \in RowType /\ ~NewTo(c, s)
  BY <1>1, OpFields, NotNew DEF Processes, TypeInv, RowSteps, Steps, DeleteSteps
<1>3. r.status = "creating"
  BY <1>1, <1>2 DEF LifeInv, CopyOK
<1>w. \A t \in Sessions : ~Working(c, t)
  BY <1>1 DEF Working
<1> HIDE DEF r
<1>4. OrdinaryRows(c)
  BY <1>1, <1>2, <1>3, SaveStep DEF TypeInv, Good
<1>5. CASE CanSave(s, r) /\ r.linked
  <2>1. /\ op'[c] = [op[c] EXCEPT !.at = "starting"] /\ OnlyActs(c)
        /\ row' = [row EXCEPT ![s] = r] /\ stranded' = stranded
    BY <1>1, <1>2, <1>5 DEF Goto, Save, OnlyActs, TypeInv, OpsOK
  <2>2. op'[c].at = "starting" /\ op'[c].id = s /\ op'[c].todo = op[c].todo
    BY <1>2, <2>1, OpFields DEF OpType, TypeInv
  <2>3. Ordinary(c) /\ Listed(op'[c], stranded') /\ CopyOK(op'[c])
    BY <1>1, <1>2, <2>1, <2>2, StayStep DEF NewSteps, DeleteSteps, CopyOK
  <2>4. Progress(c) /\ Linking(c)
    BY <1>1, <1>2, <1>w, <1>5, <2>1, <2>2 DEF Progress, Linking, Unlinked, Working, TypeInv, RowsOK
  <2> QED
    BY <1>4, <2>1, <2>3, <2>4 DEF Step, Stranding
<1>6. CASE ~(CanSave(s, r) /\ r.linked)
  <2>1. \A t \in Sessions : row'[t] # row[t] => t = s /\ s \in stranded'
    BY <1>1, <1>2, <1>6 DEF Save, TypeInv, RowsOK
  <2>2. stranded \subseteq stranded' /\ Return(c)
    BY <1>1, <1>6
  <2>3. Progress(c) /\ Linking(c)
    BY <1>2, <1>w, <2>1, ProgressStep
  <2> QED
    BY <1>2, <1>4, <2>2, <2>3, ReturnStep DEF Step, Stranding
<1> QED
  BY <1>5, <1>6

\* A process that was idle loads a row.
LEMMA FirstLoad ==
  ASSUME IInv, NEW p \in Processes, op[p] = Idle, NEW s \in Sessions, NEW r, NEW step,
         Load(p, step, s, r), step \notin NewSteps, UNCHANGED <<row, stranded>>,
         ~NewTo(p, s) \/ (step \in DeleteSteps /\ row[s] # NoRow),
         step = "repairing" => r.status = "creating",
         step = "activating" => r.status \in {"active", "inactive", "archived"},
         step \notin {"clearing", "attaching", "unlinking", "reconciling", "attached", "detached", "closed"}
  PROVE  Step(p)
<1> USE DEF IInv
<1>1. /\ Ordinary(p) /\ Listed(op'[p], stranded')
      /\ op'[p].at = step /\ op'[p].row = r
  BY LoadStep
<1>2. CopyOK(op'[p])
  BY <1>1 DEF CopyOK
<1>3. \A t \in Sessions : ~Working(p, t)
  BY IdleFields DEF Working
<1>4. Progress(p) /\ Linking(p)
  BY <1>3, ProgressStep
<1> QED
  BY <1>1, <1>2, <1>4 DEF Step, Stranding, OrdinaryRows

LEMMA LoadSteps ==
  ASSUME IInv, NEW c \in Callers, NEW s \in Sessions,
         \/ RepairLoad(c, s) \/ ActivateLoad(c, s) \/ ArchiveLoad(c, s)
         \/ \E force \in BOOLEAN : DeleteLoad(c, s, force)
  PROVE  Step(c)
<1> USE DEF IInv
<1>p. c \in Processes
  BY DEF Processes
<1>n. {"repairing", "activating", "archiving", "deleting"} \cap NewSteps = {} /\ "deleting" \in DeleteSteps
  BY DEF NewSteps, DeleteSteps
<1>1. CASE RepairLoad(c, s)
  <2> DEFINE r == [row[s] EXCEPT !.status = "creating", !.err = "none"]
  <2>1. Load(c, "repairing", s, r) /\ op[c] = Idle /\ UNCHANGED <<row, stranded>>
    BY <1>1 DEF RepairLoad, Begin
  <2>2. r.status = "creating"
    BY DEF TypeInv, RowsOK, RowType
  <2>3. ~NewTo(c, s)
    BY <1>1, <1>p, OldStatus DEF RepairLoad
  <2> HIDE DEF r
  <2> QED
    BY <1>p, <1>n, <2>1, <2>2, <2>3, FirstLoad
<1>2. CASE ActivateLoad(c, s)
  <2>1. /\ Load(c, "activating", s, row[s]) /\ op[c] = Idle /\ UNCHANGED <<row, stranded>>
        /\ row[s].status \in {"active", "inactive", "archived"}
    BY <1>2 DEF ActivateLoad, Begin
  <2>2. ~NewTo(c, s)
    BY <1>p, <2>1, OldStatus
  <2> QED
    BY <1>p, <1>n, <2>1, <2>2, FirstLoad
<1>3. CASE ArchiveLoad(c, s)
  <2>1. Load(c, "archiving", s, row[s]) /\ op[c] = Idle /\ UNCHANGED <<row, stranded>>
    BY <1>3 DEF ArchiveLoad, Begin
  <2>2. ~NewTo(c, s)
    BY <1>3, <1>p, OldStatus DEF ArchiveLoad
  <2> QED
    BY <1>p, <1>n, <2>1, <2>2, FirstLoad
<1>4. ASSUME NEW force \in BOOLEAN, DeleteLoad(c, s, force)
      PROVE  Step(c)
  <2>1. Load(c, "deleting", s, row[s]) /\ op[c] = Idle /\ UNCHANGED <<row, stranded>>
    BY <1>4 DEF DeleteLoad, Begin
  <2>2. row[s] # NoRow
    BY <1>4 DEF DeleteLoad, Stored, NoRow, Row
  <2> QED
    BY <1>p, <1>n, <2>1, <2>2, FirstLoad
<1> QED
  BY <1>1, <1>2, <1>3, <1>4

LEMMA VisitStep ==
  ASSUME IInv, NEW s \in Sessions, JobVisit(s)
  PROVE  Step(Job)
<1>1. Job \in Processes /\ "looking" \notin NewSteps
  BY DEF Processes, NewSteps
<1>2. Load(Job, "looking", s, row[s]) /\ op[Job] = Idle /\ UNCHANGED <<row, stranded>>
  BY DEF JobVisit
<1>3. ~NewTo(Job, s)
  BY <1>1, OldStatus DEF JobVisit, Reconcilable, IInv
<1> QED
  BY <1>1, <1>2, <1>3, FirstLoad

\* A process that does not work on a row in creating writes a copy that does
\* not say creating, and is done.
LEMMA LastSave ==
  ASSUME IInv, NEW p \in Processes, op[p].id \in Sessions, op[p].at \notin DeleteSteps \cup {"adding"},
         \A t \in Sessions : ~Working(p, t),
         Save(op[p].id, op[p].row), Return(p), stranded' = stranded,
         op[p].row.status \in {"active", "inactive", "broken", "archived"}
  PROVE  Step(p)
<1> DEFINE s == op[p].id
           r == op[p].row
<1> USE DEF IInv
<1>1. r \in RowType /\ ~NewTo(p, s) /\ Good(r) /\ r.status # "creating"
  BY OpFields, NotNew DEF TypeInv, Good
<1> HIDE DEF r
<1>2. Save(s, r)
  BY DEF r
<1>3. OrdinaryRows(p)
  BY <1>1, <1>2, SaveStep DEF TypeInv
<1>4. Progress(p) /\ Linking(p)
  BY <1>1, <1>2, SaveProgress
<1> QED
  BY <1>3, <1>4, ReturnStep DEF Step, Stranding

LEMMA ActivateSteps ==
  ASSUME IInv, NEW c \in Callers, Activate(c)
  PROVE  Step(c)
<1> DEFINE s == op[c].id
<1> USE DEF IInv
<1>c. c \in Processes /\ op[c].row \in RowType
  BY OpFields DEF Processes, TypeInv
<1>s. /\ op[c].at \in {"activating", "clearing", "attaching"}
      /\ s \in Sessions
      /\ op[c].row.status \in {"active", "inactive", "archived"}
      /\ stranded' = stranded
  BY <1>c, OpFields DEF TypeInv, RowSteps, Steps, LifeInv, CopyOK, Activate, ActivateMux, ActivateFails,
     ActivateClear, ActivateWrite
<1>w. \A t \in Sessions : ~Working(c, t)
  BY <1>s DEF Working
<1>q. ASSUME row' = row, OnlyActs(c), op'[c].id = s, op'[c].todo = op[c].todo, op'[c].at = "clearing",
             op'[c].row.status \in {"active", "inactive", "archived"}
      PROVE  Step(c)
  <2>1. Ordinary(c) /\ Listed(op'[c], stranded')
    BY <1>c, <1>s, <1>q, StayStep DEF NewSteps, DeleteSteps
  <2>2. CopyOK(op'[c])
    BY <1>q DEF CopyOK
  <2>3. Progress(c) /\ Linking(c)
    BY <1>c, <1>w, <1>s, <1>q, ProgressStep
  <2> QED
    BY <1>s, <1>q, <2>1, <2>2, <2>3 DEF Step, Stranding, OrdinaryRows
<1>r. ASSUME row' = row, Return(c)
      PROVE  Step(c)
  <2>1. Progress(c) /\ Linking(c)
    BY <1>c, <1>w, <1>s, <1>r, ProgressStep
  <2> QED
    BY <1>c, <1>s, <1>r, <2>1, ReturnStep DEF Step, Stranding, OrdinaryRows
<1>1. CASE ActivateMux(c)
  <2> DEFINE r == IF op[c].name \in terminals THEN Copy(c) ELSE Revived(Copy(c))
             a == [r EXCEPT !.attached = TRUE]
  <2>1. a.status \in {"active", "inactive", "archived"} /\ a \in RowType
    BY <1>c, <1>s DEF Revived, RowType, Copy
  <2>2. row' = row /\ (Return(c) \/ op' = [op EXCEPT ![c].at = "clearing", ![c].row = a])
    BY <1>1 DEF ActivateMux
  <2> HIDE DEF a
  <2>3. ASSUME op' = [op EXCEPT ![c].at = "clearing", ![c].row = a]
        PROVE  OnlyActs(c) /\ op'[c].id = s /\ op'[c].todo = op[c].todo /\ op'[c].at = "clearing" /\ op'[c].row = a
    BY <1>c, <2>3 DEF OnlyActs, TypeInv, OpsOK, OpType
  <2> QED
    BY <1>q, <1>r, <2>1, <2>2, <2>3
<1>2. CASE ActivateFails(c)
  BY <1>r, <1>2 DEF ActivateFails
<1>3. CASE ActivateClear(c)
  <2>1. /\ op[c].at = "clearing" /\ Goto(c, "attaching")
        /\ row' = [t \in Sessions |-> IF t = s THEN row[t] ELSE [row[t] EXCEPT !.attached = FALSE]]
    BY <1>3 DEF ActivateClear
  <2>2. /\ OnlyActs(c) /\ op'[c].id = s /\ op'[c].todo = op[c].todo /\ op'[c].at = "attaching"
        /\ op'[c].row = op[c].row
    BY <1>c, <2>1 DEF Goto, OnlyActs, TypeInv, OpsOK, OpType
  <2>3. Ordinary(c) /\ Listed(op'[c], stranded')
    BY <1>c, <1>s, <2>1, <2>2, StayStep DEF NewSteps, DeleteSteps
  <2>4. CopyOK(op'[c])
    BY <1>s, <2>2 DEF CopyOK
  <2>5. ASSUME NEW t \in Sessions
        PROVE  /\ row'[t] = row[t] \/ row[t].attached
               /\ row'[t].status = row[t].status /\ row'[t].linked = row[t].linked
    BY <2>1 DEF TypeInv, RowsOK, RowType
  <2>6. OrdinaryRows(c)
    BY <1>c, <2>5, OldFlags DEF OrdinaryRows, Good
  <2>7. Progress(c) /\ Linking(c)
    BY <1>c, <1>w, <2>5, ProgressStep
  <2> QED
    BY <1>s, <2>3, <2>4, <2>6, <2>7 DEF Step, Stranding
<1>4. CASE ActivateWrite(c)
  <2>1. op[c].at = "attaching" /\ Save(op[c].id, op[c].row) /\ Return(c)
    BY <1>4 DEF ActivateWrite, Copy
  <2> QED
    BY <1>c, <1>s, <1>w, <2>1, LastSave DEF DeleteSteps
<1> QED
  BY <1>1, <1>2, <1>3, <1>4 DEF Activate

LEMMA RemoveSteps ==
  ASSUME IInv, NEW c \in Callers, Removal(c)
  PROVE  Step(c)
<1> DEFINE s == op[c].id
<1> USE DEF IInv
<1>c. c \in Processes /\ op[c].row \in RowType
  BY OpFields DEF Processes, TypeInv
<1>s. /\ op[c].at \in {"archiving", "unlinking", "deleting", "removing", "dropping"}
      /\ s \in Sessions
      /\ stranded' = stranded
  BY <1>c, OpFields DEF TypeInv, RowSteps, Steps, Removal, ArchiveKill, ArchiveWrite, DeleteKill, DeleteRoot,
     HardDelete
<1>w. \A t \in Sessions : ~Working(c, t)
  BY <1>s DEF Working
<1>q. ASSUME NEW step \in {"unlinking", "removing", "dropping"},
             row' = row, OnlyActs(c), op'[c].id = s, op'[c].todo = op[c].todo, op'[c].at = step,
             op[c].at \in DeleteSteps => step \in DeleteSteps,
             step = "unlinking" => op'[c].row.status = "archived"
      PROVE  Step(c)
  <2>1. Ordinary(c) /\ Listed(op'[c], stranded')
    BY <1>c, <1>s, <1>q, StayStep DEF NewSteps
  <2>2. CopyOK(op'[c])
    BY <1>q DEF CopyOK
  <2>3. Progress(c) /\ Linking(c)
    BY <1>c, <1>w, <1>s, <1>q, ProgressStep
  <2> QED
    BY <1>s, <1>q, <2>1, <2>2, <2>3 DEF Step, Stranding, OrdinaryRows
<1>1. CASE ArchiveKill(c)
  <2> DEFINE r == Row("archived", Copy(c).err, FALSE, FALSE)
  <2>1. op[c].at = "archiving" /\ row' = row /\ op' = [op EXCEPT ![c].at = "unlinking", ![c].row = r]
    BY <1>1 DEF ArchiveKill
  <2>2. r.status = "archived"
    BY DEF Row
  <2> HIDE DEF r
  <2>3. /\ OnlyActs(c) /\ op'[c].id = s /\ op'[c].todo = op[c].todo /\ op'[c].at = "unlinking"
        /\ op'[c].row = r
    BY <1>c, <2>1 DEF OnlyActs, TypeInv, OpsOK, OpType
  <2> QED
    BY <1>q, <2>1, <2>2, <2>3 DEF DeleteSteps
<1>2. CASE ArchiveWrite(c)
  <2>1. op[c].at = "unlinking" /\ Save(op[c].id, op[c].row) /\ Return(c)
    BY <1>2 DEF ArchiveWrite, Copy
  <2>2. op[c].row.status = "archived"
    BY <1>c, <2>1 DEF LifeInv, CopyOK
  <2> QED
    BY <1>c, <1>s, <1>w, <2>1, <2>2, LastSave DEF DeleteSteps
<1>3. CASE DeleteKill(c)
  <2>1. op[c].at = "deleting" /\ row' = row /\ op' = [op EXCEPT ![c].at = "removing", ![c].row = Gone]
    BY <1>3 DEF DeleteKill
  <2>2. OnlyActs(c) /\ op'[c].id = s /\ op'[c].todo = op[c].todo /\ op'[c].at = "removing"
    BY <1>c, <2>1 DEF OnlyActs, TypeInv, OpsOK, OpType
  <2> QED
    BY <1>q, <2>1, <2>2 DEF DeleteSteps
<1>4. CASE DeleteRoot(c)
  <2>1. op[c].at = "removing" /\ row' = row /\ Goto(c, "dropping")
    BY <1>4 DEF DeleteRoot
  <2>2. OnlyActs(c) /\ op'[c].id = s /\ op'[c].todo = op[c].todo /\ op'[c].at = "dropping"
    BY <1>c, <2>1 DEF Goto, OnlyActs, TypeInv, OpsOK, OpType
  <2> QED
    BY <1>q, <2>1, <2>2 DEF DeleteSteps
<1>5. CASE HardDelete(c)
  <2>1. op[c].at = "dropping" /\ row' = [row EXCEPT ![s] = Gone] /\ Return(c)
    BY <1>5 DEF HardDelete
  <2>2. row[s] # NoRow
    BY <1>c, <1>s, <2>1 DEF LifeInv, Unborn
  <2>3. \A t \in Sessions : row'[t] = row[t] \/ (row[t] # NoRow /\ row'[t] = Gone)
    BY <1>s, <2>1, <2>2 DEF TypeInv, RowsOK
  <2>4. Gone.status # "creating"
    BY DEF Gone, Row
  <2>5. Progress(c) /\ Linking(c)
    BY <1>c, <1>w, <2>3, <2>4, ProgressStep
  <2> QED
    BY <1>c, <1>s, <2>1, <2>3, <2>5, ReturnStep DEF Step, Stranding, OrdinaryRows
<1> QED
  BY <1>1, <1>2, <1>3, <1>4, <1>5 DEF Removal

LEMMA ClientSteps ==
  ASSUME IInv, NEW c \in Callers, NEW n \in Names,
         ClientHook(c, n, "attached") \/ ClientHook(c, n, "detached") \/ ClientChanged(c, n)
  PROVE  Step(c)
<1> USE DEF IInv
<1>c. c \in Processes
  BY DEF Processes
<1>i. op[c] = Idle /\ UNCHANGED <<row, stranded>>
  BY DEF ClientHook, ClientChanged, Begin
<1>w. \A t \in Sessions : ~Working(c, t)
  BY <1>i, IdleFields DEF Working
<1>1. CASE ClientHook(c, n, "attached") \/ ClientHook(c, n, "detached")
  <2>1. Find(c, n, "attached") \/ Find(c, n, "detached")
    BY <1>1 DEF ClientHook
  <2> QED
    BY <1>c, <1>i, <1>w, <2>1, FindStep
<1>2. CASE ClientChanged(c, n)
  <2> DEFINE todo == {[id |-> s, row |-> row[s]] : s \in {t \in Sessions : row[t].attached}}
             o    == [Idle EXCEPT !.at = "switching", !.name = n, !.todo = todo]
  <2>1. op' = [op EXCEPT ![c] = o]
    BY <1>2 DEF ClientChanged
  <2>2. o.at = "switching" /\ o.id \notin Sessions /\ o.todo = todo
    BY ConstantsAssumption DEF Idle
  <2>3. ASSUME NEW entry \in todo
        PROVE  /\ ~NewTo(c, entry.id) /\ Good(entry.row)
               /\ entry.row.status = "creating" /\ ~entry.row.linked => entry.id \in stranded
    <3>1. PICK s \in Sessions : row[s].attached /\ entry.id = s /\ entry.row = row[s]
      OBVIOUS
    <3>2. ~NewTo(c, s) /\ Good(row[s])
      BY <1>c, <3>1, OldFlags
    <3>3. row[s] # Row("creating", "none", FALSE, FALSE) /\ row[s] # Gone
      BY <3>1 DEF Row, Gone
    <3>4. Unlinked(s) => s \in stranded
      BY <3>3 DEF LifeInv, UnlinkedIsOwned, Newborn, Creator, NewSteps
    <3> QED
      BY <3>1, <3>2, <3>4 DEF Unlinked
  <2> HIDE DEF todo, o
  <2>4. OnlyActs(c) /\ op'[c] = o
    BY <1>c, <2>1 DEF OnlyActs, TypeInv, OpsOK
  <2>5. Ordinary(c)
    BY <2>2, <2>3, <2>4 DEF Ordinary, NewSteps
  <2>6. CopyOK(op'[c]) /\ Listed(op'[c], stranded')
    BY <1>i, <2>2, <2>3, <2>4 DEF CopyOK, Listed
  <2>7. Progress(c) /\ Linking(c)
    BY <1>c, <1>w, <1>i, ProgressStep
  <2> QED
    BY <1>i, <2>5, <2>6, <2>7 DEF Step, Stranding, OrdinaryRows
<1> QED
  BY <1>1, <1>2

\* A copy that is written back and says creating is of a linked row.
LEMMA WriteBackStep ==
  ASSUME IInv, NEW p \in Processes, \A t \in Sessions : ~Working(p, t),
         NEW s \in Sessions, NEW r \in RowType, WriteBack(s, r), ~NewTo(p, s), Good(r),
         r.status = "creating" /\ ~r.linked => s \in stranded
  PROVE  OrdinaryRows(p) /\ Progress(p) /\ Linking(p) /\ stranded \subseteq stranded'
<1> USE DEF IInv
<1>1. /\ Save(s, r)
      /\ stranded' = IF CanSave(s, r) /\ r.status = "creating" /\ row[s].status # "creating"
                     THEN stranded \cup {s} ELSE stranded
  BY DEF WriteBack
<1>2. OrdinaryRows(p)
  BY <1>1, SaveStep DEF TypeInv
<1>3. \A t \in Sessions : row'[t] = row[t] \/ (t = s /\ row'[t] = r /\ CanSave(s, r))
  BY <1>1 DEF Save, TypeInv, RowsOK
<1>4. Progress(p) /\ Linking(p)
  BY <1>1, <1>3, ProgressStep
<1> QED
  BY <1>1, <1>2, <1>4

LEMMA ChangeSteps ==
  ASSUME IInv, NEW c \in Callers, Change(c)
  PROVE  Step(c)
<1> USE DEF IInv
<1>c. c \in Processes /\ op[c].at = "switching"
  BY DEF Processes, Change, ChangedClear, ChangedFind
<1>w. \A t \in Sessions : ~Working(c, t)
  BY <1>c DEF Working
<1>1. CASE ChangedClear(c)
  <2>1. PICK entry \in op[c].todo :
          /\ WriteBack(entry.id, [entry.row EXCEPT !.attached = FALSE])
          /\ IF CanSave(entry.id, [entry.row EXCEPT !.attached = FALSE])
             THEN op' = [op EXCEPT ![c].todo = @ \ {entry}] ELSE Return(c)
    BY <1>1 DEF ChangedClear
  <2>2. entry.id \in Sessions /\ entry.row \in RowType /\ ~NewTo(c, entry.id)
    BY <1>c, OldEntry
  <2>3. Good(entry.row) /\ (entry.row.status = "creating" /\ ~entry.row.linked => entry.id \in stranded)
    BY <1>c DEF LifeInv, Listed
  <2> DEFINE r == [entry.row EXCEPT !.attached = FALSE]
  <2>4. r \in RowType /\ r.status = entry.row.status /\ r.linked = entry.row.linked
    BY <2>2 DEF RowType
  <2>5. WriteBack(entry.id, r)
    BY <2>1
  <2> HIDE DEF r
  <2>6. OrdinaryRows(c) /\ Progress(c) /\ Linking(c) /\ stranded \subseteq stranded'
    BY <1>c, <1>w, <2>2, <2>3, <2>4, <2>5, WriteBackStep DEF Good
  <2>7. ASSUME op' = [op EXCEPT ![c].todo = @ \ {entry}]
        PROVE  Ordinary(c) /\ Listed(op'[c], stranded') /\ CopyOK(op'[c])
    <3>1. /\ OnlyActs(c) /\ op'[c].id = op[c].id /\ op'[c].at = "switching"
          /\ op'[c].todo \subseteq op[c].todo
      BY <1>c, <2>7 DEF OnlyActs, TypeInv, OpsOK, OpType
    <3>2. Ordinary(c) /\ Listed(op'[c], stranded')
      BY <1>c, <2>6, <3>1, StayStep DEF NewSteps, DeleteSteps
    <3> QED
      BY <3>1, <3>2 DEF CopyOK
  <2> QED
    BY <1>c, <2>1, <2>6, <2>7, ReturnStep DEF Step, Stranding
<1>2. CASE ChangedFind(c)
  <2>1. Find(c, op[c].name, "attached") /\ UNCHANGED <<row, stranded>>
    BY <1>2 DEF ChangedFind
  <2> QED
    BY <1>c, <1>w, <2>1, FindStep
<1> QED
  BY <1>1, <1>2 DEF Change

LEMMA HookSteps ==
  ASSUME IInv, NEW p \in Processes, HookWrite(p) \/ Reconcile(p)
  PROVE  Step(p)
<1> DEFINE s == op[p].id
           r == op[p].row
<1> USE DEF IInv
<1>s. /\ op[p].at \in {"attached", "detached", "closed", "looking", "reconciling"}
      /\ s \in Sessions /\ r \in RowType /\ ~NewTo(p, s)
  BY OpFields, NotNew DEF TypeInv, RowSteps, Steps, DeleteSteps, Reconcile, HookWrite, Look, ReconcileWrite
<1>w. \A t \in Sessions : ~Working(p, t)
  BY <1>s DEF Working
<1>1. CASE HookWrite(p)
  <2>1. op[p].at \in {"attached", "detached", "closed"} /\ WriteBack(s, r) /\ Return(p)
    BY <1>1 DEF HookWrite, Copy
  <2>2. r.linked /\ Good(r)
    BY <2>1 DEF LifeInv, CopyOK
  <2>3. OrdinaryRows(p) /\ Progress(p) /\ Linking(p) /\ stranded \subseteq stranded'
    BY <1>s, <1>w, <2>1, <2>2, WriteBackStep
  <2> QED
    BY <2>1, <2>3, ReturnStep DEF Step, Stranding
<1>2. CASE Look(p)
  <2> DEFINE new == Reconciled(Copy(p), s \notin unhealthy, Alive(s, Copy(p)))
  <2>1. /\ op[p].at = "looking" /\ row' = row /\ stranded' = stranded
        /\ Return(p) \/ (Reconcilable(r) /\ op' = [op EXCEPT ![p].at = "reconciling", ![p].row = new])
    BY <1>2 DEF Look, Copy
  <2>2. Reconcilable(r) => Reconcilable(new)
    BY <1>s DEF Reconcilable, Reconciled, Copy, RowType
  <2>3. Progress(p) /\ Linking(p)
    BY <1>w, <2>1, ProgressStep
  <2> HIDE DEF new
  <2>4. ASSUME Reconcilable(r), op' = [op EXCEPT ![p].at = "reconciling", ![p].row = new]
        PROVE  Step(p)
    <3>1. /\ OnlyActs(p) /\ op'[p].id = s /\ op'[p].todo = op[p].todo /\ op'[p].at = "reconciling"
          /\ op'[p].row = new
      BY <2>4 DEF OnlyActs, TypeInv, OpsOK, OpType
    <3>2. Ordinary(p) /\ Listed(op'[p], stranded')
      BY <2>1, <3>1, StayStep DEF NewSteps, DeleteSteps
    <3>3. CopyOK(op'[p])
      BY <2>2, <2>4, <3>1 DEF CopyOK
    <3> QED
      BY <2>1, <2>3, <3>2, <3>3 DEF Step, Stranding, OrdinaryRows
  <2> QED
    BY <2>1, <2>3, <2>4, ReturnStep DEF Step, Stranding, OrdinaryRows
<1>3. CASE ReconcileWrite(p)
  <2>1. op[p].at = "reconciling" /\ WriteBack(s, r) /\ Return(p)
    BY <1>3 DEF ReconcileWrite, Copy
  <2>2. r.status \in {"active", "inactive", "broken"}
    BY <2>1 DEF LifeInv, CopyOK, Reconcilable
  <2>3. OrdinaryRows(p) /\ Progress(p) /\ Linking(p) /\ stranded \subseteq stranded'
    BY <1>s, <1>w, <2>1, <2>2, WriteBackStep DEF Good
  <2> QED
    BY <2>1, <2>3, ReturnStep DEF Step, Stranding
<1> QED
  BY <1>1, <1>2, <1>3 DEF Reconcile

\* Neither the rows nor what any process does is changed.
Still == UNCHANGED <<row, op, stranded>>

LEMMA EventSteps ==
  ASSUME IInv, HandleEvent \/ EventFind \/ Resync
  PROVE  Step(Follower) \/ Still
<1> USE DEF IInv
<1>p. Follower \in Processes
  BY DEF Processes
<1>1. CASE HandleEvent
  <2> DEFINE event == Head(events)
             hook  == IF event.type = "created" THEN "finding opened" ELSE "finding closed"
             o     == [Idle EXCEPT !.at = hook, !.name = event.name]
  <2>1. /\ op[Follower] = Idle /\ UNCHANGED <<row, stranded>>
        /\ op' = [op EXCEPT ![Follower] = o] \/ op' = op
    BY <1>1 DEF HandleEvent
  <2>2. o.at \in {"finding opened", "finding closed"} /\ o.id \notin Sessions /\ o.todo = {}
    BY ConstantsAssumption DEF Idle
  <2> HIDE DEF o
  <2>3. ASSUME op' = [op EXCEPT ![Follower] = o]
        PROVE  Step(Follower)
    <3>1. OnlyActs(Follower) /\ op'[Follower] = o
      BY <1>p, <2>3 DEF OnlyActs, TypeInv, OpsOK
    <3>2. Ordinary(Follower) /\ CopyOK(op'[Follower]) /\ Listed(op'[Follower], stranded')
      BY <2>2, <3>1 DEF Ordinary, CopyOK, Listed, NewSteps
    <3>3. \A t \in Sessions : ~Working(Follower, t)
      BY <2>1, IdleFields DEF Working
    <3>4. Progress(Follower) /\ Linking(Follower)
      BY <1>p, <2>1, <3>3, ProgressStep
    <3> QED
      BY <2>1, <3>2, <3>4 DEF Step, Stranding, OrdinaryRows
  <2> QED
    BY <2>1, <2>3 DEF Still
<1>2. CASE EventFind
  <2>1. /\ op[Follower].at \in {"finding opened", "finding closed"} /\ UNCHANGED <<row, stranded>>
        /\ \/ Find(Follower, op[Follower].name, "looking")
           \/ Find(Follower, op[Follower].name, "closed")
    BY <1>2 DEF EventFind
  <2>2. \A t \in Sessions : ~Working(Follower, t)
    BY <2>1 DEF Working
  <2> QED
    BY <1>p, <2>1, <2>2, FindStep
<1>3. CASE Resync
  BY <1>3 DEF Resync, Still
<1> QED
  BY <1>1, <1>2, <1>3
-----------------------------------------------------------------------------
(***************************************************************************)
(* The first steps of CreateSession, and the start of the daemon.          *)
(***************************************************************************)
\* Only CreateSession is at the steps that make a row.
LEMMA FirstSteps ==
  ASSUME LifeInv, NEW p \in Processes, op[p].at \in NewSteps
  PROVE  p \in Callers
BY DEF LifeInv

LEMMA StillStep ==
  ASSUME IInv, Still
  PROVE  LifeInv' /\ CreatingIsInProgress'
<1> USE DEF IInv, Still
<1>1. \A s \in Sessions : RowShape(s)' /\ Unborn(s)' /\ Newborn(s)' /\ UnlinkedIsOwned(s)'
  <2>1. \A s \in Sessions : RowShape(s)' /\ Unborn(s)'
    BY DEF LifeInv, RowShape, Stored, Unborn
  <2>2. \A s \in Sessions : Newborn(s)'
    BY DEF LifeInv, Newborn, Creator
  <2>3. \A s \in Sessions : UnlinkedIsOwned(s)'
    BY DEF LifeInv, UnlinkedIsOwned, Unlinked
  <2> QED
    BY <2>1, <2>2, <2>3
<1>2. \A p \in Processes : CopyOK(op[p])' /\ Listed(op[p], stranded)'
  BY DEF LifeInv, CopyOK, Reconcilable, Listed
<1>3. \A p \in Processes \ Callers : op'[p].at \notin NewSteps
  BY DEF LifeInv
<1>4. CreatingIsInProgress'
  BY DEF CreatingIsInProgress, InProgress, Working
<1> QED
  BY <1>1, <1>2, <1>3, <1>4 DEF LifeInv

LEMMA OthersNewborn ==
  ASSUME LifeInv, NEW t \in Sessions, row'[t] = row[t],
         \A p \in Processes : op'[p].id = t => op'[p] = op[p],
         \A p \in Processes : op'[p].todo \subseteq op[p].todo
  PROVE  Newborn(t)'
<1> SUFFICES ASSUME NEW c \in Callers, Creator(c, t)'
             PROVE  /\ op'[c].at = "adding" => row'[t] = NoRow
                    /\ op'[c].at # "adding" => row'[t] \in {Row("creating", "none", FALSE, FALSE), Gone}
                    /\ \A p \in Processes \ {c} : op'[p].id = t => op'[p].at \in DeleteSteps
                    /\ \A p \in Processes : \A entry \in op'[p].todo : entry.id # t
  BY DEF Newborn
<1>1. c \in Processes /\ op'[c] = op[c] /\ Creator(c, t)
  BY DEF Creator, Processes
<1>2. /\ op[c].at = "adding" => row[t] = NoRow
      /\ op[c].at # "adding" => row[t] \in {Row("creating", "none", FALSE, FALSE), Gone}
      /\ \A p \in Processes \ {c} : op[p].id = t => op[p].at \in DeleteSteps
      /\ \A p \in Processes : \A entry \in op[p].todo : entry.id # t
  BY <1>1 DEF LifeInv, Newborn
<1>3. \A p \in Processes \ {c} : op'[p].id = t => op'[p].at \in DeleteSteps
  BY <1>2
<1> QED
  BY <1>1, <1>2, <1>3

LEMMA CheckStep ==
  ASSUME IInv, NEW c \in Callers, NEW s \in Sessions, CreateCheck(c, s)
  PROVE  LifeInv' /\ CreatingIsInProgress'
<1> DEFINE o == [Idle EXCEPT !.at = "adding", !.id = s, !.name = NameOf[s]]
<1> USE DEF IInv
<1>1. /\ op[c] = Idle /\ row[s] = NoRow /\ \A p \in Callers : op[p].id # s
      /\ row' = row /\ stranded' = stranded /\ op' = [op EXCEPT ![c] = o]
  BY DEF CreateCheck, Begin
<1>2. c \in Processes /\ o.at = "adding" /\ o.id = s /\ o.todo = {}
  BY DEF Processes, Idle
<1> HIDE DEF o
<1>3. op'[c] = o /\ \A p \in Processes \ {c} : op'[p] = op[p]
  BY <1>1, <1>2 DEF TypeInv, OpsOK
<1>4. \A p \in Processes : op[p].id # s
  BY <1>1, FirstSteps DEF LifeInv, Unborn, NewSteps
<1>5. \A t \in Sessions : RowShape(t)' /\ Unborn(t)'
  BY <1>1, <1>2, <1>3 DEF LifeInv, RowShape, Stored, Unborn
<1>6. Newborn(s)'
  <2>1. ASSUME NEW d \in Callers, Creator(d, s)'
        PROVE  d = c
    BY <1>3, <1>4, <2>1 DEF Creator, Processes
  <2>2. \A p \in Processes : \A entry \in op'[p].todo : entry.id # s
    BY <1>1, <1>2, <1>3 DEF LifeInv, Unborn
  <2> QED
    BY <1>1, <1>2, <1>3, <1>4, <2>1, <2>2 DEF Newborn
<1>7. ASSUME NEW t \in Sessions, t # s
      PROVE  Newborn(t)'
  <2>1. \A p \in Processes : op'[p].id = t => op'[p] = op[p]
    BY <1>2, <1>3, <1>7
  <2>2. \A p \in Processes : op'[p].todo \subseteq op[p].todo
    BY <1>2, <1>3
  <2> QED
    BY <1>1, <2>1, <2>2, OthersNewborn
<1>8. \A t \in Sessions : UnlinkedIsOwned(t)'
  BY <1>1, <1>2, <1>3, IdleFields DEF LifeInv, UnlinkedIsOwned, Unlinked, Processes
<1>9. \A p \in Processes : CopyOK(op[p])' /\ Listed(op[p], stranded)'
  BY <1>1, <1>2, <1>3 DEF LifeInv, CopyOK, Listed, Reconcilable
<1>10. \A p \in Processes \ Callers : op'[p].at \notin NewSteps
  BY <1>3 DEF LifeInv
<1>11. CreatingIsInProgress'
  BY <1>1, <1>3, IdleFields DEF CreatingIsInProgress, InProgress, Working, Processes
<1> QED
  BY <1>5, <1>6, <1>7, <1>8, <1>9, <1>10, <1>11 DEF LifeInv

\* The row is added, or the record is registered: the creator goes on.
LEMMA CreatorStep ==
  ASSUME IInv, NEW c \in Callers, NEW s, s = op[c].id, CreateAdd(c) \/ CreateRegister(c)
  PROVE  LifeInv' /\ CreatingIsInProgress'
<1> DEFINE new == Row("creating", "none", FALSE, FALSE)
<1> USE DEF IInv
<1>1. c \in Processes /\ s \in Sessions /\ op[c].at \in {"adding", "registering"}
  BY OpFields DEF Processes, TypeInv, RowSteps, Steps, CreateAdd, CreateRegister
<1>2. \E step \in {"registering", "linking"} : Goto(c, step)
  BY DEF CreateAdd, CreateRegister
<1>3. /\ op'[c].at \in {"registering", "linking"} /\ op'[c].id = s /\ op'[c].todo = op[c].todo
      /\ \A p \in Processes \ {c} : op'[p] = op[p]
  BY <1>1, <1>2 DEF Goto, TypeInv, OpsOK, OpType
<1>4. stranded' = stranded /\ \A t \in Sessions \ {s} : row'[t] = row[t]
  BY DEF CreateAdd, CreateRegister, TypeInv, RowsOK
<1>5. row'[s] = new \/ (row'[s] = row[s] /\ row[s] \in {new, Gone})
  <2>1. CASE CreateAdd(c)
    BY <1>1, <2>1 DEF CreateAdd, TypeInv, RowsOK
  <2>2. CASE CreateRegister(c)
    <3>1. op[c].at = "registering" /\ row' = row
      BY <2>2 DEF CreateRegister
    <3> QED
      BY <1>1, <3>1 DEF LifeInv, Newborn, Creator, NewSteps
  <2> QED
    BY <2>1, <2>2
<1>6. new # NoRow /\ Gone # NoRow /\ new.status = "creating" /\ Gone.status = "gone"
      /\ ~new.linked /\ ~new.attached /\ ~Gone.linked /\ ~Gone.attached
  BY DEF NoRow, Gone, Row
<1> HIDE DEF new
<1>7. Creator(c, s) /\ Newborn(s)
  BY <1>1 DEF Creator, NewSteps, LifeInv
<1>8. /\ \A p \in Processes \ {c} : op[p].id = s => op[p].at \in DeleteSteps
      /\ \A p \in Processes : \A entry \in op[p].todo : entry.id # s
  BY <1>7 DEF Newborn
<1>9. row'[s] \in {new, Gone} /\ (row'[s].status = "creating" => row'[s] = new)
  BY <1>5, <1>6
<1>10. \A t \in Sessions : RowShape(t)'
  BY <1>1, <1>4, <1>6, <1>9 DEF LifeInv, RowShape, Stored
<1>11. \A t \in Sessions : Unborn(t)'
  <2>1. row'[s] # NoRow
    BY <1>6, <1>9
  <2> QED
    BY <1>1, <1>3, <1>4, <2>1 DEF LifeInv, Unborn
<1>12. Newborn(s)'
  <2>1. ASSUME NEW d \in Callers, Creator(d, s)'
        PROVE  d = c
    BY <1>1, <1>3, <1>8, <2>1 DEF Creator, NewSteps, DeleteSteps, Processes
  <2> QED
    BY <1>1, <1>3, <1>8, <1>9, <2>1 DEF Newborn, new
<1>13. ASSUME NEW t \in Sessions, t # s
       PROVE  Newborn(t)' /\ UnlinkedIsOwned(t)'
  <2>1. op[c].id # t /\ op'[c].id # t /\ op'[c].todo = op[c].todo /\ row'[t] = row[t]
    BY <1>3, <1>4, <1>13
  <2>2. Newborn(t)'
    <3>1. \A p \in Processes : op'[p].id = t => op'[p] = op[p]
      BY <1>3, <2>1
    <3>2. \A p \in Processes : op'[p].todo = op[p].todo
      BY <1>3
    <3> QED
      BY <2>1, <3>1, <3>2, OthersNewborn
  <2>3. UnlinkedIsOwned(t)'
    BY <1>1, <1>3, <1>4, <2>1 DEF LifeInv, UnlinkedIsOwned, Unlinked, Processes
  <2> QED
    BY <2>2, <2>3
<1>14. UnlinkedIsOwned(s)'
  BY <1>3 DEF UnlinkedIsOwned
<1>15. \A p \in Processes : CopyOK(op[p])' /\ Listed(op[p], stranded)'
  BY <1>1, <1>3, <1>4 DEF LifeInv, CopyOK, Listed, Reconcilable
<1>16. \A p \in Processes \ Callers : op'[p].at \notin NewSteps
  BY <1>3 DEF LifeInv
<1>17. CreatingIsInProgress'
  <2>1. InProgress(s)'
    BY <1>3 DEF InProgress, Working
  <2>2. ASSUME NEW t \in Sessions, t # s, InProgress(t)
        PROVE  InProgress(t)'
    BY <1>3, <2>2 DEF InProgress, Working, Processes
  <2> QED
    BY <1>4, <2>1, <2>2 DEF CreatingIsInProgress
<1> QED
  BY <1>10, <1>11, <1>12, <1>13, <1>14, <1>15, <1>16, <1>17 DEF LifeInv

LEMMA RecoveredStatus ==
  ASSUME RowsOK, NEW s \in Sessions
  PROVE  /\ Recovered(s).status # "creating"
         /\ Recovered(s).status \in {"none", "gone"} => Recovered(s) = row[s] /\ ~Stored(s)
<1> DEFINE r == IF row[s].status = "creating"
                THEN [row[s] EXCEPT !.status = "broken", !.err = "other"] ELSE row[s]
<1>1. r \in RowType /\ r.status # "creating" /\ (r.status \in {"none", "gone"} => r = row[s])
  BY DEF RowsOK, RowType
<1>2. Recovered(s) = IF Reconcilable(r) THEN Reconciled(r, s \notin unhealthy, Alive(s, r)) ELSE r
  BY DEF Recovered
<1> HIDE DEF r
<1>3. Reconcilable(r) => Reconcilable(Reconciled(r, s \notin unhealthy, Alive(s, r)))
  BY <1>1 DEF Reconcilable, Reconciled, RowType
<1> QED
  BY <1>1, <1>2, <1>3 DEF Reconcilable, Stored

LEMMA RestartStep ==
  ASSUME IInv, Restart
  PROVE  LifeInv' /\ CreatingIsInProgress'
<1> USE DEF IInv
<1>1. /\ \A s \in Sessions : row'[s] = Recovered(s)
      /\ \A p \in Processes : op'[p] = Idle
      /\ stranded' = {}
  BY DEF Restart
<1>2. ASSUME NEW s \in Sessions
      PROVE  row'[s].status # "creating" /\ RowShape(s)'
  <2>1. /\ row'[s].status # "creating"
        /\ row'[s].status \in {"none", "gone"} => row'[s] = row[s] /\ ~Stored(s)
    BY <1>1, RecoveredStatus DEF TypeInv
  <2> QED
    BY <2>1 DEF LifeInv, RowShape, Stored
<1>3. \A s \in Sessions : Unborn(s)' /\ Newborn(s)'
  BY <1>1, IdleFields DEF Unborn, Newborn, Creator, Processes
<1>4. \A s \in Sessions : UnlinkedIsOwned(s)'
  BY <1>2 DEF UnlinkedIsOwned, Unlinked
<1>5. \A p \in Processes : CopyOK(op[p])' /\ Listed(op[p], stranded)'
  BY <1>1, IdleFields DEF CopyOK, Listed
<1>6. \A p \in Processes \ Callers : op'[p].at \notin NewSteps
  BY <1>1, IdleFields DEF NewSteps
<1>7. CreatingIsInProgress'
  BY <1>2 DEF CreatingIsInProgress
<1> QED
  BY <1>2, <1>3, <1>4, <1>5, <1>6, <1>7 DEF LifeInv
-----------------------------------------------------------------------------
LEMMA IInvStep == IInv /\ [Next]_vars => IInv'
<1> SUFFICES ASSUME IInv, [Next]_vars
             PROVE  IInv'
  OBVIOUS
<1>1. TypeInv' /\ OneRowPerRecord'
  BY TypeStep, LinksStep DEF IInv
<1>2. \A p \in Processes : Step(p) => LifeInv' /\ CreatingIsInProgress'
  BY <1>1, OrdinaryStep
<1>3. Callers \subseteq Processes /\ Follower \in Processes /\ Job \in Processes
  BY DEF Processes
<1>4. LifeInv' /\ CreatingIsInProgress'
  <2>1. ASSUME NEW c \in Callers, NEW s \in Sessions, CreateCheck(c, s)
        PROVE  LifeInv' /\ CreatingIsInProgress'
    BY <2>1, CheckStep
  <2>2. ASSUME NEW c \in Callers, NEW s \in Sessions,
               \/ RepairLoad(c, s) \/ ActivateLoad(c, s) \/ ArchiveLoad(c, s)
               \/ \E force \in BOOLEAN : DeleteLoad(c, s, force)
        PROVE  LifeInv' /\ CreatingIsInProgress'
    BY <1>2, <1>3, <2>2, LoadSteps
  <2>3. ASSUME NEW c \in Callers, NEW n \in Names,
               ClientHook(c, n, "attached") \/ ClientHook(c, n, "detached") \/ ClientChanged(c, n)
        PROVE  LifeInv' /\ CreatingIsInProgress'
    BY <1>2, <1>3, <2>3, ClientSteps
  <2>4. CASE \/ \E n \in Names : UserOpens(n) \/ UserCloses(n)
             \/ \E s \in Sessions : GitChanges(s)
             \/ EventsLost
             \/ UNCHANGED vars
    <3>1. Still
      BY <2>4 DEF Still, UserOpens, UserCloses, GitChanges, EventsLost, vars
    <3> QED
      BY <3>1, StillStep
  <2>5. CASE Restart
    BY <2>5, RestartStep
  <2>6. CASE Environment
    BY <2>1, <2>2, <2>3, <2>4, <2>5, <2>6 DEF Environment
  <2>7. ASSUME NEW c \in Callers, Serve(c) \/ HookWrite(c)
        PROVE  LifeInv' /\ CreatingIsInProgress'
    <3>1. CASE CreateAdd(c) \/ CreateRegister(c)
      BY <3>1, CreatorStep
    <3>2. CASE ~(CreateAdd(c) \/ CreateRegister(c))
      <4>1. Step(c)
        BY <1>3, <2>7, <3>2, CreateSteps, SetupSteps, RepairSteps, ActivateSteps, RemoveSteps, ChangeSteps,
           HookSteps DEF Serve, Create
      <4> QED
        BY <1>2, <1>3, <4>1
    <3> QED
      BY <3>1, <3>2
  <2>8. CASE Follow \/ Reconcile(Job)
    <3>1. Step(Follower) \/ Step(Job) \/ Still
      BY <1>3, <2>8, EventSteps, HookSteps DEF Follow
    <3> QED
      BY <1>2, <1>3, <3>1, StillStep
  <2>9. ASSUME NEW s \in Sessions, JobVisit(s)
        PROVE  LifeInv' /\ CreatingIsInProgress'
    BY <1>2, <1>3, <2>9, VisitStep
  <2> QED
    BY <2>4, <2>6, <2>7, <2>8, <2>9 DEF Next
<1> QED
  BY <1>1, <1>4 DEF IInv

LEMMA IInvInit == Init => IInv
<1> SUFFICES ASSUME Init
             PROVE  IInv
  OBVIOUS
<1>1. \A s \in Sessions : row[s] = NoRow
  BY DEF Init
<1>2. \A p \in Processes : op[p] = Idle
  BY DEF Init
<1>3. NoRow.status = "none" /\ ~NoRow.linked /\ ~NoRow.attached
  BY DEF NoRow, Row
<1>4. \A s \in Sessions : RowShape(s) /\ Unborn(s) /\ Newborn(s)
  BY <1>1, <1>2, <1>3, IdleFields DEF RowShape, Unborn, Newborn, Creator, Processes
<1>5. \A s \in Sessions : UnlinkedIsOwned(s)
  BY <1>1, <1>3 DEF UnlinkedIsOwned, Unlinked
<1>6. \A p \in Processes : CopyOK(op[p]) /\ Listed(op[p], stranded)
  BY <1>2, IdleFields
<1>7. \A p \in Processes \ Callers : op[p].at \notin NewSteps
  BY <1>2, IdleFields DEF NewSteps
<1>8. OneRowPerRecord /\ CreatingIsInProgress
  BY <1>1, <1>3 DEF OneRowPerRecord, CreatingIsInProgress
<1> QED
  BY <1>4, <1>5, <1>6, <1>7, <1>8, TypeInit DEF IInv, LifeInv

\* A row in status creating is being created or set up, whatever requests,
\* hooks, events, reconciliations and restarts there are at the same time, but
\* for the rows that the three known cases have stranded.
THEOREM CreatingGoesOn == Spec => []CreatingIsInProgress
<1>1. Spec => []IInv
  BY IInvInit, IInvStep, PTL DEF Spec
<1>2. IInv => CreatingIsInProgress
  BY DEF IInv
<1> QED
  BY <1>1, <1>2, PTL
=============================================================================
