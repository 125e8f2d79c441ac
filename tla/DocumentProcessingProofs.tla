---------------------- MODULE DocumentProcessingProofs ----------------------
(***************************************************************************)
(* Proofs about DocumentProcessing for every number of requests beside the *)
(* worker: type correctness, that a document's text is stored once, that a *)
(* processed document has it, and that no document is forgotten.           *)
(***************************************************************************)
EXTENDS DocumentProcessing, TLAPS

-----------------------------------------------------------------------------
(* What every action is shown to preserve.                                 *)

DocRow == [status : Statuses \cup {"absent", "removed"}, kind : Kinds, mode : Modes,
           ref : BOOLEAN]
Hows == {"none", "dispatch", "reprocess", "delete", "sweep", "reconcile"}
Execution == [stage : Stages, ref : BOOLEAN, got : BOOLEAN, last : BOOLEAN, how : Hows]

DocOK == doc \in DocRow /\ bytes \in BOOLEAN
DerivedOK == derived \in [spans : 0..MaxCopies, chunks : 0..MaxCopies]
RegistryOK == /\ registry \in Statuses \cup {"none", "uploaded"}
              /\ snapshot \in Statuses \cup {"none"}
ExOK == ex \in [Processes -> Execution]
HistoryOK == <<stolen, abandoned, superseded>> \in BOOLEAN \X BOOLEAN \X BOOLEAN

LEMMA TypeParts ==
    /\ TypeOK <=> DocOK /\ DerivedOK /\ RegistryOK /\ ExOK /\ HistoryOK
    /\ TypeOK' <=> DocOK' /\ DerivedOK' /\ RegistryOK' /\ ExOK' /\ HistoryOK'
<1>1. TypeOK <=> DocOK /\ DerivedOK /\ RegistryOK /\ ExOK /\ HistoryOK
  BY DEF TypeOK, DocOK, DocRow, DerivedOK, RegistryOK, ExOK, Execution, Hows, HistoryOK
<1>2. TypeOK' <=> DocOK' /\ DerivedOK' /\ RegistryOK' /\ ExOK' /\ HistoryOK'
  BY DEF TypeOK, DocOK, DocRow, DerivedOK, RegistryOK, ExOK, Execution, Hows, HistoryOK
<1>3. QED
  BY <1>1, <1>2

\* What stages say of how an execution came about, and of the bytes it holds;
\* and nobody is at a document that is not there yet.
HowOK == \A p \in Processes :
    /\ ex[p].stage \in {"record", "claim"} => ex[p].how = "dispatch"
    /\ ex[p].stage \in {"purge", "mark"} => ex[p].how = "reprocess" /\ ex[p].got
    /\ ex[p].stage \in {"load", "resolve"} => ex[p].how \in {"dispatch", "reprocess"}
AbsentOK == doc.status = "absent" =>
    /\ \A p \in Processes : ex[p].stage \in {"idle", "sweep"}
    /\ derived = [spans |-> 0, chunks |-> 0]

TypeInv == TypeOK /\ HowOK /\ AbsentOK

-----------------------------------------------------------------------------
(* Where each action takes its execution; the others stand still.          *)

Others(p) == ExOK' /\ \A o \in Processes : o # p => ex'[o] = ex[o]
To(p, stage) == /\ Others(p) /\ ex'[p].stage = stage
                /\ ex'[p].how = ex[p].how /\ (ex[p].got => ex'[p].got)
Leaves(p) == Others(p) /\ ex'[p] = Idle
Starts(p, stage, how) == Others(p) /\ ex'[p].stage = stage /\ ex'[p].how = how

LEMMA IdleIs == Idle \in Execution /\ Idle.stage = "idle" /\ Idle.how = "none"
BY DEF Idle, Execution, Stages, Hows

LEMMA GoesTo ==
    ASSUME ExOK, NEW p \in Processes, NEW stage \in Stages, Goes(p, stage)
    PROVE  To(p, stage)
BY DEF ExOK, Execution, Goes, To, Others

LEMMA LastTo ==
    ASSUME ExOK, NEW p \in Processes, NEW stage \in Stages,
           ex' = [ex EXCEPT ![p] = [@ EXCEPT !.stage = stage, !.last = TRUE]]
    PROVE  To(p, stage)
BY DEF ExOK, Execution, To, Others

LEMMA DoneLeaves ==
    ASSUME ExOK, NEW p \in Processes, Done(p)
    PROVE  Leaves(p)
BY IdleIs DEF ExOK, Done, Leaves, Others

LEMMA BeginsStarts ==
    ASSUME ExOK, NEW p \in Processes, NEW stage \in Stages, NEW how \in Hows,
           Begins(p, stage, how)
    PROVE  Starts(p, stage, how)
<1> DEFINE r == [Idle EXCEPT !.stage = stage, !.how = how]
<1>1. r \in Execution /\ r.stage = stage /\ r.how = how
  BY DEF Idle, Execution
<1>2. ex' = [ex EXCEPT ![p] = r]
  BY DEF Begins
<1> HIDE DEF r
<1>3. QED
  BY <1>1, <1>2 DEF ExOK, Starts, Others

LEMMA StageNames ==
    {"record", "load", "claim", "resolve", "purge", "mark", "extract", "registered",
     "chunk", "release", "unname", "failing", "failed", "deleted", "wipe", "sweep",
     "reconcile"} \subseteq Stages
BY DEF Stages

\* process_document.
LEMMA ProcessingTable ==
    ASSUME DocOK, ExOK, NEW p \in Processes
    PROVE  /\ Load(p) => IF HasRow THEN To(p, AfterLoad(ex[p].how)) ELSE Leaves(p)
           /\ Claim(p) => IF Claimable THEN To(p, "resolve") ELSE Leaves(p)
           /\ Resolve(p) => /\ To(p, IF ex[p].how = "reprocess" THEN "purge" ELSE "extract")
                            /\ ex'[p].got
           /\ Unresolvable(p) => IF Refused(ex[p].how) THEN Leaves(p) ELSE To(p, "release")
           /\ Purge(p) => To(p, "mark")
           /\ Mark(p) => To(p, "extract")
           /\ StoreSpans(p) => To(p, "registered")
           /\ ExtractFails(p) => To(p, "failing")
           /\ RegisterProcessed(p) => To(p, "chunk")
           /\ StoreChunks(p) => To(p, "release")
           /\ Release(p) => IF doc.mode = "ephemeral" THEN To(p, "unname") ELSE Leaves(p)
           /\ Unname(p) => Leaves(p)
           /\ UnnameFails(p) => To(p, "failing")
           /\ WriteFailed(p) => To(p, "failed")
           /\ RegisterFailed(p) => To(p, "release")
           /\ Dies(p) => Leaves(p)
<1> USE StageNames
<1>1. Load(p) => IF HasRow THEN To(p, AfterLoad(ex[p].how)) ELSE Leaves(p)
  <2>1. ASSUME HasRow, Load(p) PROVE To(p, AfterLoad(ex[p].how))
    <3> DEFINE stage == AfterLoad(ex[p].how)
    <3>1. ex' = [ex EXCEPT ![p] = [@ EXCEPT !.stage = stage, !.ref = doc.ref]]
      BY <2>1 DEF Load
    <3>2. stage \in Stages /\ doc.ref \in BOOLEAN
      BY DEF AfterLoad, DocOK, DocRow
    <3> HIDE DEF stage
    <3>3. To(p, stage)
      BY <3>1, <3>2 DEF ExOK, Execution, To, Others
    <3>4. QED
      BY <3>3 DEF stage
  <2>2. QED
    BY <2>1, DoneLeaves DEF Load, Done
<1>2. Claim(p) => IF Claimable THEN To(p, "resolve") ELSE Leaves(p)
  BY GoesTo, DoneLeaves DEF Claim
<1>3. Resolve(p) => /\ To(p, IF ex[p].how = "reprocess" THEN "purge" ELSE "extract")
                    /\ ex'[p].got
  <2> DEFINE stage == IF ex[p].how = "reprocess" THEN "purge" ELSE "extract"
  <2>1. SUFFICES ASSUME Resolve(p) PROVE To(p, stage) /\ ex'[p].got
    OBVIOUS
  <2>2. ex' = [ex EXCEPT ![p] = [@ EXCEPT !.got = TRUE, !.stage = stage]] /\ stage \in Stages
    BY <2>1 DEF Resolve
  <2> HIDE DEF stage
  <2>3. QED
    BY <2>2 DEF ExOK, Execution, To, Others
<1>4. Unresolvable(p) => IF Refused(ex[p].how) THEN Leaves(p) ELSE To(p, "release")
  BY LastTo, DoneLeaves DEF Unresolvable
<1>5. /\ Purge(p) => To(p, "mark")
      /\ Mark(p) => To(p, "extract")
      /\ StoreSpans(p) => To(p, "registered")
      /\ ExtractFails(p) => To(p, "failing")
      /\ RegisterProcessed(p) => To(p, "chunk")
      /\ StoreChunks(p) => To(p, "release")
  BY GoesTo DEF Purge, Mark, StoreSpans, ExtractFails, AfterFailure, RegisterProcessed, StoreChunks
<1>6. Release(p) => IF doc.mode = "ephemeral" THEN To(p, "unname") ELSE Leaves(p)
  BY GoesTo, DoneLeaves DEF Release
<1>7. (Unname(p) => Leaves(p)) /\ (Dies(p) => Leaves(p))
  BY DoneLeaves DEF Unname, Dies
<1>8. (UnnameFails(p) => To(p, "failing")) /\ (WriteFailed(p) => To(p, "failed"))
  BY GoesTo DEF UnnameFails, WriteFailed
<1>9. RegisterFailed(p) => To(p, "release")
  BY LastTo DEF RegisterFailed
<1>10. QED
  BY <1>1, <1>2, <1>3, <1>4, <1>5, <1>6, <1>7, <1>8, <1>9

\* The requests, and the worker's own steps.
LEMMA RequestTable ==
    ASSUME ExOK, NEW q \in Requests
    PROVE  /\ q \in Processes
           /\ Ingest(q) => Starts(q, "record", "dispatch")
           /\ RecordIngestion(q) => To(q, "load")
           /\ Dispatch(q) => Starts(q, "load", "dispatch")
           /\ Reprocess(q) => Starts(q, "load", "reprocess")
           /\ DeleteDocument(q) => Starts(q, "deleted", "delete")
           /\ RegisterDeleted(q) => Leaves(q)
           /\ WipeObject(q) => Starts(q, "wipe", "delete")
           /\ HardDelete(q) => Leaves(q)
<1>1. q \in Processes /\ {"dispatch", "reprocess", "delete"} \subseteq Hows
  BY DEF Processes, Hows
<1>2. QED
  BY <1>1, StageNames, BeginsStarts, GoesTo, DoneLeaves
  DEF Ingest, RecordIngestion, Dispatch, Reprocess, DeleteDocument, RegisterDeleted, WipeObject,
      HardDelete

LEMMA WorkerTable ==
    ASSUME ExOK
    PROVE  /\ Worker \in Processes
           /\ Recovered => Starts(Worker, "sweep", "sweep")
           /\ Sweep => \/ Starts(Worker, "load", "dispatch") /\ doc.status = "processing"
                       \/ Leaves(Worker) /\ UNCHANGED <<doc, stolen>>
           /\ ReconcileRead => Starts(Worker, "reconcile", "reconcile")
           /\ ReconcileWrite => Leaves(Worker)
<1>1. Worker \in Processes /\ {"dispatch", "sweep", "reconcile"} \subseteq Hows
  BY DEF Processes, Hows
<1>2. QED
  BY <1>1, StageNames, BeginsStarts, DoneLeaves DEF Recovered, Sweep, ReconcileRead, ReconcileWrite

-----------------------------------------------------------------------------
(* The row.                                                                *)

LEMMA SetStatusIs ==
    ASSUME DocOK, NEW status \in Statuses, SetStatus(status)
    PROVE  /\ doc' \in DocRow
           /\ doc'.status = IF HasRow THEN status ELSE doc.status
           /\ doc'.mode = doc.mode /\ doc'.kind = doc.kind /\ doc'.ref = doc.ref
BY DEF DocOK, DocRow, SetStatus

LEMMA StatusNames == {"pending", "processing", "processed", "failed", "deleted"} = Statuses
BY DEF Statuses

LEMMA RegistersType ==
    ASSUME RegistryOK, NEW status \in Statuses, Registers(status), UNCHANGED snapshot
    PROVE  RegistryOK'
BY DEF RegistryOK, Registers

LEMMA Zero == [spans |-> 0, chunks |-> 0] \in [spans : 0..MaxCopies, chunks : 0..MaxCopies]
BY CopiesAssumption

LEMMA ProcessingType ==
    ASSUME TypeInv, NEW p \in Processes, Processing(p) \/ Dies(p)
    PROVE  TypeOK'
<1>1. DocOK /\ DerivedOK /\ RegistryOK /\ ExOK /\ HistoryOK
  BY TypeParts DEF TypeInv
<1>2. ExOK'
  BY <1>1, ProcessingTable DEF Processing, To, Leaves, Others
<1>3. HistoryOK'
  BY <1>1 DEF HistoryOK, Processing, Load, Claim, Resolve, Unresolvable, Purge, Mark, StoreSpans,
     ExtractFails, RegisterProcessed, StoreChunks, Release, Unname, UnnameFails, WriteFailed,
     RegisterFailed, Dies, history
<1>4. RegistryOK'
  <2>1. CASE RegisterProcessed(p)
    BY <1>1, <2>1, RegistersType, StatusNames DEF RegisterProcessed
  <2>2. CASE RegisterFailed(p)
    BY <1>1, <2>2, RegistersType, StatusNames DEF RegisterFailed
  <2>3. CASE UNCHANGED <<registry, snapshot>>
    BY <1>1, <2>3 DEF RegistryOK
  <2>4. QED
    BY <2>1, <2>2, <2>3 DEF Processing, Load, Claim, Resolve, Unresolvable, Purge, Mark, StoreSpans,
       ExtractFails, StoreChunks, Release, Unname, UnnameFails, WriteFailed, Dies
<1>5. DerivedOK'
  <2>1. CASE StoreSpans(p)
    BY <1>1, <2>1, CopiesAssumption DEF StoreSpans, DerivedOK
  <2>2. CASE StoreChunks(p)
    BY <1>1, <2>2, CopiesAssumption DEF StoreChunks, DerivedOK
  <2>3. CASE Purge(p)
    BY <2>3, Zero DEF Purge, DerivedOK
  <2>4. CASE UNCHANGED derived
    BY <1>1, <2>4 DEF DerivedOK
  <2>5. QED
    BY <2>1, <2>2, <2>3, <2>4 DEF Processing, Load, Claim, Resolve, Unresolvable, Mark, ExtractFails,
       RegisterProcessed, Release, Unname, UnnameFails, WriteFailed, RegisterFailed, Dies, rows
<1>6. DocOK'
  <2>1. bytes' \in BOOLEAN
    BY <1>1 DEF DocOK, Processing, Load, Claim, Resolve, Unresolvable, Purge, Mark, StoreSpans,
       ExtractFails, RegisterProcessed, StoreChunks, Release, Unname, UnnameFails, WriteFailed,
       RegisterFailed, Dies
  <2>2. ASSUME NEW status \in Statuses, SetStatus(status) PROVE doc' \in DocRow
    BY <1>1, <2>2, SetStatusIs
  <2>3. CASE Claim(p) \/ Unresolvable(p) \/ Mark(p) \/ StoreSpans(p) \/ WriteFailed(p)
    BY <1>1, <2>1, <2>2, <2>3, StatusNames
    DEF Claim, Unresolvable, Mark, StoreSpans, WriteFailed, DocOK
  <2>4. CASE Unname(p)
    BY <1>1, <2>1, <2>4 DEF Unname, DocOK, DocRow
  <2>5. CASE UNCHANGED doc
    BY <1>1, <2>1, <2>5 DEF DocOK
  <2>6. QED
    BY <2>3, <2>4, <2>5 DEF Processing, Load, Resolve, Purge, ExtractFails, RegisterProcessed,
       StoreChunks, Release, UnnameFails, RegisterFailed, Dies, rows
<1>7. QED
  BY <1>2, <1>3, <1>4, <1>5, <1>6, TypeParts

LEMMA RequestType ==
    ASSUME TypeInv, NEW q \in Requests, RequestStep(q)
    PROVE  TypeOK'
<1>1. DocOK /\ DerivedOK /\ RegistryOK /\ ExOK /\ HistoryOK
  BY TypeParts DEF TypeInv
<1>2. ExOK'
  BY <1>1, RequestTable DEF RequestStep, To, Leaves, Starts, Others
<1>3. HistoryOK'
  BY <1>1 DEF HistoryOK, RequestStep, Ingest, RecordIngestion, Dispatch, Reprocess, DeleteDocument,
     RegisterDeleted, WipeObject, HardDelete, history
<1>4. RegistryOK'
  <2>1. CASE RegisterDeleted(q)
    BY <1>1, <2>1, RegistersType, StatusNames DEF RegisterDeleted
  <2>2. CASE ~RegisterDeleted(q)
    BY <1>1, <2>2 DEF RegistryOK, RequestStep, Ingest, RecordIngestion, Dispatch, Reprocess,
       DeleteDocument, WipeObject, HardDelete
  <2>3. QED
    BY <2>1, <2>2
<1>5. DerivedOK'
  BY <1>1, Zero DEF DerivedOK, RequestStep, Ingest, RecordIngestion, Dispatch, Reprocess,
     DeleteDocument, RegisterDeleted, WipeObject, HardDelete, rows
<1>6. DocOK'
  <2>1. CASE Ingest(q)
    BY <2>1 DEF Ingest, Stored, DocOK, DocRow, Statuses, Modes
  <2>2. CASE DeleteDocument(q)
    <3>1. doc' \in DocRow
      BY <1>1, <2>2, SetStatusIs, StatusNames DEF DeleteDocument
    <3>2. QED
      BY <1>1, <2>2, <3>1 DEF DeleteDocument, DocOK
  <2>3. CASE HardDelete(q)
    BY <1>1, <2>3 DEF HardDelete, DocOK, DocRow
  <2>4. CASE RecordIngestion(q) \/ Dispatch(q) \/ Reprocess(q) \/ RegisterDeleted(q) \/ WipeObject(q)
    BY <1>1, <2>4
    DEF RecordIngestion, Dispatch, Reprocess, RegisterDeleted, WipeObject, DocOK, rows
  <2>5. QED
    BY <2>1, <2>2, <2>3, <2>4 DEF RequestStep
<1>7. QED
  BY <1>2, <1>3, <1>4, <1>5, <1>6, TypeParts

LEMMA SupersedeType ==
    ASSUME TypeInv, Supersede
    PROVE  TypeOK'
BY TypeParts, Zero
DEF TypeInv, Supersede, DocOK, DerivedOK, RegistryOK, ExOK, HistoryOK

LEMMA WorkerType ==
    ASSUME TypeInv, WorkerStep
    PROVE  TypeOK'
<1>1. DocOK /\ DerivedOK /\ RegistryOK /\ ExOK /\ HistoryOK
  BY TypeParts DEF TypeInv
<1>2. ExOK'
  BY <1>1, WorkerTable DEF WorkerStep, Leaves, Starts, Others
<1>3. HistoryOK' /\ DerivedOK'
  BY <1>1 DEF HistoryOK, DerivedOK, WorkerStep, Recovered, Sweep, ReconcileRead, ReconcileWrite,
     history, rows
<1>4. RegistryOK'
  BY <1>1 DEF RegistryOK, WorkerStep, Recovered, Sweep, ReconcileRead, ReconcileWrite, Upserted, HasRow
<1>5. DocOK'
  <2>1. CASE Sweep
    <3>1. doc' \in DocRow
      BY <1>1, <2>1, SetStatusIs, StatusNames DEF Sweep, DocOK
    <3>2. QED
      BY <1>1, <2>1, <3>1 DEF Sweep, DocOK
  <2>2. CASE Recovered \/ ReconcileRead \/ ReconcileWrite
    BY <1>1, <2>2 DEF Recovered, ReconcileRead, ReconcileWrite, DocOK, rows
  <2>3. QED
    BY <2>1, <2>2 DEF WorkerStep
<1>6. QED
  BY <1>2, <1>3, <1>4, <1>5, TypeParts

\* What each action does to the row and to what is stored.
Keeps == doc' = doc /\ derived' = derived
Sets(status) == /\ doc'.status = (IF HasRow THEN status ELSE doc.status)
                /\ doc'.mode = doc.mode /\ doc'.ref = doc.ref
Nothing == [spans |-> 0, chunks |-> 0]

LEMMA ProcessingRow ==
    ASSUME DocOK, NEW p \in Processes
    PROVE  /\ Load(p) \/ Resolve(p) \/ ExtractFails(p) \/ RegisterProcessed(p) \/ Release(p)
                \/ UnnameFails(p) \/ RegisterFailed(p) \/ Dies(p) => Keeps
           /\ Claim(p) => IF Claimable THEN Sets("processing") /\ derived' = derived ELSE Keeps
           /\ Unresolvable(p) => IF Refused(ex[p].how) THEN Keeps
                                 ELSE Sets("failed") /\ derived' = derived
           /\ Purge(p) => doc' = doc /\ derived' = Nothing
           /\ Mark(p) => Sets("processing") /\ derived' = derived
           /\ StoreSpans(p) => Sets("processed") /\ derived' = [derived EXCEPT !.spans = @ + 1]
           /\ StoreChunks(p) =>
                doc' = doc /\ derived' \in {derived, [derived EXCEPT !.chunks = @ + 1]}
           /\ Unname(p) => /\ doc'.status = doc.status /\ doc'.mode = doc.mode /\ ~doc'.ref
                           /\ derived' = derived
           /\ WriteFailed(p) => Sets("failed") /\ derived' = derived
<1>1. Load(p) \/ Resolve(p) \/ ExtractFails(p) \/ RegisterProcessed(p) \/ Release(p)
        \/ UnnameFails(p) \/ RegisterFailed(p) \/ Dies(p) => Keeps
  BY DEF Load, Resolve, ExtractFails, RegisterProcessed, Release, UnnameFails, RegisterFailed, Dies,
     Keeps, rows
<1>2. ASSUME NEW status \in Statuses, SetStatus(status) PROVE Sets(status)
  BY <1>2, SetStatusIs DEF Sets
<1>3. Claim(p) => IF Claimable THEN Sets("processing") /\ derived' = derived ELSE Keeps
  BY <1>2, StatusNames DEF Claim, Keeps
<1>4. Unresolvable(p) => IF Refused(ex[p].how) THEN Keeps ELSE Sets("failed") /\ derived' = derived
  BY <1>2, StatusNames DEF Unresolvable, Keeps
<1>5. Purge(p) => doc' = doc /\ derived' = Nothing
  BY DEF Purge, Nothing
<1>6. /\ Mark(p) => Sets("processing") /\ derived' = derived
      /\ StoreSpans(p) => Sets("processed") /\ derived' = [derived EXCEPT !.spans = @ + 1]
      /\ WriteFailed(p) => Sets("failed") /\ derived' = derived
  BY <1>2, StatusNames DEF Mark, StoreSpans, WriteFailed
<1>7. StoreChunks(p) => doc' = doc /\ derived' \in {derived, [derived EXCEPT !.chunks = @ + 1]}
  BY DEF StoreChunks
<1>8. Unname(p) => /\ doc'.status = doc.status /\ doc'.mode = doc.mode /\ ~doc'.ref
                   /\ derived' = derived
  BY DEF Unname, DocOK, DocRow
<1>9. QED
  BY <1>1, <1>3, <1>4, <1>5, <1>6, <1>7, <1>8

LEMMA RequestRow ==
    ASSUME DocOK, NEW q \in Requests
    PROVE  /\ Ingest(q) => /\ doc.status = "absent" /\ doc'.status = "pending"
                           /\ derived' = derived
           /\ RecordIngestion(q) \/ Dispatch(q) \/ Reprocess(q) \/ RegisterDeleted(q)
                \/ WipeObject(q) => Keeps
           /\ DeleteDocument(q) => doc'.status = "deleted" /\ derived' = Nothing
           /\ HardDelete(q) => doc'.status = "removed" /\ derived' = Nothing
<1>1. Ingest(q) => doc.status = "absent" /\ doc'.status = "pending" /\ derived' = derived
  BY DEF Ingest
<1>3. HardDelete(q) => doc'.status = "removed" /\ derived' = Nothing
  BY DEF HardDelete, DocOK, DocRow, Nothing
<1>4. RecordIngestion(q) \/ Dispatch(q) \/ Reprocess(q) \/ RegisterDeleted(q)
        \/ WipeObject(q) => Keeps
  BY DEF RecordIngestion, Dispatch, Reprocess, RegisterDeleted, WipeObject, Keeps, rows
<1>2. DeleteDocument(q) => doc'.status = "deleted" /\ derived' = Nothing
  BY SetStatusIs, StatusNames DEF DeleteDocument, Nothing
<1>5. QED
  BY <1>1, <1>2, <1>3, <1>4

LEMMA WorkerRow ==
    ASSUME DocOK, ExOK
    PROVE  /\ Recovered \/ ReconcileRead \/ ReconcileWrite => Keeps
           /\ Sweep => \/ /\ doc.status = "processing" /\ Sets("pending") /\ derived' = derived
                          /\ Starts(Worker, "load", "dispatch")
                          /\ stolen' = (stolen \/ Holders # {})
                       \/ Keeps /\ Leaves(Worker) /\ stolen' = stolen
<1>1. Recovered \/ ReconcileRead \/ ReconcileWrite => Keeps
  BY DEF Recovered, ReconcileRead, ReconcileWrite, Keeps, rows
<1>2. Worker \in Processes /\ "dispatch" \in Hows
  BY DEF Processes, Hows
<1>3. ASSUME Sweep
      PROVE  \/ /\ doc.status = "processing" /\ Sets("pending") /\ derived' = derived
                /\ Starts(Worker, "load", "dispatch")
                /\ stolen' = (stolen \/ Holders # {})
             \/ Keeps /\ Leaves(Worker) /\ stolen' = stolen
  <2>1. CASE doc.status = "processing" /\ SetStatus("pending")
             /\ stolen' = (stolen \/ Holders # {}) /\ Begins(Worker, "load", "dispatch")
    <3>1. Sets("pending")
      BY <2>1, SetStatusIs, StatusNames DEF Sets
    <3>2. Starts(Worker, "load", "dispatch")
      BY <1>2, <2>1, BeginsStarts, StageNames
    <3>3. QED
      BY <1>3, <2>1, <3>1, <3>2 DEF Sweep
  <2>2. CASE UNCHANGED <<doc, stolen>> /\ Done(Worker)
    BY <1>2, <1>3, <2>2, DoneLeaves DEF Sweep, Keeps
  <2>3. QED
    BY <1>3, <2>1, <2>2 DEF Sweep
<1>4. QED
  BY <1>1, <1>3

LEMMA NeedsStage ==
    ASSUME NEW p
    PROVE  /\ Load(p) => ex[p].stage = "load"
           /\ Claim(p) => ex[p].stage = "claim"
           /\ Resolve(p) \/ Unresolvable(p) => ex[p].stage = "resolve"
           /\ Purge(p) => ex[p].stage = "purge"
           /\ Mark(p) => ex[p].stage = "mark"
           /\ StoreSpans(p) => ex[p].stage = "extract" /\ HasRow
           /\ ExtractFails(p) => ex[p].stage = "extract"
           /\ RegisterProcessed(p) => ex[p].stage = "registered"
           /\ StoreChunks(p) => ex[p].stage = "chunk"
           /\ Release(p) => ex[p].stage = "release"
           /\ Unname(p) \/ UnnameFails(p) => ex[p].stage = "unname"
           /\ WriteFailed(p) => ex[p].stage = "failing"
           /\ RegisterFailed(p) => ex[p].stage = "failed"
           /\ RecordIngestion(p) => ex[p].stage = "record"
           /\ Ingest(p) \/ Dispatch(p) \/ Reprocess(p) \/ DeleteDocument(p) \/ WipeObject(p)
                => ex[p].stage = "idle"
           /\ Dispatch(p) \/ Reprocess(p) \/ DeleteDocument(p) \/ WipeObject(p) => HasRow
           /\ RegisterDeleted(p) => ex[p].stage = "deleted"
           /\ HardDelete(p) => ex[p].stage = "wipe"
           /\ Recovered \/ ReconcileRead => ex[Worker].stage = "idle"
           /\ ReconcileRead => HasRow
           /\ Sweep => ex[Worker].stage = "sweep"
           /\ ReconcileWrite => ex[Worker].stage = "reconcile"
BY DEF Load, Claim, Resolve, Unresolvable, Purge, Mark, StoreSpans, ExtractFails, RegisterProcessed,
   StoreChunks, Release, Unname, UnnameFails, WriteFailed, RegisterFailed, RecordIngestion, Ingest,
   Dispatch, Reprocess, DeleteDocument, WipeObject, RegisterDeleted, HardDelete, Recovered, Sweep,
   ReconcileRead, ReconcileWrite

-----------------------------------------------------------------------------
(* Type correctness.                                                       *)

HowOf(e) ==
    /\ e.stage \in {"record", "claim"} => e.how = "dispatch"
    /\ e.stage \in {"purge", "mark"} => e.how = "reprocess" /\ e.got
    /\ e.stage \in {"load", "resolve"} => e.how \in {"dispatch", "reprocess"}

LEMMA HowByOne ==
    ASSUME HowOK, NEW p \in Processes, Others(p), HowOf(ex'[p])
    PROVE  HowOK'
BY DEF HowOK, HowOf, Others

LEMMA StepHow ==
    ASSUME TypeInv, Next
    PROVE  HowOK'
<1>1. DocOK /\ ExOK /\ HowOK
  BY TypeParts DEF TypeInv
<1>2. ASSUME NEW p \in Processes, Processing(p) \/ Dies(p) PROVE HowOK'
  <2>1. HowOf(ex[p])
    BY <1>1 DEF HowOK, HowOf
  <2>2. ASSUME Leaves(p) PROVE HowOf(ex'[p]) /\ Others(p)
    BY <2>2, IdleIs DEF Leaves, HowOf
  <2>3. HowOf(ex'[p]) /\ Others(p)
    BY <1>1, <1>2, <2>1, <2>2, ProcessingTable, NeedsStage
    DEF Processing, To, HowOf, AfterLoad
  <2>4. QED
    BY <1>1, <2>3, HowByOne
<1>3. ASSUME NEW q \in Requests, RequestStep(q) PROVE HowOK'
  <2>1. q \in Processes /\ HowOf(ex[q])
    BY <1>1, RequestTable DEF HowOK, HowOf
  <2>2. ASSUME Leaves(q) PROVE HowOf(ex'[q]) /\ Others(q)
    BY <2>2, IdleIs DEF Leaves, HowOf
  <2>3. HowOf(ex'[q]) /\ Others(q)
    BY <1>1, <1>3, <2>1, <2>2, RequestTable, NeedsStage DEF RequestStep, To, Starts, HowOf
  <2>4. QED
    BY <1>1, <2>1, <2>3, HowByOne
<1>4. ASSUME WorkerStep PROVE HowOK'
  <2>1. ASSUME Leaves(Worker) PROVE HowOf(ex'[Worker]) /\ Others(Worker)
    BY <2>1, IdleIs DEF Leaves, HowOf
  <2>2. Worker \in Processes /\ HowOf(ex'[Worker]) /\ Others(Worker)
    BY <1>1, <1>4, <2>1, WorkerTable DEF WorkerStep, Starts, HowOf
  <2>3. QED
    BY <1>1, <2>2, HowByOne
<1>5. ASSUME Supersede PROVE HowOK'
  BY <1>1, <1>5 DEF Supersede, HowOK
<1>6. QED
  BY <1>2, <1>3, <1>4, <1>5 DEF Next

LEMMA StepAbsent ==
    ASSUME TypeInv, Next
    PROVE  AbsentOK'
<1>1. DocOK /\ ExOK /\ AbsentOK
  BY TypeParts DEF TypeInv
<1> SUFFICES ASSUME doc'.status = "absent"
             PROVE  /\ \A p \in Processes : ex'[p].stage \in {"idle", "sweep"}
                    /\ derived' = Nothing
  BY DEF AbsentOK, Nothing
<1>2. doc.status = "absent" /\ (\/ \E p \in Processes : Dies(p) /\ ex[p].stage # "idle"
                                \/ Recovered \/ (Sweep /\ doc' = doc))
  <2>1. ASSUME NEW p \in Processes, Processing(p)
        PROVE  FALSE
    <3>1. doc.status = "absent"
      BY <1>1, <2>1, ProcessingRow, StatusNames DEF Processing, Keeps, Sets
    <3>2. QED
      BY <1>1, <2>1, <3>1, NeedsStage DEF AbsentOK, Processing
  <2>2. ASSUME NEW p \in Processes, Dies(p)
        PROVE  doc.status = "absent" /\ ex[p].stage # "idle"
    BY <1>1, <2>2, ProcessingRow DEF Keeps, Dies
  <2>3. ASSUME NEW q \in Requests, RequestStep(q)
        PROVE  FALSE
    <3>1. doc.status = "absent"
      BY <1>1, <2>3, RequestRow DEF RequestStep, Keeps
    <3>2. ~HasRow
      BY <3>1 DEF HasRow, Statuses
    <3>3. ex[q].stage \in {"idle", "sweep"} /\ ~Ingest(q)
      BY <1>1, <3>1, RequestTable, RequestRow DEF AbsentOK
    <3>4. QED
      BY <2>3, <3>2, <3>3, NeedsStage DEF RequestStep
  <2>4. ASSUME WorkerStep
        PROVE  doc.status = "absent" /\ (Recovered \/ (Sweep /\ doc' = doc))
    <3>1. doc.status = "absent" /\ (Sweep => doc' = doc)
      BY <1>1, <2>4, WorkerRow, StatusNames DEF WorkerStep, Keeps, Sets
    <3>2. ex[Worker].stage \in {"idle", "sweep"} /\ ~HasRow
      BY <1>1, <3>1, WorkerTable DEF AbsentOK, HasRow, Statuses
    <3>3. QED
      BY <2>4, <3>1, <3>2, NeedsStage DEF WorkerStep
  <2>5. ~Supersede
    BY DEF Supersede, HasRow, Statuses
  <2>6. QED
    BY <2>1, <2>2, <2>3, <2>4, <2>5 DEF Next
<1>3. derived' = Nothing
  BY <1>1, <1>2, ProcessingRow, WorkerRow DEF AbsentOK, Nothing, Keeps
<1>4. ASSUME NEW p \in Processes, Others(p), ex'[p].stage \in {"idle", "sweep"}
      PROVE  \A o \in Processes : ex'[o].stage \in {"idle", "sweep"}
  BY <1>1, <1>2, <1>4 DEF AbsentOK, Others
<1>5. \A o \in Processes : ex'[o].stage \in {"idle", "sweep"}
  <2>1. ASSUME NEW p \in Processes, Leaves(p) PROVE Others(p) /\ ex'[p].stage = "idle"
    BY <2>1, IdleIs DEF Leaves
  <2>2. CASE \E p \in Processes : Dies(p)
    BY <1>1, <1>4, <2>1, <2>2, ProcessingTable
  <2>3. CASE Recovered
    BY <1>1, <1>4, <2>3, WorkerTable DEF Starts
  <2>4. CASE Sweep /\ doc' = doc
    BY <1>1, <1>2, <1>4, <2>1, <2>4, WorkerTable
  <2>5. QED
    BY <1>2, <2>2, <2>3, <2>4
<1>6. QED
  BY <1>3, <1>5

LEMMA InitTypeInv ==
    ASSUME Init
    PROVE  TypeInv
<1>1. ExOK /\ HowOK
  BY IdleIs DEF Init, ExOK, HowOK
<1>2. DocOK
  BY DEF Init, DocOK, DocRow, Kinds, Modes
<1>3. DerivedOK /\ RegistryOK /\ HistoryOK
  BY Zero DEF Init, DerivedOK, RegistryOK, HistoryOK
<1>4. AbsentOK
  BY IdleIs DEF Init, AbsentOK
<1>5. QED
  BY <1>1, <1>2, <1>3, <1>4, TypeParts DEF TypeInv

LEMMA StepTypeInv ==
    ASSUME TypeInv, [Next]_vars
    PROVE  TypeInv'
<1>1. CASE Next
  BY <1>1, ProcessingType, RequestType, WorkerType, SupersedeType, StepHow, StepAbsent
  DEF Next, TypeInv
<1>2. CASE UNCHANGED vars
  BY <1>2 DEF vars, rows, history, TypeInv, TypeOK, HowOK, AbsentOK, HasRow
<1>3. QED
  BY <1>1, <1>2

LEMMA Typed == Spec => []TypeInv
BY InitTypeInv, StepTypeInv, PTL DEF Spec

\* The row, what is stored, the registry and every execution keep their shape,
\* however uploads, dispatches, sweeps, deletes and deaths interleave: the text is
\* never stored beyond the bound, and no stage is entered that the code has not.
THEOREM TypeCorrect == Spec => []TypeOK
BY Typed, PTL DEF TypeInv

-----------------------------------------------------------------------------
(* A processed document has its text. Every step that leaves a document    *)
(* processed either stores spans, or keeps them, or is the purge of a      *)
(* reprocess that holds the bytes.                                         *)

LEMMA StepText ==
    ASSUME TypeInv, TypeInv', ProcessedHasText, Next
    PROVE  ProcessedHasText'
<1>1. DocOK /\ DerivedOK /\ ExOK /\ HowOK
  BY TypeParts DEF TypeInv
<1> SUFFICES ASSUME doc'.status = "processed", ~abandoned' /\ ~superseded'
             PROVE  \/ derived'.spans > 0
                    \/ \E p \in Processes : ex'[p].stage = "mark" /\ ex'[p].got
  BY DEF ProcessedHasText
<1> DEFINE Marks(p) == ex[p].stage = "mark" /\ ex[p].got
<1>2. ASSUME doc.status = "processed", ~abandoned /\ ~superseded
      PROVE  derived.spans > 0 \/ \E p \in Processes : Marks(p)
  BY <1>2 DEF ProcessedHasText
<1>3. ASSUME NEW p \in Processes, Others(p), ~Marks(p),
             doc.status = "processed", ~abandoned /\ ~superseded, derived'.spans >= derived.spans
      PROVE  \/ derived'.spans > 0
             \/ \E o \in Processes : ex'[o].stage = "mark" /\ ex'[o].got
  <2>1. CASE derived.spans > 0
    BY <1>1, <1>3, <2>1, TypeParts DEF DerivedOK, TypeInv
  <2>2. CASE \E o \in Processes : Marks(o)
    BY <1>3, <2>2 DEF Others
  <2>3. QED
    BY <1>2, <1>3, <2>1, <2>2
<1>4. ASSUME NEW p \in Processes, Processing(p) \/ Dies(p)
      PROVE  \/ derived'.spans > 0
             \/ \E o \in Processes : ex'[o].stage = "mark" /\ ex'[o].got
  <2>1. CASE StoreSpans(p)
    BY <1>1, <2>1 DEF StoreSpans, DerivedOK
  <2>2. CASE Purge(p)
    <3>1. ex'[p].stage = "mark" /\ ex'[p].got
      BY <1>1, <2>2, ProcessingTable, NeedsStage DEF To, HowOK
    <3>2. QED
      BY <3>1
  <2>3. CASE Mark(p) \/ Claim(p) \/ Unresolvable(p) \/ WriteFailed(p)
    <3>1. (Sets("processing") \/ Sets("failed") \/ doc' = doc) /\ derived' = derived
      BY <1>1, <2>3, ProcessingRow DEF Keeps
    <3>2. doc.status \in Statuses => ~Mark(p)
      BY <1>1, <2>3, ProcessingRow DEF Sets, HasRow
    <3>3. doc.status = "processed" /\ ~Mark(p)
      BY <3>1, <3>2, StatusNames DEF Sets, HasRow
    <3>4. Others(p) /\ ~Marks(p)
      BY <1>1, <2>3, <3>3, ProcessingTable, NeedsStage DEF To, Leaves
    <3>5. ~abandoned /\ ~superseded
      BY <2>3 DEF Claim, Unresolvable, Mark, WriteFailed, history
    <3>6. QED
      BY <1>1, <1>3, <3>1, <3>3, <3>4, <3>5 DEF DerivedOK
  <2>4. CASE \/ Load(p) \/ Resolve(p) \/ ExtractFails(p) \/ RegisterProcessed(p) \/ StoreChunks(p)
             \/ Release(p) \/ Unname(p) \/ UnnameFails(p) \/ RegisterFailed(p)
    <3>1. doc'.status = doc.status /\ derived'.spans = derived.spans
      BY <1>1, <2>4, ProcessingRow DEF Keeps, DerivedOK
    <3>2. Others(p) /\ ~Marks(p)
      BY <1>1, <2>4, ProcessingTable, NeedsStage DEF To, Leaves
    <3>3. UNCHANGED <<abandoned, superseded>>
      BY <2>4 DEF Load, Resolve, ExtractFails, RegisterProcessed, StoreChunks, Release, Unname,
         UnnameFails, RegisterFailed, history
    <3>4. ~abandoned /\ ~superseded
      BY <3>3
    <3>5. QED
      BY <1>1, <1>3, <3>1, <3>2, <3>4 DEF DerivedOK
  <2>5. CASE Dies(p)
    BY <2>5 DEF Dies
  <2>6. QED
    BY <1>4, <2>1, <2>2, <2>3, <2>4, <2>5 DEF Processing
<1>5. ASSUME NEW q \in Requests, RequestStep(q)
      PROVE  \/ derived'.spans > 0
             \/ \E o \in Processes : ex'[o].stage = "mark" /\ ex'[o].got
  <2>1. doc' = doc /\ derived' = derived
    BY <1>1, <1>5, RequestRow DEF RequestStep, Keeps
  <2>2. Others(q) /\ ~Marks(q) /\ q \in Processes
    BY <1>1, <1>5, RequestTable, NeedsStage DEF RequestStep, To, Leaves, Starts
  <2>3. UNCHANGED <<abandoned, superseded>>
    BY <1>5 DEF RequestStep, Ingest, RecordIngestion, Dispatch, Reprocess, DeleteDocument,
       RegisterDeleted, WipeObject, HardDelete, history
  <2>4. ~abandoned /\ ~superseded
    BY <2>3
  <2>5. QED
    BY <1>1, <1>3, <2>1, <2>2, <2>4 DEF DerivedOK
<1>6. ASSUME WorkerStep
      PROVE  \/ derived'.spans > 0
             \/ \E o \in Processes : ex'[o].stage = "mark" /\ ex'[o].got
  <2>1. doc' = doc /\ derived' = derived
    BY <1>1, <1>6, WorkerRow, StatusNames DEF WorkerStep, Keeps, Sets, HasRow
  <2>2. Others(Worker) /\ ~Marks(Worker) /\ Worker \in Processes
    BY <1>1, <1>6, WorkerTable, NeedsStage DEF WorkerStep, Leaves, Starts
  <2>3. ~abandoned /\ ~superseded
    BY <1>6 DEF WorkerStep, Recovered, Sweep, ReconcileRead, ReconcileWrite, history
  <2>4. QED
    BY <1>1, <1>3, <2>1, <2>2, <2>3 DEF DerivedOK
<1>7. ~Supersede
  BY DEF Supersede
<1>8. QED
  BY <1>4, <1>5, <1>6, <1>7 DEF Next

\* Derived data is never given up for bytes that might not be found: as long as no
\* execution died and its blob was not replaced, a processed document has its text, or
\* is being reprocessed by somebody who holds the bytes (the purge after the
\* resolution of a reprocess).
THEOREM ProcessedKeepsText == Spec => []ProcessedHasText
<1>1. Init => ProcessedHasText
  BY DEF Init, ProcessedHasText
<1>2. TypeInv /\ TypeInv' /\ ProcessedHasText /\ [Next]_vars => ProcessedHasText'
  <2>1. ASSUME ProcessedHasText, UNCHANGED vars PROVE ProcessedHasText'
    BY <2>1 DEF vars, rows, history, ProcessedHasText
  <2>2. QED
    BY <2>1, StepText
<1>3. QED
  BY <1>1, <1>2, Typed, PTL DEF Spec

-----------------------------------------------------------------------------
(* No document is forgotten. As long as no execution died, a document's    *)
(* status names the stages at which somebody has it: the hand-over from    *)
(* one holder to the next is the same step that changes the status.        *)

Waiting(e) == e.how = "dispatch" /\ e.stage \in {"record", "load", "claim"}
Working(e) == \/ e.stage \in {"extract", "failing"}
              \/ e.stage = "resolve" /\ e.how = "dispatch"
Releasing(e) == e.stage \in {"registered", "chunk", "release", "unname", "failing", "failed"}
NamesWorkingCopy == /\ doc.mode = "ephemeral" /\ doc.status \in {"processed", "failed"}
                    /\ doc.ref

Held ==
    ~abandoned =>
        /\ doc.status = "pending" => \E p \in Processes : Waiting(ex[p])
        /\ doc.status = "processing" => \E p \in Processes : Working(ex[p])
        /\ NamesWorkingCopy => \E p \in Processes : Releasing(ex[p])

\* The step of p hands on what p had, and takes nothing from the others.
HandsOn(p) ==
    /\ Others(p)
    /\ doc'.status = "pending" => \/ Waiting(ex'[p])
                                  \/ doc.status = "pending" /\ ~Waiting(ex[p])
    /\ doc'.status = "processing" => \/ Working(ex'[p])
                                     \/ doc.status = "processing" /\ ~Working(ex[p])
    /\ NamesWorkingCopy' => \/ Releasing(ex'[p])
                            \/ NamesWorkingCopy /\ ~Releasing(ex[p])

LEMMA HeldByOne ==
    ASSUME Held, NEW p \in Processes, abandoned' = abandoned, HandsOn(p)
    PROVE  Held'
<1> SUFFICES ASSUME ~abandoned
             PROVE  /\ doc'.status = "pending" => \E o \in Processes : Waiting(ex'[o])
                    /\ doc'.status = "processing" => \E o \in Processes : Working(ex'[o])
                    /\ NamesWorkingCopy' => \E o \in Processes : Releasing(ex'[o])
  BY DEF Held, Waiting, Working, Releasing
<1>1. \A o \in Processes : o # p => ex'[o] = ex[o]
  BY DEF HandsOn, Others
<1>2. doc'.status = "pending" => \E o \in Processes : Waiting(ex'[o])
  BY <1>1 DEF HandsOn, Held
<1>3. doc'.status = "processing" => \E o \in Processes : Working(ex'[o])
  BY <1>1 DEF HandsOn, Held
<1>4. NamesWorkingCopy' => \E o \in Processes : Releasing(ex'[o])
  BY <1>1 DEF HandsOn, Held
<1>5. QED
  BY <1>2, <1>3, <1>4

LEMMA ProcessingHandsOn ==
    ASSUME TypeInv, NEW p \in Processes, Processing(p)
    PROVE  HandsOn(p)
<1>1. DocOK /\ ExOK /\ HowOK
  BY TypeParts DEF TypeInv
<1>2. CASE Load(p)
  <2>1. doc' = doc /\ ex[p].stage = "load" /\ ex[p].how \in {"dispatch", "reprocess"}
    BY <1>1, <1>2, ProcessingRow, NeedsStage DEF Keeps, HowOK
  <2>2. CASE HasRow
    BY <1>1, <1>2, <2>1, <2>2, ProcessingTable
    DEF HandsOn, To, AfterLoad, NamesWorkingCopy, Waiting, Working, Releasing
  <2>3. CASE ~HasRow
    <3>1. Leaves(p) /\ doc.status \notin {"pending", "processing", "processed", "failed"}
      BY <1>1, <1>2, <2>3, ProcessingTable, StatusNames DEF HasRow
    <3>2. QED
      BY <2>1, <3>1 DEF HandsOn, Leaves, NamesWorkingCopy
  <2>4. QED
    BY <2>2, <2>3
<1>3. CASE Claim(p)
  <2>1. ex[p].stage = "claim" /\ ex[p].how = "dispatch"
    BY <1>1, <1>3, NeedsStage DEF HowOK
  <2>2. CASE Claimable
    <3>1. To(p, "resolve") /\ doc'.status = "processing"
      BY <1>1, <1>3, <2>2, ProcessingTable, ProcessingRow, StatusNames DEF Sets, Claimable, HasRow
    <3>2. QED
      BY <2>1, <3>1 DEF HandsOn, To, NamesWorkingCopy, Working
  <2>3. CASE ~Claimable
    <3>1. Leaves(p) /\ doc' = doc /\ doc.status # "pending"
      BY <1>1, <1>3, <2>3, ProcessingTable, ProcessingRow DEF Keeps, Claimable
    <3>2. QED
      BY <2>1, <3>1 DEF HandsOn, Leaves, NamesWorkingCopy, Working, Releasing
  <2>4. QED
    BY <2>2, <2>3
<1>4. CASE Resolve(p)
  BY <1>1, <1>4, ProcessingTable, ProcessingRow, NeedsStage
  DEF HandsOn, To, Keeps, NamesWorkingCopy, Waiting, Working, Releasing
<1>5. CASE Unresolvable(p)
  <2>1. CASE ex[p].how = "reprocess"
    BY <1>1, <1>5, <2>1, ProcessingTable, ProcessingRow, NeedsStage
    DEF Refused, HandsOn, Leaves, Keeps, NamesWorkingCopy, Waiting, Working, Releasing
  <2>2. CASE ex[p].how # "reprocess"
    <3>1. Others(p) /\ ex'[p].stage = "release" /\ Sets("failed")
      BY <1>1, <1>5, <2>2, ProcessingTable, ProcessingRow DEF Refused, To
    <3>2. doc'.status \notin {"pending", "processing"}
      BY <3>1, StatusNames DEF Sets, HasRow
    <3>3. QED
      BY <3>1, <3>2 DEF HandsOn, Releasing
  <2>3. QED
    BY <2>1, <2>2
<1>6. CASE Purge(p) \/ RegisterProcessed(p) \/ StoreChunks(p) \/ RegisterFailed(p)
  BY <1>1, <1>6, ProcessingTable, ProcessingRow, NeedsStage
  DEF HandsOn, To, Keeps, NamesWorkingCopy, Waiting, Working, Releasing
<1>7. CASE Mark(p)
  <2>1. Others(p) /\ ex'[p].stage = "extract" /\ Sets("processing")
    BY <1>1, <1>7, ProcessingTable, ProcessingRow DEF To
  <2>2. doc'.status \notin {"pending", "processed", "failed"}
    BY <2>1, StatusNames DEF Sets, HasRow
  <2>3. QED
    BY <2>1, <2>2 DEF HandsOn, NamesWorkingCopy, Working
<1>8. CASE StoreSpans(p) \/ ExtractFails(p) \/ WriteFailed(p)
  <2>1. CASE StoreSpans(p)
    <3>1. Others(p) /\ ex'[p].stage = "registered" /\ Sets("processed")
      BY <1>1, <2>1, ProcessingTable, ProcessingRow DEF To
    <3>2. doc'.status \notin {"pending", "processing"}
      BY <3>1, StatusNames DEF Sets, HasRow
    <3>3. QED
      BY <3>1, <3>2 DEF HandsOn, Releasing
  <2>2. CASE ExtractFails(p)
    BY <1>1, <2>2, ProcessingTable, ProcessingRow, NeedsStage
    DEF HandsOn, To, Keeps, NamesWorkingCopy, Waiting, Working, Releasing
  <2>3. CASE WriteFailed(p)
    <3>1. Others(p) /\ ex'[p].stage = "failed" /\ Sets("failed")
      BY <1>1, <2>3, ProcessingTable, ProcessingRow DEF To
    <3>2. doc'.status \notin {"pending", "processing"}
      BY <3>1, StatusNames DEF Sets, HasRow
    <3>3. QED
      BY <3>1, <3>2 DEF HandsOn, Releasing
  <2>4. QED
    BY <1>8, <2>1, <2>2, <2>3
<1>9. CASE Release(p)
  BY <1>1, <1>9, ProcessingTable, ProcessingRow, NeedsStage
  DEF HandsOn, To, Leaves, Keeps, NamesWorkingCopy, Waiting, Working, Releasing
<1>10. CASE Unname(p)
  BY <1>1, <1>10, ProcessingTable, ProcessingRow, NeedsStage
  DEF HandsOn, Leaves, NamesWorkingCopy, Waiting, Working, Releasing
<1>11. CASE UnnameFails(p)
  BY <1>1, <1>11, ProcessingTable, ProcessingRow, NeedsStage
  DEF HandsOn, To, Keeps, NamesWorkingCopy, Waiting, Working, Releasing
<1>12. QED
  BY <1>2, <1>3, <1>4, <1>5, <1>6, <1>7, <1>8, <1>9, <1>10, <1>11 DEF Processing

LEMMA OtherHandsOn ==
    ASSUME TypeInv
    PROVE  /\ \A q \in Requests : RequestStep(q) => HandsOn(q)
           /\ WorkerStep => HandsOn(Worker)
<1>1. DocOK /\ ExOK /\ HowOK
  BY TypeParts DEF TypeInv
<1>2. ASSUME NEW q \in Requests, RequestStep(q) PROVE HandsOn(q)
  <2>1. q \in Processes
    BY DEF Processes
  <2>2. CASE Ingest(q)
    BY <1>1, <2>2, RequestTable, RequestRow DEF Starts, HandsOn, NamesWorkingCopy, Waiting
  <2>3. CASE RecordIngestion(q)
    BY <1>1, <2>1, <2>3, RequestTable, RequestRow, NeedsStage
    DEF To, HandsOn, Keeps, HowOK, NamesWorkingCopy, Waiting, Working, Releasing
  <2>4. CASE Dispatch(q) \/ Reprocess(q) \/ WipeObject(q)
    BY <1>1, <2>4, RequestTable, RequestRow, NeedsStage
    DEF Starts, HandsOn, Keeps, NamesWorkingCopy, Waiting, Working, Releasing
  <2>5. CASE RegisterDeleted(q)
    BY <1>1, <2>5, RequestTable, RequestRow, NeedsStage
    DEF Leaves, HandsOn, Keeps, NamesWorkingCopy, Waiting, Working, Releasing
  <2>6. CASE DeleteDocument(q) \/ HardDelete(q)
    BY <1>1, <2>6, RequestTable, RequestRow DEF Leaves, Starts, HandsOn, NamesWorkingCopy
  <2>7. QED
    BY <1>2, <2>2, <2>3, <2>4, <2>5, <2>6 DEF RequestStep
<1>3. ASSUME WorkerStep PROVE HandsOn(Worker)
  <2>1. CASE Recovered \/ ReconcileRead \/ ReconcileWrite
    BY <1>1, <2>1, WorkerTable, WorkerRow, NeedsStage
    DEF Leaves, Starts, HandsOn, Keeps, NamesWorkingCopy, Waiting, Working, Releasing
  <2>2. CASE Sweep
    <3>1. ex[Worker].stage = "sweep"
      BY <2>2, NeedsStage
    <3>2. CASE Starts(Worker, "load", "dispatch") /\ doc.status = "processing" /\ Sets("pending")
      BY <3>2, StatusNames DEF Starts, Sets, HasRow, HandsOn, NamesWorkingCopy, Waiting
    <3>3. CASE Keeps /\ Leaves(Worker)
      BY <3>1, <3>3 DEF Leaves, HandsOn, Keeps, NamesWorkingCopy, Waiting, Working, Releasing
    <3>4. QED
      BY <1>1, <2>2, <3>2, <3>3, WorkerRow
  <2>3. QED
    BY <1>3, <2>1, <2>2 DEF WorkerStep
<1>4. QED
  BY <1>2, <1>3

LEMMA StepHeld ==
    ASSUME TypeInv, Held, Next
    PROVE  Held'
<1>1. ASSUME NEW p \in Processes, Processing(p) PROVE Held'
  <2>1. abandoned' = abandoned
    BY <1>1 DEF Processing, Load, Claim, Resolve, Unresolvable, Purge, Mark, StoreSpans,
       ExtractFails, RegisterProcessed, StoreChunks, Release, Unname, UnnameFails, WriteFailed,
       RegisterFailed, history
  <2>2. QED
    BY <1>1, <2>1, ProcessingHandsOn, HeldByOne
<1>2. ASSUME NEW p \in Processes, Dies(p) PROVE Held'
  BY <1>2 DEF Dies, Held
<1>3. ASSUME NEW q \in Requests, RequestStep(q) PROVE Held'
  <2>1. q \in Processes /\ abandoned' = abandoned
    BY <1>3 DEF Processes, RequestStep, Ingest, RecordIngestion, Dispatch, Reprocess,
       DeleteDocument, RegisterDeleted, WipeObject, HardDelete, history
  <2>2. QED
    BY <1>3, <2>1, OtherHandsOn, HeldByOne
<1>4. ASSUME WorkerStep PROVE Held'
  <2>1. Worker \in Processes /\ abandoned' = abandoned
    BY <1>4 DEF Processes, WorkerStep, Recovered, Sweep, ReconcileRead, ReconcileWrite, history
  <2>2. QED
    BY <1>4, <2>1, OtherHandsOn, HeldByOne
<1>5. ASSUME Supersede PROVE Held'
  BY <1>5 DEF Supersede, Held, NamesWorkingCopy
<1>6. QED
  BY <1>1, <1>2, <1>3, <1>4, <1>5 DEF Next

\* As long as no execution died, a document that waits or is processed is in the
\* hands of somebody who will settle it, and an ephemeral document that is settled,
\* and that nobody is at, names no working copy (the order of claim, status writes
\* and release in process_document, and the sweep's own processing).
THEOREM NoneForgotten == Spec => []NothingForgotten
<1>1. Init => Held
  BY DEF Init, Held, NamesWorkingCopy
<1>2. TypeInv /\ Held /\ [Next]_vars => Held'
  <2>1. ASSUME Held, UNCHANGED vars PROVE Held'
    BY <2>1 DEF vars, rows, history, Held, NamesWorkingCopy
  <2>2. QED
    BY <2>1, StepHeld
<1>3. Held => NothingForgotten
  BY DEF Held, NothingForgotten, NamesWorkingCopy, Waiting, Working, Releasing
<1>4. QED
  BY <1>1, <1>2, <1>3, Typed, PTL DEF Spec

-----------------------------------------------------------------------------
(* The text is stored once. Unless it is taken from an execution that is   *)
(* still at it, by a sweep or by a reprocess, at most one execution is     *)
(* between its claim (or the start of a reprocess) and its last write,     *)
(* nobody is there while the document waits, and what is stored fits the   *)
(* stage it is at.                                                         *)

Busy(e) == \/ e.stage \in {"resolve", "purge", "mark", "extract", "registered", "chunk"}
           \/ e.stage = "load" /\ e.how = "reprocess"
Empty(stored) == stored.spans = 0 /\ stored.chunks = 0
Fits(e, status, stored) ==
    /\ Busy(e) => status # "pending"
    /\ (e.how = "reprocess" /\ e.stage \in {"load", "resolve", "purge", "mark"})
         => status # "processing"
    /\ e.stage \in {"registered", "chunk"} => status # "processing" /\ stored.chunks = 0
    /\ (e.stage \in {"mark", "extract"} \/ (e.stage = "resolve" /\ e.how = "dispatch"))
         => Empty(stored)
StoreOK(status, stored) ==
    /\ status \in {"pending", "processing"} => Empty(stored)
    /\ stored.spans <= 1 /\ stored.chunks <= 1

Alone == \A p, o \in Processes : Busy(ex[p]) /\ Busy(ex[o]) => p = o
AllFit == \A p \in Processes : Fits(ex[p], doc.status, derived)
Once == ~stolen => Alone /\ AllFit /\ StoreOK(doc.status, derived)

\* A step of somebody who is not busy after it, and leaves the busy one as it was.
Aside(p) ==
    /\ Others(p) /\ ~Busy(ex'[p])
    /\ doc'.status = "pending" =>
         doc.status = "pending" \/ \A o \in Processes : o # p => ~Busy(ex[o])
    /\ doc'.status = "processing" => doc.status = "processing"
    /\ derived' = derived \/ derived' = Nothing
    /\ StoreOK(doc'.status, derived')
\* A step of the busy one, or of the one that becomes it.
Turn(p) ==
    /\ Others(p) /\ \A o \in Processes : o # p => ~Busy(ex[o])
    /\ Fits(ex'[p], doc'.status, derived') /\ StoreOK(doc'.status, derived')

LEMMA AsideOnce ==
    ASSUME Alone, AllFit, NEW p \in Processes, Aside(p)
    PROVE  Once'
<1>1. \A o \in Processes : o # p => ex'[o] = ex[o]
  BY DEF Aside, Others
<1>2. \A o, u \in Processes : Busy(ex'[o]) /\ Busy(ex'[u]) => o = u
  BY <1>1 DEF Aside, Alone
<1>3. ASSUME NEW o \in Processes PROVE Fits(ex'[o], doc'.status, derived')
  <2>1. CASE o = p
    BY <2>1 DEF Aside, Fits, Busy
  <2>2. CASE o # p
    <3>1. Fits(ex[o], doc.status, derived) /\ ex'[o] = ex[o]
      BY <1>1, <2>2 DEF AllFit
    <3>2. Busy(ex[o]) => doc'.status # "pending"
      BY <2>2, <3>1 DEF Aside, Fits
    <3>3. QED
      BY <3>1, <3>2 DEF Aside, Fits, Empty, Nothing
  <2>3. QED
    BY <2>1, <2>2
<1>4. QED
  BY <1>2, <1>3 DEF Once, Alone, AllFit, Aside

LEMMA TurnOnce ==
    ASSUME NEW p \in Processes, Turn(p)
    PROVE  Once'
<1>1. \A o \in Processes : o # p => ex'[o] = ex[o] /\ ~Busy(ex'[o])
  BY DEF Turn, Others
<1>2. \A o \in Processes : o # p => Fits(ex'[o], doc'.status, derived')
  BY <1>1 DEF Fits, Busy
<1>3. \A o \in Processes : Fits(ex'[o], doc'.status, derived')
  BY <1>2 DEF Turn
<1>4. \A o, u \in Processes : Busy(ex'[o]) /\ Busy(ex'[u]) => o = u
  BY <1>1
<1>5. QED
  BY <1>3, <1>4 DEF Once, Alone, AllFit, Turn

LEMMA BusyTurn ==
    ASSUME TypeInv, Alone, AllFit, StoreOK(doc.status, derived), NEW p \in Processes,
           Processing(p) \/ Dies(p), Busy(ex[p])
    PROVE  Turn(p)
<1>1. DocOK /\ DerivedOK /\ ExOK /\ HowOK
  BY TypeParts DEF TypeInv
<1>2. \A o \in Processes : o # p => ~Busy(ex[o])
  BY DEF Alone
<1>3. Fits(ex[p], doc.status, derived) /\ doc.status # "pending"
  BY DEF AllFit, Fits
<1>4. ASSUME Leaves(p) PROVE Others(p) /\ \A s, d : Fits(ex'[p], s, d)
  BY <1>4, IdleIs DEF Leaves, Fits, Busy
<1>5. ASSUME NEW stage \in {"release", "failing", "failed", "unname"}, To(p, stage)
      PROVE  Others(p) /\ \A s, d : Fits(ex'[p], s, d)
  BY <1>5 DEF To, Fits, Busy
<1>6. CASE Load(p)
  <2>1. ex[p].how = "reprocess" /\ doc' = doc /\ derived' = derived
    BY <1>1, <1>6, NeedsStage, ProcessingRow DEF Busy, Keeps
  <2>2. CASE Leaves(p)
    BY <1>2, <1>4, <2>1, <2>2 DEF Turn
  <2>3. CASE To(p, "resolve")
    BY <1>2, <1>3, <1>6, <2>1, <2>3, NeedsStage DEF Turn, To, Fits, Busy
  <2>4. QED
    BY <1>1, <1>6, <2>1, <2>2, <2>3, ProcessingTable DEF AfterLoad
<1>7. CASE Resolve(p)
  BY <1>1, <1>2, <1>3, <1>7, NeedsStage, ProcessingTable, ProcessingRow
  DEF Turn, To, Keeps, HowOK, Fits, Busy
<1>8. CASE Unresolvable(p)
  <2>1. CASE Leaves(p) /\ Keeps
    BY <1>2, <1>4, <2>1 DEF Turn, Keeps
  <2>2. CASE To(p, "release") /\ Sets("failed") /\ derived' = derived
    <3>1. StoreOK(doc'.status, derived')
      BY <2>2 DEF Sets, StoreOK
    <3>2. QED
      BY <1>2, <1>5, <2>2, <3>1 DEF Turn
  <2>3. QED
    BY <1>1, <1>8, <2>1, <2>2, ProcessingTable, ProcessingRow
<1>9. CASE Purge(p)
  <2>1. To(p, "mark") /\ ex[p].stage = "purge" /\ doc' = doc /\ derived' = Nothing
    BY <1>1, <1>9, NeedsStage, ProcessingTable, ProcessingRow
  <2>2. Empty(derived') /\ StoreOK(doc'.status, derived')
    BY <2>1 DEF Nothing, Empty, StoreOK
  <2>3. QED
    BY <1>1, <1>2, <1>3, <2>1, <2>2 DEF Turn, To, HowOK, Fits
<1>10. CASE Mark(p)
  <2>1. To(p, "extract") /\ ex[p].stage = "mark" /\ Sets("processing") /\ derived' = derived
    BY <1>1, <1>10, NeedsStage, ProcessingTable, ProcessingRow
  <2>2. Empty(derived) /\ doc'.status # "pending"
    BY <1>3, <2>1 DEF Fits, Sets
  <2>3. QED
    BY <1>2, <2>1, <2>2 DEF Turn, To, Fits, StoreOK, Empty
<1>11. CASE StoreSpans(p)
  <2>1. /\ To(p, "registered") /\ ex[p].stage = "extract" /\ doc'.status = "processed"
        /\ derived' = [derived EXCEPT !.spans = @ + 1]
    BY <1>1, <1>11, NeedsStage, ProcessingTable, ProcessingRow DEF Sets
  <2>2. Empty(derived)
    BY <1>3, <2>1 DEF Fits
  <2>3. derived'.spans = 1 /\ derived'.chunks = 0
    BY <1>1, <2>1, <2>2 DEF DerivedOK, Empty
  <2>4. QED
    BY <1>2, <2>1, <2>3 DEF Turn, To, Fits, StoreOK
<1>12. CASE ExtractFails(p)
  BY <1>1, <1>2, <1>5, <1>12, ProcessingTable, ProcessingRow DEF Turn, Keeps
<1>13. CASE RegisterProcessed(p)
  BY <1>1, <1>2, <1>3, <1>13, NeedsStage, ProcessingTable, ProcessingRow
  DEF Turn, To, Keeps, Fits, Busy
<1>14. CASE StoreChunks(p)
  <2>1. /\ To(p, "release") /\ ex[p].stage = "chunk" /\ doc' = doc
        /\ derived' \in {derived, [derived EXCEPT !.chunks = @ + 1]}
    BY <1>1, <1>14, NeedsStage, ProcessingTable, ProcessingRow
  <2>2. doc.status \notin {"pending", "processing"} /\ derived.chunks = 0
    BY <1>3, <2>1 DEF Fits
  <2>3. derived'.spans = derived.spans /\ derived'.chunks <= 1
    BY <1>1, <2>1, <2>2 DEF DerivedOK
  <2>4. StoreOK(doc'.status, derived')
    BY <2>1, <2>2, <2>3 DEF StoreOK
  <2>5. QED
    BY <1>2, <1>5, <2>1, <2>4 DEF Turn
<1>15. CASE Dies(p)
  BY <1>1, <1>2, <1>4, <1>15, ProcessingTable, ProcessingRow DEF Turn, Keeps
<1>16. QED
  BY <1>6, <1>7, <1>8, <1>9, <1>10, <1>11, <1>12, <1>13, <1>14, <1>15, NeedsStage
  DEF Processing, Busy

LEMMA FreeStep ==
    ASSUME TypeInv, Alone, AllFit, StoreOK(doc.status, derived), NEW p \in Processes,
           Processing(p) \/ Dies(p), ~Busy(ex[p])
    PROVE  Aside(p) \/ Turn(p)
<1>1. DocOK /\ DerivedOK /\ ExOK /\ HowOK
  BY TypeParts DEF TypeInv
<1>2. ASSUME Leaves(p) PROVE Others(p) /\ ~Busy(ex'[p])
  BY <1>2, IdleIs DEF Leaves, Busy
<1>3. ASSUME NEW stage \in {"claim", "unname", "release", "failing", "failed"}, To(p, stage)
      PROVE  Others(p) /\ ~Busy(ex'[p])
  BY <1>3 DEF To, Busy
<1>4. CASE Load(p)
  <2>1. (To(p, "claim") \/ Leaves(p)) /\ Keeps
    BY <1>1, <1>4, NeedsStage, ProcessingTable, ProcessingRow DEF Busy, AfterLoad
  <2>2. QED
    BY <1>2, <1>3, <2>1 DEF Aside, Keeps
<1>5. CASE Claim(p)
  <2>1. CASE Claimable
    <3>1. To(p, "resolve") /\ Sets("processing") /\ derived' = derived /\ doc.status = "pending"
      BY <1>1, <1>5, <2>1, ProcessingTable, ProcessingRow DEF Claimable
    <3>2. doc'.status = "processing" /\ Empty(derived)
      BY <3>1, StatusNames DEF Sets, HasRow, StoreOK
    <3>3. \A o \in Processes : ~Busy(ex[o])
      BY <3>1 DEF AllFit, Fits
    <3>4. ex[p].how = "dispatch"
      BY <1>1, <1>5, NeedsStage DEF HowOK
    <3>5. QED
      BY <3>1, <3>2, <3>3, <3>4 DEF Turn, To, Fits, StoreOK
  <2>2. CASE ~Claimable
    BY <1>1, <1>2, <1>5, <2>2, ProcessingTable, ProcessingRow DEF Aside, Keeps
  <2>3. QED
    BY <2>1, <2>2
<1>6. CASE Release(p) \/ UnnameFails(p) \/ RegisterFailed(p) \/ Dies(p)
  BY <1>1, <1>2, <1>3, <1>6, ProcessingTable, ProcessingRow DEF Aside, Keeps
<1>7. CASE Unname(p)
  BY <1>1, <1>2, <1>7, ProcessingTable, ProcessingRow DEF Aside
<1>8. CASE WriteFailed(p)
  <2>1. To(p, "failed") /\ Sets("failed") /\ derived' = derived
    BY <1>1, <1>8, ProcessingTable, ProcessingRow
  <2>2. StoreOK(doc'.status, derived')
    BY <2>1 DEF Sets, StoreOK
  <2>3. QED
    BY <1>3, <2>1, <2>2 DEF Aside, Sets
<1>9. QED
  BY <1>4, <1>5, <1>6, <1>7, <1>8, NeedsStage DEF Processing, Busy

LEMMA RequestTurn ==
    ASSUME TypeInv, Alone, AllFit, StoreOK(doc.status, derived), NEW q \in Requests,
           RequestStep(q), ~stolen'
    PROVE  q \in Processes /\ (Aside(q) \/ Turn(q))
<1>1. DocOK /\ DerivedOK /\ ExOK /\ HowOK /\ AbsentOK
  BY TypeParts DEF TypeInv
<1>2. q \in Processes
  BY DEF Processes
<1>3. CASE Ingest(q)
  <2>1. Starts(q, "record", "dispatch") /\ doc.status = "absent" /\ doc'.status = "pending"
        /\ derived' = derived
    BY <1>1, <1>3, RequestTable, RequestRow
  <2>2. derived = Nothing /\ \A o \in Processes : ~Busy(ex[o])
    BY <1>1, <2>1 DEF AbsentOK, Nothing, Busy
  <2>3. StoreOK(doc'.status, derived')
    BY <2>1, <2>2 DEF StoreOK, Empty, Nothing
  <2>4. QED
    BY <1>2, <2>1, <2>2, <2>3 DEF Aside, Starts, Busy
<1>4. CASE RecordIngestion(q) \/ Dispatch(q) \/ RegisterDeleted(q) \/ WipeObject(q)
  <2>1. Keeps
    BY <1>1, <1>4, RequestRow
  <2>2. Others(q) /\ ~Busy(ex'[q])
    BY <1>1, <1>2, <1>4, IdleIs, RequestTable, NeedsStage DEF To, Starts, Leaves, Busy, HowOK
  <2>3. QED
    BY <1>2, <2>1, <2>2 DEF Aside, Keeps
<1>5. CASE Reprocess(q)
  <2>1. Starts(q, "load", "reprocess") /\ Keeps /\ Settled
    BY <1>1, <1>5, RequestTable, RequestRow DEF Reprocess
  <2>2. \A o \in Processes : ~Busy(ex[o])
    BY <2>1 DEF Settled, Busy
  <2>3. QED
    BY <1>2, <2>1, <2>2 DEF Turn, Starts, Keeps, Settled, Fits
<1>6. CASE DeleteDocument(q) \/ HardDelete(q)
  <2>1. doc'.status \in {"deleted", "removed"} /\ derived' = Nothing
    BY <1>1, <1>6, RequestRow
  <2>2. StoreOK(doc'.status, derived')
    BY <2>1 DEF StoreOK, Nothing
  <2>3. Others(q) /\ ~Busy(ex'[q])
    BY <1>1, <1>6, IdleIs, RequestTable DEF Starts, Leaves, Busy
  <2>4. QED
    BY <1>2, <2>1, <2>2, <2>3 DEF Aside
<1>7. QED
  BY <1>3, <1>4, <1>5, <1>6 DEF RequestStep

LEMMA WorkerAside ==
    ASSUME TypeInv, Alone, AllFit, StoreOK(doc.status, derived), WorkerStep, ~stolen'
    PROVE  Worker \in Processes /\ Aside(Worker)
<1>1. DocOK /\ ExOK
  BY TypeParts DEF TypeInv
<1>2. Worker \in Processes
  BY DEF Processes
<1>3. ASSUME Leaves(Worker) PROVE Others(Worker) /\ ~Busy(ex'[Worker])
  BY <1>3, IdleIs DEF Leaves, Busy
<1>4. CASE Recovered \/ ReconcileRead \/ ReconcileWrite
  BY <1>1, <1>2, <1>3, <1>4, WorkerTable, WorkerRow DEF Aside, Starts, Keeps, Busy
<1>5. CASE Sweep
  <2>1. CASE doc.status = "processing" /\ Sets("pending") /\ derived' = derived
             /\ Starts(Worker, "load", "dispatch") /\ stolen' = (stolen \/ Holders # {})
    <3>1. ASSUME NEW o \in Processes PROVE ~Busy(ex[o])
      <4>1. ex[o].stage \notin {"resolve", "purge", "mark", "extract", "failing"}
        BY <2>1 DEF Holders
      <4>2. Fits(ex[o], doc.status, derived)
        BY DEF AllFit
      <4>3. QED
        BY <2>1, <4>1, <4>2 DEF Fits, Busy
    <3>2. StoreOK(doc'.status, derived') /\ doc'.status = "pending"
      BY <2>1, StatusNames DEF StoreOK, Sets, HasRow
    <3>3. QED
      BY <1>2, <2>1, <3>1, <3>2 DEF Aside, Starts, Busy
  <2>2. CASE Keeps /\ Leaves(Worker)
    BY <1>2, <1>3, <2>2 DEF Aside, Keeps
  <2>3. QED
    BY <1>1, <1>5, <2>1, <2>2, WorkerRow
<1>6. QED
  BY <1>4, <1>5 DEF WorkerStep

LEMMA StepOnce ==
    ASSUME TypeInv, Once, Next, ~stolen'
    PROVE  Once'
<1>1. ~stolen
  BY DEF Next, Processing, Load, Claim, Resolve, Unresolvable, Purge, Mark, StoreSpans,
     ExtractFails, RegisterProcessed, StoreChunks, Release, Unname, UnnameFails, WriteFailed,
     RegisterFailed, Dies, RequestStep, Ingest, RecordIngestion, Dispatch, Reprocess,
     DeleteDocument, RegisterDeleted, WipeObject, HardDelete, WorkerStep, Recovered, Sweep,
     ReconcileRead, ReconcileWrite, Supersede, history
<1>2. Alone /\ AllFit /\ StoreOK(doc.status, derived)
  BY <1>1 DEF Once
<1>3. ASSUME NEW p \in Processes, Processing(p) \/ Dies(p) PROVE Once'
  BY <1>2, <1>3, BusyTurn, FreeStep, TurnOnce, AsideOnce
<1>4. ASSUME NEW q \in Requests, RequestStep(q) PROVE Once'
  BY <1>2, <1>4, RequestTurn, TurnOnce, AsideOnce
<1>5. ASSUME WorkerStep PROVE Once'
  BY <1>2, <1>5, WorkerAside, AsideOnce
<1>6. ASSUME Supersede PROVE Once'
  <2>1. UNCHANGED <<doc, ex, stolen>> /\ derived' = Nothing
    BY <1>6 DEF Supersede, Nothing
  <2>2. \A p \in Processes : Fits(ex'[p], doc'.status, derived')
    BY <1>2, <2>1 DEF AllFit, Fits, Empty, Nothing
  <2>3. StoreOK(doc'.status, derived')
    BY <2>1 DEF StoreOK, Empty, Nothing
  <2>4. QED
    BY <1>2, <2>1, <2>2, <2>3 DEF Once, Alone, AllFit
<1>7. QED
  BY <1>3, <1>4, <1>5, <1>6 DEF Next

\* However often a document is dispatched, swept, reprocessed and deleted, by
\* however many requests at once, its text is stored once: the claim lets one
\* execution through, and a reprocess purges first. Only a sweep, or a reprocess, that
\* takes the document from an execution still at it can store it twice.
THEOREM StoredOnce == Spec => []TextStoredOnce
<1>1. Init => Once
  BY IdleIs DEF Init, Once, Alone, AllFit, Fits, Busy, StoreOK
<1>2. TypeInv /\ Once /\ [Next]_vars => Once'
  <2>1. ASSUME Once, UNCHANGED vars PROVE Once'
    BY <2>1 DEF vars, rows, history, Once, Alone, AllFit
  <2>2. ASSUME stolen' PROVE Once'
    BY <2>2 DEF Once
  <2>3. QED
    BY <2>1, <2>2, StepOnce
<1>3. Once => TextStoredOnce
  BY DEF Once, TextStoredOnce, StoreOK
<1>4. QED
  BY <1>1, <1>2, <1>3, Typed, PTL DEF Spec
=============================================================================
