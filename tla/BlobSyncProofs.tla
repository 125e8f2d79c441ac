--------------------------- MODULE BlobSyncProofs ---------------------------
(***************************************************************************)
(* Proofs about BlobSync for every number of executions, objects and       *)
(* documents: type correctness; that a ledger row always links a document  *)
(* of its own object, hidden exactly when confirmed missing; that what is  *)
(* hidden for its absence was found absent often enough; and, of runs that *)
(* do not overlap, that an object is served by one document, that the run  *)
(* leaves the ledger as it saw the source, and that it never goes back.    *)
(* Executions that overlap implement SourceMirror all the same.            *)
(***************************************************************************)
EXTENDS BlobSync, FiniteSetTheorems, TLAPS

LEMMA ExecutionType ==
    ASSUME NEW stage \in Stages, NEW outcome \in Outcomes
    PROVE  Execution(stage, outcome) \in Executions
BY BoundAssumption DEF Execution, Executions

\* What every action is shown to preserve; TypeOK is its conjunction.
SourceOK == source \in [Objects -> [present : BOOLEAN, version : 0..MaxVersion]]
LeaseOK == /\ lease \in [holder : Runs \cup {NoRun}, live : BOOLEAN]
           /\ lease.live => lease.holder \in Runs
LedgerOK == ledger \in [Objects -> LedgerRow]
DocsOK == /\ hidden \in [Docs -> {"none", "superseded", "source_missing"}]
          /\ docObj \in [Docs -> Objects \cup {NoObject}]
          /\ derived \subseteq Docs
RunOK == /\ run \in [Runs -> Executions]
         /\ \A r \in Runs :
               /\ run[r].stage \in {"ingest", "finalize"} => run[r].current \in Objects
               /\ run[r].stage = "finalize" => run[r].fresh \in Docs
               /\ run[r].stage = "absences" => \A o \in run[r].todo : Known(o)
HistoryOK == /\ overlapped \in BOOLEAN
             /\ lost \subseteq Docs
             /\ witness \in [Objects -> SUBSET Runs]
             /\ sighted \subseteq Objects

LEMMA TypeParts ==
    /\ TypeOK <=> SourceOK /\ LeaseOK /\ LedgerOK /\ DocsOK /\ RunOK /\ HistoryOK
    /\ TypeOK' <=> SourceOK' /\ LeaseOK' /\ LedgerOK' /\ DocsOK' /\ RunOK' /\ HistoryOK'
BY DEF TypeOK, SourceOK, LeaseOK, LedgerOK, DocsOK, RunOK, HistoryOK

LEMMA InitTypeOK == Init => TypeOK
<1> SUFFICES ASSUME Init PROVE TypeOK
  OBVIOUS
<1>1. SourceOK
  BY BoundAssumption DEF Init, SourceOK
<1>2. LeaseOK
  BY DEF Init, LeaseOK
<1>3. LedgerOK
  BY BoundAssumption DEF Init, LedgerOK, LedgerRow, Unlinked
<1>4. DocsOK
  BY DEF Init, DocsOK
<1>5. RunOK
  <2>1. Execution("idle", "none") \in Executions
    BY ExecutionType DEF Stages, Outcomes
  <2>2. run \in [Runs -> Executions]
    BY <2>1 DEF Init
  <2>3. ASSUME NEW r \in Runs PROVE run[r].stage = "idle"
    BY DEF Init, Execution
  <2>4. QED
    BY <2>2, <2>3 DEF RunOK
<1>6. HistoryOK
  <2>1. overlapped \in BOOLEAN
    BY DEF Init
  <2>2. lost \subseteq Docs /\ witness \in [Objects -> SUBSET Runs] /\ sighted \subseteq Objects
    BY DEF Init
  <2>3. QED
    BY <2>1, <2>2 DEF HistoryOK
<1>7. QED
  BY <1>1, <1>2, <1>3, <1>4, <1>5, <1>6, TypeParts

-----------------------------------------------------------------------------
(* A step on one execution.                                                *)

\* What RunOK asks of one execution, given the identities the ledger knows.
StageOK(e, known) == /\ e.stage \in {"ingest", "finalize"} => e.current \in Objects
                     /\ e.stage = "finalize" => e.fresh \in Docs
                     /\ e.stage = "absences" => e.todo \subseteq known
KnownObjects == {o \in Objects : Known(o)}

\* Replacing one execution by a well-formed one keeps RunOK, as long as no
\* ledger row disappears.
LEMMA RunChange ==
    ASSUME RunOK, NEW r \in Runs, NEW e \in Executions,
           run' = [run EXCEPT ![r] = e], StageOK(e, KnownObjects'),
           KnownObjects \subseteq KnownObjects'
    PROVE  RunOK'
<1>1. run' \in [Runs -> Executions]
  BY DEF RunOK
<1>2. ASSUME NEW s \in Runs PROVE StageOK(run'[s], KnownObjects')
  <2>1. CASE s = r
    BY <2>1 DEF RunOK
  <2>2. CASE s # r
    <3>1. run'[s] = run[s] /\ run[s] \in Executions
      BY <2>2 DEF RunOK
    <3>2. StageOK(run[s], KnownObjects)
      BY <3>1 DEF RunOK, StageOK, KnownObjects, Executions
    <3>3. QED
      BY <3>1, <3>2 DEF StageOK
  <2>3. QED
    BY <2>1, <2>2
<1>3. QED
  BY <1>1, <1>2 DEF RunOK, StageOK, KnownObjects

\* The same when only the stage and outcome of a finished step matter.
LEMMA RunEnds ==
    ASSUME RunOK, UNCHANGED ledger, NEW r \in Runs,
           NEW stage \in Stages \ {"ingest", "finalize", "absences"},
           NEW outcome \in Outcomes, Ends(r, stage, outcome)
    PROVE  RunOK'
<1>1. Execution(stage, outcome) \in Executions
  BY ExecutionType
<1>2. Execution(stage, outcome).stage = stage
  BY DEF Execution
<1>3. run' = [run EXCEPT ![r] = Execution(stage, outcome)]
  BY DEF Ends
<1>4. StageOK(Execution(stage, outcome), KnownObjects')
  BY <1>2 DEF StageOK
<1>5. KnownObjects \subseteq KnownObjects'
  BY DEF KnownObjects, Known
<1>6. QED
  BY <1>1, <1>3, <1>4, <1>5, RunChange

\* The same for a move between stages that ask nothing of the locals.
LEMMA RunMoves ==
    ASSUME RunOK, UNCHANGED ledger, NEW r \in Runs,
           NEW stage \in Stages \ {"ingest", "finalize", "absences"},
           run' = [run EXCEPT ![r].stage = stage]
    PROVE  RunOK'
<1> DEFINE e == [run[r] EXCEPT !.stage = stage]
<1>1. e \in Executions /\ e.stage = stage
  <2>1. run[r] \in Executions
    BY DEF RunOK
  <2>2. QED
    BY <2>1 DEF Executions
<1>2. StageOK(e, KnownObjects')
  BY <1>1 DEF StageOK
<1>3. run' = [run EXCEPT ![r] = e]
  BY DEF RunOK
<1>4. KnownObjects \subseteq KnownObjects'
  BY DEF KnownObjects, Known
<1> HIDE DEF e
<1>5. QED
  BY <1>1, <1>2, <1>3, <1>4, RunChange

\* The same for going on to the next object.
LEMMA RunNextObject ==
    ASSUME RunOK, NEW r \in Runs, NEW unsynced \in SUBSET Objects,
           NextObject(r, unsynced), KnownObjects \subseteq KnownObjects'
    PROVE  RunOK'
<1> DEFINE e == [run[r] EXCEPT !.stage = "objects",
                    !.todo = @ \ {run[r].current}, !.unsynced = unsynced,
                    !.current = NoObject, !.previous = NoDoc, !.fresh = NoDoc]
<1>1. e \in Executions /\ e.stage = "objects"
  <2>1. run[r] \in Executions
    BY DEF RunOK
  <2>2. QED
    BY <2>1 DEF Executions, Stages, Leased
<1>2. StageOK(e, KnownObjects')
  BY <1>1 DEF StageOK
<1>3. run' = [run EXCEPT ![r] = e]
  BY DEF NextObject
<1> HIDE DEF e
<1>4. QED
  BY <1>1, <1>2, <1>3, RunChange

\* What a step leaves alone stays well-formed.
LEMMA Frames ==
    /\ SourceOK /\ UNCHANGED source => SourceOK'
    /\ LeaseOK /\ UNCHANGED lease => LeaseOK'
    /\ LedgerOK /\ UNCHANGED ledger => LedgerOK'
    /\ DocsOK /\ UNCHANGED <<hidden, docObj, derived>> => DocsOK'
    /\ RunOK /\ UNCHANGED <<run, ledger>> => RunOK'
    /\ HistoryOK /\ UNCHANGED history => HistoryOK'
<1>1. SourceOK /\ UNCHANGED source => SourceOK'
  BY DEF SourceOK
<1>2. LeaseOK /\ UNCHANGED lease => LeaseOK'
  BY DEF LeaseOK
<1>3. LedgerOK /\ UNCHANGED ledger => LedgerOK'
  BY DEF LedgerOK
<1>4. DocsOK /\ UNCHANGED <<hidden, docObj, derived>> => DocsOK'
  BY DEF DocsOK
<1>5. RunOK /\ UNCHANGED <<run, ledger>> => RunOK'
  BY DEF RunOK, Known
<1>6. HistoryOK /\ UNCHANGED history => HistoryOK'
  BY DEF HistoryOK, history
<1>7. QED
  BY <1>1, <1>2, <1>3, <1>4, <1>5, <1>6

LEMMA SourceTypeOK == TypeOK /\ Source => TypeOK'
<1> SUFFICES ASSUME TypeOK, NEW o \in Objects, Upload(o) \/ Remove(o) \/ Restore(o)
             PROVE  TypeOK'
  BY DEF Source
<1>1. SourceOK'
  <2>1. source[o] \in [present : BOOLEAN, version : 0..MaxVersion]
    BY DEF TypeOK
  <2>2. CASE Upload(o)
    <3>1. source[o].version + 1 \in 0..MaxVersion
      BY <2>1, <2>2, BoundAssumption DEF Upload
    <3>2. QED
      BY <2>2, <3>1 DEF Upload, TypeOK, SourceOK
  <2>3. CASE Remove(o)
    BY <2>1, <2>3 DEF Remove, TypeOK, SourceOK
  <2>4. CASE Restore(o)
    BY <2>1, <2>4 DEF Restore, TypeOK, SourceOK
  <2>5. QED
    BY <2>2, <2>3, <2>4
<1>2. UNCHANGED <<lease, store, run, history>>
  BY DEF Upload, Remove, Restore
<1>3. QED
  BY <1>1, <1>2, TypeParts, Frames DEF store

LEMMA ExpireTypeOK == TypeOK /\ ExpireLease => TypeOK'
<1> SUFFICES ASSUME TypeOK, ExpireLease
             PROVE  TypeOK'
  OBVIOUS
<1>1. LeaseOK'
  BY DEF ExpireLease, TypeOK, LeaseOK
<1>2. QED
  BY <1>1, TypeParts, Frames DEF ExpireLease, store

LEMMA OcrTypeOK == \A d \in Docs : TypeOK /\ Ocr(d) => TypeOK'
<1> SUFFICES ASSUME TypeOK, NEW d \in Docs, Ocr(d)
             PROVE  TypeOK'
  OBVIOUS
<1>1. DocsOK'
  BY DEF Ocr, TypeOK, DocsOK
<1>2. QED
  BY <1>1, TypeParts, Frames DEF Ocr

\* The steps that end a run, or move it without touching what it holds.
LEMMA SimpleTypeOK ==
    ASSUME TypeOK, NEW r \in Runs,
           \/ Start(r) \/ Refuse(r) \/ LeaseRead(r) \/ LeaseWrite(r)
           \/ EnumerateFails(r) \/ Finish(r) \/ Abort(r) \/ Release(r) \/ Crash(r)
    PROVE  TypeOK'
<1> USE DEF Stages, Leased, Ended, Outcomes
<1>0. RunOK /\ run[r] \in Executions /\ run[r].outcome \in Outcomes
  BY TypeParts DEF RunOK, Executions
<1>1. CASE Start(r)
  <2>1. RunOK'
    BY <1>0, <1>1, RunEnds DEF Start, Ends, store
  <2>2. QED
    BY <1>1, <2>1, TypeParts, Frames DEF Start, store
<1>2. CASE Refuse(r)
  <2>1. RunOK'
    BY <1>0, <1>2, RunEnds DEF Refuse, store
  <2>2. QED
    BY <1>2, <2>1, TypeParts, Frames DEF Refuse, store
<1>3. CASE LeaseRead(r)
  <2>1. CASE Ends(r, "done", "lease_held")
    BY <1>0, <1>3, <2>1, RunEnds, TypeParts, Frames DEF LeaseRead, store
  <2>2. CASE run' = [run EXCEPT ![r].stage = "lease_write"]
    BY <1>0, <1>3, <2>2, RunMoves, TypeParts, Frames DEF LeaseRead, store
  <2>3. QED
    BY <1>3, <2>1, <2>2 DEF LeaseRead
<1>4. CASE LeaseWrite(r)
  <2>1. RunOK'
    BY <1>0, <1>4, RunMoves DEF LeaseWrite, store
  <2>2. LeaseOK'
    BY <1>4 DEF LeaseWrite, LeaseOK
  <2>3. overlapped' \in BOOLEAN
    BY <1>4 DEF LeaseWrite
  <2>4. HistoryOK'
    BY <1>4, <2>3, TypeParts DEF LeaseWrite, HistoryOK
  <2>5. QED
    BY <1>4, <2>1, <2>2, <2>4, TypeParts, Frames DEF LeaseWrite, store
<1>5. CASE EnumerateFails(r)
  <2>1. RunOK'
    BY <1>0, <1>5, RunEnds DEF EnumerateFails, store
  <2>2. QED
    BY <1>5, <2>1, TypeParts, Frames DEF EnumerateFails, store
<1>6. CASE Finish(r)
  <2>1. RunOK'
    BY <1>0, <1>6, RunEnds DEF Finish, store
  <2>2. QED
    BY <1>6, <2>1, TypeParts, Frames DEF Finish, store
<1>7. CASE Abort(r)
  <2>1. RunOK'
    BY <1>0, <1>7, RunEnds DEF Abort, store
  <2>2. QED
    BY <1>7, <2>1, TypeParts, Frames DEF Abort, store
<1>8. CASE Release(r)
  <2>1. RunOK'
    BY <1>0, <1>8, RunMoves DEF Release, store
  <2>2. LeaseOK'
    BY <1>8, TypeParts DEF Release, LeaseOK
  <2>3. QED
    BY <1>8, <2>1, <2>2, TypeParts, Frames DEF Release, store
<1>9. CASE Crash(r)
  <2>1. RunOK'
    BY <1>0, <1>9, RunEnds DEF Crash, store
  <2>2. lost' \subseteq Docs
    BY <1>0, <1>9, TypeParts DEF Crash, RunOK, HistoryOK
  <2>3. HistoryOK'
    BY <1>9, <2>2, TypeParts DEF Crash, HistoryOK
  <2>4. QED
    BY <1>9, <2>1, <2>3, TypeParts, Frames DEF Crash, store
<1>10. QED
  BY <1>1, <1>2, <1>3, <1>4, <1>5, <1>6, <1>7, <1>8, <1>9

\* The steps of the loop over the listed objects.
LEMMA ObjectsTypeOK ==
    ASSUME TypeOK, NEW r \in Runs,
           \/ Enumerate(r) \/ Ingest(r) \/ IngestFails(r)
           \/ Finalize(r) \/ FinalizeFails(r) \/ BeginAbsences(r)
    PROVE  TypeOK'
<1> USE DEF Stages, Leased
<1>0. RunOK /\ run[r] \in Executions
  BY TypeParts DEF RunOK
<1>1. CASE Enumerate(r)
  <2> DEFINE listing == [o \in Objects |-> IF source[o].present THEN source[o].version ELSE 0]
             todo == {o \in Objects : source[o].present}
             e == [run[r] EXCEPT !.stage = "objects", !.listing = listing, !.todo = todo]
  <2>1. listing \in [Objects -> 0..MaxVersion]
    BY BoundAssumption, TypeParts DEF SourceOK
  <2>2. e \in Executions /\ e.stage = "objects"
    BY <1>0, <2>1 DEF Executions
  <2>3. run' = [run EXCEPT ![r] = e]
    BY <1>1 DEF Enumerate
  <2>4. StageOK(e, KnownObjects') /\ KnownObjects \subseteq KnownObjects'
    BY <1>1, <2>2 DEF StageOK, KnownObjects, Known, Enumerate, store
  <2> HIDE DEF e
  <2>5. RunOK'
    BY <1>0, <2>2, <2>3, <2>4, RunChange
  <2>6. QED
    BY <1>1, <2>5, TypeParts, Frames DEF Enumerate, store
<1>2. CASE Ingest(r)
  <2> DEFINE e == [run[r] EXCEPT !.stage = "finalize", !.fresh = NewDoc]
  <2>1. NewDoc \in Docs
    BY <1>2 DEF Ingest, Unused, NewDoc
  <2>2. run[r].current \in Objects
    BY <1>0, <1>2 DEF Ingest, RunOK
  <2>3. /\ e \in Executions
        /\ e.stage = "finalize" /\ e.fresh \in Docs /\ e.current \in Objects
    BY <1>0, <2>1, <2>2 DEF Executions
  <2>4. run' = [run EXCEPT ![r] = e]
    BY <1>2 DEF Ingest
  <2>5. StageOK(e, KnownObjects') /\ KnownObjects \subseteq KnownObjects'
    BY <1>2, <2>3 DEF StageOK, KnownObjects, Known, Ingest
  <2> HIDE DEF e
  <2>6. RunOK'
    BY <1>0, <2>3, <2>4, <2>5, RunChange
  <2>7. DocsOK'
    BY <1>2, <2>1, <2>2, TypeParts DEF Ingest, DocsOK
  <2>8. QED
    BY <1>2, <2>6, <2>7, TypeParts, Frames DEF Ingest
<1>3. CASE IngestFails(r)
  <2>1. run[r].unsynced \cup {run[r].current} \in SUBSET Objects
    BY <1>0, <1>3 DEF IngestFails, RunOK, Executions
  <2>2. RunOK'
    BY <1>0, <1>3, <2>1, RunNextObject DEF IngestFails, store, KnownObjects, Known
  <2>3. QED
    BY <1>3, <2>2, TypeParts, Frames DEF IngestFails, store
<1>4. CASE Finalize(r)
  <2>1. /\ run[r].current \in Objects /\ run[r].fresh \in Docs
        /\ run[r].listing \in [Objects -> 0..MaxVersion]
        /\ run[r].previous \in Docs \cup {NoDoc}
        /\ run[r].unsynced \in SUBSET Objects
    BY <1>0, <1>4 DEF Finalize, RunOK, Executions
  <2>2. Relinked(r) \in LedgerRow /\ Relinked(r).doc \in Docs
    BY <2>1 DEF Relinked, LedgerRow
  <2>3. LedgerOK'
    BY <1>4, <2>2, TypeParts DEF Finalize, LedgerOK
  <2>4. KnownObjects \subseteq KnownObjects'
    BY <1>4, <2>1, <2>2, IdentityAssumption, TypeParts
       DEF Finalize, LedgerOK, KnownObjects, Known
  <2>5. RunOK'
    BY <1>0, <1>4, <2>1, <2>4, RunNextObject DEF Finalize
  <2>6. DocsOK'
    BY <1>4, <2>1, TypeParts DEF Finalize, Superseded, DocsOK
  <2>7. overlapped' \in BOOLEAN
    BY <1>4 DEF Finalize, TypeOK
  <2>8. HistoryOK'
    BY <1>4, <2>7, TypeParts DEF Finalize, HistoryOK
  <2>9. QED
    BY <1>4, <2>3, <2>5, <2>6, <2>8, TypeParts, Frames DEF Finalize
<1>5. CASE FinalizeFails(r)
  <2>1. /\ run[r].unsynced \cup {run[r].current} \in SUBSET Objects
        /\ run[r].fresh \in Docs
    BY <1>0, <1>5 DEF FinalizeFails, RunOK, Executions
  <2>2. RunOK'
    BY <1>0, <1>5, <2>1, RunNextObject DEF FinalizeFails, store, KnownObjects, Known
  <2>3. overlapped' \in BOOLEAN
    BY <1>5 DEF FinalizeFails, TypeOK
  <2>4. HistoryOK'
    BY <1>5, <2>1, <2>3, TypeParts DEF FinalizeFails, HistoryOK
  <2>5. QED
    BY <1>5, <2>2, <2>4, TypeParts, Frames DEF FinalizeFails, store
<1>6. CASE BeginAbsences(r)
  <2> DEFINE todo == {o \in Objects : Known(o) /\ run[r].listing[o] = 0}
             e == [run[r] EXCEPT !.stage = "absences", !.todo = todo]
  <2>1. e \in Executions /\ e.stage = "absences" /\ e.todo \subseteq KnownObjects
    BY <1>0 DEF Executions, KnownObjects
  <2>2. run' = [run EXCEPT ![r] = e]
    BY <1>6 DEF BeginAbsences
  <2>3. KnownObjects' = KnownObjects
    BY <1>6 DEF KnownObjects, Known, BeginAbsences, store
  <2>4. StageOK(e, KnownObjects')
    BY <2>1, <2>3 DEF StageOK
  <2> HIDE DEF e
  <2>5. RunOK'
    BY <1>0, <2>1, <2>2, <2>3, <2>4, RunChange
  <2>6. QED
    BY <1>6, <2>5, TypeParts, Frames DEF BeginAbsences, store
<1>7. QED
  BY <1>1, <1>2, <1>3, <1>4, <1>5, <1>6

LEMMA ExamineTypeOK ==
    ASSUME TypeOK, NEW r \in Runs, NEW o \in Objects, Examine(r, o)
    PROVE  TypeOK'
<1> DEFINE skip == [run[r] EXCEPT !.todo = run[r].todo \ {o}]
           take == [run[r] EXCEPT !.stage = "ingest", !.current = o,
                                  !.previous = ledger[o].doc]
<1>0. RunOK /\ run[r] \in Executions /\ ledger[o].doc \in Docs \cup {NoDoc}
  BY TypeParts DEF RunOK, LedgerOK, LedgerRow
<1>1. KnownObjects' = KnownObjects
  BY DEF KnownObjects, Known, Examine, store
<1>2. HistoryOK'
  <2>1. overlapped' \in BOOLEAN
    BY DEF Examine, TypeOK
  <2>2. QED
    BY <2>1, TypeParts DEF Examine, HistoryOK
<1>3. CASE run' = [run EXCEPT ![r] = skip]
  <2>1. skip \in Executions /\ skip.stage = "objects"
    BY <1>0 DEF Executions, Examine
  <2>2. StageOK(skip, KnownObjects')
    BY <2>1 DEF StageOK
  <2> HIDE DEF skip
  <2>3. QED
    BY <1>0, <1>2, <1>1, <1>3, <2>1, <2>2, RunChange, TypeParts, Frames DEF Examine, store
<1>4. CASE run' = [run EXCEPT ![r] = take]
  <2>1. take \in Executions /\ take.stage = "ingest" /\ take.current \in Objects
    BY <1>0 DEF Executions, Stages, Leased
  <2>2. StageOK(take, KnownObjects')
    BY <2>1 DEF StageOK
  <2> HIDE DEF take
  <2>3. QED
    BY <1>0, <1>2, <1>1, <1>4, <2>1, <2>2, RunChange, TypeParts, Frames DEF Examine, store
<1>5. QED
  BY <1>0, <1>3, <1>4 DEF Examine, RunOK

LEMMA CountAbsenceTypeOK ==
    ASSUME TypeOK, NEW r \in Runs, NEW o \in Objects, CountAbsence(r, o)
    PROVE  TypeOK'
<1> DEFINE e == [run[r] EXCEPT !.todo = run[r].todo \ {o}]
<1>0. /\ RunOK /\ run[r] \in Executions /\ ledger[o] \in LedgerRow
      /\ run[r].stage = "absences" /\ Known(o) /\ run[r].todo \subseteq KnownObjects
  BY TypeParts DEF RunOK, LedgerOK, CountAbsence, KnownObjects, Executions
<1>1. CountedAbsence(o) \in LedgerRow /\ CountedAbsence(o).doc = ledger[o].doc
  <2>1. ledger[o].sightings + 1 \in Nat
    BY <1>0 DEF LedgerRow
  <2>2. (ledger[o].confirmed \/ Confirms(ledger[o].sightings + 1)) \in BOOLEAN
    OBVIOUS
  <2>3. QED
    BY <1>0, <2>1, <2>2 DEF CountedAbsence, LedgerRow
<1>2. LedgerOK'
  BY <1>1, TypeParts DEF CountAbsence, LedgerOK
<1>3. KnownObjects' = KnownObjects
  BY <1>1, TypeParts DEF KnownObjects, Known, CountAbsence, LedgerOK
<1>4. /\ e \in Executions /\ e.stage = "absences" /\ e.todo \subseteq KnownObjects
  BY <1>0 DEF Executions
<1>5. StageOK(e, KnownObjects')
  BY <1>3, <1>4 DEF StageOK
<1>6. run' = [run EXCEPT ![r] = e]
  BY <1>0 DEF CountAbsence, RunOK
<1> HIDE DEF e
<1>7. RunOK'
  BY <1>0, <1>3, <1>4, <1>5, <1>6, RunChange
<1>8. DocsOK'
  BY <1>0, TypeParts DEF CountAbsence, DocsOK, Known, LedgerRow
<1>9. overlapped' \in BOOLEAN
  BY DEF CountAbsence, TypeOK
<1>10. HistoryOK'
  BY <1>9, TypeParts DEF CountAbsence, HistoryOK
<1>11. QED
  BY <1>2, <1>7, <1>8, <1>10, TypeParts, Frames DEF CountAbsence

LEMMA NextTypeOK == TypeOK /\ [Next]_vars => TypeOK'
<1> SUFFICES ASSUME TypeOK, [Next]_vars
             PROVE  TypeOK'
  OBVIOUS
<1>1. CASE Source
  BY <1>1, SourceTypeOK
<1>2. CASE ExpireLease
  BY <1>2, ExpireTypeOK
<1>3. CASE \E r \in Runs : Start(r) \/ RunStep(r) \/ Crash(r)
  <2> PICK r \in Runs : Start(r) \/ RunStep(r) \/ Crash(r)
    BY <1>3
  <2> QED
    BY SimpleTypeOK, ObjectsTypeOK, ExamineTypeOK, CountAbsenceTypeOK DEF RunStep
<1>4. CASE \E d \in Docs : Ocr(d)
  BY <1>4, OcrTypeOK
<1>5. CASE UNCHANGED vars
  BY <1>5, TypeParts, Frames DEF vars, store
<1>6. QED
  BY <1>1, <1>2, <1>3, <1>4, <1>5 DEF Next

\* Every reachable state is well-typed: in particular a run that is about to
\* link a document has one, and a run that counts absences counts only
\* objects the ledger knows (run_sync and its helpers).
THEOREM TypeCorrect == Spec => []TypeOK
<1>1. Init => TypeOK
  BY InitTypeOK
<1>2. TypeOK /\ [Next]_vars => TypeOK'
  BY NextTypeOK
<1>3. QED
  BY <1>1, <1>2, PTL DEF Spec

-----------------------------------------------------------------------------
(* A ledger row links a served document of its object, or a hidden one     *)
(* when it is confirmed missing. LedgerLinksServedDocument is not          *)
(* inductive: it says nothing of the documents executions have in hand.    *)

\* A document that does not exist is not hidden.
UnusedNotHidden == \A d \in Docs : docObj[d] = NoObject => hidden[d] = "none"

\* A document about to be linked is its object's, served, and no one else's.
FreshOK == \A r \in Runs : run[r].stage = "finalize" =>
    /\ docObj[run[r].fresh] = run[r].current
    /\ hidden[run[r].fresh] = "none"
    /\ \A o \in Objects : ledger[o].doc # run[r].fresh
    /\ \A s \in Runs \ {r} : run[s].stage = "finalize" => run[s].fresh # run[r].fresh

\* The document a run is about to replace is of the same object, and is not one
\* that a run is about to link, this one or another.
PreviousOK == \A r \in Runs :
    run[r].stage \in {"ingest", "finalize"} /\ run[r].previous # NoDoc =>
        /\ docObj[run[r].previous] = run[r].current
        /\ \A s \in Runs : run[s].stage = "finalize" => run[s].fresh # run[r].previous

LinkInv == /\ TypeOK
           /\ LedgerLinksServedDocument
           /\ UnusedNotHidden
           /\ FreshOK
           /\ PreviousOK

LEMMA InitLinkInv == Init => LinkInv
<1> SUFFICES ASSUME Init PROVE LinkInv
  OBVIOUS
<1>1. TypeOK
  BY InitTypeOK
<1>2. LedgerLinksServedDocument
  BY DEF Init, LedgerLinksServedDocument, Known, Unlinked
<1>3. UnusedNotHidden
  BY DEF Init, UnusedNotHidden
<1>4. \A r \in Runs : run[r].stage = "idle"
  BY DEF Init, Execution
<1>5. QED
  BY <1>1, <1>2, <1>3, <1>4 DEF LinkInv, FreshOK, PreviousOK

\* A step that leaves the ledger and the documents alone, and puts no
\* execution before an object, keeps the invariant.
LEMMA LinkFrame ==
    ASSUME LinkInv, TypeOK', UNCHANGED <<ledger, hidden, docObj>>,
           \A s \in Runs : \/ run'[s] = run[s]
                           \/ run'[s].stage \notin {"ingest", "finalize"}
    PROVE  LinkInv'
<1>1. LedgerLinksServedDocument'
  BY DEF LinkInv, LedgerLinksServedDocument, Known
<1>2. UnusedNotHidden'
  BY DEF LinkInv, UnusedNotHidden
<1>3. FreshOK'
  BY DEF LinkInv, FreshOK
<1>4. PreviousOK'
  BY DEF LinkInv, PreviousOK
<1>5. QED
  BY <1>1, <1>2, <1>3, <1>4 DEF LinkInv

\* The steps of an execution that LinkFrame covers.
LEMMA QuietLinkInv ==
    ASSUME LinkInv, TypeOK', NEW r \in Runs,
           \/ Start(r) \/ Refuse(r) \/ LeaseRead(r) \/ LeaseWrite(r)
           \/ Enumerate(r) \/ EnumerateFails(r) \/ IngestFails(r) \/ FinalizeFails(r)
           \/ BeginAbsences(r) \/ Finish(r) \/ Abort(r) \/ Release(r) \/ Crash(r)
    PROVE  LinkInv'
<1>1. UNCHANGED <<ledger, hidden, docObj>>
  BY DEF Start, Refuse, LeaseRead, LeaseWrite, Enumerate, EnumerateFails, IngestFails,
         FinalizeFails, BeginAbsences, Finish, Abort, Release, Crash, store
<1>2. run \in [Runs -> Executions]
  BY DEF LinkInv, TypeOK
<1>3. run[r] \in Executions
  BY <1>2
<1>4. \A s \in Runs \ {r} : run'[s] = run[s]
  BY <1>2 DEF Start, Refuse, LeaseRead, LeaseWrite, Enumerate, EnumerateFails, IngestFails,
         FinalizeFails, BeginAbsences, Finish, Abort, Release, Crash, Ends, NextObject
<1>5. run'[r].stage \notin {"ingest", "finalize"}
  <2>1. CASE Start(r) \/ Refuse(r)
    BY <1>2, <2>1 DEF Start, Refuse, Ends, Execution
  <2>2. CASE LeaseRead(r) \/ LeaseWrite(r)
    BY <1>2, <1>3, <2>2 DEF LeaseRead, LeaseWrite, Ends, Execution, Executions
  <2>6. CASE Enumerate(r)
    BY <1>2, <1>3, <2>6 DEF Enumerate, Executions
  <2>7. CASE IngestFails(r) \/ FinalizeFails(r)
    <3>1. NextObject(r, run[r].unsynced \cup {run[r].current})
      BY <2>7 DEF IngestFails, FinalizeFails
    <3>2. QED
      BY <1>2, <1>3, <3>1 DEF NextObject, Executions
  <2>8. CASE BeginAbsences(r)
    BY <1>2, <1>3, <2>8 DEF BeginAbsences, Executions
  <2>3. CASE EnumerateFails(r) \/ Finish(r) \/ Abort(r) \/ Crash(r)
    BY <1>2, <2>3 DEF EnumerateFails, Finish, Abort, Crash, Ends, Execution
  <2>4. CASE Release(r)
    BY <1>2, <1>3, <2>4 DEF Release, Executions
  <2>5. QED
    BY <2>1, <2>2, <2>3, <2>4, <2>6, <2>7, <2>8
<1>6. QED
  BY <1>1, <1>4, <1>5, LinkFrame

\* An execution that takes an object in hand notes the document the ledger
\* links: of that object, and not one about to be linked.
LEMMA ExamineLinkInv ==
    ASSUME LinkInv, TypeOK', NEW r \in Runs, NEW o \in Objects, Examine(r, o)
    PROVE  LinkInv'
<1>1. run[r] \in Executions /\ run \in [Runs -> Executions]
  BY DEF LinkInv, TypeOK
<1>2. UNCHANGED <<ledger, hidden, docObj>> /\ \A s \in Runs \ {r} : run'[s] = run[s]
  BY <1>1 DEF Examine, store
<1>3. CASE Unchanged(r, o)
  <2>1. run[r].stage = "objects" /\ run' = [run EXCEPT ![r].todo = @ \ {o}]
    BY <1>3 DEF Examine
  <2>2. run'[r].stage = "objects"
    BY <1>1, <2>1 DEF Executions
  <2>3. QED
    BY <1>2, <2>2, LinkFrame
<1>4. CASE ~Unchanged(r, o)
  <2>1. /\ run'[r].stage = "ingest" /\ run'[r].current = o
        /\ run'[r].previous = ledger[o].doc
    <3>1. run' = [run EXCEPT ![r] = [run[r] EXCEPT !.stage = "ingest", !.current = o,
                                                   !.previous = ledger[o].doc]]
      BY <1>4 DEF Examine
    <3>2. QED
      BY <1>1, <3>1 DEF Executions
  <2>2. LedgerLinksServedDocument' /\ UnusedNotHidden'
    BY <1>2 DEF LinkInv, LedgerLinksServedDocument, UnusedNotHidden, Known
  <2>3. FreshOK'
    BY <1>2, <2>1 DEF LinkInv, FreshOK
  <2>4. PreviousOK'
    <3>1. ASSUME ledger[o].doc # NoDoc PROVE docObj[ledger[o].doc] = o
      BY <3>1 DEF LinkInv, LedgerLinksServedDocument, Known
    <3>2. \A s \in Runs : run'[s].stage = "finalize" => run'[s].fresh # ledger[o].doc
      BY <1>2, <2>1 DEF LinkInv, FreshOK
    <3>3. QED
      BY <1>2, <2>1, <3>1, <3>2 DEF LinkInv, PreviousOK
  <2>5. QED
    BY <2>2, <2>3, <2>4 DEF LinkInv
<1>5. QED
  BY <1>3, <1>4

\* A new document is no one's: not linked, not hidden, in no execution's hand.
LEMMA IngestLinkInv ==
    ASSUME LinkInv, TypeOK', NEW r \in Runs, Ingest(r)
    PROVE  LinkInv'
<1> DEFINE d == NewDoc
<1>1. d \in Docs /\ docObj[d] = NoObject
  BY DEF Ingest, Unused, NewDoc
<1>2. /\ run[r] \in Executions /\ run \in [Runs -> Executions]
      /\ run[r].current \in Objects /\ run[r].stage = "ingest"
  BY DEF LinkInv, TypeOK, Ingest
<1>3. /\ \A s \in Runs \ {r} : run'[s] = run[s]
      /\ run'[r].stage = "finalize" /\ run'[r].fresh = d
      /\ run'[r].current = run[r].current /\ run'[r].previous = run[r].previous
  BY <1>2 DEF Ingest, Executions
<1>4. /\ UNCHANGED <<ledger, hidden>>
      /\ docObj \in [Docs -> Objects \cup {NoObject}]
      /\ docObj' = [docObj EXCEPT ![d] = run[r].current]
  BY DEF Ingest, LinkInv, TypeOK
<1> HIDE DEF d
<1>5. hidden[d] = "none"
  BY <1>1 DEF LinkInv, UnusedNotHidden
<1>6. \A o \in Objects : ledger[o].doc # d
  <2> SUFFICES ASSUME NEW o \in Objects, ledger[o].doc = d PROVE FALSE
    OBVIOUS
  <2>1. docObj[d] = o
    BY <1>1, IdentityAssumption DEF LinkInv, LedgerLinksServedDocument, Known
  <2>2. QED
    BY <1>1, <2>1, IdentityAssumption
<1>7. \A s \in Runs : run[s].stage \in {"ingest", "finalize"} /\ run[s].previous # NoDoc
          => run[s].previous # d
  <2>1. \A s \in Runs : run[s].stage \in {"ingest", "finalize"} => run[s].current # NoObject
    BY IdentityAssumption DEF LinkInv, TypeOK
  <2>2. QED
    BY <1>1, <2>1 DEF LinkInv, PreviousOK
<1>8. \A s \in Runs : run[s].stage = "finalize" => run[s].fresh # d
  <2>1. \A s \in Runs : run[s].stage = "finalize" => run[s].current # NoObject
    BY IdentityAssumption DEF LinkInv, TypeOK
  <2>2. QED
    BY <1>1, <2>1 DEF LinkInv, FreshOK
<1>9. LedgerLinksServedDocument'
  BY <1>4, <1>6 DEF LinkInv, LedgerLinksServedDocument, Known, TypeOK, LedgerRow
<1>10. UnusedNotHidden'
  BY <1>4, <1>5 DEF LinkInv, UnusedNotHidden
<1>11. FreshOK'
  <2>1. \A s \in Runs : run[s].stage = "finalize" => run[s].fresh \in Docs
    BY DEF LinkInv, TypeOK
  <2>2. QED
    BY <1>1, <1>2, <1>3, <1>4, <1>5, <1>6, <1>8, <2>1 DEF LinkInv, FreshOK
<1>12. PreviousOK'
  <2>1. \A s \in Runs : run[s].previous \in Docs \cup {NoDoc}
    BY <1>2 DEF Executions
  <2> SUFFICES ASSUME NEW s \in Runs, run'[s].stage \in {"ingest", "finalize"},
                      run'[s].previous # NoDoc
               PROVE  /\ docObj'[run'[s].previous] = run'[s].current
                      /\ \A t \in Runs : run'[t].stage = "finalize"
                                            => run'[t].fresh # run'[s].previous
    BY DEF PreviousOK
  <2>2. /\ run[s].stage \in {"ingest", "finalize"}
        /\ run'[s].previous = run[s].previous /\ run'[s].current = run[s].current
    BY <1>2, <1>3
  <2>3. /\ run[s].previous # d /\ docObj[run[s].previous] = run[s].current
        /\ \A t \in Runs : run[t].stage = "finalize" => run[t].fresh # run[s].previous
    BY <1>7, <2>2 DEF LinkInv, PreviousOK
  <2>4. QED
    BY <1>3, <1>4, <2>1, <2>2, <2>3
<1>13. QED
  BY <1>9, <1>10, <1>11, <1>12 DEF LinkInv

\* The document linked is the run's own, still served; the one hidden is of
\* the same object, so no other row links it, and no execution is linking it.
LEMMA FinalizeLinkInv ==
    ASSUME LinkInv, TypeOK', NEW r \in Runs, Finalize(r)
    PROVE  LinkInv'
<1> DEFINE o == run[r].current
           d == run[r].fresh
           p == run[r].previous
<1>1. /\ run[r] \in Executions /\ run \in [Runs -> Executions]
      /\ run[r].stage = "finalize"
      /\ o \in Objects /\ d \in Docs /\ p \in Docs \cup {NoDoc}
  BY DEF LinkInv, TypeOK, Finalize, Executions
<1>2. /\ ledger \in [Objects -> LedgerRow]
      /\ hidden \in [Docs -> {"none", "superseded", "source_missing"}]
      /\ docObj \in [Docs -> Objects \cup {NoObject}] /\ UNCHANGED docObj
  BY DEF LinkInv, TypeOK, Finalize
<1>3. \A s \in Runs \ {r} : run'[s] = run[s]
  BY <1>1 DEF Finalize, NextObject
<1>4. run'[r].stage = "objects"
  <2>1. NextObject(r, run[r].unsynced)
    BY DEF Finalize
  <2>2. QED
    BY <1>1, <2>1 DEF NextObject, Executions
<1>5. /\ ledger'[o].doc = d /\ ledger'[o].confirmed = FALSE
      /\ \A x \in Objects \ {o} : ledger'[x] = ledger[x]
  BY <1>1, <1>2 DEF Finalize, Relinked
<1>6. \A x \in Docs : x # p => hidden'[x] = hidden[x]
  BY <1>2 DEF Finalize, Superseded
<1>7. /\ docObj[d] = o /\ hidden[d] = "none"
      /\ \A s \in Runs \ {r} : run[s].stage = "finalize" => run[s].fresh # d
  BY <1>1 DEF LinkInv, FreshOK
<1>8. p # NoDoc => /\ docObj[p] = o
                   /\ \A s \in Runs : run[s].stage = "finalize" => run[s].fresh # p
  BY <1>1 DEF LinkInv, PreviousOK
<1>9. \A s \in Runs : run[s].stage = "finalize" => run[s].fresh \in Docs
  BY DEF LinkInv, TypeOK
<1> HIDE DEF o, d, p
<1>10. \A x \in Docs : (\E s \in Runs : run[s].stage = "finalize" /\ x = run[s].fresh)
          => hidden'[x] = hidden[x]
  BY <1>6, <1>8, <1>9, IdentityAssumption
<1>11. LedgerLinksServedDocument'
  <2> SUFFICES ASSUME NEW x \in Objects, ledger'[x].doc # NoDoc
               PROVE  /\ docObj[ledger'[x].doc] = x
                      /\ (hidden'[ledger'[x].doc] = "none") <=> ~ledger'[x].confirmed
    BY <1>2 DEF LedgerLinksServedDocument, Known
  <2>1. CASE x = o
    <3>1. hidden'[d] = "none"
      BY <1>1, <1>7, <1>10 DEF d
    <3>2. QED
      BY <1>5, <1>7, <2>1, <3>1
  <2>2. CASE x # o
    <3>1. ledger'[x] = ledger[x] /\ ledger[x].doc \in Docs
      BY <1>2, <1>5, <2>2 DEF LedgerRow
    <3>2. /\ docObj[ledger[x].doc] = x
          /\ (hidden[ledger[x].doc] = "none") <=> ~ledger[x].confirmed
      BY <3>1 DEF LinkInv, LedgerLinksServedDocument, Known
    <3>3. ledger[x].doc # p
      BY <1>8, <2>2, <3>1, <3>2, IdentityAssumption
    <3>4. QED
      BY <1>6, <3>1, <3>2, <3>3
  <2>3. QED
    BY <2>1, <2>2
<1>12. UnusedNotHidden'
  <2>1. \A x \in Docs : docObj[x] = NoObject => x # p
    BY <1>1, <1>8, IdentityAssumption
  <2>2. QED
    BY <1>2, <1>6, <2>1 DEF LinkInv, UnusedNotHidden
<1>13. FreshOK'
  <2> SUFFICES ASSUME NEW s \in Runs, run'[s].stage = "finalize"
               PROVE  /\ docObj[run'[s].fresh] = run'[s].current
                      /\ hidden'[run'[s].fresh] = "none"
                      /\ \A x \in Objects : ledger'[x].doc # run'[s].fresh
                      /\ \A t \in Runs \ {s} : run'[t].stage = "finalize"
                                                  => run'[t].fresh # run'[s].fresh
    BY <1>2 DEF FreshOK
  <2>1. s # r /\ run'[s] = run[s] /\ run[s].stage = "finalize"
    BY <1>3, <1>4
  <2>2. /\ docObj[run[s].fresh] = run[s].current
        /\ hidden[run[s].fresh] = "none"
        /\ \A x \in Objects : ledger[x].doc # run[s].fresh
        /\ \A t \in Runs \ {s} : run[t].stage = "finalize" => run[t].fresh # run[s].fresh
    BY <2>1 DEF LinkInv, FreshOK
  <2>3. hidden'[run[s].fresh] = "none"
    BY <1>9, <1>10, <2>1, <2>2
  <2>4. QED
    BY <1>3, <1>4, <1>5, <1>7, <2>1, <2>2, <2>3
<1>14. PreviousOK'
  BY <1>2, <1>3, <1>4 DEF LinkInv, PreviousOK
<1>15. QED
  BY <1>11, <1>12, <1>13, <1>14 DEF LinkInv

\* An absence hides the linked document in the step that confirms it.
LEMMA CountAbsenceLinkInv ==
    ASSUME LinkInv, TypeOK', NEW r \in Runs, NEW o \in Objects, CountAbsence(r, o)
    PROVE  LinkInv'
<1> DEFINE d == ledger[o].doc
           confirms == Confirms(ledger[o].sightings + 1)
<1>1. /\ run[r] \in Executions /\ run \in [Runs -> Executions]
      /\ ledger \in [Objects -> LedgerRow] /\ ledger[o] \in LedgerRow
      /\ hidden \in [Docs -> {"none", "superseded", "source_missing"}]
  BY DEF LinkInv, TypeOK
<1>2. o \in Objects /\ d \in Docs
  <2>1. Known(o)
    BY DEF LinkInv, TypeOK, CountAbsence
  <2>2. QED
    BY <1>1, <2>1 DEF Known, LedgerRow
<1>3. UNCHANGED docObj /\ \A s \in Runs \ {r} : run'[s] = run[s]
  BY <1>1 DEF CountAbsence
<1>4. run'[r].stage = "absences"
  BY <1>1 DEF CountAbsence, Executions
<1>5. /\ \A x \in Objects : ledger'[x].doc = ledger[x].doc
      /\ \A x \in Objects \ {o} : ledger'[x].confirmed = ledger[x].confirmed
      /\ ledger'[o].confirmed = (ledger[o].confirmed \/ confirms)
  BY <1>1 DEF CountAbsence, CountedAbsence, LedgerRow
<1>6. hidden' = IF confirms THEN [hidden EXCEPT ![d] = "source_missing"] ELSE hidden
  BY DEF CountAbsence
<1>7. docObj[d] = o /\ ((hidden[d] = "none") <=> ~ledger[o].confirmed)
  BY <1>2, IdentityAssumption DEF LinkInv, LedgerLinksServedDocument, Known
<1>8. \A x \in Docs : x # d => hidden'[x] = hidden[x]
  BY <1>1, <1>6
<1>9. (hidden'[d] = "none") <=> ~ledger'[o].confirmed
  <2>1. CASE confirms
    <3>1. hidden'[d] = "source_missing"
      BY <1>1, <1>2, <1>6, <2>1
    <3>2. QED
      BY <1>5, <2>1, <3>1
  <2>2. CASE ~confirms
    BY <1>5, <1>6, <1>7, <2>2
  <2>3. QED
    BY <2>1, <2>2
<1> HIDE DEF confirms
<1>10. LedgerLinksServedDocument'
  <2> SUFFICES ASSUME NEW x \in Objects, ledger'[x].doc # NoDoc
               PROVE  /\ docObj[ledger'[x].doc] = x
                      /\ (hidden'[ledger'[x].doc] = "none") <=> ~ledger'[x].confirmed
    BY <1>3 DEF LedgerLinksServedDocument, Known
  <2>1. CASE x = o
    BY <1>5, <1>7, <1>9, <2>1
  <2>2. CASE x # o
    <3>1. ledger[x].doc \in Docs
      BY <1>1, <1>5 DEF LedgerRow
    <3>2. /\ docObj[ledger[x].doc] = x
          /\ (hidden[ledger[x].doc] = "none") <=> ~ledger[x].confirmed
      BY <1>5 DEF LinkInv, LedgerLinksServedDocument, Known
    <3>3. QED
      BY <1>5, <1>7, <1>8, <2>2, <3>1, <3>2
  <2>3. QED
    BY <2>1, <2>2
<1>11. UnusedNotHidden'
  BY <1>2, <1>3, <1>7, <1>8, IdentityAssumption DEF LinkInv, UnusedNotHidden
<1>12. FreshOK'
  <2>1. \A s \in Runs : run[s].stage = "finalize" => run[s].fresh \in Docs
    BY DEF LinkInv, TypeOK
  <2>2. \A s \in Runs : run[s].stage = "finalize" => run[s].fresh # d
    BY <1>2 DEF LinkInv, FreshOK
  <2>3. QED
    BY <1>3, <1>4, <1>5, <1>8, <2>1, <2>2 DEF LinkInv, FreshOK
<1>13. PreviousOK'
  BY <1>3, <1>4 DEF LinkInv, PreviousOK
<1>14. QED
  BY <1>10, <1>11, <1>12, <1>13 DEF LinkInv

LEMMA NextLinkInv == LinkInv /\ [Next]_vars => LinkInv'
<1> SUFFICES ASSUME LinkInv, [Next]_vars
             PROVE  LinkInv'
  OBVIOUS
<1>1. TypeOK'
  BY NextTypeOK DEF LinkInv
<1>2. CASE Source \/ ExpireLease \/ UNCHANGED vars \/ \E d \in Docs : Ocr(d)
  <2>1. UNCHANGED <<ledger, hidden, docObj, run>>
    BY <1>2 DEF Source, Upload, Remove, Restore, ExpireLease, Ocr, vars, store
  <2>2. QED
    BY <1>1, <2>1, LinkFrame
<1>3. CASE \E r \in Runs : Start(r) \/ RunStep(r) \/ Crash(r)
  <2> PICK r \in Runs : Start(r) \/ RunStep(r) \/ Crash(r)
    BY <1>3
  <2> QED
    BY <1>1, QuietLinkInv, ExamineLinkInv, IngestLinkInv, FinalizeLinkInv,
       CountAbsenceLinkInv DEF RunStep
<1>4. QED
  BY <1>2, <1>3 DEF Next

\* However executions interleave, crash and overlap, and whatever the source
\* does, a ledger row links a document of its own object, and that document is
\* excluded from retrieval exactly when the row is confirmed missing
\* (_reconcile_object's finalization against _reconcile_absences).
THEOREM LinkCorrect == Spec => []LedgerLinksServedDocument
<1>1. Init => LinkInv
  BY InitLinkInv
<1>2. LinkInv /\ [Next]_vars => LinkInv'
  BY NextLinkInv
<1>3. LinkInv => LedgerLinksServedDocument
  BY DEF LinkInv
<1>4. QED
  BY <1>1, <1>2, <1>3, PTL DEF Spec

-----------------------------------------------------------------------------
(* The refinement of SourceMirror. Beside LinkInv: a document whose linking *)
(* was lost exists, and is not the one another run is about to link.        *)

LostExist == \A d \in lost : docObj[d] # NoObject
FreshNotLost == \A r \in Runs : run[r].stage = "finalize" => run[r].fresh \notin lost
MirrorInv == LinkInv /\ LostExist /\ FreshNotLost

\* Under LinkInv what is withdrawn can be told from the ledger alone.
Confirmed == {o \in Objects : Known(o) /\ ledger[o].confirmed}

LEMMA WithdrawnConfirmed ==
    ASSUME LinkInv
    PROVE  Withdrawn = Confirmed
BY DEF LinkInv, LedgerLinksServedDocument, Withdrawn, Confirmed

\* A step that leaves the ledger alone changes nothing that SourceMirror sees, if
\* the documents that exist, are in hand or are lost are the same but for moves
\* between these.
LEMMA MirrorStutters ==
    ASSUME LinkInv, LinkInv', UNCHANGED ledger, Linked' = Linked
    PROVE  UNCHANGED Mirror!vars
<1>1. Confirmed' = Confirmed
  BY DEF Confirmed, Known
<1>2. Withdrawn' = Withdrawn
  <2>1. Withdrawn' = Confirmed'
    BY DEF LinkInv, LedgerLinksServedDocument, Withdrawn, Confirmed
  <2>2. QED
    BY <1>1, <2>1, WithdrawnConfirmed
<1>3. QED
  BY <1>2 DEF Mirror!vars

\* The documents in hand, when a step changes one execution.
Held(e) == IF e.stage = "finalize" THEN {e.fresh} ELSE {}

LEMMA InFlightIs ==
    /\ InFlight = UNION {Held(run[s]) : s \in Runs}
    /\ InFlight' = UNION {Held(run'[s]) : s \in Runs}
BY DEF InFlight, Held

LEMMA InitMirror == Init => MirrorInv /\ Mirror!Init
<1> SUFFICES ASSUME Init PROVE MirrorInv /\ Mirror!Init
  OBVIOUS
<1>1. LinkInv
  BY InitLinkInv
<1>2. \A r \in Runs : run[r].stage = "idle"
  BY DEF Init, Execution
<1>3. LostExist /\ FreshNotLost
  BY <1>2 DEF Init, LostExist, FreshNotLost
<1>4. \A o \in Objects : ledger[o].doc = NoDoc
  BY DEF Init, Unlinked
<1>5. Withdrawn = {}
  BY <1>4 DEF Withdrawn, Known
<1>6. Linked = {}
  BY DEF Init, Linked
<1>7. QED
  BY <1>1, <1>3, <1>4, <1>5, <1>6 DEF MirrorInv, Mirror!Init

\* A step after which every execution has in hand what it had.
LEMMA MirrorFrame ==
    ASSUME MirrorInv, LinkInv', UNCHANGED <<ledger, docObj, lost>>,
           \A s \in Runs : Held(run'[s]) = Held(run[s])
    PROVE  MirrorInv' /\ UNCHANGED Mirror!vars
<1>1. InFlight' = InFlight
  BY InFlightIs
<1>2. Linked' = Linked
  BY <1>1 DEF Linked
<1>3. LostExist' /\ FreshNotLost'
  BY DEF MirrorInv, LostExist, FreshNotLost, Held
<1>4. QED
  BY <1>2, <1>3, MirrorStutters DEF MirrorInv

\* The steps of an execution that MirrorFrame covers.
LEMMA QuietMirror ==
    ASSUME MirrorInv, LinkInv', NEW r \in Runs,
           \/ Start(r) \/ Refuse(r) \/ LeaseRead(r) \/ LeaseWrite(r)
           \/ Enumerate(r) \/ EnumerateFails(r) \/ IngestFails(r)
           \/ BeginAbsences(r) \/ Finish(r) \/ Abort(r) \/ Release(r)
           \/ \E o \in Objects : Examine(r, o)
    PROVE  MirrorInv' /\ UNCHANGED Mirror!vars
<1>1. UNCHANGED <<ledger, docObj, lost>>
  BY DEF Start, Refuse, LeaseRead, LeaseWrite, Enumerate, EnumerateFails, IngestFails,
         BeginAbsences, Finish, Abort, Release, Examine, store, history
<1>2. run \in [Runs -> Executions] /\ run[r] \in Executions
  BY DEF MirrorInv, LinkInv, TypeOK
<1>3. \A s \in Runs \ {r} : run'[s] = run[s]
  BY <1>2 DEF Start, Refuse, LeaseRead, LeaseWrite, Enumerate, EnumerateFails, IngestFails,
         BeginAbsences, Finish, Abort, Release, Examine, Ends, NextObject
<1>4. run[r].stage # "finalize"
  BY DEF Start, Refuse, LeaseRead, LeaseWrite, Enumerate, EnumerateFails, IngestFails,
         BeginAbsences, Finish, Abort, Release, Examine
<1>5. run'[r].stage # "finalize"
  <2>1. CASE Start(r) \/ Refuse(r)
    BY <1>2, <2>1 DEF Start, Refuse, Ends, Execution
  <2>2. CASE LeaseRead(r) \/ LeaseWrite(r)
    BY <1>2, <2>2 DEF LeaseRead, LeaseWrite, Ends, Execution, Executions
  <2>3. CASE Enumerate(r) \/ BeginAbsences(r)
    BY <1>2, <2>3 DEF Enumerate, BeginAbsences, Executions
  <2>4. CASE IngestFails(r)
    BY <1>2, <2>4 DEF IngestFails, NextObject, Executions
  <2>5. CASE EnumerateFails(r) \/ Finish(r) \/ Abort(r)
    BY <1>2, <2>5 DEF EnumerateFails, Finish, Abort, Ends, Execution
  <2>6. CASE Release(r)
    BY <1>2, <2>6 DEF Release, Executions
  <2>7. ASSUME NEW o \in Objects, Examine(r, o) PROVE run'[r].stage # "finalize"
    <3>1. CASE Unchanged(r, o)
      <4>1. run[r].stage = "objects" /\ run' = [run EXCEPT ![r].todo = @ \ {o}]
        BY <2>7, <3>1 DEF Examine
      <4>2. QED
        BY <1>2, <4>1 DEF Executions
    <3>2. CASE ~Unchanged(r, o)
      <4>1. run' = [run EXCEPT ![r] = [run[r] EXCEPT !.stage = "ingest", !.current = o,
                                                     !.previous = ledger[o].doc]]
        BY <2>7, <3>2 DEF Examine
      <4>2. QED
        BY <1>2, <4>1 DEF Executions
    <3>3. QED
      BY <3>1, <3>2
  <2>8. QED
    BY <2>1, <2>2, <2>3, <2>4, <2>5, <2>6, <2>7
<1>6. \A s \in Runs : Held(run'[s]) = Held(run[s])
  BY <1>3, <1>4, <1>5 DEF Held
<1>7. QED
  BY <1>1, <1>6, MirrorFrame

\* The document ingested is in hand, so not yet one that was ever shown.
LEMMA IngestMirror ==
    ASSUME MirrorInv, LinkInv', NEW r \in Runs, Ingest(r)
    PROVE  MirrorInv' /\ UNCHANGED Mirror!vars
<1> DEFINE d == NewDoc
<1>1. d \in Docs /\ docObj[d] = NoObject
  BY DEF Ingest, Unused, NewDoc
<1>2. /\ run \in [Runs -> Executions] /\ run[r] \in Executions
      /\ run[r].stage = "ingest" /\ run[r].current # NoObject
      /\ docObj \in [Docs -> Objects \cup {NoObject}]
  BY IdentityAssumption DEF MirrorInv, LinkInv, TypeOK, Ingest
<1>3. /\ \A s \in Runs \ {r} : run'[s] = run[s]
      /\ run'[r].stage = "finalize" /\ run'[r].fresh = d
  BY <1>2 DEF Ingest, Executions
<1>4. /\ UNCHANGED <<ledger, lost>>
      /\ docObj' = [docObj EXCEPT ![d] = run[r].current]
  BY DEF Ingest, history
<1> HIDE DEF d
<1>5. d \notin lost
  BY <1>1 DEF MirrorInv, LostExist
<1>6. InFlight' = InFlight \cup {d}
  <2>1. Held(run[r]) = {} /\ Held(run'[r]) = {d}
    BY <1>2, <1>3 DEF Held
  <2>2. QED
    BY <1>3, <2>1, InFlightIs
<1>7. Linked' = Linked
  <2>1. \A x \in Docs : x # d => docObj'[x] = docObj[x]
    BY <1>2, <1>4
  <2>2. QED
    BY <1>1, <1>4, <1>6, <2>1 DEF Linked
<1>8. LostExist'
  BY <1>2, <1>4 DEF MirrorInv, LostExist, LinkInv, TypeOK
<1>9. FreshNotLost'
  BY <1>3, <1>4, <1>5 DEF MirrorInv, FreshNotLost
<1>10. QED
  BY <1>4, <1>7, <1>8, <1>9, MirrorStutters DEF MirrorInv

\* The document in hand is lost with its execution, or its transaction.
LEMMA LossMirror ==
    ASSUME MirrorInv, LinkInv', NEW r \in Runs, run[r].stage = "finalize",
           UNCHANGED <<ledger, docObj>>, lost' = lost \cup {run[r].fresh},
           run'[r].stage # "finalize", \A s \in Runs \ {r} : run'[s] = run[s]
    PROVE  MirrorInv' /\ UNCHANGED Mirror!vars
<1>1. /\ docObj[run[r].fresh] # NoObject
      /\ \A s \in Runs \ {r} : run[s].stage = "finalize" => run[s].fresh # run[r].fresh
  BY IdentityAssumption DEF MirrorInv, LinkInv, FreshOK, TypeOK
<1>2. InFlight' \cup lost' = InFlight \cup lost
  <2>1. Held(run[r]) = {run[r].fresh} /\ Held(run'[r]) = {}
    BY DEF Held
  <2>2. InFlight = InFlight' \cup {run[r].fresh}
    BY <2>1, InFlightIs
  <2>3. QED
    BY <2>2
<1>3. Linked' = Linked
  BY <1>2 DEF Linked
<1>4. LostExist'
  BY <1>1 DEF MirrorInv, LostExist
<1>5. FreshNotLost'
  BY <1>1 DEF MirrorInv, FreshNotLost
<1>6. QED
  BY <1>3, <1>4, <1>5, MirrorStutters DEF MirrorInv

LEMMA FinalizeFailsMirror ==
    ASSUME MirrorInv, LinkInv', NEW r \in Runs, FinalizeFails(r)
    PROVE  MirrorInv' /\ UNCHANGED Mirror!vars
<1>1. run \in [Runs -> Executions] /\ run[r] \in Executions
  BY DEF MirrorInv, LinkInv, TypeOK
<1>2. \A s \in Runs \ {r} : run'[s] = run[s]
  BY <1>1 DEF FinalizeFails, NextObject
<1>3. run'[r].stage # "finalize"
  BY <1>1 DEF FinalizeFails, NextObject, Executions
<1>4. QED
  BY <1>2, <1>3, LossMirror DEF FinalizeFails, store

LEMMA CrashMirror ==
    ASSUME MirrorInv, LinkInv', NEW r \in Runs, Crash(r)
    PROVE  MirrorInv' /\ UNCHANGED Mirror!vars
<1>1. run \in [Runs -> Executions]
  BY DEF MirrorInv, LinkInv, TypeOK
<1>2. /\ UNCHANGED <<ledger, docObj>>
      /\ \A s \in Runs \ {r} : run'[s] = run[s]
      /\ run'[r].stage = "crashed"
  BY <1>1 DEF Crash, Ends, Execution, store
<1>3. CASE run[r].stage = "finalize"
  BY <1>2, <1>3, LossMirror DEF Crash
<1>4. CASE run[r].stage # "finalize"
  <2>1. UNCHANGED lost
    BY <1>4 DEF Crash
  <2>2. \A s \in Runs : Held(run'[s]) = Held(run[s])
    BY <1>2, <1>4 DEF Held
  <2>3. QED
    BY <1>2, <2>1, <2>2, MirrorFrame
<1>5. QED
  BY <1>3, <1>4

\* The finalization shows a document that was in hand, hence never shown, and
\* its row is no longer confirmed missing.
LEMMA FinalizeMirror ==
    ASSUME MirrorInv, LinkInv', NEW r \in Runs, Finalize(r)
    PROVE  MirrorInv' /\ \E o \in Objects, d \in Docs : Mirror!Show(o, d)
<1> DEFINE o == run[r].current
           d == run[r].fresh
<1>1. /\ run \in [Runs -> Executions] /\ run[r] \in Executions
      /\ run[r].stage = "finalize" /\ o \in Objects /\ d \in Docs
      /\ ledger \in [Objects -> LedgerRow]
  BY DEF MirrorInv, LinkInv, TypeOK, Finalize
<1>2. UNCHANGED <<docObj, lost>>
  BY DEF Finalize
<1>3. \A s \in Runs \ {r} : run'[s] = run[s]
  BY <1>1 DEF Finalize, NextObject
<1>4. run'[r].stage = "objects"
  <2>1. NextObject(r, run[r].unsynced)
    BY DEF Finalize
  <2>2. QED
    BY <1>1, <2>1 DEF NextObject, Executions
<1>5. /\ ledger' \in [Objects -> LedgerRow]
      /\ ledger'[o].doc = d /\ ledger'[o].confirmed = FALSE
      /\ \A x \in Objects \ {o} : ledger'[x] = ledger[x]
  <2>1. ledger' \in [Objects -> LedgerRow]
    BY DEF LinkInv, TypeOK
  <2>2. QED
    BY <1>1, <2>1 DEF Finalize, Relinked
<1>6. /\ docObj[d] # NoObject
      /\ \A s \in Runs \ {r} : run[s].stage = "finalize" => run[s].fresh # d
  BY <1>1, IdentityAssumption DEF MirrorInv, LinkInv, FreshOK
<1>7. d \notin lost /\ d \in InFlight
  BY <1>1 DEF MirrorInv, FreshNotLost, InFlight
<1>8. InFlight' = InFlight \ {d}
  <2>1. Held(run[r]) = {d} /\ Held(run'[r]) = {}
    BY <1>1, <1>4 DEF Held
  <2>2. \A s \in Runs \ {r} : d \notin Held(run[s]) /\ Held(run'[s]) = Held(run[s])
    BY <1>3, <1>6 DEF Held
  <2> HIDE DEF d
  <2>3. QED
    BY <2>1, <2>2, InFlightIs
<1> HIDE DEF o, d
<1>9. d \notin Linked /\ Linked' = Linked \cup {d}
  BY <1>1, <1>2, <1>6, <1>7, <1>8 DEF Linked
<1>10. [x \in Objects |-> ledger'[x].doc]
          = [[x \in Objects |-> ledger[x].doc] EXCEPT ![o] = d]
  BY <1>1, <1>5
<1>11. Withdrawn' = Withdrawn \ {o}
  <2>1. Withdrawn' = Confirmed'
    BY DEF LinkInv, LedgerLinksServedDocument, Withdrawn, Confirmed
  <2>2. Withdrawn = Confirmed
    BY WithdrawnConfirmed DEF MirrorInv
  <2>3. Confirmed' = Confirmed \ {o}
    BY <1>1, <1>5 DEF Confirmed, Known
  <2>4. QED
    BY <2>1, <2>2, <2>3
<1>12. \E x \in Objects, e \in Docs : Mirror!Show(x, e)
  BY <1>1, <1>9, <1>10, <1>11 DEF Mirror!Show
<1>13. LostExist'
  BY <1>2 DEF MirrorInv, LostExist
<1>14. FreshNotLost'
  BY <1>2, <1>3, <1>4 DEF MirrorInv, FreshNotLost
<1>15. QED
  BY <1>12, <1>13, <1>14 DEF MirrorInv

\* The absence that confirms withdraws the linked document; another shows nothing.
LEMMA CountAbsenceMirror ==
    ASSUME MirrorInv, LinkInv', NEW r \in Runs, NEW o \in Objects, CountAbsence(r, o)
    PROVE  MirrorInv' /\ (Mirror!Withdraw(o) \/ UNCHANGED Mirror!vars)
<1>1. /\ run \in [Runs -> Executions] /\ run[r] \in Executions
      /\ ledger \in [Objects -> LedgerRow] /\ ledger[o] \in LedgerRow
      /\ run[r].stage = "absences" /\ Known(o)
  BY DEF MirrorInv, LinkInv, TypeOK, CountAbsence
<1>2. UNCHANGED <<docObj, lost>> /\ \A s \in Runs : Held(run'[s]) = Held(run[s])
  <2>1. \A s \in Runs \ {r} : run'[s] = run[s]
    BY <1>1 DEF CountAbsence
  <2>2. run'[r].stage = "absences"
    BY <1>1 DEF CountAbsence, Executions
  <2>3. QED
    BY <1>1, <2>1, <2>2 DEF CountAbsence, Held
<1>3. /\ ledger' \in [Objects -> LedgerRow]
      /\ \A x \in Objects : ledger'[x].doc = ledger[x].doc
      /\ \A x \in Objects \ {o} : ledger'[x].confirmed = ledger[x].confirmed
      /\ ledger[o].confirmed => ledger'[o].confirmed
  <2>1. ledger' \in [Objects -> LedgerRow]
    BY DEF LinkInv, TypeOK
  <2>2. QED
    BY <1>1, <2>1 DEF CountAbsence, CountedAbsence, LedgerRow
<1>4. Linked' = Linked
  <2>1. InFlight' = InFlight
    BY <1>2, InFlightIs
  <2>2. QED
    BY <1>2, <2>1 DEF Linked
<1>5. [x \in Objects |-> ledger'[x].doc] = [x \in Objects |-> ledger[x].doc]
  BY <1>3
<1>6. Withdrawn' = Confirmed' /\ Withdrawn = Confirmed
  BY WithdrawnConfirmed
     DEF MirrorInv, LinkInv, LedgerLinksServedDocument, Withdrawn, Confirmed
<1>7. CASE ledger[o].confirmed \/ ~ledger'[o].confirmed
  <2>1. Confirmed' = Confirmed
    BY <1>3, <1>7 DEF Confirmed, Known
  <2>2. UNCHANGED Mirror!vars
    BY <1>4, <1>5, <1>6, <2>1 DEF Mirror!vars
  <2>3. QED
    BY <1>2, <2>2 DEF MirrorInv, LostExist, FreshNotLost, Held
<1>8. CASE ~ledger[o].confirmed /\ ledger'[o].confirmed
  <2>1. Confirmed' = Confirmed \cup {o} /\ o \notin Confirmed
    BY <1>1, <1>3, <1>8 DEF Confirmed, Known
  <2>2. Mirror!Withdraw(o)
    BY <1>1, <1>4, <1>5, <1>6, <2>1 DEF Mirror!Withdraw, Known
  <2>3. QED
    BY <1>2, <2>2 DEF MirrorInv, LostExist, FreshNotLost, Held
<1>9. QED
  BY <1>7, <1>8

LEMMA NextMirror ==
    MirrorInv /\ [Next]_vars => MirrorInv' /\ [Mirror!Next]_(Mirror!vars)
<1> SUFFICES ASSUME MirrorInv, [Next]_vars
             PROVE  MirrorInv' /\ [Mirror!Next]_(Mirror!vars)
  OBVIOUS
<1>1. LinkInv'
  BY NextLinkInv DEF MirrorInv
<1>2. CASE Source \/ ExpireLease \/ UNCHANGED vars \/ \E d \in Docs : Ocr(d)
  <2>1. UNCHANGED <<ledger, docObj, lost, run>>
    BY <1>2 DEF Source, Upload, Remove, Restore, ExpireLease, Ocr, vars, store, history
  <2>2. QED
    BY <1>1, <2>1, MirrorFrame
<1>3. CASE \E r \in Runs : Start(r) \/ RunStep(r) \/ Crash(r)
  <2> PICK r \in Runs : Start(r) \/ RunStep(r) \/ Crash(r)
    BY <1>3
  <2>1. CASE Finalize(r)
    BY <1>1, <2>1, FinalizeMirror DEF Mirror!Next
  <2>2. ASSUME NEW o \in Objects, CountAbsence(r, o)
        PROVE  MirrorInv' /\ [Mirror!Next]_(Mirror!vars)
    BY <1>1, <2>2, CountAbsenceMirror DEF Mirror!Next
  <2>3. CASE Ingest(r) \/ FinalizeFails(r) \/ Crash(r)
    BY <1>1, <2>3, IngestMirror, FinalizeFailsMirror, CrashMirror
  <2>4. QED
    BY <1>1, <2>1, <2>2, <2>3, QuietMirror DEF RunStep
<1>4. QED
  BY <1>2, <1>3 DEF Next

\* However executions overlap, die or fail, what the ledger links of the source moves
\* only as SourceMirror says: a document is linked once, to one object, and one that
\* was replaced or hidden for its absence is never linked again; an object that comes
\* back does so with a new document (_reconcile_object, _reconcile_absences).
THEOREM SourceMirrored == Spec => ImplementsSourceMirror
<1>1. Init => MirrorInv /\ Mirror!Init
  BY InitMirror
<1>2. MirrorInv /\ [Next]_vars => MirrorInv' /\ [Mirror!Next]_(Mirror!vars)
  BY NextMirror
<1>3. QED
  BY <1>1, <1>2, PTL DEF Spec, ImplementsSourceMirror, Mirror!Spec

-----------------------------------------------------------------------------
(* Where each step takes its execution.                                    *)

LEMMA ExecutionIs ==
    ASSUME NEW stage, NEW outcome
    PROVE  /\ Execution(stage, outcome).stage = stage
           /\ Execution(stage, outcome).outcome = outcome
           /\ Execution(stage, outcome).listing = [o \in Objects |-> 0]
           /\ Execution(stage, outcome).todo = {}
BY DEF Execution

LEMMA OthersStand ==
    ASSUME TypeOK, NEW r \in Runs, Start(r) \/ RunStep(r) \/ Crash(r)
    PROVE  \A s \in Runs \ {r} : run'[s] = run[s]
BY DEF TypeOK, Start, RunStep, Crash, Refuse, LeaseRead, LeaseWrite, Enumerate, EnumerateFails,
   Examine, CountAbsence, Ingest, IngestFails, Finalize, FinalizeFails, BeginAbsences, Finish,
   Abort, Release, Ends, NextObject

\* Its list of objects, what is left of it and what it failed on; its outcome.
SameList(r) == /\ run'[r].listing = run[r].listing /\ run'[r].todo = run[r].todo
               /\ run'[r].unsynced = run[r].unsynced /\ run'[r].outcome = run[r].outcome
OffTheList(r, o) == /\ run'[r].listing = run[r].listing /\ run'[r].todo = run[r].todo \ {o}
                    /\ run'[r].outcome = run[r].outcome
Resets(r, stage, outcome) == run'[r] = Execution(stage, outcome)

LEMMA OuterTable ==
    ASSUME TypeOK, NEW r \in Runs
    PROVE  /\ Start(r) => run[r].stage = "idle" /\ Resets(r, "lease_read", "started")
           /\ Refuse(r) => run[r].stage = "idle" /\ Resets(r, "done", "blocked")
           /\ LeaseRead(r) => /\ run[r].stage = "lease_read"
                              /\ \/ Resets(r, "done", "lease_held")
                                 \/ run'[r].stage = "lease_write" /\ SameList(r)
           /\ LeaseWrite(r) => /\ run[r].stage = "lease_write"
                               /\ run'[r].stage = "enumerate" /\ SameList(r)
           /\ EnumerateFails(r) => /\ run[r].stage = "enumerate"
                                   /\ \E outcome : Resets(r, "release", outcome)
           /\ Finish(r) => run[r].stage = "absences" /\ Resets(r, "release", "succeeded")
           /\ Abort(r) => /\ run[r].stage \in {"enumerate", "objects", "absences"}
                          /\ Resets(r, "release", run[r].outcome)
           /\ Release(r) => /\ run[r].stage = "release" /\ run'[r].stage = "done"
                            /\ SameList(r)
           /\ Crash(r) => /\ run[r].stage \notin {"idle"} \cup Ended
                          /\ Resets(r, "crashed", run[r].outcome)
<1>1. run \in [Runs -> Executions] /\ run[r] \in Executions
  BY DEF TypeOK
<1>2. /\ Start(r) => run[r].stage = "idle" /\ Resets(r, "lease_read", "started")
      /\ Refuse(r) => run[r].stage = "idle" /\ Resets(r, "done", "blocked")
      /\ Finish(r) => run[r].stage = "absences" /\ Resets(r, "release", "succeeded")
      /\ Abort(r) => /\ run[r].stage \in {"enumerate", "objects", "absences"}
                     /\ Resets(r, "release", run[r].outcome)
      /\ Crash(r) => /\ run[r].stage \notin {"idle"} \cup Ended
                     /\ Resets(r, "crashed", run[r].outcome)
  BY <1>1 DEF Start, Refuse, Finish, Abort, Crash, Ends, Resets
<1>3. EnumerateFails(r) => /\ run[r].stage = "enumerate"
                           /\ \E outcome : Resets(r, "release", outcome)
  BY <1>1 DEF EnumerateFails, Ends, Resets
<1>4. LeaseRead(r) => /\ run[r].stage = "lease_read"
                      /\ \/ Resets(r, "done", "lease_held")
                         \/ run'[r].stage = "lease_write" /\ SameList(r)
  BY <1>1 DEF LeaseRead, Ends, Resets, SameList, Executions
<1>5. LeaseWrite(r) => /\ run[r].stage = "lease_write"
                       /\ run'[r].stage = "enumerate" /\ SameList(r)
  BY <1>1 DEF LeaseWrite, SameList, Executions
<1>6. Release(r) => /\ run[r].stage = "release" /\ run'[r].stage = "done"
                    /\ SameList(r)
  BY <1>1 DEF Release, SameList, Executions
<1>7. QED
  BY <1>2, <1>3, <1>4, <1>5, <1>6

LEMMA InnerTable ==
    ASSUME TypeOK, NEW r \in Runs
    PROVE  /\ Enumerate(r) =>
                /\ run[r].stage = "enumerate" /\ run'[r].stage = "objects"
                /\ \A o \in Objects : run'[r].listing[o] =
                     (IF source[o].present THEN source[o].version ELSE 0)
                /\ run'[r].todo = {o \in Objects : source[o].present} /\ run'[r].outcome = run[r].outcome
           /\ \A o \in Objects : Examine(r, o) =>
                /\ run[r].stage = "objects" /\ o \in run[r].todo
                /\ IF Unchanged(r, o)
                   THEN /\ run'[r].stage = "objects" /\ OffTheList(r, o)
                        /\ run'[r].unsynced = run[r].unsynced
                   ELSE /\ run'[r].stage = "ingest" /\ SameList(r) /\ run'[r].current = o
                        /\ run'[r].previous = ledger[o].doc
           /\ Ingest(r) => /\ run[r].stage = "ingest" /\ run'[r].stage = "finalize"
                           /\ SameList(r) /\ run'[r].current = run[r].current
                           /\ run'[r].previous = run[r].previous /\ run'[r].fresh = NewDoc
           /\ IngestFails(r) \/ FinalizeFails(r) =>
                /\ run[r].stage \in {"ingest", "finalize"} /\ run'[r].stage = "objects"
                /\ OffTheList(r, run[r].current)
                /\ run'[r].unsynced = run[r].unsynced \cup {run[r].current}
           /\ Finalize(r) => /\ run[r].stage = "finalize" /\ run'[r].stage = "objects"
                             /\ OffTheList(r, run[r].current)
                             /\ run'[r].unsynced = run[r].unsynced
           /\ BeginAbsences(r) =>
                /\ run[r].stage = "objects" /\ run'[r].stage = "absences" /\ run[r].todo = {}
                /\ run'[r].outcome = run[r].outcome
                /\ run'[r].listing = run[r].listing /\ run'[r].unsynced = run[r].unsynced
                /\ \A o \in run'[r].todo : o \in Objects /\ run[r].listing[o] = 0
           /\ \A o \in Objects : CountAbsence(r, o) =>
                /\ run[r].stage = "absences" /\ run'[r].stage = "absences" /\ o \in run[r].todo
                /\ OffTheList(r, o)
                /\ run'[r].unsynced = run[r].unsynced
<1>1. run \in [Runs -> Executions] /\ run[r] \in Executions
  BY DEF TypeOK
<1>2. Enumerate(r) =>
        /\ run[r].stage = "enumerate" /\ run'[r].stage = "objects"
        /\ \A o \in Objects : run'[r].listing[o] =
             (IF source[o].present THEN source[o].version ELSE 0)
        /\ run'[r].todo = {o \in Objects : source[o].present} /\ run'[r].outcome = run[r].outcome
  BY <1>1 DEF Enumerate, Executions
<1>3. ASSUME NEW o \in Objects, Examine(r, o)
      PROVE  /\ run[r].stage = "objects" /\ o \in run[r].todo
             /\ IF Unchanged(r, o)
                THEN /\ run'[r].stage = "objects" /\ OffTheList(r, o)
                     /\ run'[r].unsynced = run[r].unsynced
                ELSE /\ run'[r].stage = "ingest" /\ SameList(r) /\ run'[r].current = o
                     /\ run'[r].previous = ledger[o].doc
  <2>1. CASE Unchanged(r, o)
    BY <1>1, <1>3, <2>1 DEF Examine, OffTheList, Executions
  <2>2. CASE ~Unchanged(r, o)
    <3> DEFINE e == [run[r] EXCEPT !.stage = "ingest", !.current = o, !.previous = ledger[o].doc]
    <3>1. /\ e.stage = "ingest" /\ e.current = o /\ e.previous = ledger[o].doc
          /\ e.listing = run[r].listing /\ e.todo = run[r].todo
          /\ e.unsynced = run[r].unsynced /\ e.outcome = run[r].outcome
      BY <1>1 DEF Executions
    <3>2. run' = [run EXCEPT ![r] = e] /\ run[r].stage = "objects" /\ o \in run[r].todo
      BY <1>3, <2>2 DEF Examine
    <3> HIDE DEF e
    <3>3. run'[r] = e
      BY <1>1, <3>2
    <3>4. QED
      BY <2>2, <3>1, <3>2, <3>3 DEF SameList
  <2>3. QED
    BY <2>1, <2>2
<1>4. Ingest(r) => /\ run[r].stage = "ingest" /\ run'[r].stage = "finalize"
                   /\ SameList(r) /\ run'[r].current = run[r].current
                   /\ run'[r].previous = run[r].previous /\ run'[r].fresh = NewDoc
  BY <1>1 DEF Ingest, SameList, Executions
<1>5. ASSUME NEW unsynced, NextObject(r, unsynced)
      PROVE  /\ run'[r].stage = "objects" /\ OffTheList(r, run[r].current)
             /\ run'[r].unsynced = unsynced
  BY <1>1, <1>5 DEF NextObject, OffTheList, Executions
<1>6. IngestFails(r) \/ FinalizeFails(r) =>
        /\ run[r].stage \in {"ingest", "finalize"} /\ run'[r].stage = "objects"
        /\ OffTheList(r, run[r].current)
        /\ run'[r].unsynced = run[r].unsynced \cup {run[r].current}
  BY <1>5 DEF IngestFails, FinalizeFails
<1>7. Finalize(r) => /\ run[r].stage = "finalize" /\ run'[r].stage = "objects"
                     /\ OffTheList(r, run[r].current)
                     /\ run'[r].unsynced = run[r].unsynced
  BY <1>5 DEF Finalize
<1>8. BeginAbsences(r) =>
        /\ run[r].stage = "objects" /\ run'[r].stage = "absences" /\ run[r].todo = {}
        /\ run'[r].outcome = run[r].outcome
        /\ run'[r].listing = run[r].listing /\ run'[r].unsynced = run[r].unsynced
        /\ \A o \in run'[r].todo : o \in Objects /\ run[r].listing[o] = 0
  BY <1>1 DEF BeginAbsences, Executions
<1>9. ASSUME NEW o \in Objects, CountAbsence(r, o)
      PROVE  /\ run[r].stage = "absences" /\ run'[r].stage = "absences" /\ o \in run[r].todo
             /\ OffTheList(r, o)
             /\ run'[r].unsynced = run[r].unsynced
  BY <1>1, <1>9 DEF CountAbsence, OffTheList, Executions
<1>10. QED
  BY <1>2, <1>3, <1>4, <1>6, <1>7, <1>8, <1>9

-----------------------------------------------------------------------------
(* An object is confirmed missing on the word of enough executions. What   *)
(* the row counts is how many executions counted, since the document was   *)
(* linked; and an execution that counted an object no longer has it on its *)
(* list, has listed the container, and stays without a failed outcome.     *)

HasCounted(e, o) == /\ e.stage \in {"absences", "release", "done", "crashed"}
                    /\ e.outcome \notin {"blocked", "failed"}
                    /\ e.stage = "absences" => o \notin e.todo
CountedBy == \A o \in Objects : \A r \in witness[o] : HasCounted(run[r], o)
CountsWitnesses == \A o \in Objects :
    /\ IsFiniteSet(witness[o])
    /\ ledger[o].sightings = Cardinality(witness[o])
    /\ ledger[o].confirmed => Confirms(ledger[o].sightings)
\* The outcome of an execution is a failure only once it is over.
Undecided == \A r \in Runs : run[r].stage \in {"lease_read", "lease_write"} \cup Leased =>
    run[r].outcome \notin {"blocked", "failed"}
WitnessInv == CountedBy /\ CountsWitnesses /\ Undecided

LEMMA StepUndecided ==
    ASSUME TypeOK, Undecided, Next
    PROVE  Undecided'
<1>1. ASSUME NEW r \in Runs, Start(r) \/ RunStep(r) \/ Crash(r) PROVE Undecided'
  <2>1. SUFFICES ASSUME run'[r].stage \in {"lease_read", "lease_write"} \cup Leased
                 PROVE  run'[r].outcome \notin {"blocked", "failed"}
    BY <1>1, OthersStand DEF Undecided
  <2>2. CASE Start(r)
    BY <2>2, OuterTable, ExecutionIs DEF Resets
  <2>3. CASE Refuse(r) \/ EnumerateFails(r) \/ Finish(r) \/ Abort(r) \/ Release(r) \/ Crash(r)
    BY <2>1, <2>3, OuterTable, ExecutionIs DEF Resets, Leased
  <2>4. CASE LeaseRead(r) \/ LeaseWrite(r)
    BY <2>1, <2>4, OuterTable, ExecutionIs DEF Resets, SameList, Undecided
  <2>5. CASE \/ Enumerate(r) \/ Ingest(r) \/ IngestFails(r) \/ Finalize(r) \/ FinalizeFails(r)
             \/ BeginAbsences(r) \/ \E o \in Objects : Examine(r, o) \/ CountAbsence(r, o)
    BY <2>5, InnerTable DEF SameList, OffTheList, Undecided, Leased
  <2>6. QED
    BY <1>1, <2>2, <2>3, <2>4, <2>5 DEF RunStep
<1>2. CASE Source \/ ExpireLease \/ \E d \in Docs : Ocr(d)
  BY <1>2 DEF Source, Upload, Remove, Restore, ExpireLease, Ocr, Undecided
<1>3. QED
  BY <1>1, <1>2 DEF Next

LEMMA WitnessFrame ==
    ASSUME TypeOK, WitnessInv, UNCHANGED <<ledger, witness>>,
           \A r \in Runs, o \in Objects : HasCounted(run[r], o) => HasCounted(run'[r], o)
    PROVE  CountedBy' /\ CountsWitnesses'
<1>1. \A o \in Objects : witness[o] \subseteq Runs
  BY DEF TypeOK
<1>2. CountedBy'
  BY <1>1 DEF WitnessInv, CountedBy
<1>3. CountsWitnesses'
  BY DEF WitnessInv, CountsWitnesses
<1>4. QED
  BY <1>2, <1>3

\* An absence is counted by an execution that had not counted it.
LEMMA CountAbsenceWitness ==
    ASSUME TypeOK, WitnessInv, NEW r \in Runs, NEW o \in Objects, CountAbsence(r, o)
    PROVE  CountedBy' /\ CountsWitnesses'
<1>1. /\ ledger \in [Objects -> LedgerRow] /\ ledger[o].sightings \in Nat
      /\ witness \in [Objects -> SUBSET Runs] /\ MISSING_CONFIRMATIONS \in Nat
  BY BoundAssumption DEF TypeOK, LedgerRow
<1>2. /\ run[r].stage = "absences" /\ run'[r].stage = "absences" /\ o \in run[r].todo
      /\ run'[r].todo = run[r].todo \ {o} /\ run'[r].outcome = run[r].outcome
  BY InnerTable DEF OffTheList
<1>3. run[r].outcome \notin {"blocked", "failed"}
  BY <1>2 DEF WitnessInv, Undecided, Leased
<1>4. /\ witness' = [witness EXCEPT ![o] = @ \cup {r}]
      /\ ledger' = [ledger EXCEPT ![o] = CountedAbsence(o)]
  BY DEF CountAbsence
<1>5. /\ CountedAbsence(o).sightings = ledger[o].sightings + 1
      /\ CountedAbsence(o).confirmed = (ledger[o].confirmed \/ Confirms(ledger[o].sightings + 1))
  BY <1>1 DEF CountedAbsence, LedgerRow
<1>6. r \notin witness[o]
  BY <1>2 DEF WitnessInv, CountedBy, HasCounted
<1>7. CountedBy'
  <2>1. \A s \in Runs \ {r} : run'[s] = run[s]
    BY OthersStand DEF RunStep
  <2>2. \A x \in Objects : HasCounted(run[r], x) => HasCounted(run'[r], x)
    BY <1>2 DEF HasCounted
  <2>3. HasCounted(run'[r], o)
    BY <1>2, <1>3 DEF HasCounted
  <2>4. ASSUME NEW x \in Objects, NEW s \in witness'[x] PROVE HasCounted(run'[s], x)
    <3>1. s \in Runs /\ (s \in witness[x] \/ (s = r /\ x = o))
      BY <1>1, <1>4, <2>4
    <3>2. QED
      BY <2>1, <2>2, <2>3, <3>1 DEF WitnessInv, CountedBy
  <2>5. QED
    BY <2>4 DEF CountedBy
<1>8. CountsWitnesses'
  <2>1. /\ IsFiniteSet(witness[o] \cup {r})
        /\ Cardinality(witness[o] \cup {r}) = ledger[o].sightings + 1
    BY <1>6, FS_AddElement DEF WitnessInv, CountsWitnesses
  <2>2. ledger[o].confirmed => Confirms(ledger[o].sightings + 1)
    BY <1>1 DEF WitnessInv, CountsWitnesses, Confirms
  <2>3. ASSUME NEW x \in Objects
        PROVE  /\ IsFiniteSet(witness'[x])
               /\ ledger'[x].sightings = Cardinality(witness'[x])
               /\ ledger'[x].confirmed => Confirms(ledger'[x].sightings)
    <3>1. CASE x = o
      BY <1>1, <1>4, <1>5, <2>1, <2>2, <3>1
    <3>2. CASE x # o
      BY <1>1, <1>4, <3>2 DEF WitnessInv, CountsWitnesses
    <3>3. QED
      BY <3>1, <3>2
  <2>4. QED
    BY <2>3 DEF CountsWitnesses, Confirms
<1>9. QED
  BY <1>7, <1>8

\* A row relinked starts counting again.
LEMMA FinalizeWitness ==
    ASSUME TypeOK, WitnessInv, NEW r \in Runs, Finalize(r)
    PROVE  CountedBy' /\ CountsWitnesses'
<1> DEFINE o == run[r].current
<1>1. /\ ledger \in [Objects -> LedgerRow] /\ witness \in [Objects -> SUBSET Runs]
      /\ o \in Objects
  BY DEF TypeOK, Finalize
<1>2. /\ ledger' = [ledger EXCEPT ![o] = Relinked(r)] /\ witness' = [witness EXCEPT ![o] = {}]
      /\ Relinked(r).sightings = 0 /\ Relinked(r).confirmed = FALSE
  BY DEF Finalize, Relinked
<1>3. CountedBy'
  <2>1. \A s \in Runs \ {r} : run'[s] = run[s]
    BY OthersStand DEF RunStep
  <2>2. \A x \in Objects : r \notin witness[x]
    BY DEF Finalize, WitnessInv, CountedBy, HasCounted
  <2>3. ASSUME NEW x \in Objects, NEW s \in witness'[x] PROVE s \in witness[x] /\ s \in Runs
    BY <1>1, <1>2, <2>3
  <2>4. QED
    BY <2>1, <2>2, <2>3 DEF WitnessInv, CountedBy
<1>4. CountsWitnesses'
  <2>1. IsFiniteSet({}) /\ Cardinality({}) = 0
    BY FS_EmptySet
  <2> HIDE DEF o
  <2>2. ASSUME NEW x \in Objects
        PROVE  /\ IsFiniteSet(witness'[x])
               /\ ledger'[x].sightings = Cardinality(witness'[x])
               /\ ledger'[x].confirmed => Confirms(ledger'[x].sightings)
    BY <1>1, <1>2, <2>1 DEF WitnessInv, CountsWitnesses
  <2>3. QED
    BY <2>2 DEF CountsWitnesses, Confirms
<1>5. QED
  BY <1>3, <1>4

LEMMA StepWitnessInv ==
    ASSUME TypeOK, WitnessInv, Next
    PROVE  WitnessInv'
<1>1. ASSUME NEW r \in Runs, Start(r) \/ RunStep(r) \/ Crash(r)
      PROVE  CountedBy' /\ CountsWitnesses'
  <2>1. CASE Finalize(r)
    BY <2>1, FinalizeWitness
  <2>2. CASE \E o \in Objects : CountAbsence(r, o)
    BY <2>2, CountAbsenceWitness
  <2>3. CASE ~Finalize(r) /\ ~\E o \in Objects : CountAbsence(r, o)
    <3>1. UNCHANGED <<ledger, witness>>
      BY <1>1, <2>3 DEF Start, RunStep, Crash, Refuse, LeaseRead, LeaseWrite, Enumerate,
         EnumerateFails, Examine, Ingest, IngestFails, FinalizeFails, BeginAbsences, Finish, Abort,
         Release, store, history
    <3>2. ASSUME NEW o \in Objects, HasCounted(run[r], o) PROVE HasCounted(run'[r], o)
      <4>1. CASE Finish(r) \/ Abort(r) \/ Crash(r) \/ Release(r)
        BY <3>2, <4>1, OuterTable, ExecutionIs DEF Resets, SameList, HasCounted
      <4>2. CASE \/ Start(r) \/ Refuse(r) \/ LeaseRead(r) \/ LeaseWrite(r) \/ EnumerateFails(r)
        BY <3>2, <4>2, OuterTable DEF HasCounted
      <4>3. CASE \/ Enumerate(r) \/ Ingest(r) \/ IngestFails(r) \/ FinalizeFails(r)
                 \/ BeginAbsences(r) \/ \E x \in Objects : Examine(r, x)
        BY <3>2, <4>3, InnerTable DEF HasCounted
      <4>4. QED
        BY <1>1, <2>3, <4>1, <4>2, <4>3 DEF RunStep
    <3>3. \A s \in Runs, o \in Objects : HasCounted(run[s], o) => HasCounted(run'[s], o)
      BY <1>1, <3>2, OthersStand
    <3>4. QED
      BY <3>1, <3>3, WitnessFrame
  <2>4. QED
    BY <2>1, <2>2, <2>3
<1>2. ASSUME Source \/ ExpireLease \/ \E d \in Docs : Ocr(d)
      PROVE  CountedBy' /\ CountsWitnesses'
  <2>1. UNCHANGED <<ledger, witness, run>>
    BY <1>2 DEF Source, Upload, Remove, Restore, ExpireLease, Ocr, store, history
  <2>2. QED
    BY <2>1, WitnessFrame
<1>3. QED
  BY <1>1, <1>2, StepUndecided DEF Next, WitnessInv

\* However executions overlap, fail, crash and are redelivered, an object is confirmed
\* missing only on the word of MISSING_CONFIRMATIONS different executions, each of
\* which listed the container and did not find it (record_absence, confirm_missing).
THEOREM MissingWitnessed == Spec => []MissingNeedsWitnesses
<1>1. Init => WitnessInv
  BY FS_EmptySet, ExecutionIs
  DEF Init, WitnessInv, CountedBy, CountsWitnesses, Undecided, Unlinked, Leased
<1>2. TypeOK /\ WitnessInv /\ [Next]_vars => WitnessInv'
  <2>1. ASSUME WitnessInv, UNCHANGED vars PROVE WitnessInv'
    BY <2>1 DEF vars, store, history, WitnessInv, CountedBy, CountsWitnesses, Undecided
  <2>2. QED
    BY <2>1, StepWitnessInv
<1>3. WitnessInv => MissingNeedsWitnesses
  BY DEF WitnessInv, CountedBy, CountsWitnesses, HasCounted, Confirms, MissingNeedsWitnesses
<1>4. QED
  BY <1>1, <1>2, <1>3, TypeCorrect, PTL DEF Spec

-----------------------------------------------------------------------------
(* The lease: who holds it came past acquire_lease and is not past its     *)
(* `finally`, unless it died.                                              *)

HoldingStages == Leased \cup {"release", "crashed"}

LEMMA StepEndedHoldsNoLease ==
    ASSUME TypeOK, EndedHoldsNoLease, [Next]_vars
    PROVE  EndedHoldsNoLease'
<1> SUFFICES ASSUME lease'.live
             PROVE  run'[lease'.holder].stage \in HoldingStages
  BY DEF EndedHoldsNoLease, HoldingStages
<1>1. lease.live => lease.holder \in Runs /\ run[lease.holder].stage \in HoldingStages
  BY DEF TypeOK, EndedHoldsNoLease, HoldingStages
<1>2. CASE Source \/ ExpireLease \/ (\E d \in Docs : Ocr(d)) \/ UNCHANGED vars
  <2>1. ~ExpireLease
    BY DEF ExpireLease, TypeOK
  <2>2. UNCHANGED <<lease, run>>
    BY <1>2, <2>1 DEF Source, Upload, Remove, Restore, Ocr, vars
  <2>3. QED
    BY <1>1, <2>2
<1>3. ASSUME NEW r \in Runs, LeaseWrite(r)
      PROVE  run'[lease'.holder].stage \in HoldingStages
  BY <1>3, OuterTable DEF LeaseWrite, HoldingStages, Leased
<1>4. ASSUME NEW r \in Runs, Start(r) \/ RunStep(r) \/ Crash(r), ~LeaseWrite(r)
      PROVE  run'[lease'.holder].stage \in HoldingStages
  <2>1. lease.live /\ lease' = lease /\ (Release(r) => lease.holder # r)
    <3>1. CASE Release(r)
      BY <3>1 DEF Release
    <3>2. CASE ~Release(r)
      BY <1>4, <3>2 DEF Start, RunStep, Crash, Refuse, LeaseRead, Enumerate, EnumerateFails, Examine,
         CountAbsence, Ingest, IngestFails, Finalize, FinalizeFails, BeginAbsences, Finish, Abort
    <3>3. QED
      BY <3>1, <3>2
  <2>2. CASE lease.holder # r
    BY <1>1, <1>4, <2>1, <2>2, OthersStand DEF HoldingStages
  <2>3. CASE lease.holder = r
    <3>1. run[r].stage \in HoldingStages /\ ~Release(r)
      BY <1>1, <2>1, <2>3
    <3>2. CASE Start(r) \/ Refuse(r) \/ LeaseRead(r)
      BY <3>1, <3>2, OuterTable DEF HoldingStages, Leased
    <3>3. CASE EnumerateFails(r) \/ Finish(r) \/ Abort(r) \/ Crash(r)
      BY <2>1, <2>3, <3>3, OuterTable, ExecutionIs DEF Resets, HoldingStages
    <3>4. CASE \/ Enumerate(r) \/ Ingest(r) \/ IngestFails(r) \/ Finalize(r) \/ FinalizeFails(r)
               \/ BeginAbsences(r) \/ \E o \in Objects : Examine(r, o) \/ CountAbsence(r, o)
      BY <2>1, <2>3, <3>4, InnerTable DEF HoldingStages, Leased
    <3>5. QED
      BY <1>4, <3>1, <3>2, <3>3, <3>4 DEF RunStep
  <2>4. QED
    BY <2>2, <2>3
<1>5. QED
  BY <1>2, <1>3, <1>4 DEF Next

\* An execution that ended by itself, whichever way it ended, holds no lease: only one
\* that died can leave the connection's lease to expire (run_sync's `finally`,
\* release_lease), whatever executions took the lease over meanwhile.
THEOREM EndedReleased == Spec => []EndedHoldsNoLease
<1>1. Init => EndedHoldsNoLease
  BY DEF Init, EndedHoldsNoLease
<1>2. TypeOK /\ EndedHoldsNoLease /\ [Next]_vars => EndedHoldsNoLease'
  BY StepEndedHoldsNoLease
<1>3. QED
  BY <1>1, <1>2, TypeCorrect, PTL DEF Spec

-----------------------------------------------------------------------------
(* The lists of executions: an object listed is one the source had, so a   *)
(* version listed is not ahead of the source's, and what a ledger row      *)
(* links is not either.                                                    *)

ListOf(e) ==
    /\ e.stage \in {"objects", "ingest", "finalize"} => \A o \in e.todo : e.listing[o] # 0
    /\ e.stage \in {"ingest", "finalize"} => e.current \in e.todo
    /\ e.stage = "absences" => \A o \in e.todo : e.listing[o] = 0
Behind(e, src) == \A o \in Objects : e.listing[o] <= src[o].version
ListInv ==
    /\ \A r \in Runs : ListOf(run[r]) /\ Behind(run[r], source)
    /\ \A o \in Objects : source[o].present => source[o].version # 0
    /\ \A o \in Objects : ledger[o].version <= source[o].version

LEMMA SourceAdvances ==
    ASSUME TypeOK, ListInv, Source
    PROVE  ListInv'
<1>1. PICK o \in Objects : Upload(o) \/ Remove(o) \/ Restore(o)
  BY DEF Source
<1>2. /\ source \in [Objects -> [present : BOOLEAN, version : 0..MaxVersion]]
      /\ ledger \in [Objects -> LedgerRow] /\ run \in [Runs -> Executions]
  BY DEF TypeOK
<1>3. UNCHANGED <<ledger, run>>
  BY <1>1 DEF Upload, Remove, Restore, store
<1>4. \A x \in Objects : /\ source'[x].version >= source[x].version
                         /\ source'[x].present => source'[x].version # 0
                         /\ source'[x].version \in Int /\ source[x].version \in Int
  <2>1. CASE Upload(o)
    <3>1. source' = [source EXCEPT ![o] = [present |-> TRUE, version |-> source[o].version + 1]]
      BY <2>1 DEF Upload
    <3>2. QED
      BY <1>2, <3>1, BoundAssumption DEF ListInv
  <2>2. CASE Remove(o)
    BY <1>2, <2>2 DEF Remove, ListInv
  <2>3. CASE Restore(o)
    BY <1>2, <2>3 DEF Restore, ListInv
  <2>4. QED
    BY <1>1, <2>1, <2>2, <2>3
<1>5. \A x \in Objects : ledger[x].version \in Int /\ \A r \in Runs : run[r].listing[x] \in Int
  BY <1>2 DEF LedgerRow, Executions
<1>6. ASSUME NEW x \in Objects, NEW n \in Int, n <= source[x].version
      PROVE  n <= source'[x].version
  BY <1>4, <1>6
<1>7. QED
  BY <1>3, <1>4, <1>5, <1>6 DEF ListInv, Behind

LEMMA StepList ==
    ASSUME TypeOK, ListInv, NEW r \in Runs, Start(r) \/ RunStep(r) \/ Crash(r)
    PROVE  ListOf(run'[r]) /\ Behind(run'[r], source)
<1>1. ListOf(run[r]) /\ Behind(run[r], source)
  BY DEF ListInv
<1>2. \A o \in Objects : source[o].version \in Nat
  BY DEF TypeOK
<1>3. ASSUME NEW stage \in {"lease_read", "done", "release", "crashed"}, NEW outcome,
             Resets(r, stage, outcome)
      PROVE  ListOf(run'[r]) /\ Behind(run'[r], source)
  BY <1>2, <1>3, ExecutionIs DEF Resets, ListOf, Behind
<1>4. CASE Start(r) \/ Refuse(r) \/ EnumerateFails(r) \/ Finish(r) \/ Abort(r) \/ Crash(r)
  BY <1>3, <1>4, OuterTable
<1>5. CASE LeaseRead(r) \/ LeaseWrite(r) \/ Release(r)
  BY <1>1, <1>3, <1>5, OuterTable DEF SameList, ListOf, Behind
<1>6. CASE Enumerate(r)
  BY <1>2, <1>6, InnerTable DEF ListInv, ListOf, Behind
<1>7. CASE \E o \in Objects : Examine(r, o)
  BY <1>1, <1>7, InnerTable DEF SameList, OffTheList, ListOf, Behind
<1>8. CASE Ingest(r) \/ IngestFails(r) \/ FinalizeFails(r) \/ Finalize(r)
  BY <1>1, <1>8, InnerTable DEF SameList, OffTheList, ListOf, Behind
<1>9. CASE BeginAbsences(r)
  BY <1>1, <1>9, InnerTable DEF ListOf, Behind
<1>10. CASE \E o \in Objects : CountAbsence(r, o)
  BY <1>1, <1>10, InnerTable DEF OffTheList, ListOf, Behind
<1>11. QED
  BY <1>4, <1>5, <1>6, <1>7, <1>8, <1>9, <1>10 DEF RunStep

\* What a step writes to a row: its version only by a finalization, which links
\* the version the execution listed.
LEMMA LedgerSteps ==
    ASSUME TypeOK, NEW r \in Runs, Start(r) \/ RunStep(r) \/ Crash(r)
    PROVE  /\ ~Finalize(r) => \A o \in Objects : /\ ledger'[o].version = ledger[o].version
                                                 /\ ledger'[o].doc = ledger[o].doc
           /\ Finalize(r) => \A o \in Objects :
                IF o = run[r].current
                THEN /\ ledger'[o].version = run[r].listing[o] /\ ~ledger'[o].confirmed
                     /\ ledger'[o].doc = run[r].fresh
                ELSE ledger'[o] = ledger[o]
           /\ \A o \in Objects : CountAbsence(r, o) =>
                \A x \in Objects : x # o => ledger'[x] = ledger[x]
           /\ ~Finalize(r) /\ (\A o \in Objects : ~CountAbsence(r, o)) => UNCHANGED ledger
           /\ UNCHANGED source
<1>1. ledger \in [Objects -> LedgerRow]
  BY DEF TypeOK
<1>2. UNCHANGED source
  BY DEF Start, RunStep, Crash, Refuse, LeaseRead, LeaseWrite, Enumerate, EnumerateFails, Examine,
     CountAbsence, Ingest, IngestFails, Finalize, FinalizeFails, BeginAbsences, Finish, Abort, Release
<1>3. ~Finalize(r) /\ (\A o \in Objects : ~CountAbsence(r, o)) => UNCHANGED ledger
  BY DEF Start, RunStep, Crash, Refuse, LeaseRead, LeaseWrite, Enumerate, EnumerateFails, Examine,
     Ingest, IngestFails, FinalizeFails, BeginAbsences, Finish, Abort, Release, store
<1>4. ASSUME NEW o \in Objects, CountAbsence(r, o)
      PROVE  /\ \A x \in Objects : x # o => ledger'[x] = ledger[x]
             /\ \A x \in Objects : /\ ledger'[x].version = ledger[x].version
                                   /\ ledger'[x].doc = ledger[x].doc
  <2>1. ledger' = [ledger EXCEPT ![o] = CountedAbsence(o)]
    BY <1>4 DEF CountAbsence
  <2>2. CountedAbsence(o).version = ledger[o].version /\ CountedAbsence(o).doc = ledger[o].doc
    BY <1>1 DEF CountedAbsence, LedgerRow
  <2>3. QED
    BY <1>1, <2>1, <2>2
<1>5. ASSUME Finalize(r)
      PROVE  \A o \in Objects :
                IF o = run[r].current
                THEN /\ ledger'[o].version = run[r].listing[o] /\ ~ledger'[o].confirmed
                     /\ ledger'[o].doc = run[r].fresh
                ELSE ledger'[o] = ledger[o]
  <2>1. ledger' = [ledger EXCEPT ![run[r].current] = Relinked(r)] /\ run[r].current \in Objects
    BY <1>5 DEF Finalize, TypeOK
  <2>2. /\ Relinked(r).version = run[r].listing[run[r].current] /\ Relinked(r).confirmed = FALSE
        /\ Relinked(r).doc = run[r].fresh
    BY DEF Relinked
  <2>3. QED
    BY <1>1, <2>1, <2>2
<1>6. QED
  BY <1>2, <1>3, <1>4, <1>5

LEMMA StepListInv ==
    ASSUME TypeOK, ListInv, Next
    PROVE  ListInv'
<1>1. CASE Source
  BY <1>1, SourceAdvances
<1>2. CASE ExpireLease \/ \E d \in Docs : Ocr(d)
  BY <1>2 DEF ExpireLease, Ocr, store, ListInv
<1>3. ASSUME NEW r \in Runs, Start(r) \/ RunStep(r) \/ Crash(r) PROVE ListInv'
  <2>1. UNCHANGED source
    BY <1>3, LedgerSteps
  <2>2. \A s \in Runs : ListOf(run'[s]) /\ Behind(run'[s], source)
    <3>1. ListOf(run'[r]) /\ Behind(run'[r], source)
      BY <1>3, StepList
    <3>2. \A s \in Runs \ {r} : ListOf(run'[s]) /\ Behind(run'[s], source)
      BY <1>3, OthersStand DEF ListInv
    <3>3. QED
      BY <3>1, <3>2
  <2>3. \A o \in Objects : ledger'[o].version <= source[o].version
    <3>1. CASE Finalize(r)
      BY <1>3, <3>1, LedgerSteps DEF ListInv, Behind
    <3>2. CASE ~Finalize(r)
      BY <1>3, <3>2, LedgerSteps DEF ListInv
    <3>3. QED
      BY <3>1, <3>2
  <2>4. QED
    BY <2>1, <2>2, <2>3 DEF ListInv
<1>4. QED
  BY <1>1, <1>2, <1>3 DEF Next

-----------------------------------------------------------------------------
(* As long as no two executions were inside the lease at once: only one    *)
(* is; the document it is about to replace is the one still linked; every  *)
(* document still served is linked, about to be or lost; and what it has   *)
(* visited is linked at the version it listed, never an older one.         *)

Sole == \A r, s \in Runs : run[r].stage \in Leased /\ run[s].stage \in Leased => r = s
PreviousIsLinked == \A r \in Runs :
    run[r].stage \in {"ingest", "finalize"} => run[r].previous = ledger[run[r].current].doc
Covered == \A d \in Docs :
    docObj[d] # NoObject /\ hidden[d] = "none" =>
        \/ d = ledger[docObj[d]].doc
        \/ d \in lost
        \/ \E r \in Runs : run[r].stage = "finalize" /\ run[r].fresh = d
SyncedOf(e, rows) ==
    e.stage \in {"objects", "ingest", "finalize", "absences"} =>
        \A o \in Objects : e.listing[o] # 0 =>
            /\ rows[o].version <= e.listing[o]
            /\ o \notin e.unsynced \cup e.todo =>
                 rows[o].version = e.listing[o] /\ ~rows[o].confirmed
Synced == \A r \in Runs : SyncedOf(run[r], ledger)
AloneInv == ~overlapped => Sole /\ PreviousIsLinked /\ Covered /\ Synced

LEMMA StaysAlone ==
    ASSUME NEW r \in Runs, Start(r) \/ RunStep(r) \/ Crash(r), ~overlapped', TypeOK
    PROVE  /\ ~overlapped
           /\ LeaseWrite(r) => \A s \in Runs \ {r} : run[s].stage \notin Leased
BY DEF TypeOK, Start, RunStep, Crash, Refuse, LeaseRead, LeaseWrite, Enumerate, EnumerateFails,
   Examine, CountAbsence, Ingest, IngestFails, Finalize, FinalizeFails, BeginAbsences, Finish,
   Abort, Release, history

LEMMA StepSole ==
    ASSUME TypeOK, Sole, NEW r \in Runs, Start(r) \/ RunStep(r) \/ Crash(r), ~overlapped'
    PROVE  Sole'
<1>1. run'[r].stage \in Leased => LeaseWrite(r) \/ run[r].stage \in Leased
  <2>1. CASE \/ Start(r) \/ Refuse(r) \/ EnumerateFails(r) \/ Finish(r) \/ Abort(r) \/ Crash(r)
             \/ LeaseRead(r) \/ Release(r)
    BY <2>1, OuterTable, ExecutionIs DEF Resets, Leased
  <2>2. CASE \/ Enumerate(r) \/ Ingest(r) \/ IngestFails(r) \/ Finalize(r) \/ FinalizeFails(r)
             \/ BeginAbsences(r) \/ \E o \in Objects : Examine(r, o) \/ CountAbsence(r, o)
    BY <2>2, InnerTable DEF Leased
  <2>3. QED
    BY <2>1, <2>2 DEF RunStep
<1>2. QED
  BY <1>1, OthersStand, StaysAlone DEF Sole

LEMMA StepPrevious ==
    ASSUME TypeOK, Sole, PreviousIsLinked, NEW r \in Runs, Start(r) \/ RunStep(r) \/ Crash(r)
    PROVE  PreviousIsLinked'
<1>1. \A s \in Runs : run[s].stage \in {"ingest", "finalize"} => run[s].current \in Objects
  BY DEF TypeOK
<1>2. CASE Finalize(r)
  <2>1. \A s \in Runs \ {r} : run[s].stage \notin {"ingest", "finalize"}
    BY <1>2, InnerTable DEF Sole, Leased
  <2>2. QED
    BY <1>2, <2>1, OthersStand, InnerTable DEF PreviousIsLinked
<1>3. CASE ~Finalize(r)
  <2>1. \A o \in Objects : ledger'[o].doc = ledger[o].doc
    BY <1>3, LedgerSteps
  <2>2. ASSUME run'[r].stage \in {"ingest", "finalize"}
        PROVE  /\ run'[r].current \in Objects
               /\ run'[r].previous = ledger[run'[r].current].doc
    <3>1. CASE \/ Start(r) \/ Refuse(r) \/ EnumerateFails(r) \/ Finish(r) \/ Abort(r) \/ Crash(r)
               \/ LeaseRead(r) \/ LeaseWrite(r) \/ Release(r)
      BY <2>2, <3>1, OuterTable, ExecutionIs DEF Resets
    <3>2. CASE \E o \in Objects : Examine(r, o)
      BY <2>2, <3>2, InnerTable
    <3>3. CASE Ingest(r)
      BY <1>1, <3>3, InnerTable DEF PreviousIsLinked
    <3>4. CASE \/ Enumerate(r) \/ IngestFails(r) \/ FinalizeFails(r) \/ BeginAbsences(r)
               \/ \E o \in Objects : CountAbsence(r, o)
      BY <2>2, <3>4, InnerTable
    <3>5. QED
      BY <1>3, <3>1, <3>2, <3>3, <3>4 DEF RunStep
  <2>3. ASSUME NEW s \in Runs, run'[s].stage \in {"ingest", "finalize"}
        PROVE  /\ run'[s].current \in Objects
               /\ run'[s].previous = ledger[run'[s].current].doc
    <3>1. CASE s = r
      BY <2>2, <2>3, <3>1
    <3>2. CASE s # r
      BY <1>1, <2>3, <3>2, OthersStand DEF PreviousIsLinked
    <3>3. QED
      BY <3>1, <3>2
  <2>4. QED
    BY <2>1, <2>3 DEF PreviousIsLinked
<1>4. QED
  BY <1>2, <1>3

LEMMA StepSynced ==
    ASSUME TypeOK, ListInv, Sole, Synced, NEW r \in Runs, Start(r) \/ RunStep(r) \/ Crash(r)
    PROVE  Synced'
<1>1. /\ ledger \in [Objects -> LedgerRow] /\ run \in [Runs -> Executions]
      /\ \A o \in Objects : ledger[o].version \in Nat /\ run[r].listing[o] \in Nat
                            /\ source[o].version \in Nat
  BY DEF TypeOK, LedgerRow, Executions
<1>2. SyncedOf(run[r], ledger)
  BY DEF Synced
<1>3. CASE Finalize(r)
  <2>1. \A s \in Runs \ {r} : run[s].stage \notin Leased
    BY <1>3, InnerTable DEF Sole, Leased
  <2>2. \A s \in Runs \ {r} : SyncedOf(run'[s], ledger')
    BY <1>3, <2>1, OthersStand DEF SyncedOf, Leased
  <2>3. SyncedOf(run'[r], ledger')
    BY <1>1, <1>2, <1>3, InnerTable, LedgerSteps DEF SyncedOf, OffTheList
  <2>4. QED
    BY <2>2, <2>3 DEF Synced
<1>4. ASSUME NEW o \in Objects, CountAbsence(r, o)
      PROVE  Synced'
  <2>1. \A s \in Runs \ {r} : run[s].stage \notin Leased
    BY <1>4, InnerTable DEF Sole, Leased
  <2>2. \A s \in Runs \ {r} : SyncedOf(run'[s], ledger')
    BY <1>4, <2>1, OthersStand DEF SyncedOf, Leased, RunStep
  <2>3. run[r].listing[o] = 0
    BY <1>4, InnerTable DEF ListInv, ListOf
  <2>4. \A x \in Objects : x # o => ledger'[x] = ledger[x]
    BY <1>4, LedgerSteps
  <2>5. SyncedOf(run'[r], ledger')
    BY <1>2, <1>4, <2>3, <2>4, InnerTable DEF SyncedOf, OffTheList
  <2>6. QED
    BY <2>2, <2>5 DEF Synced
<1>5. CASE ~Finalize(r) /\ \A o \in Objects : ~CountAbsence(r, o)
  <2>1. UNCHANGED ledger
    BY <1>5, LedgerSteps
  <2>2. SyncedOf(run'[r], ledger)
    <3>1. CASE \/ Start(r) \/ Refuse(r) \/ EnumerateFails(r) \/ Finish(r) \/ Abort(r) \/ Crash(r)
               \/ LeaseRead(r) \/ LeaseWrite(r) \/ Release(r)
      BY <3>1, OuterTable, ExecutionIs DEF Resets, SyncedOf
    <3>2. CASE Enumerate(r)
      BY <1>1, <3>2, InnerTable DEF SyncedOf, ListInv
    <3>3. ASSUME NEW o \in Objects, Examine(r, o)
          PROVE  SyncedOf(run'[r], ledger)
      <4>1. CASE Unchanged(r, o)
        BY <1>1, <1>2, <3>3, <4>1, InnerTable DEF SyncedOf, OffTheList, Unchanged
      <4>2. CASE ~Unchanged(r, o)
        BY <1>2, <3>3, <4>2, InnerTable DEF SyncedOf, SameList
      <4>3. QED
        BY <4>1, <4>2
    <3>4. CASE Ingest(r)
      BY <1>2, <3>4, InnerTable DEF SyncedOf, SameList
    <3>5. CASE IngestFails(r) \/ FinalizeFails(r)
      BY <1>2, <3>5, InnerTable DEF SyncedOf, OffTheList
    <3>6. CASE BeginAbsences(r)
      BY <1>2, <3>6, InnerTable DEF SyncedOf
    <3>7. QED
      BY <1>5, <3>1, <3>2, <3>3, <3>4, <3>5, <3>6 DEF RunStep
  <2>3. QED
    BY <2>1, <2>2, OthersStand DEF Synced
<1>6. QED
  BY <1>3, <1>4, <1>5

\* A document leaves the served ones, the linked ones and those about to be linked
\* only where another clause takes it over.
LEMMA StepCovered ==
    ASSUME TypeOK, TypeOK', LinkInv, PreviousIsLinked, Covered, NEW r \in Runs,
           Start(r) \/ RunStep(r) \/ Crash(r)
    PROVE  Covered'
<1>1. /\ run \in [Runs -> Executions] /\ hidden \in [Docs -> {"none", "superseded", "source_missing"}]
      /\ docObj \in [Docs -> Objects \cup {NoObject}] /\ ledger \in [Objects -> LedgerRow]
  BY DEF TypeOK
<1>2. \A s \in Runs \ {r} : run'[s] = run[s]
  BY OthersStand
<1> DEFINE InHandOfOther(d) == \E s \in Runs \ {r} : run[s].stage = "finalize" /\ run[s].fresh = d
<1>3. \A d : InHandOfOther(d) => \E s \in Runs : run'[s].stage = "finalize" /\ run'[s].fresh = d
  BY <1>2
<1>4. ASSUME NEW d \in Docs, docObj[d] # NoObject, hidden[d] = "none"
      PROVE  \/ d = ledger[docObj[d]].doc
             \/ d \in lost
             \/ run[r].stage = "finalize" /\ run[r].fresh = d
             \/ InHandOfOther(d)
  BY <1>4 DEF Covered
<1>5. CASE ~Finalize(r) /\ ~Ingest(r)
  <2>1. UNCHANGED docObj /\ \A o \in Objects : ledger'[o].doc = ledger[o].doc
    <3>1. UNCHANGED docObj
      BY <1>5 DEF Start, RunStep, Crash, Refuse, LeaseRead, LeaseWrite, Enumerate, EnumerateFails,
         Examine, CountAbsence, IngestFails, FinalizeFails, BeginAbsences, Finish, Abort, Release, store
    <3>2. QED
      BY <1>5, <3>1, LedgerSteps
  <2>2. \A d \in Docs : hidden'[d] = "none" => hidden[d] = "none"
    <3>1. CASE \E o \in Objects : CountAbsence(r, o)
      BY <1>1, <3>1 DEF CountAbsence
    <3>2. CASE UNCHANGED hidden
      BY <3>2
    <3>3. QED
      BY <1>5, <3>1, <3>2 DEF Start, RunStep, Crash, Refuse, LeaseRead, LeaseWrite, Enumerate,
         EnumerateFails, Examine, IngestFails, FinalizeFails, BeginAbsences, Finish, Abort, Release, store
  <2>3. lost \subseteq lost' /\ (run[r].stage = "finalize" => run[r].fresh \in lost')
    <3>1. lost \subseteq lost'
      BY <1>5 DEF Start, RunStep, Crash, Refuse, LeaseRead, LeaseWrite, Enumerate, EnumerateFails,
         Examine, CountAbsence, IngestFails, FinalizeFails, BeginAbsences, Finish, Abort, Release, history
    <3>2. ASSUME run[r].stage = "finalize" PROVE run[r].fresh \in lost'
      <4>1. FinalizeFails(r) \/ Crash(r)
        BY <1>5, <3>2 DEF Start, RunStep, Refuse, LeaseRead, LeaseWrite, Enumerate, EnumerateFails,
           Examine, CountAbsence, IngestFails, BeginAbsences, Finish, Abort, Release
      <4>2. QED
        BY <3>2, <4>1 DEF FinalizeFails, Crash
    <3>3. QED
      BY <3>1, <3>2
  <2>4. ASSUME NEW d \in Docs, docObj'[d] # NoObject, hidden'[d] = "none"
        PROVE  \/ d = ledger'[docObj'[d]].doc
               \/ d \in lost'
               \/ \E s \in Runs : run'[s].stage = "finalize" /\ run'[s].fresh = d
    <3>1. docObj'[d] = docObj[d] /\ docObj[d] \in Objects /\ hidden[d] = "none"
      BY <1>1, <2>1, <2>2, <2>4
    <3>2. CASE d = ledger[docObj[d]].doc
      BY <2>1, <3>1, <3>2
    <3>3. CASE d \in lost \/ (run[r].stage = "finalize" /\ run[r].fresh = d)
      BY <2>3, <3>3
    <3>4. CASE InHandOfOther(d)
      BY <1>3, <3>4
    <3>5. QED
      BY <1>4, <2>4, <3>1, <3>2, <3>3, <3>4
  <2>5. QED
    BY <2>4 DEF Covered
<1>6. CASE Ingest(r)
  <2>1. /\ docObj' = [docObj EXCEPT ![NewDoc] = run[r].current] /\ UNCHANGED <<ledger, hidden, lost>>
        /\ run'[r].stage = "finalize" /\ run'[r].fresh = NewDoc /\ run[r].stage = "ingest"
    BY <1>6, InnerTable DEF Ingest, history
  <2>2. ASSUME NEW d \in Docs, d # NewDoc, docObj'[d] # NoObject, hidden'[d] = "none"
        PROVE  \/ d = ledger'[docObj'[d]].doc
               \/ d \in lost'
               \/ \E s \in Runs : run'[s].stage = "finalize" /\ run'[s].fresh = d
    <3>1. docObj'[d] = docObj[d]
      BY <1>1, <2>1, <2>2
    <3>2. QED
      BY <1>3, <1>4, <2>1, <2>2, <3>1
  <2>3. QED
    BY <2>1, <2>2 DEF Covered
<1>7. CASE Finalize(r)
  <2> DEFINE o == run[r].current
  <2>1. /\ o \in Objects /\ run[r].stage = "finalize" /\ UNCHANGED <<docObj, lost>>
        /\ hidden' = Superseded(r) /\ ledger'[o].doc = run[r].fresh
        /\ \A x \in Objects : x # o => ledger'[x] = ledger[x]
    BY <1>7, LedgerSteps DEF Finalize, TypeOK
  <2>2. run[r].previous = ledger[o].doc /\ docObj[run[r].fresh] = o
    BY <2>1 DEF PreviousIsLinked, LinkInv, FreshOK
  <2>3. ASSUME NEW d \in Docs, hidden'[d] = "none"
        PROVE  hidden[d] = "none" /\ d # run[r].previous
    BY <1>1, <2>1, <2>3, IdentityAssumption DEF Superseded
  <2> HIDE DEF o
  <2>4. ASSUME NEW d \in Docs, docObj'[d] # NoObject, hidden'[d] = "none"
        PROVE  \/ d = ledger'[docObj'[d]].doc
               \/ d \in lost'
               \/ \E s \in Runs : run'[s].stage = "finalize" /\ run'[s].fresh = d
    <3>1. docObj'[d] = docObj[d] /\ docObj[d] \in Objects
      BY <1>1, <2>1, <2>4
    <3>2. CASE d = ledger[docObj[d]].doc
      <4>1. docObj[d] # o
        BY <2>2, <2>3, <2>4, <3>2
      <4>2. QED
        BY <2>1, <3>1, <3>2, <4>1
    <3>3. CASE run[r].fresh = d
      BY <2>1, <2>2, <3>1, <3>3
    <3>4. CASE d \in lost \/ InHandOfOther(d)
      BY <1>3, <2>1, <3>4
    <3>5. QED
      BY <1>4, <2>3, <2>4, <3>1, <3>2, <3>3, <3>4
  <2>5. QED
    BY <2>4 DEF Covered
<1>8. QED
  BY <1>5, <1>6, <1>7

LEMMA StepAlone ==
    ASSUME TypeOK, TypeOK', ListInv, LinkInv, AloneInv, [Next]_vars
    PROVE  AloneInv'
<1>1. CASE Source \/ ExpireLease \/ (\E d \in Docs : Ocr(d)) \/ UNCHANGED vars
  <2>1. UNCHANGED <<ledger, hidden, docObj, run, history>>
    BY <1>1 DEF Source, Upload, Remove, Restore, ExpireLease, Ocr, vars, store
  <2>2. QED
    BY <2>1 DEF AloneInv, Sole, PreviousIsLinked, Covered, Synced, history
<1>2. ASSUME NEW r \in Runs, Start(r) \/ RunStep(r) \/ Crash(r), ~overlapped'
      PROVE  Sole' /\ PreviousIsLinked' /\ Covered' /\ Synced'
  <2>1. Sole /\ PreviousIsLinked /\ Covered /\ Synced
    BY <1>2, StaysAlone DEF AloneInv
  <2>2. QED
    BY <1>2, <2>1, StepSole, StepPrevious, StepCovered, StepSynced
<1>3. QED
  BY <1>1, <1>2 DEF Next, AloneInv

LEMMA InitAlone ==
    ASSUME Init
    PROVE  ListInv /\ AloneInv
<1>1. \A r \in Runs : run[r].stage = "idle" /\ run[r].listing = [o \in Objects |-> 0]
  BY ExecutionIs DEF Init
<1>2. \A o \in Objects : /\ ~source[o].present /\ source[o].version = 0
                         /\ ledger[o].version = 0
  BY DEF Init, Unlinked
<1>3. ListInv
  BY <1>1, <1>2 DEF ListInv, ListOf, Behind
<1>4. Sole /\ PreviousIsLinked /\ Synced
  BY <1>1 DEF Sole, PreviousIsLinked, Synced, SyncedOf, Leased
<1>5. Covered
  BY DEF Init, Covered
<1>6. QED
  BY <1>3, <1>4, <1>5 DEF AloneInv

SyncInv == TypeOK /\ ListInv /\ LinkInv /\ AloneInv

LEMMA Synchronizing == Spec => []SyncInv
<1>1. Init => SyncInv
  BY InitTypeOK, InitLinkInv, InitAlone DEF SyncInv
<1>2. SyncInv /\ [Next]_vars => SyncInv'
  <2>1. ASSUME ListInv, UNCHANGED vars PROVE ListInv'
    BY <2>1 DEF vars, store, ListInv
  <2>2. QED
    BY <2>1, NextTypeOK, NextLinkInv, StepListInv, StepAlone DEF SyncInv
<1>3. QED
  BY <1>1, <1>2, PTL DEF Spec

\* An object never serves a document besides the linked one, but for one about to be
\* linked or one whose linking transaction was lost, as long as no two executions
\* were inside the lease at once (ingestion commits before the ledger is relinked).
THEOREM ServedOnce == Spec => []OneServedDocumentPerObject
<1>1. SyncInv => OneServedDocumentPerObject
  <2> SUFFICES ASSUME SyncInv, ~overlapped, NEW o \in Objects, NEW d \in Served(o)
               PROVE  d \in {ledger[o].doc} \cup InFlight \cup lost
    BY DEF OneServedDocumentPerObject
  <2>1. d \in Docs /\ docObj[d] = o /\ hidden[d] = "none"
    BY DEF Served, SyncInv, TypeOK
  <2>2. \/ d = ledger[o].doc
        \/ d \in lost
        \/ \E r \in Runs : run[r].stage = "finalize" /\ run[r].fresh = d
    BY <2>1, IdentityAssumption DEF SyncInv, AloneInv, Covered
  <2>3. QED
    BY <2>2 DEF InFlight
<1>2. QED
  BY <1>1, Synchronizing, PTL

\* An execution alone under the lease that has visited all it listed leaves every
\* object it did not fail on linked at the version it listed, also one that had been
\* confirmed missing and came back unchanged (run_sync, _reconcile_object).
THEOREM RunsSynchronise == Spec => []RunSynchronises
<1>1. SyncInv => RunSynchronises
  <2> SUFFICES ASSUME SyncInv, ~overlapped, NEW r \in Runs, run[r].stage = "absences",
                      NEW o \in Objects, run[r].listing[o] # 0, o \notin run[r].unsynced
               PROVE  ledger[o].version = run[r].listing[o] /\ ~ledger[o].confirmed
    BY DEF RunSynchronises
  <2>1. o \notin run[r].todo
    BY DEF SyncInv, ListInv, ListOf
  <2>2. QED
    BY <2>1 DEF SyncInv, AloneInv, Synced, SyncedOf
<1>2. QED
  BY <1>1, Synchronizing, PTL

\* Without overlapping executions no row goes back to an older version of its object,
\* across crashes, failures, absences and returns (upsert_source_seen).
THEOREM NeverRegresses == Spec => LedgerNeverRegresses
<1> DEFINE Keeps == ~overlapped => \A o \in Objects : ledger'[o].version >= ledger[o].version
<1>1. SyncInv /\ [Next]_vars => [Keeps]_vars
  <2> SUFFICES ASSUME SyncInv, Next, ~overlapped, NEW o \in Objects
               PROVE  ledger'[o].version >= ledger[o].version
    OBVIOUS
  <2>1. ledger[o].version \in Int
    BY DEF SyncInv, TypeOK, LedgerRow
  <2>2. CASE Source \/ ExpireLease \/ \E d \in Docs : Ocr(d)
    BY <2>1, <2>2 DEF Source, Upload, Remove, Restore, ExpireLease, Ocr, store
  <2>3. ASSUME NEW r \in Runs, Start(r) \/ RunStep(r) \/ Crash(r)
        PROVE  ledger'[o].version >= ledger[o].version
    <3>1. TypeOK
      BY DEF SyncInv
    <3>2. CASE ~Finalize(r) \/ o # run[r].current
      BY <2>1, <2>3, <3>1, <3>2, LedgerSteps
    <3>3. CASE Finalize(r) /\ o = run[r].current
      <4>1. run[r].stage = "finalize" /\ run[r].listing[o] \in Int
        BY <3>1, <3>3, InnerTable DEF TypeOK, Executions
      <4>2. run[r].listing[o] # 0
        BY <3>3, <4>1 DEF SyncInv, ListInv, ListOf
      <4>3. ledger[o].version <= run[r].listing[o]
        BY <4>1, <4>2 DEF SyncInv, AloneInv, Synced, SyncedOf
      <4>4. ledger'[o].version = run[r].listing[o]
        BY <2>3, <3>1, <3>3, LedgerSteps
      <4>5. QED
        BY <2>1, <4>1, <4>3, <4>4
    <3>4. QED
      BY <3>2, <3>3
  <2>4. QED
    BY <2>2, <2>3 DEF Next
<1>2. QED
  BY <1>1, Synchronizing, PTL DEF Spec, LedgerNeverRegresses
=============================================================================
