-------------------------- MODULE ExtractionProofs --------------------------
(***************************************************************************)
(* Proofs about Extraction for every number of documents, runs, versions   *)
(* and changes: type correctness, that the generated relations never show  *)
(* another generation than the entity store, that deleted documents answer *)
(* nothing, and that what is skipped is current.                           *)
(* Then about EntityPipeline, the entities of one document, whatever its   *)
(* words and the gap allowed: that an entity is of one place, that each    *)
(* mention is stored once or lost at the model's word, and that a fact has *)
(* one row.                                                                *)
(***************************************************************************)
EXTENDS Extraction, EntityPipeline, FiniteSetTheorems, WellFoundedInduction, TLAPS

Locals == [stage : {"free", "next", "store"}, run : Runs \cup {Nothing}, version : Found,
           specs : Definitions, todo : SUBSET Docs, doc : Docs \cup {Nothing}]
Row == [status : {"none", "queued", "running", "completed", "failed"},
        asked : SUBSET Docs, version : Found]

\* What every action is shown to preserve; TypeOK is its conjunction.
CatalogOK == active \in Versions /\ def \in Definitions
StoreOK == /\ doc \in [Docs -> {"processed", "deleted"}]
           /\ eav \in [Docs -> Found] /\ child \in [Docs -> Found] /\ subject \in [Docs -> Found]
           /\ ledger \subseteq Runs \X Docs
RunOK == run \in [Runs -> Row] /\ queue \subseteq Runs
WorkerOK == worker \in Locals
HistoryOK == /\ changes \in 0..MaxChanges /\ late \subseteq Docs
             /\ unsettled \in BOOLEAN /\ flipped \in BOOLEAN

\* The worker executes a run that exists and is marked as running, and stores a
\* document that exists.
BusyOK ==
    /\ worker.stage # "free" => worker.run \in Runs /\ run[worker.run].status = "running"
    /\ worker.stage = "store" => worker.doc \in Docs

TypeInv == TypeOK /\ BusyOK

LEMMA TypeParts ==
    /\ TypeOK <=> CatalogOK /\ StoreOK /\ RunOK /\ WorkerOK /\ HistoryOK
    /\ TypeOK' <=> CatalogOK' /\ StoreOK' /\ RunOK' /\ WorkerOK' /\ HistoryOK'
BY DEF TypeOK, CatalogOK, StoreOK, RunOK, WorkerOK, HistoryOK, Locals, Row

LEMMA Constants ==
    /\ NoDefinition \in Definitions /\ Free \in Locals /\ Unasked \in Row
    /\ Free.stage = "free" /\ Nothing \in Found /\ Nothing \notin Versions
    /\ \A card \in Cardinalities : Defined(card) \in Definitions
    /\ \A d \in Definitions : Reconciled(d) \in Definitions
<1>1. NoDefinition \in Definitions
  BY DEF NoDefinition, Definitions, Cardinalities
<1>2. \A card \in Cardinalities : Defined(card) \in Definitions
  BY DEF NoDefinition, Defined, Definitions
<1>3. \A d \in Definitions : Reconciled(d) \in Definitions
  BY DEF Reconciled, Definitions, OnTable
<1>4. QED
  BY <1>1, <1>2, <1>3, VersionsAssumption
     DEF Free, Unasked, Locals, Row, Found, Nothing, Versions

\* Reconciliation changes nothing but whether the table is there, which it makes
\* true of what belongs on a table.
LEMMA ReconciledIs ==
    ASSUME NEW d \in Definitions
    PROVE  /\ Reconciled(d).known = d.known /\ Reconciled(d).on = d.on
           /\ Reconciled(d).card = d.card
           /\ d.table => Reconciled(d).table
           /\ OnTable(d) => Reconciled(d).table
BY DEF Reconciled, Definitions, OnTable

LEMMA InitType == Init => TypeInv
<1> SUFFICES ASSUME Init PROVE TypeInv
  OBVIOUS
<1>1. CatalogOK
  BY Constants, VersionsAssumption DEF Init, CatalogOK, Versions
<1>2. StoreOK
  BY Constants DEF Init, StoreOK
<1>3. RunOK
  BY Constants DEF Init, RunOK
<1>4. WorkerOK
  BY Constants DEF Init, WorkerOK
<1>5. HistoryOK
  <2>1. changes \in 0..MaxChanges
    BY ChangesAssumption DEF Init
  <2>2. QED
    BY <2>1 DEF Init, HistoryOK
<1>6. QED
  BY <1>1, <1>2, <1>3, <1>4, <1>5, TypeParts, Constants DEF TypeInv, BusyOK, Init

-----------------------------------------------------------------------------
(* What a step leaves alone, action by action.                             *)

\* The actions of the worker.
Works == \/ \E d \in Docs : Infer(d)
         \/ \E found \in BOOLEAN : Store(found)
         \/ NoModel \/ DocumentFails \/ Complete \/ PlaneDown \/ Dies

\* The edits of the catalog.
Edits == \/ \E card \in Cardinalities : Define(card)
         \/ Toggle \/ Flip \/ Retype

LEMMA Steps ==
    Next <=> \/ \E r \in Runs : Trigger(r) \/ Begin(r) \/ BeginFails(r)
             \/ \E d \in Docs : DeleteDocument(d)
             \/ \E v \in Versions : Promote(v)
             \/ Works \/ Edits
BY DEF Next, Works, Edits

LEMMA StepCatalog == TypeOK /\ [Next]_vars => CatalogOK'
<1> SUFFICES ASSUME TypeOK, [Next]_vars PROVE CatalogOK'
  OBVIOUS
<1>1. active \in Versions /\ def \in Definitions
  BY DEF TypeOK
<1>2. CASE UNCHANGED vars
  BY <1>1, <1>2 DEF vars, CatalogOK
<1>3. CASE Next
  <2>1. ASSUME NEW r \in Runs, Begin(r) PROVE CatalogOK'
    BY <1>1, <2>1, Constants DEF Begin, CatalogOK
  <2>2. ASSUME NEW v \in Versions, Promote(v) PROVE CatalogOK'
    BY <1>1, <2>2 DEF Promote, CatalogOK
  <2>3. ASSUME NEW card \in Cardinalities, Define(card) PROVE CatalogOK'
    BY <1>1, <2>3, Constants DEF Define, CatalogOK
  <2>4. CASE Toggle
    <3>1. [def EXCEPT !.on = ~@] \in Definitions
      BY <1>1 DEF Definitions
    <3>2. QED
      BY <1>1, <2>4, <3>1, Constants DEF Toggle, CatalogOK
  <2>5. CASE Flip
    <3>1. PICK card \in Cardinalities : def' = Reconciled([def EXCEPT !.card = card])
      BY <2>5 DEF Flip
    <3>2. [def EXCEPT !.card = card] \in Definitions
      BY <1>1 DEF Definitions
    <3>3. QED
      BY <1>1, <2>5, <3>1, <3>2, Constants DEF Flip, CatalogOK
  <2>6. ASSUME NEW r \in Runs, Trigger(r) \/ BeginFails(r) PROVE CatalogOK'
    BY <1>1, <2>6 DEF Trigger, BeginFails, CatalogOK
  <2>7. ASSUME NEW d \in Docs, DeleteDocument(d) PROVE CatalogOK'
    BY <1>1, <2>7 DEF DeleteDocument, CatalogOK
  <2>8. CASE Works
    BY <1>1, <2>8 DEF Works, Infer, Store, NoModel, DocumentFails, Complete, PlaneDown, Dies,
                      CatalogOK
  <2>9. CASE Retype
    BY <1>1, <2>9 DEF Retype, CatalogOK
  <2>10. QED
    BY <1>3, <2>1, <2>2, <2>3, <2>4, <2>5, <2>6, <2>7, <2>8, <2>9, Steps DEF Edits
<1>4. QED
  BY <1>2, <1>3

\* What the store holds of a document changes when its own rows are stored or
\* deleted, and when a column is retyped.
LEMMA StepStore == TypeInv /\ [Next]_vars => StoreOK'
<1> SUFFICES ASSUME TypeInv, [Next]_vars PROVE StoreOK'
  OBVIOUS
<1>1. StoreOK /\ active \in Versions
  BY TypeParts DEF TypeInv, CatalogOK
<1>2. \A specs, d : ClearedChild(specs, d) \in [Docs -> Found]
  BY <1>1, Constants DEF StoreOK, ClearedChild
<1>3. ASSUME UNCHANGED <<doc, store>> PROVE StoreOK'
  BY <1>1, <1>3 DEF StoreOK, store
<1>4. CASE UNCHANGED vars
  BY <1>3, <1>4 DEF vars
<1>5. CASE Next
  <2>1. ASSUME NEW found \in BOOLEAN, Store(found) PROVE StoreOK'
    <3> DEFINE d == worker.doc
               new == IF found THEN worker.version ELSE Nothing
    <3>1. d \in Docs /\ worker.run \in Runs /\ new \in Found
      BY <2>1, Constants, TypeParts DEF Store, TypeInv, BusyOK, WorkerOK, Locals
    <3>2. /\ eav' = [eav EXCEPT ![d] = new] /\ doc' = doc
          /\ ledger' = IF found THEN ledger \cup {<<r0, d>>} ELSE ledger
          /\ subject' = [subject EXCEPT ![d] = IF OnSubject(worker.specs) THEN new ELSE Nothing]
          /\ child' = [ClearedChild([worker.specs EXCEPT !.table = def.table], d) EXCEPT
                          ![d] = IF OnTable(worker.specs) THEN new ELSE @]
      BY <2>1 DEF Store
    <3> HIDE DEF d, new
    <3>3. child' \in [Docs -> Found]
      BY <1>2, <3>1, <3>2
    <3>4. eav' \in [Docs -> Found] /\ subject' \in [Docs -> Found]
      BY <1>1, <3>1, <3>2, Constants DEF StoreOK
    <3>5. QED
      BY <1>1, <3>1, <3>2, <3>3, <3>4 DEF StoreOK, r0
  <2>2. ASSUME NEW d \in Docs, DeleteDocument(d) PROVE StoreOK'
    BY <1>1, <1>2, <2>2, Constants DEF DeleteDocument, StoreOK
  <2>3. CASE Retype
    BY <1>1, <2>3, Constants DEF Retype, StoreOK
  <2>4. ASSUME NEW r \in Runs, Trigger(r) \/ Begin(r) \/ BeginFails(r) PROVE StoreOK'
    BY <1>3, <2>4 DEF Trigger, Begin, BeginFails
  <2>5. CASE \/ \E d \in Docs : Infer(d)
             \/ NoModel \/ DocumentFails \/ Complete \/ PlaneDown \/ Dies
    BY <1>3, <2>5 DEF Infer, NoModel, DocumentFails, Complete, PlaneDown, Dies
  <2>6. CASE (\E card \in Cardinalities : Define(card)) \/ Toggle \/ Flip
    BY <1>3, <2>6 DEF Define, Toggle, Flip
  <2>7. ASSUME NEW v \in Versions, Promote(v) PROVE StoreOK'
    BY <1>3, <2>7 DEF Promote
  <2>8. QED
    BY <1>5, <2>1, <2>2, <2>3, <2>4, <2>5, <2>6, <2>7, Steps DEF Works, Edits
<1>6. QED
  BY <1>4, <1>5

LEMMA StepRun == TypeInv /\ [Next]_vars => RunOK'
<1> SUFFICES ASSUME TypeInv, [Next]_vars PROVE RunOK'
  OBVIOUS
<1>1. RunOK /\ WorkerOK
  BY TypeParts DEF TypeInv
<1>2. ASSUME UNCHANGED <<run, queue>> PROVE RunOK'
  BY <1>1, <1>2 DEF RunOK
<1>3. CASE UNCHANGED vars
  BY <1>2, <1>3 DEF vars
<1>4. CASE Next
  <2>1. ASSUME NEW r \in Runs, Trigger(r) PROVE RunOK'
    <3>1. PICK asked \in SUBSET Docs :
             run' = [run EXCEPT ![r] = [Unasked EXCEPT !.status = "queued", !.asked = asked]]
      BY <2>1 DEF Trigger
    <3>2. [Unasked EXCEPT !.status = "queued", !.asked = asked] \in Row
      BY Constants DEF Row
    <3>3. run' \in [Runs -> Row]
      BY <1>1, <3>1, <3>2 DEF RunOK
    <3>4. QED
      BY <1>1, <2>1, <3>3 DEF RunOK, Trigger
  <2>2. ASSUME NEW r \in Runs, Begin(r) \/ BeginFails(r) PROVE RunOK'
    <3>1. \A status \in {"running", "failed"} : [run EXCEPT ![r].status = status] \in [Runs -> Row]
      BY <1>1 DEF RunOK, Row
    <3>2. QED
      BY <1>1, <2>2, <3>1 DEF RunOK, Begin, BeginFails, Acknowledge
  <2>3. CASE NoModel
    <3>1. [run EXCEPT ![r0].status = "failed"] \in [Runs -> Row]
      BY <1>1 DEF RunOK, Row
    <3>2. QED
      BY <1>1, <2>3, <3>1 DEF RunOK, NoModel, Acknowledge
  <2>4. CASE Complete
    <3>1. worker.version \in Found
      BY <1>1 DEF WorkerOK, Locals
    <3>2. [run EXCEPT ![r0].status = "completed", ![r0].version = worker.version] \in [Runs -> Row]
      BY <1>1, <3>1 DEF RunOK, Row
    <3>3. QED
      BY <1>1, <2>4, <3>2 DEF RunOK, Complete, Acknowledge, RunVersion
  <2>5. CASE PlaneDown
    BY <1>1, <2>5 DEF RunOK, PlaneDown, Acknowledge
  <2>6. CASE \/ \E d \in Docs : Infer(d) \/ DeleteDocument(d)
             \/ \E found \in BOOLEAN : Store(found)
             \/ DocumentFails \/ Dies
    BY <1>2, <2>6 DEF Infer, DeleteDocument, Store, DocumentFails, Dies
  <2>7. CASE Edits \/ \E v \in Versions : Promote(v)
    BY <1>2, <2>7 DEF Edits, Define, Toggle, Flip, Retype, Promote
  <2>8. QED
    BY <1>4, <2>1, <2>2, <2>3, <2>4, <2>5, <2>6, <2>7, Steps DEF Works
<1>5. QED
  BY <1>3, <1>4

LEMMA StepWorker == TypeInv /\ [Next]_vars => WorkerOK' /\ BusyOK'
<1> SUFFICES ASSUME TypeInv, [Next]_vars PROVE WorkerOK' /\ BusyOK'
  OBVIOUS
<1>1. worker \in Locals /\ run \in [Runs -> Row] /\ active \in Versions /\ def \in Definitions
  BY TypeParts DEF TypeInv, CatalogOK, RunOK, WorkerOK
<1>2. BusyOK
  BY DEF TypeInv
<1>3. ASSUME worker' = worker, run' = run PROVE WorkerOK' /\ BusyOK'
  BY <1>1, <1>2, <1>3 DEF WorkerOK, BusyOK
<1>4. ASSUME worker' = Free PROVE WorkerOK' /\ BusyOK'
  BY <1>4, Constants DEF WorkerOK, BusyOK
<1>5. CASE UNCHANGED vars
  BY <1>3, <1>5 DEF vars
<1>6. CASE Next
  <2>1. ASSUME NEW r \in Runs, Trigger(r) PROVE WorkerOK' /\ BusyOK'
    <3>1. worker' = worker /\ run[r].status = "none"
      BY <2>1 DEF Trigger
    <3>2. \A s \in Runs : s # r => run'[s] = run[s]
      BY <1>1, <2>1 DEF Trigger
    <3>3. QED
      BY <1>1, <1>2, <3>1, <3>2 DEF WorkerOK, BusyOK
  <2>2. ASSUME NEW r \in Runs, Begin(r) PROVE WorkerOK' /\ BusyOK'
    <3> DEFINE plan == (run[r].asked \cap Eligible) \ Skipped(run[r].asked \cap Eligible)
    <3>1. worker' = [Free EXCEPT !.stage = "next", !.run = r, !.version = active, !.specs = def',
                                 !.todo = plan]
      BY <2>2 DEF Begin
    <3>2. plan \in SUBSET Docs
      BY DEF Eligible
    <3>3. def' \in Definitions /\ run'[r].status = "running"
      BY <1>1, <2>2, Constants DEF Begin, Row
    <3> HIDE DEF plan
    <3>4. worker' \in Locals
      BY <1>1, <3>1, <3>2, <3>3, Constants DEF Locals, Found
    <3>5. worker'.stage = "next" /\ worker'.run = r
      BY <3>1, Constants DEF Locals
    <3>6. QED
      BY <3>3, <3>4, <3>5 DEF WorkerOK, BusyOK
  <2>3. ASSUME NEW r \in Runs, BeginFails(r) PROVE WorkerOK' /\ BusyOK'
    BY <1>1, <2>3 DEF BeginFails, WorkerOK, BusyOK
  <2>4. ASSUME NEW d \in Docs, Infer(d) PROVE WorkerOK' /\ BusyOK'
    <3>1. run' = run /\ worker.stage = "next"
      BY <2>4 DEF Infer
    <3>2. CASE worker' = [worker EXCEPT !.stage = "store", !.todo = @ \ {d}, !.doc = d,
                                        !.version = active]
      <4>1. /\ worker' \in Locals /\ worker'.stage = "store" /\ worker'.run = worker.run
            /\ worker'.doc = d
        BY <1>1, <3>2 DEF Locals, Found
      <4>2. QED
        BY <1>2, <3>1, <4>1 DEF WorkerOK, BusyOK
    <3>3. CASE worker' = [worker EXCEPT !.todo = @ \ {d}]
      <4>1. worker' \in Locals /\ worker'.stage = "next" /\ worker'.run = worker.run
        BY <1>1, <3>1, <3>3 DEF Locals
      <4>2. QED
        BY <1>2, <3>1, <4>1 DEF WorkerOK, BusyOK
    <3>4. QED
      BY <2>4, <3>2, <3>3 DEF Infer
  <2>5. CASE (\E found \in BOOLEAN : Store(found)) \/ DocumentFails
    <3>1. /\ run' = run /\ worker.stage = "store"
          /\ worker' = [worker EXCEPT !.stage = "next", !.doc = Nothing]
      BY <2>5 DEF Store, DocumentFails
    <3>2. worker' \in Locals /\ worker'.stage = "next" /\ worker'.run = worker.run
      BY <1>1, <3>1 DEF Locals
    <3>3. QED
      BY <1>2, <3>1, <3>2 DEF WorkerOK, BusyOK
  <2>6. CASE NoModel \/ Complete \/ PlaneDown \/ Dies
    BY <1>4, <2>6 DEF NoModel, Complete, PlaneDown, Dies
  <2>7. CASE Edits \/ (\E v \in Versions : Promote(v)) \/ \E d \in Docs : DeleteDocument(d)
    BY <1>3, <2>7 DEF Edits, Define, Toggle, Flip, Retype, Promote, DeleteDocument
  <2>8. QED
    BY <1>6, <2>1, <2>2, <2>3, <2>4, <2>5, <2>6, <2>7, Steps DEF Works
<1>7. QED
  BY <1>5, <1>6

LEMMA StepHistory == TypeInv /\ [Next]_vars => HistoryOK'
<1> SUFFICES ASSUME TypeInv, [Next]_vars PROVE HistoryOK'
  OBVIOUS
<1>1. HistoryOK /\ BusyOK
  BY TypeParts DEF TypeInv
<1>2. ASSUME UNCHANGED history PROVE HistoryOK'
  BY <1>1, <1>2 DEF HistoryOK, history
<1>3. CASE UNCHANGED vars
  BY <1>2, <1>3 DEF vars
<1>4. CASE Next
  <2>1. ASSUME NEW found \in BOOLEAN, Store(found) PROVE HistoryOK'
    BY <1>1, <2>1 DEF Store, HistoryOK, BusyOK
  <2>2. ASSUME NEW v \in Versions, Promote(v) PROVE HistoryOK'
    <3>1. changes' \in 0..MaxChanges
      BY <1>1, <2>2, ChangesAssumption DEF Promote, Change, HistoryOK
    <3>2. unsettled' \in BOOLEAN
      BY <2>2 DEF Promote
    <3>3. late' = late /\ flipped' = flipped
      BY <2>2 DEF Promote
    <3>4. late' \subseteq Docs /\ flipped' \in BOOLEAN
      BY <1>1, <3>3 DEF HistoryOK
    <3>5. QED
      BY <3>1, <3>2, <3>4 DEF HistoryOK
  <2>3. CASE Edits
    <3>1. changes' \in 0..MaxChanges
      BY <1>1, <2>3, ChangesAssumption
         DEF Edits, Define, Toggle, Flip, Retype, Change, HistoryOK
    <3>2. late' = late /\ unsettled' = unsettled
      BY <2>3 DEF Edits, Define, Toggle, Flip, Retype
    <3>3. flipped' \in BOOLEAN
      <4>1. flipped' = flipped \/ flipped' = (flipped \/ def.card = "multi")
        BY <2>3 DEF Edits, Define, Toggle, Flip, Retype
      <4>2. QED
        BY <1>1, <4>1 DEF HistoryOK
    <3>4. late' \subseteq Docs /\ unsettled' \in BOOLEAN
      BY <1>1, <3>2 DEF HistoryOK
    <3>5. QED
      BY <3>1, <3>3, <3>4 DEF HistoryOK
  <2>4. ASSUME NEW r \in Runs, Trigger(r) \/ Begin(r) \/ BeginFails(r) PROVE HistoryOK'
    BY <1>2, <2>4 DEF Trigger, Begin, BeginFails
  <2>5. CASE \/ \E d \in Docs : Infer(d) \/ DeleteDocument(d)
             \/ NoModel \/ DocumentFails \/ Complete \/ PlaneDown \/ Dies
    BY <1>2, <2>5 DEF Infer, DeleteDocument, NoModel, DocumentFails, Complete, PlaneDown, Dies
  <2>6. QED
    BY <1>4, <2>1, <2>2, <2>3, <2>4, <2>5, Steps DEF Works
<1>5. QED
  BY <1>3, <1>4

LEMMA StepTypeInv == TypeInv /\ [Next]_vars => TypeInv'
BY StepCatalog, StepStore, StepRun, StepWorker, StepHistory, TypeParts DEF TypeInv

\* The catalog, the stores, the runs and the worker's locals have their types,
\* and the worker executes a run that is marked as running.
THEOREM TypeCorrect == Spec => []TypeOK
<1>1. TypeInv => TypeOK
  BY DEF TypeInv
<1>2. QED
  BY <1>1, InitType, StepTypeInv, PTL DEF Spec

-----------------------------------------------------------------------------
(* The generated relations.                                                *)

\* A definition that is multi-valued, active or not, whose table is there.
Tabled(d) == d.known /\ d.card = "multi" /\ d.table

\* The column of subject is cleared whenever it is not written.
SubjectOK == \A d \in Docs : subject[d] \in {Nothing, eav[d]}

\* Until a definition is flipped, what is in its table agrees with the entity
\* store, and the definition the worker goes by, read before its run, clears it.
ChildOK ==
    /\ (worker.stage # "free" /\ OnTable(worker.specs)) => Tabled(def)
    /\ \A d \in Docs : child[d] # Nothing =>
          /\ Tabled(def) /\ child[d] = eav[d]
          /\ worker.stage # "free" => worker.specs.known /\ worker.specs.card = "multi"

DeletedOK == \A d \in Docs \ late : doc[d] = "deleted" => eav[d] = Nothing

SurfaceInv == SubjectOK /\ (~flipped => ChildOK) /\ DeletedOK

\* Clearing a document touches no other and leaves nothing where the definition
\* has its table.
LEMMA Cleared ==
    ASSUME TypeInv, NEW specs, NEW d \in Docs
    PROVE  /\ \A e \in Docs : e # d => ClearedChild(specs, d)[e] = child[e]
           /\ ClearedChild(specs, d) \in [Docs -> Found]
           /\ ClearedChild(specs, d)[d] \in {child[d], Nothing}
           /\ Tabled(specs) => ClearedChild(specs, d)[d] = Nothing
BY Constants, TypeParts DEF ClearedChild, ClearsTable, Tabled, TypeInv, StoreOK

LEMMA TabledStays ==
    ASSUME TypeInv, [Next]_vars, ~flipped'
    PROVE  ~flipped /\ (Tabled(def) => Tabled(def'))
<1>1. def \in Definitions
  BY TypeParts DEF TypeInv, CatalogOK
<1>2. ASSUME def' = def, flipped' = flipped
      PROVE  ~flipped /\ (Tabled(def) => Tabled(def'))
  BY <1>2
<1>3. CASE UNCHANGED vars
  BY <1>2, <1>3 DEF vars, history
<1>4. CASE Next
  <2>1. ASSUME NEW r \in Runs, Begin(r) PROVE ~flipped /\ (Tabled(def) => Tabled(def'))
    BY <1>1, <2>1, ReconciledIs DEF Begin, Tabled, history
  <2>2. ASSUME NEW card \in Cardinalities, Define(card)
        PROVE  ~flipped /\ (Tabled(def) => Tabled(def'))
    BY <2>2 DEF Define, Tabled
  <2>3. CASE Toggle
    <3>1. /\ [def EXCEPT !.on = ~@] \in Definitions
          /\ Tabled(def) => Tabled([def EXCEPT !.on = ~@])
      BY <1>1 DEF Definitions, Tabled
    <3>2. QED
      BY <2>3, <3>1, ReconciledIs DEF Toggle, Tabled
  <2>4. CASE Flip
    BY <1>1, <2>4 DEF Flip, Tabled
  <2>5. CASE Retype
    BY <1>2, <2>5 DEF Retype
  <2>6. ASSUME NEW found \in BOOLEAN, Store(found)
        PROVE  ~flipped /\ (Tabled(def) => Tabled(def'))
    BY <1>2, <2>6 DEF Store
  <2>7. ASSUME NEW v \in Versions, Promote(v)
        PROVE  ~flipped /\ (Tabled(def) => Tabled(def'))
    BY <1>2, <2>7 DEF Promote
  <2>8. ASSUME NEW r \in Runs, Trigger(r) \/ BeginFails(r)
        PROVE  ~flipped /\ (Tabled(def) => Tabled(def'))
    BY <1>2, <2>8 DEF Trigger, BeginFails, history
  <2>9. CASE \/ \E d \in Docs : Infer(d) \/ DeleteDocument(d)
             \/ NoModel \/ DocumentFails \/ Complete \/ PlaneDown \/ Dies
    BY <1>2, <2>9 DEF Infer, DeleteDocument, NoModel, DocumentFails, Complete, PlaneDown, Dies,
                      history
  <2>10. QED
    BY <1>4, <2>1, <2>2, <2>3, <2>4, <2>5, <2>6, <2>7, <2>8, <2>9, Steps DEF Works, Edits
<1>5. QED
  BY <1>3, <1>4

\* What Store does to each document's rows.
LEMMA StoreIs ==
    ASSUME TypeInv, NEW found \in BOOLEAN, Store(found)
    PROVE  /\ worker.stage = "store" /\ worker.doc \in Docs /\ worker.run \in Runs
           /\ worker.specs \in Definitions
           /\ worker' = [worker EXCEPT !.stage = "next", !.doc = Nothing]
           /\ worker'.stage = "next" /\ worker'.specs = worker.specs
           /\ \A d \in Docs : d # worker.doc =>
                 eav'[d] = eav[d] /\ child'[d] = child[d] /\ subject'[d] = subject[d]
           /\ eav'[worker.doc] = IF found THEN worker.version ELSE Nothing
           /\ subject'[worker.doc] \in {Nothing, eav'[worker.doc]}
           /\ child'[worker.doc] =
                 IF OnTable(worker.specs) THEN eav'[worker.doc]
                 ELSE ClearedChild([worker.specs EXCEPT !.table = def.table], worker.doc)[worker.doc]
<1> DEFINE d0 == worker.doc
           new == IF found THEN worker.version ELSE Nothing
           cleared == ClearedChild([worker.specs EXCEPT !.table = def.table], d0)
<1>1. /\ worker.stage = "store" /\ d0 \in Docs /\ worker.run \in Runs
      /\ worker.specs \in Definitions /\ worker \in Locals /\ StoreOK
  BY TypeParts DEF TypeInv, BusyOK, WorkerOK, Locals, Store
<1>2. /\ eav' = [eav EXCEPT ![d0] = new]
      /\ child' = [cleared EXCEPT ![d0] = IF OnTable(worker.specs) THEN new ELSE @]
      /\ subject' = [subject EXCEPT ![d0] = IF OnSubject(worker.specs) THEN new ELSE Nothing]
      /\ worker' = [worker EXCEPT !.stage = "next", !.doc = Nothing]
  BY DEF Store
<1>3. worker'.stage = "next" /\ worker'.specs = worker.specs
  BY <1>1, <1>2 DEF Locals
<1>4. cleared \in [Docs -> Found] /\ \A d \in Docs : d # d0 => cleared[d] = child[d]
  BY <1>1, Cleared
<1> HIDE DEF new, cleared, d0
<1>5. /\ \A d \in Docs : d # d0 =>
            eav'[d] = eav[d] /\ child'[d] = child[d] /\ subject'[d] = subject[d]
      /\ eav'[d0] = new /\ subject'[d0] \in {Nothing, new}
      /\ child'[d0] = IF OnTable(worker.specs) THEN new ELSE cleared[d0]
  BY <1>1, <1>2, <1>4 DEF StoreOK
<1>6. QED
  BY <1>1, <1>2, <1>3, <1>5 DEF new, cleared, d0

LEMMA InitSurface == Init => SurfaceInv
BY DEF Init, SurfaceInv, SubjectOK, ChildOK, DeletedOK, Free

LEMMA StepSubject == TypeInv /\ SubjectOK /\ [Next]_vars => SubjectOK'
<1> SUFFICES ASSUME TypeInv, SubjectOK, [Next]_vars PROVE SubjectOK'
  OBVIOUS
<1>1. StoreOK
  BY TypeParts DEF TypeInv
<1>2. ASSUME UNCHANGED <<eav, subject>> PROVE SubjectOK'
  BY <1>2 DEF SubjectOK
<1>3. CASE UNCHANGED vars
  BY <1>2, <1>3 DEF vars, store
<1>4. CASE Next
  <2>1. ASSUME NEW found \in BOOLEAN, Store(found) PROVE SubjectOK'
    BY <2>1, StoreIs DEF SubjectOK
  <2>2. ASSUME NEW d \in Docs, DeleteDocument(d) PROVE SubjectOK'
    BY <1>1, <2>2 DEF SubjectOK, DeleteDocument, StoreOK
  <2>3. CASE Retype
    BY <2>3 DEF SubjectOK, Retype
  <2>4. ASSUME NEW r \in Runs, Trigger(r) \/ Begin(r) \/ BeginFails(r) PROVE SubjectOK'
    BY <1>2, <2>4 DEF Trigger, Begin, BeginFails, store
  <2>5. CASE \/ \E d \in Docs : Infer(d)
             \/ NoModel \/ DocumentFails \/ Complete \/ PlaneDown \/ Dies
    BY <1>2, <2>5 DEF Infer, NoModel, DocumentFails, Complete, PlaneDown, Dies, store
  <2>6. CASE \/ \E card \in Cardinalities : Define(card)
             \/ Toggle \/ Flip \/ \E v \in Versions : Promote(v)
    BY <1>2, <2>6 DEF Define, Toggle, Flip, Promote, store
  <2>7. QED
    BY <1>4, <2>1, <2>2, <2>3, <2>4, <2>5, <2>6, Steps DEF Works, Edits
<1>5. QED
  BY <1>3, <1>4

LEMMA StepDeleted == TypeInv /\ DeletedOK /\ [Next]_vars => DeletedOK'
<1> SUFFICES ASSUME TypeInv, DeletedOK, [Next]_vars PROVE DeletedOK'
  OBVIOUS
<1>1. StoreOK
  BY TypeParts DEF TypeInv
<1>2. ASSUME UNCHANGED <<doc, eav, late>> PROVE DeletedOK'
  BY <1>2 DEF DeletedOK
<1>3. CASE UNCHANGED vars
  BY <1>2, <1>3 DEF vars, store, history
<1>4. CASE Next
  <2>1. ASSUME NEW found \in BOOLEAN, Store(found) PROVE DeletedOK'
    <3>1. SUFFICES ASSUME NEW d \in Docs \ late', doc'[d] = "deleted" PROVE eav'[d] = Nothing
      BY DEF DeletedOK
    <3>2. /\ doc' = doc
          /\ late' = IF doc[worker.doc] = "deleted" THEN late \cup {worker.doc} ELSE late
      BY <2>1 DEF Store
    <3>3. d # worker.doc /\ d \notin late
      BY <3>1, <3>2
    <3>4. eav'[d] = eav[d]
      BY <2>1, <3>3, StoreIs
    <3>5. QED
      BY <3>1, <3>2, <3>3, <3>4 DEF DeletedOK
  <2>2. ASSUME NEW d \in Docs, DeleteDocument(d) PROVE DeletedOK'
    BY <1>1, <2>2 DEF DeletedOK, DeleteDocument, StoreOK, history
  <2>3. ASSUME NEW r \in Runs, Trigger(r) \/ Begin(r) \/ BeginFails(r) PROVE DeletedOK'
    BY <1>2, <2>3 DEF Trigger, Begin, BeginFails, store, history
  <2>4. CASE \/ \E d \in Docs : Infer(d)
             \/ NoModel \/ DocumentFails \/ Complete \/ PlaneDown \/ Dies
    BY <1>2, <2>4 DEF Infer, NoModel, DocumentFails, Complete, PlaneDown, Dies, store, history
  <2>5. CASE Edits \/ \E v \in Versions : Promote(v)
    BY <1>2, <2>5 DEF Edits, Define, Toggle, Flip, Retype, Promote, store
  <2>6. QED
    BY <1>4, <2>1, <2>2, <2>3, <2>4, <2>5, Steps DEF Works
<1>5. QED
  BY <1>3, <1>4

LEMMA StepChild ==
    ASSUME TypeInv, [Next]_vars, ~flipped', ~flipped => ChildOK
    PROVE  ChildOK'
<1>1. ChildOK /\ (Tabled(def) => Tabled(def'))
  BY TabledStays
<1>2. StoreOK /\ worker \in Locals /\ def \in Definitions
  BY TypeParts DEF TypeInv, WorkerOK, CatalogOK
\* As long as the worker goes on by the definition it has read, or stops.
<1>3. ASSUME UNCHANGED <<eav, child>>,
             worker'.stage # "free" => worker.stage # "free" /\ worker'.specs = worker.specs
      PROVE  ChildOK'
  BY <1>1, <1>3 DEF ChildOK, OnTable
<1>4. CASE UNCHANGED vars
  BY <1>3, <1>4 DEF vars, store
<1>5. CASE Next
  <2>1. ASSUME NEW r \in Runs, Begin(r) PROVE ChildOK'
    <3>1. /\ def' = Reconciled(def) /\ UNCHANGED <<eav, child>>
          /\ worker'.specs = def'
      BY <2>1, Constants DEF Begin, store, Locals
    <3>2. OnTable(def') => Tabled(def')
      BY <1>2, <3>1, ReconciledIs DEF OnTable, Tabled
    <3>3. QED
      BY <1>1, <3>1, <3>2 DEF ChildOK, Tabled
  <2>2. ASSUME NEW found \in BOOLEAN, Store(found) PROVE ChildOK'
    <3> DEFINE d0 == worker.doc
               specs == [worker.specs EXCEPT !.table = def.table]
    <3>1. /\ worker.stage = "store" /\ d0 \in Docs
          /\ worker.specs \in Definitions
          /\ worker'.stage = "next" /\ worker'.specs = worker.specs
      BY <2>2, StoreIs
    <3>2. def' = def
      BY <2>2 DEF Store
    <3>3. specs.known = worker.specs.known /\ specs.card = worker.specs.card
          /\ specs.table = def.table
      BY <3>1 DEF Definitions
    <3>4. (worker.specs.known /\ worker.specs.card = "multi" /\ Tabled(def)) => Tabled(specs)
      BY <3>3 DEF Tabled
    <3>5. /\ ClearedChild(specs, d0)[d0] \in {child[d0], Nothing}
          /\ Tabled(specs) => ClearedChild(specs, d0)[d0] = Nothing
      BY <3>1, Cleared
    <3> HIDE DEF specs
    <3>6. ASSUME NEW d \in Docs, child'[d] # Nothing
          PROVE  /\ Tabled(def) /\ child'[d] = eav'[d]
                 /\ worker.specs.known /\ worker.specs.card = "multi"
      <4>1. CASE d # d0
        <5>1. child'[d] = child[d] /\ eav'[d] = eav[d]
          BY <2>2, <4>1, StoreIs
        <5>2. QED
          BY <1>1, <3>1, <3>6, <5>1 DEF ChildOK
      <4>2. CASE d = d0 /\ OnTable(worker.specs)
        <5>1. child'[d] = eav'[d]
          BY <2>2, <4>2, StoreIs
        <5>2. QED
          BY <1>1, <3>1, <4>2, <5>1 DEF ChildOK, OnTable
      <4>3. CASE d = d0 /\ ~OnTable(worker.specs)
        <5>1. child'[d] = ClearedChild(specs, d0)[d0]
          BY <2>2, <4>3, StoreIs DEF specs
        <5>2. child[d0] # Nothing
          BY <3>5, <3>6, <5>1
        <5>3. QED
          BY <1>1, <3>1, <3>4, <3>5, <3>6, <5>1, <5>2 DEF ChildOK
      <4>4. QED
        BY <4>1, <4>2, <4>3
    <3>7. QED
      BY <1>1, <3>1, <3>2, <3>6 DEF ChildOK
  <2>3. ASSUME NEW d \in Docs, DeleteDocument(d) PROVE ChildOK'
    <3>1. /\ def' = def /\ worker' = worker
          /\ child' = ClearedChild(def, d) /\ eav' = [eav EXCEPT ![d] = Nothing]
      BY <2>3 DEF DeleteDocument
    <3>2. /\ \A e \in Docs : e # d => child'[e] = child[e] /\ eav'[e] = eav[e]
          /\ child'[d] = Nothing
      BY <1>1, <1>2, <3>1, Cleared DEF StoreOK, ChildOK
    <3>3. QED
      BY <1>1, <3>1, <3>2 DEF ChildOK
  <2>4. ASSUME NEW r \in Runs, Trigger(r) \/ BeginFails(r) PROVE ChildOK'
    BY <1>3, <2>4 DEF Trigger, BeginFails, store
  <2>5. ASSUME NEW d \in Docs, Infer(d) PROVE ChildOK'
    <3>1. worker'.specs = worker.specs /\ worker.stage = "next" /\ UNCHANGED <<eav, child>>
      BY <1>2, <2>5 DEF Infer, Locals, store
    <3>2. QED
      BY <1>3, <3>1
  <2>6. CASE DocumentFails
    <3>1. worker'.specs = worker.specs /\ worker.stage = "store" /\ UNCHANGED <<eav, child>>
      BY <1>2, <2>6 DEF DocumentFails, Locals, store
    <3>2. QED
      BY <1>3, <3>1
  <2>7. CASE NoModel \/ Complete \/ PlaneDown \/ Dies
    <3>1. worker' = Free /\ UNCHANGED <<eav, child>>
      BY <2>7 DEF NoModel, Complete, PlaneDown, Dies, store
    <3>2. QED
      BY <1>3, <3>1, Constants
  <2>8. CASE Edits \/ \E v \in Versions : Promote(v)
    <3>1. UNCHANGED <<eav, child, worker>>
      BY <2>8 DEF Edits, Define, Toggle, Flip, Retype, Promote, store
    <3>2. QED
      BY <1>3, <3>1
  <2>9. QED
    BY <1>5, <2>1, <2>2, <2>3, <2>4, <2>5, <2>6, <2>7, <2>8, Steps DEF Works
<1>6. QED
  BY <1>4, <1>5

LEMMA StepSurface == TypeInv /\ SurfaceInv /\ [Next]_vars => SurfaceInv'
BY StepSubject, StepDeleted, StepChild DEF SurfaceInv

\* Whatever relation the catalog shows, of a document it shows what the entity
\* store holds or nothing, through every edit of the catalog in the middle of a run;
\* the table of a definition that was once flipped to single-valued is exempted
\* (build_relational_delete_statements does not clear it).
THEOREM SurfaceIsStored == Spec => []SurfaceAgrees
<1>1. SurfaceInv => SurfaceAgrees
  BY DEF SurfaceInv, SurfaceAgrees, SubjectOK, ChildOK
<1>2. QED
  BY <1>1, InitType, StepTypeInv, InitSurface, StepSurface, PTL DEF Spec

\* A deleted document is neither in the entity store nor in a generated relation,
\* unless it was deleted between the reading of its text and the storing, or with the
\* table of a definition that was flipped.
THEOREM DeletedIsGone == Spec => []DeletedAnswersNothing
<1>1. SurfaceInv => DeletedAnswersNothing
  BY DEF SurfaceInv, DeletedAnswersNothing, SubjectOK, ChildOK, DeletedOK
<1>2. QED
  BY <1>1, InitType, StepTypeInv, InitSurface, StepSurface, PTL DEF Spec

-----------------------------------------------------------------------------
(* Skipping.                                                               *)

Current(d) == eav[d] \in {active, Nothing}

\* A run whose task may still be delivered, or that is under way, or was left so.
MayGoOn(r) == \/ run[r].status = "running"
              \/ r \in queue /\ run[r].status \in {"completed", "failed"}

\* As long as no version is promoted while a run may go on, the worker uses the
\* promoted version, no run is labelled with a later one, and what a run has stored,
\* if it may go on or has the promoted version's label, is the promoted version's.
SettledOK ==
    /\ worker.stage # "free" => worker.version = active
    /\ \A r \in Runs : run[r].version # Nothing => run[r].version <= active
    /\ \A r \in Runs, d \in Docs :
          (<<r, d>> \in ledger /\ (MayGoOn(r) \/ run[r].version = active)) => Current(d)

\* A run that was never taken up has stored nothing.
UnbegunOK == \A r \in Runs, d \in Docs :
                <<r, d>> \in ledger => run[r].status \notin {"none", "queued"}

SkipInv == UnbegunOK /\ (~unsettled => SettledOK)

LEMMA InitSkip == Init => SkipInv
BY VersionsAssumption DEF Init, SkipInv, UnbegunOK, SettledOK, Free, Unasked

Waiting == {"none", "queued"}

\* What a step does to a run: its status moves on, only completion labels it, and
\* it may go on afterwards only if it might before or had not begun.
LEMMA RunStep ==
    ASSUME TypeInv, [Next]_vars, NEW r \in Runs
    PROVE  /\ run'[r].status \in Waiting => run[r].status \in Waiting
           /\ MayGoOn(r)' => MayGoOn(r) \/ run[r].status \in Waiting
           /\ \/ run'[r].version \in {run[r].version, Nothing}
              \/ /\ worker.stage # "free" /\ worker.run = r
                 /\ run'[r].version = worker.version
<1> DEFINE Moves == /\ run'[r].status \in Waiting => run[r].status \in Waiting
                    /\ MayGoOn(r)' => MayGoOn(r) \/ run[r].status \in Waiting
           RunLabelled == \/ run'[r].version \in {run[r].version, Nothing}
                          \/ /\ worker.stage # "free" /\ worker.run = r
                             /\ run'[r].version = worker.version
<1>1. RunOK /\ BusyOK
  BY TypeParts DEF TypeInv
<1>2. ASSUME run' = run, queue' \subseteq queue PROVE Moves /\ RunLabelled
  BY <1>2 DEF MayGoOn
<1>3. CASE UNCHANGED vars
  BY <1>2, <1>3 DEF vars
<1>4. CASE Next
  <2>1. ASSUME NEW q \in Runs, Trigger(q) PROVE Moves /\ RunLabelled
    <3>1. run[q].status = "none" /\ queue' \in {queue, queue \cup {q}}
      BY <2>1 DEF Trigger
    <3>2. run'[r] = run[r] \/ (r = q /\ run'[r].status = "queued" /\ run'[r].version = Nothing)
      BY <1>1, <2>1 DEF Trigger, Unasked, RunOK, Row
    <3>3. QED
      BY <3>1, <3>2 DEF MayGoOn, Waiting
  <2>2. ASSUME NEW q \in Runs, Begin(q) \/ BeginFails(q) PROVE Moves /\ RunLabelled
    <3>1. q \in queue /\ queue' \subseteq queue
      BY <2>2 DEF Begin, BeginFails, Acknowledge
    <3>2. \/ run'[r] = run[r]
          \/ /\ r = q /\ run'[r].status \in {"running", "failed"}
             /\ run'[r].version = run[r].version
      BY <1>1, <2>2 DEF Begin, BeginFails, RunOK, Row
    <3>3. run[q].status \in {"none", "queued", "running", "completed", "failed"}
      BY <1>1 DEF RunOK, Row
    <3>4. QED
      BY <3>1, <3>2, <3>3 DEF MayGoOn, Waiting
  <2>3. CASE NoModel \/ Complete
    <3>1. /\ worker.stage # "free" /\ worker.run \in Runs /\ run[worker.run].status = "running"
          /\ queue' \subseteq queue
      BY <1>1, <2>3 DEF NoModel, Complete, Acknowledge, BusyOK
    <3>2. \/ run'[r] = run[r]
          \/ /\ r = worker.run /\ run'[r].status \in {"failed", "completed"}
             /\ run'[r].version \in {run[r].version, worker.version}
      BY <1>1, <2>3, <3>1 DEF NoModel, Complete, RunVersion, r0, RunOK, Row
    <3>3. QED
      BY <3>1, <3>2 DEF MayGoOn, Waiting
  <2>4. CASE PlaneDown
    BY <1>2, <2>4 DEF PlaneDown, Acknowledge
  <2>5. CASE \/ \E d \in Docs : Infer(d) \/ DeleteDocument(d)
             \/ \E found \in BOOLEAN : Store(found)
             \/ DocumentFails \/ Dies
    BY <1>2, <2>5 DEF Infer, DeleteDocument, Store, DocumentFails, Dies
  <2>6. CASE Edits \/ \E v \in Versions : Promote(v)
    BY <1>2, <2>6 DEF Edits, Define, Toggle, Flip, Retype, Promote
  <2>7. QED
    BY <1>4, <2>1, <2>2, <2>3, <2>4, <2>5, <2>6, Steps DEF Works
<1>5. QED
  BY <1>3, <1>4

\* What a step does to what is stored: rows stay, go or are
\* those of the worker's version, and only what is stored enters the ledger.
LEMMA DataStep ==
    ASSUME TypeInv, [Next]_vars, NEW d \in Docs, NEW r \in Runs
    PROVE  /\ \/ eav'[d] \in {eav[d], Nothing}
              \/ worker.stage = "store" /\ eav'[d] = worker.version
           /\ <<r, d>> \in ledger' =>
                 \/ <<r, d>> \in ledger
                 \/ /\ worker.stage = "store" /\ worker.run = r
                    /\ eav'[d] = worker.version
<1> DEFINE Rows == \/ eav'[d] \in {eav[d], Nothing}
                   \/ worker.stage = "store" /\ eav'[d] = worker.version
           Listed == <<r, d>> \in ledger' =>
                 \/ <<r, d>> \in ledger
                 \/ /\ worker.stage = "store" /\ worker.run = r
                    /\ eav'[d] = worker.version
<1>1. StoreOK
  BY TypeParts DEF TypeInv
<1>2. ASSUME UNCHANGED <<eav, ledger>> PROVE Rows /\ Listed
  BY <1>2
<1>3. CASE UNCHANGED vars
  BY <1>2, <1>3 DEF vars, store
<1>4. CASE Next
  <2>1. ASSUME NEW found \in BOOLEAN, Store(found) PROVE Rows /\ Listed
    <3>1. worker.stage = "store" /\ (d # worker.doc => eav'[d] = eav[d])
      BY <2>1, StoreIs
    <3>2. eav'[worker.doc] = IF found THEN worker.version ELSE Nothing
      BY <2>1, StoreIs
    <3>3. ledger' = IF found THEN ledger \cup {<<worker.run, worker.doc>>} ELSE ledger
      BY <2>1 DEF Store, r0
    <3>4. QED
      BY <3>1, <3>2, <3>3
  <2>2. ASSUME NEW e \in Docs, DeleteDocument(e) PROVE Rows /\ Listed
    BY <1>1, <2>2 DEF DeleteDocument, StoreOK
  <2>3. ASSUME NEW q \in Runs, Trigger(q) \/ Begin(q) \/ BeginFails(q) PROVE Rows /\ Listed
    BY <1>2, <2>3 DEF Trigger, Begin, BeginFails, store
  <2>4. CASE \/ \E e \in Docs : Infer(e)
             \/ NoModel \/ DocumentFails \/ Complete \/ PlaneDown \/ Dies
    BY <1>2, <2>4 DEF Infer, NoModel, DocumentFails, Complete, PlaneDown, Dies, store
  <2>5. CASE Edits \/ \E v \in Versions : Promote(v)
    BY <1>2, <2>5 DEF Edits, Define, Toggle, Flip, Retype, Promote, store
  <2>6. QED
    BY <1>4, <2>1, <2>2, <2>3, <2>4, <2>5, Steps DEF Works
<1>5. QED
  BY <1>3, <1>4

\* The promoted version changes in a promotion only, and the worker uses another than
\* it had only when it is the promoted one.
LEMMA VersionStep ==
    ASSUME TypeInv, [Next]_vars
    PROVE  /\ active' # active => \E v \in Versions : Promote(v)
           /\ worker'.stage # "free" =>
                 \/ worker'.version = active' /\ active' = active
                 \/ worker.stage # "free" /\ worker'.version = worker.version
           /\ unsettled => unsettled'
<1> DEFINE Uses == worker'.stage # "free" =>
                      \/ worker'.version = active' /\ active' = active
                      \/ worker.stage # "free" /\ worker'.version = worker.version
<1>1. worker \in Locals
  BY TypeParts DEF TypeInv, WorkerOK
<1>2. ASSUME worker' = worker PROVE Uses
  BY <1>2
<1>3. ASSUME worker' = Free PROVE Uses
  BY <1>3, Constants
<1>4. CASE UNCHANGED vars
  BY <1>4 DEF vars, history
<1>5. CASE Next
  <2>1. ASSUME NEW r \in Runs, Begin(r)
        PROVE  active' = active /\ Uses /\ unsettled' = unsettled
    BY <2>1, Constants DEF Begin, Locals, history
  <2>2. ASSUME NEW d \in Docs, Infer(d)
        PROVE  active' = active /\ Uses /\ unsettled' = unsettled
    BY <1>1, <2>2 DEF Infer, Locals, history
  <2>3. CASE DocumentFails \/ \E found \in BOOLEAN : Store(found)
    <3>1. worker'.version = worker.version /\ worker.stage = "store"
      BY <1>1, <2>3 DEF Store, DocumentFails, Locals
    <3>2. active' = active /\ unsettled' = unsettled
      BY <2>3 DEF Store, DocumentFails, history
    <3>3. QED
      BY <3>1, <3>2
  <2>4. CASE NoModel \/ Complete \/ PlaneDown \/ Dies
    <3>1. worker' = Free /\ active' = active /\ unsettled' = unsettled
      BY <2>4 DEF NoModel, Complete, PlaneDown, Dies, history
    <3>2. QED
      BY <1>3, <3>1
  <2>5. ASSUME NEW v \in Versions, Promote(v)
        PROVE  worker' = worker /\ (unsettled => unsettled')
    BY <2>5 DEF Promote
  <2>6. CASE \/ Edits \/ \E d \in Docs : DeleteDocument(d)
             \/ \E r \in Runs : Trigger(r) \/ BeginFails(r)
    <3>1. worker' = worker /\ active' = active /\ unsettled' = unsettled
      BY <2>6 DEF Edits, Define, Toggle, Flip, Retype, DeleteDocument, Trigger, BeginFails, history
    <3>2. QED
      BY <1>2, <3>1
  <2>7. QED
    BY <1>2, <1>5, <2>1, <2>2, <2>3, <2>4, <2>5, <2>6, Steps DEF Works
<1>6. QED
  BY <1>4, <1>5

\* A promotion that leaves things settled is of a later version, and finds no run
\* that may go on.
LEMMA PromoteIs ==
    ASSUME TypeInv, NEW v \in Versions, Promote(v), ~unsettled'
    PROVE  /\ active' = v /\ active < v /\ \A r \in Runs : ~MayGoOn(r)
           /\ UNCHANGED <<eav, ledger, run, queue, worker>>
<1>1. active \in Int /\ v \in Int
  BY TypeParts, VersionsAssumption DEF TypeInv, CatalogOK, Versions
<1>2. /\ v # active /\ ~ (v < active)
      /\ ~ \E r \in Runs : run[r].status \in (IF r \in queue THEN {"running", "completed", "failed"}
                                              ELSE {"running"})
  BY DEF Promote
<1>3. \A r \in Runs : ~MayGoOn(r)
  BY <1>2 DEF MayGoOn
<1>4. QED
  BY <1>1, <1>2, <1>3 DEF Promote, store

LEMMA StepUnbegun == TypeInv /\ UnbegunOK /\ [Next]_vars => UnbegunOK'
<1> SUFFICES ASSUME TypeInv, UnbegunOK, [Next]_vars,
                    NEW r \in Runs, NEW d \in Docs, <<r, d>> \in ledger'
             PROVE  run'[r].status \notin Waiting
  BY DEF UnbegunOK, Waiting
<1>1. run'[r].status \in Waiting => run[r].status \in Waiting
  BY RunStep
<1>2. CASE <<r, d>> \in ledger
  BY <1>1, <1>2 DEF UnbegunOK, Waiting
<1>3. CASE worker.stage = "store" /\ worker.run = r
  BY <1>1, <1>3 DEF TypeInv, BusyOK, Waiting
<1>4. QED
  BY <1>2, <1>3, DataStep

LEMMA StepSettled ==
    ASSUME TypeInv, UnbegunOK, ~unsettled => SettledOK, [Next]_vars, ~unsettled'
    PROVE  SettledOK'
<1>1. SettledOK
  BY VersionStep
<1>2. ASSUME NEW v \in Versions, Promote(v) PROVE SettledOK'
  <2>1. /\ active' = v /\ active < v /\ \A r \in Runs : ~MayGoOn(r)
        /\ UNCHANGED <<eav, ledger, run, queue, worker>>
    BY <1>2, PromoteIs
  <2>2. /\ active \in Int /\ v \in Int /\ v # Nothing
        /\ \A r \in Runs : run[r].version \in Int
    BY TypeParts, Constants, VersionsAssumption
       DEF TypeInv, CatalogOK, RunOK, Row, Versions, Found, Nothing
  <2>3. worker.stage = "free"
    BY <2>1 DEF TypeInv, BusyOK, MayGoOn
  <2>4. \A r \in Runs : run[r].version # Nothing => run[r].version < v
    BY <1>1, <2>1, <2>2 DEF SettledOK
  <2>5. \A r \in Runs : ~MayGoOn(r)'
    BY <2>1 DEF MayGoOn
  <2>6. QED
    BY <2>1, <2>2, <2>3, <2>4, <2>5 DEF SettledOK
<1>3. CASE active' = active
  <2>1. worker'.stage # "free" => worker'.version = active'
    BY <1>1, <1>3, VersionStep DEF SettledOK
  <2>2. active \in Versions /\ Nothing \notin Versions /\ active <= active
    BY TypeParts, Constants, VersionsAssumption DEF TypeInv, CatalogOK, Versions
  <2>3. ASSUME NEW r \in Runs, run'[r].version # Nothing PROVE run'[r].version <= active'
    BY <1>1, <1>3, <2>2, <2>3, RunStep DEF SettledOK
  <2>4. ASSUME NEW r \in Runs, NEW d \in Docs, <<r, d>> \in ledger',
               MayGoOn(r)' \/ run'[r].version = active'
        PROVE  Current(d)'
    <3>1. CASE <<r, d>> \in ledger
      <4>1. run[r].status \notin Waiting
        BY <3>1 DEF UnbegunOK, Waiting
      <4>2. MayGoOn(r) \/ run[r].version = active
        <5>1. worker.stage # "free" /\ worker.run = r => MayGoOn(r)
          BY DEF TypeInv, BusyOK, MayGoOn
        <5>2. QED
          BY <1>3, <2>2, <2>4, <4>1, <5>1, RunStep
      <4>3. Current(d)
        BY <1>1, <3>1, <4>2 DEF SettledOK
      <4>4. eav'[d] \in {eav[d], Nothing, active}
        BY <1>1, DataStep DEF SettledOK
      <4>5. QED
        BY <1>3, <4>3, <4>4 DEF Current
    <3>2. CASE worker.stage = "store" /\ eav'[d] = worker.version
      BY <1>1, <1>3, <3>2 DEF SettledOK, Current
    <3>3. QED
      BY <2>4, <3>1, <3>2, DataStep
  <2>5. QED
    BY <2>1, <2>3, <2>4 DEF SettledOK
<1>4. QED
  BY <1>2, <1>3, VersionStep

LEMMA StepSkip == TypeInv /\ SkipInv /\ [Next]_vars => SkipInv'
BY StepUnbegun, StepSettled DEF SkipInv

\* What is skipped under the promoted version was extracted by it, for every number of
\* runs, redeliveries, kills and relabellings, unless a version was promoted while a
\* run might go on, or after a newer one (_run_batch_extraction).
THEOREM SkippedStaysCurrent == Spec => []SkippedIsCurrent
<1>1. SkipInv => SkippedIsCurrent
  BY DEF SkipInv, SettledOK, Current, SkippedIsCurrent, AlreadyExtracted
<1>2. QED
  BY <1>1, InitType, StepTypeInv, InitSkip, StepSkip, PTL DEF Spec

-----------------------------------------------------------------------------
(* The entities of a document: what every step is shown to preserve.       *)

\* An entity is of one place (OfOnePlace).
Whole(from, to) ==
    aligned =>
        /\ \A i \in from..to : word[i].page = word[from].page
        /\ \A i \in from..to : i + MaxGap <= to => i..(i + MaxGap) \cap Labelled # {}
Local(e) == /\ e.first \in Labelled /\ e.last \in Labelled /\ e.first <= e.last
            /\ Whole(e.first, e.last) /\ e.page = word[e.first].page
            /\ aligned /\ mode = "bert" /\ e.page = Unknown => e.first..e.last \subseteq Labelled
\* It counts its mentions, or less.
Counted(e) == /\ e.mentions # {} /\ e.count \in 1..Cardinality(e.mentions)
              /\ mode = "bert" => e.count = Cardinality(e.mentions)

WordOK == word \in Documents /\ aligned \in BOOLEAN /\ mode \in {"bert", "bert_llm_postprocess"}
StageOK == /\ at \in {"read", "ask", "again", "apply", "stored"} /\ read \in 0..N
           /\ mode = "bert" => at \in {"read", "stored"}
           /\ at # "read" => open = {}
           /\ at \in {"read", "ask", "again"} => near = {} /\ todo = {} /\ dropped = {} /\ absorbed = {}
           /\ lost \in SUBSET Words
EntsOK == ents \in Seq(EntityType) /\ \A k \in 1..Len(ents) : Local(ents[k]) /\ Counted(ents[k])

\* What was read: the words at hand run on to the last labelled one, and each mention
\* begun before is an entity, in the order of the document.
SoFar == {i \in Labelled : i <= read}
OpenOK == /\ open \subseteq SoFar
          /\ open = {} => SoFar = {}
          /\ open # {} => /\ Max(open) = Max(SoFar) /\ Whole(Min(open), Max(open))
                          /\ \A i \in open : word[i].label.type = word[Min(open)].label.type
                          /\ aligned /\ word[Min(open)].page = Unknown => Min(open)..Max(open) \subseteq Labelled
Begun == {ents[k].first : k \in 1..Len(ents)} \cup (IF open = {} THEN {} ELSE {Min(open)})
Ends(i, j) ==
    /\ \A k \in SoFar : i < k /\ k <= j => GoesOn(k)
    /\ \A k \in SoFar : j \in Before(k) /\ Max(Before(k)) = j => ~GoesOn(k)
ReadInv ==
    at = "read" =>
        /\ OpenOK
        /\ Begun = {i \in SoFar : ~GoesOn(i)}
        /\ open # {} => Ends(Min(open), Max(open))
        /\ \A k \in 1..Len(ents) :
              LET e == ents[k]
              IN /\ e.mentions = {e.first} /\ e.count = 1 /\ e.value = Trimmed(e.first, e.last)
                 /\ e.type = word[e.first].label.type
                 /\ open # {} /\ e.first < Min(open) /\ e.last < Min(open) /\ Ends(e.first, e.last)
                 /\ \A l \in (k + 1)..Len(ents) : e.first < ents[l].first

\* From there on an entity that is not dropped nor merged into another shares no mention
\* with one like it, and a mention is of one of them or lost.
Left == IF at = "stored" THEN 1..Len(ents) ELSE (1..Len(ents)) \ (dropped \cup absorbed)
LeftInv ==
    at # "read" =>
        /\ \A k, l \in Left : k # l => ents[k].mentions \cap ents[l].mentions = {}
        /\ \A i \in Mentions : i \in lost \/ \E k \in Left : i \in ents[k].mentions
Close(e, f) ==
    /\ aligned /\ e.page = f.page
    /\ \E i \in e.first..e.last, j \in f.first..f.last : i - j <= MaxGap + 1 /\ j - i <= MaxGap + 1
DecideInv ==
    at = "apply" =>
        /\ todo \subseteq (1..Len(ents)) \ dropped
        /\ near \subseteq (1..Len(ents)) \X (1..Len(ents))
        /\ \A p \in near : p[1] # p[2] /\ Close(ents[p[1]], ents[p[2]])
PipeInv == WordOK /\ StageOK /\ EntsOK /\ ReadInv /\ LeftInv /\ DecideInv /\ OneRowPerFact

-----------------------------------------------------------------------------
(* Sets of numbers, and what is picked from a sequence.                    *)

\* A set of naturals has a least element, and a greatest one below a bound.
LEMMA Least ==
    ASSUME NEW S \in SUBSET Nat, S # {}
    PROVE  \E k \in S : \A l \in S : k <= l
<1> DEFINE R == OpToRel(<, Nat)
<1>1. PICK k \in S : \A l \in S : <<l, k>> \notin R
  <2>1. IsWellFoundedOn(R, Nat)
    BY NatLessThanWellFounded
  <2> HIDE DEF R
  <2>2. QED
    BY <2>1, WFMin
<1>2. \A l \in S : ~ (l < k)
  BY <1>1 DEF OpToRel
<1>3. QED
  BY <1>2

LEMMA Greatest ==
    ASSUME NEW n \in Nat, NEW S \in SUBSET (1..n), S # {}
    PROVE  \E k \in S : \A l \in S : l <= k
<1> DEFINE T == {n - k : k \in S}
<1>1. T \in SUBSET Nat /\ T # {}
  <2>1. \A k \in S : n - k \in Nat
    OBVIOUS
  <2>2. QED
    BY <2>1
<1>2. PICK m \in T : \A l \in T : m <= l
  BY <1>1, Least
<1>3. PICK k \in S : m = n - k
  OBVIOUS
<1>4. \A l \in S : n - k <= n - l
  BY <1>2, <1>3
<1>5. \A l \in S : l <= k
  <2>1. TAKE l \in S
  <2>2. l \in Int /\ k \in Int /\ n - k <= n - l
    BY <1>4
  <2>3. QED
    BY <2>2
<1>6. QED
  BY <1>5

LEMMA MaxIs ==
    ASSUME NEW n \in Nat, NEW S \in SUBSET (1..n), S # {}
    PROVE  Max(S) \in S /\ \A k \in S : k <= Max(S)
<1>1. PICK k \in S : \A l \in S : l <= k
  BY Greatest
<1>2. \A l \in S : k >= l
  BY <1>1
<1>3. Max(S) \in S /\ \A l \in S : Max(S) >= l
  BY <1>2 DEF Max
<1>4. QED
  BY <1>3

LEMMA MinIs ==
    ASSUME NEW n \in Nat, NEW S \in SUBSET (1..n), S # {}
    PROVE  Min(S) \in S /\ \A k \in S : Min(S) <= k
<1>1. S \in SUBSET Nat
  OBVIOUS
<1>2. PICK k \in S : \A l \in S : k <= l
  BY <1>1, Least
<1>3. Min(S) \in S /\ \A l \in S : Min(S) =< l
  BY <1>2 DEF Min
<1>4. QED
  BY <1>3

\* The places are numbered from 1 on, each once.
LEMMA Numbering ==
    ASSUME NEW n \in Nat, NEW S \in SUBSET (1..n)
    PROVE  /\ Cardinality(S) \in Nat
           /\ \A m \in 1..Cardinality(S) : Nth(S, m) \in S
           /\ \A l, m \in 1..Cardinality(S) : Nth(S, l) = Nth(S, m) => l = m
           /\ \A k \in S : \E m \in 1..Cardinality(S) : Nth(S, m) = k
<1> DEFINE Upto(k) == {j \in S : j <= k}
           f == [k \in S |-> Cardinality(Upto(k))]
           c == Cardinality(S)
<1>1. IsFiniteSet(S) /\ c \in Nat
  <2>1. IsFiniteSet(1..n)
    BY FS_Interval
  <2>2. QED
    BY <2>1, FS_Subset, FS_CardinalityType
<1>2. ASSUME NEW k \in S
      PROVE  IsFiniteSet(Upto(k)) /\ Cardinality(Upto(k)) \in 1..c
  <2>1. Upto(k) \in SUBSET S /\ k \in Upto(k)
    OBVIOUS
  <2> HIDE DEF Upto
  <2>2. IsFiniteSet(Upto(k)) /\ Cardinality(Upto(k)) <= c
    BY <1>1, <2>1, FS_Subset
  <2>3. Cardinality(Upto(k)) \in Nat /\ Cardinality(Upto(k)) # 0
    BY <2>1, <2>2, FS_CardinalityType, FS_EmptySet
  <2>4. QED
    BY <1>1, <2>2, <2>3
<1>3. ASSUME NEW k \in S, NEW l \in S, k < l
      PROVE  Cardinality(Upto(k)) # Cardinality(Upto(l))
  <2>1. Upto(k) \in SUBSET Upto(l) /\ l \in Upto(l) /\ l \notin Upto(k)
    <3>1. k \in Nat /\ l \in Nat /\ S \subseteq Nat
      OBVIOUS
    <3>2. ~ (l <= k) /\ l <= l
      BY <1>3, <3>1
    <3>3. \A j \in S : j <= k => j <= l
      BY <1>3, <3>1
    <3>4. QED
      BY <3>2, <3>3
  <2> HIDE DEF Upto
  <2>2. QED
    BY <1>2, <2>1, FS_Subset
<1>4. f \in Injection(S, 1..c)
  <2>1. f \in [S -> 1..c]
    BY <1>2
  <2>2. ASSUME NEW k \in S, NEW l \in S, f[k] = f[l]
        PROVE  k = l
    <3>1. k \in Int /\ l \in Int
      OBVIOUS
    <3>2. ~ (k < l) /\ ~ (l < k)
      BY <1>3, <2>2
    <3>3. QED
      BY <3>1, <3>2
  <2> HIDE DEF f
  <2>3. QED
    BY <2>1, <2>2 DEF Injection, IsInjective
<1>5. f \in Surjection(S, 1..c)
  <2>1. IsFiniteSet(1..c) /\ Cardinality(1..c) = c
    BY <1>1, FS_Interval
  <2> HIDE DEF f
  <2>2. QED
    BY <1>4, <2>1, FS_Injection
<1>6. ASSUME NEW m \in 1..c
      PROVE  Nth(S, m) \in S /\ f[Nth(S, m)] = m
  <2>1. PICK k \in S : f[k] = m
    <3> HIDE DEF f
    <3>1. QED
      BY <1>5 DEF Surjection
  <2>2. \E j \in S : Cardinality({i \in S : i <= j}) = m
    BY <2>1
  <2>3. QED
    BY <2>2 DEF Nth
<1>7. ASSUME NEW k \in S
      PROVE  f[k] \in 1..c /\ Nth(S, f[k]) = k
  <2>1. f[k] \in 1..c
    BY <1>2
  <2> HIDE DEF f
  <2>2. f[Nth(S, f[k])] = f[k] /\ Nth(S, f[k]) \in S
    BY <1>6, <2>1
  <2>3. QED
    BY <1>4, <2>1, <2>2 DEF Injection, IsInjective
<1> HIDE DEF f
<1>8. \A l, m \in 1..c : Nth(S, l) = Nth(S, m) => l = m
  BY <1>6
<1>9. QED
  BY <1>1, <1>6, <1>7, <1>8

\* What is picked is what is at the places, each once.
LEMMA PickedIs ==
    ASSUME NEW T, NEW s \in Seq(T), NEW places \in SUBSET (1..Len(s))
    PROVE  /\ Picked(s, places) \in Seq(T) /\ Len(Picked(s, places)) = Cardinality(places)
           /\ \A m \in 1..Len(Picked(s, places)) :
                 Nth(places, m) \in places /\ Picked(s, places)[m] = s[Nth(places, m)]
           /\ \A l, m \in 1..Len(Picked(s, places)) : Nth(places, l) = Nth(places, m) => l = m
           /\ \A k \in places : \E m \in 1..Len(Picked(s, places)) : Nth(places, m) = k
<1> DEFINE c == Cardinality(places)
<1>1. Len(s) \in Nat /\ \A k \in places : s[k] \in T
  OBVIOUS
<1>2. /\ c \in Nat /\ \A m \in 1..c : Nth(places, m) \in places
      /\ \A l, m \in 1..c : Nth(places, l) = Nth(places, m) => l = m
      /\ \A k \in places : \E m \in 1..c : Nth(places, m) = k
  BY <1>1, Numbering
<1> HIDE DEF c
<1>3. Picked(s, places) = [m \in 1..c |-> s[Nth(places, m)]]
  BY DEF Picked, c
<1>4. Picked(s, places) \in Seq(T) /\ Len(Picked(s, places)) = c
  <2>1. \A m \in 1..c : s[Nth(places, m)] \in T
    BY <1>1, <1>2
  <2>2. QED
    BY <1>2, <1>3, <2>1
<1>5. \A m \in 1..c : Picked(s, places)[m] = s[Nth(places, m)]
  BY <1>3
<1>6. QED
  BY <1>2, <1>4, <1>5 DEF c

-----------------------------------------------------------------------------
(* The words of the document.                                              *)

\* What the assumptions say of the document at hand.
LEMMA WordIs ==
    ASSUME WordOK
    PROVE  /\ N \in Nat /\ N > 0 /\ MaxGap \in Nat /\ Words = 1..N
           /\ \A i \in Words : /\ word[i].label \in Labels /\ word[i].text \in Texts \cup {Punct}
                               /\ word[i].page \in 0..N
           /\ IsDocument(word)
<1>1. word \in [Words -> [label : Labels, text : Texts \cup {Punct}, page : 0..N]] /\ IsDocument(word)
  BY DocumentsAssumption DEF WordOK
<1>2. QED
  BY <1>1, NAssumption, GapAssumption DEF Words

LEMMA LabelledAre ==
    ASSUME WordOK
    PROVE  /\ Labelled \in SUBSET Words
           /\ \A i \in Labelled : word[i].label.type \in Types /\ word[i].label.prefix \in {"B", "I"}
BY WordIs DEF Labelled, Labels

\* Between two words of one page there are words of that page only.
LEMMA PagesRise ==
    ASSUME WordOK, NEW i \in Words, NEW j \in Words, i <= j
    PROVE  word[i].page <= word[j].page
<1>1. CASE \A k \in Words : word[k].page = Unknown
  BY <1>1 DEF Unknown
<1>2. CASE ~ \A k \in Words : word[k].page = Unknown
  <2> DEFINE Falls == {k \in Words : i <= k /\ word[k].page < word[i].page}
  <2>1. SUFFICES ASSUME Falls # {} PROVE FALSE
    <3>1. word[i].page \in Nat /\ word[j].page \in Nat
      BY WordIs
    <3>2. ~ (word[j].page < word[i].page) => word[i].page <= word[j].page
      BY <3>1
    <3>3. QED
      BY <3>2
  <2>2. Falls \in SUBSET Nat
    BY WordIs
  <2>3. PICK k \in Falls : \A l \in Falls : k <= l
    <3> HIDE DEF Falls
    <3>1. QED
      BY <2>1, <2>2, Least
  <2>4. k \in 2..N /\ i <= k - 1 /\ k - 1 \in Words /\ k \in Words
    <3>1. k \in 1..N /\ i \in 1..N /\ i <= k /\ word[k].page < word[i].page
      BY WordIs
    <3>2. word[k].page \in Nat /\ word[i].page \in Nat
      BY <3>1, WordIs
    <3>3. i # k
      BY <3>1, <3>2
    <3>4. QED
      BY <3>1, <3>3, WordIs
  <2>5. word[k].page \in {word[k - 1].page, word[k - 1].page + 1}
    BY <1>2, <2>4, WordIs DEF IsDocument
  <2>6. ~ (word[k - 1].page < word[i].page)
    <3>1. k - 1 \notin Falls
      BY <2>3, <2>4
    <3>2. QED
      BY <2>4, <3>1
  <2>7. word[k].page \in Nat /\ word[k - 1].page \in Nat /\ word[i].page \in Nat
    BY <2>4, WordIs
  <2>8. QED
    BY <2>3, <2>5, <2>6, <2>7
<1>3. QED
  BY <1>1, <1>2

LEMMA OnePage ==
    ASSUME WordOK, NEW i \in Words, NEW j \in Words, word[i].page = word[j].page
    PROVE  \A k \in i..j : word[k].page = word[i].page
<1>1. TAKE k \in i..j
<1>2. k \in Words /\ i <= k /\ k <= j
  BY WordIs
<1>3. word[i].page <= word[k].page /\ word[k].page <= word[j].page
  BY <1>2, PagesRise
<1>4. word[i].page \in Nat /\ word[k].page \in Nat
  BY <1>2, WordIs
<1>5. QED
  BY <1>3, <1>4

\* Mentions are words, and so finitely many.
LEMMA MentionsFinite ==
    ASSUME WordOK, NEW S \in SUBSET Words
    PROVE  IsFiniteSet(S) /\ Cardinality(S) \in Nat
<1>1. Words = 1..N /\ 1 \in Int /\ N \in Int
  BY WordIs
<1>2. IsFiniteSet(1..N)
  BY <1>1, FS_Interval
<1>3. QED
  BY <1>1, <1>2, FS_Subset, FS_CardinalityType

\* What is left of a stretch is as long as there are words in it to keep.
LEMMA TrimmedIs ==
    ASSUME WordOK, NEW first \in Words, NEW last \in Words
    PROVE  /\ Trimmed(first, last) \in Seq(Texts \cup {Punct})
           /\ Len(Trimmed(first, last)) = Cardinality(Kept(first, last))
           /\ Cardinality(Kept(first, last)) \in Nat
           /\ \A n \in 1..Cardinality(Kept(first, last)) :
                 \E k \in Kept(first, last) : Trimmed(first, last)[n] = word[k].text
<1> DEFINE kept == Kept(first, last)  c == Cardinality(kept)
           texts == [i \in Words |-> word[i].text]
<1>1. kept \in SUBSET (1..N) /\ N \in Nat /\ Words = 1..N
  BY WordIs DEF Kept, Spanned
<1>2. c \in Nat /\ \A n \in 1..c : Nth(kept, n) \in kept
  <2> HIDE DEF kept
  <2>1. QED
    BY <1>1, Numbering
<1>3. Trimmed(first, last) = [n \in 1..c |-> texts[Nth(kept, n)]]
  BY DEF Trimmed, Picked
<1>4. \A n \in 1..c : texts[Nth(kept, n)] = word[Nth(kept, n)].text
  <2> HIDE DEF kept, c
  <2>1. QED
    BY <1>1, <1>2
<1>5. \A n \in 1..c : texts[Nth(kept, n)] \in Texts \cup {Punct}
  <2> HIDE DEF kept, c, texts
  <2>1. QED
    BY <1>1, <1>2, <1>4, WordIs
<1> HIDE DEF kept, c, texts
<1>6. Trimmed(first, last) \in Seq(Texts \cup {Punct}) /\ Len(Trimmed(first, last)) = c
  BY <1>2, <1>3, <1>5
<1>7. \A n \in 1..c : Trimmed(first, last)[n] = word[Nth(kept, n)].text
  BY <1>3, <1>4
<1>8. QED
  BY <1>2, <1>6, <1>7 DEF kept, c

\* A mention that is worth a row is a valid entity.
LEMMA WorthIsValid ==
    ASSUME WordOK, NEW e, e.first \in Words, e.last \in Words, e.value = Trimmed(e.first, e.last),
           e.type = word[e.first].label.type, WorthARow(e.first, e.last)
    PROVE  Valid(e)
<1> DEFINE kept == Kept(e.first, e.last)
<1>1. PICK k \in kept : e.type \in ShortTypes \/ word[k].text \notin ShortTexts \/ kept # {k}
  BY DEF WorthARow
<1>2. /\ e.value \in Seq(Texts \cup {Punct}) /\ Len(e.value) = Cardinality(kept) /\ Cardinality(kept) \in Nat
      /\ \A n \in 1..Cardinality(kept) : \E j \in kept : e.value[n] = word[j].text
  BY TrimmedIs
<1>3. IsFiniteSet(kept)
  <2>1. kept \in SUBSET Words
    BY WordIs DEF Kept, Spanned
  <2>2. QED
    BY <2>1, MentionsFinite
<1> HIDE DEF kept
<1>4. Cardinality(kept) # 0
  BY <1>3, FS_EmptySet
<1>5. ASSUME NEW t \in ShortTexts, e.value = <<t>>, e.type \notin ShortTypes
      PROVE  FALSE
  <2>1. Cardinality(kept) = 1 /\ e.value[1] = t
    BY <1>2, <1>5
  <2>2. kept = {k}
    <3>1. \E j : kept = {j}
      BY <1>3, <2>1, FS_Singleton
    <3>2. QED
      BY <3>1
  <2>3. PICK j \in kept : e.value[1] = word[j].text
    BY <1>2, <2>1
  <2>4. QED
    BY <1>1, <1>5, <2>1, <2>2, <2>3
<1>6. e.value # <<>>
  BY <1>2, <1>4
<1>7. QED
  BY <1>5, <1>6 DEF Valid

\* A mention ends in one place.
LEMMA NextLabelled ==
    ASSUME WordOK, NEW j \in Labelled, NEW l \in Labelled, j < l
    PROVE  \E k \in Labelled : j < k /\ k <= l /\ j \in Before(k) /\ Max(Before(k)) = j
<1> DEFINE Later == {k \in Labelled : j < k}
<1>1. Labelled \in SUBSET (1..N) /\ N \in Nat
  BY WordIs, LabelledAre
<1>2. Later \in SUBSET Nat /\ l \in Later
  <2>1. \A k \in Labelled : k \in Nat
    BY <1>1
  <2>2. QED
    BY <2>1
<1>3. PICK k \in Later : \A m \in Later : k <= m
  <2> HIDE DEF Later
  <2>1. QED
    BY <1>2, Least
<1>4. k \in Labelled /\ j < k /\ k <= l
  BY <1>2, <1>3
<1>5. Before(k) \in SUBSET (1..N) /\ j \in Before(k) /\ \A m \in Before(k) : m \in Labelled /\ m < k
  BY <1>1, <1>4 DEF Before
<1>6. \A m \in Before(k) : m <= j
  <2>1. TAKE m \in Before(k)
  <2>2. m \in Int /\ k \in Int /\ j \in Int /\ m < k /\ m \in Labelled
    BY <1>1, <1>4, <1>5
  <2>3. j < m => k <= m
    BY <1>3, <2>2
  <2>4. QED
    BY <2>2, <2>3
<1>7. Max(Before(k)) \in Before(k) /\ j <= Max(Before(k))
  BY <1>1, <1>5, MaxIs
<1>8. Max(Before(k)) <= j
  BY <1>6, <1>7
<1>9. Max(Before(k)) \in Int /\ j \in Int
  BY <1>1, <1>5, <1>7
<1>10. QED
  BY <1>4, <1>5, <1>7, <1>8, <1>9

LEMMA SpellsOne ==
    ASSUME WordOK, NEW i \in Labelled, NEW j \in Labelled, NEW l \in Labelled, i <= j, i <= l,
           Spells(i, j), Spells(i, l)
    PROVE  j = l
<1>1. i \in Int /\ j \in Int /\ l \in Int /\ \A k \in Labelled : k \in Int
  BY WordIs, LabelledAre
<1>2. ASSUME NEW f \in Labelled, NEW g \in Labelled, i <= f, Spells(i, f), Spells(i, g), f < g
      PROVE  FALSE
  <2>1. PICK k \in Labelled : f < k /\ k <= g /\ f \in Before(k) /\ Max(Before(k)) = f
    BY <1>2, NextLabelled
  <2>2. i < k
    BY <1>1, <1>2, <2>1
  <2>3. QED
    BY <1>2, <2>1, <2>2 DEF Spells
<1>3. ~ (j < l) /\ ~ (l < j)
  BY <1>2
<1>4. QED
  BY <1>1, <1>3

\* A stretch of words goes on to a labelled word that is adjacent to its end.
LEMMA WholeGrows ==
    ASSUME WordOK, NEW from \in Words, NEW to \in Labelled, NEW i \in Labelled, from <= to, to < i,
           Whole(from, to), Adjacent(to, i)
    PROVE  Whole(from, i)
<1> SUFFICES ASSUME aligned PROVE Whole(from, i)
  BY DEF Whole
<1>1. /\ from \in 1..N /\ to \in 1..N /\ i \in 1..N /\ N \in Nat /\ MaxGap \in Nat
      /\ i - to - 1 <= MaxGap
  BY WordIs, LabelledAre DEF Adjacent
<1>2. word[to].page = word[from].page /\ word[i].page = word[from].page
  BY <1>1 DEF Whole, Adjacent
<1>3. \A k \in from..i : word[k].page = word[from].page
  BY <1>1, <1>2, WordIs, OnePage
<1>4. ASSUME NEW k \in from..i, k + MaxGap <= i
      PROVE  k..(k + MaxGap) \cap Labelled # {}
  <2>1. CASE k + MaxGap <= to
    BY <1>1, <2>1 DEF Whole
  <2>2. CASE k + MaxGap = i
    BY <1>1, <2>2
  <2>3. CASE to < k + MaxGap /\ k + MaxGap < i
    <3>1. k <= to /\ to \in k..(k + MaxGap)
      BY <1>1, <2>3
    <3>2. QED
      BY <3>1
  <2>4. QED
    BY <1>1, <1>4, <2>1, <2>2, <2>3
<1>5. QED
  BY <1>3, <1>4 DEF Whole

LEMMA WholeOne ==
    ASSUME WordOK, NEW i \in Labelled
    PROVE  Whole(i, i)
BY WordIs, LabelledAre DEF Whole

-----------------------------------------------------------------------------
(* Collapsing the mentions of one fact.                                    *)

Apart(s, places) == \A k, l \in places : k # l => s[k].mentions \cap s[l].mentions = {}
Same(s, k) == {j \in 1..Len(s) : Fact(s[j]) = Fact(s[k])}
MentionsOf(s, places) == UNION {s[j].mentions : j \in places}

\* Entities that share no mention have one each besides those of any of them.
LEMMA MentionsAdd ==
    ASSUME WordOK, NEW s \in Seq(EntityType), NEW J \in SUBSET (1..Len(s)), NEW k \in J,
           Apart(s, J), \A j \in J : s[j].mentions # {}
    PROVE  /\ MentionsOf(s, J) \in SUBSET Words
           /\ IsFiniteSet(J) /\ Cardinality(J) \in Nat /\ Cardinality(J \ {k}) \in Nat
           /\ Cardinality(J) = Cardinality(J \ {k}) + 1
           /\ Cardinality(s[k].mentions) + Cardinality(J \ {k}) <= Cardinality(MentionsOf(s, J))
           /\ (\A j \in J : Cardinality(s[j].mentions) = 1) => Cardinality(MentionsOf(s, J)) = Cardinality(J)
<1> DEFINE U == MentionsOf(s, J)
           g == [j \in J |-> CHOOSE i \in s[j].mentions : TRUE]
<1>1. \A j \in J : s[j].mentions \in SUBSET Words
  <2>1. \A j \in J : s[j] \in EntityType
    OBVIOUS
  <2>2. QED
    BY <2>1 DEF EntityType
<1>2. U \in SUBSET Words /\ \A j \in J : s[j].mentions \subseteq U
  BY <1>1 DEF MentionsOf
<1>3. IsFiniteSet(U) /\ Cardinality(U) \in Nat
  BY <1>2, MentionsFinite
<1>4. IsFiniteSet(J) /\ Cardinality(J) \in Nat
  <2>1. Len(s) \in Nat
    OBVIOUS
  <2>2. IsFiniteSet(1..Len(s))
    BY <2>1, FS_Interval
  <2>3. QED
    BY <2>2, FS_Subset, FS_CardinalityType
<1>5. /\ IsFiniteSet(J \ {k}) /\ Cardinality(J \ {k}) \in Nat
      /\ Cardinality(J) = Cardinality(J \ {k}) + 1
  <2>1. IsFiniteSet(J \ {k}) /\ Cardinality(J \ {k}) = Cardinality(J) - 1
    BY <1>4, FS_RemoveElement
  <2>2. Cardinality(J \ {k}) \in Nat
    BY <2>1, FS_CardinalityType
  <2>3. QED
    BY <1>4, <2>1, <2>2
<1>6. \A j \in J : g[j] \in s[j].mentions
  OBVIOUS
<1>7. \A j, l \in J : g[j] = g[l] => j = l
  BY <1>6 DEF Apart
<1> HIDE DEF U, g
<1>8. Cardinality(s[k].mentions) + Cardinality(J \ {k}) <= Cardinality(U)
  <2> DEFINE V == U \ s[k].mentions
             h == [j \in J \ {k} |-> g[j]]
  <2>1. \A j \in J \ {k} : g[j] \in V
    BY <1>2, <1>6 DEF Apart
  <2>2. h \in [J \ {k} -> V] /\ \A j, l \in J \ {k} : h[j] = h[l] => j = l
    BY <1>7, <2>1
  <2>3. IsFiniteSet(V) /\ Cardinality(V) = Cardinality(U) - Cardinality(U \cap s[k].mentions)
    BY <1>3, FS_Difference
  <2>4. U \cap s[k].mentions = s[k].mentions
    BY <1>2
  <2>5. IsFiniteSet(s[k].mentions) /\ Cardinality(s[k].mentions) \in Nat
    BY <1>1, MentionsFinite
  <2> HIDE DEF h, V
  <2>6. h \in Injection(J \ {k}, V)
    BY <2>2 DEF Injection, IsInjective
  <2>7. Cardinality(J \ {k}) <= Cardinality(V)
    BY <2>3, <2>6, FS_Injection
  <2>8. Cardinality(V) \in Nat /\ Cardinality(V) = Cardinality(U) - Cardinality(s[k].mentions)
    BY <2>3, <2>4, FS_CardinalityType
  <2> DEFINE u == Cardinality(U)  v == Cardinality(V)  r == Cardinality(J \ {k})  q == Cardinality(s[k].mentions)
  <2>9. u \in Nat /\ v \in Nat /\ r \in Nat /\ q \in Nat /\ v = u - q /\ r <= v
    BY <1>3, <1>5, <2>5, <2>7, <2>8
  <2> HIDE DEF u, v, r, q
  <2>10. q + r <= u
    BY <2>9
  <2>11. QED
    BY <2>10 DEF u, r, q
<1>9. ASSUME \A j \in J : Cardinality(s[j].mentions) = 1
      PROVE  Cardinality(U) = Cardinality(J)
  <2>1. \A j \in J : s[j].mentions = {g[j]}
    <3>1. TAKE j \in J
    <3>2. IsFiniteSet(s[j].mentions)
      BY <1>1, MentionsFinite
    <3>3. \E i : s[j].mentions = {i}
      BY <1>9, <3>2, FS_Singleton
    <3>4. QED
      BY <1>6, <3>3
  <2>2. g \in [J -> U]
    BY <1>2, <1>6 DEF g
  <2>3. g \in Injection(J, U)
    BY <1>7, <2>2 DEF Injection, IsInjective
  <2>4. \A i \in U : \E j \in J : g[j] = i
    BY <2>1 DEF U, MentionsOf
  <2>5. g \in Surjection(J, U)
    BY <2>2, <2>4 DEF Surjection
  <2>6. QED
    BY <1>3, <2>3, <2>5, FS_Injection
<1>10. QED
  BY <1>2, <1>4, <1>5, <1>8, <1>9 DEF U

\* The first entity of each fact counts the others in.
LEMMA JoinedIs ==
    ASSUME WordOK, NEW s \in Seq(EntityType), NEW k \in 1..Len(s), Apart(s, 1..Len(s)),
           \A j \in 1..Len(s) : Counted(s[j])
    PROVE  /\ Joined(s, k) \in EntityType
           /\ Fact(Joined(s, k)) = Fact(s[k])
           /\ Joined(s, k).first = s[k].first /\ Joined(s, k).last = s[k].last
           /\ Joined(s, k).page = s[k].page
           /\ Joined(s, k).mentions = MentionsOf(s, Same(s, k))
           /\ (IsFirst(s, k) /\ (mode = "bert" => \A j \in 1..Len(s) : s[j].count = 1))
                => Counted(Joined(s, k))
<1> DEFINE J == Same(s, k)
           others == {j \in (k + 1)..Len(s) : Fact(s[j]) = Fact(s[k])}
           e == Joined(s, k)
<1>1. s[k] \in EntityType /\ k \in Nat /\ Len(s) \in Nat
  OBVIOUS
<1>2. J \in SUBSET (1..Len(s)) /\ k \in J /\ Apart(s, J) /\ \A j \in J : s[j].mentions # {}
  BY DEF Same, Apart, Counted
<1>3. /\ MentionsOf(s, J) \in SUBSET Words
      /\ IsFiniteSet(J) /\ Cardinality(J) \in Nat /\ Cardinality(J \ {k}) \in Nat
      /\ Cardinality(J) = Cardinality(J \ {k}) + 1
      /\ Cardinality(s[k].mentions) + Cardinality(J \ {k}) <= Cardinality(MentionsOf(s, J))
      /\ (\A j \in J : Cardinality(s[j].mentions) = 1) => Cardinality(MentionsOf(s, J)) = Cardinality(J)
  <2> HIDE DEF J
  <2>1. QED
    BY <1>2, MentionsAdd
<1>4. others \in SUBSET J /\ Cardinality(others) \in Nat
  <2>1. others \in SUBSET J
    BY <1>1 DEF Same
  <2> HIDE DEF others, J
  <2>2. QED
    BY <1>3, <2>1, FS_Subset, FS_CardinalityType
<1>5. e = [s[k] EXCEPT !.count = s[k].count + Cardinality(others), !.mentions = MentionsOf(s, J)]
  BY DEF Joined, Occurrences, MentionsOf, Same
<1>6. s[k].count \in Nat
  BY <1>1 DEF EntityType
<1>7. IsFirst(s, k) => others = J \ {k}
  BY <1>1 DEF IsFirst, Same
<1> HIDE DEF others, J, e
<1>8. /\ e \in EntityType /\ Fact(e) = Fact(s[k])
      /\ e.first = s[k].first /\ e.last = s[k].last /\ e.page = s[k].page
      /\ e.mentions = MentionsOf(s, J) /\ e.count = s[k].count + Cardinality(others)
  <2> DEFINE n == s[k].count + Cardinality(others)  ms == MentionsOf(s, J)
  <2>1. n \in Nat /\ ms \in SUBSET Words
    BY <1>3, <1>4, <1>6
  <2>2. e = [s[k] EXCEPT !.count = n, !.mentions = ms]
    BY <1>5
  <2> HIDE DEF n, ms
  <2>3. e \in EntityType /\ e.count = n /\ e.mentions = ms
    BY <1>1, <2>1, <2>2 DEF EntityType
  <2>4. e.type = s[k].type /\ e.value = s[k].value /\ e.first = s[k].first /\ e.last = s[k].last /\ e.page = s[k].page
    BY <1>1, <2>2 DEF EntityType
  <2>5. QED
    BY <2>3, <2>4 DEF Fact, n, ms
<1>9. ASSUME IsFirst(s, k), mode = "bert" => \A j \in 1..Len(s) : s[j].count = 1
      PROVE  Counted(e)
  <2>1. /\ s[k].mentions # {} /\ s[k].count \in 1..Cardinality(s[k].mentions)
        /\ Cardinality(s[k].mentions) \in Nat /\ Cardinality(MentionsOf(s, J)) \in Nat
    <3>1. s[k].mentions \in SUBSET Words
      BY <1>1 DEF EntityType
    <3>2. QED
      BY <1>3, <3>1, MentionsFinite DEF Counted
  <2>2. e.count = s[k].count + Cardinality(J \ {k})
    BY <1>7, <1>8, <1>9
  <2>3. e.count \in 1..Cardinality(e.mentions)
    BY <1>3, <1>8, <2>1, <2>2
  <2>4. e.mentions # {}
    BY <1>2, <1>8, <2>1 DEF MentionsOf
  <2>5. ASSUME mode = "bert" PROVE e.count = Cardinality(e.mentions)
    <3>1. \A j \in J : Cardinality(s[j].mentions) = 1 /\ s[j].count = 1
      BY <1>2, <1>9, <2>5 DEF Counted
    <3>2. QED
      BY <1>2, <1>3, <1>8, <2>2, <3>1
  <2>6. QED
    BY <2>3, <2>4, <2>5 DEF Counted
<1>10. QED
  BY <1>8, <1>9 DEF e, J

\* Collapsed entities are where the first of their fact was, and share out all mentions.
LEMMA CollapsedIs ==
    ASSUME WordOK, NEW s \in Seq(EntityType), Apart(s, 1..Len(s)),
           \A j \in 1..Len(s) : Counted(s[j]),
           mode = "bert" => \A j \in 1..Len(s) : s[j].count = 1,
           NEW c, c = Collapsed(s)
    PROVE  /\ c \in Seq(EntityType)
           /\ \A m \in 1..Len(c) : /\ Counted(c[m])
                                   /\ \E k \in 1..Len(s) : c[m].first = s[k].first /\ c[m].last = s[k].last
                                                           /\ c[m].page = s[k].page
           /\ Apart(c, 1..Len(c))
           /\ MentionsOf(s, 1..Len(s)) \subseteq MentionsOf(c, 1..Len(c))
           /\ \A l, m \in 1..Len(c) : Fact(c[l]) = Fact(c[m]) => l = m
<1> DEFINE joined == [k \in 1..Len(s) |-> Joined(s, k)]
           firsts == {k \in 1..Len(s) : IsFirst(s, k)}
           At(m) == Nth(firsts, m)
<1>1. c = Picked(joined, firsts)
  BY DEF Collapsed
<1>2. joined \in Seq(EntityType) /\ Len(joined) = Len(s) /\ \A k \in 1..Len(s) : joined[k] = Joined(s, k)
  <2>1. Len(s) \in Nat
    OBVIOUS
  <2>2. \A k \in 1..Len(s) : Joined(s, k) \in EntityType
    BY JoinedIs
  <2>3. QED
    BY <2>1, <2>2
<1>3. firsts \in SUBSET (1..Len(joined))
  BY <1>2
<1>4. \A k \in firsts : k \in 1..Len(s) /\ IsFirst(s, k)
  OBVIOUS
<1>5. \A j \in 1..Len(s) : \E k \in firsts : Fact(s[k]) = Fact(s[j])
  <2>1. TAKE j \in 1..Len(s)
  <2>2. Same(s, j) \in SUBSET Nat /\ Same(s, j) # {}
    BY DEF Same
  <2>3. PICK k \in Same(s, j) : \A l \in Same(s, j) : k <= l
    BY <2>2, Least
  <2>4. IsFirst(s, k)
    BY <2>3 DEF IsFirst, Same
  <2>5. QED
    BY <2>3, <2>4 DEF Same
<1> HIDE DEF joined, firsts
<1>6. /\ c \in Seq(EntityType)
      /\ \A m \in 1..Len(c) : At(m) \in firsts /\ c[m] = Joined(s, At(m))
      /\ \A l, m \in 1..Len(c) : At(l) = At(m) => l = m
      /\ \A k \in firsts : \E m \in 1..Len(c) : At(m) = k
  <2>1. /\ c \in Seq(EntityType)
        /\ \A m \in 1..Len(c) : Nth(firsts, m) \in firsts /\ c[m] = joined[Nth(firsts, m)]
        /\ \A l, m \in 1..Len(c) : Nth(firsts, l) = Nth(firsts, m) => l = m
        /\ \A k \in firsts : \E m \in 1..Len(c) : Nth(firsts, m) = k
    BY <1>1, <1>2, <1>3, PickedIs
  <2>2. \A m \in 1..Len(c) : c[m] = Joined(s, Nth(firsts, m))
    BY <1>2, <1>4, <2>1
  <2>3. QED
    BY <2>1, <2>2
<1> HIDE DEF At
<1>7. ASSUME NEW m \in 1..Len(c)
      PROVE  /\ At(m) \in 1..Len(s) /\ IsFirst(s, At(m)) /\ Counted(c[m])
             /\ c[m].first = s[At(m)].first /\ c[m].last = s[At(m)].last /\ c[m].page = s[At(m)].page
             /\ Fact(c[m]) = Fact(s[At(m)]) /\ c[m].mentions = MentionsOf(s, Same(s, At(m)))
  BY <1>4, <1>6, JoinedIs
<1>8. \A l, m \in 1..Len(c) : Fact(c[l]) = Fact(c[m]) => l = m
  <2>1. TAKE l, m \in 1..Len(c)
  <2>2. HAVE Fact(c[l]) = Fact(c[m])
  <2>3. /\ At(l) \in 1..Len(s) /\ At(m) \in 1..Len(s) /\ Fact(s[At(l)]) = Fact(s[At(m)])
        /\ IsFirst(s, At(l)) /\ IsFirst(s, At(m))
    BY <1>7, <2>2
  <2>4. At(l) = At(m)
    BY <2>3 DEF IsFirst
  <2>5. QED
    BY <1>6, <2>4
<1>9. Apart(c, 1..Len(c))
  <2>1. SUFFICES ASSUME NEW l \in 1..Len(c), NEW m \in 1..Len(c), NEW i,
                        i \in c[l].mentions, i \in c[m].mentions
                 PROVE  l = m
    BY DEF Apart
  <2>2. PICK j \in Same(s, At(l)) : i \in s[j].mentions
    BY <1>7, <2>1 DEF MentionsOf
  <2>3. PICK k \in Same(s, At(m)) : i \in s[k].mentions
    BY <1>7, <2>1 DEF MentionsOf
  <2>4. j = k
    BY <2>2, <2>3 DEF Apart, Same
  <2>5. Fact(c[l]) = Fact(c[m])
    BY <1>7, <2>2, <2>3, <2>4 DEF Same
  <2>6. QED
    BY <1>8, <2>5
<1>10. MentionsOf(s, 1..Len(s)) \subseteq MentionsOf(c, 1..Len(c))
  <2>1. SUFFICES ASSUME NEW j \in 1..Len(s), NEW i \in s[j].mentions
                 PROVE  \E m \in 1..Len(c) : i \in c[m].mentions
    BY DEF MentionsOf
  <2>2. PICK k \in firsts : Fact(s[k]) = Fact(s[j])
    BY <1>5
  <2>3. PICK m \in 1..Len(c) : At(m) = k
    BY <1>6
  <2>4. c[m].mentions = MentionsOf(s, Same(s, k)) /\ j \in Same(s, k)
    BY <1>7, <2>2, <2>3 DEF Same
  <2>5. QED
    BY <2>4 DEF MentionsOf
<1>11. QED
  BY <1>6, <1>7, <1>8, <1>9, <1>10

-----------------------------------------------------------------------------
(* Reading the labels.                                                     *)

LEMMA SoFarIs ==
    ASSUME WordOK, StageOK
    PROVE  /\ SoFar \in SUBSET (1..N) /\ SoFar \subseteq Labelled /\ \A i \in SoFar : i <= read
           /\ SoFar # {} => Max(SoFar) \in SoFar /\ \A i \in SoFar : i <= Max(SoFar)
<1>1. SoFar \in SUBSET (1..N) /\ SoFar \subseteq Labelled /\ \A i \in SoFar : i <= read
  BY WordIs, LabelledAre DEF SoFar
<1>2. QED
  BY <1>1, WordIs, MaxIs

\* The words at hand are a mention so far.
LEMMA EntityIs ==
    ASSUME WordOK, StageOK, OpenOK, open # {}, NEW e, e = Entity(open)
    PROVE  /\ Min(open) \in open /\ Max(open) \in open /\ \A i \in open : Min(open) <= i /\ i <= Max(open)
           /\ e \in EntityType /\ Local(e) /\ Counted(e)
           /\ e.first = Min(open) /\ e.last = Max(open) /\ e.mentions = {e.first} /\ e.count = 1
           /\ e.value = Trimmed(e.first, e.last) /\ e.type = word[e.first].label.type
<1> DEFINE a == Min(open)  b == Max(open)
<1>1. open \in SUBSET (1..N) /\ open \subseteq Labelled
  BY SoFarIs DEF OpenOK
<1>2. a \in open /\ b \in open /\ \A i \in open : a <= i /\ i <= b
  BY <1>1, WordIs, MinIs, MaxIs
<1>3. a \in Words /\ b \in Words /\ a <= b /\ a \in Labelled /\ b \in Labelled
  BY <1>1, <1>2, WordIs
<1>4. Trimmed(a, b) \in Seq(Texts \cup {Punct})
  BY <1>3, TrimmedIs
<1>5. word[a].label.type \in Types /\ word[a].page \in 0..N
  BY <1>3, WordIs, LabelledAre
<1>6. /\ Whole(a, b)
      /\ aligned /\ word[a].page = Unknown => a..b \subseteq Labelled
  BY DEF OpenOK
<1>7. e = [type |-> word[a].label.type, value |-> Trimmed(a, b),
           first |-> a, last |-> b, page |-> word[a].page, count |-> 1, mentions |-> {a}]
  BY DEF Entity
<1> HIDE DEF a, b
<1>8. /\ e \in EntityType /\ e.first = a /\ e.last = b /\ e.mentions = {a} /\ e.count = 1
      /\ e.page = word[a].page /\ e.value = Trimmed(a, b) /\ e.type = word[a].label.type
  BY <1>3, <1>4, <1>5, <1>7 DEF EntityType
<1>9. Local(e)
  BY <1>3, <1>6, <1>8 DEF Local
<1>10. Counted(e)
  <2>1. Cardinality({a}) = 1
    BY FS_Singleton
  <2>2. QED
    BY <1>8, <2>1 DEF Counted
<1>11. QED
  BY <1>2, <1>8, <1>9, <1>10 DEF a, b

\* With the words at hand closed, the entities are the mentions read so far, each once.
LEMMA FlushedIs ==
    ASSUME WordOK, StageOK, EntsOK, ReadInv, at = "read", NEW s, s = Flushed
    PROVE  /\ s \in Seq(EntityType)
           /\ \A k \in 1..Len(s) :
                 /\ Local(s[k]) /\ Counted(s[k]) /\ s[k].mentions = {s[k].first} /\ s[k].count = 1
                 /\ s[k].value = Trimmed(s[k].first, s[k].last) /\ Ends(s[k].first, s[k].last)
                 /\ s[k].type = word[s[k].first].label.type
                 /\ s[k].first <= read /\ s[k].last <= read
                 /\ \A l \in (k + 1)..Len(s) : s[k].first < s[l].first
           /\ {s[k].first : k \in 1..Len(s)} = {i \in SoFar : ~GoesOn(i)}
<1>1. /\ OpenOK /\ Begun = {i \in SoFar : ~GoesOn(i)} /\ ents \in Seq(EntityType)
      /\ open # {} => Ends(Min(open), Max(open))
      /\ \A k \in 1..Len(ents) :
            /\ Local(ents[k]) /\ Counted(ents[k])
            /\ ents[k].mentions = {ents[k].first} /\ ents[k].count = 1
            /\ ents[k].value = Trimmed(ents[k].first, ents[k].last)
            /\ ents[k].type = word[ents[k].first].label.type
            /\ open # {} /\ ents[k].first < Min(open) /\ ents[k].last < Min(open)
            /\ Ends(ents[k].first, ents[k].last)
            /\ \A l \in (k + 1)..Len(ents) : ents[k].first < ents[l].first
  BY DEF ReadInv, EntsOK
<1>2. CASE open = {}
  <2>1. s = ents /\ Len(ents) = 0
    <3>1. Len(ents) \in Nat /\ ~ (1 \in 1..Len(ents))
      BY <1>1, <1>2
    <3>2. QED
      BY <1>2, <3>1 DEF Flushed
  <2>2. Begun = {s[k].first : k \in 1..Len(s)}
    BY <1>2, <2>1 DEF Begun
  <2>3. QED
    BY <1>1, <2>1, <2>2
<1>3. CASE open # {}
  <2> DEFINE e == Entity(open)  n == Len(ents)
  <2>1. /\ e \in EntityType /\ Local(e) /\ Counted(e) /\ Min(open) \in open /\ Max(open) \in open
        /\ e.first = Min(open) /\ e.last = Max(open) /\ e.mentions = {e.first} /\ e.count = 1
        /\ e.value = Trimmed(e.first, e.last) /\ e.type = word[e.first].label.type
    BY <1>1, <1>3, EntityIs
  <2>2. s = Append(ents, e)
    BY <1>3 DEF Flushed
  <2> HIDE DEF e
  <2>3. n \in Nat /\ s \in Seq(EntityType) /\ Len(s) = n + 1 /\ s[n + 1] = e /\ \A k \in 1..n : s[k] = ents[k]
    BY <1>1, <2>1, <2>2
  <2> HIDE DEF n
  <2>4. e.first \in Nat /\ e.first <= read /\ e.last <= read
    BY <1>1, <2>1, SoFarIs DEF OpenOK
  <2>5. \A k \in 1..Len(s) : k = n + 1 \/ k \in 1..n
    BY <2>3
  <2>6. {s[k].first : k \in 1..Len(s)} = Begun
    <3>1. Begun = {ents[k].first : k \in 1..n} \cup {e.first}
      BY <1>3, <2>1 DEF Begun, n
    <3>2. \A k \in 1..n : k \in 1..Len(s)
      BY <2>3
    <3>3. n + 1 \in 1..Len(s)
      BY <2>3
    <3>4. QED
      BY <2>3, <2>5, <3>1, <3>2, <3>3
  <2>7. ASSUME NEW k \in 1..Len(s)
        PROVE  /\ Local(s[k]) /\ Counted(s[k]) /\ s[k].mentions = {s[k].first} /\ s[k].count = 1
               /\ s[k].value = Trimmed(s[k].first, s[k].last) /\ Ends(s[k].first, s[k].last)
               /\ s[k].type = word[s[k].first].label.type
    <3>1. CASE k = n + 1
      BY <1>1, <1>3, <2>1, <2>3, <3>1
    <3>2. CASE k \in 1..n
      BY <1>1, <2>3, <3>2 DEF n
    <3>3. QED
      BY <2>5, <3>1, <3>2
  <2>8. ASSUME NEW k \in 1..Len(s)
        PROVE  s[k].first <= read /\ s[k].last <= read
    <3>1. s[k].first \in SoFar
      BY <1>1, <2>6
    <3>2. s[k].first <= read
      BY <3>1, SoFarIs
    <3>3. CASE k = n + 1
      BY <2>1, <2>3, <2>4, <3>2, <3>3
    <3>4. CASE k \in 1..n
      <4>1. s[k].last < Min(open) /\ s[k] \in EntityType
        BY <1>1, <2>3, <3>4 DEF n
      <4>2. s[k].last \in Nat /\ Min(open) <= read /\ Min(open) \in Nat /\ read \in Nat
        BY <2>1, <2>4, <4>1, WordIs DEF EntityType, StageOK
      <4>3. QED
        BY <3>2, <4>1, <4>2
    <3>5. QED
      BY <2>5, <3>3, <3>4
  <2>9. ASSUME NEW k \in 1..Len(s), NEW l \in (k + 1)..Len(s)
        PROVE  s[k].first < s[l].first
    <3>1. k \in 1..n /\ s[k] = ents[k] /\ ents[k].first < e.first
      BY <1>1, <2>1, <2>3, <2>9 DEF n
    <3>2. CASE l = n + 1
      BY <2>3, <3>1, <3>2
    <3>3. CASE l \in (k + 1)..n
      BY <1>1, <2>3, <3>1, <3>3 DEF n
    <3>4. QED
      BY <2>3, <3>2, <3>3
  <2>10. QED
    BY <1>1, <2>3, <2>6, <2>7, <2>8, <2>9
<1>4. QED
  BY <1>2, <1>3

\* Nothing changes the document, nor what is said of its words alone.
LEMMA SameWords ==
    ASSUME word' = word, aligned' = aligned, mode' = mode
    PROVE  /\ Labelled' = Labelled /\ Mentions' = Mentions
           /\ \A i : Before(i)' = Before(i) /\ (GoesOn(i)' <=> GoesOn(i))
           /\ \A i, j : Kept(i, j)' = Kept(i, j) /\ Trimmed(i, j)' = Trimmed(i, j) /\ (Whole(i, j)' <=> Whole(i, j))
           /\ \A e : (Local(e)' <=> Local(e)) /\ (Counted(e)' <=> Counted(e))
<1>1. Labelled' = Labelled
  BY DEF Labelled
<1>2. \A i : Before(i)' = Before(i)
  BY <1>1 DEF Before
<1>3. \A i : GoesOn(i)' <=> GoesOn(i)
  BY <1>2 DEF GoesOn, Adjacent
<1>4. \A i, j : Kept(i, j)' = Kept(i, j) /\ Trimmed(i, j)' = Trimmed(i, j)
  <2>1. \A i, j : Kept(i, j)' = Kept(i, j)
    BY <1>1 DEF Kept, Spanned
  <2>2. QED
    BY <2>1 DEF Trimmed
<1>5. \A i, j : Whole(i, j)' <=> Whole(i, j)
  BY <1>1 DEF Whole
<1>6. \A e : Local(e)' <=> Local(e)
  BY <1>1, <1>5 DEF Local
<1>7. \A e : Counted(e)' <=> Counted(e)
  BY DEF Counted
<1>8. Mentions' = Mentions
  <2>1. \A i, j : (Spells(i, j)' <=> Spells(i, j)) /\ (WorthARow(i, j)' <=> WorthARow(i, j))
    BY <1>1, <1>2, <1>3, <1>4 DEF Spells, WorthARow
  <2>2. QED
    BY <1>1, <1>3, <2>1 DEF Mentions
<1>9. QED
  BY <1>1, <1>2, <1>3, <1>4, <1>5, <1>6, <1>7, <1>8

\* The word read goes on from the words at hand just if its label says so.
LEMMA GoesOnIs ==
    ASSUME WordOK, StageOK, OpenOK, NEW i \in Labelled, i = read + 1
    PROVE  /\ Before(i) = SoFar
           /\ Continues(i) <=> GoesOn(i)
           /\ Continues(i) => Whole(Min(open), i)
           /\ Continues(i) /\ aligned /\ word[Min(open)].page = Unknown => Min(open)..i \subseteq Labelled
           /\ Continues(i) => word[i].label.type = word[Min(open)].label.type
<1>1. /\ SoFar \in SUBSET (1..N) /\ SoFar \subseteq Labelled /\ N \in Nat
      /\ SoFar # {} => Max(SoFar) \in SoFar /\ \A j \in SoFar : j <= Max(SoFar)
  BY SoFarIs, WordIs
<1>2. Before(i) = SoFar
  <2>1. read \in Nat /\ \A j \in Labelled : j \in Nat
    BY LabelledAre, WordIs DEF StageOK
  <2>2. \A j \in Labelled : j < i <=> j <= read
    BY <2>1
  <2>3. QED
    BY <2>2 DEF Before, SoFar
<1>3. open = {} => ~ Continues(i) /\ ~ GoesOn(i)
  BY <1>2 DEF Continues, GoesOn, OpenOK
<1>4. ASSUME open # {}
      PROVE  /\ Continues(i) <=> GoesOn(i)
             /\ Continues(i) => Whole(Min(open), i)
             /\ Continues(i) /\ aligned /\ word[Min(open)].page = Unknown => Min(open)..i \subseteq Labelled
  <2> DEFINE a == Min(open)  b == Max(open)
  <2>1. /\ a \in open /\ b \in open /\ \A j \in open : a <= j /\ j <= b
    BY <1>4, EntityIs
  <2>2. /\ b = Max(SoFar) /\ SoFar # {} /\ Whole(a, b) /\ word[b].label.type = word[a].label.type
        /\ aligned /\ word[a].page = Unknown => a..b \subseteq Labelled
        /\ a \in Labelled /\ b \in Labelled /\ a <= b /\ a \in 1..N /\ b \in 1..N /\ b < i
    <3>1. open \subseteq SoFar /\ \A j \in SoFar : j < i
      BY SoFarIs, <1>1 DEF OpenOK, StageOK
    <3>2. QED
      BY <1>1, <1>4, <2>1, <3>1 DEF OpenOK
  <2>3. Continues(i) <=> GoesOn(i)
    BY <1>2, <1>4, <2>2 DEF Continues, GoesOn
  <2>4. Continues(i) => Adjacent(b, i)
    BY DEF Continues
  <2> HIDE DEF a, b
  <2>5. Adjacent(b, i) => Whole(a, i)
    BY <2>2, WordIs, WholeGrows
  <2>6. ASSUME Adjacent(b, i), aligned, word[a].page = Unknown PROVE a..i \subseteq Labelled
    <3>1. word[b].page = word[a].page
      BY <2>2, <2>6 DEF Whole
    <3>2. i = b + 1
      BY <2>6, <3>1 DEF Adjacent
    <3>3. \A j \in a..i : j \in a..b \/ j = i
      BY <2>2, <3>2
    <3>4. QED
      BY <2>2, <2>6, <3>3
  <2>7. QED
    BY <2>3, <2>4, <2>5, <2>6 DEF a, b
<1>5. Continues(i) => open # {} /\ word[i].label.type = word[Min(open)].label.type
  BY DEF Continues
<1>6. QED
  BY <1>2, <1>3, <1>4, <1>5

LEMMA ReadStep ==
    ASSUME WordOK, StageOK, EntsOK, ReadInv, Read
    PROVE  EntsOK' /\ ReadInv'
<1> DEFINE i == read + 1
<1>1. /\ at = "read" /\ at' = "read" /\ read \in Nat /\ read < N /\ read' = i /\ i \in 1..N /\ i \in Words
      /\ word' = word /\ aligned' = aligned /\ mode' = mode /\ N \in Nat
  BY WordIs DEF Read, StageOK
<1>2. OpenOK
  BY <1>1 DEF ReadInv
<1>3. CASE word[i].label = Outside
  <2>1. i \notin Labelled /\ open' = open /\ ents' = ents
    BY <1>1, <1>3 DEF Labelled, Read
  <2>2. SoFar' = SoFar
    <3>1. \A j \in Labelled : j <= i <=> j <= read
      BY <1>1, <2>1, LabelledAre, WordIs
    <3>2. Labelled' = Labelled
      BY <1>1, SameWords
    <3> HIDE DEF i
    <3>3. QED
      BY <1>1, <3>1, <3>2 DEF SoFar
  <2>3. EntsOK'
    BY <1>1, <2>1, SameWords DEF EntsOK
  <2>4. OpenOK'
    BY <1>1, <1>2, <2>1, <2>2, SameWords DEF OpenOK
  <2>5. Begun' = {j \in SoFar' : ~GoesOn(j)'}
    <3>1. Begun' = Begun
      BY <2>1 DEF Begun
    <3>2. QED
      BY <1>1, <2>2, <3>1, SameWords DEF ReadInv
  <2>6. \A f, l : Ends(f, l)' <=> Ends(f, l)
    BY <1>1, <2>2, SameWords DEF Ends
  <2>7. ReadInv'
    BY <1>1, <2>1, <2>2, <2>4, <2>5, <2>6, SameWords DEF ReadInv
  <2>8. QED
    BY <2>3, <2>7
<1>4. CASE word[i].label # Outside
  <2>1. /\ i \in Labelled
        /\ ents' = IF Continues(i) THEN ents ELSE Flushed
        /\ open' = IF Continues(i) THEN open \cup {i} ELSE {i}
    BY <1>1, <1>4 DEF Labelled, Read
  <2>2. SoFar' = SoFar \cup {i} /\ \A j \in SoFar : j \in Nat /\ j < i
    <3>1. \A j \in Labelled : j <= i <=> j <= read \/ j = i
      BY <1>1, <2>1, LabelledAre, WordIs
    <3>2. Labelled' = Labelled
      BY <1>1, SameWords
    <3>3. \A j \in SoFar : j \in Nat /\ j < i
      BY <1>1, SoFarIs
    <3> HIDE DEF i
    <3>4. QED
      BY <1>1, <2>1, <3>1, <3>2, <3>3 DEF SoFar
  <2>3. /\ Before(i) = SoFar
        /\ Continues(i) <=> GoesOn(i)
        /\ Continues(i) => Whole(Min(open), i)
        /\ Continues(i) /\ aligned /\ word[Min(open)].page = Unknown => Min(open)..i \subseteq Labelled
        /\ Continues(i) => word[i].label.type = word[Min(open)].label.type
    BY <1>2, <2>1, GoesOnIs
  <2>4. /\ SoFar \in SUBSET (1..N)
        /\ SoFar # {} => Max(SoFar) \in SoFar /\ \A j \in SoFar : j <= Max(SoFar)
    BY SoFarIs
  <2>5. Max(SoFar') = i
    <3>1. SoFar' \in SUBSET (1..N) /\ SoFar' # {} /\ i \in SoFar'
      BY <1>1, <2>2, <2>4
    <3>2. Max(SoFar') \in SoFar' /\ i <= Max(SoFar')
      BY <1>1, <3>1, MaxIs
    <3> HIDE DEF i
    <3>3. QED
      BY <1>1, <2>2, <3>2
  <2>6. \A f, l : Ends(f, l)' <=>
                      /\ Ends(f, l) /\ (f < i /\ i <= l => GoesOn(i))
                      /\ SoFar # {} /\ l = Max(SoFar) => ~GoesOn(i)
    <3>1. \A f, l : Ends(f, l)' <=>
                        /\ \A k \in SoFar \cup {i} : f < k /\ k <= l => GoesOn(k)
                        /\ \A k \in SoFar \cup {i} : l \in Before(k) /\ Max(Before(k)) = l => ~GoesOn(k)
      BY <1>1, <2>2, SameWords DEF Ends
    <3>2. \A l : (l \in Before(i) /\ Max(Before(i)) = l) <=> (SoFar # {} /\ l = Max(SoFar))
      BY <2>3, <2>4
    <3> HIDE DEF i
    <3>3. QED
      BY <3>1, <3>2 DEF Ends
  <2> HIDE DEF i
  <2>7. CASE Continues(i)
    <3>1. ents' = ents /\ open' = open \cup {i} /\ open # {} /\ SoFar # {} /\ GoesOn(i)
      BY <2>1, <2>3, <2>7 DEF Continues, OpenOK, GoesOn
    <3>2. /\ Min(open) \in open /\ Max(open) \in open /\ \A j \in open : Min(open) <= j /\ j <= Max(open)
          /\ open \subseteq SoFar /\ Max(open) = Max(SoFar)
      BY <1>2, <3>1, EntityIs DEF OpenOK
    <3>3. Min(open') = Min(open) /\ Max(open') = i
      <4>1. open' \in SUBSET (1..N) /\ open' # {} /\ i \in open' /\ Min(open) \in open'
        BY <1>1, <2>4, <3>1, <3>2
      <4>2. /\ Max(open') \in open' /\ i <= Max(open')
            /\ Min(open') \in open' /\ \A j \in open' : Min(open') <= j
        BY <1>1, <4>1, MaxIs, MinIs
      <4>3. \A j \in open : j \in Nat /\ j < i
        BY <2>2, <3>2
      <4>4. Min(open') \in open
        <5>1. Min(open') <= Min(open) /\ Min(open) \in Nat /\ Min(open) < i /\ i \in Nat
          BY <1>1, <3>2, <4>1, <4>2, <4>3
        <5>2. Min(open') # i
          BY <5>1
        <5>3. QED
          BY <3>1, <4>2, <5>2
      <4>5. Min(open') <= Min(open) /\ Min(open) <= Min(open')
        BY <3>2, <4>1, <4>2, <4>4
      <4>6. QED
        BY <1>1, <3>1, <3>2, <4>2, <4>3, <4>4, <4>5
    <3>4. EntsOK'
      BY <1>1, <3>1, SameWords DEF EntsOK
    <3>5. OpenOK'
      <4>1. open' \subseteq SoFar' /\ open' # {}
        BY <2>2, <3>1, <3>2
      <4>2. \A j \in open' : word[j].label.type = word[Min(open)].label.type
        BY <1>2, <2>3, <2>7, <3>1 DEF OpenOK
      <4>3. Whole(Min(open), i) /\ (aligned /\ word[Min(open)].page = Unknown => Min(open)..i \subseteq Labelled)
        BY <2>3, <2>7
      <4>4. QED
        BY <1>1, <2>5, <3>3, <4>1, <4>2, <4>3, SameWords DEF OpenOK
    <3>6. Begun' = {j \in SoFar' : ~GoesOn(j)'}
      <4>1. Begun' = Begun
        BY <3>1, <3>3 DEF Begun
      <4>2. Begun = {j \in SoFar \cup {i} : ~GoesOn(j)}
        BY <1>1, <3>1 DEF ReadInv
      <4>3. QED
        BY <1>1, <2>2, <4>1, <4>2, SameWords
    <3>7. Ends(Min(open), Max(open)) /\ Min(open) \in Nat /\ Max(open) \in Nat /\ Max(open) < i
      BY <1>1, <2>2, <3>1, <3>2 DEF ReadInv
    <3>8. /\ Ends(Min(open), Max(open))'
          /\ \A k \in 1..Len(ents') : /\ ents'[k].first < Min(open) /\ ents'[k].last < Min(open)
                                      /\ Ends(ents[k].first, ents[k].last)'
      <4>1. Ends(Min(open), i)
        <5>1. \A k \in SoFar : k \in Nat /\ k <= Max(open) /\ k < i
          BY <2>2, <2>4, <3>1, <3>2
        <5>2. \A k \in SoFar : Min(open) < k /\ k <= i => GoesOn(k)
          BY <3>7, <5>1 DEF Ends
        <5>3. \A k \in SoFar : i \notin Before(k)
          BY <1>1, <5>1 DEF Before
        <5>4. QED
          BY <5>2, <5>3 DEF Ends
      <4>2. i # Max(SoFar)
        BY <1>1, <3>2, <3>7
      <4>3. Ends(Min(open), Max(open))'
        <5>1. \A f, l : f = Min(open) /\ l = i => Ends(f, l)'
          BY <2>6, <3>1, <4>1, <4>2
        <5>2. QED
          BY <3>3, <5>1
      <4>4. ASSUME NEW k \in 1..Len(ents)
            PROVE  /\ ents[k].first < Min(open) /\ ents[k].last < Min(open) /\ ents[k].last < i
                   /\ ents[k].last # Max(SoFar) /\ Ends(ents[k].first, ents[k].last)
                   /\ ents[k].last \in Int
        <5>1. ents[k].first < Min(open) /\ ents[k].last < Min(open) /\ Ends(ents[k].first, ents[k].last)
          BY <1>1 DEF ReadInv
        <5>2. ents[k] \in EntityType
          BY DEF EntsOK
        <5>3. ents[k].last \in 1..N
          BY <5>2, WordIs DEF EntityType
        <5>4. QED
          BY <1>1, <3>2, <3>7, <5>1, <5>3
      <4>5. \A k \in 1..Len(ents) : \A f, l : f = ents[k].first /\ l = ents[k].last => Ends(f, l)'
        BY <1>1, <2>6, <4>4
      <4>6. \A k \in 1..Len(ents) : Ends(ents[k].first, ents[k].last)'
        BY <3>1, <4>5
      <4>7. QED
        BY <3>1, <4>3, <4>4, <4>6
    <3>9. \A k \in 1..Len(ents') :
             /\ ents'[k].mentions = {ents'[k].first} /\ ents'[k].count = 1
             /\ ents'[k].value = Trimmed(ents'[k].first, ents'[k].last)
             /\ ents'[k].type = word[ents'[k].first].label.type
             /\ \A l \in (k + 1)..Len(ents') : ents'[k].first < ents'[l].first
      BY <1>1, <3>1 DEF ReadInv
    <3>10. ReadInv'
      <4>1. open' # {} /\ Max(SoFar') = i /\ Min(open') = Min(open)
        BY <2>5, <3>1, <3>3
      <4>2. \A f, l : Trimmed(f, l)' = Trimmed(f, l)
        BY <1>1, SameWords
      <4>3. QED
        BY <1>1, <3>3, <3>5, <3>6, <3>8, <3>9, <4>1, <4>2 DEF ReadInv
    <3>11. QED
      BY <3>4, <3>10
  <2>8. CASE ~ Continues(i)
    <3>1. open' = {i} /\ ents' = Flushed /\ ~ GoesOn(i)
      BY <2>1, <2>3, <2>8
    <3> DEFINE s == Flushed
    <3>2. /\ s \in Seq(EntityType)
          /\ \A k \in 1..Len(s) :
                /\ Local(s[k]) /\ Counted(s[k]) /\ s[k].mentions = {s[k].first} /\ s[k].count = 1
                /\ s[k].value = Trimmed(s[k].first, s[k].last) /\ Ends(s[k].first, s[k].last)
                /\ s[k].type = word[s[k].first].label.type
                /\ s[k].first <= read /\ s[k].last <= read
                /\ \A l \in (k + 1)..Len(s) : s[k].first < s[l].first
          /\ {s[k].first : k \in 1..Len(s)} = {j \in SoFar : ~GoesOn(j)}
      BY <1>1, FlushedIs
    <3> HIDE DEF s
    <3>3. ents' = s
      BY <3>1 DEF s
    <3>4. Min(open') = i /\ Max(open') = i /\ open' # {}
      <4>1. {i} \in SUBSET (1..N)
        BY <1>1
      <4>2. QED
        BY <1>1, <3>1, <4>1, MinIs, MaxIs
    <3>5. EntsOK'
      BY <1>1, <3>2, <3>3, SameWords DEF EntsOK
    <3>6. OpenOK'
      <4>1. open' \subseteq SoFar'
        BY <2>2, <3>1
      <4>2. Whole(i, i) /\ i..i \subseteq Labelled
        BY <1>1, <2>1, WholeOne
      <4>3. QED
        BY <1>1, <2>5, <3>1, <3>4, <4>1, <4>2, SameWords DEF OpenOK
    <3>7. Begun' = {j \in SoFar' : ~GoesOn(j)'}
      <4>1. Begun' = {s[k].first : k \in 1..Len(s)} \cup {i}
        BY <3>3, <3>4 DEF Begun
      <4>2. {j \in SoFar \cup {i} : ~GoesOn(j)} = {j \in SoFar : ~GoesOn(j)} \cup {i}
        BY <3>1
      <4>3. QED
        BY <1>1, <2>2, <3>2, <4>1, <4>2, SameWords
    <3>8. \A f, l : Ends(f, l) /\ ~ (i <= l) => Ends(f, l)'
      BY <2>6, <3>1
    <3>9. Ends(Min(open), Max(open))'
      <4>1. \A k \in SoFar : ~ (i < k) /\ i \notin Before(k)
        BY <1>1, <2>2 DEF Before
      <4>2. Ends(i, i) /\ ~ (i < i)
        BY <1>1, <4>1 DEF Ends
      <4>3. \A f, l : f = i /\ l = i => Ends(f, l)'
        BY <2>6, <3>1, <4>2
      <4>4. QED
        BY <3>4, <4>3
    <3>10. \A k \in 1..Len(s) : s[k].first < i /\ s[k].last < i
      <4>1. TAKE k \in 1..Len(s)
      <4>2. s[k] \in EntityType
        BY <3>2
      <4>3. s[k].first \in Words /\ s[k].last \in Words
        BY <4>2 DEF EntityType
      <4>4. s[k].first \in Nat /\ s[k].last \in Nat
        BY <4>3, WordIs
      <4>5. s[k].first <= read /\ s[k].last <= read
        BY <3>2
      <4>6. QED
        BY <1>1, <4>4, <4>5 DEF i
    <3>11. \A k \in 1..Len(ents') : Ends(ents[k].first, ents[k].last)'
      <4>1. \A k \in 1..Len(s) : \A f, l : f = s[k].first /\ l = s[k].last => Ends(f, l)'
        <5>1. \A k \in 1..Len(s) : ~ (i <= s[k].last)
          <6>1. TAKE k \in 1..Len(s)
          <6>2. s[k] \in EntityType
            BY <3>2
          <6>3. s[k].last \in Words
            BY <6>2 DEF EntityType
          <6>4. s[k].last \in Nat /\ s[k].last < i
            BY <3>10, <6>3, WordIs
          <6>5. QED
            BY <1>1, <6>4
        <5>2. QED
          BY <3>2, <3>8, <5>1
      <4>2. QED
        BY <3>3, <4>1
    <3>12. \A f, l : Trimmed(f, l)' = Trimmed(f, l)
      BY <1>1, SameWords
    <3>13. ReadInv'
      BY <1>1, <2>5, <3>2, <3>3, <3>4, <3>6, <3>7, <3>9, <3>10, <3>11, <3>12 DEF ReadInv
    <3>14. QED
      BY <3>5, <3>13
  <2>9. QED
    BY <2>7, <2>8
<1>5. QED
  BY <1>3, <1>4

-----------------------------------------------------------------------------
(* What is made of the entities.                                           *)

\* An entity of the place of another is of one place too.
LEMMA LocalLike ==
    ASSUME NEW e, NEW f, Local(f), e.first = f.first, e.last = f.last, e.page = f.page
    PROVE  Local(e)
BY DEF Local

\* To collapse what is picked from the entities loses no mention of theirs.
LEMMA CollapsedPicked ==
    ASSUME WordOK, NEW s \in Seq(EntityType), NEW places \in SUBSET (1..Len(s)),
           \A k \in places : Local(s[k]) /\ Counted(s[k]),
           Apart(s, places),
           mode = "bert" => \A k \in places : s[k].count = 1,
           NEW c, c = Collapsed(Picked(s, places))
    PROVE  /\ c \in Seq(EntityType)
           /\ \A m \in 1..Len(c) : Local(c[m]) /\ Counted(c[m])
           /\ Apart(c, 1..Len(c))
           /\ MentionsOf(s, places) \subseteq MentionsOf(c, 1..Len(c))
           /\ \A l, m \in 1..Len(c) : Fact(c[l]) = Fact(c[m]) => l = m
<1> DEFINE p == Picked(s, places)  At(m) == Nth(places, m)
<1>1. /\ p \in Seq(EntityType)
      /\ \A m \in 1..Len(p) : Nth(places, m) \in places /\ p[m] = s[Nth(places, m)]
      /\ \A l, m \in 1..Len(p) : Nth(places, l) = Nth(places, m) => l = m
      /\ \A k \in places : \E m \in 1..Len(p) : Nth(places, m) = k
  BY PickedIs
<1>2. c = Collapsed(p)
  OBVIOUS
<1> HIDE DEF p
<1>3. Apart(p, 1..Len(p))
  <2>1. \A l, m \in 1..Len(p) : l # m => s[Nth(places, l)].mentions \cap s[Nth(places, m)].mentions = {}
    BY <1>1 DEF Apart
  <2>2. \A l, m \in 1..Len(p) : p[l].mentions = s[Nth(places, l)].mentions
    BY <1>1
  <2>3. QED
    BY <2>1, <2>2 DEF Apart
<1>4. \A m \in 1..Len(p) : Local(p[m]) /\ Counted(p[m])
  BY <1>1
<1>5. mode = "bert" => \A m \in 1..Len(p) : p[m].count = 1
  <2>1. SUFFICES ASSUME mode = "bert", NEW m \in 1..Len(p) PROVE p[m].count = 1
    OBVIOUS
  <2>2. Nth(places, m) \in places /\ p[m] = s[Nth(places, m)]
    BY <1>1
  <2>3. \A k \in places : s[k].count = 1
    BY <2>1
  <2>4. QED
    BY <2>2, <2>3
<1>6. /\ c \in Seq(EntityType)
      /\ \A m \in 1..Len(c) : /\ Counted(c[m])
                              /\ \E k \in 1..Len(p) : c[m].first = p[k].first /\ c[m].last = p[k].last
                                                      /\ c[m].page = p[k].page
      /\ Apart(c, 1..Len(c))
      /\ MentionsOf(p, 1..Len(p)) \subseteq MentionsOf(c, 1..Len(c))
      /\ \A l, m \in 1..Len(c) : Fact(c[l]) = Fact(c[m]) => l = m
  BY <1>1, <1>2, <1>3, <1>4, <1>5, CollapsedIs
<1>7. \A m \in 1..Len(c) : Local(c[m])
  <2>1. TAKE m \in 1..Len(c)
  <2>2. PICK k \in 1..Len(p) : c[m].first = p[k].first /\ c[m].last = p[k].last /\ c[m].page = p[k].page
    BY <1>6
  <2>3. QED
    BY <1>4, <2>2, LocalLike
<1>8. MentionsOf(s, places) \subseteq MentionsOf(p, 1..Len(p))
  <2>1. SUFFICES ASSUME NEW k \in places, NEW i \in s[k].mentions
                 PROVE  \E m \in 1..Len(p) : i \in p[m].mentions
    BY DEF MentionsOf
  <2>2. PICK m \in 1..Len(p) : Nth(places, m) = k
    BY <1>1
  <2>3. QED
    BY <1>1, <2>2
<1>9. QED
  BY <1>6, <1>7, <1>8

LEMMA SettleStep ==
    ASSUME PipeInv, Settle
    PROVE  PipeInv'
<1> DEFINE s == Flushed
           places == {k \in 1..Len(s) : Valid(s[k])}
<1>1. /\ at = "read" /\ read = N /\ ents' = Collapsed(Picked(s, places)) /\ open' = {}
      /\ at' = (IF mode = "bert" THEN "stored" ELSE "ask")
      /\ UNCHANGED <<word, aligned, mode, read, near, todo, dropped, absorbed, lost>>
  BY DEF Settle
<1>2. WordOK /\ StageOK /\ EntsOK /\ ReadInv
  BY DEF PipeInv
<1>3. /\ s \in Seq(EntityType)
      /\ \A k \in 1..Len(s) :
            /\ Local(s[k]) /\ Counted(s[k]) /\ s[k].mentions = {s[k].first} /\ s[k].count = 1
            /\ s[k].value = Trimmed(s[k].first, s[k].last) /\ Ends(s[k].first, s[k].last)
            /\ s[k].type = word[s[k].first].label.type
            /\ s[k].first <= read /\ s[k].last <= read
            /\ \A l \in (k + 1)..Len(s) : s[k].first < s[l].first
      /\ {s[k].first : k \in 1..Len(s)} = {i \in SoFar : ~GoesOn(i)}
  BY <1>1, <1>2, FlushedIs
<1> HIDE DEF s
<1>4. \A k, l \in 1..Len(s) : s[k].first = s[l].first => k = l
  <2>1. TAKE k, l \in 1..Len(s)
  <2>2. k \in Int /\ l \in Int /\ Len(s) \in Int
    BY <1>3
  <2>3. s[k] \in EntityType /\ s[l] \in EntityType
    BY <1>3
  <2>4. s[k].first \in Int /\ s[l].first \in Int
    BY <1>2, <2>3, WordIs DEF EntityType
  <2>5. k < l => s[k].first < s[l].first
    BY <1>3, <2>2
  <2>6. l < k => s[l].first < s[k].first
    BY <1>3, <2>2
  <2>7. QED
    BY <2>2, <2>4, <2>5, <2>6
<1>5. Apart(s, places)
  BY <1>3, <1>4 DEF Apart
<1> DEFINE c == Collapsed(Picked(s, places))
<1>6. /\ c \in Seq(EntityType)
      /\ \A m \in 1..Len(c) : Local(c[m]) /\ Counted(c[m])
      /\ Apart(c, 1..Len(c))
      /\ MentionsOf(s, places) \subseteq MentionsOf(c, 1..Len(c))
      /\ \A l, m \in 1..Len(c) : Fact(c[l]) = Fact(c[m]) => l = m
  <2>1. places \in SUBSET (1..Len(s))
    OBVIOUS
  <2>2. \A k \in places : Local(s[k]) /\ Counted(s[k]) /\ s[k].count = 1
    BY <1>3
  <2> HIDE DEF places
  <2>3. QED
    BY <1>2, <1>3, <1>5, <2>1, <2>2, CollapsedPicked
<1>7. ents' = c
  BY <1>1
<1> HIDE DEF c
<1>8. Mentions \subseteq MentionsOf(s, places)
  <2>1. SUFFICES ASSUME NEW i \in Mentions PROVE \E k \in places : i \in s[k].mentions
    BY DEF MentionsOf
  <2>2. i \in Labelled /\ ~GoesOn(i)
    BY DEF Mentions
  <2>3. PICK j \in Labelled : i <= j /\ Spells(i, j) /\ WorthARow(i, j)
    BY DEF Mentions
  <2>4. SoFar = Labelled
    BY <1>1, <1>2, LabelledAre, WordIs DEF SoFar
  <2>5. PICK k \in 1..Len(s) : s[k].first = i
    BY <1>3, <2>2, <2>4
  <2>6. /\ s[k].last \in Labelled /\ i <= s[k].last /\ Spells(i, s[k].last)
        /\ s[k].value = Trimmed(i, s[k].last) /\ s[k].type = word[i].label.type
    BY <1>3, <2>4, <2>5 DEF Local, Ends, Spells
  <2>7. s[k].last = j
    BY <1>2, <2>2, <2>3, <2>6, SpellsOne
  <2>8. Valid(s[k])
    BY <1>2, <2>2, <2>3, <2>5, <2>6, <2>7, LabelledAre, WorthIsValid
  <2>9. QED
    BY <1>3, <2>5, <2>8
<1>9. WordOK' /\ StageOK'
  BY <1>1, <1>2 DEF WordOK, StageOK, Words
<1>10. EntsOK'
  BY <1>1, <1>6, <1>7, SameWords DEF EntsOK
<1>11. ReadInv' /\ DecideInv'
  BY <1>1 DEF ReadInv, DecideInv
<1>12. LeftInv'
  <2>1. Left' = 1..Len(c)
    BY <1>1, <1>2, <1>7 DEF Left, StageOK
  <2>2. Mentions' = Mentions
    BY <1>1, SameWords
  <2>3. \A i \in Mentions : \E k \in 1..Len(c) : i \in c[k].mentions
    BY <1>6, <1>8 DEF MentionsOf
  <2>4. QED
    BY <1>6, <1>7, <2>1, <2>2, <2>3 DEF LeftInv, Apart
<1>13. OneRowPerFact'
  <2>1. at' = "stored" => mode' = "bert"
    BY <1>1
  <2>2. ASSUME mode = "bert" PROVE \A m \in 1..Len(c) : c[m].count = Cardinality(c[m].mentions)
    BY <1>6, <2>2 DEF Counted
  <2>3. \A l, m \in 1..Len(c) : c[l].type = c[m].type /\ c[l].value = c[m].value => l = m
    BY <1>6 DEF Fact
  <2>4. QED
    BY <1>1, <1>7, <2>1, <2>2, <2>3 DEF OneRowPerFact, Fact
<1>14. QED
  BY <1>9, <1>10, <1>11, <1>12, <1>13 DEF PipeInv

\* Whether two entities may be merged is asked of entities that are near.
LEMMA AskStep ==
    ASSUME PipeInv, Ask
    PROVE  PipeInv'
<1>1. /\ at = "ask" /\ at' = "apply" /\ near' = Neighbours(ents) /\ todo' \subseteq 1..Len(ents)
      /\ UNCHANGED <<word, aligned, mode, read, open, ents, dropped, absorbed, lost>>
  BY DEF Ask
<1>2. WordOK /\ StageOK /\ EntsOK /\ LeftInv
  BY DEF PipeInv
<1>3. WordOK' /\ StageOK' /\ EntsOK'
  BY <1>1, <1>2, SameWords DEF WordOK, StageOK, EntsOK, Words
<1>4. LeftInv'
  <2>1. Left' = Left /\ Mentions' = Mentions
    BY <1>1, SameWords DEF Left
  <2>2. QED
    BY <1>1, <1>2, <2>1 DEF LeftInv
<1>5. DecideInv'
  <2>1. dropped' = {}
    BY <1>1, <1>2 DEF StageOK
  <2>2. near' \subseteq (1..Len(ents)) \X (1..Len(ents))
    BY <1>1 DEF Neighbours
  <2>3. ASSUME NEW p \in near'
        PROVE  p[1] # p[2] /\ Close(ents[p[1]], ents[p[2]])
    <3> DEFINE e == ents[p[1]]  f == ents[p[2]]
    <3>1. p[1] \in 1..Len(ents) /\ p[2] \in 1..Len(ents) /\ p[1] # p[2] /\ Mergeable(e, f)
      BY <1>1 DEF Neighbours
    <3>2. Local(e) /\ Local(f)
      BY <1>2, <3>1 DEF EntsOK
    <3>3. /\ e.first \in 1..N /\ e.last \in 1..N /\ e.first <= e.last
          /\ f.first \in 1..N /\ f.last \in 1..N /\ f.first <= f.last /\ N \in Nat /\ MaxGap \in Nat
      BY <1>2, <3>2, LabelledAre, WordIs DEF Local
    <3>4. aligned /\ e.page = f.page
      BY <3>1 DEF Mergeable
    <3> HIDE DEF e, f
    <3>5. CASE e.last <= f.first
      <4>1. f.first - e.last <= MaxGap + 1 /\ e.last - f.first <= MaxGap + 1
        BY <3>1, <3>3, <3>5 DEF Mergeable
      <4>2. e.last \in e.first..e.last /\ f.first \in f.first..f.last
        BY <3>3
      <4>3. QED
        BY <3>1, <3>4, <4>1, <4>2 DEF e, f, Close
    <3>6. CASE ~ (e.last <= f.first)
      <4>1. e.first - f.last <= MaxGap + 1 /\ f.last - e.first <= MaxGap + 1
        BY <3>1, <3>3, <3>6 DEF Mergeable
      <4>2. e.first \in e.first..e.last /\ f.last \in f.first..f.last
        BY <3>3
      <4>3. QED
        BY <3>1, <3>4, <4>1, <4>2 DEF e, f, Close
    <3>7. QED
      BY <3>5, <3>6
  <2>4. QED
    BY <1>1, <2>1, <2>2, <2>3 DEF DecideInv, Close
<1>6. ReadInv' /\ OneRowPerFact'
  BY <1>1 DEF ReadInv, OneRowPerFact
<1>7. QED
  BY <1>3, <1>4, <1>5, <1>6 DEF PipeInv

LEMMA DegradeStep ==
    ASSUME PipeInv, Degrade
    PROVE  PipeInv'
<1>1. /\ at = "ask" /\ at' = "again"
      /\ UNCHANGED <<word, aligned, mode, read, open, ents, near, todo, dropped, absorbed, lost>>
  BY DEF Degrade
<1>2. WordOK' /\ StageOK' /\ EntsOK'
  BY <1>1, SameWords DEF PipeInv, WordOK, StageOK, EntsOK, Words
<1>3. LeftInv'
  <2>1. Left' = Left /\ Mentions' = Mentions
    BY <1>1, SameWords DEF Left
  <2>2. QED
    BY <1>1, <2>1 DEF LeftInv, PipeInv
<1>4. ReadInv' /\ DecideInv' /\ OneRowPerFact'
  BY <1>1 DEF ReadInv, DecideInv, OneRowPerFact
<1>5. QED
  BY <1>2, <1>3, <1>4 DEF PipeInv

\* A decision leaves the document and what was asked about it alone.
LEMMA DecisionFrame ==
    ASSUME PipeInv, at = "apply", UNCHANGED <<word, aligned, mode, at, read, open, near>>,
           lost' \in SUBSET Words
    PROVE  WordOK' /\ StageOK' /\ ReadInv' /\ OneRowPerFact' /\ Mentions' = Mentions
<1>1. WordOK' /\ StageOK'
  BY DEF PipeInv, WordOK, StageOK, Words
<1>2. ReadInv' /\ OneRowPerFact'
  BY DEF ReadInv, OneRowPerFact
<1>3. QED
  BY <1>1, <1>2, SameWords

\* What holds of the entities while decisions are applied.
LEMMA AtApply ==
    ASSUME PipeInv, at = "apply"
    PROVE  /\ WordOK /\ ents \in Seq(EntityType) /\ Len(ents) \in Nat /\ lost \in SUBSET Words
           /\ \A k \in 1..Len(ents) : /\ Local(ents[k]) /\ Counted(ents[k]) /\ ents[k] \in EntityType
                                      /\ ents[k].mentions \in SUBSET Words
           /\ Left = (1..Len(ents)) \ (dropped \cup absorbed)
           /\ \A k, l \in Left : k # l => ents[k].mentions \cap ents[l].mentions = {}
           /\ \A i \in Mentions : i \in lost \/ \E k \in Left : i \in ents[k].mentions
           /\ todo \subseteq (1..Len(ents)) \ dropped
           /\ near \subseteq (1..Len(ents)) \X (1..Len(ents))
           /\ mode # "bert"
<1>1. WordOK /\ ents \in Seq(EntityType) /\ \A k \in 1..Len(ents) : Local(ents[k]) /\ Counted(ents[k])
  BY DEF PipeInv, EntsOK
<1>2. Len(ents) \in Nat /\ \A k \in 1..Len(ents) : ents[k] \in EntityType
  BY <1>1
<1>3. \A k \in 1..Len(ents) : ents[k].mentions \in SUBSET Words
  BY <1>2 DEF EntityType
<1>4. QED
  BY <1>1, <1>2, <1>3 DEF PipeInv, StageOK, Left, LeftInv, DecideInv

LEMMA KeepStep ==
    ASSUME PipeInv, at = "apply", UNCHANGED <<word, aligned, mode, at, read, open, near>>, NEW c \in todo, Keep(c)
    PROVE  PipeInv'
<1>1. todo' = todo \ {c} /\ UNCHANGED <<ents, dropped, absorbed, lost>>
  BY DEF Keep
<1>2. WordOK' /\ StageOK' /\ ReadInv' /\ OneRowPerFact' /\ Mentions' = Mentions
  BY <1>1, AtApply, DecisionFrame
<1>3. EntsOK'
  BY <1>1, SameWords DEF PipeInv, EntsOK
<1>4. LeftInv'
  <2>1. Left' = Left
    BY <1>1 DEF Left
  <2>2. QED
    BY <1>1, <1>2, <2>1 DEF PipeInv, LeftInv
<1>5. DecideInv'
  BY <1>1 DEF PipeInv, DecideInv, Close
<1>6. QED
  BY <1>2, <1>3, <1>4, <1>5 DEF PipeInv

LEMMA RejectStep ==
    ASSUME PipeInv, at = "apply", UNCHANGED <<word, aligned, mode, at, read, open, near>>, NEW c \in todo, Reject(c)
    PROVE  PipeInv'
<1>1. /\ dropped' = dropped \cup {c} /\ todo' = todo \ {c} /\ lost' = lost \cup ents[c].mentions
      /\ UNCHANGED <<ents, absorbed>>
  BY DEF Reject
<1>2. c \in 1..Len(ents) /\ lost' \in SUBSET Words
  BY <1>1, AtApply
<1>3. WordOK' /\ StageOK' /\ ReadInv' /\ OneRowPerFact' /\ Mentions' = Mentions
  BY <1>2, DecisionFrame
<1>4. EntsOK'
  BY <1>1, SameWords DEF PipeInv, EntsOK
<1>5. LeftInv'
  <2>1. Left' = Left \ {c}
    BY <1>1, AtApply DEF Left
  <2>2. \A k, l \in Left' : k # l => ents[k].mentions \cap ents[l].mentions = {}
    BY <2>1, AtApply
  <2>3. \A i \in Mentions : i \in lost' \/ \E k \in Left' : i \in ents[k].mentions
    BY <1>1, <2>1, AtApply
  <2>4. QED
    BY <1>1, <1>3, <2>2, <2>3 DEF LeftInv
<1>6. DecideInv'
  BY <1>1 DEF PipeInv, DecideInv, Close
<1>7. QED
  BY <1>3, <1>4, <1>5, <1>6 DEF PipeInv

LEMMA ModifyStep ==
    ASSUME PipeInv, at = "apply", UNCHANGED <<word, aligned, mode, at, read, open, near>>, NEW c \in todo, Modify(c)
    PROVE  PipeInv'
<1>1. /\ todo' = todo \ {c} /\ UNCHANGED <<dropped, absorbed, lost>>
      /\ c \in 1..Len(ents) /\ ents \in Seq(EntityType) /\ ents[c] \in EntityType
  BY AtApply DEF Modify
<1>2. PICK v \in Seq(Texts \cup {Punct}), t \in Types : ents' = [ents EXCEPT ![c] = [ents[c] EXCEPT !.value = v, !.type = t]]
  <2>1. CASE \E r \in Evidence(ents[c]), t \in Types :
                ents' = [ents EXCEPT ![c].value = Trimmed(r[1], r[2]), ![c].type = t]
    <3>1. PICK r \in Evidence(ents[c]), t \in Types :
                ents' = [ents EXCEPT ![c].value = Trimmed(r[1], r[2]), ![c].type = t]
      BY <2>1
    <3>2. Trimmed(r[1], r[2]) \in Seq(Texts \cup {Punct})
      BY AtApply, TrimmedIs DEF Evidence
    <3>3. ents' = [ents EXCEPT ![c] = [ents[c] EXCEPT !.value = Trimmed(r[1], r[2]), !.type = t]]
      BY <1>1, <3>1
    <3>4. QED
      BY <3>2, <3>3
  <2>2. CASE \E t \in Types : ents' = [ents EXCEPT ![c].type = t]
    <3>1. PICK t \in Types : ents' = [ents EXCEPT ![c].type = t]
      BY <2>2
    <3>2. ents[c].value \in Seq(Texts \cup {Punct})
      BY <1>1 DEF EntityType
    <3>3. [ents[c] EXCEPT !.type = t] = [ents[c] EXCEPT !.value = ents[c].value, !.type = t]
      BY <1>1 DEF EntityType
    <3>4. ents' = [ents EXCEPT ![c] = [ents[c] EXCEPT !.value = ents[c].value, !.type = t]]
      BY <1>1, <3>1, <3>3
    <3>5. QED
      BY <3>2, <3>4
  <2>3. QED
    BY <2>1, <2>2 DEF Modify
<1> DEFINE e == [ents[c] EXCEPT !.value = v, !.type = t]
<1>3. /\ e \in EntityType /\ e.first = ents[c].first /\ e.last = ents[c].last /\ e.page = ents[c].page
      /\ e.count = ents[c].count /\ e.mentions = ents[c].mentions
  BY <1>1 DEF EntityType
<1>4. ents' = [ents EXCEPT ![c] = e]
  BY <1>2
<1> HIDE DEF e
<1>5. /\ ents' \in Seq(EntityType) /\ Len(ents') = Len(ents)
      /\ \A k \in 1..Len(ents) : /\ ents'[k].first = ents[k].first /\ ents'[k].last = ents[k].last
                                 /\ ents'[k].page = ents[k].page /\ ents'[k].count = ents[k].count
                                 /\ ents'[k].mentions = ents[k].mentions
  BY <1>1, <1>3, <1>4
<1>6. WordOK' /\ StageOK' /\ ReadInv' /\ OneRowPerFact' /\ Mentions' = Mentions
  BY <1>1, AtApply, DecisionFrame
<1>7. EntsOK'
  <2>1. \A k \in 1..Len(ents') : Local(ents'[k]) /\ Counted(ents'[k])
    BY <1>5, AtApply DEF Local, Counted
  <2>2. QED
    BY <1>5, <2>1, SameWords DEF EntsOK
<1>8. LeftInv'
  <2>1. Left' = Left /\ \A k \in Left : k \in 1..Len(ents)
    BY <1>1, <1>5, AtApply DEF Left
  <2>2. QED
    BY <1>1, <1>5, <1>6, <2>1, AtApply DEF LeftInv
<1>9. DecideInv'
  <2>1. \A p \in near : p[1] \in 1..Len(ents) /\ p[2] \in 1..Len(ents)
    BY AtApply
  <2>2. QED
    BY <1>1, <1>5, <2>1 DEF PipeInv, DecideInv, Close
<1>10. QED
  BY <1>6, <1>7, <1>8, <1>9 DEF PipeInv

\* Entities near one of them, and the place from the first of their words to the last.
Gathered(s, K, c) ==
    c \in K /\ \A k \in K : Local(s[k]) /\ Counted(s[k]) /\ (k # c => Close(s[c], s[k]))
Spans(s, K, first, last) ==
    /\ \E k \in K : first = s[k].first
    /\ \A k \in K : first <= s[k].first
    /\ \E k \in K : last = s[k].last
    /\ \A k \in K : s[k].last <= last

\* Entities that are each near one of them are one place together.
LEMMA MergedIsWhole ==
    ASSUME WordOK, aligned, NEW K, NEW s, NEW c, NEW first, NEW last,
           Gathered(s, K, c), Spans(s, K, first, last)
    PROVE  /\ first \in Labelled /\ last \in Labelled /\ first <= last
           /\ Whole(first, last) /\ s[c].page = word[first].page
<1> USE DEF Gathered, Spans
<1>1. PICK f \in K : first = s[f].first
  OBVIOUS
<1>2. PICK l \in K : last = s[l].last
  OBVIOUS
<1>3. \A k \in K : /\ s[k].first \in Labelled /\ s[k].last \in Labelled /\ s[k].first <= s[k].last
                   /\ Whole(s[k].first, s[k].last) /\ s[k].page = word[s[k].first].page
                   /\ s[k].page = s[c].page
  BY DEF Local, Close
<1>4. N \in Nat /\ MaxGap \in Nat /\ Labelled \subseteq 1..N /\ Words = 1..N
  BY LabelledAre, WordIs
<1>5. \A k \in K : /\ s[k].first \in Nat /\ s[k].last \in Nat /\ s[k].first \in Words /\ s[k].last \in Words
                   /\ first <= s[k].first /\ s[k].last <= last
  <2>1. TAKE k \in K
  <2>2. s[k].first \in 1..N /\ s[k].last \in 1..N
    BY <1>3, <1>4
  <2>3. first <= s[k].first /\ s[k].last <= last
    OBVIOUS
  <2>4. QED
    BY <1>4, <2>2, <2>3
<1>6. first \in Labelled /\ last \in Labelled /\ first \in Nat /\ last \in Nat /\ first <= last
  <2>1. first <= s[f].last /\ s[f].last <= last
    BY <1>1, <1>3, <1>5
  <2>2. QED
    BY <1>1, <1>2, <1>3, <1>5, <2>1
<1>7. word[first].page = s[c].page /\ word[last].page = s[c].page
  <2>1. word[s[l].last].page = word[s[l].first].page
    BY <1>3, <1>5 DEF Whole
  <2>2. QED
    BY <1>1, <1>2, <1>3, <2>1
<1>8. \A i \in first..last : word[i].page = word[first].page
  BY <1>4, <1>6, <1>7, OnePage
<1>9. ASSUME NEW i \in first..last, i + MaxGap <= last, i..(i + MaxGap) \cap Labelled = {}
      PROVE  FALSE
  <2>1. i \in Nat
    BY <1>6
  <2>2. ASSUME NEW k \in K
        PROVE  s[k].last < i \/ i + MaxGap < s[k].first
    <3>1. s[k].first \notin i..(i + MaxGap) /\ s[k].last \notin i..(i + MaxGap)
      BY <1>3, <1>9
    <3>2. ~ (i \in s[k].first..s[k].last /\ i + MaxGap <= s[k].last)
      BY <1>3, <1>9 DEF Whole
    <3>3. s[k].first \in Nat /\ s[k].last \in Nat /\ s[k].first <= s[k].last
      BY <1>3, <1>5
    <3>4. QED
      BY <1>4, <2>1, <3>1, <3>2, <3>3
  <2>3. s[f].last < i
    <3>1. ~ (i + MaxGap < s[f].first)
      BY <1>1, <1>4, <1>6, <2>1
    <3>2. QED
      BY <2>2, <3>1
  <2>4. i + MaxGap < s[l].first
    <3>1. ~ (s[l].last < i)
      BY <1>2, <1>4, <1>6, <2>1
    <3>2. QED
      BY <2>2, <3>1
  <2>5. ASSUME NEW k \in K, NEW m \in K, s[k].last < i, i + MaxGap < s[m].first
        PROVE  ~ Close(s[k], s[m]) /\ ~ Close(s[m], s[k])
    <3>1. ASSUME NEW x \in s[k].first..s[k].last, NEW y \in s[m].first..s[m].last
          PROVE  ~ (y - x <= MaxGap + 1)
      BY <1>4, <1>5, <2>1, <2>5
    <3>2. QED
      BY <3>1 DEF Close
  <2>6. CASE s[c].last < i
    <3>1. l # c
      <4>1. s[c].first <= s[c].last /\ s[c].first \in Nat /\ s[c].last \in Nat
        BY <1>3, <1>5
      <4>2. ~ (i + MaxGap < s[c].first)
        BY <1>4, <2>1, <2>6, <4>1
      <4>3. QED
        BY <2>4, <4>2
    <3>2. Close(s[c], s[l])
      BY <3>1
    <3>3. QED
      BY <2>4, <2>5, <2>6, <3>2
  <2>7. CASE i + MaxGap < s[c].first
    <3>1. f # c
      <4>1. s[c].first <= s[c].last /\ s[c].first \in Nat /\ s[c].last \in Nat
        BY <1>3, <1>5
      <4>2. ~ (s[c].last < i)
        BY <1>4, <2>1, <2>7, <4>1
      <4>3. QED
        BY <2>3, <4>2
    <3>2. Close(s[c], s[f])
      BY <3>1
    <3>3. QED
      BY <2>3, <2>5, <2>7, <3>2
  <2>8. QED
    BY <2>2, <2>6, <2>7
<1>10. Whole(first, last)
  BY <1>8, <1>9 DEF Whole
<1>11. QED
  BY <1>6, <1>7, <1>10

MayMerge(s, c, ds) ==
    /\ aligned /\ s \in Seq(EntityType) /\ c \in 1..Len(s) /\ ds \in SUBSET (1..Len(s))
    /\ Gathered(s, ds \cup {c}, c)
MergedAs(s, c, ds, v) == [Extended(s[c], {s[d] : d \in ds}) EXCEPT !.value = v]
StandsFor(e, s, c, ds) ==
    /\ e \in EntityType /\ Local(e) /\ Counted(e)
    /\ e.first <= s[c].first /\ s[c].last <= e.last /\ e.page = s[c].page
    /\ e.mentions = MentionsOf(s, ds \cup {c})

\* What an entity becomes when others are merged into it.
LEMMA ExtendedIs ==
    ASSUME WordOK, mode # "bert", NEW s, NEW c, NEW ds, MayMerge(s, c, ds),
           NEW v, v \in Seq(Texts \cup {Punct}),
           NEW e, e = MergedAs(s, c, ds, v)
    PROVE  StandsFor(e, s, c, ds)
<1> DEFINE K == ds \cup {c}
           all == {s[c]} \cup {s[d] : d \in ds}
           firsts == {f.first : f \in all}
           lasts == {f.last : f \in all}
           counts == {f.count : f \in all}
           U == UNION {f.mentions : f \in all}
<1>0. /\ aligned /\ s \in Seq(EntityType) /\ c \in 1..Len(s) /\ ds \in SUBSET (1..Len(s))
      /\ Gathered(s, ds \cup {c}, c)
  BY DEF MayMerge
<1>1. all = {s[k] : k \in K} /\ \A k \in K : s[k] \in EntityType
  BY <1>0
<1>2. s[c] \in EntityType /\ c \in K /\ s[c] \in all
  BY <1>0
<1>3. e = [s[c] EXCEPT !.first = Min(firsts), !.last = Max(lasts), !.count = Max(counts),
                       !.mentions = U, !.value = v]
  BY DEF MergedAs, Extended
<1>4. \A k \in K : Local(s[k]) /\ Counted(s[k]) /\ (k # c => Close(s[c], s[k]))
  BY <1>0 DEF Gathered
<1> HIDE DEF all
<1>5. N \in Nat /\ MaxGap \in Nat /\ Labelled \subseteq 1..N /\ Words = 1..N
  BY LabelledAre, WordIs
<1>6. \A k \in K : s[k].first \in 1..N /\ s[k].last \in 1..N
  BY <1>4, <1>5 DEF Local
<1>7. firsts = {s[k].first : k \in K} /\ lasts = {s[k].last : k \in K} /\ counts = {s[k].count : k \in K}
      /\ U = MentionsOf(s, K)
  BY <1>1 DEF MentionsOf
<1> HIDE DEF firsts, lasts, counts, U
<1>8. /\ \E k \in K : Min(firsts) = s[k].first
      /\ \A k \in K : Min(firsts) <= s[k].first
  <2>1. firsts \in SUBSET (1..N) /\ firsts # {}
    BY <1>2, <1>6, <1>7
  <2>2. Min(firsts) \in firsts /\ \A k \in firsts : Min(firsts) <= k
    BY <1>5, <2>1, MinIs
  <2>3. QED
    BY <1>7, <2>2
<1>9. /\ \E k \in K : Max(lasts) = s[k].last
      /\ \A k \in K : s[k].last <= Max(lasts)
  <2>1. lasts \in SUBSET (1..N) /\ lasts # {}
    BY <1>2, <1>6, <1>7
  <2>2. QED
    BY <1>5, <1>7, <2>1, MaxIs
<1>10. U \in SUBSET Words /\ U # {}
  <2>1. \A k \in K : s[k].mentions \in SUBSET Words
    BY <1>1 DEF EntityType
  <2>2. s[c].mentions # {}
    BY <1>2, <1>4 DEF Counted
  <2>3. QED
    BY <1>2, <1>7, <2>1, <2>2 DEF MentionsOf
<1>11. IsFiniteSet(U) /\ Cardinality(U) \in Nat
  BY <1>10, MentionsFinite
<1>12. Max(counts) \in 1..Cardinality(U)
  <2>1. \A k \in K : s[k].count \in 1..Cardinality(U)
    <3>1. TAKE k \in K
    <3>2. s[k].mentions \in SUBSET U
      BY <1>7 DEF MentionsOf
    <3>3. Cardinality(s[k].mentions) <= Cardinality(U) /\ Cardinality(s[k].mentions) \in Nat
      BY <1>11, <3>2, FS_Subset, FS_CardinalityType
    <3>4. s[k].count \in 1..Cardinality(s[k].mentions)
      BY <1>4 DEF Counted
    <3>5. QED
      BY <1>11, <3>3, <3>4
  <2>2. counts \in SUBSET (1..Cardinality(U)) /\ counts # {}
    BY <1>2, <1>7, <2>1
  <2>3. QED
    BY <1>11, <2>2, MaxIs
<1> DEFINE first == Min(firsts)  last == Max(lasts)  n == Max(counts)
<1> HIDE DEF K, first, last, n
<1>13. /\ first \in Labelled /\ last \in Labelled /\ first <= last
       /\ Whole(first, last) /\ s[c].page = word[first].page
  <2>1. Spans(s, K, first, last)
    BY <1>8, <1>9 DEF first, last, Spans
  <2>2. Gathered(s, K, c)
    BY <1>2, <1>4 DEF Gathered
  <2>3. QED
    BY <1>0, <2>1, <2>2, MergedIsWhole
<1>14. n \in 1..Cardinality(U) /\ n \in Nat
  BY <1>11, <1>12 DEF n
<1>15. e = [s[c] EXCEPT !.first = first, !.last = last, !.count = n, !.mentions = U, !.value = v]
  BY <1>3 DEF first, last, n
<1>16. /\ e \in EntityType /\ e.first = first /\ e.last = last /\ e.count = n /\ e.mentions = U
       /\ e.page = s[c].page
  <2>1. first \in Words /\ last \in Words
    BY <1>5, <1>13
  <2>2. QED
    BY <1>2, <1>10, <1>14, <1>15, <2>1 DEF EntityType
<1>17. Local(e)
  BY <1>13, <1>16 DEF Local
<1>18. Counted(e)
  BY <1>10, <1>14, <1>16 DEF Counted
<1>19. e.first <= s[c].first /\ s[c].last <= e.last
  BY <1>2, <1>8, <1>9, <1>16 DEF first, last
<1>20. QED
  BY <1>7, <1>16, <1>17, <1>18, <1>19 DEF K, StandsFor

\* Entities are merged into one that is left, with what they stand for.
LEMMA MergeStep ==
    ASSUME PipeInv, at = "apply", UNCHANGED <<word, aligned, mode, at, read, open, near>>, NEW c \in todo, Merge(c)
    PROVE  PipeInv'
<1>1. PICK ds \in SUBSET {p[2] : p \in {p \in near : p[1] = c}} :
        /\ ds # {}
        /\ todo' = todo \ {c}
        /\ IF \E d \in ds : Taken(d)
           THEN UNCHANGED <<ents, absorbed, lost>>
           ELSE /\ \E r \in Evidence(ents[c]) :
                     ents' = [ents EXCEPT ![c] =
                        [Extended(ents[c], {ents[d] : d \in ds}) EXCEPT !.value = Trimmed(r[1], r[2])]]
                /\ absorbed' = absorbed \cup ds
                /\ lost' = IF c \in absorbed
                           THEN lost \cup UNION {ents[d].mentions : d \in ds} ELSE lost
        /\ UNCHANGED dropped
  BY DEF Merge
<1>2. c \in 1..Len(ents) /\ c \notin dropped /\ ents \in Seq(EntityType)
  BY AtApply
<1>3. \A d \in ds : d \in 1..Len(ents) /\ d # c /\ Close(ents[c], ents[d])
  <2>1. TAKE d \in ds
  <2>2. PICK p \in near : p[1] = c /\ p[2] = d
    OBVIOUS
  <2>3. p[2] \in 1..Len(ents)
    BY <2>2, AtApply
  <2>4. QED
    BY <2>2, <2>3 DEF PipeInv, DecideInv
<1>4. CASE \E d \in ds : Taken(d)
  <2>1. Keep(c)
    BY <1>1, <1>4 DEF Keep
  <2>2. QED
    BY <2>1, KeepStep
<1>5. CASE ~ \E d \in ds : Taken(d)
  <2>1. PICK r \in Evidence(ents[c]) :
            ents' = [ents EXCEPT ![c] =
                        [Extended(ents[c], {ents[d] : d \in ds}) EXCEPT !.value = Trimmed(r[1], r[2])]]
    BY <1>1, <1>5
  <2>2. /\ absorbed' = absorbed \cup ds /\ todo' = todo \ {c} /\ dropped' = dropped
        /\ lost' = IF c \in absorbed THEN lost \cup UNION {ents[d].mentions : d \in ds} ELSE lost
    BY <1>1, <1>5
  <2>3. ds \cap (dropped \cup absorbed) = {}
    BY <1>5 DEF Taken
  <2> DEFINE v == Trimmed(r[1], r[2])
             e == MergedAs(ents, c, ds, v)
  <2>4. v \in Seq(Texts \cup {Punct})
    BY AtApply, TrimmedIs DEF Evidence
  <2> HIDE DEF v
  <2>5. /\ e \in EntityType /\ Local(e) /\ Counted(e)
        /\ e.first <= ents[c].first /\ ents[c].last <= e.last /\ e.page = ents[c].page
        /\ e.mentions = MentionsOf(ents, ds \cup {c})
    <3>1. ds \in SUBSET (1..Len(ents)) /\ Gathered(ents, ds \cup {c}, c)
      BY <1>2, <1>3, AtApply DEF Gathered
    <3>2. MayMerge(ents, c, ds)
      BY <1>1, <1>2, <1>3, <3>1 DEF MayMerge, Close
    <3>3. WordOK /\ mode # "bert"
      BY AtApply
    <3>4. e = MergedAs(ents, c, ds, v)
      OBVIOUS
    <3> HIDE DEF e
    <3>5. StandsFor(e, ents, c, ds)
      BY <2>4, <3>2, <3>3, <3>4, ExtendedIs
    <3>6. QED
      BY <3>5 DEF StandsFor
  <2>6. ents' = [ents EXCEPT ![c] = e]
    BY <2>1 DEF MergedAs, v
  <2> HIDE DEF e
  <2>7. /\ ents' \in Seq(EntityType) /\ Len(ents') = Len(ents) /\ ents'[c] = e
        /\ \A k \in (1..Len(ents)) \ {c} : ents'[k] = ents[k]
    BY <1>2, <2>5, <2>6
  <2>8. lost' \in SUBSET Words
    <3>1. \A d \in ds : ents[d].mentions \in SUBSET Words
      BY <1>3, AtApply
    <3>2. QED
      BY <2>2, <3>1, AtApply
  <2>9. WordOK' /\ StageOK' /\ ReadInv' /\ OneRowPerFact' /\ Mentions' = Mentions
    BY <2>8, DecisionFrame
  <2>10. EntsOK'
    <3>1. \A k \in 1..Len(ents) : Local(ents'[k]) /\ Counted(ents'[k])
      BY <2>5, <2>7, AtApply
    <3>2. QED
      BY <2>7, <3>1, SameWords DEF EntsOK
  <2>11. LeftInv'
    <3>1. Left' = Left \ ds /\ ds \subseteq Left /\ Left \subseteq 1..Len(ents)
      BY <1>3, <2>2, <2>3, <2>7, AtApply DEF Left
    <3>2. c \in Left <=> c \notin absorbed
      BY <1>2, AtApply
    <3>3. \A i : i \in e.mentions <=> i \in ents[c].mentions \/ \E d \in ds : i \in ents[d].mentions
      BY <2>5 DEF MentionsOf
    <3>4. \A k \in Left' \ {c} : ents'[k].mentions = ents[k].mentions
      BY <2>7, <3>1
    <3>5. \A k, l \in Left : \A i : i \in ents[k].mentions /\ i \in ents[l].mentions => k = l
      BY AtApply
    <3>6. ASSUME NEW k \in Left', NEW l \in Left', NEW i, i \in ents'[k].mentions, i \in ents'[l].mentions
          PROVE  k = l
      <4>1. CASE k # c /\ l # c
        BY <3>1, <3>4, <3>5, <3>6, <4>1
      <4>2. CASE k = c /\ l # c
        <5>1. i \in e.mentions /\ i \in ents[l].mentions
          BY <2>7, <3>4, <3>6, <4>2
        <5>2. c \in Left /\ l \in Left /\ l \notin ds
          BY <3>1, <4>2
        <5>3. QED
          BY <3>1, <3>3, <3>5, <4>2, <5>1, <5>2
      <4>3. CASE k # c /\ l = c
        <5>1. i \in e.mentions /\ i \in ents[k].mentions
          BY <2>7, <3>4, <3>6, <4>3
        <5>2. c \in Left /\ k \in Left /\ k \notin ds
          BY <3>1, <4>3
        <5>3. QED
          BY <3>1, <3>3, <3>5, <4>3, <5>1, <5>2
      <4>4. QED
        BY <4>1, <4>2, <4>3
    <3>7. ASSUME NEW i \in Mentions
          PROVE  i \in lost' \/ \E k \in Left' : i \in ents'[k].mentions
      <4>1. CASE i \in lost
        BY <2>2, <4>1
      <4>2. CASE i \notin lost
        <5>1. PICK k \in Left : i \in ents[k].mentions
          BY <4>2, AtApply
        <5>2. CASE k \notin ds
          <6>1. k \in Left'
            BY <3>1, <5>2
          <6>2. CASE k = c
            BY <2>7, <3>3, <5>1, <6>1, <6>2
          <6>3. CASE k # c
            BY <3>4, <5>1, <6>1, <6>3
          <6>4. QED
            BY <6>2, <6>3
        <5>3. CASE k \in ds /\ c \in absorbed
          BY <2>2, <5>1, <5>3
        <5>4. CASE k \in ds /\ c \notin absorbed
          <6>1. c \in Left'
            BY <1>3, <3>1, <3>2, <5>4
          <6>2. i \in ents'[c].mentions
            BY <2>7, <3>3, <5>1, <5>4
          <6>3. QED
            BY <6>1, <6>2
        <5>5. QED
          BY <5>2, <5>3, <5>4
      <4>3. QED
        BY <4>1, <4>2
    <3>8. QED
      BY <2>9, <3>6, <3>7 DEF LeftInv
  <2>12. DecideInv'
    <3>1. todo' \subseteq (1..Len(ents')) \ dropped' /\ near' \subseteq (1..Len(ents')) \X (1..Len(ents'))
      BY <2>2, <2>7, AtApply
    <3>2. ASSUME NEW k \in 1..Len(ents)
          PROVE  /\ ents'[k].page = ents[k].page
                 /\ \A i \in ents[k].first..ents[k].last : i \in ents'[k].first..ents'[k].last
      <4>1. CASE k = c
        <5>1. ents[c] \in EntityType /\ Words = 1..N /\ N \in Nat
          BY <1>2, AtApply, WordIs
        <5>2. /\ ents[c].first \in Nat /\ ents[c].last \in Nat /\ e.first \in Nat /\ e.last \in Nat
          BY <2>5, <5>1 DEF EntityType
        <5>3. QED
          BY <2>5, <2>7, <4>1, <5>2
      <4>2. CASE k # c
        BY <2>7, <4>2
      <4>3. QED
        BY <4>1, <4>2
    <3>3. ASSUME NEW p \in near
          PROVE  p[1] # p[2] /\ Close(ents'[p[1]], ents'[p[2]])
      <4>1. p[1] \in 1..Len(ents) /\ p[2] \in 1..Len(ents)
        BY AtApply
      <4>2. p[1] # p[2] /\ Close(ents[p[1]], ents[p[2]])
        BY DEF PipeInv, DecideInv
      <4>3. QED
        BY <3>2, <4>1, <4>2 DEF Close
    <3>4. \A p \in near : p[1] # p[2] /\ Close(ents[p[1]], ents[p[2]])'
      BY <3>3 DEF Close
    <3>5. QED
      BY <3>1, <3>4 DEF DecideInv
  <2>13. QED
    BY <2>9, <2>10, <2>11, <2>12 DEF PipeInv
<1>6. QED
  BY <1>4, <1>5

\* What survives is collapsed again, and stored.
LEMMA StoreStep ==
    ASSUME PipeInv, StoreEntities
    PROVE  PipeInv'
<1> DEFINE survivors == (1..Len(ents)) \ (dropped \cup absorbed)
           c == Collapsed(Picked(ents, survivors))
<1>1. /\ at \in {"again", "apply"} /\ at' = "stored" /\ ents' = c
      /\ UNCHANGED <<word, aligned, mode, read, open, near, todo, dropped, absorbed, lost>>
  BY DEF StoreEntities, SecondPass, Surviving
<1>2. WordOK /\ StageOK /\ EntsOK /\ LeftInv
  BY DEF PipeInv
<1>3. mode # "bert" /\ Left = survivors /\ open = {}
  BY <1>1, <1>2 DEF StageOK, Left
<1> HIDE DEF survivors
<1>4. /\ c \in Seq(EntityType)
      /\ \A m \in 1..Len(c) : Local(c[m]) /\ Counted(c[m])
      /\ Apart(c, 1..Len(c))
      /\ MentionsOf(ents, survivors) \subseteq MentionsOf(c, 1..Len(c))
      /\ \A l, m \in 1..Len(c) : Fact(c[l]) = Fact(c[m]) => l = m
  <2>1. survivors \in SUBSET (1..Len(ents))
    BY DEF survivors
  <2>2. ents \in Seq(EntityType) /\ \A k \in survivors : Local(ents[k]) /\ Counted(ents[k])
    BY <1>2, <2>1 DEF EntsOK
  <2>3. Apart(ents, survivors)
    BY <1>1, <1>2, <1>3 DEF LeftInv, Apart
  <2>4. QED
    BY <1>2, <1>3, <2>1, <2>2, <2>3, CollapsedPicked
<1> HIDE DEF c
<1>5. WordOK' /\ StageOK'
  BY <1>1, <1>2, <1>3 DEF WordOK, StageOK, Words
<1>6. EntsOK'
  BY <1>1, <1>4, SameWords DEF EntsOK
<1>7. ReadInv' /\ DecideInv'
  BY <1>1 DEF ReadInv, DecideInv
<1>8. LeftInv'
  <2>1. Left' = 1..Len(c)
    BY <1>1 DEF Left
  <2>2. Mentions' = Mentions
    BY <1>1, SameWords
  <2>3. \A i \in Mentions : i \in lost \/ \E k \in survivors : i \in ents[k].mentions
    BY <1>1, <1>2, <1>3 DEF LeftInv
  <2>4. \A i \in Mentions : i \in lost \/ \E k \in 1..Len(c) : i \in c[k].mentions
    BY <1>4, <2>3 DEF MentionsOf
  <2>5. QED
    BY <1>1, <1>4, <2>1, <2>2, <2>4 DEF LeftInv, Apart
<1>9. OneRowPerFact'
  <2>1. \A l, m \in 1..Len(c) : c[l].type = c[m].type /\ c[l].value = c[m].value => l = m
    BY <1>4 DEF Fact
  <2>2. \A m \in 1..Len(c) : c[m].count \in 1..Cardinality(c[m].mentions)
    BY <1>4 DEF Counted
  <2>3. QED
    BY <1>1, <1>3, <2>1, <2>2 DEF OneRowPerFact, Fact
<1>10. QED
  BY <1>5, <1>6, <1>7, <1>8, <1>9 DEF PipeInv

LEMMA PipeStart == PipeInit => PipeInv
<1> SUFFICES ASSUME PipeInit PROVE PipeInv
  OBVIOUS
<1>1. /\ word \in Documents /\ aligned \in BOOLEAN /\ mode \in {"bert", "bert_llm_postprocess"}
      /\ at = "read" /\ read = 0 /\ open = {} /\ ents = <<>>
      /\ near = {} /\ todo = {} /\ dropped = {} /\ absorbed = {} /\ lost = {}
  BY DEF PipeInit
<1>2. WordOK
  BY <1>1 DEF WordOK
<1>3. StageOK /\ EntsOK
  BY <1>1, NAssumption DEF StageOK, EntsOK
<1>4. SoFar = {}
  BY <1>1, <1>2, LabelledAre, WordIs DEF SoFar
<1>5. ReadInv
  <2>1. Begun = {}
    BY <1>1 DEF Begun
  <2>2. QED
    BY <1>1, <1>4, <2>1 DEF ReadInv, OpenOK
<1>6. LeftInv /\ DecideInv /\ OneRowPerFact
  BY <1>1 DEF LeftInv, DecideInv, OneRowPerFact
<1>7. QED
  BY <1>2, <1>3, <1>5, <1>6 DEF PipeInv

LEMMA PipeStep == PipeInv /\ [PipeNext]_pipeVars => PipeInv'
<1> SUFFICES ASSUME PipeInv, [PipeNext]_pipeVars PROVE PipeInv'
  OBVIOUS
<1>1. CASE Read
  <2>1. EntsOK' /\ ReadInv'
    BY <1>1, ReadStep DEF PipeInv
  <2>2. WordOK' /\ StageOK'
    <3>1. at = "read" /\ read + 1 \in 0..N
      BY <1>1, WordIs DEF Read, PipeInv, StageOK
    <3>2. QED
      BY <1>1, <3>1 DEF Read, PipeInv, WordOK, StageOK, Words
  <2>3. LeftInv' /\ DecideInv' /\ OneRowPerFact'
    BY <1>1 DEF Read, LeftInv, DecideInv, OneRowPerFact
  <2>4. QED
    BY <2>1, <2>2, <2>3 DEF PipeInv
<1>2. CASE Settle
  BY <1>2, SettleStep
<1>3. CASE Ask
  BY <1>3, AskStep
<1>4. CASE Degrade
  BY <1>4, DegradeStep
<1>5. CASE Decide
  <2>1. at = "apply" /\ UNCHANGED <<word, aligned, mode, at, read, open, near>>
    BY <1>5 DEF Decide
  <2>2. PICK c \in todo : Keep(c) \/ Reject(c) \/ Modify(c) \/ Merge(c)
    BY <1>5 DEF Decide
  <2>3. QED
    BY <2>1, <2>2, KeepStep, RejectStep, ModifyStep, MergeStep
<1>6. CASE StoreEntities
  BY <1>6, StoreStep
<1>7. CASE UNCHANGED pipeVars
  <2>1. UNCHANGED <<word, aligned, mode, at, read, open, ents, near, todo, dropped, absorbed, lost>>
    BY <1>7 DEF pipeVars
  <2>2. WordOK' /\ StageOK' /\ EntsOK'
    BY <2>1, SameWords DEF PipeInv, WordOK, StageOK, EntsOK, Words
  <2>3. ReadInv'
    <3>1. SoFar' = SoFar
      BY <2>1, SameWords DEF SoFar
    <3>2. OpenOK' <=> OpenOK
      BY <2>1, <3>1, SameWords DEF OpenOK
    <3>3. Begun' = Begun
      BY <2>1 DEF Begun
    <3>4. \A f, l : Ends(f, l)' <=> Ends(f, l)
      BY <2>1, <3>1, SameWords DEF Ends
    <3>5. QED
      BY <2>1, <3>1, <3>2, <3>3, <3>4, SameWords DEF PipeInv, ReadInv
  <2>4. LeftInv' /\ DecideInv' /\ OneRowPerFact'
    <3>1. Left' = Left /\ Mentions' = Mentions
      BY <2>1, SameWords DEF Left
    <3>2. QED
      BY <2>1, <3>1 DEF PipeInv, LeftInv, DecideInv, OneRowPerFact, Close, Fact
  <2>5. QED
    BY <2>2, <2>3, <2>4 DEF PipeInv
<1>8. QED
  BY <1>1, <1>2, <1>3, <1>4, <1>5, <1>6, <1>7 DEF PipeNext, Stored

-----------------------------------------------------------------------------
LEMMA PipeInductive == PipeSpec => []PipeInv
<1>1. PipeInit => PipeInv
  BY PipeStart
<1>2. PipeInv /\ [PipeNext]_pipeVars => PipeInv'
  BY PipeStep
<1>3. QED
  BY <1>1, <1>2, PTL DEF PipeSpec

\* What the worker holds has its type at every step (entity_normalizer,
\* entity_postprocessor).
THEOREM PipeTypeCorrect == PipeSpec => []PipeTypeOK
<1>1. PipeInv => PipeTypeOK
  <2> SUFFICES ASSUME PipeInv PROVE PipeTypeOK
    OBVIOUS
  <2>1. WordOK /\ StageOK /\ EntsOK
    BY DEF PipeInv
  <2>2. open \subseteq Labelled
    <3>1. CASE at = "read"
      BY <2>1, <3>1, SoFarIs DEF PipeInv, ReadInv, OpenOK
    <3>2. CASE at # "read"
      BY <2>1, <3>2 DEF StageOK
    <3>3. QED
      BY <3>1, <3>2
  <2>3. todo \subseteq 1..Len(ents) \/ at = "stored"
    <3>1. CASE at = "apply"
      BY <3>1 DEF PipeInv, DecideInv
    <3>2. CASE at # "apply"
      BY <2>1, <3>2 DEF StageOK
    <3>3. QED
      BY <3>1, <3>2
  <2>4. \A k \in 1..Len(ents) : ents[k] \in EntityType
    BY <2>1 DEF EntsOK
  <2>5. QED
    BY <2>1, <2>2, <2>3, <2>4 DEF PipeTypeOK, WordOK, StageOK
<1>2. QED
  BY <1>1, PipeInductive, PTL

\* Where predictions are aligned an entity is of one place, whatever was merged into it:
\* each span it takes in was near its own (_mergeable, _extend_span).
THEOREM EntitiesOfOnePlace == PipeSpec => []OfOnePlace
<1>1. PipeInv => OfOnePlace
  <2> SUFFICES ASSUME PipeInv, aligned, NEW k \in 1..Len(ents)
               PROVE  LET e == ents[k]
                      IN /\ \A i \in e.first..e.last : word[i].page = e.page
                         /\ \A i \in e.first..e.last :
                               i + MaxGap <= e.last => i..(i + MaxGap) \cap Labelled # {}
                         /\ mode = "bert" /\ e.page = Unknown => e.first..e.last \subseteq Labelled
    BY DEF OfOnePlace
  <2>1. Local(ents[k])
    BY DEF PipeInv, EntsOK
  <2>2. QED
    BY <2>1 DEF Local, Whole
<1>2. QED
  BY <1>1, PipeInductive, PTL

\* A mention that is worth a row is stored in one, or lost at the model's word: the worker
\* itself loses and doubles none, in reading the labels, collapsing, or merging
\* (reconstruct_entities, is_valid_entity, collapse_duplicates, apply_decisions).
THEOREM MentionsStoredOnce == PipeSpec => []EachMentionOnce
<1>1. PipeInv => EachMentionOnce
  <2> SUFFICES ASSUME PipeInv, at = "stored", NEW i \in Mentions
               PROVE  LET rows == {k \in 1..Len(ents) : i \in ents[k].mentions}
                      IN Cardinality(rows) = 1 \/ (rows = {} /\ i \in lost)
    BY DEF EachMentionOnce
  <2> DEFINE rows == {k \in 1..Len(ents) : i \in ents[k].mentions}
  <2>1. /\ \A k, l \in 1..Len(ents) : k # l => ents[k].mentions \cap ents[l].mentions = {}
        /\ i \in lost \/ \E k \in 1..Len(ents) : i \in ents[k].mentions
    BY DEF PipeInv, LeftInv, Left
  <2>2. CASE rows = {}
    BY <2>1, <2>2
  <2>3. CASE rows # {}
    <3>1. PICK k \in rows : TRUE
      BY <2>3
    <3>2. rows = {k}
      BY <2>1, <3>1
    <3>3. Cardinality({k}) = 1
      BY FS_Singleton
    <3>4. QED
      BY <3>2, <3>3
  <2>4. QED
    BY <2>2, <2>3
<1>2. QED
  BY <1>1, PipeInductive, PTL

\* A fact has one row, and its occurrence_count is not above the mentions behind it
\* (collapse_duplicates, before and after the model's decisions).
THEOREM FactsStoredOnce == PipeSpec => []OneRowPerFact
<1>1. PipeInv => OneRowPerFact
  BY DEF PipeInv
<1>2. QED
  BY <1>1, PipeInductive, PTL

=============================================================================
