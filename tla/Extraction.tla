------------------------------ MODULE Extraction ------------------------------
(***************************************************************************)
(* Batch extraction of one tenant's documents (extraction_service/worker): *)
(* requests, the broker, the one worker (a solo pool), the entity store    *)
(* and the generated tables beside it (shared/entity_views, services/      *)
(* relational_projection), against promotions of a model, edits of the     *)
(* entity catalog and deletions of documents.                              *)
(*                                                                         *)
(* Every document holds one fact, of one entity type; what is stored of it *)
(* is the version of the model that found it. What inference finds and how *)
(* it is normalised is EntityPipeline's.                                   *)
(***************************************************************************)
EXTENDS Integers

CONSTANTS
    Docs,            \* query documents, processed
    Runs,            \* extraction runs that may be asked for
    MaxVersion,      \* versions of the model; 0 is the base model
    MaxChanges       \* bounds the promotions and the edits of the catalog together

ASSUME VersionsAssumption == MaxVersion \in Nat
ASSUME ChangesAssumption == MaxChanges \in Nat

VARIABLES
    active,      \* the promoted version
    def,         \* the entity type's definition, and whether its table exists
    doc,         \* documents.status
    eav,         \* document_entities: the version each document's rows come from
    child,       \* the definition's own table, by document
    subject,     \* its column of `subject`, by document
    ledger,      \* extracted_entities: which run stored which document
    run,         \* extraction_runs
    queue,       \* runs whose task is with the broker, which delivers it until it is acknowledged
    worker       \* the locals of _run_batch_extraction

\* History: kept for the properties, read by no action.
VARIABLES
    changes,     \* promotions and edits of the catalog so far
    unsettled,   \* a version was promoted while a run was under way, or after a newer one
    flipped,     \* the definition stopped being multi-valued, once
    late         \* documents deleted between the reading of their text and the storing

store == <<eav, child, subject, ledger>>
history == <<changes, unsettled, flipped, late>>
vars == <<active, def, doc, store, run, queue, worker, history>>

-----------------------------------------------------------------------------
Nothing == -1
Versions == 0..MaxVersion
Found == Versions \cup {Nothing}

Cardinalities == {"single", "multi"}
NoDefinition == [known |-> FALSE, on |-> FALSE, card |-> "multi", table |-> FALSE]

Defined(card) == [NoDefinition EXCEPT !.known = TRUE, !.on = TRUE, !.card = card]

Unasked == [status |-> "none", asked |-> {}, version |-> Nothing]

Free == [stage |-> "free", run |-> Nothing, version |-> Nothing, specs |-> NoDefinition,
         todo |-> {}, doc |-> Nothing]

-----------------------------------------------------------------------------
(* The relational surface.                                                 *)

\* Active and multi-valued: a table of its own. Active and single-valued: a
\* column of subject. Anything else is off the surface, and kept on disk.
OnTable(d) == d.known /\ d.on /\ d.card = "multi"
OnSubject(d) == d.known /\ d.on /\ d.card = "single"

\* reconcile_entity_tables: idempotent, creates and never drops.
Reconciled(d) == [d EXCEPT !.table = @ \/ OnTable(d)]

\* A variant of ClearsTable: only the tables the projection writes to.
ClearsActive(d) == OnTable(d)

\* build_relational_delete_statements: the table of every multi-valued
\* definition, active or not, and subject. Not the table that a definition
\* keeps when it has become single-valued.
ClearsTable(d) == d.known /\ d.card = "multi" /\ d.table

ClearedChild(specs, d) == IF ClearsTable(specs) THEN [child EXCEPT ![d] = Nothing] ELSE child

Init ==
    /\ active = 0
    /\ def \in {NoDefinition} \cup {Reconciled(Defined(card)) : card \in Cardinalities}
    /\ doc = [d \in Docs |-> "processed"]
    /\ eav = [d \in Docs |-> Nothing]
    /\ child = eav /\ subject = eav
    /\ ledger = {}
    /\ run = [r \in Runs |-> Unasked]
    /\ queue = {}
    /\ worker = Free
    /\ changes = 0 /\ unsettled = FALSE /\ flipped = FALSE /\ late = {}

-----------------------------------------------------------------------------
(* Requests.                                                               *)

AlreadyExtracted(d, v) == \E r \in Runs : <<r, d>> \in ledger /\ run[r].version = v
Eligible == {d \in Docs : doc[d] = "processed"}

\* The run is committed, then its task is sent; a task that cannot be sent leaves
\* the run queued.
Trigger(r) ==
    /\ run[r].status = "none"
    /\ \E asked \in (SUBSET Docs) \ {{}} :
        run' = [run EXCEPT ![r] = [Unasked EXCEPT !.status = "queued", !.asked = asked]]
    /\ queue' \in {queue, queue \cup {r}}
    /\ UNCHANGED <<active, def, doc, store, worker, history>>

-----------------------------------------------------------------------------
(* The worker.                                                             *)

r0 == worker.run

\* A task is acknowledged when it has returned or raised; the acknowledgement may
\* be lost, or come too late, and the task is then delivered again.
Acknowledge(r) == queue' \in {queue, queue \ {r}}

\* What was extracted under the promoted version, whatever the mode, is skipped.
Skipped(docs) == {d \in docs : AlreadyExtracted(d, active)}

\* The version and the plan, then the catalog is read and the tables are reconciled
\* once, in a transaction of their own. The reads are one step: nothing they read
\* is written by another in a way a later read could tell.
Begin(r) ==
    /\ worker.stage = "free" /\ r \in queue
    /\ run' = [run EXCEPT ![r].status = "running"]
    /\ def' = Reconciled(def)
    /\ LET docs == run[r].asked \cap Eligible IN
        worker' = [Free EXCEPT !.stage = "next", !.run = r, !.version = active, !.specs = def',
                               !.todo = docs \ Skipped(docs)]
    /\ UNCHANGED <<active, doc, store, queue, history>>

\* No version can be read, or the tables cannot be reconciled.
BeginFails(r) ==
    /\ worker.stage = "free" /\ r \in queue
    /\ run' = [run EXCEPT ![r].status = "failed"]
    /\ Acknowledge(r)
    /\ UNCHANGED <<active, def, doc, store, worker, history>>

\* The tenant's data plane does not answer, before the documents or at the final
\* write of the run: the task is retried, or given up with the run as it is.
PlaneDown ==
    /\ worker.stage = "next"
    /\ worker' = Free /\ Acknowledge(r0)
    /\ UNCHANGED <<active, def, doc, store, run, history>>

\* A document's text is read, and model serving answers with the version it used.
\* None is left of a document deleted meanwhile, which counts as failed.
Infer(d) ==
    /\ worker.stage = "next" /\ d \in worker.todo
    /\ \/ /\ doc[d] = "processed"
          /\ worker' = [worker EXCEPT !.stage = "store", !.todo = @ \ {d}, !.doc = d, !.version = active]
       \/ /\ worker' = [worker EXCEPT !.todo = @ \ {d}]
    /\ UNCHANGED <<active, def, doc, store, run, queue, history>>

\* Model serving knows of no model: the run fails.
NoModel ==
    /\ worker.stage = "next" /\ worker.todo # {}
    /\ run' = [run EXCEPT ![r0].status = "failed"]
    /\ worker' = Free /\ Acknowledge(r0)
    /\ UNCHANGED <<active, def, doc, store, history>>

\* One transaction replaces what the document had in the entity store and in the
\* generated tables; without predictions nothing reaches the ledger.
Store(found) ==
    /\ worker.stage = "store"
    /\ LET d == worker.doc
           new == IF found THEN worker.version ELSE Nothing
           specs == worker.specs
       IN /\ eav' = [eav EXCEPT ![d] = new]
          /\ child' = [ClearedChild([specs EXCEPT !.table = def.table], d) EXCEPT
                          ![d] = IF OnTable(specs) THEN new ELSE @]
          /\ subject' = [subject EXCEPT ![d] = IF OnSubject(specs) THEN new ELSE Nothing]
          /\ ledger' = IF found THEN ledger \cup {<<r0, d>>} ELSE ledger
          /\ late' = IF doc[d] = "deleted" THEN late \cup {d} ELSE late
    /\ worker' = [worker EXCEPT !.stage = "next", !.doc = Nothing]
    /\ UNCHANGED <<active, def, doc, run, queue, changes, unsettled, flipped>>

\* A variant of DocumentFails: the ledger is written in a transaction of its own.
FailsAfterLedger ==
    /\ worker.stage = "store"
    /\ worker' = [worker EXCEPT !.stage = "next", !.doc = Nothing]
    /\ ledger' = ledger \cup {<<r0, worker.doc>>}
    /\ UNCHANGED <<active, def, doc, eav, child, subject, run, queue, history>>

\* Whatever is raised for one document is counted, and the run goes on.
DocumentFails ==
    /\ worker.stage = "store"
    /\ worker' = [worker EXCEPT !.stage = "next", !.doc = Nothing]
    /\ UNCHANGED <<active, def, doc, store, run, queue, history>>

\* The run's label is the version of the last response.
RunVersion == worker.version

Complete ==
    /\ worker.stage = "next" /\ worker.todo = {}
    /\ run' = [run EXCEPT ![r0].status = "completed", ![r0].version = RunVersion]
    /\ worker' = Free /\ Acknowledge(r0)
    /\ UNCHANGED <<active, def, doc, store, history>>

\* The worker dies, and its task is delivered again.
Dies ==
    /\ worker.stage # "free"
    /\ worker' = Free
    /\ UNCHANGED <<active, def, doc, store, run, queue, history>>

-----------------------------------------------------------------------------
(* The rest of the platform.                                               *)

Change == changes < MaxChanges /\ changes' = changes + 1

Promote(v) ==
    /\ v # active /\ active' = v
    /\ unsettled' = \/ unsettled \/ v < active
                    \/ \E r \in Runs : run[r].status \in (IF r \in queue THEN {"running", "completed", "failed"}
                                                          ELSE {"running"})
    /\ Change
    /\ UNCHANGED <<def, doc, store, run, queue, worker, flipped, late>>

\* EntityService: every edit reconciles in its own transaction.
Define(card) ==
    /\ ~def.known
    /\ def' = Reconciled(Defined(card))
    /\ Change
    /\ UNCHANGED <<active, doc, store, run, queue, worker, unsettled, flipped, late>>

Toggle ==
    /\ def.known
    /\ def' = Reconciled([def EXCEPT !.on = ~@])
    /\ Change
    /\ UNCHANGED <<active, doc, store, run, queue, worker, unsettled, flipped, late>>

Flip ==
    /\ def.known
    /\ \E card \in Cardinalities \ {def.card} : def' = Reconciled([def EXCEPT !.card = card])
    /\ flipped' = (flipped \/ def.card = "multi")
    /\ Change
    /\ UNCHANGED <<active, doc, store, run, queue, worker, unsettled, late>>

\* A changed value_kind: the column is retyped, and cleared.
Retype ==
    /\ OnSubject(def)
    /\ subject' = [d \in Docs |-> Nothing]
    /\ Change
    /\ UNCHANGED <<active, def, doc, eav, child, ledger, run, queue, worker, unsettled, flipped, late>>

\* delete_document, as far as it concerns what is extracted.
DeleteDocument(d) ==
    /\ doc[d] = "processed"
    /\ doc' = [doc EXCEPT ![d] = "deleted"]
    /\ eav' = [eav EXCEPT ![d] = Nothing]
    /\ child' = ClearedChild(def, d)
    /\ subject' = [subject EXCEPT ![d] = Nothing]
    /\ ledger' = {e \in ledger : e[2] # d}
    /\ UNCHANGED <<active, def, run, queue, worker, history>>

-----------------------------------------------------------------------------
Next ==
    \/ \E r \in Runs : Trigger(r) \/ Begin(r) \/ BeginFails(r)
    \/ \E d \in Docs : Infer(d) \/ DeleteDocument(d)
    \/ \E found \in BOOLEAN : Store(found)
    \/ NoModel \/ DocumentFails \/ Complete \/ PlaneDown \/ Dies
    \/ \E v \in Versions : Promote(v)
    \/ \E card \in Cardinalities : Define(card)
    \/ Toggle \/ Flip \/ Retype

Spec == Init /\ [][Next]_vars

-----------------------------------------------------------------------------
Definitions == [known : BOOLEAN, on : BOOLEAN, card : Cardinalities, table : BOOLEAN]

TypeOK ==
    /\ active \in Versions
    /\ def \in Definitions
    /\ doc \in [Docs -> {"processed", "deleted"}]
    /\ eav \in [Docs -> Found] /\ child \in [Docs -> Found] /\ subject \in [Docs -> Found]
    /\ ledger \subseteq Runs \X Docs
    /\ run \in [Runs -> [status : {"none", "queued", "running", "completed", "failed"},
                         asked : SUBSET Docs, version : Found]]
    /\ queue \subseteq Runs
    /\ worker \in [stage : {"free", "next", "store"},
                   run : Runs \cup {Nothing}, version : Found, specs : Definitions,
                   todo : SUBSET Docs, doc : Docs \cup {Nothing}]
    /\ changes \in 0..MaxChanges
    /\ late \subseteq Docs
    /\ <<unsettled, flipped>> \in BOOLEAN \X BOOLEAN

\* Whatever relation the catalog shows, of a document it shows what the entity
\* store holds or nothing: through deactivations, deletions, re-extractions and
\* edits of the catalog in the middle of a run, no older generation comes back.
\* It may once the definition was multi-valued, then single-valued.
SurfaceAgrees ==
    \A d \in Docs :
        /\ OnTable(def) /\ ~flipped => child[d] \in {Nothing, eav[d]}
        /\ OnSubject(def) => subject[d] \in {Nothing, eav[d]}

\* A deleted document answers no query. It may if it was deleted while the worker
\* had already read its text, or with the table of a definition that was flipped.
DeletedAnswersNothing ==
    \A d \in Docs \ late : doc[d] = "deleted" =>
        /\ eav[d] = Nothing /\ subject[d] = Nothing
        /\ ~flipped => child[d] = Nothing

\* A document that would be skipped under the promoted version has been extracted
\* by that version, whatever was redelivered, killed half-way or labelled again:
\* skipping never leaves an older version's result. It may if a version was
\* promoted between the deliveries or the documents of a run, or an older one was
\* promoted again.
SkippedIsCurrent ==
    ~unsettled =>
        \A d \in Docs : doc[d] = "processed" /\ AlreadyExtracted(d, active)
            => eav[d] \in {active, Nothing}
===============================================================================
