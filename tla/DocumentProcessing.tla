-------------------------- MODULE DocumentProcessing --------------------------
(***************************************************************************)
(* ONE document of a tenant with a store of its own: its ingestion, the    *)
(* executions of process_document (document_service/services/ocr_worker)   *)
(* that extract it, its deletion, the registry row that mirrors it, and    *)
(* the data_plane worker (a solo pool) that sweeps abandoned documents and *)
(* reconciles the registry. Beside them the synchronization of a container *)
(* may replace the blob the document was ingested from (blob_sync/sync).   *)
(*                                                                         *)
(* A step is one transaction, or one call of the object store or of the    *)
(* source. A transaction that fails is a step of its own.                  *)
(***************************************************************************)
EXTENDS Naturals

CONSTANTS
    Requests,       \* requests and asyncio tasks of the API process, at once
    Worker,         \* the data_plane worker
    MaxCopies       \* bounds how often spans and chunks are stored

ASSUME CopiesAssumption == MaxCopies \in Nat \ {0}
ASSUME WorkerAssumption == Worker \notin Requests

Processes == Requests \cup {Worker}

VARIABLES
    doc,         \* the documents row: status, and what ingestion settled
    bytes,       \* the object its reference names is in its store
    derived,     \* how many extractions' spans and chunks are stored
    registry,    \* its status in tenant_document_registry
    ex,          \* the locals of what is in progress, process_document mostly
    snapshot     \* the status the reconciliation has read

\* History: kept for the properties, read by no action.
VARIABLES
    stolen,      \* a sweep took the document from an execution still at it, or a
                 \* reprocess began while it was neither processed nor failed and idle
    abandoned,   \* something died, or could not reach the store, on the way
    superseded   \* the document's blob was replaced: its text is gone, it is hidden

rows == <<doc, derived>>
history == <<stolen, abandoned, superseded>>
vars == <<doc, bytes, derived, registry, ex, snapshot, history>>

-----------------------------------------------------------------------------
(* The row, and what executions hold.                                      *)

\* absent: not ingested; removed: hard deleted.
Statuses == {"pending", "processing", "processed", "failed", "deleted"}
Kinds == {"library", "attachment"}
Modes == {"platform_blob", "ephemeral", "source_only"}
HasRow == doc.status \in Statuses

Idle == [stage |-> "idle", how |-> "none", ref |-> FALSE, got |-> FALSE, last |-> FALSE]
Done(p) == ex' = [ex EXCEPT ![p] = Idle]
Goes(p, stage) == ex' = [ex EXCEPT ![p].stage = stage]
Begins(p, stage, how) == ex' = [ex EXCEPT ![p] = [Idle EXCEPT !.stage = stage, !.how = how]]

\* UPDATE documents ... WHERE id = :id
SetStatus(status) == doc' = IF HasRow THEN [doc EXCEPT !.status = status] ELSE doc

\* update_status: an UPDATE whose failure is logged and swallowed.
Registers(status) ==
    \/ registry' = IF registry = "none" THEN "none" ELSE status
    \/ UNCHANGED registry

Init ==
    /\ doc = [status |-> "absent", kind |-> "library",
              mode |-> "platform_blob", ref |-> FALSE]
    /\ bytes = FALSE
    /\ derived = [spans |-> 0, chunks |-> 0]
    /\ registry = "none"
    /\ ex = [p \in Processes |-> Idle]
    /\ snapshot = "none"
    /\ stolen = FALSE /\ abandoned = FALSE /\ superseded = FALSE

-----------------------------------------------------------------------------
(* Ingestion and dispatch.                                                 *)

\* Which originals are stored: source_only ones are not, and the tenant's
\* profile refuses that mode for bytes that cannot be asked for again.
Stored(mode) == mode # "source_only"

\* ingest, up to its commit. An attachment belongs to a conversation.
Ingest(q) ==
    /\ doc.status = "absent" /\ ex[q].stage = "idle"
    /\ \E kind \in Kinds, mode \in Modes :
        /\ kind = "attachment" => mode # "source_only"
        /\ doc' = [status |-> "pending", kind |-> kind, mode |-> mode, ref |-> Stored(mode)]
        /\ bytes' = Stored(mode)
    /\ Begins(q, "record", "dispatch")
    /\ UNCHANGED <<derived, registry, snapshot, history>>

\* _record_registry, an upsert that may be lost; then the task is dispatched.
RecordIngestion(q) ==
    /\ ex[q].stage = "record"
    /\ registry' \in {"uploaded", registry}
    /\ Goes(q, "load")
    /\ UNCHANGED <<rows, bytes, snapshot, history>>

\* trigger_ocr: a dispatch is an identity, and may be replayed.
Dispatch(q) ==
    /\ ex[q].stage = "idle" /\ HasRow
    /\ Begins(q, "load", "dispatch")
    /\ UNCHANGED <<rows, bytes, registry, snapshot, history>>

\* process_document(reprocess=True) looks at no status. It has no caller in the
\* services; its tests call it for a document that is settled.
Settled ==
    /\ doc.status \in {"processed", "failed"}
    /\ \A p \in Processes : ex[p].stage \in {"idle", "reconcile"}
Reprocess(q) ==
    /\ ex[q].stage = "idle" /\ HasRow
    /\ stolen' = (stolen \/ ~Settled)
    /\ Begins(q, "load", "reprocess")
    /\ UNCHANGED <<rows, bytes, registry, snapshot, abandoned, superseded>>

-----------------------------------------------------------------------------
(* process_document.                                                       *)

\* A variant of AfterLoad: a reprocess purges before it looks for the bytes.
PurgeFirst(how) == IF how = "reprocess" THEN "purge" ELSE "claim"
AfterLoad(how) == IF how = "reprocess" THEN "resolve" ELSE "claim"

Load(p) ==
    /\ ex[p].stage = "load"
    /\ ex' = IF HasRow
             THEN [ex EXCEPT ![p] = [@ EXCEPT !.stage = AfterLoad(ex[p].how), !.ref = doc.ref]]
             ELSE [ex EXCEPT ![p] = Idle]
    /\ UNCHANGED <<rows, bytes, registry, snapshot, history>>

\* A variant of Claimable: the document is claimed whatever its status.
ClaimableAnyway == HasRow
Claimable == doc.status = "pending"

\* The claim touches the status only: updated_at keeps the time of ingestion.
Claim(p) ==
    /\ ex[p].stage = "claim"
    /\ IF Claimable
       THEN SetStatus("processing") /\ Goes(p, "resolve")
       ELSE UNCHANGED doc /\ Done(p)
    /\ UNCHANGED <<bytes, derived, registry, snapshot, history>>

\* _resolve_content_for_processing: a source may or may not answer, a store
\* answers for the object the row named.
Resolve(p) ==
    /\ ex[p].stage = "resolve"
    /\ doc.mode = "source_only" \/ (ex[p].ref /\ bytes)
    /\ ex' = [ex EXCEPT ![p] = [@ EXCEPT !.got = TRUE,
                 !.stage = IF ex[p].how = "reprocess" THEN "purge" ELSE "extract"]]
    /\ UNCHANGED <<rows, bytes, registry, snapshot, history>>

\* A variant of Refused: content nobody can resolve is nobody's failure.
AlwaysRefused(how) == TRUE
Refused(how) == how = "reprocess"

\* No bytes: a reprocess is refused, anything else has failed.
Unresolvable(p) ==
    /\ ex[p].stage = "resolve"
    /\ IF Refused(ex[p].how)
       THEN Done(p) /\ UNCHANGED doc
       ELSE /\ SetStatus("failed")
            /\ ex' = [ex EXCEPT ![p] = [@ EXCEPT !.stage = "release", !.last = TRUE]]
    /\ UNCHANGED <<bytes, derived, registry, snapshot, history>>

Purge(p) ==
    /\ ex[p].stage = "purge"
    /\ derived' = [spans |-> 0, chunks |-> 0]
    /\ Goes(p, "mark")
    /\ UNCHANGED <<doc, bytes, registry, snapshot, history>>

Mark(p) ==
    /\ ex[p].stage = "mark"
    /\ SetStatus("processing")
    /\ Goes(p, "extract")
    /\ UNCHANGED <<bytes, derived, registry, snapshot, history>>

\* The spans and `processed`, in one transaction, whatever the status is by
\* now. Without a row the spans' foreign key refuses them.
StoreSpans(p) ==
    /\ ex[p].stage = "extract" /\ HasRow /\ derived.spans < MaxCopies
    /\ SetStatus("processed")
    /\ derived' = [derived EXCEPT !.spans = @ + 1]
    /\ Goes(p, "registered")
    /\ UNCHANGED <<bytes, registry, snapshot, history>>

AfterFailure == "failing"

\* The media type has no extractor, extraction raises, or the transaction fails.
ExtractFails(p) ==
    /\ ex[p].stage = "extract"
    /\ Goes(p, AfterFailure)
    /\ UNCHANGED <<rows, bytes, registry, snapshot, history>>

RegisterProcessed(p) ==
    /\ ex[p].stage = "registered"
    /\ Registers("processed")
    /\ Goes(p, "chunk")
    /\ UNCHANGED <<rows, bytes, snapshot, history>>

\* Chunks and embeddings: none for a training document, and whatever goes wrong
\* is logged.
StoreChunks(p) ==
    /\ ex[p].stage = "chunk"
    /\ \/ /\ HasRow /\ derived.chunks < MaxCopies
          /\ derived' = [derived EXCEPT !.chunks = @ + 1]
       \/ UNCHANGED derived
    /\ Goes(p, "release")
    /\ UNCHANGED <<doc, bytes, registry, snapshot, history>>

\* _release_working_copy: the object goes, or the store refuses; then the row
\* stops naming it.
Release(p) ==
    /\ ex[p].stage = "release"
    /\ IF doc.mode = "ephemeral"
       THEN /\ bytes' \in IF ex[p].ref THEN {FALSE, bytes} ELSE {bytes}
            /\ Goes(p, "unname")
       ELSE Done(p) /\ UNCHANGED bytes
    /\ UNCHANGED <<rows, registry, snapshot, history>>

Unname(p) ==
    /\ ex[p].stage = "unname"
    /\ doc' = [doc EXCEPT !.ref = FALSE]
    /\ Done(p)
    /\ UNCHANGED <<bytes, derived, registry, snapshot, history>>

\* In the handled part of process_document a failure here fails the document.
UnnameFails(p) ==
    /\ ex[p].stage = "unname" /\ ~ex[p].last
    /\ Goes(p, "failing")
    /\ UNCHANGED <<rows, bytes, registry, snapshot, history>>

\* The handler: whatever the status is by now.
WriteFailed(p) ==
    /\ ex[p].stage = "failing"
    /\ SetStatus("failed")
    /\ Goes(p, "failed")
    /\ UNCHANGED <<bytes, derived, registry, snapshot, history>>

RegisterFailed(p) ==
    /\ ex[p].stage = "failed"
    /\ Registers("failed")
    /\ ex' = [ex EXCEPT ![p] = [@ EXCEPT !.stage = "release", !.last = TRUE]]
    /\ UNCHANGED <<rows, bytes, snapshot, history>>

\* The process dies, or what it asks of the store fails where nothing handles it.
Dies(p) ==
    /\ ex[p].stage # "idle"
    /\ Done(p)
    /\ abandoned' = TRUE
    /\ UNCHANGED <<rows, bytes, registry, snapshot, stolen, superseded>>

-----------------------------------------------------------------------------
(* Synchronization and deletion.                                           *)

\* _ingest_object, once the blob's new version is another document: the derived data of
\* this one goes, and it is hidden from retrieval; its status stays. Synchronized
\* documents are never stored durably (SYNC_ALLOWED_RETENTION).
Supersede ==
    /\ HasRow /\ doc.kind = "library" /\ doc.mode # "platform_blob"
    /\ derived' = [spans |-> 0, chunks |-> 0]
    /\ superseded' = TRUE
    /\ UNCHANGED <<doc, bytes, registry, ex, snapshot, stolen, abandoned>>

\* A library document: derived data and status, in one transaction.
DeleteDocument(q) ==
    /\ ex[q].stage = "idle" /\ HasRow /\ doc.kind = "library"
    /\ derived' = [spans |-> 0, chunks |-> 0]
    /\ SetStatus("deleted")
    /\ Begins(q, "deleted", "delete")
    /\ UNCHANGED <<bytes, registry, snapshot, history>>

RegisterDeleted(q) ==
    /\ ex[q].stage = "deleted"
    /\ Registers("deleted")
    /\ Done(q)
    /\ UNCHANGED <<rows, bytes, snapshot, history>>

\* An attachment, with its conversation: the object goes from the durable
\* store, which holds no working copies, before the transaction commits.
WipeObject(q) ==
    /\ ex[q].stage = "idle" /\ HasRow /\ doc.kind = "attachment"
    /\ bytes' \in IF doc.ref /\ doc.mode = "platform_blob" THEN {FALSE, bytes} ELSE {bytes}
    /\ Begins(q, "wipe", "delete")
    /\ UNCHANGED <<rows, registry, snapshot, history>>

HardDelete(q) ==
    /\ ex[q].stage = "wipe"
    /\ derived' = [spans |-> 0, chunks |-> 0]
    /\ doc' = [doc EXCEPT !.status = "removed", !.ref = FALSE]
    /\ Done(q)
    /\ UNCHANGED <<bytes, registry, snapshot, history>>

-----------------------------------------------------------------------------
(* The data_plane worker.                                                  *)

\* A probe finds the tenant's store reachable again, as it may at any time:
\* what was abandoned may be swept.
Recovered ==
    /\ ex[Worker].stage = "idle"
    /\ Begins(Worker, "sweep", "sweep")
    /\ UNCHANGED <<rows, bytes, registry, snapshot, history>>

\* Executions that have claimed the document, or marked it, and are not done.
Holders == {p \in Processes : ex[p].stage \in {"resolve", "purge", "mark", "extract", "failing"}}

\* _recover_stuck_documents: a document that is processing, and was ingested long
\* enough ago (nothing since has touched updated_at), is pending again and is
\* processed like any other, by the worker.
Sweep ==
    /\ ex[Worker].stage = "sweep"
    /\ \/ /\ doc.status = "processing"
          /\ SetStatus("pending")
          /\ stolen' = (stolen \/ Holders # {})
          /\ Begins(Worker, "load", "dispatch")
       \/ UNCHANGED <<doc, stolen>> /\ Done(Worker)
    /\ UNCHANGED <<bytes, derived, registry, snapshot, abandoned, superseded>>

\* reconcile_tenant_document_registry reads the rows, then writes one by one.
ReconcileRead ==
    /\ ex[Worker].stage = "idle" /\ HasRow
    /\ snapshot' = doc.status
    /\ Begins(Worker, "reconcile", "reconcile")
    /\ UNCHANGED <<rows, bytes, registry, history>>

\* A variant of Upserted: like the migration's backfill, DO NOTHING on conflict.
Inserted(status) == IF registry = "none" THEN status ELSE registry
Upserted(status) == status

ReconcileWrite ==
    /\ ex[Worker].stage = "reconcile"
    /\ registry' = Upserted(snapshot)
    /\ snapshot' = "none"
    /\ Done(Worker)
    /\ UNCHANGED <<rows, bytes, history>>

-----------------------------------------------------------------------------
Processing(p) ==
    \/ Load(p) \/ Claim(p) \/ Resolve(p) \/ Unresolvable(p) \/ Purge(p) \/ Mark(p)
    \/ StoreSpans(p) \/ ExtractFails(p) \/ RegisterProcessed(p) \/ StoreChunks(p)
    \/ Release(p) \/ Unname(p) \/ UnnameFails(p) \/ WriteFailed(p) \/ RegisterFailed(p)

RequestStep(q) ==
    \/ Ingest(q) \/ RecordIngestion(q) \/ Dispatch(q) \/ Reprocess(q)
    \/ DeleteDocument(q) \/ RegisterDeleted(q) \/ WipeObject(q) \/ HardDelete(q)

WorkerStep == Recovered \/ Sweep \/ ReconcileRead \/ ReconcileWrite

Next ==
    \/ \E p \in Processes : Processing(p) \/ Dies(p)
    \/ \E q \in Requests : RequestStep(q)
    \/ WorkerStep
    \/ Supersede

Spec == Init /\ [][Next]_vars

\* Beat sends the reconciliation again and again, and what the worker executes
\* goes on: its outages and its deaths cannot be the only things that happen.
FairSpec ==
    /\ Spec
    /\ SF_vars(ReconcileRead) /\ SF_vars(ReconcileWrite)
    /\ WF_vars(Processing(Worker)) /\ WF_vars(Sweep)

-----------------------------------------------------------------------------
Stages == {"idle", "record", "load", "claim", "resolve", "purge", "mark", "extract",
           "registered", "chunk", "release", "unname", "failing", "failed", "deleted",
           "wipe", "sweep", "reconcile"}

TypeOK ==
    /\ doc \in [status : Statuses \cup {"absent", "removed"}, kind : Kinds,
                mode : Modes, ref : BOOLEAN]
    /\ bytes \in BOOLEAN
    /\ derived \in [spans : 0..MaxCopies, chunks : 0..MaxCopies]
    /\ registry \in Statuses \cup {"none", "uploaded"}
    /\ ex \in [Processes -> [stage : Stages, ref : BOOLEAN, got : BOOLEAN, last : BOOLEAN,
                 how : {"none", "dispatch", "reprocess", "delete", "sweep", "reconcile"}]]
    /\ snapshot \in Statuses \cup {"none"}
    /\ <<stolen, abandoned, superseded>> \in BOOLEAN \X BOOLEAN \X BOOLEAN

\* However often a document is dispatched, swept, reprocessed and replaced, its text
\* is there once (the claim; the purge before a reprocess). It may be there twice
\* only when a sweep, or a reprocess, took it from an execution still at it.
TextStoredOnce == ~stolen => derived.spans <= 1 /\ derived.chunks <= 1

\* A processed document has its text, whatever deletes, sweeps and fails around
\* it, but for a reprocess that holds the bytes and is about to mark it: derived
\* data is never given up for bytes that might not be found. It may be without
\* when that reprocess died, and when its blob was replaced, for it is hidden then
\* (_purge_document_outputs).
ProcessedHasText ==
    doc.status = "processed" /\ ~abandoned /\ ~superseded =>
        \/ derived.spans > 0
        \/ \E p \in Processes : ex[p].stage = "mark" /\ ex[p].got

\* Nothing is left lying: a document waiting or being processed is in somebody's
\* hands (nothing else would ever look at a pending one), and an ephemeral one that
\* is done with, and that nobody is at any more, names no working copy. Both may be
\* forgotten only if an execution died or could not reach the store.
NothingForgotten ==
    ~abandoned =>
        /\ doc.status \in {"pending", "processing"} =>
              \E p \in Processes : ex[p].stage \in
                  {"record", "load", "claim", "resolve", "purge", "mark", "extract", "failing"}
        /\ /\ doc.mode = "ephemeral" /\ doc.status \in {"processed", "failed"}
           /\ \A p \in Processes : ex[p].stage \in {"idle", "reconcile"}
           => ~doc.ref

\* Whatever writes of the registry are lost, late or overtaken, once a document's
\* status stays, the registry comes to show it (the reconciliation).
RegistryConverges == \A s \in Statuses :
    <>[](doc.status = s) => <>[](registry = s)
===============================================================================
