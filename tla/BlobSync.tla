------------------------------ MODULE BlobSync ------------------------------
(***************************************************************************)
(* Durable Azure Blob synchronization of ONE connection                    *)
(* (document_service/blob_sync): executions of `run_sync` over the lease,  *)
(* the source-object ledger and the hidden-document table of the tenant's  *)
(* schema, beside the documents they create and the OCR that processes     *)
(* those documents.                                                        *)
(*                                                                         *)
(* A step is one database transaction or one provider call, the points     *)
(* between which another execution, a crash or the source itself can act.  *)
(* A redelivered Celery task runs under a new run id, so it is simply one  *)
(* more member of Runs.                                                    *)
(***************************************************************************)
EXTENDS Integers, FiniteSets

CONSTANTS
    Runs,           \* run ids: one for each execution of the Celery task
    Objects,        \* identities of the source's supported objects
    Docs,           \* document ids; bounds how many documents can be ingested
    NoRun, NoObject, NoDoc,
    MaxVersion,     \* bounds how often an object's content changes
    MISSING_CONFIRMATIONS,
    SlowRuns        \* TRUE: a run may outlive LEASE_TTL_SECONDS (no renewal)

ASSUME IdentityAssumption ==
    NoRun \notin Runs /\ NoObject \notin Objects /\ NoDoc \notin Docs
ASSUME BoundAssumption ==
    MaxVersion \in Nat /\ MISSING_CONFIRMATIONS \in Nat \ {0} /\ SlowRuns \in BOOLEAN

VARIABLES
    source,      \* the container: whether each object is there, and its etag
    lease,       \* the azure_blob_sync_leases row of the connection
    ledger,      \* azure_blob_source_objects, one row for each known object
    hidden,      \* azure_blob_hidden_documents: cause by document, or "none"
    docObj,      \* documents: the object a document was ingested from
    derived,     \* documents that have spans and chunks in the store
    run          \* azure_blob_sync_runs.outcome, and the locals of run_sync

\* History: kept for the properties, read by no action.
VARIABLES
    overlapped,  \* two executions were inside the lease at once
    lost,        \* ingested documents whose linking transaction never ran
    witness,     \* runs that counted an absence since the object was linked
    sighted      \* objects listed unchanged since the first of those absences

store == <<ledger, hidden, docObj, derived>>
history == <<overlapped, lost, witness, sighted>>
vars == <<source, lease, store, run, history>>

-----------------------------------------------------------------------------
\* Stages between taking the lease and the `finally` that gives it back.
Leased == {"enumerate", "objects", "ingest", "finalize", "absences"}
Ended == {"done", "crashed"}
Stages == {"idle", "lease_read", "lease_write", "release"} \cup Leased \cup Ended
Outcomes == {"none", "started", "blocked", "failed", "lease_held", "succeeded"}

Unlinked == [version |-> 0, doc |-> NoDoc, sightings |-> 0, confirmed |-> FALSE]
Known(o) == ledger[o].doc # NoDoc

\* listing: the version of each listed object, 0 for one not listed; todo: the
\* objects, then the absent identities, still to visit; unsynced: the listed
\* objects it failed on or found gone; current, previous, fresh: the object in
\* hand, the document the ledger linked when the run looked, the one ingested.
Execution(stage, outcome) ==
    [stage |-> stage, outcome |-> outcome, listing |-> [o \in Objects |-> 0],
     todo |-> {}, unsynced |-> {}, current |-> NoObject, previous |-> NoDoc,
     fresh |-> NoDoc]

\* run_sync returns (or its process dies): what it held in memory is gone.
Ends(r, stage, outcome) == run' = [run EXCEPT ![r] = Execution(stage, outcome)]

\* _reconcile_object returns: on to the next object.
NextObject(r, unsynced) ==
    run' = [run EXCEPT ![r] = [run[r] EXCEPT
               !.stage = "objects", !.todo = @ \ {run[r].current},
               !.unsynced = unsynced,
               !.current = NoObject, !.previous = NoDoc, !.fresh = NoDoc]]

Init ==
    /\ source = [o \in Objects |-> [present |-> FALSE, version |-> 0]]
    /\ lease = [holder |-> NoRun, live |-> FALSE]
    /\ ledger = [o \in Objects |-> Unlinked]
    /\ hidden = [d \in Docs |-> "none"]
    /\ docObj = [d \in Docs |-> NoObject]
    /\ derived = {}
    /\ run = [r \in Runs |-> Execution("idle", "none")]
    /\ overlapped = FALSE
    /\ lost = {}
    /\ witness = [o \in Objects |-> {}]
    /\ sighted = {}

-----------------------------------------------------------------------------
(* The source: objects are written, removed, and put back unchanged.       *)

Upload(o) ==
    /\ source[o].version < MaxVersion
    /\ source' = [source EXCEPT ![o] = [present |-> TRUE, version |-> @.version + 1]]
    /\ UNCHANGED <<lease, store, run, history>>

Remove(o) ==
    /\ source[o].present
    /\ source' = [source EXCEPT ![o].present = FALSE]
    /\ UNCHANGED <<lease, store, run, history>>

\* An undeleted blob comes back under the version token it had.
Restore(o) ==
    /\ ~source[o].present /\ source[o].version > 0
    /\ source' = [source EXCEPT ![o].present = TRUE]
    /\ UNCHANGED <<lease, store, run, history>>

-----------------------------------------------------------------------------
(* run_sync up to the lease.                                               *)

\* The run's row is committed, then the connection is found active, a provider
\* is built and the profile's retention is one a sync may run under: none of
\* these is looked at again.
Start(r) ==
    /\ run[r].stage = "idle"
    /\ run' = [run EXCEPT ![r] = Execution("lease_read", "started")]
    /\ UNCHANGED <<source, lease, store, history>>

\* One of those is missing: the run ends without touching the lease.
Refuse(r) ==
    /\ run[r].stage = "idle"
    /\ Ends(r, "done", "blocked")
    /\ UNCHANGED <<source, lease, store, history>>

LeaseRefuses(r) == lease.live /\ lease.holder # r

\* acquire_lease, its SELECT: under READ COMMITTED nothing keeps the row as read.
LeaseRead(r) ==
    /\ run[r].stage = "lease_read"
    /\ IF LeaseRefuses(r)
       THEN Ends(r, "done", "lease_held")
       ELSE run' = [run EXCEPT ![r].stage = "lease_write"]
    /\ UNCHANGED <<source, lease, store, history>>

\* acquire_lease, its upsert: ON CONFLICT DO UPDATE has no condition, so the
\* re-read in the same transaction always finds this run.
LeaseWrite(r) ==
    /\ run[r].stage = "lease_write"
    /\ lease' = [holder |-> r, live |-> TRUE]
    /\ run' = [run EXCEPT ![r].stage = "enumerate"]
    /\ overlapped' = (overlapped \/ \E s \in Runs \ {r} : run[s].stage \in Leased)
    /\ UNCHANGED <<source, store, lost, witness, sighted>>

\* expires_at passes. A run never extends its lease.
ExpireLease ==
    /\ lease.live
    /\ SlowRuns \/ run[lease.holder].stage \notin Leased
    /\ lease' = [lease EXCEPT !.live = FALSE]
    /\ UNCHANGED <<source, store, run, history>>

-----------------------------------------------------------------------------
(* run_sync under the lease.                                               *)

Enumerate(r) ==
    /\ run[r].stage = "enumerate"
    /\ run' = [run EXCEPT ![r] = [run[r] EXCEPT
                  !.stage = "objects",
                  !.listing = [o \in Objects |->
                      IF source[o].present THEN source[o].version ELSE 0],
                  !.todo = {o \in Objects : source[o].present}]]
    /\ UNCHANGED <<source, lease, store, history>>

\* A variant of EnumerateFails: its returns stand before the `try`.
EnumerateFailsUnreleased(r) ==
    /\ run[r].stage = "enumerate"
    /\ \E outcome \in {"blocked", "failed"} : Ends(r, "done", outcome)
    /\ UNCHANGED <<source, lease, store, history>>

\* The provider is unavailable (blocked) or the listing fails (failed).
EnumerateFails(r) ==
    /\ run[r].stage = "enumerate"
    /\ \E outcome \in {"blocked", "failed"} : Ends(r, "release", outcome)
    /\ UNCHANGED <<source, lease, store, history>>

\* A variant of Unchanged: an object confirmed missing that comes back is skipped.
UnchangedEvenIfMissing(r, o) == Known(o) /\ ledger[o].version = run[r].listing[o]

Unchanged(r, o) == /\ Known(o)
                   /\ ledger[o].version = run[r].listing[o]
                   /\ ~ledger[o].confirmed

\* _reconcile_object, its ledger read: an unchanged object is passed over and
\* its row is left as it is, absences counted so far included.
Examine(r, o) ==
    /\ run[r].stage = "objects" /\ o \in run[r].todo
    /\ IF Unchanged(r, o)
       THEN run' = [run EXCEPT ![r].todo = @ \ {o}]
       ELSE run' = [run EXCEPT ![r] = [run[r] EXCEPT !.stage = "ingest", !.current = o,
                                                !.previous = ledger[o].doc]]
    /\ sighted' = IF Unchanged(r, o) /\ ledger[o].sightings > 0
                  THEN sighted \cup {o} ELSE sighted
    /\ UNCHANGED <<source, lease, store, overlapped, lost, witness>>

Unused == {d \in Docs : docObj[d] = NoObject}
NewDoc == CHOOSE d \in Unused : TRUE

\* _reconcile_object, acquire and DocumentIngestionService.ingest: the document
\* row is committed and its OCR dispatched before the ledger hears of it.
Ingest(r) ==
    /\ run[r].stage = "ingest" /\ source[run[r].current].present /\ Unused # {}
    /\ docObj' = [docObj EXCEPT ![NewDoc] = run[r].current]
    /\ run' = [run EXCEPT ![r] = [run[r] EXCEPT !.stage = "finalize", !.fresh = NewDoc]]
    /\ UNCHANGED <<source, lease, ledger, hidden, derived, history>>

\* The object is gone, or acquiring or ingesting it raised: counted, passed over.
IngestFails(r) ==
    /\ run[r].stage = "ingest"
    /\ NextObject(r, run[r].unsynced \cup {run[r].current})
    /\ UNCHANGED <<source, lease, store, history>>

\* Variants of Relinked (the upsert's conflict branch leaves confirmed_missing
\* alone) and of Superseded (the replaced document is purged and not hidden).
RelinkedStillMissing(r) ==
    [version |-> run[r].listing[run[r].current], doc |-> run[r].fresh,
     sightings |-> 0, confirmed |-> ledger[run[r].current].confirmed]
SupersededUnhidden(r) == hidden

\* upsert_source_seen and hide_document, on one object's row and document.
Relinked(r) ==
    [version |-> run[r].listing[run[r].current], doc |-> run[r].fresh,
     sightings |-> 0, confirmed |-> FALSE]
Superseded(r) ==
    IF run[r].previous = NoDoc THEN hidden
    ELSE [hidden EXCEPT ![run[r].previous] = "superseded"]

\* _reconcile_object, the finalization: one transaction purges and hides the
\* previous document and relinks the ledger to the new one.
Finalize(r) ==
    /\ run[r].stage = "finalize"
    /\ ledger' = [ledger EXCEPT ![run[r].current] = Relinked(r)]
    /\ hidden' = Superseded(r)
    /\ derived' = derived \ {run[r].previous}
    /\ NextObject(r, run[r].unsynced)
    /\ witness' = [witness EXCEPT ![run[r].current] = {}]
    /\ sighted' = sighted \ {run[r].current}
    /\ UNCHANGED <<source, lease, docObj, overlapped, lost>>

\* That transaction fails: the exception is caught and the loop goes on.
FinalizeFails(r) ==
    /\ run[r].stage = "finalize"
    /\ NextObject(r, run[r].unsynced \cup {run[r].current})
    /\ lost' = lost \cup {run[r].fresh}
    /\ UNCHANGED <<source, lease, store, overlapped, witness, sighted>>

\* _reconcile_absences reads the ledger's identities once.
BeginAbsences(r) ==
    /\ run[r].stage = "objects" /\ run[r].todo = {}
    /\ run' = [run EXCEPT ![r] = [run[r] EXCEPT
                  !.stage = "absences",
                  !.todo = {o \in Objects : Known(o) /\ run[r].listing[o] = 0}]]
    /\ UNCHANGED <<source, lease, store, history>>

\* How many absences confirm an object missing, after a variant off by one.
ConfirmsEarly(sightings) == sightings + 1 >= MISSING_CONFIRMATIONS
Confirms(sightings) == sightings >= MISSING_CONFIRMATIONS

\* A variant of CountedAbsence: a confirmed absence forgets the row's version.
CountedAbsenceForgets(o) ==
    LET sightings == ledger[o].sightings + 1
    IN  [ledger[o] EXCEPT !.sightings = sightings,
                          !.version = IF Confirms(sightings) THEN 0 ELSE @,
                          !.confirmed = @ \/ Confirms(sightings)]

\* record_absence and confirm_missing, on one object's row.
CountedAbsence(o) ==
    LET sightings == ledger[o].sightings + 1
    IN  [ledger[o] EXCEPT !.sightings = sightings,
                          !.confirmed = @ \/ Confirms(sightings)]

\* _reconcile_absences, one identity: count, and hide when the count confirms.
CountAbsence(r, o) ==
    /\ run[r].stage = "absences" /\ o \in run[r].todo
    /\ ledger' = [ledger EXCEPT ![o] = CountedAbsence(o)]
    /\ hidden' = IF Confirms(ledger[o].sightings + 1)
                 THEN [hidden EXCEPT ![ledger[o].doc] = "source_missing"]
                 ELSE hidden
    /\ run' = [run EXCEPT ![r].todo = @ \ {o}]
    /\ witness' = [witness EXCEPT ![o] = @ \cup {r}]
    /\ UNCHANGED <<source, lease, docObj, derived, overlapped, lost, sighted>>

Finish(r) ==
    /\ run[r].stage = "absences" /\ run[r].todo = {}
    /\ Ends(r, "release", "succeeded")
    /\ UNCHANGED <<source, lease, store, history>>

\* An exception outside the per-object handler goes straight to the `finally`;
\* the run's row keeps the outcome it has.
Abort(r) ==
    /\ \/ run[r].stage \in {"enumerate", "absences"}
       \/ run[r].stage = "objects" /\ run[r].todo = {}
    /\ Ends(r, "release", run[r].outcome)
    /\ UNCHANGED <<source, lease, store, history>>

\* release_lease: only the holder's row is deleted. (That it fails is a Crash here.)
Release(r) ==
    /\ run[r].stage = "release"
    /\ lease' = IF lease.holder = r THEN [holder |-> NoRun, live |-> FALSE] ELSE lease
    /\ run' = [run EXCEPT ![r].stage = "done"]
    /\ UNCHANGED <<source, store, history>>

\* The worker dies: no `finally` runs, and the lease row stays.
Crash(r) ==
    /\ run[r].stage \notin {"idle"} \cup Ended
    /\ Ends(r, "crashed", run[r].outcome)
    /\ lost' = IF run[r].stage = "finalize" THEN lost \cup {run[r].fresh} ELSE lost
    /\ UNCHANGED <<source, lease, store, overlapped, witness, sighted>>

\* OCR of an ingested document (dispatched, or asked for again) stores its
\* spans and chunks. It does not look whether the document was superseded.
Ocr(d) ==
    /\ docObj[d] # NoObject
    /\ derived' = derived \cup {d}
    /\ UNCHANGED <<source, lease, ledger, hidden, docObj, run, history>>

-----------------------------------------------------------------------------
Source == \E o \in Objects : Upload(o) \/ Remove(o) \/ Restore(o)

\* What an execution does as long as its process lives.
RunStep(r) ==
    \/ Refuse(r) \/ LeaseRead(r) \/ LeaseWrite(r)
    \/ Enumerate(r) \/ EnumerateFails(r)
    \/ \E o \in Objects : Examine(r, o) \/ CountAbsence(r, o)
    \/ Ingest(r) \/ IngestFails(r) \/ Finalize(r) \/ FinalizeFails(r)
    \/ BeginAbsences(r) \/ Finish(r) \/ Abort(r) \/ Release(r)

Next ==
    \/ Source
    \/ ExpireLease
    \/ \E r \in Runs : Start(r) \/ RunStep(r) \/ Crash(r)
    \/ \E d \in Docs : Ocr(d)

Spec == Init /\ [][Next]_vars

-----------------------------------------------------------------------------
(* Types, with what the stages of a run say about its locals.              *)

LedgerRow == [version : 0..MaxVersion, doc : Docs \cup {NoDoc},
              sightings : Nat, confirmed : BOOLEAN]
Executions ==
    [stage : Stages, outcome : Outcomes, listing : [Objects -> 0..MaxVersion],
     todo : SUBSET Objects, unsynced : SUBSET Objects,
     current : Objects \cup {NoObject}, previous : Docs \cup {NoDoc},
     fresh : Docs \cup {NoDoc}]

TypeOK ==
    /\ source \in [Objects -> [present : BOOLEAN, version : 0..MaxVersion]]
    /\ lease \in [holder : Runs \cup {NoRun}, live : BOOLEAN]
    /\ lease.live => lease.holder \in Runs
    /\ ledger \in [Objects -> LedgerRow]
    /\ hidden \in [Docs -> {"none", "superseded", "source_missing"}]
    /\ docObj \in [Docs -> Objects \cup {NoObject}]
    /\ derived \subseteq Docs
    /\ run \in [Runs -> Executions]
    /\ overlapped \in BOOLEAN
    /\ lost \subseteq Docs
    /\ witness \in [Objects -> SUBSET Runs]
    /\ sighted \subseteq Objects
    /\ \A r \in Runs :
        /\ run[r].stage \in {"ingest", "finalize"} => run[r].current \in Objects
        /\ run[r].stage = "finalize" => run[r].fresh \in Docs
        /\ run[r].stage = "absences" => \A o \in run[r].todo : Known(o)

-----------------------------------------------------------------------------
(* What the synchronization promises.                                      *)

\* The documents of an object that retrieval serves, and those about to be linked.
Served(o) == {d \in derived : docObj[d] = o /\ hidden[d] = "none"}
InFlight == {run[r].fresh : r \in {s \in Runs : run[s].stage = "finalize"}}

\* The document a ledger row links belongs to that object and is excluded from
\* retrieval exactly when the row is confirmed missing: however executions
\* interleave, replacing a version never leaves the row pointing at a document
\* that was hidden, and a confirmed absence never leaves one served
\* (_reconcile_object's finalization against _reconcile_absences).
LedgerLinksServedDocument ==
    \A o \in Objects : Known(o) =>
        /\ docObj[ledger[o].doc] = o
        /\ (hidden[ledger[o].doc] = "none") <=> ~ledger[o].confirmed

\* As long as two executions were never inside the lease at once, the only
\* documents an object serves besides the linked one are a document about to
\* be linked and those whose linking transaction was lost to a crash or a
\* failure (ingest commits before the ledger is relinked).
OneServedDocumentPerObject ==
    ~overlapped => \A o \in Objects :
        Served(o) \subseteq {ledger[o].doc} \cup InFlight \cup lost

\* An object is confirmed missing, and its document hidden, only on the word
\* of MISSING_CONFIRMATIONS different executions that each listed the whole
\* container successfully, did not find it, and were not ended by a failing
\* listing (one run never counts an object twice). Nothing is said of the runs
\* between those: the absences need not be consecutive (MissingMeansConsecutive).
MissingNeedsWitnesses ==
    \A o \in Objects :
        /\ ledger[o].confirmed => Cardinality(witness[o]) >= MISSING_CONFIRMATIONS
        /\ \A r \in witness[o] : run[r].outcome \notin {"blocked", "failed"}

\* What the source says of its MISSING_CONFIRMATIONS: no run sees an object again
\* between the absences that confirm it missing. The code does otherwise, as an
\* unchanged object's row is left alone: absent, there and absent again, it is hidden.
MissingMeansConsecutive == \A o \in sighted : ~ledger[o].confirmed

\* An execution that ended, however it did, holds no lease: whatever returns or
\* fails after acquire_lease goes by the `finally`. Only of one that died does the
\* lease stay, until it expires.
EndedHoldsNoLease ==
    lease.live => run[lease.holder].stage \in Leased \cup {"release", "crashed"}

\* An execution that has visited all it listed, alone under the lease, leaves
\* every object it did not fail on linked at the version it listed, also when
\* the object had been confirmed missing and came back unchanged.
RunSynchronises ==
    ~overlapped => \A r \in Runs : run[r].stage = "absences" =>
        \A o \in Objects : run[r].listing[o] # 0 /\ o \notin run[r].unsynced =>
            ledger[o].version = run[r].listing[o] /\ ~ledger[o].confirmed

\* Without overlapping executions the ledger never goes back to an older
\* version of an object, across crashes, failures and confirmed absences.
LedgerNeverRegresses ==
    [][~overlapped => \A o \in Objects : ledger'[o].version >= ledger[o].version]_vars

\* What retrieval sees of the source: the documents that were ever linked are those
\* ingested, but for the ones about to be linked and those whose linking was lost.
Withdrawn == {o \in Objects : Known(o) /\ hidden[ledger[o].doc] # "none"}
Linked == {d \in Docs : docObj[d] # NoObject} \ (InFlight \cup lost)
Mirror == INSTANCE SourceMirror WITH
             shown <- [o \in Objects |-> ledger[o].doc],
             withdrawn <- Withdrawn, used <- Linked

\* Whatever executions overlap, die or fail, what the ledger links of the source moves
\* only as SourceMirror says: a document is linked once, to one object, and one that was
\* replaced or hidden for its absence is never linked again (_reconcile_object's
\* finalization, _reconcile_absences).
ImplementsSourceMirror == Mirror!Spec

=============================================================================
