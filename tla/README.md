# Verification of the NER platform

TLA+ models of the parts of this repository where the order of things matters,
checked with TLC on small instances, and theorems about them proved with TLAPS.
Paths below are relative to the repository root; the Python services are in
`src/`.

## The system

| Component | State | Operations | What is hard | What makes it correct |
|---|---|---|---|---|
| Azure Blob synchronization (`document_service/blob_sync`) | per connection: a lease, a ledger row for each source object, a table of hidden documents, a row for each run | `run_sync`: take the lease, enumerate, reconcile each object, count absences, release | overlapping runs, a lease that is never renewed, crashes between an ingestion and its link, OCR that finishes late | one live document for each source object; nothing is hidden without evidence; a run that ends has synchronised what it saw |
| Training jobs (`training_service`) | `training_jobs`, `model_versions`, `span_training_consumption`, Celery messages | submit, approve, reject, cancel; `fine_tune_model` | no status write looks at the status it replaces; late acknowledgement and redelivery; MLflow failing inside the handler | a job trains one version at most; what a version consumed is earned and recorded once |
| Data sources and data planes (`shared/data_sources`, `shared/data_plane.py`, `document_service/data_plane`, `shared/tenant_store`) | connection rows, the tenant's plane, the identity marker in each store | create, update, test, activate, pause, replace, retire; provision; migrate | a row is read and written in different transactions; a task outlives the state that asked for it; a deploy writes unconditionally | what is active was tested; content is routed only to a provisioned store whose identity never changes |
| Document processing (`document_service/services/ocr_worker.py`, `api/v1/documents.py`) | `documents.status`, text spans, chunks, working copies, the tenant's document registry | ingest, dispatch, process, reprocess, delete, sweep, reconcile | claims by compare-and-set against reprocessing and sweeps without one; steps that fail one by one | a processed document has its text once; nobody's document is forgotten; working copies go; the registry converges |
| Tabular files (`shared/tabular_files`) | files, versions, the served version, objects in the store | upload, profile, review, publish, delete | a publish that ends late, deletion while publishing, clean-up after the commit | the served version is ready and its objects exist |
| Model registry and serving (`training_service/infra/mlflow_registry.py`, `model_serving`) | MLflow stages and runs, the rows of `model_versions`, the session and label caches | register, promote, demote, list, warm up, answer; cut a long input into windows | two stores that move separately, a request that asks three times which version is active, a cache with a memory budget | production is what was promoted last; nothing unpromoted answers; no word of the input is lost |
| Extraction service (`extraction_service`, `shared/entity_views.py`) | runs, the entity store, one generated table for each entity type, the catalog | run, redeliver, extract, project, edit the catalog, delete | the same fact in two shapes; a redelivered run under another model | what queries see agrees with the entity store; a skipped document is current; a fact is one row |
| Retrieval and chat (`chat_api`, `shared/retrieval`) | a conversation's pending clarification and binding; the state of a turn | plan, resolve names, clarify, retrieve, recover, cite, persist | a clarification spans turns; calls fail one by one under a cap and a deadline; documents go away meanwhile | a turn keeps its budget and its subject; "nothing found" is only said when nothing failed |
| Annotation service (`annotation_service`) | batches and their documents, suggestions, spans, acceptance records | pre-label, review a sample, accept, promote; export | suggestions replaced while they are reviewed or promoted; a batch's task delivered again | what was reviewed is what is promoted, a large batch once; no suggestion is lost |
| Gateway, analytics, observability, portal | users, tenants; metrics; presentation | proxying, dashboards | little shared state | - |

How they interact: the gateway creates a tenant and its plane row; a connection's
activation (platform database) sends `provision_tenant_data_plane` through the
broker to the document service, which writes the tenant's own store and then the
plane row; every other service resolves the tenant's store through that row. The
blob worker ingests through the common pipeline, which dispatches OCR; retrieval
reads what OCR stored, minus the hidden documents. The training worker reads the
annotation service's export over HTTP and writes the tenant's schema and MLflow; model
serving asks the training service which version is active and loads its artifacts; the
extraction worker asks model serving for labels and writes the entity store, which
chat resolves names in and queries.

## The modules

### BlobSync, SourceMirror (`MCBlobSync`, `BlobSyncProofs`)

Executions of `run_sync` (`src/document_service/blob_sync/sync.py`) over one
connection. A step is one transaction or one provider call.

| Variable | Code |
|---|---|
| `source` | the container: an object's presence and version token |
| `lease` | `azure_blob_sync_leases`: holder, and whether `expires_at` is ahead |
| `ledger` | `azure_blob_source_objects` (`doc = NoDoc`: no row) |
| `hidden` | `azure_blob_hidden_documents` |
| `docObj`, `derived` | the documents ingested, and those with spans and chunks |
| `run` | the run's row and the locals of `run_sync` |
| `overlapped`, `lost`, `witness`, `sighted` | history, read by no action |

`LeaseRead`/`LeaseWrite` are the two statements of `acquire_lease` (PostgreSQL's
default isolation keeps nothing between them); `Enumerate`, `Examine`, `Ingest`,
`Finalize`, `BeginAbsences`, `CountAbsence`, `Finish`, `Release` follow `run_sync`;
`IngestFails`, `FinalizeFails`, `EnumerateFails`, `Abort` are its exception paths;
`Crash` skips the `finally`. `Ocr` is dispatched or asked for again at any time.
`SlowRuns` lets a run outlive its lease, which is never renewed.

`SourceMirror` is what all of this promises of the links: of each object one document at
most is shown, a document is shown once, and one that is replaced or withdrawn stays so.
`BlobSync!Mirror` maps the ledger's documents to `shown`, the known objects whose document
is hidden to `withdrawn`, and the documents ingested, less those in hand or `lost`, to
`used`: `Finalize` shows, the absence that confirms withdraws, the other steps stutter. It
promises nothing of a document that no row links: two executions that overlap can leave
one of those in retrieval, which `OneServedDocumentPerObject` is about.

### TrainingJobs (`MCTrainingJobs`, `TrainingJobsProofs`)

The endpoints (`training_service/api/v1/training_jobs.py`) beside the worker
(`training_service/worker.py`). A request that reads and later writes is two
actions, since another request or the worker may act between them: approval sends
the task and then writes `queued`. The worker's stages follow `fine_tune_model`;
`Raises` is any exception inside its try block, `GivesUp` the ends that write no
status. Spans are confirmed and deleted, and their documents' text is purged and read
again, at any point (`Confirm`, `DeleteSpan`, `PurgeText`, `StoreText`): the export and the
query for the ids filter by that text at different times. MLflow may fail to close the run
once the version and what it consumed are committed (`Raises` in place of `EndRun`). The
broker redelivers (`task_acks_late`), a killed worker's message may or
may not come back, a revoked message is discarded. One worker process runs one
task (`docker-compose.yml`, `--concurrency=1`); `TrainedIsConsumed` rests on it, since
the version's number is read long before its row is inserted.

### DataSources (`MCDataSources`, `DataSourcesProofs`)

The data-plane connections of one `tenant_owned` tenant
(`shared/data_sources/service.py`), its `tenant_data_planes` row
(`shared/data_plane.py`), provisioning (`document_service/data_plane/tasks.py`) and
the deploy's migration (`shared/tenant_store/migrate.py`). A configuration is the
store it points at; credentials and evidence lists are left out. A request reads a
row in one step and writes it in another (`UpdateRead`/`UpdateWrite`, and so on);
a test reads the row, exchanges with the store and records its outcome. Only
activation's UPDATE is conditional (`Claims`), only the plane moves by
compare-and-set (`Cas`, `Provisioned`), and migration does neither.

### TabularFiles (`ServedFile`, `MCTabularFiles`, `TabularFilesProofs`)

One uploaded file: the gateway's handlers (`src/gateway/api/v1/tabular_files.py`)
over `src/shared/tabular_files/store.py`, beside the ingest worker
(`worker.py`, `tasks.py`).

| Variable | Code |
|---|---|
| `file` | the `tabular_files` row: `status`, `served_version` (0: NULL), `deleted_at` |
| `version` | the `tabular_file_versions` rows; `review` says whether a review is there and blocks publication, `contract` whether `contract_version` is set |
| `original`, `parquet` | the object store: each version's original and `data.parquet` |
| `staged` | the worker's staging directory |
| `req` | the requests' locals: `old` is the superseded list of `upload_new_version`, `served` the pointer its file had when it was loaded |
| `queue`, `worker` | the `tabular_ingest` queue and the task in hand |
| `revived`, `abandoned` | history, read by no action |

A request that reads and later writes is two actions (`ReviewRead`/`ReviewWrite`,
`PublishRead`/`PublishWrite`, `DeleteRead`/`MarkDeleted`); the objects a transaction
makes redundant go after it, one at a time (`Purge`, `Wipe`, `Clean`).
`upload_new_version` stores the original in the middle of its transaction:
`FileHeld` is the row lock it holds by then, and every other write of the file's row
waits for it. `WorkerDies` gives the task back to the broker, `TaskRaises` does not:
an exception outside the handlers of `run_profile` and `run_publish` is acknowledged.

`ServedFile` is what chat is promised: pointer and contract move in one step, at a
publication, and go for good at a deletion. Retired, failed and waiting versions are
below its horizon.

### DocumentProcessing (`MCDocumentProcessing`, `DocumentProcessingProofs`)

One document of a tenant with a store of its own. `doc`, `derived` and `registry` are
its row, the generations of spans and chunks stored for it, and its row of
`tenant_document_registry`; `bytes` says whether the object its reference names is
there; `ex` holds the locals of what is in progress, by process.

`process_document` is `Load`, `Claim`, `Resolve`, `Purge`, `Mark`, `StoreSpans`,
`RegisterProcessed`, `StoreChunks`, `Release`, `Unname`, in the order it commits, with
`Unresolvable`, `ExtractFails`, `UnnameFails`, `WriteFailed`, `RegisterFailed` for its
handlers. Beside it are ingestion and its dispatch, reprocessing, both deletions
(`DeleteDocument` marks the row, `HardDelete` removes it), and the `data_plane` worker:
`Sweep` takes back what is stuck, `Recovered` processes it, `ReconcileRead` and
`ReconcileWrite` copy statuses into the registry. `Supersede` is the purge of blob sync
(`blob_sync/sync.py`), which takes the text of a document whose blob was replaced,
whatever becomes of the document meanwhile. `Reprocess` looks at no status, and so may
begin beside an execution still at the document (`stolen`). `Dies` is the end of any of
them at any step. A write of the registry may be lost (`update_status` swallows the
failure).

### Extraction (`MCExtraction`, `ExtractionProofs`)

Batch extraction of one tenant's documents (`extraction_service/worker.py`) against
promotions, edits of the entity catalog and deletions. A document holds one fact; what
is stored of it is the version of the model that found it, in the entity store (`eav`)
and in the definition's generated relation (`child`, or a column of `subject`). A run is
labelled with the version of its last answer, its message is redelivered until it is
acknowledged, and a document that an earlier run of that version has stored is skipped.

### ModelServing (`MCModelServing`, `ModelServingProofs`)

One tenant's models from training to an answer: MLflow's stages and artifact paths, the
table `model_versions` beside it, promotion (which archives, promotes and caches in
separate calls, `PromoteFails` stops between any two), listing, warm-up, and model
serving's request: `Resolve`, `Session`, `Labels`, `Answer` ask the training service
three times, which goes on meanwhile. `WarmUp` loads, under whatever number it is asked
for, the active version's model, as the code does. `sessions` and `accounted` are the
session cache and its own account of its memory.

### InferenceWindows (`MCInferenceWindows`, `ModelServingProofs`)

The windows of a long input (`model_serving/services/inference_service.py`), one
iteration of a loop at a time: `Grow` and `Close` fill a window, `Back` and `NextWindow`
walk back over the overlap, `Label` runs the model on a window and keeps, for each word,
the window it is furthest inside of.

### EntityPipeline (`MCEntityPipeline`, `ExtractionProofs`)

What the extraction worker makes of the labels of one document: `Read` puts entities
together label by label (`entity_normalizer.py`), `Settle` drops what is empty or too
short for its type and collapses the mentions of one fact, `Ask` and `Degrade` send the
rest to a language model or give up on it, `Decide` applies one of its decisions,
already validated against the list as it was (`entity_postprocessor.py`),
`StoreEntities` collapses again. The model may answer anything that passes validation,
and its decisions are applied in every order. `aligned` says whether predictions name
their words, as a fine-tuned model's do. The base model's do not: its entities have no
place in the document, are continued over any distance and are never merged, and only
words with a label reach this module. The word pieces a label may be of are left out.

### ChatTurn (`MCChatTurn`, `DataSourcesProofs`)

One conversation, turn after turn (`chat_api/graph/nodes.py`,
`shared/retrieval/orchestrator.py`).

| Variable | Code |
|---|---|
| `docs`, `indexed` | documents not deleted, and those whose person was extracted |
| `conv`, `saved` | `conversation_entity_state` as the turn's transaction sees it, and as committed |
| `stage`, `message`, `plan`, `resolved`, `unscoped` | the graph's state |
| `clock`, `results`, `recovery` | the deadline, and what each call came back with |
| `answer` | the reply, and the documents it cites |

A question is the names it holds and whether it points back. `Ask` takes any plan the
planner or its fallback can hand on. `Select`, `Reask`, `Abandon`, `Unique`,
`AlreadyBound`, `Clarify`, `TooMany`, `Inherit`, `Unresolved`, `NothingToResolve` are
the ends of `entity_resolution_node`; `RepairScopes`, `Dispatch`, `Invoke`, `Gather`
those of `retrieval_execution_node` and `execute_plan` (the invocations are concurrent,
one step each, and an exception with no message is no failure to `_entry_status`);
`Generate` and `Persist` the citation guardrail and the commit. `Fail` rolls the turn
back at any stage, `Tick` brings the deadline closer, `Delete` takes a document's text
away while its row, and so its id in a binding or a scope, stays.

### SeedBootstrap (`MCSeedBootstrap`, `SeedBootstrapProofs`)

Pre-labelling batches of one tenant (`annotation_service`): the endpoints beside the one
worker (a solo pool, `docker-compose.yml`). A suggestion is its document and a number.

| Variable | Code |
|---|---|
| `sugg` | `suggested_spans` |
| `spans` | spans made of suggestions, with what promoted them (`span_batch_provenance`) |
| `batch`, `outcome` | `prelabel_batches`, `prelabel_batch_documents` |
| `review`, `autos` | `batch_acceptance_records`: of initial batches, and how many the worker wrote for large ones |
| `queue`, `worker`, `req` | the broker, the locals of `run_prelabel_batch_sync` and of the requests |

A run's replacement of a document's suggestions is the DELETE (which removes what it saw)
and the commit: `Prelabel`/`PrelabelWrite` for the endpoints and for single-document jobs,
`Extract`/`ExtractWrite` in a batch. Acceptance reads the gate (`Accept`), then what to
promote (`Gather`), then commits (`AcceptWrite`, or `Reject`). `Finish` and
`FinishPromote` are the transaction that completes a batch. The worker's process dies
(`Dies`: late acknowledgement brings the task back), an exception outside the
extraction does not (`Raises`), and the broker's visibility timeout delivers a running
task again (`Redeliver`).

## What is checked

| Run | Instance | Shows |
|---|---|---|
| `BlobSync` | 4 runs, 1 object, 2 documents, 2 versions, slow runs | six properties in every interleaving of the executions |
| `BlobSyncConsecutive` | 4 runs, one at a time | `MissingMeansConsecutive`, which `sync.py:79` states, is violated: absent, there and absent again, a document is hidden |
| `TrainingJobs` | 2 jobs, 2 requests, 2 tasks, 2 versions, 1 worker | a completed job names its version, a job completes once, what a version consumed is earned, and what it was trained on is consumed, with spans deleted and texts purged meanwhile |
| `DataSources` | 2 connections, 2 stores, 2 requests, 2 executions, a deploy | active was tested, ready was provisioned, a store's identity sticks |
| `TabularFiles` | 3 versions, 2 requests, 1 queued task of each kind and version, 1 worker | the file implements `ServedFile`; what is offered has its objects; no version is left waiting for a task nobody holds |
| `DocumentProcessing` | 1 request or task beside the worker, under fairness | text is stored once and given up only with its blob, no document and no working copy is forgotten, the registry converges |
| `Extraction` | 2 documents, 2 runs, 2 versions, 2 changes | the query surface agrees with the entity store; deleted documents answer nothing; what is skipped is current |
| `ModelServing` | 2 versions, a cache for two small models or one large one | production is what was promoted last, nothing unpromoted answers, the cache accounts for what it holds |
| `InferenceWindows` | 5 words of 0 to 4 pieces, a window set to 5 where the model has 3 positions, overlap 2, under fairness | every word is in a window, windows fit, the labels are the best ones, the cutting ends |
| `EntityPipeline` | 4 words, 2 types, 3 texts, one of them too short, and punctuation, 3 paginations, aligned and not | an entity is of one place, a mention is stored once, a fact is one row that counts its mentions |
| `ChatTurn` | 3 documents, 2 names, 4 questions, 9 shapes of plan, 2 invocations, 2 candidates, 1 repeated question | a turn keeps its budget and its subject, and "nothing found" is honest |
| `SeedBootstrap` | 2 documents, an initial and a large batch, 1 request beside the worker, 2 suggestions, 1 review | a completed batch's state is its documents', a large one is promoted once; reviewed is promoted; no suggestion is lost |

**Why the bounds are enough.** `BlobSync`: a confirmed absence takes an ingestion and two
absences, three executions, and an object that comes back after it a fourth. The
first and the last execution run alone (`MCBlobSync!PairInTheMiddle`), those between
them interleave in every order; the first may also be refused or die, so that the
overlapping ones meet an empty ledger. One of the four at most is cut short (dies, fails,
is refused or aborted): the properties relate the ledger to one execution that went wrong
and to those that did not. One object's ledger row is independent of the
others'. Two documents are a version and its replacement. The executions of
`BlobSyncConsecutive` follow one another: the disagreement needs no overlap.

`TrainingJobs`: two tasks are a double approval or a repeated one, two versions a second
training of a job. While a span is deleted or without its text, or a run was not closed,
one job is submitted and one request is made (`MCTrainingJobs!OneJobMeanwhile`): the
versions of one job and the worker are what these events fall between. `DataSources`:
two connections are a replacement, two stores a wrong one. `MCDataSources!Focus` lets
three of the requests, the executions and the deploy overlap while there is one
connection (a race on a row takes two, and a third to change what they race for) and
keeps one of each in hand when there are two: the races on one row and the order of a
replacement are both covered, their product is not.

`TabularFiles`: three versions are one served, one to
replace it and one that supersedes that while it is published; two requests are that
upload beside a second publication, or a deletion beside either. The worker is a solo
pool (`docker-compose.yml`). `MCTabularFiles!Focus` lets the third version supersede and be
queued, and no more: the worker does not take it up, nothing dies and nothing is deleted
beside it. One version at most is abandoned or revived. Files of two versions are profiled,
published and deleted at any point.

`DocumentProcessing`: a request and the worker are two executions at one document, a
dispatch and a sweep or a replay, or one beside a deletion; `MaxCopies = 2` is the least
that shows text stored twice, and a sweep that steals and a death are explored apart
(`MCDocumentProcessing!Focus`), since either excuses an invariant the other does not, and
so is each of them and a replaced blob.
`Extraction`: a second run meets what the first stored; a promotion and an edit, or two
edits, fall between any two steps of a run. `MCExtraction!Focus` keeps one document, keeps
apart what the invariants exempt (`unsettled`, `flipped`, `late`), and once both runs are
asked for explores a deletion, or two changes while one task is with the broker, but not
all of it together.
`ModelServing`: two versions are one in production and the one that replaces it or was
never promoted. `InferenceWindows`: a word of four pieces exceeds a window of three, an
overlap of two takes a word into three windows, and words of no pieces fall on either
side of each cut. `EntityPipeline`: the second of four words has no label, so that a
mention may run over one hole and must not over two; three entities at once are what a
chain of merges takes; no two punctuation words are neighbours. Three different texts
are what shows an entity merged into two others (with two, the rows
collapse again): those documents are of one page, and the others are of one, of two or of
unknown ones. Where predictions do not name their words pages decide nothing, and all are
on one (`MCEntityPipeline!PagesMatter`). `ChatTurn`: two documents
are about one person and one about another, which makes an ambiguous name, a unique one,
and a question about both that exceeds the candidates; three entries exceed two
invocations; the nine shapes hold every combination of capabilities the recovery rules
tell apart. One call of a turn at most raises without a message, and then no document was
deleted (`MCChatTurn!WordlessAlone`).

`SeedBootstrap`: a request beside the worker is two writers of one document's
suggestions; two suggestions are one reviewed and one that replaces it, or one of each
document; a batch of two documents is reviewed on a sample of one. The initial batch is
of both, and its task is done with when a large one is asked for
(`MCSeedBootstrap!Focus`): the worker is a solo pool, so that they meet only in what the
first has left. Two requests at once exceed what TLC can explore: two acceptances of one
batch are not covered.

What these constraints leave out of the runs of the safety properties, the theorems below
cover: they hold for every value of the constants and every interleaving.

A file that was deleted, a training whose requests are used up, batches that are all
done and a document that was hard deleted are real ends, so deadlock is not checked
where the cfg says so.

**Fairness.** `DocumentProcessing!FairSpec`: beat
sends the reconciliation again and again and the worker takes it up between its other
tasks, so its two steps are strongly fair (a solo pool is not always free, but is free
again and again, and an outage of the store does not last); what the worker executes goes
on, and its sweep runs (weak fairness of both). Requests are not fair.
`InferenceWindows!CutFairSpec` is one loop that runs (weak fairness of `CutNext`).

**History variables.** A property that holds only without some event names it:
`overlapped` (two runs inside the lease), `lost` (documents whose link was lost to a
crash), `overtaken` (a decision written over a later status), `misjudged` (a test
recorded over another configuration, or a pause over a status that is no longer active),
`revived` (a version taken out of `superseded` by a late write: without that exemption
`OfferedHasParquet` is violated, when two publications, a failed enqueue and an upload
that supersedes overlap), `abandoned` (a request or task that died before it handed its
version or document on), `stolen` (a sweep took a document from an execution still at
it, or a reprocess began beside one), `superseded` (a document whose blob was replaced:
its text is gone, and it is hidden), `blinked` (spans whose text was purged between an
export and the query for their ids), `unclosed` (versions whose MLflow run could not be
closed after their spans were recorded), `unsettled` (a promotion while a run was under
way, or of an older version), `flipped` (a definition that was multi-valued no longer
is: its table stays and nobody clears it), `late` (a document deleted after its text was
read), `overwritten` (a training wrote its artifacts where a failed one's lay),
`EntityPipeline!lost` (mentions the language model rejected, or merged into what it
merged elsewhere). Each of those events is reachable, and each exemption was needed:
without it TLC finds the property violated. `witness` and `sighted` exempt nothing: they
are the runs that counted an absence, and the objects seen since the first of them.

## What is proved

Eight modules of proofs for twelve machines. `ServedFile` and `TabularFiles` share
theirs, and so do `ModelServing` and `InferenceWindows`, `DataSources` and `ChatTurn`,
`Extraction` and `EntityPipeline`: the second of each pair has the prefix `Cut`, `Turn`
or `Pipe` in the names that would otherwise be the first's. Every theorem holds for
every value of the constants, from the assumptions the modules name and no other, save
where a hypothesis is stated below. An invariant that a run checks is seldom inductive;
what had to be added to each is the argument.

**`BlobSyncProofs`.** `TypeCorrect`: `TypeOK` carries what the stages say of the locals,
so it is inductive alone.

- `LinkCorrect` (`LedgerLinksServedDocument`). `Finalize` relinks to the document the run
  holds, which might already be hidden, and hides the document it saw linked, which
  another object might link. `LinkInv` adds that a document without an object is not
  hidden (`UnusedNotHidden`), that a document about to be linked belongs to the object in
  hand, is not hidden, is linked by no row and held by no other run (`FreshOK`), and that
  the previous document belongs to the object in hand (`PreviousOK`).
- `MissingWitnessed` (`MissingNeedsWitnesses`). `WitnessInv`: a row's count of absences
  is the number of its witnesses, each witness is past its counting of that object, and an
  execution before `absences` has not counted anything.
- `EndedReleased` (`EndedHoldsNoLease`): the stages after `acquire_lease` have one way out.
- `ServedOnce`, `RunsSynchronise`, `NeverRegresses` (`OneServedDocumentPerObject`,
  `RunSynchronises`, `LedgerNeverRegresses`) hold while no two runs were inside the lease
  at once. `AloneInv`, of one run under the lease: what it saw linked is linked, every
  document in retrieval is linked, in hand or `lost`, and a listed object that is no
  longer on its list is at the version it listed. `ListInv` says that listings are not
  ahead of the source.
- `SourceMirrored` (`ImplementsSourceMirror`): `BlobSync` implements `SourceMirror`,
  however executions overlap. `MirrorInv` adds to `LinkInv` that a lost document exists and
  is not the one a run is about to link, so that what `Finalize` shows was never shown;
  under `LinkInv` what is withdrawn is what the ledger has confirmed missing. TLC finds the
  same under the constants of `BlobSync.cfg`, which does not list it.

**`TrainingJobsProofs`.** `TypeCorrect` adds `NumbersOK`: version numbers stay within the
count of the rows, so that the next number is a version number.

- `CompletedNames` and `ConsumptionEarned` (`CompletedJobNamesItsVersion`,
  `ConsumptionIsEarned`), for any number of workers. `HeldInv`: an execution between
  the insertion of its version and its end holds that row under its job and number.
  `HandInv`: no two hold the same version, which completes in that hand once, and when it
  fails there after that the failure is one of closing the run (`unclosed`).
- `RetryGuarded` and `TrainedConsumed` (`RetryGuard`, `TrainedIsConsumed`) assume
  `OneWorker == \A v, w \in Workers : v = w`, which `docker-compose.yml:325`
  (`--concurrency=1`) justifies. `GuardInv`: a job with a completed version is over,
  and an execution in its training stages works for a job without one, unless a decision
  overtook it. `DataInv`: of what is trained on, what still counts (is there, and was not
  purged between the two queries) is among the ids to be recorded, and the number in hand
  is above every other until the row is inserted, not below one after.

**`DataSourcesProofs`.** `TypeCorrect`.

- `ReadyProvisioned` and `IdentitySticks` (`ReadyMeansProvisioned`,
  `StoreIdentitySticks`). `IdentityInv`: a plane that was never ready records no
  identity, the recorded one is carried by some store, an execution that applied its
  migration left its marker, and the deploy works on planes with an identity only.
- `ActiveTested` (`ActiveWasTested`). `EvidenceInv` says the same of `validated` and
  `paused`: it is from them that a connection becomes active.
- `TurnTypeCorrect` for any documents, names, questions and plans. `TurnInv`: a dispatched
  plan has one result for each of its entries, and none before.
- `BudgetKept` (`WithinBudget`). `BudgetInv`: the calls under way and those made (`Due`)
  are together within the cap, so however they end and wherever the deadline falls there
  is room for the recovery only when it is counted.
- `NegativesAreHonest` and `SubjectKept` (`NegativeIsHonest`, `KeptToSubject`). `FoundInv`:
  only a search of documents finds any, and only in its scope; the recovery finds none
  outside a scope that every search has; what is said to be found is there, or in a file;
  and an error with a message is a failure.

**`TabularFilesProofs`.** `TypeCorrect` needs `RowInv`: the versions in use are numbered
without holes, requests and the worker hold versions there are, and only what the file's
status allows is asked of it. No step writes a status that the file's CHECK constraint
refuses.

- `ServedFileImplemented`: `Spec => Offer!Spec`, the refinement of `ServedFile`.
  `ServedInv` says that no version but the one the file points at has a contract, and
  that one exists (`ContractOK`), that the rows have their shape (`RowsOK`) and that the
  worker's task names a version (`WorkerOK`). Every step is then a publication
  (`SwitchStep`), a deletion (`DeleteStep`) or leaves pointer, contracts and deletion
  alone (`QuietStep`).
- `NoneOrphaned` (`NoOrphanedWork`). `WorkInv`: what is owed is queued, about to be, in
  the worker's hands, or to be reset by the sweep.
- `OfferedHasData` (`OfferedHasParquet`). `DataInv`: what is about to be purged or cleaned
  is out of use for good (`Gone`), and what is about to be switched to has its data or is.

**`DocumentProcessingProofs`.** `TypeCorrect`.

- `ProcessedKeepsText` and `NoneForgotten` (`ProcessedHasText`, `NothingForgotten`), as
  long as no execution died, and of a document's text as long as its blob was not replaced.
  `Held`: a pending document has somebody waiting to take it, a
  processing one somebody who works on it, and a settled ephemeral one that names a working
  copy somebody about to release it.
- `StoredOnce` (`TextStoredOnce`), as long as no sweep and no reprocess took a document
  from an execution still at it. `Once`: one process at most is between its claim and
  its last write (`Alone`), and what is stored fits the stage it is at (`AllFit`).

**`ExtractionProofs`.** `TypeCorrect`.

- `SurfaceIsStored` and `DeletedIsGone` (`SurfaceAgrees`, `DeletedAnswersNothing`).
  `SurfaceInv`: the column of `subject` is what the entity store has or nothing; until a
  definition is flipped a generated table is empty or that of the definition at hand, and
  a worker goes by a definition under which it clears that table (`ChildOK`).
- `SkippedStaysCurrent` (`SkippedIsCurrent`). `SkipInv`: a run not yet taken up stored
  nothing, and, while nothing is unsettled, no run is labelled with a later version than
  the active one and what such a run stored is of that version.
- `PipeTypeCorrect`, `EntitiesOfOnePlace`, `MentionsStoredOnce`, `FactsStoredOnce`
  (`OfOnePlace`, `EachMentionOnce`, `OneRowPerFact`), for every document, gap and answer of
  the model. `PipeInv` says of the labels read so far that the entities begin where the
  document's mentions do, and end where they are gone on from (`ReadInv`); of what is left
  after that, that no two share a mention and that a mention is of one of them or lost
  (`LeftInv`, of which collapsing and merging take none away: `CollapsedPicked`,
  `MergeStep`); and that what may be merged was near when the model was asked, and still is
  since a merge only widens a span (`DecideInv`). `MergedIsWhole`: spans near one of them
  leave no hole between them, so that what a chain of merges builds up is still of one
  place. `EntitiesOfOnePlace` speaks of predictions that name their words, the other two of
  all. What a place in a sequence is numbered (`Numbering`) is a bijection by
  cardinality, with no induction.

**`ModelServingProofs`.** `TypeCorrect` needs `NumbersOK` (registered versions are
`1..n`) and `Sound` (the session cache holds one entry for each id).

- `AccountHolds` (`AccountedIsHeld`): from `Sound`, and what removing and adding an entry
  does to the sum of the sizes.
- `LastPromoted` (`ServesLastPromoted`), for any way a promotion fails half-way.
- `UnpromotedNeverServes` (`NothingUnpromotedServes`). `GateInv`: whatever could be told
  as active, from MLflow, the table or the label cache, was promoted, and as long as no
  training wrote over another's artifacts a path holds its own version's model, and every
  session is of a promoted one, under whatever number.
- `CutTypeCorrect`, `EveryWord`, `BestLabels`, `EveryWindowFits` (`EveryWordInAWindow`,
  `LabelsAreBest`, `WindowsFit`), for inputs of every length, words of any number of pieces
  and every window and overlap. `CutInv` says where the start, the end and the way back
  lie; `LabelInv` that a word's window is the best of those read; `FitInv` that the
  pieces in use are those of the window at hand.

**`SeedBootstrapProofs`.** Assumes, as the module does, that the documents are finitely
many (a batch names a list of ids). `TypeCorrect`.

- `NoneLost` (`NothingLost`) is an action property of the types alone.
- `ReviewedBeforePromotion` (`PromotedWasReviewed`). `GateInv`: a review that one request
  draws is drawn by no other, and a request past the gate holds only suggestions given a
  verdict, outside the sample, or newer than the gate.
- `CompletedAdds` (`CompletedAddsUp`). `BatchInv`: the worker's counts are the outcomes of
  the documents it is done with, a batch in its hands is running, and a large one was
  promoted by the worker once exactly if it is promoted.

Sums over sequences and ranges are recursive functions. What they compute is not proved by
induction over a predicate but of functions that satisfy the recursive equation
(`Account`), where two that differ would differ at a least place (`WFMin`).

**Only model-checked.** Liveness (`RegistryConverges`, `Ends`) is out of the prover's
reach. Every other property a run checks is a theorem, but for `MissingMeansConsecutive`,
which the code violates.

## Where code and documents part

The models reach, and their properties exempt or do not claim, the following:

- a document deleted while it is extracted gets its terminal status written over
  `deleted` (`ocr_worker.py:649` updates by id alone), with spans and chunks, where
  `openspec/specs/document-ingestion/spec.md:204` says its status is `deleted`;
- absences that hide a document need not be consecutive: an unchanged object that is seen
  again leaves its row, and so its count, alone (`blob_sync/sync.py:316`), and a run that
  fails in between does too, where `sync.py:79` and
  `openspec/specs/azure-blob-source-sync/spec.md:62` ask for two consecutive successful
  enumerations (`BlobSyncConsecutive` shows it; `MissingNeedsWitnesses` counts the absences
  only);
- a document whose blob was replaced loses its text while its status stays `processed`
  (`_purge_document_outputs`, `blob_sync/sync.py:374-403`); it is hidden, and
  `ProcessedHasText` leaves it out (`superseded`);
- reprocessing looks at no status (`ocr_worker.py:529-607`), so that beside an execution
  still at the document its text may be stored twice (`stolen`); nothing in the services
  calls it with `reprocess=True` yet, and its tests do for documents that are settled;
- when MLflow fails to close a run (`training_service/worker.py:618`) after the version
  and its spans are committed, the version is marked failed and its spans stay consumed,
  where `consumed_spans.py:18-21` and
  `openspec/specs/human-gated-retraining/spec.md:61-66` say that a failed run records
  nothing (`ConsumptionIsEarned` leaves it out, `unclosed`);
- a completed job may be left with a version that reads `training`: the job is completed
  before the version is, and a death between the two is not made up for;
- a span whose text is purged between the export and the query for the ids
  (`consumed_spans.py:43-50`) is trained on and not recorded (`blinked`), and a span that is
  deleted before the ids are recorded makes the whole run fail by the foreign key;
- a version consumes spans that were created between its export and the query for their
  ids, or that its source filter left out, so `TrainedIsConsumed` is stated one way only;
- a test recorded over a configuration updated meanwhile lets an untested one be
  activated (`misjudged`);
- `pause_connection` reads that a connection is active and later writes `paused`
  whatever its status is by then (`shared/data_sources/service.py:719-734`), so that a
  connection updated and reset meanwhile looks resumable to activation
  (`:610-620`), which then skips the test (`misjudged` again);
- an upload is refused when superseding the only version of a file would give the file a
  status its CHECK constraint excludes (`TabularFiles!BreaksCheck`);
- the deploy's migration writes the plane's status with no condition
  (`tenant_store/migrate.py:144`), so that a plane paused or retired meanwhile is ready
  again, where `shared/data_plane.py:185-190` says that every transition is a
  compare-and-set; `ReadyMeansProvisioned` holds of it all the same;
- an activation whose process dies before the plane is moved, or whose task the broker does
  not take, leaves an active connection over a plane nothing provisions;
- model serving names the version it asked for first and answers with the one that is
  active by then;
- the warm-up of a version loads the active version's artifacts under the number it was
  asked for, and refuses when no version is active (`model_serving/api/v1/warmup.py:20-25`),
  where `openspec/specs/model-warmup/spec.md:59-64` and `:77-82` have it load the version
  named, merely completed as it may be. Once that one is promoted it is answered for by the
  other's model. `NothingUnpromotedServes` says that such a model was promoted, not that
  it is the one named;
- a promotion that fails midway leaves no version in production, and the row of the one
  before may stay promoted, which is the answer when the registry is away;
- chat says that it found nothing, where `guardrails.py:242-244` reserves this for calls
  that succeeded and found nothing: of a tabular file whose rows were found, and are all
  too wide for the prompt (`context_assembler.py:442-456`), and of a call that raised an
  exception with no message, which `orchestrator.py:431` tests for, and so takes for an
  empty result. `NegativeIsHonest` is stated of the failures that have a message, and
  leaves the rows of files out;
- chat says that it found nothing also for plan entries that were never run, because the
  cap discarded them or the deadline had passed before they were sent;
- on the base model's path, whose predictions name no word
  (`entity_normalizer.py:181-182`), an `I-` label continues an entity of its type over any
  distance and any page: `OfOnePlace` is stated of aligned predictions;
- an entity too short for its type (`entity_normalizer.py:307-309`) is dropped without the
  language model's word, which might have merged it into its neighbour; `EachMentionOnce`
  leaves it out;
- a large batch that was promoted, and is delivered again with every document failing, is
  failed and stays promoted, where `openspec/specs/seed-bootstrap/spec.md:414-416` says
  that such a batch is not (`CompletedAddsUp` allows it);
- a suggestion made after the gate of its acceptance was read is promoted with the others
  unreviewed (`PromotedWasReviewed` exempts it), and so are the documents outside the
  sample, by design;
- the suggestions of a rejected initial batch are promoted by a later large batch in
  which their document fails, where `accept_batch` says that the bulk route is closed
  permanently;
- an acceptance review may start, and succeed, while its batch is still running;
- a large batch delivered again after it was promoted makes new suggestions for its
  documents that nothing will promote;
- two runs of one document that overlap leave the suggestions of both, where
  `replace_suggested_spans` says that a document's suggestions describe one run;
- an exception outside the extraction of a document leaves its batch `running` for ever:
  `get_prelabel_batch` settles a batch whose `state` is NULL, which none created by
  `create_prelabel_batch` has.

## Not modelled

Formats, OCR, chunking, prompts and SQL generation, metrics, authentication and the
portal: no state that other steps depend on. They are most of the repository's lines, so
the definitions stand for a modest share of it however completely the parts
above are covered. Of the modelled components: idempotency
keys and the manual sync of blob connections, the 15-second record cache, health
probes, admission gates of a training submission (they only decide whether a job is
created, which is left open); tokenization, the reranker and the graph of model serving;
typed values and routed predictions of extraction; of chat, the domain guardrail (it ends
a turn before anything is read), ranking and deduplication, candidate-document filtering
(off by default), attachments, streaming, charts, feedback and rate limiting. Of the
annotation service: schema proposals and their approval, the LLM review route, spans
edited by hand, masking and grounding, and the job rows of single-document pre-labelling.

## Plan

1. What retrieval may see as an abstract specification of `DocumentProcessing`, and the
   proof that it is implemented.
2. The annotation service's LLM review route.
