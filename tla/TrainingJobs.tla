---------------------------- MODULE TrainingJobs ----------------------------
(***************************************************************************)
(* The training jobs of ONE tenant: the submission, approval, rejection    *)
(* and cancellation endpoints (training_service/api/v1/training_jobs.py)   *)
(* beside the Celery worker that fine-tunes (training_service/worker.py),  *)
(* over training_jobs, model_versions and span_training_consumption.       *)
(*                                                                         *)
(* A step is one database transaction, one call of another service or one  *)
(* message of the broker. No status write looks at the status it replaces, *)
(* so requests and executions overwrite each other in every order.         *)
(***************************************************************************)
EXTENDS Integers, FiniteSets

CONSTANTS
    Jobs, Requests, Workers,
    RequestedScopes,  \* the source scopes submissions ask for
    Tasks,            \* Celery task ids; bounds how many approvals are sent
    Versions,         \* model_versions ids; bounds how many rows are inserted
    ManualSpans, AutomatedSpans,  \* the spans reviewers may confirm, by source; each
                                  \* stands for those of one document, too
    NoJob, NoTask, NoVersion

ASSUME IdentityAssumption ==
    NoJob \notin Jobs /\ NoTask \notin Tasks /\ NoVersion \notin Versions
Scopes == {"none", "manual", "automated", "import"}
ASSUME ScopeAssumption == RequestedScopes \subseteq Scopes
ASSUME VersionsFinite == IsFiniteSet(Versions)

Spans == ManualSpans \cup AutomatedSpans

VARIABLES
    job,        \* training_jobs
    version,    \* model_versions, the rows the worker inserts
    consumed,   \* span_training_consumption: the number of a span's first consumer, or 0
    spans,      \* spans and the text of their documents: what is there of each
    task,       \* the job a Celery task was sent for
    queue,      \* tasks with a message the broker will deliver
    revoked,    \* tasks a worker was told to discard
    req,        \* a request between what it read and what it writes
    worker      \* the locals of fine_tune_model

\* History: kept for the properties, read by no action.
VARIABLES
    overtaken,  \* jobs whose approval or rejection was written over a later status
    dataset,    \* the spans a version was trained on
    blinked,    \* spans whose text was purged between an export and the ids of its spans
    unclosed    \* versions whose MLflow run could not be closed after their spans were recorded

tables == <<job, version, consumed, spans>>
broker == <<task, queue, revoked>>
history == <<overtaken, dataset, blinked, unclosed>>
vars == <<tables, broker, req, worker, history>>

-----------------------------------------------------------------------------
Terminal == {"completed", "failed", "cancelled"}
Statuses == {"absent", "pending_approval", "queued", "running", "rejected"} \cup Terminal

\* Stages of fine_tune_model inside its try block, then the whole.
InTry == {"run", "export", "ids", "train", "insert", "complete", "record", "end"}
Stages == {"free", "start", "failing", "failing_version"} \cup InTry

Free == [stage |-> "free", task |-> NoTask, dataset |-> {}, ids |-> {},
         number |-> 0, version |-> NoVersion]
Request(stage, j, t) == [stage |-> stage, job |-> j, task |-> t]
Idle == Request("idle", NoJob, NoTask)
Answered(r) == [req EXCEPT ![r] = Request("done", NoJob, NoTask)]

NoRow == [job |-> NoJob, status |-> "none", number |-> 0]

Init ==
    /\ job = [j \in Jobs |-> [status |-> "absent", scope |-> "none",
                              task |-> NoTask, version |-> NoVersion]]
    /\ version = [v \in Versions |-> NoRow]
    /\ consumed = [s \in Spans |-> 0]
    /\ spans = [s \in Spans |-> "unborn"]
    /\ task = [t \in Tasks |-> NoJob]
    /\ queue = {}
    /\ revoked = {}
    /\ req = [r \in Requests |-> Idle]
    /\ worker = [w \in Workers |-> Free]
    /\ overtaken = {}
    /\ dataset = [v \in Versions |-> {}]
    /\ blinked = {}
    /\ unclosed = {}

-----------------------------------------------------------------------------
(* The spans: of those there are, an export covers the ones on a document  *)
(* that has text.                                                          *)

Existing == {s \in Spans : spans[s] \in {"readable", "textless"}}
Readable == {s \in Spans : spans[s] = "readable"}

\* A reviewer confirms a span.
Confirm(s) ==
    /\ spans[s] = "unborn"
    /\ spans' = [spans EXCEPT ![s] = "readable"]
    /\ UNCHANGED <<job, version, consumed, broker, req, worker, history>>

\* delete_span: the row of the consumption goes with it (ON DELETE CASCADE).
DeleteSpan(s) ==
    /\ s \in Existing
    /\ spans' = [spans EXCEPT ![s] = "deleted"]
    /\ consumed' = [consumed EXCEPT ![s] = 0]
    /\ UNCHANGED <<job, version, broker, req, worker, history>>

\* The text of the span's document is purged: to be processed again, or because a
\* blob replaced it. The span stays.
PurgeText(s) ==
    /\ s \in Readable
    /\ spans' = [spans EXCEPT ![s] = "textless"]
    /\ blinked' = IF \E w \in Workers : worker[w].stage = "ids" /\ s \in worker[w].dataset
                  THEN blinked \cup {s} ELSE blinked
    /\ UNCHANGED <<job, version, consumed, broker, req, worker, overtaken, dataset, unclosed>>

\* It is processed, and its text stored again.
StoreText(s) ==
    /\ spans[s] = "textless"
    /\ spans' = [spans EXCEPT ![s] = "readable"]
    /\ UNCHANGED <<job, version, consumed, broker, req, worker, history>>

-----------------------------------------------------------------------------
(* The endpoints.                                                          *)

\* create_training_job: the gates passed, the row is committed.
Submit(j, scope) ==
    /\ job[j].status = "absent"
    /\ job' = [job EXCEPT ![j].status = "pending_approval", ![j].scope = scope]
    /\ UNCHANGED <<version, consumed, spans, broker, req, worker, history>>

\* approve_training_job: read the status, send the task, and only then write.
ApproveSend(r, j) ==
    /\ req[r].stage = "idle" /\ job[j].status = "pending_approval"
    /\ \E t \in Tasks :
        /\ task[t] = NoJob
        /\ task' = [task EXCEPT ![t] = j]
        /\ queue' = queue \cup {t}
        /\ req' = [req EXCEPT ![r] = Request("approve", j, t)]
    /\ UNCHANGED <<tables, revoked, worker, history>>

\* The decision of r is written over a status that is not the one r read.
Overtaken(r) == IF job[req[r].job].status = "pending_approval" THEN overtaken
                ELSE overtaken \cup {req[r].job}

ApproveWrite(r) ==
    /\ req[r].stage = "approve"
    /\ job' = [job EXCEPT ![req[r].job].status = "queued", ![req[r].job].task = req[r].task]
    /\ req' = Answered(r)
    /\ overtaken' = Overtaken(r)
    /\ UNCHANGED <<version, consumed, spans, broker, worker, dataset, blinked, unclosed>>

RejectRead(r, j) ==
    /\ req[r].stage = "idle" /\ job[j].status = "pending_approval"
    /\ req' = [req EXCEPT ![r] = Request("reject", j, NoTask)]
    /\ UNCHANGED <<tables, broker, worker, history>>

RejectWrite(r) ==
    /\ req[r].stage = "reject"
    /\ job' = [job EXCEPT ![req[r].job].status = "rejected"]
    /\ req' = Answered(r)
    /\ overtaken' = Overtaken(r)
    /\ UNCHANGED <<version, consumed, spans, broker, worker, dataset, blinked, unclosed>>

\* cancel_training_job: revoke the task the row names, if it names one.
CancelRevoke(r, j) ==
    /\ req[r].stage = "idle"
    /\ job[j].status \in {"pending_approval", "queued", "running"}
    /\ revoked' = revoked \cup ({job[j].task} \ {NoTask})
    /\ req' = [req EXCEPT ![r] = Request("cancel", j, NoTask)]
    /\ UNCHANGED <<tables, task, queue, worker, history>>

CancelWrite(r) ==
    /\ req[r].stage = "cancel"
    /\ job' = [job EXCEPT ![req[r].job].status = "cancelled"]
    /\ req' = Answered(r)
    /\ UNCHANGED <<version, consumed, spans, broker, worker, history>>

\* The API process dies between the two.
RequestDies(r) ==
    /\ req[r].stage \in {"approve", "reject", "cancel"}
    /\ req' = Answered(r)
    /\ UNCHANGED <<tables, broker, worker, history>>

-----------------------------------------------------------------------------
(* The broker: late acknowledgement, one task in hand for each worker.     *)

Pick(w, t) ==
    /\ worker[w].stage = "free" /\ t \in queue
    /\ queue' = queue \ {t}
    /\ worker' = [worker EXCEPT ![w] = [Free EXCEPT !.stage = "start", !.task = t]]
    /\ UNCHANGED <<tables, task, revoked, req, history>>

\* A revocation is a broadcast: a worker that heard it discards the message.
Discard(t) ==
    /\ t \in queue \cap revoked
    /\ queue' = queue \ {t}
    /\ UNCHANGED <<tables, task, revoked, req, worker, history>>

\* The visibility timeout of the broker passes while the task is in hand.
Redeliver(w) ==
    /\ worker[w].stage # "free"
    /\ queue' = queue \cup {worker[w].task}
    /\ UNCHANGED <<tables, task, revoked, req, worker, history>>

\* The process dies, or is terminated: its message comes back, or it counts
\* as acknowledged (Celery's default when only the pool's child is lost).
Killed(w) ==
    /\ worker[w].stage # "free"
    /\ queue' \in {queue, queue \cup {worker[w].task}}
    /\ worker' = [worker EXCEPT ![w] = Free]
    /\ UNCHANGED <<tables, task, revoked, req, history>>

-----------------------------------------------------------------------------
(* fine_tune_model.                                                        *)

JobOf(w) == task[worker[w].task]
Goes(w, stage) == worker' = [worker EXCEPT ![w].stage = stage]
Ends(w) == worker' = [worker EXCEPT ![w] = Free]
SetStatus(j, status) == job' = [job EXCEPT ![j].status = status]

\* A variant of Skips: a failed job is trained again.
SkipsUnlessFailed(j) == job[j].status \in {"completed", "cancelled"}

Skips(j) == job[j].status \in Terminal

ReadStatus(w) ==
    /\ worker[w].stage = "start"
    /\ IF Skips(JobOf(w)) THEN Ends(w) ELSE Goes(w, "run")
    /\ UNCHANGED <<tables, broker, req, history>>

\* That read fails: the job is marked failed at once.
ReadFails(w) ==
    /\ worker[w].stage = "start"
    /\ SetStatus(JobOf(w), "failed")
    /\ Ends(w)
    /\ UNCHANGED <<version, consumed, spans, broker, req, history>>

\* The tenant's store is unreachable: retried while retries are left.
Postpone(w) ==
    /\ worker[w].stage = "start"
    /\ queue' = queue \cup {worker[w].task}
    /\ Ends(w)
    /\ UNCHANGED <<tables, task, revoked, req, history>>

\* No retry is left, or MLflow fails before the try block, or after it in the
\* handler: the task ends and the job's status stays what it is.
GivesUp(w) ==
    /\ worker[w].stage \in {"start", "run", "failing"}
    /\ Ends(w)
    /\ UNCHANGED <<tables, broker, req, history>>

MarkRunning(w) ==
    /\ worker[w].stage = "run"
    /\ SetStatus(JobOf(w), "running")
    /\ Goes(w, "export")
    /\ UNCHANGED <<version, consumed, spans, broker, req, history>>

\* What /annotation-export returns for a source (annotation_service).
Exported(scope) == CASE scope = "none"      -> Readable
                     [] scope = "manual"    -> Readable \cap ManualSpans
                     [] scope = "automated" -> Readable \cap AutomatedSpans
                     [] scope = "import"    -> {}

\* _load_annotated_dataset. Documents without a span are exported too, so an
\* empty set of spans need not mean an empty export (which raises, see Raises).
Export(w) ==
    /\ worker[w].stage = "export"
    /\ worker' = [worker EXCEPT ![w].stage = "ids",
                                ![w].dataset = Exported(job[JobOf(w)].scope)]
    /\ UNCHANGED <<tables, broker, req, history>>

\* dataset_span_ids: every span on a document that has text now, whatever the scope.
CaptureIds(w) ==
    /\ worker[w].stage = "ids"
    /\ worker' = [worker EXCEPT ![w].stage = "train", ![w].ids = Readable]
    /\ UNCHANGED <<tables, broker, req, history>>

\* COALESCE(MAX(version_number), 0) + 1
NextNumber ==
    CHOOSE n \in 1..Cardinality(Versions) + 1 :
        /\ \A v \in Versions : version[v].number < n
        /\ \A m \in 1..n - 1 : \E v \in Versions : version[v].number >= m

\* Training, evaluation and ONNX export are over; the number names the
\* artifacts' path before any row holds it.
TakeNumber(w) ==
    /\ worker[w].stage = "train"
    /\ worker' = [worker EXCEPT ![w].stage = "insert", ![w].number = NextNumber]
    /\ UNCHANGED <<tables, broker, req, history>>

InsertVersion(w) ==
    /\ worker[w].stage = "insert"
    /\ \E v \in Versions :
        /\ version[v] = NoRow
        /\ version' = [version EXCEPT ![v] = [job |-> JobOf(w), status |-> "training",
                                              number |-> worker[w].number]]
        /\ dataset' = [dataset EXCEPT ![v] = worker[w].dataset]
        /\ worker' = [worker EXCEPT ![w].stage = "complete", ![w].version = v]
    /\ UNCHANGED <<job, consumed, spans, broker, req, overtaken, blinked, unclosed>>

\* A variant of Complete: the job's version is not named.
CompleteUnnamed(w) ==
    /\ worker[w].stage = "complete"
    /\ SetStatus(JobOf(w), "completed")
    /\ Goes(w, "record")
    /\ UNCHANGED <<version, consumed, spans, broker, req, history>>

Complete(w) ==
    /\ worker[w].stage = "complete"
    /\ job' = [job EXCEPT ![JobOf(w)].status = "completed",
                          ![JobOf(w)].version = worker[w].version]
    /\ Goes(w, "record")
    /\ UNCHANGED <<version, consumed, spans, broker, req, history>>

\* A variant of Consumption: a later run takes the span over.
ConsumptionOverwrites(w) ==
    [s \in Spans |-> IF s \in worker[w].ids THEN worker[w].number ELSE consumed[s]]

\* record_consumed_spans, ON CONFLICT (span_id) DO NOTHING.
Consumption(w) ==
    [s \in Spans |-> IF s \in worker[w].ids /\ consumed[s] = 0
                     THEN worker[w].number ELSE consumed[s]]

\* A variant of Record: the version's own row is left for later.
RecordUnflipped(w) ==
    /\ worker[w].stage = "record" /\ worker[w].ids \subseteq Existing
    /\ consumed' = Consumption(w)
    /\ Goes(w, "end")
    /\ UNCHANGED <<job, version, spans, broker, req, history>>

\* One transaction: the version reaches completed, and its spans are consumed. A
\* span deleted since its id was read breaks the foreign key (and Raises).
Record(w) ==
    /\ worker[w].stage = "record" /\ worker[w].ids \subseteq Existing
    /\ version' = [version EXCEPT ![worker[w].version].status = "completed"]
    /\ consumed' = Consumption(w)
    /\ Goes(w, "end")
    /\ UNCHANGED <<job, spans, broker, req, history>>

\* The MLflow run is closed and the message acknowledged.
EndRun(w) ==
    /\ worker[w].stage = "end"
    /\ Ends(w)
    /\ UNCHANGED <<tables, broker, req, history>>

\* Whatever raises inside the try block, closing the MLflow run included.
Raises(w) ==
    /\ worker[w].stage \in InTry
    /\ Goes(w, "failing")
    /\ unclosed' = IF worker[w].stage = "end" THEN unclosed \cup {worker[w].version}
                   ELSE unclosed
    /\ UNCHANGED <<tables, broker, req, overtaken, dataset, blinked>>

FailJob(w) ==
    /\ worker[w].stage = "failing"
    /\ SetStatus(JobOf(w), "failed")
    /\ Goes(w, "failing_version")
    /\ UNCHANGED <<version, consumed, spans, broker, req, history>>

\* The row's update may fail too, and is then let go.
FailVersion(w) ==
    /\ worker[w].stage = "failing_version"
    /\ \/ /\ worker[w].version # NoVersion
          /\ version' = [version EXCEPT ![worker[w].version].status = "failed"]
       \/ version' = version
    /\ Ends(w)
    /\ UNCHANGED <<job, consumed, spans, broker, req, history>>

-----------------------------------------------------------------------------
Endpoint(r) ==
    \/ \E j \in Jobs : ApproveSend(r, j) \/ RejectRead(r, j) \/ CancelRevoke(r, j)
    \/ ApproveWrite(r) \/ RejectWrite(r) \/ CancelWrite(r) \/ RequestDies(r)

Work(w) ==
    \/ \E t \in Tasks : Pick(w, t)
    \/ Redeliver(w) \/ Killed(w)
    \/ ReadStatus(w) \/ ReadFails(w) \/ Postpone(w) \/ GivesUp(w)
    \/ MarkRunning(w) \/ Export(w) \/ CaptureIds(w) \/ TakeNumber(w)
    \/ InsertVersion(w) \/ Complete(w) \/ Record(w) \/ EndRun(w)
    \/ Raises(w) \/ FailJob(w) \/ FailVersion(w)

Next ==
    \/ \E s \in Spans : Confirm(s) \/ DeleteSpan(s) \/ PurgeText(s) \/ StoreText(s)
    \/ \E j \in Jobs, scope \in RequestedScopes : Submit(j, scope)
    \/ \E r \in Requests : Endpoint(r)
    \/ \E t \in Tasks : Discard(t)
    \/ \E w \in Workers : Work(w)

Spec == Init /\ [][Next]_vars

-----------------------------------------------------------------------------
JobRow == [status : Statuses, scope : Scopes, task : Tasks \cup {NoTask},
           version : Versions \cup {NoVersion}]
VersionRow == [job : Jobs \cup {NoJob}, status : {"none", "training", "completed", "failed"},
               number : Nat]
Execution == [stage : Stages, task : Tasks \cup {NoTask}, dataset : SUBSET Spans,
              ids : SUBSET Spans, number : Nat, version : Versions \cup {NoVersion}]

\* Types, with what the stages of an execution and of a request say of their locals.
TypeOK ==
    /\ job \in [Jobs -> JobRow]
    /\ version \in [Versions -> VersionRow]
    /\ consumed \in [Spans -> Nat]
    /\ spans \in [Spans -> {"unborn", "readable", "textless", "deleted"}]
    /\ task \in [Tasks -> Jobs \cup {NoJob}]
    /\ queue \subseteq Tasks /\ revoked \subseteq Tasks
    /\ req \in [Requests -> [stage : {"idle", "approve", "reject", "cancel", "done"},
                             job : Jobs \cup {NoJob}, task : Tasks \cup {NoTask}]]
    /\ worker \in [Workers -> Execution]
    /\ overtaken \subseteq Jobs
    /\ dataset \in [Versions -> SUBSET Spans]
    /\ blinked \subseteq Spans
    /\ unclosed \subseteq Versions
    /\ \A t \in queue : task[t] \in Jobs
    /\ \A r \in Requests : /\ req[r].stage \in {"approve", "reject", "cancel"}
                                => req[r].job \in Jobs
                           /\ req[r].stage = "approve" => req[r].task \in Tasks
    /\ \A w \in Workers :
        /\ worker[w].stage # "free" => worker[w].task \in Tasks /\ JobOf(w) \in Jobs
        /\ worker[w].stage \in {"complete", "record", "end"} => worker[w].version \in Versions

-----------------------------------------------------------------------------
(* What the training of a tenant's models promises.                        *)

\* The version a span was consumed by.
Consumer(s) == {v \in Versions : version[v].number = consumed[s]}

\* A job that reads completed names a version, and the version a job names is
\* one that was trained for it: the row is inserted before the job says so
\* (fine_tune_model), whatever requests, redeliveries and crashes come between.
CompletedJobNamesItsVersion ==
    \A j \in Jobs :
        /\ job[j].status = "completed" => job[j].version # NoVersion
        /\ job[j].version # NoVersion => version[job[j].version].job = j

\* A span is consumed only on behalf of a version that completed, and whose job had
\* been marked completed with a version (record_consumed_spans is called in the
\* transaction that completes the version, after the job). That a failed run records
\* nothing is so but for one (unclosed): mlflow.end_run comes after that transaction
\* and inside the try block, and when it raises the version reads failed, its spans
\* consumed.
ConsumptionIsEarned ==
    \A s \in Spans : consumed[s] # 0 =>
        \E v \in Consumer(s) : /\ version[v].status = "completed" \/ v \in unclosed
                               /\ job[version[v].job].version # NoVersion

\* What a completed version was trained on counts as consumed, by it or by one
\* before it, for as long as the span is there: accumulation (_DATASET_SPAN_IDS_SQL,
\* record_consumed_spans) neither counts such a span again nor moves it to a later
\* version, whichever spans are confirmed, deleted, or without text while the version
\* is trained, and however often its job is run. But for those whose text was purged
\* between the export and the query for the ids (blinked), which the second one misses.
TrainedIsConsumed ==
    \A v \in Versions : version[v].status = "completed" =>
        \A s \in (dataset[v] \cap Existing) \ blinked : consumed[s] \in 1..version[v].number

\* The retry guard of the worker: unless a decision was written over a later
\* status, a job gets one completed version at most, however often its
\* messages are redelivered, its worker killed and its runs failed.
RetryGuard ==
    \A j \in Jobs \ overtaken :
        Cardinality({v \in Versions : version[v].job = j /\ version[v].status = "completed"}) <= 1

=============================================================================
