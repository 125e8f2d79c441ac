---------------------------- MODULE TabularFiles ----------------------------
(***************************************************************************)
(* ONE uploaded tabular file (shared/tabular_files, and the gateway's      *)
(* api/v1/tabular_files): its row, its versions' rows, their objects, the  *)
(* requests of its administrators and the one ingest worker (a solo pool)  *)
(* that profiles and publishes versions.                                   *)
(*                                                                         *)
(* A step is one database transaction, one change of the object store or   *)
(* one call of the broker. The exception is upload_new_version, whose      *)
(* transaction is open while it stores the original: what it has locked by *)
(* then (FileHeld) nobody else writes.                                     *)
(***************************************************************************)
EXTENDS Integers, FiniteSets, FiniteSetsExt

CONSTANTS
    MaxVersions,    \* bounds how many versions are uploaded
    Requests,       \* requests in progress at once
    MaxTasks        \* bounds how many tasks of one kind and version are queued

ASSUME BoundsAssumption == MaxVersions \in Nat \ {0} /\ MaxTasks \in Nat \ {0}

Versions == 1..MaxVersions
Kinds == {"profile", "publish"}

VARIABLES
    file,        \* the tabular_files row: status, served_version (0: NULL), deleted
    version,     \* the tabular_file_versions rows: status, review, contract
    original,    \* versions whose original is in the object store
    parquet,     \* versions whose data.parquet is
    staged,      \* versions the worker has a staging copy of
    req,         \* the requests' locals
    queue,       \* tabular_ingest: how often each task is queued
    worker       \* the task in the worker's hands

\* History: kept for the properties, read by no action.
VARIABLES
    revived,     \* versions whose status a late write took out of superseded
    abandoned    \* versions whose request or task died before it could hand on

rows == <<file, version>>
objects == <<original, parquet>>
history == <<revived, abandoned>>
vars == <<rows, objects, staged, req, queue, worker, history>>

-----------------------------------------------------------------------------
(* The rows.                                                               *)

\* The CHECK constraints: a version may be superseded, a file may not.
FILE_STATUSES == {"profiling", "needs_review", "publishing", "ready", "failed", "deleted"}
VERSION_STATUSES == FILE_STATUSES \cup {"superseded"}

NoVersion == [status |-> "none", review |-> "none", contract |-> FALSE]
Existing == {v \in Versions : version[v].status # "none"}
Latest(rows_) == Max({v \in Versions : rows_[v].status # "none"})

\* _refresh_file_status, at the end of whatever changes a version's status.
RefreshedStatus(f, rows_) ==
    IF f.deleted THEN f.status
    ELSE IF f.served # 0 THEN "ready" ELSE rows_[Latest(rows_)].status
Refreshed(rows_) == [file EXCEPT !.status = RefreshedStatus(file, rows_)]

\* The statuses that mean a task is to come.
WorkOf(kind) == IF kind = "profile" THEN "profiling" ELSE "publishing"

Revives(v) == IF version[v].status = "superseded" THEN {v} ELSE {}

\* set_version_status: whatever the version's status is by now.
SetVersionStatus(v, status) ==
    /\ version' = [version EXCEPT ![v].status = status]
    /\ file' = Refreshed(version')
    /\ revived' = revived \cup Revives(v)

Idle == [stage |-> "idle", version |-> 0, kind |-> "none", served |-> 0, old |-> {}]
Free == [stage |-> "idle", version |-> 0, kind |-> "none", blocked |-> FALSE, previous |-> 0]

\* The file's row is locked by a transaction that has superseded versions.
FileHeld == \E q \in Requests : req[q].stage = "insert" /\ req[q].old # {}

Init ==
    /\ file = [status |-> "none", served |-> 0, deleted |-> FALSE]
    /\ version = [v \in Versions |-> NoVersion]
    /\ original = {}
    /\ parquet = {}
    /\ staged = {}
    /\ req = [q \in Requests |-> Idle]
    /\ queue = [t \in Kinds \X Versions |-> 0]
    /\ worker = Free
    /\ revived = {}
    /\ abandoned = {}

-----------------------------------------------------------------------------
(* Requests: uploading, and handing a version to the worker.               *)

Leave(q) == req' = [req EXCEPT ![q] = Idle]

\* upload_file, up to its commit. A failure on the way removes everything.
UploadFile(q) ==
    /\ req[q].stage = "idle"
    /\ Existing = {}
    /\ original' = {1}
    /\ version' = [version EXCEPT ![1].status = "profiling"]
    /\ file' = [file EXCEPT !.status = "profiling"]
    /\ req' = [req EXCEPT ![q] = [Idle EXCEPT !.stage = "enqueue", !.version = 1,
                                              !.kind = "profile"]]
    /\ UNCHANGED <<parquet, staged, queue, worker, history>>

\* upload_new_version loads the file, then receives the upload.
Reupload(q) ==
    /\ req[q].stage = "idle"
    /\ Existing # {} /\ ~file.deleted
    /\ req' = [req EXCEPT ![q] = [Idle EXCEPT !.stage = "receive", !.served = file.served]]
    /\ UNCHANGED <<rows, objects, staged, queue, worker, history>>

\* The versions still waiting, by the served version it knows.
Waiting(q) == {v \in Existing \ {req[q].served} :
                  version[v].status \in {"profiling", "needs_review", "failed"}}
NextNumber == Cardinality(Existing) + 1

\* It reads the number the version will have and the versions to supersede.
ReadWaiting(q) ==
    /\ req[q].stage = "receive"
    /\ NextNumber \in Versions
    /\ req' = [req EXCEPT ![q] = [@ EXCEPT !.stage = "supersede", !.version = NextNumber,
                                           !.kind = "profile", !.old = Waiting(q)]]
    /\ UNCHANGED <<rows, objects, staged, queue, worker, history>>

Superseding(old) == [v \in Versions |->
    IF v \in old THEN [version[v] EXCEPT !.status = "superseded"] ELSE version[v]]
\* Superseding the latest version of a file that serves none would make the
\* file's own status superseded.
BreaksCheck(old) ==
    /\ old # {}
    /\ RefreshedStatus(file, Superseding(old)) \notin FILE_STATUSES

\* It has superseded them, whatever they are by now, and stores the original
\* before it commits.
PutOriginal(q) ==
    /\ req[q].stage = "supersede"
    /\ req[q].old # {} => ~FileHeld
    /\ ~BreaksCheck(req[q].old)
    /\ original' = original \cup {req[q].version}
    /\ req' = [req EXCEPT ![q].stage = "insert"]
    /\ UNCHANGED <<rows, parquet, staged, queue, worker, history>>

\* The upload is refused, or the database refuses the file's status.
ReuploadRefused(q) ==
    /\ req[q].stage \in {"receive", "supersede"}
    /\ Leave(q)
    /\ UNCHANGED <<rows, objects, staged, queue, worker, history>>

\* The number is taken by an upload that committed first: rolled back.
NumberTaken(q) ==
    /\ req[q].stage = "insert" /\ req[q].version \in Existing
    /\ Leave(q)
    /\ UNCHANGED <<rows, objects, staged, queue, worker, history>>

InsertVersion(q) ==
    /\ req[q].stage = "insert" /\ req[q].version \notin Existing
    /\ FileHeld => req[q].old # {}
    /\ version' = [Superseding(req[q].old) EXCEPT ![req[q].version].status = "profiling"]
    /\ file' = Refreshed(version')
    /\ req' = [req EXCEPT ![q].stage = "purge"]
    /\ UNCHANGED <<objects, staged, queue, worker, history>>

\* After the commit, the objects of the superseded versions go, one by one.
Purge(q, v) ==
    /\ req[q].stage = "purge" /\ v \in req[q].old
    /\ original' = original \ {v}
    /\ parquet' = parquet \ {v}
    /\ req' = [req EXCEPT ![q].old = @ \ {v}]
    /\ UNCHANGED <<rows, staged, queue, worker, history>>

\* _enqueue_or_fail: the broker takes the task, or the version has failed.
ToEnqueue(q) == \/ req[q].stage = "enqueue"
                \/ req[q].stage = "purge" /\ req[q].old = {}

Enqueue(q) ==
    /\ ToEnqueue(q)
    /\ queue[<<req[q].kind, req[q].version>>] < MaxTasks
    /\ queue' = [queue EXCEPT ![<<req[q].kind, req[q].version>>] = @ + 1]
    /\ Leave(q)
    /\ UNCHANGED <<rows, objects, staged, worker, history>>

\* A variant of EnqueueFails: only the response says that the queue is down.
EnqueueFailsSilently(q) ==
    /\ ToEnqueue(q)
    /\ Leave(q)
    /\ UNCHANGED <<rows, objects, staged, queue, worker, history>>

EnqueueFails(q) ==
    /\ ToEnqueue(q) /\ ~FileHeld
    /\ SetVersionStatus(req[q].version, "failed")
    /\ Leave(q)
    /\ UNCHANGED <<objects, staged, queue, worker, abandoned>>

\* The process dies, or an exception leaves the handler: an open transaction is
\* rolled back, and what was committed is not handed to the worker.
RequestDies(q) ==
    /\ req[q].stage # "idle"
    /\ abandoned' = IF req[q].stage \in {"purge", "enqueue"}
                    THEN abandoned \cup {req[q].version} ELSE abandoned
    /\ Leave(q)
    /\ UNCHANGED <<rows, objects, staged, queue, worker, revived>>

-----------------------------------------------------------------------------
(* Requests: review, publication, deletion.                                *)

Reviewable(v) ==
    /\ ~file.deleted
    /\ version[v].status = "needs_review" /\ version[v].review # "none"

ReviewRead(q, v) ==
    /\ req[q].stage = "idle"
    /\ Reviewable(v)
    /\ req' = [req EXCEPT ![q] = [Idle EXCEPT !.stage = "review", !.version = v]]
    /\ UNCHANGED <<rows, objects, staged, queue, worker, history>>

\* save_review: whatever has become of the version meanwhile.
ReviewWrite(q) ==
    /\ req[q].stage = "review"
    /\ \A p \in Requests : req[p].stage = "insert" => req[q].version \notin req[p].old
    /\ \E review \in {"open", "clear"} :
           version' = [version EXCEPT ![req[q].version].review = review]
    /\ Leave(q)
    /\ UNCHANGED <<file, objects, staged, queue, worker, history>>

\* publish_version, its checks: a review without blockers.
PublishRead(q, v) ==
    /\ req[q].stage = "idle"
    /\ Reviewable(v) /\ version[v].review = "clear"
    /\ req' = [req EXCEPT ![q] = [Idle EXCEPT !.stage = "publish", !.version = v]]
    /\ UNCHANGED <<rows, objects, staged, queue, worker, history>>

\* set_version_status and its commit, before the task is enqueued.
PublishWrite(q) ==
    /\ req[q].stage = "publish" /\ ~FileHeld
    /\ SetVersionStatus(req[q].version, "publishing")
    /\ req' = [req EXCEPT ![q] = [@ EXCEPT !.stage = "enqueue", !.kind = "publish"]]
    /\ UNCHANGED <<objects, staged, queue, worker, abandoned>>

DeleteRead(q) ==
    /\ req[q].stage = "idle"
    /\ Existing # {} /\ ~file.deleted
    /\ req' = [req EXCEPT ![q] = [Idle EXCEPT !.stage = "delete"]]
    /\ UNCHANGED <<rows, objects, staged, queue, worker, history>>

\* mark_deleted; another deletion may have come first.
MarkDeleted(q) ==
    /\ req[q].stage = "delete" /\ ~FileHeld
    /\ IF file.deleted
       THEN UNCHANGED rows
       ELSE /\ file' = [status |-> "deleted", served |-> 0, deleted |-> TRUE]
            /\ version' = [v \in Versions |->
                   IF v \in Existing
                   THEN [version[v] EXCEPT !.status = "deleted", !.contract = FALSE]
                   ELSE version[v]]
    /\ req' = [req EXCEPT ![q].stage = "wipe"]
    /\ UNCHANGED <<objects, staged, queue, worker, history>>

\* The file's objects are removed; a failure is logged.
Wipe(q) ==
    /\ req[q].stage = "wipe"
    /\ \/ original' = {} /\ parquet' = {}
       \/ UNCHANGED objects
    /\ Leave(q)
    /\ UNCHANGED <<rows, staged, queue, worker, history>>

-----------------------------------------------------------------------------
(* The worker.                                                             *)

Task == <<worker.kind, worker.version>>
Done == worker' = Free
Fails == worker' = [worker EXCEPT !.stage = "fail"]

\* run_profile and run_publish read the rows: a version that is not at this
\* work any more, or whose file is deleted, is skipped.
Take(kind, v) ==
    /\ worker.stage = "idle" /\ queue[<<kind, v>>] > 0
    /\ queue' = [queue EXCEPT ![<<kind, v>>] = @ - 1]
    /\ IF version[v].status = WorkOf(kind) /\ ~file.deleted
       THEN worker' = [Free EXCEPT !.stage = kind, !.version = v, !.kind = kind,
                                   !.blocked = version[v].review # "clear"]
       ELSE UNCHANGED worker
    /\ UNCHANGED <<rows, objects, staged, req, history>>

\* The worker stages the original anew and profiles it, or cannot.
Profile ==
    /\ worker.stage = "profile"
    /\ \/ /\ worker.version \in original
          /\ staged' = staged \cup {worker.version}
          /\ worker' = [worker EXCEPT !.stage = "save"]
       \/ /\ staged' = staged \ {worker.version}
          /\ Fails
    /\ UNCHANGED <<rows, objects, req, queue, history>>

\* save_profile: the draft review has no description, so it blocks publication.
SaveProfile ==
    /\ worker.stage = "save" /\ ~FileHeld
    /\ version' = [version EXCEPT ![worker.version] =
                      [@ EXCEPT !.status = "needs_review", !.review = "open"]]
    /\ file' = Refreshed(version')
    /\ revived' = revived \cup Revives(worker.version)
    /\ Done
    /\ UNCHANGED <<objects, staged, req, queue, abandoned>>

\* _fail
FailVersion ==
    /\ worker.stage = "fail" /\ ~FileHeld
    /\ SetVersionStatus(worker.version, "failed")
    /\ Done
    /\ UNCHANGED <<objects, staged, req, queue, abandoned>>

\* The staging copy, made anew if it is gone, becomes data.parquet; or the
\* blockers, the staging, the casts or the object store stop it.
WriteParquet ==
    /\ worker.stage = "publish"
    /\ \/ /\ ~worker.blocked
          /\ worker.version \in staged \cup original
          /\ staged' = staged \cup {worker.version}
          /\ parquet' = parquet \cup {worker.version}
          /\ worker' = [worker EXCEPT !.stage = "switch"]
       \/ /\ \/ UNCHANGED staged
             \/ ~worker.blocked /\ staged' = staged \cup ({worker.version} \cap original)
          /\ Fails
          /\ UNCHANGED parquet
    /\ UNCHANGED <<rows, original, req, queue, history>>

\* Variants of Switched (the replaced version keeps its contract) and of
\* Replaced (the version published again counts as the one it replaces).
SwitchedKeepingContract(v) ==
    [version EXCEPT ![v] = [@ EXCEPT !.status = "ready", !.contract = TRUE]]
ReplacedOrSame(v) == file.served

\* The version whose objects are to go when v is served: the served one, if
\* there is one and it is another.
Replaced(v) == IF file.served = v THEN 0 ELSE file.served
Switched(v) == [w \in Versions |->
    IF w = v THEN [version[w] EXCEPT !.status = "ready", !.contract = TRUE]
    ELSE IF w = file.served
         THEN [version[w] EXCEPT !.status = "superseded", !.contract = FALSE]
         ELSE version[w]]

\* switch_served_version, under the lock of the file's row.
SwitchServed ==
    /\ worker.stage = "switch" /\ ~FileHeld /\ ~file.deleted
    /\ version' = Switched(worker.version)
    /\ file' = [file EXCEPT !.served = worker.version, !.status = "ready"]
    /\ revived' = revived \cup Revives(worker.version)
    /\ worker' = IF Replaced(worker.version) = 0 THEN Free
                 ELSE [worker EXCEPT !.stage = "clean", !.previous = Replaced(worker.version)]
    /\ UNCHANGED <<objects, staged, req, queue, abandoned>>

\* It finds the file deleted: LookupError.
SwitchRefused ==
    /\ worker.stage = "switch" /\ ~FileHeld /\ file.deleted
    /\ worker' = [worker EXCEPT !.stage = "drop"]
    /\ UNCHANGED <<rows, objects, staged, req, queue, history>>

\* What was written for a deleted file goes.
Drop ==
    /\ worker.stage = "drop"
    /\ original' = original \ {worker.version}
    /\ parquet' = parquet \ {worker.version}
    /\ Done
    /\ UNCHANGED <<rows, staged, req, queue, history>>

\* The replaced version's objects and staging copy go.
Clean ==
    /\ worker.stage = "clean"
    /\ original' = original \ {worker.previous}
    /\ parquet' = parquet \ {worker.previous}
    /\ staged' = staged \ {worker.previous}
    /\ Done
    /\ UNCHANGED <<rows, req, queue, history>>

\* An exception outside the handlers of run_profile and run_publish (the object
\* store cannot be reached when the task starts, a transaction fails): the task
\* has failed, is acknowledged, and does not come back.
TaskRaises ==
    /\ worker.stage # "idle"
    /\ abandoned' = IF worker.stage \in {"clean", "drop"} THEN abandoned
                    ELSE abandoned \cup {worker.version}
    /\ Done
    /\ UNCHANGED <<rows, objects, staged, req, queue, revived>>

\* The worker dies before it acknowledges the task: the broker delivers it again.
WorkerDies ==
    /\ worker.stage # "idle"
    /\ queue' = [queue EXCEPT ![Task] = @ + 1]
    /\ staged' \in {staged, {}}
    /\ Done
    /\ UNCHANGED <<rows, objects, req, history>>

-----------------------------------------------------------------------------
RequestStep(q) ==
    \/ UploadFile(q)
    \/ Reupload(q) \/ ReadWaiting(q) \/ PutOriginal(q) \/ ReuploadRefused(q)
    \/ NumberTaken(q) \/ InsertVersion(q)
    \/ Enqueue(q) \/ EnqueueFails(q) \/ RequestDies(q)
    \/ ReviewWrite(q) \/ PublishWrite(q)
    \/ DeleteRead(q) \/ MarkDeleted(q) \/ Wipe(q)
    \/ \E v \in Versions : Purge(q, v) \/ ReviewRead(q, v) \/ PublishRead(q, v)

WorkerStep ==
    \/ \E kind \in Kinds, v \in Versions : Take(kind, v)
    \/ Profile \/ SaveProfile \/ FailVersion
    \/ WriteParquet \/ SwitchServed \/ SwitchRefused \/ Drop \/ Clean
    \/ TaskRaises \/ WorkerDies

Next == WorkerStep \/ \E q \in Requests : RequestStep(q)

Spec == Init /\ [][Next]_vars

-----------------------------------------------------------------------------
(* Types.                                                                  *)

RequestStages == {"idle", "receive", "supersede", "insert", "purge", "enqueue", "review",
                  "publish", "delete", "wipe"}
WorkerStages == {"idle", "profile", "save", "fail", "publish", "switch", "drop", "clean"}

TypeOK ==
    /\ file \in [status : FILE_STATUSES \cup {"none"}, served : 0..MaxVersions,
                 deleted : BOOLEAN]
    /\ version \in [Versions -> [status : VERSION_STATUSES \cup {"none"},
                                 review : {"none", "open", "clear"}, contract : BOOLEAN]]
    /\ original \subseteq Versions
    /\ parquet \subseteq Versions
    /\ staged \subseteq Versions
    /\ req \in [Requests -> [stage : RequestStages, version : 0..MaxVersions,
                             kind : Kinds \cup {"none"}, served : 0..MaxVersions,
                             old : SUBSET Versions]]
    /\ queue \in [Kinds \X Versions -> Nat]
    /\ worker \in [stage : WorkerStages, version : 0..MaxVersions,
                   kind : Kinds \cup {"none"}, blocked : BOOLEAN,
                   previous : 0..MaxVersions]
    /\ revived \subseteq Versions
    /\ abandoned \subseteq Versions
    /\ worker.stage # "idle" => worker.version \in Versions /\ worker.kind \in Kinds
    /\ \A q \in Requests :
        req[q].stage \in {"supersede", "insert", "purge", "enqueue", "review", "publish"}
            => req[q].version \in Versions

-----------------------------------------------------------------------------
(* What an uploaded file promises.                                         *)

Contracts == {v \in Versions : version[v].contract}
Offer == INSTANCE ServedFile WITH
            served <- file.served, contracts <- Contracts, deleted <- file.deleted

\* Whatever requests and tasks overlap, die or are delivered again, the file's
\* pointer and the versions' contracts only move as ServedFile says: together, at
\* a publication, to one version; and away, for good, at a deletion
\* (switch_served_version under the row's lock, mark_deleted).
ImplementsServedFile == Offer!Spec

\* ready_contracts: what chat is offered.
Offered(v) ==
    /\ file.served = v /\ ~file.deleted /\ file.status = "ready"
    /\ version[v].status = "ready" /\ version[v].contract

\* The version chat is offered has its data.parquet, although replaced and
\* superseded versions lose their objects after the commits that replace them,
\* in other processes. It may fail only for a version that a late write has
\* taken out of superseded: then its upload's purge may still be to come.
OfferedHasParquet ==
    \A v \in Versions : Offered(v) /\ v \notin revived => v \in parquet

\* A version that says it is being profiled or published is: its task is queued
\* or running, or the request that is to enqueue it is still there. Nothing
\* would ever look at it again otherwise. It may fail only for a version whose
\* request or task died without handing on (abandoned).
Handed(kind, v) ==
    \/ queue[<<kind, v>>] > 0
    \/ worker.kind = kind /\ worker.version = v
    \/ \E q \in Requests : req[q].stage \in {"purge", "enqueue"}
                           /\ req[q].kind = kind /\ req[q].version = v
NoOrphanedWork ==
    ~file.deleted => \A v \in Versions, kind \in Kinds :
        version[v].status = WorkOf(kind) /\ v \notin abandoned => Handed(kind, v)

=============================================================================
