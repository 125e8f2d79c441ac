------------------------- MODULE TabularFilesProofs -------------------------
(***************************************************************************)
(* Proofs about TabularFiles for every number of versions and requests: it *)
(* implements ServedFile, its types are correct (no step asks for a status *)
(* the file's CHECK constraint refuses), no version is left to a task      *)
(* nobody holds, and what is offered has its data.                         *)
(***************************************************************************)
EXTENDS TabularFiles, FiniteSetTheorems, TLAPS

VersionRow == [status : VERSION_STATUSES \cup {"none"},
               review : {"none", "open", "clear"}, contract : BOOLEAN]

\* The shape of the rows. The file's status plays no part in the argument.
RowsOK ==
    /\ file = [status |-> file.status, served |-> file.served, deleted |-> file.deleted]
    /\ file.deleted \in BOOLEAN
    /\ version \in [Versions -> VersionRow]

WorkerOK ==
    /\ worker = [stage |-> worker.stage, version |-> worker.version, kind |-> worker.kind,
                 blocked |-> worker.blocked, previous |-> worker.previous]
    /\ worker.stage # "idle" => worker.version \in Versions

\* Only the version the file points at has a contract.
ContractOK == \A v \in Versions :
    version[v].contract => file.served = v /\ version[v].status # "none"

ServedInv == RowsOK /\ WorkerOK /\ ContractOK

LEMMA InitServedInv == Init => ServedInv /\ Offer!Init
<1> SUFFICES ASSUME Init PROVE ServedInv /\ Offer!Init
  OBVIOUS
<1>1. RowsOK
  BY DEF Init, RowsOK, VersionRow, NoVersion
<1>2. WorkerOK
  BY DEF Init, WorkerOK, Free
<1>3. ContractOK
  BY DEF Init, ContractOK, NoVersion
<1>4. Offer!Init
  BY DEF Init, Offer!Init, Contracts, NoVersion
<1>5. QED
  BY <1>1, <1>2, <1>3, <1>4 DEF ServedInv

-----------------------------------------------------------------------------
(* Steps chat does not see: the rows keep their shape, and no contract, nor *)
(* the pointer, nor the deletion mark changes.                             *)

SameOffer ==
    /\ file'.served = file.served /\ file'.deleted = file.deleted
    /\ \A v \in Versions : version'[v].contract = version[v].contract
    /\ \A v \in Versions : version[v].status # "none" => version'[v].status # "none"

LEMMA QuietStep ==
    ASSUME ServedInv, RowsOK', SameOffer
    PROVE  ContractOK' /\ UNCHANGED Offer!vars
<1>1. ContractOK'
  BY DEF ServedInv, ContractOK, SameOffer
<1>2. Contracts' = Contracts
  BY DEF Contracts, SameOffer
<1>3. QED
  BY <1>1, <1>2 DEF Offer!vars, SameOffer

\* Changing versions' rows, and the file's status after them, is such a step.
LEMMA RowsChange ==
    ASSUME RowsOK, version' \in [Versions -> VersionRow],
           file' = [file EXCEPT !.status = RefreshedStatus(file, version')],
           \A v \in Versions : version'[v].contract = version[v].contract,
           \A v \in Versions : version[v].status # "none" => version'[v].status # "none"
    PROVE  RowsOK' /\ SameOffer
BY DEF RowsOK, SameOffer

LEMMA SetStatusStep ==
    ASSUME RowsOK, NEW v, NEW status \in VERSION_STATUSES, SetVersionStatus(v, status)
    PROVE  RowsOK' /\ SameOffer
<1>1. version' \in [Versions -> VersionRow]
  BY DEF RowsOK, SetVersionStatus, VersionRow
<1>2. \A w \in Versions : version'[w].contract = version[w].contract
  BY DEF RowsOK, SetVersionStatus, VersionRow
<1>3. \A w \in Versions : version[w].status # "none" => version'[w].status # "none"
  BY DEF RowsOK, SetVersionStatus, VersionRow, VERSION_STATUSES, FILE_STATUSES
<1>4. QED
  BY <1>1, <1>2, <1>3, RowsChange DEF SetVersionStatus, Refreshed

LEMMA UnchangedRows ==
    ASSUME RowsOK, UNCHANGED rows
    PROVE  RowsOK' /\ SameOffer
BY DEF RowsOK, SameOffer, rows

\* Superseding what waits and inserting the new version.
LEMMA InsertStep ==
    ASSUME RowsOK, NEW q \in Requests, InsertVersion(q)
    PROVE  RowsOK' /\ SameOffer
<1> DEFINE n == req[q].version
           rest == Superseding(req[q].old)
<1>1. rest \in [Versions -> VersionRow]
  BY DEF RowsOK, Superseding, VersionRow, VERSION_STATUSES
<1>2. \A w \in Versions : /\ rest[w].contract = version[w].contract
                          /\ version[w].status # "none" => rest[w].status # "none"
  BY DEF RowsOK, Superseding, VersionRow
<1>3. version' = [rest EXCEPT ![n].status = "profiling"]
  BY DEF InsertVersion
<1>4. version' \in [Versions -> VersionRow]
  BY <1>1, <1>3 DEF VersionRow, VERSION_STATUSES, FILE_STATUSES
<1>5. \A w \in Versions : /\ version'[w].contract = version[w].contract
                          /\ version[w].status # "none" => version'[w].status # "none"
  BY <1>1, <1>2, <1>3 DEF VersionRow
<1>6. QED
  BY <1>4, <1>5, RowsChange DEF InsertVersion, Refreshed

LEMMA UploadStep ==
    ASSUME RowsOK, NEW q \in Requests, UploadFile(q)
    PROVE  RowsOK' /\ SameOffer
<1>1. version' \in [Versions -> VersionRow]
  BY DEF RowsOK, UploadFile, VersionRow, VERSION_STATUSES, FILE_STATUSES
<1>2. \A w \in Versions : /\ version'[w].contract = version[w].contract
                          /\ version[w].status # "none" => version'[w].status # "none"
  BY DEF RowsOK, UploadFile, VersionRow
<1>3. QED
  BY <1>1, <1>2 DEF RowsOK, SameOffer, UploadFile

LEMMA ReviewStep ==
    ASSUME RowsOK, NEW q \in Requests, ReviewWrite(q)
    PROVE  RowsOK' /\ SameOffer
<1>1. PICK review \in {"open", "clear"} :
          version' = [version EXCEPT ![req[q].version].review = review]
  BY DEF ReviewWrite
<1>2. version' \in [Versions -> VersionRow]
  BY <1>1 DEF RowsOK, VersionRow
<1>3. \A w \in Versions : /\ version'[w].contract = version[w].contract
                          /\ version[w].status # "none" => version'[w].status # "none"
  BY <1>1 DEF RowsOK, VersionRow
<1>4. QED
  BY <1>2, <1>3 DEF RowsOK, SameOffer, ReviewWrite

LEMMA ProfileStep ==
    ASSUME RowsOK, SaveProfile
    PROVE  RowsOK' /\ SameOffer
<1>1. version' \in [Versions -> VersionRow]
  BY DEF RowsOK, SaveProfile, VersionRow, VERSION_STATUSES, FILE_STATUSES
<1>2. \A w \in Versions : /\ version'[w].contract = version[w].contract
                          /\ version[w].status # "none" => version'[w].status # "none"
  BY DEF RowsOK, SaveProfile, VersionRow
<1>3. QED
  BY <1>1, <1>2, RowsChange DEF SaveProfile, Refreshed

-----------------------------------------------------------------------------
(* The two steps chat sees.                                                *)

\* A publication: the contract of the version served so far goes with the
\* pointer, and there was no other (ContractOK).
LEMMA SwitchStep ==
    ASSUME ServedInv, SwitchServed
    PROVE  /\ RowsOK' /\ ContractOK'
           /\ Offer!Publish(worker.version) /\ worker.version \in Versions
<1> DEFINE v == worker.version
<1>1. v \in Versions
  BY DEF ServedInv, WorkerOK, SwitchServed
<1>2. version' = Switched(v) /\ file' = [file EXCEPT !.served = v, !.status = "ready"]
  BY DEF SwitchServed
<1>3. RowsOK'
  BY <1>1, <1>2 DEF ServedInv, RowsOK, Switched, VersionRow, VERSION_STATUSES, FILE_STATUSES
<1>4. file'.served = v /\ file'.deleted = file.deleted
  BY <1>2 DEF ServedInv, RowsOK
<1>5. \A w \in Versions : version'[w].contract => w = v /\ version'[w].status # "none"
  BY <1>1, <1>2 DEF ServedInv, RowsOK, ContractOK, Switched, VersionRow
<1>6. version'[v].contract
  BY <1>1, <1>2 DEF ServedInv, RowsOK, Switched, VersionRow
<1>7. ContractOK'
  BY <1>4, <1>5 DEF ContractOK
<1>8. Contracts' = {v}
  BY <1>1, <1>5, <1>6 DEF Contracts
<1>9. Offer!Publish(v)
  BY <1>4, <1>8 DEF Offer!Publish, SwitchServed
<1>10. QED
  BY <1>1, <1>3, <1>7, <1>9

\* A deletion takes the contracts of all the versions there are: a version that
\* is not there has none.
LEMMA DeleteStep ==
    ASSUME ServedInv, NEW q \in Requests, MarkDeleted(q), ~file.deleted
    PROVE  RowsOK' /\ ContractOK' /\ Offer!Delete
<1>1. /\ file' = [status |-> "deleted", served |-> 0, deleted |-> TRUE]
      /\ version' = [v \in Versions |->
             IF v \in Existing
             THEN [version[v] EXCEPT !.status = "deleted", !.contract = FALSE]
             ELSE version[v]]
  BY DEF MarkDeleted
<1>2. RowsOK'
  BY <1>1 DEF ServedInv, RowsOK, VersionRow, VERSION_STATUSES, FILE_STATUSES
<1>3. \A v \in Versions : ~version'[v].contract
  BY <1>1 DEF ServedInv, RowsOK, ContractOK, Existing, VersionRow
<1>4. ContractOK'
  BY <1>3 DEF ContractOK
<1>5. Contracts' = {}
  BY <1>3 DEF Contracts
<1>6. QED
  BY <1>1, <1>2, <1>4, <1>5 DEF Offer!Delete

-----------------------------------------------------------------------------

LEMMA WorkerStays == ASSUME WorkerOK, UNCHANGED worker PROVE WorkerOK'
BY DEF WorkerOK

LEMMA WorkerMoves ==
    ASSUME WorkerOK, WorkerStep
    PROVE  WorkerOK'
<1>1. ASSUME NEW kind \in Kinds, NEW v \in Versions, Take(kind, v) PROVE WorkerOK'
  BY <1>1 DEF WorkerOK, Take, Free
<1>2. ASSUME worker' = Free PROVE WorkerOK'
  BY <1>2 DEF WorkerOK, Free
<1>3. ASSUME NEW stage, worker.stage # "idle", worker' = [worker EXCEPT !.stage = stage]
      PROVE  WorkerOK'
  BY <1>3 DEF WorkerOK
<1>4. CASE Profile
  BY <1>3, <1>4 DEF Profile, Fails
<1>5. CASE WriteParquet
  BY <1>3, <1>5 DEF WriteParquet, Fails
<1>6. CASE SwitchServed
  BY <1>2, <1>6 DEF WorkerOK, SwitchServed
<1>7. CASE SwitchRefused
  BY <1>3, <1>7 DEF SwitchRefused
<1>8. CASE SaveProfile \/ FailVersion \/ Drop \/ Clean \/ TaskRaises \/ WorkerDies
  BY <1>2, <1>8 DEF SaveProfile, FailVersion, Drop, Clean, TaskRaises, WorkerDies, Done
<1>9. QED
  BY <1>1, <1>4, <1>5, <1>6, <1>7, <1>8 DEF WorkerStep

\* Every step of a request or of the worker is a publication, a deletion, or
\* one chat does not see.
LEMMA RequestStepServed ==
    ASSUME ServedInv, NEW q \in Requests, RequestStep(q)
    PROVE  RowsOK' /\ ContractOK' /\ (Offer!Next \/ UNCHANGED Offer!vars)
<1> USE DEF ServedInv
<1>1. CASE UploadFile(q)
  BY <1>1, UploadStep, QuietStep
<1>2. CASE InsertVersion(q)
  BY <1>2, InsertStep, QuietStep
<1>3. CASE EnqueueFails(q)
  <2>1. SetVersionStatus(req[q].version, "failed")
    BY <1>3 DEF EnqueueFails
  <2>2. QED
    BY <2>1, SetStatusStep, QuietStep DEF VERSION_STATUSES, FILE_STATUSES
<1>4. CASE PublishWrite(q)
  <2>1. SetVersionStatus(req[q].version, "publishing")
    BY <1>4 DEF PublishWrite
  <2>2. QED
    BY <2>1, SetStatusStep, QuietStep DEF VERSION_STATUSES, FILE_STATUSES
<1>5. CASE ReviewWrite(q)
  BY <1>5, ReviewStep, QuietStep
<1>6. CASE MarkDeleted(q) /\ ~file.deleted
  BY <1>6, DeleteStep DEF Offer!Next
<1>7. CASE UNCHANGED rows
  BY <1>7, UnchangedRows, QuietStep
<1>8. QED
  <2>1. \/ Reupload(q) \/ ReadWaiting(q) \/ PutOriginal(q) \/ ReuploadRefused(q)
        \/ NumberTaken(q) \/ Enqueue(q) \/ RequestDies(q) \/ DeleteRead(q) \/ Wipe(q)
        \/ MarkDeleted(q) /\ file.deleted
        \/ \E v \in Versions : Purge(q, v) \/ ReviewRead(q, v) \/ PublishRead(q, v)
        => UNCHANGED rows
    BY DEF Reupload, ReadWaiting, PutOriginal, ReuploadRefused, NumberTaken, Enqueue,
           RequestDies, DeleteRead, Wipe, MarkDeleted, Purge, ReviewRead, PublishRead
  <2>2. QED
    BY <2>1, <1>1, <1>2, <1>3, <1>4, <1>5, <1>6, <1>7 DEF RequestStep

LEMMA WorkerStepServed ==
    ASSUME ServedInv, WorkerStep
    PROVE  RowsOK' /\ ContractOK' /\ (Offer!Next \/ UNCHANGED Offer!vars)
<1> USE DEF ServedInv
<1>1. CASE SaveProfile
  BY <1>1, ProfileStep, QuietStep
<1>2. CASE FailVersion
  <2>1. SetVersionStatus(worker.version, "failed")
    BY <1>2 DEF FailVersion
  <2>2. QED
    BY <2>1, SetStatusStep, QuietStep DEF VERSION_STATUSES, FILE_STATUSES
<1>3. CASE SwitchServed
  BY <1>3, SwitchStep DEF Offer!Next
<1>4. CASE UNCHANGED rows
  BY <1>4, UnchangedRows, QuietStep
<1>5. QED
  <2>1. \/ \E kind \in Kinds, v \in Versions : Take(kind, v)
        \/ Profile \/ WriteParquet \/ SwitchRefused \/ Drop \/ Clean \/ TaskRaises
        \/ WorkerDies
        => UNCHANGED rows
    BY DEF Take, Profile, WriteParquet, SwitchRefused, Drop, Clean, TaskRaises, WorkerDies
  <2>2. QED
    BY <2>1, <1>1, <1>2, <1>3, <1>4 DEF WorkerStep

LEMMA StepServed ==
    ASSUME ServedInv, [Next]_vars
    PROVE  ServedInv' /\ [Offer!Next]_(Offer!vars)
<1>1. CASE WorkerStep
  BY <1>1, WorkerMoves, WorkerStepServed DEF ServedInv
<1>2. ASSUME NEW q \in Requests, RequestStep(q) PROVE ServedInv' /\ [Offer!Next]_(Offer!vars)
  <2>1. UNCHANGED worker
    BY <1>2 DEF RequestStep, UploadFile, Reupload, ReadWaiting, PutOriginal,
                ReuploadRefused, NumberTaken, InsertVersion, Enqueue, EnqueueFails,
                RequestDies, ReviewWrite, PublishWrite, DeleteRead, MarkDeleted, Wipe,
                Purge, ReviewRead, PublishRead
  <2>2. QED
    BY <1>2, <2>1, WorkerStays, RequestStepServed DEF ServedInv
<1>3. CASE UNCHANGED vars
  <2>1. UNCHANGED rows /\ UNCHANGED worker
    BY <1>3 DEF vars
  <2>2. QED
    BY <2>1, UnchangedRows, QuietStep, WorkerStays DEF ServedInv
<1>4. QED
  BY <1>1, <1>2, <1>3 DEF Next

\* The pointer and the contracts of an uploaded file only move as ServedFile
\* says (switch_served_version, mark_deleted), for every number of versions and
\* of requests in progress.
THEOREM ServedFileImplemented == Spec => ImplementsServedFile
<1>1. Init => ServedInv /\ Offer!Init
  BY InitServedInv
<1>2. ServedInv /\ [Next]_vars => ServedInv' /\ [Offer!Next]_(Offer!vars)
  BY StepServed
<1>3. QED
  BY <1>1, <1>2, PTL DEF Spec, ImplementsServedFile, Offer!Spec

-----------------------------------------------------------------------------
(* Types, with the numbering they rest on.                                 *)

FileRow == [status : FILE_STATUSES \cup {"none"}, served : 0..MaxVersions, deleted : BOOLEAN]
RequestRow == [stage : RequestStages, version : 0..MaxVersions, kind : Kinds \cup {"none"},
               served : 0..MaxVersions, old : SUBSET Versions]
TaskRow == [stage : WorkerStages, version : 0..MaxVersions, kind : Kinds \cup {"none"},
            blocked : BOOLEAN, previous : 0..MaxVersions]
Named == {"supersede", "insert", "purge", "enqueue", "review", "publish"}

FileOK == file \in FileRow
VersionOK == version \in [Versions -> VersionRow]
ObjectsOK == original \subseteq Versions /\ parquet \subseteq Versions /\ staged \subseteq Versions
ReqOK == /\ req \in [Requests -> RequestRow]
         /\ \A q \in Requests : req[q].stage \in Named => req[q].version \in Versions
QueueOK == queue \in [Kinds \X Versions -> Nat]
TaskOK == /\ worker \in TaskRow
          /\ worker.stage # "idle" => worker.version \in Versions /\ worker.kind \in Kinds
HistoryOK == revived \subseteq Versions /\ abandoned \subseteq Versions

LEMMA TypeParts ==
    /\ TypeOK <=> /\ FileOK /\ VersionOK /\ ObjectsOK /\ ReqOK /\ QueueOK /\ TaskOK /\ HistoryOK
    /\ TypeOK' <=> /\ FileOK' /\ VersionOK' /\ ObjectsOK' /\ ReqOK' /\ QueueOK' /\ TaskOK'
                   /\ HistoryOK'
<1>1. TypeOK <=> /\ FileOK /\ VersionOK /\ ObjectsOK /\ ReqOK /\ QueueOK /\ TaskOK /\ HistoryOK
  BY DEF TypeOK, FileOK, FileRow, VersionOK, VersionRow, ObjectsOK, ReqOK, RequestRow, Named,
         QueueOK, TaskOK, TaskRow, HistoryOK
<1>2. TypeOK' <=> /\ FileOK' /\ VersionOK' /\ ObjectsOK' /\ ReqOK' /\ QueueOK' /\ TaskOK'
                  /\ HistoryOK'
  BY DEF TypeOK, FileOK, FileRow, VersionOK, VersionRow, ObjectsOK, ReqOK, RequestRow, Named,
         QueueOK, TaskOK, TaskRow, HistoryOK
<1>3. QED
  BY <1>1, <1>2

\* Versions are numbered without a gap, the served one is one of them, and the
\* newest of a file that serves none was not superseded: the file may take its
\* status.
Numbered(n) ==
    /\ Existing = 1..n /\ file.served \in 0..n
    /\ n > 0 /\ ~file.deleted /\ file.served = 0 => version[n].status # "superseded"
NumberedOK == \E n \in 0..MaxVersions : Numbered(n)

\* What a request has in hand: to whom its numbers belong.
Hands(r, existing, deleted) ==
    /\ r.stage = "receive" => existing # {}
    /\ r.stage \in {"supersede", "insert"} =>
          r.version - 1 \in existing /\ r.kind = "profile" /\ r.old \subseteq 1..r.version - 1
    /\ r.stage \in {"purge", "enqueue", "review", "publish"} => r.version \in existing
    /\ r.stage = "wipe" => deleted
HandsOK == \A q \in Requests : Hands(req[q], Existing, file.deleted)

\* The task in the worker's hands is of a version there is, and what it drops is
\* of a deleted file.
HeldOK == /\ worker.stage # "idle" => worker.version \in Existing
          /\ worker.stage = "drop" => file.deleted

RowInv == TypeOK /\ NumberedOK /\ HandsOK /\ HeldOK

LEMMA Bounds == MaxVersions \in Nat /\ 1 \in Versions /\ {0, 1} \subseteq 0..MaxVersions
BY BoundsAssumption DEF Versions

LEMMA LatestIs ==
    ASSUME NEW rows_, NEW n \in Nat, n > 0, {v \in Versions : rows_[v].status # "none"} = 1..n
    PROVE  Latest(rows_) = n
<1>1. n \in 1..n /\ \A y \in 1..n : n >= y
  OBVIOUS
<1>2. \A x \in 1..n : (\A y \in 1..n : x >= y) => x = n
  BY <1>1
<1>3. Latest(rows_) = CHOOSE x \in 1..n : \A y \in 1..n : x >= y
  BY DEF Latest, Max
<1>4. QED
  BY <1>1, <1>2, <1>3

LEMMA NextIs == ASSUME NEW n \in Nat, Existing = 1..n PROVE NextNumber = n + 1
<1>1. Cardinality(1..n) = n
  BY FS_Interval
<1>2. QED
  BY <1>1 DEF NextNumber

\* The file takes its newest version's status, which the CHECK constraint admits.
LEMMA RefreshedIs ==
    ASSUME FileOK, NEW rows_ \in [Versions -> VersionRow], NEW n \in Nat, n > 0,
           {v \in Versions : rows_[v].status # "none"} = 1..n, n \in Versions,
           ~file.deleted /\ file.served = 0 => rows_[n].status # "superseded"
    PROVE  /\ Refreshed(rows_) \in FileRow
           /\ Refreshed(rows_).served = file.served /\ Refreshed(rows_).deleted = file.deleted
<1>1. Latest(rows_) = n
  BY LatestIs
<1>2. RefreshedStatus(file, rows_) \in FILE_STATUSES \cup {"none"}
  <2>1. rows_[n].status \in VERSION_STATUSES \cup {"none"}
    BY DEF VersionRow
  <2>2. file.status \in FILE_STATUSES \cup {"none"} /\ file.deleted \in BOOLEAN
    BY DEF FileOK, FileRow
  <2>3. QED
    BY <1>1, <2>1, <2>2 DEF RefreshedStatus, VERSION_STATUSES, FILE_STATUSES
<1>3. QED
  BY <1>2 DEF FileOK, FileRow, Refreshed

\* What every step does to the rows.
RowsStep ==
    /\ FileOK' /\ VersionOK' /\ NumberedOK'
    /\ Existing \subseteq Existing'
    /\ file.deleted => file'.deleted

LEMMA RowsStay == ASSUME TypeOK, NumberedOK, UNCHANGED rows PROVE RowsStep
<1>1. FileOK /\ VersionOK
  BY TypeParts
<1>2. UNCHANGED file /\ UNCHANGED version
  BY DEF rows
<1>3. Existing' = Existing
  BY <1>2 DEF Existing
<1>4. \A n : Numbered(n) => Numbered(n)'
  BY <1>2, <1>3 DEF Numbered
<1>5. QED
  BY <1>1, <1>2, <1>3, <1>4 DEF RowsStep, FileOK, VersionOK, NumberedOK

\* One version's row is written over, with a status a file may have.
LEMMA RowWritten ==
    ASSUME TypeOK, NumberedOK, NEW v \in Existing, NEW row \in VersionRow,
           row.status \in FILE_STATUSES,
           version' = [version EXCEPT ![v] = row], file' = Refreshed(version')
    PROVE  RowsStep
<1>1. FileOK /\ VersionOK
  BY TypeParts
<1>2. PICK n \in 0..MaxVersions : Numbered(n)
  BY DEF NumberedOK
<1>3. v \in Versions /\ v \in 1..n /\ n \in Nat /\ n > 0 /\ n \in Versions
  BY <1>2, Bounds DEF Existing, Numbered, Versions
<1>4. VersionOK'
  BY <1>1, <1>3 DEF VersionOK
<1>5. \A w \in Versions : version'[w].status = IF w = v THEN row.status ELSE version[w].status
  BY <1>1, <1>3 DEF VersionOK
<1>6. row.status # "none" /\ row.status # "superseded"
  BY DEF FILE_STATUSES
<1>7. Existing' = Existing
  BY <1>3, <1>5, <1>6 DEF Existing
<1>8. ~file.deleted /\ file.served = 0 => version'[n].status # "superseded"
  BY <1>2, <1>3, <1>5, <1>6 DEF Numbered
<1>9. FileOK' /\ file'.served = file.served /\ file'.deleted = file.deleted
  <2>1. {w \in Versions : version'[w].status # "none"} = 1..n
    BY <1>2, <1>7 DEF Existing, Numbered
  <2>2. QED
    BY <1>1, <1>3, <1>4, <1>8, <2>1, RefreshedIs DEF FileOK, VersionOK
<1>10. Numbered(n)'
  BY <1>2, <1>7, <1>8, <1>9 DEF Numbered
<1>11. QED
  BY <1>4, <1>7, <1>9, <1>10 DEF RowsStep, NumberedOK

LEMMA StatusWritten ==
    ASSUME TypeOK, NumberedOK, NEW v \in Existing, NEW status \in FILE_STATUSES,
           SetVersionStatus(v, status)
    PROVE  RowsStep
<1> DEFINE row == [version[v] EXCEPT !.status = status]
<1>1. v \in Versions /\ VersionOK
  BY TypeParts DEF Existing
<1>2. row \in VersionRow /\ row.status = status
  BY <1>1 DEF VersionOK, VersionRow, VERSION_STATUSES
<1>3. version' = [version EXCEPT ![v] = row] /\ file' = Refreshed(version')
  BY <1>1 DEF SetVersionStatus, VersionOK
<1> HIDE DEF row
<1>4. QED
  BY <1>2, <1>3, RowWritten

LEMMA UploadRows ==
    ASSUME TypeOK, NumberedOK, NEW q \in Requests, UploadFile(q)
    PROVE  RowsStep
<1>1. FileOK /\ VersionOK /\ Existing = {}
  BY TypeParts DEF UploadFile
<1>2. version' = [version EXCEPT ![1].status = "profiling"] /\ file' = [file EXCEPT !.status = "profiling"]
  BY DEF UploadFile
<1>3. FileOK' /\ VersionOK' /\ file'.deleted = file.deleted
  BY <1>1, <1>2, Bounds DEF FileOK, FileRow, VersionOK, VersionRow, VERSION_STATUSES, FILE_STATUSES
<1>4. /\ version'[1].status = "profiling"
      /\ \A w \in Versions : w # 1 => version'[w].status = version[w].status
  BY <1>1, <1>2, Bounds DEF VersionOK, VersionRow
<1>5. Existing' = {1}
  BY <1>1, <1>4, Bounds DEF Existing
<1>6. 1..1 = {1} /\ 1 \in 0..MaxVersions
  BY BoundsAssumption
<1>7. Numbered(1)'
  <2>1. PICK n \in 0..MaxVersions : Numbered(n)
    BY DEF NumberedOK
  <2>2. 1..n = {} /\ n \in Nat
    BY <1>1, <2>1, BoundsAssumption DEF Numbered
  <2>3. n = 0
    BY <2>2
  <2>4. file'.served \in 0..1
    BY <1>1, <1>2, <2>1, <2>3 DEF Numbered, FileOK, FileRow
  <2>5. QED
    BY <1>4, <1>5, <1>6, <2>4 DEF Numbered
<1>8. QED
  BY <1>1, <1>3, <1>6, <1>7 DEF RowsStep, NumberedOK

\* The statuses after an insertion, whichever versions its request had waiting.
LEMMA InsertedStatus ==
    ASSUME VersionOK, NEW q \in Requests, NEW v \in Versions, v = req[q].version,
           InsertVersion(q)
    PROVE  /\ VersionOK'
           /\ version'[v].status = "profiling"
           /\ \A w \in Versions : w # v =>
                 version'[w].status = IF w \in req[q].old THEN "superseded" ELSE version[w].status
<1> DEFINE old == req[q].old
<1>1. version' = [Superseding(old) EXCEPT ![v].status = "profiling"]
  BY DEF InsertVersion
<1> HIDE DEF old
<1>2. Superseding(old) \in [Versions -> VersionRow]
  BY DEF VersionOK, Superseding, VersionRow, VERSION_STATUSES
<1>3. \A w \in Versions :
          Superseding(old)[w].status = IF w \in old THEN "superseded" ELSE version[w].status
  BY DEF Superseding, VersionOK, VersionRow
<1>4. VersionOK'
  BY <1>1, <1>2 DEF VersionOK, VersionRow, VERSION_STATUSES, FILE_STATUSES
<1>5. version'[v].status = "profiling"
  BY <1>1, <1>2 DEF VersionRow
<1>6. \A w \in Versions : w # v => version'[w].status = Superseding(old)[w].status
  BY <1>1, <1>2 DEF VersionRow
<1>7. QED
  BY <1>3, <1>4, <1>5, <1>6 DEF old

\* The new version's number is the next one, and what it supersedes is older.
LEMMA InsertRows ==
    ASSUME TypeOK, NumberedOK, HandsOK, NEW q \in Requests, InsertVersion(q)
    PROVE  /\ RowsStep
           /\ req[q].version \in Existing'
           /\ req[q].version \notin Existing
<1> DEFINE old == req[q].old
<1>1. FileOK /\ VersionOK /\ ReqOK
  BY TypeParts
<1>2. PICK n \in 0..MaxVersions : Numbered(n)
  BY DEF NumberedOK
<1>3. PICK v \in Versions : v = req[q].version
  BY <1>1 DEF InsertVersion, ReqOK, Named
<1>4. v \notin Existing /\ v - 1 \in Existing /\ old \subseteq 1..v - 1
  BY <1>1, <1>3 DEF InsertVersion, HandsOK, Hands, ReqOK, Named
<1>5. v \in Nat /\ n \in Nat /\ v = n + 1 /\ v > 0
  BY <1>2, <1>4, Bounds DEF Numbered, Versions
<1>6. file' = Refreshed(version')
  BY DEF InsertVersion
<1>7. VersionOK' /\ version'[v].status = "profiling"
      /\ \A w \in Versions : w # v =>
            version'[w].status = IF w \in old THEN "superseded" ELSE version[w].status
  BY <1>1, <1>3, InsertedStatus
<1> HIDE DEF old
<1>8. Existing' = 1..v
  <2>1. Existing = 1..n /\ old \subseteq Existing
    BY <1>2, <1>4, <1>5 DEF Numbered
  <2>2. Existing' = Existing \cup {v}
    BY <1>3, <1>7, <2>1 DEF Existing
  <2>3. 1..v = 1..n \cup {v}
    BY <1>5
  <2>4. QED
    BY <2>1, <2>2, <2>3
<1>9. version'[v].status # "superseded"
  BY <1>7
<1>10. FileOK' /\ file'.deleted = file.deleted /\ file'.served = file.served
  <2>1. {w \in Versions : version'[w].status # "none"} = 1..v
    BY <1>8 DEF Existing
  <2>2. QED
    BY <1>1, <1>3, <1>5, <1>6, <1>7, <1>9, <2>1, RefreshedIs DEF FileOK, VersionOK
<1>11. Numbered(v)' /\ v \in 0..MaxVersions
  <2>1. file.served \in 0..n /\ 0..n \subseteq 0..v /\ v \in 0..MaxVersions
    BY <1>2, <1>3, <1>5, Bounds DEF Numbered, Versions
  <2>2. QED
    BY <1>8, <1>9, <1>10, <2>1 DEF Numbered
<1>12. Existing \subseteq Existing' /\ v \in Existing'
  BY <1>2, <1>5, <1>8 DEF Numbered
<1>13. QED
  BY <1>3, <1>4, <1>7, <1>10, <1>11, <1>12 DEF RowsStep, NumberedOK

LEMMA ReviewRows ==
    ASSUME TypeOK, NumberedOK, NEW q \in Requests, ReviewWrite(q)
    PROVE  RowsStep
<1>1. FileOK /\ VersionOK /\ UNCHANGED file
  BY TypeParts DEF ReviewWrite
<1>2. PICK review \in {"open", "clear"} :
          version' = [version EXCEPT ![req[q].version].review = review]
  BY DEF ReviewWrite
<1>3. VersionOK'
  BY <1>1, <1>2 DEF VersionOK, VersionRow
<1>4. \A w \in Versions : version'[w].status = version[w].status
  BY <1>1, <1>2 DEF VersionOK, VersionRow
<1>5. Existing' = Existing
  BY <1>4 DEF Existing
<1>6. ASSUME NEW n \in 0..MaxVersions, Numbered(n) PROVE Numbered(n)'
  <2>1. n > 0 => n \in Versions
    BY Bounds DEF Versions
  <2>2. QED
    BY <1>1, <1>4, <1>5, <1>6, <2>1 DEF Numbered
<1>7. QED
  BY <1>1, <1>3, <1>5, <1>6 DEF RowsStep, FileOK, NumberedOK

LEMMA SwitchRows ==
    ASSUME TypeOK, NumberedOK, HeldOK, SwitchServed
    PROVE  RowsStep
<1> DEFINE v == worker.version
<1>1. FileOK /\ VersionOK /\ v \in Existing /\ v \in Versions
  BY TypeParts DEF SwitchServed, HeldOK, Existing
<1>2. version' = Switched(v) /\ file' = [file EXCEPT !.served = v, !.status = "ready"]
  BY DEF SwitchServed
<1> HIDE DEF v
<1>3. VersionOK'
  BY <1>1, <1>2 DEF VersionOK, Switched, VersionRow, VERSION_STATUSES, FILE_STATUSES
<1>4. FileOK' /\ file'.served = v /\ file'.deleted = file.deleted /\ v # 0
  <2>1. v \in 0..MaxVersions /\ v # 0
    BY <1>1, Bounds DEF Versions
  <2>2. QED
    BY <1>1, <1>2, <2>1 DEF FileOK, FileRow, FILE_STATUSES
<1>5. \A w \in Versions :
          version'[w].status = IF w = v THEN "ready"
                               ELSE IF w = file.served THEN "superseded" ELSE version[w].status
  BY <1>1, <1>2 DEF VersionOK, VersionRow, Switched
<1>6. Existing \subseteq Existing'
  BY <1>5 DEF Existing
<1>7. PICK n \in 0..MaxVersions : Numbered(n)
  BY DEF NumberedOK
<1>8. Existing' = 1..n /\ v \in 0..n
  <2>1. Existing = 1..n /\ (file.served \in Versions => file.served \in 1..n)
    BY <1>7, Bounds DEF Numbered, Versions
  <2>2. \A w \in Versions : version'[w].status # "none" <=> version[w].status # "none"
    BY <1>1, <1>5, <2>1 DEF Existing
  <2>3. Existing' = Existing
    BY <2>2 DEF Existing
  <2>4. QED
    BY <1>1, <1>7, <2>1, <2>3, Bounds DEF Versions
<1>9. Numbered(n)'
  BY <1>4, <1>8 DEF Numbered
<1>10. QED
  BY <1>3, <1>4, <1>6, <1>9 DEF RowsStep, NumberedOK

LEMMA DeleteRows ==
    ASSUME TypeOK, NumberedOK, NEW q \in Requests, MarkDeleted(q)
    PROVE  RowsStep /\ file'.deleted
<1>1. FileOK /\ VersionOK
  BY TypeParts
<1>2. CASE file.deleted
  <2>1. UNCHANGED rows
    BY <1>2 DEF MarkDeleted
  <2>2. QED
    BY <1>2, <2>1, RowsStay DEF rows
<1>3. CASE ~file.deleted
  <2>1. /\ file' = [status |-> "deleted", served |-> 0, deleted |-> TRUE]
        /\ version' = [v \in Versions |->
               IF v \in Existing
               THEN [version[v] EXCEPT !.status = "deleted", !.contract = FALSE]
               ELSE version[v]]
    <3>1. file' = [status |-> "deleted", served |-> 0, deleted |-> TRUE]
      BY <1>3 DEF MarkDeleted
    <3>2. version' = [v \in Versions |->
               IF v \in Existing
               THEN [version[v] EXCEPT !.status = "deleted", !.contract = FALSE]
               ELSE version[v]]
      BY <1>3 DEF MarkDeleted
    <3>3. QED
      BY <3>1, <3>2
  <2>2. FileOK' /\ VersionOK'
    <3>1. FileOK'
      BY <2>1, Bounds DEF FileOK, FileRow, FILE_STATUSES
    <3>2. \A v \in Versions :
              /\ version[v] \in VersionRow
              /\ [version[v] EXCEPT !.status = "deleted", !.contract = FALSE] \in VersionRow
      BY <1>1 DEF VersionOK, VersionRow, VERSION_STATUSES, FILE_STATUSES
    <3>3. VersionOK'
      BY <2>1, <3>2 DEF VersionOK
    <3>4. QED
      BY <3>1, <3>3
  <2>3. \A v \in Versions : version'[v].status # "none" <=> version[v].status # "none"
    BY <1>1, <2>1 DEF VersionOK, VersionRow, Existing
  <2>4. Existing' = Existing
    BY <2>3 DEF Existing
  <2>5. PICK n \in 0..MaxVersions : Numbered(n)
    BY DEF NumberedOK
  <2>6. Numbered(n)'
    <3>1. file'.served = 0 /\ file'.deleted = TRUE
      BY <2>1
    <3>2. 0 \in 0..n
      BY BoundsAssumption
    <3>3. QED
      BY <2>4, <2>5, <3>1, <3>2 DEF Numbered
  <2>7. QED
    BY <2>1, <2>2, <2>4, <2>6 DEF RowsStep, NumberedOK
<1>4. QED
  BY <1>2, <1>3

LEMMA ProfileRows ==
    ASSUME TypeOK, NumberedOK, HeldOK, SaveProfile
    PROVE  RowsStep
<1> DEFINE v == worker.version
           row == [version[v] EXCEPT !.status = "needs_review", !.review = "open"]
<1>1. v \in Existing /\ v \in Versions /\ VersionOK
  BY TypeParts DEF SaveProfile, HeldOK, Existing
<1>2. row \in VersionRow /\ row.status = "needs_review"
  BY <1>1 DEF VersionOK, VersionRow, VERSION_STATUSES, FILE_STATUSES
<1>3. version' = [version EXCEPT ![v] = row] /\ file' = Refreshed(version')
  BY <1>1 DEF SaveProfile, VersionOK
<1> HIDE DEF row, v
<1>4. QED
  BY <1>1, <1>2, <1>3, RowWritten DEF FILE_STATUSES

-----------------------------------------------------------------------------
(* Every step, and the requests' locals.                                   *)

LEMMA QuietRows ==
    ASSUME NEW q \in Requests,
           \/ Reupload(q) \/ ReadWaiting(q) \/ PutOriginal(q) \/ ReuploadRefused(q)
           \/ NumberTaken(q) \/ Enqueue(q) \/ RequestDies(q) \/ DeleteRead(q) \/ Wipe(q)
           \/ \E v \in Versions : Purge(q, v) \/ ReviewRead(q, v) \/ PublishRead(q, v)
    PROVE  UNCHANGED rows
BY DEF Reupload, ReadWaiting, PutOriginal, ReuploadRefused, NumberTaken, Enqueue,
       RequestDies, DeleteRead, Wipe, Purge, ReviewRead, PublishRead

LEMMA QuietWork ==
    ASSUME \/ \E kind \in Kinds, v \in Versions : Take(kind, v)
           \/ Profile \/ WriteParquet \/ SwitchRefused \/ Drop \/ Clean \/ TaskRaises
           \/ WorkerDies
    PROVE  UNCHANGED rows
BY DEF Take, Profile, WriteParquet, SwitchRefused, Drop, Clean, TaskRaises, WorkerDies

LEMMA StepRows ==
    ASSUME RowInv, Next
    PROVE  RowsStep
<1> USE DEF RowInv
<1>1. ASSUME NEW q \in Requests, RequestStep(q) PROVE RowsStep
  <2>1. req[q].stage \in {"purge", "enqueue", "publish"} => req[q].version \in Existing
    BY DEF HandsOK, Hands
  <2>2. CASE UploadFile(q)
    BY <2>2, UploadRows
  <2>3. CASE InsertVersion(q)
    BY <2>3, InsertRows
  <2>4. CASE EnqueueFails(q)
    BY <2>1, <2>4, StatusWritten DEF EnqueueFails, ToEnqueue, FILE_STATUSES
  <2>5. CASE PublishWrite(q)
    BY <2>1, <2>5, StatusWritten DEF PublishWrite, FILE_STATUSES
  <2>6. CASE ReviewWrite(q)
    BY <2>6, ReviewRows
  <2>7. CASE MarkDeleted(q)
    BY <2>7, DeleteRows
  <2>8. QED
    BY <1>1, <2>2, <2>3, <2>4, <2>5, <2>6, <2>7, QuietRows, RowsStay DEF RequestStep
<1>2. CASE WorkerStep
  <2>1. CASE SaveProfile
    BY <2>1, ProfileRows
  <2>2. CASE FailVersion
    BY <2>2, StatusWritten DEF FailVersion, HeldOK, FILE_STATUSES
  <2>3. CASE SwitchServed
    BY <2>3, SwitchRows
  <2>4. QED
    BY <1>2, <2>1, <2>2, <2>3, QuietWork, RowsStay DEF WorkerStep
<1>3. QED
  BY <1>1, <1>2 DEF Next

\* A request's locals stay well-formed when it goes on and the others stand still.
Kept(r) == r \in RequestRow /\ (r.stage \in Named => r.version \in Versions)

LEMMA RequestGoes ==
    ASSUME ReqOK, HandsOK, RowsStep, NEW q \in Requests,
           \A p \in Requests : p # q => req'[p] = req[p],
           req' \in [Requests -> RequestRow], Kept(req'[q]),
           Hands(req'[q], Existing', file'.deleted)
    PROVE  ReqOK' /\ HandsOK'
<1>1. ASSUME NEW p \in Requests, p # q
      PROVE  Kept(req'[p]) /\ Hands(req'[p], Existing', file'.deleted)
  <2>1. Kept(req[p]) /\ Hands(req[p], Existing, file.deleted) /\ req'[p] = req[p]
    BY <1>1 DEF ReqOK, HandsOK, Kept
  <2>2. Existing \subseteq Existing' /\ (file.deleted => file'.deleted)
    BY DEF RowsStep
  <2>3. QED
    BY <2>1, <2>2 DEF Hands
<1>2. QED
  BY <1>1 DEF ReqOK, HandsOK, Kept

LEMMA RequestsStay ==
    ASSUME ReqOK, HandsOK, RowsStep, UNCHANGED req
    PROVE  ReqOK' /\ HandsOK'
<1>1. ASSUME NEW q \in Requests PROVE Hands(req[q], Existing', file'.deleted)
  <2>1. Hands(req[q], Existing, file.deleted)
    BY DEF HandsOK
  <2>2. Existing \subseteq Existing' /\ (file.deleted => file'.deleted)
    BY DEF RowsStep
  <2>3. QED
    BY <2>1, <2>2 DEF Hands
<1>2. QED
  BY <1>1 DEF ReqOK, HandsOK

LEMMA IdleKept == Kept(Idle) /\ Idle.stage = "idle" /\ \A e, d : Hands(Idle, e, d)
BY Bounds DEF Kept, Idle, RequestRow, RequestStages, Kinds, Named, Hands

LEMMA LeaveRequest ==
    ASSUME ReqOK, HandsOK, RowsStep, NEW q \in Requests, Leave(q)
    PROVE  ReqOK' /\ HandsOK'
<1>1. req' = [req EXCEPT ![q] = Idle] /\ req \in [Requests -> RequestRow]
  BY DEF Leave, ReqOK
<1>2. Idle \in RequestRow /\ Kept(Idle) /\ Hands(Idle, Existing', file'.deleted)
  BY IdleKept DEF Kept
<1>3. req' \in [Requests -> RequestRow] /\ req'[q] = Idle
      /\ \A p \in Requests : p # q => req'[p] = req[p]
  BY <1>1, <1>2
<1>4. QED
  BY <1>2, <1>3, RequestGoes

\* The stages at which a request begins, with the version it names.
LEMMA RequestBegins ==
    ASSUME ReqOK, HandsOK, RowsStep, NEW q \in Requests, NEW r \in RequestRow,
           req' = [req EXCEPT ![q] = r],
           r.stage \in Named => r.version \in Versions,
           Hands(r, Existing', file'.deleted)
    PROVE  ReqOK' /\ HandsOK'
<1>1. req \in [Requests -> RequestRow]
  BY DEF ReqOK
<1>2. req' \in [Requests -> RequestRow] /\ req'[q] = r
      /\ \A p \in Requests : p # q => req'[p] = req[p]
  BY <1>1
<1>3. QED
  BY <1>2, RequestGoes DEF Kept

LEMMA StepRequests ==
    ASSUME RowInv, RowsStep, NEW q \in Requests, RequestStep(q)
    PROVE  ReqOK' /\ HandsOK'
<1> DEFINE r == req[q]
<1>1. ReqOK /\ HandsOK /\ FileOK
  BY TypeParts DEF RowInv
<1>2. r \in RequestRow /\ Kept(r) /\ Hands(r, Existing, file.deleted)
  BY <1>1 DEF ReqOK, HandsOK, Kept
<1>3. Existing \subseteq Existing' /\ (file.deleted => file'.deleted)
  BY DEF RowsStep
<1>4. CASE ReuploadRefused(q) \/ NumberTaken(q) \/ Enqueue(q) \/ EnqueueFails(q)
           \/ RequestDies(q) \/ ReviewWrite(q) \/ Wipe(q)
  BY <1>1, <1>4, LeaveRequest DEF ReuploadRefused, NumberTaken, Enqueue, EnqueueFails,
     RequestDies, ReviewWrite, Wipe
<1>5. CASE UploadFile(q)
  <2> DEFINE n == [Idle EXCEPT !.stage = "enqueue", !.version = 1, !.kind = "profile"]
  <2>1. n \in RequestRow /\ n.stage = "enqueue" /\ n.version = 1
    BY Bounds DEF Idle, RequestRow, RequestStages, Kinds, Versions
  <2>2. 1 \in Existing'
    <3>1. version' = [version EXCEPT ![1].status = "profiling"] /\ VersionOK
      BY <1>5, TypeParts DEF UploadFile, RowInv
    <3>2. QED
      BY <3>1, Bounds DEF Existing, VersionOK, VersionRow
  <2>3. req' = [req EXCEPT ![q] = n]
    BY <1>5 DEF UploadFile
  <2> HIDE DEF n
  <2>4. Hands(n, Existing', file'.deleted)
    BY <2>1, <2>2 DEF Hands
  <2>5. QED
    BY <1>1, <2>1, <2>3, <2>4, Bounds, RequestBegins
<1>6. CASE Reupload(q)
  <2> DEFINE n == [Idle EXCEPT !.stage = "receive", !.served = file.served]
  <2>1. n \in RequestRow /\ n.stage = "receive"
    BY <1>1, Bounds DEF Idle, RequestRow, RequestStages, Kinds, FileOK, FileRow
  <2>2. req' = [req EXCEPT ![q] = n] /\ Existing # {}
    BY <1>6 DEF Reupload
  <2> HIDE DEF n
  <2>3. Hands(n, Existing', file'.deleted) /\ n.stage \notin Named
    BY <1>3, <2>1, <2>2 DEF Hands, Named
  <2>4. QED
    BY <1>1, <2>1, <2>2, <2>3, RequestBegins
<1>7. CASE ReadWaiting(q)
  <2> DEFINE n == [r EXCEPT !.stage = "supersede", !.version = NextNumber,
                            !.kind = "profile", !.old = Waiting(q)]
  <2>1. PICK k \in 0..MaxVersions : Numbered(k)
    BY DEF RowInv, NumberedOK
  <2>2. /\ k \in Nat /\ Existing = 1..k /\ NextNumber = k + 1
        /\ NextNumber \in Versions /\ Existing # {} /\ k \in Existing
    <3>1. k \in Nat /\ Existing = 1..k /\ NextNumber = k + 1
      BY <2>1, Bounds, NextIs DEF Numbered
    <3>2. Existing # {} /\ NextNumber \in Versions
      BY <1>2, <1>7 DEF ReadWaiting, Hands
    <3>3. QED
      BY <3>1, <3>2
  <2>3. Waiting(q) \subseteq Existing /\ Waiting(q) \subseteq Versions
    BY DEF Waiting, Existing
  <2>4. NextNumber \in 0..MaxVersions
    BY <2>2 DEF Versions
  <2>5. /\ n \in RequestRow /\ n.stage = "supersede" /\ n.version = NextNumber
        /\ n.kind = "profile" /\ n.old = Waiting(q)
    BY <1>2, <2>3, <2>4 DEF RequestRow, RequestStages, Kinds
  <2>6. req' = [req EXCEPT ![q] = n]
    BY <1>7 DEF ReadWaiting
  <2> HIDE DEF n
  <2>7. n.version - 1 \in Existing' /\ n.old \subseteq 1..n.version - 1
    BY <1>3, <2>2, <2>3, <2>5
  <2>8. Hands(n, Existing', file'.deleted)
    BY <2>5, <2>7 DEF Hands
  <2>9. QED
    BY <1>1, <2>2, <2>5, <2>6, <2>8, RequestBegins
<1>8. CASE PutOriginal(q)
  <2> DEFINE n == [r EXCEPT !.stage = "insert"]
  <2>1. /\ n \in RequestRow /\ n.stage = "insert" /\ n.version = r.version
        /\ n.kind = r.kind /\ n.old = r.old
    BY <1>2 DEF RequestRow, RequestStages
  <2>2. req' = [req EXCEPT ![q] = n] /\ r.stage = "supersede"
    BY <1>8 DEF PutOriginal
  <2> HIDE DEF n
  <2>3. Hands(n, Existing', file'.deleted) /\ n.version \in Versions
    BY <1>2, <1>3, <2>1, <2>2 DEF Hands, Kept, Named
  <2>4. QED
    BY <1>1, <2>1, <2>2, <2>3, RequestBegins
<1>9. CASE InsertVersion(q)
  <2> DEFINE n == [r EXCEPT !.stage = "purge"]
  <2>1. /\ n \in RequestRow /\ n.stage = "purge" /\ n.version = r.version
    BY <1>2 DEF RequestRow, RequestStages
  <2>2. req' = [req EXCEPT ![q] = n] /\ r.stage = "insert"
    BY <1>9 DEF InsertVersion
  <2>3. r.version \in Existing' /\ r.version \in Versions
    <3>1. r.version \in Existing'
      BY <1>1, <1>9, InsertRows DEF RowInv
    <3>2. QED
      BY <1>2, <2>2, <3>1 DEF Kept, Named
  <2> HIDE DEF n
  <2>4. Hands(n, Existing', file'.deleted)
    BY <2>1, <2>3 DEF Hands
  <2>5. QED
    BY <1>1, <2>1, <2>2, <2>3, <2>4, RequestBegins
<1>10. ASSUME NEW v \in Versions, Purge(q, v) PROVE ReqOK' /\ HandsOK'
  <2> DEFINE n == [r EXCEPT !.old = @ \ {v}]
  <2>1. n \in RequestRow /\ n.stage = r.stage /\ n.version = r.version
    BY <1>2 DEF RequestRow
  <2>2. req' = [req EXCEPT ![q] = n] /\ r.stage = "purge"
    BY <1>10 DEF Purge
  <2> HIDE DEF n
  <2>3. Hands(n, Existing', file'.deleted) /\ n.version \in Versions
    BY <1>2, <1>3, <2>1, <2>2 DEF Hands, Kept, Named
  <2>4. QED
    BY <1>1, <2>1, <2>2, <2>3, RequestBegins
<1>11. ASSUME NEW v \in Versions, ReviewRead(q, v) \/ PublishRead(q, v) PROVE ReqOK' /\ HandsOK'
  <2>1. PICK stage \in {"review", "publish"} :
            req' = [req EXCEPT ![q] = [Idle EXCEPT !.stage = stage, !.version = v]]
    BY <1>11 DEF ReviewRead, PublishRead
  <2> DEFINE n == [Idle EXCEPT !.stage = stage, !.version = v]
  <2>2. v \in 0..MaxVersions /\ v \in Existing
    BY <1>11, Bounds DEF ReviewRead, PublishRead, Reviewable, Versions, Existing
  <2>3. n \in RequestRow /\ n.stage = stage /\ n.version = v
    BY <2>2, Bounds DEF Idle, RequestRow, RequestStages, Kinds
  <2> HIDE DEF n
  <2>4. Hands(n, Existing', file'.deleted)
    BY <1>3, <2>2, <2>3 DEF Hands
  <2>5. QED
    BY <1>1, <2>1, <2>3, <2>4, RequestBegins DEF n
<1>12. CASE PublishWrite(q)
  <2> DEFINE n == [r EXCEPT !.stage = "enqueue", !.kind = "publish"]
  <2>1. n \in RequestRow /\ n.stage = "enqueue" /\ n.version = r.version
    BY <1>2 DEF RequestRow, RequestStages, Kinds
  <2>2. req' = [req EXCEPT ![q] = n] /\ r.stage = "publish"
    BY <1>12 DEF PublishWrite
  <2> HIDE DEF n
  <2>3. Hands(n, Existing', file'.deleted) /\ n.version \in Versions
    BY <1>2, <1>3, <2>1, <2>2 DEF Hands, Kept, Named
  <2>4. QED
    BY <1>1, <2>1, <2>2, <2>3, RequestBegins
<1>13. CASE DeleteRead(q)
  <2> DEFINE n == [Idle EXCEPT !.stage = "delete"]
  <2>1. n \in RequestRow /\ n.stage = "delete"
    BY Bounds DEF Idle, RequestRow, RequestStages, Kinds
  <2>2. req' = [req EXCEPT ![q] = n]
    BY <1>13 DEF DeleteRead
  <2> HIDE DEF n
  <2>3. Hands(n, Existing', file'.deleted) /\ n.stage \notin Named
    BY <2>1 DEF Hands, Named
  <2>4. QED
    BY <1>1, <2>1, <2>2, <2>3, RequestBegins
<1>14. CASE MarkDeleted(q)
  <2> DEFINE n == [r EXCEPT !.stage = "wipe"]
  <2>1. n \in RequestRow /\ n.stage = "wipe"
    BY <1>2 DEF RequestRow, RequestStages
  <2>2. req' = [req EXCEPT ![q] = n] /\ file'.deleted
    BY <1>14, DeleteRows DEF RowInv, MarkDeleted
  <2> HIDE DEF n
  <2>3. Hands(n, Existing', file'.deleted) /\ n.stage \notin Named
    BY <2>1, <2>2 DEF Hands, Named
  <2>4. QED
    BY <1>1, <2>1, <2>2, <2>3, RequestBegins
<1>15. QED
  BY <1>4, <1>5, <1>6, <1>7, <1>8, <1>9, <1>10, <1>11, <1>12, <1>13, <1>14 DEF RequestStep

-----------------------------------------------------------------------------
(* The objects, the queue, the worker, the history.                        *)

LEMMA Queued ==
    ASSUME QueueOK, NEW t, queue' = [queue EXCEPT ![t] = @ + 1]
    PROVE  QueueOK' /\ \A s \in Kinds \X Versions : queue'[s] >= queue[s] /\ (s = t => queue'[s] > 0)
<1> DEFINE D == Kinds \X Versions
<1>1. queue \in [D -> Nat]
  BY DEF QueueOK
<1> HIDE DEF D
<1>2. queue' = [s \in D |-> IF s = t THEN queue[s] + 1 ELSE queue[s]]
  BY <1>1
<1>3. \A s \in D : queue'[s] \in Nat /\ queue'[s] >= queue[s] /\ (s = t => queue'[s] > 0)
  BY <1>1, <1>2
<1>4. queue' \in [D -> Nat]
  BY <1>2, <1>3
<1>5. QueueOK'
  BY <1>4 DEF QueueOK, D
<1>6. \A s \in Kinds \X Versions : queue'[s] >= queue[s] /\ (s = t => queue'[s] > 0)
  BY <1>3 DEF D
<1>7. QED
  BY <1>5, <1>6

LEMMA RequestsRest ==
    ASSUME RowInv, NEW q \in Requests, RequestStep(q)
    PROVE  ObjectsOK' /\ QueueOK' /\ HistoryOK' /\ UNCHANGED worker
<1> DEFINE r == req[q]
<1>1. ObjectsOK /\ QueueOK /\ HistoryOK /\ r \in RequestRow
      /\ (r.stage \in Named => r.version \in Versions)
  BY TypeParts DEF RowInv, ReqOK
<1> HIDE DEF r
<1>2. CASE UploadFile(q)
  BY <1>1, <1>2, Bounds DEF UploadFile, ObjectsOK, QueueOK, HistoryOK, history
<1>3. CASE PutOriginal(q)
  <2>1. original' = original \cup {r.version} /\ r.version \in Versions
    BY <1>1, <1>3 DEF PutOriginal, r, Named
  <2>2. QED
    BY <1>1, <1>3, <2>1 DEF PutOriginal, ObjectsOK, QueueOK, HistoryOK, history
<1>4. CASE Enqueue(q)
  <2>1. queue' = [queue EXCEPT ![<<r.kind, r.version>>] = @ + 1]
    BY <1>4 DEF Enqueue, r
  <2>2. QueueOK'
    BY <1>1, <2>1, Queued
  <2>3. QED
    BY <1>1, <1>4, <2>2 DEF Enqueue, ObjectsOK, HistoryOK, objects, history
<1>5. CASE EnqueueFails(q) \/ PublishWrite(q)
  <2>1. revived' = revived \cup Revives(r.version) /\ r.version \in Versions
    BY <1>1, <1>5 DEF EnqueueFails, PublishWrite, ToEnqueue, SetVersionStatus, r, Named
  <2>2. Revives(r.version) \subseteq Versions
    BY <2>1 DEF Revives
  <2>3. QED
    BY <1>1, <1>5, <2>1, <2>2
    DEF EnqueueFails, PublishWrite, ObjectsOK, QueueOK, HistoryOK, objects
<1>6. CASE RequestDies(q)
  <2>1. abandoned' \subseteq abandoned \cup ({r.version} \cap Versions)
    BY <1>1, <1>6 DEF RequestDies, r, Named
  <2>2. QED
    BY <1>1, <1>6, <2>1 DEF RequestDies, ObjectsOK, QueueOK, HistoryOK, objects
<1>7. CASE Wipe(q)
  BY <1>1, <1>7 DEF Wipe, ObjectsOK, QueueOK, HistoryOK, objects, history
<1>8. ASSUME NEW v \in Versions, Purge(q, v)
      PROVE  ObjectsOK' /\ QueueOK' /\ HistoryOK' /\ UNCHANGED worker
  BY <1>1, <1>8 DEF Purge, ObjectsOK, QueueOK, HistoryOK, history
<1>9. CASE Reupload(q) \/ ReadWaiting(q) \/ ReuploadRefused(q) \/ NumberTaken(q)
           \/ InsertVersion(q) \/ ReviewWrite(q) \/ DeleteRead(q) \/ MarkDeleted(q)
           \/ \E v \in Versions : ReviewRead(q, v) \/ PublishRead(q, v)
  BY <1>1, <1>9 DEF Reupload, ReadWaiting, ReuploadRefused, NumberTaken, InsertVersion,
     ReviewWrite, DeleteRead, MarkDeleted, ReviewRead, PublishRead, ObjectsOK, QueueOK,
     HistoryOK, objects, history
<1>10. QED
  BY <1>2, <1>3, <1>4, <1>5, <1>6, <1>7, <1>8, <1>9 DEF RequestStep

LEMMA FreeType == Free \in TaskRow /\ Free.stage = "idle"
BY Bounds DEF Free, TaskRow, WorkerStages, Kinds

\* The task in hand is of one version and kind until the worker lets it go.
SameTask == worker'.kind = worker.kind /\ worker'.version = worker.version
Lets == worker' = Free

LEMMA TaskGoes ==
    ASSUME TaskOK, NEW stage \in WorkerStages, worker.stage # "idle",
           worker' = [worker EXCEPT !.stage = stage]
    PROVE  TaskOK' /\ SameTask /\ worker'.stage = stage /\ worker'.previous = worker.previous
BY DEF TaskOK, TaskRow, SameTask

LEMMA TaskStep ==
    ASSUME RowInv, WorkerStep
    PROVE  /\ TaskOK'
           /\ \/ Lets
              \/ worker.stage # "idle" /\ SameTask
              \/ UNCHANGED worker
              \/ /\ worker.stage = "idle" /\ worker'.stage \in Kinds
                 /\ worker'.version \in Existing
<1>1. TaskOK /\ FileOK
  BY TypeParts DEF RowInv
<1>2. ASSUME Lets PROVE TaskOK'
  BY <1>2, FreeType DEF TaskOK, Lets
<1>3. ASSUME NEW kind \in Kinds, NEW v \in Versions, Take(kind, v), worker' # worker
      PROVE  /\ TaskOK' /\ worker.stage = "idle" /\ worker'.stage \in Kinds
             /\ worker'.version \in Existing
  <2> DEFINE t == [Free EXCEPT !.stage = kind, !.version = v, !.kind = kind,
                               !.blocked = version[v].review # "clear"]
  <2>1. worker' = t /\ worker.stage = "idle" /\ version[v].status = WorkOf(kind)
    BY <1>3 DEF Take
  <2>2. v \in 0..MaxVersions /\ kind \in WorkerStages
    BY Bounds DEF Versions, Kinds, WorkerStages
  <2>3. t \in TaskRow /\ t.stage = kind /\ t.version = v /\ t.kind = kind
    BY <2>2, FreeType DEF Free, TaskRow
  <2>4. v \in Existing
    BY <2>1 DEF Existing, WorkOf
  <2>5. QED
    BY <2>1, <2>3, <2>4 DEF TaskOK
<1>4. CASE Profile \/ WriteParquet \/ SwitchRefused
  <2>1. PICK stage \in {"save", "fail", "switch", "drop"} :
            worker' = [worker EXCEPT !.stage = stage]
    BY <1>4 DEF Profile, WriteParquet, SwitchRefused, Fails
  <2>2. worker.stage # "idle"
    BY <1>4 DEF Profile, WriteParquet, SwitchRefused
  <2>3. QED
    BY <1>1, <2>1, <2>2, TaskGoes DEF WorkerStages
<1>5. CASE SwitchServed
  <2> DEFINE p == Replaced(worker.version)
  <2>1. Lets \/ worker' = [worker EXCEPT !.stage = "clean", !.previous = p]
    BY <1>5 DEF SwitchServed, Lets
  <2>2. p \in 0..MaxVersions
    BY <1>1, Bounds DEF Replaced, FileOK, FileRow
  <2> HIDE DEF p
  <2>3. ASSUME worker' = [worker EXCEPT !.stage = "clean", !.previous = p]
        PROVE  TaskOK' /\ SameTask
    BY <1>1, <1>5, <2>2, <2>3 DEF TaskOK, TaskRow, WorkerStages, SameTask, SwitchServed
  <2>4. QED
    BY <1>2, <1>5, <2>1, <2>3 DEF SwitchServed
<1>6. CASE SaveProfile \/ FailVersion \/ Drop \/ Clean \/ TaskRaises \/ WorkerDies
  BY <1>2, <1>6 DEF SaveProfile, FailVersion, Drop, Clean, TaskRaises, WorkerDies, Done, Lets
<1>7. CASE UNCHANGED worker
  BY <1>1, <1>7 DEF TaskOK
<1>8. QED
  BY <1>3, <1>4, <1>5, <1>6, <1>7 DEF WorkerStep

LEMMA TaskHeld ==
    ASSUME RowInv, RowsStep, WorkerStep
    PROVE  HeldOK'
<1>1. Existing \subseteq Existing' /\ (file.deleted => file'.deleted)
  BY DEF RowsStep
<1>2. worker'.stage # "idle" => worker'.version \in Existing
  BY TaskStep, FreeType DEF RowInv, HeldOK, Lets, SameTask
<1>3. worker'.stage = "drop" => file'.deleted
  <2>1. CASE SwitchRefused
    BY <1>1, <2>1 DEF SwitchRefused
  <2>2. CASE ~SwitchRefused
    <3>1. worker'.stage = "drop" => UNCHANGED worker
      <4>1. TaskOK /\ Free.stage # "drop"
        BY FreeType, TypeParts DEF RowInv
      <4>2. QED
        BY <2>2, <4>1 DEF WorkerStep, Take, Profile, SaveProfile, FailVersion, WriteParquet,
           SwitchServed, Drop, Clean, TaskRaises, WorkerDies, Done, Fails, Free, Kinds,
           TaskOK, TaskRow
    <3>2. QED
      BY <1>1, <3>1 DEF RowInv, HeldOK
  <2>3. QED
    BY <2>1, <2>2
<1>4. QED
  BY <1>1, <1>2, <1>3 DEF HeldOK

LEMMA WorkerRest ==
    ASSUME RowInv, WorkerStep
    PROVE  ObjectsOK' /\ QueueOK' /\ HistoryOK' /\ UNCHANGED req
<1> DEFINE v == worker.version
<1>1. ObjectsOK /\ QueueOK /\ HistoryOK /\ (worker.stage # "idle" => v \in Versions)
  BY TypeParts DEF RowInv, TaskOK
<1> HIDE DEF v
<1>2. ASSUME NEW kind \in Kinds, NEW w \in Versions, Take(kind, w)
      PROVE  ObjectsOK' /\ QueueOK' /\ HistoryOK' /\ UNCHANGED req
  <2>1. queue' = [queue EXCEPT ![<<kind, w>>] = @ - 1] /\ queue[<<kind, w>>] > 0
    BY <1>2 DEF Take
  <2>2. queue' \in [Kinds \X Versions -> Nat]
    BY <1>1, <2>1 DEF QueueOK
  <2>3. QED
    BY <1>1, <1>2, <2>2 DEF Take, ObjectsOK, QueueOK, HistoryOK, objects, history
<1>3. CASE Profile \/ WriteParquet
  <2>1. v \in Versions
    BY <1>1, <1>3 DEF Profile, WriteParquet, v
  <2>2. staged' \subseteq staged \cup {v} /\ parquet' \subseteq parquet \cup {v} /\ UNCHANGED original
    BY <1>3 DEF Profile, WriteParquet, objects, v
  <2>3. UNCHANGED <<queue, history, req>>
    BY <1>3 DEF Profile, WriteParquet
  <2>4. QED
    BY <1>1, <2>1, <2>2, <2>3 DEF ObjectsOK, QueueOK, HistoryOK, history
<1>4. CASE SaveProfile \/ FailVersion \/ SwitchServed
  <2>1. revived' = revived \cup Revives(v) /\ v \in Versions
    BY <1>1, <1>4 DEF SaveProfile, FailVersion, SwitchServed, SetVersionStatus, v
  <2>2. Revives(v) \subseteq Versions
    BY <2>1 DEF Revives
  <2>3. QED
    BY <1>1, <1>4, <2>1, <2>2
    DEF SaveProfile, FailVersion, SwitchServed, ObjectsOK, QueueOK, HistoryOK, objects
<1>5. CASE SwitchRefused
  BY <1>1, <1>5 DEF SwitchRefused, ObjectsOK, QueueOK, HistoryOK, objects, history
<1>6. CASE Drop \/ Clean
  BY <1>1, <1>6 DEF Drop, Clean, ObjectsOK, QueueOK, HistoryOK, history
<1>7. CASE TaskRaises
  <2>1. abandoned' \subseteq abandoned \cup {v} /\ v \in Versions
    BY <1>1, <1>7 DEF TaskRaises, v
  <2>2. QED
    BY <1>1, <1>7, <2>1 DEF TaskRaises, ObjectsOK, QueueOK, HistoryOK, objects
<1>8. CASE WorkerDies
  <2>1. queue' = [queue EXCEPT ![Task] = @ + 1] /\ staged' \in {staged, {}}
    BY <1>8 DEF WorkerDies
  <2>2. QueueOK'
    BY <1>1, <2>1, Queued
  <2>3. QED
    BY <1>1, <1>8, <2>1, <2>2 DEF WorkerDies, ObjectsOK, HistoryOK, objects, history
<1>9. QED
  BY <1>2, <1>3, <1>4, <1>5, <1>6, <1>7, <1>8 DEF WorkerStep

LEMMA StepRowInv == RowInv /\ [Next]_vars => RowInv'
<1> SUFFICES ASSUME RowInv, [Next]_vars PROVE RowInv'
  OBVIOUS
<1>1. TypeOK /\ FileOK /\ VersionOK /\ ObjectsOK /\ ReqOK /\ QueueOK /\ TaskOK /\ HistoryOK
  BY TypeParts DEF RowInv
<1>2. ASSUME NEW q \in Requests, RequestStep(q) PROVE RowInv'
  <2>1. RowsStep
    BY <1>2, StepRows DEF Next
  <2>2. ReqOK' /\ HandsOK'
    BY <1>2, <2>1, StepRequests
  <2>3. ObjectsOK' /\ QueueOK' /\ HistoryOK' /\ UNCHANGED worker
    BY <1>2, RequestsRest
  <2>4. TaskOK' /\ HeldOK'
    BY <1>1, <2>1, <2>3 DEF TaskOK, HeldOK, RowInv, RowsStep
  <2>5. QED
    BY <2>1, <2>2, <2>3, <2>4, TypeParts DEF RowInv, RowsStep
<1>3. CASE WorkerStep
  <2>1. RowsStep
    BY <1>3, StepRows DEF Next
  <2>2. TaskOK' /\ HeldOK'
    BY <1>3, <2>1, TaskStep, TaskHeld
  <2>3. ObjectsOK' /\ QueueOK' /\ HistoryOK' /\ UNCHANGED req
    BY <1>3, WorkerRest
  <2>4. ReqOK' /\ HandsOK'
    BY <1>1, <2>1, <2>3, RequestsStay DEF RowInv
  <2>5. QED
    BY <2>1, <2>2, <2>3, <2>4, TypeParts DEF RowInv, RowsStep
<1>4. CASE UNCHANGED vars
  <2>1. RowsStep
    BY <1>4, RowsStay DEF RowInv, vars
  <2>2. ReqOK' /\ HandsOK'
    BY <1>1, <1>4, <2>1, RequestsStay DEF RowInv, vars
  <2>3. ObjectsOK' /\ QueueOK' /\ HistoryOK' /\ TaskOK' /\ HeldOK'
    BY <1>1, <1>4, <2>1 DEF vars, objects, history, ObjectsOK, QueueOK, HistoryOK, TaskOK,
       RowInv, HeldOK, RowsStep
  <2>4. QED
    BY <2>1, <2>2, <2>3, TypeParts DEF RowInv, RowsStep
<1>5. QED
  BY <1>2, <1>3, <1>4 DEF Next

LEMMA InitRowInv == Init => RowInv
<1> SUFFICES ASSUME Init PROVE RowInv
  OBVIOUS
<1>1. FileOK
  BY Bounds DEF Init, FileOK, FileRow
<1>2. VersionOK
  BY DEF Init, VersionOK, VersionRow, NoVersion
<1>3. ReqOK
  BY IdleKept DEF Init, ReqOK, Kept
<1>4. ObjectsOK /\ QueueOK /\ HistoryOK
  BY DEF Init, ObjectsOK, QueueOK, HistoryOK
<1>5. TaskOK /\ HeldOK
  BY FreeType DEF Init, TaskOK, HeldOK
<1>6. HandsOK
  BY IdleKept DEF Init, HandsOK
<1>7. Numbered(0) /\ 0 \in 0..MaxVersions
  <2>1. Existing = {} /\ file.served = 0 /\ 1..0 = {} /\ 0..0 = {0}
    BY DEF Init, Existing, NoVersion
  <2>2. QED
    BY <2>1, Bounds DEF Numbered
<1>8. QED
  BY <1>1, <1>2, <1>3, <1>4, <1>5, <1>6, <1>7, TypeParts DEF RowInv, NumberedOK

\* Type correctness. A file never has a status its CHECK constraint refuses: what
\* supersedes a file's newest version also brings one (upload_new_version), or
\* the file serves another (switch_served_version).
THEOREM TypeCorrect == Spec => []TypeOK
<1>1. RowInv => TypeOK
  BY DEF RowInv
<1>2. QED
  BY <1>1, InitRowInv, StepRowInv, PTL DEF Spec

-----------------------------------------------------------------------------
(* No work is orphaned.                                                    *)

\* Who is to do a version's work. What the worker only cleans up after counts no
\* more: another publication of the version may have been asked for by then.
Asked(r, kind, v) == r.stage \in {"purge", "enqueue"} /\ r.kind = kind /\ r.version = v
Working(t, kind, v) == t.stage \notin {"idle", "clean", "drop"} /\ t.kind = kind /\ t.version = v
Pending(kind, v) ==
    \/ queue[<<kind, v>>] > 0
    \/ Working(worker, kind, v)
    \/ \E q \in Requests : Asked(req[q], kind, v)

Owed(kind, v) == version[v].status = WorkOf(kind) /\ v \notin abandoned
WorkInv == ~file.deleted => \A kind \in Kinds, v \in Versions : Owed(kind, v) => Pending(kind, v)

LEMMA WorkHanded == WorkInv => NoOrphanedWork
BY DEF WorkInv, Owed, Pending, Asked, Working, NoOrphanedWork, Handed

\* The invariant step by step: what was not owed before is in somebody's hands,
\* and who gives a version's work up without handing it on settles its status.
LEMMA WorkStep ==
    ASSUME WorkInv, file.deleted => file'.deleted, abandoned \subseteq abandoned',
           \A kind \in Kinds, v \in Versions :
               Owed(kind, v)' /\ ~Pending(kind, v)' => Owed(kind, v) /\ ~Pending(kind, v)
    PROVE  WorkInv'
BY DEF WorkInv

\* A request gives up nothing but what it was itself to enqueue.
LEMMA RequestPending ==
    ASSUME NEW q \in Requests, UNCHANGED worker,
           \A s \in Kinds \X Versions : queue[s] \in Nat /\ queue'[s] \in Nat /\ queue'[s] >= queue[s],
           \A p \in Requests : p # q => req'[p] = req[p],
           NEW kind \in Kinds, NEW v \in Versions,
           Pending(kind, v), Asked(req[q], kind, v) => Asked(req'[q], kind, v)
    PROVE  Pending(kind, v)'
<1>1. CASE queue[<<kind, v>>] > 0
  <2>1. queue'[<<kind, v>>] > 0
    BY <1>1
  <2>2. QED
    BY <2>1 DEF Pending
<1>2. CASE Working(worker, kind, v)
  BY <1>2 DEF Pending, Working
<1>3. ASSUME NEW p \in Requests, Asked(req[p], kind, v) PROVE Pending(kind, v)'
  BY <1>3 DEF Pending
<1>4. QED
  BY <1>1, <1>2, <1>3 DEF Pending

LEMMA SetStatus ==
    ASSUME VersionOK, NEW v \in Versions, NEW status, SetVersionStatus(v, status)
    PROVE  \A w \in Versions :
               version'[w].status = IF w = v THEN status ELSE version[w].status
BY DEF VersionOK, VersionRow, SetVersionStatus

LEMMA QueueKept ==
    ASSUME QueueOK, UNCHANGED queue
    PROVE  \A s \in Kinds \X Versions : queue[s] \in Nat /\ queue'[s] \in Nat /\ queue'[s] >= queue[s]
BY DEF QueueOK

LEMMA RequestWork ==
    ASSUME RowInv, WorkInv, RowsStep, NEW q \in Requests, RequestStep(q)
    PROVE  WorkInv'
<1> DEFINE r == req[q]
           Lost(kind, v) == Owed(kind, v)' /\ ~Pending(kind, v)' => Owed(kind, v) /\ ~Pending(kind, v)
<1>1. /\ QueueOK /\ VersionOK /\ ReqOK /\ UNCHANGED worker
      /\ file.deleted => file'.deleted
  BY TypeParts, RequestsRest DEF RowInv, RowsStep
<1>2. r.stage \in Named => r.version \in Versions
  BY <1>1 DEF ReqOK
<1>3. \A p \in Requests : p # q => req'[p] = req[p]
  BY <1>1 DEF ReqOK, RequestStep, UploadFile, Reupload, ReadWaiting, PutOriginal,
     ReuploadRefused, NumberTaken, InsertVersion, Enqueue, EnqueueFails, RequestDies,
     ReviewWrite, PublishWrite, DeleteRead, MarkDeleted, Wipe, Purge, ReviewRead,
     PublishRead, Leave
<1>4. ASSUME NEW kind \in Kinds, NEW v \in Versions, UNCHANGED queue,
             Asked(r, kind, v) => Asked(req'[q], kind, v), Pending(kind, v)
      PROVE  Pending(kind, v)'
  BY <1>1, <1>3, <1>4, QueueKept, RequestPending
\* Statuses stay and the request was to enqueue nothing, or still is.
<1>5. ASSUME UNCHANGED <<version, queue, abandoned>>,
             r.stage \in {"purge", "enqueue"} =>
                 /\ req'[q].stage = r.stage /\ req'[q].kind = r.kind
                 /\ req'[q].version = r.version
      PROVE  WorkInv'
  <2>1. ASSUME NEW kind \in Kinds, NEW v \in Versions PROVE Lost(kind, v)
    BY <1>4, <1>5 DEF Owed, Asked
  <2>2. QED
    BY <1>1, <1>5, <2>1, WorkStep
<1>6. CASE UploadFile(q)
  <2>1. /\ version' = [version EXCEPT ![1].status = "profiling"]
        /\ Existing = {} /\ r.stage = "idle" /\ UNCHANGED <<queue, abandoned>>
        /\ req' = [req EXCEPT ![q] = [Idle EXCEPT !.stage = "enqueue", !.version = 1,
                                                  !.kind = "profile"]]
    BY <1>6 DEF UploadFile, history
  <2>2. req'[q].stage = "enqueue" /\ req'[q].version = 1 /\ req'[q].kind = "profile"
    BY <1>1, <2>1 DEF ReqOK, Idle
  <2>3. \A v \in Versions : version'[v].status = IF v = 1 THEN "profiling" ELSE "none"
    BY <1>1, <2>1, Bounds DEF VersionOK, VersionRow, Existing
  <2>4. ASSUME NEW kind \in Kinds, NEW v \in Versions PROVE Lost(kind, v)
    BY <2>2, <2>3 DEF Owed, Pending, Asked, WorkOf, Kinds
  <2>5. QED
    BY <1>1, <2>1, <2>4, WorkStep
<1>7. CASE InsertVersion(q)
  <2>1. r.stage = "insert" /\ UNCHANGED <<queue, abandoned>>
        /\ req' = [req EXCEPT ![q].stage = "purge"]
    BY <1>7 DEF InsertVersion, history
  <2>2. PICK n \in Versions : n = r.version
    BY <1>2, <2>1 DEF Named
  <2>3. r.kind = "profile"
    BY <2>1 DEF RowInv, HandsOK, Hands
  <2>4. req'[q].stage = "purge" /\ req'[q].version = n /\ req'[q].kind = "profile"
    BY <1>1, <2>1, <2>2, <2>3 DEF ReqOK, RequestRow
  <2>5. /\ version'[n].status = "profiling"
        /\ \A w \in Versions : w # n =>
              version'[w].status \in {"superseded", version[w].status}
    BY <1>1, <1>7, <2>2, InsertedStatus
  <2>6. ASSUME NEW kind \in Kinds, NEW v \in Versions PROVE Lost(kind, v)
    <3>1. CASE v = n
      BY <2>4, <2>5, <3>1 DEF Owed, Pending, Asked, WorkOf, Kinds
    <3>2. CASE v # n
      <4>1. Owed(kind, v)' => Owed(kind, v)
        BY <2>1, <2>5, <3>2 DEF Owed, WorkOf
      <4>2. ~Asked(r, kind, v)
        BY <2>1 DEF Asked
      <4>3. QED
        BY <1>4, <2>1, <4>1, <4>2
    <3>3. QED
      BY <3>1, <3>2
  <2>7. QED
    BY <1>1, <2>1, <2>6, WorkStep
<1>8. CASE Enqueue(q)
  <2>1. /\ queue' = [queue EXCEPT ![<<r.kind, r.version>>] = @ + 1]
        /\ ToEnqueue(q) /\ UNCHANGED <<version, abandoned>>
    BY <1>8 DEF Enqueue, rows, history
  <2>2. QueueOK' /\ \A s \in Kinds \X Versions : queue'[s] >= queue[s] /\ (s = <<r.kind, r.version>> => queue'[s] > 0)
    BY <1>1, <2>1, Queued
  <2>3. \A s \in Kinds \X Versions : queue[s] \in Nat /\ queue'[s] \in Nat /\ queue'[s] >= queue[s]
    BY <1>1, <2>2 DEF QueueOK
  <2>4. ASSUME NEW kind \in Kinds, NEW v \in Versions, Pending(kind, v) PROVE Pending(kind, v)'
    <3>1. CASE Asked(r, kind, v)
      <4>1. queue'[<<kind, v>>] > 0
        BY <2>2, <3>1 DEF Asked
      <4>2. QED
        BY <4>1 DEF Pending
    <3>2. CASE ~Asked(r, kind, v)
      BY <1>1, <1>3, <2>3, <2>4, <3>2, RequestPending
    <3>3. QED
      BY <3>1, <3>2
  <2>5. ASSUME NEW kind \in Kinds, NEW v \in Versions PROVE Lost(kind, v)
    BY <2>1, <2>4 DEF Owed
  <2>6. QED
    BY <1>1, <2>1, <2>5, WorkStep
<1>9. CASE EnqueueFails(q)
  <2>1. SetVersionStatus(r.version, "failed") /\ r.version \in Versions
        /\ UNCHANGED <<queue, abandoned>>
    BY <1>2, <1>9 DEF EnqueueFails, ToEnqueue, Named
  <2>2. \A v \in Versions : version'[v].status = IF v = r.version THEN "failed" ELSE version[v].status
    BY <1>1, <2>1, SetStatus
  <2>3. ASSUME NEW kind \in Kinds, NEW v \in Versions PROVE Lost(kind, v)
    <3>1. Owed(kind, v)' => Owed(kind, v) /\ v # r.version
      BY <2>1, <2>2 DEF Owed, WorkOf
    <3>2. QED
      BY <1>4, <2>1, <3>1 DEF Asked
  <2>4. QED
    BY <1>1, <2>1, <2>3, WorkStep
<1>10. CASE PublishWrite(q)
  <2>1. /\ SetVersionStatus(r.version, "publishing") /\ r.version \in Versions
        /\ r.stage = "publish" /\ UNCHANGED <<queue, abandoned>>
        /\ req' = [req EXCEPT ![q] = [@ EXCEPT !.stage = "enqueue", !.kind = "publish"]]
    BY <1>2, <1>10 DEF PublishWrite, Named
  <2>2. \A v \in Versions : version'[v].status = IF v = r.version THEN "publishing" ELSE version[v].status
    BY <1>1, <2>1, SetStatus
  <2>3. req'[q].stage = "enqueue" /\ req'[q].version = r.version /\ req'[q].kind = "publish"
    BY <1>1, <2>1 DEF ReqOK, RequestRow
  <2>4. ASSUME NEW kind \in Kinds, NEW v \in Versions PROVE Lost(kind, v)
    <3>1. CASE v = r.version
      <4>1. Owed(kind, v)' => kind = "publish"
        BY <2>2, <3>1 DEF Owed, WorkOf, Kinds
      <4>2. QED
        BY <2>3, <3>1, <4>1 DEF Pending, Asked
    <3>2. CASE v # r.version
      <4>1. Owed(kind, v)' => Owed(kind, v)
        BY <2>1, <2>2, <3>2 DEF Owed
      <4>2. QED
        BY <1>4, <2>1, <4>1 DEF Asked
    <3>3. QED
      BY <3>1, <3>2
  <2>5. QED
    BY <1>1, <2>1, <2>4, WorkStep
<1>11. CASE ReviewWrite(q)
  <2>1. \A v \in Versions : version'[v].status = version[v].status
    BY <1>1, <1>11 DEF ReviewWrite, VersionOK, VersionRow
  <2>2. r.stage = "review" /\ UNCHANGED <<queue, abandoned>>
    BY <1>11 DEF ReviewWrite, history
  <2>3. ASSUME NEW kind \in Kinds, NEW v \in Versions PROVE Lost(kind, v)
    BY <1>4, <2>1, <2>2 DEF Owed, Asked
  <2>4. QED
    BY <1>1, <2>2, <2>3, WorkStep
<1>12. CASE MarkDeleted(q)
  BY <1>12, DeleteRows DEF RowInv, WorkInv
<1>13. CASE RequestDies(q)
  <2>1. /\ UNCHANGED <<version, queue>> /\ abandoned \subseteq abandoned'
        /\ r.stage \in {"purge", "enqueue"} => r.version \in abandoned'
    BY <1>13 DEF RequestDies, rows
  <2>2. ASSUME NEW kind \in Kinds, NEW v \in Versions PROVE Lost(kind, v)
    <3>1. Owed(kind, v)' => Owed(kind, v) /\ ~Asked(r, kind, v)
      BY <2>1 DEF Owed, Asked
    <3>2. QED
      BY <1>4, <2>1, <3>1
  <2>3. QED
    BY <1>1, <2>1, <2>2, WorkStep
<1>14. ASSUME NEW v \in Versions, Purge(q, v) PROVE WorkInv'
  <2>1. /\ req'[q].stage = r.stage /\ req'[q].kind = r.kind /\ req'[q].version = r.version
        /\ UNCHANGED <<version, queue, abandoned>>
    BY <1>1, <1>14 DEF Purge, ReqOK, RequestRow, rows, history
  <2>2. QED
    BY <1>5, <2>1
<1>15. CASE Reupload(q) \/ ReadWaiting(q) \/ PutOriginal(q) \/ ReuploadRefused(q)
            \/ NumberTaken(q) \/ DeleteRead(q) \/ Wipe(q)
            \/ \E v \in Versions : ReviewRead(q, v) \/ PublishRead(q, v)
  <2>1. r.stage \notin {"purge", "enqueue"} /\ UNCHANGED <<version, queue, abandoned>>
    BY <1>15 DEF Reupload, ReadWaiting, PutOriginal, ReuploadRefused, NumberTaken, DeleteRead,
       Wipe, ReviewRead, PublishRead, rows, history
  <2>2. QED
    BY <1>5, <2>1
<1>16. QED
  BY <1>6, <1>7, <1>8, <1>9, <1>10, <1>11, <1>12, <1>13, <1>14, <1>15 DEF RequestStep

\* The worker gives a task up when the version's status is settled, when the task
\* is the broker's again, or when it dies unacknowledged (abandoned).
LEMMA WorkerPending ==
    ASSUME NEW kind \in Kinds, NEW v \in Versions, UNCHANGED <<req, queue>>,
           Pending(kind, v), Working(worker, kind, v) => Working(worker', kind, v)
    PROVE  Pending(kind, v)'
BY DEF Pending, Working

LEMMA WorkerWork ==
    ASSUME RowInv, WorkInv, RowsStep, WorkerStep
    PROVE  WorkInv'
<1> DEFINE v == worker.version
           Lost(kind, w) == Owed(kind, w)' /\ ~Pending(kind, w)' => Owed(kind, w) /\ ~Pending(kind, w)
<1>1. /\ QueueOK /\ VersionOK /\ TaskOK /\ UNCHANGED req
      /\ file.deleted => file'.deleted
      /\ worker.stage # "idle" => v \in Versions /\ worker.kind \in Kinds
  BY TypeParts, WorkerRest DEF RowInv, RowsStep, TaskOK
<1>2. ASSUME NEW kind \in Kinds, NEW w \in Versions, Take(kind, w) PROVE WorkInv'
  <2>1. /\ worker.stage = "idle" /\ queue[<<kind, w>>] > 0
        /\ queue' = [queue EXCEPT ![<<kind, w>>] = @ - 1]
        /\ UNCHANGED <<version, file, abandoned>>
    BY <1>2 DEF Take, rows, history
  <2>2. CASE version[w].status = WorkOf(kind) /\ ~file.deleted
    <3> DEFINE t == [Free EXCEPT !.stage = kind, !.version = w, !.kind = kind,
                                 !.blocked = version[w].review # "clear"]
    <3>1. worker' = t
      BY <1>2, <2>2 DEF Take
    <3>2. Working(t, kind, w)
      BY DEF Free, Working, Kinds
    <3> HIDE DEF t
    <3>3. ASSUME NEW k \in Kinds, NEW u \in Versions PROVE Lost(k, u)
      <4>1. CASE k = kind /\ u = w
        BY <3>1, <3>2, <4>1 DEF Pending, Working
      <4>2. CASE ~ (k = kind /\ u = w)
        <5>1. queue'[<<k, u>>] = queue[<<k, u>>]
          BY <1>1, <2>1, <4>2 DEF QueueOK
        <5>2. ~Working(worker, k, u)
          BY <2>1 DEF Working
        <5>3. QED
          BY <1>1, <2>1, <5>1, <5>2 DEF Owed, Pending
      <4>3. QED
        BY <4>1, <4>2
    <3>4. QED
      BY <1>1, <2>1, <3>3, WorkStep
  <2>3. CASE ~ (version[w].status = WorkOf(kind) /\ ~file.deleted)
    <3>1. UNCHANGED worker
      BY <1>2, <2>3 DEF Take
    <3>2. CASE file.deleted
      BY <1>1, <3>2 DEF WorkInv
    <3>3. CASE ~file.deleted
      <4>1. ASSUME NEW k \in Kinds, NEW u \in Versions PROVE Lost(k, u)
        <5>1. CASE k = kind /\ u = w
          BY <2>1, <2>3, <3>3, <5>1 DEF Owed
        <5>2. CASE ~ (k = kind /\ u = w)
          <6>1. queue'[<<k, u>>] = queue[<<k, u>>]
            BY <1>1, <2>1, <5>2 DEF QueueOK
          <6>2. QED
            BY <1>1, <2>1, <3>1, <6>1 DEF Owed, Pending
        <5>3. QED
          BY <5>1, <5>2
      <4>2. QED
        BY <1>1, <2>1, <4>1, WorkStep
    <3>4. QED
      BY <3>2, <3>3
  <2>4. QED
    BY <2>2, <2>3
<1>3. CASE Profile \/ WriteParquet
  <2>1. PICK stage \in {"save", "fail", "switch"} : worker' = [worker EXCEPT !.stage = stage]
    BY <1>3 DEF Profile, WriteParquet, Fails
  <2>2. UNCHANGED <<version, queue, abandoned>>
    BY <1>3 DEF Profile, WriteParquet, rows, history
  <2>3. ASSUME NEW k \in Kinds, NEW u \in Versions, Working(worker, k, u)
        PROVE  Working(worker', k, u)
    BY <1>1, <2>1, <2>3 DEF TaskOK, TaskRow, Working
  <2>4. ASSUME NEW k \in Kinds, NEW u \in Versions PROVE Lost(k, u)
    BY <1>1, <2>2, <2>3, WorkerPending DEF Owed
  <2>5. QED
    BY <1>1, <2>2, <2>4, WorkStep
\* The version's status is settled before its task is let go.
<1>4. ASSUME UNCHANGED <<queue, abandoned>>, worker.stage # "idle",
             version'[v].status \notin {"profiling", "publishing"},
             \A w \in Versions : w # v => version'[w].status \in {"superseded", version[w].status}
      PROVE  WorkInv'
  <2>1. ASSUME NEW k \in Kinds, NEW u \in Versions PROVE Lost(k, u)
    <3>1. CASE u = v
      BY <1>4, <3>1 DEF Owed, WorkOf
    <3>2. CASE u # v
      <4>1. Owed(k, u)' => Owed(k, u)
        BY <1>4, <3>2 DEF Owed, WorkOf
      <4>2. ~Working(worker, k, u)
        BY <3>2 DEF Working
      <4>3. QED
        BY <1>1, <1>4, <4>1, <4>2, WorkerPending
    <3>3. QED
      BY <3>1, <3>2
  <2>2. QED
    BY <1>1, <1>4, <2>1, WorkStep
<1>5. CASE SaveProfile
  <2>1. /\ version' = [version EXCEPT ![v] = [@ EXCEPT !.status = "needs_review", !.review = "open"]]
        /\ worker.stage = "save" /\ UNCHANGED <<queue, abandoned>>
    BY <1>5 DEF SaveProfile
  <2>2. \A w \in Versions :
            version'[w].status = IF w = v THEN "needs_review" ELSE version[w].status
    BY <1>1, <2>1 DEF VersionOK, VersionRow
  <2>3. QED
    BY <1>1, <1>4, <2>1, <2>2
<1>6. CASE FailVersion
  <2>1. SetVersionStatus(v, "failed") /\ worker.stage = "fail" /\ UNCHANGED <<queue, abandoned>>
    BY <1>6 DEF FailVersion
  <2>2. \A w \in Versions : version'[w].status = IF w = v THEN "failed" ELSE version[w].status
    BY <1>1, <2>1, SetStatus
  <2>3. QED
    BY <1>1, <1>4, <2>1, <2>2
<1>7. CASE SwitchServed
  <2>1. version' = Switched(v) /\ worker.stage = "switch" /\ UNCHANGED <<queue, abandoned>>
    BY <1>7 DEF SwitchServed
  <2>2. \A w \in Versions :
            version'[w].status = IF w = v THEN "ready"
                                 ELSE IF w = file.served THEN "superseded" ELSE version[w].status
    BY <1>1, <2>1 DEF VersionOK, VersionRow, Switched
  <2>3. QED
    BY <1>1, <1>4, <2>1, <2>2
<1>8. CASE SwitchRefused \/ Drop
  <2>1. file.deleted
    BY <1>8 DEF SwitchRefused, Drop, RowInv, HeldOK
  <2>2. QED
    BY <1>1, <2>1 DEF WorkInv
<1>9. CASE Clean
  <2>1. worker.stage = "clean" /\ UNCHANGED <<version, queue, abandoned>>
    BY <1>9 DEF Clean, rows, history
  <2>2. ASSUME NEW k \in Kinds, NEW u \in Versions PROVE Lost(k, u)
    BY <1>1, <2>1, WorkerPending DEF Owed, Working
  <2>3. QED
    BY <1>1, <2>1, <2>2, WorkStep
<1>10. CASE TaskRaises
  <2>1. /\ UNCHANGED <<version, queue>> /\ abandoned \subseteq abandoned'
        /\ worker.stage \notin {"idle", "clean", "drop"} => v \in abandoned'
    BY <1>10 DEF TaskRaises, rows
  <2>2. ASSUME NEW k \in Kinds, NEW u \in Versions PROVE Lost(k, u)
    <3>1. Owed(k, u)' => Owed(k, u) /\ ~Working(worker, k, u)
      BY <2>1 DEF Owed, Working
    <3>2. QED
      BY <1>1, <2>1, <3>1, WorkerPending
  <2>3. QED
    BY <1>1, <2>1, <2>2, WorkStep
<1>11. CASE WorkerDies
  <2>1. /\ queue' = [queue EXCEPT ![<<worker.kind, v>>] = @ + 1]
        /\ UNCHANGED <<version, abandoned>>
    BY <1>11 DEF WorkerDies, Task, rows, history
  <2>2. QueueOK' /\ \A s \in Kinds \X Versions : queue'[s] >= queue[s] /\ (s = <<worker.kind, v>> => queue'[s] > 0)
    BY <1>1, <2>1, Queued
  <2>3. ASSUME NEW k \in Kinds, NEW u \in Versions PROVE Lost(k, u)
    <3>1. /\ queue[<<k, u>>] \in Nat /\ queue'[<<k, u>>] \in Nat
          /\ queue'[<<k, u>>] >= queue[<<k, u>>]
          /\ Working(worker, k, u) => queue'[<<k, u>>] > 0
      BY <1>1, <2>2 DEF QueueOK, Working
    <3>2. QED
      BY <1>1, <2>1, <3>1 DEF Owed, Pending
  <2>4. QED
    BY <1>1, <2>1, <2>3, WorkStep
<1>12. QED
  BY <1>2, <1>3, <1>5, <1>6, <1>7, <1>8, <1>9, <1>10, <1>11 DEF WorkerStep

LEMMA StepWork == RowInv /\ WorkInv /\ [Next]_vars => WorkInv'
<1> SUFFICES ASSUME RowInv, WorkInv, [Next]_vars PROVE WorkInv'
  OBVIOUS
<1>1. CASE Next
  BY <1>1, StepRows, RequestWork, WorkerWork DEF Next
<1>2. CASE UNCHANGED vars
  <2>1. UNCHANGED <<file, version, queue, worker, req, abandoned>>
    BY <1>2 DEF vars, rows, history
  <2>2. QED
    BY <2>1 DEF WorkInv, Owed, Pending
<1>3. QED
  BY <1>1, <1>2

\* A version that says it is being profiled or published is in somebody's hands,
\* through failed enqueues, redeliveries, late writes and superseding uploads, but
\* for one whose request or task died before it handed on (_enqueue_or_fail, _fail).
THEOREM NoneOrphaned == Spec => []NoOrphanedWork
<1>1. Init => WorkInv
  BY DEF Init, WorkInv, Owed, NoVersion, WorkOf
<1>2. QED
  BY <1>1, InitRowInv, StepRowInv, StepWork, WorkHanded, PTL DEF Spec

-----------------------------------------------------------------------------
(* What is offered has its data.                                           *)

\* A version out of use: superseded, or taken out of superseded by a late write,
\* or its file deleted. Only such a version loses its objects.
Gone(v) == version[v].status = "superseded" \/ v \in revived \/ file.deleted

DataInv ==
    /\ \A v \in Versions :
          file.served = v /\ version[v].status = "ready" => v \in parquet \/ Gone(v)
    /\ \A q \in Requests : req[q].stage = "purge" => \A v \in req[q].old : Gone(v)
    /\ worker.stage = "clean" => worker.previous \in Versions /\ Gone(worker.previous)
    /\ worker.stage = "switch" => worker.version \in parquet \/ Gone(worker.version)

LEMMA DataOffered == DataInv => OfferedHasParquet
BY DEF DataInv, Gone, OfferedHasParquet, Offered

\* A version's status leaves superseded by a deletion, or is noted.
LEMMA GoneStays ==
    ASSUME RowInv, RowsStep, Next, NEW v \in Versions, Gone(v)
    PROVE  Gone(v)'
<1>1. VersionOK /\ ReqOK /\ TaskOK /\ (file.deleted => file'.deleted)
  BY TypeParts DEF RowInv, RowsStep
<1>2. ASSUME revived \subseteq revived', version'[v].status = version[v].status PROVE Gone(v)'
  BY <1>1, <1>2 DEF Gone
<1>3. ASSUME NEW w \in Versions, NEW status, SetVersionStatus(w, status) PROVE Gone(v)'
  <2>1. version'[v].status = IF v = w THEN status ELSE version[v].status
    BY <1>1, <1>3, SetStatus
  <2>2. revived' = revived \cup Revives(w)
    BY <1>3 DEF SetVersionStatus
  <2>3. QED
    BY <1>1, <2>1, <2>2 DEF Gone, Revives
<1>4. ASSUME NEW q \in Requests, RequestStep(q) PROVE Gone(v)'
  <2>1. CASE UploadFile(q)
    <3>1. Existing = {} /\ version' = [version EXCEPT ![1].status = "profiling"] /\ UNCHANGED revived
      BY <2>1 DEF UploadFile, history
    <3>2. version[v].status = "none"
      BY <3>1 DEF Existing
    <3>3. QED
      BY <1>1, <3>1, <3>2 DEF Gone
  <2>2. CASE InsertVersion(q)
    <3>1. PICK n \in Versions : n = req[q].version
      BY <1>1, <2>2 DEF InsertVersion, ReqOK, Named
    <3>2. n \notin Existing /\ UNCHANGED revived
      BY <2>2, <3>1 DEF InsertVersion, history
    <3>3. v # n => version'[v].status \in {"superseded", version[v].status}
      BY <1>1, <2>2, <3>1, InsertedStatus
    <3>4. v = n => version[v].status = "none"
      BY <3>2 DEF Existing
    <3>5. QED
      BY <1>1, <3>2, <3>3, <3>4 DEF Gone
  <2>3. CASE EnqueueFails(q)
    BY <1>1, <1>3, <2>3 DEF EnqueueFails, ToEnqueue, ReqOK, Named
  <2>4. CASE PublishWrite(q)
    BY <1>1, <1>3, <2>4 DEF PublishWrite, ReqOK, Named
  <2>5. CASE ReviewWrite(q)
    <3>1. version'[v].status = version[v].status
      BY <1>1, <2>5 DEF ReviewWrite, VersionOK, VersionRow
    <3>2. QED
      BY <1>2, <2>5, <3>1 DEF ReviewWrite, history
  <2>6. CASE MarkDeleted(q)
    BY <2>6, DeleteRows DEF RowInv, Gone
  <2>7. CASE \/ Reupload(q) \/ ReadWaiting(q) \/ PutOriginal(q) \/ ReuploadRefused(q)
             \/ NumberTaken(q) \/ Enqueue(q) \/ RequestDies(q) \/ DeleteRead(q) \/ Wipe(q)
             \/ \E w \in Versions : Purge(q, w) \/ ReviewRead(q, w) \/ PublishRead(q, w)
    <3>1. UNCHANGED revived
      BY <2>7 DEF Reupload, ReadWaiting, PutOriginal, ReuploadRefused, NumberTaken, Enqueue,
         RequestDies, DeleteRead, Wipe, Purge, ReviewRead, PublishRead, history
    <3>2. QED
      BY <1>2, <2>7, <3>1, QuietRows DEF rows
  <2>8. QED
    BY <1>4, <2>1, <2>2, <2>3, <2>4, <2>5, <2>6, <2>7 DEF RequestStep
<1>5. CASE WorkerStep
  <2>1. CASE SaveProfile
    <3>1. version'[v].status = IF v = worker.version THEN "needs_review" ELSE version[v].status
      BY <1>1, <2>1 DEF SaveProfile, VersionOK, VersionRow
    <3>2. revived' = revived \cup Revives(worker.version)
      BY <2>1 DEF SaveProfile
    <3>3. QED
      BY <1>1, <3>1, <3>2 DEF Gone, Revives
  <2>2. CASE FailVersion
    BY <1>1, <1>3, <2>2 DEF FailVersion, TaskOK
  <2>3. CASE SwitchServed
    <3>1. version' = Switched(worker.version) /\ revived' = revived \cup Revives(worker.version)
      BY <2>3 DEF SwitchServed
    <3>2. version'[v].status = IF v = worker.version THEN "ready"
                               ELSE IF v = file.served THEN "superseded" ELSE version[v].status
      BY <1>1, <3>1 DEF VersionOK, VersionRow, Switched
    <3>3. QED
      BY <1>1, <3>1, <3>2 DEF Gone, Revives
  <2>4. CASE \/ \E kind \in Kinds, w \in Versions : Take(kind, w)
             \/ Profile \/ WriteParquet \/ SwitchRefused \/ Drop \/ Clean \/ TaskRaises
             \/ WorkerDies
    <3>1. UNCHANGED revived
      BY <2>4 DEF Take, Profile, WriteParquet, SwitchRefused, Drop, Clean, TaskRaises,
         WorkerDies, history
    <3>2. QED
      BY <1>2, <2>4, <3>1, QuietWork DEF rows
  <2>5. QED
    BY <1>5, <2>1, <2>2, <2>3, <2>4 DEF WorkerStep
<1>6. QED
  BY <1>4, <1>5 DEF Next

\* Objects go of versions out of use only.
LEMMA DataGoes ==
    ASSUME RowInv, DataInv, Next, NEW v \in Versions, v \in parquet
    PROVE  v \in parquet' \/ Gone(v)
<1>1. ASSUME NEW q \in Requests, RequestStep(q) PROVE v \in parquet' \/ Gone(v)
  <2>1. ASSUME NEW w \in Versions, Purge(q, w) PROVE v \in parquet' \/ Gone(v)
    BY <2>1 DEF Purge, DataInv
  <2>2. CASE Wipe(q)
    BY <2>2 DEF Wipe, RowInv, HandsOK, Hands, Gone
  <2>3. CASE UNCHANGED parquet
    BY <2>3
  <2>4. QED
    BY <1>1, <2>1, <2>2, <2>3
    DEF RequestStep, UploadFile, Reupload, ReadWaiting, PutOriginal, ReuploadRefused, NumberTaken,
        InsertVersion, Enqueue, EnqueueFails, RequestDies, ReviewWrite, PublishWrite, DeleteRead,
        MarkDeleted, ReviewRead, PublishRead, objects
<1>2. CASE WorkerStep
  <2>1. CASE Drop
    BY <2>1 DEF Drop, RowInv, HeldOK, Gone
  <2>2. CASE Clean
    BY <2>2 DEF Clean, DataInv
  <2>3. CASE WriteParquet
    BY <2>3 DEF WriteParquet
  <2>4. QED
    BY <1>2, <2>1, <2>2, <2>3
    DEF WorkerStep, Take, Profile, SaveProfile, FailVersion, SwitchServed, SwitchRefused,
        TaskRaises, WorkerDies, objects
<1>3. QED
  BY <1>1, <1>2 DEF Next

\* Where the worker's stages switch and clean come from.
LEMMA TaskAt ==
    ASSUME RowInv, Next
    PROVE  /\ worker'.stage = "clean" => SwitchServed \/ UNCHANGED worker
           /\ worker'.stage = "switch" => WriteParquet \/ UNCHANGED worker
<1>1. TaskOK
  BY TypeParts DEF RowInv
<1>2. Free.stage = "idle"
  BY FreeType
<1>3. CASE worker' = Free
  BY <1>2, <1>3
<1>4. ASSUME NEW kind \in Kinds, NEW v \in Versions, Take(kind, v)
      PROVE  UNCHANGED worker \/ worker'.stage \in Kinds
  BY <1>4 DEF Take, Free
<1>5. CASE Profile \/ SwitchRefused
  <2>1. PICK stage \in {"save", "fail", "drop"} : worker' = [worker EXCEPT !.stage = stage]
    BY <1>5 DEF Profile, SwitchRefused, Fails
  <2>2. worker'.stage = stage
    BY <1>1, <2>1 DEF TaskOK, TaskRow
  <2>3. QED
    BY <2>2
<1>6. CASE WriteParquet
  <2>1. PICK stage \in {"fail", "switch"} : worker' = [worker EXCEPT !.stage = stage]
    BY <1>6 DEF WriteParquet, Fails
  <2>2. worker'.stage = stage
    BY <1>1, <2>1 DEF TaskOK, TaskRow
  <2>3. QED
    BY <1>6, <2>2
<1>7. CASE SwitchServed
  <2>1. worker' = Free \/ worker'.stage = "clean"
    BY <1>1, <1>7 DEF SwitchServed, TaskOK, TaskRow
  <2>2. QED
    BY <1>2, <1>7, <2>1
<1>8. CASE UNCHANGED worker
  BY <1>8
<1>9. CASE WorkerStep
  BY <1>3, <1>4, <1>5, <1>6, <1>7, <1>9
  DEF WorkerStep, SaveProfile, FailVersion, Drop, Clean, TaskRaises, WorkerDies, Done, Kinds
<1>10. QED
  BY <1>8, <1>9, RequestsRest DEF Next

\* A version comes to be served, and ready, by its publication only.
LEMMA ServedReady ==
    ASSUME RowInv, Next, NEW v \in Versions, file'.served = v, version'[v].status = "ready"
    PROVE  \/ file.served = v /\ version[v].status = "ready"
           \/ SwitchServed /\ v = worker.version
<1>1. VersionOK /\ ReqOK /\ TaskOK /\ FileOK /\ v # 0
  BY TypeParts, Bounds DEF RowInv, Versions
<1>2. ASSUME file' = Refreshed(version') PROVE file'.served = file.served
  BY <1>1, <1>2 DEF Refreshed, FileOK, FileRow
<1>3. ASSUME NEW w \in Versions, NEW status, SetVersionStatus(w, status), status # "ready"
      PROVE  file.served = v /\ version[v].status = "ready"
  BY <1>1, <1>2, <1>3, SetStatus DEF SetVersionStatus
<1>4. CASE UNCHANGED rows
  BY <1>4 DEF rows
<1>5. ASSUME NEW q \in Requests, RequestStep(q)
      PROVE  file.served = v /\ version[v].status = "ready"
  <2>1. CASE UploadFile(q)
    <3>1. Existing = {} /\ version' = [version EXCEPT ![1].status = "profiling"]
      BY <2>1 DEF UploadFile
    <3>2. version[v].status = "none"
      BY <3>1 DEF Existing
    <3>3. QED
      BY <1>1, <3>1, <3>2 DEF VersionOK, VersionRow
  <2>2. CASE InsertVersion(q)
    <3>1. PICK n \in Versions : n = req[q].version
      BY <1>1, <2>2 DEF InsertVersion, ReqOK, Named
    <3>2. version'[n].status = "profiling"
          /\ (v # n => version'[v].status \in {"superseded", version[v].status})
      BY <1>1, <2>2, <3>1, InsertedStatus
    <3>3. QED
      BY <1>2, <2>2, <3>2 DEF InsertVersion
  <2>3. CASE EnqueueFails(q)
    BY <1>1, <1>3, <2>3 DEF EnqueueFails, ToEnqueue, ReqOK, Named
  <2>4. CASE PublishWrite(q)
    BY <1>1, <1>3, <2>4 DEF PublishWrite, ReqOK, Named
  <2>5. CASE ReviewWrite(q)
    BY <1>1, <2>5 DEF ReviewWrite, VersionOK, VersionRow
  <2>6. CASE MarkDeleted(q)
    <3>1. UNCHANGED rows \/ file' = [status |-> "deleted", served |-> 0, deleted |-> TRUE]
      BY <2>6 DEF MarkDeleted
    <3>2. file'.served # 0
      BY <1>1
    <3>3. UNCHANGED rows
      BY <3>1, <3>2
    <3>4. QED
      BY <1>4, <3>3 DEF rows
  <2>7. QED
    BY <1>4, <1>5, <2>1, <2>2, <2>3, <2>4, <2>5, <2>6, QuietRows DEF RequestStep, rows
<1>6. CASE WorkerStep
  <2>1. CASE SaveProfile
    <3>1. version'[v].status = IF v = worker.version THEN "needs_review" ELSE version[v].status
      BY <1>1, <2>1 DEF SaveProfile, VersionOK, VersionRow
    <3>2. QED
      BY <1>2, <2>1, <3>1 DEF SaveProfile
  <2>2. CASE FailVersion
    BY <1>1, <1>3, <2>2 DEF FailVersion, TaskOK
  <2>3. CASE SwitchServed
    BY <1>1, <2>3 DEF SwitchServed, FileOK, FileRow
  <2>4. QED
    BY <1>4, <1>6, <2>1, <2>2, <2>3, QuietWork DEF WorkerStep
<1>7. QED
  BY <1>5, <1>6 DEF Next

\* What a request purges was superseded in its own transaction.
LEMMA PurgeGone ==
    ASSUME RowInv, RowsStep, DataInv, Next, NEW q \in Requests, req'[q].stage = "purge",
           NEW v \in req'[q].old
    PROVE  Gone(v)'
<1>1. ReqOK /\ VersionOK
  BY TypeParts DEF RowInv
<1>2. CASE req[q].stage = "purge" /\ v \in req[q].old
  <2>1. Gone(v) /\ v \in Versions
    BY <1>1, <1>2 DEF DataInv, ReqOK, RequestRow
  <2>2. QED
    BY <2>1, GoneStays
<1>3. CASE InsertVersion(q)
  <2>1. PICK n \in Versions : n = req[q].version
    BY <1>1, <1>3 DEF InsertVersion, ReqOK, Named
  <2>2. v \in req[q].old
    BY <1>1, <1>3 DEF InsertVersion, ReqOK, RequestRow
  <2>3. v # n /\ v \in Versions
    <3>1. req[q].old \subseteq 1..n - 1 /\ req[q].old \subseteq Versions
      BY <1>1, <1>3, <2>1 DEF InsertVersion, RowInv, HandsOK, Hands, ReqOK, RequestRow
    <3>2. QED
      BY <2>2, <3>1, Bounds DEF Versions
  <2>4. version'[v].status = "superseded"
    BY <1>1, <1>3, <2>1, <2>2, <2>3, InsertedStatus
  <2>5. QED
    BY <2>4 DEF Gone
<1>4. CASE ~InsertVersion(q)
  <2>1. req[q].stage = "purge" /\ v \in req[q].old
    <3>1. ASSUME NEW p \in Requests, RequestStep(p), p # q PROVE req'[q] = req[q]
      BY <1>1, <3>1 DEF ReqOK, RequestStep, UploadFile, Reupload, ReadWaiting, PutOriginal,
         ReuploadRefused, NumberTaken, InsertVersion, Enqueue, EnqueueFails, RequestDies,
         ReviewWrite, PublishWrite, DeleteRead, MarkDeleted, Wipe, Purge, ReviewRead,
         PublishRead, Leave
    <3>2. ASSUME RequestStep(q) PROVE req[q].stage = "purge" /\ v \in req[q].old
      <4>1. CASE \E w \in Versions : Purge(q, w)
        BY <1>1, <4>1 DEF Purge, ReqOK, RequestRow
      <4>2. CASE ~ \E w \in Versions : Purge(q, w)
        <5>1. req \in [Requests -> RequestRow]
          BY <1>1 DEF ReqOK
        <5>2. CASE Leave(q)
          BY <5>1, <5>2, IdleKept DEF Leave
        <5>3. CASE UploadFile(q) \/ Reupload(q) \/ DeleteRead(q)
                   \/ \E w \in Versions : ReviewRead(q, w) \/ PublishRead(q, w)
          <6>1. req'[q].stage \in {"enqueue", "receive", "delete"}
                \/ \E w \in Versions : ReviewRead(q, w) \/ PublishRead(q, w)
            BY <5>1, <5>3 DEF UploadFile, Reupload, DeleteRead, Idle
          <6>2. ASSUME NEW w \in Versions, ReviewRead(q, w) \/ PublishRead(q, w)
                PROVE  req'[q].stage \in {"review", "publish"}
            BY <5>1, <6>2 DEF ReviewRead, PublishRead, Idle
          <6>3. QED
            BY <6>1, <6>2
        <5>4. CASE ReadWaiting(q) \/ PutOriginal(q) \/ PublishWrite(q) \/ MarkDeleted(q)
          <6>1. PICK n \in {"supersede", "insert", "enqueue", "wipe"} : req'[q].stage = n
            BY <5>1, <5>4 DEF ReadWaiting, PutOriginal, PublishWrite, MarkDeleted, RequestRow
          <6>2. QED
            BY <6>1
        <5>5. QED
          BY <1>4, <3>2, <4>2, <5>2, <5>3, <5>4 DEF RequestStep, ReuploadRefused, NumberTaken,
             Enqueue, EnqueueFails, RequestDies, ReviewWrite, Wipe
      <4>3. QED
        BY <4>1, <4>2
    <3>3. WorkerStep => UNCHANGED req
      BY WorkerRest DEF RowInv
    <3>4. QED
      BY <3>1, <3>2, <3>3 DEF Next
  <2>2. QED
    BY <1>2, <2>1
<1>5. QED
  BY <1>3, <1>4

LEMMA StepData == RowInv /\ DataInv /\ [Next]_vars => DataInv'
<1> SUFFICES ASSUME RowInv, DataInv, [Next]_vars PROVE DataInv'
  OBVIOUS
<1>1. CASE Next
  <2>1. RowsStep
    BY <1>1, StepRows
  <2>2. VersionOK /\ TaskOK /\ FileOK
    BY TypeParts DEF RowInv
  <2>3. ASSUME NEW v \in Versions, v \in parquet \/ Gone(v) PROVE v \in parquet' \/ Gone(v)'
    BY <1>1, <2>1, <2>3, DataGoes, GoneStays
  <2>4. ASSUME NEW v \in Versions, file'.served = v, version'[v].status = "ready"
        PROVE  v \in parquet' \/ Gone(v)'
    <3>1. v \in parquet \/ Gone(v)
      BY <1>1, <2>4, ServedReady DEF DataInv, SwitchServed
    <3>2. QED
      BY <2>3, <3>1
  <2>5. ASSUME NEW q \in Requests, req'[q].stage = "purge", NEW v \in req'[q].old PROVE Gone(v)'
    BY <1>1, <2>1, <2>5, PurgeGone
  <2>6. ASSUME worker'.stage = "clean"
        PROVE  worker'.previous \in Versions /\ \A v \in Versions : v = worker'.previous => Gone(v)'
    <3>1. CASE SwitchServed
      <4>1. PICK p \in Versions : p = worker'.previous /\ p = file.served /\ p # worker.version
        <5>1. Replaced(worker.version) # 0 /\ worker'.previous = Replaced(worker.version)
          BY <2>2, <2>6, <3>1 DEF SwitchServed, TaskOK, TaskRow, Free
        <5>2. QED
          BY <2>2, <5>1, Bounds DEF Replaced, FileOK, FileRow, Versions
      <4>2. version'[p].status = "superseded"
        BY <2>2, <3>1, <4>1 DEF SwitchServed, Switched, VersionOK, VersionRow
      <4>3. QED
        BY <4>1, <4>2 DEF Gone
    <3>2. CASE ~SwitchServed
      <4>1. UNCHANGED worker
        BY <1>1, <2>6, <3>2, TaskAt
      <4>2. PICK p \in Versions : p = worker.previous
        BY <2>6, <4>1 DEF DataInv
      <4>3. Gone(p)
        BY <2>6, <4>1, <4>2 DEF DataInv
      <4>4. Gone(p)'
        BY <1>1, <2>1, <4>3, GoneStays
      <4>5. QED
        BY <4>1, <4>2, <4>4
    <3>3. QED
      BY <3>1, <3>2
  <2>7. ASSUME worker'.stage = "switch"
        PROVE  \A v \in Versions : v = worker'.version => v \in parquet' \/ Gone(v)'
    <3>1. CASE WriteParquet
      BY <2>2, <2>7, <3>1 DEF WriteParquet, Fails, TaskOK, TaskRow
    <3>2. CASE ~WriteParquet
      <4>1. UNCHANGED worker
        BY <1>1, <2>7, <3>2, TaskAt
      <4>2. QED
        BY <2>3, <2>7, <4>1 DEF DataInv
    <3>3. QED
      BY <3>1, <3>2
  <2>8. worker'.stage = "clean" => Gone(worker.previous)'
    BY <2>6 DEF Gone
  <2>9. worker'.stage = "switch" => worker'.version \in parquet' \/ Gone(worker.version)'
    <3>1. worker'.stage # "idle" => worker'.version \in Versions
      BY StepRowInv, TypeParts DEF RowInv, TaskOK
    <3>2. QED
      BY <2>7, <3>1 DEF Gone
  <2>10. QED
    BY <2>4, <2>5, <2>6, <2>8, <2>9 DEF DataInv
<1>2. CASE UNCHANGED vars
  BY <1>2 DEF vars, rows, objects, history, DataInv, Gone
<1>3. QED
  BY <1>1, <1>2

\* The version chat is offered has its data.parquet, whatever purges, cleans up
\* and publishes beside it (switch_served_version, upload_new_version), unless a
\* late write took it out of superseded.
THEOREM OfferedHasData == Spec => []OfferedHasParquet
<1>1. Init => DataInv
  BY DEF Init, DataInv, NoVersion, Idle, Free
<1>2. QED
  BY <1>1, InitRowInv, StepRowInv, StepData, DataOffered, PTL DEF Spec
=============================================================================
